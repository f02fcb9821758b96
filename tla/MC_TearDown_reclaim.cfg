\* Every listing of up to two processes with pgids of 1 to 5 digits.
CONSTANTS
  PgidColumn <- MCPgidColumn
  MaxDigits  <- MCMaxDigits
  MaxProcs   <- MCMaxProcs
SPECIFICATION Spec
\* The script really stops: pc = "exited" has no successor.
CHECK_DEADLOCK FALSE
\* A tunnel whose pgid has fewer than 4 or exactly 5 digits, or a second tunnel.
INVARIANT TunnelReclaimed
