\* The sweep over three countries of up to two hostnames.
CONSTANTS
  NumCountries    <- MCNumCountries
  MaxHosts        <- MCMaxHosts
  InitSteps       <- MCInitSteps
  CompletionSteps <- MCCompletionSteps
  Codes           <- MCCodes
  MaxLines        <- MCMaxLines
SPECIFICATION Spec
\* The process really stops: pc = "exited" has no successor.
CHECK_DEADLOCK FALSE





INVARIANT AuditComplete
