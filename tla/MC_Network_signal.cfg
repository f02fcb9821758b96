\* network.py with two long-running commands.
CONSTANT Steps <- MCSteps
SPECIFICATION Spec
\* The script really stops: pc = "exited" has no successor.
CHECK_DEADLOCK FALSE
INVARIANT NoOrphanAfterSignal
