\* The sweep over three countries of up to two hostnames, read from every
\* file of up to six lines over three country codes.
CONSTANTS
  NumCountries    <- MCNumCountries
  MaxHosts        <- MCMaxHosts
  InitSteps       <- MCInitSteps
  CompletionSteps <- MCCompletionSteps
  Codes           <- MCCodes
  MaxLines        <- MCMaxLines
SPECIFICATION Spec
\* The process really stops: pc = "exited" has no successor.
CHECK_DEADLOCK FALSE
INVARIANT TypeOK
INVARIANT ReadFaithful
INVARIANT MatrixSymmetric
INVARIANT SucceededWithCurrentHosts
PROPERTY IsolatedIsFinal
PROPERTY Termination
