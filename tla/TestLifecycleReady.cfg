\* Is a controller installed when Wait returned nil?
CONSTANTS
  a = a
  b = b
  None = None
  Tests = {a, b}
  NeedsOf <- MCNeeds
  StepsOf <- MCSteps
SPECIFICATION Spec
\* the program stops when both tests have ended
CHECK_DEADLOCK FALSE
INVARIANT
  WaitMeansReady
