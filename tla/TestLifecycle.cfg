\* Two tests on one cluster, every step of which may fail.
CONSTANTS
  a = a
  b = b
  None = None
  Tests = {a, b}
  NeedsOf <- MCNeeds
  StepsOf <- MCSteps
SPECIFICATION FairSpec
\* the program stops when both tests have ended
CHECK_DEADLOCK FALSE
INVARIANTS
  ControllersHaveCRDs
  RunsOnPresent
  
PROPERTIES
  NamespaceDeletedFirst
  
  EndsReleased
