\* Three callers of one resource and one of another.
CONSTANTS
  h1 = h1
  h2 = h2
  h3 = h3
  h4 = h4
  crds = crds
  kong = kong
  None = None
  Keys = {crds, kong}
  Handles = {h1, h2, h3, h4}
  KeyOf <- MCKeyOf
SPECIFICATION FairSpec
\* every call ends in "done": the program stops when all tests have ended
CHECK_DEADLOCK FALSE
INVARIANTS
  UsedIsIntact
  NothingForgotten
PROPERTIES
  ImplementsSharedResource
  CallsReturn
  ClusterLeftClean
