\* Two tests that need 4 and 3 slots, and one slot more than they can hoard.
CONSTANTS
  a = a
  b = b
  Tests = {a, b}
  Slots = 6
  Services <- MCServices
  HTTPS = {a}
  MaxAttempts = 2
SPECIFICATION FairSpec
INVARIANTS
  SlotsAccounted
  OnlyFailedSetUpLeaks
PROPERTIES
  TestsEnd
