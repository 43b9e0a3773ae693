\* Conversion of every document of MCOpenAPI3; two matches in a rule and two rules in a route.
CONSTANTS
  Documents <- MCDocuments
  MaxMatches = 2
  MaxRules = 2
  Earlier <- MCEarlier
  Less <- MCLess
SPECIFICATION Spec
\* the conversion of one document ends
CHECK_DEADLOCK FALSE
INVARIANTS
  OperationsAnswered
  NothingElseAnswered
