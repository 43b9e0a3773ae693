\* As Istio.cfg; converter.go:756 says which rewrite goes with which matches.
CONSTANTS
  None = None
  Inputs <- MCInputs
  Addresses <- MCAddresses
SPECIFICATION Spec
INVARIANTS
  RewritesFit
