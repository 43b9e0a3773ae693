\* One or two Gateways and VirtualServices, converted in every order.
CONSTANTS
  None = None
  Inputs <- MCInputs
  Addresses <- MCAddresses
SPECIFICATION Spec
INVARIANTS
  RequestsServed
  RoutesTellTruth
  GrantsCover
