\* Conversion of every input of MCKong; Gateways hold three listeners.
CONSTANTS
  Inputs <- MCInputs
  ServicePorts = {}
  ImplSpecific = TRUE
  SlashedClasses = {"a/b"}
  Earlier <- MCEarlier
  MaxListeners = 3
  Methods = {"GET", "POST"}
SPECIFICATION KongSpec
\* the conversion of one input ends
CHECK_DEADLOCK FALSE
INVARIANTS
  MatchesAsAsked
  TCPServed
  ListenersMerged
