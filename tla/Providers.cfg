\* Conversion of every input of MCProviders.
CONSTANTS
  Inputs <- MCInputs
  ServicePorts <- MCServicePorts
  ImplSpecific = TRUE
  SlashedClasses = {"a/b"}
  Earlier <- MCEarlier
SPECIFICATION ProvidersSpec
\* the conversion of one input ends
CHECK_DEADLOCK FALSE
INVARIANTS
  PathsServed
  RoutesReachListener
  SecretsPresented
  
  PortsReplaced
  PoliciesReachServices
