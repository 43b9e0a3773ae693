\* From annotated Ingresses to the resources of five emitters.
CONSTANTS
  Inputs <- MCInputs
  ServicePorts <- MCServicePorts
  ImplSpecific = TRUE
  SlashedClasses = {}
  Earlier <- MCEarlier
  TotalWeight = 100
  NameBefore <- MCNameBefore
SPECIFICATION EmittersSpec
\* the conversion of one input ends
CHECK_DEADLOCK FALSE
INVARIANTS
  CanaryTraffic
  
  RulesAnswerOnce
  
  
  SecureSideAnswers
  PoliciesWhereAsked
  SlashesRedirected
  WWWAnswers
