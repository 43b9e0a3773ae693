\* One call of the print command: up to three documents and providers.
SPECIFICATION Spec
CONSTANTS
  Providers <- MCProviders
  Emitters <- MCEmitters
  ClassesOf <- MCClassesOf
  Buffered <- MCBuffered
  Extended <- MCExtended
  Keeping <- MCKeeping
  Inputs <- MCInputs
\* A call ends.
CHECK_DEADLOCK FALSE
INVARIANTS
  
  EachOnce
PROPERTIES
  ImplementsConversion
