SPECIFICATION Spec
CONSTANTS
  Inputs <- AllInputs
  InnerStates = 166
  RecursionPairs = 3
INVARIANTS
  FindsAllMatches
  AnswersStand
  SoftPrefersComplete
  RestartContinues
  CompatibleIsSupported
  WithinLimits
  LoopsAreCaught
PROPERTIES
  Terminates
CHECK_DEADLOCK FALSE
