SPECIFICATION Spec
CONSTANTS
  Inputs <- LimitInputs
  Meaning <- Search
INVARIANTS
  LimitsChangeNothingElse
  WithinLimits
  FramesFit
  StackWellFormed
  CapturesCovered
  LoopsAreCaught
PROPERTIES
  Terminates
CHECK_DEADLOCK FALSE
