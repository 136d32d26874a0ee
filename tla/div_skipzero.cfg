SPECIFICATION Spec
CONSTANTS
  Inputs <- SkippedGroup
  Meaning <- Search
INVARIANTS
  MatchesAsDefined
CHECK_DEADLOCK FALSE
