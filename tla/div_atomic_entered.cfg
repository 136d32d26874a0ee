SPECIFICATION Spec
CONSTANTS
  Inputs <- EnteredAtomicGroup
  Meaning <- Search
INVARIANTS
  MatchesAsDefined
CHECK_DEADLOCK FALSE
