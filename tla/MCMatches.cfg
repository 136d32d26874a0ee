SPECIFICATION Spec
CONSTANTS
  Inputs <- AllInputs
  Meaning <- Search
INVARIANTS
  TypeOK
  GroupsFound
  MatchesAsDefined
  AnswersStand
  SoftPrefersComplete
CHECK_DEADLOCK FALSE
