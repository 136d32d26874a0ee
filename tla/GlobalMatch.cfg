SPECIFICATION Spec
CONSTANT MaxLength = 3
INVARIANTS
  TypeOK
  MatchesInOrder
  NoInternalDupmatch
  StartsAtCharacter
PROPERTIES
  Progress
  Terminates
CHECK_DEADLOCK FALSE
