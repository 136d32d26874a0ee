SPECIFICATION Spec
CONSTANTS
  Char <- MCChar
  Wide <- MCWide
  ToUpper <- MCUpper
  ToLower <- MCLower
  Item <- MCItem
  Inputs <- MCInputs
  MaxNesting = 3
  MaxSubs = 4
  MaxSize = 24
  CaseSlack = 1
INVARIANTS
  TypeOK
  AccountingIsExact
PROPERTIES
  KeepsContract
  NothingLeftOut
  Terminates
CHECK_DEADLOCK FALSE
