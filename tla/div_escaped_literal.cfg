SPECIFICATION Spec
CONSTANTS
  Char <- MCChar
  Wide <- MCWide
  ToUpper <- MCUpper
  ToLower <- MCLower
  Item <- MCItem
  Inputs <- Unended
  MaxNesting = 3
  MaxSubs = 4
  MaxSize = 24
  CaseSlack = 1
PROPERTIES
  QuotingEndsWithReplacement
CHECK_DEADLOCK FALSE
