SPECIFICATION Spec
CONSTANTS
  HeapLimits <- Limits
  Sizes <- Needed
  MaxCalls = 12
CONSTRAINTS
  FewCalls
INVARIANTS
  PiecesApart
  WithinHeapLimit
