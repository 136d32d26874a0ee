SPECIFICATION Spec
CONSTANTS
  Blocks = {b1, b2, b3, b4}
  Subject = subject
  NONE = NULL
  Allocators = {malloc, other}
  Default = malloc
  Threads = {t1, t2}
  MaxStream = 2
  Unlocked = {}
  Mixed = TRUE
SYMMETRY Symmetry
INVARIANTS
  HeapIsSound
CHECK_DEADLOCK FALSE
