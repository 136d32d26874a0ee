SPECIFICATION Spec
CONSTANTS
  FrameSizes <- Frames
  HeapLimits <- Limits
  PCRE2_SIZE_MAX <- SizeMax
INVARIANTS
  TypeOK
  FramesFit
  NoWraparound
  NearLimit
