-------------------------- MODULE HeapFramesProofs --------------------------
(***************************************************************************)
(* For all frame sizes, heap limits and sizes of the address space: the    *)
(* frames of match() lie inside their vector, the sizes it computes do not *)
(* wrap around, and the heap limit is exceeded by less than a KiB.         *)
(***************************************************************************)
EXTENDS HeapFrames, TLAPS

USE DEF START_FRAMES_SIZE

\* The inductive invariant.  Besides what is to be proved, match() has a current frame,
\* so that there is room for the first one when the next starting point is tried; and
\* the address space is never used up to the last byte: with a vector of
\* PCRE2_SIZE_MAX bytes the test for one that cannot grow would miss.
CurrentFrame == pc = "match" => used >= frame_size
AddressSpaceLeft == heapframes_size < PCRE2_SIZE_MAX

IInv == TypeOK /\ CurrentFrame /\ FramesFit /\ AddressSpaceLeft /\ NearLimit /\ ZeroIsAnError

\* Division by 1024.
LEMMA Kibibytes ==
  ASSUME NEW n \in Nat
  PROVE  /\ n \div 1024 \in Nat /\ n % 1024 \in 0..1023
         /\ n = 1024 * (n \div 1024) + (n % 1024)
  OBVIOUS

\* What SizesAssumption says of one size of frames.
LEMMA FrameSize ==
  ASSUME NEW f \in FrameSizes
  PROVE  f \in Nat /\ f >= 1 /\ f * 10 < PCRE2_SIZE_MAX
  BY SizesAssumption

\* The first vector of a call stays near the limit and in the address space.
LEMMA InitialSizeFits ==
  ASSUME NEW f \in FrameSizes, NEW limit \in HeapLimits
  PROVE  /\ InitialSize(f, limit) \in 0..(PCRE2_SIZE_MAX - 1)
         /\ InitialSize(f, limit) < 1024 * (limit + 1)
         /\ limit = 0 => InitialSize(f, limit) = 0
<1> DEFINE size == IF f * 10 < START_FRAMES_SIZE THEN START_FRAMES_SIZE ELSE f * 10
<1>1. size \in START_FRAMES_SIZE..(PCRE2_SIZE_MAX - 1)
  BY FrameSize, SizesAssumption
<1>2. limit \in Nat
  BY SizesAssumption
<1>3. /\ size \div 1024 \in Nat /\ size % 1024 \in 0..1023
      /\ size = 1024 * (size \div 1024) + (size % 1024)
  BY <1>1, SizesAssumption, Kibibytes
<1> HIDE DEF size
<1>4. InitialSize(f, limit) = IF size \div 1024 > limit THEN 1024 * limit ELSE size
  BY DEF InitialSize, size
<1>5. CASE size \div 1024 > limit
  BY <1>1, <1>2, <1>3, <1>4, <1>5, SizesAssumption
<1>6. CASE ~(size \div 1024 > limit)
  BY <1>1, <1>2, <1>3, <1>4, <1>6, SizesAssumption
<1> QED
  BY <1>5, <1>6

\* Twice the size is still a size.
LEMMA DoubleSizeFits ==
  ASSUME TypeOK
  PROVE  DoubleSize \in 0..(PCRE2_SIZE_MAX - 1)
<1>1. heapframes_size \in Nat /\ PCRE2_SIZE_MAX \in Nat /\ PCRE2_SIZE_MAX >= 1
  BY SizesAssumption DEF TypeOK
<1>2. /\ PCRE2_SIZE_MAX \div 2 \in Nat
      /\ 2 * (PCRE2_SIZE_MAX \div 2) <= PCRE2_SIZE_MAX
  BY <1>1
<1> QED
  BY <1>1, <1>2 DEF DoubleSize

\* A longer vector is no shorter than the old one, stays in the address space and
\* near the limit.
LEMMA NewSizeFits ==
  ASSUME TypeOK, AddressSpaceLeft, ~CannotGrow, ~LimitReached
  PROVE  /\ NewSize \in heapframes_size..(PCRE2_SIZE_MAX - 1)
         /\ NewSize < 1024 * (heap_limit + 1)
<1> DEFINE old == heapframes_size \div 1024
           over == heapframes_size % 1024
           most == DoubleSize \div 1024
<1>1. /\ heapframes_size \in Nat /\ PCRE2_SIZE_MAX \in Nat /\ heap_limit \in Nat
      /\ heapframes_size < PCRE2_SIZE_MAX /\ PCRE2_SIZE_MAX % 1024 = 1023
  BY SizesAssumption DEF TypeOK, AddressSpaceLeft
<1>2. DoubleSize \in Nat /\ DoubleSize < PCRE2_SIZE_MAX
  BY DoubleSizeFits, <1>1
<1>3. old \in Nat /\ over \in 0..1023 /\ heapframes_size = 1024 * old + over
  BY <1>1, Kibibytes
<1>4. most \in Nat /\ DoubleSize >= 1024 * most /\ DoubleSize < 1024 * (most + 1)
  BY <1>2, Kibibytes
<1>5. NewSize = IF most >= heap_limit
                THEN heapframes_size + 1024 * (heap_limit - old) - (IF over = 0 THEN 0 ELSE 1024 - over)
                ELSE DoubleSize
  BY DEF NewSize, OldSize, OverBytes
<1>6. CASE most >= heap_limit
  <2>1. heap_limit > old
    BY <1>6, <1>1, <1>3 DEF LimitReached, OldSize
  <2>2. PICK k \in Nat : PCRE2_SIZE_MAX = 1024 * k + 1023
    BY <1>1, Kibibytes
  <2>3. heap_limit <= k
    BY <1>6, <1>1, <1>2, <1>4, <2>2
  <2> HIDE DEF old, over, most
  <2> QED
    BY <1>1, <1>3, <1>5, <1>6, <2>1, <2>2, <2>3
<1>7. CASE ~(most >= heap_limit)
  <2>1. DoubleSize >= heapframes_size
    BY <1>1 DEF DoubleSize
  <2> HIDE DEF old, over, most
  <2> QED
    BY <1>1, <1>2, <1>4, <1>5, <1>7, <2>1
<1> QED
  BY <1>6, <1>7

-----------------------------------------------------------------------------
\* A match data block starts with no vector, so the invariant holds before any call.
LEMMA InitInvariant == Init => IInv
<1> SUFFICES ASSUME Init PROVE IInv
  OBVIOUS
<1>1. 0 \in 0..PCRE2_SIZE_MAX /\ 0 < PCRE2_SIZE_MAX
  BY SizesAssumption
<1>2. TypeOK
  BY <1>1 DEF Init, TypeOK, ReturnCodes
<1>3. pc # "match"
  BY DEF Init
<1>4. AddressSpaceLeft
  BY <1>1 DEF Init, AddressSpaceLeft
<1> QED
  BY <1>2, <1>3, <1>4 DEF IInv, CurrentFrame, FramesFit, NearLimit, ZeroIsAnError

\* Starting a call, adding a frame, growing the vector, stopping at a limit,
\* backtracking and returning all keep the invariant.
LEMMA StepInvariant == IInv /\ [Next]_vars => IInv'
<1> SUFFICES ASSUME IInv, [Next]_vars PROVE IInv'
  OBVIOUS
<1> USE DEF IInv, CurrentFrame, FramesFit, AddressSpaceLeft, NearLimit, ZeroIsAnError
<1>1. /\ heapframes_size \in Nat /\ used \in Nat /\ PCRE2_SIZE_MAX \in Nat
      /\ frame_size \in Nat /\ frame_size >= 1 /\ heap_limit \in Nat
  BY SizesAssumption, FrameSize DEF TypeOK
<1>2. CASE StartMatch
  <2>1. PICK frame \in FrameSizes, limit \in HeapLimits :
          LET size == InitialSize(frame, limit)
          IN  /\ frame_size' = frame /\ heap_limit' = limit
              /\ IF size < frame THEN Refuse("HEAPLIMIT", heapframes_size)
                 ELSE \/ /\ heapframes_size >= size
                         /\ used' = frame /\ pc' = "match" /\ allocated' = FALSE
                         /\ UNCHANGED <<heapframes_size, rc>>
                      \/ /\ heapframes_size < size
                         /\ heapframes_size' = size
                         /\ used' = frame /\ pc' = "match" /\ allocated' = TRUE
                         /\ UNCHANGED rc
                      \/ heapframes_size < size /\ Refuse("NOMEMORY", 0)
    BY <1>2 DEF StartMatch
  <2>2. /\ InitialSize(frame, limit) \in 0..(PCRE2_SIZE_MAX - 1)
        /\ InitialSize(frame, limit) < 1024 * (limit + 1)
        /\ limit = 0 => InitialSize(frame, limit) = 0
    BY InitialSizeFits
  <2>3. frame \in Nat /\ frame >= 1 /\ limit \in Nat
    BY FrameSize, SizesAssumption
  <2> DEFINE size == InitialSize(frame, limit)
  <2> HIDE DEF size
  <2>4. frame_size' = frame /\ heap_limit' = limit
    BY <2>1
  <2>5. \/ pc' = "idle" /\ heapframes_size' \in {heapframes_size, 0} /\ used' = 0
           /\ rc' \in ReturnCodes /\ allocated' = FALSE
        \/ pc' = "match" /\ size >= frame /\ heapframes_size >= size /\ used' = frame
           /\ heapframes_size' = heapframes_size /\ rc' = rc /\ allocated' = FALSE
        \/ pc' = "match" /\ size >= frame /\ heapframes_size' = size /\ used' = frame
           /\ rc' = rc /\ allocated' = TRUE
    <3>1. size \in Nat
      BY <2>2, SizesAssumption DEF size
    <3> QED
      BY <3>1, <2>1, <2>3 DEF size, Refuse, ReturnCodes
  <2>6. /\ size \in 0..(PCRE2_SIZE_MAX - 1) /\ size < 1024 * (limit + 1)
        /\ limit = 0 => size = 0
    BY <2>2 DEF size
  <2>7. CASE pc' = "idle"
    <3>1. heapframes_size' \in 0..PCRE2_SIZE_MAX /\ AddressSpaceLeft' /\ used' \in Nat
      BY <1>1, <2>5, <2>7
    <3>2. rc' \in ReturnCodes
      BY <2>5, <2>7
    <3>3. allocated' \in BOOLEAN
      BY <2>5, <2>7
    <3>4. TypeOK'
      BY <2>4, <2>7, <3>1, <3>2, <3>3 DEF TypeOK
    <3> QED
      BY <2>7, <3>1, <3>4
  <2>8. CASE pc' = "match"
    <3>1. TypeOK' /\ AddressSpaceLeft'
      <4>1. heapframes_size' \in 0..(PCRE2_SIZE_MAX - 1)
        BY <1>1, <2>5, <2>6, <2>8
      <4>2. used' \in Nat /\ rc' \in ReturnCodes /\ allocated' \in BOOLEAN
        BY <2>3, <2>5, <2>8 DEF TypeOK
      <4> QED
        BY <1>1, <2>4, <2>8, <4>1, <4>2 DEF TypeOK
    <3>2. CurrentFrame' /\ FramesFit' /\ NearLimit'
      BY <1>1, <2>3, <2>4, <2>5, <2>6, <2>8
    <3>3. ZeroIsAnError'
      BY <2>3, <2>4, <2>5, <2>6, <2>8
    <3> QED
      BY <3>1, <3>2, <3>3
  <2> QED
    BY <2>5, <2>7, <2>8
<1>3. CASE NewFrame
  BY <1>1, <1>3 DEF NewFrame, Room, TypeOK
<1>4. CASE GrowVector
  <2>1. /\ NewSize \in heapframes_size..(PCRE2_SIZE_MAX - 1)
        /\ NewSize < 1024 * (heap_limit + 1)
    BY <1>4, NewSizeFits DEF GrowVector
  <2> QED
    BY <1>1, <1>4, <2>1 DEF GrowVector, TypeOK
<1>5. CASE HeapLimit
  BY <1>1, <1>5 DEF HeapLimit, Stop, TypeOK, ReturnCodes
<1>6. CASE NoMemory
  BY <1>1, <1>6 DEF NoMemory, Stop, TypeOK, ReturnCodes
<1>7. CASE Backtrack
  BY <1>1, <1>7 DEF Backtrack, TypeOK
<1>8. CASE Finish
  BY <1>1, <1>8 DEF Finish, Stop, TypeOK, ReturnCodes
<1>9. CASE Restart
  BY <1>1, <1>9 DEF Restart, TypeOK
<1>10. CASE UNCHANGED vars
  BY <1>10 DEF vars, TypeOK
<1> QED
  BY <1>2, <1>3, <1>4, <1>5, <1>6, <1>7, <1>8, <1>9, <1>10 DEF Next

\* The invariant holds in every state, for all frame sizes, limits and sizes of the
\* address space.
THEOREM Invariance == Spec => []IInv
<1>1. Init => IInv
  BY InitInvariant
<1>2. IInv /\ [Next]_vars => IInv'
  BY StepInvariant
<1> QED
  BY <1>1, <1>2, PTL DEF Spec

\* The size of the vector is a PCRE2_SIZE, and match() is in one of its states.
THEOREM TypeCorrect == Spec => []TypeOK
<1>1. IInv => TypeOK
  BY DEF IInv
<1> QED
  BY <1>1, Invariance, PTL

\* Every frame that match() writes lies inside the vector.
THEOREM FramesAlwaysFit == Spec => []FramesFit
<1>1. IInv => FramesFit
  BY DEF IInv
<1> QED
  BY <1>1, Invariance, PTL

\* The size computed for a longer vector is a PCRE2_SIZE, and no less than what the
\* frames that are moved occupy.
THEOREM NeverWraps == Spec => []NoWraparound
<1>1. IInv => NoWraparound
  <2> SUFFICES ASSUME IInv, pc = "match", ~CannotGrow, ~LimitReached
               PROVE  NewSize \in used..PCRE2_SIZE_MAX
    BY DEF NoWraparound
  <2>1. NewSize \in heapframes_size..(PCRE2_SIZE_MAX - 1)
    BY NewSizeFits DEF IInv
  <2>2. used \in Nat /\ heapframes_size \in Nat /\ PCRE2_SIZE_MAX \in Nat /\ used <= heapframes_size
    BY SizesAssumption DEF IInv, TypeOK, FramesFit
  <2> QED
    BY <2>1, <2>2
<1> QED
  BY <1>1, Invariance, PTL

\* A vector that a call has allocated exceeds its heap limit by less than a KiB.
THEOREM AlmostWithinLimit == Spec => []NearLimit
<1>1. IInv => NearLimit
  BY DEF IInv
<1> QED
  BY <1>1, Invariance, PTL

\* With a heap limit of zero match() is never called.
THEOREM ZeroLimit == Spec => []ZeroIsAnError
<1>1. IInv => ZeroIsAnError
  BY DEF IInv
<1> QED
  BY <1>1, Invariance, PTL
=============================================================================
