----------------------------- MODULE HeapFrames -----------------------------
(***************************************************************************)
(* The vector of backtracking frames in a match data block: how            *)
(* pcre2_match() gets or reuses it, how match() makes it longer when a     *)
(* frame does not fit, and the heap limit.  The vector outlives the call,  *)
(* and the next call may be for a pattern with frames of another size and  *)
(* with another limit.                                                     *)
(*                                                                         *)
(* What the frames hold is not modelled: a call makes frames and goes back *)
(* to earlier ones in any way whatever.  Sizes are in bytes.               *)
(***************************************************************************)
EXTENDS Integers

CONSTANTS
  FrameSizes,        \* frame_size of the patterns matched
  HeapLimits,        \* heap limits, in KiB, of pattern and match context
  PCRE2_SIZE_MAX     \* the greatest PCRE2_SIZE

START_FRAMES_SIZE == 20480

ASSUME SizesAssumption ==
  /\ FrameSizes \subseteq Nat \ {0}
  /\ HeapLimits \subseteq Nat
  /\ PCRE2_SIZE_MAX \in Nat /\ PCRE2_SIZE_MAX > START_FRAMES_SIZE
  /\ PCRE2_SIZE_MAX % 1024 = 1023
  /\ \A f \in FrameSizes : f * 10 < PCRE2_SIZE_MAX

VARIABLES
  heapframes_size,   \* the bytes allocated, 0 for no vector
  frame_size, heap_limit, \* of the pattern being matched
  used,              \* the bytes of the frames up to and including the current one
  pc,                \* "idle" or "match"
  rc,                \* what the last call returned
  allocated          \* this call has allocated the vector

vars == <<heapframes_size, frame_size, heap_limit, used, pc, rc, allocated>>

ReturnCodes == {"none", "finished", "HEAPLIMIT", "NOMEMORY"}

\* The size of the vector is one that PCRE2_SIZE can hold, and each variable has its
\* type.
TypeOK ==
  /\ heapframes_size \in 0..PCRE2_SIZE_MAX
  /\ frame_size \in FrameSizes /\ heap_limit \in HeapLimits
  /\ used \in Nat
  /\ pc \in {"idle", "match"} /\ rc \in ReturnCodes /\ allocated \in BOOLEAN

Init ==
  /\ heapframes_size = 0
  /\ frame_size \in FrameSizes /\ heap_limit \in HeapLimits
  /\ used = 0 /\ pc = "idle" /\ rc = "none" /\ allocated = FALSE

-----------------------------------------------------------------------------
\* Room for ten frames, START_FRAMES_SIZE at least, or what the limit allows.
InitialSize(frame, limit) ==
  LET size == IF frame * 10 < START_FRAMES_SIZE THEN START_FRAMES_SIZE ELSE frame * 10
  IN  IF size \div 1024 > limit THEN 1024 * limit ELSE size

\* pcre2_match() returns before match() is called.
Refuse(code, size) ==
  /\ heapframes_size' = size /\ used' = 0 /\ pc' = "idle" /\ rc' = code /\ allocated' = FALSE

\* A vector that is long enough is kept, whatever the limit; another one is freed
\* before the new one is allocated.
StartMatch ==
  /\ pc = "idle"
  /\ \E frame \in FrameSizes, limit \in HeapLimits :
       LET size == InitialSize(frame, limit)
       IN  /\ frame_size' = frame /\ heap_limit' = limit
           /\ IF size < frame THEN Refuse("HEAPLIMIT", heapframes_size)
              ELSE \/ /\ heapframes_size >= size
                      /\ used' = frame /\ pc' = "match" /\ allocated' = FALSE
                      /\ UNCHANGED <<heapframes_size, rc>>
                   \/ /\ heapframes_size < size
                      /\ heapframes_size' = size
                      /\ used' = frame /\ pc' = "match" /\ allocated' = TRUE
                      /\ UNCHANGED rc
                   \/ heapframes_size < size /\ Refuse("NOMEMORY", 0)

\* Mutant: the new frame is not allowed for.
Room_Now == used <= heapframes_size

\* There is room for another frame and more.
Room == used + frame_size < heapframes_size

\* Twice the size, or what the limit leaves.  The limit is in KiB and the size need
\* not be, so the rest of the size in its last KiB is allowed for.
DoubleSize == IF heapframes_size >= PCRE2_SIZE_MAX \div 2 THEN PCRE2_SIZE_MAX - 1
              ELSE heapframes_size * 2
OldSize == heapframes_size \div 1024
OverBytes == heapframes_size % 1024

\* Mutants: more than the rest is left out; doubled without a look at the limit or at
\* PCRE2_SIZE_MAX.
NewSize_TwoKiB == IF DoubleSize \div 1024 >= heap_limit
                  THEN heapframes_size + 1024 * (heap_limit - OldSize) - 2048 ELSE DoubleSize
NewSize_Wraps == heapframes_size * 2

NewSize ==
  IF DoubleSize \div 1024 >= heap_limit
  THEN heapframes_size + 1024 * (heap_limit - OldSize) - (IF OverBytes = 0 THEN 0 ELSE 1024 - OverBytes)
  ELSE DoubleSize

LimitReached == DoubleSize \div 1024 >= heap_limit /\ heap_limit <= OldSize
CannotGrow   == heapframes_size = PCRE2_SIZE_MAX - 1

Stop(code) ==
  /\ pc' = "idle" /\ rc' = code /\ used' = 0
  /\ UNCHANGED <<heapframes_size, frame_size, heap_limit, allocated>>

\* MATCH_RECURSE with room in the vector.
NewFrame ==
  /\ pc = "match" /\ Room
  /\ used' = used + frame_size
  /\ UNCHANGED <<heapframes_size, frame_size, heap_limit, pc, rc, allocated>>

\* MATCH_RECURSE: the frames move to a longer vector.
GrowVector ==
  /\ pc = "match" /\ ~Room /\ ~CannotGrow /\ ~LimitReached
  /\ NewSize - used >= frame_size
  /\ heapframes_size' = NewSize
  /\ used' = used + frame_size /\ allocated' = TRUE
  /\ UNCHANGED <<frame_size, heap_limit, pc, rc>>

\* MATCH_RECURSE: the limit does not leave room for a frame.
HeapLimit ==
  /\ pc = "match" /\ ~Room /\ ~CannotGrow
  /\ LimitReached \/ NewSize - used < frame_size
  /\ Stop("HEAPLIMIT")

\* MATCH_RECURSE: no memory, with the old vector left as it was.
NoMemory ==
  /\ pc = "match" /\ ~Room
  /\ CannotGrow \/ (~LimitReached /\ NewSize - used >= frame_size)
  /\ Stop("NOMEMORY")

\* RRETURN, to the frame before, when there is one; by several frames it is several of
\* these.
Backtrack ==
  /\ pc = "match" /\ used >= 2 * frame_size
  /\ used' = used - frame_size
  /\ UNCHANGED <<heapframes_size, frame_size, heap_limit, pc, rc, allocated>>

\* match() comes to an end and pcre2_match() returns, or the next starting point is
\* tried with the first frame again.
Finish  == pc = "match" /\ Stop("finished")
Restart ==
  /\ pc = "match"
  /\ used' = frame_size
  /\ UNCHANGED <<heapframes_size, frame_size, heap_limit, pc, rc, allocated>>

Next == StartMatch \/ NewFrame \/ GrowVector \/ HeapLimit \/ NoMemory \/ Backtrack \/ Finish \/ Restart

Spec == Init /\ [][Next]_vars

-----------------------------------------------------------------------------
\* Every frame that is written lies inside the vector, across growth that is cut
\* short by the limit and across calls with frames of other sizes.
FramesFit == pc = "match" => used <= heapframes_size

\* PCRE2_SIZE holds every size computed: nothing wraps around, and the size asked
\* for is never less than what the frames that are moved occupy.
NoWraparound ==
  pc = "match" /\ ~Room /\ ~CannotGrow /\ ~LimitReached =>
    NewSize \in used..PCRE2_SIZE_MAX

\* A vector that this call has allocated exceeds the limit by less than a KiB.
NearLimit == pc = "match" /\ allocated => heapframes_size < 1024 * (heap_limit + 1)

\* A limit of zero guarantees an error.
ZeroIsAnError == heap_limit = 0 => pc # "match"
=============================================================================
