---------------------------- MODULE DfaWorkspace ----------------------------
(***************************************************************************)
(* The recursion workspace of pcre2_dfa_match.c.  Each inner call of       *)
(* internal_dfa_match() gets an output vector and a state workspace cut    *)
(* from a block of a chain: the first block is on the stack, the others    *)
(* come from the heap, each twice the size of the one before as far as the *)
(* heap limit allows, and are reused until the match ends.                 *)
(*                                                                         *)
(* Sizes are in ints, the limit and what is used of it in kibibytes.       *)
(***************************************************************************)
EXTENDS Integers, Sequences

CONSTANTS HeapLimits,  \* values of mb->heap_limit
          Sizes        \* sizes of the pieces that inner calls need

IntsPerK        == 256                 \* 1024 / sizeof(int)
RWS_ANCHOR_SIZE == 4
RWS_BASE_SIZE   == 7680                \* DFA_START_RWS_SIZE / sizeof(int)
RWS_RSIZE       == 1000
RWS_OVEC_OSIZE  == 4
RWS_OVEC_RSIZE  == 2000
MaxInts         == 1073741823          \* UINT32_MAX / sizeof(int)

ASSUME WorkspaceAssumption ==
  /\ HeapLimits \subseteq Nat
  /\ Sizes \subseteq Nat

VARIABLES
  heap_limit,
  blocks,      \* the chain: the size of each block and how much of it is free
  pieces,      \* the calls in progress, outermost first: the block of the call's piece,
               \* where the piece starts, how long it is, and the block (rws) from which
               \* the call takes pieces for its own inner calls
  heap_used

workspace == <<heap_limit, blocks, pieces, heap_used>>

NewBlock(size) == [size |-> size, free |-> size - RWS_ANCHOR_SIZE]
Outermost == [block |-> 1, at |-> RWS_ANCHOR_SIZE, need |-> 0, rws |-> 1]

\* Mutant: what is left of the limit is not taken into account.
ClampedSize_Unclamped(double, used, limit) == [ints |-> double, k |-> double \div IntsPerK]

\* The size of a new block that was to have so many ints, clamped to what is left of
\* the limit.
ClampedSize(double, used, limit) ==
  IF used >= limit THEN [ints |-> 0, k |-> 0]
  ELSE IF double \div IntsPerK > limit - used
       THEN [ints |-> (limit - used) * IntsPerK, k |-> limit - used]
       ELSE [ints |-> double, k |-> double \div IntsPerK]

NextSize(block) ==
  ClampedSize(IF block.size >= MaxInts \div 2 THEN MaxInts ELSE 2 * block.size, heap_used, heap_limit)

\* What may be missing for a piece of that size after block b of the chain: more_workspace().
Requested(need) == need + RWS_ANCHOR_SIZE
LastIsTooSmall(b, need) == b < Len(blocks) /\ blocks[b + 1].size < Requested(need)
LimitReached(b, need) == b = Len(blocks) /\ NextSize(blocks[b]).ints < Requested(need)

Caller == pieces[Len(pieces)]
Needs(need) == blocks[Caller.rws].free < need

\* A block that is used again is empty.
Reset(chain, b) == [chain EXCEPT ![b].free = chain[b].size - RWS_ANCHOR_SIZE]

\* Mutant: the caller goes on with its old block.
Cut_OldBlock(chain, b, need) ==
  /\ blocks' = [chain EXCEPT ![b].free = @ - need]
  /\ pieces' = Append(pieces, [block |-> b, at |-> chain[b].size - chain[b].free,
                               need |-> need, rws |-> Caller.rws])

\* A piece is cut from block b of the chain, which the caller goes on with.
Cut(chain, b, need) ==
  /\ blocks' = [chain EXCEPT ![b].free = @ - need]
  /\ pieces' = Append([pieces EXCEPT ![Len(pieces)].rws = b],
                      [block |-> b, at |-> chain[b].size - chain[b].free, need |-> need, rws |-> b])

Init ==
  /\ heap_limit \in HeapLimits
  /\ blocks = <<NewBlock(RWS_BASE_SIZE)>>
  /\ pieces = <<Outermost>>
  /\ heap_used = 0

\* An inner call starts: from the block in use, ...
EnterHere(need) ==
  /\ ~Needs(need)
  /\ Cut(blocks, Caller.rws, need)
  /\ UNCHANGED heap_used

\* ... from the next block of the chain, ...
EnterNext(need) ==
  /\ Needs(need)
  /\ Caller.rws < Len(blocks) /\ ~LastIsTooSmall(Caller.rws, need)
  /\ Cut(Reset(blocks, Caller.rws + 1), Caller.rws + 1, need)
  /\ UNCHANGED heap_used

\* ... or from a new block.
EnterNew(need) ==
  /\ Needs(need)
  /\ Caller.rws = Len(blocks) /\ ~LimitReached(Caller.rws, need)
  /\ LET size == NextSize(blocks[Caller.rws])
     IN  /\ Cut(Append(blocks, NewBlock(size.ints)), Caller.rws + 1, need)
         /\ heap_used' = heap_used + size.k

Enter(need) == EnterHere(need) \/ EnterNext(need) \/ EnterNew(need)

\* No room, within the limit or at all: the match ends with PCRE2_ERROR_HEAPLIMIT or
\* PCRE2_ERROR_NOMEMORY.
NoRoom(need) == Needs(need) /\ (LastIsTooSmall(Caller.rws, need) \/ LimitReached(Caller.rws, need))
NoMemory(need) == Needs(need) /\ Caller.rws = Len(blocks)

\* A possessive group calls again with the same piece.
Again ==
  /\ Len(pieces) > 1
  /\ pieces' = [pieces EXCEPT ![Len(pieces)].rws = Caller.block]
  /\ UNCHANGED <<blocks, heap_used>>

\* An inner call has returned: its piece is given back.
Leave ==
  /\ Len(pieces) > 1
  /\ blocks' = [blocks EXCEPT ![Caller.block].free = @ + Caller.need]
  /\ pieces' = SubSeq(pieces, 1, Len(pieces) - 1)
  /\ UNCHANGED heap_used

\* The outermost call, made once for each starting point, starts with the first block.
Restarted ==
  /\ Len(pieces) = 1
  /\ pieces' = <<Outermost>>
  /\ UNCHANGED <<blocks, heap_used>>

\* The match ends, by an error perhaps that is returned through all the calls at
\* once: the chain is freed.
Finish ==
  /\ blocks' = <<NewBlock(RWS_BASE_SIZE)>>
  /\ pieces' = <<Outermost>>
  /\ heap_used' = 0

Next ==
  /\ (\E need \in Sizes : Enter(need)) \/ Again \/ Leave \/ Restarted \/ Finish
  /\ UNCHANGED heap_limit

Spec == Init /\ [][Next]_workspace

-----------------------------------------------------------------------------
\* The calls in progress work in pieces that lie within their blocks, after the
\* anchor, and do not overlap: an inner call never spoils the states of an outer one.
PiecesApart ==
  /\ \A i \in 1..Len(pieces) :
        /\ pieces[i].block \in 1..Len(blocks)
        /\ pieces[i].at >= RWS_ANCHOR_SIZE
        /\ pieces[i].at + pieces[i].need <= blocks[pieces[i].block].size
  /\ \A i, j \in 1..Len(pieces) :
        i < j /\ pieces[i].block = pieces[j].block => pieces[i].at + pieces[i].need <= pieces[j].at

\* What has been taken from the heap never exceeds the limit.
WithinHeapLimit == heap_used <= heap_limit
=============================================================================
