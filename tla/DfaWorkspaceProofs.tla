------------------------- MODULE DfaWorkspaceProofs -------------------------
(***************************************************************************)
(* The pieces of the recursion workspace lie apart and what is taken from  *)
(* the heap stays within the limit, for any sizes of the pieces, any       *)
(* nesting and any heap limit.                                             *)
(***************************************************************************)
EXTENDS DfaWorkspace, TLAPS

Block == [size : Nat, free : Int]
Piece == [block : Nat, at : Nat, need : Nat, rws : Nat]

\* Where the free part of a block begins, and where the ith piece ends.
Mark(chain, b) == chain[b].size - chain[b].free
End(calls, i) == calls[i].at + calls[i].need

TypeOK ==
  /\ heap_limit \in Nat /\ heap_used \in Nat
  /\ blocks \in Seq(Block) /\ Len(blocks) >= 1
  /\ pieces \in Seq(Piece) /\ Len(pieces) >= 1

\* The free part of a block never reaches the anchor.
BlocksSound ==
  \A b \in 1..Len(blocks) : 0 <= blocks[b].free /\ blocks[b].free <= blocks[b].size - RWS_ANCHOR_SIZE

\* The outermost call has a workspace of its own, and nothing of the chain.
OutermostFirst == pieces[1].block = 1 /\ pieces[1].at = RWS_ANCHOR_SIZE /\ pieces[1].need = 0

\* Inner calls never go back in the chain.
Forward ==
  /\ \A i \in 1..Len(pieces) :
        pieces[i].block \in 1..Len(blocks) /\ pieces[i].rws \in pieces[i].block..Len(blocks)
  /\ \A i, j \in 1..Len(pieces) : i < j => pieces[i].rws <= pieces[j].block

\* The pieces in a block follow each other without gaps up to the free part.
Stacked ==
  /\ \A i \in 1..Len(pieces) : RWS_ANCHOR_SIZE <= pieces[i].at /\ End(pieces, i) <= Mark(blocks, pieces[i].block)
  /\ \A i, j \in 1..Len(pieces) : i < j /\ pieces[i].block = pieces[j].block => End(pieces, i) <= pieces[j].at
  /\ \A i \in 1..(Len(pieces) - 1) :
        pieces[i].block = pieces[i + 1].block => End(pieces, i) = pieces[i + 1].at
  /\ \A i \in 1..Len(pieces) :
        (i < Len(pieces) => pieces[i + 1].block # pieces[i].block) => End(pieces, i) = Mark(blocks, pieces[i].block)

IInv == TypeOK /\ BlocksSound /\ OutermostFirst /\ Forward /\ Stacked /\ WithinHeapLimit

USE DEF RWS_ANCHOR_SIZE

-----------------------------------------------------------------------------
\* A sequence with one element replaced, and with one more.
LEMMA Updated ==
  ASSUME NEW S, NEW s \in Seq(S), NEW i \in 1..Len(s), NEW x \in S
  PROVE  /\ [s EXCEPT ![i] = x] \in Seq(S)
         /\ Len([s EXCEPT ![i] = x]) = Len(s)
         /\ \A j \in 1..Len(s) : [s EXCEPT ![i] = x][j] = IF j = i THEN x ELSE s[j]
  OBVIOUS

\* See above.
LEMMA Appended ==
  ASSUME NEW S, NEW s \in Seq(S), NEW x \in S
  PROVE  /\ Append(s, x) \in Seq(S)
         /\ Len(Append(s, x)) = Len(s) + 1
         /\ Append(s, x)[Len(s) + 1] = x
         /\ \A j \in 1..Len(s) : Append(s, x)[j] = s[j]
  OBVIOUS

\* A block with less or more of it free, a call that goes on with another block.
LEMMA Freed ==
  ASSUME NEW p \in Block, NEW k \in Int
  PROVE  /\ [p EXCEPT !.free = k] \in Block
         /\ [p EXCEPT !.free = k].free = k
         /\ [p EXCEPT !.free = k].size = p.size
  BY DEF Block

\* See above.
LEMMA Moved ==
  ASSUME NEW p \in Piece, NEW k \in Nat
  PROVE  /\ [p EXCEPT !.rws = k] \in Piece
         /\ [p EXCEPT !.rws = k].rws = k
         /\ [p EXCEPT !.rws = k].block = p.block
         /\ [p EXCEPT !.rws = k].at = p.at
         /\ [p EXCEPT !.rws = k].need = p.need
  BY DEF Piece

\* The fields of a block and a piece.
LEMMA BlockFields == ASSUME NEW p \in Block PROVE p.size \in Nat /\ p.free \in Int
  BY DEF Block

\* See above.
LEMMA PieceFields ==
  ASSUME NEW p \in Piece PROVE p.block \in Nat /\ p.at \in Nat /\ p.need \in Nat /\ p.rws \in Nat
  BY DEF Piece

\* See above.
LEMMA NewPiece ==
  ASSUME NEW b \in Nat, NEW from \in Nat, NEW k \in Nat
  PROVE  [block |-> b, at |-> from, need |-> k, rws |-> b] \in Piece
  BY DEF Piece

\* What the types say of the fields.
LEMMA Fields ==
  ASSUME TypeOK
  PROVE  /\ Len(pieces) \in Nat /\ Len(pieces) >= 1 /\ Len(blocks) \in Nat /\ Len(blocks) >= 1
         /\ \A i \in 1..Len(pieces) :
              /\ pieces[i] \in Piece
              /\ pieces[i].block \in Nat /\ pieces[i].at \in Nat
              /\ pieces[i].need \in Nat /\ pieces[i].rws \in Nat
         /\ \A b \in 1..Len(blocks) :
              blocks[b] \in Block /\ blocks[b].size \in Nat /\ blocks[b].free \in Int
<1>1. /\ Len(pieces) \in Nat /\ Len(pieces) >= 1 /\ Len(blocks) \in Nat /\ Len(blocks) >= 1
  BY DEF TypeOK
<1>2. \A i \in 1..Len(pieces) : pieces[i] \in Piece
  BY DEF TypeOK
<1>3. \A b \in 1..Len(blocks) : blocks[b] \in Block
  BY DEF TypeOK
<1>4. QED
  BY <1>1, <1>2, <1>3, PieceFields, BlockFields

\* The match starts with the block on the stack.
LEMMA InitOK == Init => IInv
<1>1. SUFFICES ASSUME Init PROVE IInv
  OBVIOUS
<1>2. blocks = <<[size |-> 7680, free |-> 7676]>> /\ pieces = <<[block |-> 1, at |-> 4, need |-> 0, rws |-> 1]>>
  BY <1>1 DEF Init, NewBlock, Outermost, RWS_BASE_SIZE
<1>3. heap_limit \in Nat /\ heap_used = 0
  BY <1>1, WorkspaceAssumption DEF Init
<1>4. QED
  BY <1>2, <1>3 DEF IInv, TypeOK, BlocksSound, OutermostFirst, Forward, Stacked, WithinHeapLimit, Block, Piece, Mark, End

\* All live pieces lie in blocks up to the one the innermost call takes pieces from.
LEMMA NoneBeyond ==
  ASSUME IInv, NEW i \in 1..Len(pieces)
  PROVE  pieces[i].block <= Caller.rws /\ Caller.rws \in 1..Len(blocks)
<1>1. TypeOK /\ Forward
  BY DEF IInv
<1>2. CASE i = Len(pieces)
  BY <1>1, <1>2, Fields DEF Forward, Caller
<1>3. CASE i < Len(pieces)
  BY <1>1, <1>3, Fields DEF Forward, Caller
<1>4. QED
  BY <1>1, <1>2, <1>3, Fields

\* The chain from whose block b a piece is cut is the old one up to the block in use, and
\* sound.
Prepared(need, chain, b) ==
  /\ chain \in Seq(Block) /\ Len(chain) >= Len(blocks) /\ b \in Caller.rws..Len(chain)
  /\ \A c \in 1..Len(blocks) : c <= Caller.rws => chain[c] = blocks[c]
  /\ \A c \in 1..Len(chain) : 0 <= chain[c].free /\ chain[c].free <= chain[c].size - RWS_ANCHOR_SIZE
  /\ need <= chain[b].free

\* When the next piece is in another block, a piece is not in the last one.
LEMMA LastBlock ==
  ASSUME NEW x \in Nat, NEW y \in Nat, NEW z \in Nat, NEW w \in Nat, NEW b \in Nat,
         x <= y, y <= z, z <= w, w <= b, z # x
  PROVE  x # b
  OBVIOUS

\* What ends before the room that is left ends in the block.
LEMMA WithoutRoom ==
  ASSUME NEW size \in Nat, NEW free \in Int, NEW from \in Nat, NEW need \in Nat,
         0 <= free, from + need <= size - free
  PROVE  from + need <= size
  OBVIOUS

\* Cutting a piece from the block in use or from an empty one after it keeps the
\* pieces stacked.
LEMMA CutOK ==
  ASSUME NEW need \in Nat, NEW chain, NEW b
  PROVE  /\ IInv /\ Prepared(need, chain, b) /\ Cut(chain, b, need)
         /\ heap_limit' = heap_limit /\ heap_used' \in Nat /\ heap_used' <= heap_limit
         => IInv'
<1>s. SUFFICES ASSUME IInv, Prepared(need, chain, b), Cut(chain, b, need),
                      heap_limit' = heap_limit, heap_used' \in Nat, heap_used' <= heap_limit
               PROVE  IInv'
  OBVIOUS
<1> DEFINE n == Len(pieces)
           new == [block |-> b, at |-> chain[b].size - chain[b].free, need |-> need, rws |-> b]
<1>0. /\ \A c \in 1..Len(chain) : chain[c].size \in Nat /\ chain[c].free \in Int
      /\ Len(chain) \in Nat /\ b \in 1..Len(chain)
  <2>1. \A c \in 1..Len(chain) : chain[c] \in Block
    BY <1>s DEF Prepared
  <2>2. \A c \in 1..Len(chain) : chain[c].size \in Nat /\ chain[c].free \in Int
    BY <2>1, BlockFields
  <2>3. Len(chain) \in Nat /\ b \in 1..Len(chain)
    BY <1>s, NoneBeyond, Fields DEF Prepared, IInv
  <2>4. QED
    BY <2>2, <2>3
<1>b. /\ chain[b].size \in Nat /\ chain[b].free \in Int
      /\ 0 <= chain[b].free /\ need <= chain[b].free
      /\ chain[b].size - chain[b].free \in Nat
      /\ chain[b].size - chain[b].free >= RWS_ANCHOR_SIZE
  <2>1. 0 <= chain[b].free /\ chain[b].free <= chain[b].size - RWS_ANCHOR_SIZE /\ need <= chain[b].free
    BY <1>s, <1>0 DEF Prepared
  <2>2. chain[b].size \in Nat /\ chain[b].free \in Int
    BY <1>0
  <2>3. QED
    BY <2>1, <2>2
<1>1. /\ blocks' \in Seq(Block) /\ Len(blocks') = Len(chain)
      /\ \A c \in 1..Len(chain) : blocks'[c].size = chain[c].size
      /\ \A c \in 1..Len(chain) : c # b => blocks'[c] = chain[c]
      /\ blocks'[b].free = chain[b].free - need
  <2> DEFINE rest == [chain[b] EXCEPT !.free = chain[b].free - need]
  <2>1. chain[b] \in Block /\ chain \in Seq(Block)
    BY <1>s, <1>0 DEF Prepared
  <2>2. chain[b].free - need \in Int
    BY <1>b
  <2>3. rest \in Block /\ rest.free = chain[b].free - need /\ rest.size = chain[b].size
    BY <2>1, <2>2, Freed
  <2>4. blocks' = [chain EXCEPT ![b] = rest]
    BY <1>s DEF Cut
  <2> HIDE DEF rest
  <2>5. /\ blocks' \in Seq(Block) /\ Len(blocks') = Len(chain)
        /\ \A c \in 1..Len(chain) : blocks'[c] = IF c = b THEN rest ELSE chain[c]
    BY <2>1, <2>3, <2>4, <1>0, Updated
  <2>6. QED
    BY <2>3, <2>5, <1>0
<1>1a. /\ \A c \in 1..Len(chain) : blocks'[c].size = chain[c].size
       /\ \A c \in 1..Len(chain) : c # b => blocks'[c] = chain[c]
       /\ blocks'[b].free = chain[b].free - need
       /\ Len(blocks') = Len(chain)
  BY <1>1
<1>2. n \in Nat /\ n >= 1 /\ b \in Nat
  BY <1>s, <1>0 DEF IInv, TypeOK
<1>3. /\ new \in Piece /\ new.block = b /\ new.at = chain[b].size - chain[b].free
      /\ new.need = need /\ new.rws = b
  BY <1>b, <1>2, NewPiece
<1> HIDE DEF new
<1>4. /\ pieces' \in Seq(Piece) /\ Len(pieces') = n + 1
      /\ pieces'[n + 1] = new
      /\ \A i \in 1..n : /\ pieces'[i].block = pieces[i].block
                         /\ pieces'[i].at = pieces[i].at
                         /\ pieces'[i].need = pieces[i].need
                         /\ pieces'[i].rws = IF i = n THEN b ELSE pieces[i].rws
  <2> DEFINE last == [pieces[n] EXCEPT !.rws = b]
             moved == [pieces EXCEPT ![n] = last]
  <2>1. pieces[n] \in Piece /\ pieces \in Seq(Piece) /\ n \in 1..Len(pieces)
    BY <1>s, <1>2 DEF IInv, TypeOK
  <2>2. /\ last \in Piece /\ last.rws = b /\ last.block = pieces[n].block
        /\ last.at = pieces[n].at /\ last.need = pieces[n].need
    BY <2>1, <1>2, Moved
  <2>4. pieces' = Append(moved, new)
    BY <1>s DEF Cut, new
  <2> HIDE DEF last
  <2>3. /\ moved \in Seq(Piece) /\ Len(moved) = n
        /\ \A i \in 1..n : moved[i] = IF i = n THEN last ELSE pieces[i]
    BY <2>1, <2>2, Updated
  <2> HIDE DEF moved
  <2>5. /\ pieces' \in Seq(Piece) /\ Len(pieces') = n + 1 /\ pieces'[n + 1] = new
        /\ \A i \in 1..n : pieces'[i] = moved[i]
    BY <1>3, <2>3, <2>4, Appended
  <2>6. ASSUME NEW i \in 1..n
        PROVE  /\ pieces'[i].block = pieces[i].block
               /\ pieces'[i].at = pieces[i].at
               /\ pieces'[i].need = pieces[i].need
               /\ pieces'[i].rws = IF i = n THEN b ELSE pieces[i].rws
    <3>1. pieces'[i] = IF i = n THEN last ELSE pieces[i]
      BY <2>3, <2>5
    <3>2. QED
      BY <3>1, <2>2
  <2>7. QED
    BY <2>5, <2>6
<1>4a. /\ Len(pieces') = n + 1
       /\ \A i \in 1..n : /\ pieces'[i].block = pieces[i].block
                          /\ pieces'[i].at = pieces[i].at
                          /\ pieces'[i].need = pieces[i].need
                          /\ pieces'[i].rws = IF i = n THEN b ELSE pieces[i].rws
       /\ pieces'[n + 1].block = b /\ pieces'[n + 1].at = chain[b].size - chain[b].free
       /\ pieces'[n + 1].need = need /\ pieces'[n + 1].rws = b
  BY <1>3, <1>4
<1>5. TypeOK'
  <2>1. Len(blocks') >= 1 /\ Len(pieces') >= 1
    BY <1>0, <1>1, <1>2, <1>4
  <2>2. heap_limit' \in Nat /\ heap_used' \in Nat
    BY <1>s DEF IInv, TypeOK
  <2>3. QED
    BY <1>1, <1>4, <2>1, <2>2 DEF TypeOK
<1>6. BlocksSound'
  <2>1. ASSUME NEW c \in 1..Len(chain)
        PROVE  0 <= blocks'[c].free /\ blocks'[c].free <= blocks'[c].size - RWS_ANCHOR_SIZE
    <3>1. 0 <= chain[c].free /\ chain[c].free <= chain[c].size - RWS_ANCHOR_SIZE
      BY <1>s DEF Prepared
    <3>2. chain[c].size \in Nat /\ chain[c].free \in Int
      BY <1>0
    <3>3. blocks'[c].size = chain[c].size
      BY <1>1a
    <3>4. CASE c # b
      <4>1. blocks'[c] = chain[c]
        BY <3>4, <1>1a
      <4>2. QED
        BY <4>1, <3>1
    <3>5. CASE c = b
      <4>1. blocks'[c].free = chain[c].free - need
        BY <3>5, <1>1a
      <4>2. need <= chain[c].free
        BY <3>5, <1>b
      <4>3. QED
        BY <4>1, <4>2, <3>1, <3>2, <3>3
    <3>6. QED
      BY <3>4, <3>5
  <2>2. QED
    BY <1>1a, <2>1 DEF BlocksSound
<1>7. OutermostFirst'
  <2>1. 1 \in 1..n /\ OutermostFirst
    BY <1>s, <1>2 DEF IInv
  <2>2. QED
    BY <1>4a, <2>1 DEF OutermostFirst
<1>8. \A i \in 1..n : pieces[i].block <= Caller.rws /\ pieces[i].block \in 1..Len(blocks)
                      /\ chain[pieces[i].block] = blocks[pieces[i].block]
  BY <1>s, NoneBeyond DEF IInv, Forward, Prepared
<1>8a. /\ \A i \in 1..n : pieces[i].block \in Nat /\ pieces[i].at \in Nat
                           /\ pieces[i].need \in Nat /\ pieces[i].rws \in Nat
       /\ Caller.rws = pieces[n].rws /\ Len(blocks) \in Nat
  BY <1>s, Fields DEF IInv, Caller
<1>8b. Len(blocks) <= Len(chain) /\ Caller.rws <= b /\ Caller.rws \in Nat
  BY <1>s, <1>2, <1>8a, <1>0 DEF Prepared
<1>9. Forward'
  <2>1. \A i \in 1..n : pieces[i].rws \in pieces[i].block..Len(blocks) /\ pieces[i].rws <= Caller.rws
    <3>1. TAKE i \in 1..n
    <3>2. pieces[i].rws \in pieces[i].block..Len(blocks)
      BY <1>s DEF IInv, Forward
    <3>3. CASE i = n
      BY <3>2, <3>3, <1>8a, <1>8b
    <3>4. CASE i # n
      <4>1. i < n /\ n \in 1..n
        BY <3>4, <1>2
      <4>2. pieces[i].rws <= pieces[n].block
        BY <1>s, <4>1 DEF IInv, Forward
      <4>3. pieces[n].block <= Caller.rws /\ pieces[n].block \in Nat /\ pieces[i].rws \in Nat
        BY <1>8, <1>8a, <4>1
      <4>4. QED
        BY <4>2, <4>3, <3>2, <1>8b
    <3>5. QED
      BY <3>3, <3>4
  <2>2. ASSUME NEW i \in 1..(n + 1)
        PROVE  pieces'[i].block \in 1..Len(chain) /\ pieces'[i].rws \in pieces'[i].block..Len(chain)
    <3>1. CASE i = n + 1
      <4>1. pieces'[i].block = b /\ pieces'[i].rws = b
        BY <3>1, <1>4a
      <4>2. QED
        BY <4>1, <1>0, <1>2
    <3>2. CASE i \in 1..n
      <4>1. pieces'[i].block = pieces[i].block /\ pieces'[i].rws = IF i = n THEN b ELSE pieces[i].rws
        BY <3>2, <1>4a
      <4>2. pieces[i].block \in 1..Len(blocks) /\ pieces[i].block <= Caller.rws
        BY <3>2, <1>8
      <4>3. pieces[i].rws \in pieces[i].block..Len(blocks) /\ pieces[i].rws \in Nat
        BY <3>2, <1>8a, <2>1
      <4>4. QED
        BY <4>1, <4>2, <4>3, <1>0, <1>2, <1>8a, <1>8b
    <3>3. QED
      BY <3>1, <3>2, <1>2
  <2>3. ASSUME NEW i \in 1..(n + 1), NEW j \in 1..(n + 1), i < j
        PROVE  pieces'[i].rws <= pieces'[j].block
    <3>1. i \in 1..n /\ pieces'[i].rws = IF i = n THEN b ELSE pieces[i].rws
      BY <2>3, <1>2, <1>4a
    <3>2. CASE j = n + 1
      <4>1. pieces'[j].block = b
        BY <3>2, <1>4a
      <4>2. pieces[i].rws <= Caller.rws /\ pieces[i].rws \in Nat
        BY <3>1, <2>1, <1>8a
      <4>3. QED
        BY <3>1, <4>1, <4>2, <1>2, <1>8b
    <3>3. CASE j # n + 1
      <4>1. j \in 1..n /\ i # n
        BY <3>3, <2>3, <1>2
      <4>2. pieces[i].rws <= pieces[j].block
        BY <1>s, <2>3, <3>1, <4>1 DEF IInv, Forward
      <4>3. pieces'[j].block = pieces[j].block
        BY <4>1, <1>4a
      <4>4. QED
        BY <3>1, <4>1, <4>2, <4>3
    <3>4. QED
      BY <3>2, <3>3
  <2>4. QED
    BY <1>1a, <1>4a, <2>2, <2>3 DEF Forward
<1>10. ASSUME NEW i \in 1..n
       PROVE  /\ End(pieces', i) = End(pieces, i)
              /\ pieces[i].block # b => Mark(blocks', pieces[i].block) = Mark(blocks, pieces[i].block)
              /\ pieces[i].block = b => chain[b].size - chain[b].free = Mark(blocks, b)
              /\ End(pieces, i) \in Nat /\ Mark(blocks, pieces[i].block) \in Int
              /\ pieces'[i].block = pieces[i].block /\ pieces'[i].at = pieces[i].at
              /\ RWS_ANCHOR_SIZE <= pieces[i].at /\ End(pieces, i) <= Mark(blocks, pieces[i].block)
  <2>1. pieces'[i].block = pieces[i].block /\ pieces'[i].at = pieces[i].at /\ pieces'[i].need = pieces[i].need
    BY <1>4a
  <2>2. pieces[i].block \in 1..Len(chain) /\ chain[pieces[i].block] = blocks[pieces[i].block]
    BY <1>0, <1>8, <1>8a, <1>8b
  <2>3. blocks'[pieces[i].block].size = chain[pieces[i].block].size
    BY <1>1a, <2>2
  <2>4. pieces[i].block # b => blocks'[pieces[i].block].free = chain[pieces[i].block].free
    BY <1>1a, <2>2
  <2>5. chain[pieces[i].block].size \in Nat /\ chain[pieces[i].block].free \in Int
    BY <1>0, <2>2
  <2>6. RWS_ANCHOR_SIZE <= pieces[i].at /\ End(pieces, i) <= Mark(blocks, pieces[i].block)
    BY <1>s DEF IInv, Stacked
  <2>7. End(pieces', i) = End(pieces, i) /\ End(pieces, i) \in Nat
    BY <2>1, <1>8a DEF End
  <2>8. pieces[i].block # b => Mark(blocks', pieces[i].block) = Mark(blocks, pieces[i].block)
    BY <2>2, <2>3, <2>4 DEF Mark
  <2>9. Mark(blocks, pieces[i].block) \in Int /\ (pieces[i].block = b => chain[b].size - chain[b].free = Mark(blocks, b))
    BY <2>2, <2>5 DEF Mark
  <2>10. QED
    BY <2>1, <2>6, <2>7, <2>8, <2>9
<1>11. End(pieces', n + 1) = chain[b].size - chain[b].free + need /\ Mark(blocks', b) = chain[b].size - chain[b].free + need
  <2>1. End(pieces', n + 1) = chain[b].size - chain[b].free + need
    BY <1>4a DEF End
  <2>2. Mark(blocks', b) = chain[b].size - (chain[b].free - need)
    BY <1>0, <1>1a DEF Mark
  <2>3. QED
    BY <1>b, <2>1, <2>2
<1>12. pieces[n].block = b => End(pieces, n) = chain[b].size - chain[b].free
  <2>1. n \in 1..n /\ n = Len(pieces) /\ ~(n < n)
    BY <1>2
  <2>2. End(pieces, n) = Mark(blocks, pieces[n].block)
    BY <1>s, <2>1 DEF IInv, Stacked
  <2>3. QED
    BY <2>1, <2>2, <1>10
<1>13. Stacked'
  <2>3. ASSUME NEW i \in 1..(n + 1)
        PROVE  RWS_ANCHOR_SIZE <= pieces'[i].at /\ End(pieces', i) <= Mark(blocks', pieces'[i].block)
    <3>2. CASE i = n + 1
      <4>1. pieces'[i].at = chain[b].size - chain[b].free /\ pieces'[i].block = b
        BY <3>2, <1>4a
      <4>2. End(pieces', i) = Mark(blocks', b) /\ Mark(blocks', b) \in Int
        BY <3>2, <1>11, <1>b
      <4>3. Mark(blocks', pieces'[i].block) = Mark(blocks', b)
        BY <4>1 DEF Mark
      <4>4. QED
        BY <4>1, <4>2, <4>3, <1>b
    <3>3. CASE i \in 1..n /\ pieces[i].block # b
      <4>1. Mark(blocks', pieces'[i].block) = Mark(blocks', pieces[i].block)
        BY <3>3, <1>4a DEF Mark
      <4>2. QED
        BY <3>3, <1>10, <4>1
    <3>4. CASE i \in 1..n /\ pieces[i].block = b
      <4>1. Mark(blocks', pieces'[i].block) = Mark(blocks', b)
        BY <3>4, <1>4a DEF Mark
      <4>2. /\ End(pieces', i) = End(pieces, i) /\ End(pieces, i) \in Nat /\ pieces'[i].at = pieces[i].at /\ RWS_ANCHOR_SIZE <= pieces[i].at
            /\ End(pieces, i) <= Mark(blocks, b) /\ Mark(blocks, b) = chain[b].size - chain[b].free
        BY <3>4, <1>10
      <4>3. Mark(blocks', b) = Mark(blocks, b) + need
        BY <4>2, <1>11
      <4>4. QED
        BY <4>1, <4>2, <4>3, <1>b
    <3>5. QED
      BY <3>2, <3>3, <3>4, <1>2
  <2>4. ASSUME NEW i \in 1..(n + 1), NEW j \in 1..(n + 1), i < j, pieces'[i].block = pieces'[j].block
        PROVE  End(pieces', i) <= pieces'[j].at
    <3>1. i \in 1..n /\ (j = n + 1 \/ j \in 1..n)
      BY <2>4, <1>2
    <3>2. CASE j = n + 1
      <4>1. pieces[i].block = b /\ pieces'[j].at = chain[b].size - chain[b].free
        BY <3>1, <3>2, <2>4, <1>4a
      <4>2. QED
        BY <3>1, <4>1, <1>10
    <3>3. CASE j \in 1..n
      <4>1. pieces[i].block = pieces[j].block
        BY <3>1, <3>3, <2>4, <1>10
      <4>2. End(pieces, i) <= pieces[j].at
        BY <1>s, <2>4, <3>1, <3>3, <4>1 DEF IInv, Stacked
      <4>3. QED
        BY <3>1, <3>3, <4>2, <1>10
    <3>4. QED
      BY <3>1, <3>2, <3>3
  <2>5. ASSUME NEW i \in 1..n, pieces'[i].block = pieces'[i + 1].block
        PROVE  End(pieces', i) = pieces'[i + 1].at
    <3>2. CASE i = n
      <4>1. pieces[n].block = b /\ pieces'[i + 1].at = chain[b].size - chain[b].free
        BY <3>2, <2>5, <1>4a
      <4>2. QED
        BY <3>2, <4>1, <1>10, <1>12
    <3>3. CASE i # n
      <4>1. i \in 1..(n - 1) /\ i + 1 \in 1..n
        BY <3>3, <1>2
      <4>2. pieces[i].block = pieces[i + 1].block
        BY <4>1, <2>5, <1>4a
      <4>3. End(pieces, i) = pieces[i + 1].at
        BY <1>s, <4>1, <4>2 DEF IInv, Stacked
      <4>4. pieces'[i + 1].at = pieces[i + 1].at
        BY <4>1, <1>4a
      <4>5. QED
        BY <4>3, <4>4, <1>10
    <3>4. QED
      BY <3>2, <3>3
  <2>6. ASSUME NEW i \in 1..(n + 1), i < n + 1 => pieces'[i + 1].block # pieces'[i].block
        PROVE  End(pieces', i) = Mark(blocks', pieces'[i].block)
    <3>2. CASE i = n + 1
      <4>1. Mark(blocks', pieces'[i].block) = Mark(blocks', b)
        BY <3>2, <1>4a DEF Mark
      <4>2. QED
        BY <3>2, <4>1, <1>11
    <3>3. CASE i \in 1..n
      <4>1. i < n + 1
        BY <3>3, <1>2
      <4>2. pieces'[i + 1].block # pieces[i].block
        BY <3>3, <4>1, <2>6, <1>4a
      <4>3. Mark(blocks', pieces'[i].block) = Mark(blocks', pieces[i].block)
        BY <3>3, <1>4a DEF Mark
      <4>4. CASE i = n
        <5>1. pieces[n].block # b /\ ~(n < n) /\ n = Len(pieces)
          BY <4>2, <4>4, <1>2, <1>4a
        <5>2. End(pieces, n) = Mark(blocks, pieces[n].block)
          BY <1>s, <3>3, <4>4, <5>1 DEF IInv, Stacked
        <5>3. QED
          BY <3>3, <4>3, <4>4, <5>1, <5>2, <1>10
      <4>5. CASE i # n
        <5>1. i + 1 \in 1..n /\ i < i + 1 /\ i < n
          BY <3>3, <4>5, <1>2
        <5>2. pieces[i + 1].block # pieces[i].block
          BY <4>2, <5>1, <1>4a
        <5>3. pieces[i].rws <= pieces[i + 1].block /\ pieces[i].block <= pieces[i].rws
          BY <1>s, <3>3, <5>1, <1>2, <1>8a DEF IInv, Forward
        <5>4. pieces[i + 1].block <= Caller.rws
          BY <5>1, <1>8
        <5>5. pieces[i].block # b
          <6>1. pieces[i].block \in Nat /\ pieces[i].rws \in Nat /\ pieces[i + 1].block \in Nat
            BY <3>3, <5>1, <1>8a
          <6> HIDE DEF n
          <6>2. QED
            BY ONLY <6>1, <5>2, <5>3, <5>4, <1>8b, <1>2, LastBlock
        <5>6. End(pieces, i) = Mark(blocks, pieces[i].block)
          BY <1>s, <3>3, <5>2 DEF IInv, Stacked
        <5>7. QED
          BY <3>3, <4>3, <5>5, <5>6, <1>10
      <4>6. QED
        BY <4>4, <4>5
    <3>4. QED
      BY <3>2, <3>3, <1>2
  <2>7. n + 1 - 1 = n /\ Len(pieces') = n + 1
    BY <1>2, <1>4a
  <2>8. QED
    BY <2>3, <2>4, <2>5, <2>6, <2>7 DEF Stacked
<1>14. QED
  BY <1>s, <1>5, <1>6, <1>7, <1>9, <1>13 DEF IInv, WithinHeapLimit

-----------------------------------------------------------------------------
\* The chain as it is may be cut from the block in use.
LEMMA HerePrepared ==
  ASSUME NEW need \in Nat
  PROVE  IInv /\ ~Needs(need) => Prepared(need, blocks, Caller.rws)
<1>1. SUFFICES ASSUME IInv, ~Needs(need) PROVE Prepared(need, blocks, Caller.rws)
  OBVIOUS
<1>2. /\ Len(pieces) \in 1..Len(pieces) /\ Len(blocks) \in Nat /\ blocks \in Seq(Block)
      /\ Caller = pieces[Len(pieces)]
  BY <1>1 DEF IInv, TypeOK, Caller
<1>3. Caller.rws \in 1..Len(blocks)
  BY <1>1, <1>2, NoneBeyond
<1>4. blocks[Caller.rws].free \in Int
  BY <1>1, <1>3, Fields DEF IInv
<1>5. need <= blocks[Caller.rws].free
  BY <1>1, <1>4 DEF Needs
<1>6. \A c \in 1..Len(blocks) : 0 <= blocks[c].free /\ blocks[c].free <= blocks[c].size - RWS_ANCHOR_SIZE
  BY <1>1 DEF IInv, BlocksSound
<1>7. QED
  BY <1>2, <1>3, <1>5, <1>6 DEF Prepared

\* So may the next block, once it is empty.
LEMMA NextPrepared ==
  ASSUME NEW need \in Nat
  PROVE  /\ IInv /\ Caller.rws < Len(blocks) /\ ~LastIsTooSmall(Caller.rws, need)
         => Prepared(need, Reset(blocks, Caller.rws + 1), Caller.rws + 1)
<1>1. SUFFICES ASSUME IInv, Caller.rws < Len(blocks), ~LastIsTooSmall(Caller.rws, need)
               PROVE  Prepared(need, Reset(blocks, Caller.rws + 1), Caller.rws + 1)
  OBVIOUS
<1> DEFINE b == Caller.rws + 1
           k == blocks[b].size - RWS_ANCHOR_SIZE
           empty == [blocks[b] EXCEPT !.free = k]
           chain == Reset(blocks, b)
<1>2. Len(pieces) \in 1..Len(pieces) /\ Len(blocks) \in Nat /\ blocks \in Seq(Block)
  BY <1>1 DEF IInv, TypeOK
<1>3. Caller.rws \in 1..Len(blocks)
  BY <1>1, <1>2, NoneBeyond
<1>4. b \in 1..Len(blocks) /\ Caller.rws < b /\ b \in Caller.rws..Len(blocks) /\ Caller.rws \in Nat
  BY <1>1, <1>2, <1>3
<1>5. blocks[b] \in Block /\ blocks[b].size \in Nat
  BY <1>1, <1>4, Fields DEF IInv
<1>6. need <= k /\ 0 <= k /\ k \in Int
  BY <1>1, <1>5 DEF LastIsTooSmall, Requested
<1>7. empty \in Block /\ empty.free = k /\ empty.size = blocks[b].size
  BY <1>5, <1>6, Freed
<1>8. chain = [blocks EXCEPT ![b] = empty]
  BY DEF Reset
<1> HIDE DEF b, empty, chain
<1>9. /\ chain \in Seq(Block) /\ Len(chain) = Len(blocks)
      /\ \A c \in 1..Len(blocks) : chain[c] = IF c = b THEN empty ELSE blocks[c]
  BY <1>2, <1>4, <1>7, <1>8, Updated
<1>10. \A c \in 1..Len(blocks) : c <= Caller.rws => chain[c] = blocks[c]
  BY <1>4, <1>9
<1>11. ASSUME NEW c \in 1..Len(chain)
       PROVE  0 <= chain[c].free /\ chain[c].free <= chain[c].size - RWS_ANCHOR_SIZE
  <2>1. c \in 1..Len(blocks)
    BY <1>9
  <2>2. CASE c = b
    <3>1. chain[c].free = k /\ chain[c].size = blocks[b].size
      BY <2>1, <2>2, <1>7, <1>9
    <3>2. QED
      BY <3>1, <1>5, <1>6
  <2>3. CASE c # b
    <3>1. chain[c] = blocks[c]
      BY <2>1, <2>3, <1>9
    <3>2. QED
      BY <3>1, <2>1, <1>1 DEF IInv, BlocksSound
  <2>4. QED
    BY <2>2, <2>3
<1>12. need <= chain[b].free
  BY <1>4, <1>6, <1>7, <1>9
<1>13. Len(chain) >= Len(blocks) /\ b \in Caller.rws..Len(chain)
  BY <1>2, <1>4, <1>9
<1>14. Prepared(need, chain, b)
  BY <1>9, <1>10, <1>11, <1>12, <1>13 DEF Prepared
<1>15. QED
  BY <1>14 DEF b, chain

\* The clamped size, in ints and in kibibytes.
LEMMA Clamped ==
  ASSUME NEW double \in Nat, NEW used \in Nat, NEW limit \in Nat, used <= limit
  PROVE  /\ ClampedSize(double, used, limit).ints \in Nat
         /\ ClampedSize(double, used, limit).k \in Nat
         /\ used + ClampedSize(double, used, limit).k <= limit
<1>1. double \div 256 \in Nat
  OBVIOUS
<1> DEFINE q == double \div 256
<1>2. q \in Nat
  BY <1>1
<1>3. ClampedSize(double, used, limit) =
        IF used >= limit THEN [ints |-> 0, k |-> 0]
        ELSE IF q > limit - used THEN [ints |-> (limit - used) * 256, k |-> limit - used]
        ELSE [ints |-> double, k |-> q]
  BY DEF ClampedSize, IntsPerK
<1> HIDE DEF q
<1>4. CASE used >= limit
  <2>1. ClampedSize(double, used, limit) = [ints |-> 0, k |-> 0]
    BY <1>3, <1>4
  <2>2. QED
    BY <2>1
<1>5. CASE ~(used >= limit) /\ q > limit - used
  <2>1. ClampedSize(double, used, limit) = [ints |-> (limit - used) * 256, k |-> limit - used]
    BY <1>3, <1>5
  <2>2. limit - used \in Nat /\ (limit - used) * 256 \in Nat
    OBVIOUS
  <2>3. QED
    BY <2>1, <2>2
<1>6. CASE ~(used >= limit) /\ ~(q > limit - used)
  <2>1. ClampedSize(double, used, limit) = [ints |-> double, k |-> q]
    BY <1>3, <1>6
  <2>2. QED
    BY <2>1, <1>2, <1>6
<1>7. QED
  BY <1>4, <1>5, <1>6

\* So may a new block, and what is used stays within the limit.
LEMMA NewPrepared ==
  ASSUME NEW need \in Nat
  PROVE  /\ IInv /\ Caller.rws = Len(blocks) /\ ~LimitReached(Caller.rws, need)
         => /\ Prepared(need, Append(blocks, NewBlock(NextSize(blocks[Caller.rws]).ints)), Caller.rws + 1)
            /\ heap_used + NextSize(blocks[Caller.rws]).k \in Nat
            /\ heap_used + NextSize(blocks[Caller.rws]).k <= heap_limit
<1>1. SUFFICES ASSUME IInv, Caller.rws = Len(blocks), ~LimitReached(Caller.rws, need)
               PROVE  /\ Prepared(need, Append(blocks, NewBlock(NextSize(blocks[Caller.rws]).ints)), Caller.rws + 1)
                      /\ heap_used + NextSize(blocks[Caller.rws]).k \in Nat
                      /\ heap_used + NextSize(blocks[Caller.rws]).k <= heap_limit
  OBVIOUS
<1> DEFINE size  == NextSize(blocks[Caller.rws])
           empty == NewBlock(size.ints)
           chain == Append(blocks, empty)
           m     == Len(blocks)
<1>2. m \in Nat /\ m >= 1 /\ m \in 1..m /\ blocks \in Seq(Block)
  BY <1>1 DEF IInv, TypeOK
<1>3. heap_limit \in Nat /\ heap_used \in Nat /\ heap_used <= heap_limit
  BY <1>1 DEF IInv, TypeOK, WithinHeapLimit
<1>4. blocks[m].size \in Nat
  BY <1>1, <1>2, Fields DEF IInv
<1>5. size.ints \in Nat /\ size.k \in Nat /\ heap_used + size.k <= heap_limit
  <2> DEFINE double == IF blocks[m].size >= MaxInts \div 2 THEN MaxInts ELSE 2 * blocks[m].size
  <2>1. double \in Nat
    BY <1>4 DEF MaxInts
  <2>2. size = ClampedSize(double, heap_used, heap_limit)
    BY <1>1 DEF NextSize
  <2> HIDE DEF double
  <2>3. QED
    BY <2>1, <2>2, <1>3, Clamped
<1>6. need + RWS_ANCHOR_SIZE <= size.ints
  <2>1. ~(size.ints < need + RWS_ANCHOR_SIZE)
    BY <1>1 DEF LimitReached, Requested
  <2>2. QED
    BY <2>1, <1>5
<1> HIDE DEF size
<1>7. empty = [size |-> size.ints, free |-> size.ints - RWS_ANCHOR_SIZE]
  BY DEF NewBlock
<1>8. empty \in Block
  BY <1>5, <1>7 DEF Block
<1>9. empty.size = size.ints /\ empty.free = size.ints - RWS_ANCHOR_SIZE
  BY <1>7
<1> HIDE DEF empty
<1>10. /\ chain \in Seq(Block) /\ Len(chain) = m + 1 /\ chain[m + 1] = empty
       /\ \A c \in 1..m : chain[c] = blocks[c]
  BY <1>2, <1>8, Appended
<1>11. /\ Len(chain) = m + 1 /\ chain[m + 1] = empty
       /\ \A c \in 1..m : chain[c] = blocks[c]
  BY <1>10
<1>12. ASSUME NEW c \in 1..Len(chain)
       PROVE  0 <= chain[c].free /\ chain[c].free <= chain[c].size - RWS_ANCHOR_SIZE
  <2>1. CASE c = m + 1
    <3>1. chain[c] = empty
      BY <2>1, <1>11
    <3>2. QED
      BY <3>1, <1>5, <1>6, <1>9
  <2>2. CASE c \in 1..m
    <3>1. chain[c] = blocks[c]
      BY <2>2, <1>11
    <3>2. QED
      BY <3>1, <2>2, <1>1 DEF IInv, BlocksSound
  <2>3. QED
    BY <2>1, <2>2, <1>2, <1>11
<1>13. need <= chain[m + 1].free
  BY <1>5, <1>6, <1>9, <1>11
<1>14. Len(chain) >= m /\ m + 1 \in m..Len(chain)
  BY <1>2, <1>11
<1>15. Prepared(need, chain, Caller.rws + 1)
  <2> HIDE DEF chain
  <2>1. QED
    BY <1>1, <1>10, <1>12, <1>13, <1>14 DEF Prepared
<1>16. QED
  BY <1>3, <1>5, <1>15 DEF size, empty

\* An inner call starts.
LEMMA EnterOK ==
  ASSUME NEW need \in Nat
  PROVE  IInv /\ Enter(need) /\ heap_limit' = heap_limit => IInv'
<1>1. SUFFICES ASSUME IInv, Enter(need), heap_limit' = heap_limit PROVE IInv'
  OBVIOUS
<1>2. heap_used \in Nat /\ heap_used <= heap_limit
  BY <1>1 DEF IInv, TypeOK, WithinHeapLimit
<1>3. CASE EnterHere(need)
  BY <1>1, <1>2, <1>3, HerePrepared, CutOK DEF EnterHere
<1>4. CASE EnterNext(need)
  BY <1>1, <1>2, <1>4, NextPrepared, CutOK DEF EnterNext
<1>5. CASE EnterNew(need)
  BY <1>1, <1>5, NewPrepared, CutOK DEF EnterNew
<1>6. QED
  BY <1>1, <1>3, <1>4, <1>5 DEF Enter

\* The innermost call goes back to the block of its piece.
LEMMA AgainOK == IInv /\ Again /\ heap_limit' = heap_limit => IInv'
<1>1. SUFFICES ASSUME IInv, Again, heap_limit' = heap_limit PROVE IInv'
  OBVIOUS
<1> DEFINE n == Len(pieces)
           last == [pieces[n] EXCEPT !.rws = pieces[n].block]
<1>2. /\ n \in Nat /\ n > 1 /\ n \in 1..n /\ pieces \in Seq(Piece) /\ pieces[n] \in Piece
      /\ blocks' = blocks /\ heap_used' = heap_used /\ pieces' = [pieces EXCEPT ![n] = last]
  BY <1>1 DEF IInv, TypeOK, Again, Caller
<1>3. pieces[n].block \in Nat
  BY <1>2, PieceFields
<1>4. /\ last \in Piece /\ last.rws = pieces[n].block /\ last.block = pieces[n].block
      /\ last.at = pieces[n].at /\ last.need = pieces[n].need
  BY <1>2, <1>3, Moved
<1> HIDE DEF last
<1>5. /\ pieces' \in Seq(Piece) /\ Len(pieces') = n
      /\ \A i \in 1..n : pieces'[i] = IF i = n THEN last ELSE pieces[i]
  BY <1>2, <1>4, Updated
<1>6. ASSUME NEW i \in 1..n
      PROVE  /\ pieces'[i].block = pieces[i].block /\ pieces'[i].at = pieces[i].at
             /\ pieces'[i].need = pieces[i].need
             /\ pieces'[i].rws = IF i = n THEN pieces[n].block ELSE pieces[i].rws
  <2>1. pieces'[i] = IF i = n THEN last ELSE pieces[i]
    BY <1>5
  <2>2. QED
    BY <2>1, <1>4
<1>7. ASSUME NEW i \in 1..n
      PROVE  End(pieces', i) = End(pieces, i)
  BY <1>6 DEF End
<1>8. Len(pieces') = n /\ 1 \in 1..n
  BY <1>2, <1>5
<1>9. TypeOK'
  BY <1>1, <1>2, <1>5 DEF IInv, TypeOK
<1>10. BlocksSound' /\ OutermostFirst' /\ WithinHeapLimit'
  BY <1>1, <1>2, <1>6, <1>8 DEF IInv, BlocksSound, OutermostFirst, WithinHeapLimit
<1>11. Forward'
  <2>1. ASSUME NEW i \in 1..n
        PROVE  pieces'[i].block \in 1..Len(blocks) /\ pieces'[i].rws \in pieces'[i].block..Len(blocks)
    <3>1. pieces[i].block \in 1..Len(blocks) /\ pieces[i].rws \in pieces[i].block..Len(blocks)
      BY <1>1 DEF IInv, Forward
    <3>2. CASE i = n
      BY <3>1, <3>2, <1>6
    <3>3. CASE i # n
      BY <3>1, <3>3, <1>6
    <3>4. QED
      BY <3>2, <3>3
  <2>2. ASSUME NEW i \in 1..n, NEW j \in 1..n, i < j
        PROVE  pieces'[i].rws <= pieces'[j].block
    <3>1. pieces[i].rws <= pieces[j].block
      BY <1>1, <2>2 DEF IInv, Forward
    <3>2. i # n
      BY <1>2, <2>2
    <3>3. QED
      BY <3>1, <3>2, <1>6
  <2>3. QED
    BY <1>2, <1>8, <2>1, <2>2 DEF Forward
<1>12. Stacked'
  <2>1. ASSUME NEW i \in 1..n
        PROVE  RWS_ANCHOR_SIZE <= pieces'[i].at /\ End(pieces', i) <= Mark(blocks, pieces'[i].block)
    <3>1. RWS_ANCHOR_SIZE <= pieces[i].at /\ End(pieces, i) <= Mark(blocks, pieces[i].block)
      BY <1>1 DEF IInv, Stacked
    <3>2. QED
      BY <3>1, <1>6, <1>7
  <2>2. ASSUME NEW i \in 1..n, NEW j \in 1..n, i < j, pieces'[i].block = pieces'[j].block
        PROVE  End(pieces', i) <= pieces'[j].at
    <3>1. pieces[i].block = pieces[j].block
      BY <2>2, <1>6
    <3>2. End(pieces, i) <= pieces[j].at
      BY <1>1, <2>2, <3>1 DEF IInv, Stacked
    <3>3. QED
      BY <3>2, <1>6, <1>7
  <2>3. ASSUME NEW i \in 1..(n - 1), pieces'[i].block = pieces'[i + 1].block
        PROVE  End(pieces', i) = pieces'[i + 1].at
    <3>1. i \in 1..n /\ i + 1 \in 1..n
      BY <1>2
    <3>2. pieces[i].block = pieces[i + 1].block
      BY <2>3, <3>1, <1>6
    <3>3. End(pieces, i) = pieces[i + 1].at
      BY <1>1, <3>2 DEF IInv, Stacked
    <3>4. QED
      BY <3>1, <3>3, <1>6, <1>7
  <2>4. ASSUME NEW i \in 1..n, i < n => pieces'[i + 1].block # pieces'[i].block
        PROVE  End(pieces', i) = Mark(blocks, pieces'[i].block)
    <3>1. i < n => pieces[i + 1].block # pieces[i].block
      <4>1. SUFFICES ASSUME i < n PROVE pieces[i + 1].block # pieces[i].block
        OBVIOUS
      <4>2. i + 1 \in 1..n
        BY <4>1, <1>2
      <4>3. QED
        BY <4>1, <4>2, <2>4, <1>6
    <3>2. End(pieces, i) = Mark(blocks, pieces[i].block)
      BY <1>1, <3>1 DEF IInv, Stacked
    <3>3. QED
      BY <3>2, <1>6, <1>7
  <2>5. QED
    BY <1>2, <1>8, <2>1, <2>2, <2>3, <2>4 DEF Stacked
<1>13. QED
  BY <1>9, <1>10, <1>11, <1>12 DEF IInv

\* What is free once the last piece is given back reaches down to where the piece started.
LEMMA GivenBack ==
  ASSUME NEW size \in Nat, NEW free \in Int, NEW from \in Nat, NEW need \in Nat,
         from + need = size - free, RWS_ANCHOR_SIZE <= from, 0 <= free
  PROVE  /\ free + need \in Int /\ 0 <= free + need
         /\ free + need = size - from /\ free + need <= size - RWS_ANCHOR_SIZE
  OBVIOUS

\* The innermost call gives its piece back: it was the last one of its block.
LEMMA LeaveOK == IInv /\ Leave /\ heap_limit' = heap_limit => IInv'
<1>1. SUFFICES ASSUME IInv, Leave, heap_limit' = heap_limit PROVE IInv'
  OBVIOUS
<1> DEFINE n == Len(pieces)
           b == pieces[n].block
           k == blocks[b].free + pieces[n].need
           back == [blocks[b] EXCEPT !.free = k]
<1>2. /\ n \in Nat /\ n > 1 /\ n \in 1..n /\ n - 1 \in Nat /\ n - 1 >= 1 /\ pieces \in Seq(Piece)
      /\ blocks \in Seq(Block) /\ heap_used' = heap_used
      /\ blocks' = [blocks EXCEPT ![b] = back] /\ pieces' = SubSeq(pieces, 1, n - 1)
  BY <1>1 DEF IInv, TypeOK, Leave, Caller
<1>3. /\ b \in 1..Len(blocks) /\ End(pieces, n) = Mark(blocks, b) /\ RWS_ANCHOR_SIZE <= pieces[n].at
  <2>1. ~(n < n)
    BY <1>2
  <2>2. QED
    BY <1>1, <1>2, <2>1 DEF IInv, Forward, Stacked
<1>4. /\ pieces[n].at \in Nat /\ pieces[n].need \in Nat /\ blocks[b].size \in Nat
      /\ blocks[b].free \in Int /\ blocks[b] \in Block /\ 0 <= blocks[b].free
  BY <1>1, <1>2, <1>3, Fields DEF IInv, BlocksSound
<1>5. k \in Int /\ 0 <= k /\ k = blocks[b].size - pieces[n].at /\ k <= blocks[b].size - RWS_ANCHOR_SIZE
  <2>1. pieces[n].at + pieces[n].need = blocks[b].size - blocks[b].free
    BY <1>3 DEF End, Mark
  <2>2. RWS_ANCHOR_SIZE <= pieces[n].at
    BY <1>3
  <2> HIDE DEF b, n
  <2>3. QED
    BY ONLY <1>4, <2>1, <2>2, GivenBack DEF k
<1>6. back \in Block /\ back.free = k /\ back.size = blocks[b].size
  BY <1>4, <1>5, Freed
<1> HIDE DEF back, k
<1>7. /\ blocks' \in Seq(Block) /\ Len(blocks') = Len(blocks)
      /\ \A c \in 1..Len(blocks) : blocks'[c] = IF c = b THEN back ELSE blocks[c]
  BY <1>2, <1>3, <1>6, Updated
<1>8. /\ pieces' \in Seq(Piece) /\ Len(pieces') = n - 1
      /\ \A i \in 1..(n - 1) : pieces'[i] = pieces[i]
  BY <1>2
<1>9. TypeOK'
  BY <1>1, <1>2, <1>7, <1>8 DEF IInv, TypeOK
<1>10. BlocksSound'
  <2>1. ASSUME NEW c \in 1..Len(blocks)
        PROVE  0 <= blocks'[c].free /\ blocks'[c].free <= blocks'[c].size - RWS_ANCHOR_SIZE
    <3>1. CASE c = b
      <4>1. blocks'[c].free = k /\ blocks'[c].size = blocks[b].size
        BY <3>1, <1>6, <1>7
      <4>2. QED
        BY <4>1, <1>5
    <3>2. CASE c # b
      <4>1. blocks'[c] = blocks[c]
        BY <3>2, <1>7
      <4>2. QED
        BY <4>1, <1>1 DEF IInv, BlocksSound
    <3>3. QED
      BY <3>1, <3>2
  <2>2. Len(blocks') = Len(blocks)
    BY <1>7
  <2>3. QED
    BY <2>1, <2>2 DEF BlocksSound
<1>11. 1 \in 1..(n - 1) /\ Len(pieces') = n - 1 /\ Len(blocks') = Len(blocks)
       /\ \A i \in 1..(n - 1) : pieces'[i] = pieces[i] /\ i \in 1..n /\ i + 1 \in 1..n /\ i < n
  BY <1>2, <1>7, <1>8
<1>12. OutermostFirst' /\ WithinHeapLimit'
  BY <1>1, <1>2, <1>11 DEF IInv, OutermostFirst, WithinHeapLimit
<1>13. Forward'
  <2>1. ASSUME NEW i \in 1..(n - 1)
        PROVE  pieces'[i].block \in 1..Len(blocks) /\ pieces'[i].rws \in pieces'[i].block..Len(blocks)
    BY <1>1, <1>11 DEF IInv, Forward
  <2>2. ASSUME NEW i \in 1..(n - 1), NEW j \in 1..(n - 1), i < j
        PROVE  pieces'[i].rws <= pieces'[j].block
    <3>1. pieces[i].rws <= pieces[j].block
      BY <1>1, <1>11, <2>2 DEF IInv, Forward
    <3>2. QED
      BY <3>1, <1>11
  <2>3. QED
    BY <1>11, <2>1, <2>2 DEF Forward
<1>14. ASSUME NEW i \in 1..(n - 1)
       PROVE  /\ End(pieces', i) = End(pieces, i)
              /\ pieces[i].block # b => Mark(blocks', pieces[i].block) = Mark(blocks, pieces[i].block)
              /\ pieces[i].block = b => End(pieces, i) <= pieces[n].at
              /\ pieces[i].block = b => Mark(blocks', b) = pieces[n].at
              /\ pieces[i].block = b => pieces[i + 1].block = b
  <2>1. pieces'[i] = pieces[i] /\ i \in 1..n /\ i < n
    BY <1>11
  <2>2. End(pieces', i) = End(pieces, i)
    BY <2>1 DEF End
  <2>3. pieces[i].block \in 1..Len(blocks)
    BY <1>1, <2>1 DEF IInv, Forward
  <2>4. pieces[i].block # b => Mark(blocks', pieces[i].block) = Mark(blocks, pieces[i].block)
    BY <1>7, <2>3 DEF Mark
  <2>5. pieces[i].block = b => End(pieces, i) <= pieces[n].at
    BY <1>1, <1>2, <2>1 DEF IInv, Stacked
  <2>6. Mark(blocks', b) = pieces[n].at
    <3>1. blocks'[b].free = k /\ blocks'[b].size = blocks[b].size
      BY <1>3, <1>6, <1>7
    <3>2. QED
      BY <3>1, <1>4, <1>5 DEF Mark
  <2>7. SUFFICES ASSUME pieces[i].block = b, i + 1 # n PROVE pieces[i + 1].block = b
    BY <2>2, <2>4, <2>5, <2>6
  <2>8. i + 1 \in 1..n /\ i < i + 1 /\ i + 1 < n
    BY <2>1, <2>7, <1>2
  <2>9. pieces[i].rws <= pieces[i + 1].block /\ pieces[i + 1].rws <= b
    BY <1>1, <1>2, <2>1, <2>8 DEF IInv, Forward
  <2>10. pieces[i].block <= pieces[i].rws /\ pieces[i + 1].block <= pieces[i + 1].rws
    BY <1>1, <2>1, <2>8, Fields DEF IInv, Forward
  <2>11. /\ pieces[i].block \in Nat /\ pieces[i].rws \in Nat
         /\ pieces[i + 1].block \in Nat /\ pieces[i + 1].rws \in Nat
    BY <1>1, <2>1, <2>8, Fields DEF IInv
  <2>12. QED
    BY <2>7, <2>9, <2>10, <2>11
<1>15. Stacked'
  <2>1. ASSUME NEW i \in 1..(n - 1)
        PROVE  RWS_ANCHOR_SIZE <= pieces'[i].at /\ End(pieces', i) <= Mark(blocks', pieces'[i].block)
    <3>1. RWS_ANCHOR_SIZE <= pieces[i].at /\ End(pieces, i) <= Mark(blocks, pieces[i].block)
      BY <1>1, <1>11 DEF IInv, Stacked
    <3>2. pieces'[i] = pieces[i]
      BY <1>11
    <3>3. QED
      BY <3>1, <3>2, <1>14
  <2>2. ASSUME NEW i \in 1..(n - 1), NEW j \in 1..(n - 1), i < j, pieces'[i].block = pieces'[j].block
        PROVE  End(pieces', i) <= pieces'[j].at
    <3>1. pieces[i].block = pieces[j].block /\ i \in 1..n /\ j \in 1..n
      BY <2>2, <1>11
    <3>2. End(pieces, i) <= pieces[j].at
      BY <1>1, <2>2, <3>1 DEF IInv, Stacked
    <3>3. QED
      BY <3>2, <1>11, <1>14
  <2>3. ASSUME NEW i \in 1..((n - 1) - 1), pieces'[i].block = pieces'[i + 1].block
        PROVE  End(pieces', i) = pieces'[i + 1].at
    <3>1. i \in 1..(n - 1) /\ i + 1 \in 1..(n - 1)
      BY <1>2
    <3>2. End(pieces, i) = pieces[i + 1].at
      BY <1>1, <2>3, <3>1, <1>11 DEF IInv, Stacked
    <3>3. QED
      BY <3>1, <3>2, <1>11, <1>14
  <2>4. ASSUME NEW i \in 1..(n - 1), i < n - 1 => pieces'[i + 1].block # pieces'[i].block
        PROVE  End(pieces', i) = Mark(blocks', pieces'[i].block)
    <3>1. pieces'[i] = pieces[i] /\ i \in 1..n /\ i < n
      BY <1>11
    <3>2. CASE pieces[i].block = b
      <4>1. i = n - 1
        <5>1. SUFFICES ASSUME i # n - 1 PROVE FALSE
          OBVIOUS
        <5>2. i < n - 1 /\ i + 1 \in 1..(n - 1)
          BY <5>1, <1>2
        <5>3. pieces[i + 1].block # b
          BY <2>4, <3>1, <3>2, <5>2, <1>11
        <5>4. QED
          BY <5>3, <3>2, <1>14
      <4>2. i + 1 = n
        BY <4>1, <1>2
      <4>3. End(pieces, i) = pieces[n].at
        BY <1>1, <3>2, <4>2 DEF IInv, Stacked
      <4>4. QED
        BY <4>3, <3>1, <3>2, <1>14
    <3>3. CASE pieces[i].block # b
      <4>1. pieces[i + 1].block # pieces[i].block
        <5>1. CASE i < n - 1
          <6>1. i + 1 \in 1..(n - 1)
            BY <5>1, <1>2
          <6>2. QED
            BY <5>1, <6>1, <2>4, <3>1, <1>11
        <5>2. CASE ~(i < n - 1)
          <6>1. i + 1 = n
            BY <5>2, <1>2
          <6>2. QED
            BY <6>1, <3>3
        <5>3. QED
          BY <5>1, <5>2
      <4>2. End(pieces, i) = Mark(blocks, pieces[i].block)
        BY <1>1, <3>1, <4>1 DEF IInv, Stacked
      <4>3. QED
        BY <4>2, <3>1, <3>3, <1>14
    <3>4. QED
      BY <3>2, <3>3
  <2>5. QED
    BY <1>11, <2>1, <2>2, <2>3, <2>4 DEF Stacked
<1>16. QED
  BY <1>9, <1>10, <1>12, <1>13, <1>15 DEF IInv

\* The outermost call starts again.
LEMMA RestartedOK == IInv /\ Restarted /\ heap_limit' = heap_limit => IInv'
<1>1. SUFFICES ASSUME IInv, Restarted, heap_limit' = heap_limit PROVE IInv'
  OBVIOUS
<1>2. /\ Len(pieces) = 1 /\ pieces' = <<[block |-> 1, at |-> 4, need |-> 0, rws |-> 1]>>
      /\ blocks' = blocks /\ heap_used' = heap_used
  BY <1>1 DEF Restarted, Outermost
<1>3. pieces[1].block = 1 /\ pieces[1].at = 4 /\ pieces[1].need = 0 /\ Len(blocks) \in Nat /\ Len(blocks) >= 1
  BY <1>1 DEF IInv, OutermostFirst, TypeOK
<1>4. End(pieces, 1) = Mark(blocks, 1) /\ End(pieces, 1) = 4
  BY <1>1, <1>2, <1>3 DEF IInv, Stacked, End
<1>5. /\ Len(pieces') = 1 /\ pieces'[1] = [block |-> 1, at |-> 4, need |-> 0, rws |-> 1]
      /\ pieces' \in Seq(Piece)
  BY <1>2 DEF Piece
<1>6. pieces'[1].block = 1 /\ pieces'[1].at = 4 /\ pieces'[1].need = 0 /\ pieces'[1].rws = 1
  BY <1>5
<1>7. TypeOK'
  BY <1>1, <1>2, <1>5 DEF IInv, TypeOK
<1>8. BlocksSound' /\ OutermostFirst' /\ WithinHeapLimit'
  BY <1>1, <1>2, <1>6 DEF IInv, BlocksSound, OutermostFirst, WithinHeapLimit
<1>9. Forward'
  BY <1>2, <1>3, <1>5, <1>6 DEF Forward
<1>10. End(pieces', 1) = 4 /\ Mark(blocks', 1) = 4
  BY <1>2, <1>4, <1>6 DEF End
<1>11. Stacked'
  BY <1>5, <1>6, <1>10 DEF Stacked
<1>12. QED
  BY <1>7, <1>8, <1>9, <1>11 DEF IInv

\* The match ends.
LEMMA FinishOK == IInv /\ Finish /\ heap_limit' = heap_limit => IInv'
<1>1. SUFFICES ASSUME IInv, Finish, heap_limit' = heap_limit PROVE IInv'
  OBVIOUS
<1>2. /\ blocks' = <<[size |-> 7680, free |-> 7676]>>
      /\ pieces' = <<[block |-> 1, at |-> 4, need |-> 0, rws |-> 1]>> /\ heap_used' = 0
  BY <1>1 DEF Finish, NewBlock, Outermost, RWS_BASE_SIZE
<1>3. heap_limit' \in Nat
  BY <1>1 DEF IInv, TypeOK
<1>4. QED
  BY <1>2, <1>3 DEF IInv, TypeOK, BlocksSound, OutermostFirst, Forward, Stacked, WithinHeapLimit, Block, Piece, Mark, End

\* Every step keeps the invariant.
LEMMA NextOK == IInv /\ [Next]_workspace => IInv'
<1>1. SUFFICES ASSUME IInv, [Next]_workspace PROVE IInv'
  OBVIOUS
<1>2. ASSUME NEW need \in Sizes, Enter(need), heap_limit' = heap_limit PROVE IInv'
  BY <1>1, <1>2, EnterOK, WorkspaceAssumption
<1>3. CASE UNCHANGED workspace
  BY <1>1, <1>3 DEF workspace, IInv, TypeOK, BlocksSound, OutermostFirst, Forward, Stacked, WithinHeapLimit, Mark, End
<1>4. CASE Next
  BY <1>1, <1>2, <1>4, AgainOK, LeaveOK, RestartedOK, FinishOK DEF Next
<1>5. QED
  BY <1>1, <1>3, <1>4

\* The strengthened invariant holds for any limit and any sizes of pieces.
THEOREM WorkspaceInvariance == Spec => []IInv
<1>1. QED
  BY InitOK, NextOK, PTL DEF Spec

\* An inner call never works in the piece of a call it was made from, and never outside
\* the block its piece was cut from.
THEOREM NoCallSpoilsAnother == Spec => []PiecesApart
<1>1. IInv => PiecesApart
  <2>1. SUFFICES ASSUME IInv PROVE PiecesApart
    OBVIOUS
  <2>2. ASSUME NEW i \in 1..Len(pieces)
        PROVE  /\ pieces[i].block \in 1..Len(blocks)
               /\ pieces[i].at >= RWS_ANCHOR_SIZE
               /\ pieces[i].at + pieces[i].need <= blocks[pieces[i].block].size
    <3>1. pieces[i].block \in 1..Len(blocks) /\ RWS_ANCHOR_SIZE <= pieces[i].at
      BY <2>1 DEF IInv, Forward, Stacked
    <3>2. pieces[i].at + pieces[i].need <= blocks[pieces[i].block].size - blocks[pieces[i].block].free
      BY <2>1 DEF IInv, Stacked, End, Mark
    <3>3. /\ 0 <= blocks[pieces[i].block].free /\ blocks[pieces[i].block].size \in Nat
          /\ blocks[pieces[i].block].free \in Int
      BY <2>1, <3>1, Fields DEF IInv, BlocksSound
    <3>4. pieces[i].at \in Nat /\ pieces[i].need \in Nat
      BY <2>1, Fields DEF IInv
    <3>5. pieces[i].at + pieces[i].need <= blocks[pieces[i].block].size
      BY <3>2, <3>3, <3>4, WithoutRoom
    <3>6. QED
      BY <3>1, <3>4, <3>5
  <2>3. ASSUME NEW i \in 1..Len(pieces), NEW j \in 1..Len(pieces), i < j, pieces[i].block = pieces[j].block
        PROVE  pieces[i].at + pieces[i].need <= pieces[j].at
    BY <2>1, <2>3 DEF IInv, Stacked, End
  <2>4. QED
    BY <2>2, <2>3 DEF PiecesApart
<1>2. QED
  BY <1>1, WorkspaceInvariance, PTL

\* Growing the workspace never takes more than the heap limit.
THEOREM WorkspaceWithinLimit == Spec => []WithinHeapLimit
<1>1. IInv => WithinHeapLimit
  BY DEF IInv
<1>2. QED
  BY <1>1, WorkspaceInvariance, PTL
=============================================================================
