-------------------------- MODULE LifetimesProofs --------------------------
(***************************************************************************)
(* For any memory, any number of threads and allocators, codes and streams *)
(* of any number: when the application locks the functions that it has to  *)
(* lock, and pcre2_substitute() continues matches of data that its own     *)
(* allocator made, every block is freed once and by the allocator that     *)
(* made it, reference counts count codes, and nothing is lost.             *)
(***************************************************************************)
EXTENDS Lifetimes, FiniteSetTheorems, TLAPS

Places == Blocks \cup {Subject}

-----------------------------------------------------------------------------
(* The inductive invariant, of a memory m, of what the application holds in it, h, and of   *)
(* what the threads are doing, p.  Functions that change several blocks are followed step   *)
(* by step, so that m and h need not be those of a state.                                   *)

\* o is the one block that b goes with.
Owns(m, o, b) == b \in {m[o].executable_jit, m[o].heapframes} \/ (m[o].copied /\ m[o].subject = b)

Made(m, b) ==
  IF m[b].kind = "free" THEN m[b] = Nowhere
  ELSE m[b].kind # "corrupt" /\ m[b].memctl \in Allocators /\ m[b].origin = m[b].memctl

\* What block b of some kind refers to, block x, is there, and has the same allocator.
Refers(m, b, kind, x, wanted) ==
  m[b].kind = kind /\ x \in Blocks /\ m[x].kind = wanted /\ m[x].memctl = m[b].memctl

RefersWell(m, b) ==
  /\ m[b].tables # NONE => Refers(m, b, "code", m[b].tables, "tables")
  /\ m[b].executable_jit # NONE => Refers(m, b, "code", m[b].executable_jit, "jit")
  /\ m[b].heapframes # NONE => Refers(m, b, "match_data", m[b].heapframes, "heapframes")
  /\ m[b].copied /\ m[b].subject # NONE => Refers(m, b, "match_data", m[b].subject, "text")

MemoryOK(m) == m \in [Places -> Block] /\ m[Subject] = New("text", NONE)
OneOwner(m) == \A b, o, p \in Blocks : Owns(m, o, b) /\ Owns(m, p, b) => o = p

Sound(m) ==
  /\ MemoryOK(m)
  /\ \A b \in Blocks : Made(m, b) /\ RefersWell(m, b)
  /\ OneOwner(m)

HeldKinds == {"code", "stream", "match_data", "text", "context"}
OwnedKinds == {"jit", "heapframes", "text"}

\* The application holds what it must free and nothing that goes with something else; what
\* is neither is not lost.
Kept(m, h) ==
  /\ h \subseteq Blocks
  /\ \A b \in h : m[b].kind \in HeldKinds /\ \A o \in Blocks : ~Owns(m, o, b)
  /\ \A b \in Blocks \ h :
       /\ m[b].kind \notin {"stream", "match_data", "context"}
       /\ m[b].kind \in OwnedKinds => \E o \in Blocks : Owns(m, o, b)

\* A result speaks of a subject that is there; a stream has a code in it.
Truthful(m, h) ==
  \A b \in h :
    /\ m[b].kind = "match_data" /\ m[b].rc # "error" => m[b].copied \/ m[b].subject = Subject
    /\ m[b].kind = "stream" => m[b].ref_count # 0

Heap(m, h) == Sound(m) /\ Kept(m, h) /\ Truthful(m, h)

-----------------------------------------------------------------------------
(* Threads. *)

Thread ==
  [at : {"idle", "copy", "free", "decode"}, code : Blocks \cup {NONE}, source : Blocks \cup {NONE},
   count : Nat, alloc : Allocators \cup {NONE}, tables : Blocks \cup {NONE}, codes : SUBSET Blocks, wanted : Nat]

\* The codes that a thread is making or freeing.
Pending(p, t) ==
  IF p[t].at \in {"copy", "free"} THEN {p[t].code} ELSE IF p[t].at = "decode" THEN p[t].codes ELSE {}

Users(m, b) == {c \in Blocks : m[c].tables = b}
Copying(p) == {c \in Blocks : \E t \in Threads : p[t].at = "copy" /\ p[t].code = c}
Decoding(p, b) == \E t \in Threads : p[t].at = "decode" /\ p[t].tables = b

CopyOK(m, h, r) ==
  /\ r.code \in Blocks /\ r.source \in h
  /\ m[r.source].kind = "code" /\ m[r.source].tables = m[r.code].tables
  /\ m[r.code].tables # NONE /\ r.count = m[m[r.code].tables].ref_count

FreeOK(m, r) ==
  /\ r.code \in Blocks /\ m[r.code].executable_jit = NONE
  /\ r.count = IF m[r.code].tables = NONE THEN 0 ELSE m[m[r.code].tables].ref_count

DecodeOK(m, r) ==
  /\ r.tables \in Blocks /\ m[r.tables].kind = "tables" /\ m[r.tables].memctl = r.alloc
  /\ m[r.tables].ref_count = r.wanted /\ r.wanted # 0
  /\ Users(m, r.tables) = r.codes /\ Cardinality(r.codes) <= r.wanted
  /\ \A c \in r.codes : m[c].executable_jit = NONE

ThreadOK(m, h, r) ==
  /\ r.at = "idle" => r = Idle
  /\ r.at = "copy" => CopyOK(m, h, r)
  /\ r.at = "free" => FreeOK(m, r)
  /\ r.at = "decode" => DecodeOK(m, r)
  /\ r.source # NONE => r.at = "copy"

\* No two threads are about the same codes or tables.
Apart(p) ==
  \A t, u \in Threads : t # u =>
    /\ Pending(p, t) \cap Pending(p, u) = {}
    /\ ~(p[t].at \in {"copy", "free"} /\ p[u].at \in {"copy", "free"})
    /\ ~(p[t].at = "decode" /\ p[u].at = "decode" /\ p[t].tables = p[u].tables)

\* The codes that the application does not hold are those that the threads are about.
PendingOK(m, h, p) ==
  /\ \A t \in Threads : \A c \in Pending(p, t) : c \in Blocks \ h /\ m[c].kind = "code"
  /\ \A c \in Blocks \ h : m[c].kind = "code" => \E t \in Threads : c \in Pending(p, t)

\* A copy that is being made is not yet counted; for codes that are being decoded the count
\* is that of those to come.
CountOK(m, p, b) ==
  m[b].kind = "tables" /\ ~Decoding(p, b) =>
    m[b].ref_count = Cardinality(Users(m, b) \ Copying(p)) /\ m[b].ref_count # 0

Shared(m, h, p) ==
  /\ p \in [Threads -> Thread]
  /\ \A t \in Threads : ThreadOK(m, h, p[t])
  /\ Apart(p)
  /\ PendingOK(m, h, p)
  /\ \A b \in Blocks : CountOK(m, p, b)

IInv == Heap(mem, held) /\ Shared(mem, held, pc)

-----------------------------------------------------------------------------
(* Changes of the memory. *)

\* The constants, as the proofs use them.
LEMMA Constants == Subject \notin Blocks /\ NONE \notin Blocks /\ NONE # Subject
  BY LifetimesAssumption

\* A new block has a place in the type of blocks.
LEMMA NewIsBlock ==
  ASSUME NEW kind \in Kinds, NEW a \in Allocators \cup {NONE}
  PROVE  New(kind, a) \in Block
  BY DEF New, Block, Results

\* What a block that is used for the first time must be.
Fresh(m, block) ==
  /\ block \in Block
  /\ block.kind \in HeldKinds \cup {"tables"}
  /\ block.memctl \in Allocators /\ block.origin = block.memctl
  /\ block.executable_jit = NONE /\ block.heapframes = NONE /\ ~block.copied /\ block.rc = "error"
  /\ block.tables # NONE =>
       block.kind = "code" /\ m[block.tables].kind = "tables" /\ m[block.tables].memctl = block.memctl
  /\ block.kind = "stream" => block.ref_count # 0

\* A block that is free is not what another block refers to.
LEMMA FreeIsNobodys ==
  ASSUME NEW m, Sound(m), NEW b \in Blocks, m[b].kind = "free", NEW o \in Blocks
  PROVE  m[o].tables # b /\ ~Owns(m, o, b)
<1>1. RefersWell(m, o)
  BY DEF Sound
<1>2. b # NONE
  BY Constants
<1> QED
  BY <1>1, <1>2 DEF RefersWell, Refers, Owns

\* A block is put to a use of its own: by the application, or as a code or tables that the
\* application has yet to get.
LEMMA Allocating ==
  ASSUME NEW m, NEW h, Heap(m, h), NEW b \in Blocks, m[b].kind = "free",
         NEW block, Fresh(m, block), NEW h2 \in {h, h \cup {b}},
         block.kind \notin {"code", "tables"} => h2 = h \cup {b},
         block.kind = "tables" => h2 = h
  PROVE  Heap([m EXCEPT ![b] = block], h2)
<1> DEFINE m2 == [m EXCEPT ![b] = block]
<1>1. m \in [Places -> Block] /\ b \in Places /\ b # Subject /\ m[Subject] = New("text", NONE)
  BY Constants DEF Heap, Sound, MemoryOK, Places
<1>2. /\ m2 \in [Places -> Block] /\ m2[b] = block
      /\ \A x \in Places : x # b => m2[x] = m[x]
  BY <1>1 DEF Fresh
<1>3. \A o \in Blocks : m[o].tables # b /\ ~Owns(m, o, b)
  BY FreeIsNobodys DEF Heap
<1>4. b \notin h
  BY DEF Heap, Kept, HeldKinds
<1>5. \A o, x \in Blocks : x # b => (Owns(m2, o, x) <=> o # b /\ Owns(m, o, x))
  BY <1>2, Constants DEF Owns, Fresh, Places
<1>6. \A o \in Blocks : ~Owns(m2, o, b)
  BY <1>2, <1>3, Constants DEF Owns, Fresh, Places
<1>7. \A x \in Blocks : ~Owns(m, b, x)
  <2>1. m[b] = Nowhere
    BY DEF Heap, Sound, Made
  <2> QED
    BY <2>1, Constants DEF Owns, Nowhere, New
<1> HIDE DEF m2
<1>8. Sound(m2)
  <2>1. MemoryOK(m2)
    BY <1>1, <1>2 DEF MemoryOK, Places
  <2>2. ASSUME NEW x \in Blocks
        PROVE  Made(m2, x)
    BY <1>2, <2>2 DEF Heap, Sound, Made, Fresh, HeldKinds, Places
  <2>3. ASSUME NEW x \in Blocks
        PROVE  RefersWell(m2, x)
    <3>1. CASE x = b
      <4>1. block.tables # NONE => block.tables \in Blocks /\ block.tables # b
        BY <1>1 DEF Fresh, Block
      <4>2. block.tables # NONE => m2[block.tables] = m[block.tables]
        BY <1>2, <4>1 DEF Places
      <4> QED
        BY <1>2, <3>1, <4>1, <4>2 DEF RefersWell, Refers, Fresh
    <3>2. CASE x # b
      <4>1. m2[x] = m[x] /\ RefersWell(m, x)
        BY <1>2, <3>2 DEF Heap, Sound, Places
      <4>2. ~Owns(m, x, b) /\ m[x].tables # b
        BY <1>3
      <4>3. \A y \in Blocks : y # b => m2[y] = m[y]
        BY <1>2 DEF Places
      <4> QED
        BY <4>1, <4>2, <4>3 DEF RefersWell, Refers, Owns
    <3> QED
      BY <3>1, <3>2
  <2>4. OneOwner(m2)
    BY <1>5, <1>6 DEF Heap, Sound, OneOwner
  <2> QED
    BY <2>1, <2>2, <2>3, <2>4 DEF Sound
<1>9. Kept(m2, h2)
  <2>1. ASSUME NEW x \in h2
        PROVE  m2[x].kind \in HeldKinds /\ \A o \in Blocks : ~Owns(m2, o, x)
    <3>1. CASE x = b
      BY <1>2, <1>4, <1>6, <3>1 DEF Fresh
    <3>2. CASE x # b
      BY <1>2, <1>5, <3>2 DEF Heap, Kept, Places
    <3> QED
      BY <3>1, <3>2
  <2>2. ASSUME NEW x \in Blocks \ h2
        PROVE  /\ m2[x].kind \notin {"stream", "match_data", "context"}
               /\ m2[x].kind \in OwnedKinds => \E o \in Blocks : Owns(m2, o, x)
    <3>1. CASE x = b
      BY <1>2, <3>1 DEF Fresh, HeldKinds, OwnedKinds
    <3>2. CASE x # b
      BY <1>2, <1>5, <1>7, <3>2 DEF Heap, Kept, Places
    <3> QED
      BY <3>1, <3>2
  <2> QED
    BY <2>1, <2>2 DEF Heap, Kept
<1>10. Truthful(m2, h2)
  BY <1>2 DEF Heap, Kept, Truthful, Fresh, Places
<1> QED
  BY <1>8, <1>9, <1>10 DEF Heap, m2

\* What stays of a block that another block is attached to or detached from.
Same(block, other) ==
  /\ other \in Block
  /\ other.kind = block.kind /\ other.origin = block.origin /\ other.memctl = block.memctl
  /\ other.tables = block.tables /\ (block.kind # "tables" => other.ref_count = block.ref_count)

\* The block that something goes with, when block b of this kind is made for it.
Attached(block, other, b, kind) ==
  /\ Same(block, other)
  /\ CASE kind = "jit" ->
            /\ block.kind = "code" /\ block.executable_jit = NONE /\ other.executable_jit = b
            /\ other.heapframes = block.heapframes /\ other.copied = block.copied
            /\ other.subject = block.subject /\ other.rc = block.rc
       [] kind = "heapframes" ->
            /\ block.kind = "match_data" /\ block.heapframes = NONE /\ other.heapframes = b
            /\ other.executable_jit = block.executable_jit /\ other.copied = block.copied
            /\ other.subject = block.subject /\ other.rc = block.rc
       [] kind = "text" ->
            /\ block.kind = "match_data" /\ ~block.copied /\ other.copied /\ other.subject = b
            /\ other.executable_jit = block.executable_jit /\ other.heapframes = block.heapframes
       [] OTHER -> FALSE

\* A new block goes with a code or match data.
LEMMA Attaching ==
  ASSUME NEW m, NEW h, Heap(m, h), NEW b \in Blocks, m[b].kind = "free",
         NEW o \in Blocks, NEW kind \in OwnedKinds, NEW other, Attached(m[o], other, b, kind)
  PROVE  Heap([m EXCEPT ![b] = New(kind, m[o].memctl), ![o] = other], h)
<1> DEFINE m2 == [m EXCEPT ![b] = New(kind, m[o].memctl), ![o] = other]
<1>1. m \in [Places -> Block] /\ b \in Places /\ o \in Places /\ m[Subject] = New("text", NONE)
      /\ b # Subject /\ o # Subject
  BY Constants DEF Heap, Sound, MemoryOK, Places
<1>2. m[o].kind \in {"code", "match_data"} /\ b # o
  BY DEF Attached, OwnedKinds
<1>3. New(kind, m[o].memctl) \in Block
  <2>1. m[o].memctl \in Allocators \cup {NONE} /\ kind \in Kinds
    BY <1>1 DEF Block, OwnedKinds, Kinds
  <2> QED
    BY <2>1, NewIsBlock
<1>4. /\ m2 \in [Places -> Block] /\ m2[b] = New(kind, m[o].memctl) /\ m2[o] = other
      /\ \A x \in Places : x \notin {b, o} => m2[x] = m[x]
  BY <1>1, <1>2, <1>3 DEF Attached, Same
<1>5. \A y \in Blocks : m[y].tables # b /\ ~Owns(m, y, b)
  BY FreeIsNobodys DEF Heap
<1>6. b \notin h
  BY DEF Heap, Kept, HeldKinds
<1>7. m[b] = Nowhere
  BY DEF Heap, Sound, Made
<1>8. \A y \in Blocks : \A x \in Blocks : x # b => (Owns(m2, y, x) <=> y # b /\ Owns(m, y, x))
  <2> SUFFICES ASSUME NEW y \in Blocks, NEW x \in Blocks, x # b
               PROVE  Owns(m2, y, x) <=> y # b /\ Owns(m, y, x)
    OBVIOUS
  <2>1. CASE y = b
    BY <1>4, <2>1, Constants DEF Owns, New
  <2>2. CASE y = o
    BY <1>2, <1>4, <2>2, Constants DEF Owns, Attached, Same, OwnedKinds
  <2>3. CASE y \notin {b, o}
    BY <1>4, <2>3 DEF Owns, Places
  <2> QED
    BY <2>1, <2>2, <2>3
<1>9. \A y \in Blocks : Owns(m2, y, b) <=> y = o
  <2> SUFFICES ASSUME NEW y \in Blocks
               PROVE  Owns(m2, y, b) <=> y = o
    OBVIOUS
  <2>1. CASE y = b
    BY <1>2, <1>4, <2>1, Constants DEF Owns, New
  <2>2. CASE y = o
    BY <1>4, <2>2 DEF Owns, Attached, OwnedKinds
  <2>3. CASE y \notin {b, o}
    BY <1>4, <1>5, <2>3 DEF Owns, Places
  <2> QED
    BY <2>1, <2>2, <2>3
<1>10. m2[o].kind = m[o].kind /\ m2[o].origin = m[o].origin /\ m2[o].memctl = m[o].memctl
       /\ m2[o].tables = m[o].tables /\ m2[o].ref_count = m[o].ref_count
  BY <1>2, <1>4 DEF Attached, Same
<1>11. \A x \in Blocks : x # b => m2[x].kind = m[x].kind /\ m2[x].origin = m[x].origin /\ m2[x].memctl = m[x].memctl
  BY <1>4, <1>10 DEF Places
<1>12. m2[b].kind = kind /\ m2[b].origin = m[o].memctl /\ m2[b].memctl = m[o].memctl
       /\ m2[b].tables = NONE /\ m2[b].executable_jit = NONE /\ m2[b].heapframes = NONE /\ ~m2[b].copied
  BY <1>4 DEF New
<1> HIDE DEF m2
<1>13. Sound(m2)
  <2>1. MemoryOK(m2)
    BY <1>1, <1>4 DEF MemoryOK, Places
  <2>2. ASSUME NEW x \in Blocks
        PROVE  Made(m2, x)
    <3>1. CASE x = b
      <4>1. Made(m, o)
        BY DEF Heap, Sound
      <4> QED
        BY <1>2, <1>12, <3>1, <4>1 DEF Made, OwnedKinds
    <3>2. CASE x = o
      BY <1>2, <1>10, <3>2 DEF Heap, Sound, Made
    <3>3. CASE x \notin {b, o}
      BY <1>4, <3>3 DEF Heap, Sound, Made, Places
    <3> QED
      BY <3>1, <3>2, <3>3
  <2>3. ASSUME NEW x \in Blocks
        PROVE  RefersWell(m2, x)
    <3>1. CASE x = b
      BY <1>12, <3>1 DEF RefersWell
    <3>2. RefersWell(m, x) /\ m[x].tables # b /\ ~Owns(m, x, b)
      BY <1>5 DEF Heap, Sound
    <3>3. CASE x = o
      <4>1. CASE kind = "jit"
        BY <1>4, <1>10, <1>11, <1>12, <3>2, <3>3, <4>1 DEF RefersWell, Refers, Owns, Attached
      <4>2. CASE kind = "heapframes"
        BY <1>4, <1>10, <1>11, <1>12, <3>2, <3>3, <4>2 DEF RefersWell, Refers, Owns, Attached
      <4>3. CASE kind = "text"
        BY <1>4, <1>10, <1>11, <1>12, <3>2, <3>3, <4>3 DEF RefersWell, Refers, Owns, Attached
      <4> QED
        BY <4>1, <4>2, <4>3 DEF OwnedKinds
    <3>4. CASE x \notin {b, o}
      BY <1>4, <1>11, <3>2, <3>4 DEF RefersWell, Refers, Owns, Places
    <3> QED
      BY <3>1, <3>3, <3>4
  <2>4. OneOwner(m2)
    BY <1>8, <1>9 DEF Heap, Sound, OneOwner
  <2> QED
    BY <2>1, <2>2, <2>3, <2>4 DEF Sound
<1>14. Kept(m2, h)
  <2>1. ASSUME NEW x \in h
        PROVE  m2[x].kind \in HeldKinds /\ \A y \in Blocks : ~Owns(m2, y, x)
    BY <1>6, <1>8, <1>11 DEF Heap, Kept
  <2>2. ASSUME NEW x \in Blocks \ h
        PROVE  /\ m2[x].kind \notin {"stream", "match_data", "context"}
               /\ m2[x].kind \in OwnedKinds => \E y \in Blocks : Owns(m2, y, x)
    <3>1. CASE x = b
      BY <1>9, <1>12, <3>1 DEF OwnedKinds
    <3>2. CASE x # b
      <4>1. \A y \in Blocks : Owns(m, y, x) => y # b
        BY <1>7, Constants DEF Owns, Nowhere, New
      <4> QED
        BY <1>8, <1>11, <3>2, <4>1 DEF Heap, Kept
    <3> QED
      BY <3>1, <3>2
  <2> QED
    BY <2>1, <2>2 DEF Heap, Kept
<1>15. Truthful(m2, h)
  <2> SUFFICES ASSUME NEW x \in h
               PROVE  /\ m2[x].kind = "match_data" /\ m2[x].rc # "error" => m2[x].copied \/ m2[x].subject = Subject
                      /\ m2[x].kind = "stream" => m2[x].ref_count # 0
    BY DEF Truthful
  <2>1. CASE x = o
    BY <1>2, <1>4, <2>1 DEF Heap, Truthful, Attached, Same, OwnedKinds
  <2>2. CASE x # o
    BY <1>4, <1>6, <2>2 DEF Heap, Kept, Truthful, Places
  <2> QED
    BY <2>1, <2>2
<1> QED
  BY <1>13, <1>14, <1>15 DEF Heap, m2

CopyIn(block) == IF block.copied THEN block.subject ELSE NONE

\* A block changes in what does not concern the blocks that go with it.
Changed(block, other) ==
  /\ Same(block, other)
  /\ other.executable_jit = block.executable_jit /\ other.heapframes = block.heapframes
  /\ CopyIn(other) = CopyIn(block)
  /\ other.kind = "match_data" /\ other.rc # "error" => other.copied \/ other.subject = Subject

\* Tables with another count.
LEMMA Recounted ==
  ASSUME NEW block \in Block, block.kind = "tables", NEW k \in Nat
  PROVE  LET other == [block EXCEPT !.ref_count = k]
         IN  other \in Block /\ other.ref_count = k /\ Changed(block, other)
  BY DEF Changed, Same, CopyIn, Block

\* A block changes in what concerns no other: match data gets another result, tables another
\* count.
LEMMA Changing ==
  ASSUME NEW m, NEW h, Heap(m, h), NEW o \in Blocks, m[o].kind # "free",
         NEW other, Changed(m[o], other)
  PROVE  Heap([m EXCEPT ![o] = other], h)
<1> DEFINE m2 == [m EXCEPT ![o] = other]
<1>1. m \in [Places -> Block] /\ o \in Places /\ m[Subject] = New("text", NONE) /\ o # Subject
  BY Constants DEF Heap, Sound, MemoryOK, Places
<1>2. m2 \in [Places -> Block] /\ m2[o] = other /\ \A x \in Places : x # o => m2[x] = m[x]
  BY <1>1 DEF Changed, Same
<1> HIDE DEF m2
<1>3. \A y, x \in Blocks : Owns(m2, y, x) <=> Owns(m, y, x)
  <2> SUFFICES ASSUME NEW y \in Blocks, NEW x \in Blocks
               PROVE  Owns(m2, y, x) <=> Owns(m, y, x)
    OBVIOUS
  <2>1. CASE y = o
    BY <1>2, <2>1, Constants DEF Owns, Changed, CopyIn
  <2>2. CASE y # o
    BY <1>2, <2>2 DEF Owns, Places
  <2> QED
    BY <2>1, <2>2
<1>4. \A x \in Blocks : /\ m2[x].kind = m[x].kind /\ m2[x].origin = m[x].origin /\ m2[x].memctl = m[x].memctl
                        /\ m2[x].tables = m[x].tables
                        /\ m[x].kind # "tables" => m2[x].ref_count = m[x].ref_count
  BY <1>2 DEF Changed, Same, Places
<1>5. Sound(m2)
  <2>1. MemoryOK(m2)
    BY <1>1, <1>2 DEF MemoryOK, Places
  <2>2. ASSUME NEW x \in Blocks
        PROVE  Made(m2, x)
    <3>1. Made(m, x)
      BY DEF Heap, Sound
    <3>2. CASE x = o
      BY <1>4, <3>1, <3>2 DEF Made
    <3>3. CASE x # o
      BY <1>2, <3>1, <3>3 DEF Made, Places
    <3> QED
      BY <3>2, <3>3
  <2>3. ASSUME NEW x \in Blocks
        PROVE  RefersWell(m2, x)
    <3>1. RefersWell(m, x)
      BY DEF Heap, Sound
    <3>2. m2[x].executable_jit = m[x].executable_jit /\ m2[x].heapframes = m[x].heapframes
      BY <1>2 DEF Changed, Places
    <3>3. m2[x].copied /\ m2[x].subject # NONE => m[x].copied /\ m[x].subject = m2[x].subject
      BY <1>2 DEF Changed, CopyIn, Places
    <3> QED
      BY <1>4, <3>1, <3>2, <3>3 DEF RefersWell, Refers
  <2>4. OneOwner(m2)
    BY <1>3 DEF Heap, Sound, OneOwner
  <2> QED
    BY <2>1, <2>2, <2>3, <2>4 DEF Sound
<1>6. Kept(m2, h)
  BY <1>3, <1>4 DEF Heap, Kept
<1>7. Truthful(m2, h)
  BY <1>2, <1>4 DEF Heap, Kept, Truthful, Changed, Places
<1> QED
  BY <1>5, <1>6, <1>7 DEF Heap, m2

\* A block that something goes with after the one that went with it, b, is detached.
Detached(m, o, other, b) ==
  /\ Same(m[o], other)
  /\ other.executable_jit = IF m[o].executable_jit = b THEN NONE ELSE m[o].executable_jit
  /\ other.heapframes = IF m[o].heapframes = b THEN NONE ELSE m[o].heapframes
  /\ CopyIn(other) = IF CopyIn(m[o]) = b THEN NONE ELSE CopyIn(m[o])
  /\ other.kind = "match_data" /\ other.rc # "error" => other.copied \/ other.subject = Subject

\* A block that goes with another is freed, and no longer goes with it.
LEMMA Detaching ==
  ASSUME NEW m, NEW h, Heap(m, h), NEW o \in Blocks, NEW b \in Blocks, Owns(m, o, b),
         NEW other, Detached(m, o, other, b)
  PROVE  Heap([m EXCEPT ![b] = Nowhere, ![o] = other], h)
<1> DEFINE m2 == [m EXCEPT ![b] = Nowhere, ![o] = other]
<1>1. m \in [Places -> Block] /\ b \in Places /\ o \in Places /\ m[Subject] = New("text", NONE)
      /\ b # Subject /\ o # Subject
  BY Constants DEF Heap, Sound, MemoryOK, Places
<1>2. RefersWell(m, o) /\ b # NONE
  BY Constants DEF Heap, Sound
<1>3. m[o].kind \in {"code", "match_data"} /\ m[b].kind \in OwnedKinds /\ b # o /\ b \notin h
  BY <1>2 DEF Heap, Kept, RefersWell, Refers, Owns, OwnedKinds
<1>4. Nowhere \in Block
  BY NewIsBlock DEF Nowhere, Kinds
<1>5. /\ m2 \in [Places -> Block] /\ m2[b] = Nowhere /\ m2[o] = other
      /\ \A x \in Places : x \notin {b, o} => m2[x] = m[x]
  BY <1>1, <1>3, <1>4 DEF Detached, Same
<1>6. \A y \in Blocks : Owns(m, y, b) => y = o
  BY DEF Heap, Sound, OneOwner
<1>7. \A y \in Blocks : m[y].tables # b
  BY <1>2, <1>3 DEF Heap, Sound, RefersWell, Refers, OwnedKinds
<1>8. \A x \in Blocks : ~Owns(m, b, x)
  <2>1. RefersWell(m, b)
    BY DEF Heap, Sound
  <2> QED
    BY <1>3, <2>1, Constants DEF RefersWell, Refers, Owns, OwnedKinds
<1> HIDE DEF m2
<1>9. \A y \in Blocks : \A x \in Blocks : Owns(m2, y, x) <=> x # b /\ Owns(m, y, x)
  <2> SUFFICES ASSUME NEW y \in Blocks, NEW x \in Blocks
               PROVE  Owns(m2, y, x) <=> x # b /\ Owns(m, y, x)
    OBVIOUS
  <2>1. CASE y = b
    BY <1>5, <1>8, <2>1, Constants DEF Owns, Nowhere, New
  <2>2. CASE y = o
    BY <1>5, <2>2, Constants DEF Owns, Detached, CopyIn
  <2>3. CASE y \notin {b, o}
    BY <1>5, <1>6, <2>3 DEF Owns, Places
  <2> QED
    BY <2>1, <2>2, <2>3
<1>10. \A x \in Blocks : x # b =>
         /\ m2[x].kind = m[x].kind /\ m2[x].origin = m[x].origin /\ m2[x].memctl = m[x].memctl
         /\ m2[x].tables = m[x].tables /\ m2[x].ref_count = m[x].ref_count
  BY <1>3, <1>5 DEF Detached, Same, Places
<1>11. Sound(m2)
  <2>1. MemoryOK(m2)
    BY <1>1, <1>5 DEF MemoryOK, Places
  <2>2. ASSUME NEW x \in Blocks
        PROVE  Made(m2, x)
    <3>1. Made(m, x)
      BY DEF Heap, Sound
    <3>2. CASE x = b
      BY <1>5, <3>2 DEF Made, Nowhere, New
    <3>3. CASE x = o
      BY <1>3, <1>10, <3>1, <3>3 DEF Made
    <3>4. CASE x \notin {b, o}
      BY <1>5, <3>1, <3>4 DEF Made, Places
    <3> QED
      BY <3>2, <3>3, <3>4
  <2>3. ASSUME NEW x \in Blocks
        PROVE  RefersWell(m2, x)
    <3>1. CASE x = b
      BY <1>5, <3>1 DEF RefersWell, Nowhere, New
    <3>2. CASE x # b
      <4>1. RefersWell(m, x) /\ m[x].tables # b
        BY <1>7 DEF Heap, Sound
      <4>2. /\ m2[x].executable_jit \notin {NONE, b} => m2[x].executable_jit = m[x].executable_jit
            /\ m2[x].heapframes \notin {NONE, b} => m2[x].heapframes = m[x].heapframes
            /\ m2[x].copied /\ m2[x].subject # NONE => m[x].copied /\ m2[x].subject = m[x].subject
        BY <1>5, <3>2 DEF Detached, CopyIn, Places
      <4>3. ~Owns(m2, x, b)
        BY <1>9
      <4> QED
        BY <1>10, <3>2, <4>1, <4>2, <4>3 DEF RefersWell, Refers, Owns
    <3> QED
      BY <3>1, <3>2
  <2>4. OneOwner(m2)
    BY <1>9 DEF Heap, Sound, OneOwner
  <2> QED
    BY <2>1, <2>2, <2>3, <2>4 DEF Sound
<1>12. Kept(m2, h)
  <2>1. ASSUME NEW x \in h
        PROVE  m2[x].kind \in HeldKinds /\ \A y \in Blocks : ~Owns(m2, y, x)
    BY <1>3, <1>9, <1>10 DEF Heap, Kept
  <2>2. ASSUME NEW x \in Blocks \ h
        PROVE  /\ m2[x].kind \notin {"stream", "match_data", "context"}
               /\ m2[x].kind \in OwnedKinds => \E y \in Blocks : Owns(m2, y, x)
    <3>1. CASE x = b
      BY <1>5, <3>1 DEF Nowhere, New, OwnedKinds
    <3>2. CASE x # b
      BY <1>9, <1>10, <3>2 DEF Heap, Kept
    <3> QED
      BY <3>1, <3>2
  <2> QED
    BY <2>1, <2>2 DEF Heap, Kept
<1>13. Truthful(m2, h)
  <2> SUFFICES ASSUME NEW x \in h
               PROVE  /\ m2[x].kind = "match_data" /\ m2[x].rc # "error" => m2[x].copied \/ m2[x].subject = Subject
                      /\ m2[x].kind = "stream" => m2[x].ref_count # 0
    BY DEF Truthful
  <2>1. CASE x = o
    BY <1>3, <1>5, <1>10, <2>1 DEF Heap, Truthful, Detached
  <2>2. CASE x # o
    BY <1>3, <1>5, <2>2 DEF Heap, Kept, Truthful, Places
  <2> QED
    BY <2>1, <2>2
<1> QED
  BY <1>11, <1>12, <1>13 DEF Heap, m2

\* The memory without some blocks.
Without(m, set) == [b \in Places |-> IF b \in set THEN Nowhere ELSE m[b]]

\* Blocks are freed that nothing else refers to and that leave nothing behind.
LEMMA Wiping ==
  ASSUME NEW m, NEW h, Heap(m, h), NEW set \in SUBSET Blocks,
         \A b \in set : \A o \in Blocks : Owns(m, o, b) \/ Owns(m, b, o) => o \in set,
         \A c \in Blocks : m[c].tables \in set => c \in set
  PROVE  Heap(Without(m, set), h \ set)
<1> DEFINE m2 == Without(m, set)
<1>1. m \in [Places -> Block] /\ m[Subject] = New("text", NONE) /\ Subject \notin set
  BY Constants DEF Heap, Sound, MemoryOK, Places
<1>2. Nowhere \in Block
  BY NewIsBlock DEF Nowhere, Kinds
<1>3. /\ m2 \in [Places -> Block]
      /\ \A x \in Places : m2[x] = IF x \in set THEN Nowhere ELSE m[x]
  BY <1>1, <1>2 DEF Without
<1> HIDE DEF m2
<1>4. \A y \in Blocks : \A x \in Blocks : Owns(m2, y, x) <=> y \notin set /\ Owns(m, y, x)
  BY <1>3, Constants DEF Owns, Nowhere, New, Places
<1>5. Sound(m2)
  <2>1. MemoryOK(m2)
    BY <1>1, <1>3 DEF MemoryOK, Places
  <2>2. ASSUME NEW x \in Blocks
        PROVE  Made(m2, x)
    BY <1>3 DEF Heap, Sound, Made, Nowhere, New, Places
  <2>3. ASSUME NEW x \in Blocks
        PROVE  RefersWell(m2, x)
    <3>1. CASE x \in set
      BY <1>3, <3>1 DEF RefersWell, Nowhere, New, Places
    <3>2. CASE x \notin set
      <4>1. RefersWell(m, x) /\ m[x].tables \notin set /\ \A y \in Blocks : Owns(m, x, y) => y \notin set
        BY <3>2 DEF Heap, Sound
      <4>2. m2[x] = m[x] /\ \A y \in Blocks : y \notin set => m2[y] = m[y]
        BY <1>3, <3>2 DEF Places
      <4> QED
        BY <4>1, <4>2 DEF RefersWell, Refers, Owns
    <3> QED
      BY <3>1, <3>2
  <2>4. OneOwner(m2)
    BY <1>4 DEF Heap, Sound, OneOwner
  <2> QED
    BY <2>1, <2>2, <2>3, <2>4 DEF Sound
<1>6. Kept(m2, h \ set)
  <2>1. ASSUME NEW x \in h \ set
        PROVE  m2[x].kind \in HeldKinds /\ \A y \in Blocks : ~Owns(m2, y, x)
    BY <1>3, <1>4 DEF Heap, Kept, Places
  <2>2. ASSUME NEW x \in Blocks \ (h \ set)
        PROVE  /\ m2[x].kind \notin {"stream", "match_data", "context"}
               /\ m2[x].kind \in OwnedKinds => \E y \in Blocks : Owns(m2, y, x)
    <3>1. CASE x \in set
      BY <1>3, <3>1 DEF Nowhere, New, OwnedKinds, Places
    <3>2. CASE x \notin set
      BY <1>3, <1>4, <3>2 DEF Heap, Kept, Places
    <3> QED
      BY <3>1, <3>2
  <2> QED
    BY <2>1, <2>2 DEF Heap, Kept
<1>7. Truthful(m2, h \ set)
  BY <1>3 DEF Heap, Kept, Truthful, Places
<1> QED
  BY <1>5, <1>6, <1>7 DEF Heap, m2

-----------------------------------------------------------------------------
(* Freeing, and what functions do to match data. *)

\* Codes and tables are as they were.
Alone(m, m2) ==
  \A x \in Blocks : m[x].kind \in {"code", "tables"} \/ m2[x].kind \in {"code", "tables"} => m2[x] = m[x]

\* One change after the other that leaves codes and tables alone.
LEMMA AloneTwice ==
  ASSUME NEW m, NEW m2, NEW m3, Alone(m, m2), Alone(m2, m3)
  PROVE  Alone(m, m3)
  BY DEF Alone

\* free() of a block by its own allocator, or of NULL.
LEMMA Freeing ==
  ASSUME NEW m \in [Places -> Block], NEW b \in Blocks \cup {NONE}, NEW a,
         b # NONE => m[b].kind # "free" /\ m[b].origin = a
  PROVE  Free(m, b, a) = Without(m, {b}) /\ Without(m, {b}) \in [Places -> Block]
<1>1. Nowhere \in Block
  BY NewIsBlock DEF Nowhere, Kinds
<1>2. Without(m, {b}) \in [Places -> Block]
  BY <1>1 DEF Without
<1>3. CASE b = NONE
  <2>1. NONE \notin Places
    BY Constants DEF Places
  <2>2. Without(m, {b}) = m
    BY <1>3, <2>1 DEF Without
  <2> QED
    BY <1>2, <1>3, <2>2 DEF Free
<1>4. CASE b # NONE
  <2>1. Free(m, b, a) = [m EXCEPT ![b] = Nowhere]
    BY <1>4 DEF Free, Freed
  <2> QED
    BY <1>2, <1>4, <2>1 DEF Without, Places
<1> QED
  BY <1>3, <1>4

\* Blocks go one after the other.
LEMMA WithoutBoth ==
  ASSUME NEW m \in [Places -> Block], NEW set, NEW other
  PROVE  Without(Without(m, set), other) = Without(m, set \cup other)
  BY DEF Without

\* NULL is no block that could go.
LEMMA WithoutNone ==
  ASSUME NEW m \in [Places -> Block], NEW set
  PROVE  Without(m, set) = Without(m, set \ {NONE})
<1>1. NONE \notin Places
  BY Constants DEF Places
<1> QED
  BY <1>1 DEF Without

\* The blocks that go with match data, and what they are.
LEMMA DataParts ==
  ASSUME NEW m, NEW h, Heap(m, h), NEW d \in Blocks, m[d].kind = "match_data"
  PROVE  /\ m \in [Places -> Block] /\ d \in Places
         /\ m[d].origin = m[d].memctl /\ m[d].memctl \in Allocators
         /\ m[d].tables = NONE /\ m[d].executable_jit = NONE
         /\ m[d].heapframes \in Blocks \cup {NONE} /\ CopiedSubject(m, d) \in Blocks \cup {NONE}
         /\ m[d].heapframes # NONE => /\ m[m[d].heapframes].kind = "heapframes"
                                      /\ m[m[d].heapframes].origin = m[d].memctl
                                      /\ Owns(m, d, m[d].heapframes)
         /\ CopiedSubject(m, d) # NONE => /\ m[CopiedSubject(m, d)].kind = "text"
                                          /\ m[CopiedSubject(m, d)].origin = m[d].memctl
                                          /\ Owns(m, d, CopiedSubject(m, d))
<1>1. m \in [Places -> Block] /\ d \in Places /\ Made(m, d) /\ RefersWell(m, d)
  BY DEF Heap, Sound, MemoryOK, Places
<1>2. \A x \in Blocks : Made(m, x)
  BY DEF Heap, Sound
<1>3. m[d].heapframes \in Blocks \cup {NONE}
  BY <1>1 DEF Block
<1>4. CopiedSubject(m, d) \in Blocks \cup {NONE}
  BY <1>1 DEF CopiedSubject, RefersWell, Refers
<1>5. m[d].heapframes # NONE => m[m[d].heapframes].kind = "heapframes" /\ m[m[d].heapframes].memctl = m[d].memctl
  BY <1>1 DEF RefersWell, Refers
<1>6. CopiedSubject(m, d) # NONE =>
        /\ m[CopiedSubject(m, d)].kind = "text" /\ m[CopiedSubject(m, d)].memctl = m[d].memctl
        /\ m[d].copied /\ m[d].subject = CopiedSubject(m, d)
  BY <1>1 DEF RefersWell, Refers, CopiedSubject
<1> QED
  BY <1>1, <1>2, <1>3, <1>4, <1>5, <1>6 DEF Made, RefersWell, Refers, Owns

\* pcre2_match_data_free()
LEMMA FreeingData ==
  ASSUME NEW m, NEW h, Heap(m, h), NEW d \in h, m[d].kind = "match_data"
  PROVE  Heap(FreedData(m, d), h \ {d}) /\ Alone(m, FreedData(m, d))
<1> DEFINE a == m[d].memctl
           frames == m[d].heapframes
           text == CopiedSubject(m, d)
           set == {frames, text, d} \ {NONE}
<1>1. d \in Blocks /\ d # NONE
  BY Constants DEF Heap, Kept
<1>2. /\ m \in [Places -> Block] /\ m[d].origin = a /\ m[d].tables = NONE /\ m[d].executable_jit = NONE
      /\ frames \in Blocks \cup {NONE} /\ text \in Blocks \cup {NONE}
      /\ frames # NONE => m[frames].kind = "heapframes" /\ m[frames].origin = a /\ Owns(m, d, frames)
      /\ text # NONE => m[text].kind = "text" /\ m[text].origin = a /\ Owns(m, d, text)
  BY <1>1, DataParts
<1>3. Free(m, frames, a) = Without(m, {frames}) /\ Without(m, {frames}) \in [Places -> Block]
  BY <1>2, Freeing
<1>4. text # NONE => text # frames /\ Without(m, {frames})[text] = m[text]
  BY <1>2 DEF Without, Places
<1>5. Free(Without(m, {frames}), text, a) = Without(Without(m, {frames}), {text})
      /\ Without(Without(m, {frames}), {text}) \in [Places -> Block]
  BY <1>2, <1>3, <1>4, Freeing
<1>6. d \notin {frames, text} /\ Without(Without(m, {frames}), {text})[d] = m[d]
  BY <1>1, <1>2 DEF Without, Places
<1>7. FreedData(m, d) = Without(Without(Without(m, {frames}), {text}), {d})
  <2>1. Free(Without(Without(m, {frames}), {text}), d, a) = Without(Without(Without(m, {frames}), {text}), {d})
    BY <1>1, <1>2, <1>5, <1>6, Freeing
  <2>2. FreedData(m, d) = Free(Free(Free(m, frames, a), text, a), d, a)
    BY DEF FreedData
  <2> QED
    BY <1>3, <1>5, <2>1, <2>2
<1>8. FreedData(m, d) = Without(m, {frames, text, d})
  <2>1. Without(Without(m, {frames}), {text}) = Without(m, {frames, text})
    BY <1>2, WithoutBoth
  <2>2. Without(Without(m, {frames, text}), {d}) = Without(m, {frames, text, d})
    BY <1>2, WithoutBoth
  <2> QED
    BY <1>7, <2>1, <2>2
<1>9. FreedData(m, d) = Without(m, set)
  BY <1>2, <1>8, WithoutNone
<1>10. set \in SUBSET Blocks /\ h \ set = h \ {d}
  BY <1>1, <1>2 DEF Heap, Kept
<1>11. \A b \in set : \A o \in Blocks : Owns(m, o, b) \/ Owns(m, b, o) => o \in set
  <2> SUFFICES ASSUME NEW b \in set, NEW o \in Blocks, Owns(m, o, b) \/ Owns(m, b, o)
               PROVE  o \in set
    OBVIOUS
  <2>1. CASE b = d
    <3>1. ~Owns(m, o, d)
      BY DEF Heap, Kept
    <3>2. Owns(m, d, o) => o \in {frames, text}
      BY <1>2, Constants DEF Owns, CopiedSubject
    <3> QED
      BY <2>1, <3>1, <3>2, Constants
  <2>2. CASE b # d
    <3>1. Owns(m, d, b) /\ b \in Blocks /\ m[b].kind \in OwnedKinds
      BY <1>2, <2>2 DEF OwnedKinds
    <3>2. Owns(m, o, b) => o = d
      BY <1>1, <3>1 DEF Heap, Sound, OneOwner
    <3>3. ~Owns(m, b, o)
      BY <3>1, Constants DEF Heap, Sound, RefersWell, Refers, Owns, OwnedKinds
    <3> QED
      BY <1>1, <3>2, <3>3
  <2> QED
    BY <2>1, <2>2
<1>12. \A c \in Blocks : m[c].tables \notin set
  BY <1>2, Constants DEF Heap, Sound, RefersWell, Refers
<1>13. Heap(FreedData(m, d), h \ {d})
  BY <1>9, <1>10, <1>11, <1>12, Wiping
<1>14. \A b \in set : m[b].kind \notin {"code", "tables"}
  BY <1>2
<1>15. \A x \in Blocks : Without(m, set)[x] = IF x \in set THEN Nowhere ELSE m[x]
  BY DEF Without, Places
<1>16. Alone(m, Without(m, set))
  BY <1>14, <1>15 DEF Alone, Nowhere, New
<1> QED
  BY <1>9, <1>13, <1>16

\* A match drops the copy of the subject before.
LEMMA Clearing ==
  ASSUME NEW m, NEW h, Heap(m, h), NEW d \in Blocks, m[d].kind = "match_data"
  PROVE  /\ Heap(Cleared(m, d), h) /\ Alone(m, Cleared(m, d))
         /\ Cleared(m, d)[d].kind = "match_data" /\ ~Cleared(m, d)[d].copied /\ Cleared(m, d)[d].rc = "error"
<1> DEFINE text == CopiedSubject(m, d)
           other == [m[d] EXCEPT !.copied = FALSE, !.subject = NONE, !.rc = "error"]
<1>1. /\ m \in [Places -> Block] /\ d \in Places
      /\ text \in Blocks \cup {NONE}
      /\ text # NONE => m[text].kind = "text" /\ m[text].origin = m[d].memctl /\ Owns(m, d, text)
      /\ m[d].executable_jit = NONE
      /\ m[d].heapframes # NONE => m[m[d].heapframes].kind = "heapframes"
  BY DataParts
<1>2. other \in Block /\ Same(m[d], other)
      /\ other.executable_jit = m[d].executable_jit /\ other.heapframes = m[d].heapframes
      /\ ~other.copied /\ other.subject = NONE /\ other.rc = "error" /\ other.kind = "match_data"
  <2>1. m[d] \in Block
    BY <1>1
  <2> QED
    BY <2>1 DEF Block, Same, Results
<1>5. Cleared(m, d) = [Free(m, text, m[d].memctl) EXCEPT ![d] =
                         [Free(m, text, m[d].memctl)[d] EXCEPT !.copied = FALSE, !.subject = NONE, !.rc = "error"]]
  BY DEF Cleared
<1>6. text = CopyIn(m[d])
  BY DEF CopiedSubject, CopyIn
<1>7. other = [m[d] EXCEPT !.copied = FALSE, !.subject = NONE, !.rc = "error"]
  OBVIOUS
<1> HIDE DEF other, text
<1>3. CASE text = NONE
  <2>1. Free(m, text, m[d].memctl) = m
    BY <1>3 DEF Free
  <2>2. Cleared(m, d) = [m EXCEPT ![d] = other]
    BY <1>5, <1>7, <2>1
  <2>3. Changed(m[d], other)
    BY <1>2, <1>3, <1>6 DEF Changed, CopyIn
  <2>4. Heap([m EXCEPT ![d] = other], h)
    BY <1>1, <2>3, Changing
  <2> QED
    BY <1>1, <1>2, <2>2, <2>4 DEF Alone, Places
<1>4. CASE text # NONE
  <2>1. text \in Blocks /\ text # d /\ m[text].kind # "free" /\ m[text].origin = m[d].memctl
    BY <1>1, <1>4
  <2>2. Cleared(m, d) = [m EXCEPT ![text] = Nowhere, ![d] = other]
    <3>1. Free(m, text, m[d].memctl) = [m EXCEPT ![text] = Nowhere]
      BY <2>1, Constants DEF Free, Freed
    <3>2. Free(m, text, m[d].memctl)[d] = m[d]
      BY <1>1, <2>1, <3>1 DEF Places
    <3>3. Cleared(m, d) = [Free(m, text, m[d].memctl) EXCEPT ![d] = other]
      BY <1>5, <1>7, <3>2
    <3> QED
      BY <3>1, <3>3
  <2>3. Detached(m, d, other, text)
    <3>1. m[d].executable_jit # text /\ m[d].heapframes # text
      BY <1>1, <1>4
    <3> QED
      BY <1>2, <1>4, <1>6, <3>1 DEF Detached, CopyIn
  <2>4. Heap([m EXCEPT ![text] = Nowhere, ![d] = other], h)
    BY <1>1, <1>4, <2>1, <2>3, Detaching
  <2>5. /\ Cleared(m, d)[d] = other /\ Cleared(m, d)[text].kind = "free"
        /\ \A x \in Blocks : x \notin {d, text} => Cleared(m, d)[x] = m[x]
    BY <1>1, <2>1, <2>2 DEF Places, Nowhere, New
  <2> QED
    BY <1>1, <1>2, <1>4, <2>2, <2>4, <2>5 DEF Alone
<1> QED
  BY <1>3, <1>4

\* The interpreter drops the vector of frames.
LEMMA Unframing ==
  ASSUME NEW m, NEW h, Heap(m, h), NEW d \in Blocks, m[d].kind = "match_data",
         m[d].rc # "error" => m[d].copied \/ m[d].subject = Subject
  PROVE  /\ Heap(Unframed(m, d), h) /\ Alone(m, Unframed(m, d))
         /\ Unframed(m, d)[d] = [m[d] EXCEPT !.heapframes = NONE]
<1> DEFINE frames == m[d].heapframes
           other == [m[d] EXCEPT !.heapframes = NONE]
<1>1. /\ m \in [Places -> Block] /\ d \in Places
      /\ frames \in Blocks \cup {NONE}
      /\ frames # NONE => m[frames].kind = "heapframes" /\ m[frames].origin = m[d].memctl /\ Owns(m, d, frames)
      /\ m[d].executable_jit = NONE
      /\ CopiedSubject(m, d) # NONE => m[CopiedSubject(m, d)].kind = "text"
  BY DataParts
<1>2. other \in Block /\ Same(m[d], other)
      /\ other.executable_jit = m[d].executable_jit /\ other.heapframes = NONE
      /\ other.copied = m[d].copied /\ other.subject = m[d].subject /\ other.rc = m[d].rc
  <2>1. m[d] \in Block
    BY <1>1
  <2> QED
    BY <2>1 DEF Block, Same
<1>3. CopyIn(m[d]) = CopiedSubject(m, d) /\ CopyIn(other) = CopyIn(m[d])
  BY <1>2 DEF CopiedSubject, CopyIn
<1>4. Unframed(m, d) = [Free(m, frames, m[d].memctl) EXCEPT ![d] =
                         [Free(m, frames, m[d].memctl)[d] EXCEPT !.heapframes = NONE]]
  BY DEF Unframed
<1>5. other = [m[d] EXCEPT !.heapframes = NONE] /\ frames = m[d].heapframes
  OBVIOUS
<1> HIDE DEF other, frames
<1>6. CASE frames = NONE
  <2>1. Free(m, frames, m[d].memctl) = m
    BY <1>6 DEF Free
  <2>2. Unframed(m, d) = [m EXCEPT ![d] = other]
    BY <1>4, <1>5, <2>1
  <2>3. Changed(m[d], other)
    BY <1>2, <1>3, <1>5, <1>6 DEF Changed
  <2>4. Heap([m EXCEPT ![d] = other], h)
    BY <1>1, <2>3, Changing
  <2>5. Unframed(m, d)[d] = other /\ \A x \in Blocks : x # d => Unframed(m, d)[x] = m[x]
    BY <1>1, <2>2 DEF Places
  <2>6. Alone(m, Unframed(m, d))
    BY <1>2, <2>5 DEF Alone, Same
  <2> QED
    BY <1>5, <2>2, <2>4, <2>5, <2>6
<1>7. CASE frames # NONE
  <2>1. frames \in Blocks /\ frames # d /\ m[frames].kind # "free" /\ m[frames].origin = m[d].memctl
    BY <1>1, <1>7
  <2>2. Unframed(m, d) = [m EXCEPT ![frames] = Nowhere, ![d] = other]
    <3>1. Free(m, frames, m[d].memctl) = [m EXCEPT ![frames] = Nowhere]
      BY <2>1, Constants DEF Free, Freed
    <3>2. Free(m, frames, m[d].memctl)[d] = m[d]
      BY <1>1, <2>1, <3>1 DEF Places
    <3>3. Unframed(m, d) = [Free(m, frames, m[d].memctl) EXCEPT ![d] = other]
      BY <1>4, <1>5, <3>2
    <3> QED
      BY <3>1, <3>3
  <2>3. Detached(m, d, other, frames)
    <3>1. m[d].executable_jit # frames /\ CopyIn(m[d]) # frames
      BY <1>1, <1>3, <1>7
    <3> QED
      BY <1>2, <1>3, <1>5, <3>1 DEF Detached
  <2>4. Heap([m EXCEPT ![frames] = Nowhere, ![d] = other], h)
    BY <1>1, <1>7, <2>1, <2>3, Detaching
  <2>5. /\ Unframed(m, d)[d] = other /\ Unframed(m, d)[frames].kind = "free"
        /\ \A x \in Blocks : x \notin {d, frames} => Unframed(m, d)[x] = m[x]
    BY <1>1, <2>1, <2>2 DEF Places, Nowhere, New
  <2>6. Alone(m, Unframed(m, d))
    BY <1>1, <1>2, <1>7, <2>5 DEF Alone, Same
  <2> QED
    BY <1>5, <2>2, <2>4, <2>5, <2>6
<1> QED
  BY <1>6, <1>7

\* A vector that is too small is replaced.
LEMMA Framing ==
  ASSUME NEW m, NEW h, Heap(m, h), NEW d \in Blocks, m[d].kind = "match_data",
         m[d].rc # "error" => m[d].copied \/ m[d].subject = Subject,
         NEW n \in Framed(m, d)
  PROVE  /\ Heap(n, h) /\ Alone(m, n)
         /\ n[d].kind = "match_data" /\ n[d].rc = m[d].rc /\ n[d].copied = m[d].copied /\ n[d].subject = m[d].subject
<1> DEFINE u == Unframed(m, d)
<1>1. Heap(u, h) /\ Alone(m, u) /\ u[d] = [m[d] EXCEPT !.heapframes = NONE]
  BY Unframing
<1>2. PICK b \in FreeIn(u) : n = [u EXCEPT ![b] = New("heapframes", u[d].memctl), ![d].heapframes = b]
  BY DEF Framed
<1>3. m[d] \in Block /\ d \in Places
  BY DEF Heap, Sound, MemoryOK, Places
<1> HIDE DEF u
<1>4. u[d].kind = "match_data" /\ u[d].heapframes = NONE /\ u[d].rc = m[d].rc
      /\ u[d].copied = m[d].copied /\ u[d].subject = m[d].subject
  BY <1>1, <1>3 DEF Block
<1>5. b \in Blocks /\ u[b].kind = "free" /\ b # d
  BY <1>2, <1>4 DEF FreeIn
<1>6. u \in [Places -> Block]
  BY <1>1 DEF Heap, Sound, MemoryOK
<1> DEFINE other == [u[d] EXCEPT !.heapframes = b]
<1>7. Attached(u[d], other, b, "heapframes")
  <2>1. u[d] \in Block
    BY <1>3, <1>6
  <2>2. Same(u[d], other)
    BY <1>5, <2>1 DEF Same, Block
  <2> QED
    BY <1>4, <2>1, <2>2 DEF Attached, Block
<1>8. n = [u EXCEPT ![b] = New("heapframes", u[d].memctl), ![d] = other]
  BY <1>2, <1>3, <1>5, <1>6
<1>9. Heap(n, h)
  BY <1>1, <1>5, <1>7, <1>8, Attaching DEF OwnedKinds
<1>10. /\ n[d] = other /\ n[b].kind = "heapframes"
       /\ \A x \in Blocks : x \notin {b, d} => n[x] = u[x]
  BY <1>3, <1>5, <1>6, <1>8 DEF Places, New
<1>11. n[d].kind = "match_data" /\ n[d].rc = m[d].rc /\ n[d].copied = m[d].copied /\ n[d].subject = m[d].subject
  BY <1>4, <1>7, <1>10 DEF Attached, Same
<1>12. Alone(u, n)
  BY <1>4, <1>5, <1>10, <1>11 DEF Alone
<1> QED
  BY <1>1, <1>9, <1>11, <1>12, AloneTwice

\* A result, or a match of a subject that is not copied.
LEMMA Returning ==
  ASSUME NEW m, NEW h, Heap(m, h), NEW d \in Blocks, m[d].kind = "match_data", ~m[d].copied,
         NEW rc \in Results
  PROVE  /\ Heap(Returns(m, d, rc, Subject), h) /\ Alone(m, Returns(m, d, rc, Subject))
         /\ Returns(m, d, rc, Subject)[d].kind = "match_data"
<1> DEFINE other == [m[d] EXCEPT !.rc = rc, !.subject = Subject]
           n == Returns(m, d, rc, Subject)
<1>1. m \in [Places -> Block] /\ d \in Places
  BY DEF Heap, Sound, MemoryOK, Places
<1>2. m[d] \in Block
  BY <1>1
<1>3. n = [m EXCEPT ![d] = other]
  BY <1>1 DEF Returns
<1>4. Changed(m[d], other)
  BY <1>2 DEF Changed, Same, CopyIn, Block, Results
<1>5. Heap([m EXCEPT ![d] = other], h)
  <2> HIDE DEF other
  <2> QED
    BY <1>4, Changing
<1>6. n[d].kind = "match_data" /\ \A x \in Blocks : x # d => n[x] = m[x]
  BY <1>1, <1>2, <1>3 DEF Block, Places
<1> QED
  BY <1>3, <1>5, <1>6 DEF Alone

\* A match of a subject that is copied, if there is memory for it.
LEMMA CopyingSubject ==
  ASSUME NEW m, NEW h, Heap(m, h), NEW d \in Blocks, m[d].kind = "match_data", ~m[d].copied,
         NEW n \in Copied(m, d)
  PROVE  Heap(n, h) /\ Alone(m, n) /\ n[d].kind = "match_data"
<1>1. m \in [Places -> Block] /\ d \in Places /\ m[d] \in Block
  BY DEF Heap, Sound, MemoryOK, Places
<1>2. CASE n = m
  BY <1>2 DEF Alone
<1>3. CASE n = [Returns(m, d, "match", NONE) EXCEPT ![d].copied = TRUE]
  <2> DEFINE other == [m[d] EXCEPT !.rc = "match", !.subject = NONE, !.copied = TRUE]
  <2>1. n = [m EXCEPT ![d] = other]
    BY <1>1, <1>3 DEF Returns
  <2>2. Changed(m[d], other)
    BY <1>1 DEF Changed, Same, CopyIn, Block, Results
  <2>3. Heap(n, h)
    BY <2>1, <2>2, Changing
  <2>4. n[d].kind = "match_data" /\ \A x \in Blocks : x # d => n[x] = m[x]
    BY <1>1, <2>1 DEF Block, Places
  <2> QED
    BY <2>3, <2>4 DEF Alone
<1>4. CASE n \in {[Returns(m, d, "match", b) EXCEPT ![b] = New("text", m[d].memctl), ![d].copied = TRUE] :
                    b \in FreeIn(m)}
  <2>1. PICK b \in FreeIn(m) : n = [Returns(m, d, "match", b) EXCEPT ![b] = New("text", m[d].memctl), ![d].copied = TRUE]
    BY <1>4
  <2>2. b \in Blocks /\ m[b].kind = "free" /\ b # d
    BY DEF FreeIn
  <2> DEFINE other == [m[d] EXCEPT !.rc = "match", !.subject = b, !.copied = TRUE]
  <2>3. n = [m EXCEPT ![b] = New("text", m[d].memctl), ![d] = other]
    BY <1>1, <2>1, <2>2 DEF Returns, Places
  <2>4. Attached(m[d], other, b, "text")
    BY <1>1, <2>2 DEF Attached, Same, Block, Results
  <2>5. Heap(n, h)
    BY <2>2, <2>3, <2>4, Attaching DEF OwnedKinds
  <2>6. n[d].kind = "match_data" /\ n[b].kind = "text" /\ \A x \in Blocks : x \notin {b, d} => n[x] = m[x]
    BY <1>1, <2>2, <2>3 DEF Block, Places, New
  <2> QED
    BY <2>2, <2>5, <2>6 DEF Alone
<1> QED
  BY <1>2, <1>3, <1>4 DEF Copied

\* Whatever a match returns.
LEMMA MatchLeaves ==
  ASSUME NEW m, NEW h, Heap(m, h), NEW d \in Blocks, m[d].kind = "match_data",
         NEW n \in Matched(m, d)
  PROVE  Heap(n, h) /\ Alone(m, n) /\ n[d].kind = "match_data"
<1> DEFINE cleared == Cleared(m, d)
           ready == {cleared} \cup Framed(cleared, d)
<1>1. /\ Heap(cleared, h) /\ Alone(m, cleared)
      /\ cleared[d].kind = "match_data" /\ ~cleared[d].copied /\ cleared[d].rc = "error"
  BY Clearing
<1>2. n \in {Unframed(cleared, d)} \cup ready
           \cup UNION {{Returns(r, d, rc, Subject) : rc \in {"nomatch", "partial", "match"}} \cup Copied(r, d) : r \in ready}
  BY DEF Matched
<1> HIDE DEF cleared
<1>3. ASSUME NEW r \in ready
      PROVE  /\ Heap(r, h) /\ Alone(m, r)
             /\ r[d].kind = "match_data" /\ ~r[d].copied
  <2>1. CASE r = cleared
    BY <1>1, <2>1
  <2>2. CASE r \in Framed(cleared, d)
    <3>1. Heap(r, h) /\ Alone(cleared, r) /\ r[d].kind = "match_data" /\ r[d].copied = cleared[d].copied
      BY <1>1, <2>2, Framing
    <3> QED
      BY <1>1, <3>1, AloneTwice
  <2> QED
    BY <2>1, <2>2
<1>4. CASE n = Unframed(cleared, d)
  <2>1. Heap(n, h) /\ Alone(cleared, n) /\ n[d] = [cleared[d] EXCEPT !.heapframes = NONE]
    BY <1>1, <1>4, Unframing
  <2>2. cleared[d] \in Block
    BY <1>1 DEF Heap, Sound, MemoryOK, Places
  <2>3. n[d].kind = "match_data"
    BY <1>1, <2>1, <2>2 DEF Block
  <2> QED
    BY <1>1, <2>1, <2>3, AloneTwice
<1>5. CASE n \in ready
  BY <1>3, <1>5
<1>6. ASSUME NEW r \in ready, n \in {Returns(r, d, rc, Subject) : rc \in {"nomatch", "partial", "match"}}
      PROVE  Heap(n, h) /\ Alone(m, n) /\ n[d].kind = "match_data"
  <2>1. PICK rc \in {"nomatch", "partial", "match"} : n = Returns(r, d, rc, Subject)
    BY <1>6
  <2>2. Heap(n, h) /\ Alone(r, n) /\ n[d].kind = "match_data"
    BY <1>3, <1>6, <2>1, Returning DEF Results
  <2> QED
    BY <1>3, <1>6, <2>2, AloneTwice
<1>7. ASSUME NEW r \in ready, n \in Copied(r, d)
      PROVE  Heap(n, h) /\ Alone(m, n) /\ n[d].kind = "match_data"
  <2>1. Heap(n, h) /\ Alone(r, n) /\ n[d].kind = "match_data"
    BY <1>3, <1>7, CopyingSubject
  <2> QED
    BY <1>3, <1>7, <2>1, AloneTwice
<1> HIDE DEF ready
<1> QED
  BY <1>2, <1>4, <1>5, <1>6, <1>7

\* What pcre2_substitute() makes to continue a match, it frees.
LEMMA InternalGoes ==
  ASSUME NEW m, NEW h, Heap(m, h), NEW d \in Blocks, m[d].kind = "match_data",
         NEW i \in Blocks, m[i].kind = "free",
         NEW n \in {Internal(m, d, i, m[d].memctl)} \cup Framed(Internal(m, d, i, m[d].memctl), i)
  PROVE  FreedData(n, i) = m
<1> DEFINE a == m[d].memctl
           data == [m[d] EXCEPT !.origin = a, !.heapframes = NONE, !.copied = FALSE]
           r == Internal(m, d, i, a)
<1>1. m \in [Places -> Block] /\ d \in Places /\ i \in Places /\ m[d] \in Block
  BY DEF Heap, Sound, MemoryOK, Places
<1>2. m[i] = Nowhere
  BY DEF Heap, Sound, Made
<1>3. r = [m EXCEPT ![i] = data]
  BY DEF Internal
<1>4. /\ data \in Block /\ data.kind = "match_data" /\ data.origin = a /\ data.memctl = a
      /\ data.heapframes = NONE /\ ~data.copied
  BY <1>1 DEF Block
<1>5. r \in [Places -> Block] /\ r[i] = data /\ \A x \in Places : x # i => r[x] = m[x]
  BY <1>1, <1>3, <1>4
<1> HIDE DEF r, data, a
<1>6. ASSUME NEW s \in [Places -> Block], s[i].kind = "match_data", s[i].origin = a, s[i].memctl = a,
             ~s[i].copied, NEW b \in Blocks \cup {NONE}, s[i].heapframes = b,
             b # NONE => s[b].kind # "free" /\ s[b].origin = a /\ b # i
      PROVE  FreedData(s, i) = Without(s, {b, i})
  <2>1. CopiedSubject(s, i) = NONE
    BY <1>6 DEF CopiedSubject
  <2>2. Free(s, b, a) = Without(s, {b}) /\ Without(s, {b}) \in [Places -> Block]
    BY <1>6, Freeing
  <2>3. i # b
    BY <1>6, Constants
  <2>4. Without(s, {b})[i] = s[i]
    BY <1>1, <2>3 DEF Without
  <2>5. Free(Without(s, {b}), i, a) = Without(Without(s, {b}), {i})
    BY <1>6, <2>2, <2>4, Freeing
  <2>6. FreedData(s, i) = Free(Free(Free(s, b, a), NONE, a), i, a)
    BY <1>6, <2>1 DEF FreedData
  <2>7. Free(Free(s, b, a), NONE, a) = Without(s, {b})
    BY <2>2 DEF Free
  <2>8. Without(Without(s, {b}), {i}) = Without(s, {b, i})
    BY WithoutBoth
  <2> QED
    BY <2>5, <2>6, <2>7, <2>8
<1>7. CASE n = r
  <2>1. FreedData(n, i) = Without(n, {NONE, i})
    BY <1>4, <1>5, <1>6, <1>7
  <2>2. NONE \notin Places
    BY Constants DEF Places
  <2> QED
    BY <1>1, <1>2, <1>5, <1>7, <2>1, <2>2 DEF Without
<1>8. CASE n \in Framed(r, i)
  <2> DEFINE u == Unframed(r, i)
  <2>1. u = r
    <3>1. Free(r, r[i].heapframes, r[i].memctl) = r
      BY <1>4, <1>5 DEF Free
    <3>2. [r EXCEPT ![i].heapframes = NONE] = r
      BY <1>1, <1>4, <1>5 DEF Block
    <3> QED
      BY <3>1, <3>2 DEF Unframed
  <2>2. PICK b \in FreeIn(r) : n = [r EXCEPT ![b] = New("heapframes", r[i].memctl), ![i].heapframes = b]
    BY <1>8, <2>1 DEF Framed
  <2>3. b \in Blocks /\ r[b].kind = "free" /\ b # i
    BY <1>4, <1>5 DEF FreeIn
  <2>4. m[b] = Nowhere
    BY <1>5, <2>3 DEF Heap, Sound, Made, Places
  <2>5. /\ n[b] = New("heapframes", a) /\ n[i] = [data EXCEPT !.heapframes = b]
        /\ \A x \in Places : x \notin {b, i} => n[x] = m[x]
    BY <1>1, <1>4, <1>5, <2>2, <2>3 DEF Places
  <2>6. n \in [Places -> Block]
    <3>1. New("heapframes", a) \in Block
      <4>1. a \in Allocators \cup {NONE}
        BY <1>1 DEF Block, a
      <4> QED
        BY <4>1, NewIsBlock DEF Kinds
    <3>2. n[i] \in Block
      BY <1>4, <2>3, <2>5 DEF Block
    <3> QED
      BY <1>1, <1>5, <2>2, <2>3, <2>5, <3>1, <3>2
  <2>7. n[i].kind = "match_data" /\ n[i].origin = a /\ n[i].memctl = a /\ ~n[i].copied /\ n[i].heapframes = b
    BY <1>4, <2>5 DEF Block
  <2>8. n[b].kind # "free" /\ n[b].origin = a
    BY <2>5 DEF New
  <2>9. FreedData(n, i) = Without(n, {b, i})
    BY <1>6, <2>3, <2>6, <2>7, <2>8
  <2>10. \A x \in Places : Without(n, {b, i})[x] = m[x]
    BY <1>2, <2>4, <2>5 DEF Without
  <2>11. Without(n, {b, i}) = [x \in Places |-> Without(n, {b, i})[x]]
    BY DEF Without
  <2> QED
    BY <1>1, <2>9, <2>10, <2>11
<1> QED
  BY <1>7, <1>8 DEF r, a

-----------------------------------------------------------------------------
(* Functions that leave codes and their tables alone. *)

\* The tables of a code, and the numbers of what there is.
LEMMA TablesOfCodes ==
  ASSUME NEW m, NEW h, Heap(m, h), NEW c \in Blocks, m[c].tables # NONE
  PROVE  /\ m[c].kind = "code" /\ m[c].tables \in Blocks /\ m[m[c].tables].kind = "tables"
         /\ m[m[c].tables].memctl = m[c].memctl /\ m[m[c].tables].ref_count \in Nat
<1>1. RefersWell(m, c) /\ m \in [Places -> Block]
  BY DEF Heap, Sound, MemoryOK
<1>2. m[c].tables \in Blocks /\ m[m[c].tables] \in Block
  BY <1>1 DEF RefersWell, Refers, Places
<1> QED
  BY <1>1, <1>2 DEF RefersWell, Refers, Block

\* What holds of codes and threads does not depend on other blocks.
LEMMA SharedAlone ==
  ASSUME NEW m, NEW h, NEW m2, NEW h2, NEW p, Heap(m, h), Heap(m2, h2), Shared(m, h, p), Alone(m, m2),
         \A c \in Blocks : m[c].kind = "code" => (c \in h2 <=> c \in h)
  PROVE  Shared(m2, h2, p)
<1>1. \A b, c \in Blocks : m2[c].tables = b <=> m[c].tables = b
  BY Constants DEF Heap, Sound, RefersWell, Refers, Alone
<1>2. \A b \in Blocks : Users(m2, b) = Users(m, b)
  BY <1>1 DEF Users
<1>3. \A t \in Threads : \A c \in Pending(p, t) : c \in Blocks \ h /\ m[c].kind = "code"
  BY DEF Shared, PendingOK
<1>4. PendingOK(m2, h2, p)
  <2>1. \A c \in Blocks : m2[c].kind = "code" <=> m[c].kind = "code"
    BY DEF Alone
  <2> QED
    BY <2>1 DEF Shared, PendingOK
<1>5. ASSUME NEW t \in Threads
      PROVE  ThreadOK(m2, h2, p[t])
  <2>1. ThreadOK(m, h, p[t])
    BY DEF Shared
  <2>2. CASE p[t].at = "copy"
    <3>1. CopyOK(m, h, p[t]) /\ m[p[t].code].kind = "code" /\ p[t].source \in Blocks
      BY <1>3, <2>1, <2>2 DEF ThreadOK, CopyOK, Pending, Heap, Kept
    <3>2. m2[p[t].code] = m[p[t].code] /\ m2[p[t].source] = m[p[t].source] /\ p[t].source \in h2
      BY <3>1 DEF CopyOK, Alone
    <3>3. m[p[t].code].tables \in Blocks /\ m[m[p[t].code].tables].kind = "tables"
      BY <3>1, TablesOfCodes DEF CopyOK
    <3>4. CopyOK(m2, h2, p[t])
      BY <3>1, <3>2, <3>3 DEF CopyOK, Alone
    <3> QED
      BY <2>2, <3>4 DEF ThreadOK
  <2>3. CASE p[t].at = "free"
    <3>1. FreeOK(m, p[t]) /\ m[p[t].code].kind = "code"
      BY <1>3, <2>1, <2>3 DEF ThreadOK, Pending
    <3>2. m2[p[t].code] = m[p[t].code]
      BY <3>1 DEF FreeOK, Alone
    <3>3. m[p[t].code].tables # NONE =>
            m[p[t].code].tables \in Blocks /\ m[m[p[t].code].tables].kind = "tables"
      BY <3>1, TablesOfCodes DEF FreeOK
    <3>4. FreeOK(m2, p[t])
      BY <3>1, <3>2, <3>3 DEF FreeOK, Alone
    <3> QED
      BY <2>1, <2>3, <3>4 DEF ThreadOK
  <2>4. CASE p[t].at = "decode"
    <3>1. DecodeOK(m, p[t]) /\ \A c \in p[t].codes : c \in Blocks /\ m[c].kind = "code"
      BY <1>3, <2>1, <2>4 DEF ThreadOK, Pending
    <3>2. m2[p[t].tables] = m[p[t].tables] /\ \A c \in p[t].codes : m2[c] = m[c]
      BY <3>1 DEF DecodeOK, Alone
    <3>3. DecodeOK(m2, p[t])
      BY <1>2, <3>1, <3>2 DEF DecodeOK
    <3> QED
      BY <2>1, <2>4, <3>3 DEF ThreadOK
  <2>5. CASE p[t].at \notin {"copy", "free", "decode"}
    BY <2>1, <2>5 DEF ThreadOK
  <2> QED
    BY <2>2, <2>3, <2>4, <2>5
<1>6. ASSUME NEW b \in Blocks
      PROVE  CountOK(m2, p, b)
  <2>1. CountOK(m, p, b)
    BY DEF Shared
  <2>2. m2[b].kind = "tables" => m2[b] = m[b]
    BY DEF Alone
  <2> QED
    BY <1>2, <2>1, <2>2 DEF CountOK
<1> QED
  BY <1>4, <1>5, <1>6 DEF Shared

\* The allocators that can be given are allocators.
LEMMA GivenAllocators ==
  ASSUME IInv
  PROVE  /\ Given \subseteq Allocators
         /\ \A b \in Blocks : mem[b].kind # "free" => mem[b].memctl \in Allocators
<1>1. \A b \in Blocks : mem[b].kind # "free" => mem[b].memctl \in Allocators
  BY DEF IInv, Heap, Sound, Made
<1> QED
  BY <1>1, LifetimesAssumption DEF Given, Held, IInv, Heap, Kept

\* What the application gets and must free.
LEMMA MakePreserves ==
  ASSUME IInv, NEW b \in Blocks, mem[b].kind = "free", NEW block, Fresh(mem, block),
         block.kind \notin {"code", "tables"},
         mem' = [mem EXCEPT ![b] = block], held' = held \cup {b}, pc' = pc
  PROVE  IInv'
<1>1. Heap(mem', held')
  BY Allocating DEF IInv
<1>2. mem'[b].kind \notin {"code", "tables"} /\ \A x \in Blocks : x # b => mem'[x] = mem[x]
  BY DEF IInv, Heap, Sound, MemoryOK, Places
<1>3. Alone(mem, mem')
  BY <1>2 DEF Alone
<1>4. Shared(mem', held', pc')
  BY <1>1, <1>2, <1>3, SharedAlone DEF IInv
<1> QED
  BY <1>1, <1>4 DEF IInv

\* Blocks that nothing goes with are freed with their own allocator.
LEMMA FreeOwnPreserves ==
  ASSUME IInv, NEW kind \in {"stream", "text", "context"}, FreeOwn(kind)
  PROVE  IInv'
<1>1. PICK b \in Held(kind) : /\ mem' = Free(mem, b, mem[b].memctl)
                              /\ held' = held \ {b} /\ pc' = pc
  BY DEF FreeOwn
<1>2. b \in held /\ b \in Blocks /\ mem[b].kind = kind /\ mem[b].origin = mem[b].memctl
  BY DEF Held, IInv, Heap, Kept, Sound, Made
<1>3. mem' = Without(mem, {b})
  BY <1>1, <1>2, Freeing DEF IInv, Heap, Sound, MemoryOK
<1>4. \A o \in Blocks : ~Owns(mem, o, b) /\ ~Owns(mem, b, o) /\ mem[o].tables # b
  <2>1. RefersWell(mem, b) /\ \A o \in Blocks : RefersWell(mem, o)
    BY <1>2 DEF IInv, Heap, Sound
  <2> QED
    BY <1>2, <2>1, Constants DEF IInv, Heap, Kept, RefersWell, Refers, Owns
<1>5. Heap(mem', held')
  BY <1>1, <1>2, <1>3, <1>4, Wiping DEF IInv
<1>6. \A x \in Blocks : mem'[x] = IF x = b THEN Nowhere ELSE mem[x]
  BY <1>3 DEF Without, Places
<1>7. Alone(mem, mem')
  BY <1>2, <1>6 DEF Alone, Nowhere, New
<1>8. Shared(mem', held', pc')
  BY <1>1, <1>2, <1>5, <1>7, SharedAlone DEF IInv
<1> QED
  BY <1>5, <1>8 DEF IInv

\* A context, text or match data is made.
LEMMA MakeStep ==
  ASSUME IInv, NEW kind \in {"context", "text", "match_data"}, NEW a \in Allocators, Make(kind, a)
  PROVE  IInv'
<1>1. PICK b \in FreeBlocks : mem' = [mem EXCEPT ![b] = New(kind, a)] /\ held' = held \cup {b}
  BY DEF Make
<1>2. b \in Blocks /\ mem[b].kind = "free"
  BY DEF FreeBlocks, FreeIn
<1>3. New(kind, a) \in Block
  <2>1. kind \in Kinds
    BY DEF Kinds
  <2> QED
    BY <2>1, NewIsBlock
<1>4. Fresh(mem, New(kind, a)) /\ New(kind, a).kind \notin {"code", "tables"}
  BY <1>3 DEF Fresh, New, HeldKinds
<1> QED
  BY <1>1, <1>2, <1>4, MakePreserves DEF Make

\* The functions on contexts keep the invariant.
LEMMA ContextsPreserve ==
  ASSUME IInv, Contexts
  PROVE  IInv'
<1>1. CASE GeneralContextCreate
  BY <1>1, MakeStep DEF GeneralContextCreate
<1>2. CASE ContextCreate
  BY <1>2, MakeStep, GivenAllocators DEF ContextCreate
<1>3. CASE ContextCopy
  <2>1. PICK b \in Held("context") : Make("context", mem[b].memctl)
    BY <1>3 DEF ContextCopy
  <2>2. mem[b].memctl \in Allocators
    BY GivenAllocators DEF Held, IInv, Heap, Kept
  <2> QED
    BY <2>1, <2>2, MakeStep
<1>4. CASE ContextFree
  BY <1>4, FreeOwnPreserves DEF ContextFree
<1>5. CASE PatternConvert
  BY <1>5, MakeStep, GivenAllocators DEF PatternConvert
<1> QED
  BY <1>1, <1>2, <1>3, <1>4, <1>5 DEF Contexts

\* A step that changes match data and what goes with it, and leaves what is held.
LEMMA DataPreserves ==
  ASSUME IInv, Heap(mem', held), Alone(mem, mem'), UNCHANGED <<held, pc>>
  PROVE  IInv'
<1>1. Shared(mem', held', pc')
  BY SharedAlone DEF IInv
<1> QED
  BY <1>1 DEF IInv

\* Match data gets another result, or loses it.
LEMMA ResultChanges ==
  ASSUME NEW m, NEW h, Heap(m, h), NEW d \in h, m[d].kind = "match_data", NEW rc \in Results,
         rc # "error" => m[d].copied \/ m[d].subject = Subject
  PROVE  Heap([m EXCEPT ![d].rc = rc], h) /\ Alone(m, [m EXCEPT ![d].rc = rc])
<1> DEFINE other == [m[d] EXCEPT !.rc = rc]
<1>1. m \in [Places -> Block] /\ d \in Blocks /\ d \in Places /\ m[d] \in Block
  BY DEF Heap, Sound, MemoryOK, Places, Kept
<1>2. [m EXCEPT ![d].rc = rc] = [m EXCEPT ![d] = other]
  OBVIOUS
<1>3. Changed(m[d], other) /\ other.kind = "match_data"
  BY <1>1 DEF Changed, Same, CopyIn, Block
<1> HIDE DEF other
<1>4. Heap([m EXCEPT ![d] = other], h)
  BY <1>1, <1>3, Changing
<1>5. Alone(m, [m EXCEPT ![d] = other])
  BY <1>1, <1>3 DEF Alone, Places
<1> QED
  BY <1>2, <1>4, <1>5

\* Match data that the application has is as the invariant says.
LEMMA HeldData ==
  ASSUME IInv, NEW d \in Held("match_data")
  PROVE  /\ d \in held /\ d \in Blocks /\ mem[d].kind = "match_data" /\ mem[d] \in Block
         /\ mem[d].memctl \in Allocators
         /\ mem[d].rc # "error" => mem[d].copied \/ mem[d].subject = Subject
  BY DEF Held, IInv, Heap, Kept, Truthful, Sound, MemoryOK, Made, Places

\* The functions on match data keep the invariant.
LEMMA MatchingPreserves ==
  ASSUME IInv, Matching, ~Mixed
  PROVE  IInv'
<1>1. CASE MatchDataCreate
  <2>1. PICK a \in Given \cup {mem[c].memctl : c \in Held("code")} : Make("match_data", a)
    BY <1>1 DEF MatchDataCreate
  <2>2. a \in Allocators
    BY GivenAllocators DEF Held, IInv, Heap, Kept
  <2> QED
    BY <2>1, <2>2, MakeStep
<1>2. CASE MatchDataFree
  <2>1. PICK d \in Held("match_data") : mem' = FreedData(mem, d) /\ held' = held \ {d} /\ pc' = pc
    BY <1>2 DEF MatchDataFree
  <2>2. d \in held /\ mem[d].kind = "match_data"
    BY HeldData
  <2>3. Heap(mem', held') /\ Alone(mem, mem')
    BY <2>1, <2>2, FreeingData DEF IInv
  <2>4. Shared(mem', held', pc')
    BY <2>1, <2>2, <2>3, SharedAlone DEF IInv
  <2> QED
    BY <2>3, <2>4 DEF IInv
<1>3. CASE MatchRefused
  <2>1. PICK d \in Held("match_data") : mem' = [mem EXCEPT ![d].rc = "error"] /\ UNCHANGED <<held, pc>>
    BY <1>3 DEF MatchRefused
  <2>2. Heap(mem', held) /\ Alone(mem, mem')
    BY <2>1, HeldData, ResultChanges DEF IInv, Results
  <2> QED
    BY <2>1, <2>2, DataPreserves
<1>4. CASE DoMatch
  <2>1. PICK d \in Held("match_data") : mem' \in Matched(mem, d)
    BY <1>4 DEF DoMatch
  <2>2. Heap(mem', held) /\ Alone(mem, mem')
    BY <2>1, HeldData, MatchLeaves DEF IInv
  <2> QED
    BY <1>4, <2>2, DataPreserves DEF DoMatch
<1>5. CASE Substitute
  <2>1. PICK d \in Held("match_data"), rc \in {"error", "match"} : \E m \in Matched(mem, d) :
          mem' = [m EXCEPT ![d].rc = IF @ \in {"match", "nomatch"} THEN rc ELSE @]
    BY <1>5 DEF Substitute
  <2>2. PICK m \in Matched(mem, d) : mem' = [m EXCEPT ![d].rc = IF @ \in {"match", "nomatch"} THEN rc ELSE @]
    BY <2>1
  <2>3. Heap(m, held) /\ Alone(mem, m) /\ d \in held /\ d \in Blocks /\ mem[d].kind = "match_data"
    BY HeldData, MatchLeaves DEF IInv
  <2>4. m[d].kind = "match_data" /\ m[d] \in Block
    BY <2>2, <2>3, MatchLeaves DEF IInv, Heap, Sound, MemoryOK, Places
  <2> DEFINE now == IF m[d].rc \in {"match", "nomatch"} THEN rc ELSE m[d].rc
  <2>5. mem' = [m EXCEPT ![d].rc = now]
    BY <2>2
  <2>6. now \in Results /\ (now # "error" => m[d].copied \/ m[d].subject = Subject)
    BY <2>3, <2>4 DEF Heap, Truthful, Block, Results
  <2> HIDE DEF now
  <2>7. Heap(mem', held) /\ Alone(m, mem')
    BY <2>3, <2>4, <2>5, <2>6, ResultChanges
  <2> QED
    BY <1>5, <2>3, <2>7, AloneTwice, DataPreserves DEF Substitute
<1>6. CASE SubstituteMatched
  <2>1. PICK d \in Held("match_data"), c \in Held("code"), i \in FreeBlocks :
          \E a \in Given \cup {mem[c].memctl} :
            /\ Mixed \/ a = mem[d].memctl
            /\ \E m \in {Internal(mem, d, i, a)} \cup Framed(Internal(mem, d, i, a), i) : mem' = FreedData(m, i)
    BY <1>6 DEF SubstituteMatched
  <2>2. PICK m \in {Internal(mem, d, i, mem[d].memctl)} \cup Framed(Internal(mem, d, i, mem[d].memctl), i) :
          mem' = FreedData(m, i)
    BY <2>1
  <2>3. mem' = mem
    BY <2>2, HeldData, InternalGoes DEF IInv, FreeBlocks, FreeIn
  <2> QED
    BY <1>6, <2>3, DataPreserves DEF SubstituteMatched, IInv, Alone
<1>7. CASE SubstringGet
  <2>1. PICK d \in Held("match_data"), b \in FreeBlocks :
          /\ mem[d].rc \in {"match", "partial"}
          /\ mem' = IF Readable(d) THEN [mem EXCEPT ![b] = New("text", mem[d].memctl)]
                    ELSE [mem EXCEPT ![d].kind = "corrupt"]
          /\ held' = held \cup {b}
    BY <1>7 DEF SubstringGet
  <2>2. Readable(d)
    <3>1. mem[Subject].kind = "text" /\ RefersWell(mem, d)
      BY HeldData DEF IInv, Heap, Sound, MemoryOK, New
    <3> QED
      BY <2>1, <3>1, HeldData, Constants DEF Readable, RefersWell, Refers
  <2>3. New("text", mem[d].memctl) \in Block
    BY HeldData, NewIsBlock DEF Kinds
  <2>4. Fresh(mem, New("text", mem[d].memctl)) /\ New("text", mem[d].memctl).kind \notin {"code", "tables"}
    BY <2>3, HeldData DEF Fresh, New, HeldKinds
  <2>5. b \in Blocks /\ mem[b].kind = "free"
    BY DEF FreeBlocks, FreeIn
  <2> QED
    BY <1>7, <2>1, <2>2, <2>4, <2>5, MakePreserves DEF SubstringGet
<1>8. CASE TextFree
  BY <1>8, FreeOwnPreserves DEF TextFree
<1> QED
  BY <1>1, <1>2, <1>3, <1>4, <1>5, <1>6, <1>7, <1>8 DEF Matching

-----------------------------------------------------------------------------
(* Functions that make, share and free codes. *)

\* A code may be held or not without anything else being lost.
LEMMA HoldingCodes ==
  ASSUME NEW m, NEW h, Heap(m, h), NEW h2 \in SUBSET Blocks,
         \A b \in Blocks : m[b].kind # "code" => (b \in h2 <=> b \in h)
  PROVE  Heap(m, h2)
<1>1. \A b \in Blocks : m[b].kind = "code" => \A o \in Blocks : ~Owns(m, o, b)
  BY Constants DEF Heap, Sound, RefersWell, Refers, Owns
<1> QED
  BY <1>1 DEF Heap, Kept, Truthful, HeldKinds, OwnedKinds

\* There are finitely many blocks to count.
LEMMA FiniteBlocks ==
  ASSUME NEW set, set \subseteq Blocks
  PROVE  IsFiniteSet(set) /\ Cardinality(set) \in Nat /\ (Cardinality(set) = 0 <=> set = {})
  BY LifetimesAssumption, FS_Subset, FS_CardinalityType, FS_EmptySet

\* A set of blocks with one more.
LEMMA OneMore ==
  ASSUME NEW set, set \subseteq Blocks, NEW b \in Blocks, b \notin set
  PROVE  Cardinality(set \cup {b}) = Cardinality(set) + 1
  BY FiniteBlocks, FS_AddElement

\* A set of blocks with one less.
LEMMA OneLess ==
  ASSUME NEW set, set \subseteq Blocks, NEW b \in set
  PROVE  Cardinality(set \ {b}) = Cardinality(set) - 1
  BY FiniteBlocks, FS_RemoveElement

\* What a thread is about stays as it is.
KeepsThread(m, p, t, m2, h2) ==
  /\ \A x \in Pending(p, t) : /\ m2[x] = m[x]
                              /\ m[x].tables # NONE => m2[m[x].tables] = m[m[x].tables]
  /\ p[t].source # NONE => /\ p[t].source \in h2 /\ m2[p[t].source].kind = "code"
                           /\ m2[p[t].source].tables = m[p[t].source].tables
  /\ p[t].at = "decode" => /\ m2[p[t].tables] = m[p[t].tables]
                           /\ Users(m2, p[t].tables) = Users(m, p[t].tables)

\* Then the thread can go on.
LEMMA ThreadKept ==
  ASSUME NEW m, NEW h, NEW m2, NEW h2, NEW p, Heap(m, h), Shared(m, h, p), NEW t \in Threads,
         KeepsThread(m, p, t, m2, h2)
  PROVE  ThreadOK(m2, h2, p[t])
<1> USE DEF KeepsThread
<1>1. ThreadOK(m, h, p[t])
  BY DEF Shared
<1>2. CASE p[t].at = "copy"
  <2>1. CopyOK(m, h, p[t]) /\ p[t].source # NONE
    BY <1>1, <1>2, Constants DEF ThreadOK, CopyOK, Heap, Kept
  <2>2. p[t].code \in Pending(p, t)
    BY <1>2 DEF Pending
  <2> QED
    BY <1>2, <2>1, <2>2 DEF ThreadOK, CopyOK
<1>3. CASE p[t].at = "free"
  <2>1. p[t].code \in Pending(p, t)
    BY <1>3 DEF Pending
  <2> QED
    BY <1>1, <1>3, <2>1 DEF ThreadOK, FreeOK
<1>4. CASE p[t].at = "decode"
  <2>1. p[t].codes = Pending(p, t)
    BY <1>4 DEF Pending
  <2> QED
    BY <1>1, <1>4, <2>1 DEF ThreadOK, DecodeOK
<1>5. CASE p[t].at \notin {"copy", "free", "decode"}
  BY <1>1, <1>5 DEF ThreadOK
<1> QED
  BY <1>2, <1>3, <1>4, <1>5

\* What is pending is there, and what is not used yet is not pending.
LEMMA PendingCodes ==
  ASSUME NEW m, NEW h, NEW p, Heap(m, h), Shared(m, h, p), NEW t \in Threads
  PROVE  /\ p[t] \in Thread
         /\ \A x \in Pending(p, t) : x \in Blocks /\ x \notin h /\ m[x].kind = "code"
         /\ p[t].source # NONE => p[t].source \in h /\ p[t].source \in Blocks /\ m[p[t].source].kind = "code"
         /\ p[t].at = "decode" => p[t].tables \in Blocks /\ m[p[t].tables].kind = "tables"
  BY DEF Shared, PendingOK, ThreadOK, CopyOK, DecodeOK, Heap, Kept

\* A code without tables that is held at once.
LEMMA NewCode ==
  ASSUME IInv, NEW b \in FreeBlocks, NEW a \in Allocators,
         mem' = [mem EXCEPT ![b] = New("code", a)], held' = held \cup {b}, pc' = pc
  PROVE  IInv'
<1>1. b \in Blocks /\ mem[b].kind = "free" /\ mem \in [Places -> Block]
  BY DEF FreeBlocks, FreeIn, IInv, Heap, Sound, MemoryOK
<1>2. New("code", a) \in Block
  BY NewIsBlock DEF Kinds
<1>3. Fresh(mem, New("code", a))
  BY <1>2 DEF Fresh, New, HeldKinds
<1>4. Heap(mem', held')
  BY <1>1, <1>3, Allocating DEF IInv, New
<1>5. mem'[b] = New("code", a) /\ \A x \in Blocks : x # b => mem'[x] = mem[x]
  BY <1>1 DEF Places
<1>6. \A x \in Blocks : Users(mem', x) = Users(mem, x)
  <2>1. mem[b].tables = NONE /\ mem'[b].tables = NONE
    BY <1>1, <1>5 DEF IInv, Heap, Sound, Made, Nowhere, New
  <2>2. \A c \in Blocks : mem'[c].tables = mem[c].tables
    BY <1>5, <2>1
  <2> QED
    BY <2>2 DEF Users
<1>7. ASSUME NEW t \in Threads
      PROVE  ThreadOK(mem', held', pc[t])
  <2>1. \A x \in Pending(pc, t) : /\ mem'[x] = mem[x]
                                  /\ mem[x].tables # NONE => mem'[mem[x].tables] = mem[mem[x].tables]
    BY <1>1, <1>5, PendingCodes, TablesOfCodes DEF IInv
  <2>2. pc[t].source # NONE => /\ pc[t].source \in held' /\ mem'[pc[t].source].kind = "code"
                               /\ mem'[pc[t].source].tables = mem[pc[t].source].tables
    BY <1>1, <1>5, PendingCodes DEF IInv
  <2>3. pc[t].at = "decode" => /\ mem'[pc[t].tables] = mem[pc[t].tables]
                               /\ Users(mem', pc[t].tables) = Users(mem, pc[t].tables)
    <3>1. pc[t].at = "decode" => pc[t].tables \in Blocks /\ mem[pc[t].tables].kind = "tables"
      BY PendingCodes DEF IInv
    <3> QED
      BY <1>1, <1>5, <1>6, <3>1
  <2>4. KeepsThread(mem, pc, t, mem', held')
    BY <2>1, <2>2, <2>3 DEF KeepsThread
  <2> QED
    BY <2>4, ThreadKept DEF IInv
<1>8. PendingOK(mem', held', pc')
  BY <1>1, <1>5 DEF IInv, Shared, PendingOK, New
<1>9. ASSUME NEW x \in Blocks
      PROVE  CountOK(mem', pc', x)
  <2>1. CountOK(mem, pc, x)
    BY DEF IInv, Shared
  <2>2. mem'[b].kind = "code"
    BY <1>5 DEF New
  <2>3. CASE x = b
    BY <2>2, <2>3 DEF CountOK
  <2>4. CASE x # b
    BY <1>5, <1>6, <2>1, <2>4 DEF CountOK
  <2> QED
    BY <2>3, <2>4
<1> QED
  BY <1>4, <1>7, <1>8, <1>9 DEF IInv, Shared

\* The tables of codes that the application holds, or of the code that a thread copies or
\* frees, are not those that are being decoded.
LEMMA NotDecoded ==
  ASSUME NEW m, NEW h, NEW p, Heap(m, h), Shared(m, h, p), NEW c \in Blocks,
         \/ c \in h
         \/ \E t \in Threads : p[t].at \in {"copy", "free"} /\ p[t].code = c
  PROVE  ~Decoding(p, m[c].tables)
<1> SUFFICES ASSUME NEW u \in Threads, p[u].at = "decode", p[u].tables = m[c].tables
             PROVE  FALSE
  BY DEF Decoding
<1>1. c \in Pending(p, u)
  BY DEF Shared, ThreadOK, DecodeOK, Users, Pending
<1>2. c \notin h
  BY <1>1, PendingCodes
<1>3. PICK t \in Threads : p[t].at \in {"copy", "free"} /\ p[t].code = c
  BY <1>2
<1>4. t # u /\ c \in Pending(p, t)
  BY <1>3 DEF Pending
<1> QED
  BY <1>1, <1>4 DEF Shared, Apart

\* While a thread is in one of the functions that are locked, no other is.
LEMMA OneThread ==
  ASSUME NEW m, NEW h, NEW p, Heap(m, h), Shared(m, h, p), NEW t \in Threads, p[t].at \in {"copy", "free"}
  PROVE  /\ p[t].code \in Blocks /\ p[t].code \notin h /\ m[p[t].code].kind = "code"
         /\ \A u \in Threads : u # t =>
              p[u].at \notin {"copy", "free"} /\ p[u].source = NONE /\ p[t].code \notin Pending(p, u)
         /\ Copying(p) = IF p[t].at = "copy" THEN {p[t].code} ELSE {}
<1>1. p[t].code \in Pending(p, t)
  BY DEF Pending
<1>2. p[t].code \in Blocks /\ p[t].code \notin h /\ m[p[t].code].kind = "code"
  BY <1>1, PendingCodes
<1>3. ASSUME NEW u \in Threads, u # t
      PROVE  p[u].at \notin {"copy", "free"} /\ p[u].source = NONE /\ p[t].code \notin Pending(p, u)
  BY <1>1, <1>3 DEF Shared, Apart, ThreadOK
<1>4. Copying(p) = IF p[t].at = "copy" THEN {p[t].code} ELSE {}
  BY <1>2, <1>3 DEF Copying
<1> QED
  BY <1>2, <1>3, <1>4

\* When nobody is in a function that is locked, nobody is copying.
LEMMA NobodyCopies ==
  ASSUME NEW op, MayEnter(op), Unlocked = {}
  PROVE  Copying(pc) = {} /\ \A u \in Threads : pc[u].at \notin {"copy", "free"}
  BY DEF MayEnter, Copying

\* A thread is done.
LEMMA Leaving ==
  ASSUME NEW m, NEW h, NEW p, Heap(m, h), Shared(m, h, p), NEW t \in Threads
  PROVE  LET p2 == [p EXCEPT ![t] = Idle]
         IN  /\ p2 \in [Threads -> Thread] /\ Apart(p2)
             /\ p2[t] = Idle /\ Pending(p2, t) = {}
             /\ \A u \in Threads : u # t => p2[u] = p[u] /\ Pending(p2, u) = Pending(p, u)
<1> DEFINE p2 == [p EXCEPT ![t] = Idle]
<1>1. Idle \in Thread
  BY DEF Idle, Thread
<1>2. p \in [Threads -> Thread]
  BY DEF Shared
<1>3. p2 \in [Threads -> Thread] /\ p2[t] = Idle /\ \A u \in Threads : u # t => p2[u] = p[u]
  BY <1>1, <1>2
<1> HIDE DEF p2
<1>4. Pending(p2, t) = {} /\ \A u \in Threads : u # t => Pending(p2, u) = Pending(p, u)
  BY <1>3 DEF Pending, Idle
<1>5. p2[t].at = "idle"
  BY <1>3 DEF Idle
<1>6. Apart(p2)
  BY <1>3, <1>4, <1>5 DEF Shared, Apart
<1> QED
  BY <1>3, <1>4, <1>6 DEF p2

\* A thread that decodes keeps its codes when a code is copied or freed, and an idle one has
\* nothing to keep.
LEMMA OthersKept ==
  ASSUME NEW m, NEW h, NEW m2, NEW h2, NEW p, Heap(m, h), Shared(m, h, p), NEW u \in Threads,
         p[u].at \notin {"copy", "free"},
         p[u].at = "decode" =>
           /\ \A x \in Pending(p, u) : m2[x].executable_jit = m[x].executable_jit
           /\ m2[p[u].tables] = m[p[u].tables]
           /\ Users(m2, p[u].tables) = Users(m, p[u].tables)
  PROVE  ThreadOK(m2, h2, p[u])
<1>1. ThreadOK(m, h, p[u])
  BY DEF Shared
<1>2. CASE p[u].at = "decode"
  <2>1. DecodeOK(m, p[u]) /\ p[u].source = NONE
    BY <1>1, <1>2 DEF ThreadOK
  <2>2. p[u].codes = Pending(p, u)
    BY <1>2 DEF Pending
  <2>3. DecodeOK(m2, p[u])
    BY <1>2, <2>1, <2>2 DEF DecodeOK
  <2> QED
    BY <1>2, <2>1, <2>3 DEF ThreadOK
<1>3. CASE p[u].at # "decode"
  BY <1>1, <1>3 DEF ThreadOK
<1> QED
  BY <1>2, <1>3

\* The count is written and the application gets the copy.
LEMMA CopyDonePreserves ==
  ASSUME IInv, NEW t \in Threads, CodeCopyDone(t)
  PROVE  IInv'
<1> DEFINE c == pc[t].code
           T == mem[c].tables
           n == pc[t].count
           other == [mem[T] EXCEPT !.ref_count = n + 1]
<1>1. pc[t].at = "copy" /\ held' = held \cup {c} /\ pc' = [pc EXCEPT ![t] = Idle]
      /\ mem' = [mem EXCEPT ![T].ref_count = n + 1]
  BY DEF CodeCopyDone, Counted
<1>2. /\ c \in Blocks /\ c \notin held /\ mem[c].kind = "code"
      /\ \A u \in Threads : u # t => pc[u].at \notin {"copy", "free"} /\ pc[u].source = NONE /\ c \notin Pending(pc, u)
      /\ Copying(pc) = {c}
  BY <1>1, OneThread DEF IInv
<1>3. T # NONE /\ n = mem[T].ref_count
  BY <1>1 DEF IInv, Shared, ThreadOK, CopyOK
<1>4. T \in Blocks /\ mem[T].kind = "tables" /\ n \in Nat
  BY <1>2, <1>3, TablesOfCodes DEF IInv
<1>5. ~Decoding(pc, T)
  BY <1>1, <1>2, NotDecoded DEF IInv
<1>6. mem \in [Places -> Block] /\ T \in Places /\ mem[T] \in Block
  BY <1>4 DEF IInv, Heap, Sound, MemoryOK, Places
<1>7. other \in Block /\ other.ref_count = n + 1 /\ Changed(mem[T], other)
  BY <1>4, <1>6, Recounted
<1>8. mem' = [mem EXCEPT ![T] = other]
  BY <1>1
<1> HIDE DEF T, c, n, other
<1>9. Heap(mem', held)
  BY <1>4, <1>7, <1>8, Changing DEF IInv
<1>10. \A x \in Blocks : /\ mem'[x].kind = mem[x].kind /\ mem'[x].tables = mem[x].tables
                         /\ x # T => mem'[x] = mem[x]
  BY <1>6, <1>7, <1>8 DEF Changed, Same, Places
<1>11. Heap(mem', held')
  <2>1. held' \in SUBSET Blocks /\ mem'[c].kind = "code"
    BY <1>1, <1>2, <1>10 DEF IInv, Heap, Kept, c
  <2> QED
    BY <1>1, <1>9, <2>1, HoldingCodes DEF c
<1>12. \A x \in Blocks : Users(mem', x) = Users(mem, x)
  BY <1>10 DEF Users
<1>13. /\ pc' \in [Threads -> Thread] /\ Apart(pc') /\ pc'[t] = Idle /\ Pending(pc', t) = {}
       /\ \A u \in Threads : u # t => pc'[u] = pc[u] /\ Pending(pc', u) = Pending(pc, u)
  BY <1>1, Leaving DEF IInv
<1>14. ASSUME NEW u \in Threads
       PROVE  ThreadOK(mem', held', pc'[u])
  <2>1. CASE u = t
    BY <1>13, <2>1 DEF ThreadOK, Idle
  <2>2. CASE u # t
    <3>1. pc[u].at = "decode" =>
           /\ \A x \in Pending(pc, u) : mem'[x].executable_jit = mem[x].executable_jit
           /\ mem'[pc[u].tables] = mem[pc[u].tables]
           /\ Users(mem', pc[u].tables) = Users(mem, pc[u].tables)
      <4>1. \A x \in Pending(pc, u) : x \in Blocks /\ x # T
        BY <1>4, PendingCodes DEF IInv
      <4>2. pc[u].at = "decode" => pc[u].tables \in Blocks /\ pc[u].tables # T
        BY <1>5, PendingCodes DEF IInv, Decoding
      <4> QED
        BY <1>10, <1>12, <4>1, <4>2
    <3>2. ThreadOK(mem', held', pc[u])
      BY <1>2, <2>2, <3>1, OthersKept DEF IInv
    <3> QED
      BY <1>13, <2>2, <3>2
  <2> QED
    BY <2>1, <2>2
<1>15. PendingOK(mem', held', pc')
  <2>1. ASSUME NEW u \in Threads, NEW x \in Pending(pc', u)
        PROVE  x \in Blocks \ held' /\ mem'[x].kind = "code"
    <3>1. u # t /\ x \in Pending(pc, u)
      BY <1>13
    <3>2. x \in Blocks /\ x \notin held /\ mem[x].kind = "code" /\ x # c
      BY <1>2, <3>1, PendingCodes DEF IInv
    <3> QED
      BY <1>1, <1>10, <3>2 DEF c
  <2>2. ASSUME NEW x \in Blocks \ held', mem'[x].kind = "code"
        PROVE  \E u \in Threads : x \in Pending(pc', u)
    <3>1. x \notin held /\ x # c /\ mem[x].kind = "code"
      BY <1>1, <1>10, <2>2 DEF c
    <3>2. PICK u \in Threads : x \in Pending(pc, u)
      BY <3>1 DEF IInv, Shared, PendingOK
    <3>3. u # t
      BY <1>1, <3>1, <3>2 DEF Pending, c
    <3> QED
      BY <1>13, <3>2, <3>3
  <2> QED
    BY <2>1, <2>2 DEF PendingOK
<1>16. ASSUME NEW x \in Blocks
       PROVE  CountOK(mem', pc', x)
  <2>1. CountOK(mem, pc, x)
    BY DEF IInv, Shared
  <2>2. Copying(pc') = {}
    BY <1>2, <1>13 DEF Copying, Idle
  <2>3. Decoding(pc', x) <=> Decoding(pc, x)
    BY <1>1, <1>13 DEF Decoding, Idle
  <2>4. CASE x = T
    <3>1. Users(mem, T) \subseteq Blocks /\ c \in Users(mem, T)
      BY <1>2 DEF Users, T, c
    <3>2. n = Cardinality(Users(mem, T) \ {c})
      BY <1>2, <1>3, <1>4, <1>5, <2>1, <2>4 DEF CountOK
    <3>3. Cardinality((Users(mem, T) \ {c}) \cup {c}) = n + 1
      BY <1>2, <3>1, <3>2, OneMore
    <3>4. (Users(mem, T) \ {c}) \cup {c} = Users(mem', x) \ Copying(pc')
      BY <1>12, <2>2, <2>4, <3>1
    <3>5. mem'[x].ref_count = n + 1
      BY <1>6, <1>7, <1>8, <2>4
    <3> QED
      BY <1>4, <3>3, <3>4, <3>5 DEF CountOK
  <2>5. CASE x # T
    <3>1. c \notin Users(mem, x)
      BY <2>5 DEF Users, T
    <3>2. Users(mem', x) \ Copying(pc') = Users(mem, x) \ Copying(pc)
      BY <1>2, <1>12, <2>2, <3>1
    <3> QED
      BY <1>10, <2>1, <2>3, <2>5, <3>2 DEF CountOK
  <2> QED
    BY <2>4, <2>5
<1> QED
  BY <1>11, <1>13, <1>14, <1>15, <1>16 DEF IInv, Shared

\* The codes that a thread would be about.
About(r) == IF r.at \in {"copy", "free"} THEN {r.code} ELSE IF r.at = "decode" THEN r.codes ELSE {}

\* No other thread than t is about the same.
Available(p, t, r) ==
  \A u \in Threads : u # t =>
    /\ About(r) \cap Pending(p, u) = {}
    /\ r.at \in {"copy", "free"} => p[u].at \notin {"copy", "free"}
    /\ r.at = "decode" /\ p[u].at = "decode" => p[u].tables # r.tables

\* Thread t goes on with r.
GoesOn(p, t, r, p2) ==
  /\ p2 \in [Threads -> Thread] /\ Apart(p2)
  /\ p2[t] = r /\ Pending(p2, t) = About(r)
  /\ \A u \in Threads : u # t => p2[u] = p[u] /\ Pending(p2, u) = Pending(p, u)

\* A thread that is done is about nothing.
LEMMA LeavingIsGoingOn ==
  ASSUME NEW m, NEW h, NEW p, Heap(m, h), Shared(m, h, p), NEW t \in Threads
  PROVE  GoesOn(p, t, Idle, [p EXCEPT ![t] = Idle]) /\ About(Idle) = {}
<1>1. About(Idle) = {}
  BY DEF About, Idle
<1> QED
  BY <1>1, Leaving DEF GoesOn

\* A thread goes on with something that no other thread is about.
LEMMA Entering ==
  ASSUME NEW m, NEW h, NEW p, Heap(m, h), Shared(m, h, p), NEW t \in Threads, NEW r \in Thread,
         Available(p, t, r)
  PROVE  GoesOn(p, t, r, [p EXCEPT ![t] = r])
<1> DEFINE p2 == [p EXCEPT ![t] = r]
<1>1. p \in [Threads -> Thread]
  BY DEF Shared
<1>2. p2 \in [Threads -> Thread] /\ p2[t] = r /\ \A u \in Threads : u # t => p2[u] = p[u]
  BY <1>1
<1> HIDE DEF p2
<1>3. Pending(p2, t) = About(r) /\ \A u \in Threads : u # t => Pending(p2, u) = Pending(p, u)
  BY <1>2 DEF Pending, About
<1>4. ASSUME NEW u \in Threads, NEW v \in Threads, u # v
      PROVE  /\ Pending(p2, u) \cap Pending(p2, v) = {}
         /\ ~(p2[u].at \in {"copy", "free"} /\ p2[v].at \in {"copy", "free"})
         /\ ~(p2[u].at = "decode" /\ p2[v].at = "decode" /\ p2[u].tables = p2[v].tables)
  <2>1. CASE u # t /\ v # t
    BY <1>2, <1>3, <1>4, <2>1 DEF Shared, Apart
  <2>2. CASE u = t
    BY <1>2, <1>3, <1>4, <2>2 DEF Available
  <2>3. CASE v = t
    BY <1>2, <1>3, <1>4, <2>3 DEF Available
  <2> QED
    BY <2>1, <2>2, <2>3
<1>5. Apart(p2)
  BY <1>4 DEF Apart
<1> QED
  BY <1>2, <1>3, <1>5 DEF GoesOn, p2

\* A copy is made of a code with tables, whose count is read.
LEMMA CopyPreserves ==
  ASSUME IInv, Unlocked = {}, NEW t \in Threads, NEW c \in Held("code"), CodeCopy(t, c)
  PROVE  IInv'
<1> DEFINE T == mem[c].tables
<1>1. c \in held /\ c \in Blocks /\ mem[c].kind = "code" /\ mem[c].memctl \in Allocators
  BY GivenAllocators DEF Held, IInv, Heap, Kept
<1>2. Copying(pc) = {} /\ \A u \in Threads : pc[u].at \notin {"copy", "free"}
  BY NobodyCopies DEF CodeCopy
<1>3. PICK b \in FreeBlocks :
        /\ mem' = [mem EXCEPT ![b] = [New("code", mem[c].memctl) EXCEPT !.tables = T]]
        /\ IF T = NONE THEN held' = held \cup {b} /\ pc' = pc
           ELSE /\ pc' = [pc EXCEPT ![t] = [Idle EXCEPT !.at = "copy", !.code = b, !.source = c,
                                              !.count = mem[T].ref_count]]
                /\ held' = held
  BY DEF CodeCopy
<1>4. CASE T = NONE
  <2> DEFINE plain == New("code", mem[c].memctl)
  <2>1. [plain EXCEPT !.tables = T] = plain
    <3>1. plain \in Block /\ plain.tables = NONE
      BY <1>1, NewIsBlock DEF Kinds, New
    <3> HIDE DEF plain
    <3> QED
      BY <1>4, <3>1 DEF Block
  <2> QED
    BY <1>1, <1>3, <1>4, <2>1, NewCode
<1>5. CASE T # NONE
  <2> DEFINE block == [New("code", mem[c].memctl) EXCEPT !.tables = T]
             r == [Idle EXCEPT !.at = "copy", !.code = b, !.source = c, !.count = mem[T].ref_count]
  <2>1. T \in Blocks /\ mem[T].kind = "tables" /\ mem[T].memctl = mem[c].memctl /\ mem[T].ref_count \in Nat
    BY <1>1, <1>5, TablesOfCodes DEF IInv
  <2>2. b \in Blocks /\ mem[b].kind = "free" /\ mem \in [Places -> Block]
    BY DEF FreeBlocks, FreeIn, IInv, Heap, Sound, MemoryOK
  <2>3. block \in Block /\ block.tables = T /\ block.kind = "code"
    <3>1. New("code", mem[c].memctl) \in Block
      BY <1>1, NewIsBlock DEF Kinds
    <3> QED
      BY <2>1, <3>1 DEF Block, New
  <2>4. Fresh(mem, block)
    BY <1>1, <2>1, <2>3 DEF Fresh, New, HeldKinds
  <2>5. mem' = [mem EXCEPT ![b] = block] /\ held' = held /\ pc' = [pc EXCEPT ![t] = r]
    BY <1>3, <1>5
  <2>6. r \in Thread /\ r.at = "copy" /\ r.code = b /\ r.source = c /\ r.count = mem[T].ref_count
    BY <1>1, <2>1, <2>2 DEF Thread, Idle
  <2> HIDE DEF block, r, T
  <2>7. Heap(mem', held')
    BY <2>2, <2>3, <2>4, <2>5, Allocating DEF IInv
  <2>8. mem'[b] = block /\ \A x \in Blocks : x # b => mem'[x] = mem[x]
    BY <2>2, <2>5 DEF Places
  <2>9. mem[b].tables = NONE /\ \A x \in Blocks : mem[x].tables # b
    <3>1. mem[b].tables = NONE
      BY <2>2 DEF IInv, Heap, Sound, Made, Nowhere, New
    <3> QED
      BY <2>2, <3>1, FreeIsNobodys DEF IInv, Heap
  <2>10. /\ Users(mem', T) = Users(mem, T) \cup {b}
         /\ b \notin Users(mem, T)
         /\ \A x \in Blocks : x # T => Users(mem', x) = Users(mem, x)
    BY <2>1, <2>2, <2>3, <2>8, <2>9, Constants DEF Users
  <2>11. ~Decoding(pc, T)
    BY <1>1, NotDecoded DEF IInv, T
  <2>12. \A u \in Threads : b \notin Pending(pc, u)
    BY <2>2, PendingCodes DEF IInv
  <2>13. /\ pc' \in [Threads -> Thread] /\ Apart(pc') /\ pc'[t] = r /\ Pending(pc', t) = {b}
         /\ \A u \in Threads : u # t => pc'[u] = pc[u] /\ Pending(pc', u) = Pending(pc, u)
    <3>1. About(r) = {b}
      BY <2>6 DEF About
    <3>2. Available(pc, t, r)
      BY <1>2, <2>6, <2>12, <3>1 DEF Available
    <3>3. GoesOn(pc, t, r, pc')
      BY <2>5, <2>6, <3>2, Entering DEF IInv
    <3> QED
      BY <3>1, <3>3 DEF GoesOn
  <2>14. ASSUME NEW u \in Threads
         PROVE  ThreadOK(mem', held', pc'[u])
    <3>1. CASE u = t
      <4>1. mem'[c] = mem[c] /\ mem'[T] = mem[T]
        BY <1>1, <2>1, <2>2, <2>8
      <4>2. CopyOK(mem', held', r)
        BY <1>1, <1>5, <2>2, <2>3, <2>5, <2>6, <2>8, <4>1 DEF CopyOK, T
      <4> QED
        BY <2>6, <2>13, <3>1, <4>2 DEF ThreadOK
    <3>2. CASE u # t
      <4>1. pc[u].at = "decode" =>
             /\ \A x \in Pending(pc, u) : mem'[x].executable_jit = mem[x].executable_jit
             /\ mem'[pc[u].tables] = mem[pc[u].tables]
             /\ Users(mem', pc[u].tables) = Users(mem, pc[u].tables)
        <5>1. \A x \in Pending(pc, u) : x \in Blocks /\ x # b
          BY <2>12, PendingCodes DEF IInv
        <5>2. pc[u].at = "decode" => pc[u].tables \in Blocks /\ pc[u].tables # T /\ mem[pc[u].tables].kind = "tables"
          BY <2>11, PendingCodes DEF IInv, Decoding
        <5> QED
          BY <2>2, <2>8, <2>10, <5>1, <5>2
      <4>2. ThreadOK(mem', held', pc[u])
        BY <1>2, <4>1, OthersKept DEF IInv
      <4> QED
        BY <2>13, <3>2, <4>2
    <3> QED
      BY <3>1, <3>2
  <2>15. PendingOK(mem', held', pc')
    <3>1. b \notin held
      BY <2>2 DEF IInv, Heap, Kept, HeldKinds
    <3>2. ASSUME NEW u \in Threads, NEW x \in Pending(pc', u)
          PROVE  x \in Blocks \ held' /\ mem'[x].kind = "code"
      <4>1. CASE u = t
        BY <2>2, <2>3, <2>5, <2>8, <2>13, <3>1, <3>2, <4>1
      <4>2. CASE u # t
        <5>1. x \in Blocks /\ x \notin held /\ mem[x].kind = "code"
          BY <2>13, <3>2, <4>2, PendingCodes DEF IInv
        <5> QED
          BY <2>2, <2>5, <2>8, <5>1
      <4> QED
        BY <4>1, <4>2
    <3>3. ASSUME NEW x \in Blocks \ held', mem'[x].kind = "code"
          PROVE  \E u \in Threads : x \in Pending(pc', u)
      <4>1. CASE x = b
        BY <2>13, <4>1
      <4>2. CASE x # b
        <5>1. x \in Blocks \ held /\ mem[x].kind = "code"
          BY <2>5, <2>8, <3>3, <4>2
        <5>2. PICK u \in Threads : x \in Pending(pc, u)
          BY <5>1 DEF IInv, Shared, PendingOK
        <5>3. pc[t] = Idle
          BY DEF CodeCopy
        <5>4. u # t
          BY <5>2, <5>3 DEF Pending, Idle
        <5> QED
          BY <2>13, <5>2, <5>4
      <4> QED
        BY <4>1, <4>2
    <3> QED
      BY <3>2, <3>3 DEF PendingOK
  <2>16. ASSUME NEW x \in Blocks
         PROVE  CountOK(mem', pc', x)
    <3>1. CountOK(mem, pc, x)
      BY DEF IInv, Shared
    <3>2. Copying(pc') = {b}
      BY <1>2, <2>2, <2>6, <2>13 DEF Copying
    <3>3. Decoding(pc', x) <=> Decoding(pc, x)
      <4>1. pc[t].at # "decode" /\ pc'[t].at # "decode"
        BY <2>6, <2>13 DEF CodeCopy, Idle
      <4> QED
        BY <2>13, <4>1 DEF Decoding
    <3>4. CASE x = b
      BY <2>3, <2>8, <3>4 DEF CountOK
    <3>5. CASE x # b
      <4>1. Users(mem', x) \ Copying(pc') = Users(mem, x) \ Copying(pc)
        <5>1. mem[b].tables # x
          BY <2>9, Constants
        <5>2. b \notin Users(mem, x)
          BY <5>1 DEF Users
        <5> QED
          BY <1>2, <2>10, <3>2, <5>2
      <4> QED
        BY <2>8, <3>1, <3>3, <3>5, <4>1 DEF CountOK
    <3> QED
      BY <3>4, <3>5
  <2> QED
    BY <2>7, <2>13, <2>14, <2>15, <2>16 DEF IInv, Shared
<1> QED
  BY <1>4, <1>5

\* What is pending when a thread goes on.
LEMMA PendingGoesOn ==
  ASSUME NEW m, NEW h, NEW p, Heap(m, h), Shared(m, h, p), NEW t \in Threads, NEW r, NEW p2,
         GoesOn(p, t, r, p2), NEW m2, NEW h2,
         \A x \in About(r) : x \in Blocks \ h2 /\ m2[x].kind = "code",
         \A u \in Threads : u # t => \A x \in Pending(p, u) : x \notin h2 /\ m2[x].kind = "code",
         \A x \in Blocks \ h2 : m2[x].kind = "code" =>
           x \in About(r) \/ (m[x].kind = "code" /\ x \notin h /\ x \notin Pending(p, t))
  PROVE  PendingOK(m2, h2, p2)
<1>1. ASSUME NEW u \in Threads, NEW x \in Pending(p2, u)
      PROVE  x \in Blocks \ h2 /\ m2[x].kind = "code"
  <2>1. CASE u = t
    BY <1>1, <2>1 DEF GoesOn
  <2>2. CASE u # t
    <3>1. x \in Pending(p, u)
      BY <1>1, <2>2 DEF GoesOn
    <3> QED
      BY <2>2, <3>1, PendingCodes
  <2> QED
    BY <2>1, <2>2
<1>2. ASSUME NEW x \in Blocks \ h2, m2[x].kind = "code"
      PROVE  \E u \in Threads : x \in Pending(p2, u)
  <2>1. CASE x \in About(r)
    BY <2>1 DEF GoesOn
  <2>2. CASE x \notin About(r)
    <3>1. m[x].kind = "code" /\ x \notin h /\ x \notin Pending(p, t)
      BY <1>2, <2>2
    <3>2. PICK u \in Threads : x \in Pending(p, u)
      BY <3>1 DEF Shared, PendingOK
    <3> QED
      BY <3>1, <3>2 DEF GoesOn
  <2> QED
    BY <2>1, <2>2
<1> QED
  BY <1>1, <1>2 DEF PendingOK

\* The JIT code of a code goes.
Unjitted(m, c) == [Free(m, m[c].executable_jit, m[c].memctl) EXCEPT ![c].executable_jit = NONE]

\* Giving JIT code back leaves the rest of a block as it is.
LEMMA Unjitting ==
  ASSUME NEW m, NEW h, Heap(m, h), NEW c \in Blocks, m[c].kind = "code"
  PROVE  /\ Heap(Unjitted(m, c), h)
         /\ Unjitted(m, c)[c].kind = "code" /\ Unjitted(m, c)[c].executable_jit = NONE
         /\ Unjitted(m, c)[c].tables = m[c].tables
         /\ \A x \in Blocks :
              x # c /\ (m[x].kind \in {"code", "tables"} \/ Unjitted(m, c)[x].kind \in {"code", "tables"})
              => Unjitted(m, c)[x] = m[x]
<1> DEFINE j == m[c].executable_jit
           other == [m[c] EXCEPT !.executable_jit = NONE]
           n == Unjitted(m, c)
<1>1. m \in [Places -> Block] /\ c \in Places /\ m[c] \in Block /\ RefersWell(m, c) /\ Made(m, c)
  BY DEF Heap, Sound, MemoryOK, Places
<1>2. /\ m[c].heapframes = NONE /\ CopyIn(m[c]) = NONE
      /\ j # NONE => j \in Blocks /\ m[j].kind = "jit" /\ m[j].origin = m[c].memctl /\ Owns(m, c, j)
  BY <1>1 DEF RefersWell, Refers, CopyIn, Owns, Heap, Sound, Made
<1>3. /\ other \in Block /\ Same(m[c], other) /\ other.executable_jit = NONE
      /\ other.heapframes = NONE /\ CopyIn(other) = NONE
  BY <1>1, <1>2 DEF Same, Block, CopyIn
<1>4. n = [Free(m, j, m[c].memctl) EXCEPT ![c] = [Free(m, j, m[c].memctl)[c] EXCEPT !.executable_jit = NONE]]
  BY DEF Unjitted
<1>5. other = [m[c] EXCEPT !.executable_jit = NONE] /\ j = m[c].executable_jit
  OBVIOUS
<1> HIDE DEF other, j, n
<1>6. CASE j = NONE
  <2>1. Free(m, j, m[c].memctl) = m
    BY <1>6 DEF Free
  <2>2. n = [m EXCEPT ![c] = other]
    BY <1>4, <1>5, <2>1
  <2>3. Changed(m[c], other)
    BY <1>2, <1>3, <1>5, <1>6 DEF Changed, Same
  <2>4. Heap([m EXCEPT ![c] = other], h)
    BY <2>3, Changing
  <2>5. n[c] = other /\ \A x \in Blocks : x # c => n[x] = m[x]
    BY <1>1, <2>2 DEF Places
  <2> QED
    BY <1>3, <2>2, <2>4, <2>5 DEF Same, n
<1>7. CASE j # NONE
  <2>1. j \in Blocks /\ j # c /\ m[j].kind = "jit" /\ m[j].origin = m[c].memctl
    BY <1>2, <1>7
  <2>2. n = [m EXCEPT ![j] = Nowhere, ![c] = other]
    <3>1. Free(m, j, m[c].memctl) = [m EXCEPT ![j] = Nowhere]
      BY <2>1, Constants DEF Free, Freed
    <3>2. Free(m, j, m[c].memctl)[c] = m[c]
      BY <1>1, <2>1, <3>1 DEF Places
    <3>3. n = [Free(m, j, m[c].memctl) EXCEPT ![c] = other]
      BY <1>4, <1>5, <3>2
    <3> QED
      BY <3>1, <3>3
  <2>3. Detached(m, c, other, j)
    BY <1>2, <1>3, <1>5, <1>7 DEF Detached, Same
  <2>4. Heap([m EXCEPT ![j] = Nowhere, ![c] = other], h)
    BY <1>2, <1>7, <2>1, <2>3, Detaching
  <2>5. /\ n[c] = other /\ n[j].kind = "free"
        /\ \A x \in Blocks : x \notin {c, j} => n[x] = m[x]
    BY <1>1, <2>1, <2>2 DEF Places, Nowhere, New
  <2> QED
    BY <1>3, <2>1, <2>2, <2>4, <2>5 DEF Same, n
<1> QED
  BY <1>6, <1>7

\* The JIT code of a code that is freed goes and the count is read.
LEMMA FreePreserves ==
  ASSUME IInv, Unlocked = {}, NEW t \in Threads, NEW c \in Held("code"), CodeFree(t, c)
  PROVE  IInv'
<1> DEFINE T == mem[c].tables
           r == [Idle EXCEPT !.at = "free", !.code = c,
                   !.count = IF T = NONE THEN 0 ELSE mem[T].ref_count]
<1>1. c \in held /\ c \in Blocks /\ mem[c].kind = "code"
  BY DEF Held, IInv, Heap, Kept
<1>2. Copying(pc) = {} /\ (\A u \in Threads : pc[u].at \notin {"copy", "free"}) /\ pc[t] = Idle
  BY NobodyCopies DEF CodeFree
<1>3. mem' = Unjitted(mem, c) /\ held' = held \ {c} /\ pc' = [pc EXCEPT ![t] = r]
  BY DEF CodeFree, Unjitted
<1>4. /\ Heap(mem', held)
      /\ mem'[c].kind = "code" /\ mem'[c].executable_jit = NONE /\ mem'[c].tables = T
      /\ \A x \in Blocks :
           x # c /\ (mem[x].kind \in {"code", "tables"} \/ mem'[x].kind \in {"code", "tables"}) => mem'[x] = mem[x]
  BY <1>1, <1>3, Unjitting DEF IInv
<1>5. T # NONE => T \in Blocks /\ mem[T].kind = "tables" /\ mem[T].ref_count \in Nat /\ mem'[T] = mem[T]
  BY <1>1, <1>4, TablesOfCodes DEF IInv
<1>6. /\ r \in Thread /\ r.at = "free" /\ r.code = c /\ r.source = NONE
      /\ r.count = IF T = NONE THEN 0 ELSE mem[T].ref_count
  BY <1>1, <1>5 DEF Thread, Idle
<1> HIDE DEF T, r
<1>7. Heap(mem', held')
  <2>1. held' \in SUBSET Blocks
    BY <1>3 DEF IInv, Heap, Kept
  <2> QED
    BY <1>1, <1>3, <1>4, <2>1, HoldingCodes
<1>8. \A x \in Blocks : Users(mem', x) = Users(mem, x)
  <2>1. \A x \in Blocks : mem[x].tables # NONE => mem[x].kind = "code"
    BY TablesOfCodes DEF IInv
  <2>2. \A x \in Blocks : mem'[x].tables # NONE => mem'[x].kind = "code"
    BY <1>4, TablesOfCodes
  <2>3. \A x \in Blocks : mem'[x].tables = mem[x].tables
    BY <1>4, <2>1, <2>2 DEF T
  <2> QED
    BY <2>3 DEF Users
<1>9. About(r) = {c}
  BY <1>6 DEF About
<1>10. \A u \in Threads : c \notin Pending(pc, u)
  BY <1>1, PendingCodes DEF IInv
<1>11. GoesOn(pc, t, r, pc')
  <2>1. Available(pc, t, r)
    BY <1>2, <1>6, <1>9, <1>10 DEF Available
  <2> QED
    BY <1>3, <1>6, <2>1, Entering DEF IInv
<1>12. ASSUME NEW u \in Threads
       PROVE  ThreadOK(mem', held', pc'[u])
  <2>1. CASE u = t
    <3>1. FreeOK(mem', r)
      BY <1>1, <1>4, <1>5, <1>6 DEF FreeOK
    <3> QED
      BY <1>6, <1>11, <2>1, <3>1 DEF ThreadOK, GoesOn
  <2>2. CASE u # t
    <3>1. pc[u].at = "decode" =>
           /\ \A x \in Pending(pc, u) : mem'[x].executable_jit = mem[x].executable_jit
           /\ mem'[pc[u].tables] = mem[pc[u].tables]
           /\ Users(mem', pc[u].tables) = Users(mem, pc[u].tables)
      <4>1. \A x \in Pending(pc, u) : x \in Blocks /\ x # c /\ mem[x].kind = "code"
        BY <1>10, PendingCodes DEF IInv
      <4>2. pc[u].at = "decode" => pc[u].tables \in Blocks /\ mem[pc[u].tables].kind = "tables"
        BY PendingCodes DEF IInv
      <4> QED
        BY <1>1, <1>4, <1>8, <4>1, <4>2
    <3>2. ThreadOK(mem', held', pc[u])
      BY <1>2, <3>1, OthersKept DEF IInv
    <3> QED
      BY <1>11, <2>2, <3>2 DEF GoesOn
  <2> QED
    BY <2>1, <2>2
<1>13. PendingOK(mem', held', pc')
  <2>1. \A x \in About(r) : x \in Blocks \ held' /\ mem'[x].kind = "code"
    BY <1>1, <1>3, <1>4, <1>9
  <2>2. \A u \in Threads : u # t => \A x \in Pending(pc, u) : x \notin held' /\ mem'[x].kind = "code"
    <3> SUFFICES ASSUME NEW u \in Threads, NEW x \in Pending(pc, u)
                 PROVE  x \notin held' /\ mem'[x].kind = "code"
      OBVIOUS
    <3>1. x \in Blocks /\ x \notin held /\ mem[x].kind = "code" /\ x # c
      BY <1>10, PendingCodes DEF IInv
    <3> QED
      BY <1>3, <1>4, <3>1
  <2>3. \A x \in Blocks \ held' : mem'[x].kind = "code" =>
           x \in About(r) \/ (mem[x].kind = "code" /\ x \notin held /\ x \notin Pending(pc, t))
    BY <1>2, <1>3, <1>4, <1>9 DEF Pending, Idle
  <2> QED
    BY <1>11, <2>1, <2>2, <2>3, PendingGoesOn DEF IInv
<1>14. ASSUME NEW x \in Blocks
       PROVE  CountOK(mem', pc', x)
  <2>1. CountOK(mem, pc, x)
    BY DEF IInv, Shared
  <2>2. Copying(pc') = {}
    BY <1>2, <1>6, <1>11 DEF Copying, GoesOn
  <2>3. Decoding(pc', x) <=> Decoding(pc, x)
    BY <1>2, <1>6, <1>11 DEF Decoding, GoesOn, Idle
  <2> QED
    BY <1>1, <1>2, <1>4, <1>8, <2>1, <2>2, <2>3 DEF CountOK
<1> QED
  BY <1>7, <1>11, <1>12, <1>13, <1>14 DEF IInv, Shared, GoesOn

\* A count of tables is written.
LEMMA Counting ==
  ASSUME NEW m, NEW h, Heap(m, h), NEW T \in Blocks, m[T].kind = "tables", NEW n \in Nat
  PROVE  LET m2 == [m EXCEPT ![T].ref_count = n]
         IN  /\ Heap(m2, h) /\ m2[T] \in Block /\ m2[T].kind = "tables" /\ m2[T].memctl = m[T].memctl
             /\ m2[T].ref_count = n /\ \A x \in Blocks : x # T => m2[x] = m[x]
<1> DEFINE other == [m[T] EXCEPT !.ref_count = n]
           m2 == [m EXCEPT ![T] = other]
<1>1. m \in [Places -> Block] /\ T \in Places /\ m[T] \in Block
  BY DEF Heap, Sound, MemoryOK, Places
<1>2. other \in Block /\ other.ref_count = n /\ Changed(m[T], other)
  BY <1>1 DEF Changed, Same, CopyIn, Block
<1>3. [m EXCEPT ![T].ref_count = n] = m2
  OBVIOUS
<1> HIDE DEF other
<1>4. Heap(m2, h)
  BY <1>2, Changing
<1>5. m2[T] = other /\ \A x \in Blocks : x # T => m2[x] = m[x]
  BY <1>1 DEF Places
<1> QED
  BY <1>2, <1>3, <1>4, <1>5 DEF Changed, Same

\* A code that is neither held nor has JIT code is freed, and its tables when no other code
\* has them.
LEMMA WipingCode ==
  ASSUME NEW m, NEW h, Heap(m, h), NEW c \in Blocks, m[c].kind = "code", c \notin h,
         m[c].executable_jit = NONE, NEW set,
         set = {c} \/ (m[c].tables # NONE /\ Users(m, m[c].tables) = {c} /\ set = {c, m[c].tables})
  PROVE  Heap(Without(m, set), h)
<1>1. RefersWell(m, c) /\ \A o \in Blocks : RefersWell(m, o)
  BY DEF Heap, Sound
<1>2. \A o \in Blocks : ~Owns(m, o, c) /\ ~Owns(m, c, o)
  BY <1>1, Constants DEF RefersWell, Refers, Owns
<1>3. \A o \in Blocks : m[o].tables # c
  BY <1>1, Constants DEF RefersWell, Refers
<1>4. CASE set = {c}
  BY <1>2, <1>3, <1>4, Wiping
<1>5. CASE m[c].tables # NONE /\ Users(m, m[c].tables) = {c} /\ set = {c, m[c].tables}
  <2>1. m[c].tables \in Blocks /\ m[m[c].tables].kind = "tables"
    BY <1>5, TablesOfCodes
  <2>2. \A o \in Blocks : ~Owns(m, o, m[c].tables) /\ ~Owns(m, m[c].tables, o)
    BY <1>1, <2>1, Constants DEF RefersWell, Refers, Owns
  <2>3. \A o \in Blocks : m[o].tables = m[c].tables => o = c
    BY <1>5 DEF Users
  <2>4. m[c].tables \notin h
    BY <2>1 DEF Heap, Kept, HeldKinds
  <2>5. Heap(Without(m, set), h \ set)
    BY <1>2, <1>3, <1>5, <2>1, <2>2, <2>3, Wiping
  <2>6. h \ set = h
    BY <1>5, <2>4
  <2> QED
    BY <2>5, <2>6
<1> QED
  BY <1>4, <1>5

\* What the end of pcre2_code_free() leaves.
Gone(m, h, c, n, m2) ==
  LET T == m[c].tables
  IN  /\ Heap(m2, h) /\ m2[c].kind = "free" /\ m2[c].tables = NONE
      /\ T # NONE =>
           IF n = 1 THEN m2[T].kind = "free" ELSE m2[T].kind = "tables" /\ m2[T].tables = NONE /\ m2[T].ref_count = n - 1
      /\ \A x \in Blocks : x \notin {c, T} => m2[x] = m[x]

\* It leaves just that, whatever the count was.
LEMMA Uncounting ==
  ASSUME NEW m, NEW h, Heap(m, h), NEW c \in Blocks, m[c].kind = "code", c \notin h,
         m[c].executable_jit = NONE, NEW n \in Nat,
         m[c].tables = NONE => n = 0,
         m[c].tables # NONE => n = Cardinality(Users(m, m[c].tables)) /\ n # 0
  PROVE  Gone(m, h, c, n, Free(Uncounted(m, c, n), c, m[c].memctl))
<1> USE DEF Gone
<1> DEFINE T == m[c].tables
           a == m[c].memctl
           m2 == Free(Uncounted(m, c, n), c, a)
<1>1. m \in [Places -> Block] /\ m[c].origin = a /\ a \in Allocators /\ c # NONE
  BY Constants DEF Heap, Sound, MemoryOK, Made
<1>2. CASE T = NONE
  <2>1. m2 = Without(m, {c})
    BY <1>1, <1>2, Freeing DEF Uncounted
  <2>2. Heap(m2, h)
    BY <2>1, WipingCode
  <2> QED
    BY <1>2, <2>1, <2>2 DEF Without, Places, Nowhere, New
<1>3. CASE T # NONE
  <2>1. T \in Blocks /\ m[T].kind = "tables" /\ m[T].memctl = a /\ T # c /\ m[T].origin = a
    BY <1>3, TablesOfCodes DEF Heap, Sound, Made
  <2>2. Users(m, T) \subseteq Blocks /\ c \in Users(m, T) /\ IsFiniteSet(Users(m, T))
    BY FiniteBlocks DEF Users
  <2>3. CASE n = 1
    <3>1. Users(m, T) = {c}
      <4>1. Cardinality(Users(m, T) \ {c}) = 0
        BY <1>3, <2>2, <2>3, OneLess
      <4> QED
        BY <2>2, <4>1, FiniteBlocks
    <3>2. Uncounted(m, c, n) = Free(m, T, a)
      BY <1>3, <2>3 DEF Uncounted
    <3>3. Free(m, T, a) = Without(m, {T}) /\ Without(m, {T}) \in [Places -> Block]
      BY <1>1, <2>1, Freeing
    <3>4. Without(m, {T})[c] = m[c]
      BY <2>1 DEF Without, Places
    <3>5. m2 = Without(Without(m, {T}), {c})
      <4> DEFINE m1 == Without(m, {T})
      <4>1. m1 \in [Places -> Block] /\ m1[c].kind # "free" /\ m1[c].origin = a
        BY <1>1, <3>3, <3>4
      <4>2. m2 = Free(m1, c, a)
        BY <3>2, <3>3
      <4> HIDE DEF m1, m2
      <4>3. m2 = Without(m1, {c})
        BY <4>1, <4>2, Freeing
      <4> QED
        BY <4>3 DEF m1
    <3>6. m2 = Without(m, {c, T})
      <4>1. {T} \cup {c} = {c, T}
        OBVIOUS
      <4> QED
        BY <1>1, <3>5, <4>1, WithoutBoth
    <3>7. Heap(m2, h)
      BY <1>3, <3>1, <3>6, WipingCode
    <3> QED
      BY <1>3, <2>1, <2>3, <3>6, <3>7 DEF Without, Places, Nowhere, New
  <2>4. CASE n # 1
    <3> DEFINE m1 == [m EXCEPT ![T].ref_count = n - 1]
    <3>1. Uncounted(m, c, n) = m1
      BY <1>3, <2>4 DEF Uncounted
    <3>2. n - 1 \in Nat
      BY <1>3
    <3>3. /\ Heap(m1, h) /\ m1[T] \in Block /\ m1[T].kind = "tables" /\ m1[T].ref_count = n - 1
          /\ \A x \in Blocks : x # T => m1[x] = m[x]
      BY <2>1, <3>2, Counting
    <3> HIDE DEF m1
    <3>4. m1 \in [Places -> Block] /\ m1[c] = m[c]
      BY <2>1, <3>3 DEF Heap, Sound, MemoryOK
    <3>5. m2 = Without(m1, {c})
      BY <1>1, <3>1, <3>4, Freeing
    <3>6. Heap(m2, h)
      BY <3>3, <3>4, <3>5, WipingCode
    <3>7. m1[T].tables = NONE
      BY <2>1, <3>3 DEF Heap, Sound, RefersWell, Refers
    <3>8. \A x \in Blocks : m2[x] = IF x = c THEN Nowhere ELSE m1[x]
      BY <3>5 DEF Without, Places
    <3> QED
      BY <2>1, <2>4, <3>3, <3>6, <3>7, <3>8 DEF Nowhere, New
  <2> QED
    BY <2>3, <2>4
<1> QED
  BY <1>2, <1>3

\* The count of the tables of a code that is freed is written, or the tables go too.
LEMMA FreeDonePreserves ==
  ASSUME IInv, NEW t \in Threads, CodeFreeDone(t)
  PROVE  IInv'
<1> DEFINE c == pc[t].code
           T == mem[c].tables
           n == pc[t].count
<1>1. pc[t].at = "free" /\ held' = held /\ pc' = [pc EXCEPT ![t] = Idle]
      /\ mem' = Free(Uncounted(mem, c, n), c, mem[c].memctl)
  BY DEF CodeFreeDone
<1>2. /\ c \in Blocks /\ c \notin held /\ mem[c].kind = "code"
      /\ \A u \in Threads : u # t => pc[u].at \notin {"copy", "free"} /\ pc[u].source = NONE /\ c \notin Pending(pc, u)
      /\ Copying(pc) = {}
  BY <1>1, OneThread DEF IInv
<1>3. mem[c].executable_jit = NONE /\ n = (IF T = NONE THEN 0 ELSE mem[T].ref_count)
  BY <1>1 DEF IInv, Shared, ThreadOK, FreeOK
<1>4. T # NONE => T \in Blocks /\ mem[T].kind = "tables" /\ n \in Nat /\ mem[T].tables = NONE
  <2>1. T # NONE => T \in Blocks /\ mem[T].kind = "tables" /\ n \in Nat
    BY <1>2, <1>3, TablesOfCodes DEF IInv
  <2> QED
    BY <2>1 DEF IInv, Heap, Sound, RefersWell, Refers
<1>5. ~Decoding(pc, T)
  BY <1>1, <1>2, NotDecoded DEF IInv
<1>6. T # NONE => n = Cardinality(Users(mem, T)) /\ n # 0
  <2>1. T # NONE => CountOK(mem, pc, T)
    BY <1>4 DEF IInv, Shared
  <2>2. Users(mem, T) \ Copying(pc) = Users(mem, T)
    BY <1>2
  <2> QED
    BY <1>3, <1>4, <1>5, <2>1, <2>2 DEF CountOK
<1>7. n \in Nat
  BY <1>3, <1>4
<1> HIDE DEF c, T, n
<1>8. /\ Heap(mem', held) /\ mem'[c].kind = "free" /\ mem'[c].tables = NONE
      /\ T # NONE => IF n = 1 THEN mem'[T].kind = "free"
                     ELSE mem'[T].kind = "tables" /\ mem'[T].tables = NONE /\ mem'[T].ref_count = n - 1
      /\ \A x \in Blocks : x \notin {c, T} => mem'[x] = mem[x]
  <2>1. mem[c].tables = NONE => n = 0
    BY <1>3 DEF T
  <2>2. mem[c].tables # NONE => n = Cardinality(Users(mem, mem[c].tables)) /\ n # 0
    BY <1>6 DEF T
  <2>3. Gone(mem, held, c, n, mem')
    BY <1>1, <1>2, <1>3, <1>7, <2>1, <2>2, Uncounting DEF IInv
  <2> QED
    BY <2>3 DEF Gone, T
<1>9. T # NONE => mem'[T].tables = NONE
  <2>1. T # NONE /\ mem'[T].kind = "free" => mem'[T] = Nowhere
    BY <1>4, <1>8 DEF Heap, Sound, Made
  <2> QED
    BY <1>8, <2>1 DEF Nowhere, New
<1>10. \A x \in Blocks : Users(mem', x) = Users(mem, x) \ {c}
  <2>1. ASSUME NEW x \in Blocks, x # c
        PROVE  mem'[x].tables = mem[x].tables
    <3>1. CASE x = T
      BY <1>4, <1>9, <3>1, Constants
    <3>2. CASE x # T
      BY <1>8, <2>1, <3>2
    <3> QED
      BY <3>1, <3>2
  <2> QED
    BY <1>8, <2>1, Constants DEF Users
<1>11. \A x \in Blocks : x # T => c \notin Users(mem, x)
  BY DEF Users, T
<1>12. GoesOn(pc, t, Idle, pc') /\ pc'[t] = Idle /\ About(Idle) = {}
  <2>1. GoesOn(pc, t, Idle, pc') /\ About(Idle) = {}
    BY <1>1, LeavingIsGoingOn DEF IInv
  <2> QED
    BY <2>1 DEF GoesOn
<1>13. ASSUME NEW u \in Threads
       PROVE  ThreadOK(mem', held', pc'[u])
  <2>1. CASE u = t
    BY <1>12, <2>1 DEF ThreadOK, Idle
  <2>2. CASE u # t
    <3>1. pc[u].at = "decode" =>
           /\ \A x \in Pending(pc, u) : mem'[x].executable_jit = mem[x].executable_jit
           /\ mem'[pc[u].tables] = mem[pc[u].tables]
           /\ Users(mem', pc[u].tables) = Users(mem, pc[u].tables)
      <4>1. \A x \in Pending(pc, u) : x \in Blocks /\ x \notin {c, T}
        BY <1>2, <1>4, <2>2, PendingCodes, Constants DEF IInv
      <4>2. pc[u].at = "decode" => pc[u].tables \in Blocks /\ pc[u].tables \notin {c, T}
        BY <1>2, <1>5, PendingCodes DEF IInv, Decoding
      <4> QED
        BY <1>8, <1>10, <1>11, <4>1, <4>2
    <3>2. ThreadOK(mem', held', pc[u])
      BY <1>2, <2>2, <3>1, OthersKept DEF IInv
    <3> QED
      BY <1>12, <2>2, <3>2 DEF GoesOn
  <2> QED
    BY <2>1, <2>2
<1>14. PendingOK(mem', held', pc')
  <2>1. \A u \in Threads : u # t => \A x \in Pending(pc, u) : x \notin held' /\ mem'[x].kind = "code"
    <3> SUFFICES ASSUME NEW u \in Threads, u # t, NEW x \in Pending(pc, u)
                 PROVE  x \notin held' /\ mem'[x].kind = "code"
      OBVIOUS
    <3>1. x \in Blocks /\ x \notin held /\ mem[x].kind = "code" /\ x # c
      BY <1>2, PendingCodes DEF IInv
    <3>2. x # T
      BY <1>4, <3>1, Constants
    <3> QED
      BY <1>1, <1>8, <3>1, <3>2
  <2>2. \A x \in Blocks \ held' : mem'[x].kind = "code" =>
           x \in About(Idle) \/ (mem[x].kind = "code" /\ x \notin held /\ x \notin Pending(pc, t))
    <3> SUFFICES ASSUME NEW x \in Blocks \ held', mem'[x].kind = "code"
                 PROVE  mem[x].kind = "code" /\ x \notin held /\ x \notin Pending(pc, t)
      OBVIOUS
    <3>1. x # c
      BY <1>8
    <3>2. x # T
      BY <1>4, <1>8, Constants
    <3> QED
      BY <1>1, <1>8, <3>1, <3>2 DEF Pending, c
  <2> QED
    BY <1>12, <2>1, <2>2, PendingGoesOn DEF IInv
<1>15. ASSUME NEW x \in Blocks
       PROVE  CountOK(mem', pc', x)
  <2>1. CountOK(mem, pc, x)
    BY DEF IInv, Shared
  <2>2. Copying(pc') = {}
    BY <1>2, <1>12 DEF Copying, GoesOn, Idle
  <2>3. Decoding(pc', x) <=> Decoding(pc, x)
    BY <1>1, <1>12 DEF Decoding, GoesOn, Idle
  <2>4. CASE x = c
    BY <1>8, <2>4 DEF CountOK
  <2>5. CASE x = T
    <3>1. c \in Users(mem, T) /\ Users(mem, T) \subseteq Blocks
      BY <1>2 DEF Users, T
    <3>2. T # NONE
      BY <2>5, Constants
    <3>3. Cardinality(Users(mem', x)) = n - 1
      BY <1>6, <1>10, <2>5, <3>1, <3>2, OneLess
    <3>4. Users(mem', x) \ Copying(pc') = Users(mem', x)
      BY <2>2
    <3>5. n # 1 => mem'[T].ref_count = n - 1 /\ n - 1 # 0
      BY <1>6, <1>7, <1>8, <3>2
    <3>6. n = 1 => mem'[T].kind # "tables"
      BY <1>8, <3>2
    <3> QED
      BY <2>5, <3>3, <3>4, <3>5, <3>6 DEF CountOK
  <2>6. CASE x \notin {c, T}
    <3>1. Users(mem', x) \ Copying(pc') = Users(mem, x) \ Copying(pc)
      BY <1>2, <1>10, <1>11, <2>2, <2>6
    <3> QED
      BY <1>8, <2>1, <2>3, <2>6, <3>1 DEF CountOK
  <2> QED
    BY <2>4, <2>5, <2>6
<1> QED
  BY <1>1, <1>8, <1>12, <1>13, <1>14, <1>15 DEF IInv, Shared, GoesOn

\* A code gets JIT code.
LEMMA JitPreserves ==
  ASSUME IInv, NEW c \in Held("code"), JitCompile(c)
  PROVE  IInv'
<1>1. c \in held /\ c \in Blocks /\ mem[c].kind = "code" /\ mem[c].memctl \in Allocators
      /\ mem[c].executable_jit = NONE /\ mem \in [Places -> Block] /\ c \in Places /\ mem[c] \in Block
  BY GivenAllocators DEF Held, JitCompile, IInv, Heap, Kept, Sound, MemoryOK, Places
<1>2. PICK b \in FreeBlocks :
        mem' = [mem EXCEPT ![b] = New("jit", mem[c].memctl), ![c].executable_jit = b]
  BY DEF JitCompile
<1>3. b \in Blocks /\ b \in Places /\ mem[b].kind = "free" /\ b # c
  BY <1>1 DEF FreeBlocks, FreeIn, Places
<1> DEFINE other == [mem[c] EXCEPT !.executable_jit = b]
<1>4. mem' = [mem EXCEPT ![b] = New("jit", mem[c].memctl), ![c] = other]
  BY <1>1, <1>2, <1>3
<1>5. other \in Block /\ Attached(mem[c], other, b, "jit")
  BY <1>1, <1>3 DEF Attached, Same, Block
<1> HIDE DEF other
<1>6. Heap(mem', held)
  BY <1>1, <1>3, <1>4, <1>5, Attaching DEF IInv, OwnedKinds
<1>7. /\ \A x \in Blocks : x \notin {b, c} => mem'[x] = mem[x]
      /\ mem'[c].kind = "code" /\ mem'[c].tables = mem[c].tables
      /\ mem'[b].kind = "jit" /\ mem'[b].tables = NONE
  <2>1. other.kind = "code" /\ other.tables = mem[c].tables
    BY <1>1, <1>5 DEF Attached, Same
  <2> QED
    BY <1>1, <1>3, <1>4, <2>1 DEF New, Places
<1>8. mem[b].tables = NONE
  BY <1>3 DEF IInv, Heap, Sound, Made, Nowhere, New
<1>9. \A x \in Blocks : Users(mem', x) = Users(mem, x)
  <2>1. \A x \in Blocks : mem'[x].tables = mem[x].tables
    BY <1>7, <1>8
  <2> QED
    BY <2>1 DEF Users
<1>10. pc' = pc /\ held' = held
  BY DEF JitCompile
<1>11. ASSUME NEW t \in Threads
       PROVE  ThreadOK(mem', held', pc[t])
  <2>1. \A x \in Pending(pc, t) : /\ mem'[x] = mem[x]
                                  /\ mem[x].tables # NONE => mem'[mem[x].tables] = mem[mem[x].tables]
    <3> SUFFICES ASSUME NEW x \in Pending(pc, t)
                 PROVE  /\ mem'[x] = mem[x]
                        /\ mem[x].tables # NONE => mem'[mem[x].tables] = mem[mem[x].tables]
      OBVIOUS
    <3>1. x \in Blocks /\ x \notin held /\ mem[x].kind = "code"
      BY PendingCodes DEF IInv
    <3>2. mem[x].tables # NONE => mem[x].tables \in Blocks /\ mem[mem[x].tables].kind = "tables"
      BY <3>1, TablesOfCodes DEF IInv
    <3> QED
      BY <1>1, <1>3, <1>7, <3>1, <3>2
  <2>2. pc[t].source # NONE => /\ pc[t].source \in held' /\ mem'[pc[t].source].kind = "code"
                               /\ mem'[pc[t].source].tables = mem[pc[t].source].tables
    <3>1. pc[t].source # NONE =>
            pc[t].source \in held /\ pc[t].source \in Blocks /\ mem[pc[t].source].kind = "code"
      BY PendingCodes DEF IInv
    <3> QED
      BY <1>3, <1>7, <1>10, <3>1
  <2>3. pc[t].at = "decode" => /\ mem'[pc[t].tables] = mem[pc[t].tables]
                               /\ Users(mem', pc[t].tables) = Users(mem, pc[t].tables)
    <3>1. pc[t].at = "decode" => pc[t].tables \in Blocks /\ mem[pc[t].tables].kind = "tables"
      BY PendingCodes DEF IInv
    <3> QED
      BY <1>1, <1>3, <1>7, <1>9, <3>1
  <2>4. KeepsThread(mem, pc, t, mem', held')
    BY <2>1, <2>2, <2>3 DEF KeepsThread
  <2> QED
    BY <2>4, ThreadKept DEF IInv
<1>12. PendingOK(mem', held', pc')
  <2>1. \A x \in Blocks : mem'[x].kind = "code" <=> mem[x].kind = "code"
    BY <1>1, <1>3, <1>7
  <2>2. PendingOK(mem, held, pc) /\ \A t \in Threads : \A x \in Pending(pc, t) : x \in Blocks
    BY PendingCodes DEF IInv, Shared
  <2> QED
    BY <1>10, <2>1, <2>2 DEF PendingOK
<1>13. ASSUME NEW x \in Blocks
       PROVE  CountOK(mem', pc', x)
  <2>1. CountOK(mem, pc, x)
    BY DEF IInv, Shared
  <2>2. mem'[x].kind = "tables" => mem'[x] = mem[x]
    BY <1>7
  <2> QED
    BY <1>9, <1>10, <2>1, <2>2 DEF CountOK
<1> QED
  BY <1>6, <1>10, <1>11, <1>12, <1>13 DEF IInv, Shared

\* A copy of a code with tables of its own.
LEMMA CopyWithTablesPreserves ==
  ASSUME IInv, NEW c \in Held("code"), CodeCopyWithTables(c)
  PROVE  IInv'
<1>1. c \in Blocks /\ mem[c].memctl \in Allocators /\ mem \in [Places -> Block]
  BY GivenAllocators DEF Held, IInv, Heap, Kept, Sound, MemoryOK
<1> DEFINE a == mem[c].memctl
<1>2. PICK b \in FreeBlocks, d \in FreeBlocks :
        /\ b # d
        /\ mem' = [mem EXCEPT ![b] = [New("code", a) EXCEPT !.tables = d],
                              ![d] = [New("tables", a) EXCEPT !.ref_count = 1]]
        /\ held' = held \cup {b} /\ pc' = pc
  BY DEF CodeCopyWithTables
<1> DEFINE code == [New("code", a) EXCEPT !.tables = d]
           tables == [New("tables", a) EXCEPT !.ref_count = 1]
           m1 == [mem EXCEPT ![d] = tables]
<1>3. b \in Blocks /\ d \in Blocks /\ mem[b].kind = "free" /\ mem[d].kind = "free" /\ b \in Places /\ d \in Places
  BY DEF FreeBlocks, FreeIn, Places
<1>4. New("code", a) \in Block /\ New("tables", a) \in Block
  BY <1>1, NewIsBlock DEF Kinds
<1>5. /\ tables \in Block /\ tables.kind = "tables" /\ tables.memctl = a /\ tables.ref_count = 1 /\ tables.tables = NONE
      /\ Fresh(mem, tables)
  BY <1>1, <1>4 DEF Fresh, New, Block, HeldKinds
<1>6. m1[d] = tables /\ \A x \in Blocks : x # d => m1[x] = mem[x]
  BY <1>1, <1>3 DEF Places
<1>7. /\ code \in Block /\ code.kind = "code" /\ code.tables = d
      /\ Fresh(m1, code)
  BY <1>1, <1>3, <1>4, <1>5, <1>6 DEF Fresh, New, Block, HeldKinds
<1>8. mem' = [m1 EXCEPT ![b] = code]
  BY <1>1, <1>2, <1>3
<1> HIDE DEF code, tables, m1, a
<1>9. Heap(m1, held)
  <2>1. Heap([mem EXCEPT ![d] = tables], held)
    BY <1>3, <1>5, Allocating DEF IInv
  <2> QED
    BY <2>1 DEF m1
<1>10. Heap(mem', held')
  <2>1. m1[b].kind = "free"
    BY <1>2, <1>3, <1>6
  <2>2. Heap([m1 EXCEPT ![b] = code], held \cup {b})
    BY <1>3, <1>7, <1>9, <2>1, Allocating
  <2> QED
    BY <1>2, <1>8, <2>2
<1>11. mem'[b] = code /\ mem'[d] = tables /\ \A x \in Blocks : x \notin {b, d} => mem'[x] = mem[x]
  <2>1. m1 \in [Places -> Block]
    BY <1>9 DEF Heap, Sound, MemoryOK
  <2>2. mem'[b] = code /\ \A x \in Blocks : x # b => mem'[x] = m1[x]
    BY <1>3, <1>8, <2>1 DEF Places
  <2> QED
    BY <1>2, <1>3, <1>6, <2>2
<1>12. mem[b].tables = NONE /\ mem[d].tables = NONE /\ \A x \in Blocks : mem[x].tables \notin {b, d}
  <2>1. mem[b].tables = NONE /\ mem[d].tables = NONE
    BY <1>3 DEF IInv, Heap, Sound, Made, Nowhere, New
  <2> QED
    BY <1>3, <2>1, FreeIsNobodys DEF IInv, Heap
<1>13. Users(mem', d) = {b} /\ \A x \in Blocks : x # d => Users(mem', x) = Users(mem, x)
  <2>1. mem'[b].tables = d /\ mem'[d].tables = NONE
    BY <1>5, <1>7, <1>11
  <2>2. \A x \in Blocks : x \notin {b, d} => mem'[x].tables = mem[x].tables
    BY <1>11
  <2>3. Users(mem', d) = {b}
    BY <1>3, <1>12, <2>1, <2>2, Constants DEF Users
  <2>4. ASSUME NEW x \in Blocks, x # d
        PROVE  Users(mem', x) = Users(mem, x)
    BY <1>12, <2>1, <2>2, <2>4, Constants DEF Users
  <2> QED
    BY <2>3, <2>4
<1>14. ASSUME NEW t \in Threads
       PROVE  ThreadOK(mem', held', pc[t])
  <2>1. \A x \in Pending(pc, t) : /\ mem'[x] = mem[x]
                                  /\ mem[x].tables # NONE => mem'[mem[x].tables] = mem[mem[x].tables]
    <3> SUFFICES ASSUME NEW x \in Pending(pc, t)
                 PROVE  /\ mem'[x] = mem[x]
                        /\ mem[x].tables # NONE => mem'[mem[x].tables] = mem[mem[x].tables]
      OBVIOUS
    <3>1. x \in Blocks /\ mem[x].kind = "code"
      BY PendingCodes DEF IInv
    <3>2. mem[x].tables # NONE => mem[x].tables \in Blocks /\ mem[mem[x].tables].kind = "tables"
      BY <3>1, TablesOfCodes DEF IInv
    <3> QED
      BY <1>3, <1>11, <3>1, <3>2
  <2>2. pc[t].source # NONE => /\ pc[t].source \in held' /\ mem'[pc[t].source].kind = "code"
                               /\ mem'[pc[t].source].tables = mem[pc[t].source].tables
    <3>1. pc[t].source # NONE =>
            pc[t].source \in held /\ pc[t].source \in Blocks /\ mem[pc[t].source].kind = "code"
      BY PendingCodes DEF IInv
    <3> QED
      BY <1>2, <1>3, <1>11, <3>1
  <2>3. pc[t].at = "decode" => /\ mem'[pc[t].tables] = mem[pc[t].tables]
                               /\ Users(mem', pc[t].tables) = Users(mem, pc[t].tables)
    <3>1. pc[t].at = "decode" => pc[t].tables \in Blocks /\ mem[pc[t].tables].kind = "tables"
      BY PendingCodes DEF IInv
    <3> QED
      BY <1>3, <1>11, <1>13, <3>1
  <2>4. KeepsThread(mem, pc, t, mem', held')
    BY <2>1, <2>2, <2>3 DEF KeepsThread
  <2> QED
    BY <2>4, ThreadKept DEF IInv
<1>15. PendingOK(mem', held', pc')
  <2>1. \A x \in Blocks : x # b => (mem'[x].kind = "code" <=> mem[x].kind = "code")
    BY <1>3, <1>5, <1>11
  <2>2. PendingOK(mem, held, pc) /\ \A t \in Threads : \A x \in Pending(pc, t) : x \in Blocks /\ x # b
    BY <1>3, PendingCodes DEF IInv, Shared
  <2> QED
    BY <1>2, <2>1, <2>2 DEF PendingOK
<1>16. ASSUME NEW x \in Blocks
       PROVE  CountOK(mem', pc', x)
  <2>1. CASE x = b
    BY <1>7, <1>11, <2>1 DEF CountOK
  <2>2. CASE x = d
    <3>1. b \notin Copying(pc)
      <4>1. \A t \in Threads : b \notin Pending(pc, t)
        BY <1>3, PendingCodes DEF IInv
      <4> QED
        BY <4>1 DEF Copying, Pending
    <3>2. Users(mem', x) \ Copying(pc') = {b}
      BY <1>2, <1>13, <2>2, <3>1
    <3>3. Cardinality({b}) = 1
      BY FS_Singleton
    <3> QED
      BY <1>5, <1>11, <2>2, <3>2, <3>3 DEF CountOK
  <2>3. CASE x \notin {b, d}
    <3>1. CountOK(mem, pc, x)
      BY DEF IInv, Shared
    <3> QED
      BY <1>2, <1>11, <1>13, <2>3, <3>1 DEF CountOK
  <2> QED
    BY <2>1, <2>2, <2>3
<1> QED
  BY <1>2, <1>10, <1>14, <1>15, <1>16 DEF IInv, Shared

-----------------------------------------------------------------------------
(* Serialization. *)

\* A stream has as many codes as it is made of, and at least one.
LEMMA EncodePreserves ==
  ASSUME IInv, NEW a \in Given, NEW cs \in SUBSET Held("code"), Encode(a, cs)
  PROVE  IInv'
<1> DEFINE block == [New("stream", a) EXCEPT !.ref_count = Cardinality(cs)]
<1>1. PICK b \in FreeBlocks : mem' = [mem EXCEPT ![b] = block] /\ held' = held \cup {b}
  BY DEF Encode
<1>2. b \in Blocks /\ mem[b].kind = "free"
  BY DEF FreeBlocks, FreeIn
<1>3. a \in Allocators
  BY GivenAllocators
<1>4. Cardinality(cs) \in Nat /\ Cardinality(cs) # 0
  <2>1. cs \subseteq Blocks /\ cs # {}
    BY DEF Held, IInv, Heap, Kept, Encode
  <2> QED
    BY <2>1, FiniteBlocks
<1>5. New("stream", a) \in Block
  BY <1>3, NewIsBlock DEF Kinds
<1>6. Fresh(mem, block) /\ block.kind = "stream"
  BY <1>3, <1>4, <1>5 DEF Fresh, New, Block, HeldKinds
<1> HIDE DEF block
<1> QED
  BY <1>1, <1>2, <1>6, MakePreserves DEF Encode

\* Blocks that are used for the first time change nothing that threads are about.
LEMMA ThreadsApart ==
  ASSUME IInv, NEW b \in Blocks, mem[b].kind = "free", NEW t \in Threads,
         \A x \in Blocks : x # b => mem'[x] = mem[x],
         pc[t].at = "decode" => Users(mem', pc[t].tables) = Users(mem, pc[t].tables),
         held' = held
  PROVE  ThreadOK(mem', held', pc[t])
<1>1. \A x \in Pending(pc, t) : /\ mem'[x] = mem[x]
                                /\ mem[x].tables # NONE => mem'[mem[x].tables] = mem[mem[x].tables]
  <2> SUFFICES ASSUME NEW x \in Pending(pc, t)
               PROVE  /\ mem'[x] = mem[x]
                      /\ mem[x].tables # NONE => mem'[mem[x].tables] = mem[mem[x].tables]
    OBVIOUS
  <2>1. x \in Blocks /\ mem[x].kind = "code"
    BY PendingCodes DEF IInv
  <2>2. mem[x].tables # NONE => mem[x].tables \in Blocks /\ mem[mem[x].tables].kind = "tables"
    BY <2>1, TablesOfCodes DEF IInv
  <2> QED
    BY <2>1, <2>2
<1>2. pc[t].source # NONE => /\ pc[t].source \in held' /\ mem'[pc[t].source].kind = "code"
                             /\ mem'[pc[t].source].tables = mem[pc[t].source].tables
  <2>1. pc[t].source # NONE =>
          pc[t].source \in held /\ pc[t].source \in Blocks /\ mem[pc[t].source].kind = "code"
    BY PendingCodes DEF IInv
  <2> QED
    BY <2>1
<1>3. pc[t].at = "decode" => /\ mem'[pc[t].tables] = mem[pc[t].tables]
                             /\ Users(mem', pc[t].tables) = Users(mem, pc[t].tables)
  <2>1. pc[t].at = "decode" => pc[t].tables \in Blocks /\ mem[pc[t].tables].kind = "tables"
    BY PendingCodes DEF IInv
  <2> QED
    BY <2>1
<1>4. KeepsThread(mem, pc, t, mem', held')
  BY <1>1, <1>2, <1>3 DEF KeepsThread
<1> QED
  BY <1>4, ThreadKept DEF IInv

\* Tables are made for the codes to come.
LEMMA DecodePreserves ==
  ASSUME IInv, NEW t \in Threads, NEW a \in Given, NEW s \in Held("stream"), NEW k \in 1 .. MaxStream,
         Decode(t, a, s, k)
  PROVE  IInv'
<1> DEFINE n == IF k > mem[s].ref_count THEN mem[s].ref_count ELSE k
           block == [New("tables", a) EXCEPT !.ref_count = n]
<1>1. PICK b \in FreeBlocks :
        /\ mem' = [mem EXCEPT ![b] = block]
        /\ pc' = [pc EXCEPT ![t] = [Idle EXCEPT !.at = "decode", !.alloc = a, !.tables = b, !.wanted = n]]
  BY DEF Decode
<1> DEFINE r == [Idle EXCEPT !.at = "decode", !.alloc = a, !.tables = b, !.wanted = n]
<1>2. b \in Blocks /\ b \in Places /\ mem[b].kind = "free" /\ mem \in [Places -> Block] /\ pc[t] = Idle /\ held' = held
  BY DEF FreeBlocks, FreeIn, Places, IInv, Heap, Sound, MemoryOK, Decode
<1>3. a \in Allocators
  BY GivenAllocators
<1>4. n \in Nat /\ n # 0
  <2>1. s \in held /\ s \in Places /\ mem[s].kind = "stream"
    BY DEF Held, IInv, Heap, Kept, Places
  <2>2. mem[s].ref_count \in Nat
    BY <1>2, <2>1 DEF Block
  <2>3. mem[s].ref_count # 0
    BY <2>1 DEF IInv, Heap, Truthful
  <2>4. k \in Nat /\ k # 0
    BY LifetimesAssumption
  <2> QED
    BY <2>2, <2>3, <2>4
<1> HIDE DEF n
<1>5. New("tables", a) \in Block
  BY <1>3, NewIsBlock DEF Kinds
<1>6. /\ Fresh(mem, block) /\ block.kind = "tables" /\ block.tables = NONE
      /\ block.memctl = a /\ block.ref_count = n
  BY <1>3, <1>4, <1>5 DEF Fresh, New, Block, HeldKinds
<1>7. /\ r \in Thread /\ r.at = "decode" /\ r.tables = b /\ r.alloc = a /\ r.wanted = n
      /\ r.codes = {} /\ r.source = NONE
  BY <1>2, <1>3, <1>4 DEF Thread, Idle
<1>8. pc' = [pc EXCEPT ![t] = r]
  BY <1>1
<1> HIDE DEF block, r
<1>9. Heap(mem', held')
  <2>1. Heap([mem EXCEPT ![b] = block], held)
    BY <1>2, <1>6, Allocating DEF IInv
  <2> QED
    BY <1>1, <1>2, <2>1
<1>10. mem'[b] = block /\ \A x \in Blocks : x # b => mem'[x] = mem[x]
  BY <1>1, <1>2 DEF Places
<1>11. mem[b].tables = NONE /\ \A x \in Blocks : mem[x].tables # b
  <2>1. mem[b].tables = NONE
    BY <1>2 DEF IInv, Heap, Sound, Made, Nowhere, New
  <2> QED
    BY <1>2, <2>1, FreeIsNobodys DEF IInv, Heap
<1>12. Users(mem', b) = {} /\ \A x \in Blocks : Users(mem', x) = Users(mem, x)
  <2>1. \A x \in Blocks : mem'[x].tables = mem[x].tables
    BY <1>6, <1>10, <1>11
  <2> QED
    BY <1>11, <2>1 DEF Users
<1>13. GoesOn(pc, t, r, pc') /\ About(r) = {}
  <2>1. About(r) = {}
    BY <1>7 DEF About
  <2>2. \A u \in Threads : pc[u].at = "decode" => pc[u].tables # b
    BY <1>2, PendingCodes DEF IInv
  <2>3. Available(pc, t, r)
    BY <1>7, <2>1, <2>2 DEF Available
  <2> QED
    BY <1>7, <1>8, <2>1, <2>3, Entering DEF IInv
<1>14. ASSUME NEW u \in Threads
       PROVE  ThreadOK(mem', held', pc'[u])
  <2>1. CASE u = t
    <3>1. Cardinality({}) = 0
      BY FS_EmptySet
    <3>2. DecodeOK(mem', r)
      BY <1>2, <1>4, <1>6, <1>7, <1>10, <1>12, <3>1 DEF DecodeOK
    <3> QED
      BY <1>7, <1>13, <2>1, <3>2 DEF ThreadOK, GoesOn
  <2>2. CASE u # t
    <3>1. pc[u].at = "decode" => Users(mem', pc[u].tables) = Users(mem, pc[u].tables)
      BY <1>12, PendingCodes DEF IInv
    <3>2. ThreadOK(mem', held', pc[u])
      BY <1>2, <1>10, <3>1, ThreadsApart
    <3> QED
      BY <1>13, <2>2, <3>2 DEF GoesOn
  <2> QED
    BY <2>1, <2>2
<1>15. PendingOK(mem', held', pc')
  <2>1. \A u \in Threads : u # t => \A x \in Pending(pc, u) : x \notin held' /\ mem'[x].kind = "code"
    <3> SUFFICES ASSUME NEW u \in Threads, NEW x \in Pending(pc, u)
                 PROVE  x \notin held' /\ mem'[x].kind = "code"
      OBVIOUS
    <3>1. x \in Blocks /\ x \notin held /\ mem[x].kind = "code"
      BY PendingCodes DEF IInv
    <3> QED
      BY <1>2, <1>10, <3>1
  <2>2. \A x \in Blocks \ held' : mem'[x].kind = "code" =>
           x \in About(r) \/ (mem[x].kind = "code" /\ x \notin held /\ x \notin Pending(pc, t))
    BY <1>2, <1>6, <1>10 DEF Pending, Idle
  <2> QED
    BY <1>13, <2>1, <2>2, PendingGoesOn DEF IInv
<1>16. ASSUME NEW x \in Blocks
       PROVE  CountOK(mem', pc', x)
  <2>1. CASE x = b
    BY <1>7, <1>13, <2>1 DEF CountOK, Decoding, GoesOn
  <2>2. CASE x # b
    <3>1. CountOK(mem, pc, x)
      BY DEF IInv, Shared
    <3>2. Copying(pc') = Copying(pc)
      BY <1>2, <1>7, <1>13 DEF Copying, GoesOn, Idle
    <3>3. Decoding(pc', x) <=> Decoding(pc, x)
      BY <1>2, <1>7, <1>13, <2>2 DEF Decoding, GoesOn, Idle
    <3> QED
      BY <1>10, <1>12, <2>2, <3>1, <3>2, <3>3 DEF CountOK
  <2> QED
    BY <2>1, <2>2
<1> QED
  BY <1>9, <1>13, <1>14, <1>15, <1>16 DEF IInv, Shared, GoesOn

\* A code is made from the stream.
LEMMA DecodeCodePreserves ==
  ASSUME IInv, NEW t \in Threads, DecodeCode(t)
  PROVE  IInv'
<1> DEFINE T == pc[t].tables
           a == pc[t].alloc
           block == [New("code", a) EXCEPT !.tables = T]
<1>1. PICK b \in FreeBlocks : mem' = [mem EXCEPT ![b] = block] /\ pc' = [pc EXCEPT ![t].codes = @ \cup {b}]
  BY DEF DecodeCode
<1> DEFINE r == [pc[t] EXCEPT !.codes = @ \cup {b}]
<1>2. /\ b \in Blocks /\ b \in Places /\ mem[b].kind = "free" /\ mem \in [Places -> Block] /\ held' = held
      /\ pc[t].at = "decode" /\ Cardinality(pc[t].codes) < pc[t].wanted /\ pc[t] \in Thread
  BY PendingCodes DEF FreeBlocks, FreeIn, Places, IInv, Heap, Sound, MemoryOK, DecodeCode
<1>3. DecodeOK(mem, pc[t]) /\ pc[t].source = NONE
  BY <1>2 DEF IInv, Shared, ThreadOK
<1>4. T \in Blocks /\ mem[T].kind = "tables" /\ mem[T].memctl = a /\ a \in Allocators /\ b # T
  BY <1>2, <1>3 DEF DecodeOK, IInv, Heap, Sound, Made
<1>5. New("code", a) \in Block
  BY <1>4, NewIsBlock DEF Kinds
<1>6. /\ Fresh(mem, block) /\ block.kind = "code" /\ block.tables = T /\ block.executable_jit = NONE
  BY <1>4, <1>5 DEF Fresh, New, Block, HeldKinds
<1>7. /\ r \in Thread /\ r.at = "decode" /\ r.tables = T /\ r.alloc = a /\ r.wanted = pc[t].wanted
      /\ r.codes = pc[t].codes \cup {b} /\ r.source = NONE
  BY <1>2, <1>3 DEF Thread
<1>8. pc' = [pc EXCEPT ![t] = r]
  BY <1>1
<1>9. r.codes \subseteq Blocks /\ b \notin pc[t].codes /\ pc[t].codes \subseteq Blocks
      /\ Users(mem, T) = pc[t].codes
  <2>1. \A x \in pc[t].codes : x \in Blocks /\ mem[x].kind = "code"
    BY <1>2, PendingCodes DEF IInv, Pending
  <2> QED
    BY <1>2, <1>3, <1>7, <2>1 DEF DecodeOK
<1> HIDE DEF block, r, T, a
<1>10. Heap(mem', held')
  <2>1. Heap([mem EXCEPT ![b] = block], held)
    BY <1>2, <1>6, Allocating DEF IInv
  <2> QED
    BY <1>1, <1>2, <2>1
<1>11. mem'[b] = block /\ \A x \in Blocks : x # b => mem'[x] = mem[x]
  BY <1>1, <1>2 DEF Places
<1>12. mem[b].tables = NONE /\ \A x \in Blocks : mem[x].tables # b
  <2>1. mem[b].tables = NONE
    BY <1>2 DEF IInv, Heap, Sound, Made, Nowhere, New
  <2> QED
    BY <1>2, <2>1, FreeIsNobodys DEF IInv, Heap
<1>13. /\ Users(mem', T) = r.codes
       /\ \A x \in Blocks : x # T => Users(mem', x) = Users(mem, x)
  <2>1. Users(mem', T) = Users(mem, T) \cup {b}
    BY <1>2, <1>6, <1>11 DEF Users
  <2>2. ASSUME NEW x \in Blocks, x # T
        PROVE  Users(mem', x) = Users(mem, x)
    BY <1>6, <1>11, <1>12, <2>2, Constants DEF Users
  <2> QED
    BY <1>7, <1>9, <2>1, <2>2
<1>14. GoesOn(pc, t, r, pc') /\ About(r) = r.codes
  <2>1. About(r) = r.codes
    BY <1>7 DEF About
  <2>2. \A u \in Threads : b \notin Pending(pc, u)
    BY <1>2, PendingCodes DEF IInv
  <2>3. ASSUME NEW u \in Threads, u # t
        PROVE  About(r) \cap Pending(pc, u) = {} /\ (pc[u].at = "decode" => pc[u].tables # T)
    <3>1. Pending(pc, t) = pc[t].codes
      BY <1>2 DEF Pending
    <3>2. Pending(pc, t) \cap Pending(pc, u) = {} /\ (pc[u].at = "decode" => pc[u].tables # T)
      BY <1>2, <2>3 DEF IInv, Shared, Apart, T
    <3> QED
      BY <1>7, <2>1, <2>2, <3>1, <3>2
  <2>4. Available(pc, t, r)
    BY <1>7, <2>3 DEF Available
  <2> QED
    BY <1>7, <1>8, <2>1, <2>4, Entering DEF IInv
<1>15. ASSUME NEW u \in Threads
       PROVE  ThreadOK(mem', held', pc'[u])
  <2>1. CASE u = t
    <3>1. Cardinality(r.codes) = Cardinality(pc[t].codes) + 1
      BY <1>2, <1>7, <1>9, OneMore
    <3>2. Cardinality(r.codes) <= r.wanted
      <4>1. Cardinality(pc[t].codes) \in Nat /\ pc[t].wanted \in Nat
        BY <1>2, <1>9, FiniteBlocks DEF Thread
      <4> QED
        BY <1>2, <1>7, <3>1, <4>1
    <3>3. mem'[T] = mem[T]
      BY <1>4, <1>11
    <3>4. \A x \in r.codes : mem'[x].executable_jit = NONE
      BY <1>3, <1>6, <1>7, <1>9, <1>11 DEF DecodeOK
    <3>5. DecodeOK(mem', r)
      BY <1>3, <1>4, <1>7, <1>13, <3>2, <3>3, <3>4 DEF DecodeOK, T
    <3> QED
      BY <1>7, <1>14, <2>1, <3>5 DEF ThreadOK, GoesOn
  <2>2. CASE u # t
    <3>1. pc[u].at = "decode" => pc[u].tables \in Blocks /\ pc[u].tables # T
      BY <1>2, <2>2, PendingCodes DEF IInv, Shared, Apart, T
    <3>2. pc[u].at = "decode" => Users(mem', pc[u].tables) = Users(mem, pc[u].tables)
      BY <1>13, <3>1
    <3>3. ThreadOK(mem', held', pc[u])
      BY <1>2, <1>11, <3>2, ThreadsApart
    <3> QED
      BY <1>14, <2>2, <3>3 DEF GoesOn
  <2> QED
    BY <2>1, <2>2
<1>16. PendingOK(mem', held', pc')
  <2>1. \A x \in About(r) : x \in Blocks \ held' /\ mem'[x].kind = "code"
    <3>1. b \notin held
      BY <1>2 DEF IInv, Heap, Kept, HeldKinds
    <3>2. \A x \in pc[t].codes : x \in Blocks /\ x \notin held /\ mem[x].kind = "code"
      BY <1>2, PendingCodes DEF IInv, Pending
    <3> QED
      BY <1>2, <1>6, <1>7, <1>11, <1>14, <3>1, <3>2
  <2>2. \A u \in Threads : u # t => \A x \in Pending(pc, u) : x \notin held' /\ mem'[x].kind = "code"
    <3> SUFFICES ASSUME NEW u \in Threads, NEW x \in Pending(pc, u)
                 PROVE  x \notin held' /\ mem'[x].kind = "code"
      OBVIOUS
    <3>1. x \in Blocks /\ x \notin held /\ mem[x].kind = "code"
      BY PendingCodes DEF IInv
    <3> QED
      BY <1>2, <1>11, <3>1
  <2>3. \A x \in Blocks \ held' : mem'[x].kind = "code" =>
           x \in About(r) \/ (mem[x].kind = "code" /\ x \notin held /\ x \notin Pending(pc, t))
    BY <1>2, <1>7, <1>11, <1>14 DEF Pending
  <2> QED
    BY <1>14, <2>1, <2>2, <2>3, PendingGoesOn DEF IInv
<1>17. ASSUME NEW x \in Blocks
       PROVE  CountOK(mem', pc', x)
  <2>1. CountOK(mem, pc, x)
    BY DEF IInv, Shared
  <2>2. Copying(pc') = Copying(pc)
    BY <1>2, <1>7, <1>14 DEF Copying, GoesOn
  <2>3. Decoding(pc', x) <=> Decoding(pc, x)
    BY <1>2, <1>7, <1>14 DEF Decoding, GoesOn, T
  <2>4. CASE x = b
    BY <1>6, <1>11, <2>4 DEF CountOK
  <2>5. CASE x = T
    BY <1>2, <2>3, <2>5 DEF CountOK, Decoding, T
  <2>6. CASE x \notin {b, T}
    BY <1>11, <1>13, <2>1, <2>2, <2>3, <2>6 DEF CountOK
  <2> QED
    BY <2>4, <2>5, <2>6
<1> QED
  BY <1>10, <1>14, <1>15, <1>16, <1>17 DEF IInv, Shared, GoesOn

\* The application gets the codes, of which there are as many as are counted.
LEMMA DecodeDonePreserves ==
  ASSUME IInv, NEW t \in Threads, DecodeDone(t)
  PROVE  IInv'
<1> DEFINE T == pc[t].tables
           codes == pc[t].codes
<1>1. /\ pc[t].at = "decode" /\ Cardinality(codes) = pc[t].wanted
      /\ held' = held \cup codes /\ pc' = [pc EXCEPT ![t] = Idle] /\ mem' = mem
  BY DEF DecodeDone
<1>2. DecodeOK(mem, pc[t]) /\ Pending(pc, t) = codes
  BY <1>1 DEF IInv, Shared, ThreadOK, Pending
<1>3. \A x \in codes : x \in Blocks /\ x \notin held /\ mem[x].kind = "code"
  BY <1>2, PendingCodes DEF IInv
<1>4. GoesOn(pc, t, Idle, pc') /\ pc'[t] = Idle /\ About(Idle) = {}
  <2>1. GoesOn(pc, t, Idle, pc') /\ About(Idle) = {}
    BY <1>1, LeavingIsGoingOn DEF IInv
  <2> QED
    BY <2>1 DEF GoesOn
<1> HIDE DEF T, codes
<1>5. Heap(mem', held')
  <2>1. held \cup codes \in SUBSET Blocks
    BY <1>3 DEF IInv, Heap, Kept
  <2>2. Heap(mem, held \cup codes)
    BY <1>3, <2>1, HoldingCodes DEF IInv
  <2> QED
    BY <1>1, <2>2
<1>6. ASSUME NEW u \in Threads
      PROVE  ThreadOK(mem', held', pc'[u])
  <2>1. CASE u = t
    BY <1>4, <2>1 DEF ThreadOK, Idle
  <2>2. CASE u # t
    <3>1. ThreadOK(mem, held, pc[u])
      BY DEF IInv, Shared
    <3>2. ThreadOK(mem, held', pc[u])
      BY <1>1, <3>1 DEF ThreadOK, CopyOK
    <3> QED
      BY <1>1, <1>4, <2>2, <3>2 DEF GoesOn
  <2> QED
    BY <2>1, <2>2
<1>7. PendingOK(mem', held', pc')
  <2>1. \A u \in Threads : u # t => \A x \in Pending(pc, u) : x \notin held' /\ mem'[x].kind = "code"
    <3> SUFFICES ASSUME NEW u \in Threads, u # t, NEW x \in Pending(pc, u)
                 PROVE  x \notin held' /\ mem'[x].kind = "code"
      OBVIOUS
    <3>1. x \notin held /\ mem[x].kind = "code"
      BY PendingCodes DEF IInv
    <3>2. x \notin codes
      BY <1>2 DEF IInv, Shared, Apart
    <3> QED
      BY <1>1, <3>1, <3>2
  <2>2. \A x \in Blocks \ held' : mem'[x].kind = "code" =>
           x \in About(Idle) \/ (mem[x].kind = "code" /\ x \notin held /\ x \notin Pending(pc, t))
    BY <1>1, <1>2
  <2> QED
    BY <1>4, <2>1, <2>2, PendingGoesOn DEF IInv
<1>8. ASSUME NEW x \in Blocks
      PROVE  CountOK(mem', pc', x)
  <2>1. CountOK(mem, pc, x)
    BY DEF IInv, Shared
  <2>2. Copying(pc') = Copying(pc)
    BY <1>1, <1>4 DEF Copying, GoesOn, Idle
  <2>3. CASE x = T
    <3>1. \A u \in Threads : u # t => codes \cap Pending(pc, u) = {}
      BY <1>2 DEF IInv, Shared, Apart
    <3>2. codes \cap Copying(pc) = {}
      BY <1>1, <3>1 DEF Copying, Pending
    <3>3. Users(mem, x) \ Copying(pc) = codes
      BY <1>2, <2>3, <3>2 DEF DecodeOK, T, codes
    <3> QED
      BY <1>1, <1>2, <2>2, <2>3, <3>3 DEF CountOK, DecodeOK, T
  <2>4. CASE x # T
    <3>1. Decoding(pc', x) <=> Decoding(pc, x)
      BY <1>1, <1>4, <2>4 DEF Decoding, GoesOn, Idle, T
    <3> QED
      BY <1>1, <2>1, <2>2, <2>4, <3>1 DEF CountOK
  <2> QED
    BY <2>3, <2>4
<1> QED
  BY <1>4, <1>5, <1>6, <1>7, <1>8 DEF IInv, Shared, GoesOn

\* When there is no memory for a code everything that was made goes.
LEMMA DecodeFailsPreserves ==
  ASSUME IInv, NEW t \in Threads, DecodeFails(t)
  PROVE  IInv'
<1> DEFINE T == pc[t].tables
           a == pc[t].alloc
           codes == pc[t].codes
           set == codes \cup {T}
<1>1. /\ pc[t].at = "decode" /\ mem \in [Places -> Block]
      /\ held' = held /\ pc' = [pc EXCEPT ![t] = Idle] /\ mem' = FreeAll(Free(mem, T, a), codes, a)
  BY DEF DecodeFails, Undecoded, IInv, Heap, Sound, MemoryOK
<1>2. DecodeOK(mem, pc[t]) /\ Pending(pc, t) = codes
  BY <1>1 DEF IInv, Shared, ThreadOK, Pending
<1>3. \A x \in codes : x \in Blocks /\ x \notin held /\ mem[x].kind = "code"
  BY <1>2, PendingCodes DEF IInv
<1>4. T \in Blocks /\ mem[T].kind = "tables" /\ mem[T].memctl = a /\ mem[T].origin = a /\ Users(mem, T) = codes
  BY <1>2 DEF DecodeOK, IInv, Heap, Sound, Made
<1>5. \A x \in codes : mem[x].tables = T /\ mem[x].memctl = a /\ mem[x].origin = a /\ mem[x].executable_jit = NONE
  <2>1. \A x \in codes : mem[x].tables = T /\ mem[x].executable_jit = NONE
    BY <1>2, <1>4 DEF DecodeOK, Users
  <2>2. \A x \in codes : RefersWell(mem, x) /\ Made(mem, x)
    BY <1>3 DEF IInv, Heap, Sound
  <2> QED
    BY <1>3, <1>4, <2>1, <2>2, Constants DEF RefersWell, Refers, Made
<1>6. GoesOn(pc, t, Idle, pc') /\ pc'[t] = Idle /\ About(Idle) = {}
  <2>1. GoesOn(pc, t, Idle, pc') /\ About(Idle) = {}
    BY <1>1, LeavingIsGoingOn DEF IInv
  <2> QED
    BY <2>1 DEF GoesOn
<1> HIDE DEF T, a, codes
<1>7. mem' = Without(mem, set)
  <2>1. Free(mem, T, a) = Without(mem, {T}) /\ Without(mem, {T}) \in [Places -> Block]
    BY <1>1, <1>4, Freeing
  <2>2. \A x \in codes : Freed(Without(mem, {T})[x], a) = Nowhere
    BY <1>3, <1>4, <1>5 DEF Without, Freed, Places
  <2>3. FreeAll(Without(mem, {T}), codes, a) = [x \in Places |-> IF x \in codes THEN Nowhere ELSE Without(mem, {T})[x]]
    BY <2>1, <2>2 DEF FreeAll
  <2>4. FreeAll(Without(mem, {T}), codes, a) = Without(Without(mem, {T}), codes)
    BY <2>3 DEF Without
  <2>5. {T} \cup codes = set
    OBVIOUS
  <2>6. Without(Without(mem, {T}), codes) = Without(mem, set)
    BY <1>1, <2>5, WithoutBoth
  <2> QED
    BY <1>1, <2>1, <2>4, <2>6
<1>8. set \in SUBSET Blocks /\ held \ set = held
  BY <1>3, <1>4 DEF IInv, Heap, Kept, HeldKinds
<1>9. \A x \in Blocks : mem'[x] = IF x \in set THEN Nowhere ELSE mem[x]
  BY <1>7 DEF Without, Places
<1>10. Heap(mem', held)
  <2>1. \A o \in Blocks : RefersWell(mem, o)
    BY DEF IInv, Heap, Sound
  <2>2. \A x \in set : x \in Blocks /\ (mem[x].kind = "tables" \/ (mem[x].kind = "code" /\ mem[x].executable_jit = NONE))
    BY <1>3, <1>4, <1>5
  <2>3. \A x \in set : \A o \in Blocks : ~Owns(mem, o, x) /\ ~Owns(mem, x, o)
    BY <2>1, <2>2, Constants DEF RefersWell, Refers, Owns
  <2>4. \A o \in Blocks : mem[o].tables \in set => o \in set
    <3> SUFFICES ASSUME NEW o \in Blocks, mem[o].tables \in set
                 PROVE  o \in codes
      OBVIOUS
    <3>1. mem[o].tables # NONE
      BY <1>8, Constants
    <3>2. mem[mem[o].tables].kind = "tables"
      BY <3>1, TablesOfCodes DEF IInv
    <3>3. mem[o].tables = T
      BY <1>3, <3>2
    <3> QED
      BY <1>4, <3>3 DEF Users
  <2>5. Heap(Without(mem, set), held \ set)
    BY <1>8, <2>3, <2>4, Wiping DEF IInv
  <2> QED
    BY <1>7, <1>8, <2>5
<1>11. \A x \in Blocks : x # T => Users(mem', x) = Users(mem, x)
  <2>1. \A o \in Blocks : o \in set => mem'[o].tables = NONE
    BY <1>9 DEF Nowhere, New
  <2>2. \A o \in Blocks : o \notin set => mem'[o].tables = mem[o].tables
    BY <1>9
  <2>3. mem[T].tables = NONE
    BY <1>4 DEF IInv, Heap, Sound, RefersWell, Refers
  <2> QED
    BY <1>5, <2>1, <2>2, <2>3, Constants DEF Users
<1>12. ASSUME NEW u \in Threads, u # t
       PROVE  /\ \A x \in Pending(pc, u) : x \in Blocks \ set /\ mem[x].tables # T
              /\ pc[u].at = "decode" => pc[u].tables \in Blocks \ set
  <2>1. \A x \in Pending(pc, u) : x \in Blocks /\ x \notin codes /\ mem[x].kind = "code"
    BY <1>2, <1>12, PendingCodes DEF IInv, Shared, Apart
  <2>2. \A x \in Pending(pc, u) : mem[x].tables # T
    BY <1>4, <2>1 DEF Users
  <2>3. pc[u].at = "decode" => pc[u].tables \in Blocks /\ mem[pc[u].tables].kind = "tables"
    BY PendingCodes DEF IInv
  <2>4. pc[u].at = "decode" => pc[u].tables # T
    BY <1>1, <1>12 DEF IInv, Shared, Apart, T
  <2> QED
    BY <1>3, <1>4, <2>1, <2>2, <2>3, <2>4
<1>13. ASSUME NEW u \in Threads
       PROVE  ThreadOK(mem', held', pc'[u])
  <2>1. CASE u = t
    BY <1>6, <2>1 DEF ThreadOK, Idle
  <2>2. CASE u # t
    <3>1. \A x \in Pending(pc, u) : /\ mem'[x] = mem[x]
                                    /\ mem[x].tables # NONE => mem'[mem[x].tables] = mem[mem[x].tables]
      <4> SUFFICES ASSUME NEW x \in Pending(pc, u)
                   PROVE  /\ mem'[x] = mem[x]
                          /\ mem[x].tables # NONE => mem'[mem[x].tables] = mem[mem[x].tables]
        OBVIOUS
      <4>1. x \in Blocks \ set /\ mem[x].tables # T
        BY <1>12, <2>2
      <4>2. mem[x].tables # NONE => mem[x].tables \in Blocks /\ mem[mem[x].tables].kind = "tables"
        BY <4>1, TablesOfCodes DEF IInv
      <4>3. mem[x].tables # NONE => mem[x].tables \notin set
        BY <1>3, <4>1, <4>2
      <4> QED
        BY <1>9, <4>1, <4>2, <4>3
    <3>2. pc[u].source # NONE => /\ pc[u].source \in held' /\ mem'[pc[u].source].kind = "code"
                                 /\ mem'[pc[u].source].tables = mem[pc[u].source].tables
      <4>1. pc[u].source # NONE =>
              pc[u].source \in held /\ pc[u].source \in Blocks /\ mem[pc[u].source].kind = "code"
        BY PendingCodes DEF IInv
      <4> QED
        BY <1>1, <1>8, <1>9, <4>1
    <3>3. pc[u].at = "decode" => /\ mem'[pc[u].tables] = mem[pc[u].tables]
                                 /\ Users(mem', pc[u].tables) = Users(mem, pc[u].tables)
      BY <1>9, <1>11, <1>12, <2>2
    <3>4. KeepsThread(mem, pc, u, mem', held')
      BY <3>1, <3>2, <3>3 DEF KeepsThread
    <3>5. ThreadOK(mem', held', pc[u])
      BY <3>4, ThreadKept DEF IInv
    <3> QED
      BY <1>6, <2>2, <3>5 DEF GoesOn
  <2> QED
    BY <2>1, <2>2
<1>14. PendingOK(mem', held', pc')
  <2>1. \A u \in Threads : u # t => \A x \in Pending(pc, u) : x \notin held' /\ mem'[x].kind = "code"
    <3> SUFFICES ASSUME NEW u \in Threads, u # t, NEW x \in Pending(pc, u)
                 PROVE  x \notin held' /\ mem'[x].kind = "code"
      OBVIOUS
    <3>1. x \notin held /\ mem[x].kind = "code"
      BY PendingCodes DEF IInv
    <3> QED
      BY <1>1, <1>9, <1>12, <3>1
  <2>2. \A x \in Blocks \ held' : mem'[x].kind = "code" =>
           x \in About(Idle) \/ (mem[x].kind = "code" /\ x \notin held /\ x \notin Pending(pc, t))
    BY <1>1, <1>2, <1>9 DEF Nowhere, New
  <2> QED
    BY <1>6, <2>1, <2>2, PendingGoesOn DEF IInv
<1>15. ASSUME NEW x \in Blocks
       PROVE  CountOK(mem', pc', x)
  <2>1. CountOK(mem, pc, x)
    BY DEF IInv, Shared
  <2>2. Copying(pc') = Copying(pc)
    BY <1>1, <1>6 DEF Copying, GoesOn, Idle
  <2>3. CASE x \in set
    BY <1>9, <2>3 DEF CountOK, Nowhere, New
  <2>4. CASE x \notin set
    <3>1. Decoding(pc', x) <=> Decoding(pc, x)
      BY <1>1, <1>6, <2>4 DEF Decoding, GoesOn, Idle, T
    <3> QED
      BY <1>9, <1>11, <2>1, <2>2, <2>4, <3>1 DEF CountOK
  <2> QED
    BY <2>3, <2>4
<1> QED
  BY <1>1, <1>6, <1>10, <1>13, <1>14, <1>15 DEF IInv, Shared, GoesOn

-----------------------------------------------------------------------------
(* The invariant, and what it means. *)

\* Nothing is used at first.
LEMMA InitIInv == Init => IInv
<1> SUFFICES ASSUME Init
             PROVE  IInv
  OBVIOUS
<1>1. mem = [b \in Places |-> IF b = Subject THEN New("text", NONE) ELSE Nowhere]
      /\ held = {} /\ pc = [t \in Threads |-> Idle]
  BY DEF Init, Places
<1>2. \A b \in Blocks : mem[b] = Nowhere
  BY <1>1, Constants DEF Places
<1>3. MemoryOK(mem)
  <2>1. New("text", NONE) \in Block /\ Nowhere \in Block
    BY NewIsBlock DEF Nowhere, Kinds
  <2> QED
    BY <1>1, <2>1 DEF MemoryOK, Places
<1>4. \A b \in Blocks : Made(mem, b) /\ RefersWell(mem, b)
  <2>1. \A b \in Blocks : Made(mem, b)
    <3>1. Nowhere.kind = "free"
      BY DEF Nowhere, New
    <3> QED
      BY <1>2, <3>1 DEF Made
  <2>2. /\ Nowhere.tables = NONE /\ Nowhere.executable_jit = NONE /\ Nowhere.heapframes = NONE
        /\ ~Nowhere.copied
    BY DEF Nowhere, New
  <2>3. \A b \in Blocks : RefersWell(mem, b)
    BY <1>2, <2>2 DEF RefersWell
  <2> QED
    BY <2>1, <2>3
<1>5. \A b, o \in Blocks : ~Owns(mem, o, b)
  BY <1>2, Constants DEF Owns, Nowhere, New
<1>6. Heap(mem, held)
  <2>1. Sound(mem)
    BY <1>3, <1>4, <1>5 DEF Sound, OneOwner
  <2>2. Kept(mem, held)
    BY <1>1, <1>2 DEF Kept, Nowhere, New, OwnedKinds
  <2>3. Truthful(mem, held)
    BY <1>1 DEF Truthful
  <2> QED
    BY <2>1, <2>2, <2>3 DEF Heap
<1>7. Idle \in Thread
  BY DEF Idle, Thread
<1>8. \A t \in Threads : pc[t] = Idle /\ Pending(pc, t) = {}
  BY <1>1 DEF Pending, Idle
<1>9. Shared(mem, held, pc)
  <2>1. pc \in [Threads -> Thread]
    BY <1>1, <1>7
  <2>2. \A t \in Threads : ThreadOK(mem, held, pc[t])
    BY <1>8 DEF ThreadOK, Idle
  <2>3. Apart(pc)
    BY <1>8 DEF Apart, Idle
  <2>4. PendingOK(mem, held, pc)
    BY <1>2, <1>8 DEF PendingOK, Nowhere, New
  <2>5. \A b \in Blocks : CountOK(mem, pc, b)
    BY <1>2 DEF CountOK, Nowhere, New
  <2> QED
    BY <2>1, <2>2, <2>3, <2>4, <2>5 DEF Shared
<1> QED
  BY <1>6, <1>9 DEF IInv

\* Every function keeps the invariant, when copies and frees of codes are locked and the match
\* data that a substitution continues with has the allocator of the application's.
LEMMA NextIInv ==
  ASSUME Unlocked = {}, Mixed = FALSE
  PROVE  IInv /\ [Next]_vars => IInv'
<1> SUFFICES ASSUME IInv, [Next]_vars
             PROVE  IInv'
  OBVIOUS
<1>1. CASE CodeOperations
  <2>1. ASSUME NEW a \in Given, Compile(a)
        PROVE  IInv'
    <3>1. PICK b \in FreeBlocks : mem' = [mem EXCEPT ![b] = New("code", a)] /\ held' = held \cup {b} /\ pc' = pc
      BY <2>1 DEF Compile
    <3> QED
      BY <3>1, GivenAllocators, NewCode
  <2>2. ASSUME NEW c \in Held("code"), CodeCopyWithTables(c) \/ JitCompile(c)
        PROVE  IInv'
    BY <2>2, CopyWithTablesPreserves, JitPreserves
  <2>3. ASSUME NEW t \in Threads, NEW c \in Held("code"), CodeCopy(t, c) \/ CodeFree(t, c)
        PROVE  IInv'
    BY <2>3, CopyPreserves, FreePreserves
  <2>4. ASSUME NEW t \in Threads, CodeCopyDone(t) \/ CodeFreeDone(t)
        PROVE  IInv'
    BY <2>4, CopyDonePreserves, FreeDonePreserves
  <2> QED
    BY <1>1, <2>1, <2>2, <2>3, <2>4 DEF CodeOperations
<1>2. CASE Serialization
  <2>1. ASSUME NEW a \in Given, NEW cs \in SUBSET Held("code"), Encode(a, cs)
        PROVE  IInv'
    BY <2>1, EncodePreserves
  <2>2. ASSUME NEW t \in Threads, NEW a \in Given, NEW s \in Held("stream"), NEW n \in 1 .. MaxStream,
               Decode(t, a, s, n)
        PROVE  IInv'
    BY <2>2, DecodePreserves
  <2>3. ASSUME NEW t \in Threads, DecodeCode(t) \/ DecodeDone(t) \/ DecodeFails(t)
        PROVE  IInv'
    BY <2>3, DecodeCodePreserves, DecodeDonePreserves, DecodeFailsPreserves
  <2>4. CASE SerializeFree
    BY <2>4, FreeOwnPreserves DEF SerializeFree
  <2> QED
    BY <1>2, <2>1, <2>2, <2>3, <2>4 DEF Serialization
<1>3. CASE Contexts
  BY <1>3, ContextsPreserve
<1>4. CASE Matching
  BY <1>4, MatchingPreserves
<1>5. CASE UNCHANGED vars
  BY <1>5 DEF vars, IInv
<1> QED
  BY <1>1, <1>2, <1>3, <1>4, <1>5 DEF Next

\* The invariant says of a state what HeapIsSound says.
LEMMA SoundHeap == IInv => HeapIsSound
<1> SUFFICES ASSUME IInv
             PROVE  HeapIsSound
  OBVIOUS
<1>1. \A b \in Blocks \cup {Subject} : mem[b].kind # "corrupt"
  <2>1. mem[Subject].kind = "text"
    BY DEF IInv, Heap, Sound, MemoryOK, New
  <2> QED
    BY <2>1 DEF IInv, Heap, Sound, Made
<1>2. ASSUME NEW b \in held, NEW r \in ({b, mem[b].tables} \cup Owned(b)) \ {NONE}
      PROVE  mem[r].kind # "free"
  <2>1. b \in Blocks /\ mem[b].kind # "free"
    BY DEF IInv, Heap, Kept, HeldKinds
  <2>2. RefersWell(mem, b)
    BY <2>1 DEF IInv, Heap, Sound
  <2> QED
    BY <2>1, <2>2 DEF Owned, CopiedSubject, RefersWell, Refers
<1> QED
  BY <1>1, <1>2 DEF HeapIsSound

\* When no thread is in a function the codes that use tables are those that are counted.
LEMMA CountedCodes == IInv => RefCountsCodes
<1> SUFFICES ASSUME IInv, Resting, NEW b \in Blocks, mem[b].kind = "tables"
             PROVE  mem[b].ref_count = Cardinality({c \in Codes : mem[c].tables = b})
  BY DEF RefCountsCodes
<1>1. Copying(pc) = {} /\ ~Decoding(pc, b)
  BY DEF Resting, Copying, Decoding, Idle
<1>2. Users(mem, b) \ Copying(pc) = {c \in Codes : mem[c].tables = b}
  <2>1. \A c \in Blocks : mem[c].tables = b => mem[c].kind = "code"
    BY TablesOfCodes, Constants DEF IInv
  <2> QED
    BY <1>1, <2>1 DEF Users, Codes
<1>3. CountOK(mem, pc, b)
  BY DEF IInv, Shared
<1> QED
  BY <1>1, <1>2, <1>3 DEF CountOK

\* When no thread is in a function nothing is lost.
LEMMA NoLeaks == IInv => NothingLeaks
<1> SUFFICES ASSUME IInv, Resting, NEW b \in Blocks \ held, mem[b].kind # "free"
             PROVE  IF mem[b].kind = "tables" THEN \E c \in Codes : mem[c].tables = b
                    ELSE \E o \in held : Owned(o) \cap {b} # {} /\ \A p \in held \ {o} : b \notin Owned(p)
  BY DEF NothingLeaks
<1>1. Copying(pc) = {} /\ ~Decoding(pc, b) /\ \A t \in Threads : Pending(pc, t) = {}
  BY DEF Resting, Copying, Decoding, Pending, Idle
<1>2. CASE mem[b].kind = "tables"
  <2>1. mem[b].ref_count = Cardinality(Users(mem, b) \ Copying(pc)) /\ mem[b].ref_count # 0
    BY <1>1, <1>2 DEF IInv, Shared, CountOK
  <2>2. Users(mem, b) # {}
    BY <1>1, <2>1, FS_EmptySet
  <2>3. PICK c \in Blocks : mem[c].tables = b
    BY <2>2 DEF Users
  <2>4. mem[c].kind = "code"
    BY <2>3, TablesOfCodes, Constants DEF IInv
  <2> QED
    BY <1>2, <2>3, <2>4 DEF Codes
<1>3. CASE mem[b].kind # "tables"
  <2>1. \A x \in Blocks : mem[x].kind = "code" => x \in held
    BY <1>1 DEF IInv, Shared, PendingOK
  <2>2. mem[b] \in Block
    BY DEF IInv, Heap, Sound, MemoryOK, Places
  <2>3. mem[b].kind \in OwnedKinds
    <3>1. mem[b].kind \in Kinds
      BY <2>2 DEF Block
    <3>2. mem[b].kind \notin {"stream", "match_data", "context", "corrupt", "code"}
      BY <2>1 DEF IInv, Heap, Kept, Sound, Made
    <3> QED
      BY <1>3, <3>1, <3>2 DEF Kinds, OwnedKinds
  <2>4. PICK o \in Blocks : Owns(mem, o, b)
    BY <2>3 DEF IInv, Heap, Kept
  <2>5. o \in held
    <3>1. RefersWell(mem, o)
      BY DEF IInv, Heap, Sound
    <3>2. mem[o].kind \in {"code", "match_data"}
      BY <2>4, <3>1, Constants DEF RefersWell, Refers, Owns
    <3> QED
      BY <2>1, <3>2 DEF IInv, Heap, Kept
  <2>6. \A p \in Blocks : b \in Owned(p) <=> Owns(mem, p, b)
    BY Constants DEF Owned, CopiedSubject, Owns
  <2>7. \A p \in held \ {o} : b \notin Owned(p)
    BY <2>4, <2>6 DEF IInv, Heap, Kept, Sound, OneOwner
  <2> QED
    BY <1>3, <2>4, <2>5, <2>6, <2>7
<1> QED
  BY <1>2, <1>3

\* When the application locks what the documentation tells it to lock, and substitution
\* continues matches with the allocator of the match data, the inductive invariant holds:
\* in particular every pointer that a code, match data or a thread keeps leads to a block
\* of the right kind and allocator.
THEOREM InvariantHolds ==
  ASSUME Unlocked = {}, Mixed = FALSE
  PROVE  Spec => []IInv
<1>1. Init => IInv
  BY InitIInv
<1>2. IInv /\ [Next]_vars => IInv'
  BY NextIInv
<1> QED
  BY <1>1, <1>2, PTL DEF Spec

\* Nothing is freed twice, or with another allocator than the one that made it (the free()
\* calls of all modules), and what the application holds is there with all that belongs
\* to it.
THEOREM HeapStaysSound ==
  ASSUME Unlocked = {}, Mixed = FALSE
  PROVE  Spec => []HeapIsSound
<1>1. Spec => []IInv
  BY InvariantHolds
<1>2. IInv => HeapIsSound
  BY SoundHeap
<1> QED
  BY <1>1, <1>2, PTL

\* Between calls the reference count in front of the tables is the number of codes that use
\* them (pcre2_code_copy(), pcre2_code_free(), pcre2_serialize_decode()).
THEOREM RefCountsStayRight ==
  ASSUME Unlocked = {}, Mixed = FALSE
  PROVE  Spec => []RefCountsCodes
<1>1. Spec => []IInv
  BY InvariantHolds
<1>2. IInv => RefCountsCodes
  BY CountedCodes
<1> QED
  BY <1>1, <1>2, PTL

\* Between calls every block is the application's to free, or goes with one that is, or is
\* the tables of a code.
THEOREM NothingIsLost ==
  ASSUME Unlocked = {}, Mixed = FALSE
  PROVE  Spec => []NothingLeaks
<1>1. Spec => []IInv
  BY InvariantHolds
<1>2. IInv => NothingLeaks
  BY NoLeaks
<1> QED
  BY <1>1, <1>2, PTL

\* Under the same conditions the heap, what is held and the threads keep their types.
THEOREM TypesStayRight ==
  ASSUME Unlocked = {}, Mixed = FALSE
  PROVE  Spec => []TypeOK
<1>1. Spec => []IInv
  BY InvariantHolds
<1>2. IInv => TypeOK
  <2> SUFFICES ASSUME IInv
               PROVE  TypeOK
    OBVIOUS
  <2>1. mem \in [Blocks \cup {Subject} -> Block] /\ held \subseteq Blocks
    BY DEF IInv, Heap, Sound, MemoryOK, Kept, Places
  <2>2. pc \in [Threads -> Thread]
    BY DEF IInv, Shared
  <2>3. \A t \in Threads : pc[t].at \in {"idle", "copy", "free", "decode"}
    BY <2>2 DEF Thread
  <2> QED
    BY <2>1, <2>3 DEF TypeOK
<1> QED
  BY <1>1, <1>2, PTL
=============================================================================
