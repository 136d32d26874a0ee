----------------------------- MODULE Lifetimes -----------------------------
(***************************************************************************)
(* The memory that the library hands out and what each function does to    *)
(* it: compiled codes, the tables that decoded codes share under a         *)
(* reference count, serialized streams, match data with its frames and its *)
(* copy of a subject, extracted substrings, contexts.                      *)
(*                                                                         *)
(* Every block remembers the allocator that made it (origin) and, in its   *)
(* memctl, the one it will be freed with.  Threads call the functions; a   *)
(* copy or free of a code reads the reference count of its tables in one   *)
(* step and writes it in another, and the application locks these          *)
(* functions or does not.                                                  *)
(***************************************************************************)
EXTENDS Integers, FiniteSets

CONSTANTS
  Blocks,      \* the memory
  Subject,     \* the application's buffer that is matched, which no allocator made
  NONE,        \* NULL
  Allocators,  \* the memory management functions that contexts hold
  Default,     \* malloc() and free()
  Threads,
  MaxStream,   \* codes in a stream
  Unlocked,    \* which of "copy" and "free" the application calls without a lock
  Mixed        \* pcre2_substitute() continues a match whose data another allocator made

ASSUME LifetimesAssumption ==
  /\ IsFiniteSet(Blocks)
  /\ Subject \notin Blocks /\ NONE \notin Blocks \cup {Subject}
  /\ Default \in Allocators
  /\ MaxStream \in Nat \ {0}
  /\ Unlocked \subseteq {"copy", "free"}
  /\ Mixed \in BOOLEAN

VARIABLES
  mem,   \* the blocks
  held,  \* those that the application has pointers to, and must free
  pc     \* what each thread is in the middle of

vars == <<mem, held, pc>>

Kinds == {"free", "corrupt", "code", "tables", "jit", "stream", "match_data", "heapframes", "text", "context"}
Results == {"error", "nomatch", "partial", "match"}

Block ==
  [kind : Kinds, origin : Allocators \cup {NONE}, memctl : Allocators \cup {NONE},
   tables : Blocks \cup {NONE},         \* of a code with PCRE2_DEREF_TABLES
   executable_jit : Blocks \cup {NONE},
   ref_count : Nat,                     \* of tables; of a stream, its number_of_codes
   heapframes : Blocks \cup {NONE},
   subject : Blocks \cup {NONE, Subject},
   copied : BOOLEAN,                    \* PCRE2_MD_COPIED_SUBJECT
   rc : Results]

\* A new block of some kind from an allocator, which its memctl names.
New(kind, a) ==
  [kind |-> kind, origin |-> a, memctl |-> a, tables |-> NONE, executable_jit |-> NONE,
   ref_count |-> 0, heapframes |-> NONE, subject |-> NONE, copied |-> FALSE,
   rc |-> "error"]

Nowhere == New("free", NONE)

Idle == [at |-> "idle", code |-> NONE, source |-> NONE, count |-> 0, alloc |-> NONE,
         tables |-> NONE, codes |-> {}, wanted |-> 0]

FreeIn(m) == {b \in Blocks : m[b].kind = "free"}
FreeBlocks == FreeIn(mem)
Held(kind) == {b \in held : mem[b].kind = kind}
Codes == {b \in Blocks : mem[b].kind = "code"}

\* The allocators that a function can be given, in a context or by default.
Given == {Default} \cup {mem[b].memctl : b \in Held("context")}

\* memctl.free(): freeing with another allocator's function, or what is free, corrupts
\* the heap.  Freeing NULL does nothing.
Freed(block, a) ==
  IF block.kind # "free" /\ block.origin = a THEN Nowhere ELSE [block EXCEPT !.kind = "corrupt"]

Free(m, b, a) == IF b = NONE THEN m ELSE [m EXCEPT ![b] = Freed(@, a)]

\* Several blocks, one after the other.
FreeAll(m, set, a) == [b \in DOMAIN m |-> IF b \in set THEN Freed(m[b], a) ELSE m[b]]

-----------------------------------------------------------------------------
(***************************************************************************)
(* Codes and their tables (pcre2_compile.c).                               *)
(***************************************************************************)
\* Whether a thread may enter a function that the application locks.
MayEnter(op) ==
  op \in Unlocked \/ \A u \in Threads : pc[u].at \notin {"copy", "free"} \ Unlocked

Compile(a) ==
  \E b \in FreeBlocks :
    /\ mem' = [mem EXCEPT ![b] = New("code", a)]
    /\ held' = held \cup {b}
    /\ UNCHANGED pc

\* pcre2_code_copy(): the new code is made and the count is read, ...
CodeCopy(t, c) ==
  /\ pc[t] = Idle /\ MayEnter("copy")
  /\ \E b \in FreeBlocks :
       /\ mem' = [mem EXCEPT ![b] = [New("code", mem[c].memctl) EXCEPT !.tables = mem[c].tables]]
       /\ IF mem[c].tables = NONE
          THEN held' = held \cup {b} /\ UNCHANGED pc
          ELSE /\ pc' = [pc EXCEPT ![t] = [Idle EXCEPT !.at = "copy", !.code = b, !.source = c,
                                             !.count = mem[mem[c].tables].ref_count]]
               /\ UNCHANGED held

\* Mutant: a copy does not count.
Counted_Not(m, c, n) == m

\* ... and the count written.
Counted(m, c, n) == [m EXCEPT ![m[c].tables].ref_count = n + 1]

CodeCopyDone(t) ==
  /\ pc[t].at = "copy"
  /\ mem' = Counted(mem, pc[t].code, pc[t].count)
  /\ held' = held \cup {pc[t].code}
  /\ pc' = [pc EXCEPT ![t] = Idle]

\* pcre2_code_copy_with_tables()
CodeCopyWithTables(c) ==
  \E b, d \in FreeBlocks :
    /\ b # d
    /\ mem' = [mem EXCEPT
                 ![b] = [New("code", mem[c].memctl) EXCEPT !.tables = d],
                 ![d] = [New("tables", mem[c].memctl) EXCEPT !.ref_count = 1]]
    /\ held' = held \cup {b}
    /\ UNCHANGED pc

\* pcre2_jit_compile()
JitCompile(c) ==
  /\ mem[c].executable_jit = NONE
  /\ \E b \in FreeBlocks :
       mem' = [mem EXCEPT ![b] = New("jit", mem[c].memctl), ![c].executable_jit = b]
  /\ UNCHANGED <<held, pc>>

\* pcre2_code_free(): the JIT code goes and the count is read, ...
CodeFree(t, c) ==
  /\ pc[t] = Idle /\ MayEnter("free")
  /\ \A u \in Threads : pc[u].source # c       \* nobody copies what is being freed
  /\ held' = held \ {c}
  /\ mem' = [Free(mem, mem[c].executable_jit, mem[c].memctl) EXCEPT ![c].executable_jit = NONE]
  /\ pc' = [pc EXCEPT ![t] = [Idle EXCEPT !.at = "free", !.code = c,
              !.count = IF mem[c].tables = NONE THEN 0 ELSE mem[mem[c].tables].ref_count]]

\* Mutant: the tables go with the last code but one.
Uncounted_Early(m, c, n) ==
  IF m[c].tables = NONE \/ n = 0 THEN m
  ELSE IF n <= 2 THEN Free(m, m[c].tables, m[c].memctl)
  ELSE [m EXCEPT ![m[c].tables].ref_count = n - 1]

\* ... the count is written and the tables are freed with the last code.
Uncounted(m, c, n) ==
  IF m[c].tables = NONE \/ n = 0 THEN m
  ELSE IF n = 1 THEN Free(m, m[c].tables, m[c].memctl)
  ELSE [m EXCEPT ![m[c].tables].ref_count = n - 1]

CodeFreeDone(t) ==
  /\ pc[t].at = "free"
  /\ mem' = LET c == pc[t].code IN Free(Uncounted(mem, c, pc[t].count), c, mem[c].memctl)
  /\ pc' = [pc EXCEPT ![t] = Idle]
  /\ UNCHANGED held

-----------------------------------------------------------------------------
(***************************************************************************)
(* Serialization (pcre2_serialize.c).                                      *)
(***************************************************************************)
\* pcre2_serialize_encode(): only codes with the same tables go into one stream.
Encode(a, cs) ==
  /\ cs # {} /\ Cardinality(cs) <= MaxStream
  /\ \A c, d \in cs : mem[c].tables = mem[d].tables
  /\ \E b \in FreeBlocks :
       /\ mem' = [mem EXCEPT ![b] = [New("stream", a) EXCEPT !.ref_count = Cardinality(cs)]]
       /\ held' = held \cup {b}
  /\ UNCHANGED pc

\* pcre2_serialize_decode() makes the tables, with a count for the codes to come, ...
Decode(t, a, s, number_of_codes) ==
  /\ pc[t] = Idle
  /\ \E b \in FreeBlocks :
       LET n == IF number_of_codes > mem[s].ref_count THEN mem[s].ref_count ELSE number_of_codes
       IN  /\ mem' = [mem EXCEPT ![b] = [New("tables", a) EXCEPT !.ref_count = n]]
           /\ pc' = [pc EXCEPT ![t] = [Idle EXCEPT !.at = "decode", !.alloc = a, !.tables = b, !.wanted = n]]
  /\ UNCHANGED held

\* ... then one code after the other, ...
DecodeCode(t) ==
  /\ pc[t].at = "decode" /\ Cardinality(pc[t].codes) < pc[t].wanted
  /\ \E b \in FreeBlocks :
       /\ mem' = [mem EXCEPT ![b] = [New("code", pc[t].alloc) EXCEPT !.tables = pc[t].tables]]
       /\ pc' = [pc EXCEPT ![t].codes = @ \cup {b}]
  /\ UNCHANGED held

\* ... which the application gets at the end.
DecodeDone(t) ==
  /\ pc[t].at = "decode" /\ Cardinality(pc[t].codes) = pc[t].wanted
  /\ held' = held \cup pc[t].codes
  /\ pc' = [pc EXCEPT ![t] = Idle]
  /\ UNCHANGED mem

\* Mutant: the tables are left.
Undecoded_Codes(p) == FreeAll(mem, p.codes, p.alloc)

\* No memory for a code, or its bytes are bad: what was made goes, codes and tables.
Undecoded(p) == FreeAll(Free(mem, p.tables, p.alloc), p.codes, p.alloc)

DecodeFails(t) ==
  /\ pc[t].at = "decode" /\ Cardinality(pc[t].codes) < pc[t].wanted
  /\ mem' = Undecoded(pc[t])
  /\ pc' = [pc EXCEPT ![t] = Idle]
  /\ UNCHANGED held

\* pcre2_serialize_free(), pcre2_substring_free(), pcre2_substring_list_free(),
\* pcre2_converted_pattern_free() and those of the contexts: the block's own memctl.
FreeOwn(kind) ==
  \E b \in Held(kind) :
    /\ mem' = Free(mem, b, mem[b].memctl)
    /\ held' = held \ {b}
    /\ UNCHANGED pc

SerializeFree == FreeOwn("stream")

-----------------------------------------------------------------------------
(***************************************************************************)
(* Contexts (pcre2_context.c) and what is made with them.                  *)
(***************************************************************************)
Make(kind, a) ==
  /\ \E b \in FreeBlocks : mem' = [mem EXCEPT ![b] = New(kind, a)] /\ held' = held \cup {b}
  /\ UNCHANGED pc

\* pcre2_general_context_create()
GeneralContextCreate == \E a \in Allocators : Make("context", a)

\* pcre2_compile_context_create(), pcre2_match_context_create() and
\* pcre2_convert_context_create(), and the copies of all four
ContextCreate == \E a \in Given : Make("context", a)
ContextCopy == \E b \in Held("context") : Make("context", mem[b].memctl)
ContextFree == FreeOwn("context")

\* pcre2_pattern_convert()
PatternConvert == \E a \in Given : Make("text", a)

-----------------------------------------------------------------------------
(***************************************************************************)
(* Match data (pcre2_match_data.c, pcre2_match.c, pcre2_dfa_match.c).      *)
(***************************************************************************)
\* pcre2_match_data_create(), and _from_pattern() with the code's memctl.
MatchDataCreate ==
  \E a \in Given \cup {mem[c].memctl : c \in Held("code")} : Make("match_data", a)

CopiedSubject(m, d) == IF m[d].copied THEN m[d].subject ELSE NONE

\* Mutant: the copy of the subject is left.
FreedData_Copy(m, d) == Free(Free(m, m[d].heapframes, m[d].memctl), d, m[d].memctl)

\* pcre2_match_data_free()
FreedData(m, d) ==
  LET a == m[d].memctl
  IN  Free(Free(Free(m, m[d].heapframes, a), CopiedSubject(m, d), a), d, a)

MatchDataFree ==
  \E d \in Held("match_data") :
    /\ mem' = FreedData(mem, d)
    /\ held' = held \ {d}
    /\ UNCHANGED pc

\* Mutant: the flag stays.
Cleared_Flag(m, d) ==
  [Free(m, CopiedSubject(m, d), m[d].memctl) EXCEPT
     ![d].subject = NONE, ![d].rc = "error"]

\* A match frees the copy of an earlier subject, ...
Cleared(m, d) ==
  [Free(m, CopiedSubject(m, d), m[d].memctl) EXCEPT
     ![d].copied = FALSE, ![d].subject = NONE, ![d].rc = "error"]

\* Mutant: when there is no new vector the pointer to the old one stays.
Unframed_Kept(m, d) == Free(m, m[d].heapframes, m[d].memctl)

\* ... the interpreter frees a vector that is too small, ...
Unframed(m, d) == [Free(m, m[d].heapframes, m[d].memctl) EXCEPT ![d].heapframes = NONE]

\* ... for which there may be a new one, ...
Framed(m, d) ==
  LET n == Unframed(m, d)
  IN  {[n EXCEPT ![b] = New("heapframes", n[d].memctl), ![d].heapframes = b] : b \in FreeIn(n)}

Returns(m, d, rc, subject) ==
  [m EXCEPT ![d].rc = rc, ![d].subject = subject]

\* Mutant: without memory for the copy the match is returned.
Copied_Returned(m, d) ==
  {Returns(m, d, "match", NONE), [Returns(m, d, "match", NONE) EXCEPT ![d].copied = TRUE]}
  \cup {[Returns(m, d, "match", b) EXCEPT ![b] = New("text", m[d].memctl), ![d].copied = TRUE] :
           b \in FreeIn(m)}

\* ... and PCRE2_COPY_MATCHED_SUBJECT keeps a copy of a subject that was matched, unless
\* it is empty or there is no memory.
Copied(m, d) ==
  {m, [Returns(m, d, "match", NONE) EXCEPT ![d].copied = TRUE]}
  \cup {[Returns(m, d, "match", b) EXCEPT ![b] = New("text", m[d].memctl), ![d].copied = TRUE] :
           b \in FreeIn(m)}

\* What a call of pcre2_match(), pcre2_dfa_match() or pcre2_jit_match() leaves: with an
\* error, with a result, or with a match of a subject that is copied.
Matched(m, d) ==
  LET cleared == Cleared(m, d)
      ready == {cleared} \cup Framed(cleared, d)
  IN  {Unframed(cleared, d)} \cup ready
      \cup UNION {{Returns(n, d, rc, Subject) : rc \in {"nomatch", "partial", "match"}} \cup Copied(n, d) :
                    n \in ready}

\* An error in the arguments is found before anything else.
MatchRefused == \E d \in Held("match_data") :
  /\ mem' = [mem EXCEPT ![d].rc = "error"]
  /\ UNCHANGED <<held, pc>>

DoMatch ==
  /\ Held("code") # {}
  /\ \E d \in Held("match_data") : mem' \in Matched(mem, d)
  /\ UNCHANGED <<held, pc>>

-----------------------------------------------------------------------------
(***************************************************************************)
(* Substitution (pcre2_substitute.c) and substrings (pcre2_substring.c).   *)
(***************************************************************************)
\* With the application's match data, the number of substitutions or an error of the
\* substitution takes the place of what the last match returned.
Substitute ==
  /\ Held("code") # {}
  /\ \E d \in Held("match_data"), rc \in {"error", "match"} : \E m \in Matched(mem, d) :
       mem' = [m EXCEPT ![d].rc = IF @ \in {"match", "nomatch"} THEN rc ELSE @]
  /\ UNCHANGED <<held, pc>>

\* Mutant: the flag is copied too.
Internal_Flag(m, d, i, a) == [m EXCEPT ![i] = [m[d] EXCEPT !.origin = a, !.heapframes = NONE]]

\* The internal match data that continues a match of the application's, a copy of it made
\* by allocator a.
Internal(m, d, i, a) ==
  [m EXCEPT ![i] = [m[d] EXCEPT !.origin = a, !.heapframes = NONE, !.copied = FALSE]]

\* PCRE2_SUBSTITUTE_MATCHED: frames come and go with the internal match data.
SubstituteMatched ==
  /\ \E d \in Held("match_data"), c \in Held("code"), i \in FreeBlocks :
       /\ mem[d].rc \in {"match", "nomatch"}
       /\ \E a \in Given \cup {mem[c].memctl} :
            /\ Mixed \/ a = mem[d].memctl
            /\ \E m \in {Internal(mem, d, i, a)} \cup Framed(Internal(mem, d, i, a), i) :
                 mem' = FreedData(m, i)
  /\ UNCHANGED <<held, pc>>

\* Whether match data points to the text that its result speaks of.  A subject without
\* text is copied as NULL.
Readable(d) ==
  IF mem[d].subject = NONE THEN mem[d].copied ELSE mem[mem[d].subject].kind = "text"

\* pcre2_substring_get_bynumber(), and pcre2_substring_list_get() after a match
SubstringGet ==
  /\ \E d \in Held("match_data"), b \in FreeBlocks :
       /\ mem[d].rc \in {"match", "partial"}
       /\ mem' = IF Readable(d) THEN [mem EXCEPT ![b] = New("text", mem[d].memctl)]
                 ELSE [mem EXCEPT ![d].kind = "corrupt"]
       /\ held' = held \cup {b}
  /\ UNCHANGED pc

TextFree == FreeOwn("text")

-----------------------------------------------------------------------------
Init ==
  /\ mem = [b \in Blocks \cup {Subject} |-> IF b = Subject THEN New("text", NONE) ELSE Nowhere]
  /\ held = {}
  /\ pc = [t \in Threads |-> Idle]

CodeOperations ==
  \/ \E a \in Given : Compile(a)
  \/ \E c \in Held("code") : CodeCopyWithTables(c) \/ JitCompile(c)
  \/ \E t \in Threads :
       \/ \E c \in Held("code") : CodeCopy(t, c) \/ CodeFree(t, c)
       \/ CodeCopyDone(t) \/ CodeFreeDone(t)

Serialization ==
  \/ \E a \in Given, cs \in SUBSET Held("code") : Encode(a, cs)
  \/ \E t \in Threads :
       \/ \E a \in Given, s \in Held("stream"), n \in 1 .. MaxStream : Decode(t, a, s, n)
       \/ DecodeCode(t) \/ DecodeDone(t) \/ DecodeFails(t)
  \/ SerializeFree

Contexts ==
  GeneralContextCreate \/ ContextCreate \/ ContextCopy \/ ContextFree \/ PatternConvert

Matching ==
  \/ MatchDataCreate \/ MatchDataFree \/ MatchRefused \/ DoMatch
  \/ Substitute \/ SubstituteMatched \/ SubstringGet \/ TextFree

Next == CodeOperations \/ Serialization \/ Contexts \/ Matching

Spec == Init /\ [][Next]_vars

-----------------------------------------------------------------------------
(***************************************************************************)
(* Properties.                                                             *)
(***************************************************************************)
TypeOK ==
  /\ mem \in [Blocks \cup {Subject} -> Block]
  /\ held \subseteq Blocks
  /\ \A t \in Threads : pc[t].at \in {"idle", "copy", "free", "decode"}

\* The blocks that go with one that the application frees.
Owned(b) ==
  {mem[b].executable_jit, mem[b].heapframes, CopiedSubject(mem, b)} \ {NONE}

\* Nothing is freed twice or by another allocator than the one that made it, and what the
\* application holds, what belongs to that and the tables of its codes is there.
HeapIsSound ==
  /\ \A b \in Blocks \cup {Subject} : mem[b].kind # "corrupt"
  /\ \A b \in held : \A r \in ({b, mem[b].tables} \cup Owned(b)) \ {NONE} : mem[r].kind # "free"

Resting == \A t \in Threads : pc[t] = Idle

\* Between calls the reference count of tables is the number of codes that use them: the
\* last of these to be freed frees them, and no other.
RefCountsCodes ==
  Resting =>
    \A b \in Blocks : mem[b].kind = "tables" =>
      mem[b].ref_count = Cardinality({c \in Codes : mem[c].tables = b})

\* Between calls every block is the application's, or goes with exactly one that is, or is
\* the tables of a code.
NothingLeaks ==
  Resting =>
    \A b \in Blocks \ held : mem[b].kind # "free" =>
      IF mem[b].kind = "tables" THEN \E c \in Codes : mem[c].tables = b
      ELSE \E o \in held : Owned(o) \cap {b} # {} /\ \A p \in held \ {o} : b \notin Owned(p)
=============================================================================
