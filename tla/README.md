# A verification of PCRE2

TLA+ models of this repository's regular expression library, checked with TLC, and
theorems about them, proved with TLAPS. The repository is a fork of PCRE2 10.49 with a
query that tells whether a compiled pattern suits the DFA matcher
(`PCRE2_INFO_DFA_COMPATIBILITY`). File names below are those of `src/`; the models are
of the code, and the man pages in `doc/man` are what it is compared with.

## 1. Inventory

| component | sources | status | modelled, or why not |
|---|---|---|---|
| Interpreter: match() | pcre2_match.c | partly | match() as a state machine over compiled code: repeats of a character, groups of every kind, back references, lookarounds, scan-substring assertions, conditions, recursion with returned captures, verbs, \K, partial matching, match and depth limits. Left out: Unicode properties, extended classes, caseless matching, \X, \R, \C, callouts, script runs, and that opcodes for kinds of characters have separate code. |
| Interpreter: pcre2_match() driver | pcre2_match.c | partly | the loop over starting points with the verbs that move it, the optimisations before an attempt with what they remember, first line and offset limit, partial matches and the result; bump along by CRLF, option checks and invalid-UTF fragments are not modelled |
| Backtracking frame vector | pcre2_match.c, pcre2_match_data.c | modelled | allocation, reuse over calls, growth and the heap limit; what the frames hold is in Match |
| Compiler: code for groups, repeats, assertions, verbs | pcre2_compile.c | partly | compile_branch and compile_regex from a parsed pattern to opcodes as functions, without offsets and link sizes; the parser, character classes, cgroups and the two-pass length computation are not modelled yet |
| Iteration over matches (pcre2_next_match) | pcre2_match_next.c | modelled | all branches of pcre2_next_match and do_bumpalong, in the loop an application runs |
| DFA matcher | pcre2_dfa_match.c | partly | internal_dfa_match() as a state machine over lists of states, with its calls of itself, the chain of workspace blocks, restarts, and the loop of pcre2_dfa_match() over starting points. Left out: option checks, callouts, caseless matching, \X, \R and other items of more than one code unit. |
| DFA compatibility query | pcre2_pattern_info.c, tests/dfa_compatibility.c | modelled | dfa_compatibility() over every instruction of a code; a code it accepts meets no item that internal_dfa_match() refuses. The callout enumeration it shares its walk with and the other queries only read a field. |
| Substitution | pcre2_substitute.c, pcre2_substring.c | modelled | the loop over matches, the scan of the replacement in every form, case forcing at once and by a callout, the substitute callout, and the accounting of the output buffer; the characters a replacement item is written with (read_name_subst(), find_text_end(), check_escape()) are abstracted to the item, a malformed one to its error |
| Pattern study | pcre2_study.c, pcre2_compile.c | modelled | first and required code units as compile_branch() and compile_regex() find them, anchoring, line starts, an asserted first code unit, the minimum length and the starting code units; UTF encodings of characters and the give-up on very long patterns are abstracted |
| Auto-possessification | pcre2_auto_possess.c | partly | which repeats of characters, dots and classes are made possessive, by what follows them in and around groups of every kind; the tables for Unicode properties and character types, and the limit on recursions, are left out |
| Compiler: parser, classes and groups by name | pcre2_compile_class.c, pcre2_compile_cgroup.c, pcre2_find_bracket.c | not_modelled | parsed patterns are the input of Compile; the class and name-table code is data processing with little state |
| Code and table lifetimes, serialization | pcre2_context.c, pcre2_serialize.c, pcre2_maketables.c | partly | copies and frees of codes with their shared tables, by several threads; encoding and decoding with every failure; contexts as the givers of allocators. The values set in contexts and the contents of tables (pcre2_maketables()) are not modelled |
| Match data and substrings | pcre2_match_data.c, pcre2_substring.c | partly | match data with its frames, its copied subject and the result it holds over matches of every outcome, and what the substring functions read of it; group numbers and names are looked up in the model of the substitution only |
| JIT compiler and its stacks | pcre2_jit_compile.c, pcre2_jit_match_inc.h, pcre2_jit_misc_inc.h, pcre2_jit_char_inc.h, pcre2_jit_simd_inc.h | not_modelled | a code generator for machine code over sljit, whose source is not in the repository |
| Glob and POSIX pattern conversion | pcre2_convert.c | not_modelled | planned: the length computed by the dry run against the run that writes |
| POSIX interface | pcre2posix.c | not_modelled | thin wrapper over compile and match |
| pcre2grep | pcre2grep.c | not_modelled | planned: its three-part buffer and the context lines it keeps |
| UTF validity and newlines | pcre2_valid_utf.c, pcre2_newline.c, pcre2_ord2utf.c | not_modelled | planned: validity against the definition of UTF-8, newline tests forwards against backwards |
| Unicode data, extended grapheme clusters and script runs | pcre2_ucd.c, pcre2_ucptables_inc.h, pcre2_extuni.c, pcre2_script_run.c, pcre2_xclass.c, pcre2_tables.c | not_modelled | generated tables and pure functions over them |
| Errors, configuration and utilities | pcre2_error.c, pcre2_config.c, pcre2_string_utils.c, pcre2_chkdint.c, pcre2_printint_inc.h | not_modelled | text, constants and small pure functions |
| Test and example programs, build | pcre2test.c, pcre2_fuzzsupport.c, pcre2demo.c, pcre2_jit_test.c, pcre2_dftables.c | not_modelled | tools of the developers, not part of the library |

State, operations and what makes each correct:

* **Compiled code** (`pcre2_compile.c`). `pcre2_compile()` parses the pattern to a vector
  of items, then runs `compile_regex()` and `compile_branch()` over it twice, once for
  the length and once for the code. State: the code vector, the group being repeated
  (copied for each round), the length so far. Correct if the code means what the pattern
  means for every way of repeating a group, and if the two passes agree.
* **Interpreter** (`pcre2_match.c`). `match()` executes the code with a vector of
  *frames*, which replace recursion: each holds a position in code and subject, the
  captures, the innermost group and the way back. `pcre2_match()` calls it from one
  starting point after another. Correct if it finds the match the pattern means. Hard:
  frames are copies of one another, and what happens at the end of a group, or when a
  backtracking verb is met, depends on all the frames below.
* **Frame vector** (`match()`, `pcre2_match()`, `pcre2_match_data.c`). Lives in the match
  data and is kept from one call to the next. Correct if every frame lies inside it, and
  no more heap is used than allowed.
* **Iteration** (`pcre2_match_next.c`), used by `pcre2_substitute()` and applications.
  State: the next start and its options. Correct if the matches are in order, none is
  repeated, and the loop ends.
* **Substitution** (`pcre2_substitute.c`). One match after another is replaced by what
  the replacement means for it, into a buffer that may be too small; from then on lengths
  are counted instead. State: the buffer, its offset and the room left, the count, the
  case to be forced and where the text began whose case a callout will force. Correct if
  the output is what the replacement means, and if an application that comes back with
  the length it was told gets it. Hard: both callouts change what was written or counted.
* **DFA matcher** (`pcre2_dfa_match.c`): sets of states, a recursion workspace made of
  blocks under the heap limit. **Compatibility query** (`pcre2_pattern_info.c`): one
  pass over the code; correct if the DFA matcher refuses nothing in a code that it
  accepts.
* **Study** and **auto-possessification** read or rewrite the code; correct if no match
  is lost. **Lifetimes**: codes and shared tables with a
  reference count, serialization, copied subjects. **pcre2grep**: a buffer of three
  parts that slides under the lines that are still needed.

The library keeps no global state and makes no threads. Interactions are calls and the
shared match data block; the interleaving that matters is that of *paths* in a
backtracking match, and of calls with the state they leave behind.
`PROJECT.json` lists the hazards, each at its line.

## 2. Modules

    MatchNext --- GlobalMatch --- GlobalMatchProofs
    HeapFrames -- MCHeapFrames
         `------- HeapFramesProofs
    MatchNext --- Substitute --- SubstitutionMeaning --- MCSubstitute
                      |                  `--- SubstituteContract
                      `--- SubstituteProofs
    DfaWorkspace --- DfaWorkspaceProofs
            `------- Dfa ----- DfaStates --- DfaCheck --- MCDfa
    Bytecode --------'             |       DfaSemantics, DfaPatterns
                                   `-------- DfaProofs
    Bytecode --- Compile --- Study --- AutoPossess -----.
        |`------ CodeNesting ---.                        \
         `------ Match ----- MatchFrames --------------- MatchCheck ---.
    StartOptimize -' `- Dfa      `--- MatchProofs                       \
                                                PatternSemantics --- MCMatches, MCLimits
    GroupPatterns, AssertionPatterns, RecursionPatterns ------------------'
    VerbPatterns, PartialPatterns, StartPatterns, PossessPatterns --- MCMatches
    Lifetimes ---- MCLifetimes
         `-------- LifetimesProofs
    Shapes --- SequenceLemmas --- MatchProofs, DfaProofs

**MatchNext** is `pcre2_next_match()` and `do_bumpalong()`; **GlobalMatch** the loop of
`pcre2_substitute()`, pcre2demo and pcre2test round them: `Match` and `NoMatch` are a
call of `pcre2_match()` by its contract (any pair of offsets that it may report, with
`\K` in a lookaround too when the extra option allows it), `SearchAgain` and `Finish`
the two results of `pcre2_next_match()`. Subjects are classes of code units: CR, LF, the
first unit of a character, a continuation.

**HeapFrames** has one action for each thing that may happen to the vector:
`StartMatch` (`pcre2_match()`, which keeps or replaces it), `NewFrame`, `GrowVector`,
`HeapLimit`, `NoMemory` (the cases of `MATCH_RECURSE`), `Backtrack`, `Restart`,
`Finish`. Every allocation may fail.

**Substitute** is a call of `pcre2_substitute()`, again and again until the application
is content. `pcre2_match()` is there by its results, one for each start and
`PCRE2_NOTEMPTY_ATSTART`. The actions follow the function: `Start`, `Match`, one action
for each item of a replacement, `EndOfReplacement`, `Callout`, `NextMatch`, `Finish`.
`CheckMemcpy`, `DelayedForceCase` and `CheckCaseCallout` are its macros. Characters are
model values of one or two code units, so that a change of case can change a length.
**SubstitutionMeaning** says what a replacement means for a match, after
pcre2api(3), with no buffer and no state; **SubstituteContract** is the abstract
specification, what an application may rely on: a right result, or a refusal, or
a length to come back with. `SubstitutionMeaning` instantiates it with `Promises[input]`,
`buff_length` and the result of the last call, and `KeepsContract` says that `Substitute`
implements it. Neither is mapped: they model no code.

**Bytecode** is the part of the compiled code that the interpreter reads: a sequence of
instructions, the opcode and its operands in a record, links between a bracket, its
alternatives and its end as offsets. Opcodes that differ only in the character test
(`OP_CHAR`, `OP_ANY`, `OP_CLASS`, ...) are one opcode with a set of characters, and so are
their repeats. **Compile** gives the code of a parsed pattern (built with `Lit`, `Rep`,
`Group`, `Quant`, `Cond`, `Behind`, `ScsGroup`, `Recurse`, `Backref`, `Verb`, `Simple`)
as `compile_branch()` does: the copies, optional copies and repeat brackets for each
minimum and maximum, what may be possessive, how far a lookbehind moves back. It is a
function and no state machine, because the code in the second pass depends on nothing
that the first leaves but its length.

**Match** is `match()` and the loop of `pcre2_match()`. A state with `pc = "match"`
executes the opcode of the top frame, one with `pc = "return"` the code after the label
`RMnn` that the frame remembers; the actions have the names of the labels and of the
opcodes. `frames` is the used part of `match_data->heapframes`; `mb` holds the fields
of the match block that outlive an opcode; `start_match`, `match_partial` and
`start_partial` are locals of `pcre2_match()`. `RMATCH`, `RRETURN` and `SCHECK_PARTIAL`
are the macros: `RRETURN` goes back by `back_frame` frames, which are thereby dropped
with all they held.

**CodeNesting** says how the brackets of a code are nested, and what `match()` takes for
granted of the code wherever it goes on at another opcode (`Nested`): that an alternative
leads to one of the same bracket, that a ket is linked to its bracket, that a call goes to
a capture group, that nothing but END ends outside all groups. They are the rules a
verifier of the code would check; the library has none. **MatchFrames** says how the frames
of a running match fit together (`FramesFit`). A frame below the top one waits at its
label, and from the label follow the opcode it is at (`Waits`), the bracket it is in
(`GroupAt`) and the one whose branch the frame above was made for (`Tried`); `Linked` says
that the last group frame is the start of the bracket a frame is in, `Ordered` that groups
are nested on the stack. The two modules hold invariants and the words they need, and are
not mapped.

**Study** is what `pcre2_compile()` finds out about a pattern so that searches can be
short: the first and the required code unit as `compile_branch()` and
`compile_regex()` keep them up (`Literal`, `Repetition`, `AfterBracket`, `MergedBranch`),
`is_anchored()`, `is_startline()`, `find_firstassertedcu()`, and `pcre2_study.c`:
`find_minlength()` and `set_start_bits()`. A code unit is the set of characters it stands
for, so that caselessness is a set of two. Like `Compile` it is functions. **StartOptimize**
is what the two drivers do with it before each attempt, including what they remember of
earlier searches (`seen`: `memchr_found_first_cu`, `memchr_found_first_cu2`,
`req_cu_ptr`); `Match` and `Dfa` have it in their drivers, where one copy of the code is
in each matcher. `StartFacts` was compared with `pcre2_pattern_info()` of the library
built from this source on some 3000 patterns.

**AutoPossess** is `compare_opcodes()` and what calls it: a function of the code that gives
the code with some repeats made possessive, before it is studied. Sets of characters
stand for OP_CHAR, the dots and OP_CLASS, and are compared the way these are. `Possessified`
of `MatchCheck` is PCRE2_AUTO_POSSESS, on or off; the alternative matcher is checked
without it, since pcre2matching(3) says that it makes that matcher find fewer of the
shorter matches.

**DfaWorkspace** is the chain of blocks in which the inner calls of the DFA matcher
(assertions, atomic groups, recursions) take their workspace and their offsets: `EnterHere`,
`EnterNext` and `EnterNew` are the three outcomes of the test before a call together with
`more_workspace()`, `NoRoom` and `NoMemory` its errors, `Leave` the end of a call,
`Again` a further round of a possessive group in the same piece, `Restarted` the next
starting point, which keeps the blocks. **Dfa** is `internal_dfa_match()` and the loop
of `pcre2_dfa_match()`, with `DfaWorkspace` as its heap: `calls` is the stack of calls,
each with its `active` and `new` states (`ADD_ACTIVE`, `ADD_NEW`, `ADD_NEW_DATA` are
`Add`), and one action handles the state `active[i]` for each kind of opcode; an inner
call is a step that pushes a call, and `AssertionDone`, `ConditionDone`,
`RecursionDone`, `PossessiveGroupDone` and `AtomicGroupDone` are what follows its return.
It reads the code of `Compile`. **DfaStates** has `dfa_compatibility()` and says where
states may be: `Leads` is where a state at an item leads, `CallsOn` the brackets it makes a
call on, and `Followable` what a code has to be so that whatever a call comes to is inside
its bracket and ends at its ket. **DfaSemantics** is the set of all matches of a pattern,
which is what **DfaCheck** compares the result with. Neither `DfaSemantics` nor the
comparison nor the invariant of `DfaStates` is mapped.

**Lifetimes** is the heap of an application that uses the library: a set of blocks, each
with the allocator that made it, what it points at and whether it is free. Every function
that makes, copies or frees a code, a table, a context, match data, a byte stream, a
copied subject, a vector of frames or a text is an action, with memory running out at each
of its requests. What a call leaves in match data is there by kind (matched, no match,
partial, error, left by a failed copy of the subject). `CodeCopy`, `CodeFree` and the
decoding of a stream are cut in steps where the reference count of the shared tables is
read and where it is written; `Unlocked` says which of them are made without the lock
that pcre2api(3) asks the application for, and `Mixed` whether an application may
continue a match with a match context of another allocator than the match data's.

**PatternSemantics** says what a pattern *means*, with no frames and no code: the list of
all ways to match, best first, as a function of the items of the pattern, with a
treatment of verbs after pcre2pattern(3). It models no code and is not mapped;
`MatchCheck` compares `Match` with it. It is what the interpreter is to implement,
stated as a function because the result of a match is one, so the comparison is made
when a match ends (`MatchesAsDefined`) rather than step by step.

## 3. Runs

| run | properties | shows |
|---|---|---|
| `global_match` | `TypeOK`, `MatchesInOrder`, `NoInternalDupmatch`, `StartsAtCharacter`, `Progress`, `Terminates` | Iterating over all matches of a subject reports them in order, once each, without getting stuck or ending before the whole subject is searched, for every subject of up to three code units and every result pcre2_match() may give. |
| `matches` | `TypeOK`, `GroupsFound`, `MatchesAsDefined`, `AnswersStand`, `SoftPrefersComplete` | Groups repeated in every way, back references, assertions, conditions, scan-substring assertions, calls and backtracking verbs match what the pattern means, captures and marks included; what a partial match, hard or soft, tells still holds when more of the subject arrives; and at the end of a group or call match() finds the frame that tried or called it. |
| `limits` | `LimitsChangeNothingElse`, `WithinLimits`, `FramesFit`, `StackWellFormed`, `CapturesCovered`, `LoopsAreCaught`, `Terminates` | Every match ends; the match and depth limits hold, are never mistaken for a failure to match, and recursion without progress is reported before it reaches them; on the way the frames fit together: each waits at its label in the groups that its links say, and offset_top covers the captures that are set. |
| `heap_frames` | `TypeOK`, `FramesFit`, `NoWraparound`, `NearLimit` | The vector of frames holds every frame written, over growth, limits and reuse with frames of other sizes. |
| `substitute` | `TypeOK`, `AccountingIsExact`, `KeepsContract`, `NothingLeftOut`, `Terminates` | pcre2_substitute() keeps what it promises: the text it makes is the one the replacement means, the buffer is never overrun, and the length told when there is no room is one that a second call needs at most, whatever case forcing and the callouts do. |
| `dfa` | `FindsAllMatches`, `AnswersStand`, `SoftPrefersComplete`, `RestartContinues`, `CompatibleIsSupported`, `WithinLimits`, `LoopsAreCaught`, `Terminates` | The DFA matcher finds every match that starts at the first possible place, longest first, also when the subject comes in segments; its inner calls never spoil each other's workspace; the limits hold; and a pattern that the compatibility query accepts meets nothing it does not support. |
| `dfa_workspace` | `PiecesApart`, `WithinHeapLimit` | Whatever calls are nested in whatever order, under whatever limit, no inner call of the DFA matcher gets a piece of workspace that another still uses, and the heap limit is kept. |
| `lifetimes` | `HeapIsSound`, `RefCountsCodes`, `NothingLeaks` | Whatever is compiled, copied, serialized, matched, substituted and freed in whatever order, with memory running out anywhere, every block is freed once, by the allocator that made it, and none is lost or used after it was freed. |

Each has bounds that let what it is about happen:

* `global_match`: subjects of up to three units suffice for CRLF with a neighbour, for a
  character of three units, and for an empty match after a non-empty one at each offset.
* `matches`: the union of families of patterns (`GroupPatterns`,
  `AssertionPatterns`, `RecursionPatterns`, `VerbPatterns`, `PartialPatterns`,
  `StartPatterns`, `PossessPatterns`), about 50,000 matches. In each
  pattern an inner part that can match in several ways (`a|ab`) meets what makes the
  match backtrack into it; subjects of two letters, up to four long, are enough to have a
  first way succeed, fail later and another be taken. The patterns combine each group
  kind, repeat form, assertion kind, list of returned captures, verb and place for a verb.  The fifth family (`PartialPatterns`) asks for partial matches: every position test, assertion, repeat and back reference at the end of a
  subject, with a newline and with up to two more characters to come.
  `PossessPatterns` puts repeats of characters into each kind of group and each kind of
  thing after it, and has them made possessive; the subjects let what follows fail until
  something is given back. `StartPatterns` joins
  each thing that the study looks for at the start of a pattern (literals with and without
  case, repeats that may be left out, groups, assertions, conditions, stars, references)
  with what may come after it, under anchoring, first line, offset limits and partial
  matching; newline is a character there, `a` has another case, and the subjects have three
  characters (two for partial matches). The verbs are matched
  without start optimisations, since pcre2api(3) allows these to skip verbs.
* `limits`: every limit from 0 to 8 is met by some of the matches at every depth; the
  looping patterns have 60 frames, more than any match there that ends needs; the patterns
  with *SKIP move the starting point to where it is and to a mark before it. The group,
  assertion and recursion families run here on one subject each, with and without limits,
  so that the invariants of the frames meet every label of `match()`.
* `heap_frames`: frames of one KiB, of a size that is no divisor of a KiB, and large ones;
  limits below, at and above the first size; an address space of 96 KiB, so that
  doubling reaches its end.

* `substitute`: every result that the matcher may give on one character, four patterns
  on two and three, so that there are up to three matches, empty ones among them; buffers
  of no length, of enough and of lengths between, so that the room ends before, in and
  after each kind of item; nested texts up to the limit and beyond (`MaxNesting` 3).
  `MaxSize` 24 is met by counts that are refused. `CaseSlack` 1 stands for the
  10 of `pessimistic_case_inflation()`: any number is right there.

* `lifetimes`: four blocks are a code and its tables with a copy and a stream, or two
  decoded codes with their tables, or a code with match data, frames and a copied subject;
  two allocators, so that a block given back to the wrong one is seen; two threads, the
  least that can interfere. Application and library keep the rules of pcre2api(3): a code
  and a subject outlive the match data that refers to them, unless it was copied.

* `dfa`: patterns whose states meet in one place by several ways (alternations, repeats of
  characters and of groups, assertions, atomic and possessive groups, recursions) on all
  subjects of two letters up to length four; subjects in two and three segments; heap
  limits below, at and above the first block and the second. `InnerStates` 166 is what
  `RWS_RSIZE` holds; `RecursionPairs` 3 stands for the 1000 of `RWS_OVEC_RSIZE`, so
  that recursions need further blocks soon. Nested calls go through four blocks.

`Terminates` is checked under weak fairness of `Next`: the matcher and the application
are each one thread that keeps running, so a step that is enabled is taken. Nothing else
is assumed. For `global_match` it also says that the iteration does not end early: it
stops when a call found nothing, or when the last match ends where the subject does.
Deadlock is not checked for runs of matches because a match ends; it is for
`heap_frames`, which may always go on.

Where the code does not do what the documentation says (section 4), the families of the
passing runs leave out the combination: *SKIP with a name in negative assertions,
conditions and calls; *THEN after an assertion or in a repeat; verbs after a nested call
of the same group; *ACCEPT after an assertion or in one inside a call; possessive repeats
of a call. In `dfa`: `PCRE2_ENDANCHORED`; `PCRE2_NOTEMPTY`,
`PCRE2_DFA_SHORTEST` and partial matching with inner calls; repeated atomic groups
of more than one character; possessive groups with empty bodies. Assertions about the position are left out
where a subject comes in segments, as pcre2partial(3) says, and soft partial matching
is compared for one starting point. One more combination is left out because the documentation does not settle it: partial matching inside
a scan-substring assertion, whose subject ends before the real one.

## 4. Where code and documentation differ

These runs end with a violation, one of them for each model:

* `escaped_literal` (`QuotingEndsWithReplacement`, pcre2_substitute.c:760). escaped_literal is set up once for a call and not for each match, so a \Q that is not ended by \E makes the whole replacement literal from the second match on: s/(a)/$1\Qx/g in extended mode gives ax$1\Qx for "aa". src/doc/man/pcre2api.3:4867 says: "Extended quoting can be coded using \Q...\E, exactly as in pattern strings", where an unended \Q lasts to the end of the string it is in.
* `substitute_allocator` (`HeapIsSound`, pcre2_substitute.c:930). With PCRE2_SUBSTITUTE_MATCHED the internal match data is made by the allocator of the match context or the code, and the copy of the match data that is given writes over that in its memctl: it is freed by the allocator of the match data given, which need not be the same. src/doc/man/pcre2api.3:802 says: "Whenever PCRE2 creates a data block of any kind, the block contains a pointer to the free() function that matches the malloc() function that was used. When the time comes to free the block, this function is called.".
* `skipzero` (`MatchesAsDefined`, pcre2_compile.c:6449). first_significant_code() leaves a group that OP_SKIPZERO skips by the link of its first alternative, and takes the second alternative for what follows the group: (a|^b){0}b is compiled as anchored, and does not match "ab". src/doc/man/pcre2pattern.3:2423 says: "The quantifier {0} is permitted, causing the expression to behave as if the previous item and the quantifier were not present."
* `atomic_entered` (`MatchesAsDefined`, pcre2_auto_possess.c:741). On the way around a group that may be left out, and on that through an alternative but the last, compare_opcodes() calls itself without passing on that an atomic group was entered (entered_a_group starts as FALSE), so its end counts as that of the group the repeat is in: a*(?>(b)?)a, made a*+(?>(b)?)a, does not match "aa". src/doc/man/pcre2api.3:2243 says that auto-possessification is "an optimization that, for example, turns a+b into a++b in order to avoid backtracks into a++ that can never be successful".

These have no run. They were met when `Match` was compared with `PatternSemantics`, and
all those of patterns, here and above, reproduced with the library built from this source:

* pcre2_compile.c:7975. (?1){2,}+ is compiled as copies of the call outside the possessive group, so a later failure backtracks into them: (?1){2,}+$(?(DEFINE)(a|ab)) matches "aab" and (?>(?1){2,})$... does not. src/doc/man/pcre2pattern.3:2685 says: "there is no difference in the meaning of a possessive quantifier and the equivalent atomic group".
* pcre2_match.c:1015. *ACCEPT in a recursion that returns captures goes on at the returned-group list after the call, which match() does not know as an opcode: (?1(2))(?(DEFINE)((a(*ACCEPT))b)) gives PCRE2_ERROR_INTERNAL on "a". src/doc/man/pcre2pattern.3:4259 says: "when it is inside a capture group that is called as a subroutine, only that group is ended successfully. Matching then continues at the outer level."
* pcre2_match.c:8820. A search that is anchored ends after MATCH_SKIP_ARG, before the start is tried again with the verb ignored: a(*SKIP:A)b|ac anchored does not match "ac", though the comment at src/src/pcre2_match.c:8753 gives this very pattern as the one to get right. src/doc/man/pcre2pattern.3:4551 says: "If no (*MARK) with a matching name is found, the (*SKIP) is ignored."
* pcre2_match.c:6426. MATCH_SKIP_ARG in a recursion makes the call fail before anybody knows whether the mark exists: (?(DEFINE)(a|[ab](*SKIP:A)b|[ab][ab]))(?1)|[ab] on "ba" matches "b", and "ba" without the verb. src/doc/man/pcre2pattern.3:4551 says: "If no (*MARK) with a matching name is found, the (*SKIP) is ignored."
* pcre2_match.c:8757. When a start is tried again to ignore one *SKIP:NAME, all those met before it are ignored too (skip_arg_count <= ignore_skip_arg), though their marks exist: a(*MARK:A)b(*SKIP:A)c(*SKIP:Z)d|abce matches "abce" at 0. src/doc/man/pcre2pattern.3:4548 says: "the previous path through the pattern is searched for the most recent (*MARK) that has the same name. If one is found, the "bumpalong" advance is to the subject position that corresponds to that (*MARK)".
* pcre2_match.c:8763. ignore_skip_arg is not reset when *SKIP moves the start, so verbs are ignored at the new start that were not met there: x(*SKIP:A)y|x(*SKIP)z|(*MARK:A)b(*SKIP:A)c|bd on "xbd" matches "bd". src/doc/man/pcre2pattern.3:4548 says: "the previous path through the pattern is searched for the most recent (*MARK) that has the same name. If one is found, the "bumpalong" advance is to the subject position that corresponds to that (*MARK)".
* pcre2_match.c:6520. A negative assertion passes MATCH_SKIP_ARG on, so the verb escapes to a mark before the assertion: (*MARK:X)(?!a(*SKIP:X)b)a does not match "ac". src/doc/man/pcre2pattern.3:4768 says: "for both standalone and conditional negative assertions, backtracking into (*COMMIT), (*SKIP), or (*PRUNE) causes the assertion to be true".
* pcre2_match.c:6475. MATCH_THEN from after an assertion is taken by the assertion for one of its own, which then just fails, and .*? before it is backtracked into: (?:.*?(?=[bc])(*THEN)c|xyz) matches "abc". src/doc/man/pcre2pattern.3:4609 says: "on failure, the matcher skips to the second alternative and tries COND2, without backtracking into COND1".
* pcre2_match.c:6349. The innermost group is decided by a comparison of code addresses that a second round of a repeated group satisfies for the first: (?:(?:(*THEN)(a|ab))+?c|abc) on "abc" backtracks into (a|ab). src/doc/man/pcre2pattern.3:4609 says: "on failure, the matcher skips to the second alternative and tries COND2, without backtracking into COND1".
* pcre2_match.c:6426. A verb that follows a nested call of the same group is taken for one inside that call, because the two have the same group number: (?1)$(?(DEFINE)(x|a(?1)(*COMMIT)z|axy)) matches "axy". src/doc/man/pcre2pattern.3:4783 says: "(*COMMIT), (*SKIP), and (*PRUNE) cause the subroutine match to fail when triggered by being backtracked to in a group called as a subroutine. There is then a backtrack at the outer level."
* pcre2_match.c:6466. MATCH_ACCEPT from after an inner assertion is taken by that assertion, in which nothing was accepted, and the match goes on from its end with the captures of the wrong frame: (?=(?=a)(?:(?(1)z|(a)(*ACCEPT)))) does not match "ab". src/doc/man/pcre2pattern.3:4733 says: "(*ACCEPT) in a standalone positive assertion causes the assertion to succeed without any further processing; captured strings and a mark name (if set) are retained."
* pcre2_match.c:939. OP_CLOSE does nothing inside a recursion, so *ACCEPT in an assertion there does not set the group it is in: (?1)(?(DEFINE)((?=(a(*ACCEPT)))\2)) does not match "a". src/doc/man/pcre2pattern.3:4733 says: "(*ACCEPT) in a standalone positive assertion causes the assertion to succeed without any further processing; captured strings and a mark name (if set) are retained."
* pcre2_match.c:539. recurse_update_offsets() raises offset_top for a returned group that is unset: (?1(2))(?(DEFINE)((?:(b)|(c)))) on "c" returns 3 with groups 1 and 2 unset. src/doc/man/pcre2api.3:3994 says: "The value returned by pcre2_match() is one more than the highest numbered pair that has been set."
* pcre2_match.c:7183. The end of a scan-substring assertion does not put PCRE2_NOTEOL back, which its beginning (src/src/pcre2_match.c:6613) takes out: (a)(*scs:(1)a)$ with PCRE2_NOTEOL matches "a", and a$ does not. src/doc/man/pcre2api.3:3788 says: "This option specifies that the end of the subject string is not the end of a line, so the dollar metacharacter should not match it".
* pcre2_match.c:7372. A multiline circumflex fails at the end of the subject after a newline without noting that it looked there: x\n^a with PCRE2_PARTIAL_HARD gives no match for "x\n", and matches "x\na". src/doc/man/pcre2partial.3:131 says: "No match can start anywhere in this subject."
* pcre2_match.c:8261. The first size is compared with the limit in whole KiB, so up to 1023 bytes more are allocated: ten frames of 2144 bytes need 21440, and are allowed under a limit of 20 KiB. src/doc/man/pcre2api.3:1401 says: "specifies, in units of kibibytes (1024 bytes), the maximum amount of heap memory that pcre2_match() may use to hold backtracking information".
* pcre2_match.c:818. A new size that the limit cuts short makes good for the bytes of the old size over a whole KiB with 1024 - over_bytes where over_bytes would be right: from 21440 bytes under a limit of 21 KiB (21504 bytes) the vector grows to 22400. src/doc/man/pcre2api.3:1401 says: "specifies, in units of kibibytes (1024 bytes), the maximum amount of heap memory that pcre2_match() may use to hold backtracking information".
* pcre2_dfa_match.c:3583. When nothing else is alive, a repeated atomic group continues at once, without going on by the characters it matched (ADD_NEW with nothing to hold it back): (?>aa)+b on "aaaab" finds "aab" at 2, and there is a longer match at 0. src/doc/man/pcre2matching.3:120 says: "if there is more than one possible match, this algorithm finds all of them, and in particular, it finds the longest".
* pcre2_dfa_match.c:3440. A possessive group whose body matches the empty string ends when a round matches nothing, and its empty match is not taken for one: (?:a|)++b does not match "b". src/doc/man/pcre2matching.3:120 (as above).
* pcre2_dfa_match.c:3488. A possessive group of zero or more rounds that matches nothing continues one character late if other states are alive: (?:(?:x)*+b|c) does not match "b". src/doc/man/pcre2matching.3:120 (as above).
* pcre2_dfa_match.c:3670. PCRE2_ENDANCHORED is applied in the inner calls for assertions and atomic groups: (?=a)ab does not match "ab" with it. src/doc/man/pcre2api.3:2073 says that it "applies only to the first (that is, the longest) matched string".
* pcre2_dfa_match.c:3694. A match that ends before the end of the subject is kept while longer paths are followed, and is still there when they fail: a|abcd with PCRE2_ENDANCHORED on "abc" returns (0,1). src/doc/man/pcre2api.3:2073 (as above).
* pcre2_dfa_match.c:932. PCRE2_NOTEMPTY is applied in inner calls: (?=a*)b with it does not match "b". src/doc/man/pcre2api.3:3806 speaks of the match that is reported only.
* pcre2_dfa_match.c:949. PCRE2_DFA_SHORTEST ends inner calls after their shortest match: (?1)c(a|ab){0} does not match "abc" with it. src/doc/man/pcre2api.3:5349 says: "this is necessarily the shortest possible match at the first possible matching point".
* pcre2_dfa_match.c:3544. An inner call that ends in a partial match ends the whole attempt: (?>ab)|a with PCRE2_PARTIAL_SOFT on "a" is a partial match. src/doc/man/pcre2partial.3:371 says: "PCRE2_ERROR_PARTIAL is returned only if there have been no complete matches".
* pcre2_dfa_match.c:3583. A repeated atomic group is not resumed: (?>a)+b in the segments "a" and "b" gives a partial match and then none.
* pcre2_compile.c:1280. The reference count of shared tables is incremented without a lock or an atomic operation, so two threads that copy a code at once may count one copy, and the tables go while a code uses them. src/doc/man/pcre2api.3:1782 says: "The pcre2_code_copy() function provides a way for individual threads in a multithreaded application to acquire a private copy of shared compiled code", and src/doc/man/pcre2serialize.3:256 asks for locks round pcre2_code_free() only.
* pcre2_substitute.c:1838. pcre2_substitute() writes its own return value, the number of substitutions, over the result of the last match in the match data, so that pcre2_substring_length_bynumber() after a global substitution finds a match, and pcre2_substring_list_get() takes the number for that of the groups. src/doc/man/pcre2api.3:4664 says that "its contents afterwards are the result of the final call made internally by pcre2_substitute() to the matching function. For global changes, this will always be a no-match error".
* pcre2_study.c:625. While the length of a group is being found, an alternative that refers to it does not count, and the length of another group that had this alternative is remembered nevertheless: in (?:(xxx|\2y)|(z|\1w))+\1{4} group 1 is measured without its second alternative, as 3 and not 2, so the minimum length is 13, and the match of "zzyzyzyzyzy" is missed. src/doc/man/pcre2api.3:3305 says: "The value is a lower bound to the length of any matching string."
* pcre2_compile.c:9607. A condition whose assertion is at a line start and whose first alternative is too makes its pattern match at line starts only, though the second alternative is not looked at: (?m)(?(?=^)^a|b) does not match "xb". The comment at src/src/pcre2_compile.c:9555 says that the function finds out "if every branch starts with ^ or .*".
* pcre2_compile.c:9931. When the alternatives of an assertion begin with the same letter, with case in one and without in another, the flags of the first are kept: (?=a|(?i)a)[aAb] does not match "A". The comment at src/src/pcre2_compile.c:9855 says: "If all branches start with the same asserted code unit ... then we return that code unit, with the flags set to zero or REQ_CASELESS".
* pcre2_match.c:8809. With PCRE2_FIRSTLINE the line end is looked for where the attempt that failed started and not in what *SKIP jumps over: a\n(*SKIP)x|b on "a\nb" matches at 2. src/doc/man/pcre2api.3:2134 says: "the start of an unanchored pattern match must be before or at the first newline".
* pcre2_auto_possess.c:662. The end of a scan-substring assertion, which may be gone back into, is passed over like that of a plain group: the last repeat of (aa)(*scs:(1)(a*))b\2$ becomes possessive as "b" comes next, and "aaba" is not matched. src/doc/man/pcre2api.3:2243 says that auto-possessification is "an optimization that, for example, turns a+b into a++b in order to avoid backtracks into a++ that can never be successful".

Two things about `pcre2_substitute()` are as the code says and no error: the length told
when a replacement runs out of room in its middle leaves out the room there was before
the text that did not fit, and so may ask for more than a cancelled replacement needs; and
a call that only counts may report an error of a later match that a call with enough
room would not reach, because its callout ends the substitution earlier.

Left recursion is reported as `PCRE2_ERROR_RECURSELOOP` in the patterns of `limits`; it
is not in every pattern: `^(?1)$(?(DEFINE)(a|(?1)b))` matches "abbb", since the second
call is made only after characters beyond the first have been looked at.

## 5. Proofs

For all values of the constants, with TLAPS:

* `GlobalMatchProofs`, for subjects of any length. `IInv` strengthens the properties
  with what links the loop's variables to the history: start and matches are offsets at
  which characters begin, every match reported ends at or before the next start, and one
  that ends there is non-empty or has set `PCRE2_NOTEMPTY_ATSTART`. Without the last
  part `NoDuplicates` is not inductive: only the flag keeps an empty match from being
  reported again. From `IInv`: `TypeCorrect`, `Guarantee` (order and no duplicates),
  `NoDupmatch` (the internal error of `pcre2_substitute()` is unreachable),
  `CharacterStarts`, and, from the same invariant, the action property `AlwaysProgress`. The
  lemma `BumpProperties` says what `do_bumpalong()` does at every offset.
* `HeapFramesProofs`, for every set of frame sizes and limits and every size of the address
  space (ten frames of any pattern fit it: they have at most 65535 groups).
  `IInv` adds two things to the properties. `CurrentFrame`: the used part holds at least
  the current frame. `AddressSpaceLeft`: a vector is never of `PCRE2_SIZE_MAX` bytes, so
  that the test against `PCRE2_SIZE_MAX - 1` is the only one needed. The lemma
  `NewSizeFits` has the arithmetic of growth: the new size is no less than the old, near
  the limit, and in the address space. From `IInv`: `TypeCorrect`, `FramesAlwaysFit`,
  `NeverWraps`, `AlmostWithinLimit`, `ZeroLimit`.

* `SubstituteProofs`, for all characters, inputs and limits. `IInv` adds to the
  properties what the operations that take text back need: `ReplacementMarked` and
  `CaseMarked` say that the marks to which a callout returns are ends of beginnings of
  the buffer (an offset inside a character is none), so that the room given back is
  the room that was used; `MatchInSubject` that what is copied lies in the subject;
  `LengthTold` that an overflow was counted. The lemmas on texts
  (`SizeConcat`, `SizeGrows`, `SplitProperties`) carry the accounting; `CopyExtends`,
  `RewindKeeps` and `CaseCalloutKeeps` say what each operation on the output does to
  the marks. From `IInv`: `TypeCorrect`, `ExactAccounting`, and the action properties
  `NoGaps` and `GrowingLengths`.

* `DfaWorkspaceProofs`, for all sizes of blocks and states, any heap limit and any depth of calls.
  `IInv` says that the pieces of the running calls lie one behind the other without gaps
  in the blocks used, in the order of the calls, that what is used in a block is what
  they take, and that blocks behind the current one are unused. `NoCallSpoilsAnother`:
  the pieces of two calls never overlap, though a call reuses the blocks that earlier
  calls and starting points left. `WorkspaceWithinLimit`: the blocks together are within the heap limit.

* `LifetimesProofs`, for any finite memory and any number of threads, allocators and codes in a
  stream. The hypotheses are `Unlocked = {}`, the lock that pcre2api(3) asks for
  ("Multithreading": pointers to compiled patterns "must be protected from simultaneous
  writing by multiple threads"), and `Mixed = FALSE`, which excludes what the run
  `substitute_allocator` shows to be wrong. None of the three properties is inductive.
  `Heap` adds to them that every block has one owner, of the right kind and with its
  allocator (`RefersWell`, `OneOwner`), that a result other than an error has its subject
  (`Truthful`), and that what is neither held nor owned is free, a code or tables
  (`Kept`). `Shared` adds what is true within a function: the count that a thread has read
  is still the count (`CopyOK`, `FreeOK`), a code that is being copied is not counted yet
  (`CountOK`), tables that are being decoded have as users just the codes made so far, which
  nobody else can reach (`DecodeOK`, `Apart`), and a code that nobody holds is in the hands of
  just one thread (`PendingOK`). `Heap` is a predicate of a memory and not of a state, so
  that functions that change several blocks are followed step by step: `Allocating`,
  `Attaching`, `Changing`, `Detaching` and `Wiping` say what one change does to it, and
  every action is a sequence of these. From the invariant: `HeapStaysSound`,
  `RefCountsStayRight`, `NothingIsLost`, `TypesStayRight`.

* `MatchProofs`, for every set of codes whose brackets are nested, whatever patterns they
  came from, every subject and all options and limits. What the code after a label does
  with the frame it finds is right only if that frame was left there for this purpose, and
  the code tests nothing of it: an assertion that is true goes back over all the frames of
  its group in one step, the end of a recursion takes the captures of the frame below its
  first one, and a frame that is made is a copy of the one below. `IInv` is over all the
  frames that are held, since every one may be the top one again: each is linked to the
  frame that was made for the group it is in (`Linked`), waits where its label may be
  (`Waits`), and the group frames are nested (`Ordered`). `StackWellFormed` alone is not
  inductive: that the last group of a frame is further down is kept at a ket only because the
  frame below the group's first frame is in the group outside, which `Linked` says with the
  nesting of the code. `Ordered` is what lets a jump over several frames (`back_frame`) come
  down in the group it left; its second part is about possessive groups, whose ends go back
  to the frame that waits at `RM8`. `PushFrames`, `PushGroup`, `Pop` and `Leave` say what a
  stack is after a frame is put on it, after any number of frames are dropped and after the
  group of the top frame is left; `AtOpcode` and `AtLabel` what is known there; and for each action
  there is one lemma `...Keeps`. From
  the invariant: `FramesAlwaysFit`, `LinksHold`, `LimitsHold`, `GroupsAreFound`.

  `CapturesAreCovered`, that no frame has a capture set above its `offset_top`, needs more than
  `IInv`. A capture is looked at only after its number was compared with `offset_top`, and the
  ends of three kinds of groups put captures into other frames than the top one: the ket of a
  possessive group and that of a condition hand them down to the frame below the group, and the
  end of a recursion mixes those of two frames. `CapturesFit` therefore says (`Grows`) that
  `offset_top` is nowhere less than in the frame below that of the group, from which captures
  may come. This is not inductive either: when a possessive group hands its captures down to
  the frame that waits for them, the frames between this one and the group's first may have
  fewer than the group now began with. They are about to be dropped without being looked
  at, so while the return code is `MATCH_KETRPOS` a frame need not fit if neither it nor one
  further up waits for the end of a possessive group (`Awaited`). `CapturesFit` also says that a
  frame at `RM13` is at a verb: what is returned from there is the verb's code, and so never that
  of (*ACCEPT). For each action there is one lemma `...Fits`; `TwinsFit` is for frames that change only where
  captures are not concerned, `LeftFits` for a group that is left, `HandingFits` for captures
  handed down, and `MaxOfBounded` (a bounded set of numbers has a greatest) for `offset_top`
  itself, which at the end of a recursion is the greatest capture of a set.

  `CodeAssumption` (the codes are nested) is what the compiler guarantees; TLC evaluates it for the
  code of every pattern of `matches` and `limits`, auto-possessified or not.

* `DfaProofs`, for every set of codes that lead out of a bracket only by its ket, every
  subject in any segments, all options and limits and any size of the inner workspace.
  `internal_dfa_match()` follows the code from item to item and tests neither where it
  is nor what it hands to the call that made it. `IInv` says that every state in the three
  lists of every call is at an item inside the call's bracket (`StatesIn`), that the call
  made first is on the whole pattern, and that a call which waits is at an item that makes
  a call (`Waits`): without this the end of a call could find its caller anywhere, and
  `AssertionDone` could add a state outside the bracket. `Answer` says that a call that
  tells of a match has one: an inner call has at least one pair, which `ConditionDone` and
  `PossessiveGroupDone` rely on when they read the first. `Remembered` says that the states
  kept for `PCRE2_DFA_RESTART` are still in the workspace when there is a partial match:
  either the list has not been left, or another character was read with a state to go on
  from. And when the query accepts the code, no error about an item has been seen, now or
  in the final result; this is the only part that uses `Compatible`. The proof that a step
  keeps `IInv` has a lemma for each action; they rest on
  `FirstStates` (the first states of a call are inside), on `StatesConcat`, `StatesReplace`
  and `FlattenStates` (lists of states stay lists of states), and on `LeadsTo`, from which
  each action takes the place that it adds. `CallBegins`, `AddKeeps`, `ReturnKeeps` and
  `StopKeeps` say what the stack of calls is after a call begins, adds states, ends or fails. From the
  invariant: `LimitsHold`, `CompatibleNeverFails`. `CodeAssumption` is what the compiler
  guarantees; TLC evaluates it for the code of every pattern of `dfa`.

* `SequenceLemmas` is what the last two share. The branches of a bracket are a recursive
  function along the links of the code, and its value can be shown to exist only by
  induction: `SetInduction` proves the principle from the well-foundedness of the natural
  numbers, for one set instead of an operator, which the prover can instantiate. From it
  `BranchesAreHeads` (`DfaProofs`: the branches are brackets and OP_ALTs of the code) and `FlattenIsSeq`.

Assumptions are those of the modules: `MaxLengthAssumption`, `SizesAssumption`,
`SubstituteAssumption`, `WorkspaceAssumption`, `LifetimesAssumption`, and, once for `match()`
and once for the DFA matcher, `CodeAssumption` and `LimitAssumption`; `NumberAssumption` (the
number of a group at an `OP_CLOSE` or `OP_CREF` is unsigned) for `match()` and
`SizeAssumption` for the DFA matcher.

Only model-checked: liveness (`Terminates`), which needs fairness and is beyond the
prover; that `Substitute` keeps its contract, and that `Match` and `Dfa` find what a
pattern means, because the meaning is defined by recursion over the pattern with RECURSIVE
operators (`SubstitutionMeaning`, `PatternSemantics`, `DfaSemantics`, `Compile`), which the
prover does not take; for the same reason that limits change nothing
else. `LoopsAreCaught` is about the sizes of a run: in `limits` a bound of frames, in `dfa`
limits that no match without a loop comes to. The types of `Match` are still to be proved.
`CapturesCovered` (nothing above `offset_top` is set) is about codes without `OP_ASSERT_ACCEPT`: after `(?=(?1)(*ACCEPT)a)(x(y)(?=z))` on "xyz"
a capture above `offset_top` is set, since (*ACCEPT) goes back to the frame of the assertion
that the call ended with (section 4), which has the captures of the call and takes over
the `offset_top` of after it.

## 6. Not modelled, and what comes next

In `Match`: Unicode properties, caseless matching, `\X`, `\R`, `\C`, newlines of more
than one unit, callouts, script runs, the options that only change character tests. In
the driver: fragments of an invalid subject, CRLF at the start of an attempt, and
`REQ_CU_MAX`, beyond which the required code unit is not looked for.

The plan, most important first; abstract specifications in parentheses:

1. Driver: fragments of an invalid subject.
2. Two-pass compilation.
3. pcre2grep's buffer, pattern conversion, substrings, UTF validity and newlines.
4. A theorem about the types of the frames of `Match`, which says that no step moves a position
   beyond the ends of the subject. `IInv` has the frames and the groups they are in; missing is,
   for every frame, the end of the subject that is in force there, which the scan of a
   substring changes at both of its ends and whenever it is backtracked into, and that
   a capture does not end before it begins, though a lookbehind moves back.
5. Theorems about `Dfa`: that its blocks are those of `DfaWorkspace` used one call at a time, so
   that `NoCallSpoilsAnother` is true of its calls too.
