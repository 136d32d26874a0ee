---------------------------- MODULE MCSubstitute ----------------------------
(***************************************************************************)
(* Substitutions for model checking: every result the matcher may give on  *)
(* a subject of one character, a few patterns on longer ones, replacements *)
(* of every kind, buffers from none to enough.  "v" takes two code units,  *)
(* its upper case "V" one, so that forcing case makes texts longer and     *)
(* shorter.                                                                *)
(***************************************************************************)
EXTENDS SubstitutionMeaning

MCChar == {"a", "A", "v", "V", "$", "q", Nul}
MCWide == {"v"}
MCUpper == [c \in MCChar |-> IF c = "a" THEN "A" ELSE IF c = "v" THEN "V" ELSE c]
MCLower == [c \in MCChar |-> IF c = "A" THEN "a" ELSE IF c = "V" THEN "v" ELSE c]

Lit(c) == [op |-> "lit", text |-> <<c>>]
Sign(op) == [op |-> op, text |-> <<"$", "q">>]
Group(n) == [op |-> "group", group |-> n, text |-> <<"$", "q">>]
Name(ns) == [op |-> "name", numbers |-> ns, text |-> <<"$", "q">>]
Cond(op, n, set, unset) ==
  [op |-> op, group |-> n, set |-> set, unset |-> unset, text |-> <<"$", "q">>]
Bad(r) == [op |-> "bad", rc |-> r, text |-> <<"$">>]

Inner == Cond("plus", 1, <<Sign("U"), Lit("v")>>, <<Sign("Q"), Lit("V"), Sign("E")>>)
Middle == Cond("minus", 1, <<>>, <<Inner, Lit("a")>>)
Outer == Cond("plus", 0, <<Middle>>, <<>>)

\* Replacements, by what they are about.
Plain == {<<>>, <<Lit("a"), Lit("v"), Lit("a"), Lit("a")>>, <<Group(0), Group(1)>>}
Cases ==
  { <<Sign("U"), Group(0), Lit("a"), Sign("E"), Lit("v")>>,
    <<Lit("a"), Sign("u"), Sign("L"), Group(0), Lit("V"), Sign("l"), Lit("V"), Lit("A")>>,
    <<Sign("l"), Sign("U"), Lit("V"), Lit("v"), Sign("u"), Lit("v"), Lit("v")>>,
    <<Sign("U"), Lit("v"), Lit("v"), Lit("v"), Sign("L"), Lit("A"), Sign("u"), Sign("L")>>,
    <<Sign("L"), Lit("V"), Lit("V"), Group(1), Sign("mark"), Sign("l"), Sign("U")>> }
Texts ==
  { <<Cond("plus", 1, <<Lit("a")>>, <<Lit("v"), Lit("v")>>), Lit("A")>>,
    <<Cond("minus", 1, <<>>, <<Sign("u"), Lit("v")>>), Lit("v")>>,
    <<Outer, Lit("v")>>, <<Cond("plus", 0, <<Outer>>, <<>>)>>,
    <<Lit("a"), Sign("Q"), Group(1), Sign("U"), Sign("E"), Lit("v")>>,
    <<Sign("U"), Sign("Q"), Lit("v"), Sign("E"), Lit("v"), Sign("E"), Lit("v")>> }
Special ==
  { <<Sign("prematch"), Lit("a"), Sign("postmatch")>>, <<Sign("whole"), Sign("mark")>>,
    <<Sign("highest")>>, <<Name(<<2, 1>>)>>, <<Name(<< >>), Lit("a")>>,
    <<Lit("a"), Group(2)>>, <<Lit("a"), Bad("BADREPLACEMENT")>>,
    <<Lit("v"), Lit("v"), Bad("BADREPESCAPE")>> }
Replacements == Plain \cup Cases \cup Texts \cup Special

RECURSIVE ItemsOf(_)
ItemsOf(t) ==
  UNION {{t[k]} \cup IF t[k].op \in {"plus", "minus"}
                     THEN ItemsOf(t[k].set) \cup ItemsOf(t[k].unset) ELSE {} : k \in DOMAIN t}
MCItem == UNION {ItemsOf(t) : t \in Replacements \cup {<<Sign("Q"), Group(1), Lit("a")>>}}
          \cup {Lit(c) : c \in MCChar}

-----------------------------------------------------------------------------
No == [rc |-> "NOMATCH"]
Hit(s, e, groups) == [rc |-> "ok", ovector |-> <<s, e>>, groups |-> groups, mark |-> <<"v">>]

\* Patterns: every character, with its group or, for the last, without; nothing
\* or the longest run of "a"; anything to the end; a limit after one match.
EachChar(n) ==
  [s \in 0..n, e \in BOOLEAN |->
     IF s = n THEN No ELSE Hit(s, s + 1, << IF s = n - 1 THEN <<>> ELSE <<s, s + 1>> >>)]
Nothing(n) ==
  [s \in 0..n, e \in BOOLEAN |->
     IF e /\ s = n THEN No ELSE Hit(IF e THEN s + 1 ELSE s, IF e THEN s + 1 ELSE s, << <<0, n>> >>)]
Alternating(n) ==
  [s \in 0..n, e \in BOOLEAN |->
     IF s = n THEN IF e THEN No ELSE Hit(n, n, << <<>> >>)
     ELSE IF e \/ s > 0 THEN Hit(s, s + 1, << <<s, s>> >>) ELSE Hit(0, 0, << <<>> >>)]
Tail1(n) ==
  [s \in 0..n, e \in BOOLEAN |-> IF s <= 1 /\ n > 0 THEN Hit(1, n, << <<0, n>> >>) ELSE No]
Limit(n, r) ==
  [s \in 0..n, e \in BOOLEAN |-> IF s = 0 /\ n > 0 THEN Hit(0, 1, << <<>> >>) ELSE [rc |-> r]]
Patterns(n) == {EachChar(n), Nothing(n), Alternating(n), Tail1(n)}

Base == [subject |-> <<"a", "v">>, start |-> 0, found |-> EachChar(2), top_bracket |-> 1,
         oveccount |-> 2, replacement |-> << >>, written |-> <<"$", "q">>, options |-> {},
         faults |-> {}, answers |-> << >>, case_callout |-> "none", capacity |-> 0]

\* Every result on one character, \K in lookarounds included.
Anything == {No} \cup {Hit(s, t, << IF s = t THEN <<>> ELSE <<0, 1>> >>) : s \in 0..1, t \in 0..1}
OneChar ==
  {[Base EXCEPT !.subject = <<"v">>, !.found = f, !.replacement = <<Lit("a"), Group(1)>>,
                !.capacity = c, !.options = {"global", "overflow_length", "unset_empty"}] :
     f \in {g \in [(0..1) \X BOOLEAN -> Anything] :
              \A s \in 0..1, e \in BOOLEAN :
                 g[s, e].rc = "ok" => g[s, e].ovector[2] >= s /\ (e => g[s, e].ovector # <<s, s>>)},
     c \in {0, 3}}

Subjects == {<<"a", "v">>, <<"v", "a", "a">>}
Many ==
  {[Base EXCEPT !.subject = s, !.found = f, !.replacement = r, !.capacity = c, !.options = o] :
     <<s, f>> \in UNION {{t} \X Patterns(Len(t)) : t \in Subjects},
     r \in Replacements, c \in {0, 3, 7, 12},
     o \in {{"global", "overflow_length", "extended", "unset_empty"},
            {"global", "overflow_length", "extended", "unset_empty", "replacement_only"},
            {"global", "extended", "unset_empty"}}}

\* Options one at a time.
Optional ==
  {[Base EXCEPT !.replacement = r, !.capacity = c, !.options = o \cup {"global"}, !.start = s,
                !.top_bracket = t, !.oveccount = 3 - t,
                !.found = IF t = 0 THEN [x \in DOMAIN @ |-> IF @[x].rc = "ok" THEN [@[x] EXCEPT !.groups = <<>>] ELSE @[x]]
                          ELSE @] :
     r \in Replacements, c \in {1, 6}, s \in {0, 1}, t \in {0, 1},
     o \in {{}, {"literal"}, {"overflow_length", "literal", "extended"}, {"unknown_unset"},
            {"unknown_unset", "unset_empty"}, {"partial"}, {"partial", "replacement_only"},
            {"overflow_length", "extended"}}}
Refusals ==
  {[Base EXCEPT !.start = s, !.options = {"matched", "overflow_length"}, !.faults = x] :
     s \in {0, 3}, x \in SUBSET {"MATCHLIMIT", "DFA_UFUNC", "DIFFSUBSPATTERN"}}
  \cup {[Base EXCEPT !.found = Limit(2, r), !.options = {"global", "overflow_length"},
                     !.capacity = c, !.replacement = x] :
          c \in {0, 4}, r \in {"MATCHLIMIT", "PARTIAL"}, x \in Plain}

Callouts ==
  {[Base EXCEPT !.subject = s, !.found = f, !.replacement = r, !.capacity = c, !.answers = a,
                !.case_callout = k,
                !.options = {"overflow_length", "extended", "unset_empty", "global"} \cup o] :
     <<s, f>> \in {<< <<"a", "v">>, EachChar(2) >>, << <<"v", "a", "a">>, Alternating(3) >>,
                   << <<"a", "v">>, Tail1(2) >>},
     r \in Plain \cup Cases \cup {<<Lit("a"), Group(1)>>},
     c \in {0, 4, 9}, a \in {<<>>, <<0, 1>>, <<1, 0>>, <<0, -1>>},
     k \in {"none", "works", "fails"}, o \in {{}}}

\* A quoted part that the end of the replacement ends, and more than one match.
Unended ==
  {[Base EXCEPT !.subject = s, !.found = EachChar(Len(s)), !.replacement = r, !.capacity = c,
                !.options = {"global", "extended", "overflow_length", "unset_empty"}] :
     s \in {<<"a">>, <<"a", "v">>, <<"v", "a", "a">>}, c \in {0, 9},
     r \in {<<Sign("Q"), Group(1)>>, <<Group(1), Sign("Q"), Group(1)>>,
            <<Lit("a"), Sign("U"), Lit("v"), Sign("Q"), Group(1), Lit("a")>>}}

MCInputs == OneChar \cup Many \cup Optional \cup Refusals \cup Callouts
=============================================================================
