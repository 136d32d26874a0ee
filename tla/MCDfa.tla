-------------------------------- MODULE MCDfa --------------------------------
(***************************************************************************)
(* Families of patterns matched by the alternative matcher, with the       *)
(* options, segments and limits that matter to each.                       *)
(***************************************************************************)
EXTENDS DfaCheck

P == INSTANCE DfaPatterns
S == INSTANCE StartPatterns

Unoptimized == [DefaultOptions EXCEPT !.start_optimize = FALSE]
StartOptions ==
  {DefaultOptions, [DefaultOptions EXCEPT !.firstline = TRUE], [DefaultOptions EXCEPT !.offset_limit = 1]}

Whole(subjects) == {<<s>> : s \in subjects}
Subjects == SubjectsUpTo({"a", "b"}, 4)
Lines == {<<"a", "nl">>, <<"b", "nl", "a">>, <<"nl", "b", "nl">>, <<"a", "-", "b">>, <<"b">>}

Variations ==
  {DefaultOptions, [DefaultOptions EXCEPT !.anchored = TRUE], [DefaultOptions EXCEPT !.notempty = TRUE],
   [DefaultOptions EXCEPT !.notempty_atstart = TRUE, !.start_offset = 1],
   [DefaultOptions EXCEPT !.shortest = TRUE], [DefaultOptions EXCEPT !.pairs = 1],
   [DefaultOptions EXCEPT !.offset_limit = 0]}
LineOptions ==
  {DefaultOptions, [DefaultOptions EXCEPT !.notbol = TRUE], [DefaultOptions EXCEPT !.noteol = TRUE],
   [DefaultOptions EXCEPT !.firstline = TRUE], [DefaultOptions EXCEPT !.start_offset = 1]}
PartialOptions == {[DefaultOptions EXCEPT !.partial = <<k, k, k>>] : k \in {"hard", "soft"}}

Segmentations ==
  {<<x, y>> : x \in [1..2 -> {"a", "b"}], y \in [1..2 -> {"a", "b"}] \cup {<<"b">>}}
  \cup {<<<<"a">>, <<"b">>, <<"b", "a">>>>, <<<<"a">>, <<"a">>, <<"b">>>>}

DeepSubjects == {<<"a", "a", "a", "b", "b", "b">>, <<"a", "a", "b", "b">>,
                 <<"a", "b", "a", "b", "a", "b", "a", "b", "a">>}
Heaps == {0, 3, 4, 11, 12, 60, 1000}
Tight ==
  {[Unoptimized EXCEPT !.heap_limit = k] : k \in Heaps}
  \cup {[Unoptimized EXCEPT !.mallocs = 0], [Unoptimized EXCEPT !.states = 1],
        [Unoptimized EXCEPT !.match_limit = 4], [Unoptimized EXCEPT !.depth_limit = 2]}

\* The patterns, the segmentations and the options that go together.
Family(patterns, segmentations, opts) ==
  [patterns |-> patterns, segmentations |-> segmentations, options |-> opts]
Families ==
  <<Family(P!Lists, Whole(Subjects), Variations),
    Family(P!Positions, Whole(Lines), LineOptions),
    Family(P!Lists, Segmentations, PartialOptions),
    Family(P!Positions, Whole({s \in Lines : Last(s) # "nl"}), PartialOptions),
    Family(P!Nested \cup P!Deep, Whole(Subjects), {DefaultOptions}),
    Family(P!Looping, Whole(Subjects), {Unoptimized}),
    Family(P!MaybeUnsupported, Whole({<<"b">>, <<"a", "b">>, <<"a", "a", "b">>}), {Unoptimized}),
    Family(S!RegularPatterns, Whole(S!FewSubjects), StartOptions),
    Family(S!CharacterPatterns, Whole(S!FewSubjects), PartialOptions),
    Family(P!Spacious, Whole(DeepSubjects), Tight)>>
AllInputs ==
  UNION {InputsOf(f.patterns, f.segmentations, f.options) : f \in Range(Families)}
=============================================================================
