----------------------------- MODULE MatchProofs -----------------------------
(***************************************************************************)
(* Proofs about the frames of match(), for every nested code, every        *)
(* subject and all options: the frames stay linked as MatchFrames says,    *)
(* and the limits on their number hold.                                    *)
(***************************************************************************)
EXTENDS MatchFrames, SequenceLemmas

-----------------------------------------------------------------------------
(***************************************************************************)
(* Stacks of frames.                                                       *)
(***************************************************************************)
\* Two frames with the same links; and two that also wait at the same bracket.
Same(G, H) ==
  /\ G.last_group = H.last_group /\ G.back_frame = H.back_frame
  /\ G.current_recurse = H.current_recurse /\ G.group_frame_type = H.group_frame_type
Alike(c, G, H) ==
  /\ Same(G, H) /\ G.return_id = H.return_id /\ G.fields.frame_type = H.fields.frame_type
  /\ GroupAt(c, G) = GroupAt(c, H) /\ Tried(c, G) = Tried(c, H) /\ (Waits(c, G) => Waits(c, H))

\* A stack is as good as one with the same links.
LEMMA PlacedAlike ==
  ASSUME NEW c, NEW fs, NEW gs, NEW n \in Nat, NEW i \in 1..n, NEW g,
         \A j \in 1..n : Same(fs[j], gs[j]),
         \A j \in 1..(i-1) : Alike(c, fs[j], gs[j]),
         Placed(c, fs, i, g)
  PROVE  Placed(c, gs, i, g)
<1>1. Typed(gs, i)
  <2>1. Same(fs[i], gs[i]) /\ (i > 1 => Alike(c, fs[i-1], gs[i-1]))
    OBVIOUS
  <2> QED BY <2>1 DEF Placed, Typed, TypeFits, Same, Alike
<1>2. Linked(c, gs, i, g)
  <2> DEFINE o == fs[i].last_group
  <2>1. Same(fs[i], gs[i])
    OBVIOUS
  <2>2. CASE o = 0
    BY <2>1, <2>2 DEF Placed, Linked, Same, Recursing
  <2>3. CASE o # 0
    <3>1. o \in 2..i
      BY <2>3 DEF Placed, Linked
    <3>2. Same(fs[o], gs[o]) /\ Alike(c, fs[o-1], gs[o-1])
      BY <3>1
    <3>3. \A type, group : LinkFits(c, fs[i], type, fs[o-1], group) => LinkFits(c, gs[i], type, gs[o-1], group)
      BY <2>1, <3>2 DEF LinkFits, Same, Alike
    <3> QED BY <2>1, <2>3, <3>1, <3>2, <3>3 DEF Placed, Linked, Same, Recursing
  <2> QED BY <2>2, <2>3
<1>3. Ordered(gs, i)
  BY DEF Placed, Ordered, Same, Alike
<1> QED BY <1>1, <1>2, <1>3 DEF Placed

\* The same for a whole stack, whose top frames have the same links.
LEMMA StackAlike ==
  ASSUME NEW c, NEW fs, NEW gs, NEW g, IsSeq(fs), Len(gs) = Len(fs), Stacked(c, fs, g),
         \A j \in 1..(Len(fs) - 1) : Alike(c, fs[j], gs[j]),
         Same(fs[Len(fs)], gs[Len(fs)])
  PROVE  Stacked(c, gs, g)
<1> DEFINE n == Len(fs)
<1>1. n \in Nat /\ n > 0
  BY SeqFacts DEF Stacked
<1>2. \A j \in 1..n : Same(fs[j], gs[j])
  BY <1>1 DEF Alike
<1>3. \A i \in 1..n : \A h : Placed(c, fs, i, h) => Placed(c, gs, i, h)
  <2> SUFFICES ASSUME NEW i \in 1..n, NEW h, Placed(c, fs, i, h) PROVE Placed(c, gs, i, h)
    OBVIOUS
  <2>1. \A j \in 1..(i-1) : Alike(c, fs[j], gs[j])
    BY <1>1
  <2> QED BY <1>1, <1>2, <2>1, PlacedAlike
<1>4. ASSUME NEW i \in 1..(n - 1)
      PROVE  Placed(c, gs, i, GroupAt(c, gs[i])) /\ Waits(c, gs[i])
  <2>1. Placed(c, fs, i, GroupAt(c, fs[i])) /\ Waits(c, fs[i]) /\ Alike(c, fs[i], gs[i])
    BY DEF Stacked, Below
  <2>2. Placed(c, gs, i, GroupAt(c, fs[i]))
    BY <1>1, <1>3, <2>1
  <2> QED BY <2>1, <2>2 DEF Alike
<1>5. Placed(c, gs, n, g)
  BY <1>1, <1>3 DEF Stacked
<1> QED BY <1>1, <1>4, <1>5 DEF Stacked, Below

\* Two stacks have the same frames up to the n-th.
SameUpTo(fs, gs, n) == \A j \in 1..n : gs[j] = fs[j]

\* What is placed in a stack is placed in another with the same frames up to there.
LEMMA PlacedPrefix ==
  ASSUME NEW c, NEW fs, NEW gs, NEW n \in Nat, NEW i \in 1..n, NEW g,
         SameUpTo(fs, gs, n),
         Placed(c, fs, i, g)
  PROVE  Placed(c, gs, i, g)
<1>1. \A j \in 1..n : Same(fs[j], gs[j]) /\ Alike(c, fs[j], gs[j])
  BY DEF Same, Alike, SameUpTo
<1>2. \A j \in 1..(i-1) : Alike(c, fs[j], gs[j])
  BY <1>1
<1> QED BY <1>1, <1>2, PlacedAlike

\* Back to a frame that waits.
LEMMA Pop ==
  ASSUME NEW c, NEW fs, IsSeq(fs), Below(c, fs), NEW k \in 1..(Len(fs) - 1)
  PROVE  Stacked(c, SubSeq(fs, 1, k), GroupAt(c, fs[k])) /\ Waits(c, fs[k])
<1> DEFINE gs == SubSeq(fs, 1, k)
<1>1. Len(fs) \in Nat
  BY SeqFacts
<1>2. Len(gs) = k /\ \A i \in 1..k : gs[i] = fs[i]
  BY <1>1, PrefixFacts
<1> HIDE DEF gs
<1>3. ASSUME NEW i \in 1..k
      PROVE  Placed(c, gs, i, GroupAt(c, gs[i])) /\ Waits(c, gs[i])
  <2>1. Placed(c, fs, i, GroupAt(c, fs[i])) /\ Waits(c, fs[i])
    BY <1>1 DEF Below
  <2>2. k \in Nat /\ SameUpTo(fs, gs, k)
    BY <1>1, <1>2 DEF SameUpTo
  <2>3. Placed(c, gs, i, GroupAt(c, fs[i]))
    BY <2>1, <2>2, PlacedPrefix
  <2> QED BY <1>2, <2>1, <2>3
<1>4. Placed(c, gs, k, GroupAt(c, gs[k])) /\ Waits(c, gs[k]) /\ gs[k] = fs[k]
  BY <1>2, <1>3
<1>5. Below(c, gs)
  BY <1>2, <1>3 DEF Below
<1>6. Stacked(c, gs, GroupAt(c, fs[k]))
  BY <1>2, <1>4, <1>5 DEF Stacked
<1> QED BY <1>4, <1>6 DEF gs

\* A new frame N on top of one that starts to wait, in the same group or in a new one.
NewInGroup(G, N) ==
  /\ N.last_group = G.last_group /\ N.current_recurse = G.current_recurse
  /\ N.group_frame_type = NOGROUP /\ N.back_frame = 1
NewGroup(c, G, N, at, group) ==
  LET type == N.group_frame_type
  IN  /\ N.last_group = at /\ N.back_frame = 1 /\ type # NOGROUP /\ TypeFits(type, G)
      /\ type[1] \in {"nocapture", "capture", "condassert", "recurse"}
      /\ type[1] = "condassert" => type = CONDASSERT
      /\ N.current_recurse = IF type[1] = "recurse" THEN type[2] ELSE G.current_recurse
      /\ LinkFits(c, N, type, G, group)
      /\ Recursing(N) /\ N.current_recurse # 0 => N.current_recurse \in GroupsAround(c, group)

\* The frames up to a new one, when the one that made it starts to wait.
Pushed(fs, W, N) == Append([fs EXCEPT ![Len(fs)] = W], N)

\* The frames of a stack with a new one pushed are those below it.
LEMMA PushFrames ==
  ASSUME NEW c, NEW fs, IsSeq(fs), Len(fs) > 0, Below(c, fs),
         NEW g, Placed(c, fs, Len(fs), g),
         NEW W, Same(fs[Len(fs)], W), Waits(c, W), GroupAt(c, W) = g,
         NEW N
  PROVE  LET gs == Pushed(fs, W, N)
         IN  /\ Len(gs) = Len(fs) + 1 /\ gs[Len(fs)] = W /\ gs[Len(fs) + 1] = N
             /\ \A i \in 1..(Len(fs) - 1) : gs[i] = fs[i]
             /\ Below(c, gs)
<1> DEFINE n  == Len(fs)
           hs == [fs EXCEPT ![n] = W]
           gs == Pushed(fs, W, N)
<1>1. n \in Nat /\ n > 0
  BY SeqFacts
<1>2. IsSeq(hs) /\ Len(hs) = n /\ hs[n] = W /\ \A i \in 1..n : i # n => hs[i] = fs[i]
  BY <1>1, ExceptFacts
<1>3. Len(gs) = n + 1 /\ gs[n + 1] = N /\ \A i \in 1..n : gs[i] = hs[i]
  <2>1. gs = Append(hs, N)
    BY DEF Pushed
  <2> HIDE DEF hs, gs
  <2> QED BY <1>2, <2>1, AppendFacts
<1> HIDE DEF gs, hs
<1>4. \A j \in 1..n : Same(fs[j], gs[j])
  BY <1>1, <1>2, <1>3 DEF Same
<1>5. \A j \in 1..(n-1) : Alike(c, fs[j], gs[j])
  BY <1>1, <1>2, <1>3 DEF Alike, Same
<1>6. \A i \in 1..n : \A h : Placed(c, fs, i, h) => Placed(c, gs, i, h)
  <2> SUFFICES ASSUME NEW i \in 1..n, NEW h, Placed(c, fs, i, h) PROVE Placed(c, gs, i, h)
    OBVIOUS
  <2>1. \A j \in 1..(i-1) : Alike(c, fs[j], gs[j])
    BY <1>1, <1>5
  <2> QED BY <1>1, <1>4, <2>1, PlacedAlike
<1>7. ASSUME NEW i \in 1..n
      PROVE  Placed(c, gs, i, GroupAt(c, gs[i])) /\ Waits(c, gs[i])
  <2>1. CASE i = n
    BY <1>1, <1>2, <1>3, <1>6, <2>1
  <2>2. CASE i # n
    <3>1. Placed(c, fs, i, GroupAt(c, fs[i])) /\ Waits(c, fs[i]) /\ gs[i] = fs[i]
      BY <1>1, <1>2, <1>3, <2>2 DEF Below
    <3> QED BY <1>6, <3>1
  <2> QED BY <2>1, <2>2
<1>8. Below(c, gs)
  BY <1>1, <1>3, <1>7 DEF Below
<1>9. gs[n] = W /\ \A i \in 1..(n - 1) : gs[i] = fs[i]
  BY <1>1, <1>2, <1>3
<1> QED BY <1>3, <1>8, <1>9 DEF gs

\* A new frame in the same group.
LEMMA PushInGroup ==
  ASSUME NEW c, NEW fs, IsSeq(fs), NEW g, Stacked(c, fs, g),
         NEW W, Same(fs[Len(fs)], W), Waits(c, W), GroupAt(c, W) = g, W.return_id # "RM8",
         NEW N, NewInGroup(W, N)
  PROVE  Stacked(c, Pushed(fs, W, N), g)
<1> DEFINE n  == Len(fs)
           gs == Pushed(fs, W, N)
<1>1. n \in Nat /\ n > 0 /\ Below(c, fs) /\ Placed(c, fs, n, g)
  BY SeqFacts DEF Stacked
<1>2. Len(gs) = n + 1 /\ gs[n] = W /\ gs[n + 1] = N /\ Below(c, gs)
  BY <1>1, PushFrames
<1> HIDE DEF gs
<1>3. Placed(c, gs, n, g)
  BY <1>1, <1>2 DEF Below
<1> DEFINE o == gs[n].last_group
<1>4. o = 0 \/ o \in 2..n
  BY <1>3 DEF Placed, Linked
<1>5. Typed(gs, n + 1)
  BY <1>2 DEF NewInGroup, Typed, NOGROUP
<1>6. Linked(c, gs, n + 1, g)
  <2>1. Linked(c, gs, n, g) /\ gs[n+1].last_group = o /\ gs[n+1].back_frame = 1
        /\ gs[n+1].current_recurse = gs[n].current_recurse
    BY <1>2, <1>3 DEF NewInGroup, Placed
  <2>2. n + 1 > 1 => 1 \in 1..(n+1-1) /\ 1 <= n + 1 - o + 1
    BY <1>1, <1>4
  <2>3. o # 0 => o \in 2..(n+1)
    BY <1>1, <1>4
  <2> QED BY <2>1, <2>2, <2>3 DEF Linked, LinkFits, Recursing
<1>7. Ordered(gs, n + 1)
  <2>1. gs[n+1].last_group = o
    BY <1>2 DEF NewInGroup
  <2>2. ASSUME NEW j \in 1..(n + 1), o # 0, j >= o
        PROVE  gs[j].last_group >= o
    BY <1>1, <1>3, <1>4, <2>1, <2>2 DEF Placed, Ordered
  <2>3. ASSUME NEW y \in 1..n, gs[y].return_id = "RM8"
        PROVE  o >= y + 1
    BY <1>1, <1>2, <1>3, <2>3 DEF Placed, Ordered
  <2> QED BY <1>1, <2>1, <2>2, <2>3 DEF Ordered
<1>8. Stacked(c, gs, g)
  BY <1>1, <1>2, <1>5, <1>6, <1>7 DEF Stacked, Placed
<1> QED BY <1>8 DEF gs

\* A new frame for a branch of a group.
LEMMA PushGroup ==
  ASSUME NEW c, NEW fs, IsSeq(fs), NEW g, Stacked(c, fs, g),
         NEW W, Same(fs[Len(fs)], W), Waits(c, W), GroupAt(c, W) = g,
         NEW N, NEW h, NewGroup(c, W, N, Len(fs) + 1, h)
  PROVE  Stacked(c, Pushed(fs, W, N), h)
<1> DEFINE n  == Len(fs)
           gs == Pushed(fs, W, N)
<1>1. n \in Nat /\ n > 0 /\ Below(c, fs) /\ Placed(c, fs, n, g)
  BY SeqFacts DEF Stacked
<1>2. Len(gs) = n + 1 /\ gs[n] = W /\ gs[n + 1] = N /\ Below(c, gs)
  BY <1>1, PushFrames
<1> HIDE DEF gs
<1>3. Typed(gs, n + 1)
  BY <1>1, <1>2 DEF NewGroup, Typed, NOGROUP
<1>4. Linked(c, gs, n + 1, h)
  BY <1>1, <1>2 DEF NewGroup, Linked
<1>5. Ordered(gs, n + 1)
  BY <1>1, <1>2 DEF NewGroup, Ordered
<1>6. Stacked(c, gs, h)
  BY <1>1, <1>2, <1>3, <1>4, <1>5 DEF Stacked, Placed
<1> QED BY <1>6 DEF gs

\* The way back from a frame, before and after its group is left.
LEMMA WayBack ==
  ASSUME NEW n \in Nat, NEW o \in 2..n, NEW q \in Int, q < o,
         NEW old \in 1..(n-1), old <= n - o + 1, NEW back, back = old \/ back = n - (o - 1)
  PROVE  back \in 1..(n-1) /\ back <= n - q + 1
  OBVIOUS

\* The group of the top frame is left: the frame takes over the links of the one below the
\* group frame, and may drop the frames of the group from its way back.
LEMMA Leave ==
  ASSUME NEW c, NEW fs, IsSeq(fs), NEW g, Stacked(c, fs, g),
         NEW o, o = fs[Len(fs)].last_group, o # 0,
         fs[o-1].return_id # "RM8",
         NEW gs, Len(gs) = Len(fs), \A i \in 1..(Len(fs) - 1) : gs[i] = fs[i],
         LET G == gs[Len(fs)] IN
           /\ G.last_group = fs[o-1].last_group
           /\ G.current_recurse = fs[o-1].current_recurse
           /\ G.group_frame_type = fs[Len(fs)].group_frame_type
           /\ G.back_frame = fs[Len(fs)].back_frame \/ G.back_frame = Len(fs) - (o - 1)
  PROVE  Stacked(c, gs, GroupAt(c, fs[o-1]))
<1> DEFINE n == Len(fs)
           P == fs[o-1]
           h == GroupAt(c, P)
<1>1. n \in Nat /\ n > 0 /\ Below(c, fs) /\ Placed(c, fs, n, g)
  BY SeqFacts DEF Stacked
<1>2. o \in 2..n
  BY <1>1 DEF Placed, Linked
<1>3. Placed(c, fs, o - 1, h) /\ Waits(c, P)
  BY <1>1, <1>2 DEF Below
<1> DEFINE q == P.last_group
<1>4. (q = 0 \/ q \in 2..(o-1)) /\ q \in Int /\ q < o /\ o \in Int
  <2>1. q = 0 \/ q \in 2..(o-1)
    BY <1>3 DEF Placed, Linked
  <2> HIDE DEF n, q
  <2> QED BY ONLY <1>1, <1>2, <2>1
<1>5. ASSUME NEW i \in 1..(n-1)
      PROVE  Placed(c, gs, i, GroupAt(c, gs[i])) /\ Waits(c, gs[i])
  <2>1. Placed(c, fs, i, GroupAt(c, fs[i])) /\ Waits(c, fs[i]) /\ gs[i] = fs[i]
    BY <1>1 DEF Below
  <2>2. SameUpTo(fs, gs, n - 1) /\ n - 1 \in Nat
    BY <1>1 DEF SameUpTo
  <2> QED BY <2>1, <2>2, PlacedPrefix
<1>6. Typed(gs, n)
  <2>1. n > 1 /\ gs[n-1] = fs[n-1]
    BY <1>1, <1>2
  <2> QED BY <1>1, <2>1 DEF Placed, Typed
<1>7. Linked(c, gs, n, h)
  <2>1. fs[n].back_frame \in 1..(n-1) /\ fs[n].back_frame <= n - o + 1
    BY <1>1, <1>2 DEF Placed, Linked
  <2>2. gs[n].back_frame \in 1..(n-1) /\ gs[n].back_frame <= n - q + 1
    <3> DEFINE back == gs[n].back_frame
    <3>1. back = fs[n].back_frame \/ back = n - (o - 1)
      OBVIOUS
    <3> HIDE DEF back, n, q
    <3>2. back \in 1..(n-1) /\ back <= n - q + 1
      BY ONLY <1>1, <1>2, <1>4, <2>1, <3>1, WayBack
    <3> QED BY <3>2 DEF back, n
  <2>3. Linked(c, fs, o - 1, h)
    BY <1>3 DEF Placed
  <2>4. CASE q = 0
    BY <2>2, <2>3, <2>4 DEF Linked, Recursing
  <2>5. CASE q # 0
    <3>1. q \in 2..n /\ gs[q] = fs[q] /\ gs[q-1] = fs[q-1]
      <4>1. q \in 2..n /\ q \in 1..(n-1) /\ q - 1 \in 1..(n-1)
        <5> HIDE DEF n, q
        <5> QED BY ONLY <1>1, <1>2, <1>4, <2>5
      <4> QED BY <4>1
    <3>2. /\ q \in 2..(o-1) /\ fs[q].group_frame_type # NOGROUP
          /\ LinkFits(c, P, fs[q].group_frame_type, fs[q-1], h)
          /\ Recursing(P) /\ P.current_recurse # 0 => P.current_recurse \in GroupsAround(c, h)
      BY <2>3, <2>5 DEF Linked
    <3>3. LinkFits(c, gs[n], gs[q].group_frame_type, gs[q-1], h)
      BY <3>1, <3>2 DEF LinkFits
    <3>4. Recursing(gs[n]) <=> Recursing(P)
      BY DEF Recursing
    <3> QED BY <2>2, <2>5, <3>1, <3>2, <3>3, <3>4 DEF Linked
  <2> QED BY <2>4, <2>5
<1>8. Ordered(gs, n)
  <2>1. gs[n].last_group = q /\ Ordered(fs, o - 1) /\ Ordered(fs, n)
    BY <1>1, <1>3 DEF Placed
  <2>2. ASSUME NEW j \in 1..n, q # 0, j >= q
        PROVE  gs[j].last_group >= q
    <3>1. CASE j = n
      BY <1>2, <1>4, <2>1, <2>2, <3>1
    <3>2. CASE j # n /\ j < o
      <4>1. gs[j] = fs[j] /\ j \in 1..(o-1)
        BY <1>1, <1>2, <3>2
      <4> QED BY <1>2, <2>1, <2>2, <4>1 DEF Ordered
    <3>3. CASE j # n /\ j >= o
      <4>1. gs[j] = fs[j] /\ fs[j].last_group >= o
        BY <1>1, <1>2, <2>1, <3>3 DEF Ordered
      <4>2. Linked(c, fs, j, GroupAt(c, fs[j]))
        BY <1>1, <3>3 DEF Below, Placed
      <4>3. fs[j].last_group \in Int
        BY <1>1, <4>2 DEF Linked
      <4> HIDE DEF q, n
      <4> QED BY ONLY <1>4, <4>1, <4>3
    <3> QED BY <1>1, <1>2, <3>1, <3>2, <3>3
  <2>3. ASSUME NEW y \in 1..(n-1), gs[y].return_id = "RM8"
        PROVE  q >= y + 1
    <3>1. gs[y] = fs[y]
      BY <1>1
    <3>2. o >= y + 1
      BY <1>1, <2>1, <2>3, <3>1 DEF Ordered
    <3>3. y # o - 1
      BY <2>3, <3>1
    <3>4. y \in 1..(o - 1 - 1)
      BY <1>2, <3>2, <3>3
    <3>5. \A z \in 1..(o - 1 - 1) : fs[z].return_id = "RM8" => q >= z + 1
      BY <2>1 DEF Ordered
    <3> QED BY <2>3, <3>1, <3>4, <3>5
  <2> QED BY <1>1, <2>1, <2>2, <2>3 DEF Ordered
<1> QED BY <1>1, <1>5, <1>6, <1>7, <1>8 DEF Stacked, Below, Placed

-----------------------------------------------------------------------------
(***************************************************************************)
(* What a ket finds on the stack.                                          *)
(***************************************************************************)
\* A frame that waits with a group frame on it has tried a bracket of the code; and it is
\* outside that bracket, unless it is that of a conditional group or a call.
LEMMA TriedBracket ==
  ASSUME NEW c, Nested(c), NEW P, Waits(c, P), P.return_id \in OpensGroup
  PROVE  /\ Tried(c, P) \in DOMAIN c
         /\ P.return_id \in AtBracket \cup {"RM35"} => GroupAt(c, P) = Home(c, Tried(c, P))
<1>1. \A i \in DOMAIN c : IsHead(c, i) => Owner(c, i) \in DOMAIN c
  BY DEF Nested, Fits, HeadFits
<1>2. CASE P.return_id \in AtBracket
  BY <1>1, <1>2 DEF Waits, WaitsAtBracket, GroupAt, Tried, AtBracket
<1>3. CASE P.return_id = "RM35"
  BY <1>3 DEF Waits, WaitsInCondition, GroupAt, Tried, AtBracket, AtKetOf
<1>4. CASE P.return_id \in {"RM5", "RM11"}
  BY <1>1, <1>4 DEF Waits, WaitsAtCall, WaitsAtCondition, Tried, AtBracket
<1> QED BY <1>2, <1>3, <1>4 DEF OpensGroup

\* The frame of a call waits at an OP_RECURSE.
LEMMA CallFacts ==
  ASSUME NEW c, Nested(c), NEW P, Waits(c, P), P.return_id = "RM11"
  PROVE  LET n == c[P.ecode].num
         IN  /\ c[P.ecode].op = "RECURSE" /\ CallFits(c, P.ecode)
             /\ P.fields.frame_type = <<"recurse", n>>
             /\ Tried(c, P) = GroupStart(c, n) /\ GroupAt(c, P) = Home(c, P.ecode)
<1>1. P.ecode \in DOMAIN c /\ WaitsAtCall(c, P)
  BY DEF Waits
<1>2. CallFits(c, P.ecode)
  BY <1>1 DEF WaitsAtCall, Nested, Fits
<1>3. P.return_id \notin AtBracket \cup AtKetOf
  BY DEF AtBracket, AtKetOf
<1> QED BY <1>1, <1>2, <1>3 DEF WaitsAtCall, RECURSE, Tried, GroupAt

\* The last group frame of a frame on the stack, and the frame that made it.
LEMMA LastGroup ==
  ASSUME NEW c, NEW fs, IsSeq(fs), NEW g, Stacked(c, fs, g),
         NEW o, o = fs[Len(fs)].last_group, o # 0
  PROVE  /\ o \in 2..Len(fs) /\ Typed(fs, o)
         /\ Waits(c, fs[o-1]) /\ Placed(c, fs, o - 1, GroupAt(c, fs[o-1]))
         /\ fs[o].group_frame_type # NOGROUP /\ TypeFits(fs[o].group_frame_type, fs[o-1])
         /\ LinkFits(c, fs[Len(fs)], fs[o].group_frame_type, fs[o-1], g)
<1> DEFINE n == Len(fs)
<1>1. n \in Nat /\ n > 0 /\ Below(c, fs) /\ Placed(c, fs, n, g)
  BY SeqFacts DEF Stacked
<1>2. o \in 2..n /\ fs[o].group_frame_type # NOGROUP
      /\ LinkFits(c, fs[n], fs[o].group_frame_type, fs[o-1], g)
  BY <1>1 DEF Placed, Linked
<1>3. Waits(c, fs[o-1]) /\ Placed(c, fs, o - 1, GroupAt(c, fs[o-1]))
  <2>1. o - 1 \in 1..(n - 1)
    BY <1>1, <1>2
  <2> QED BY <2>1, <1>1 DEF Below
<1>4. Typed(fs, o)
  <2>1. CASE o = n
    BY <1>1, <2>1 DEF Placed
  <2>2. CASE o # n
    BY <1>1, <1>2, <2>2 DEF Below, Placed
  <2> QED BY <2>1, <2>2
<1>5. TypeFits(fs[o].group_frame_type, fs[o-1])
  BY <1>2, <1>4 DEF Typed
<1> QED BY <1>2, <1>3, <1>4, <1>5

\* At the ket of a bracket with a frame the last group frame is that of the bracket: the
\* frame below it is one that made a call to the group, or tries a condition, or the
\* branches of the bracket.
EndsCall(c, G, P, b) ==
  P.return_id = "RM11" /\ IsCapture(c, b) /\ G.current_recurse = c[b].num
EndsCondition(c, P, b) == P.return_id = "RM5" /\ Tried(c, P) = b
EndsGroup(c, G, P, b) ==
  /\ P.return_id \in AtBracket \cup {"RM35"} /\ Tried(c, P) = b /\ GroupAt(c, P) = Home(c, b)
  /\ G.current_recurse = P.current_recurse
  /\ IsCapture(c, b) => G.current_recurse # c[b].num

\* What the last group frame is, and the frame below it, at the ket of a bracket with a frame.
LEMMA KetOfGroup ==
  ASSUME NEW c, Nested(c), NEW fs, IsSeq(fs), NEW k \in DOMAIN c, IsKet(c, k),
         Stacked(c, fs, Home(c, k)),
         NEW b, b = k - c[k].link, HasFrame(c, b),
         NEW G, G = fs[Len(fs)]
  PROVE  LET o == G.last_group
             P == fs[o-1]
         IN  /\ o # 0
             /\ \/ EndsCall(c, G, P, b) /\ fs[o].group_frame_type[1] = "recurse"
                \/ EndsCondition(c, P, b) /\ fs[o].group_frame_type[1] = "condassert"
                \/ EndsGroup(c, G, P, b) /\ fs[o].group_frame_type[1] \notin {"condassert", "recurse"}
<1> DEFINE o == G.last_group
           P == fs[o-1]
           type == fs[o].group_frame_type
<1>1. KetFits(c, k) /\ b \in DOMAIN c /\ b # 0 /\ Home(c, k) = b
  BY DEF Nested, Fits, KetFits, Inside
<1>2. BracketFits(c, b)
  BY <1>1 DEF Nested, Fits, KetFits
<1>3. Placed(c, fs, Len(fs), b)
  BY <1>1 DEF Stacked
<1>4. o # 0
  BY <1>1, <1>3 DEF Placed, Linked
<1>5. /\ Waits(c, P) /\ Placed(c, fs, o - 1, GroupAt(c, P)) /\ TypeFits(type, P)
      /\ LinkFits(c, G, type, P, b)
  BY <1>1, <1>4, LastGroup
<1> HIDE DEF o, P, type
<1>6. CASE type[1] = "recurse"
  <2>1. P.return_id = "RM11" /\ type = P.fields.frame_type
    BY <1>5, <1>6 DEF TypeFits
  <2>2. CallFits(c, P.ecode) /\ type = <<"recurse", c[P.ecode].num>>
    BY <1>5, <2>1, CallFacts
  <2>3. G.current_recurse = c[P.ecode].num /\ b = IF c[P.ecode].num = 0 THEN 0 ELSE GroupStart(c, c[P.ecode].num)
    BY <1>5, <2>2 DEF LinkFits
  <2> QED BY <1>1, <1>4, <1>6, <2>1, <2>2, <2>3 DEF EndsCall, CallFits, o, P, type
<1>7. CASE type[1] # "recurse"
  <2>1. G.current_recurse = P.current_recurse /\ b = Tried(c, P)
    BY <1>5, <1>7 DEF LinkFits
  <2>2. P.return_id \in OpensGroup /\ P.return_id # "RM11"
    BY <1>5, <1>7 DEF TypeFits
  <2>3. CASE P.return_id = "RM5"
    BY <1>4, <1>5, <2>1, <2>3 DEF EndsCondition, TypeFits, o, P, type
  <2>4. CASE P.return_id # "RM5"
    <3>1. P.return_id \in AtBracket \cup {"RM35"} /\ type[1] # "condassert"
      BY <1>5, <2>2, <2>4 DEF OpensGroup, TypeFits
    <3>2. GroupAt(c, P) = Home(c, b)
      BY <1>5, <2>1, <2>2, <3>1, TriedBracket
    <3>3. ASSUME IsCapture(c, b) PROVE G.current_recurse # c[b].num
      <4>1. c[b].num \in Nat \ {0} /\ c[b].num \notin GroupsAround(c, Home(c, b))
        BY <1>2, <3>3 DEF BracketFits, CaptureFits
      <4>2. Recursing(P) /\ P.current_recurse # 0 => P.current_recurse \in GroupsAround(c, Home(c, b))
        BY <1>5, <3>2 DEF Placed, Linked, P
      <4> QED BY <2>1, <4>1, <4>2 DEF Recursing, RECURSE_UNSET
    <3> QED BY <1>4, <1>7, <2>1, <3>1, <3>2, <3>3 DEF EndsGroup, o, P, type
  <2> QED BY <2>3, <2>4
<1> QED BY <1>6, <1>7

\* At the end of the code a recursion into the whole pattern finds the frame of its call.
LEMMA KetOfWhole ==
  ASSUME NEW c, Nested(c), NEW fs, IsSeq(fs), Stacked(c, fs, 0),
         NEW G, G = fs[Len(fs)], G.current_recurse = 0
  PROVE  G.last_group # 0 /\ fs[G.last_group - 1].return_id = "RM11"
<1> DEFINE o == G.last_group
           P == fs[o-1]
           type == fs[o].group_frame_type
<1>1. Placed(c, fs, Len(fs), 0)
  BY DEF Stacked
<1>2. o # 0
  BY <1>1 DEF Placed, Linked, Recursing, RECURSE_UNSET
<1>3. Waits(c, P) /\ TypeFits(type, P) /\ LinkFits(c, G, type, P, 0)
  BY <1>2, LastGroup
<1>4. type[1] = "recurse"
  <2> SUFFICES ASSUME type[1] # "recurse" PROVE FALSE
    OBVIOUS
  <2>1. Tried(c, P) = 0
    BY <1>3 DEF LinkFits
  <2>2. Tried(c, P) \in DOMAIN c
    BY <1>3, TriedBracket DEF TypeFits
  <2> QED BY <2>1, <2>2 DEF Nested
<1> QED BY <1>2, <1>3, <1>4 DEF TypeFits

-----------------------------------------------------------------------------
(***************************************************************************)
(* The four ways in which an opcode or the code after a label ends: on with *)
(* the next opcode, out of match(), back to a frame below, a new frame.    *)
(***************************************************************************)
Running == pc \in {"match", "return"}

\* The innermost bracket with a frame around the place the top frame is at.
Around == IF pc = "match" THEN Home(code, F.ecode) ELSE GroupAt(code, F)

\* The code is nested, the limits are numbers.
LEMMA InputFacts ==
  ASSUME input \in Inputs
  PROVE  /\ Nested(code) /\ options.match_limit \in Nat /\ options.depth_limit \in Nat
BY CodeAssumption, LimitAssumption DEF code, options

\* The frames while match() runs.
LEMMA TopFacts ==
  ASSUME IInv, Running
  PROVE  /\ IsSeq(frames) /\ Len(frames) \in Nat /\ Len(frames) > 0 /\ F = frames[Len(frames)]
         /\ Stacked(code, frames, Around)
         /\ \A i \in 1..Len(frames) : Shaped(frames[i])
         /\ pc = "match" => F.ecode \in DOMAIN code
         /\ pc = "return" => Waits(code, F)
         /\ Nested(code) /\ options.depth_limit \in Nat /\ options.match_limit \in Nat
         /\ Block(mb) /\ mb.match_call_count <= options.match_limit
         /\ Len(frames) <= options.depth_limit /\ input \in Inputs
<1>1. IsSeq(frames) /\ input \in Inputs /\ \A i \in 1..Len(frames) : Shaped(frames[i])
  BY DEF IInv, Sound, Running, Held
<1>2. Block(mb) /\ mb.match_call_count <= options.match_limit /\ Len(frames) <= options.depth_limit
  BY DEF IInv, Sound, Running, Held, options
<1>3. Stacked(code, frames, Around)
  BY DEF IInv, Sound, Running, AtMatch, AtReturn, Around, F, code
<1>4. /\ pc = "match" => F.ecode \in DOMAIN code
      /\ pc = "return" => Waits(code, F)
  BY DEF IInv, Sound, AtMatch, AtReturn, F, code
<1>5. Len(frames) \in Nat
  BY <1>1, SeqFacts
<1>6. Len(frames) > 0
  BY <1>3 DEF Stacked
<1> QED BY <1>1, <1>2, <1>3, <1>4, <1>5, <1>6, InputFacts DEF F

\* The top frame replaced.
LEMMA TopReplaced ==
  ASSUME IInv, Running, NEW G
  PROVE  LET fs == Top(G)
         IN  /\ IsSeq(fs) /\ Len(fs) = Len(frames) /\ fs[Len(frames)] = G
             /\ \A i \in 1..(Len(frames) - 1) : fs[i] = frames[i]
<1>1. IsSeq(frames) /\ Len(frames) \in 1..Len(frames)
  BY TopFacts
<1> QED BY <1>1, ExceptFacts, TopFacts DEF Top

\* The links follow from the places.
LEMMA StackChained ==
  ASSUME NEW c, NEW fs, IsSeq(fs), NEW g, Stacked(c, fs, g)
  PROVE  Chained(fs)
<1>1. Len(fs) \in Nat
  BY SeqFacts
<1>2. ASSUME NEW i \in 1..Len(fs)
      PROVE  /\ i > 1 => fs[i].back_frame \in 1..(i-1)
             /\ fs[i].last_group # 0 => /\ fs[i].last_group \in 2..i
                                        /\ fs[fs[i].last_group].group_frame_type # NOGROUP
  <2>1. \E h : Placed(c, fs, i, h)
    BY <1>1 DEF Stacked, Below
  <2> QED BY <2>1 DEF Placed, Linked
<1> QED BY <1>2 DEF Chained

\* A block that counts as many calls as before.
Kept(m) == Block(m) /\ m.match_call_count = mb.match_call_count

\* It goes on with an opcode.
LEMMA ContinueExit ==
  ASSUME IInv, Running, NEW fs, NEW m, IsSeq(fs), Len(fs) <= Len(frames),
         \A i \in 1..Len(fs) : Shaped(fs[i]), Kept(m), AtMatch(code, fs), ContinueIn(fs, m)
  PROVE  IInv'
<1>1. input' = input /\ pc' = "match" /\ frames' = fs /\ mb' = m
  BY DEF ContinueIn, Constant
<1>2. Held(options, fs, m) /\ Block(m) /\ m.match_call_count <= options.match_limit + 1
  <2>1. Len(fs) \in Nat
    BY SeqFacts
  <2> QED BY <2>1, TopFacts DEF Held, Kept, Block
<1>3. Chained(fs)
  BY StackChained DEF AtMatch
<1> QED BY <1>1, <1>2, <1>3, TopFacts DEF IInv, Sound, options, code

\* It returns from match().
LEMMA ReturnExit ==
  ASSUME IInv, Running, NEW m, NEW rc, Block(m), m.match_call_count <= mb.match_call_count + 1, Return(m, rc)
  PROVE  IInv'
<1>1. input' = input /\ pc' = "result" /\ frames' = frames /\ mb' = m
  BY DEF Return, Constant
<1>2. m.match_call_count <= options.match_limit + 1
  BY TopFacts DEF Block
<1> QED BY <1>1, <1>2, TopFacts DEF IInv, Sound, options

\* It goes back to a frame below.
LEMMA RReturnExit ==
  ASSUME IInv, Running, NEW fs, NEW m, NEW rc, IsSeq(fs), Len(fs) = Len(frames), Below(code, fs),
         \A i \in 1..(Len(fs) - 1) : Shaped(fs[i]),
         Kept(m), Len(fs) > 1 => fs[Len(fs)].back_frame \in 1..(Len(fs) - 1),
         RRETURNIn(fs, m, rc)
  PROVE  IInv'
<1> DEFINE G == Last(fs)
           u == Used(m, G.eptr)
<1>1. Block(u) /\ u.match_call_count = mb.match_call_count
  BY DEF Used, Kept, Block, BlockFields
<1>2. CASE Len(fs) = 1
  <2>1. Return(u, rc)
    BY <1>2 DEF RRETURNIn
  <2> HIDE DEF u
  <2> QED BY <1>1, <2>1, ReturnExit DEF Block
<1>3. CASE Len(fs) # 1
  <2> DEFINE n == Len(fs)
             k == n - G.back_frame
             gs == SubSeq(fs, 1, k)
  <2>1. n \in Nat /\ n > 1 /\ G = fs[n]
    BY <1>3, TopFacts DEF Last
  <2>2. k \in 1..(n-1)
    BY <2>1
  <2>3. input' = input /\ pc' = "return" /\ frames' = gs /\ mb' = u
    BY <1>3 DEF RRETURNIn, Constant
  <2> HIDE DEF k, u
  <2>4. Stacked(code, gs, GroupAt(code, fs[k])) /\ Waits(code, fs[k])
    BY <2>1, <2>2, Pop
  <2>5. IsSeq(gs) /\ Len(gs) = k /\ \A i \in 1..k : gs[i] = fs[i]
    BY <2>1, <2>2, PrefixFacts
  <2> HIDE DEF gs
  <2>6. AtReturn(code, gs)
    BY <2>2, <2>4, <2>5 DEF AtReturn
  <2>7. Held(options, gs, u)
    <3>1. \A i \in 1..k : Shaped(gs[i])
      BY <2>1, <2>2, <2>5
    <3> QED BY <3>1, <1>1, <2>1, <2>2, <2>5, TopFacts DEF Held
  <2>8. Chained(gs)
    BY <2>4, <2>5, StackChained
  <2>9. u.match_call_count <= options.match_limit + 1
    BY <1>1, TopFacts DEF Block
  <2> QED BY <1>1, <2>3, <2>6, <2>7, <2>8, <2>9, TopFacts DEF IInv, Sound, options, code
<1> QED BY <1>2, <1>3

\* A new frame is made, if the limits allow.
Waiting(G, rb) == [G EXCEPT !.return_id = rb]
\* A new frame is made, or a limit stops the match.
LEMMA RMatchExit ==
  ASSUME IInv, Running, NEW fs, NEW m, NEW ra, NEW rb, NEW type,
         IsSeq(fs), Len(fs) = Len(frames), \A i \in 1..Len(fs) : Shaped(fs[i]), Kept(m),
         NEW W, W = Waiting(fs[Len(fs)], rb),
         NEW N, N = NewFrame(W, Len(fs) + 1, ra, type),
         ra \in DOMAIN code, Stacked(code, Pushed(fs, W, N), Home(code, ra)),
         RMATCHIn(fs, m, ra, rb, type)
  PROVE  IInv'
<1> DEFINE n == Len(fs)
           counted == [m EXCEPT !.match_call_count = @ + 1]
           gs == Pushed(fs, W, N)
<1>1. n \in Nat /\ n > 0 /\ Last(fs) = fs[n]
  BY TopFacts DEF Last
<1>2. Block(counted) /\ counted.match_call_count = mb.match_call_count + 1
  BY TopFacts DEF Kept, Block, BlockFields
<1>3. CASE m.match_call_count >= options.match_limit \/ Len(fs) >= options.depth_limit
  <2>1. Return(counted, "MATCHLIMIT") \/ Return(counted, "DEPTHLIMIT")
    BY <1>3 DEF RMATCHIn
  <2> HIDE DEF counted
  <2> QED BY <1>2, <2>1, ReturnExit, TopFacts DEF Block
<1>4. CASE ~(m.match_call_count >= options.match_limit \/ Len(fs) >= options.depth_limit)
  <2>1. input' = input /\ pc' = "match" /\ frames' = gs /\ mb' = counted
    BY <1>1, <1>4 DEF RMATCHIn, Constant, Pushed, Waiting
  <2> HIDE DEF counted
  <2> DEFINE hs == [fs EXCEPT ![n] = W]
  <2>2. IsSeq(hs) /\ Len(hs) = n /\ hs[n] = W /\ \A i \in 1..n : i # n => hs[i] = fs[i]
    BY <1>1, ExceptFacts
  <2>3. IsSeq(gs) /\ Len(gs) = n + 1 /\ gs[n + 1] = N /\ \A i \in 1..n : gs[i] = hs[i]
    <3>1. gs = Append(hs, N)
      BY DEF Pushed
    <3> HIDE DEF hs, gs
    <3> QED BY <2>2, <3>1, AppendFacts
  <2> HIDE DEF hs, gs
  <2>4. Shaped(W) /\ Shaped(N) /\ N.ecode = ra
    <3>1. Shaped(W)
      BY <1>1 DEF Waiting, Shaped, FrameFields
    <3>2. Shaped(N) /\ N.ecode = ra
      BY <3>1 DEF NewFrame, Shaped, FrameFields
    <3> QED BY <3>1, <3>2
  <2>5. \A i \in 1..(n+1) : Shaped(gs[i])
    <3> SUFFICES ASSUME NEW i \in 1..(n+1) PROVE Shaped(gs[i])
      OBVIOUS
    <3> QED BY <1>1, <2>2, <2>3, <2>4
  <2>6. counted.match_call_count <= options.match_limit /\ n + 1 <= options.depth_limit
    BY <1>1, <1>2, <1>4, TopFacts DEF Kept, Block
  <2>7. Held(options, gs, counted)
    BY <1>1, <2>3, <2>5, <2>6 DEF Held
  <2>8. AtMatch(code, gs)
    BY <1>1, <2>3, <2>4 DEF AtMatch, gs
  <2>9. Chained(gs)
    BY <2>3, StackChained DEF gs
  <2>10. counted.match_call_count <= options.match_limit + 1
    BY <1>2, <2>6, TopFacts DEF Block
  <2> QED BY <1>2, <2>1, <2>7, <2>8, <2>9, <2>10, TopFacts DEF IInv, Sound, options, code
<1> QED BY <1>3, <1>4

-----------------------------------------------------------------------------
(***************************************************************************)
(* The same four ways for changes that leave the links of the top frame    *)
(* alone.                                                                  *)
(***************************************************************************)
\* The top frame with changes, but none of its links.
Kin(G) == Shaped(G) /\ Same(F, G)

\* The stack with the top frame changed but for its links.
LEMMA TopStacked ==
  ASSUME IInv, Running, NEW G, Kin(G)
  PROVE  Stacked(code, Top(G), Around) /\ \A i \in 1..Len(Top(G)) : Shaped(Top(G)[i])
<1> DEFINE fs == Top(G)
<1>1. /\ IsSeq(fs) /\ Len(fs) = Len(frames) /\ fs[Len(frames)] = G
      /\ \A i \in 1..(Len(frames) - 1) : fs[i] = frames[i]
  BY TopReplaced
<1> HIDE DEF fs
<1>2. \A i \in 1..(Len(frames) - 1) : Alike(code, frames[i], fs[i])
  BY <1>1 DEF Alike, Same
<1>3. Same(frames[Len(frames)], fs[Len(frames)])
  BY <1>1, TopFacts DEF Kin
<1>4. Stacked(code, fs, Around)
  BY <1>1, <1>2, <1>3, StackAlike, TopFacts
<1>5. \A i \in 1..Len(fs) : Shaped(fs[i])
  BY <1>1, TopFacts DEF Kin
<1> QED BY <1>4, <1>5 DEF fs

\* On with an opcode in the same group.
LEMMA Going ==
  ASSUME IInv, Running, NEW G, NEW m, Kin(G), Kept(m),
         G.ecode \in DOMAIN code, Home(code, G.ecode) = Around, ContinueWith(G, m)
  PROVE  IInv'
<1> DEFINE fs == Top(G)
<1>1. IsSeq(fs) /\ Len(fs) = Len(frames) /\ fs[Len(frames)] = G
  BY TopReplaced
<1>2. Stacked(code, fs, Around) /\ \A i \in 1..Len(fs) : Shaped(fs[i])
  BY TopStacked
<1>3. ContinueIn(fs, m)
  BY DEF ContinueWith
<1> HIDE DEF fs
<1>4. AtMatch(code, fs)
  BY <1>1, <1>2 DEF AtMatch
<1> QED BY <1>1, <1>2, <1>3, <1>4, ContinueExit, TopFacts

\* Back, from whatever else is in the top frame.
LEMMA Failing ==
  ASSUME IInv, Running, NEW G, NEW m, NEW rc, G.back_frame = F.back_frame, Kept(m), RRETURNWith(G, m, rc)
  PROVE  IInv'
<1> DEFINE fs == Top(G)
           n == Len(frames)
<1>1. /\ IsSeq(fs) /\ Len(fs) = n /\ fs[n] = G
      /\ \A i \in 1..(n - 1) : fs[i] = frames[i]
  BY TopReplaced
<1>2. RRETURNIn(fs, m, rc)
  BY DEF RRETURNWith
<1> HIDE DEF fs
<1>3. Below(code, frames) /\ Placed(code, frames, n, Around)
  BY TopFacts DEF Stacked
<1>4. Below(code, fs)
  <2> SUFFICES ASSUME NEW i \in 1..(n - 1)
               PROVE  Placed(code, fs, i, GroupAt(code, fs[i])) /\ Waits(code, fs[i])
    BY <1>1 DEF Below
  <2>1. SameUpTo(frames, fs, n - 1) /\ n - 1 \in Nat
    BY <1>1, TopFacts DEF SameUpTo
  <2>2. Placed(code, frames, i, GroupAt(code, frames[i])) /\ Waits(code, frames[i])
    BY <1>3 DEF Below
  <2> QED BY <1>1, <2>1, <2>2, PlacedPrefix
<1>5. n > 1 => fs[n].back_frame \in 1..(n - 1)
  BY <1>1, <1>3, TopFacts DEF Placed, Linked
<1>6. \A i \in 1..(n - 1) : Shaped(fs[i])
  BY <1>1, TopFacts
<1> QED BY <1>1, <1>2, <1>4, <1>5, <1>6, RReturnExit

\* A new frame in the same group.
LEMMA Trying ==
  ASSUME IInv, Running, NEW G, NEW m, NEW ra, NEW rb, Kin(G), Kept(m),
         ra \in DOMAIN code, Home(code, ra) = Around,
         rb # "RM8", Waits(code, Waiting(G, rb)), GroupAt(code, Waiting(G, rb)) = Around,
         RMATCHWith(G, m, ra, rb, NOGROUP)
  PROVE  IInv'
<1> DEFINE fs == Top(G)
           n == Len(frames)
           W == Waiting(G, rb)
           N == NewFrame(W, n + 1, ra, NOGROUP)
<1>1. IsSeq(fs) /\ Len(fs) = n /\ fs[n] = G
  BY TopReplaced
<1>2. Stacked(code, fs, Around) /\ \A i \in 1..Len(fs) : Shaped(fs[i])
  BY TopStacked
<1>3. RMATCHIn(fs, m, ra, rb, NOGROUP)
  BY DEF RMATCHWith
<1> HIDE DEF fs
<1>4. Same(G, W) /\ W.return_id = rb /\ Shaped(W)
  BY DEF Waiting, Same, Kin, Shaped, FrameFields
<1>5. NewInGroup(W, N)
  BY <1>4 DEF NewFrame, NewInGroup, Shaped, FrameFields, NOGROUP
<1> HIDE DEF N, W
<1>6. Waits(code, W) /\ GroupAt(code, W) = Around
  BY DEF W
<1>7. Stacked(code, Pushed(fs, W, N), Around)
  BY <1>1, <1>2, <1>4, <1>5, <1>6, PushInGroup
<1>8. W = Waiting(fs[Len(fs)], rb) /\ N = NewFrame(W, Len(fs) + 1, ra, NOGROUP)
  BY <1>1 DEF W, N
<1> QED BY <1>1, <1>2, <1>3, <1>7, <1>8, RMatchExit

\* A new frame in a new group.
LEMMA EnteringGroup ==
  ASSUME IInv, Running, NEW G, NEW m, NEW ra, NEW rb, NEW type, Kin(G), Kept(m),
         ra \in DOMAIN code, Waits(code, Waiting(G, rb)), GroupAt(code, Waiting(G, rb)) = Around,
         LET W == Waiting(G, rb)
         IN  NewGroup(code, W, NewFrame(W, Len(frames) + 1, ra, type), Len(frames) + 1, Home(code, ra)),
         RMATCHWith(G, m, ra, rb, type)
  PROVE  IInv'
<1> DEFINE fs == Top(G)
           n == Len(frames)
           W == Waiting(G, rb)
           N == NewFrame(W, n + 1, ra, type)
<1>1. IsSeq(fs) /\ Len(fs) = n /\ fs[n] = G
  BY TopReplaced
<1>2. Stacked(code, fs, Around) /\ \A i \in 1..Len(fs) : Shaped(fs[i])
  BY TopStacked
<1>3. RMATCHIn(fs, m, ra, rb, type)
  BY DEF RMATCHWith
<1> HIDE DEF fs
<1>4. Same(G, W)
  BY DEF Waiting, Same, Kin, Shaped, FrameFields
<1>5. Waits(code, W) /\ GroupAt(code, W) = Around /\ NewGroup(code, W, N, n + 1, Home(code, ra))
  OBVIOUS
<1>6. W = Waiting(fs[Len(fs)], rb) /\ N = NewFrame(W, Len(fs) + 1, ra, type)
  BY <1>1
<1> HIDE DEF N, W
<1>7. Stacked(code, Pushed(fs, W, N), Home(code, ra))
  BY <1>1, <1>2, <1>4, <1>5, PushGroup
<1> QED BY <1>1, <1>2, <1>3, <1>6, <1>7, RMatchExit

\* A recursion that goes on in a group is into one around it.
LEMMA RecursionInside ==
  ASSUME IInv, Running, NEW G, Same(F, G), NEW h,
         GroupsAround(code, Around) \subseteq GroupsAround(code, h)
  PROVE  Recursing(G) /\ G.current_recurse # 0 => G.current_recurse \in GroupsAround(code, h)
<1>1. Placed(code, frames, Len(frames), Around) /\ F = frames[Len(frames)]
  BY TopFacts DEF Stacked
<1> QED BY <1>1 DEF Placed, Linked, Same, Recursing

\* The branch of a bracket, or of an assertion that is a condition.
LEMMA EnteringBranch ==
  ASSUME IInv, Running, NEW G, NEW m, NEW ra, NEW rb, NEW type, Kin(G), Kept(m),
         ra \in DOMAIN code,
         NEW W, W = Waiting(G, rb), Waits(code, W), GroupAt(code, W) = Around,
         Home(code, ra) = Tried(code, W),
         \/ rb \in AtBracket \cup {"RM35"} /\ type[1] \in {"nocapture", "capture"}
         \/ rb = "RM5" /\ type = CONDASSERT,
         GroupsAround(code, Around) \subseteq GroupsAround(code, Tried(code, W)),
         RMATCHWith(G, m, ra, rb, type)
  PROVE  IInv'
<1> DEFINE n == Len(frames)
           N == NewFrame(W, n + 1, ra, type)
           h == Home(code, ra)
<1>1. Same(F, W) /\ W.return_id = rb /\ Shaped(W)
  BY DEF Waiting, Same, Kin, Shaped, FrameFields
<1>2. Recursing(W) /\ W.current_recurse # 0 => W.current_recurse \in GroupsAround(code, h)
  BY <1>1, RecursionInside
<1>3. type[1] \in {"nocapture", "capture", "condassert"} /\ type # NOGROUP
      /\ (type[1] = "condassert" => type = CONDASSERT)
  BY DEF CONDASSERT, NOGROUP
<1>4. /\ N.last_group = n + 1 /\ N.back_frame = 1 /\ N.group_frame_type = type
      /\ N.current_recurse = W.current_recurse
  BY <1>1, <1>3 DEF NewFrame, Shaped, FrameFields
<1> HIDE DEF N
<1>5. TypeFits(type, W)
  BY <1>1, <1>3 DEF TypeFits, CONDASSERT, OpensGroup, AtBracket
<1>6. LinkFits(code, N, type, W, h)
  BY <1>3, <1>4 DEF LinkFits
<1>7. NewGroup(code, W, N, n + 1, h)
  BY <1>2, <1>3, <1>4, <1>5, <1>6 DEF NewGroup, Recursing
<1> QED BY <1>7, EnteringGroup DEF N

-----------------------------------------------------------------------------
(***************************************************************************)
(* Characters, positions and verbs.                                        *)
(***************************************************************************)
\* The code at the opcode that is executed.
LEMMA AtOpcode ==
  ASSUME IInv, pc = "match"
  PROVE  /\ Running /\ F.ecode \in DOMAIN code /\ Around = Home(code, F.ecode)
         /\ Fits(code, F.ecode) /\ Shaped(F) /\ Kin(F) /\ Kept(mb) /\ Nested(code)
         /\ F.ecode \in Nat /\ F.ecode > 0
<1>1. Running
  BY DEF Running
<1>2. F = frames[Len(frames)] /\ Shaped(F)
  BY <1>1, TopFacts
<1>3. F.ecode \in DOMAIN code /\ Nested(code)
  BY <1>1, TopFacts
<1>4. Around = Home(code, F.ecode) /\ Kin(F) /\ Kept(mb)
  BY <1>1, <1>2, TopFacts DEF Around, Kin, Same, Kept
<1>5. Fits(code, F.ecode) /\ F.ecode \in Nat /\ F.ecode > 0
  BY <1>3 DEF Nested
<1> QED BY <1>1, <1>2, <1>3, <1>4, <1>5

\* The same at a label.
LEMMA AtLabel ==
  ASSUME IInv, pc = "return"
  PROVE  /\ Running /\ F.ecode \in DOMAIN code /\ Around = GroupAt(code, F)
         /\ Fits(code, F.ecode) /\ Shaped(F) /\ Kin(F) /\ Kept(mb) /\ Nested(code)
         /\ F.ecode \in Nat /\ F.ecode > 0 /\ Waits(code, F)
<1>1. Running
  BY DEF Running
<1>2. F = frames[Len(frames)] /\ Shaped(F) /\ Waits(code, F)
  BY <1>1, TopFacts
<1>3. F.ecode \in DOMAIN code /\ Nested(code)
  BY <1>1, <1>2, TopFacts DEF Waits
<1>4. Around = GroupAt(code, F) /\ Kin(F) /\ Kept(mb)
  BY <1>1, <1>2, TopFacts DEF Around, Kin, Same, Kept
<1>5. Fits(code, F.ecode) /\ F.ecode \in Nat /\ F.ecode > 0
  BY <1>3 DEF Nested
<1> QED BY <1>1, <1>2, <1>3, <1>4, <1>5

\* The opcodes after which it goes on with the next.
LEMMA AtSingle ==
  ASSUME IInv, pc = "match", code[F.ecode].op \in Single
  PROVE  F.ecode + 1 \in DOMAIN code /\ Home(code, F.ecode + 1) = Around
<1>1. Fits(code, F.ecode) /\ Around = Home(code, F.ecode)
  BY AtOpcode
<1> QED BY <1>1 DEF Fits, GoesTo

\* What is noted in the match block does not count as a call.
LEMMA NoteKept ==
  ASSUME IInv, Running
  PROVE  /\ Kept(mb) /\ (\A e : Kept(NoteEnd(e))) /\ \A m, e : Kept(m) => Kept(Used(m, e))
<1>1. Block(mb)
  BY TopFacts
<1> QED BY <1>1 DEF Kept, NoteEnd, Used, Block, BlockFields

\* The one that fails at the end of the subject, where a partial match may stop.
LEMMA FailingAtEnd ==
  ASSUME IInv, Running, NEW G, G.back_frame = F.back_frame, FailAtEnd(G)
  PROVE  IInv'
<1>1. Kept(NoteEnd(G.eptr))
  BY NoteKept
<1>2. CASE Return(NoteEnd(G.eptr), "PARTIAL")
  <2>1. Block(NoteEnd(G.eptr)) /\ NoteEnd(G.eptr).match_call_count <= mb.match_call_count + 1
    BY <1>1, TopFacts DEF Kept, Block
  <2> QED BY <1>2, <2>1, ReturnExit
<1>3. CASE RRETURNWith(G, NoteEnd(G.eptr), "NOMATCH")
  BY <1>1, <1>3, Failing
<1> QED BY <1>2, <1>3 DEF FailAtEnd

\* A return with a block that counts as many calls.
LEMMA Returning ==
  ASSUME IInv, Running, NEW m, NEW rc, Kept(m), Return(m, rc)
  PROVE  IInv'
<1>1. Block(m) /\ m.match_call_count <= mb.match_call_count + 1
  BY TopFacts DEF Kept, Block
<1> QED BY <1>1, ReturnExit

\* The exits with the match block as it is.
LEMMA GoingOn ==
  ASSUME IInv, Running, NEW G, Kin(G), G.ecode \in DOMAIN code, Home(code, G.ecode) = Around, Continue(G)
  PROVE  IInv'
BY Going, NoteKept DEF Continue, ContinueWith

\* The same with a frame that fails.
LEMMA GoingBack ==
  ASSUME IInv, Running, NEW G, NEW rc, G.back_frame = F.back_frame, RRETURN(G, rc)
  PROVE  IInv'
BY Failing, NoteKept DEF RRETURN, RRETURNWith

\* The labels where it is enough that the frame is at an opcode.
Simple == {"RM10", "RM12", "RM13", "RM20", "RM21", "RM25", "RM27"}
\* A new frame from such a label.
LEMMA TryingSimple ==
  ASSUME IInv, Running, NEW G, NEW m, NEW ra, NEW rb, Kin(G), Kept(m),
         G.ecode \in DOMAIN code, Home(code, G.ecode) = Around,
         ra \in DOMAIN code, Home(code, ra) = Around,
         rb \in Simple, RMATCHWith(G, m, ra, rb, NOGROUP)
  PROVE  IInv'
<1> DEFINE W == Waiting(G, rb)
<1>1. W.return_id = rb /\ W.ecode = G.ecode
  BY DEF Waiting, Kin, Shaped, FrameFields
<1>2. Waits(code, W) /\ GroupAt(code, W) = Around
  BY <1>1 DEF Waits, GroupAt, Simple, Labels, OpensGroup, AtBracket, AtKetOf
<1>3. rb # "RM8"
  BY DEF Simple
<1> QED BY <1>2, <1>3, Trying

\* Waiting at such a label.
LEMMA AtSimple ==
  ASSUME IInv, pc = "return", F.return_id \in Simple \cup {"RM37"}
  PROVE  F.ecode \in DOMAIN code /\ Home(code, F.ecode) = Around
<1>1. Waits(code, F) /\ Around = GroupAt(code, F)
  BY AtLabel
<1> QED BY <1>1 DEF Waits, GroupAt, Simple, AtBracket, AtKetOf

\* One character (OP_CHAR and its like).
LEMMA ItemKeeps == ASSUME IInv, Item PROVE IInv'
<1>1. pc = "match" /\ code[F.ecode].op \in Single
  BY DEF Item, Exec, Op, Single
<1>2. Running /\ Shaped(F)
  BY <1>1, AtOpcode
<1>3. F.ecode + 1 \in DOMAIN code /\ Home(code, F.ecode + 1) = Around
  BY <1>1, AtSingle
<1> DEFINE G == Step(Advance(F))
<1>4. Kin(G) /\ G.ecode = F.ecode + 1 /\ Step(F).back_frame = F.back_frame
  BY <1>2 DEF Kin, Same, Shaped, FrameFields, Step, Advance
<1> HIDE DEF G
<1>5. CASE FailAtEnd(F)
  BY <1>2, <1>5, FailingAtEnd
<1>6. CASE Continue(G)
  BY <1>2, <1>3, <1>4, <1>6, GoingOn
<1>7. CASE RRETURN(Step(F), "NOMATCH")
  BY <1>2, <1>4, <1>7, GoingBack
<1> QED BY <1>5, <1>6, <1>7 DEF Item, G

\* RMATCH of a frame that is at such a label.
LEMMA TryingNext ==
  ASSUME IInv, Running, NEW G, NEW ra, NEW rb, Kin(G),
         G.ecode \in DOMAIN code, Home(code, G.ecode) = Around,
         ra \in DOMAIN code, Home(code, ra) = Around,
         rb \in Simple, RMATCH(G, ra, rb, NOGROUP)
  PROVE  IInv'
<1>1. RMATCHWith(G, mb, ra, rb, NOGROUP)
  BY DEF RMATCH, RMATCHWith
<1> QED BY <1>1, TryingSimple, NoteKept

\* The end of a greedy repeat.
LEMMA Giving ==
  ASSUME IInv, Running, NEW G, NEW m, Kin(G), Kept(m),
         G.ecode \in DOMAIN code, Home(code, G.ecode) = Around, RepeatGreedily(G, m)
  PROVE  IInv'
<1>1. CASE ContinueWith(G, m)
  BY <1>1, Going
<1>2. CASE RMATCHWith(G, m, G.ecode, "RM27", NOGROUP)
  BY <1>2, TryingSimple DEF Simple
<1> QED BY <1>1, <1>2 DEF RepeatGreedily

\* A repeated character.
LEMMA RepeatKeeps == ASSUME IInv, Repeat PROVE IInv'
<1> DEFINE op == code[F.ecode]
           at(n) == [Advance(F) EXCEPT !.eptr = @ + n, !.fields.start = F.ecode,
                        !.fields.start_eptr = F.eptr + op.min,
                        !.fields.min = op.min, !.fields.max = op.max]
           least == RunLength(F.eptr, op.set, op.min)
           most  == RunLength(F.eptr, op.set, op.max)
           end   == F.eptr + most
           m == IF most < op.max /\ end >= mb.end_subject THEN NoteEnd(end) ELSE mb
<1>1. pc = "match" /\ code[F.ecode].op \in Single
  BY DEF Repeat, Exec, Op, Single
<1>2. Running /\ Shaped(F)
  BY <1>1, AtOpcode
<1>3. F.ecode + 1 \in DOMAIN code /\ Home(code, F.ecode + 1) = Around
  BY <1>1, AtSingle
<1>4. \A n : Kin(at(n)) /\ at(n).ecode = F.ecode + 1 /\ at(n).back_frame = F.back_frame
  BY <1>2 DEF Kin, Same, Shaped, FrameFields, Advance, NoLocals
<1>5. Kept(m) /\ Kept(mb)
  BY <1>2, NoteKept
<1>6. \/ \E n : FailAtEnd(at(n)) \/ RRETURN(at(n), "NOMATCH") \/ Continue(at(n)) \/ RepeatLazily(at(n))
      \/ Return(m, "PARTIAL") \/ \E n : ContinueWith(at(n), m) \/ RepeatGreedily(at(n), m)
  BY DEF Repeat
<1> HIDE DEF at, m
<1>7. ASSUME NEW n, FailAtEnd(at(n)) PROVE IInv'
  BY <1>2, <1>4, <1>7, FailingAtEnd
<1>8. ASSUME NEW n, RRETURN(at(n), "NOMATCH") PROVE IInv'
  BY <1>2, <1>4, <1>8, GoingBack
<1>9. ASSUME NEW n, Continue(at(n)) PROVE IInv'
  BY <1>2, <1>3, <1>4, <1>9, GoingOn
<1>10. ASSUME NEW n, RepeatLazily(at(n)) PROVE IInv'
  BY <1>2, <1>3, <1>4, <1>10, TryingNext DEF RepeatLazily, Simple
<1>11. CASE Return(m, "PARTIAL")
  BY <1>2, <1>5, <1>11, Returning
<1>12. ASSUME NEW n, ContinueWith(at(n), m) PROVE IInv'
  BY <1>2, <1>3, <1>4, <1>5, <1>12, Going
<1>13. ASSUME NEW n, RepeatGreedily(at(n), m) PROVE IInv'
  BY <1>2, <1>3, <1>4, <1>5, <1>13, Giving
<1> QED BY <1>6, <1>7, <1>8, <1>9, <1>10, <1>11, <1>12, <1>13

\* A lazy repeat takes one more.
LEMMA RM25Keeps == ASSUME IInv, RM25 PROVE IInv'
<1> DEFINE G == Step([F EXCEPT !.fields.min = @ + 1])
<1>1. pc = "return" /\ F.return_id = "RM25"
  BY DEF RM25, Back
<1>2. Running /\ Shaped(F)
  BY <1>1, AtLabel
<1>3. F.ecode \in DOMAIN code /\ Home(code, F.ecode) = Around
  BY <1>1, AtSimple DEF Simple
<1>4. Kin(G) /\ G.ecode = F.ecode /\ Step(F).back_frame = F.back_frame
  BY <1>2 DEF Kin, Same, Shaped, FrameFields, Step, NoLocals
<1> HIDE DEF G
<1>5. \/ RRETURN(F, rrc) \/ RRETURN(F, "NOMATCH") \/ FailAtEnd(F) \/ RRETURN(Step(F), "NOMATCH")
      \/ RepeatLazily(G)
  BY DEF RM25, G
<1>6. CASE RRETURN(F, rrc) \/ RRETURN(F, "NOMATCH") \/ RRETURN(Step(F), "NOMATCH")
  BY <1>2, <1>4, <1>6, GoingBack
<1>7. CASE FailAtEnd(F)
  BY <1>2, <1>7, FailingAtEnd
<1>8. CASE RepeatLazily(G)
  BY <1>2, <1>3, <1>4, <1>8, TryingNext DEF RepeatLazily, Simple
<1> QED BY <1>5, <1>6, <1>7, <1>8

\* A greedy repeat gives one back.
LEMMA RM27Keeps == ASSUME IInv, RM27 PROVE IInv'
<1> DEFINE G == [F EXCEPT !.eptr = @ - 1]
<1>1. pc = "return" /\ F.return_id = "RM27"
  BY DEF RM27, Back
<1>2. Running /\ Shaped(F) /\ Kept(mb)
  BY <1>1, AtLabel
<1>3. F.ecode \in DOMAIN code /\ Home(code, F.ecode) = Around
  BY <1>1, AtSimple DEF Simple
<1>4. Kin(G) /\ G.ecode = F.ecode
  BY <1>2 DEF Kin, Same, Shaped, FrameFields
<1> HIDE DEF G
<1>5. RRETURN(F, rrc) \/ RepeatGreedily(G, mb)
  BY DEF RM27, G
<1>6. CASE RRETURN(F, rrc)
  BY <1>2, <1>6, GoingBack
<1>7. CASE RepeatGreedily(G, mb)
  BY <1>2, <1>3, <1>4, <1>7, Giving
<1> QED BY <1>5, <1>6, <1>7

\* A back reference that fails.
LEMMA FailingRef ==
  ASSUME IInv, Running, NEW G, NEW n, Shaped(G), G.back_frame = F.back_frame, FailRef(G, n)
  PROVE  IInv'
<1> DEFINE H == IF RefRanOut(G, n) THEN [G EXCEPT !.eptr = mb.end_subject] ELSE G
<1>1. H.back_frame = F.back_frame
  BY DEF Shaped, FrameFields
<1>2. FailAtEnd(H) \/ RRETURN(H, "NOMATCH")
  BY DEF FailRef
<1> HIDE DEF H
<1> QED BY <1>1, <1>2, FailingAtEnd, GoingBack

\* A back reference and its repeats.
LEMMA RefKeeps == ASSUME IInv, Ref PROVE IInv'
<1> DEFINE op == code[F.ecode]
           n == op.num
           length == F.ovector[n][2] - F.ovector[n][1]
           at(k) == [Advance(F) EXCEPT !.eptr = @ + k * length, !.fields.start = F.ecode,
                        !.fields.start_eptr = F.eptr + op.min * length,
                        !.fields.min = op.min, !.fields.max = op.max]
           most  == CopiesOf(F, n, op.max)
           ranOut == most < op.max /\ RefRanOut(at(most), n) /\ mb.end_subject > mb.start_used_ptr
           m == [mb EXCEPT !.hitend = @ \/ ranOut]
<1>1. pc = "match" /\ code[F.ecode].op \in Single
  BY DEF Ref, Exec, Op, Single
<1>2. Running /\ Shaped(F)
  BY <1>1, AtOpcode
<1>3. F.ecode + 1 \in DOMAIN code /\ Home(code, F.ecode + 1) = Around
  BY <1>1, AtSingle
<1>4. \A k : Kin(at(k)) /\ at(k).ecode = F.ecode + 1 /\ at(k).back_frame = F.back_frame
  <2>1. Kin(Advance(F)) /\ Advance(F).ecode = F.ecode + 1 /\ Advance(F).back_frame = F.back_frame
    BY <1>2 DEF Kin, Same, Shaped, FrameFields, Advance
  <2> QED BY <2>1 DEF Kin, Same, Shaped, FrameFields, NoLocals
<1>5. Kept(m)
  BY <1>2, NoteKept DEF Kept, Block, BlockFields
<1>6. Kin(Advance(F)) /\ Advance(F).ecode = F.ecode + 1
  BY <1>2 DEF Kin, Same, Shaped, FrameFields, Advance
<1>7. \/ Continue(Advance(F)) \/ FailRef(F, n)
      \/ Return(m, "PARTIAL")
      \/ \E k : \/ FailRef(at(k), n) \/ Continue(at(k))
                \/ RMATCH(at(k), F.ecode + 1, "RM20", NOGROUP)
                \/ ContinueWith(at(k), m)
                \/ RMATCHWith(at(k), m, F.ecode + 1, "RM21", NOGROUP)
  BY DEF Ref
<1> HIDE DEF at, m, n
<1>8. CASE Continue(Advance(F))
  BY <1>2, <1>3, <1>6, <1>8, GoingOn
<1>9. CASE FailRef(F, n)
  BY <1>2, <1>9, FailingRef
<1>10. CASE Return(m, "PARTIAL")
  BY <1>2, <1>5, <1>10, Returning
<1>11. ASSUME NEW k, FailRef(at(k), n) PROVE IInv'
  BY <1>2, <1>4, <1>11, FailingRef DEF Kin
<1>12. ASSUME NEW k, Continue(at(k)) PROVE IInv'
  BY <1>2, <1>3, <1>4, <1>12, GoingOn
<1>13. ASSUME NEW k, RMATCH(at(k), F.ecode + 1, "RM20", NOGROUP) PROVE IInv'
  BY <1>2, <1>3, <1>4, <1>13, TryingNext DEF Simple
<1>14. ASSUME NEW k, ContinueWith(at(k), m) PROVE IInv'
  BY <1>2, <1>3, <1>4, <1>5, <1>14, Going
<1>15. ASSUME NEW k, RMATCHWith(at(k), m, F.ecode + 1, "RM21", NOGROUP) PROVE IInv'
  BY <1>2, <1>3, <1>4, <1>5, <1>15, TryingSimple DEF Simple
<1> QED BY <1>7, <1>8, <1>9, <1>10, <1>11, <1>12, <1>13, <1>14, <1>15

\* A lazy repeat of a back reference takes one more copy.
LEMMA RM20Keeps == ASSUME IInv, RM20 PROVE IInv'
<1> DEFINE G == [F EXCEPT !.fields.min = @ + 1]
           H == [G EXCEPT !.eptr = @ + CopyLength]
<1>1. pc = "return" /\ F.return_id = "RM20"
  BY DEF RM20, Back
<1>2. Running /\ Shaped(F)
  BY <1>1, AtLabel
<1>3. F.ecode \in DOMAIN code /\ Home(code, F.ecode) = Around
  BY <1>1, AtSimple DEF Simple
<1>4. Kin(H) /\ H.ecode = F.ecode
  BY <1>2 DEF Kin, Same, Shaped, FrameFields, NoLocals
<1> HIDE DEF H
<1>5. \/ RRETURN(F, rrc) \/ RRETURN(F, "NOMATCH") \/ FailRef(F, RefGroup)
      \/ RMATCH(H, F.ecode, "RM20", NOGROUP)
  BY DEF RM20, H
<1>6. CASE RRETURN(F, rrc) \/ RRETURN(F, "NOMATCH")
  BY <1>2, <1>6, GoingBack
<1>7. CASE FailRef(F, RefGroup)
  BY <1>2, <1>7, FailingRef
<1>8. CASE RMATCH(H, F.ecode, "RM20", NOGROUP)
  BY <1>2, <1>3, <1>4, <1>8, TryingNext DEF Simple
<1> QED BY <1>5, <1>6, <1>7, <1>8

\* A greedy repeat of a back reference gives a copy back.
LEMMA RM21Keeps == ASSUME IInv, RM21 PROVE IInv'
<1> DEFINE G == [F EXCEPT !.eptr = @ - CopyLength]
<1>1. pc = "return" /\ F.return_id = "RM21"
  BY DEF RM21, Back
<1>2. Running /\ Shaped(F)
  BY <1>1, AtLabel
<1>3. F.ecode \in DOMAIN code /\ Home(code, F.ecode) = Around
  BY <1>1, AtSimple DEF Simple
<1>4. Kin(G) /\ G.ecode = F.ecode /\ G.back_frame = F.back_frame
  BY <1>2 DEF Kin, Same, Shaped, FrameFields
<1> HIDE DEF G
<1>5. RRETURN(F, rrc) \/ RMATCH(G, F.ecode, "RM21", NOGROUP) \/ RRETURN(G, "NOMATCH")
  BY DEF RM21, G
<1>6. CASE RRETURN(F, rrc) \/ RRETURN(G, "NOMATCH")
  BY <1>2, <1>4, <1>6, GoingBack
<1>7. CASE RMATCH(G, F.ecode, "RM21", NOGROUP)
  BY <1>2, <1>3, <1>4, <1>7, TryingNext DEF Simple
<1> QED BY <1>5, <1>6, <1>7

\* The next opcode of the frame as it is, and the match block changed.
LEMMA Advancing ==
  ASSUME IInv, pc = "match"
  PROVE  Kin(Advance(F)) /\ Advance(F).ecode = F.ecode + 1 /\ Advance(F).back_frame = F.back_frame
BY AtOpcode DEF Kin, Same, Shaped, FrameFields, Advance

\* On with the next opcode.
LEMMA GoingToNext ==
  ASSUME IInv, pc = "match", code[F.ecode].op \in Single, NEW m, Kept(m), ContinueWith(Advance(F), m)
  PROVE  IInv'
BY AtOpcode, AtSingle, Advancing, Going

\* The start of the subject or a line.
LEMMA CircKeeps == ASSUME IInv, Circ PROVE IInv'
<1>1. pc = "match" /\ code[F.ecode].op \in Single
  BY DEF Circ, Exec, Op, Single
<1>2. Running /\ Kept(mb)
  BY <1>1, AtOpcode
<1>3. ContinueWith(Advance(F), mb) \/ RRETURN(F, "NOMATCH")
  BY DEF Circ, Continue, ContinueWith
<1>4. CASE ContinueWith(Advance(F), mb)
  BY <1>1, <1>2, <1>4, GoingToNext
<1>5. CASE RRETURN(F, "NOMATCH")
  BY <1>2, <1>5, GoingBack
<1> QED BY <1>3, <1>4, <1>5

\* The end of the subject or its last line.
LEMMA DollKeeps == ASSUME IInv, Doll PROVE IInv'
<1> DEFINE m == [mb EXCEPT !.hitend = @ \/ options.partial # 0]
<1>1. pc = "match" /\ code[F.ecode].op \in Single
  BY DEF Doll, Exec, Op, Single
<1>2. Running /\ Kept(m)
  BY <1>1, AtOpcode DEF Kept, Block, BlockFields
<1>3. RRETURN(F, "NOMATCH") \/ Return(m, "PARTIAL") \/ ContinueWith(Advance(F), m)
  BY DEF Doll
<1> HIDE DEF m
<1>4. CASE RRETURN(F, "NOMATCH")
  BY <1>2, <1>4, GoingBack
<1>5. CASE Return(m, "PARTIAL")
  BY <1>2, <1>5, Returning
<1>6. CASE ContinueWith(Advance(F), m)
  BY <1>1, <1>2, <1>6, GoingToNext
<1> QED BY <1>3, <1>4, <1>5, <1>6

\* The end of a line.
LEMMA DollmKeeps == ASSUME IInv, Dollm PROVE IInv'
<1>1. pc = "match" /\ code[F.ecode].op \in Single
  BY DEF Dollm, Exec, Op, Single
<1>2. Running /\ Kept(mb) /\ Kept(NoteEnd(F.eptr))
  BY <1>1, AtOpcode, NoteKept
<1>3. \/ ContinueWith(Advance(F), mb) \/ RRETURN(F, "NOMATCH")
      \/ Return(NoteEnd(F.eptr), "PARTIAL") \/ ContinueWith(Advance(F), NoteEnd(F.eptr))
  BY DEF Dollm, Continue, ContinueWith
<1>4. CASE ContinueWith(Advance(F), mb) \/ ContinueWith(Advance(F), NoteEnd(F.eptr))
  BY <1>1, <1>2, <1>4, GoingToNext
<1>5. CASE RRETURN(F, "NOMATCH")
  BY <1>2, <1>5, GoingBack
<1>6. CASE Return(NoteEnd(F.eptr), "PARTIAL")
  BY <1>2, <1>6, Returning
<1> QED BY <1>3, <1>4, <1>5, <1>6

\* A word boundary.
LEMMA WordBoundaryKeeps == ASSUME IInv, WordBoundary PROVE IInv'
<1> DEFINE before == IF F.eptr = 0 THEN mb ELSE [mb EXCEPT !.start_used_ptr = Min({@, F.eptr - 1})]
           hits == AtEnd(F) /\ options.partial # 0
                   /\ (F.eptr > before.start_used_ptr \/ AllowEmptyPartial)
           m == IF AtEnd(F) THEN [before EXCEPT !.hitend = @ \/ hits] ELSE Used(before, F.eptr + 1)
<1>1. pc = "match" /\ code[F.ecode].op \in Single
  BY DEF WordBoundary, Exec, Op, Single
<1>2. Running /\ Kept(mb)
  BY <1>1, AtOpcode
<1>3. Kept(before)
  BY <1>2 DEF Kept, Block, BlockFields
<1>4. Return(m, "PARTIAL") \/ ContinueWith(Advance(F), m) \/ RRETURNWith(Advance(F), m, "NOMATCH")
  BY DEF WordBoundary
<1> HIDE DEF before, hits
<1>5. Kept(m)
  BY <1>2, <1>3, NoteKept DEF Kept, Block, BlockFields
<1> HIDE DEF m
<1>6. CASE Return(m, "PARTIAL")
  BY <1>2, <1>5, <1>6, Returning
<1>7. CASE ContinueWith(Advance(F), m)
  BY <1>1, <1>5, <1>7, GoingToNext
<1>8. CASE RRETURNWith(Advance(F), m, "NOMATCH")
  BY <1>1, <1>2, <1>5, <1>8, Advancing, Failing
<1> QED BY <1>4, <1>6, <1>7, <1>8

\* \K.
LEMMA SetSomKeeps == ASSUME IInv, SetSom PROVE IInv'
<1> DEFINE G == [Advance(F) EXCEPT !.start_match = F.eptr]
<1>1. pc = "match" /\ code[F.ecode].op \in Single
  BY DEF SetSom, Exec, Op, Single
<1>2. Running /\ Shaped(F) /\ F.ecode + 1 \in DOMAIN code /\ Home(code, F.ecode + 1) = Around
  BY <1>1, AtOpcode, AtSingle
<1>3. Kin(G) /\ G.ecode = F.ecode + 1
  BY <1>2 DEF Kin, Same, Shaped, FrameFields, Advance
<1> HIDE DEF G
<1>4. Continue(G)
  BY DEF SetSom, G
<1> QED BY <1>2, <1>3, <1>4, GoingOn

\* Back by a fixed length, in a lookbehind.
LEMMA MoveBackKeeps == ASSUME IInv, MoveBack PROVE IInv'
<1> DEFINE n == code[F.ecode].num
           G == [Advance(F) EXCEPT !.eptr = @ - n]
           m == [mb EXCEPT !.start_used_ptr = Min({@, G.eptr})]
<1>1. pc = "match" /\ code[F.ecode].op \in Single
  BY DEF MoveBack, Exec, Op, Single
<1>2. Running /\ Shaped(F) /\ F.ecode + 1 \in DOMAIN code /\ Home(code, F.ecode + 1) = Around /\ Kept(mb)
  BY <1>1, AtOpcode, AtSingle
<1>3. Kin(G) /\ G.ecode = F.ecode + 1
  BY <1>2 DEF Kin, Same, Shaped, FrameFields, Advance
<1>4. Kept(m)
  BY <1>2 DEF Kept, Block, BlockFields
<1>5. RRETURN(F, "NOMATCH") \/ ContinueWith(G, m)
  BY DEF MoveBack
<1> HIDE DEF G, m
<1>6. CASE RRETURN(F, "NOMATCH")
  BY <1>2, <1>6, GoingBack
<1>7. CASE ContinueWith(G, m)
  BY <1>2, <1>3, <1>4, <1>7, Going
<1> QED BY <1>5, <1>6, <1>7

\* A frame that goes on after an OP_VREVERSE.
LEMMA TryingFurther ==
  ASSUME IInv, Running, NEW G, Kin(G), G.ecode = F.ecode, F.ecode \in DOMAIN code,
         Home(code, F.ecode) = Around, GoesTo(code, F.ecode, F.ecode + 1),
         RMATCH(G, F.ecode + 1, "RM37", NOGROUP)
  PROVE  IInv'
<1> DEFINE W == Waiting(G, "RM37")
<1>1. W.return_id = "RM37" /\ W.ecode = F.ecode
  BY DEF Waiting, Kin, Shaped, FrameFields
<1>2. Waits(code, W) /\ GroupAt(code, W) = Around
  BY <1>1 DEF Waits, GroupAt, Labels, OpensGroup, AtBracket, AtKetOf
<1>3. RMATCHWith(G, mb, F.ecode + 1, "RM37", NOGROUP) /\ Kept(mb)
  BY NoteKept DEF RMATCH, RMATCHWith
<1>4. F.ecode + 1 \in DOMAIN code /\ Home(code, F.ecode + 1) = Around
  BY DEF GoesTo
<1> QED BY <1>2, <1>3, <1>4, Trying

\* Back by the most a lookbehind of variable length allows.
LEMMA MoveBackAtMostKeeps == ASSUME IInv, MoveBackAtMost PROVE IInv'
<1> DEFINE op == code[F.ecode]
           max == Min({op.max, F.eptr})
           G == [F EXCEPT !.eptr = @ - max, !.fields.min = op.min, !.fields.max = max]
<1>1. pc = "match" /\ code[F.ecode].op \in Single
  BY DEF MoveBackAtMost, Exec, Op, Single
<1>2. Running /\ Shaped(F) /\ F.ecode \in DOMAIN code /\ Home(code, F.ecode) = Around
      /\ GoesTo(code, F.ecode, F.ecode + 1)
  BY <1>1, AtOpcode DEF Fits
<1>3. Kin(G) /\ G.ecode = F.ecode
  BY <1>2 DEF Kin, Same, Shaped, FrameFields, NoLocals
<1>4. RRETURN(F, "NOMATCH") \/ RMATCH(G, F.ecode + 1, "RM37", NOGROUP)
  BY DEF MoveBackAtMost
<1> HIDE DEF G
<1>5. CASE RRETURN(F, "NOMATCH")
  BY <1>2, <1>5, GoingBack
<1>6. CASE RMATCH(G, F.ecode + 1, "RM37", NOGROUP)
  BY <1>2, <1>3, <1>6, TryingFurther
<1> QED BY <1>4, <1>5, <1>6

\* Such a lookbehind goes back one less.
LEMMA RM37Keeps == ASSUME IInv, RM37 PROVE IInv'
<1> DEFINE G == [F EXCEPT !.eptr = @ + 1, !.fields.max = @ - 1]
<1>1. pc = "return" /\ F.return_id = "RM37"
  BY DEF RM37, Back
<1>2. Running /\ Shaped(F) /\ GoesTo(code, F.ecode, F.ecode + 1)
  BY <1>1, AtLabel DEF Waits
<1>3. F.ecode \in DOMAIN code /\ Home(code, F.ecode) = Around
  BY <1>1, AtSimple
<1>4. Kin(G) /\ G.ecode = F.ecode
  BY <1>2 DEF Kin, Same, Shaped, FrameFields, NoLocals
<1>5. RRETURN(F, rrc) \/ RRETURN(F, "NOMATCH") \/ RMATCH(G, F.ecode + 1, "RM37", NOGROUP)
  BY DEF RM37
<1> HIDE DEF G
<1>6. CASE RRETURN(F, rrc) \/ RRETURN(F, "NOMATCH")
  BY <1>2, <1>6, GoingBack
<1>7. CASE RMATCH(G, F.ecode + 1, "RM37", NOGROUP)
  BY <1>2, <1>3, <1>4, <1>7, TryingFurther
<1> QED BY <1>5, <1>6, <1>7

\* A verb with a frame for what follows.
LEMMA MarkKeeps == ASSUME IInv, Mark \/ BacktrackVerb PROVE IInv'
<1> DEFINE name == code[F.ecode].name
           G == MarkedFrame(F, name)
           m == Marked(mb, name)
<1>1. pc = "match" /\ code[F.ecode].op \in Single
  BY DEF Mark, BacktrackVerb, Exec, Op, Single, Verbs
<1>2. Running /\ Shaped(F) /\ F.ecode + 1 \in DOMAIN code /\ Home(code, F.ecode + 1) = Around
      /\ Kept(mb) /\ F.ecode \in DOMAIN code /\ Home(code, F.ecode) = Around
  BY <1>1, AtOpcode, AtSingle
<1>3. Kin(G) /\ G.ecode = F.ecode
  BY <1>2 DEF Kin, Same, Shaped, FrameFields, MarkedFrame
<1>4. Kept(m)
  BY <1>2 DEF Kept, Block, BlockFields, Marked
<1>5. \E rb \in Simple : RMATCHWith(G, m, F.ecode + 1, rb, NOGROUP)
  BY DEF Mark, BacktrackVerb, Simple
<1> HIDE DEF G, m
<1> QED BY <1>2, <1>3, <1>4, <1>5, TryingSimple

\* Back at a mark.
LEMMA RM12Keeps == ASSUME IInv, RM12 PROVE IInv'
<1> DEFINE m == [mb EXCEPT !.verb_skip_ptr = F.eptr]
<1>1. Running /\ Kept(mb)
  BY AtLabel DEF RM12, Back
<1>2. Kept(m)
  BY <1>1 DEF Kept, Block, BlockFields
<1>3. RRETURNWith(F, m, "SKIP") \/ RRETURN(F, rrc)
  BY DEF RM12
<1> HIDE DEF m
<1> QED BY <1>1, <1>2, <1>3, Failing, GoingBack

\* A skip to a mark.
LEMMA SkipArgKeeps == ASSUME IInv, SkipArg PROVE IInv'
<1> DEFINE m == [mb EXCEPT !.skip_arg_count = @ + 1]
<1>1. pc = "match" /\ code[F.ecode].op \in Single
  BY DEF SkipArg, Exec, Op, Single, Verbs
<1>2. Running /\ Kin(F) /\ F.ecode + 1 \in DOMAIN code /\ Home(code, F.ecode + 1) = Around
      /\ Kept(mb) /\ F.ecode \in DOMAIN code /\ Home(code, F.ecode) = Around
  BY <1>1, AtOpcode, AtSingle
<1>3. Kept(m)
  BY <1>2 DEF Kept, Block, BlockFields
<1>4. ContinueWith(Advance(F), m) \/ RMATCHWith(F, m, F.ecode + 1, "RM13", NOGROUP)
  BY DEF SkipArg
<1> HIDE DEF m
<1>5. CASE ContinueWith(Advance(F), m)
  BY <1>1, <1>3, <1>5, GoingToNext
<1>6. CASE RMATCHWith(F, m, F.ecode + 1, "RM13", NOGROUP)
  BY <1>2, <1>3, <1>6, TryingSimple DEF Simple
<1> QED BY <1>4, <1>5, <1>6

\* A verb is triggered.
LEMMA VerbTriggeredKeeps == ASSUME IInv, VerbTriggered PROVE IInv'
<1> DEFINE verb == Op
           m == [mb EXCEPT !.verb_current_recurse = F.current_recurse,
                           !.verb_skip_ptr  = IF verb = "SKIP" THEN F.eptr ELSE @,
                           !.verb_skip_name = IF verb = "SKIP_ARG" THEN code[F.ecode].name ELSE @,
                           !.verb_ecode_ptr = IF verb = "THEN" THEN F.ecode ELSE @]
<1>1. Running /\ Kept(mb)
  BY AtLabel DEF VerbTriggered, Back
<1>2. Kept(m)
  BY <1>1 DEF Kept, Block, BlockFields
<1>3. RRETURN(F, rrc) \/ RRETURNWith(F, m, verb)
  BY DEF VerbTriggered
<1> HIDE DEF m, verb
<1> QED BY <1>1, <1>2, <1>3, Failing, GoingBack

\* A branch fails.
LEMMA FailKeeps == ASSUME IInv, Fail PROVE IInv'
BY AtOpcode, GoingBack DEF Fail, Exec

-----------------------------------------------------------------------------
(***************************************************************************)
(* Optional groups and groups.                                             *)
(***************************************************************************)
\* From a bracket or an OP_ALT on.
LEMMA HeadFacts ==
  ASSUME NEW c, Nested(c), NEW i \in DOMAIN c, IsHead(c, i), NEW b, b = Owner(c, i)
  PROVE  LET next == NextBranch(c, i)
             k == KetOf(c, i)
             after == i + 1 + Cardinality(ReturnList(c, i + 1))
         IN  /\ b \in DOMAIN c /\ IsBracket(c, b) /\ BracketFits(c, b) /\ Owner(c, b) = b
             /\ Home(c, i) = IF IsAlt(c, i) THEN Inside(c, b) ELSE Home(c, b)
             /\ next \in DOMAIN c /\ Owner(c, next) = b
             /\ IsAlt(c, next) => IsHead(c, next) /\ Home(c, next) = Inside(c, b)
             /\ ~IsAlt(c, next) => Home(c, next) = Inside(c, b)
                                   /\ next + 1 \in DOMAIN c /\ Home(c, next + 1) = Home(c, b)
             /\ k \in DOMAIN c /\ IsKet(c, k) /\ Home(c, k) = Inside(c, b)
             /\ k + 1 \in DOMAIN c /\ Home(c, k + 1) = Home(c, b)
             /\ i + 1 \in DOMAIN c /\ Home(c, i + 1) = Inside(c, b)
             /\ after \in DOMAIN c /\ Home(c, after) = Inside(c, b)
<1> DEFINE next == NextBranch(c, i)
           k == KetOf(c, i)
           after == i + 1 + Cardinality(ReturnList(c, i + 1))
<1>1. \A j \in DOMAIN c : Fits(c, j)
  BY DEF Nested
<1>2. HeadFits(c, i)
  BY <1>1 DEF Fits
<1>3. b \in DOMAIN c /\ IsBracket(c, b) /\ Owner(c, b) = b
  BY <1>2 DEF HeadFits, Owner
<1>4. BracketFits(c, b)
  BY <1>1, <1>3 DEF Fits
<1>5. next \in DOMAIN c /\ Owner(c, next) = b /\ (IsAlt(c, next) \/ IsKet(c, next))
  BY <1>2 DEF HeadFits
<1>6. k \in DOMAIN c /\ IsKet(c, k) /\ Owner(c, k) = b
  BY <1>2 DEF HeadFits
<1>7. /\ i + 1 \in DOMAIN c /\ Home(c, i + 1) = Inside(c, b)
      /\ after \in DOMAIN c /\ Home(c, after) = Inside(c, b)
  BY <1>2 DEF HeadFits, Starts
<1>8. ASSUME NEW j \in DOMAIN c, IsKet(c, j), Owner(c, j) = b
      PROVE  j + 1 \in DOMAIN c /\ Home(c, j + 1) = Home(c, b) /\ Home(c, j) = Inside(c, b)
  <2>1. KetFits(c, j)
    BY <1>1, <1>8 DEF Fits
  <2> QED BY <2>1, <1>8 DEF KetFits
<1>9. ASSUME NEW j \in DOMAIN c, IsAlt(c, j), Owner(c, j) = b
      PROVE  IsHead(c, j) /\ Home(c, j) = Inside(c, b)
  <2>1. AltFits(c, j)
    BY <1>1, <1>9 DEF Fits
  <2> QED BY <2>1, <1>9 DEF AltFits, IsHead
<1>10. Home(c, i) = IF IsAlt(c, i) THEN Inside(c, b) ELSE Home(c, b)
  BY <1>9 DEF IsHead, Owner
<1> HIDE DEF next, k, after
<1>11. ~IsAlt(c, next) => Home(c, next) = Inside(c, b) /\ next + 1 \in DOMAIN c /\ Home(c, next + 1) = Home(c, b)
  BY <1>5, <1>8
<1>12. IsAlt(c, next) => IsHead(c, next) /\ Home(c, next) = Inside(c, b)
  BY <1>5, <1>9
<1> QED BY <1>3, <1>4, <1>5, <1>6, <1>7, <1>8, <1>10, <1>11, <1>12 DEF next, k, after

\* An opening bracket belongs to itself.
LEMMA OwnBracket == ASSUME NEW c, NEW i, IsBracket(c, i) PROVE Owner(c, i) = i /\ IsHead(c, i)
BY DEF Owner, IsHead

\* An optional bracket.
LEMMA AtOption ==
  ASSUME IInv, pc = "match", code[F.ecode].op \in Options
  PROVE  LET b == F.ecode + 1
         IN  /\ b \in DOMAIN code /\ Home(code, b) = Around /\ IsBracket(code, b)
             /\ AfterKet(b) \in DOMAIN code /\ Home(code, AfterKet(b)) = Around
             /\ code[F.ecode].op = "BRAPOSZERO" => code[b].op \in PossessiveBrackets
<1> DEFINE b == F.ecode + 1
<1>1. Fits(code, F.ecode) /\ Around = Home(code, F.ecode) /\ Nested(code)
  BY AtOpcode
<1>2. OptionFits(code, F.ecode)
  BY <1>1 DEF Fits
<1>3. b \in DOMAIN code /\ Home(code, b) = Around /\ IsBracket(code, b)
      /\ (code[F.ecode].op = "BRAPOSZERO" => code[b].op \in PossessiveBrackets)
  BY <1>1, <1>2 DEF OptionFits, GoesTo
<1> HIDE DEF b
<1>4. AfterKet(b) \in DOMAIN code /\ Home(code, AfterKet(b)) = Home(code, b)
  BY <1>1, <1>3, HeadFacts, OwnBracket DEF AfterKet
<1> QED BY <1>3, <1>4 DEF b

\* A bracket that may be left out, tried first.
LEMMA BraZeroKeeps == ASSUME IInv, BraZero PROVE IInv'
<1> DEFINE G == Advance(F)
           W == Waiting(G, "RM9")
<1>1. pc = "match" /\ code[F.ecode].op \in Options
  BY DEF BraZero, Exec, Op, Options
<1>2. Running /\ Kept(mb) /\ Kin(G) /\ G.ecode = F.ecode + 1
  BY <1>1, AtOpcode, Advancing
<1>3. F.ecode + 1 \in DOMAIN code /\ Home(code, F.ecode + 1) = Around /\ IsBracket(code, F.ecode + 1)
  BY <1>1, AtOption
<1>4. W.return_id = "RM9" /\ W.ecode = F.ecode + 1
  BY <1>2 DEF Waiting, Kin, Shaped, FrameFields
<1>5. Waits(code, W) /\ GroupAt(code, W) = Around
  BY <1>3, <1>4 DEF Waits, GroupAt, Labels, OpensGroup, AtBracket, AtKetOf
<1>6. RMATCHWith(G, mb, F.ecode + 1, "RM9", NOGROUP)
  BY DEF BraZero, RMATCH, RMATCHWith
<1> HIDE DEF G
<1> QED BY <1>2, <1>3, <1>5, <1>6, Trying

\* It failed and is left out.
LEMMA RM9Keeps == ASSUME IInv, RM9 PROVE IInv'
<1> DEFINE G == [F EXCEPT !.ecode = AfterKet(F.ecode)]
<1>1. pc = "return" /\ F.return_id = "RM9"
  BY DEF RM9, Back
<1>2. Running /\ Shaped(F) /\ Nested(code) /\ F.ecode \in DOMAIN code /\ IsBracket(code, F.ecode)
      /\ Around = Home(code, F.ecode)
  BY <1>1, AtLabel DEF Waits, GroupAt, AtBracket, AtKetOf
<1>3. Kin(G) /\ G.ecode = AfterKet(F.ecode)
  BY <1>2 DEF Kin, Same, Shaped, FrameFields
<1>4. AfterKet(F.ecode) \in DOMAIN code /\ Home(code, AfterKet(F.ecode)) = Around
  BY <1>2, HeadFacts, OwnBracket DEF AfterKet
<1>5. RRETURN(F, rrc) \/ Continue(G)
  BY DEF RM9
<1> HIDE DEF G
<1> QED BY <1>2, <1>3, <1>4, <1>5, GoingBack, GoingOn

\* A bracket that may be left out, left out first.
LEMMA BraMinZeroKeeps == ASSUME IInv, BraMinZero PROVE IInv'
<1> DEFINE G == Advance(F)
<1>1. pc = "match" /\ code[F.ecode].op \in Options
  BY DEF BraMinZero, Exec, Op, Options
<1>2. Running /\ Kin(G) /\ G.ecode = F.ecode + 1
  BY <1>1, AtOpcode, Advancing
<1>3. /\ F.ecode + 1 \in DOMAIN code /\ Home(code, F.ecode + 1) = Around
      /\ AfterKet(F.ecode + 1) \in DOMAIN code /\ Home(code, AfterKet(F.ecode + 1)) = Around
  BY <1>1, AtOption
<1>4. RMATCH(G, AfterKet(F.ecode + 1), "RM10", NOGROUP)
  BY DEF BraMinZero
<1> HIDE DEF G
<1> QED BY <1>2, <1>3, <1>4, TryingNext DEF Simple

\* The rest failed without it.
LEMMA RM10Keeps == ASSUME IInv, RM10 PROVE IInv'
<1>1. pc = "return" /\ F.return_id = "RM10"
  BY DEF RM10, Back
<1>2. Running /\ Kin(F) /\ F.ecode \in DOMAIN code /\ Home(code, F.ecode) = Around
  BY <1>1, AtLabel, AtSimple DEF Simple
<1> QED BY <1>2, GoingBack, GoingOn DEF RM10

\* A bracket that is passed over.
LEMMA SkipZeroKeeps == ASSUME IInv, SkipZero PROVE IInv'
<1> DEFINE G == [F EXCEPT !.ecode = AfterKet(F.ecode + 1)]
<1>1. pc = "match" /\ code[F.ecode].op \in Options
  BY DEF SkipZero, Exec, Op, Options
<1>2. Running /\ Shaped(F)
  BY <1>1, AtOpcode
<1>3. Kin(G) /\ G.ecode = AfterKet(F.ecode + 1)
  BY <1>2 DEF Kin, Same, Shaped, FrameFields
<1>4. AfterKet(F.ecode + 1) \in DOMAIN code /\ Home(code, AfterKet(F.ecode + 1)) = Around
  BY <1>1, AtOption
<1>5. Continue(G)
  BY DEF SkipZero
<1> HIDE DEF G
<1> QED BY <1>2, <1>3, <1>4, <1>5, GoingOn

\* A frame that tries the branch at an opening bracket or OP_ALT of a bracket with a frame.
LEMMA TryingBranch ==
  ASSUME IInv, Running, NEW G, NEW m, NEW ra, NEW rb, NEW type, Kin(G), Kept(m),
         G.ecode \in DOMAIN code, IsHead(code, G.ecode),
         NEW b, b = Owner(code, G.ecode), Home(code, b) = Around, HasFrame(code, b),
         rb \in AtBracket, rb = "RM8" <=> code[b].op \in PossessiveBrackets,
         rb \in {"RM2", "RM8"} => type = G.fields.frame_type,
         rb = "RM8" => G.fields.start = b,
         type[1] \in {"nocapture", "capture"},
         ra \in DOMAIN code, Home(code, ra) = Inside(code, b),
         RMATCHWith(G, m, ra, rb, type)
  PROVE  IInv'
<1> DEFINE W == Waiting(G, rb)
<1>1. W.return_id = rb /\ W.ecode = G.ecode /\ W.fields = G.fields
  BY DEF Waiting, Kin, Shaped, FrameFields
<1>2. Nested(code)
  BY TopFacts
<1>3. IsBracket(code, b) /\ BracketFits(code, b) /\ b \in DOMAIN code
  BY <1>2, HeadFacts
<1> HIDE DEF W
<1>4. WaitsAtBracket(code, W)
  BY <1>1 DEF WaitsAtBracket, NOGROUP
<1>5. GroupAt(code, W) = Home(code, b) /\ Tried(code, W) = b
  BY <1>1 DEF GroupAt, Tried, AtBracket
<1>6. Waits(code, W)
  BY <1>1, <1>4 DEF Waits, Labels, OpensGroup, AtBracket, AtKetOf
<1>7. Inside(code, b) = b
  BY DEF Inside
<1>8. GroupsAround(code, Around) \subseteq GroupsAround(code, b)
  BY <1>3, <1>7 DEF BracketFits
<1> QED BY <1>5, <1>6, <1>7, <1>8, EnteringBranch DEF W

\* RMATCH from an opening bracket or OP_ALT, to what comes after it.
LEMMA TryingHead ==
  ASSUME IInv, Running, NEW G, NEW rb, NEW type, Kin(G),
         G.ecode \in DOMAIN code, IsHead(code, G.ecode),
         NEW b, b = Owner(code, G.ecode), Home(code, b) = Around, HasFrame(code, b),
         rb \in AtBracket, rb = "RM8" <=> code[b].op \in PossessiveBrackets,
         rb \in {"RM2", "RM8"} => type = G.fields.frame_type,
         rb = "RM8" => G.fields.start = b,
         type[1] \in {"nocapture", "capture"},
         RMATCH(G, G.ecode + 1, rb, type)
  PROVE  IInv'
<1>1. RMATCHWith(G, mb, G.ecode + 1, rb, type) /\ Kept(mb)
  BY NoteKept DEF RMATCH, RMATCHWith
<1>2. G.ecode + 1 \in DOMAIN code /\ Home(code, G.ecode + 1) = Inside(code, b)
  BY TopFacts, HeadFacts
<1> QED BY <1>1, <1>2, TryingBranch

\* A frame waiting at an opening bracket or OP_ALT.
LEMMA AtHeadLabel ==
  ASSUME IInv, pc = "return", F.return_id \in AtBracket
  PROVE  LET b == Owner(code, F.ecode)
             next == NextAlt(F.ecode)
         IN  /\ Running /\ Kin(F) /\ Kept(mb) /\ Shaped(F) /\ Nested(code)
             /\ F.ecode \in DOMAIN code /\ IsHead(code, F.ecode) /\ WaitsAtBracket(code, F)
             /\ b \in DOMAIN code /\ Home(code, b) = Around /\ IsBracket(code, b) /\ Owner(code, b) = b
             /\ next \in DOMAIN code /\ Owner(code, next) = b
             /\ AltAt(next) => IsHead(code, next)
             /\ ~AltAt(next) => next + 1 \in DOMAIN code /\ Home(code, next + 1) = Around
             /\ AfterKet(F.ecode) \in DOMAIN code /\ Home(code, AfterKet(F.ecode)) = Around
<1>1. /\ Running /\ Kin(F) /\ Kept(mb) /\ Shaped(F) /\ Nested(code)
      /\ F.ecode \in DOMAIN code /\ Waits(code, F) /\ Around = GroupAt(code, F)
  BY AtLabel
<1>2. WaitsAtBracket(code, F) /\ IsHead(code, F.ecode)
  BY <1>1 DEF Waits, WaitsAtBracket
<1> DEFINE b == Owner(code, F.ecode)
           next == NextBranch(code, F.ecode)
           k == KetOf(code, F.ecode)
<1>3. Around = Home(code, b)
  BY <1>1 DEF GroupAt, AtBracket, AtKetOf
<1>4. /\ b \in DOMAIN code /\ IsBracket(code, b) /\ Owner(code, b) = b
      /\ next \in DOMAIN code /\ Owner(code, next) = b
      /\ IsAlt(code, next) => IsHead(code, next)
      /\ ~IsAlt(code, next) => next + 1 \in DOMAIN code /\ Home(code, next + 1) = Home(code, b)
      /\ k + 1 \in DOMAIN code /\ Home(code, k + 1) = Home(code, b)
  BY <1>1, <1>2, HeadFacts
<1>5. NextAlt(F.ecode) = next /\ (AltAt(next) <=> IsAlt(code, next)) /\ AfterKet(F.ecode) = k + 1
  BY DEF NextAlt, AltAt, AfterKet
<1> QED BY <1>1, <1>2, <1>3, <1>4, <1>5

\* An opening bracket.
LEMMA AtBracketOp ==
  ASSUME IInv, pc = "match", IsBracket(code, F.ecode)
  PROVE  /\ Running /\ Kin(F) /\ Kept(mb) /\ Shaped(F) /\ Nested(code)
         /\ F.ecode \in DOMAIN code /\ IsHead(code, F.ecode) /\ Owner(code, F.ecode) = F.ecode
         /\ Home(code, F.ecode) = Around /\ BracketFits(code, F.ecode)
<1>1. /\ Running /\ Kin(F) /\ Kept(mb) /\ Shaped(F) /\ Nested(code) /\ F.ecode \in DOMAIN code
      /\ Home(code, F.ecode) = Around /\ Fits(code, F.ecode)
  BY AtOpcode
<1> QED BY <1>1, OwnBracket DEF Fits

\* A possessive group, once more from this frame.
LEMMA TryingPossessive ==
  ASSUME IInv, Running, NEW G, Kin(G), G.ecode \in DOMAIN code, IsHead(code, G.ecode),
         NEW b, b = Owner(code, G.ecode), Home(code, b) = Around, code[b].op \in PossessiveBrackets,
         G.fields.start = b, G.fields.frame_type[1] \in {"nocapture", "capture"},
         TryPossessive(G)
  PROVE  IInv'
<1> DEFINE H == [G EXCEPT !.fields.start_eptr = G.eptr]
<1>1. Kin(H) /\ H.ecode = G.ecode /\ H.fields.start = b /\ H.fields.frame_type = G.fields.frame_type
  BY DEF Kin, Same, Shaped, FrameFields, NoLocals
<1>2. RMATCH(H, G.ecode + 1, "RM8", G.fields.frame_type)
  BY DEF TryPossessive
<1> HIDE DEF H
<1>3. HasFrame(code, b)
  BY DEF HasFrame, PossessiveBrackets
<1> QED BY <1>1, <1>2, <1>3, TryingHead DEF AtBracket

\* A possessive group starts, if it may be left out or not.
LEMMA BraPosKeeps == ASSUME IInv, BraPos PROVE IInv'
<1> DEFINE bra == IF Op = "BRAPOSZERO" THEN F.ecode + 1 ELSE F.ecode
           type == IF code[bra].op \in CaptureBrackets THEN CAPTURE(code[bra].num) ELSE NOCAPTURE
           G == [F EXCEPT !.ecode = bra, !.fields.frame_type = type, !.fields.start = bra,
                          !.fields.matched_once = FALSE, !.fields.zero_allowed = Op = "BRAPOSZERO"]
<1>1. pc = "match" /\ Op \in {"BRAPOSZERO"} \cup PossessiveBrackets
  BY DEF BraPos, Exec, PossessiveBrackets
<1>2. Running /\ Shaped(F)
  BY <1>1, AtOpcode
<1>3. bra \in DOMAIN code /\ code[bra].op \in PossessiveBrackets /\ Home(code, bra) = Around
  <2>1. CASE Op = "BRAPOSZERO"
    BY <1>1, <2>1, AtOption DEF Op, Options
  <2>2. CASE Op # "BRAPOSZERO"
    BY <1>1, <2>2, AtOpcode DEF Op
  <2> QED BY <2>1, <2>2
<1>4. type[1] \in {"nocapture", "capture"}
  BY DEF CAPTURE, NOCAPTURE
<1>5. TryPossessive(G)
  BY DEF BraPos
<1> HIDE DEF bra, type
<1>6. Kin(G) /\ G.ecode = bra /\ G.fields.start = bra /\ G.fields.frame_type = type
  BY <1>2 DEF Kin, Same, Shaped, FrameFields, NoLocals
<1> HIDE DEF G
<1>7. IsBracket(code, bra)
  BY <1>3 DEF IsBracket, PossessiveBrackets, Brackets, CaptureBrackets
<1>8. Owner(code, bra) = bra /\ IsHead(code, bra)
  BY <1>7, OwnBracket
<1> QED BY <1>2, <1>3, <1>4, <1>5, <1>6, <1>8, TryingPossessive

\* A possessive group has come to its end, or a branch of it failed.
LEMMA RM8Keeps == ASSUME IInv, RM8 PROVE IInv'
<1> DEFINE next == NextAlt(F.ecode)
           b == Owner(code, F.ecode)
           G == [F EXCEPT !.fields.matched_once = TRUE, !.ecode = F.fields.start]
           H == [G EXCEPT !.ecode = AfterKet(F.ecode)]
           at(i) == [F EXCEPT !.ecode = i]
<1>1. pc = "return" /\ F.return_id = "RM8" /\ F.return_id \in AtBracket
  BY DEF RM8, Back, AtBracket
<1>2. /\ Running /\ Kin(F) /\ Shaped(F) /\ Nested(code) /\ WaitsAtBracket(code, F)
      /\ b \in DOMAIN code /\ Home(code, b) = Around /\ IsBracket(code, b) /\ Owner(code, b) = b
      /\ next \in DOMAIN code /\ Owner(code, next) = b
      /\ AltAt(next) => IsHead(code, next)
      /\ ~AltAt(next) => next + 1 \in DOMAIN code /\ Home(code, next + 1) = Around
      /\ AfterKet(F.ecode) \in DOMAIN code /\ Home(code, AfterKet(F.ecode)) = Around
  BY <1>1, AtHeadLabel
<1>3. code[b].op \in PossessiveBrackets /\ F.fields.start = b
      /\ F.fields.frame_type[1] \in {"nocapture", "capture"}
  BY <1>1, <1>2 DEF WaitsAtBracket
<1>4. Kin(G) /\ G.ecode = b /\ G.fields.start = b /\ G.fields.frame_type = F.fields.frame_type
  BY <1>2, <1>3 DEF Kin, Same, Shaped, FrameFields, NoLocals
<1>5. Kin(H) /\ H.ecode = AfterKet(F.ecode)
  BY <1>2, <1>3 DEF Kin, Same, Shaped, FrameFields, NoLocals
<1>6. \A i : Kin(at(i)) /\ at(i).ecode = i /\ at(i).fields = F.fields /\ at(i).back_frame = F.back_frame
  BY <1>2 DEF Kin, Same, Shaped, FrameFields
<1>7. \/ Continue(H) \/ TryPossessive(G) \/ RRETURN(F, rrc)
      \/ AltAt(next) /\ TryPossessive(at(next))
      \/ ~AltAt(next) /\ Continue(at(next + 1))
      \/ RRETURN(at(next), "NOMATCH")
  BY DEF RM8
<1> HIDE DEF G, H, at, b, next
<1>8. CASE Continue(H)
  BY <1>2, <1>5, <1>8, GoingOn
<1>9. CASE TryPossessive(G)
  BY <1>2, <1>3, <1>4, <1>9, OwnBracket, TryingPossessive
<1>10. CASE RRETURN(F, rrc) \/ RRETURN(at(next), "NOMATCH")
  BY <1>2, <1>6, <1>10, GoingBack
<1>11. CASE AltAt(next) /\ TryPossessive(at(next))
  BY <1>2, <1>3, <1>6, <1>11, TryingPossessive
<1>12. CASE ~AltAt(next) /\ Continue(at(next + 1))
  BY <1>2, <1>6, <1>12, GoingOn
<1> QED BY <1>7, <1>8, <1>9, <1>10, <1>11, <1>12

\* A branch of a group without a frame.
LEMMA PlainBranchKeeps ==
  ASSUME IInv, Running, NEW G, Kin(G), G.ecode \in DOMAIN code, IsHead(code, G.ecode),
         NEW b, b = Owner(code, G.ecode), Home(code, b) = Around, ~HasFrame(code, b),
         PlainBranch(G)
  PROVE  IInv'
<1> DEFINE next == NextAlt(G.ecode)
           H == [G EXCEPT !.ecode = next]
           W == Waiting(H, "RM1")
<1>1. Kin(H) /\ H.ecode = next /\ Kin(Advance(G)) /\ Advance(G).ecode = G.ecode + 1 /\ Kept(mb)
  BY NoteKept DEF Kin, Same, Shaped, FrameFields, Advance
<1>2. /\ next \in DOMAIN code /\ Owner(code, next) = b
      /\ AltAt(next) => IsHead(code, next) /\ Home(code, next) = Inside(code, b)
      /\ G.ecode + 1 \in DOMAIN code /\ Home(code, G.ecode + 1) = Inside(code, b)
  BY TopFacts, HeadFacts DEF NextAlt, AltAt
<1>3. Inside(code, b) = Around
  BY DEF Inside
<1>4. \/ AltAt(next) /\ RMATCHWith(H, mb, G.ecode + 1, "RM1", NOGROUP)
      \/ Continue(Advance(G))
  BY DEF PlainBranch, RMATCH, RMATCHWith
<1> HIDE DEF H, next
<1>5. CASE AltAt(next) /\ RMATCHWith(H, mb, G.ecode + 1, "RM1", NOGROUP)
  <2>1. W.return_id = "RM1" /\ W.ecode = next
    BY <1>1 DEF Waiting, Kin, Shaped, FrameFields
  <2> HIDE DEF W
  <2>2. Waits(code, W) /\ GroupAt(code, W) = Around
    BY <1>2, <1>3, <1>5, <2>1 DEF Waits, GroupAt, Labels, OpensGroup, AtBracket, AtKetOf
  <2> QED BY <1>1, <1>2, <1>3, <1>5, <2>2, Trying DEF W
<1>6. CASE Continue(Advance(G))
  BY <1>1, <1>2, <1>3, <1>6, GoingOn
<1> QED BY <1>4, <1>5, <1>6

\* A branch of a group with a frame for what follows.
LEMMA GroupBranchKeeps ==
  ASSUME IInv, Running, NEW G, Kin(G), G.ecode \in DOMAIN code, IsHead(code, G.ecode),
         NEW b, b = Owner(code, G.ecode), Home(code, b) = Around,
         code[b].op \notin PossessiveBrackets,
         NEW type, type = G.fields.frame_type,
         type = NOGROUP \/ type[1] \in {"nocapture", "capture"}, type = NOGROUP <=> ~HasFrame(code, b),
         GroupBranch(G)
  PROVE  IInv'
<1>1. RMATCH(G, G.ecode + 1, "RM2", type)
  BY DEF GroupBranch
<1>2. CASE type # NOGROUP
  BY <1>1, <1>2, TryingHead DEF AtBracket
<1>3. CASE type = NOGROUP
  <2> DEFINE W == Waiting(G, "RM2")
  <2>1. W.return_id = "RM2" /\ W.ecode = G.ecode /\ W.fields = G.fields
    BY DEF Waiting, Kin, Shaped, FrameFields
  <2> HIDE DEF W
  <2>2. WaitsAtBracket(code, W)
    BY <1>3, <2>1 DEF WaitsAtBracket
  <2>3. Waits(code, W) /\ GroupAt(code, W) = Around
    BY <2>1, <2>2 DEF Waits, GroupAt, Labels, OpensGroup, AtBracket, AtKetOf
  <2>4. G.ecode + 1 \in DOMAIN code /\ Home(code, G.ecode + 1) = Around
    BY <1>3, TopFacts, HeadFacts DEF Inside
  <2>5. RMATCHWith(G, mb, G.ecode + 1, "RM2", NOGROUP) /\ Kept(mb)
    BY <1>1, <1>3, NoteKept DEF RMATCH, RMATCHWith
  <2> QED BY <2>3, <2>4, <2>5, Trying DEF W
<1> QED BY <1>2, <1>3

\* A group without captures, with a frame or without.
LEMMA BraKeeps == ASSUME IInv, Bra PROVE IInv'
<1> DEFINE G == [F EXCEPT !.fields.frame_type = NOGROUP]
<1>1. pc = "match" /\ code[F.ecode].op = "BRA"
  BY DEF Bra, Exec, Op
<1>2. IsBracket(code, F.ecode) /\ ~HasFrame(code, F.ecode) /\ "BRA" \notin PossessiveBrackets
  BY <1>1 DEF IsBracket, Brackets, HasFrame, PossessiveBrackets
<1>3. /\ Running /\ Kin(F) /\ Shaped(F) /\ F.ecode \in DOMAIN code /\ IsHead(code, F.ecode)
      /\ Owner(code, F.ecode) = F.ecode /\ Home(code, F.ecode) = Around
  BY <1>1, <1>2, AtBracketOp
<1>4. Kin(G) /\ G.ecode = F.ecode /\ G.fields.frame_type = NOGROUP
  BY <1>3 DEF Kin, Same, Shaped, FrameFields, NoLocals
<1>5. GroupBranch(G) \/ PlainBranch(F)
  BY DEF Bra
<1> HIDE DEF G
<1>6. CASE GroupBranch(G)
  BY <1>1, <1>2, <1>3, <1>4, <1>6, GroupBranchKeeps
<1>7. CASE PlainBranch(F)
  BY <1>2, <1>3, <1>7, PlainBranchKeeps
<1> QED BY <1>5, <1>6, <1>7

\* The next branch of a group without a frame.
LEMMA RM1Keeps == ASSUME IInv, RM1 PROVE IInv'
<1>1. pc = "return" /\ F.return_id = "RM1"
  BY DEF RM1, Back
<1>2. Running /\ Kin(F) /\ Nested(code) /\ F.ecode \in DOMAIN code /\ IsHead(code, F.ecode)
      /\ ~HasFrame(code, Owner(code, F.ecode)) /\ Around = Home(code, F.ecode)
  BY <1>1, AtLabel DEF Waits, GroupAt, AtBracket, AtKetOf
<1>3. Home(code, Owner(code, F.ecode)) = Around
  BY <1>2, HeadFacts DEF Inside
<1>4. RRETURN(F, rrc) \/ PlainBranch(F)
  BY DEF RM1
<1> QED BY <1>2, <1>3, <1>4, GoingBack, PlainBranchKeeps

\* A capture or atomic group.
LEMMA CaptureOrOnceKeeps == ASSUME IInv, CaptureBra \/ Once PROVE IInv'
<1> DEFINE type == IF CaptureBra THEN CAPTURE(code[F.ecode].num) ELSE NOCAPTURE
           G == [F EXCEPT !.fields.frame_type = type]
<1>1. pc = "match" /\ code[F.ecode].op \in {"CBRA", "SCBRA", "ONCE", "SBRA"}
  BY DEF CaptureBra, Once, Exec, Op
<1>2. IsBracket(code, F.ecode) /\ HasFrame(code, F.ecode) /\ code[F.ecode].op \notin PossessiveBrackets
  BY <1>1 DEF IsBracket, Brackets, CaptureBrackets, HasFrame, PossessiveBrackets
<1>3. /\ Running /\ Shaped(F) /\ F.ecode \in DOMAIN code /\ IsHead(code, F.ecode)
      /\ Owner(code, F.ecode) = F.ecode /\ Home(code, F.ecode) = Around
  BY <1>1, <1>2, AtBracketOp
<1>4. type[1] \in {"nocapture", "capture"} /\ type # NOGROUP
  BY DEF CAPTURE, NOCAPTURE, NOGROUP
<1>5. GroupBranch(G)
  BY DEF CaptureBra, Once
<1> HIDE DEF type
<1>6. Kin(G) /\ G.ecode = F.ecode /\ G.fields.frame_type = type
  BY <1>3 DEF Kin, Same, Shaped, FrameFields, NoLocals
<1> HIDE DEF G
<1> QED BY <1>2, <1>3, <1>4, <1>5, <1>6, GroupBranchKeeps

\* The next branch of a group.
LEMMA RM2Keeps == ASSUME IInv, RM2 PROVE IInv'
<1> DEFINE next == NextAlt(F.ecode)
           b == Owner(code, F.ecode)
           G == [F EXCEPT !.ecode = next]
<1>1. pc = "return" /\ F.return_id = "RM2" /\ F.return_id \in AtBracket
  BY DEF RM2, Back, AtBracket
<1>2. /\ Running /\ Shaped(F) /\ WaitsAtBracket(code, F)
      /\ Home(code, b) = Around /\ next \in DOMAIN code /\ Owner(code, next) = b
      /\ AltAt(next) => IsHead(code, next)
  BY <1>1, AtHeadLabel
<1>3. /\ code[b].op \notin PossessiveBrackets
      /\ F.fields.frame_type = NOGROUP \/ F.fields.frame_type[1] \in {"nocapture", "capture"}
      /\ F.fields.frame_type = NOGROUP <=> ~HasFrame(code, b)
  BY <1>1, <1>2 DEF WaitsAtBracket
<1>4. Kin(G) /\ G.ecode = next /\ G.fields = F.fields /\ G.back_frame = F.back_frame
  BY <1>2 DEF Kin, Same, Shaped, FrameFields
<1>5. RRETURN(F, rrc) \/ (AltAt(next) /\ GroupBranch(G)) \/ RRETURN(G, "NOMATCH")
  BY DEF RM2
<1> HIDE DEF G, next, b
<1>6. CASE RRETURN(F, rrc) \/ RRETURN(G, "NOMATCH")
  BY <1>2, <1>4, <1>6, GoingBack
<1>7. CASE AltAt(next) /\ GroupBranch(G)
  BY <1>2, <1>3, <1>4, <1>7, GroupBranchKeeps
<1> QED BY <1>5, <1>6, <1>7

-----------------------------------------------------------------------------
(***************************************************************************)
(* Recursion, assertions and conditions.                                   *)
(***************************************************************************)
\* A branch of the group that is called.
LEMMA RecurseBranchKeeps ==
  ASSUME IInv, Running, NEW G, Kin(G), G.ecode \in DOMAIN code, code[G.ecode].op = "RECURSE",
         Home(code, G.ecode) = Around, NEW n, n = code[G.ecode].num, G.fields.frame_type = RECURSE(n),
         NEW start \in DOMAIN code, IsHead(code, start), Owner(code, start) = GroupStart(code, n),
         RecurseBranch(G, start)
  PROVE  IInv'
<1> DEFINE H == [G EXCEPT !.fields.start = start]
           W == Waiting(H, "RM11")
           ra == start + 1
           N == NewFrame(W, Len(frames) + 1, ra, RECURSE(n))
           g == GroupStart(code, n)
<1>1. Kin(H) /\ H.ecode = G.ecode /\ H.fields.start = start /\ H.fields.frame_type = RECURSE(n)
  BY DEF Kin, Same, Shaped, FrameFields, NoLocals
<1>2. RMATCHWith(H, mb, ra, "RM11", RECURSE(n)) /\ Kept(mb)
  BY NoteKept DEF RecurseBranch, RMATCH, RMATCHWith
<1> HIDE DEF H
<1>3. W.return_id = "RM11" /\ W.ecode = G.ecode /\ W.fields = H.fields /\ Shaped(W)
  BY <1>1 DEF Waiting, Kin, Shaped, FrameFields
<1> HIDE DEF W
<1>4. Waits(code, W) /\ GroupAt(code, W) = Around
  BY <1>1, <1>3 DEF Waits, WaitsAtCall, GroupAt, Labels, OpensGroup, AtBracket, AtKetOf
<1>5. CallFits(code, G.ecode)
  BY TopFacts DEF Nested, Fits
<1>6. n \in Nat /\ g \in DOMAIN code
      /\ IF n = 0 THEN code[g].op = "BRA" /\ Home(code, g) = 0
                  ELSE IsCapture(code, g) /\ code[g].num = n
  BY <1>5 DEF CallFits
<1>7. ra \in DOMAIN code /\ Home(code, ra) = Inside(code, g)
  BY TopFacts, HeadFacts
<1> HIDE DEF g
<1>8. Home(code, ra) = IF n = 0 THEN 0 ELSE g
  BY <1>6, <1>7 DEF Inside, HasFrame, IsCapture, CaptureBrackets
<1>9. n # 0 => n \in GroupsAround(code, g)
  BY <1>6 DEF GroupsAround
<1>10. /\ N.last_group = Len(frames) + 1 /\ N.back_frame = 1 /\ N.group_frame_type = RECURSE(n)
       /\ N.current_recurse = n
  BY <1>3 DEF NewFrame, Shaped, FrameFields, RECURSE, NOGROUP
<1> HIDE DEF N
<1>11. LinkFits(code, N, RECURSE(n), W, Home(code, ra))
  BY <1>8, <1>10 DEF LinkFits, RECURSE, g
<1>12. TypeFits(RECURSE(n), W)
  BY <1>1, <1>3 DEF TypeFits, RECURSE, OpensGroup
<1>13. NewGroup(code, W, N, Len(frames) + 1, Home(code, ra))
  BY <1>8, <1>9, <1>10, <1>11, <1>12 DEF NewGroup, RECURSE, NOGROUP
<1> QED BY <1>1, <1>2, <1>4, <1>7, <1>13, EnteringGroup DEF W, N

\* A call.
LEMMA RecursionKeeps == ASSUME IInv, Recursion PROVE IInv'
<1> DEFINE n == code[F.ecode].num
           G == [F EXCEPT !.recurse_last_used = mb.last_used_ptr, !.fields.frame_type = RECURSE(n)]
           g == GroupStart(code, n)
<1>1. pc = "match" /\ code[F.ecode].op = "RECURSE"
  BY DEF Recursion, Exec, Op
<1>2. Running /\ Shaped(F) /\ F.ecode \in DOMAIN code /\ Home(code, F.ecode) = Around /\ Kept(mb)
      /\ CallFits(code, F.ecode) /\ Nested(code)
  BY <1>1, AtOpcode DEF Fits
<1>3. Kin(G) /\ G.ecode = F.ecode /\ G.fields.frame_type = RECURSE(n)
  BY <1>2 DEF Kin, Same, Shaped, FrameFields, NoLocals
<1>4. g \in DOMAIN code /\ IsBracket(code, g)
  BY <1>2 DEF CallFits, IsBracket, IsCapture, Brackets
<1>5. IsHead(code, g) /\ Owner(code, g) = g
  BY <1>4, OwnBracket
<1>6. Return(mb, "RECURSELOOP") \/ RecurseBranch(G, g)
  BY DEF Recursion
<1> HIDE DEF G
<1>7. CASE Return(mb, "RECURSELOOP")
  BY <1>2, <1>7, Returning
<1>8. CASE RecurseBranch(G, g)
  BY <1>1, <1>2, <1>3, <1>4, <1>5, <1>8, RecurseBranchKeeps
<1> QED BY <1>6, <1>7, <1>8

\* A call failed, or its next branch is tried.
LEMMA RM11Keeps == ASSUME IInv, RM11 PROVE IInv'
<1> DEFINE next == NextAlt(F.fields.start)
           G == [F EXCEPT !.fields.start = next]
<1>1. pc = "return" /\ F.return_id = "RM11"
  BY DEF RM11, Back
<1>2. /\ Running /\ Kin(F) /\ Shaped(F) /\ Nested(code) /\ F.ecode \in DOMAIN code
      /\ WaitsAtCall(code, F) /\ Around = Home(code, F.ecode)
  BY <1>1, AtLabel DEF Waits, GroupAt, AtBracket, AtKetOf
<1>3. /\ next \in DOMAIN code /\ Owner(code, next) = GroupStart(code, code[F.ecode].num)
      /\ AltAt(next) => IsHead(code, next)
  BY <1>2, HeadFacts DEF WaitsAtCall, NextAlt, AltAt
<1>4. G.back_frame = F.back_frame
  BY <1>2 DEF Shaped, FrameFields
<1>5. RRETURN(F, "NOMATCH") \/ RRETURN(F, rrc) \/ (AltAt(next) /\ RecurseBranch(F, next)) \/ RRETURN(G, "NOMATCH")
  BY DEF RM11
<1> HIDE DEF G, next
<1>6. CASE RRETURN(F, "NOMATCH") \/ RRETURN(F, rrc) \/ RRETURN(G, "NOMATCH")
  BY <1>2, <1>4, <1>6, GoingBack
<1>7. CASE AltAt(next) /\ RecurseBranch(F, next)
  BY <1>2, <1>3, <1>7, RecurseBranchKeeps DEF WaitsAtCall
<1> QED BY <1>5, <1>6, <1>7

\* A branch of an assertion.
LEMMA AssertBranchKeeps ==
  ASSUME IInv, Running, NEW G, Kin(G), G.ecode \in DOMAIN code, IsHead(code, G.ecode),
         NEW b, b = Owner(code, G.ecode), Home(code, b) = Around,
         NEW rb \in {"RM3", "RM4"}, HasFrame(code, b), code[b].op \notin PossessiveBrackets,
         AssertBranch(G, rb)
  PROVE  IInv'
<1>1. RMATCH(G, G.ecode + 1, rb, NOCAPTURE)
  BY DEF AssertBranch
<1>2. NOCAPTURE[1] \in {"nocapture", "capture"}
  BY DEF NOCAPTURE
<1> QED BY <1>1, <1>2, TryingHead DEF AtBracket

\* An assertion.
LEMMA AssertionKeeps == ASSUME IInv, Assertion \/ NegativeAssertion PROVE IInv'
<1>1. pc = "match" /\ code[F.ecode].op \in {"ASSERT", "ASSERTBACK", "ASSERT_NA", "ASSERTBACK_NA",
                                             "ASSERT_NOT", "ASSERTBACK_NOT"}
  BY DEF Assertion, NegativeAssertion, Exec, Op
<1>2. IsBracket(code, F.ecode) /\ HasFrame(code, F.ecode) /\ code[F.ecode].op \notin PossessiveBrackets
  BY <1>1 DEF IsBracket, Brackets, Assertions, Lookbehinds, HasFrame, PossessiveBrackets
<1>3. \E rb \in {"RM3", "RM4"} : AssertBranch(F, rb)
  BY DEF Assertion, NegativeAssertion
<1> QED BY <1>1, <1>2, <1>3, AtBracketOp, AssertBranchKeeps

\* The captures of the frame that met *ACCEPT do not change the links.
LEMMA AcceptedAlike ==
  ASSUME NEW G, Shaped(G)
  PROVE  LET H == Accepted(G)
         IN  Shaped(H) /\ Same(G, H) /\ H.ecode = G.ecode /\ H.fields = G.fields /\ H.return_id = G.return_id
BY DEF Accepted, Shaped, Same, FrameFields

\* What a frame that waits for a branch of an assertion may go on with.
LEMMA RM3Keeps == ASSUME IInv, RM3 PROVE IInv'
<1> DEFINE next == NextAlt(F.ecode)
           b == Owner(code, F.ecode)
           at(i) == [F EXCEPT !.ecode = i]
           A == [Accepted(F) EXCEPT !.ecode = AfterKet(F.ecode)]
<1>1. pc = "return" /\ F.return_id = "RM3" /\ F.return_id \in AtBracket
  BY DEF RM3, Back, AtBracket
<1>2. /\ Running /\ Shaped(F) /\ WaitsAtBracket(code, F)
      /\ Home(code, b) = Around /\ next \in DOMAIN code /\ Owner(code, next) = b
      /\ AltAt(next) => IsHead(code, next)
      /\ AfterKet(F.ecode) \in DOMAIN code /\ Home(code, AfterKet(F.ecode)) = Around
  BY <1>1, AtHeadLabel
<1>3. HasFrame(code, b) /\ code[b].op \notin PossessiveBrackets
  BY <1>1, <1>2 DEF WaitsAtBracket
<1>4. \A i : Kin(at(i)) /\ at(i).ecode = i /\ at(i).back_frame = F.back_frame
  BY <1>2 DEF Kin, Same, Shaped, FrameFields
<1>5. Kin(A) /\ A.ecode = AfterKet(F.ecode)
  BY <1>2, AcceptedAlike DEF Kin, Same, Shaped, FrameFields
<1>6. \/ Continue(A) \/ RRETURN(F, rrc)
      \/ (AltAt(next) /\ AssertBranch(at(next), "RM3")) \/ RRETURN(at(next), "NOMATCH")
  BY DEF RM3
<1> HIDE DEF at, A, next, b
<1>7. CASE Continue(A)
  BY <1>2, <1>5, <1>7, GoingOn
<1>8. CASE RRETURN(F, rrc) \/ RRETURN(at(next), "NOMATCH")
  BY <1>2, <1>4, <1>8, GoingBack
<1>9. CASE AltAt(next) /\ AssertBranch(at(next), "RM3")
  BY <1>2, <1>3, <1>4, <1>9, AssertBranchKeeps
<1> QED BY <1>6, <1>7, <1>8, <1>9

\* A branch of a negative assertion ended.
LEMMA RM4Keeps == ASSUME IInv, RM4 PROVE IInv'
<1> DEFINE next == NextAlt(F.ecode)
           b == Owner(code, F.ecode)
           at(i) == [F EXCEPT !.ecode = i]
           G == Advance(at(next))
<1>1. pc = "return" /\ F.return_id = "RM4" /\ F.return_id \in AtBracket
  BY DEF RM4, Back, AtBracket
<1>2. /\ Running /\ Shaped(F) /\ WaitsAtBracket(code, F)
      /\ Home(code, b) = Around /\ next \in DOMAIN code /\ Owner(code, next) = b
      /\ AltAt(next) => IsHead(code, next)
      /\ ~AltAt(next) => next + 1 \in DOMAIN code /\ Home(code, next + 1) = Around
      /\ AfterKet(F.ecode) \in DOMAIN code /\ Home(code, AfterKet(F.ecode)) = Around
  BY <1>1, AtHeadLabel
<1>3. HasFrame(code, b) /\ code[b].op \notin PossessiveBrackets
  BY <1>1, <1>2 DEF WaitsAtBracket
<1>4. \A i : Kin(at(i)) /\ at(i).ecode = i /\ at(i).back_frame = F.back_frame
  BY <1>2 DEF Kin, Same, Shaped, FrameFields
<1>5. Kin(G) /\ G.ecode = next + 1
  BY <1>2 DEF Kin, Same, Shaped, FrameFields, Advance
<1>6. \/ RRETURN(F, rrc) \/ RRETURN(F, "NOMATCH")
      \/ AltAt(next) /\ AssertBranch(at(next), "RM4")
      \/ ~AltAt(next) /\ Continue(G)
      \/ Continue(at(AfterKet(F.ecode)))
  <2>1. at(next).ecode = next
    BY <1>4
  <2> HIDE DEF next
  <2>2. CASE rrc \in {"ACCEPT", "MATCH"}
    BY <2>2 DEF RM4
  <2>3. CASE rrc \in {"NOMATCH", "THEN"}
    BY <2>1, <2>3 DEF RM4, next
  <2>4. CASE rrc \in {"COMMIT", "SKIP", "PRUNE"}
    BY <2>4 DEF RM4
  <2>5. CASE rrc \notin {"ACCEPT", "MATCH", "NOMATCH", "THEN", "COMMIT", "SKIP", "PRUNE"}
    BY <2>5 DEF RM4
  <2> QED BY <2>2, <2>3, <2>4, <2>5
<1> HIDE DEF at, G, next, b
<1>7. CASE RRETURN(F, rrc) \/ RRETURN(F, "NOMATCH")
  BY <1>2, <1>7, GoingBack
<1>8. CASE AltAt(next) /\ AssertBranch(at(next), "RM4")
  BY <1>2, <1>3, <1>4, <1>8, AssertBranchKeeps
<1>9. CASE ~AltAt(next) /\ Continue(G)
  BY <1>2, <1>5, <1>9, GoingOn
<1>10. CASE Continue(at(AfterKet(F.ecode)))
  BY <1>2, <1>4, <1>10, GoingOn
<1> QED BY <1>6, <1>7, <1>8, <1>9, <1>10

\* A branch of a scan substring group.
LEMMA ScsBranchKeeps ==
  ASSUME IInv, Running, NEW G, NEW m, Kin(G), Kept(m), G.ecode \in DOMAIN code, IsHead(code, G.ecode),
         NEW b, b = Owner(code, G.ecode), Home(code, b) = Around,
         HasFrame(code, b), code[b].op \notin PossessiveBrackets,
         ScsBranch(G, m)
  PROVE  IInv'
<1> DEFINE ra == G.ecode + 1 + Cardinality(ReturnList(code, G.ecode + 1))
<1>1. RMATCHWith(G, m, ra, "RM38", NOCAPTURE)
  BY DEF ScsBranch
<1>2. NOCAPTURE[1] \in {"nocapture", "capture"}
  BY DEF NOCAPTURE
<1>3. ra \in DOMAIN code /\ Home(code, ra) = Inside(code, b)
  BY TopFacts, HeadFacts
<1> QED BY <1>1, <1>2, <1>3, TryingBranch DEF AtBracket

\* A scan of substrings.
LEMMA ScsKeeps == ASSUME IInv, Scs PROVE IInv'
<1> DEFINE list == ReturnList(code, F.ecode + 1)
           set  == {i \in list : IsSet(F, code[i].num)}
           sub  == F.ovector[code[Min(set)].num]
           G == [F EXCEPT !.eptr = sub[1], !.fields.saved_end = mb.end_subject,
                          !.fields.true_end_extra = mb.true_end_subject - mb.end_subject,
                          !.fields.start_eptr = F.eptr, !.fields.saved_eol = mb.noteol]
           m == [mb EXCEPT !.end_subject = sub[2], !.true_end_subject = sub[2], !.noteol = FALSE]
<1>1. pc = "match" /\ code[F.ecode].op = "ASSERT_SCS"
  BY DEF Scs, Exec, Op
<1>2. IsBracket(code, F.ecode) /\ HasFrame(code, F.ecode) /\ code[F.ecode].op \notin PossessiveBrackets
  BY <1>1 DEF IsBracket, Brackets, Assertions, HasFrame, PossessiveBrackets
<1>3. /\ Running /\ Shaped(F) /\ F.ecode \in DOMAIN code /\ IsHead(code, F.ecode)
      /\ Owner(code, F.ecode) = F.ecode /\ Home(code, F.ecode) = Around /\ Kept(mb)
  BY <1>1, <1>2, AtBracketOp
<1>4. RRETURN(F, "NOMATCH") \/ ScsBranch(G, m)
  BY DEF Scs
<1> HIDE DEF sub
<1>5. Kin(G) /\ G.ecode = F.ecode
  BY <1>3 DEF Kin, Same, Shaped, FrameFields, NoLocals
<1>6. Kept(m)
  BY <1>3 DEF Kept, Block, BlockFields
<1> HIDE DEF G, m
<1>7. CASE RRETURN(F, "NOMATCH")
  BY <1>3, <1>7, GoingBack
<1>8. CASE ScsBranch(G, m)
  BY <1>2, <1>3, <1>5, <1>6, <1>8, ScsBranchKeeps
<1> QED BY <1>4, <1>7, <1>8

\* A branch of it failed.
LEMMA RM38Keeps == ASSUME IInv, RM38 PROVE IInv'
<1> DEFINE next == NextAlt(F.ecode)
           m == OutsideScs(F, mb)
           b == Owner(code, F.ecode)
           G == [F EXCEPT !.ecode = next]
           A == [Accepted(F) EXCEPT !.ecode = AfterKet(F.ecode), !.eptr = F.fields.start_eptr]
<1>1. pc = "return" /\ F.return_id = "RM38" /\ F.return_id \in AtBracket
  BY DEF RM38, Back, AtBracket
<1>2. /\ Running /\ Shaped(F) /\ Kept(mb) /\ WaitsAtBracket(code, F)
      /\ Home(code, b) = Around /\ next \in DOMAIN code /\ Owner(code, next) = b
      /\ AltAt(next) => IsHead(code, next)
      /\ AfterKet(F.ecode) \in DOMAIN code /\ Home(code, AfterKet(F.ecode)) = Around
  BY <1>1, AtHeadLabel
<1>3. HasFrame(code, b) /\ code[b].op \notin PossessiveBrackets
  BY <1>1, <1>2 DEF WaitsAtBracket
<1>4. Kin(G) /\ G.ecode = next /\ G.back_frame = F.back_frame
  BY <1>2 DEF Kin, Same, Shaped, FrameFields
<1>5. Kin(A) /\ A.ecode = AfterKet(F.ecode)
  BY <1>2, AcceptedAlike DEF Kin, Same, Shaped, FrameFields
<1>6. Kept(m)
  BY <1>2 DEF Kept, Block, BlockFields, OutsideScs
<1>7. \/ ContinueWith(A, m) \/ RRETURNWith(F, m, rrc)
      \/ (AltAt(next) /\ ScsBranch(G, mb)) \/ RRETURNWith(G, m, "NOMATCH")
  BY DEF RM38
<1> HIDE DEF G, A, m, next, b
<1>8. CASE ContinueWith(A, m)
  BY <1>2, <1>5, <1>6, <1>8, Going
<1>9. CASE RRETURNWith(F, m, rrc) \/ RRETURNWith(G, m, "NOMATCH")
  BY <1>2, <1>4, <1>6, <1>9, Failing
<1>10. CASE AltAt(next) /\ ScsBranch(G, mb)
  BY <1>2, <1>3, <1>4, <1>10, ScsBranchKeeps
<1> QED BY <1>7, <1>8, <1>9, <1>10

\* What follows the scan failed.
LEMMA RM39Keeps == ASSUME IInv, RM39 PROVE IInv'
<1> DEFINE m == [mb EXCEPT !.end_subject = F.fields.saved_end, !.true_end_subject = F.fields.saved_end]
<1>1. Running /\ Kept(mb)
  BY AtLabel DEF RM39, Back
<1>2. Kept(m)
  BY <1>1 DEF Kept, Block, BlockFields
<1>3. RRETURNWith(F, m, rrc)
  BY DEF RM39
<1> HIDE DEF m
<1> QED BY <1>1, <1>2, <1>3, Failing

\* The opcode of a conditional group.
LEMMA ConditionFacts ==
  ASSUME NEW c, Nested(c), NEW b \in DOMAIN c, c[b].op \in {"COND", "SCOND"}
  PROVE  LET next == NextBranch(c, b)
             after == KetOf(c, b + 1) + 1
         IN  /\ IsBracket(c, b) /\ Owner(c, b) = b /\ BracketFits(c, b)
             /\ next \in DOMAIN c /\ Home(c, next) = Inside(c, b)
             /\ IsAlt(c, next) => next + 1 \in DOMAIN c /\ Home(c, next + 1) = Inside(c, b)
             /\ b + 1 \in DOMAIN c /\ Home(c, b + 1) = Inside(c, b)
             /\ IF c[b + 1].op \in Assertions
                THEN /\ IsBracket(c, b + 1) /\ c[b + 1].op \in CondAssertions /\ HasFrame(c, b + 1)
                     /\ after \in DOMAIN c /\ Home(c, after) = Inside(c, b)
                     /\ GroupsAround(c, Home(c, b)) \subseteq GroupsAround(c, b + 1)
                ELSE b + 1 + 1 \in DOMAIN c /\ Home(c, b + 1 + 1) = Inside(c, b)
<1> DEFINE next == NextBranch(c, b)
<1>1. IsBracket(c, b)
  BY DEF IsBracket, Brackets
<1>2. Owner(c, b) = b /\ IsHead(c, b) /\ ~IsAlt(c, b)
  BY <1>1, OwnBracket DEF IsAlt
<1>3. /\ BracketFits(c, b) /\ next \in DOMAIN c /\ Owner(c, next) = b /\ Home(c, next) = Inside(c, b)
      /\ IsAlt(c, next) => IsHead(c, next)
      /\ b + 1 \in DOMAIN c /\ Home(c, b + 1) = Inside(c, b)
  BY <1>2, HeadFacts
<1> HIDE DEF next
<1>4. IsAlt(c, next) => next + 1 \in DOMAIN c /\ Home(c, next + 1) = Inside(c, b)
  BY <1>3, HeadFacts
<1>5. ConditionFits(c, b)
  BY DEF Nested, Fits
<1>6. CASE c[b + 1].op \in Assertions
  <2> DEFINE t == b + 1
             after == KetOf(c, t) + 1
  <2>1. IsBracket(c, t) /\ c[t].op \in CondAssertions /\ HasFrame(c, t) /\ t \in DOMAIN c /\ Home(c, t) = Inside(c, b)
    BY <1>3, <1>5, <1>6 DEF ConditionFits, IsBracket, Brackets, HasFrame, CondAssertions
  <2>2. IsHead(c, t) /\ Owner(c, t) = t
    BY <2>1, OwnBracket
  <2> HIDE DEF t
  <2>3. BracketFits(c, t) /\ after \in DOMAIN c /\ Home(c, after) = Home(c, t)
    BY <2>1, <2>2, HeadFacts
  <2> HIDE DEF after
  <2>4. GroupsAround(c, Home(c, b)) \subseteq GroupsAround(c, t)
    BY <1>3, <2>1, <2>3 DEF BracketFits, Inside
  <2> QED BY <1>1, <1>2, <1>3, <1>4, <1>6, <2>1, <2>3, <2>4 DEF next, after, t
<1>7. CASE c[b + 1].op \notin Assertions
  <2>1. b + 1 + 1 \in DOMAIN c /\ Home(c, b + 1 + 1) = Inside(c, b)
    <3>1. b + 1 + 1 = b + 2
      BY DEF Nested
    <3> QED BY <1>5, <1>7, <3>1 DEF ConditionFits
  <2> QED BY <1>1, <1>2, <1>3, <1>4, <1>7, <2>1 DEF next
<1> QED BY <1>6, <1>7

\* It goes into one of the branches.
LEMMA ChooseBranchKeeps ==
  ASSUME IInv, Running, NEW G, Kin(G), NEW b \in DOMAIN code, code[b].op \in {"COND", "SCOND"},
         Home(code, b) = Around, NEW condition, ChooseBranch(G, b, condition)
  PROVE  IInv'
<1> DEFINE test  == b + 1
           first == (IF code[test].op \in Assertions THEN KetOf(code, test) ELSE test) + 1
           other == IF AltAt(NextAlt(b)) THEN NextAlt(b) + 1 ELSE NextAlt(b)
           h == IF condition THEN first ELSE other
           H == [G EXCEPT !.ecode = h]
           W == Waiting(H, "RM35")
<1>1. first \in DOMAIN code /\ Home(code, first) = Inside(code, b)
  BY TopFacts, ConditionFacts
<1>2. other \in DOMAIN code /\ Home(code, other) = Inside(code, b)
  BY TopFacts, ConditionFacts DEF NextAlt, AltAt
<1>3. IF code[b].op = "SCOND" THEN RMATCHWith(H, mb, H.ecode, "RM35", NOCAPTURE) ELSE Continue(H)
  BY DEF ChooseBranch, RMATCH, RMATCHWith
<1> HIDE DEF first, other
<1>4. h \in DOMAIN code /\ Home(code, h) = Inside(code, b)
  BY <1>1, <1>2
<1> HIDE DEF h
<1>5. Kin(H) /\ H.ecode = h
  BY DEF Kin, Same, Shaped, FrameFields
<1> HIDE DEF H
<1>6. CASE code[b].op = "SCOND"
  <2>1. W.return_id = "RM35" /\ W.ecode = h
    BY <1>5 DEF Waiting, Kin, Shaped, FrameFields
  <2>2. Inside(code, b) = b
    BY <1>6 DEF Inside, HasFrame
  <2> HIDE DEF W
  <2>3. Waits(code, W)
    BY <1>4, <1>6, <2>1, <2>2 DEF Waits, WaitsInCondition, Labels, OpensGroup, AtBracket, AtKetOf
  <2>4. GroupAt(code, W) = Around /\ Tried(code, W) = b
    BY <1>4, <2>1, <2>2 DEF GroupAt, Tried, AtBracket, AtKetOf
  <2>5. GroupsAround(code, Around) \subseteq GroupsAround(code, b)
    BY <2>2, TopFacts, ConditionFacts DEF BracketFits
  <2>6. Kept(mb) /\ NOCAPTURE[1] \in {"nocapture", "capture"}
    BY NoteKept DEF NOCAPTURE
  <2> QED BY <1>3, <1>4, <1>5, <1>6, <2>2, <2>3, <2>4, <2>5, <2>6, EnteringBranch DEF W
<1>7. CASE code[b].op # "SCOND"
  <2>1. Inside(code, b) = Around
    BY <1>7 DEF Inside, HasFrame
  <2> QED BY <1>3, <1>4, <1>5, <1>7, <2>1, GoingOn
<1> QED BY <1>6, <1>7

\* A branch of the assertion that is the condition.
LEMMA CondBranchKeeps ==
  ASSUME IInv, Running, NEW G, Kin(G), G.ecode \in DOMAIN code, code[G.ecode].op \in {"COND", "SCOND"},
         code[G.ecode + 1].op \in Assertions, Home(code, G.ecode) = Around,
         NEW start \in DOMAIN code, IsHead(code, start), Owner(code, start) = G.ecode + 1,
         CondBranch(G, start)
  PROVE  IInv'
<1> DEFINE H == [G EXCEPT !.fields.start = start]
           W == Waiting(H, "RM5")
           b == G.ecode + 1
<1>1. Kin(H) /\ H.ecode = G.ecode /\ H.fields.start = start
  BY DEF Kin, Same, Shaped, FrameFields, NoLocals
<1>2. RMATCHWith(H, mb, start + 1, "RM5", CONDASSERT) /\ Kept(mb)
  BY NoteKept DEF CondBranch, RMATCH, RMATCHWith
<1> HIDE DEF H
<1>3. W.return_id = "RM5" /\ W.ecode = G.ecode /\ W.fields = H.fields
  BY <1>1 DEF Waiting, Kin, Shaped, FrameFields
<1> HIDE DEF W
<1>4. code[b].op \in CondAssertions /\ HasFrame(code, b)
      /\ GroupsAround(code, Around) \subseteq GroupsAround(code, b)
  BY TopFacts, ConditionFacts
<1>5. Waits(code, W) /\ GroupAt(code, W) = Around /\ Tried(code, W) = b
  BY <1>1, <1>3, <1>4 DEF Waits, WaitsAtCondition, GroupAt, Tried, Labels, OpensGroup, AtBracket, AtKetOf
<1>6. start + 1 \in DOMAIN code /\ Home(code, start + 1) = Inside(code, b)
  BY TopFacts, HeadFacts
<1>7. Inside(code, b) = b
  BY <1>4 DEF Inside
<1> QED BY <1>1, <1>2, <1>4, <1>5, <1>6, <1>7, EnteringBranch DEF W

\* A conditional group.
LEMMA ConditionKeeps == ASSUME IInv, Condition PROVE IInv'
<1>1. pc = "match" /\ code[F.ecode].op \in {"COND", "SCOND"}
  BY DEF Condition, Exec, Op
<1>2. Running /\ Kin(F) /\ F.ecode \in DOMAIN code /\ Home(code, F.ecode) = Around /\ Nested(code)
  BY <1>1, AtOpcode
<1>3. \/ code[F.ecode + 1].op \in Assertions /\ CondBranch(F, F.ecode + 1)
      \/ \E condition : ChooseBranch(F, F.ecode, condition)
  <2>1. CASE code[F.ecode + 1].op \in Assertions
    BY <2>1 DEF Condition, Assertions, Lookbehinds
  <2>2. CASE code[F.ecode + 1].op \notin Assertions
    BY <2>2 DEF Condition, Assertions, Lookbehinds
  <2> QED BY <2>1, <2>2
<1>4. CASE code[F.ecode + 1].op \in Assertions /\ CondBranch(F, F.ecode + 1)
  <2>1. F.ecode + 1 \in DOMAIN code /\ IsBracket(code, F.ecode + 1)
    BY <1>1, <1>2, <1>4, ConditionFacts
  <2>2. IsHead(code, F.ecode + 1) /\ Owner(code, F.ecode + 1) = F.ecode + 1
    BY <2>1, OwnBracket
  <2> QED BY <1>1, <1>2, <1>4, <2>1, <2>2, CondBranchKeeps
<1>5. ASSUME NEW condition, ChooseBranch(F, F.ecode, condition) PROVE IInv'
  BY <1>1, <1>2, <1>5, ChooseBranchKeeps
<1> QED BY <1>3, <1>4, <1>5

\* The assertion that is its condition has been decided.
LEMMA RM5Keeps == ASSUME IInv, RM5 PROVE IInv'
<1> DEFINE next == NextAlt(F.fields.start)
           G == [Accepted(F) EXCEPT !.mark = F.mark]
<1>1. pc = "return" /\ F.return_id = "RM5"
  BY DEF RM5, Back
<1>2. /\ Running /\ Kin(F) /\ Shaped(F) /\ Nested(code) /\ F.ecode \in DOMAIN code
      /\ WaitsAtCondition(code, F) /\ Around = Home(code, F.ecode)
  BY <1>1, AtLabel DEF Waits, GroupAt, AtBracket, AtKetOf
<1>3. /\ next \in DOMAIN code /\ Owner(code, next) = F.ecode + 1
      /\ AltAt(next) => IsHead(code, next)
  BY <1>2, HeadFacts DEF WaitsAtCondition, NextAlt, AltAt
<1>4. code[F.ecode].op \in {"COND", "SCOND"} /\ code[F.ecode + 1].op \in Assertions
  BY <1>2 DEF WaitsAtCondition, CondAssertions, Assertions, Lookbehinds
<1>5. Kin(G)
  BY <1>2, AcceptedAlike DEF Kin, Same, Shaped, FrameFields
<1>6. \/ RRETURN(F, rrc) \/ (AltAt(next) /\ CondBranch(F, next))
      \/ \E condition : ChooseBranch(F, F.ecode, condition) \/ ChooseBranch(G, F.ecode, condition)
  <2> HIDE DEF next, G
  <2>1. CASE rrc \in {"ACCEPT", "MATCH"}
    BY <2>1 DEF RM5, G
  <2>2. CASE rrc \in {"NOMATCH", "THEN"}
    BY <2>2 DEF RM5, next
  <2>3. CASE rrc \in {"COMMIT", "SKIP", "PRUNE"}
    BY <2>3 DEF RM5
  <2>4. CASE rrc \notin {"ACCEPT", "MATCH", "NOMATCH", "THEN", "COMMIT", "SKIP", "PRUNE"}
    BY <2>4 DEF RM5
  <2> QED BY <2>1, <2>2, <2>3, <2>4
<1> HIDE DEF G, next
<1>7. CASE RRETURN(F, rrc)
  BY <1>2, <1>7, GoingBack
<1>8. CASE AltAt(next) /\ CondBranch(F, next)
  BY <1>2, <1>3, <1>4, <1>8, CondBranchKeeps
<1>9. ASSUME NEW condition, ChooseBranch(F, F.ecode, condition) \/ ChooseBranch(G, F.ecode, condition)
      PROVE  IInv'
  BY <1>2, <1>4, <1>5, <1>9, ChooseBranchKeeps
<1> QED BY <1>6, <1>7, <1>8, <1>9

\* Its branch failed.
LEMMA RM35Keeps == ASSUME IInv, RM35 PROVE IInv'
BY AtLabel, GoingBack DEF RM35, Back

-----------------------------------------------------------------------------
(***************************************************************************)
(* The ends of branches and groups.                                        *)
(***************************************************************************)
\* The end of a branch but the last.
LEMMA AlternationKeeps == ASSUME IInv, Alternation PROVE IInv'
<1> DEFINE k == KetOf(code, F.ecode)
           G == [F EXCEPT !.ecode = k]
           m == [mb EXCEPT !.branch_end = F.ecode]
<1>1. pc = "match" /\ IsAlt(code, F.ecode) /\ IsHead(code, F.ecode)
  BY DEF Alternation, Exec, Op, IsAlt, IsHead
<1>2. /\ Running /\ Shaped(F) /\ F.ecode \in DOMAIN code /\ Home(code, F.ecode) = Around
      /\ Kept(mb) /\ Nested(code)
  BY <1>1, AtOpcode
<1>3. k \in DOMAIN code /\ Home(code, k) = Around
  BY <1>1, <1>2, HeadFacts
<1>4. Kept(m)
  BY <1>2 DEF Kept, Block, BlockFields
<1>5. ContinueWith(G, m)
  BY DEF Alternation
<1> HIDE DEF k, m
<1>6. Kin(G) /\ G.ecode = k
  BY <1>2 DEF Kin, Same, Shaped, FrameFields
<1> HIDE DEF G
<1> QED BY <1>2, <1>3, <1>4, <1>5, <1>6, Going

\* At a ket.
LEMMA AtKetOp ==
  ASSUME IInv, AtKet
  PROVE  /\ pc = "match" /\ Running /\ Shaped(F) /\ Kin(F) /\ Kept(mb) /\ Kept(NoBranchEnd) /\ Nested(code)
         /\ F.ecode \in DOMAIN code /\ IsKet(code, F.ecode) /\ KetFits(code, F.ecode)
         /\ BraCode \in DOMAIN code /\ IsBracket(code, BraCode) /\ Owner(code, F.ecode) = BraCode
         /\ Around = Home(code, F.ecode) /\ Around = Inside(code, BraCode)
         /\ F.ecode + 1 \in DOMAIN code /\ Home(code, F.ecode + 1) = Home(code, BraCode)
         /\ Op = "KETRPOS" <=> BraOp \in PossessiveBrackets
         /\ HasGroupFrame <=> HasFrame(code, BraCode)
<1>1. pc = "match" /\ IsKet(code, F.ecode)
  BY DEF AtKet, Exec, Op, IsKet
<1>2. /\ Running /\ Shaped(F) /\ Kin(F) /\ Kept(mb) /\ Nested(code) /\ F.ecode \in DOMAIN code
      /\ Around = Home(code, F.ecode) /\ Fits(code, F.ecode)
  BY <1>1, AtOpcode
<1>3. KetFits(code, F.ecode)
  BY <1>1, <1>2 DEF Fits
<1>4. Kept(NoBranchEnd)
  BY <1>2 DEF Kept, NoBranchEnd, Block, BlockFields
<1>5. /\ BraCode \in DOMAIN code /\ IsBracket(code, BraCode) /\ Owner(code, F.ecode) = BraCode
      /\ Home(code, F.ecode) = Inside(code, BraCode)
      /\ F.ecode + 1 \in DOMAIN code /\ Home(code, F.ecode + 1) = Home(code, BraCode)
      /\ Op = "KETRPOS" <=> BraOp \in PossessiveBrackets
  BY <1>3 DEF KetFits, BraCode, Op, BraOp
<1>6. HasGroupFrame <=> HasFrame(code, BraCode)
  BY DEF HasGroupFrame, HasFrame, BraOp
<1> QED BY <1>1, <1>2, <1>3, <1>4, <1>5, <1>6

\* The frames that a ket of a bracket with a frame works with.
LEMMA AtGroupEnd ==
  ASSUME IInv, AtKet, HasGroupFrame
  PROVE  LET o == F.last_group
             P == BeforeGroup
             b == BraCode
         IN  /\ o \in 2..Len(frames) /\ P = frames[o-1] /\ Shaped(P) /\ Typed(frames, o)
             /\ Waits(code, P) /\ Placed(code, frames, o - 1, GroupAt(code, P))
             /\ \/ EndsCall(code, F, P, b)
                \/ EndsCondition(code, P, b) /\ GroupFrame.group_frame_type = CONDASSERT
                \/ EndsGroup(code, F, P, b) /\ GroupFrame.group_frame_type # CONDASSERT
<1> DEFINE o == F.last_group
           P == frames[o-1]
           b == BraCode
<1>1. /\ Nested(code) /\ F.ecode \in DOMAIN code /\ IsKet(code, F.ecode) /\ HasFrame(code, b)
      /\ Running /\ Around = Home(code, F.ecode)
  BY AtKetOp
<1>2. /\ IsSeq(frames) /\ F = frames[Len(frames)] /\ Stacked(code, frames, Home(code, F.ecode))
      /\ Len(frames) \in Nat
  BY <1>1, TopFacts
<1>3. b = F.ecode - code[F.ecode].link
  BY DEF BraCode
<1>4. /\ o # 0
      /\ \/ EndsCall(code, F, P, b) /\ frames[o].group_frame_type[1] = "recurse"
         \/ EndsCondition(code, P, b) /\ frames[o].group_frame_type[1] = "condassert"
         \/ EndsGroup(code, F, P, b) /\ frames[o].group_frame_type[1] \notin {"condassert", "recurse"}
  <2> HIDE DEF b
  <2> QED BY <1>1, <1>2, <1>3, KetOfGroup
<1>5. /\ o \in 2..Len(frames) /\ Waits(code, P) /\ Placed(code, frames, o - 1, GroupAt(code, P))
      /\ Typed(frames, o)
  BY <1>2, <1>4, LastGroup
<1>6. Shaped(P)
  BY <1>1, <1>5, TopFacts
<1>7. P = BeforeGroup /\ frames[o] = GroupFrame
  BY DEF BeforeGroup, GroupFrame
<1>8. GroupFrame.group_frame_type = CONDASSERT <=> frames[o].group_frame_type[1] = "condassert"
  BY <1>5, <1>7 DEF Typed, CONDASSERT
<1> QED BY <1>4, <1>5, <1>6, <1>7, <1>8

\* A bracket that is no assertion ends neither a condition nor, but for captures, a call.
LEMMA EndsGroupOnly ==
  ASSUME IInv, AtKet, HasGroupFrame,
         BraOp \notin CondAssertions \/ ~CondAssertEnds,
         BraOp \notin CaptureBrackets \/ ~RecursionEnds
  PROVE  EndsGroup(code, F, BeforeGroup, BraCode)
<1> DEFINE P == BeforeGroup
           b == BraCode
<1>1. /\ Waits(code, P)
      /\ \/ EndsCall(code, F, P, b)
         \/ EndsCondition(code, P, b) /\ GroupFrame.group_frame_type = CONDASSERT
         \/ EndsGroup(code, F, P, b)
  BY AtGroupEnd
<1>2. ~EndsCall(code, F, P, b)
  BY DEF EndsCall, RecursionEnds, BraOp, IsCapture
<1>3. CASE EndsCondition(code, P, b) /\ GroupFrame.group_frame_type = CONDASSERT
  <2>1. CondAssertEnds
    BY <1>3 DEF CondAssertEnds
  <2>2. WaitsAtCondition(code, P) /\ Tried(code, P) = b /\ P.return_id = "RM5"
    BY <1>1, <1>3 DEF EndsCondition, Waits
  <2>3. b = P.ecode + 1
    BY <2>2 DEF Tried, WaitsAtCondition, AtBracket
  <2>4. BraOp \in CondAssertions
    BY <2>2, <2>3 DEF WaitsAtCondition, BraOp
  <2> QED BY <2>1, <2>4
<1> QED BY <1>1, <1>2, <1>3

\* A new frame from a ket, when the group has been left.
LEMMA TryingAfterKet ==
  ASSUME IInv, AtKet, NEW fs, NEW m, NEW ra, NEW rb \in AtKetOf,
         IsSeq(fs), Len(fs) = Len(frames), \A i \in 1..Len(fs) : Shaped(fs[i]), Kept(m),
         Stacked(code, fs, Home(code, BraCode)), fs[Len(fs)].ecode = F.ecode,
         ra \in DOMAIN code, Home(code, ra) = Home(code, BraCode),
         RMATCHIn(fs, m, ra, rb, NOGROUP)
  PROVE  IInv'
<1> DEFINE n == Len(fs)
           G == fs[n]
           W == Waiting(G, rb)
           N == NewFrame(W, n + 1, ra, NOGROUP)
<1>1. /\ F.ecode \in DOMAIN code /\ IsKet(code, F.ecode) /\ Owner(code, F.ecode) = BraCode /\ Running
  BY AtKetOp
<1>2. Shaped(G)
  BY TopFacts, <1>1
<1>3. W.return_id = rb /\ W.ecode = F.ecode /\ Same(G, W) /\ Shaped(W)
  BY <1>2 DEF Waiting, Same, Shaped, FrameFields
<1>4. NewInGroup(W, N)
  BY <1>3 DEF NewFrame, NewInGroup, Shaped, FrameFields, NOGROUP
<1> HIDE DEF N, W
<1>5. rb \notin OpensGroup /\ rb \in Labels /\ rb \notin {"RM1", "RM9", "RM37"} /\ rb # "RM8"
  BY DEF AtKetOf, OpensGroup, AtBracket, Labels
<1>6. Waits(code, W)
  BY <1>1, <1>3, <1>5 DEF Waits, OpensGroup
<1>7. GroupAt(code, W) = Home(code, BraCode)
  BY <1>1, <1>3 DEF GroupAt, AtKetOf
<1>8. Stacked(code, Pushed(fs, W, N), Home(code, BraCode))
  BY <1>3, <1>4, <1>5, <1>6, <1>7, PushInGroup
<1> QED BY <1>1, <1>8, RMatchExit DEF W, N

\* The end of a group that is not possessive.
LEMMA AfterGroupKeeps ==
  ASSUME IInv, AtKet, Op # "KETRPOS", NEW fs, NEW m, NEW start,
         IsSeq(fs), Len(fs) = Len(frames), \A i \in 1..Len(fs) : Shaped(fs[i]), Kept(m),
         Stacked(code, fs, Home(code, BraCode)), fs[Len(fs)].ecode = F.ecode,
         AfterGroup(fs, m, start)
  PROVE  IInv'
<1> DEFINE n == Len(fs)
           G == fs[n]
           gs == [fs EXCEPT ![n] = Advance(G)]
<1>1. /\ Running /\ BraCode \in DOMAIN code /\ F.ecode + 1 \in DOMAIN code
      /\ Home(code, F.ecode + 1) = Home(code, BraCode)
  BY AtKetOp
<1>2. Last(fs) = G /\ n \in Nat /\ n > 0 /\ Shaped(G)
  BY <1>1, TopFacts DEF Last
<1>3. \/ RMATCHIn(fs, m, F.ecode + 1, "RM6", NOGROUP) \/ RMATCHIn(fs, m, BraCode, "RM7", NOGROUP)
      \/ ContinueIn(gs, m)
  BY <1>2 DEF AfterGroup
<1>4. CASE RMATCHIn(fs, m, F.ecode + 1, "RM6", NOGROUP)
  BY <1>1, <1>4, TryingAfterKet DEF AtKetOf
<1>5. CASE RMATCHIn(fs, m, BraCode, "RM7", NOGROUP)
  BY <1>1, <1>5, TryingAfterKet DEF AtKetOf
<1>6. CASE ContinueIn(gs, m)
  <2>1. Same(G, Advance(G)) /\ Shaped(Advance(G)) /\ Advance(G).ecode = F.ecode + 1
    BY <1>2 DEF Same, Shaped, FrameFields, Advance
  <2>2. IsSeq(gs) /\ Len(gs) = n /\ gs[n] = Advance(G) /\ \A i \in 1..n : i # n => gs[i] = fs[i]
    BY <1>2, ExceptFacts
  <2> HIDE DEF gs
  <2>3. \A i \in 1..(n - 1) : Alike(code, fs[i], gs[i])
    BY <1>2, <2>2 DEF Alike, Same
  <2>4. Stacked(code, gs, Home(code, BraCode))
    BY <2>1, <2>2, <2>3, StackAlike
  <2>5. AtMatch(code, gs)
    BY <1>1, <2>1, <2>2, <2>4 DEF AtMatch
  <2>6. \A i \in 1..n : Shaped(gs[i])
    BY <2>1, <2>2
  <2> QED BY <1>1, <1>2, <1>6, <2>2, <2>5, <2>6, ContinueExit
<1> QED BY <1>3, <1>4, <1>5, <1>6

\* The top frame, with the links of the frame below that of its group.
LEMMA LeavingGroup ==
  ASSUME IInv, AtKet, HasGroupFrame, BeforeGroup.return_id # "RM8",
         NEW G, Shaped(G), G.last_group = BeforeGroup.last_group,
         G.current_recurse = BeforeGroup.current_recurse,
         G.group_frame_type = F.group_frame_type,
         G.back_frame = F.back_frame \/ G.back_frame = Len(frames) - (F.last_group - 1)
  PROVE  /\ Stacked(code, Top(G), GroupAt(code, BeforeGroup))
         /\ IsSeq(Top(G)) /\ Len(Top(G)) = Len(frames) /\ Top(G)[Len(frames)] = G
         /\ \A i \in 1..(Len(frames) - 1) : Top(G)[i] = frames[i]
         /\ \A i \in 1..Len(Top(G)) : Shaped(Top(G)[i])
<1> DEFINE fs == Top(G)
           o == F.last_group
<1>1. Running
  BY AtKetOp
<1>2. /\ IsSeq(fs) /\ Len(fs) = Len(frames) /\ fs[Len(frames)] = G
      /\ \A i \in 1..(Len(frames) - 1) : fs[i] = frames[i]
  BY <1>1, TopReplaced
<1> HIDE DEF fs
<1>3. o \in 2..Len(frames) /\ BeforeGroup = frames[o-1]
  BY AtGroupEnd
<1>4. /\ IsSeq(frames) /\ F = frames[Len(frames)] /\ Stacked(code, frames, Around)
      /\ \A i \in 1..Len(frames) : Shaped(frames[i])
  BY <1>1, TopFacts
<1>5. o # 0
  BY <1>3
<1>6. Stacked(code, fs, GroupAt(code, BeforeGroup))
  BY <1>2, <1>3, <1>4, <1>5, Leave
<1>7. \A i \in 1..Len(fs) : Shaped(fs[i])
  BY <1>2, <1>4
<1> QED BY <1>2, <1>6, <1>7 DEF fs

\* The frame below that of a group waits for the group, possessive or not.
LEMMA BelowGroup ==
  ASSUME IInv, AtKet, HasGroupFrame, EndsGroup(code, F, BeforeGroup, BraCode)
  PROVE  /\ BeforeGroup.return_id = "RM8" <=> Op = "KETRPOS"
         /\ GroupAt(code, BeforeGroup) = Home(code, BraCode)
         /\ F.current_recurse = BeforeGroup.current_recurse
<1> DEFINE P == BeforeGroup
<1>1. Waits(code, P) /\ (Op = "KETRPOS" <=> BraOp \in PossessiveBrackets)
  BY AtGroupEnd, AtKetOp
<1>2. P.return_id \in AtBracket \cup {"RM35"} /\ Tried(code, P) = BraCode
      /\ GroupAt(code, P) = Home(code, BraCode) /\ F.current_recurse = P.current_recurse
  BY DEF EndsGroup
<1>3. CASE P.return_id \in AtBracket
  <2>1. Owner(code, P.ecode) = BraCode
    BY <1>2, <1>3 DEF Tried, AtBracket
  <2>2. P.return_id = "RM8" <=> BraOp \in PossessiveBrackets
    BY <1>1, <1>3, <2>1 DEF Waits, WaitsAtBracket, BraOp
  <2> QED BY <1>1, <1>2, <2>2
<1>4. CASE P.return_id = "RM35"
  <2>1. Home(code, P.ecode) = BraCode
    BY <1>2, <1>4 DEF Tried, AtBracket
  <2>2. BraOp = "SCOND"
    BY <1>1, <1>4, <2>1 DEF Waits, WaitsInCondition, BraOp
  <2> QED BY <1>1, <1>2, <1>4, <2>2 DEF PossessiveBrackets
<1> QED BY <1>2, <1>3, <1>4

\* The frames below the top one with the same links.
LEMMA BelowAlike ==
  ASSUME NEW c, NEW fs, NEW gs, IsSeq(fs), Len(gs) = Len(fs), Below(c, fs),
         \A j \in 1..(Len(fs) - 1) : Alike(c, fs[j], gs[j])
  PROVE  Below(c, gs)
<1> DEFINE n == Len(fs) - 1
<1>1. Len(fs) \in Nat
  BY SeqFacts
<1> SUFFICES ASSUME NEW i \in 1..n PROVE Placed(c, gs, i, GroupAt(c, gs[i])) /\ Waits(c, gs[i])
  BY DEF Below
<1>2. Placed(c, fs, i, GroupAt(c, fs[i])) /\ Waits(c, fs[i]) /\ Alike(c, fs[i], gs[i])
  BY DEF Below
<1>3. n \in Nat /\ \A j \in 1..n : Same(fs[j], gs[j])
  BY <1>1 DEF Alike
<1>4. \A j \in 1..(i-1) : Alike(c, fs[j], gs[j])
  BY <1>1
<1>5. Placed(c, gs, i, GroupAt(c, fs[i]))
  BY <1>2, <1>3, <1>4, PlacedAlike
<1> QED BY <1>2, <1>5 DEF Alike

\* The end of a possessive group: its state goes to the frame below that of the group.
LEMMA AfterPossessive ==
  ASSUME IInv, AtKet, Op = "KETRPOS", HasGroupFrame, EndsGroup(code, F, BeforeGroup, BraCode),
         NEW G, Shaped(G), G.last_group = BeforeGroup.last_group, G.current_recurse = F.current_recurse,
         G.back_frame = F.back_frame, NEW m, Kept(m), NEW start, AfterGroup(Top(G), m, start)
  PROVE  IInv'
<1> DEFINE n == Len(frames)
           o == F.last_group
           P == BeforeGroup
           fs == Top(G)
           H == Last(fs)
           state == [P EXCEPT !.eptr = H.eptr, !.start_match = H.start_match, !.mark = H.mark,
                         !.recurse_last_used = H.recurse_last_used,
                         !.current_recurse = H.current_recurse,
                         !.capture_last = H.capture_last, !.last_group = H.last_group,
                         !.offset_top = H.offset_top, !.ovector = H.ovector]
           gs == [fs EXCEPT ![o-1] = state]
<1>1. Running
  BY AtKetOp
<1>2. RRETURNIn(gs, m, "KETRPOS")
  BY DEF AfterGroup
<1>3. /\ IsSeq(fs) /\ Len(fs) = n /\ fs[n] = G /\ \A i \in 1..(n - 1) : fs[i] = frames[i]
  BY <1>1, TopReplaced
<1> HIDE DEF fs
<1>4. o \in 2..n /\ P = frames[o-1] /\ Shaped(P) /\ n \in Nat
  BY <1>1, AtGroupEnd, TopFacts
<1>5. H = G
  BY <1>3 DEF Last
<1>6. F.current_recurse = P.current_recurse
  BY BelowGroup
<1> HIDE DEF H, P
<1>7. Same(P, state) /\ state.return_id = P.return_id /\ state.fields = P.fields /\ state.ecode = P.ecode /\ Shaped(state)
  BY <1>4, <1>5, <1>6 DEF Same, Shaped, FrameFields, P
<1> HIDE DEF state
<1>8. Alike(code, P, state)
  BY <1>7 DEF Alike, GroupAt, Tried, Waits, WaitsAtBracket, WaitsAtCall, WaitsAtCondition, WaitsInCondition
<1>9. IsSeq(gs) /\ Len(gs) = n /\ gs[o-1] = state /\ \A i \in 1..n : i # o - 1 => gs[i] = fs[i]
  <2> DEFINE k == o - 1
             hs == [fs EXCEPT ![k] = state]
  <2>1. k \in 1..Len(fs) /\ IsSeq(fs) /\ Len(fs) = n
    BY <1>3, <1>4
  <2> HIDE DEF k
  <2>2. IsSeq(hs) /\ Len(hs) = Len(fs) /\ hs[k] = state /\ \A i \in 1..Len(fs) : i # k => hs[i] = fs[i]
    BY <2>1, ExceptFacts
  <2> QED BY <2>1, <2>2 DEF k
<1> HIDE DEF gs
<1>10. \A i \in 1..(n - 1) : Alike(code, frames[i], gs[i]) /\ Shaped(gs[i])
  <2> SUFFICES ASSUME NEW i \in 1..(n - 1) PROVE Alike(code, frames[i], gs[i]) /\ Shaped(gs[i])
    OBVIOUS
  <2>1. CASE i = o - 1
    BY <1>4, <1>7, <1>8, <1>9, <2>1
  <2>2. CASE i # o - 1
    <3>1. gs[i] = frames[i] /\ Shaped(frames[i])
      BY <1>1, <1>3, <1>4, <1>9, <2>2, TopFacts
    <3> QED BY <3>1 DEF Alike, Same
  <2> QED BY <2>1, <2>2
<1>11. Below(code, frames) /\ Placed(code, frames, n, Around) /\ F = frames[n] /\ IsSeq(frames)
  BY <1>1, TopFacts DEF Stacked
<1>12. Below(code, gs)
  BY <1>9, <1>10, <1>11, BelowAlike
<1>13. n > 1 => gs[n].back_frame \in 1..(n - 1)
  <2>1. gs[n] = G
    BY <1>3, <1>4, <1>9
  <2> QED BY <1>11, <2>1 DEF Placed, Linked
<1> QED BY <1>1, <1>2, <1>9, <1>10, <1>12, <1>13, RReturnExit

\* A lookbehind that missed, or a negative assertion that matched.
LEMMA KetFailsKeeps == ASSUME IInv, KetMissedLookbehind \/ KetAssertNot PROVE IInv'
<1>1. AtKet
  BY DEF KetMissedLookbehind, KetAssertNot
<1>2. Running /\ Kept(NoBranchEnd) /\ Shaped(F)
  BY <1>1, AtKetOp
<1>3. Left(F).back_frame = F.back_frame
  BY <1>2 DEF Left, Shaped, FrameFields
<1>4. \E rc : RRETURNWith(Left(F), NoBranchEnd, rc)
  BY DEF KetMissedLookbehind, KetAssertNot
<1> QED BY <1>2, <1>3, <1>4, Failing

\* The end of an assertion that is a condition.
LEMMA KetCondAssertKeeps == ASSUME IInv, KetCondAssert PROVE IInv'
<1> DEFINE n == Len(frames)
           o == F.last_group
           P == BeforeGroup
           k == o - 1
           state == [P EXCEPT !.offset_top = F.offset_top, !.mark = F.mark,
                       !.ovector = [i \in DOMAIN @ |-> IF i <= F.offset_top THEN F.ovector[i] ELSE @[i]]]
           G == [Left(F) EXCEPT !.back_frame = n - (o - 1)]
           fs == Top(G)
           gs == [fs EXCEPT ![k] = state]
<1>1. AtKet /\ HasGroupFrame
  BY DEF KetCondAssert, CondAssertEnds
<1>2. Running /\ Kept(NoBranchEnd) /\ Shaped(F)
  BY <1>1, AtKetOp
<1>3. k \in 1..(n-1) /\ P = frames[k] /\ Shaped(P) /\ n \in Nat
  BY <1>1, <1>2, AtGroupEnd, TopFacts
<1>4. RRETURNIn(gs, NoBranchEnd, "MATCH")
  BY DEF KetCondAssert
<1>5. G.back_frame = n - k
  BY <1>2, <1>3 DEF Left, Shaped, FrameFields
<1>6. /\ IsSeq(fs) /\ Len(fs) = n /\ fs[n] = G /\ \A i \in 1..(n - 1) : fs[i] = frames[i]
  BY <1>2, TopReplaced
<1> HIDE DEF fs, G, P
<1>7. Same(P, state) /\ state.return_id = P.return_id /\ state.fields = P.fields /\ state.ecode = P.ecode /\ Shaped(state)
  BY <1>3 DEF Same, Shaped, FrameFields
<1> HIDE DEF state, k
<1>8. Alike(code, P, state)
  BY <1>7 DEF Alike, GroupAt, Tried, Waits, WaitsAtBracket, WaitsAtCall, WaitsAtCondition, WaitsInCondition
<1>9. IsSeq(gs) /\ Len(gs) = n /\ gs[k] = state /\ \A i \in 1..n : i # k => gs[i] = fs[i]
  <2>1. k \in 1..Len(fs)
    BY <1>3, <1>6
  <2> QED BY <1>6, <2>1, ExceptFacts
<1> HIDE DEF gs
<1>10. \A i \in 1..(n - 1) : Alike(code, frames[i], gs[i]) /\ Shaped(gs[i])
  <2> SUFFICES ASSUME NEW i \in 1..(n - 1) PROVE Alike(code, frames[i], gs[i]) /\ Shaped(gs[i])
    OBVIOUS
  <2>1. CASE i = k
    BY <1>3, <1>7, <1>8, <1>9, <2>1
  <2>2. CASE i # k
    <3>1. gs[i] = frames[i] /\ Shaped(frames[i])
      BY <1>2, <1>3, <1>6, <1>9, <2>2, TopFacts
    <3> QED BY <3>1 DEF Alike, Same
  <2> QED BY <2>1, <2>2
<1>11. Below(code, frames) /\ IsSeq(frames)
  BY <1>2, TopFacts DEF Stacked
<1>12. Below(code, gs)
  BY <1>9, <1>10, <1>11, BelowAlike
<1>13. gs[n].back_frame \in 1..(n - 1)
  BY <1>3, <1>5, <1>6, <1>9
<1> QED BY <1>2, <1>4, <1>9, <1>10, <1>12, <1>13, RReturnExit

\* At the end of a recursion the frame of the call is found.
LEMMA CallFound ==
  ASSUME IInv, AtKet, RecursionEnds
  PROVE  LET o == F.last_group
             P == BeforeGroup
         IN  /\ o \in 2..Len(frames) /\ P = frames[o-1] /\ Shaped(P) /\ Waits(code, P)
             /\ P.return_id = "RM11"
<1> DEFINE o == F.last_group
           P == BeforeGroup
<1>1. /\ Running /\ Nested(code) /\ IsSeq(frames) /\ F = frames[Len(frames)] /\ Len(frames) \in Nat
      /\ Stacked(code, frames, Around) /\ P = frames[o-1]
  BY AtKetOp, TopFacts DEF BeforeGroup
<1>2. o # 0 /\ P.return_id = "RM11"
  <2>1. CASE BraOp \in CaptureBrackets /\ F.current_recurse = code[BraCode].num
    <3>1. HasGroupFrame
      BY <2>1 DEF HasGroupFrame, CaptureBrackets
    <3>2. /\ o \in 2..Len(frames) /\ Waits(code, P)
          /\ EndsCall(code, F, P, BraCode) \/ EndsCondition(code, P, BraCode) \/ EndsGroup(code, F, P, BraCode)
      BY <3>1, AtGroupEnd
    <3>3. ~EndsGroup(code, F, P, BraCode)
      BY <2>1 DEF EndsGroup, IsCapture, BraOp
    <3>4. ~EndsCondition(code, P, BraCode)
      <4> SUFFICES ASSUME EndsCondition(code, P, BraCode) PROVE FALSE
        OBVIOUS
      <4>1. WaitsAtCondition(code, P) /\ Tried(code, P) = BraCode /\ P.return_id = "RM5"
        BY <3>2 DEF EndsCondition, Waits
      <4>2. BraCode = P.ecode + 1
        BY <4>1 DEF Tried, WaitsAtCondition, AtBracket
      <4> QED BY <2>1, <4>1, <4>2 DEF WaitsAtCondition, BraOp, CondAssertions, CaptureBrackets
    <3> QED BY <3>2, <3>3, <3>4 DEF EndsCall
  <2>2. CASE BraOp = "BRA" /\ F.current_recurse = 0 /\ code[F.ecode + 1].op = "END"
    <3>1. /\ Around = Inside(code, BraCode) /\ F.ecode + 1 \in DOMAIN code
          /\ Home(code, F.ecode + 1) = Home(code, BraCode)
      BY AtKetOp
    <3>2. Home(code, F.ecode + 1) = 0
      BY <1>1, <2>2, <3>1 DEF Nested, Fits
    <3>3. Around = 0
      BY <2>2, <3>1, <3>2 DEF Inside, HasFrame, BraOp
    <3> QED BY <1>1, <2>2, <3>3, KetOfWhole
  <2> QED BY <2>1, <2>2 DEF RecursionEnds
<1>3. o \in 2..Len(frames) /\ Waits(code, P)
  BY <1>1, <1>2, LastGroup
<1>4. Shaped(P)
  BY <1>1, <1>3, TopFacts
<1> QED BY <1>1, <1>2, <1>3, <1>4

\* The top frame, with the links of the frame of the call.
LEMMA LeavingCall ==
  ASSUME IInv, AtKet, RecursionEnds,
         NEW G, Shaped(G), G.last_group = BeforeGroup.last_group,
         G.current_recurse = BeforeGroup.current_recurse,
         G.group_frame_type = F.group_frame_type, G.back_frame = F.back_frame
  PROVE  /\ Stacked(code, Top(G), GroupAt(code, BeforeGroup))
         /\ IsSeq(Top(G)) /\ Len(Top(G)) = Len(frames) /\ Top(G)[Len(frames)] = G
         /\ \A i \in 1..Len(Top(G)) : Shaped(Top(G)[i])
<1> DEFINE fs == Top(G)
           o == F.last_group
<1>1. Running
  BY AtKetOp
<1>2. /\ IsSeq(fs) /\ Len(fs) = Len(frames) /\ fs[Len(frames)] = G
      /\ \A i \in 1..(Len(frames) - 1) : fs[i] = frames[i]
  BY <1>1, TopReplaced
<1> HIDE DEF fs
<1>3. o \in 2..Len(frames) /\ BeforeGroup = frames[o-1] /\ BeforeGroup.return_id # "RM8"
  BY CallFound
<1>4. /\ IsSeq(frames) /\ F = frames[Len(frames)] /\ Stacked(code, frames, Around)
      /\ \A i \in 1..Len(frames) : Shaped(frames[i])
  BY <1>1, TopFacts
<1>5. o # 0
  BY <1>3
<1>6. Stacked(code, fs, GroupAt(code, BeforeGroup))
  BY <1>2, <1>3, <1>4, <1>5, Leave
<1>7. \A i \in 1..Len(fs) : Shaped(fs[i])
  BY <1>2, <1>4
<1> QED BY <1>2, <1>6, <1>7 DEF fs

\* The end of a call.
LEMMA KetRecursionKeeps == ASSUME IInv, KetRecursion PROVE IInv'
<1> DEFINE P == BeforeGroup
           G == Left(F)
           list == ReturnList(code, P.ecode + 1)
           kept == {n \in {code[i].num : i \in list} : n <= G.offset_top}
           restored(n) == IF n \in kept \/ n > G.offset_top THEN G.ovector[n] ELSE P.ovector[n]
           ra == P.ecode + 1 + Cardinality(list)
           H == [G EXCEPT !.ecode = ra,
                          !.ovector = [n \in DOMAIN @ |-> restored(n)],
                          !.offset_top = Max(kept \cup {P.offset_top}),
                          !.capture_last = P.capture_last,
                          !.current_recurse = P.current_recurse]
<1>1. AtKet /\ RecursionEnds
  BY DEF KetRecursion
<1>2. Running /\ Kept(NoBranchEnd) /\ Shaped(F) /\ Nested(code)
  BY <1>1, AtKetOp
<1>3. Shaped(P) /\ Waits(code, P) /\ P.return_id = "RM11"
  BY <1>1, CallFound
<1>4. ContinueWith(H, NoBranchEnd)
  BY DEF KetRecursion, EndRecursion
<1>5. G.last_group = P.last_group /\ G.group_frame_type = F.group_frame_type /\ G.back_frame = F.back_frame /\ Shaped(G)
  BY <1>2 DEF Left, Shaped, FrameFields
<1> HIDE DEF G, P, kept, restored, list
<1>6. /\ Shaped(H) /\ H.last_group = P.last_group /\ H.current_recurse = P.current_recurse
      /\ H.group_frame_type = F.group_frame_type /\ H.back_frame = F.back_frame /\ H.ecode = ra
  BY <1>5 DEF Shaped, FrameFields
<1> HIDE DEF H
<1>7. ra \in DOMAIN code /\ Home(code, ra) = GroupAt(code, P)
  BY <1>2, <1>3, CallFacts DEF CallFits, GoesTo, list
<1>8. /\ Stacked(code, Top(H), GroupAt(code, P))
      /\ IsSeq(Top(H)) /\ Len(Top(H)) = Len(frames) /\ Top(H)[Len(frames)] = H
      /\ \A i \in 1..Len(Top(H)) : Shaped(Top(H)[i])
  BY <1>1, <1>6, LeavingCall DEF P
<1>9. AtMatch(code, Top(H))
  BY <1>6, <1>7, <1>8 DEF AtMatch
<1>10. Len(Top(H)) <= Len(frames)
  BY <1>2, <1>8, TopFacts
<1>11. ContinueIn(Top(H), NoBranchEnd)
  BY <1>4 DEF ContinueWith
<1> QED BY <1>2, <1>8, <1>9, <1>10, <1>11, ContinueExit

\* The end of a group whose frame is left in the top one, possessive or not.
LEMMA AfterLeaving ==
  ASSUME IInv, AtKet, HasGroupFrame, EndsGroup(code, F, BeforeGroup, BraCode),
         NEW G, Shaped(G), G.ecode = F.ecode, G.last_group = BeforeGroup.last_group,
         G.current_recurse = F.current_recurse, G.group_frame_type = F.group_frame_type,
         G.back_frame = F.back_frame,
         NEW m, Kept(m), NEW start, AfterGroup(Top(G), m, start)
  PROVE  IInv'
<1>1. /\ BeforeGroup.return_id = "RM8" <=> Op = "KETRPOS"
      /\ GroupAt(code, BeforeGroup) = Home(code, BraCode)
      /\ F.current_recurse = BeforeGroup.current_recurse
  BY BelowGroup
<1>2. CASE Op = "KETRPOS"
  BY <1>2, AfterPossessive
<1>3. CASE Op # "KETRPOS"
  <2> DEFINE fs == Top(G)
  <2>1. /\ Stacked(code, fs, GroupAt(code, BeforeGroup))
        /\ IsSeq(fs) /\ Len(fs) = Len(frames) /\ fs[Len(frames)] = G
        /\ \A i \in 1..Len(fs) : Shaped(fs[i])
    BY <1>1, <1>3, LeavingGroup
  <2> HIDE DEF fs
  <2>2. AfterGroup(fs, m, start)
    BY DEF fs
  <2> QED BY <1>1, <1>3, <2>1, <2>2, AfterGroupKeeps
<1> QED BY <1>2, <1>3

\* The end of a capture group.
LEMMA KetCaptureKeeps == ASSUME IInv, KetCapture PROVE IInv'
<1> DEFINE G == Captured(Left(F), code[BraCode].num, BeforeGroup.eptr)
<1>1. AtKet /\ BraOp \in CaptureBrackets /\ ~RecursionEnds
      /\ AfterGroup(Top(G), NoBranchEnd, BeforeGroup.eptr)
  BY DEF KetCapture
<1>2. HasGroupFrame /\ BraOp \notin CondAssertions
  BY <1>1 DEF HasGroupFrame, CaptureBrackets, CondAssertions
<1>3. EndsGroup(code, F, BeforeGroup, BraCode)
  BY <1>1, <1>2, EndsGroupOnly
<1>4. Shaped(F) /\ Kept(NoBranchEnd)
  BY <1>1, AtKetOp
<1>5. /\ Shaped(G) /\ G.ecode = F.ecode /\ G.last_group = BeforeGroup.last_group
      /\ G.current_recurse = F.current_recurse /\ G.group_frame_type = F.group_frame_type
      /\ G.back_frame = F.back_frame
  BY <1>4 DEF Captured, Left, Shaped, FrameFields
<1> HIDE DEF G
<1> QED BY <1>1, <1>2, <1>3, <1>4, <1>5, AfterLeaving

\* The end of a group that does nothing else; BRA and COND have no frame.
LEMMA KetPlainKeeps == ASSUME IInv, KetPlain PROVE IInv'
<1>1. AtKet /\ BraOp \in {"BRA", "COND", "SBRA", "SCOND", "BRAPOS", "SBRAPOS"} /\ ~RecursionEnds
  BY DEF KetPlain
<1>2. Shaped(F) /\ Kept(NoBranchEnd) /\ Running
  BY <1>1, AtKetOp
<1>3. CASE HasGroupFrame
  <2>1. EndsGroup(code, F, BeforeGroup, BraCode)
    BY <1>1, <1>3, EndsGroupOnly DEF CondAssertions
  <2> DEFINE G == Left(F)
  <2>2. /\ Shaped(G) /\ G.ecode = F.ecode /\ G.last_group = BeforeGroup.last_group
        /\ G.current_recurse = F.current_recurse /\ G.group_frame_type = F.group_frame_type
        /\ G.back_frame = F.back_frame
    BY <1>2 DEF Left, Shaped, FrameFields
  <2>3. AfterGroup(Top(G), NoBranchEnd, BeforeGroup.eptr)
    BY <1>3 DEF KetPlain
  <2> HIDE DEF G
  <2> QED BY <1>1, <1>2, <1>3, <2>1, <2>2, <2>3, AfterLeaving
<1>4. CASE ~HasGroupFrame
  <2>1. AfterGroup(frames, NoBranchEnd, NULL)
    BY <1>4 DEF KetPlain
  <2>2. /\ Around = Inside(code, BraCode) /\ ~HasFrame(code, BraCode)
        /\ Op = "KETRPOS" <=> BraOp \in PossessiveBrackets
    BY <1>1, <1>4, AtKetOp
  <2>3. Around = Home(code, BraCode)
    BY <2>2 DEF Inside
  <2>4. Op # "KETRPOS"
    BY <1>4, <2>2 DEF HasGroupFrame, PossessiveBrackets
  <2> QED BY <1>1, <1>2, <2>1, <2>3, <2>4, AfterGroupKeeps, TopFacts
<1> QED BY <1>3, <1>4

\* The end of an assertion that is not atomic.
LEMMA KetAssertNaKeeps == ASSUME IInv, KetAssertNa PROVE IInv'
<1> DEFINE G == [Left(F) EXCEPT !.eptr = BeforeGroup.eptr]
           m == Used(NoBranchEnd, F.eptr)
<1>1. AtKet /\ BraOp \in {"ASSERT_NA", "ASSERTBACK_NA"} /\ AfterGroup(Top(G), m, BeforeGroup.eptr)
  BY DEF KetAssertNa
<1>2. HasGroupFrame /\ BraOp \notin CondAssertions /\ BraOp \notin CaptureBrackets
  BY <1>1 DEF HasGroupFrame, CaptureBrackets, CondAssertions
<1>3. EndsGroup(code, F, BeforeGroup, BraCode)
  BY <1>1, <1>2, EndsGroupOnly
<1>4. Shaped(F) /\ Kept(NoBranchEnd) /\ Running
  BY <1>1, AtKetOp
<1>5. Kept(m)
  BY <1>4, NoteKept
<1>6. /\ Shaped(G) /\ G.ecode = F.ecode /\ G.last_group = BeforeGroup.last_group
      /\ G.current_recurse = F.current_recurse /\ G.group_frame_type = F.group_frame_type
      /\ G.back_frame = F.back_frame
  BY <1>4 DEF Left, Shaped, FrameFields
<1> HIDE DEF G, m
<1> QED BY <1>1, <1>2, <1>3, <1>5, <1>6, AfterLeaving

\* The frame that tries the branches of a bracket may be made to believe that it tries
\* the last one.
LEMMA AtLastBranch ==
  ASSUME NEW c, Nested(c), NEW P, Shaped(P), Waits(c, P), P.return_id \in AtBracket
  PROVE  LET H == [P EXCEPT !.ecode = LastBranch(c, P.ecode)]
         IN  Shaped(H) /\ Alike(c, P, H)
<1> DEFINE last == LastBranch(c, P.ecode)
           H == [P EXCEPT !.ecode = last]
<1>1. WaitsAtBracket(c, P) /\ P.ecode \in DOMAIN c
  BY DEF Waits
<1>2. HeadFits(c, P.ecode)
  BY <1>1 DEF WaitsAtBracket, Nested, Fits
<1>3. last \in DOMAIN c /\ IsHead(c, last) /\ Owner(c, last) = Owner(c, P.ecode)
  BY <1>2 DEF HeadFits
<1> HIDE DEF last
<1>4. Shaped(H) /\ Same(P, H) /\ H.return_id = P.return_id /\ H.fields = P.fields /\ H.ecode = last
  BY DEF Same, Shaped, FrameFields
<1> HIDE DEF H
<1>5. GroupAt(c, P) = GroupAt(c, H) /\ Tried(c, P) = Tried(c, H)
  BY <1>3, <1>4 DEF GroupAt, Tried, AtBracket
<1>6. P.return_id \notin {"RM11", "RM5", "RM35", "RM1", "RM9", "RM37"} \cup AtKetOf
  BY DEF AtBracket, AtKetOf
<1>7. WaitsAtBracket(c, H)
  BY <1>1, <1>3, <1>4 DEF WaitsAtBracket
<1>8. Waits(c, H)
  BY <1>3, <1>4, <1>6, <1>7 DEF Waits
<1> QED BY <1>4, <1>5, <1>8 DEF Alike, H, last

\* The end of an atomic group.
LEMMA KetAtomicKeeps == ASSUME IInv, KetAtomic PROVE IInv'
<1> DEFINE n == Len(frames)
           P == BeforeGroup
           k == F.last_group - 1
           assertion == BraOp # "ONCE"
           G == [Left(F) EXCEPT !.back_frame = n - (F.last_group - 1),
                                !.eptr = IF assertion THEN P.eptr ELSE @]
           m == IF assertion THEN Used(NoBranchEnd, F.eptr) ELSE NoBranchEnd
           fs == Top(G)
           H == [P EXCEPT !.ecode = LastBranch(code, P.ecode)]
           gs == [fs EXCEPT ![k] = H]
<1>1. AtKet /\ BraOp \in {"ONCE", "ASSERT", "ASSERTBACK"} /\ ~CondAssertEnds
      /\ AfterGroup([fs EXCEPT ![k].ecode = LastBranch(code, @)], m, P.eptr)
  BY DEF KetAtomic
<1>2. HasGroupFrame /\ BraOp \notin CaptureBrackets /\ BraOp \notin PossessiveBrackets /\ BraOp # "SCOND"
  BY <1>1 DEF HasGroupFrame, CaptureBrackets, PossessiveBrackets
<1>3. EndsGroup(code, F, P, BraCode)
  BY <1>1, <1>2, EndsGroupOnly
<1>4. Shaped(F) /\ Kept(NoBranchEnd) /\ Running /\ Nested(code) /\ Op # "KETRPOS"
  BY <1>1, <1>2, AtKetOp
<1>5. Kept(m)
  BY <1>4, NoteKept
<1>6. k \in 1..(n-1) /\ P = frames[k] /\ Shaped(P) /\ n \in Nat /\ Waits(code, P)
  BY <1>1, <1>2, <1>4, AtGroupEnd, TopFacts
<1>7. /\ P.return_id # "RM8" /\ GroupAt(code, P) = Home(code, BraCode)
      /\ F.current_recurse = P.current_recurse
  BY <1>1, <1>2, <1>3, <1>4, BelowGroup
<1>8. P.return_id \in AtBracket
  <2>1. P.return_id \in AtBracket \cup {"RM35"} /\ Tried(code, P) = BraCode
    BY <1>3 DEF EndsGroup
  <2>2. CASE P.return_id = "RM35"
    <3>1. Home(code, P.ecode) = BraCode
      BY <2>1, <2>2 DEF Tried, AtBracket
    <3> QED BY <1>2, <1>6, <2>2, <3>1 DEF Waits, WaitsInCondition, BraOp
  <2> QED BY <2>1, <2>2
<1>9. /\ Shaped(G) /\ G.ecode = F.ecode /\ G.last_group = P.last_group
      /\ G.current_recurse = F.current_recurse /\ G.group_frame_type = F.group_frame_type
      /\ G.back_frame = n - (F.last_group - 1)
  BY <1>4 DEF Left, Shaped, FrameFields
<1> HIDE DEF G, m
<1>10. /\ Stacked(code, fs, GroupAt(code, P))
       /\ IsSeq(fs) /\ Len(fs) = n /\ fs[n] = G
       /\ \A i \in 1..(n - 1) : fs[i] = frames[i]
       /\ \A i \in 1..Len(fs) : Shaped(fs[i])
  BY <1>1, <1>2, <1>7, <1>9, LeavingGroup
<1>11. Shaped(H) /\ Alike(code, P, H)
  BY <1>4, <1>6, <1>8, AtLastBranch
<1> HIDE DEF fs, k, P
<1>12. [fs EXCEPT ![k].ecode = LastBranch(code, @)] = gs
  BY <1>6, <1>10
<1> HIDE DEF H
<1>13. AfterGroup(gs, m, P.eptr)
  BY <1>1, <1>12 DEF P
<1>14. IsSeq(gs) /\ Len(gs) = n /\ gs[k] = H /\ \A i \in 1..n : i # k => gs[i] = fs[i]
  <2>1. k \in 1..Len(fs) /\ IsSeq(fs)
    BY <1>6, <1>10
  <2>2. IsSeq(gs) /\ Len(gs) = Len(fs) /\ gs[k] = H /\ \A i \in 1..Len(fs) : i # k => gs[i] = fs[i]
    BY ONLY <2>1, ExceptFacts
  <2> QED BY <1>10, <2>2
<1> HIDE DEF gs
<1>15. \A i \in 1..(n - 1) : Alike(code, fs[i], gs[i])
  <2> SUFFICES ASSUME NEW i \in 1..(n - 1) PROVE Alike(code, fs[i], gs[i])
    OBVIOUS
  <2>1. CASE i = k
    BY <1>6, <1>10, <1>11, <1>14, <2>1
  <2>2. CASE i # k
    <3>1. gs[i] = fs[i]
      BY <1>6, <1>14, <2>2
    <3> QED BY <3>1 DEF Alike, Same
  <2> QED BY <2>1, <2>2
<1>16. gs[n] = G
  BY <1>6, <1>10, <1>14
<1>17. Same(fs[n], gs[n])
  BY <1>10, <1>16 DEF Same
<1>18. Stacked(code, gs, Home(code, BraCode))
  BY <1>7, <1>10, <1>14, <1>15, <1>17, StackAlike
<1>19. \A i \in 1..n : Shaped(gs[i])
  BY <1>10, <1>11, <1>14
<1> QED BY <1>1, <1>4, <1>5, <1>9, <1>13, <1>14, <1>16, <1>18, <1>19, AfterGroupKeeps

\* The end of a scan of substrings.
LEMMA KetScsKeeps == ASSUME IInv, KetScs PROVE IInv'
<1> DEFINE end == BeforeGroup.fields.saved_end
           G == [Left(F) EXCEPT !.fields.saved_end = mb.end_subject, !.eptr = BeforeGroup.fields.start_eptr]
           m == [NoBranchEnd EXCEPT !.end_subject = end,
                                    !.true_end_subject = end + BeforeGroup.fields.true_end_extra]
           fs == Top(G)
<1>1. AtKet /\ BraOp = "ASSERT_SCS" /\ RMATCHWith(G, m, F.ecode + 1, "RM39", NOGROUP)
  BY DEF KetScs
<1>2. HasGroupFrame /\ BraOp \notin CaptureBrackets /\ BraOp \notin PossessiveBrackets /\ BraOp \notin CondAssertions
  BY <1>1 DEF HasGroupFrame, CaptureBrackets, PossessiveBrackets, CondAssertions
<1>3. EndsGroup(code, F, BeforeGroup, BraCode)
  BY <1>1, <1>2, EndsGroupOnly
<1>4. /\ Shaped(F) /\ Kept(NoBranchEnd) /\ Running /\ Op # "KETRPOS"
      /\ F.ecode + 1 \in DOMAIN code /\ Home(code, F.ecode + 1) = Home(code, BraCode)
  BY <1>1, <1>2, AtKetOp
<1>5. Kept(m)
  BY <1>4 DEF Kept, Block, BlockFields
<1>6. /\ BeforeGroup.return_id # "RM8" /\ GroupAt(code, BeforeGroup) = Home(code, BraCode)
      /\ F.current_recurse = BeforeGroup.current_recurse
  BY <1>1, <1>2, <1>3, <1>4, BelowGroup
<1>7. /\ Shaped(G) /\ G.ecode = F.ecode /\ G.last_group = BeforeGroup.last_group
      /\ G.current_recurse = F.current_recurse /\ G.group_frame_type = F.group_frame_type
      /\ G.back_frame = F.back_frame
  BY <1>4 DEF Left, Shaped, FrameFields
<1>8. RMATCHIn(fs, m, F.ecode + 1, "RM39", NOGROUP)
  BY <1>1 DEF RMATCHWith
<1> HIDE DEF G, m
<1>9. /\ Stacked(code, fs, GroupAt(code, BeforeGroup))
      /\ IsSeq(fs) /\ Len(fs) = Len(frames) /\ fs[Len(frames)] = G
      /\ \A i \in 1..Len(fs) : Shaped(fs[i])
  BY <1>1, <1>2, <1>6, <1>7, LeavingGroup
<1> HIDE DEF fs
<1> QED BY <1>1, <1>4, <1>5, <1>6, <1>7, <1>8, <1>9, TryingAfterKet DEF AtKetOf

\* Back at a ket.
LEMMA AtKetLabel ==
  ASSUME IInv, pc = "return", F.return_id \in AtKetOf
  PROVE  /\ Running /\ Shaped(F)
         /\ BraCode \in DOMAIN code /\ Around = Home(code, BraCode)
         /\ F.ecode + 1 \in DOMAIN code /\ Home(code, F.ecode + 1) = Home(code, BraCode)
<1>1. /\ Running /\ Shaped(F) /\ F.ecode \in DOMAIN code /\ Around = GroupAt(code, F)
      /\ Fits(code, F.ecode) /\ Waits(code, F)
  BY AtLabel
<1>2. KetFits(code, F.ecode)
  BY <1>1 DEF Waits, Fits
<1>3. Around = Home(code, Owner(code, F.ecode))
  BY <1>1 DEF GroupAt, AtBracket, AtKetOf
<1> QED BY <1>1, <1>2, <1>3 DEF KetFits, BraCode

\* A lazy group is repeated after all.
LEMMA RM6Keeps == ASSUME IInv, RM6 PROVE IInv'
<1> DEFINE G == [F EXCEPT !.ecode = BraCode]
<1>1. pc = "return" /\ F.return_id \in AtKetOf
  BY DEF RM6, Back, AtKetOf
<1>2. /\ Running /\ Shaped(F) /\ BraCode \in DOMAIN code /\ Around = Home(code, BraCode)
  BY <1>1, AtKetLabel
<1>3. Kin(G) /\ G.ecode = BraCode
  BY <1>2 DEF Kin, Same, Shaped, FrameFields
<1>4. RRETURN(F, rrc) \/ Continue(G)
  BY DEF RM6
<1> HIDE DEF G
<1> QED BY <1>2, <1>3, <1>4, GoingBack, GoingOn

\* A greedy group is not repeated after all.
LEMMA RM7Keeps == ASSUME IInv, RM7 PROVE IInv'
<1> DEFINE G == Advance(F)
<1>1. pc = "return" /\ F.return_id \in AtKetOf
  BY DEF RM7, Back, AtKetOf
<1>2. /\ Running /\ Shaped(F) /\ F.ecode + 1 \in DOMAIN code /\ Around = Home(code, F.ecode + 1)
  BY <1>1, AtKetLabel
<1>3. Kin(G) /\ G.ecode = F.ecode + 1
  BY <1>2 DEF Kin, Same, Shaped, FrameFields, Advance
<1>4. RRETURN(F, rrc) \/ Continue(G)
  BY DEF RM7
<1> HIDE DEF G
<1> QED BY <1>2, <1>3, <1>4, GoingBack, GoingOn

-----------------------------------------------------------------------------
(***************************************************************************)
(* The end of the pattern, and *ACCEPT.                                    *)
(***************************************************************************)
\* A capture set in the top frame.
LEMMA CaptureKept ==
  ASSUME NEW G, Kin(G), NEW i, NEW start
  PROVE  LET H == Advance(Captured(G, i, start)) IN Kin(H) /\ H.ecode = G.ecode + 1
BY DEF Captured, Advance, Kin, Same, Shaped, FrameFields

\* An open capture group is closed for an *ACCEPT.
LEMMA CloseKeeps == ASSUME IInv, Close PROVE IInv'
<1>1. pc = "match" /\ code[F.ecode].op \in Single
  BY DEF Close, Exec, Op, Single
<1>2. Running /\ Kin(F) /\ Kept(mb)
  BY <1>1, AtOpcode
<1>3. F.ecode + 1 \in DOMAIN code /\ Home(code, F.ecode + 1) = Around
  BY <1>1, AtSingle
<1>4. \/ Continue(Advance(F)) \/ Return(mb, "INTERNAL")
      \/ \E i, start : Continue(Advance(Captured(F, i, start)))
  BY DEF Close
<1>5. CASE Continue(Advance(F))
  BY <1>1, <1>2, <1>3, <1>5, Advancing, GoingOn
<1>6. CASE Return(mb, "INTERNAL")
  BY <1>2, <1>6, Returning
<1>7. ASSUME NEW i, NEW start, Continue(Advance(Captured(F, i, start))) PROVE IInv'
  <2> DEFINE H == Advance(Captured(F, i, start))
  <2>1. Kin(H) /\ H.ecode = F.ecode + 1
    BY <1>2, CaptureKept
  <2>2. Continue(H)
    BY <1>7
  <2> HIDE DEF H
  <2> QED BY <1>2, <1>3, <2>1, <2>2, GoingOn
<1> QED BY <1>4, <1>5, <1>6, <1>7

\* An *ACCEPT in an assertion.
LEMMA AssertAcceptKeeps == ASSUME IInv, AssertAccept PROVE IInv'
<1>1. pc = "match"
  BY DEF AssertAccept, Exec
<1>2. Running /\ Kept(mb)
  BY <1>1, AtOpcode
<1>3. Kept([mb EXCEPT !.assert_accept_frame = F])
  BY <1>2 DEF Kept, Block, BlockFields
<1> QED BY <1>2, <1>3, Failing DEF AssertAccept

\* The end of the pattern, or an *ACCEPT outside recursions.
LEMMA EndKeeps == ASSUME IInv, End PROVE IInv'
<1> DEFINE m == [Used(mb, F.eptr) EXCEPT !.end_match_ptr = F.eptr, !.end_offset_top = F.offset_top,
                                         !.mark = F.mark]
<1>1. pc = "match"
  BY DEF End, Exec
<1>2. Running /\ Kept(mb) /\ Kept(Used(mb, F.eptr))
  BY <1>1, AtOpcode, NoteKept
<1>3. Kept(m)
  BY <1>2 DEF Kept, Block, BlockFields
<1>4. \/ RRETURN(F, "NOMATCH") \/ Return(mb, "NOMATCH") \/ Return(m, "MATCH")
      \/ Return(mb, "BAD_BACKSLASH_K")
  BY DEF End
<1> HIDE DEF m
<1> QED BY <1>2, <1>3, <1>4, GoingBack, Returning

\* The frame of the innermost call, found along the chain of groups.
LEMMA AcceptRecursionKeeps == ASSUME IInv, AcceptRecursion PROVE IInv'
<1> DEFINE calls == {o \in GroupChain : frames[o].group_frame_type[1] = "recurse"}
           H(o) == [frames[o-1] EXCEPT !.ecode = @ + 1, !.eptr = F.eptr, !.mark = F.mark,
                                       !.start_match = F.start_match]
<1>1. pc = "match"
  BY DEF AcceptRecursion, Exec
<1>2. Running /\ Kept(mb) /\ Nested(code)
  BY <1>1, AtOpcode
<1>3. \/ Return(mb, "INTERNAL")
      \/ \E o \in calls : /\ code[H(o).ecode].op # "CREF"
                          /\ ContinueIn(Append(SubSeq(frames, 1, o - 2), H(o)), mb)
  BY DEF AcceptRecursion
<1>4. CASE Return(mb, "INTERNAL")
  BY <1>2, <1>4, Returning
<1>5. ASSUME NEW o \in calls, code[H(o).ecode].op # "CREF",
             ContinueIn(Append(SubSeq(frames, 1, o - 2), H(o)), mb)
      PROVE  IInv'
  <2> DEFINE n == Len(frames)
             P == frames[o-1]
             W == H(o)
             fs == SubSeq(frames, 1, o - 2)
             gs == Append(fs, W)
             hs == SubSeq(frames, 1, o - 1)
  <2>1. /\ IsSeq(frames) /\ n \in Nat /\ n > 0 /\ Stacked(code, frames, Around)
        /\ \A i \in 1..n : Shaped(frames[i])
    BY <1>2, TopFacts
  <2>2. o \in 1..n /\ frames[o].group_frame_type[1] = "recurse"
    BY <2>1, SeqFacts DEF GroupChain
  <2>3. Typed(frames, o)
    BY <2>1, <2>2 DEF Stacked, Below, Placed
  <2>4. frames[o].group_frame_type # NOGROUP
    BY <2>2 DEF NOGROUP
  <2>5. o > 1 /\ TypeFits(frames[o].group_frame_type, P)
    BY <2>3, <2>4 DEF Typed
  <2>6. P.return_id = "RM11"
    BY <2>2, <2>5 DEF TypeFits
  <2>7. Waits(code, P) /\ Shaped(P)
    BY <2>1, <2>2, <2>5 DEF Stacked, Below
  <2>8. CallFits(code, P.ecode) /\ GroupAt(code, P) = Home(code, P.ecode)
    BY <1>2, <2>6, <2>7, CallFacts
  <2>9. W.ecode = P.ecode + 1 /\ Shaped(W) /\ Same(P, W)
    BY <2>7 DEF Shaped, FrameFields, Same
  <2>10. W.ecode \in DOMAIN code /\ Home(code, W.ecode) = GroupAt(code, P)
    BY <1>5, <2>8, <2>9 DEF CallFits, GoesTo
  <2> HIDE DEF W
  <2>11. Stacked(code, hs, GroupAt(code, P))
    <3> DEFINE k == o - 1
    <3>1. k \in 1..(n-1)
      BY <2>1, <2>2, <2>5
    <3>2. Below(code, frames)
      BY <2>1 DEF Stacked
    <3> HIDE DEF k
    <3>3. Stacked(code, SubSeq(frames, 1, k), GroupAt(code, frames[k]))
      BY <2>1, <3>1, <3>2, Pop
    <3> QED BY <3>3 DEF k
  <2>12. IsSeq(hs) /\ Len(hs) = o - 1 /\ \A i \in 1..(o-1) : hs[i] = frames[i]
    <3>1. o - 1 \in 0..Len(frames)
      BY <2>1, <2>2
    <3> QED BY <2>1, <3>1, PrefixFacts
  <2>13. IsSeq(fs) /\ Len(fs) = o - 2 /\ \A i \in 1..(o-2) : fs[i] = frames[i]
    <3>1. o - 2 \in 0..Len(frames)
      BY <2>1, <2>2, <2>5
    <3> QED BY <2>1, <3>1, PrefixFacts
  <2> HIDE DEF fs
  <2>14. IsSeq(gs) /\ Len(gs) = o - 1 /\ gs[o-1] = W /\ \A i \in 1..(o-2) : gs[i] = frames[i]
    <3>1. IsSeq(gs) /\ Len(gs) = Len(fs) + 1 /\ gs[Len(fs) + 1] = W /\ \A i \in 1..Len(fs) : gs[i] = fs[i]
      BY <2>13, AppendFacts
    <3>2. Len(fs) + 1 = o - 1
      BY <2>2, <2>13
    <3> HIDE DEF gs
    <3> QED BY <2>13, <3>1, <3>2
  <2>15. ContinueIn(gs, mb)
    BY <1>5 DEF W, fs
  <2> HIDE DEF gs, hs
  <2>16. \A j \in 1..(Len(hs) - 1) : Alike(code, hs[j], gs[j])
    <3> SUFFICES ASSUME NEW j \in 1..(o - 2) PROVE Alike(code, hs[j], gs[j])
      BY <2>2, <2>12
    <3>1. hs[j] = gs[j]
      BY <2>2, <2>12, <2>14
    <3> QED BY <3>1 DEF Alike, Same
  <2>17. Same(hs[Len(hs)], gs[Len(hs)])
    BY <2>2, <2>5, <2>9, <2>12, <2>14
  <2>18. Stacked(code, gs, GroupAt(code, P))
    BY <2>11, <2>12, <2>14, <2>16, <2>17, StackAlike
  <2>19. AtMatch(code, gs)
    BY <2>10, <2>14, <2>18 DEF AtMatch
  <2>20. \A i \in 1..Len(gs) : Shaped(gs[i])
    <3> SUFFICES ASSUME NEW i \in 1..(o - 1) PROVE Shaped(gs[i])
      BY <2>14
    <3>1. CASE i = o - 1
      BY <2>9, <2>14, <3>1
    <3>2. CASE i # o - 1
      BY <2>1, <2>2, <2>14, <3>2
    <3> QED BY <3>1, <3>2
  <2>21. Len(gs) <= Len(frames)
    BY <2>1, <2>2, <2>14
  <2> QED BY <1>2, <2>14, <2>15, <2>19, <2>20, <2>21, ContinueExit
<1> QED BY <1>3, <1>4, <1>5

-----------------------------------------------------------------------------
(***************************************************************************)
(* The starting points of pcre2_match().                                   *)
(***************************************************************************)
\* The first frame has no link.
LEMMA FirstStacked ==
  ASSUME NEW c, Nested(c), NEW start
  PROVE  LET fs == <<FirstFrame(start)>>
         IN  /\ IsSeq(fs) /\ Len(fs) = 1 /\ Shaped(fs[1]) /\ fs[1].ecode = 1
             /\ Stacked(c, fs, 0)
<1> DEFINE G == FirstFrame(start)
           fs == <<G>>
<1>1. /\ Shaped(G) /\ G.ecode = 1 /\ G.last_group = 0 /\ G.current_recurse = -1
      /\ G.group_frame_type = NOGROUP /\ G.back_frame = 1
  BY DEF FirstFrame, Shaped, FrameFields, RECURSE_UNSET
<1> HIDE DEF G
<1>2. fs \in Seq({G}) /\ Len(fs) = 1 /\ fs[1] = G
  OBVIOUS
<1>3. IsSeq(fs)
  BY <1>2, SeqIsSeq
<1> HIDE DEF fs
<1>4. Typed(fs, 1)
  BY <1>1, <1>2 DEF Typed, NOGROUP
<1>5. Linked(c, fs, 1, 0)
  BY <1>1, <1>2 DEF Linked, Recursing, RECURSE_UNSET
<1>6. Ordered(fs, 1)
  BY <1>1, <1>2 DEF Ordered
<1>7. Stacked(c, fs, 0)
  BY <1>2, <1>4, <1>5, <1>6 DEF Stacked, Placed, Below
<1> QED BY <1>1, <1>2, <1>3, <1>7 DEF fs, G

\* No frame is chained to anything.
LEMMA NoneChained == Chained(<< >>)
BY DEF Chained

\* An attempt starts with the first frame.
LEMMA StartMatchKeeps == ASSUME IInv, StartMatch PROVE IInv'
<1> DEFINE at == Starting.start
           fs == <<FirstFrame(at)>>
           m == [mb EXCEPT !.start_used_ptr = at, !.last_used_ptr = at,
                           !.noteol = options.noteol, !.match_call_count = 1, !.end_offset_top = 0,
                           !.skip_arg_count = 0, !.branch_end = NULL,
                           !.assert_accept_frame = FirstFrame(0)]
<1>1. /\ input \in Inputs /\ Nested(code) /\ options.match_limit \in Nat /\ options.depth_limit \in Nat
      /\ Block(mb)
  BY InputFacts DEF IInv, Sound
<1>2. /\ input' = input /\ frames' = fs /\ mb' = m
      /\ \/ pc' = "result"
         \/ pc' = "match" /\ options.match_limit # 0 /\ options.depth_limit # 0
  BY DEF StartMatch
<1>3. Block(m) /\ m.match_call_count = 1
  BY <1>1 DEF Block, BlockFields
<1>4. IsSeq(fs) /\ Len(fs) = 1 /\ Shaped(fs[1]) /\ fs[1].ecode = 1 /\ Stacked(code, fs, 0)
  BY <1>1, FirstStacked
<1> HIDE DEF fs, m
<1>5. Chained(fs)
  BY <1>4, StackChained
<1>6. AtMatch(code, fs)
  BY <1>1, <1>4 DEF AtMatch, Nested
<1>7. pc' = "match" => Held(options, fs, m)
  BY <1>1, <1>2, <1>3, <1>4 DEF Held
<1> QED BY <1>1, <1>2, <1>3, <1>5, <1>6, <1>7 DEF IInv, Sound, options, code

\* No attempt is left.
LEMMA NoStartKeeps == ASSUME IInv, NoStart PROVE IInv'
<1>1. input' = input /\ frames' = frames /\ mb' = mb /\ pc' = "break"
  BY DEF NoStart
<1> QED BY <1>1 DEF IInv, Sound

\* The next starting point.
LEMMA BumpalongKeeps == ASSUME IInv, Bumpalong PROVE IInv'
<1> DEFINE m == [mb EXCEPT !.ignore_skip_arg = IgnoreSkipArg, !.mark = ""]
<1>1. input' = input /\ frames' = << >> /\ mb' = m /\ pc' = "bumpalong"
  BY DEF Bumpalong
<1>2. Block(m) /\ m.match_call_count = mb.match_call_count
  BY DEF Block, BlockFields, IInv, Sound
<1> HIDE DEF m
<1> QED BY <1>1, <1>2, NoneChained DEF IInv, Sound

\* The match data is filled in.
LEMMA EndLoopKeeps == ASSUME IInv, EndLoop PROVE IInv'
<1>1. input' = input /\ frames' = << >> /\ mb' = mb /\ pc' = "done"
  BY DEF EndLoop
<1> QED BY <1>1, NoneChained DEF IInv, Sound

-----------------------------------------------------------------------------
(***************************************************************************)
(* The theorems.                                                           *)
(***************************************************************************)
\* It begins with no frame.
LEMMA InitSound == Init => IInv
<1> SUFFICES ASSUME Init PROVE IInv
  OBVIOUS
<1>1. input \in Inputs /\ pc = "bumpalong" /\ frames = << >> /\ mb = InitialBlock
  BY DEF Init
<1>2. Block(InitialBlock) /\ InitialBlock.match_call_count = 0
  BY DEF Block, BlockFields, InitialBlock
<1>3. options.match_limit \in Nat
  BY <1>1, InputFacts
<1> QED BY <1>1, <1>2, <1>3, NoneChained DEF IInv, Sound, options

\* The invariant is kept by every step, component by component.
LEMMA CharactersKeep == ASSUME IInv, Characters PROVE IInv'
BY ItemKeeps, RepeatKeeps, RM25Keeps, RM27Keeps, RefKeeps, RM20Keeps, RM21Keeps DEF Characters

\* The same for tests of the position.
LEMMA PositionsKeep == ASSUME IInv, Positions PROVE IInv'
BY CircKeeps, DollKeeps, DollmKeeps, WordBoundaryKeeps, SetSomKeeps, MoveBackKeeps,
   MoveBackAtMostKeeps, RM37Keeps DEF Positions

\* The same for groups.
LEMMA GroupsKeep == ASSUME IInv, Groups PROVE IInv'
BY BraZeroKeeps, RM9Keeps, BraMinZeroKeeps, RM10Keeps, SkipZeroKeeps, BraPosKeeps, RM8Keeps,
   BraKeeps, RM1Keeps, CaptureOrOnceKeeps, RM2Keeps DEF Groups

\* The same for calls.
LEMMA RecursionsKeep == ASSUME IInv, Recursions PROVE IInv'
BY RecursionKeeps, RM11Keeps DEF Recursions

\* The same for assertions.
LEMMA AssertionStepsKeep == ASSUME IInv, AssertionSteps PROVE IInv'
BY AssertionKeeps, RM3Keeps, RM4Keeps, ScsKeeps, RM38Keeps, RM39Keeps DEF AssertionSteps

\* The same for conditional groups.
LEMMA ConditionsKeep == ASSUME IInv, Conditions PROVE IInv'
BY ConditionKeeps, RM5Keeps, RM35Keeps DEF Conditions

\* The same for the ends of branches, groups and the pattern.
LEMMA EndsKeep == ASSUME IInv, Ends PROVE IInv'
BY AlternationKeeps, KetFailsKeeps, KetCondAssertKeeps, KetRecursionKeeps, KetAssertNaKeeps,
   KetAtomicKeeps, KetScsKeeps, KetCaptureKeeps, KetPlainKeeps, RM6Keeps, RM7Keeps, CloseKeeps,
   AssertAcceptKeeps, AcceptRecursionKeeps, EndKeeps DEF Ends

\* The same for verbs.
LEMMA VerbStepsKeep == ASSUME IInv, VerbSteps PROVE IInv'
BY MarkKeeps, RM12Keeps, SkipArgKeeps, VerbTriggeredKeeps, FailKeeps DEF VerbSteps

\* The same for the driver.
LEMMA DriverKeeps == ASSUME IInv, Driver PROVE IInv'
BY StartMatchKeeps, NoStartKeeps, BumpalongKeeps, EndLoopKeeps DEF Driver

\* The inductive invariant, for every nested code, every subject and all options.
THEOREM FramesStaySound == Spec => []IInv
<1>1. Init => IInv
  BY InitSound
<1>2. IInv /\ [Next]_vars => IInv'
  <2>1. ASSUME IInv, Next PROVE IInv'
    BY <2>1, CharactersKeep, PositionsKeep, GroupsKeep, RecursionsKeep, AssertionStepsKeep,
       ConditionsKeep, EndsKeep, VerbStepsKeep, DriverKeeps DEF Next
  <2>2. ASSUME IInv, UNCHANGED vars PROVE IInv'
    BY <2>2 DEF vars, IInv
  <2> QED BY <2>1, <2>2
<1> QED BY <1>1, <1>2, PTL DEF Spec

\* The frames below the top one wait where they may, in the groups they are linked to.
THEOREM FramesAlwaysFit == Spec => []FramesFit
<1>1. IInv => FramesFit
  BY DEF IInv, Sound, FramesFit, code
<1> QED BY <1>1, FramesStaySound, PTL

\* A frame returns to one below it, and its groups are further down.
THEOREM LinksHold == Spec => []StackWellFormed
<1>1. IInv => StackWellFormed
  BY DEF IInv, Sound, Chained, StackWellFormed
<1> QED BY <1>1, FramesStaySound, PTL

\* No more frames are held than the limit on depth allows, and no more made from one
\* starting point than the limit on calls.
THEOREM LimitsHold == Spec => []WithinLimits
<1>1. IInv => WithinLimits
  BY DEF IInv, Sound, Held, WithinLimits, options
<1> QED BY <1>1, FramesStaySound, PTL

\* At a ket the frame below the last group frame is the one that tried or called the group.
THEOREM GroupsAreFound == Spec => []GroupsFound
<1>1. IInv => GroupsFound
  <2> SUFFICES ASSUME IInv, pc = "match", Op \in Kets, HasGroupFrame \/ RecursionEnds
               PROVE  /\ F.last_group \in 2..Len(frames)
                      /\ IF RecursionEnds
                         THEN /\ BeforeGroup.return_id = "RM11" /\ code[BeforeGroup.ecode].op = "RECURSE"
                              /\ code[BeforeGroup.ecode].num = F.current_recurse
                         ELSE Tried(code, BeforeGroup) = BraCode
                              /\ BeforeGroup.current_recurse = F.current_recurse
    BY DEF GroupsFound
  <2> DEFINE o == F.last_group
             P == BeforeGroup
             type == frames[o].group_frame_type
  <2>1. AtKet
    BY DEF AtKet, Exec
  <2>2. Running /\ Nested(code) /\ Around = Inside(code, BraCode) /\ (HasGroupFrame <=> HasFrame(code, BraCode))
    BY <2>1, AtKetOp
  <2>3. o \in 2..Len(frames) /\ P = frames[o-1] /\ Waits(code, P)
    BY <2>1, AtGroupEnd, CallFound
  <2>4. TypeFits(type, P) /\ LinkFits(code, F, type, P, Around)
    <3>1. IsSeq(frames) /\ Stacked(code, frames, Around) /\ F = frames[Len(frames)]
      BY <2>2, TopFacts
    <3>2. o # 0
      BY <2>3
    <3> HIDE DEF o
    <3>3. o = frames[Len(frames)].last_group
      BY <3>1 DEF o
    <3> QED BY <2>3, <3>1, <3>2, <3>3, LastGroup
  <2> HIDE DEF o, P, type
  <2>5. CASE RecursionEnds
    <3>1. P.return_id = "RM11"
      BY <2>1, <2>5, CallFound DEF P
    <3>2. /\ code[P.ecode].op = "RECURSE" /\ P.fields.frame_type = <<"recurse", code[P.ecode].num>>
      BY <2>2, <2>3, <3>1, CallFacts
    <3>3. type[1] = "recurse" /\ type = <<"recurse", code[P.ecode].num>>
      BY <2>4, <3>1, <3>2 DEF TypeFits
    <3>4. F.current_recurse = code[P.ecode].num
      BY <2>4, <3>3 DEF LinkFits
    <3> QED BY <2>3, <2>5, <3>1, <3>2, <3>4 DEF o, P
  <2>6. CASE ~RecursionEnds
    <3>1. HasGroupFrame
      BY <2>6
    <3>2. EndsCall(code, F, P, BraCode) \/ P.return_id \in {"RM5", "RM35"} \cup AtBracket
      BY <2>1, <3>1, AtGroupEnd DEF EndsCondition, EndsGroup, P
    <3>3. ~EndsCall(code, F, P, BraCode)
      BY <2>6 DEF EndsCall, RecursionEnds, IsCapture, BraOp
    <3>4. type[1] # "recurse"
      BY <2>4, <3>2, <3>3 DEF TypeFits, AtBracket
    <3>5. F.current_recurse = P.current_recurse /\ Around = Tried(code, P)
      BY <2>4, <3>4 DEF LinkFits
    <3>6. Around = BraCode
      BY <2>2, <3>1 DEF Inside
    <3> QED BY <2>3, <2>6, <3>5, <3>6 DEF o, P
  <2> QED BY <2>5, <2>6
<1> QED BY <1>1, FramesStaySound, PTL

-----------------------------------------------------------------------------
(***************************************************************************)
(* The captures.  As long as no assertion holds an *ACCEPT none is set     *)
(* above offset_top, in any frame.                                         *)
(***************************************************************************)
\* The greatest of two numbers.
LEMMA MaxOfTwo ==
  ASSUME NEW a \in Nat, NEW b \in Nat
  PROVE  Max({a, b}) \in Nat /\ Max({a, b}) >= a /\ Max({a, b}) >= b
<1>1. \E m \in {a, b} : \A x \in {a, b} : m >= x
  <2>1. CASE a >= b
    BY <2>1
  <2>2. CASE b >= a
    BY <2>2
  <2> QED BY <2>1, <2>2
<1>2. Max({a, b}) \in {a, b} /\ \A x \in {a, b} : Max({a, b}) >= x
  BY <1>1 DEF Max
<1> QED BY <1>2

\* The greatest of some numbers that are bounded.
LEMMA MaxOfBounded ==
  ASSUME NEW S \in SUBSET Nat, S # {}, NEW top \in Nat, \A x \in S : x <= top
  PROVE  Max(S) \in S /\ \A x \in S : Max(S) >= x
<1> DEFINE T == {k \in Nat : (\E x \in S : x >= top - k) => \E m \in S : \A x \in S : m >= x}
<1>1. 0 \in T
  <2> SUFFICES ASSUME NEW m \in S, m >= top - 0 PROVE \A x \in S : m >= x
    OBVIOUS
  <2> QED OBVIOUS
<1>2. ASSUME NEW k \in Nat, k \in T PROVE k + 1 \in T
  <2> SUFFICES ASSUME NEW y \in S, y >= top - (k + 1) PROVE \E m \in S : \A x \in S : m >= x
    OBVIOUS
  <2>1. CASE \E x \in S : x >= top - k
    BY <1>2, <2>1
  <2>2. CASE ~ \E x \in S : x >= top - k
    <3>1. \A x \in S : y >= x
      BY <2>2
    <3> QED BY <3>1
  <2> QED BY <2>1, <2>2
<1> HIDE DEF T
<1>3. top \in T
  <2>1. T \in SUBSET Nat
    BY DEF T
  <2> QED BY <1>1, <1>2, <2>1, SetInduction
<1>4. \E m \in S : \A x \in S : m >= x
  <2>1. \E x \in S : x >= top - top
    <3>1. PICK x \in S : TRUE
      OBVIOUS
    <3>2. x \in Nat /\ top - top = 0
      OBVIOUS
    <3> QED BY <3>2
  <2> QED BY <1>3, <2>1 DEF T
<1>5. Max(S) = CHOOSE x \in S : \A y \in S : x >= y
  BY DEF Max
<1> QED BY ONLY <1>4, <1>5

\* Finitely many numbers are bounded.
LEMMA FiniteBound ==
  ASSUME NEW n \in Nat, NEW f \in [1..n -> Nat]
  PROVE  \E top \in Nat : \A i \in 1..n : f[i] <= top
<1> DEFINE T == {k \in Nat : k <= n => \E top \in Nat : \A i \in 1..k : f[i] <= top}
<1>1. 0 \in T
  OBVIOUS
<1>2. ASSUME NEW k \in Nat, k \in T PROVE k + 1 \in T
  <2> SUFFICES ASSUME k + 1 <= n PROVE \E top \in Nat : \A i \in 1..(k + 1) : f[i] <= top
    OBVIOUS
  <2>1. PICK top \in Nat : \A i \in 1..k : f[i] <= top
    BY <1>2
  <2>2. f[k + 1] \in Nat
    OBVIOUS
  <2>3. \A i \in 1..(k + 1) : f[i] \in Nat /\ f[i] <= top + f[k + 1]
    BY <2>1, <2>2
  <2> QED BY <2>2, <2>3
<1> HIDE DEF T
<1>3. n \in T
  <2>1. T \in SUBSET Nat
    BY DEF T
  <2> QED BY <1>1, <1>2, <2>1, SetInduction
<1> QED BY <1>3 DEF T

\* The number of captures of a nested code is one.
LEMMA CountIsNumber == ASSUME input \in Inputs PROVE CaptureCount \in Nat
<1> DEFINE caps == {j \in DOMAIN code : code[j].op \in CaptureBrackets}
           S == {0} \cup {code[i].num : i \in caps}
           f == [i \in 1..Len(code) |-> IF i \in caps THEN code[i].num ELSE 0]
<1>1. Nested(code)
  BY InputFacts
<1>2. Len(code) \in Nat /\ DOMAIN code = 1..Len(code)
  BY <1>1 DEF Nested
<1>3. \A i \in caps : code[i].num \in Nat
  <2> SUFFICES ASSUME NEW i \in caps PROVE code[i].num \in Nat
    OBVIOUS
  <2>1. Fits(code, i) /\ IsBracket(code, i) /\ IsCapture(code, i)
    BY <1>1 DEF Nested, IsBracket, IsCapture, CaptureBrackets, Brackets
  <2> QED BY <2>1 DEF Fits, BracketFits, CaptureFits
<1>4. f \in [1..Len(code) -> Nat]
  BY <1>3
<1>5. PICK top \in Nat : \A i \in 1..Len(code) : f[i] <= top
  <2> HIDE DEF f
  <2> QED BY <1>2, <1>4, FiniteBound
<1>6. S \in SUBSET Nat /\ S # {}
  BY <1>3
<1>7. \A x \in S : x <= top
  <2>1. \A i \in caps : code[i].num <= top
    BY <1>2, <1>5
  <2> QED BY <2>1
<1>8. CaptureCount = Max(S)
  BY DEF CaptureCount
<1> HIDE DEF S
<1>9. Max(S) \in S
  BY <1>6, <1>7, MaxOfBounded
<1> QED BY <1>6, <1>8, <1>9

-----------------------------------------------------------------------------
(***************************************************************************)
(* The ways on from an opcode or label, for the captures.                  *)
(***************************************************************************)
\* Frames that wait go on doing so when frames above them are dropped or replaced.
LEMMA FewerWait ==
  ASSUME NEW c, NEW fs, NEW gs, NEW n \in Nat, NEW k \in Nat, k <= n, NEW rc, NEW old,
         old = "KETRPOS" => rc = "KETRPOS",
         WaitersFit(c, fs, n, old), SameUpTo(fs, gs, k)
  PROVE  WaitersFit(c, gs, k, rc)
<1> SUFFICES ASSUME NEW i \in 1..k
             PROVE  /\ Covered(gs[i]) /\ ChainedAt(gs, i)
                    /\ (rc = "KETRPOS" => Awaited(gs, i, k)) => Grows(gs, i)
                    /\ gs[i].return_id = "RM13" => c[gs[i].ecode].op \in BacktrackVerbs
  BY DEF WaitersFit
<1>1. i \in 1..n /\ gs[i] = fs[i]
  BY DEF SameUpTo
<1>2. /\ Covered(fs[i]) /\ ChainedAt(fs, i)
      /\ (old = "KETRPOS" => Awaited(fs, i, n)) => Grows(fs, i)
      /\ fs[i].return_id = "RM13" => c[fs[i].ecode].op \in BacktrackVerbs
  BY <1>1 DEF WaitersFit
<1>3. Awaited(gs, i, k) => Awaited(fs, i, n)
  BY <1>1 DEF Awaited, SameUpTo
<1>4. ChainedAt(gs, i) /\ (Grows(fs, i) => Grows(gs, i))
  <2>1. CASE fs[i].last_group = 0
    BY <1>1, <2>1 DEF ChainedAt, Grows
  <2>2. CASE fs[i].last_group # 0
    <3>1. fs[i].last_group \in 2..i
      BY <1>2, <2>2 DEF ChainedAt
    <3>2. gs[fs[i].last_group - 1] = fs[fs[i].last_group - 1]
      BY <1>1, <3>1 DEF SameUpTo
    <3> QED BY <1>1, <3>1, <3>2 DEF ChainedAt, Grows
  <2> QED BY <2>1, <2>2
<1> QED BY <1>1, <1>2, <1>3, <1>4

\* It goes on with an opcode.
LEMMA ContinueFits ==
  ASSUME NEW fs, NEW m, ContinueIn(fs, m),
         NoAssertAccept => rrc # "ACCEPT" /\ WaitersFit(code, fs, Len(fs) - 1, "NOMATCH") /\ RunnerFits(fs)
  PROVE  CapturesFit'
<1>1. input' = input /\ pc' = "match" /\ frames' = fs /\ rrc' = rrc
  BY DEF ContinueIn, Constant
<1>2. code' = code /\ (NoAssertAccept' <=> NoAssertAccept)
  BY <1>1 DEF code, NoAssertAccept
<1>3. CaptureCount' = CaptureCount
  BY <1>2 DEF CaptureCount
<1>4. CASE ~NoAssertAccept
  BY <1>2, <1>4 DEF CapturesFit
<1>5. CASE NoAssertAccept
  <2>1. WaitersFit(code, frames, Len(frames) - 1, "NOMATCH")'
    BY <1>1, <1>2, <1>3, <1>5 DEF WaitersFit, Covered, ChainedAt, Grows, Awaited
  <2>2. RunnerFits(frames)'
    BY <1>1, <1>3, <1>5 DEF RunnerFits, Covered, ChainedAt, Grows
  <2> QED BY <1>1, <1>2, <1>5, <2>1, <2>2 DEF CapturesFit
<1> QED BY <1>4, <1>5

\* It leaves match().
LEMMA ReturnFits ==
  ASSUME IInv, CapturesFit, Running, NEW m, NEW rc, Return(m, rc), NoAssertAccept => rc # "ACCEPT"
  PROVE  CapturesFit'
<1> DEFINE n == Len(frames)
<1>1. input' = input /\ pc' = "result" /\ rrc' = rc /\ frames' = frames
  BY DEF Return, Constant
<1>2. code' = code /\ (NoAssertAccept' <=> NoAssertAccept)
  BY <1>1 DEF code, NoAssertAccept
<1>3. CaptureCount' = CaptureCount
  BY <1>2 DEF CaptureCount
<1>4. ASSUME NoAssertAccept, NEW i \in 1..n PROVE Covered(frames[i])
  <2>1. n \in Nat /\ n > 0
    BY TopFacts
  <2>2. CASE pc = "match"
    <3>1. i = n \/ i \in 1..(n-1)
      BY <2>1
    <3> QED BY <1>4, <2>2, <3>1 DEF CapturesFit, WaitersFit, RunnerFits
  <2>3. CASE pc = "return"
    BY <1>4, <2>3 DEF CapturesFit, WaitersFit
  <2> QED BY <2>2, <2>3 DEF Running
<1>5. NoAssertAccept => (\A i \in 1..Len(frames) : Covered(frames[i]))'
  BY <1>1, <1>3, <1>4 DEF Covered
<1> QED BY <1>1, <1>2, <1>5 DEF CapturesFit

\* It goes back to a frame below.
LEMMA RReturnFits ==
  ASSUME IInv, CapturesFit, Running, NEW fs, IsSeq(fs), Len(fs) > 0, NEW m, NEW rc, RRETURNIn(fs, m, rc),
         Len(fs) > 1 => fs[Len(fs)].back_frame \in 1..(Len(fs) - 1),
         NoAssertAccept => /\ rc # "ACCEPT"
                           /\ Len(fs) > 1 => WaitersFit(code, fs, Len(fs) - fs[Len(fs)].back_frame, rc)
  PROVE  CapturesFit'
<1> DEFINE n == Len(fs)
           k == n - fs[n].back_frame
           gs == SubSeq(fs, 1, k)
<1>1. n \in Nat /\ n > 0 /\ Last(fs) = fs[n]
  BY SeqFacts DEF Last
<1>2. CASE n = 1
  <2>1. \E u : Return(u, rc)
    BY <1>2 DEF RRETURNIn
  <2> QED BY <2>1, ReturnFits
<1>3. CASE n # 1
  <2>1. input' = input /\ pc' = "return" /\ rrc' = rc /\ frames' = gs
    BY <1>1, <1>3 DEF RRETURNIn, Constant
  <2>2. code' = code /\ (NoAssertAccept' <=> NoAssertAccept)
    BY <2>1 DEF code, NoAssertAccept
  <2>3. CaptureCount' = CaptureCount
    BY <2>2 DEF CaptureCount
  <2>4. k \in 1..(n-1)
    <3>1. n > 1 => fs[n].back_frame \in 1..(n-1)
      BY Zenon
    <3>2. n > 1
      BY ONLY <1>1, <1>3
    <3> DEFINE back == fs[n].back_frame
    <3>3. back \in 1..(n-1)
      BY <3>1, <3>2
    <3> HIDE DEF back, n
    <3>4. n - back \in 1..(n-1)
      BY ONLY <1>1, <3>3
    <3> QED BY <3>4 DEF back
  <2> HIDE DEF k
  <2>5. Len(gs) = k /\ \A i \in 1..k : gs[i] = fs[i]
    BY <1>1, <2>4, PrefixFacts
  <2> HIDE DEF gs
  <2>6. CASE ~NoAssertAccept
    BY <2>2, <2>6 DEF CapturesFit
  <2>7. CASE NoAssertAccept
    <3>1. WaitersFit(code, gs, k, rc)
      <4>1. k \in Nat /\ k <= k /\ SameUpTo(fs, gs, k)
        BY <1>1, <2>4, <2>5 DEF SameUpTo
      <4>2. n > 1
        BY ONLY <1>1, <1>3
      <4>3. n > 1 => WaitersFit(code, fs, n - fs[n].back_frame, rc)
        BY <2>7, Zenon
      <4>4. WaitersFit(code, fs, k, rc)
        BY <4>2, <4>3 DEF k
      <4> QED BY ONLY <4>1, <4>4, FewerWait
    <3>2. WaitersFit(code, frames, Len(frames), rrc)'
      BY <2>1, <2>2, <2>3, <2>5, <3>1 DEF WaitersFit, Covered, ChainedAt, Grows, Awaited
    <3> QED BY <2>1, <2>7, <3>2 DEF CapturesFit
  <2> QED BY <2>6, <2>7
<1> QED BY <1>2, <1>3

\* A new frame is made, with the captures of the one that makes it.
LEMMA RMatchFits ==
  ASSUME IInv, CapturesFit, Running, NEW fs, IsSeq(fs), Len(fs) > 0, NEW m, NEW ra, NEW rb, NEW type, Shaped(fs[Len(fs)]),
         RMATCHIn(fs, m, ra, rb, type),
         NoAssertAccept =>
           /\ rrc # "ACCEPT" /\ WaitersFit(code, fs, Len(fs) - 1, "NOMATCH") /\ RunnerFits(fs)
           /\ rb = "RM13" => code[fs[Len(fs)].ecode].op \in BacktrackVerbs
  PROVE  CapturesFit'
<1> DEFINE n == Len(fs)
           W == Waiting(fs[n], rb)
           N == NewFrame(W, n + 1, ra, type)
           hs == [fs EXCEPT ![n] = W]
           gs == Append(hs, N)
           counted == [m EXCEPT !.match_call_count = @ + 1]
<1>1. n \in Nat /\ n > 0 /\ Last(fs) = fs[n]
  BY SeqFacts DEF Last
<1>2. \/ Return(counted, "MATCHLIMIT") \/ Return(counted, "DEPTHLIMIT")
      \/ ContinueIn(gs, counted)
  BY <1>1 DEF RMATCHIn, ContinueIn, Waiting
<1>3. IsSeq(hs) /\ Len(hs) = n /\ hs[n] = W /\ \A i \in 1..n : i # n => hs[i] = fs[i]
  BY <1>1, ExceptFacts
<1> HIDE DEF hs
<1>4. Len(gs) = n + 1 /\ gs[n+1] = N /\ \A i \in 1..n : gs[i] = hs[i]
  <2> HIDE DEF N
  <2> QED BY <1>3, AppendFacts
<1> HIDE DEF gs
<1>5. /\ W.offset_top = fs[n].offset_top /\ W.ovector = fs[n].ovector /\ W.last_group = fs[n].last_group
      /\ W.return_id = rb /\ W.ecode = fs[n].ecode /\ Shaped(W)
  BY DEF Waiting, Shaped, FrameFields
<1> HIDE DEF W
<1>6. /\ N.offset_top = W.offset_top /\ N.ovector = W.ovector
      /\ N.last_group = W.last_group \/ N.last_group = n + 1
  BY <1>5 DEF NewFrame, Shaped, FrameFields
<1> HIDE DEF N, counted
<1>7. CASE Return(counted, "MATCHLIMIT") \/ Return(counted, "DEPTHLIMIT")
  BY <1>7, ReturnFits
<1>8. CASE ContinueIn(gs, counted)
  <2> SUFFICES ASSUME NoAssertAccept
               PROVE  WaitersFit(code, gs, n, "NOMATCH") /\ RunnerFits(gs)
    <3>1. Len(gs) - 1 = n
      BY <1>1, <1>4
    <3> QED BY <1>8, <3>1, ContinueFits
  <2>1. WaitersFit(code, fs, n - 1, "NOMATCH") /\ Covered(fs[n]) /\ ChainedAt(fs, n) /\ Grows(fs, n)
    BY DEF RunnerFits
  <2>2. ASSUME NEW i \in 1..(n-1)
        PROVE  gs[i] = fs[i] /\ gs[n] = W
    BY <1>1, <1>3, <1>4
  <2>3. WaitersFit(code, gs, n - 1, "NOMATCH")
    <3>1. n - 1 \in Nat /\ SameUpTo(fs, gs, n - 1)
      BY <1>1, <2>2 DEF SameUpTo
    <3>2. n - 1 <= n - 1
      BY <1>1
    <3> QED BY ONLY <2>1, <3>1, <3>2, FewerWait
  <2>4. gs[n] = W
    BY <1>1, <1>3, <1>4
  <2>5. Covered(W) /\ Covered(N)
    BY <1>5, <1>6, <2>1 DEF Covered
  <2>6. ChainedAt(gs, n) /\ Grows(gs, n)
    <3>1. CASE W.last_group = 0
      BY <2>4, <3>1 DEF ChainedAt, Grows
    <3>2. CASE W.last_group # 0
      <4>1. W.last_group \in 2..n /\ fs[n].offset_top >= fs[W.last_group - 1].offset_top
        BY <1>5, <2>1, <3>2 DEF ChainedAt, Grows
      <4>2. gs[W.last_group - 1] = fs[W.last_group - 1]
        BY <1>1, <2>2, <4>1
      <4> QED BY <1>5, <2>4, <4>1, <4>2 DEF ChainedAt, Grows
    <3> QED BY <3>1, <3>2
  <2>7. ChainedAt(gs, n + 1) /\ Grows(gs, n + 1)
    <3>1. CASE N.last_group = n + 1
      <4>1. gs[n + 1 - 1] = W
        BY <1>1, <2>4
      <4>2. N.offset_top >= W.offset_top
        BY <1>6, <2>5 DEF Covered
      <4> QED BY <1>1, <1>4, <3>1, <4>1, <4>2 DEF ChainedAt, Grows
    <3>2. CASE N.last_group = W.last_group
      BY <1>1, <1>4, <1>6, <2>4, <2>6, <3>2 DEF ChainedAt, Grows
    <3> QED BY <1>6, <3>1, <3>2
  <2>8. WaitersFit(code, gs, n, "NOMATCH")
    <3> SUFFICES ASSUME NEW i \in 1..n
                 PROVE  /\ Covered(gs[i]) /\ ChainedAt(gs, i) /\ Grows(gs, i)
                        /\ gs[i].return_id = "RM13" => code[gs[i].ecode].op \in BacktrackVerbs
      BY DEF WaitersFit
    <3>1. CASE i = n
      BY <1>5, <2>4, <2>5, <2>6, <3>1
    <3>2. CASE i # n
      <4>1. i \in 1..(n-1)
        BY <1>1, <3>2
      <4> QED BY <2>3, <4>1 DEF WaitersFit
    <3> QED BY <3>1, <3>2
  <2>9. RunnerFits(gs)
    BY <1>4, <2>5, <2>7 DEF RunnerFits
  <2> QED BY <2>8, <2>9
<1> QED BY <1>2, <1>7, <1>8

\* No possessive group has just handed its captures down, but for the one that waits here.
Settled == pc = "match" \/ rrc # "KETRPOS" \/ F.return_id = "RM8"
\* Then all frames fit.
LEMMA AllSettled ==
  ASSUME IInv, CapturesFit, Running, Settled, NoAssertAccept
  PROVE  rrc # "ACCEPT" /\ WaitersFit(code, frames, Len(frames) - 1, "NOMATCH") /\ RunnerFits(frames)
<1> DEFINE n == Len(frames)
<1>1. n \in Nat /\ n > 0 /\ F = frames[n]
  BY TopFacts
<1>2. CASE pc = "match"
  BY <1>2 DEF CapturesFit
<1>3. CASE pc = "return"
  <2>1. rrc # "ACCEPT" /\ WaitersFit(code, frames, n, rrc)
    BY <1>3 DEF CapturesFit
  <2>2. ASSUME NEW i \in 1..n
        PROVE  /\ Covered(frames[i]) /\ ChainedAt(frames, i) /\ Grows(frames, i)
               /\ frames[i].return_id = "RM13" => code[frames[i].ecode].op \in BacktrackVerbs
    <3>1. rrc = "KETRPOS" => Awaited(frames, i, n)
      BY <1>1, <1>3 DEF Settled, Awaited
    <3> QED BY <2>1, <3>1 DEF WaitersFit
  <2>3. WaitersFit(code, frames, n - 1, "NOMATCH")
    <3>1. \A i \in 1..(n-1) : i \in 1..n
      BY <1>1
    <3> QED BY <2>2, <3>1 DEF WaitersFit
  <2>4. RunnerFits(frames)
    BY <1>1, <2>2 DEF RunnerFits
  <2> QED BY <2>1, <2>3, <2>4
<1> QED BY <1>2, <1>3 DEF Running

\* The top frame replaced by one that fits.
LEMMA TopFits ==
  ASSUME IInv, CapturesFit, Running, Settled, NoAssertAccept, NEW G, Covered(G),
         G.last_group # 0 => /\ G.last_group \in 2..Len(frames)
                             /\ G.offset_top >= frames[G.last_group - 1].offset_top
  PROVE  WaitersFit(code, Top(G), Len(Top(G)) - 1, "NOMATCH") /\ RunnerFits(Top(G))
<1> DEFINE n == Len(frames)
           fs == Top(G)
<1>1. n \in Nat /\ n > 0
  BY TopFacts
<1>2. Len(fs) = n /\ fs[n] = G /\ \A i \in 1..(n-1) : fs[i] = frames[i]
  BY TopReplaced
<1>3. WaitersFit(code, fs, n - 1, "NOMATCH")
  <2>1. WaitersFit(code, frames, n - 1, "NOMATCH")
    BY AllSettled
  <2>2. n - 1 \in Nat /\ n - 1 <= n - 1 /\ SameUpTo(frames, fs, n - 1)
    BY <1>1, <1>2 DEF SameUpTo
  <2> QED BY ONLY <2>1, <2>2, FewerWait
<1>4. G.last_group # 0 => fs[G.last_group - 1] = frames[G.last_group - 1]
  BY <1>1, <1>2
<1> HIDE DEF fs
<1>5. RunnerFits(fs)
  BY <1>2, <1>4 DEF RunnerFits, ChainedAt, Grows
<1>6. Len(fs) - 1 = n - 1
  BY <1>2
<1> QED BY <1>3, <1>5, <1>6 DEF fs

\* The top frame with changes, but none to its captures and its group.
Bears(G) == G.offset_top = F.offset_top /\ G.ovector = F.ovector /\ G.last_group = F.last_group
\* It fits as well.
LEMMA BearsFits ==
  ASSUME IInv, CapturesFit, Running, Settled, NoAssertAccept, NEW G, Bears(G)
  PROVE  WaitersFit(code, Top(G), Len(Top(G)) - 1, "NOMATCH") /\ RunnerFits(Top(G))
<1>1. RunnerFits(frames) /\ F = frames[Len(frames)]
  BY AllSettled, TopFacts
<1>2. Covered(G) /\ (G.last_group # 0 => /\ G.last_group \in 2..Len(frames)
                                        /\ G.offset_top >= frames[G.last_group - 1].offset_top)
  BY <1>1 DEF RunnerFits, Bears, Covered, ChainedAt, Grows
<1> QED BY <1>2, TopFits

\* On with an opcode.
LEMMA GoingFits ==
  ASSUME IInv, CapturesFit, Running, Settled, NEW G, NEW m, NoAssertAccept => Bears(G), ContinueWith(G, m)
  PROVE  CapturesFit'
<1>1. ContinueIn(Top(G), m)
  BY DEF ContinueWith
<1>2. NoAssertAccept => rrc # "ACCEPT" /\ WaitersFit(code, Top(G), Len(Top(G)) - 1, "NOMATCH") /\ RunnerFits(Top(G))
  BY AllSettled, BearsFits
<1> QED BY <1>1, <1>2, ContinueFits

\* The same with the match block as it is.
LEMMA GoingOnFits ==
  ASSUME IInv, CapturesFit, Running, Settled, NEW G, NoAssertAccept => Bears(G), Continue(G)
  PROVE  CapturesFit'
<1>1. ContinueWith(G, mb)
  BY DEF Continue, ContinueWith
<1> QED BY <1>1, GoingFits

\* A new frame.
LEMMA TryingFits ==
  ASSUME IInv, CapturesFit, Running, Settled, NEW G, NEW m, NEW ra, NEW rb, NEW type,
         Shaped(G), NoAssertAccept => Bears(G),
         NoAssertAccept /\ rb = "RM13" => code[G.ecode].op \in BacktrackVerbs,
         RMATCHWith(G, m, ra, rb, type)
  PROVE  CapturesFit'
<1> DEFINE fs == Top(G)
<1>1. RMATCHIn(fs, m, ra, rb, type)
  BY DEF RMATCHWith
<1>2. NoAssertAccept => rrc # "ACCEPT" /\ WaitersFit(code, fs, Len(fs) - 1, "NOMATCH") /\ RunnerFits(fs)
  BY AllSettled, BearsFits
<1>3. IsSeq(fs) /\ Len(fs) > 0 /\ fs[Len(fs)] = G
  BY TopReplaced, TopFacts
<1> HIDE DEF fs
<1> QED BY <1>1, <1>2, <1>3, RMatchFits

\* The same with the match block as it is.
LEMMA TryingOnFits ==
  ASSUME IInv, CapturesFit, Running, Settled, NEW G, NEW ra, NEW rb, NEW type,
         Shaped(G), NoAssertAccept => Bears(G), rb # "RM13", RMATCH(G, ra, rb, type)
  PROVE  CapturesFit'
<1>1. RMATCHWith(G, mb, ra, rb, type)
  BY DEF RMATCH, RMATCHWith
<1> QED BY <1>1, TryingFits

\* Back, with captures handed down or not.
LEMMA FailingFits ==
  ASSUME IInv, CapturesFit, Running, NEW G, NEW m, NEW rc, G.back_frame = F.back_frame,
         NoAssertAccept => rc # "ACCEPT", Settled \/ rc = rrc, RRETURNWith(G, m, rc)
  PROVE  CapturesFit'
<1> DEFINE n == Len(frames)
           fs == Top(G)
<1>1. n \in Nat /\ n > 0 /\ F = frames[n] /\ Stacked(code, frames, Around)
  BY TopFacts
<1>2. IsSeq(fs) /\ Len(fs) = n /\ fs[n] = G /\ \A i \in 1..(n-1) : fs[i] = frames[i]
  BY TopReplaced
<1>3. RRETURNIn(fs, m, rc)
  BY DEF RRETURNWith
<1> HIDE DEF fs
<1>4. n > 1 => fs[n].back_frame \in 1..(n - 1)
  BY <1>1, <1>2 DEF Stacked, Placed, Linked
<1> DEFINE k == n - fs[n].back_frame
<1>5. NoAssertAccept /\ n > 1 => WaitersFit(code, fs, k, rc)
  <2> SUFFICES ASSUME NoAssertAccept, n > 1 PROVE WaitersFit(code, fs, k, rc)
    OBVIOUS
  <2>1. k \in Nat /\ n - 1 \in Nat /\ n \in Nat /\ k <= n - 1 /\ k <= n /\ SameUpTo(frames, fs, k)
    BY <1>1, <1>2, <1>4 DEF SameUpTo
  <2>2. CASE Settled
    <3>1. WaitersFit(code, frames, n - 1, "NOMATCH")
      BY <2>2, AllSettled
    <3> QED BY ONLY <2>1, <3>1, FewerWait
  <2>3. CASE ~Settled
    <3>1. rc = rrc /\ WaitersFit(code, frames, n, rc)
      BY <2>3 DEF Settled, CapturesFit, Running
    <3> QED BY ONLY <2>1, <3>1, FewerWait
  <2> QED BY <2>2, <2>3
<1> QED BY <1>1, <1>2, <1>3, <1>4, <1>5, RReturnFits

\* The same with the match block as it is.
LEMMA GoingBackFits ==
  ASSUME IInv, CapturesFit, Running, NEW G, NEW rc, G.back_frame = F.back_frame,
         NoAssertAccept => rc # "ACCEPT", Settled \/ rc = rrc, RRETURN(G, rc)
  PROVE  CapturesFit'
<1>1. RRETURNWith(G, mb, rc)
  BY DEF RRETURN, RRETURNWith
<1> QED BY <1>1, FailingFits

\* Back at the end of the subject.
LEMMA FailingAtEndFits ==
  ASSUME IInv, CapturesFit, Running, NEW G, G.back_frame = F.back_frame, Settled, FailAtEnd(G)
  PROVE  CapturesFit'
<1>1. CASE Return(NoteEnd(G.eptr), "PARTIAL")
  BY <1>1, ReturnFits
<1>2. CASE RRETURNWith(G, NoteEnd(G.eptr), "NOMATCH")
  BY <1>2, FailingFits
<1> QED BY <1>1, <1>2 DEF FailAtEnd

\* The return code that a label passes on.
LEMMA PassingFits ==
  ASSUME IInv, CapturesFit, Running, NEW G, NEW m, G.back_frame = F.back_frame, RRETURNWith(G, m, rrc)
  PROVE  CapturesFit'
<1>1. NoAssertAccept => rrc # "ACCEPT"
  BY DEF CapturesFit
<1> QED BY <1>1, FailingFits

\* A frame with other contents, that goes back as far as the top one.
Plain(G) == Shaped(G) /\ Bears(G) /\ G.back_frame = F.back_frame
\* At an opcode, and at a label.
LEMMA PlainTop ==
  ASSUME IInv, Running
  PROVE  /\ Shaped(F) /\ Plain(F) /\ Plain(Advance(F)) /\ Plain(Step(F)) /\ Plain(Step(Advance(F)))
         /\ \A G : Plain(G) => Plain(Step(G))
<1>1. Shaped(F)
  BY TopFacts
<1> QED BY <1>1 DEF Plain, Bears, Shaped, FrameFields, Advance, Step

-----------------------------------------------------------------------------
(***************************************************************************)
(* The captures are left alone by characters, positions and verbs.         *)
(***************************************************************************)
\* One character.
LEMMA ItemFits == ASSUME IInv, CapturesFit, Item PROVE CapturesFit'
<1>1. Running /\ Settled
  BY DEF Item, Exec, Running, Settled
<1>2. FailAtEnd(F) \/ Continue(Step(Advance(F))) \/ RRETURN(Step(F), "NOMATCH")
  BY DEF Item
<1> QED BY <1>1, <1>2, PlainTop, FailingAtEndFits, GoingOnFits, GoingBackFits DEF Plain

\* A repeated character.
LEMMA RepeatFits == ASSUME IInv, CapturesFit, Repeat PROVE CapturesFit'
<1> DEFINE op == code[F.ecode]
           at(n) == [Advance(F) EXCEPT !.eptr = @ + n, !.fields.start = F.ecode,
                        !.fields.start_eptr = F.eptr + op.min,
                        !.fields.min = op.min, !.fields.max = op.max]
           least == RunLength(F.eptr, op.set, op.min)
           most  == RunLength(F.eptr, op.set, op.max)
           end   == F.eptr + most
           m == IF most < op.max /\ end >= mb.end_subject THEN NoteEnd(end) ELSE mb
<1>1. Running /\ Settled
  BY DEF Repeat, Exec, Running, Settled
<1>2. \A n : Plain(at(n))
  <2>1. Plain(Advance(F))
    BY <1>1, PlainTop
  <2> QED BY <2>1 DEF Plain, Bears, Shaped, FrameFields, NoLocals
<1>3. \/ \E n : FailAtEnd(at(n)) \/ RRETURN(at(n), "NOMATCH") \/ Continue(at(n)) \/ RepeatLazily(at(n))
      \/ Return(m, "PARTIAL") \/ \E n : ContinueWith(at(n), m) \/ RepeatGreedily(at(n), m)
  BY DEF Repeat
<1> HIDE DEF at, m
<1>4. ASSUME NEW n, FailAtEnd(at(n)) \/ RRETURN(at(n), "NOMATCH") PROVE CapturesFit'
  BY <1>1, <1>2, <1>4, FailingAtEndFits, GoingBackFits DEF Plain
<1>5. ASSUME NEW n, Continue(at(n)) \/ ContinueWith(at(n), m) PROVE CapturesFit'
  BY <1>1, <1>2, <1>5, GoingOnFits, GoingFits DEF Plain
<1>6. ASSUME NEW n, RepeatLazily(at(n)) PROVE CapturesFit'
  BY <1>1, <1>2, <1>6, TryingOnFits DEF RepeatLazily, Plain
<1>7. ASSUME NEW n, RepeatGreedily(at(n), m) PROVE CapturesFit'
  BY <1>1, <1>2, <1>7, GoingFits, TryingFits DEF RepeatGreedily, Plain
<1>8. CASE Return(m, "PARTIAL")
  BY <1>1, <1>8, ReturnFits
<1> QED BY <1>3, <1>4, <1>5, <1>6, <1>7, <1>8

\* It takes one more.
LEMMA RM25Fits == ASSUME IInv, CapturesFit, RM25 PROVE CapturesFit'
<1> DEFINE G == [F EXCEPT !.fields.min = @ + 1]
<1>1. Running
  BY DEF RM25, Back, Running
<1>2. Plain(G)
  BY <1>1, PlainTop DEF Plain, Bears, Shaped, FrameFields, NoLocals
<1> HIDE DEF G
<1>3. \/ RRETURNWith(F, mb, rrc)
      \/ Settled /\ (RRETURN(F, "NOMATCH") \/ FailAtEnd(F) \/ RRETURN(Step(F), "NOMATCH") \/ RepeatLazily(Step(G)))
  BY DEF RM25, Settled, RRETURN, RRETURNWith, G
<1>4. CASE RRETURNWith(F, mb, rrc)
  BY <1>1, <1>4, PassingFits
<1>5. CASE Settled /\ (RRETURN(F, "NOMATCH") \/ FailAtEnd(F) \/ RRETURN(Step(F), "NOMATCH"))
  BY <1>1, <1>5, PlainTop, FailingAtEndFits, GoingBackFits DEF Plain
<1>6. CASE Settled /\ RepeatLazily(Step(G))
  BY <1>1, <1>2, <1>6, PlainTop, TryingOnFits DEF RepeatLazily, Plain
<1> QED BY <1>3, <1>4, <1>5, <1>6

\* It gives one back.
LEMMA RM27Fits == ASSUME IInv, CapturesFit, RM27 PROVE CapturesFit'
<1> DEFINE G == [F EXCEPT !.eptr = @ - 1]
<1>1. Running
  BY DEF RM27, Back, Running
<1>2. Plain(G)
  BY <1>1, PlainTop DEF Plain, Bears, Shaped, FrameFields
<1> HIDE DEF G
<1>3. RRETURNWith(F, mb, rrc) \/ (Settled /\ RepeatGreedily(G, mb))
  BY DEF RM27, Settled, RRETURN, RRETURNWith, G
<1>4. CASE RRETURNWith(F, mb, rrc)
  BY <1>1, <1>4, PassingFits
<1>5. CASE Settled /\ RepeatGreedily(G, mb)
  BY <1>1, <1>2, <1>5, GoingFits, TryingFits DEF RepeatGreedily, Plain
<1> QED BY <1>3, <1>4, <1>5

\* A back reference that fails.
LEMMA FailingRefFits ==
  ASSUME IInv, CapturesFit, Running, Settled, NEW G, NEW n, Plain(G), FailRef(G, n)
  PROVE  CapturesFit'
<1> DEFINE H == IF RefRanOut(G, n) THEN [G EXCEPT !.eptr = mb.end_subject] ELSE G
<1>1. H.back_frame = F.back_frame
  BY DEF Plain, Shaped, FrameFields
<1>2. FailAtEnd(H) \/ RRETURN(H, "NOMATCH")
  BY DEF FailRef
<1> HIDE DEF H
<1> QED BY <1>1, <1>2, FailingAtEndFits, GoingBackFits

\* A back reference and its repeats.
LEMMA RefFits == ASSUME IInv, CapturesFit, Ref PROVE CapturesFit'
<1> DEFINE op == code[F.ecode]
           n == op.num
           length == F.ovector[n][2] - F.ovector[n][1]
           at(k) == [Advance(F) EXCEPT !.eptr = @ + k * length, !.fields.start = F.ecode,
                        !.fields.start_eptr = F.eptr + op.min * length,
                        !.fields.min = op.min, !.fields.max = op.max]
           most  == CopiesOf(F, n, op.max)
           ranOut == most < op.max /\ RefRanOut(at(most), n) /\ mb.end_subject > mb.start_used_ptr
           m == [mb EXCEPT !.hitend = @ \/ ranOut]
<1>1. Running /\ Settled
  BY DEF Ref, Exec, Running, Settled
<1>2. \A k : Plain(at(k))
  <2>1. Plain(Advance(F))
    BY <1>1, PlainTop
  <2> QED BY <2>1 DEF Plain, Bears, Shaped, FrameFields, NoLocals
<1>3. \/ Continue(Advance(F)) \/ FailRef(F, n) \/ Return(m, "PARTIAL")
      \/ \E k : \/ FailRef(at(k), n) \/ Continue(at(k))
                \/ RMATCH(at(k), F.ecode + 1, "RM20", NOGROUP)
                \/ ContinueWith(at(k), m)
                \/ RMATCHWith(at(k), m, F.ecode + 1, "RM21", NOGROUP)
  BY DEF Ref
<1> HIDE DEF at, m, n
<1>4. CASE Continue(Advance(F))
  BY <1>1, <1>4, PlainTop, GoingOnFits DEF Plain
<1>5. CASE FailRef(F, n)
  BY <1>1, <1>5, PlainTop, FailingRefFits
<1>6. CASE Return(m, "PARTIAL")
  BY <1>1, <1>6, ReturnFits
<1>7. ASSUME NEW k, FailRef(at(k), n) PROVE CapturesFit'
  BY <1>1, <1>2, <1>7, FailingRefFits
<1>8. ASSUME NEW k, Continue(at(k)) \/ ContinueWith(at(k), m) PROVE CapturesFit'
  BY <1>1, <1>2, <1>8, GoingOnFits, GoingFits DEF Plain
<1>9. ASSUME NEW k, RMATCH(at(k), F.ecode + 1, "RM20", NOGROUP) PROVE CapturesFit'
  BY <1>1, <1>2, <1>9, TryingOnFits DEF Plain
<1>10. ASSUME NEW k, RMATCHWith(at(k), m, F.ecode + 1, "RM21", NOGROUP) PROVE CapturesFit'
  BY <1>1, <1>2, <1>10, TryingFits DEF Plain
<1> QED BY <1>3, <1>4, <1>5, <1>6, <1>7, <1>8, <1>9, <1>10

\* One copy more.
LEMMA RM20Fits == ASSUME IInv, CapturesFit, RM20 PROVE CapturesFit'
<1> DEFINE G == [F EXCEPT !.fields.min = @ + 1]
           H == [G EXCEPT !.eptr = @ + CopyLength]
<1>1. Running
  BY DEF RM20, Back, Running
<1>2. Plain(H)
  BY <1>1, PlainTop DEF Plain, Bears, Shaped, FrameFields, NoLocals
<1> HIDE DEF H
<1>3. \/ RRETURNWith(F, mb, rrc)
      \/ Settled /\ (RRETURN(F, "NOMATCH") \/ FailRef(F, RefGroup) \/ RMATCH(H, F.ecode, "RM20", NOGROUP))
  BY DEF RM20, Settled, RRETURN, RRETURNWith, H
<1>4. CASE RRETURNWith(F, mb, rrc)
  BY <1>1, <1>4, PassingFits
<1>5. CASE Settled /\ (RRETURN(F, "NOMATCH") \/ FailRef(F, RefGroup))
  BY <1>1, <1>5, PlainTop, GoingBackFits, FailingRefFits DEF Plain
<1>6. CASE Settled /\ RMATCH(H, F.ecode, "RM20", NOGROUP)
  BY <1>1, <1>2, <1>6, TryingOnFits DEF Plain
<1> QED BY <1>3, <1>4, <1>5, <1>6

\* One copy less.
LEMMA RM21Fits == ASSUME IInv, CapturesFit, RM21 PROVE CapturesFit'
<1> DEFINE G == [F EXCEPT !.eptr = @ - CopyLength]
<1>1. Running
  BY DEF RM21, Back, Running
<1>2. Plain(G)
  BY <1>1, PlainTop DEF Plain, Bears, Shaped, FrameFields
<1> HIDE DEF G
<1>3. \/ RRETURNWith(F, mb, rrc)
      \/ Settled /\ (RMATCH(G, F.ecode, "RM21", NOGROUP) \/ RRETURN(G, "NOMATCH"))
  BY DEF RM21, Settled, RRETURN, RRETURNWith, G
<1>4. CASE RRETURNWith(F, mb, rrc)
  BY <1>1, <1>4, PassingFits
<1>5. CASE Settled /\ (RMATCH(G, F.ecode, "RM21", NOGROUP) \/ RRETURN(G, "NOMATCH"))
  BY <1>1, <1>2, <1>5, TryingOnFits, GoingBackFits DEF Plain
<1> QED BY <1>3, <1>4, <1>5

\* The start of the subject or of a line.
LEMMA CircFits == ASSUME IInv, CapturesFit, Circ PROVE CapturesFit'
<1>1. Running /\ Settled
  BY DEF Circ, Exec, Running, Settled
<1>2. Continue(Advance(F)) \/ RRETURN(F, "NOMATCH")
  BY DEF Circ
<1> QED BY <1>1, <1>2, PlainTop, GoingOnFits, GoingBackFits DEF Plain

\* The end of the subject or of a line.
LEMMA DollFits == ASSUME IInv, CapturesFit, Doll \/ Dollm PROVE CapturesFit'
<1> DEFINE m == [mb EXCEPT !.hitend = @ \/ options.partial # 0]
<1>1. Running /\ Settled
  BY DEF Doll, Dollm, Exec, Running, Settled
<1>2. \/ RRETURN(F, "NOMATCH") \/ Continue(Advance(F))
      \/ \E u : Return(u, "PARTIAL") \/ ContinueWith(Advance(F), u)
  <2>1. CASE Doll
    <3>1. RRETURN(F, "NOMATCH") \/ Return(m, "PARTIAL") \/ ContinueWith(Advance(F), m)
      BY <2>1 DEF Doll
    <3> QED BY <3>1
  <2>2. CASE Dollm
    BY <2>2 DEF Dollm
  <2> QED BY <2>1, <2>2
<1>3. CASE RRETURN(F, "NOMATCH")
  BY <1>1, <1>3, PlainTop, GoingBackFits DEF Plain
<1>4. CASE Continue(Advance(F))
  BY <1>1, <1>4, PlainTop, GoingOnFits DEF Plain
<1>5. ASSUME NEW u, Return(u, "PARTIAL") PROVE CapturesFit'
  BY <1>1, <1>5, ReturnFits
<1>6. ASSUME NEW u, ContinueWith(Advance(F), u) PROVE CapturesFit'
  BY <1>1, <1>6, PlainTop, GoingFits DEF Plain
<1> QED BY <1>2, <1>3, <1>4, <1>5, <1>6

\* A word boundary.
LEMMA WordBoundaryFits == ASSUME IInv, CapturesFit, WordBoundary PROVE CapturesFit'
<1> DEFINE before == IF F.eptr = 0 THEN mb ELSE [mb EXCEPT !.start_used_ptr = Min({@, F.eptr - 1})]
           hits == AtEnd(F) /\ options.partial # 0
                   /\ (F.eptr > before.start_used_ptr \/ AllowEmptyPartial)
           m == IF AtEnd(F) THEN [before EXCEPT !.hitend = @ \/ hits] ELSE Used(before, F.eptr + 1)
<1>1. Running /\ Settled
  BY DEF WordBoundary, Exec, Running, Settled
<1>2. Return(m, "PARTIAL") \/ ContinueWith(Advance(F), m) \/ RRETURNWith(Advance(F), m, "NOMATCH")
  BY DEF WordBoundary
<1> HIDE DEF m
<1>3. CASE Return(m, "PARTIAL")
  BY <1>1, <1>3, ReturnFits
<1>4. CASE ContinueWith(Advance(F), m) \/ RRETURNWith(Advance(F), m, "NOMATCH")
  BY <1>1, <1>4, PlainTop, GoingFits, FailingFits DEF Plain
<1> QED BY <1>2, <1>3, <1>4

\* \K.
LEMMA SetSomFits == ASSUME IInv, CapturesFit, SetSom PROVE CapturesFit'
<1> DEFINE G == [Advance(F) EXCEPT !.start_match = F.eptr]
<1>1. Running /\ Settled
  BY DEF SetSom, Exec, Running, Settled
<1>2. Plain(G)
  BY <1>1, PlainTop DEF Plain, Bears, Shaped, FrameFields, Advance
<1>3. Continue(G)
  BY DEF SetSom
<1> HIDE DEF G
<1> QED BY <1>1, <1>2, <1>3, GoingOnFits DEF Plain

\* Back by a fixed length, in a lookbehind.
LEMMA MoveBackFits == ASSUME IInv, CapturesFit, MoveBack PROVE CapturesFit'
<1> DEFINE n == code[F.ecode].num
           G == [Advance(F) EXCEPT !.eptr = @ - n]
           m == [mb EXCEPT !.start_used_ptr = Min({@, G.eptr})]
<1>1. Running /\ Settled
  BY DEF MoveBack, Exec, Running, Settled
<1>2. Plain(G)
  BY <1>1, PlainTop DEF Plain, Bears, Shaped, FrameFields, Advance
<1>3. RRETURN(F, "NOMATCH") \/ ContinueWith(G, m)
  BY DEF MoveBack
<1> HIDE DEF G, m
<1> QED BY <1>1, <1>2, <1>3, PlainTop, GoingBackFits, GoingFits DEF Plain

\* Back by the most a lookbehind of variable length allows.
LEMMA MoveBackAtMostFits == ASSUME IInv, CapturesFit, MoveBackAtMost PROVE CapturesFit'
<1> DEFINE op == code[F.ecode]
           max == Min({op.max, F.eptr})
           G == [F EXCEPT !.eptr = @ - max, !.fields.min = op.min, !.fields.max = max]
<1>1. Running /\ Settled
  BY DEF MoveBackAtMost, Exec, Running, Settled
<1>2. Plain(G)
  BY <1>1, PlainTop DEF Plain, Bears, Shaped, FrameFields, NoLocals
<1>3. RRETURN(F, "NOMATCH") \/ RMATCH(G, F.ecode + 1, "RM37", NOGROUP)
  BY DEF MoveBackAtMost
<1> HIDE DEF G
<1> QED BY <1>1, <1>2, <1>3, PlainTop, GoingBackFits, TryingOnFits DEF Plain

\* Such a lookbehind goes back one less.
LEMMA RM37Fits == ASSUME IInv, CapturesFit, RM37 PROVE CapturesFit'
<1> DEFINE G == [F EXCEPT !.eptr = @ + 1, !.fields.max = @ - 1]
<1>1. Running
  BY DEF RM37, Back, Running
<1>2. Plain(G)
  BY <1>1, PlainTop DEF Plain, Bears, Shaped, FrameFields, NoLocals
<1> HIDE DEF G
<1>3. \/ RRETURNWith(F, mb, rrc)
      \/ Settled /\ (RRETURN(F, "NOMATCH") \/ RMATCH(G, F.ecode + 1, "RM37", NOGROUP))
  BY DEF RM37, Settled, RRETURN, RRETURNWith, G
<1>4. CASE RRETURNWith(F, mb, rrc)
  BY <1>1, <1>4, PassingFits
<1>5. CASE Settled /\ RRETURN(F, "NOMATCH")
  BY <1>1, <1>5, PlainTop, GoingBackFits DEF Plain
<1>6. CASE Settled /\ RMATCH(G, F.ecode + 1, "RM37", NOGROUP)
  BY <1>1, <1>2, <1>6, TryingOnFits DEF Plain
<1> QED BY <1>3, <1>4, <1>5, <1>6

\* A mark, with a frame for what follows.
LEMMA MarkFits == ASSUME IInv, CapturesFit, Mark PROVE CapturesFit'
<1> DEFINE name == code[F.ecode].name
           G == MarkedFrame(F, name)
           m == Marked(mb, name)
<1>1. Running /\ Settled
  BY DEF Mark, Exec, Running, Settled
<1>2. Plain(G)
  BY <1>1, PlainTop DEF Plain, Bears, Shaped, FrameFields, MarkedFrame
<1>3. RMATCHWith(G, m, F.ecode + 1, "RM12", NOGROUP)
  BY DEF Mark
<1> HIDE DEF G, m
<1> QED BY <1>1, <1>2, <1>3, TryingFits DEF Plain

\* Back at a mark.
LEMMA RM12Fits == ASSUME IInv, CapturesFit, RM12 PROVE CapturesFit'
<1> DEFINE m == [mb EXCEPT !.verb_skip_ptr = F.eptr]
<1>1. Running
  BY DEF RM12, Back, Running
<1>2. RRETURNWith(F, mb, rrc) \/ (Settled /\ RRETURNWith(F, m, "SKIP"))
  BY DEF RM12, Settled, RRETURN, RRETURNWith
<1> HIDE DEF m
<1> QED BY <1>1, <1>2, PassingFits, FailingFits

\* A verb with a frame for what follows.
LEMMA BacktrackVerbFits == ASSUME IInv, CapturesFit, BacktrackVerb PROVE CapturesFit'
<1> DEFINE name == code[F.ecode].name
           G == MarkedFrame(F, name)
           m == Marked(mb, name)
<1>1. Running /\ Settled /\ code[F.ecode].op \in BacktrackVerbs
  BY DEF BacktrackVerb, Exec, Running, Settled, Op, BacktrackVerbs
<1>2. Plain(G) /\ G.ecode = F.ecode
  BY <1>1, PlainTop DEF Plain, Bears, Shaped, FrameFields, MarkedFrame
<1>3. RMATCHWith(G, m, F.ecode + 1, "RM13", NOGROUP)
  BY DEF BacktrackVerb
<1> HIDE DEF G, m
<1> QED BY <1>1, <1>2, <1>3, TryingFits DEF Plain

\* A skip to a mark.
LEMMA SkipArgFits == ASSUME IInv, CapturesFit, SkipArg PROVE CapturesFit'
<1> DEFINE m == [mb EXCEPT !.skip_arg_count = @ + 1]
<1>1. Running /\ Settled /\ code[F.ecode].op \in BacktrackVerbs
  BY DEF SkipArg, Exec, Running, Settled, Op, BacktrackVerbs
<1>2. ContinueWith(Advance(F), m) \/ RMATCHWith(F, m, F.ecode + 1, "RM13", NOGROUP)
  BY DEF SkipArg
<1> HIDE DEF m
<1>3. CASE ContinueWith(Advance(F), m)
  BY <1>1, <1>3, PlainTop, GoingFits DEF Plain
<1>4. CASE RMATCHWith(F, m, F.ecode + 1, "RM13", NOGROUP)
  BY <1>1, <1>4, PlainTop, TryingFits DEF Plain
<1> QED BY <1>2, <1>3, <1>4

\* A verb is triggered: a code that is none of the two which hand captures on.
LEMMA VerbTriggeredFits == ASSUME IInv, CapturesFit, VerbTriggered PROVE CapturesFit'
<1> DEFINE verb == Op
           m == [mb EXCEPT !.verb_current_recurse = F.current_recurse,
                           !.verb_skip_ptr  = IF verb = "SKIP" THEN F.eptr ELSE @,
                           !.verb_skip_name = IF verb = "SKIP_ARG" THEN code[F.ecode].name ELSE @,
                           !.verb_ecode_ptr = IF verb = "THEN" THEN F.ecode ELSE @]
<1>1. Running /\ pc = "return" /\ F.return_id = "RM13"
  BY DEF VerbTriggered, Back, Running
<1>2. NoAssertAccept => verb \in BacktrackVerbs
  <2>1. Len(frames) \in 1..Len(frames) /\ F = frames[Len(frames)]
    BY <1>1, TopFacts
  <2> QED BY <1>1, <2>1 DEF CapturesFit, WaitersFit, Op
<1>3. RRETURNWith(F, mb, rrc) \/ (Settled /\ RRETURNWith(F, m, verb))
  BY DEF VerbTriggered, Settled, RRETURN, RRETURNWith
<1> HIDE DEF m, verb
<1> QED BY <1>1, <1>2, <1>3, PassingFits, FailingFits DEF BacktrackVerbs

\* A branch fails.
LEMMA FailFits == ASSUME IInv, CapturesFit, Fail PROVE CapturesFit'
<1>1. Running /\ Settled
  BY DEF Fail, Exec, Running, Settled
<1> QED BY <1>1, PlainTop, GoingBackFits DEF Fail, Plain

-----------------------------------------------------------------------------
(***************************************************************************)
(* Nor do groups change captures before their kets.                        *)
(***************************************************************************)
\* The frame at another place in the code.
LEMMA PlainElsewhere ==
  ASSUME NEW G, Plain(G), NEW i
  PROVE  Plain([G EXCEPT !.ecode = i])
BY DEF Plain, Bears, Shaped, FrameFields

\* And with its place in a group set.
LEMMA PlainStart ==
  ASSUME NEW G, Plain(G), NEW i
  PROVE  /\ Plain([G EXCEPT !.fields.start = i]) /\ Plain([G EXCEPT !.fields.start_eptr = i])
         /\ Plain([G EXCEPT !.fields.frame_type = i])
BY DEF Plain, Bears, Shaped, FrameFields, NoLocals

\* A bracket that may be left out, or is.
LEMMA LeavingOutFits ==
  ASSUME IInv, CapturesFit, BraZero \/ BraMinZero \/ SkipZero PROVE CapturesFit'
<1>1. Running /\ Settled
  BY DEF BraZero, BraMinZero, SkipZero, Exec, Running, Settled
<1>2. CASE BraZero
  <2>1. RMATCH(Advance(F), F.ecode + 1, "RM9", NOGROUP)
    BY <1>2 DEF BraZero
  <2> QED BY <1>1, <2>1, PlainTop, TryingOnFits DEF Plain
<1>3. CASE BraMinZero
  <2>1. RMATCH(Advance(F), AfterKet(F.ecode + 1), "RM10", NOGROUP)
    BY <1>3 DEF BraMinZero
  <2> QED BY <1>1, <2>1, PlainTop, TryingOnFits DEF Plain
<1>4. CASE SkipZero
  <2> DEFINE G == [F EXCEPT !.ecode = AfterKet(F.ecode + 1)]
  <2>1. Plain(G)
    BY <1>1, PlainTop, PlainElsewhere
  <2>2. Continue(G)
    BY <1>4 DEF SkipZero
  <2> HIDE DEF G
  <2> QED BY <1>1, <2>1, <2>2, GoingOnFits DEF Plain
<1> QED BY <1>2, <1>3, <1>4

\* What was tried first failed.
LEMMA RM9Fits == ASSUME IInv, CapturesFit, RM9 \/ RM10 PROVE CapturesFit'
<1> DEFINE G == [F EXCEPT !.ecode = AfterKet(F.ecode)]
<1>1. Running
  BY DEF RM9, RM10, Back, Running
<1>2. Plain(G) /\ Plain(F)
  BY <1>1, PlainTop, PlainElsewhere
<1>3. RRETURNWith(F, mb, rrc) \/ (Settled /\ (Continue(G) \/ Continue(F)))
  BY DEF RM9, RM10, Settled, RRETURN, RRETURNWith
<1> HIDE DEF G
<1> QED BY <1>1, <1>2, <1>3, PassingFits, GoingOnFits DEF Plain

\* A run of a possessive group.
LEMMA TryPossessiveFits ==
  ASSUME IInv, CapturesFit, Running, Settled, NEW G, Plain(G), TryPossessive(G)
  PROVE  CapturesFit'
<1> DEFINE H == [G EXCEPT !.fields.start_eptr = G.eptr]
<1>1. Plain(H)
  BY PlainStart
<1>2. RMATCH(H, G.ecode + 1, "RM8", G.fields.frame_type)
  BY DEF TryPossessive
<1> HIDE DEF H
<1> QED BY <1>1, <1>2, TryingOnFits DEF Plain

\* The first one.
LEMMA BraPosFits == ASSUME IInv, CapturesFit, BraPos PROVE CapturesFit'
<1> DEFINE bra == IF Op = "BRAPOSZERO" THEN F.ecode + 1 ELSE F.ecode
           type == IF code[bra].op \in CaptureBrackets THEN CAPTURE(code[bra].num) ELSE NOCAPTURE
           G == [F EXCEPT !.ecode = bra, !.fields.frame_type = type, !.fields.start = bra,
                          !.fields.matched_once = FALSE, !.fields.zero_allowed = Op = "BRAPOSZERO"]
<1>1. Running /\ Settled
  BY DEF BraPos, Exec, Running, Settled
<1>2. TryPossessive(G)
  BY DEF BraPos
<1> HIDE DEF bra, type
<1>3. Plain(G)
  BY <1>1, PlainTop DEF Plain, Bears, Shaped, FrameFields, NoLocals
<1> HIDE DEF G
<1> QED BY <1>1, <1>2, <1>3, TryPossessiveFits

\* It came to its end, with captures for this frame, or a branch of it failed.
LEMMA RM8Fits == ASSUME IInv, CapturesFit, RM8 PROVE CapturesFit'
<1> DEFINE next == NextAlt(F.ecode)
           G == [F EXCEPT !.fields.matched_once = TRUE, !.ecode = F.fields.start]
           H == [G EXCEPT !.ecode = AfterKet(F.ecode)]
           at(i) == [F EXCEPT !.ecode = i]
<1>1. Running /\ Settled
  BY DEF RM8, Back, Running, Settled
<1>2. Plain(G)
  BY <1>1, PlainTop DEF Plain, Bears, Shaped, FrameFields, NoLocals
<1>3. Plain(H)
  BY <1>2, PlainElsewhere
<1>4. \A i : Plain(at(i))
  BY <1>1, PlainTop, PlainElsewhere
<1>5. \/ Continue(H) \/ TryPossessive(G) \/ RRETURN(F, rrc) \/ TryPossessive(at(next))
      \/ Continue(at(next + 1)) \/ RRETURN(at(next), "NOMATCH")
  BY DEF RM8
<1> HIDE DEF G, H, at, next
<1>6. CASE Continue(H) \/ Continue(at(next + 1))
  BY <1>1, <1>3, <1>4, <1>6, GoingOnFits DEF Plain
<1>7. CASE TryPossessive(G) \/ TryPossessive(at(next))
  BY <1>1, <1>2, <1>4, <1>7, TryPossessiveFits
<1>8. CASE RRETURN(F, rrc)
  BY <1>1, <1>8, PassingFits DEF RRETURN, RRETURNWith
<1>9. CASE RRETURN(at(next), "NOMATCH")
  BY <1>1, <1>4, <1>9, GoingBackFits DEF Plain
<1> QED BY <1>5, <1>6, <1>7, <1>8, <1>9

\* A branch of a group, with a frame or without.
LEMMA GroupBranchFits ==
  ASSUME IInv, CapturesFit, Running, Settled, NEW G, Plain(G), PlainBranch(G) \/ GroupBranch(G)
  PROVE  CapturesFit'
<1> DEFINE H == [G EXCEPT !.ecode = NextAlt(G.ecode)]
<1>1. Plain(H) /\ Plain(Advance(G))
  BY PlainElsewhere DEF Advance
<1>2. \/ RMATCH(H, G.ecode + 1, "RM1", NOGROUP) \/ Continue(Advance(G))
      \/ RMATCH(G, G.ecode + 1, "RM2", G.fields.frame_type)
  BY DEF PlainBranch, GroupBranch
<1> HIDE DEF H
<1>3. CASE Continue(Advance(G))
  BY <1>1, <1>3, GoingOnFits DEF Plain
<1>4. CASE RMATCH(H, G.ecode + 1, "RM1", NOGROUP) \/ RMATCH(G, G.ecode + 1, "RM2", G.fields.frame_type)
  BY <1>1, <1>4, TryingOnFits DEF Plain
<1> QED BY <1>2, <1>3, <1>4

\* The first one.
LEMMA BraFits == ASSUME IInv, CapturesFit, Bra \/ CaptureBra \/ Once PROVE CapturesFit'
<1> DEFINE at(type) == [F EXCEPT !.fields.frame_type = type]
<1>1. Running /\ Settled
  BY DEF Bra, CaptureBra, Once, Exec, Running, Settled
<1>2. \A type : Plain(at(type))
  BY <1>1, PlainTop, PlainStart
<1>3. PlainBranch(F) \/ \E type : GroupBranch(at(type))
  BY DEF Bra, CaptureBra, Once
<1> HIDE DEF at
<1> QED BY <1>1, <1>2, <1>3, PlainTop, GroupBranchFits

\* The next one.
LEMMA RM1Fits == ASSUME IInv, CapturesFit, RM1 PROVE CapturesFit'
<1>1. Running
  BY DEF RM1, Back, Running
<1>2. RRETURNWith(F, mb, rrc) \/ (Settled /\ PlainBranch(F))
  BY DEF RM1, Settled, RRETURN, RRETURNWith
<1> QED BY <1>1, <1>2, PlainTop, PassingFits, GroupBranchFits

\* The next one of a group that has a frame.
LEMMA RM2Fits == ASSUME IInv, CapturesFit, RM2 PROVE CapturesFit'
<1> DEFINE next == NextAlt(F.ecode)
           G == [F EXCEPT !.ecode = next]
<1>1. Running
  BY DEF RM2, Back, Running
<1>2. Plain(G)
  BY <1>1, PlainTop, PlainElsewhere
<1>3. RRETURNWith(F, mb, rrc) \/ (Settled /\ (GroupBranch(G) \/ RRETURN(G, "NOMATCH")))
  BY DEF RM2, Settled, RRETURN, RRETURNWith, BranchFailed, ThenEndsBranch
<1> HIDE DEF G, next
<1>4. CASE RRETURNWith(F, mb, rrc)
  BY <1>1, <1>4, PassingFits
<1>5. CASE Settled /\ GroupBranch(G)
  BY <1>1, <1>2, <1>5, GroupBranchFits
<1>6. CASE Settled /\ RRETURN(G, "NOMATCH")
  BY <1>1, <1>2, <1>6, GoingBackFits DEF Plain
<1> QED BY <1>3, <1>4, <1>5, <1>6

\* A branch of a group that is called.
LEMMA RecurseBranchFits ==
  ASSUME IInv, CapturesFit, Running, Settled, NEW G, Plain(G), NEW start, RecurseBranch(G, start)
  PROVE  CapturesFit'
<1> DEFINE H == [G EXCEPT !.fields.start = start]
<1>1. Plain(H)
  BY PlainStart
<1>2. RMATCH(H, start + 1, "RM11", G.fields.frame_type)
  BY DEF RecurseBranch
<1> HIDE DEF H
<1> QED BY <1>1, <1>2, TryingOnFits DEF Plain

\* The first one.
LEMMA RecursionFits == ASSUME IInv, CapturesFit, Recursion PROVE CapturesFit'
<1> DEFINE n == code[F.ecode].num
           G == [F EXCEPT !.recurse_last_used = mb.last_used_ptr, !.fields.frame_type = RECURSE(n)]
<1>1. Running /\ Settled
  BY DEF Recursion, Exec, Running, Settled
<1>2. Return(mb, "RECURSELOOP") \/ RecurseBranch(G, GroupStart(code, n))
  BY DEF Recursion
<1> HIDE DEF n
<1>3. Plain(G)
  BY <1>1, PlainTop DEF Plain, Bears, Shaped, FrameFields, NoLocals
<1> HIDE DEF G
<1> QED BY <1>1, <1>2, <1>3, ReturnFits, RecurseBranchFits

\* The next one.
LEMMA RM11Fits == ASSUME IInv, CapturesFit, RM11 PROVE CapturesFit'
<1> DEFINE next == NextAlt(F.fields.start)
           G == [F EXCEPT !.fields.start = next]
<1>1. Running
  BY DEF RM11, Back, Running
<1>2. Plain(G) /\ Plain(F)
  BY <1>1, PlainTop, PlainStart
<1>3. \/ RRETURNWith(F, mb, rrc)
      \/ (Settled /\ (RRETURN(F, "NOMATCH") \/ RecurseBranch(F, next) \/ RRETURN(G, "NOMATCH")))
  BY DEF RM11, Settled, RRETURN, RRETURNWith, BacktrackVerbs
<1> HIDE DEF G, next
<1>4. CASE RRETURNWith(F, mb, rrc)
  BY <1>1, <1>4, PassingFits
<1>5. CASE Settled /\ (RRETURN(F, "NOMATCH") \/ RRETURN(G, "NOMATCH"))
  BY <1>1, <1>2, <1>5, GoingBackFits DEF Plain
<1>6. CASE Settled /\ RecurseBranch(F, next)
  BY <1>1, <1>2, <1>6, RecurseBranchFits
<1> QED BY <1>3, <1>4, <1>5, <1>6

\* A branch of an assertion.
LEMMA AssertBranchFits ==
  ASSUME IInv, CapturesFit, Running, Settled, NEW G, Plain(G), NEW rb, rb # "RM13", AssertBranch(G, rb)
  PROVE  CapturesFit'
BY TryingOnFits DEF AssertBranch, Plain

\* The first one.
LEMMA AssertionFits == ASSUME IInv, CapturesFit, Assertion \/ NegativeAssertion PROVE CapturesFit'
<1>1. Running /\ Settled
  BY DEF Assertion, NegativeAssertion, Exec, Running, Settled
<1>2. AssertBranch(F, "RM3") \/ AssertBranch(F, "RM4")
  BY DEF Assertion, NegativeAssertion
<1> QED BY <1>1, <1>2, PlainTop, AssertBranchFits

\* The next one; without *ACCEPT in an assertion no frame hands captures to this one.
LEMMA RM3Fits == ASSUME IInv, CapturesFit, RM3 PROVE CapturesFit'
<1> DEFINE next == NextAlt(F.ecode)
           at(i) == [F EXCEPT !.ecode = i]
           A == [Accepted(F) EXCEPT !.ecode = AfterKet(F.ecode)]
<1>1. Running
  BY DEF RM3, Back, Running
<1>2. \A i : Plain(at(i))
  BY <1>1, PlainTop, PlainElsewhere
<1>3. \/ RRETURNWith(F, mb, rrc)
      \/ (Settled /\ rrc = "ACCEPT" /\ Continue(A))
      \/ (Settled /\ (AssertBranch(at(next), "RM3") \/ RRETURN(at(next), "NOMATCH")))
  BY DEF RM3, Settled, RRETURN, RRETURNWith
<1> HIDE DEF at, A, next
<1>4. CASE RRETURNWith(F, mb, rrc)
  BY <1>1, <1>4, PassingFits
<1>5. CASE Settled /\ rrc = "ACCEPT" /\ Continue(A)
  <2>1. ~NoAssertAccept
    BY <1>5 DEF CapturesFit
  <2> QED BY <1>1, <1>5, <2>1, GoingOnFits
<1>6. CASE Settled /\ AssertBranch(at(next), "RM3")
  BY <1>1, <1>2, <1>6, AssertBranchFits
<1>7. CASE Settled /\ RRETURN(at(next), "NOMATCH")
  BY <1>1, <1>2, <1>7, GoingBackFits DEF Plain
<1> QED BY <1>3, <1>4, <1>5, <1>6, <1>7

\* The next one of a negative assertion.
LEMMA RM4Fits == ASSUME IInv, CapturesFit, RM4 PROVE CapturesFit'
<1> DEFINE next == NextAlt(F.ecode)
           at(i) == [F EXCEPT !.ecode = i]
           G == Advance(at(next))
<1>1. Running
  BY DEF RM4, Back, Running
<1>2. (\A i : Plain(at(i)) /\ at(i).ecode = i) /\ Plain(G)
  <2>1. \A i : Plain(at(i)) /\ at(i).ecode = i
    BY <1>1, PlainTop, PlainElsewhere DEF Shaped, FrameFields
  <2> QED BY <2>1, PlainElsewhere DEF Advance
<1>3. \/ RRETURNWith(F, mb, rrc)
      \/ (Settled /\ (\/ RRETURN(F, "NOMATCH") \/ AssertBranch(at(next), "RM4")
                      \/ Continue(G) \/ Continue(at(AfterKet(F.ecode)))))
  <2>1. at(next).ecode = next
    BY <1>2
  <2> HIDE DEF next
  <2>2. CASE rrc \in {"ACCEPT", "MATCH"}
    BY <2>2 DEF RM4, Settled
  <2>3. CASE rrc \in {"NOMATCH", "THEN"}
    BY <2>1, <2>3 DEF RM4, next, Settled
  <2>4. CASE rrc \in {"COMMIT", "SKIP", "PRUNE"}
    BY <2>4 DEF RM4, Settled
  <2>5. CASE rrc \notin {"ACCEPT", "MATCH", "NOMATCH", "THEN", "COMMIT", "SKIP", "PRUNE"}
    BY <2>5 DEF RM4, RRETURN, RRETURNWith
  <2> QED BY <2>2, <2>3, <2>4, <2>5
<1> HIDE DEF at, G, next
<1>4. CASE RRETURNWith(F, mb, rrc)
  BY <1>1, <1>4, PassingFits
<1>5. CASE Settled /\ RRETURN(F, "NOMATCH")
  BY <1>1, <1>5, PlainTop, GoingBackFits DEF Plain
<1>6. CASE Settled /\ AssertBranch(at(next), "RM4")
  BY <1>1, <1>2, <1>6, AssertBranchFits
<1>7. CASE Settled /\ (Continue(G) \/ Continue(at(AfterKet(F.ecode))))
  BY <1>1, <1>2, <1>7, GoingOnFits DEF Plain
<1> QED BY <1>3, <1>4, <1>5, <1>6, <1>7

\* A scan of substrings.
LEMMA ScsFits == ASSUME IInv, CapturesFit, Scs PROVE CapturesFit'
<1> DEFINE list == ReturnList(code, F.ecode + 1)
           set  == {i \in list : IsSet(F, code[i].num)}
           sub  == F.ovector[code[Min(set)].num]
           G == [F EXCEPT !.eptr = sub[1], !.fields.saved_end = mb.end_subject,
                          !.fields.true_end_extra = mb.true_end_subject - mb.end_subject,
                          !.fields.start_eptr = F.eptr, !.fields.saved_eol = mb.noteol]
           m == [mb EXCEPT !.end_subject = sub[2], !.true_end_subject = sub[2], !.noteol = FALSE]
<1>1. Running /\ Settled
  BY DEF Scs, Exec, Running, Settled
<1>2. RRETURN(F, "NOMATCH") \/ ScsBranch(G, m)
  BY DEF Scs
<1> HIDE DEF sub
<1>3. Plain(G)
  BY <1>1, PlainTop DEF Plain, Bears, Shaped, FrameFields, NoLocals
<1> HIDE DEF G, m
<1>4. CASE RRETURN(F, "NOMATCH")
  BY <1>1, <1>4, PlainTop, GoingBackFits DEF Plain
<1>5. CASE ScsBranch(G, m)
  BY <1>1, <1>3, <1>5, TryingFits DEF ScsBranch, Plain
<1> QED BY <1>2, <1>4, <1>5

\* A branch of it failed.
LEMMA RM38Fits == ASSUME IInv, CapturesFit, RM38 PROVE CapturesFit'
<1> DEFINE next == NextAlt(F.ecode)
           m == OutsideScs(F, mb)
           G == [F EXCEPT !.ecode = next]
           A == [Accepted(F) EXCEPT !.ecode = AfterKet(F.ecode), !.eptr = F.fields.start_eptr]
<1>1. Running
  BY DEF RM38, Back, Running
<1>2. Plain(G)
  BY <1>1, PlainTop, PlainElsewhere
<1>3. \/ RRETURNWith(F, m, rrc)
      \/ (Settled /\ rrc = "ACCEPT" /\ ContinueWith(A, m))
      \/ (Settled /\ (ScsBranch(G, mb) \/ RRETURNWith(G, m, "NOMATCH")))
  BY DEF RM38, Settled
<1> HIDE DEF G, A, m, next
<1>4. CASE RRETURNWith(F, m, rrc)
  BY <1>1, <1>4, PassingFits
<1>5. CASE Settled /\ rrc = "ACCEPT" /\ ContinueWith(A, m)
  <2>1. ~NoAssertAccept
    BY <1>5 DEF CapturesFit
  <2> QED BY <1>1, <1>5, <2>1, GoingFits
<1>6. CASE Settled /\ ScsBranch(G, mb)
  BY <1>1, <1>2, <1>6, TryingFits DEF ScsBranch, Plain
<1>7. CASE Settled /\ RRETURNWith(G, m, "NOMATCH")
  BY <1>1, <1>2, <1>7, FailingFits DEF Plain
<1> QED BY <1>3, <1>4, <1>5, <1>6, <1>7

\* What follows the scan, or a branch of a conditional group, failed.
LEMMA RM39Fits == ASSUME IInv, CapturesFit, RM39 \/ RM35 PROVE CapturesFit'
<1> DEFINE m == [mb EXCEPT !.end_subject = F.fields.saved_end, !.true_end_subject = F.fields.saved_end]
<1>1. Running
  BY DEF RM39, RM35, Back, Running
<1>2. RRETURNWith(F, m, rrc) \/ RRETURNWith(F, mb, rrc)
  BY DEF RM39, RM35, RRETURN, RRETURNWith
<1> HIDE DEF m
<1> QED BY <1>1, <1>2, PassingFits

\* A branch of a conditional group.
LEMMA ChooseBranchFits ==
  ASSUME IInv, CapturesFit, Running, Settled, NEW G, Shaped(G), NoAssertAccept => Bears(G),
         NEW b, NEW condition, ChooseBranch(G, b, condition)
  PROVE  CapturesFit'
<1> DEFINE test  == b + 1
           first == (IF code[test].op \in Assertions THEN KetOf(code, test) ELSE test) + 1
           other == IF AltAt(NextAlt(b)) THEN NextAlt(b) + 1 ELSE NextAlt(b)
           H == [G EXCEPT !.ecode = IF condition THEN first ELSE other]
<1>1. Shaped(H) /\ (NoAssertAccept => Bears(H))
  <2> HIDE DEF first, other
  <2> QED BY DEF Bears, Shaped, FrameFields
<1>2. RMATCH(H, H.ecode, "RM35", NOCAPTURE) \/ Continue(H)
  BY DEF ChooseBranch
<1> HIDE DEF H
<1> QED BY <1>1, <1>2, TryingOnFits, GoingOnFits

\* A branch of the assertion that is the condition.
LEMMA CondBranchFits ==
  ASSUME IInv, CapturesFit, Running, Settled, NEW G, Plain(G), NEW start, CondBranch(G, start)
  PROVE  CapturesFit'
<1> DEFINE H == [G EXCEPT !.fields.start = start]
<1>1. Plain(H)
  BY PlainStart
<1>2. RMATCH(H, start + 1, "RM5", CONDASSERT)
  BY DEF CondBranch
<1> HIDE DEF H
<1> QED BY <1>1, <1>2, TryingOnFits DEF Plain

\* A conditional group.
LEMMA CondFits == ASSUME IInv, CapturesFit, Condition PROVE CapturesFit'
<1>1. Running /\ Settled
  BY DEF Condition, Exec, Running, Settled
<1>2. CondBranch(F, F.ecode + 1) \/ \E condition : ChooseBranch(F, F.ecode, condition)
  <2>1. CASE code[F.ecode + 1].op \in Assertions
    BY <2>1 DEF Condition, Assertions, Lookbehinds
  <2>2. CASE code[F.ecode + 1].op \notin Assertions
    BY <2>2 DEF Condition, Assertions, Lookbehinds
  <2> QED BY <2>1, <2>2
<1> QED BY <1>1, <1>2, PlainTop, CondBranchFits, ChooseBranchFits DEF Plain

\* The assertion that is its condition has been decided.
LEMMA RM5Fits == ASSUME IInv, CapturesFit, RM5 PROVE CapturesFit'
<1> DEFINE next == NextAlt(F.fields.start)
           G == [Accepted(F) EXCEPT !.mark = F.mark]
<1>1. Running /\ Shaped(F)
  BY TopFacts DEF RM5, Back, Running
<1>2. Shaped(G)
  BY <1>1, AcceptedAlike DEF Shaped, FrameFields
<1>3. \/ RRETURNWith(F, mb, rrc)
      \/ (Settled /\ CondBranch(F, next))
      \/ (Settled /\ \E condition : ChooseBranch(F, F.ecode, condition))
      \/ (Settled /\ rrc = "ACCEPT" /\ \E condition : ChooseBranch(G, F.ecode, condition))
  <2> HIDE DEF next, G
  <2>1. CASE rrc \in {"ACCEPT", "MATCH"}
    BY <2>1 DEF RM5, G, Settled
  <2>2. CASE rrc \in {"NOMATCH", "THEN"}
    BY <2>2 DEF RM5, next, Settled
  <2>3. CASE rrc \in {"COMMIT", "SKIP", "PRUNE"}
    BY <2>3 DEF RM5, Settled
  <2>4. CASE rrc \notin {"ACCEPT", "MATCH", "NOMATCH", "THEN", "COMMIT", "SKIP", "PRUNE"}
    BY <2>4 DEF RM5, RRETURN, RRETURNWith
  <2> QED BY <2>1, <2>2, <2>3, <2>4
<1> HIDE DEF G, next
<1>4. CASE RRETURNWith(F, mb, rrc)
  BY <1>1, <1>4, PassingFits
<1>5. CASE Settled /\ CondBranch(F, next)
  BY <1>1, <1>5, PlainTop, CondBranchFits
<1>6. CASE Settled /\ \E condition : ChooseBranch(F, F.ecode, condition)
  BY <1>1, <1>6, PlainTop, ChooseBranchFits DEF Plain
<1>7. CASE Settled /\ rrc = "ACCEPT" /\ \E condition : ChooseBranch(G, F.ecode, condition)
  <2>1. ~NoAssertAccept
    BY <1>7 DEF CapturesFit
  <2> QED BY <1>1, <1>2, <1>7, <2>1, ChooseBranchFits
<1> QED BY <1>3, <1>4, <1>5, <1>6, <1>7

-----------------------------------------------------------------------------
(***************************************************************************)
(* Kets raise offset_top with the captures they set, and leave the group.  *)
(***************************************************************************)
\* A frame with the captures, the group and the label of another.
Twin(G, H) ==
  /\ H.offset_top = G.offset_top /\ H.ovector = G.ovector /\ H.last_group = G.last_group
  /\ H.return_id = G.return_id /\ (G.return_id = "RM13" => H.ecode = G.ecode)
\* Frames of which each has a twin fit as they do.
LEMMA TwinsFit ==
  ASSUME NEW c, NEW fs, NEW gs, NEW n \in Nat, NEW rc, WaitersFit(c, fs, n, rc),
         \A i \in 1..n : Twin(fs[i], gs[i])
  PROVE  WaitersFit(c, gs, n, rc)
<1> SUFFICES ASSUME NEW i \in 1..n
             PROVE  /\ Covered(gs[i]) /\ ChainedAt(gs, i)
                    /\ (rc = "KETRPOS" => Awaited(gs, i, n)) => Grows(gs, i)
                    /\ gs[i].return_id = "RM13" => c[gs[i].ecode].op \in BacktrackVerbs
  BY DEF WaitersFit
<1>1. /\ Covered(fs[i]) /\ ChainedAt(fs, i) /\ Twin(fs[i], gs[i])
      /\ (rc = "KETRPOS" => Awaited(fs, i, n)) => Grows(fs, i)
      /\ fs[i].return_id = "RM13" => c[fs[i].ecode].op \in BacktrackVerbs
  BY DEF WaitersFit
<1>2. Covered(gs[i]) /\ ChainedAt(gs, i)
  BY <1>1 DEF Twin, Covered, ChainedAt
<1>3. Awaited(gs, i, n) => Awaited(fs, i, n)
  BY DEF Twin, Awaited
<1>4. Grows(fs, i) => Grows(gs, i)
  <2>1. CASE fs[i].last_group = 0
    BY <1>1, <2>1 DEF Twin, Grows
  <2>2. CASE fs[i].last_group # 0
    <3>1. fs[i].last_group - 1 \in 1..n
      BY <1>1, <2>2 DEF ChainedAt
    <3>2. Twin(fs[fs[i].last_group - 1], gs[fs[i].last_group - 1])
      BY <3>1
    <3> QED BY <1>1, <3>2 DEF Twin, Grows
  <2> QED BY <2>1, <2>2
<1> QED BY <1>1, <1>2, <1>3, <1>4 DEF Twin

\* The same with the top one running.
LEMMA TwinsRun ==
  ASSUME NEW c, NEW fs, NEW gs, Len(fs) \in Nat, Len(gs) = Len(fs), WaitersFit(c, fs, Len(fs) - 1, "NOMATCH"),
         RunnerFits(fs), \A i \in 1..(Len(fs) - 1) : Twin(fs[i], gs[i]), Len(fs) > 0,
         gs[Len(fs)].offset_top = fs[Len(fs)].offset_top, gs[Len(fs)].ovector = fs[Len(fs)].ovector,
         gs[Len(fs)].last_group = fs[Len(fs)].last_group
  PROVE  WaitersFit(c, gs, Len(gs) - 1, "NOMATCH") /\ RunnerFits(gs)
<1> DEFINE n == Len(fs)
<1>1. n - 1 \in Nat
  OBVIOUS
<1>2. WaitersFit(c, gs, n - 1, "NOMATCH")
  BY <1>1, TwinsFit
<1>3. Covered(fs[n]) /\ ChainedAt(fs, n) /\ Grows(fs, n)
  BY DEF RunnerFits
<1>4. Covered(gs[n]) /\ ChainedAt(gs, n)
  BY <1>3 DEF Covered, ChainedAt
<1>5. Grows(gs, n)
  <2>1. CASE fs[n].last_group = 0
    BY <2>1 DEF Grows
  <2>2. CASE fs[n].last_group # 0
    <3> DEFINE k == fs[n].last_group - 1
    <3>1. k \in 1..(n-1)
      BY <1>3, <2>2 DEF ChainedAt
    <3>2. gs[k].offset_top = fs[k].offset_top
      BY <3>1 DEF Twin
    <3> QED BY <1>3, <3>2 DEF Grows
  <2> QED BY <2>1, <2>2
<1> QED BY <1>2, <1>4, <1>5 DEF RunnerFits

\* The frame below that of the group, from which captures may come.
LEMMA BelowFits ==
  ASSUME IInv, CapturesFit, AtKet, NoAssertAccept, F.last_group \in 2..Len(frames)
  PROVE  LET o == F.last_group
             P == BeforeGroup
         IN  /\ Covered(F) /\ Covered(P) /\ F.offset_top >= P.offset_top
             /\ P.last_group # 0 => /\ P.last_group \in 2..(o-1)
                                    /\ P.offset_top >= frames[P.last_group - 1].offset_top
<1> DEFINE o == F.last_group
           n == Len(frames)
<1>1. Running /\ Settled
  BY AtKetOp DEF Settled
<1>2. F = frames[n] /\ n \in Nat /\ BeforeGroup = frames[o-1]
  BY <1>1, TopFacts DEF BeforeGroup
<1>3. WaitersFit(code, frames, n - 1, "NOMATCH") /\ RunnerFits(frames)
  BY <1>1, AllSettled
<1>4. Covered(F) /\ Grows(frames, n)
  BY <1>2, <1>3 DEF RunnerFits
<1> DEFINE k == o - 1
<1>5. k \in 1..(n-1)
  BY <1>2
<1> HIDE DEF k
<1>6. Covered(frames[k]) /\ ChainedAt(frames, k) /\ Grows(frames, k)
  BY <1>3, <1>5 DEF WaitersFit
<1> QED BY <1>2, <1>4, <1>6 DEF Grows, ChainedAt, k

\* The group left, with the captures it began with or more.
LEMMA LeftFits ==
  ASSUME IInv, CapturesFit, AtKet, NoAssertAccept, F.last_group \in 2..Len(frames),
         NEW G, Covered(G), G.last_group = BeforeGroup.last_group, G.offset_top >= BeforeGroup.offset_top
  PROVE  WaitersFit(code, Top(G), Len(Top(G)) - 1, "NOMATCH") /\ RunnerFits(Top(G))
<1> DEFINE P == BeforeGroup
<1>1. Running /\ Settled /\ Len(frames) \in Nat
  BY AtKetOp, TopFacts DEF Settled
<1>2. Covered(P) /\ (P.last_group # 0 => /\ P.last_group \in 2..(F.last_group - 1)
                                         /\ P.offset_top >= frames[P.last_group - 1].offset_top)
  BY BelowFits
<1>3. ASSUME G.last_group # 0
      PROVE  /\ G.last_group \in 2..Len(frames)
             /\ G.offset_top >= frames[G.last_group - 1].offset_top
  <2> DEFINE q == P.last_group - 1
  <2>1. P.last_group \in 2..(F.last_group - 1) /\ P.offset_top >= frames[q].offset_top
    BY <1>2, <1>3
  <2> HIDE DEF q
  <2>2. Covered(frames[q])
    <3>1. WaitersFit(code, frames, Len(frames) - 1, "NOMATCH")
      BY <1>1, AllSettled
    <3>2. q \in 1..(Len(frames) - 1)
      BY <1>1, <2>1 DEF q
    <3> QED BY <3>1, <3>2 DEF WaitersFit
  <2>3. G.offset_top \in Nat /\ P.offset_top \in Nat /\ frames[q].offset_top \in Nat
    BY <1>2, <2>2 DEF Covered
  <2>4. G.offset_top >= frames[q].offset_top
    BY <2>1, <2>3
  <2> QED BY <1>1, <2>1, <2>4 DEF q
<1> QED BY <1>1, <1>3, TopFits

\* A ket that lets match() repeat the group or go on.
LEMMA AfterFits ==
  ASSUME IInv, CapturesFit, AtKet, Op # "KETRPOS", NEW fs, NEW m, NEW start,
         IsSeq(fs), Len(fs) = Len(frames), Shaped(fs[Len(fs)]),
         NoAssertAccept => WaitersFit(code, fs, Len(fs) - 1, "NOMATCH") /\ RunnerFits(fs),
         AfterGroup(fs, m, start)
  PROVE  CapturesFit'
<1> DEFINE n == Len(fs)
           G == fs[n]
           H == Advance(G)
           gs == [fs EXCEPT ![n] = H]
<1>1. Running
  BY AtKetOp
<1>2. Last(fs) = G /\ n \in Nat /\ n > 0 /\ Shaped(G)
  BY <1>1, TopFacts DEF Last
<1>3. \/ RMATCHIn(fs, m, G.ecode + 1, "RM6", NOGROUP) \/ RMATCHIn(fs, m, BraCode, "RM7", NOGROUP)
      \/ ContinueIn(gs, m)
  BY <1>2 DEF AfterGroup
<1>4. NoAssertAccept => rrc # "ACCEPT"
  BY DEF CapturesFit
<1>5. CASE RMATCHIn(fs, m, G.ecode + 1, "RM6", NOGROUP) \/ RMATCHIn(fs, m, BraCode, "RM7", NOGROUP)
  BY <1>1, <1>2, <1>4, <1>5, RMatchFits
<1>6. CASE ContinueIn(gs, m)
  <2>1. H.offset_top = G.offset_top /\ H.ovector = G.ovector /\ H.last_group = G.last_group
    BY <1>2 DEF Advance, Shaped, FrameFields
  <2> HIDE DEF H
  <2>2. Len(gs) = n /\ gs[n] = H /\ \A i \in 1..n : i # n => gs[i] = fs[i]
    BY <1>2, ExceptFacts
  <2> HIDE DEF gs
  <2>3. \A i \in 1..(n-1) : Twin(fs[i], gs[i])
    BY <1>2, <2>2 DEF Twin
  <2>4. NoAssertAccept => WaitersFit(code, gs, Len(gs) - 1, "NOMATCH") /\ RunnerFits(gs)
    BY <1>2, <2>1, <2>2, <2>3, TwinsRun
  <2> QED BY <1>4, <1>6, <2>4, ContinueFits
<1> QED BY <1>3, <1>5, <1>6

\* The end of a possessive group: its captures go to the frame that waits for it.
LEMMA HandingFits ==
  ASSUME IInv, CapturesFit, AtKet, Op = "KETRPOS", HasGroupFrame, EndsGroup(code, F, BeforeGroup, BraCode),
         NEW G, G.last_group = BeforeGroup.last_group, G.back_frame = F.back_frame,
         NoAssertAccept => Covered(G) /\ G.offset_top >= BeforeGroup.offset_top,
         NEW m, NEW start, AfterGroup(Top(G), m, start)
  PROVE  CapturesFit'
<1> DEFINE n == Len(frames)
           o == F.last_group
           P == BeforeGroup
           fs == Top(G)
           H == Last(fs)
           state == [P EXCEPT !.eptr = H.eptr, !.start_match = H.start_match, !.mark = H.mark,
                         !.recurse_last_used = H.recurse_last_used,
                         !.current_recurse = H.current_recurse,
                         !.capture_last = H.capture_last, !.last_group = H.last_group,
                         !.offset_top = H.offset_top, !.ovector = H.ovector]
           gs == [fs EXCEPT ![o-1] = state]
<1>1. Running /\ Settled
  BY AtKetOp DEF Settled
<1>2. RRETURNIn(gs, m, "KETRPOS")
  BY DEF AfterGroup
<1>3. IsSeq(fs) /\ Len(fs) = n /\ fs[n] = G /\ \A i \in 1..(n - 1) : fs[i] = frames[i]
  BY <1>1, TopReplaced
<1> HIDE DEF fs
<1>4. o \in 2..n /\ P = frames[o-1] /\ Shaped(P) /\ n \in Nat /\ n > 0 /\ P.return_id = "RM8"
  BY <1>1, AtGroupEnd, TopFacts, BelowGroup
<1>5. H = G
  BY <1>3 DEF Last
<1> HIDE DEF H, P
<1>6. /\ state.offset_top = G.offset_top /\ state.ovector = G.ovector /\ state.last_group = P.last_group
      /\ state.return_id = "RM8"
  BY <1>4, <1>5 DEF Shaped, FrameFields, P
<1> HIDE DEF state
<1>7. IsSeq(gs) /\ Len(gs) = n /\ gs[o-1] = state /\ \A i \in 1..n : i # o - 1 => gs[i] = fs[i]
  <2> DEFINE k == o - 1
             hs == [fs EXCEPT ![k] = state]
  <2>1. k \in 1..Len(fs) /\ IsSeq(fs) /\ Len(fs) = n
    BY <1>3, <1>4
  <2> HIDE DEF k
  <2>2. IsSeq(hs) /\ Len(hs) = Len(fs) /\ hs[k] = state /\ \A i \in 1..Len(fs) : i # k => hs[i] = fs[i]
    BY <2>1, ExceptFacts
  <2> QED BY <2>1, <2>2 DEF k
<1> HIDE DEF gs
<1>8. Stacked(code, frames, Around) /\ F = frames[n]
  BY <1>1, TopFacts
<1>9. n > 1 => gs[n].back_frame \in 1..(n - 1)
  <2>1. gs[n] = G
    BY <1>3, <1>4, <1>7
  <2> QED BY <1>8, <2>1 DEF Stacked, Placed, Linked
<1>10. ASSUME NoAssertAccept PROVE WaitersFit(code, gs, n - 1, "KETRPOS")
  <2>1. WaitersFit(code, frames, n - 1, "NOMATCH")
    BY <1>1, <1>10, AllSettled
  <2>2. /\ Covered(P)
        /\ P.last_group # 0 => /\ P.last_group \in 2..(o-1)
                               /\ P.offset_top >= frames[P.last_group - 1].offset_top
    BY <1>4, <1>10, BelowFits DEF P
  <2>3. Covered(G) /\ G.offset_top >= P.offset_top
    BY <1>10 DEF P
  <2>4. ASSUME NEW y \in 1..(n-1), gs[y].return_id = "RM8" PROVE y <= o - 1
    <3>1. CASE y = o - 1
      BY <1>4, <3>1
    <3>2. CASE y # o - 1
      <4>1. frames[y].return_id = "RM8"
        BY <1>3, <1>7, <2>4, <3>2
      <4>2. o >= y + 1
        BY <1>8, <4>1 DEF Stacked, Placed, Ordered
      <4> QED BY <1>4, <4>2
    <3> QED BY <3>1, <3>2
  <2>5. ASSUME NEW i \in 1..(n-1), i = o - 1
        PROVE  /\ Covered(gs[i]) /\ ChainedAt(gs, i) /\ Grows(gs, i)
               /\ gs[i].return_id # "RM13"
    <3>1. gs[i] = state /\ Covered(state)
      BY <1>6, <1>7, <2>3, <2>5 DEF Covered
    <3>2. CASE P.last_group = 0
      BY <1>6, <3>1, <3>2 DEF ChainedAt, Grows
    <3>3. CASE P.last_group # 0
      <4> DEFINE q == P.last_group - 1
      <4>1. P.last_group \in 2..i /\ P.offset_top >= frames[q].offset_top
        BY <2>2, <2>5, <3>3
      <4>2. q \in 1..(n-1) /\ q # o - 1 /\ q \in 1..n
        BY <1>4, <2>5, <4>1
      <4> HIDE DEF q
      <4>3. gs[q] = frames[q]
        BY <1>3, <1>7, <4>2
      <4>4. Covered(frames[q])
        BY <2>1, <4>2 DEF WaitersFit
      <4>5. G.offset_top \in Nat /\ P.offset_top \in Nat /\ frames[q].offset_top \in Nat
        BY <2>2, <2>3, <4>4 DEF Covered
      <4>6. state.offset_top >= gs[q].offset_top
        BY <1>6, <2>3, <4>1, <4>3, <4>5
      <4> QED BY <1>6, <3>1, <4>1, <4>6 DEF ChainedAt, Grows, q
    <3> QED BY <1>6, <3>1, <3>2, <3>3
  <2>6. ASSUME NEW i \in 1..(n-1), i # o - 1
        PROVE  /\ Covered(gs[i]) /\ ChainedAt(gs, i)
               /\ Awaited(gs, i, n - 1) => Grows(gs, i)
               /\ gs[i].return_id = "RM13" => code[gs[i].ecode].op \in BacktrackVerbs
    <3>1. gs[i] = frames[i]
      BY <1>3, <1>4, <1>7, <2>6
    <3>2. /\ Covered(frames[i]) /\ ChainedAt(frames, i) /\ Grows(frames, i)
          /\ frames[i].return_id = "RM13" => code[frames[i].ecode].op \in BacktrackVerbs
      BY <2>1 DEF WaitersFit
    <3>3. ASSUME Awaited(gs, i, n - 1), gs[i].last_group # 0
          PROVE  gs[gs[i].last_group - 1] = frames[frames[i].last_group - 1]
      <4> DEFINE q == frames[i].last_group - 1
      <4>1. PICK y \in i..(n-1) : gs[y].return_id = "RM8"
        BY <3>3 DEF Awaited
      <4>2. y \in 1..(n-1)
        BY <4>1
      <4>3. y <= o - 1
        BY <2>4, <4>1, <4>2
      <4>4. frames[i].last_group \in 2..i
        BY <3>1, <3>2, <3>3 DEF ChainedAt
      <4>5. q \in 1..(n-1) /\ q # o - 1 /\ q \in 1..n
        BY <1>4, <4>1, <4>3, <4>4
      <4> QED BY <1>3, <1>7, <3>1, <4>5
    <3>4. Covered(gs[i]) /\ ChainedAt(gs, i)
      BY <3>1, <3>2 DEF ChainedAt
    <3>5. ASSUME Awaited(gs, i, n - 1) PROVE Grows(gs, i)
      <4>1. CASE gs[i].last_group = 0
        BY <4>1 DEF Grows
      <4>2. CASE gs[i].last_group # 0
        BY <3>1, <3>2, <3>3, <3>5, <4>2 DEF Grows
      <4> QED BY <4>1, <4>2
    <3>6. gs[i].return_id = "RM13" => code[gs[i].ecode].op \in BacktrackVerbs
      BY <3>1, <3>2
    <3> QED BY <3>4, <3>5, <3>6
  <2> QED BY <2>5, <2>6 DEF WaitersFit
<1>11. NoAssertAccept /\ n > 1 => WaitersFit(code, gs, n - gs[n].back_frame, "KETRPOS")
  <2> SUFFICES ASSUME NoAssertAccept, n > 1 PROVE WaitersFit(code, gs, n - gs[n].back_frame, "KETRPOS")
    OBVIOUS
  <2> DEFINE k == n - gs[n].back_frame
  <2>1. k \in Nat /\ n - 1 \in Nat /\ k <= n - 1
    BY <1>4, <1>9
  <2>2. SameUpTo(gs, gs, k)
    BY DEF SameUpTo
  <2> HIDE DEF k
  <2>3. WaitersFit(code, gs, k, "KETRPOS")
    BY <1>10, <2>1, <2>2, FewerWait
  <2> QED BY <2>3 DEF k
<1> QED BY <1>1, <1>2, <1>4, <1>7, <1>9, <1>11, RReturnFits

\* The end of a group whose frame is left in the top one, possessive or not.
LEMMA LeavingFits ==
  ASSUME IInv, CapturesFit, AtKet, HasGroupFrame, EndsGroup(code, F, BeforeGroup, BraCode),
         NEW G, Shaped(G), G.last_group = BeforeGroup.last_group, G.back_frame = F.back_frame,
         NoAssertAccept => Covered(G) /\ G.offset_top >= BeforeGroup.offset_top,
         NEW m, NEW start, AfterGroup(Top(G), m, start)
  PROVE  CapturesFit'
<1>1. CASE Op = "KETRPOS"
  BY <1>1, HandingFits
<1>2. CASE Op # "KETRPOS"
  <2> DEFINE fs == Top(G)
  <2>1. Running /\ F.last_group \in 2..Len(frames)
    BY AtKetOp, AtGroupEnd
  <2>2. IsSeq(fs) /\ Len(fs) = Len(frames) /\ fs[Len(fs)] = G
    BY <2>1, TopReplaced
  <2>3. NoAssertAccept => WaitersFit(code, fs, Len(fs) - 1, "NOMATCH") /\ RunnerFits(fs)
    BY <2>1, LeftFits
  <2> HIDE DEF fs
  <2>4. AfterGroup(fs, m, start)
    BY DEF fs
  <2> QED BY <1>2, <2>2, <2>3, <2>4, AfterFits
<1> QED BY <1>1, <1>2

\* The end of a branch.
LEMMA AlternationFits == ASSUME IInv, CapturesFit, Alternation PROVE CapturesFit'
<1> DEFINE G == [F EXCEPT !.ecode = KetOf(code, F.ecode)]
           m == [mb EXCEPT !.branch_end = F.ecode]
<1>1. Running /\ Settled
  BY DEF Alternation, Exec, Running, Settled
<1>2. Plain(G)
  BY <1>1, PlainTop, PlainElsewhere
<1>3. ContinueWith(G, m)
  BY DEF Alternation
<1> HIDE DEF G, m
<1> QED BY <1>1, <1>2, <1>3, GoingFits DEF Plain

\* A lookbehind that missed, or a negative assertion that matched.
LEMMA KetFailsFits == ASSUME IInv, CapturesFit, KetMissedLookbehind \/ KetAssertNot PROVE CapturesFit'
<1>1. AtKet
  BY DEF KetMissedLookbehind, KetAssertNot
<1>2. Running /\ Settled /\ Shaped(F)
  BY <1>1, AtKetOp DEF Settled
<1>3. Left(F).back_frame = F.back_frame
  BY <1>2 DEF Left, Shaped, FrameFields
<1>4. RRETURNWith(Left(F), NoBranchEnd, "NOMATCH") \/ RRETURNWith(Left(F), NoBranchEnd, "MATCH")
  BY DEF KetMissedLookbehind, KetAssertNot
<1> QED BY <1>2, <1>3, <1>4, FailingFits

\* The number of a capture group is one.
LEMMA CaptureNumber ==
  ASSUME IInv, AtKet, BraOp \in CaptureBrackets
  PROVE  code[BraCode].num \in Nat
<1>1. Nested(code) /\ BraCode \in DOMAIN code /\ IsBracket(code, BraCode)
  BY AtKetOp
<1>2. BracketFits(code, BraCode) /\ IsCapture(code, BraCode)
  BY <1>1 DEF Nested, Fits, IsCapture, BraOp
<1> QED BY <1>2 DEF BracketFits, CaptureFits

\* A frame with a capture set is covered.
LEMMA CapturedCovered ==
  ASSUME NEW G, Shaped(G), Covered(G), NEW k \in Nat, NEW start
  PROVE  LET H == Captured(G, k, start)
         IN  Covered(H) /\ H.offset_top >= G.offset_top
<1> DEFINE H == Captured(G, k, start)
           top == Max({G.offset_top, k})
<1>1. top \in Nat /\ top >= G.offset_top /\ top >= k /\ G.offset_top \in Nat
  BY MaxOfTwo DEF Covered
<1>2. H.offset_top = top /\ H.ovector = [G.ovector EXCEPT ![k] = <<start, G.eptr>>]
  BY DEF Captured, Shaped, FrameFields
<1> HIDE DEF H, top
<1>3. DOMAIN H.ovector = 1..CaptureCount
  BY <1>2 DEF Covered
<1>4. ASSUME NEW n \in 1..CaptureCount, n > top PROVE H.ovector[n] = UNSET
  <2>1. n \in Int
    OBVIOUS
  <2>2. n > G.offset_top /\ n # k
    BY <1>1, <1>4, <2>1
  <2> QED BY <1>2, <2>2 DEF Covered
<1> QED BY <1>1, <1>2, <1>3, <1>4 DEF Covered, H

\* The end of a capture group.
LEMMA KetCaptureFits == ASSUME IInv, CapturesFit, KetCapture PROVE CapturesFit'
<1> DEFINE G == Captured(Left(F), code[BraCode].num, BeforeGroup.eptr)
<1>1. AtKet /\ BraOp \in CaptureBrackets /\ ~RecursionEnds
      /\ AfterGroup(Top(G), NoBranchEnd, BeforeGroup.eptr)
  BY DEF KetCapture
<1>2. HasGroupFrame /\ BraOp \notin CondAssertions
  BY <1>1 DEF HasGroupFrame, CaptureBrackets, CondAssertions
<1>3. EndsGroup(code, F, BeforeGroup, BraCode)
  BY <1>1, <1>2, EndsGroupOnly
<1>4. Shaped(F) /\ F.last_group \in 2..Len(frames)
  BY <1>1, <1>2, AtKetOp, AtGroupEnd
<1>5. Shaped(G) /\ G.last_group = BeforeGroup.last_group /\ G.back_frame = F.back_frame
  BY <1>4 DEF Captured, Left, Shaped, FrameFields
<1>6. NoAssertAccept => Covered(G) /\ G.offset_top >= BeforeGroup.offset_top
  <2> SUFFICES ASSUME NoAssertAccept PROVE Covered(G) /\ G.offset_top >= BeforeGroup.offset_top
    OBVIOUS
  <2>1. Covered(F) /\ Covered(BeforeGroup) /\ F.offset_top >= BeforeGroup.offset_top
    BY <1>1, <1>4, BelowFits
  <2>2. Covered(Left(F)) /\ Shaped(Left(F)) /\ Left(F).offset_top = F.offset_top
    BY <1>4, <2>1 DEF Left, Covered, Shaped, FrameFields
  <2>3. code[BraCode].num \in Nat
    BY <1>1, CaptureNumber
  <2>4. Covered(G) /\ G.offset_top >= F.offset_top
    BY <2>2, <2>3, CapturedCovered
  <2> HIDE DEF G
  <2> QED BY <2>1, <2>4 DEF Covered
<1> HIDE DEF G
<1> QED BY <1>1, <1>2, <1>3, <1>5, <1>6, LeavingFits

\* The frame of a group left, and nothing else that matters here.
LEMMA LeftCovered ==
  ASSUME IInv, CapturesFit, AtKet, NoAssertAccept, F.last_group \in 2..Len(frames), NEW G,
         G.offset_top = F.offset_top, G.ovector = F.ovector
  PROVE  Covered(G) /\ G.offset_top >= BeforeGroup.offset_top
BY BelowFits DEF Covered

\* The end of a group that does nothing else.
LEMMA KetPlainFits == ASSUME IInv, CapturesFit, KetPlain PROVE CapturesFit'
<1>1. AtKet /\ BraOp \in {"BRA", "COND", "SBRA", "SCOND", "BRAPOS", "SBRAPOS"} /\ ~RecursionEnds
  BY DEF KetPlain
<1>2. Shaped(F) /\ Running /\ Settled
  BY <1>1, AtKetOp DEF Settled
<1>3. CASE HasGroupFrame
  <2>1. EndsGroup(code, F, BeforeGroup, BraCode) /\ F.last_group \in 2..Len(frames)
    BY <1>1, <1>3, EndsGroupOnly, AtGroupEnd DEF CondAssertions
  <2> DEFINE G == Left(F)
  <2>2. /\ Shaped(G) /\ G.last_group = BeforeGroup.last_group /\ G.back_frame = F.back_frame
        /\ G.offset_top = F.offset_top /\ G.ovector = F.ovector
    BY <1>2 DEF Left, Shaped, FrameFields
  <2>3. AfterGroup(Top(G), NoBranchEnd, BeforeGroup.eptr)
    BY <1>3 DEF KetPlain
  <2> HIDE DEF G
  <2>4. NoAssertAccept => Covered(G) /\ G.offset_top >= BeforeGroup.offset_top
    BY <1>1, <2>1, <2>2, LeftCovered
  <2> QED BY <1>1, <1>3, <2>1, <2>2, <2>3, <2>4, LeavingFits
<1>4. CASE ~HasGroupFrame
  <2>1. AfterGroup(frames, NoBranchEnd, NULL)
    BY <1>4 DEF KetPlain
  <2>2. Op = "KETRPOS" <=> BraOp \in PossessiveBrackets
    BY <1>1, AtKetOp
  <2>3. Op # "KETRPOS"
    BY <1>4, <2>2 DEF HasGroupFrame, PossessiveBrackets
  <2>4. IsSeq(frames) /\ Shaped(frames[Len(frames)])
    BY <1>2, TopFacts
  <2>5. NoAssertAccept => WaitersFit(code, frames, Len(frames) - 1, "NOMATCH") /\ RunnerFits(frames)
    BY <1>2, AllSettled
  <2> QED BY <1>1, <2>1, <2>3, <2>4, <2>5, AfterFits
<1> QED BY <1>3, <1>4

\* The end of an assertion that is not atomic.
LEMMA KetAssertNaFits == ASSUME IInv, CapturesFit, KetAssertNa PROVE CapturesFit'
<1> DEFINE G == [Left(F) EXCEPT !.eptr = BeforeGroup.eptr]
           m == Used(NoBranchEnd, F.eptr)
<1>1. AtKet /\ BraOp \in {"ASSERT_NA", "ASSERTBACK_NA"} /\ AfterGroup(Top(G), m, BeforeGroup.eptr)
  BY DEF KetAssertNa
<1>2. HasGroupFrame /\ BraOp \notin CaptureBrackets /\ BraOp \notin CondAssertions
  BY <1>1 DEF HasGroupFrame, CaptureBrackets, CondAssertions
<1>3. EndsGroup(code, F, BeforeGroup, BraCode) /\ F.last_group \in 2..Len(frames) /\ Shaped(F)
  BY <1>1, <1>2, EndsGroupOnly, AtGroupEnd, AtKetOp
<1>4. /\ Shaped(G) /\ G.last_group = BeforeGroup.last_group /\ G.back_frame = F.back_frame
      /\ G.offset_top = F.offset_top /\ G.ovector = F.ovector
  BY <1>3 DEF Left, Shaped, FrameFields
<1> HIDE DEF G, m
<1>5. NoAssertAccept => Covered(G) /\ G.offset_top >= BeforeGroup.offset_top
  BY <1>1, <1>3, <1>4, LeftCovered
<1> QED BY <1>1, <1>2, <1>3, <1>4, <1>5, LeavingFits

\* The end of a scan of substrings.
LEMMA KetScsFits == ASSUME IInv, CapturesFit, KetScs PROVE CapturesFit'
<1> DEFINE end == BeforeGroup.fields.saved_end
           G == [Left(F) EXCEPT !.fields.saved_end = mb.end_subject, !.eptr = BeforeGroup.fields.start_eptr]
           m == [NoBranchEnd EXCEPT !.end_subject = end,
                                    !.true_end_subject = end + BeforeGroup.fields.true_end_extra]
           fs == Top(G)
<1>1. AtKet /\ BraOp = "ASSERT_SCS" /\ RMATCHWith(G, m, F.ecode + 1, "RM39", NOGROUP)
  BY DEF KetScs
<1>2. HasGroupFrame
  BY <1>1 DEF HasGroupFrame
<1>3. Running /\ Len(frames) > 0 /\ Shaped(F) /\ F.last_group \in 2..Len(frames)
  BY <1>1, <1>2, AtKetOp, AtGroupEnd, TopFacts
<1>4. /\ Shaped(G) /\ G.last_group = BeforeGroup.last_group
      /\ G.offset_top = F.offset_top /\ G.ovector = F.ovector
  BY <1>3 DEF Left, Shaped, FrameFields
<1>5. RMATCHIn(fs, m, F.ecode + 1, "RM39", NOGROUP)
  BY <1>1 DEF RMATCHWith
<1> HIDE DEF G, m
<1>6. NoAssertAccept => WaitersFit(code, fs, Len(fs) - 1, "NOMATCH") /\ RunnerFits(fs)
  BY <1>1, <1>3, <1>4, LeftCovered, LeftFits
<1>7. IsSeq(fs) /\ Len(fs) = Len(frames) /\ fs[Len(fs)] = G
  BY <1>3, TopReplaced
<1> HIDE DEF fs
<1>8. NoAssertAccept => rrc # "ACCEPT"
  BY DEF CapturesFit
<1> QED BY <1>3, <1>4, <1>5, <1>6, <1>7, <1>8, RMatchFits

\* The end of an atomic group.
LEMMA KetAtomicFits == ASSUME IInv, CapturesFit, KetAtomic PROVE CapturesFit'
<1> DEFINE n == Len(frames)
           P == BeforeGroup
           k == F.last_group - 1
           assertion == BraOp # "ONCE"
           G == [Left(F) EXCEPT !.back_frame = n - (F.last_group - 1),
                                !.eptr = IF assertion THEN P.eptr ELSE @]
           m == IF assertion THEN Used(NoBranchEnd, F.eptr) ELSE NoBranchEnd
           fs == Top(G)
           H == [P EXCEPT !.ecode = LastBranch(code, P.ecode)]
           gs == [fs EXCEPT ![k] = H]
<1>1. AtKet /\ BraOp \in {"ONCE", "ASSERT", "ASSERTBACK"} /\ ~CondAssertEnds
      /\ AfterGroup([fs EXCEPT ![k].ecode = LastBranch(code, @)], m, P.eptr)
  BY DEF KetAtomic
<1>2. HasGroupFrame /\ BraOp \notin CaptureBrackets /\ BraOp \notin PossessiveBrackets
  BY <1>1 DEF HasGroupFrame, CaptureBrackets, PossessiveBrackets
<1>3. P.return_id # "RM13"
  <2>1. EndsGroup(code, F, P, BraCode)
    BY <1>1, <1>2, EndsGroupOnly
  <2> QED BY <2>1 DEF EndsGroup, AtBracket
<1>4. Shaped(F) /\ Running /\ Op # "KETRPOS"
  BY <1>1, <1>2, AtKetOp
<1>5. F.last_group \in 2..n /\ k \in 1..(n-1) /\ P = frames[k] /\ Shaped(P) /\ n \in Nat
  BY <1>1, <1>2, <1>4, AtGroupEnd, TopFacts
<1>6. /\ Shaped(G) /\ G.last_group = P.last_group
      /\ G.offset_top = F.offset_top /\ G.ovector = F.ovector
  BY <1>4 DEF Left, Shaped, FrameFields
<1> HIDE DEF G, m
<1>7. NoAssertAccept => Covered(G) /\ G.offset_top >= P.offset_top
  BY <1>1, <1>5, <1>6, LeftCovered
<1>8. NoAssertAccept => WaitersFit(code, fs, Len(fs) - 1, "NOMATCH") /\ RunnerFits(fs)
  BY <1>1, <1>5, <1>6, <1>7, LeftFits
<1>9. /\ IsSeq(fs) /\ Len(fs) = n /\ fs[n] = G /\ \A i \in 1..(n - 1) : fs[i] = frames[i]
  BY <1>4, TopReplaced
<1>10. Twin(P, H)
  BY <1>3, <1>5 DEF Twin, Shaped, FrameFields
<1> HIDE DEF fs, k, P
<1>11. [fs EXCEPT ![k].ecode = LastBranch(code, @)] = gs
  BY <1>5, <1>9
<1> HIDE DEF H
<1>12. AfterGroup(gs, m, P.eptr)
  BY <1>1, <1>11
<1>13. IsSeq(gs) /\ Len(gs) = n /\ gs[k] = H /\ \A i \in 1..n : i # k => gs[i] = fs[i]
  <2>1. k \in 1..Len(fs) /\ IsSeq(fs)
    BY <1>5, <1>9
  <2>2. IsSeq(gs) /\ Len(gs) = Len(fs) /\ gs[k] = H /\ \A i \in 1..Len(fs) : i # k => gs[i] = fs[i]
    BY ONLY <2>1, ExceptFacts
  <2> QED BY <1>9, <2>2
<1> HIDE DEF gs
<1>14. \A i \in 1..(n - 1) : Twin(fs[i], gs[i])
  <2> SUFFICES ASSUME NEW i \in 1..(n - 1) PROVE Twin(fs[i], gs[i])
    OBVIOUS
  <2>1. CASE i = k
    BY <1>5, <1>9, <1>10, <1>13, <2>1
  <2>2. CASE i # k
    <3>1. gs[i] = fs[i]
      BY <1>5, <1>13, <2>2
    <3> QED BY <3>1 DEF Twin
  <2> QED BY <2>1, <2>2
<1>15. gs[n] = G
  BY <1>5, <1>9, <1>13
<1>16. NoAssertAccept => WaitersFit(code, gs, Len(gs) - 1, "NOMATCH") /\ RunnerFits(gs)
  <2>1. Len(fs) \in Nat /\ Len(fs) > 0
    BY <1>5, <1>9
  <2> QED BY <1>8, <1>9, <1>13, <1>14, <1>15, <2>1, TwinsRun
<1>17. Shaped(gs[Len(gs)])
  BY <1>6, <1>13, <1>15
<1> QED BY <1>1, <1>4, <1>12, <1>13, <1>16, <1>17, AfterFits

\* The end of an assertion that is a condition.
LEMMA KetCondAssertFits == ASSUME IInv, CapturesFit, KetCondAssert PROVE CapturesFit'
<1> DEFINE n == Len(frames)
           P == BeforeGroup
           k == F.last_group - 1
           state == [P EXCEPT !.offset_top = F.offset_top, !.mark = F.mark,
                       !.ovector = [i \in DOMAIN @ |-> IF i <= F.offset_top THEN F.ovector[i] ELSE @[i]]]
           G == [Left(F) EXCEPT !.back_frame = n - (F.last_group - 1)]
           fs == Top(G)
           gs == [fs EXCEPT ![k] = state]
<1>1. AtKet /\ HasGroupFrame
  BY DEF KetCondAssert, CondAssertEnds
<1>2. Running /\ Settled /\ Shaped(F)
  BY <1>1, AtKetOp DEF Settled
<1>3. F.last_group \in 2..n /\ k \in 1..(n-1) /\ P = frames[k] /\ Shaped(P) /\ n \in Nat /\ n > 0
  BY <1>1, <1>2, AtGroupEnd, TopFacts
<1>4. P.return_id # "RM13"
  BY <1>1, AtGroupEnd DEF EndsCall, EndsCondition, EndsGroup, AtBracket
<1>5. RRETURNIn(gs, NoBranchEnd, "MATCH")
  BY DEF KetCondAssert
<1>6. G.back_frame = n - k
  BY <1>2, <1>3 DEF Left, Shaped, FrameFields
<1>7. IsSeq(fs) /\ Len(fs) = n /\ fs[n] = G /\ \A i \in 1..(n - 1) : fs[i] = frames[i]
  BY <1>2, TopReplaced
<1> HIDE DEF fs, G
<1>8. /\ state.offset_top = F.offset_top /\ state.last_group = P.last_group
      /\ state.return_id = P.return_id
      /\ state.ovector = [i \in DOMAIN P.ovector |-> IF i <= F.offset_top THEN F.ovector[i] ELSE P.ovector[i]]
  BY <1>3 DEF Shaped, FrameFields
<1> HIDE DEF state
<1>9. IsSeq(gs) /\ Len(gs) = n /\ gs[k] = state /\ \A i \in 1..n : i # k => gs[i] = fs[i]
  <2> HIDE DEF k
  <2>1. k \in 1..Len(fs)
    BY <1>3, <1>7
  <2> QED BY <1>7, <2>1, ExceptFacts
<1> HIDE DEF gs
<1>10. gs[n].back_frame = n - k /\ n - (n - k) = k /\ n - k \in 1..(n - 1)
  BY <1>3, <1>6, <1>7, <1>9
<1>11. ASSUME NoAssertAccept PROVE WaitersFit(code, gs, k, "MATCH")
  <2>1. /\ Covered(F) /\ Covered(P) /\ F.offset_top >= P.offset_top
        /\ P.last_group # 0 => /\ P.last_group \in 2..k
                               /\ P.offset_top >= frames[P.last_group - 1].offset_top
    BY <1>1, <1>3, <1>11, BelowFits
  <2>2. WaitersFit(code, frames, n - 1, "NOMATCH")
    BY <1>2, <1>11, AllSettled
  <2> HIDE DEF k, P
  <2>3. \A i \in 1..k : i # k => gs[i] = frames[i]
    BY <1>3, <1>7, <1>9
  <2>4. WaitersFit(code, gs, k - 1, "NOMATCH")
    <3>1. n - 1 \in Nat /\ k - 1 \in Nat /\ k - 1 <= n - 1 /\ SameUpTo(frames, gs, k - 1)
      BY <1>3, <2>3 DEF SameUpTo
    <3> QED BY ONLY <2>2, <3>1, FewerWait
  <2>5. Covered(state)
    <3>1. DOMAIN state.ovector = 1..CaptureCount /\ state.offset_top \in Nat
      BY <1>8, <2>1 DEF Covered
    <3>2. ASSUME NEW i \in 1..CaptureCount, i > state.offset_top PROVE state.ovector[i] = UNSET
      <4>1. i \in Int /\ F.offset_top \in Nat /\ P.offset_top \in Nat
        BY <2>1 DEF Covered
      <4>2. ~(i <= F.offset_top) /\ i > P.offset_top
        BY <1>8, <2>1, <3>2, <4>1
      <4> QED BY <1>8, <2>1, <4>2 DEF Covered
    <3> QED BY <3>1, <3>2 DEF Covered
  <2>6. ASSUME P.last_group # 0
        PROVE  P.last_group \in 2..k /\ F.offset_top >= gs[P.last_group - 1].offset_top
    <3> DEFINE q == P.last_group - 1
    <3>1. q \in 1..(k-1) /\ P.offset_top >= frames[q].offset_top
      BY <1>3, <2>1, <2>6
    <3>2. gs[q] = frames[q] /\ q \in 1..(n-1)
      BY <1>3, <2>3, <3>1
    <3>3. Covered(frames[q])
      BY <2>2, <3>2 DEF WaitersFit
    <3> HIDE DEF q
    <3>4. F.offset_top \in Nat /\ P.offset_top \in Nat /\ frames[q].offset_top \in Nat
      BY <2>1, <3>3 DEF Covered
    <3>5. F.offset_top >= frames[q].offset_top
      BY <2>1, <3>1, <3>4
    <3> QED BY <2>1, <2>6, <3>2, <3>5 DEF q
  <2>7. Covered(gs[k]) /\ ChainedAt(gs, k) /\ Grows(gs, k) /\ gs[k].return_id # "RM13"
    BY <1>4, <1>8, <1>9, <2>5, <2>6 DEF ChainedAt, Grows
  <2> SUFFICES ASSUME NEW i \in 1..k
               PROVE  /\ Covered(gs[i]) /\ ChainedAt(gs, i) /\ Grows(gs, i)
                      /\ gs[i].return_id = "RM13" => code[gs[i].ecode].op \in BacktrackVerbs
    BY DEF WaitersFit
  <2>8. CASE i = k
    BY <2>7, <2>8
  <2>9. CASE i # k
    <3>1. i \in 1..(k-1)
      BY <1>3, <2>9
    <3> QED BY <2>4, <3>1 DEF WaitersFit
  <2> QED BY <2>8, <2>9
<1> HIDE DEF k
<1> QED BY <1>2, <1>3, <1>5, <1>9, <1>10, <1>11, RReturnFits

\* The numbers of the groups in a list that follows a call.
LEMMA ListNumbers ==
  ASSUME input \in Inputs, NEW i \in 1..Len(code), NEW k \in ReturnList(code, i)
  PROVE  code[k].num \in Nat
<1> DEFINE ends == {j \in i..Len(code) : \A l \in i..(j-1) : code[l].op = "CREF"}
           top == Max(ends)
<1>1. Len(code) \in Nat /\ DOMAIN code = 1..Len(code)
  BY InputFacts DEF Nested
<1>2. ends \in SUBSET Nat /\ (\A j \in ends : j <= Len(code)) /\ i \in ends
  BY <1>1
<1>3. ReturnList(code, i) = i..(top - 1)
  BY DEF ReturnList
<1>4. top \in ends
  <2> HIDE DEF ends
  <2> QED BY <1>1, <1>2, MaxOfBounded
<1> HIDE DEF top
<1>5. k \in DOMAIN code /\ code[k].op = "CREF"
  BY <1>1, <1>3, <1>4
<1> QED BY <1>5, NumberAssumption DEF code

\* The end of a call: the captures it returns, and those that were set before it.
LEMMA KetRecursionFits == ASSUME IInv, CapturesFit, KetRecursion PROVE CapturesFit'
<1> DEFINE P == BeforeGroup
           G == Left(F)
           list == ReturnList(code, P.ecode + 1)
           nums == {code[i].num : i \in list}
           kept == {n \in nums : n <= G.offset_top}
           restored(n) == IF n \in kept \/ n > G.offset_top THEN G.ovector[n] ELSE P.ovector[n]
           ra == P.ecode + 1 + Cardinality(list)
           top == Max(kept \cup {P.offset_top})
           H == [G EXCEPT !.ecode = ra,
                          !.ovector = [n \in DOMAIN @ |-> restored(n)],
                          !.offset_top = top,
                          !.capture_last = P.capture_last,
                          !.current_recurse = P.current_recurse]
<1>1. AtKet /\ RecursionEnds
  BY DEF KetRecursion
<1>2. Running /\ Shaped(F) /\ Nested(code) /\ input \in Inputs
  BY <1>1, AtKetOp, TopFacts
<1>3. F.last_group \in 2..Len(frames) /\ Waits(code, P) /\ P.return_id = "RM11"
  BY <1>1, CallFound
<1>4. ContinueWith(H, NoBranchEnd)
  BY DEF KetRecursion, EndRecursion
<1>5. /\ G.last_group = P.last_group /\ G.offset_top = F.offset_top /\ G.ovector = F.ovector /\ Shaped(G)
  BY <1>2 DEF Left, Shaped, FrameFields
<1> HIDE DEF G, P
<1>6. nums \in SUBSET Nat
  <2>1. P.ecode + 1 \in 1..Len(code)
    BY <1>2, <1>3, CallFacts DEF CallFits, Nested
  <2> SUFFICES ASSUME NEW i \in list PROVE code[i].num \in Nat
    OBVIOUS
  <2> QED BY <1>2, <2>1, ListNumbers
<1> HIDE DEF list, nums
<1>7. /\ H.last_group = P.last_group /\ H.offset_top = top
      /\ H.ovector = [n \in DOMAIN F.ovector |-> restored(n)]
  BY <1>5 DEF Shaped, FrameFields
<1> HIDE DEF H
<1>8. ASSUME NoAssertAccept PROVE Covered(H) /\ H.offset_top >= P.offset_top
  <2>1. Covered(F) /\ Covered(P) /\ F.offset_top >= P.offset_top
    BY <1>1, <1>3, <1>8, BelowFits DEF P
  <2>2. F.offset_top \in Nat /\ P.offset_top \in Nat
    BY <2>1 DEF Covered
  <2>3. top \in kept \cup {P.offset_top} /\ \A x \in kept \cup {P.offset_top} : top >= x
    <3> DEFINE S == kept \cup {P.offset_top}
    <3>1. S \in SUBSET Nat /\ S # {} /\ \A x \in S : x <= F.offset_top
      BY <1>5, <1>6, <2>1, <2>2
    <3> HIDE DEF S
    <3>2. Max(S) \in S /\ \A x \in S : Max(S) >= x
      BY <2>2, <3>1, MaxOfBounded
    <3> QED BY <3>2 DEF S
  <2>4. top \in Nat /\ top >= P.offset_top
    BY <1>6, <2>2, <2>3
  <2>5. ASSUME NEW n \in 1..CaptureCount, n > top PROVE restored(n) = UNSET
    <3>1. n \notin kept
      <4> SUFFICES ASSUME n \in kept PROVE FALSE
        OBVIOUS
      <4>1. top >= n /\ n \in Nat
        BY <1>6, <2>3
      <4> QED BY <2>4, <2>5, <4>1
    <3>2. CASE n > G.offset_top
      BY <1>5, <2>1, <3>2 DEF Covered
    <3>3. CASE ~(n > G.offset_top)
      <4>1. n > P.offset_top
        BY <2>2, <2>4, <2>5
      <4> QED BY <2>1, <3>1, <3>3, <4>1 DEF Covered
    <3> QED BY <3>2, <3>3
  <2> HIDE DEF top, restored
  <2>6. DOMAIN H.ovector = 1..CaptureCount /\ \A n \in 1..CaptureCount : H.ovector[n] = restored(n)
    BY <1>7, <2>1 DEF Covered
  <2> QED BY <1>7, <2>4, <2>5, <2>6 DEF Covered
<1> HIDE DEF top, restored
<1>9. NoAssertAccept => WaitersFit(code, Top(H), Len(Top(H)) - 1, "NOMATCH") /\ RunnerFits(Top(H))
  BY <1>1, <1>3, <1>7, <1>8, LeftFits DEF P
<1>10. ContinueIn(Top(H), NoBranchEnd)
  BY <1>4 DEF ContinueWith
<1>11. NoAssertAccept => rrc # "ACCEPT"
  BY DEF CapturesFit
<1> QED BY <1>9, <1>10, <1>11, ContinueFits

\* A lazy group is repeated after all.
LEMMA RM6Fits == ASSUME IInv, CapturesFit, RM6 PROVE CapturesFit'
<1> DEFINE G == [F EXCEPT !.ecode = BraCode]
<1>1. Running
  BY DEF RM6, Back, Running
<1>2. Plain(G)
  BY <1>1, PlainTop, PlainElsewhere
<1>3. \/ rrc # "NOMATCH" /\ RRETURN(F, rrc)
      \/ rrc = "NOMATCH" /\ Continue(G)
  BY DEF RM6
<1> HIDE DEF G
<1>4. NoAssertAccept => rrc # "ACCEPT"
  BY <1>1, <1>3 DEF CapturesFit
<1> QED BY <1>1, <1>2, <1>3, <1>4, GoingBackFits, GoingOnFits DEF Plain, Settled

\* A greedy group is not repeated after all.
LEMMA RM7Fits == ASSUME IInv, CapturesFit, RM7 PROVE CapturesFit'
<1>1. Running
  BY DEF RM7, Back, Running
<1>2. Plain(Advance(F))
  BY <1>1, PlainTop
<1>3. \/ rrc # "NOMATCH" /\ RRETURN(F, rrc)
      \/ rrc = "NOMATCH" /\ Continue(Advance(F))
  BY DEF RM7
<1>4. NoAssertAccept => rrc # "ACCEPT"
  BY <1>1, <1>3 DEF CapturesFit
<1> QED BY <1>1, <1>2, <1>3, <1>4, GoingBackFits, GoingOnFits DEF Plain, Settled

-----------------------------------------------------------------------------
(***************************************************************************)
(* The captures at the end of the pattern.                                 *)
(***************************************************************************)
\* A capture set in the top frame.
LEMMA CaptureFitsOn ==
  ASSUME IInv, CapturesFit, Running, Settled, NEW k \in Nat, NEW start,
         Continue(Advance(Captured(F, k, start)))
  PROVE  CapturesFit'
<1> DEFINE G == Captured(F, k, start)
           H == Advance(G)
<1>1. Shaped(F) /\ F = frames[Len(frames)]
  BY TopFacts
<1>2. Shaped(G) /\ G.last_group = F.last_group
  BY <1>1 DEF Captured, Shaped, FrameFields
<1>3. NoAssertAccept => Covered(F) /\ Covered(G) /\ G.offset_top >= F.offset_top
  <2> SUFFICES ASSUME NoAssertAccept PROVE Covered(F) /\ Covered(G) /\ G.offset_top >= F.offset_top
    OBVIOUS
  <2>1. Covered(F)
    BY <1>1, AllSettled DEF RunnerFits
  <2> QED BY <1>1, <2>1, CapturedCovered
<1> HIDE DEF G
<1>4. H.last_group = G.last_group /\ H.offset_top = G.offset_top /\ H.ovector = G.ovector
  BY <1>2 DEF Advance, Shaped, FrameFields
<1> HIDE DEF H
<1>5. ASSUME NoAssertAccept PROVE WaitersFit(code, Top(H), Len(Top(H)) - 1, "NOMATCH") /\ RunnerFits(Top(H))
  <2>1. ChainedAt(frames, Len(frames)) /\ Grows(frames, Len(frames))
    BY <1>5, AllSettled DEF RunnerFits
  <2>2. WaitersFit(code, frames, Len(frames) - 1, "NOMATCH")
    BY <1>5, AllSettled
  <2>3. ASSUME H.last_group # 0
        PROVE  /\ H.last_group \in 2..Len(frames)
               /\ H.offset_top >= frames[H.last_group - 1].offset_top
    <3> DEFINE q == F.last_group - 1
    <3>1. F.last_group \in 2..Len(frames) /\ F.offset_top >= frames[q].offset_top
      BY <1>1, <1>2, <1>4, <2>1, <2>3 DEF ChainedAt, Grows
    <3>2. q \in 1..(Len(frames) - 1)
      BY <3>1, TopFacts
    <3> HIDE DEF q
    <3>3. Covered(frames[q])
      BY <2>2, <3>2 DEF WaitersFit
    <3>4. G.offset_top \in Nat /\ F.offset_top \in Nat /\ frames[q].offset_top \in Nat /\ G.offset_top >= F.offset_top
      BY <1>3, <1>5, <3>3 DEF Covered
    <3>5. G.offset_top >= frames[q].offset_top
      BY <3>1, <3>4
    <3> QED BY <1>2, <1>4, <3>1, <3>5 DEF q
  <2>4. Covered(H)
    BY <1>3, <1>4, <1>5 DEF Covered
  <2> QED BY <1>5, <2>3, <2>4, TopFits
<1>6. ContinueIn(Top(H), mb)
  BY DEF Continue, ContinueWith, H, G
<1>7. NoAssertAccept => rrc # "ACCEPT"
  BY DEF CapturesFit
<1> QED BY <1>5, <1>6, <1>7, ContinueFits

\* An open capture group is closed for an *ACCEPT.
LEMMA CloseFits == ASSUME IInv, CapturesFit, Close PROVE CapturesFit'
<1> DEFINE k == code[F.ecode].num
<1>1. pc = "match" /\ Op = "CLOSE"
  BY DEF Close, Exec
<1>2. Running /\ Settled
  BY <1>1 DEF Running, Settled
<1>3. k \in Nat
  BY <1>1, <1>2, TopFacts, NumberAssumption DEF Op, code
<1>4. \/ Continue(Advance(F)) \/ Return(mb, "INTERNAL")
      \/ \E start : Continue(Advance(Captured(F, k, start)))
  BY DEF Close
<1> HIDE DEF k
<1>5. CASE Continue(Advance(F))
  BY <1>2, <1>5, PlainTop, GoingOnFits DEF Plain
<1>6. CASE Return(mb, "INTERNAL")
  BY <1>2, <1>6, ReturnFits
<1>7. CASE \E start : Continue(Advance(Captured(F, k, start)))
  BY <1>2, <1>3, <1>7, CaptureFitsOn
<1> QED BY <1>4, <1>5, <1>6, <1>7

\* An *ACCEPT in an assertion: there is none.
LEMMA AssertAcceptFits == ASSUME IInv, CapturesFit, AssertAccept PROVE CapturesFit'
<1>1. pc = "match" /\ Op = "ASSERT_ACCEPT"
  BY DEF AssertAccept, Exec
<1>2. Running /\ Settled
  BY <1>1 DEF Running, Settled
<1>3. ~NoAssertAccept
  BY <1>1, <1>2, TopFacts DEF NoAssertAccept, Op
<1> QED BY <1>2, <1>3, FailingFits DEF AssertAccept

\* The end of the pattern, or an *ACCEPT outside recursions.
LEMMA EndFits == ASSUME IInv, CapturesFit, End PROVE CapturesFit'
<1> DEFINE m == [Used(mb, F.eptr) EXCEPT !.end_match_ptr = F.eptr, !.end_offset_top = F.offset_top,
                                         !.mark = F.mark]
<1>1. Running /\ Settled
  BY DEF End, Exec, Running, Settled
<1>2. \/ RRETURN(F, "NOMATCH") \/ Return(mb, "NOMATCH") \/ Return(m, "MATCH")
      \/ Return(mb, "BAD_BACKSLASH_K")
  BY DEF End
<1> HIDE DEF m
<1> QED BY <1>1, <1>2, GoingBackFits, ReturnFits

\* The frame of the innermost call goes on with its own captures.
LEMMA AcceptRecursionFits == ASSUME IInv, CapturesFit, AcceptRecursion PROVE CapturesFit'
<1> DEFINE calls == {o \in GroupChain : frames[o].group_frame_type[1] = "recurse"}
           H(o) == [frames[o-1] EXCEPT !.ecode = @ + 1, !.eptr = F.eptr, !.mark = F.mark,
                                       !.start_match = F.start_match]
<1>1. pc = "match"
  BY DEF AcceptRecursion, Exec
<1>2. Running /\ Settled
  BY <1>1 DEF Running, Settled
<1>3. \/ Return(mb, "INTERNAL")
      \/ \E o \in calls : ContinueIn(Append(SubSeq(frames, 1, o - 2), H(o)), mb)
  BY DEF AcceptRecursion
<1>4. CASE Return(mb, "INTERNAL")
  BY <1>2, <1>4, ReturnFits
<1>5. ASSUME NEW o \in calls, ContinueIn(Append(SubSeq(frames, 1, o - 2), H(o)), mb)
      PROVE  CapturesFit'
  <2> DEFINE n == Len(frames)
             k == o - 1
             P == frames[o-1]
             W == H(o)
             fs == SubSeq(frames, 1, o - 2)
             gs == Append(fs, W)
  <2>1. /\ IsSeq(frames) /\ n \in Nat /\ n > 0 /\ Stacked(code, frames, Around)
        /\ \A i \in 1..n : Shaped(frames[i])
    BY <1>2, TopFacts
  <2>2. o \in 1..n /\ frames[o].group_frame_type[1] = "recurse"
    BY <2>1, SeqFacts DEF GroupChain
  <2>3. Typed(frames, o)
    BY <2>1, <2>2 DEF Stacked, Below, Placed
  <2>4. frames[o].group_frame_type # NOGROUP
    BY <2>2 DEF NOGROUP
  <2>5. o > 1
    BY <2>3, <2>4 DEF Typed
  <2>6. k \in 1..(n-1) /\ Shaped(P) /\ o = k + 1 /\ o - 2 = k - 1
    BY <2>1, <2>2, <2>5
  <2>7. W.last_group = P.last_group /\ W.offset_top = P.offset_top /\ W.ovector = P.ovector
    BY <2>6 DEF Shaped, FrameFields
  <2> HIDE DEF W
  <2>8. IsSeq(fs) /\ Len(fs) = k - 1 /\ \A i \in 1..(k-1) : fs[i] = frames[i]
    <3>1. o - 2 \in 0..Len(frames)
      BY <2>6
    <3> QED BY <2>1, <2>6, <3>1, PrefixFacts
  <2> HIDE DEF fs
  <2>9. Len(gs) = k /\ gs[k] = W /\ \A i \in 1..(k-1) : gs[i] = frames[i]
    <3>1. Len(gs) = Len(fs) + 1 /\ gs[Len(fs) + 1] = W /\ \A i \in 1..Len(fs) : gs[i] = fs[i]
      BY <2>8, AppendFacts
    <3>2. Len(fs) + 1 = k
      BY <2>6, <2>8
    <3> HIDE DEF gs, k
    <3> QED BY <2>8, <3>1, <3>2
  <2>10. ContinueIn(gs, mb)
    BY <1>5 DEF W, fs
  <2> HIDE DEF gs
  <2>11. ASSUME NoAssertAccept PROVE WaitersFit(code, gs, k - 1, "NOMATCH") /\ RunnerFits(gs)
    <3>1. WaitersFit(code, frames, n - 1, "NOMATCH")
      BY <1>2, <2>11, AllSettled
    <3>2. Covered(P) /\ ChainedAt(frames, k) /\ Grows(frames, k)
      BY <2>6, <3>1 DEF WaitersFit
    <3>3. WaitersFit(code, gs, k - 1, "NOMATCH")
      <4>1. n - 1 \in Nat /\ k - 1 \in Nat /\ k - 1 <= n - 1 /\ SameUpTo(frames, gs, k - 1)
        BY <2>1, <2>6, <2>9 DEF SameUpTo
      <4> QED BY ONLY <3>1, <4>1, FewerWait
    <3>4. Covered(W)
      BY <2>7, <3>2 DEF Covered
    <3>5. ChainedAt(gs, k) /\ Grows(gs, k)
      <4>1. CASE P.last_group = 0
        BY <2>7, <2>9, <4>1 DEF ChainedAt, Grows
      <4>2. CASE P.last_group # 0
        <5>1. P.last_group \in 2..k /\ P.offset_top >= frames[P.last_group - 1].offset_top
          BY <3>2, <4>2 DEF ChainedAt, Grows
        <5>2. gs[P.last_group - 1] = frames[P.last_group - 1]
          <6> DEFINE q == P.last_group - 1
          <6> HIDE DEF k, P
          <6>1. q \in 1..(k - 1)
            BY <2>6, <5>1
          <6> QED BY <2>9, <6>1
        <5> QED BY <2>7, <2>9, <5>1, <5>2 DEF ChainedAt, Grows
      <4> QED BY <4>1, <4>2
    <3> QED BY <2>9, <3>3, <3>4, <3>5 DEF RunnerFits
  <2>12. NoAssertAccept => rrc # "ACCEPT"
    BY DEF CapturesFit
  <2> HIDE DEF k
  <2> QED BY <2>9, <2>10, <2>11, <2>12, ContinueFits
<1> QED BY <1>3, <1>4, <1>5

-----------------------------------------------------------------------------
(***************************************************************************)
(* The captures from one starting point to the next.                       *)
(***************************************************************************)
\* No frame is left.
LEMMA NoFramesFit ==
  ASSUME CapturesFit, input' = input, frames' = << >>, pc' \notin {"match", "return"},
         rrc' # "ACCEPT" \/ rrc' = rrc
  PROVE  CapturesFit'
BY DEF CapturesFit, NoAssertAccept, code

\* The first frame has no capture set.
LEMMA StartMatchFits == ASSUME IInv, CapturesFit, StartMatch PROVE CapturesFit'
<1> DEFINE at == Starting.start
           G == FirstFrame(at)
           fs == <<G>>
<1>1. /\ input' = input /\ frames' = fs
      /\ pc' \in {"match", "result"} /\ rrc' \in {rrc, "MATCHLIMIT", "DEPTHLIMIT"}
  BY DEF StartMatch
<1>2. G.offset_top = 0 /\ G.last_group = 0 /\ G.ovector = [n \in 1..CaptureCount |-> UNSET]
  BY DEF FirstFrame
<1> HIDE DEF G
<1>3. Covered(G)
  BY <1>2 DEF Covered
<1>4. Len(fs) = 1 /\ fs[1] = G
  OBVIOUS
<1> HIDE DEF fs
<1>5. WaitersFit(code, fs, Len(fs) - 1, "NOMATCH")
  BY <1>4 DEF WaitersFit
<1>6. RunnerFits(fs)
  BY <1>2, <1>3, <1>4 DEF RunnerFits, ChainedAt, Grows
<1>7. \A i \in 1..Len(fs) : Covered(fs[i])
  BY <1>3, <1>4
<1>8. code' = code /\ (NoAssertAccept' <=> NoAssertAccept)
  BY <1>1 DEF code, NoAssertAccept
<1>9. CaptureCount' = CaptureCount
  BY <1>8 DEF CaptureCount
<1>10. /\ WaitersFit(code, frames, Len(frames) - 1, "NOMATCH")' /\ RunnerFits(frames)'
       /\ (\A i \in 1..Len(frames) : Covered(frames[i]))'
  BY <1>1, <1>5, <1>6, <1>7, <1>8, <1>9 DEF WaitersFit, RunnerFits, Covered, ChainedAt, Grows, Awaited
<1> QED BY <1>1, <1>8, <1>10 DEF CapturesFit

\* No attempt is left.
LEMMA NoStartFits == ASSUME IInv, CapturesFit, NoStart PROVE CapturesFit'
<1>1. /\ input' = input /\ frames' = frames /\ pc = "bumpalong" /\ pc' = "break" /\ rrc' = "NOMATCH"
  BY DEF NoStart
<1>2. code' = code /\ (NoAssertAccept' <=> NoAssertAccept)
  BY <1>1 DEF code, NoAssertAccept
<1>3. CaptureCount' = CaptureCount
  BY <1>2 DEF CaptureCount
<1> QED BY <1>1, <1>2, <1>3 DEF CapturesFit, Covered

\* The invariant is kept by every step, component by component.
LEMMA CharactersFit == ASSUME IInv, CapturesFit, Characters PROVE CapturesFit'
BY ItemFits, RepeatFits, RM25Fits, RM27Fits, RefFits, RM20Fits, RM21Fits DEF Characters

\* The same for tests of the position.
LEMMA PositionsFit == ASSUME IInv, CapturesFit, Positions PROVE CapturesFit'
BY CircFits, DollFits, WordBoundaryFits, SetSomFits, MoveBackFits, MoveBackAtMostFits,
   RM37Fits DEF Positions

\* The same for groups.
LEMMA GroupsFit == ASSUME IInv, CapturesFit, Groups PROVE CapturesFit'
BY LeavingOutFits, RM9Fits, BraPosFits, RM8Fits, BraFits, RM1Fits, RM2Fits DEF Groups

\* The same for calls.
LEMMA RecursionsFit == ASSUME IInv, CapturesFit, Recursions PROVE CapturesFit'
BY RecursionFits, RM11Fits DEF Recursions

\* The same for assertions.
LEMMA AssertionStepsFit == ASSUME IInv, CapturesFit, AssertionSteps PROVE CapturesFit'
BY AssertionFits, RM3Fits, RM4Fits, ScsFits, RM38Fits, RM39Fits DEF AssertionSteps

\* The same for conditional groups.
LEMMA ConditionsFit == ASSUME IInv, CapturesFit, Conditions PROVE CapturesFit'
BY CondFits, RM5Fits, RM39Fits DEF Conditions

\* The same for the ends of branches, groups and the pattern.
LEMMA EndsFit == ASSUME IInv, CapturesFit, Ends PROVE CapturesFit'
BY AlternationFits, KetFailsFits, KetCondAssertFits, KetRecursionFits, KetAssertNaFits,
   KetAtomicFits, KetScsFits, KetCaptureFits, KetPlainFits, RM6Fits, RM7Fits, CloseFits,
   AssertAcceptFits, AcceptRecursionFits, EndFits DEF Ends

\* The same for verbs.
LEMMA VerbStepsFit == ASSUME IInv, CapturesFit, VerbSteps PROVE CapturesFit'
BY MarkFits, RM12Fits, BacktrackVerbFits, SkipArgFits, VerbTriggeredFits, FailFits DEF VerbSteps

\* The same for the driver.
LEMMA DriverFits == ASSUME IInv, CapturesFit, Driver PROVE CapturesFit'
<1>1. CASE Bumpalong
  BY <1>1, NoFramesFit DEF Bumpalong
<1>2. CASE EndLoop
  BY <1>2, NoFramesFit DEF EndLoop
<1> QED BY <1>1, <1>2, StartMatchFits, NoStartFits DEF Driver

\* No capture is set above offset_top, in any frame, for every nested code without *ACCEPT
\* in an assertion.
THEOREM CapturesAreCovered == Spec => []CapturesCovered
<1>1. Init => CapturesFit
  BY DEF Init, CapturesFit
<1>2. IInv /\ CapturesFit /\ [Next]_vars => CapturesFit'
  <2>1. ASSUME IInv, CapturesFit, Next PROVE CapturesFit'
    BY <2>1, CharactersFit, PositionsFit, GroupsFit, RecursionsFit, AssertionStepsFit,
       ConditionsFit, EndsFit, VerbStepsFit, DriverFits DEF Next
  <2>2. ASSUME CapturesFit, UNCHANGED vars PROVE CapturesFit'
    <3>1. input' = input /\ pc' = pc /\ frames' = frames /\ rrc' = rrc
      BY <2>2 DEF vars
    <3>2. code' = code /\ (NoAssertAccept' <=> NoAssertAccept)
      BY <3>1 DEF code, NoAssertAccept
    <3>3. CaptureCount' = CaptureCount
      BY <3>2 DEF CaptureCount
    <3> QED BY <2>2, <3>1, <3>2, <3>3 DEF CapturesFit, WaitersFit, RunnerFits, Covered, ChainedAt,
           Grows, Awaited
  <2> QED BY <2>1, <2>2
<1>3. IInv /\ CapturesFit => CapturesCovered
  <2> SUFFICES ASSUME IInv, CapturesFit, NoAssertAccept, NEW i \in 1..Len(frames)
               PROVE  Covered(frames[i])
    BY DEF CapturesCovered, NoAssertAccept, Covered
  <2>1. CASE pc = "match"
    <3>1. Len(frames) \in Nat /\ Len(frames) > 0
      BY <2>1, TopFacts DEF Running
    <3>2. i = Len(frames) \/ i \in 1..(Len(frames) - 1)
      BY <3>1
    <3> QED BY <2>1, <3>2 DEF CapturesFit, WaitersFit, RunnerFits
  <2>2. CASE pc = "return"
    BY <2>2 DEF CapturesFit, WaitersFit
  <2>3. CASE pc \notin {"match", "return"}
    BY <2>3 DEF CapturesFit
  <2> QED BY <2>1, <2>2, <2>3
<1>4. Spec => []IInv
  BY FramesStaySound
<1>5. Spec => [](IInv /\ CapturesFit)
  BY <1>1, <1>2, <1>4, PTL DEF Spec
<1> QED BY <1>3, <1>5, PTL
=============================================================================
