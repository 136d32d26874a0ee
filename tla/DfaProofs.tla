------------------------------ MODULE DfaProofs ------------------------------
(***************************************************************************)
(* Proofs about internal_dfa_match(), for every code that never leads out  *)
(* of a bracket but by its ket, every subject, all options and limits: the *)
(* states of a call stay inside its bracket, the limits hold, and what the *)
(* compatibility query accepts meets nothing that is not supported.        *)
(***************************************************************************)
EXTENDS DfaStates, SequenceLemmas

-----------------------------------------------------------------------------
(***************************************************************************)
(* The branches of a bracket.                                              *)
(***************************************************************************)
\* The links from branch to branch lead to brackets and OP_ALTs.
LEMMA BranchesAreHeads ==
  ASSUME NEW c, Followable(c), NEW b \in BranchHeads(c)
  PROVE  BranchesOf(c, b) \in Seq(BranchHeads(c))
<1> DEFINE H == BranchHeads(c)
           n == Len(c)
           D(k) == {j \in H : j > n - k}
           next(j) == NextBranch(c, j)
           F(f, k) == [j \in D(k) |-> <<j>> \o (IF IsAlt(c, next(j)) THEN f[next(j)] ELSE <<>>)]
           All(f) == [j \in H |-> <<j>> \o (IF IsAlt(c, next(j)) THEN f[next(j)] ELSE <<>>)]
           from == CHOOSE f : f = All(f)
<1>1. n \in Nat /\ H \subseteq 1..n /\ D(n) = H
  BY DEF Followable, BranchHeads
<1>2. \A j \in H : next(j) \in (j + 1)..n /\ (IsAlt(c, next(j)) => next(j) \in H)
  <2> TAKE j \in H
  <2>1. next(j) \in (j + 1)..n /\ DOMAIN c = 1..n
    BY DEF Followable
  <2>2. next(j) \in DOMAIN c
    BY <1>1, <2>1
  <2> QED BY <2>1, <2>2 DEF IsAlt, BranchHeads
<1>3. BranchesOf(c, b) = from[b]
  BY DEF BranchesOf
<1> HIDE DEF next, H
<1>4. \A k \in Nat : \A j \in D(k + 1) : j \in H /\ (IsAlt(c, next(j)) => next(j) \in D(k))
  BY <1>1, <1>2
<1>5. \A k \in Nat : \E f : f = F(f, k)
  <2> DEFINE T == {k \in Nat : \E f : f = F(f, k)}
  <2>1. 0 \in T
    <3>1. D(0) = {}
      <4>1. \A j \in H : ~(j > n - 0)
        BY <1>1
      <4> QED BY <4>1
    <3> DEFINE f == [j \in {} |-> j]
    <3>2. f = F(f, 0)
      BY <3>1
    <3> QED BY <3>2
  <2>2. ASSUME NEW k \in Nat, k \in T
        PROVE  k + 1 \in T
    <3>1. PICK f : f = F(f, k)
      BY <2>2
    <3> DEFINE g == F(f, k + 1)
               step(h, j) == <<j>> \o (IF IsAlt(c, next(j)) THEN h[next(j)] ELSE <<>>)
    <3>2. \A j \in D(k + 1) : g[j] = step(f, j)
      OBVIOUS
    <3>3. \A j \in D(k) : f[j] = F(f, k)[j]
      BY <3>1
    <3>4. \A j \in D(k) : f[j] = step(f, j)
      BY <3>3
    <3>5. \A j \in D(k) : j \in D(k + 1)
      BY <1>1
    <3> HIDE DEF g
    <3>6. \A j \in D(k) : g[j] = f[j]
      BY <3>2, <3>4, <3>5
    <3>7. \A j \in D(k + 1) : step(g, j) = step(f, j)
      BY <1>4, <3>6
    <3>8. g = F(g, k + 1)
      <4>1. g = [j \in D(k + 1) |-> g[j]]
        BY DEF g
      <4>2. F(g, k + 1) = [j \in D(k + 1) |-> g[j]]
        BY <3>2, <3>7
      <4> QED BY <4>1, <4>2
    <3> HIDE DEF F
    <3> QED BY <3>8
  <2> HIDE DEF T
  <2>3. \A k \in Nat : k \in T
    <3>1. T \in SUBSET Nat
      BY DEF T
    <3> QED BY <2>1, <2>2, <3>1, SetInduction
  <2> QED BY <2>3 DEF T
<1>6. from = F(from, n)
  <2>1. \A f : F(f, n) = All(f)
    BY <1>1
  <2> HIDE DEF F, All
  <2>2. \E f : f = All(f)
    BY <1>1, <1>5, <2>1
  <2>3. from = All(from)
    BY <2>2
  <2> QED BY <2>1, <2>3
<1> HIDE DEF from
<1>7. \A j \in H : from[j] = <<j>> \o (IF IsAlt(c, next(j)) THEN from[next(j)] ELSE <<>>)
  BY <1>1, <1>6
<1>8. \A k \in Nat : \A j \in D(k) : from[j] \in Seq(H)
  <2> DEFINE T == {k \in Nat : \A j \in D(k) : from[j] \in Seq(H)}
  <2>1. 0 \in T
    BY <1>1
  <2>2. ASSUME NEW k \in Nat, k \in T
        PROVE  k + 1 \in T
    <3> SUFFICES ASSUME NEW j \in D(k + 1) PROVE from[j] \in Seq(H)
      OBVIOUS
    <3> DEFINE others == IF IsAlt(c, next(j)) THEN from[next(j)] ELSE <<>>
    <3>1. others \in Seq(H)
      BY <1>4, <2>2
    <3>2. <<j>> \in Seq(H) /\ from[j] = <<j>> \o others
      BY <1>4, <1>7
    <3> HIDE DEF others
    <3> QED BY <3>1, <3>2
  <2> HIDE DEF T
  <2>3. \A k \in Nat : k \in T
    <3>1. T \in SUBSET Nat
      BY DEF T
    <3> QED BY <2>1, <2>2, <3>1, SetInduction
  <2> QED BY <2>3 DEF T
<1>9. b \in D(n)
  BY <1>1 DEF H
<1>10. from[b] \in Seq(H)
  BY <1>1, <1>8, <1>9
<1> QED BY <1>3, <1>10 DEF H

-----------------------------------------------------------------------------
(***************************************************************************)
(* Lists of states.                                                        *)
(***************************************************************************)
\* A list of states of which each is inside the bracket.
LEMMA StatesAre ==
  ASSUME NEW c, NEW b, NEW S, \A s \in S : StateIn(c, b, s), NEW list \in Seq(S)
  PROVE  StatesIn(c, b, list)
<1>1. IsSeq(list)
  BY SeqIsSeq
<1>2. \A k \in 1..Len(list) : list[k] \in S
  OBVIOUS
<1> QED BY <1>1, <1>2 DEF StatesIn

\* The other way round.
LEMMA StatesHave ==
  ASSUME NEW c, NEW b, NEW list, StatesIn(c, b, list)
  PROVE  \E S : list \in Seq(S) /\ \A s \in S : StateIn(c, b, s)
<1> DEFINE S == {list[k] : k \in DOMAIN list}
<1>1. list \in Seq(S) /\ DOMAIN list = 1..Len(list)
  BY SeqFacts DEF StatesIn, IsSeq
<1>2. \A s \in S : StateIn(c, b, s)
  BY <1>1 DEF StatesIn
<1> QED BY <1>1, <1>2

\* Lists put together.
LEMMA StatesConcat ==
  ASSUME NEW c, NEW b, NEW x, NEW y, StatesIn(c, b, x), StatesIn(c, b, y)
  PROVE  StatesIn(c, b, x \o y) /\ Len(x \o y) = Len(x) + Len(y) /\ Len(x) \in Nat /\ Len(y) \in Nat
<1>1. PICK S : x \in Seq(S) /\ \A s \in S : StateIn(c, b, s)
  BY StatesHave
<1>2. PICK T : y \in Seq(T) /\ \A s \in T : StateIn(c, b, s)
  BY StatesHave
<1>3. x \in Seq(S \cup T) /\ y \in Seq(S \cup T)
  BY <1>1, <1>2
<1>4. x \o y \in Seq(S \cup T) /\ Len(x \o y) = Len(x) + Len(y) /\ Len(x) \in Nat /\ Len(y) \in Nat
  BY <1>3
<1>5. \A s \in S \cup T : StateIn(c, b, s)
  BY <1>1, <1>2
<1> QED BY <1>4, <1>5, StatesAre

\* No states; one state, held off or not.
LEMMA NoStates == ASSUME NEW c, NEW b PROVE StatesIn(c, b, <<>>) /\ Len(<<>>) = 0
<1>1. <<>> \in Seq({}) /\ \A s \in {} : StateIn(c, b, s)
  OBVIOUS
<1> QED BY <1>1, StatesAre

LEMMA OneOfStates ==
  ASSUME NEW c, NEW b, NEW s, StateIn(c, b, s)
  PROVE  StatesIn(c, b, <<s>>) /\ Len(<<s>>) = 1
<1>1. <<s>> \in Seq({s}) /\ \A t \in {s} : StateIn(c, b, t)
  OBVIOUS
<1> QED BY <1>1, StatesAre

LEMMA StateAt ==
  ASSUME NEW c, NEW b \in Nat, NEW i \in Inside(c, b), NEW n
  PROVE  StateIn(c, b, Active(i)) /\ StateIn(c, b, State(i, n)) /\ StateIn(c, b, HeldOff(i, n))
<1>1. i \in Int /\ i > 0
  BY DEF Inside
<1> QED BY <1>1 DEF StateIn, At, Active, State, HeldOff

LEMMA OneState ==
  ASSUME NEW c, NEW b \in Nat, NEW i \in Inside(c, b), NEW n
  PROVE  /\ StatesIn(c, b, <<Active(i)>>) /\ StatesIn(c, b, <<State(i, n)>>) /\ StatesIn(c, b, <<HeldOff(i, n)>>)
         /\ Len(<<Active(i)>>) = 1 /\ Len(<<State(i, n)>>) = 1 /\ Len(<<HeldOff(i, n)>>) = 1
BY StateAt, OneOfStates

\* A state that is no longer held off, in its list.
LEMMA StatesReplace ==
  ASSUME NEW c, NEW b \in Nat, NEW list, StatesIn(c, b, list), NEW i \in 1..Len(list)
  PROVE  LET new == [list EXCEPT ![i].offset = At(list[i])]
         IN  StatesIn(c, b, new) /\ Len(new) = Len(list) /\ At(new[i]) = At(list[i])
<1> DEFINE state == [list[i] EXCEPT !.offset = At(list[i])]
           new   == [list EXCEPT ![i].offset = At(list[i])]
<1>1. IsSeq(list) /\ Len(list) \in Nat /\ \A k \in 1..Len(list) : StateIn(c, b, list[k])
  BY SeqFacts DEF StatesIn
<1>2. StateIn(c, b, state) /\ At(state) = At(list[i])
  BY <1>1 DEF StateIn, At, Inside
<1>3. new = [list EXCEPT ![i] = state]
  OBVIOUS
<1>4. LET t == [list EXCEPT ![i] = state]
      IN  IsSeq(t) /\ Len(t) = Len(list) /\ t[i] = state /\ \A k \in 1..Len(list) : k # i => t[k] = list[k]
  <2> HIDE DEF state
  <2> QED BY <1>1, ExceptFacts
<1> HIDE DEF new, state
<1>5. IsSeq(new) /\ Len(new) = Len(list) /\ new[i] = state /\ \A k \in 1..Len(list) : k # i => new[k] = list[k]
  BY <1>3, <1>4
<1>6. StatesIn(c, b, new)
  BY <1>1, <1>2, <1>5 DEF StatesIn
<1> QED BY <1>2, <1>5, <1>6 DEF new

\* Lists of states in a list.
LEMMA FlattenStates ==
  ASSUME NEW c, NEW b, NEW lists, IsSeq(lists),
         \A k \in DOMAIN lists : StatesIn(c, b, lists[k])
  PROVE  StatesIn(c, b, FlattenSeq(lists))
<1> DEFINE S == UNION {{lists[k][j] : j \in DOMAIN lists[k]} : k \in DOMAIN lists}
<1>1. DOMAIN lists = 1..Len(lists) /\ Len(lists) \in Nat /\ lists \in Seq({lists[k] : k \in DOMAIN lists})
  BY SeqFacts DEF IsSeq
<1>2. \A k \in DOMAIN lists : lists[k] \in Seq(S)
  <2> TAKE k \in DOMAIN lists
  <2>1. lists[k] \in Seq({lists[k][j] : j \in DOMAIN lists[k]})
    BY DEF StatesIn, IsSeq
  <2>2. {lists[k][j] : j \in DOMAIN lists[k]} \subseteq S
    OBVIOUS
  <2> HIDE DEF S
  <2> QED BY <2>1, <2>2
<1>3. \A s \in S : StateIn(c, b, s)
  <2> SUFFICES ASSUME NEW k \in DOMAIN lists, NEW j \in DOMAIN lists[k] PROVE StateIn(c, b, lists[k][j])
    OBVIOUS
  <2>1. DOMAIN lists[k] = 1..Len(lists[k])
    BY SeqFacts DEF StatesIn
  <2> QED BY <2>1 DEF StatesIn
<1> HIDE DEF S
<1>4. {lists[k] : k \in DOMAIN lists} \subseteq Seq(S)
  BY <1>2
<1>5. lists \in Seq(Seq(S))
  BY <1>1, <1>4
<1> QED BY <1>3, <1>5, FlattenIsSeq, StatesAre

\* A list made for each element of a sequence.
LEMMA MadeIsSeq == ASSUME NEW s, IsSeq(s), NEW f, DOMAIN f = DOMAIN s, f = [k \in DOMAIN f |-> f[k]] PROVE IsSeq(f)
<1>1. DOMAIN f = 1..Len(s) /\ Len(s) \in Nat
  BY SeqFacts
<1>2. f \in [1..Len(s) -> {f[k] : k \in DOMAIN f}]
  BY <1>1
<1>3. f \in Seq({f[k] : k \in DOMAIN f})
  BY <1>1, <1>2, SeqDef
<1> QED BY <1>3 DEF IsSeq

-----------------------------------------------------------------------------
(***************************************************************************)
(* The call and its state.                                                 *)
(***************************************************************************)
\* What the invariant says of the code and of the calls in progress.
LEMMA InProgress ==
  ASSUME IInv, pc \in {"state", "return"}
  PROVE  /\ Followable(code) /\ Stack(code, calls) /\ Running(options, calls, mb)
         /\ IsSeq(calls) /\ Len(calls) \in Nat /\ Len(calls) > 0 /\ C = calls[Len(calls)]
         /\ Sound(code, C) /\ Fits(C, 0, 0)
         /\ C.start \in Called(code) /\ C.start \in Nat
         /\ Len(calls) > 1 => C.pairs > 0
         /\ options.match_limit \in Nat /\ options.depth_limit \in Nat
         /\ mb.match_call_count \in Nat
<1>1. Inductive(input, pc, calls, mb, ret, restart)
  BY DEF IInv
<1>2. Followable(code)
  BY <1>1, CodeAssumption DEF Inductive, code
<1>3. Stack(code, calls) /\ Running(options, calls, mb)
  BY <1>1 DEF Inductive, code, options
<1>4. IsSeq(calls) /\ Len(calls) > 0 /\ Len(calls) \in Nat
  BY <1>3, SeqFacts DEF Stack
<1>5. C = calls[Len(calls)]
  BY DEF C, Last
<1>6. Sound(code, C) /\ Fits(C, 0, 0) /\ (Len(calls) > 1 => C.pairs > 0)
  BY <1>3, <1>4, <1>5 DEF Stack, Running
<1>7. C.start \in Called(code) /\ C.start \in Nat
  BY <1>2, <1>6 DEF Sound, Shaped, Called, Followable
<1>8. options.match_limit \in Nat /\ options.depth_limit \in Nat /\ mb.match_call_count \in Nat
  BY <1>1, LimitAssumption DEF Inductive, options
<1> QED BY <1>2, <1>3, <1>4, <1>5, <1>6, <1>7, <1>8

\* The state a call is at, or waits at.
LEMMA AtState ==
  ASSUME IInv, Scanning \/ pc = "return"
  PROVE  /\ pc \in {"state", "return"}
         /\ C.i \in 1..Len(C.active) /\ StateIn(code, C.start, Current) /\ Here = At(Current)
         /\ Here \in Inside(code, C.start) /\ Here \in 1..(Len(code) - 1)
         /\ Op.op \in Opcodes \ NotAnItem
         /\ Op.op \notin Kets => Here # KetOf(code, C.start)
         /\ pc = "return" => Waits(code, C) /\ MakesCall(code, Here)
<1>1. pc \in {"state", "return"}
  BY DEF Scanning
<1>2. Shaped(code, C) /\ C.i \in Nat /\ C.i > 0 /\ Followable(code) /\ C.start \in Called(code) /\ C.start \in Nat
  BY <1>1, InProgress DEF Sound, Shaped
<1>3. pc = "return" => Waits(code, C)
  BY <1>1, InProgress DEF IInv, Inductive, Answer, code
<1>4. C.i <= Len(C.active)
  BY <1>3 DEF Scanning, Waits
<1>5. IsSeq(C.active) /\ \A k \in 1..Len(C.active) : StateIn(code, C.start, C.active[k])
  BY <1>2 DEF Shaped, StatesIn
<1>6. Len(C.active) \in Nat
  BY <1>5, SeqFacts
<1>7. C.i \in 1..Len(C.active)
  BY <1>2, <1>4, <1>6
<1>8. StateIn(code, C.start, Current)
  BY <1>5, <1>7 DEF Current
<1>9. Here = At(Current)
  BY DEF Here, At
<1>10. Here \in Inside(code, C.start)
  BY <1>8, <1>9 DEF StateIn
<1>11. Closed(code, C.start) /\ Len(code) \in Nat /\ DOMAIN code = 1..Len(code)
  BY <1>2 DEF Followable
<1>12. Here \in 1..(Len(code) - 1)
  BY <1>2, <1>10, <1>11 DEF Closed, Inside
<1>13. Op.op \in Opcodes \ NotAnItem
  BY <1>2, <1>10, <1>11, <1>12 DEF Op, Followable, Inside
<1>14. Op.op \notin Kets => Here # KetOf(code, C.start)
  BY <1>11 DEF Op, Closed
<1>15. pc = "return" => Waits(code, C) /\ MakesCall(code, Here)
  BY <1>3, <1>9 DEF Waits, Current
<1> QED BY <1>1, <1>7, <1>8, <1>9, <1>10, <1>12, <1>13, <1>14, <1>15

\* A record of a call that goes on in the same bracket, once `new' are added.
Continues(G, new) ==
  /\ Shaped(code, G) /\ G.start = C.start /\ G.pairs = C.pairs
  /\ Remembered(G) \/ (G.started <= Len(G.lost) /\ Len(new) > 0)

\* The call at its state: its fields other than those of the state.
LEMMA NowContinues ==
  ASSUME IInv, Scanning \/ pc = "return"
  PROVE  /\ Continues(Now, <<>>) /\ Fits(Now, 0, 0)
         /\ Now.i = C.i /\ Now.matches = C.matches /\ Len(Now.active) = Len(C.active) /\ Now.new = C.new
         /\ At(Now.active[C.i]) = Here
<1>1. Sound(code, C) /\ Fits(C, 0, 0) /\ C.start \in Nat
  BY AtState, InProgress
<1>2. C.i \in 1..Len(C.active) /\ Here = At(C.active[C.i])
  BY AtState DEF Current
<1> DEFINE list == [C.active EXCEPT ![C.i].offset = Here]
<1>3. StatesIn(code, C.start, list) /\ Len(list) = Len(C.active) /\ At(list[C.i]) = Here
  <2>1. StatesIn(code, C.start, C.active)
    BY <1>1 DEF Sound, Shaped
  <2>2. LET new == [C.active EXCEPT ![C.i].offset = At(C.active[C.i])]
        IN  StatesIn(code, C.start, new) /\ Len(new) = Len(C.active) /\ At(new[C.i]) = At(C.active[C.i])
    BY <1>1, <1>2, <2>1, StatesReplace
  <2> QED BY <1>2, <2>2
<1>4. /\ DOMAIN Now = CallFields /\ Now.active = list
      /\ Now.start = C.start /\ Now.end = C.end /\ Now.new = C.new /\ Now.lost = C.lost /\ Now.i = C.i
      /\ Now.started = C.started /\ Now.pairs = C.pairs /\ Now.states = C.states
      /\ Now.matches = C.matches /\ Now.matched = C.matched
  BY <1>1 DEF Now, Sound, Shaped, CallFields
<1> HIDE DEF list
<1>5. Shaped(code, Now)
  BY <1>1, <1>3, <1>4 DEF Sound, Shaped
<1>6. Remembered(Now) /\ Fits(Now, 0, 0)
  BY <1>1, <1>3, <1>4 DEF Sound, Remembered, Fits
<1> QED BY <1>3, <1>4, <1>5, <1>6 DEF Continues

\* So does the call as it is.
LEMMA CContinues == ASSUME IInv, pc \in {"state", "return"} PROVE Continues(C, <<>>) /\ Fits(C, 0, 0)
BY InProgress DEF Continues, Sound

-----------------------------------------------------------------------------
(***************************************************************************)
(* The stack of calls.                                                     *)
(***************************************************************************)
\* The innermost call replaced.
LEMMA StackReplaced ==
  ASSUME NEW c, NEW cs, Stack(c, cs), NEW H, Sound(c, H),
         H.start = cs[Len(cs)].start, H.pairs = cs[Len(cs)].pairs,
         NEW o, NEW m, Running(o, cs, m), Fits(H, 0, 0), NEW m2, m2.match_call_count <= o.match_limit
  PROVE  LET t == [cs EXCEPT ![Len(cs)] = H]
         IN  Stack(c, t) /\ Running(o, t, m2) /\ Len(t) = Len(cs) /\ t[Len(cs)] = H
<1> DEFINE n == Len(cs)
           t == [cs EXCEPT ![n] = H]
<1>1. IsSeq(cs) /\ n \in Nat /\ n > 0 /\ n \in 1..n
  BY SeqFacts DEF Stack
<1>2. IsSeq(t) /\ Len(t) = n /\ t[n] = H /\ \A k \in 1..n : k # n => t[k] = cs[k]
  BY <1>1, ExceptFacts
<1> HIDE DEF t
<1>3. \A k \in 1..n : Sound(c, t[k]) /\ (k > 1 => t[k].pairs > 0) /\ Fits(t[k], 0, 0)
  <2> TAKE k \in 1..n
  <2>1. Sound(c, cs[k]) /\ (k > 1 => cs[k].pairs > 0) /\ Fits(cs[k], 0, 0)
    BY DEF Stack, Running
  <2>2. CASE k = n
    BY <1>2, <2>1, <2>2
  <2>3. CASE k # n
    BY <1>2, <2>1, <2>3
  <2> QED BY <2>2, <2>3
<1>4. t[1].start = 1
  BY <1>1, <1>2 DEF Stack
<1>5. \A k \in 1..(n - 1) : Waits(c, t[k])
  BY <1>1, <1>2 DEF Stack
<1>6. Stack(c, t)
  BY <1>1, <1>2, <1>3, <1>4, <1>5 DEF Stack
<1>7. Running(o, t, m2)
  BY <1>1, <1>2, <1>3 DEF Running
<1> QED BY <1>2, <1>6, <1>7 DEF t

\* The innermost call gone.
LEMMA StackPopped ==
  ASSUME NEW c, NEW cs, Stack(c, cs), Len(cs) # 1,
         NEW o, o.depth_limit \in Nat, NEW m, Running(o, cs, m)
  PROVE  LET t == SubSeq(cs, 1, Len(cs) - 1) IN Stack(c, t) /\ Running(o, t, m) /\ Waits(c, t[Len(t)])
<1> DEFINE n == Len(cs)
           t == SubSeq(cs, 1, n - 1)
<1>1. IsSeq(cs) /\ n \in Nat /\ n > 1 /\ n - 1 \in 0..n
  <2>1. IsSeq(cs) /\ n > 0
    BY DEF Stack
  <2>2. n \in Nat /\ n # 1
    BY <2>1, SeqFacts
  <2>3. \A j \in Nat : j > 0 /\ j # 1 => j > 1 /\ j - 1 \in 0..j
    OBVIOUS
  <2> HIDE DEF n
  <2> QED BY <2>1, <2>2, <2>3
<1>2. IsSeq(t) /\ Len(t) = n - 1 /\ \A k \in 1..(n - 1) : t[k] = cs[k]
  BY <1>1, PrefixFacts
<1> HIDE DEF t
<1>3. \A k \in 1..(n - 1) : /\ Sound(c, t[k]) /\ (k > 1 => t[k].pairs > 0) /\ Fits(t[k], 0, 0)
                            /\ Waits(c, t[k])
  BY <1>1, <1>2 DEF Stack, Running
<1>4. t[1].start = 1
  BY <1>1, <1>2 DEF Stack
<1>5. Stack(c, t)
  BY <1>1, <1>2, <1>3, <1>4 DEF Stack
<1>6. Running(o, t, m) /\ Waits(c, t[Len(t)])
  BY <1>1, <1>2, <1>3 DEF Running
<1> QED BY <1>5, <1>6 DEF t

\* A new call, while the innermost waits at its state.
LEMMA StackPushed ==
  ASSUME NEW c, NEW cs, Stack(c, cs), NEW H, Sound(c, H), H.pairs > 0, Fits(H, 0, 0), Waits(c, cs[Len(cs)]),
         NEW o, NEW m, Running(o, cs, m), Len(cs) <= o.depth_limit, o.depth_limit \in Nat,
         NEW m2, m2.match_call_count <= o.match_limit
  PROVE  LET t == Append(cs, H) IN Stack(c, t) /\ Running(o, t, m2)
<1> DEFINE n == Len(cs)
           t == Append(cs, H)
<1>1. IsSeq(cs) /\ n \in Nat /\ n > 0
  BY SeqFacts DEF Stack
<1>2. IsSeq(t) /\ Len(t) = n + 1 /\ t[n + 1] = H /\ \A k \in 1..n : t[k] = cs[k]
  BY <1>1, AppendFacts
<1> HIDE DEF t
<1>3. \A k \in 1..(n + 1) : Sound(c, t[k]) /\ (k > 1 => t[k].pairs > 0) /\ Fits(t[k], 0, 0)
  <2> TAKE k \in 1..(n + 1)
  <2>1. CASE k = n + 1
    BY <1>2, <2>1
  <2>2. CASE k # n + 1
    <3>1. k \in 1..n /\ t[k] = cs[k]
      BY <1>1, <1>2, <2>2
    <3> QED BY <3>1 DEF Stack, Running
  <2> QED BY <2>1, <2>2
<1>4. t[1].start = 1
  BY <1>1, <1>2 DEF Stack
<1>5. \A k \in 1..n : Waits(c, t[k])
  <2> TAKE k \in 1..n
  <2>1. CASE k = n
    BY <1>1, <1>2, <2>1
  <2>2. CASE k # n
    BY <1>1, <1>2, <2>2 DEF Stack
  <2> QED BY <2>1, <2>2
<1>6. Stack(c, t)
  BY <1>1, <1>2, <1>3, <1>4, <1>5 DEF Stack
<1>7. Running(o, t, m2)
  BY <1>1, <1>2, <1>3 DEF Running
<1> QED BY <1>6, <1>7 DEF t

-----------------------------------------------------------------------------
(***************************************************************************)
(* The steps that all the operations consist of.                           *)
(***************************************************************************)
\* Whether the query accepts the code does not change.
LEMMA CompatibleStays == ASSUME input' = input PROVE Compatible' = Compatible /\ code' = code /\ options' = options
BY DEF Compatible, dfa_compatibility, code, options

\* The innermost call goes on with other states.
LEMMA TopReplaced ==
  ASSUME IInv, pc \in {"state", "return"},
         NEW H, Sound(code, H), H.start = C.start, H.pairs = C.pairs, Fits(H, 0, 0),
         pc' = "state", calls' = [calls EXCEPT ![Len(calls)] = H],
         mb'.match_call_count = mb.match_call_count, DOMAIN mb' = DOMAIN mb,
         ret' = ret, UNCHANGED driver
  PROVE  IInv'
<1>1. input' = input /\ restart' = restart /\ result' = result
  BY DEF driver
<1>2. code' = code /\ options' = options /\ Compatible' = Compatible
  BY <1>1, CompatibleStays
<1>3. Stack(code, calls) /\ Running(options, calls, mb) /\ C = calls[Len(calls)]
  BY InProgress
<1>4. Stack(code, calls') /\ Running(options, calls', mb')
  <2>1. mb'.match_call_count <= options.match_limit
    BY <1>3 DEF Running
  <2> QED BY <1>3, <2>1, StackReplaced
<1>5. Inductive(input, pc, calls, mb, ret, restart)
  BY DEF IInv
<1>6. Inductive(input', pc', calls', mb', ret', restart')
  BY <1>1, <1>4, <1>5 DEF Inductive, code, options
<1> QED BY <1>1, <1>2, <1>6 DEF IInv

\* It goes on with the next state, once it has added some.
LEMMA Added ==
  ASSUME IInv, pc \in {"state", "return"},
         NEW G, NEW active, NEW new, Continues(G, new),
         StatesIn(code, C.start, active), StatesIn(code, C.start, new),
         Fits(G, Len(active), Len(new)),
         GoOn([G EXCEPT !.active = @ \o active, !.new = @ \o new]),
         mb'.match_call_count = mb.match_call_count, DOMAIN mb' = DOMAIN mb,
         ret' = ret, UNCHANGED driver
  PROVE  IInv'
<1> DEFINE actives == G.active \o active
           news == G.new \o new
           more == [G EXCEPT !.active = @ \o active, !.new = @ \o new]
           H == [more EXCEPT !.i = @ + 1]
<1>1. Shaped(code, G) /\ G.start = C.start /\ G.pairs = C.pairs
  BY DEF Continues
<1>2. StatesIn(code, C.start, actives) /\ Len(actives) = Len(G.active) + Len(active)
      /\ Len(G.active) \in Nat /\ Len(active) \in Nat
  BY <1>1, StatesConcat DEF Shaped
<1>3. StatesIn(code, C.start, news) /\ Len(news) = Len(G.new) + Len(new)
      /\ Len(G.new) \in Nat /\ Len(new) \in Nat
  BY <1>1, StatesConcat DEF Shaped
<1>4. /\ DOMAIN H = CallFields /\ H.active = actives /\ H.new = news /\ H.i = G.i + 1
      /\ H.start = G.start /\ H.end = G.end /\ H.lost = G.lost
      /\ H.started = G.started /\ H.pairs = G.pairs /\ H.states = G.states
      /\ H.matches = G.matches /\ H.matched = G.matched
  BY <1>1 DEF Shaped, CallFields
<1>5. calls' = [calls EXCEPT ![Len(calls)] = H] /\ pc' = "state"
  BY DEF GoOn
<1> HIDE DEF H, actives, news
<1>6. Shaped(code, H)
  BY <1>1, <1>2, <1>3, <1>4 DEF Shaped
<1>7. Remembered(H)
  <2>1. G.started \in Nat /\ Len(G.lost) \in Nat
    BY <1>1, SeqFacts DEF Shaped, StatesIn
  <2> QED BY <1>2, <1>3, <1>4, <2>1 DEF Remembered, Continues
<1>8. Sound(code, H)
  BY <1>1, <1>4, <1>6, <1>7 DEF Sound, Shaped
<1>9. Fits(H, 0, 0)
  BY SMTT(30), <1>2, <1>3, <1>4 DEF Fits
<1> QED BY <1>1, <1>4, <1>5, <1>8, <1>9, TopReplaced

\* An error, which the calls are left with.
LEMMA StopKeeps ==
  ASSUME IInv, pc \in {"state", "return"}, NEW e, Compatible => e \notin CodeErrors, Stop(e)
  PROVE  IInv'
<1>1. input' = input /\ restart' = restart /\ result' = result /\ calls' = calls /\ mb' = mb
      /\ pc' = "result" /\ ret'.rc = e
  BY DEF driver, Stop, Returned
<1>2. code' = code /\ options' = options /\ Compatible' = Compatible
  BY <1>1, CompatibleStays
<1>3. Inductive(input, pc, calls, mb, ret, restart) /\ Stack(code, calls)
  BY InProgress DEF IInv
<1>4. Inductive(input', pc', calls', mb', ret', restart')
  BY <1>1, <1>3 DEF Inductive, code, options
<1> QED BY <1>1, <1>2, <1>4 DEF IInv

\* An operation that adds states, ...
LEMMA AddKeeps ==
  ASSUME IInv, pc \in {"state", "return"},
         NEW G, NEW active, NEW new, Continues(G, new),
         StatesIn(code, C.start, active), StatesIn(code, C.start, new),
         Add(G, active, new)
  PROVE  IInv'
<1>1. CASE ~Fits(G, Len(active), Len(new))
  BY <1>1, StopKeeps DEF Add, CodeErrors
<1>2. CASE Fits(G, Len(active), Len(new))
  <2>1. /\ GoOn([G EXCEPT !.active = @ \o active, !.new = @ \o new])
        /\ ret' = ret /\ mb' = mb /\ UNCHANGED driver
    BY <1>2 DEF Add
  <2> QED BY <1>2, <2>1, Added
<1> QED BY <1>1, <1>2

\* ... after an inner call too.
LEMMA ResumeKeeps ==
  ASSUME IInv, pc \in {"state", "return"},
         NEW G, NEW active, NEW new, Continues(G, new),
         StatesIn(code, C.start, active), StatesIn(code, C.start, new),
         Resume(G, active, new)
  PROVE  IInv'
<1>1. CASE ~Fits(G, Len(active), Len(new))
  BY <1>1, StopKeeps DEF Resume, CodeErrors
<1>2. CASE Fits(G, Len(active), Len(new))
  <2>1. /\ GoOn([G EXCEPT !.active = @ \o active, !.new = @ \o new])
        /\ ret' = ret /\ mb' = mb /\ UNCHANGED driver
    BY <1>2 DEF Resume
  <2> QED BY <1>2, <2>1, Added
<1> QED BY <1>1, <1>2

\* An operation on the current state that adds active ones.
LEMMA AddActiveKeeps ==
  ASSUME IInv, Scanning, NEW active, StatesIn(code, C.start, active), AddActive(active)
  PROVE  IInv'
<1>1. Continues(Now, <<>>) /\ pc \in {"state", "return"} /\ StatesIn(code, C.start, <<>>)
  BY AtState, NowContinues, NoStates
<1> QED BY <1>1, AddKeeps DEF AddActive

\* The call returns.  An inner one that tells of a match has it in its vector.
LEMMA ReturnKeeps ==
  ASSUME IInv, pc = "state", NEW e, e \notin CodeErrors, NEW matches,
         e \in {"NOMATCH", "PARTIAL"} \/ (Len(calls) > 1 => Len(matches) > 0),
         IsSeq(matches), Return(e, matches)
  PROVE  IInv'
<1> DEFINE n == Len(calls)
<1>1. input' = input /\ restart' = restart /\ result' = result /\ mb' = mb
      /\ ret'.rc = e /\ ret'.matches = matches
  BY DEF driver, Return, Returned
<1>2. code' = code /\ options' = options /\ Compatible' = Compatible
  BY <1>1, CompatibleStays
<1>3. Inductive(input, pc, calls, mb, ret, restart) /\ Stack(code, calls) /\ Running(options, calls, mb)
      /\ n \in Nat /\ n > 0 /\ IsSeq(calls) /\ options.depth_limit \in Nat
  BY InProgress DEF IInv
<1>4. CASE n = 1 \/ e = "PARTIAL"
  <2>1. pc' = "result" /\ calls' = calls
    BY <1>4 DEF Return
  <2>2. Inductive(input', pc', calls', mb', ret', restart')
    BY <1>1, <1>3, <2>1 DEF Inductive, code, options
  <2> QED BY <1>1, <1>2, <2>2 DEF IInv
<1>5. CASE ~(n = 1 \/ e = "PARTIAL")
  <2>1. pc' = "return" /\ calls' = SubSeq(calls, 1, n - 1)
    BY <1>5 DEF Return, Front
  <2>2. Stack(code, calls') /\ Running(options, calls', mb)
        /\ Waits(code, calls'[Len(calls')])
    BY <1>3, <1>5, <2>1, StackPopped
  <2>3. IsSeq(matches) /\ (e # "NOMATCH" => Len(matches) > 0)
    <3>1. n \in Nat /\ n > 0 /\ n # 1
      BY <1>3, <1>5
    <3>2. \A j \in Nat : j > 0 /\ j # 1 => j > 1
      OBVIOUS
    <3>3. n > 1
      <4> HIDE DEF n
      <4> QED BY <3>1, <3>2
    <3> QED BY <1>5, <3>3
  <2>4. Answer(code, calls', ret')
    BY <1>1, <2>2, <2>3 DEF Answer
  <2>5. Inductive(input', pc', calls', mb', ret', restart')
    BY <1>1, <1>3, <2>1, <2>2, <2>4 DEF Inductive, code, options
  <2> QED BY <1>1, <1>2, <2>5 DEF IInv
<1> QED BY <1>4, <1>5

-----------------------------------------------------------------------------
(***************************************************************************)
(* Where the code leads.                                                   *)
(***************************************************************************)
\* A state that is not at the end of its call leads to what is inside the bracket.
LEMMA LeadsInside ==
  ASSUME IInv, Scanning \/ pc = "return", Here # C.end
  PROVE  Leads(code, Here) \subseteq Inside(code, C.start) /\ CallsOn(code, Here) \subseteq Called(code)
<1>1. Followable(code) /\ C.start \in Called(code) /\ Shaped(code, C)
  BY AtState, InProgress DEF Sound
<1>2. Here \in Inside(code, C.start) \ {KetOf(code, C.start)}
  BY <1>1, AtState DEF Shaped
<1> QED BY <1>1, <1>2 DEF Followable, Closed

LEMMA NotTheEnd ==
  ASSUME IInv, Scanning \/ pc = "return", Op.op \notin Kets
  PROVE  Here # C.end /\ Here + 1 \in 1..(Len(code) - 1)
<1>1. Shaped(code, C) /\ Here # KetOf(code, C.start) /\ Followable(code) /\ C.start \in Called(code)
      /\ Here \in Inside(code, C.start) /\ C.start \in Nat
  BY AtState, InProgress DEF Sound
<1>2. KetOf(code, C.start) \in (C.start + 1)..(Len(code) - 1) /\ Len(code) \in Nat
  BY <1>1 DEF Followable, Closed
<1>3. Here \in (C.start + 1)..KetOf(code, C.start)
  BY <1>1 DEF Inside
<1>4. Here + 1 \in 1..(Len(code) - 1)
  BY <1>1, <1>2, <1>3
<1> QED BY <1>1, <1>4 DEF Shaped

\* A list of one state at a place the current state leads to, held off or not.
LEMMA LeadsTo ==
  ASSUME IInv, Scanning \/ pc = "return", Here # C.end, NEW i \in Leads(code, Here)
  PROVE  StateIn(code, C.start, Active(i)) /\ StatesIn(code, C.start, <<Active(i)>>)
<1>1. i \in Inside(code, C.start) /\ C.start \in Nat
  BY AtState, LeadsInside, InProgress
<1> QED BY <1>1, StateAt, OneOfStates

LEMMA LeadsToHeld ==
  ASSUME IInv, Scanning \/ pc = "return", Here # C.end, NEW i \in Leads(code, Here), NEW n
  PROVE  StateIn(code, C.start, HeldOff(i, n)) /\ StatesIn(code, C.start, <<HeldOff(i, n)>>)
<1>1. i \in Inside(code, C.start) /\ C.start \in Nat
  BY AtState, LeadsInside, InProgress
<1> QED BY <1>1, StateAt, OneOfStates

\* The same state again.
LEMMA StaysThere ==
  ASSUME IInv, Scanning \/ pc = "return", NEW n
  PROVE  /\ StateIn(code, C.start, Active(Here)) /\ StateIn(code, C.start, State(Here, n))
         /\ StateIn(code, C.start, HeldOff(Here, n))
         /\ StatesIn(code, C.start, <<Active(Here)>>) /\ StatesIn(code, C.start, <<State(Here, n)>>)
         /\ StatesIn(code, C.start, <<HeldOff(Here, n)>>)
<1>1. Here \in Inside(code, C.start) /\ C.start \in Nat
  BY AtState, InProgress
<1> QED BY <1>1, StateAt, OneOfStates

\* The branches of a bracket are a sequence of brackets.
LEMMA BranchesFacts ==
  ASSUME NEW c, Followable(c), NEW b \in DOMAIN c, c[b].op \in Brackets
  PROVE  /\ IsSeq(BranchesOf(c, b)) /\ Len(BranchesOf(c, b)) \in Nat
         /\ DOMAIN BranchesOf(c, b) = 1..Len(BranchesOf(c, b))
         /\ \A k \in DOMAIN BranchesOf(c, b) : BranchesOf(c, b)[k] \in Range(BranchesOf(c, b))
<1>1. BranchesOf(c, b) \in Seq(BranchHeads(c))
  BY BranchesAreHeads DEF BranchHeads
<1>2. IsSeq(BranchesOf(c, b))
  BY <1>1, SeqIsSeq
<1> QED BY <1>2, SeqFacts DEF Range

\* The states at their starts.
LEMMA BranchStates ==
  ASSUME Followable(code), NEW b, NEW i \in DOMAIN code, code[i].op \in Brackets, b \in Nat,
         {j + 1 : j \in Range(BranchesOf(code, i))} \subseteq Inside(code, b)
  PROVE  StatesIn(code, b, Branches(i))
<1> DEFINE starts == BranchesOf(code, i)
           f == [k \in DOMAIN starts |-> Active(starts[k] + 1)]
<1>1. IsSeq(starts) /\ \A k \in DOMAIN starts : starts[k] \in Range(starts)
  BY BranchesFacts
<1>2. Branches(i) = f
  BY DEF Branches
<1>3. \A k \in DOMAIN f : StateIn(code, b, f[k])
  <2> TAKE k \in DOMAIN f
  <2>1. starts[k] + 1 \in Inside(code, b)
    BY <1>1
  <2> HIDE DEF starts
  <2>2. f[k] = Active(starts[k] + 1)
    OBVIOUS
  <2> QED BY <2>1, <2>2, StateAt
<1>4. DOMAIN f = DOMAIN starts /\ f = [k \in DOMAIN f |-> f[k]]
  OBVIOUS
<1> HIDE DEF f, starts
<1>5. IsSeq(f)
  BY <1>1, <1>4, MadeIsSeq
<1> QED BY <1>2, <1>3, <1>5, SeqFacts DEF StatesIn

\* The states a call begins with.
LEMMA FirstStates ==
  ASSUME Followable(code), NEW b \in Called(code), NEW at
  PROVE  b \in Nat /\ StatesIn(code, b, First(b, at)) /\ Len(First(b, at)) \in Nat
<1>1. b \in DOMAIN code /\ b \in Nat /\ code[b].op \in Brackets
  BY DEF Followable, Called, CalledOps
<1>2. Begins(code, b) \subseteq Inside(code, b)
  BY DEF Followable, Closed
<1>3. CASE ~LookingBack(b)
  <2>1. {j + 1 : j \in Range(BranchesOf(code, b))} \subseteq Begins(code, b)
    BY <1>3 DEF LookingBack, Begins
  <2>2. StatesIn(code, b, Branches(b))
    BY <1>1, <1>2, <2>1, BranchStates
  <2> QED BY <1>1, <1>3, <2>2, SeqFacts DEF First, StatesIn
<1>4. CASE LookingBack(b)
  <2> DEFINE gone_back == GoneBack(b, at)
             starts == BranchesOf(code, b)
             back(j) == IF Reversed(j) THEN code[j + 1].num ELSE 0
             begin(j) == IF Reversed(j) THEN j + 2 ELSE j + 1
             states(j) == IF back(j) > gone_back THEN <<>>
                          ELSE <<HeldOff(begin(j), Waiting(gone_back, back(j)))>>
             f == [k \in DOMAIN starts |-> states(starts[k])]
  <2>1. IsSeq(starts) /\ \A k \in DOMAIN starts : starts[k] \in Range(starts)
    BY <1>1, BranchesFacts
  <2>2. \A j \in Range(starts) : begin(j) \in Inside(code, b)
    BY <1>2, <1>4 DEF LookingBack, Begins, Reversed
  <2>3. First(b, at) = FlattenSeq(f)
    BY <1>4 DEF First, BackStates
  <2> HIDE DEF begin, back, gone_back
  <2>4. \A j \in Range(starts) : StatesIn(code, b, states(j))
    <3> TAKE j \in Range(starts)
    <3>1. StatesIn(code, b, <<HeldOff(begin(j), Waiting(gone_back, back(j)))>>)
      BY <1>1, <2>2, OneState
    <3>2. StatesIn(code, b, <<>>)
      BY NoStates
    <3> QED BY <3>1, <3>2
  <2> HIDE DEF states
  <2>5. DOMAIN f = DOMAIN starts /\ f = [k \in DOMAIN f |-> f[k]] /\ \A k \in DOMAIN f : StatesIn(code, b, f[k])
    BY <2>1, <2>4
  <2> HIDE DEF f, starts
  <2>6. IsSeq(f)
    BY <2>1, <2>5, MadeIsSeq
  <2>7. StatesIn(code, b, First(b, at))
    BY <2>3, <2>5, <2>6, FlattenStates
  <2> QED BY <1>1, <2>7, SeqFacts DEF StatesIn
<1> QED BY <1>3, <1>4

\* The places that each kind of operation goes on at are those its state leads to.
LEMMA LeadsOf ==
  ASSUME NEW c, NEW i
  PROVE  LET op == c[i].op
         IN  /\ op = "ALT" => KetOf(c, i) \in Leads(c, i)
             /\ op \in Kets => i + 1 \in Leads(c, i)
             /\ op \in Kets /\ op # "KET" => i - c[i].link \in Leads(c, i)
             /\ op \in {"BRA", "SBRA", "CBRA", "SCBRA"} =>
                  {j + 1 : j \in Range(BranchesOf(c, i))} \subseteq Leads(c, i)
             /\ op \in {"BRAZERO", "BRAMINZERO"} => i + 1 \in Leads(c, i)
             /\ op \in {"BRAZERO", "BRAMINZERO", "SKIPZERO", "BRAPOSZERO"} => KetOf(c, i + 1) + 1 \in Leads(c, i)
             /\ op \in Tried \cup {"ONCE", "BRAPOS", "SBRAPOS", "CBRAPOS", "SCBRAPOS"} =>
                  KetOf(c, i) + 1 \in Leads(c, i) /\ op \in CalledOps
<1> DEFINE op == c[i].op
<1>1. op = "ALT" => KetOf(c, i) \in Leads(c, i)
  BY DEF Leads
<1>2. op \in Kets => i + 1 \in Leads(c, i)
  BY DEF Leads, Kets
<1>3. op \in Kets /\ op # "KET" => i - c[i].link \in Leads(c, i)
  BY DEF Leads, Kets
<1>4. op \in {"BRA", "SBRA", "CBRA", "SCBRA"} => {j + 1 : j \in Range(BranchesOf(c, i))} \subseteq Leads(c, i)
  BY DEF Leads, Kets
<1>5. op \in {"BRAZERO", "BRAMINZERO"} => i + 1 \in Leads(c, i)
  BY DEF Leads, Kets
<1>6. op \in {"BRAZERO", "BRAMINZERO", "SKIPZERO", "BRAPOSZERO"} => KetOf(c, i + 1) + 1 \in Leads(c, i)
  BY DEF Leads, Kets
<1>7. op \in Tried \cup {"ONCE", "BRAPOS", "SBRAPOS", "CBRAPOS", "SCBRAPOS"} =>
        KetOf(c, i) + 1 \in Leads(c, i) /\ op \in CalledOps
  BY DEF Leads, Kets, Tried, CalledOps, Brackets, CaptureBrackets, Assertions, Lookbehinds, Supported
<1> QED BY <1>1, <1>2, <1>3, <1>4, <1>5, <1>6, <1>7

LEMMA LeadsOfConditions ==
  ASSUME NEW c, NEW i
  PROVE  LET op == c[i].op
         IN  /\ op \in {"COND", "SCOND"} =>
                  /\ NextBranch(c, i) + 1 \in Leads(c, i)
                  /\ IF c[i + 1].op \in Tried THEN KetOf(c, i + 1) + 1 \in Leads(c, i) /\ i + 1 \in CallsOn(c, i)
                     ELSE (i + 1) + 1 \in Leads(c, i)
             /\ op = "RECURSE" => IF c[i + 1].op = "CREF" THEN CallsOn(c, i) = {}
                                  ELSE GroupStart(c, c[i].num) \in CallsOn(c, i)
             /\ op = "RECURSE" /\ c[i + 1].op # "CREF" => i + 1 \in Leads(c, i)
             /\ op = "BRAPOSZERO" => i + 1 \in CallsOn(c, i)
             /\ op \in {"CIRC", "CIRCM", "SOD", "SOM", "EOD", "EODN", "DOLL", "DOLLM"} \cup Inspecting =>
                  i + 1 \in Leads(c, i)
<1> DEFINE op == c[i].op
<1>1. op \in {"COND", "SCOND"} =>
        /\ NextBranch(c, i) + 1 \in Leads(c, i)
        /\ IF c[i + 1].op \in Tried THEN KetOf(c, i + 1) + 1 \in Leads(c, i) /\ i + 1 \in CallsOn(c, i)
           ELSE (i + 1) + 1 \in Leads(c, i)
  BY DEF Leads, CallsOn, Kets, CalledOps
<1>2. op = "RECURSE" => IF c[i + 1].op = "CREF" THEN CallsOn(c, i) = {}
                        ELSE GroupStart(c, c[i].num) \in CallsOn(c, i)
  BY DEF CallsOn
<1>3. op = "RECURSE" /\ c[i + 1].op # "CREF" => i + 1 \in Leads(c, i)
  BY DEF Leads, Kets, CalledOps, Brackets, CaptureBrackets, Assertions, Lookbehinds
<1>4. op = "BRAPOSZERO" => i + 1 \in CallsOn(c, i)
  BY DEF CallsOn
<1>5. op \in {"CIRC", "CIRCM", "SOD", "SOM", "EOD", "EODN", "DOLL", "DOLLM"} \cup Inspecting => i + 1 \in Leads(c, i)
  BY DEF Leads, Kets, Inspecting, CalledOps, Brackets, CaptureBrackets, Assertions, Lookbehinds
<1> QED BY <1>1, <1>2, <1>3, <1>4, <1>5

-----------------------------------------------------------------------------
(***************************************************************************)
(* A call inside the innermost one.                                        *)
(***************************************************************************)
LEMMA NewCallSound ==
  ASSUME Followable(code), NEW b \in Called(code), NEW at, NEW first,
         StatesIn(code, b, first), Len(first) \in Nat,
         NEW pairs \in Nat, NEW states \in Nat, NEW recursion, NEW start_offset
  PROVE  LET N == NewCall(b, at, first, pairs, states, recursion, start_offset)
         IN  /\ Sound(code, N) /\ N.start = b /\ N.pairs = pairs
             /\ Len(first) <= states => Fits(N, 0, 0)
<1> DEFINE N == NewCall(b, at, first, pairs, states, recursion, start_offset)
<1>1. /\ DOMAIN N = CallFields /\ N.start = b /\ N.end = KetOf(code, b) /\ N.active = first
      /\ N.new = <<>> /\ N.lost = <<>> /\ N.i = 1 /\ N.started = Len(first) /\ N.pairs = pairs
      /\ N.states = states /\ N.matches = <<>> /\ N.matched = FALSE
  BY DEF NewCall, CallFields
<1>2. StatesIn(code, b, <<>>) /\ Len(<<>>) = 0 /\ IsSeq(<<>>)
  BY NoStates DEF StatesIn
<1> HIDE DEF N
<1>3. Shaped(code, N)
  BY <1>1, <1>2 DEF Shaped
<1>4. Remembered(N) /\ N.i > 0
  BY <1>1 DEF Remembered
<1>5. Len(first) <= states => Fits(N, 0, 0)
  BY <1>1, <1>2 DEF Fits
<1> QED BY <1>1, <1>3, <1>4, <1>5 DEF Sound, N

LEMMA InnerCallSound ==
  ASSUME Followable(code), NEW b \in Called(code), NEW at, NEW p, Len(First(b, at)) <= InnerStates,
         NEW pairs \in Nat, NEW recursion, NEW start_offset
  PROVE  LET N == NewCall(b, p, First(b, at), pairs, InnerStates, recursion, start_offset)
         IN  Sound(code, N) /\ N.pairs = pairs /\ Fits(N, 0, 0)
<1> DEFINE first == First(b, at)
           N == NewCall(b, p, first, pairs, InnerStates, recursion, start_offset)
<1>1. StatesIn(code, b, first) /\ Len(first) \in Nat /\ InnerStates \in Nat
  BY FirstStates, SizeAssumption
<1>2. Len(first) <= InnerStates
  OBVIOUS
<1> HIDE DEF first
<1>3. Sound(code, N) /\ N.pairs = pairs /\ (Len(first) <= InnerStates => Fits(N, 0, 0))
  BY <1>1, NewCallSound
<1> QED BY <1>2, <1>3 DEF first

\* Numbers that are not past a bound.
LEMMA NotMore == \A a, b \in Nat : (~(a >= b) => a + 1 <= b) /\ (~(a > b) => a <= b)
OBVIOUS

\* What remains of the limits when there is no error.
LEMMA LimitsAllow ==
  ASSUME IInv, pc \in {"state", "return"}, LimitError = ""
  PROVE  mb.match_call_count + 1 <= options.match_limit /\ Len(calls) <= options.depth_limit
<1>1. options.match_limit \in Nat /\ options.depth_limit \in Nat /\ mb.match_call_count \in Nat /\ Len(calls) \in Nat
  BY InProgress
<1>2. ~(mb.match_call_count >= options.match_limit) /\ ~(Len(calls) > options.depth_limit)
  BY DEF LimitError
<1> QED BY <1>1, <1>2, NotMore

\* A call that goes on with nothing added remembers what it did.
LEMMA NoneAdded ==
  ASSUME NEW G, Continues(G, <<>>)
  PROVE  Shaped(code, G) /\ Remembered(G) /\ G.start = C.start /\ G.pairs = C.pairs
<1>1. ~(Len(<<>>) > 0)
  OBVIOUS
<1> QED BY <1>1 DEF Continues

\* The innermost call in state G, and a new one.
Pushed(G, N) == Append([calls EXCEPT ![Len(calls)] = G], N)

\* The call waits at its state while the new one works.
LEMMA CallBegins ==
  ASSUME IInv, pc \in {"state", "return"},
         NEW G, Continues(G, <<>>), Fits(G, 0, 0), Waits(code, G), G.i > 0,
         NEW bra, bra \in Called(code), NEW at, NEW p, NEW pairs, pairs \in Nat, pairs > 0, NEW recursion, NEW start_offset,
         mb.match_call_count + 1 <= options.match_limit, Len(calls) <= options.depth_limit,
         Len(First(bra, at)) <= InnerStates,
         calls' = Pushed(G, NewCall(bra, p, First(bra, at), pairs, InnerStates, recursion, start_offset)),
         mb' = Begun(bra, p), pc' = "state", ret' = ret, UNCHANGED driver
  PROVE  IInv'
<1> DEFINE N == NewCall(bra, p, First(bra, at), pairs, InnerStates, recursion, start_offset)
           cs == [calls EXCEPT ![Len(calls)] = G]
<1>1. input' = input /\ restart' = restart /\ result' = result
  BY DEF driver
<1>2. code' = code /\ options' = options /\ Compatible' = Compatible
  BY <1>1, CompatibleStays
<1>3. Inductive(input, pc, calls, mb, ret, restart) /\ Followable(code)
      /\ Stack(code, calls) /\ Running(options, calls, mb) /\ C = calls[Len(calls)]
      /\ options.depth_limit \in Nat /\ mb.match_call_count \in Nat
  BY InProgress DEF IInv
<1>4. Sound(code, G) /\ G.start = C.start /\ G.pairs = C.pairs
  BY NoneAdded DEF Sound, Shaped
<1>5. Sound(code, N) /\ N.pairs > 0 /\ Fits(N, 0, 0)
  <2>1. N.pairs = pairs /\ Sound(code, N) /\ Fits(N, 0, 0)
    BY <1>3, InnerCallSound
  <2> HIDE DEF N
  <2> QED BY <2>1
<1>6. mb'.match_call_count = mb.match_call_count + 1 /\ DOMAIN mb' = DOMAIN mb
  BY <1>3 DEF Begun, Inductive
<1>7. Stack(code, cs) /\ Running(options, cs, mb) /\ Len(cs) = Len(calls) /\ cs[Len(cs)] = G
  <2>1. G.start = calls[Len(calls)].start /\ G.pairs = calls[Len(calls)].pairs
    BY <1>3, <1>4
  <2>2. mb.match_call_count <= options.match_limit
    BY <1>3 DEF Running
  <2> QED BY <1>3, <1>4, <2>1, <2>2, StackReplaced
<1> HIDE DEF N, cs
<1>8. calls' = Append(cs, N)
  BY DEF N, cs, Pushed
<1>9. Waits(code, cs[Len(cs)]) /\ Len(cs) <= options.depth_limit
  BY <1>7
<1>10. Stack(code, calls') /\ Running(options, calls', mb')
  BY <1>3, <1>5, <1>6, <1>7, <1>8, <1>9, StackPushed
<1>11. Inductive(input', pc', calls', mb', ret', restart')
  BY <1>1, <1>3, <1>6, <1>10 DEF Inductive, code, options
<1> QED BY <1>1, <1>2, <1>3, <1>11 DEF IInv

\* The errors of the limits and the workspace.
LEMMA LimitErrors == LimitError \in {"", "MATCHLIMIT", "DEPTHLIMIT"}
BY DEF LimitError

LEMMA CallForKeeps ==
  ASSUME IInv, Scanning,
         NEW G, Continues(G, <<>>), Fits(G, 0, 0), G.i > 0, Waits(code, G),
         NEW bra, bra \in Called(code), NEW pairs, pairs \in Nat, pairs > 0, NEW need, NEW recursion,
         NEW loops, Compatible => ~loops,
         CallFor(G, need, bra, pairs, recursion, loops)
  PROVE  IInv'
<1> DEFINE first == First(bra, G.local_ptr)
           p == From(bra, G.local_ptr)
           error == CallError(need, loops, first)
<1>1. pc \in {"state", "return"}
  BY AtState
<1>2. CASE error # ""
  <2>1. Stop(error)
    BY <1>2 DEF CallFor
  <2>2. Compatible => error \notin CodeErrors
    BY LimitErrors DEF CallError, CodeErrors
  <2> HIDE DEF error
  <2> QED BY <1>1, <2>1, <2>2, StopKeeps
<1>3. CASE error = ""
  <2>1. LimitError = "" /\ ~(Len(first) > InnerStates)
    BY <1>3, LimitErrors DEF CallError
  <2>2. Len(first) \in Nat
    BY <1>1, InProgress, FirstStates
  <2>3. Len(first) <= InnerStates
    BY <2>1, <2>2, SizeAssumption, NotMore
  <2>4. /\ calls' = Pushed(G, NewCall(bra, p, first, pairs, InnerStates, recursion, G.ptr))
        /\ mb' = Begun(bra, p) /\ pc' = "state" /\ ret' = ret /\ UNCHANGED driver
    BY <1>3 DEF CallFor, Pushed
  <2>5. mb.match_call_count + 1 <= options.match_limit /\ Len(calls) <= options.depth_limit
    BY <1>1, <2>1, LimitsAllow
  <2> QED BY <1>1, <2>3, <2>4, <2>5, CallBegins
<1> QED BY <1>2, <1>3

-----------------------------------------------------------------------------
(***************************************************************************)
(* The operations that stay in the call.                                   *)
(***************************************************************************)
\* Two records of a call that differ in what the invariant does not speak of.
Alike(G, H) ==
  /\ DOMAIN G = DOMAIN H
  /\ G.start = H.start /\ G.end = H.end /\ G.active = H.active /\ G.new = H.new /\ G.lost = H.lost
  /\ G.i = H.i /\ G.started = H.started /\ G.pairs = H.pairs /\ G.states = H.states
  /\ G.matches = H.matches /\ G.matched = H.matched

LEMMA AlikeContinues ==
  ASSUME NEW G, NEW H, NEW new, Continues(G, new), Alike(G, H), NEW n, NEW m, Fits(G, n, m)
  PROVE  Continues(H, new) /\ Fits(H, n, m)
<1>1. Shaped(code, H)
  BY DEF Continues, Shaped, Alike
<1>2. Fits(H, n, m)
  BY DEF Fits, Alike
<1> QED BY <1>1, <1>2 DEF Continues, Remembered, Alike

\* The next state, with the lists as they are.
LEMMA GoOnKeeps ==
  ASSUME IInv, pc \in {"state", "return"}, NEW G, Continues(G, <<>>), Fits(G, 0, 0), GoOn(G),
         mb'.match_call_count = mb.match_call_count, DOMAIN mb' = DOMAIN mb, ret' = ret, UNCHANGED driver
  PROVE  IInv'
<1> DEFINE H == [G EXCEPT !.i = @ + 1]
<1>1. Shaped(code, G) /\ Remembered(G) /\ G.start = C.start /\ G.pairs = C.pairs
  BY NoneAdded
<1>2. /\ DOMAIN H = CallFields /\ H.active = G.active /\ H.new = G.new /\ H.i = G.i + 1
      /\ H.start = G.start /\ H.end = G.end /\ H.lost = G.lost
      /\ H.started = G.started /\ H.pairs = G.pairs /\ H.states = G.states
      /\ H.matches = G.matches /\ H.matched = G.matched
  BY <1>1 DEF Shaped, CallFields
<1>3. calls' = [calls EXCEPT ![Len(calls)] = H] /\ pc' = "state"
  BY DEF GoOn
<1> HIDE DEF H
<1>4. Shaped(code, H) /\ H.i > 0
  BY <1>1, <1>2 DEF Shaped
<1>5. Remembered(H) /\ Fits(H, 0, 0)
  BY <1>1, <1>2 DEF Remembered, Fits
<1> QED BY <1>1, <1>2, <1>3, <1>4, <1>5, TopReplaced DEF Sound

LEMMA HoldOffKeeps == ASSUME IInv, HoldOff PROVE IInv'
<1> DEFINE G == [C EXCEPT !.reset_could_continue = @ \/ C.could_continue]
           s == [Current EXCEPT !.data = @ - 1]
<1>1. Scanning /\ Add(G, <<>>, <<s>>)
  BY DEF HoldOff
<1>2. pc \in {"state", "return"} /\ StateIn(code, C.start, Current)
  BY <1>1, AtState
<1>3. Continues(C, <<s>>) /\ Fits(C, 0, 0) /\ DOMAIN C = CallFields
  BY <1>2, CContinues, NoneAdded DEF Continues, Shaped
<1>4. Alike(C, G)
  BY <1>3 DEF Alike, CallFields
<1>5. StateIn(code, C.start, s)
  BY <1>2 DEF StateIn, At
<1> HIDE DEF G, s
<1>6. Continues(G, <<s>>)
  BY <1>3, <1>4, AlikeContinues
<1>7. StatesIn(code, C.start, <<s>>) /\ StatesIn(code, C.start, <<>>)
  BY <1>5, OneOfStates, NoStates
<1> QED BY <1>1, <1>2, <1>6, <1>7, AddKeeps

LEMMA SkipDuplicateKeeps == ASSUME IInv, SkipDuplicate PROVE IInv'
<1> DEFINE G == [C EXCEPT !.active[C.i].offset = Here]
<1>1. Scanning /\ GoOn(G) /\ ret' = ret /\ mb' = mb /\ UNCHANGED driver
  BY DEF SkipDuplicate
<1>2. pc \in {"state", "return"} /\ Continues(Now, <<>>) /\ Fits(Now, 0, 0)
  BY <1>1, AtState, NowContinues
<1>3. DOMAIN C = CallFields
  BY <1>2, CContinues DEF Continues, Shaped
<1>4. Alike(Now, G)
  BY <1>3 DEF Alike, CallFields, Now
<1> HIDE DEF G
<1>5. Continues(G, <<>>) /\ Fits(G, 0, 0)
  BY <1>2, <1>4, AlikeContinues
<1> QED BY <1>1, <1>2, <1>5, GoOnKeeps

LEMMA AlternationKeeps == ASSUME IInv, Alternation PROVE IInv'
<1>1. Scanning /\ Op.op = "ALT" /\ AddActive(<<Active(KetOf(code, Here))>>)
  BY DEF Alternation, Exec
<1>2. KetOf(code, Here) \in Leads(code, Here)
  BY <1>1, LeadsOf DEF Op
<1>3. Here # C.end
  BY <1>1, NotTheEnd DEF Kets
<1>4. StatesIn(code, C.start, <<Active(KetOf(code, Here))>>)
  BY <1>1, <1>2, <1>3, LeadsTo
<1> QED BY <1>1, <1>4, AddActiveKeeps

LEMMA BracketedKeeps == ASSUME IInv, Bracketed PROVE IInv'
<1>1. Scanning /\ Op.op \in {"BRA", "SBRA", "CBRA", "SCBRA"} /\ AddActive(Branches(Here))
  BY DEF Bracketed, Exec
<1>2. {j + 1 : j \in Range(BranchesOf(code, Here))} \subseteq Leads(code, Here)
  BY <1>1, LeadsOf DEF Op
<1>3. Here # C.end
  BY <1>1, NotTheEnd DEF Kets
<1>4. Followable(code) /\ C.start \in Nat /\ Here \in DOMAIN code
  BY <1>1, AtState, InProgress DEF Followable
<1>5. code[Here].op \in Brackets
  BY <1>1 DEF Op, Brackets, CaptureBrackets
<1>6. {j + 1 : j \in Range(BranchesOf(code, Here))} \subseteq Inside(code, C.start)
  BY <1>1, <1>2, <1>3, LeadsInside
<1>7. StatesIn(code, C.start, Branches(Here))
  BY <1>4, <1>5, <1>6, BranchStates
<1> QED BY <1>1, <1>7, AddActiveKeeps

\* Two states.
LEMMA TwoStates ==
  ASSUME NEW c, NEW b, NEW s, NEW t, StateIn(c, b, s), StateIn(c, b, t)
  PROVE  StatesIn(c, b, <<s, t>>)
<1>1. <<s, t>> \in Seq({s, t}) /\ \A r \in {s, t} : StateIn(c, b, r)
  OBVIOUS
<1> QED BY <1>1, StatesAre

LEMMA BraZeroKeeps == ASSUME IInv, BraZero PROVE IInv'
<1> DEFINE s == Active(Here + 1)
           t == Active(KetOf(code, Here + 1) + 1)
<1>1. Scanning /\ Op.op \in {"BRAZERO", "BRAMINZERO"} /\ AddActive(<<s, t>>)
  BY DEF BraZero, Exec, After
<1>2. Here + 1 \in Leads(code, Here) /\ KetOf(code, Here + 1) + 1 \in Leads(code, Here)
  BY <1>1, LeadsOf DEF Op
<1>3. Here # C.end
  BY <1>1, NotTheEnd DEF Kets
<1>4. StateIn(code, C.start, s) /\ StateIn(code, C.start, t)
  BY <1>1, <1>2, <1>3, LeadsTo
<1> HIDE DEF s, t
<1>5. StatesIn(code, C.start, <<s, t>>)
  BY <1>4, TwoStates
<1> QED BY <1>1, <1>5, AddActiveKeeps

LEMMA SkipZeroKeeps == ASSUME IInv, SkipZero PROVE IInv'
<1>1. Scanning /\ Op.op = "SKIPZERO" /\ AddActive(<<Active(KetOf(code, Here + 1) + 1)>>)
  BY DEF SkipZero, Exec, After
<1>2. KetOf(code, Here + 1) + 1 \in Leads(code, Here)
  BY <1>1, LeadsOf DEF Op
<1>3. Here # C.end
  BY <1>1, NotTheEnd DEF Kets
<1>4. StatesIn(code, C.start, <<Active(KetOf(code, Here + 1) + 1)>>)
  BY <1>1, <1>2, <1>3, LeadsTo
<1> QED BY <1>1, <1>4, AddActiveKeeps

LEMMA KetInsideKeeps == ASSUME IInv, KetInside PROVE IInv'
<1> DEFINE back == IF Op.op = "KET" THEN <<>> ELSE <<Active(Here - Op.link)>>
<1>1. Scanning /\ Op.op \in Kets /\ Here # C.end /\ AddActive(<<Active(Here + 1)>> \o back)
  BY DEF KetInside, Exec
<1>2. Here + 1 \in Leads(code, Here) /\ (Op.op # "KET" => Here - Op.link \in Leads(code, Here))
  BY <1>1, LeadsOf DEF Op
<1>3. StatesIn(code, C.start, <<Active(Here + 1)>>)
  BY <1>1, <1>2, LeadsTo
<1>4. StatesIn(code, C.start, back)
  <2>1. CASE Op.op = "KET"
    BY <2>1, NoStates
  <2>2. CASE Op.op # "KET"
    BY <1>1, <1>2, <2>2, LeadsTo
  <2> QED BY <2>1, <2>2
<1> HIDE DEF back
<1>5. StatesIn(code, C.start, <<Active(Here + 1)>> \o back)
  BY <1>3, <1>4, StatesConcat
<1> QED BY <1>1, <1>5, AddActiveKeeps

\* The match goes into the vector.
LEMMA RecordedMatches ==
  ASSUME NEW G, Shaped(code, G)
  PROVE  IsSeq(Recorded(G)) /\ (G.pairs > 0 => Len(Recorded(G)) > 0)
<1> DEFINE match == <<G.current_subject, G.ptr>>
           all == <<match>> \o G.matches
           k == IF Len(all) < G.pairs THEN Len(all) ELSE G.pairs
<1>1. IsSeq(G.matches) /\ G.pairs \in Nat
  BY DEF Shaped
<1> HIDE DEF match
<1>2. IsSeq(all) /\ Len(all) = 1 + Len(G.matches)
  <2> DEFINE S == {G.matches[i] : i \in DOMAIN G.matches} \cup {match}
  <2>1. G.matches \in Seq({G.matches[i] : i \in DOMAIN G.matches})
    BY <1>1 DEF IsSeq
  <2>2. G.matches \in Seq(S) /\ <<match>> \in Seq(S)
    BY <2>1
  <2>3. all \in Seq(S) /\ Len(all) = 1 + Len(G.matches)
    <3> HIDE DEF S
    <3> QED BY <2>2
  <2> HIDE DEF all, S
  <2> QED BY <2>3, SeqIsSeq
<1>3. Len(all) \in Nat /\ Len(all) > 0
  BY <1>1, <1>2, SeqFacts
<1> HIDE DEF all
<1>4. k \in 0..Len(all) /\ (G.pairs > 0 => k > 0)
  BY <1>1, <1>3
<1>5. Recorded(G) = SubSeq(all, 1, k)
  BY DEF Recorded, all, match
<1> HIDE DEF k
<1>6. IsSeq(SubSeq(all, 1, k)) /\ Len(SubSeq(all, 1, k)) = k
  BY <1>2, <1>4, PrefixFacts
<1> QED BY <1>4, <1>5, <1>6

LEMMA KetAtEndKeeps == ASSUME IInv, KetAtEnd PROVE IInv'
<1> DEFINE G == [Now EXCEPT !.matched = TRUE, !.matches = Recorded(C),
                            !.overflowed = @ \/ Len(C.matches) = C.pairs]
<1>1. Scanning
  BY DEF KetAtEnd, Exec
<1>2. pc \in {"state", "return"} /\ pc = "state" /\ Continues(Now, <<>>) /\ Fits(Now, 0, 0)
  BY <1>1, AtState, NowContinues DEF Scanning
<1>3. Shaped(code, C) /\ (Len(calls) > 1 => C.pairs > 0)
  BY <1>2, InProgress DEF Sound
<1>4. IsSeq(Recorded(C)) /\ (C.pairs > 0 => Len(Recorded(C)) > 0)
  BY <1>3, RecordedMatches
<1>5. Shaped(code, Now) /\ Remembered(Now) /\ Now.start = C.start /\ Now.pairs = C.pairs
  BY <1>2, NoneAdded
<1>6. /\ DOMAIN G = CallFields /\ G.active = Now.active /\ G.new = Now.new /\ G.i = Now.i
      /\ G.start = Now.start /\ G.end = Now.end /\ G.lost = Now.lost
      /\ G.started = Now.started /\ G.pairs = Now.pairs /\ G.states = Now.states
      /\ G.matches = Recorded(C) /\ G.matched = TRUE
  BY <1>5 DEF Shaped, CallFields
<1>7. \/ AddActive(<<>>) \/ Return(MatchCode(G), G.matches) \/ Add(G, <<>>, <<>>)
  BY DEF KetAtEnd
<1> HIDE DEF G
<1>8. Shaped(code, G)
  BY <1>4, <1>5, <1>6 DEF Shaped
<1>9. Continues(G, <<>>)
  BY <1>5, <1>6, <1>8 DEF Continues, Remembered
<1>10. StatesIn(code, C.start, <<>>)
  BY NoStates
<1>11. CASE AddActive(<<>>)
  BY <1>1, <1>10, <1>11, AddActiveKeeps
<1>12. CASE Return(MatchCode(G), G.matches)
  <2>1. MatchCode(G) \notin CodeErrors
    BY DEF MatchCode, CodeErrors
  <2>2. IsSeq(G.matches) /\ (Len(calls) > 1 => Len(G.matches) > 0)
    BY <1>3, <1>4, <1>6
  <2> QED BY <1>2, <1>12, <2>1, <2>2, ReturnKeeps
<1>13. CASE Add(G, <<>>, <<>>)
  BY <1>2, <1>9, <1>10, <1>13, AddKeeps
<1> QED BY <1>7, <1>11, <1>12, <1>13

\* The state after an item that does not move on, or none.
LEMMA PassesKeeps ==
  ASSUME IInv, Scanning, Here # C.end, Here + 1 \in Leads(code, Here), NEW condition, Passes(condition)
  PROVE  IInv'
<1> DEFINE active == IF condition THEN <<Active(Here + 1)>> ELSE <<>>
<1>1. StatesIn(code, C.start, <<Active(Here + 1)>>) /\ StatesIn(code, C.start, <<>>)
  BY LeadsTo, NoStates
<1>2. StatesIn(code, C.start, active)
  BY <1>1
<1>3. AddActive(active)
  BY DEF Passes
<1> HIDE DEF active
<1> QED BY <1>2, <1>3, AddActiveKeeps

\* So are the items that inspect the subject.
LEMMA ItemLeads ==
  ASSUME IInv, Scanning,
         Op.op \in {"CIRC", "CIRCM", "SOD", "SOM", "EOD", "EODN", "DOLL", "DOLLM"} \cup Inspecting
  PROVE  Here # C.end /\ Here + 1 \in Leads(code, Here)
<1>1. Op.op \notin Kets
  BY DEF Kets, Inspecting
<1>2. Here + 1 \in Leads(code, Here)
  BY LeadsOfConditions DEF Op
<1> QED BY <1>1, <1>2, NotTheEnd

LEMMA CircumflexKeeps == ASSUME IInv, Circumflex PROVE IInv'
<1>1. Scanning /\ Op.op \in {"CIRC", "CIRCM", "SOD", "SOM"}
  BY DEF Circumflex, Exec
<1>2. Here # C.end /\ Here + 1 \in Leads(code, Here)
  BY <1>1, ItemLeads
<1>3. \E condition : Passes(condition)
  BY Zenon DEF Circumflex
<1> QED BY <1>1, <1>2, <1>3, PassesKeeps

LEMMA EndOfSubjectKeeps == ASSUME IInv, EndOfSubject PROVE IInv'
<1>1. Scanning /\ Op.op \in {"EOD", "EODN"} /\ pc = "state"
  BY DEF EndOfSubject, Exec, Scanning
<1>2. Here # C.end /\ Here + 1 \in Leads(code, Here)
  BY <1>1, ItemLeads
<1>3. Return("PARTIAL", <<>>) \/ \E condition : Passes(condition)
  BY Zenon DEF EndOfSubject
<1>4. CASE Return("PARTIAL", <<>>)
  <2>1. IsSeq(<<>>)
    BY NoStates DEF StatesIn
  <2> QED BY <1>1, <1>4, <2>1, ReturnKeeps DEF CodeErrors
<1>5. CASE \E condition : Passes(condition)
  BY <1>1, <1>2, <1>5, PassesKeeps
<1> QED BY <1>3, <1>4, <1>5

LEMMA DollarKeeps == ASSUME IInv, Dollar PROVE IInv'
<1> DEFINE G == [Now EXCEPT !.could_continue = TRUE]
<1>1. Scanning /\ Op.op \in {"DOLL", "DOLLM"}
  BY DEF Dollar, Exec
<1>2. Here # C.end /\ Here + 1 \in Leads(code, Here)
  BY <1>1, ItemLeads
<1>3. Add(G, <<>>, <<>>) \/ \E condition : Passes(condition)
  BY Zenon DEF Dollar
<1>4. CASE Add(G, <<>>, <<>>)
  <2>1. pc \in {"state", "return"} /\ Continues(Now, <<>>) /\ Fits(Now, 0, 0)
    BY <1>1, AtState, NowContinues
  <2>2. DOMAIN Now = CallFields
    BY <2>1 DEF Continues, Shaped
  <2>3. Alike(Now, G)
    BY <2>2 DEF Alike, CallFields
  <2> HIDE DEF G
  <2>4. Continues(G, <<>>) /\ StatesIn(code, C.start, <<>>)
    BY <2>1, <2>3, AlikeContinues, NoStates
  <2> QED BY <1>4, <2>1, <2>4, AddKeeps
<1>5. CASE \E condition : Passes(condition)
  BY <1>1, <1>2, <1>5, PassesKeeps
<1> QED BY <1>3, <1>4, <1>5

LEMMA WordBoundaryKeeps == ASSUME IInv, WordBoundary PROVE IInv'
<1>1. Scanning /\ Op.op \in Inspecting
  BY DEF WordBoundary, Exec, Inspecting
<1>2. Here # C.end /\ Here + 1 \in Leads(code, Here)
  BY <1>1, ItemLeads
<1>3. \/ Stop("DFA_WSSIZE")
      \/ \E next \in {<<Active(Here + 1)>>, <<>>} :
           /\ Fits(Now, Len(next), 0) /\ GoOn([Now EXCEPT !.active = @ \o next])
           /\ \E x, y : mb' = [mb EXCEPT !.start_used_ptr = x, !.last_used_ptr = y]
           /\ ret' = ret /\ UNCHANGED driver
  BY DEF WordBoundary
<1>4. CASE Stop("DFA_WSSIZE")
  BY <1>1, <1>4, AtState, StopKeeps DEF CodeErrors
<1>5. ASSUME NEW next \in {<<Active(Here + 1)>>, <<>>},
             Fits(Now, Len(next), 0), GoOn([Now EXCEPT !.active = @ \o next]),
             \E x, y : mb' = [mb EXCEPT !.start_used_ptr = x, !.last_used_ptr = y],
             ret' = ret, UNCHANGED driver
      PROVE  IInv'
  <2> DEFINE G == [Now EXCEPT !.active = @ \o next]
  <2>1. pc \in {"state", "return"} /\ Continues(Now, <<>>)
    BY <1>1, AtState, NowContinues
  <2>2. Shaped(code, Now) /\ Remembered(Now) /\ Now.start = C.start /\ Now.pairs = C.pairs
    BY <2>1, NoneAdded
  <2>3. StatesIn(code, C.start, next)
    BY <1>1, <1>2, LeadsTo, NoStates
  <2>4. StatesIn(code, C.start, Now.active \o next) /\ Len(Now.active \o next) = Len(Now.active) + Len(next)
        /\ Len(Now.active) \in Nat /\ Len(next) \in Nat
    BY <2>2, <2>3, StatesConcat DEF Shaped
  <2>5. /\ DOMAIN G = CallFields /\ G.active = Now.active \o next /\ G.new = Now.new /\ G.i = Now.i
        /\ G.start = Now.start /\ G.end = Now.end /\ G.lost = Now.lost
        /\ G.started = Now.started /\ G.pairs = Now.pairs /\ G.states = Now.states
        /\ G.matches = Now.matches /\ G.matched = Now.matched
    BY <2>2 DEF Shaped, CallFields
  <2> HIDE DEF G
  <2>6. Shaped(code, G)
    BY <2>2, <2>4, <2>5 DEF Shaped
  <2>7. Remembered(G)
    BY <2>2, <2>4, <2>5 DEF Remembered, Shaped
  <2>8. Continues(G, <<>>) /\ Fits(G, 0, 0)
    BY <1>5, <2>2, <2>4, <2>5, <2>6, <2>7 DEF Continues, Fits
  <2>9. GoOn(G)
    BY <1>5 DEF G
  <2>10. mb'.match_call_count = mb.match_call_count /\ DOMAIN mb' = DOMAIN mb
    BY <1>5 DEF IInv, Inductive
  <2> QED BY <1>5, <2>1, <2>8, <2>9, <2>10, GoOnKeeps
<1> QED BY <1>3, <1>4, <1>5

LEMMA CharacterKeeps == ASSUME IInv, Character PROVE IInv'
<1> DEFINE new == IF CharIn(Op.set) THEN <<Active(Here + 1)>> ELSE <<>>
<1>1. Scanning /\ Op.op \in Inspecting /\ Add(Now, <<>>, new)
  BY DEF Character, Exec, Inspecting
<1>2. Here # C.end /\ Here + 1 \in Leads(code, Here)
  BY <1>1, ItemLeads
<1>3. StatesIn(code, C.start, <<Active(Here + 1)>>) /\ StatesIn(code, C.start, <<>>)
  BY <1>1, <1>2, LeadsTo, NoStates
<1>4. StatesIn(code, C.start, new)
  BY <1>3
<1> HIDE DEF new
<1>5. pc \in {"state", "return"} /\ Continues(Now, new)
  BY <1>1, AtState, NowContinues, NoneAdded DEF Continues
<1> QED BY <1>1, <1>3, <1>4, <1>5, AddKeeps

\* A repeat that may stop, or go on.
LEMMA RepeatStateKeeps ==
  ASSUME IInv, Scanning, Here # C.end, Here + 1 \in Leads(code, Here),
         NEW may_stop, NEW taken, StateIn(code, C.start, taken), RepeatState(may_stop, taken)
  PROVE  IInv'
<1> DEFINE stop == IF may_stop THEN <<Active(Here + 1)>> ELSE <<>>
           stays == IF Possessive THEN <<>> ELSE stop
<1>1. StatesIn(code, C.start, <<Active(Here + 1)>>) /\ StatesIn(code, C.start, <<>>)
  BY LeadsTo, NoStates
<1>2. StatesIn(code, C.start, stop) /\ StatesIn(code, C.start, stays)
  BY <1>1
<1>3. Stop("DFA_WSSIZE") \/ Add(Now, stays, <<taken>>) \/ AddActive(stop)
  BY DEF RepeatState
<1> HIDE DEF stop, stays
<1>4. CASE Stop("DFA_WSSIZE")
  BY <1>4, AtState, StopKeeps DEF CodeErrors
<1>5. CASE Add(Now, stays, <<taken>>)
  <2>1. StatesIn(code, C.start, <<taken>>)
    BY OneOfStates
  <2>2. pc \in {"state", "return"} /\ Continues(Now, <<taken>>)
    BY AtState, NowContinues, NoneAdded DEF Continues
  <2> QED BY <1>2, <1>5, <2>1, <2>2, AddKeeps
<1>6. CASE AddActive(stop)
  BY <1>2, <1>6, AddActiveKeeps
<1> QED BY <1>3, <1>4, <1>5, <1>6

\* The state after one more character.
LEMMA CountedIn ==
  ASSUME IInv, Scanning, Here # C.end, Here + 1 \in Leads(code, Here), NEW count, NEW max
  PROVE  StateIn(code, C.start, Counted(count, max))
<1>1. StateIn(code, C.start, Active(Here + 1))
  BY LeadsTo
<1>2. StateIn(code, C.start, State(Here, count))
  BY StaysThere
<1> QED BY <1>1, <1>2 DEF Counted

LEMMA CharacterRepeatsKeep == ASSUME IInv, CharacterRepeats PROVE IInv'
<1> DEFINE Step == \E may_stop : \/ RepeatState(may_stop, Active(Here))
                                 \/ RepeatState(may_stop, Active(Here + 1))
                                 \/ \E count : RepeatState(may_stop, State(Here, count))
                                 \/ \E count, max : RepeatState(may_stop, Counted(count, max))
<1>1. Scanning /\ Op.op = "REPEAT"
  BY DEF CharacterRepeats, Star, Query, Plus, Exact, Between, Repeats, Exec
<1>2. Here # C.end /\ Here + 1 \in Leads(code, Here)
  BY <1>1, ItemLeads DEF Inspecting
<1>3. Step
  BY Zenon DEF CharacterRepeats, Star, Query, Plus, Exact, Between
<1>4. PICK may_stop : \/ RepeatState(may_stop, Active(Here))
                      \/ RepeatState(may_stop, Active(Here + 1))
                      \/ \E count : RepeatState(may_stop, State(Here, count))
                      \/ \E count, max : RepeatState(may_stop, Counted(count, max))
  BY <1>3
<1>5. CASE RepeatState(may_stop, Active(Here))
  <2>1. StateIn(code, C.start, Active(Here))
    BY <1>1, StaysThere
  <2> QED BY <1>1, <1>2, <1>5, <2>1, RepeatStateKeeps
<1>6. CASE RepeatState(may_stop, Active(Here + 1))
  <2>1. StateIn(code, C.start, Active(Here + 1))
    BY <1>1, <1>2, LeadsTo
  <2> QED BY <1>1, <1>2, <1>6, <2>1, RepeatStateKeeps
<1>7. ASSUME NEW count, RepeatState(may_stop, State(Here, count)) PROVE IInv'
  <2>1. StateIn(code, C.start, State(Here, count))
    BY <1>1, StaysThere
  <2> QED BY <1>1, <1>2, <1>7, <2>1, RepeatStateKeeps
<1>8. ASSUME NEW count, NEW max, RepeatState(may_stop, Counted(count, max)) PROVE IInv'
  <2>1. StateIn(code, C.start, Counted(count, max))
    BY <1>1, <1>2, CountedIn
  <2> QED BY <1>1, <1>2, <1>8, <2>1, RepeatStateKeeps
<1> QED BY <1>4, <1>5, <1>6, <1>7, <1>8

LEMMA FailKeeps == ASSUME IInv, Fail PROVE IInv'
<1>1. Scanning /\ AddActive(<<>>) /\ StatesIn(code, C.start, <<>>)
  BY NoStates DEF Fail, Exec
<1> QED BY <1>1, AddActiveKeeps

-----------------------------------------------------------------------------
(***************************************************************************)
(* What the query accepts.                                                 *)
(***************************************************************************)
\* The answer of the query for an instruction that it does not object to.
Accepted(k) == dfa_compatibility(k) = ""

LEMMA CompatibleAccepts == ASSUME Compatible, NEW k \in 1..(Len(code) - 1) PROVE Accepted(k)
BY DEF Compatible, Accepted

\* It is an item that the matcher supports, or the operand of one.
LEMMA AcceptedOps ==
  ASSUME NEW k, Accepted(k)
  PROVE  /\ code[k].op \in Supported \cup NotAnItem /\ code[k].op \notin {"CREF", "RECURSE"}
         /\ code[k].op = "RREF" => code[k].num = RREF_ANY
<1>1. "" # "DFA_UCOND" /\ "" # "DFA_UITEM" /\ "" # "DFA_RECURSE"
  BY Zenon
<1> DEFINE ops == {"ITEM", "REPEAT", "SOD", "SOM", "WORD_BOUNDARY", "NOT_WORD_BOUNDARY", "EODN", "EOD",
                 "DOLL", "DOLLM", "CIRC", "CIRCM", "ALT", "REVERSE", "ASSERT", "ASSERT_NOT",
                 "ASSERTBACK", "ASSERTBACK_NOT", "ONCE", "BRA", "BRAPOS", "CBRA", "CBRAPOS", "COND",
                 "SBRA", "SBRAPOS", "SCBRA", "SCBRAPOS", "SCOND", "FALSE", "TRUE", "BRAZERO",
                 "BRAMINZERO", "BRAPOSZERO", "FAIL", "SKIPZERO"} \cup Kets
<1>2. code[k].op \in ops \/ (code[k].op = "RREF" /\ code[k].num = RREF_ANY)
  BY <1>1, Zenon DEF Accepted, dfa_compatibility
<1>3. ops \subseteq Supported \cup NotAnItem /\ "CREF" \notin ops /\ "RECURSE" \notin ops /\ "RREF" \notin ops
  BY DEF Supported, NotAnItem, Kets, Inspecting, Tried
<1>4. "RREF" \in NotAnItem
  BY DEF NotAnItem
<1> HIDE DEF ops
<1> QED BY <1>2, <1>3, <1>4

LEMMA UnsupportedKeeps == ASSUME IInv, Unsupported PROVE IInv'
<1>1. Scanning /\ Op.op \in Opcodes \ Supported /\ Stop("DFA_UITEM")
  BY DEF Unsupported, Exec
<1>2. pc \in {"state", "return"} /\ Here \in 1..(Len(code) - 1) /\ Op.op \notin NotAnItem
  BY <1>1, AtState
<1>3. ~Compatible
  BY <1>1, <1>2, CompatibleAccepts, AcceptedOps DEF Op
<1> QED BY <1>1, <1>2, <1>3, StopKeeps

-----------------------------------------------------------------------------
(***************************************************************************)
(* The operations that make calls.                                         *)
(***************************************************************************)
\* A call on a bracket, the state of the caller differing from Now in its locals only.
LEMMA LocalsChanged ==
  ASSUME IInv, Scanning, NEW G, Alike(Now, G)
  PROVE  /\ Continues(G, <<>>) /\ Fits(G, 0, 0) /\ G.i > 0
         /\ MakesCall(code, Here) => Waits(code, G)
<1>1. /\ Continues(Now, <<>>) /\ Fits(Now, 0, 0) /\ Now.i = C.i /\ Len(Now.active) = Len(C.active)
      /\ At(Now.active[C.i]) = Here /\ C.i \in 1..Len(C.active)
  BY NowContinues, AtState
<1>2. Continues(G, <<>>) /\ Fits(G, 0, 0)
  BY <1>1, AlikeContinues
<1>3. G.i = C.i /\ G.active = Now.active
  BY <1>1 DEF Alike
<1> QED BY <1>1, <1>2, <1>3 DEF Waits

LEMMA NowDomain == ASSUME IInv, Scanning PROVE DOMAIN Now = CallFields
BY NowContinues DEF Continues, Shaped

LEMMA CallGroupKeeps ==
  ASSUME IInv, Scanning, MakesCall(code, Here), NEW bra, bra \in Called(code), CallGroup(bra)
  PROVE  IInv'
<1> DEFINE G == [Now EXCEPT !.local_ptr = C.ptr]
<1>1. CallFor(G, OtherPiece, bra, 1, NoRecursion, FALSE)
  BY DEF CallGroup
<1>2. Alike(Now, G)
  BY NowDomain DEF Alike, CallFields
<1> HIDE DEF G
<1>3. Continues(G, <<>>) /\ Fits(G, 0, 0) /\ G.i > 0 /\ Waits(code, G)
  BY <1>2, LocalsChanged
<1>4. 1 \in Nat /\ 1 > 0
  OBVIOUS
<1> QED BY <1>1, <1>3, <1>4, CallForKeeps

\* The bracket at a state that makes calls.
LEMMA HereCalled ==
  ASSUME IInv, Scanning \/ pc = "return", Op.op \in CalledOps
  PROVE  /\ Here \in Called(code) /\ Op.op \in Brackets /\ Op.op \notin Kets
         /\ Op.op \notin {"BRA", "SBRA", "CBRA", "SCBRA"} => MakesCall(code, Here)
<1>1. Here \in DOMAIN code
  BY AtState, InProgress DEF Followable
<1>2. Op.op \in Brackets /\ Op.op \notin Kets
  BY DEF CalledOps, Brackets, CaptureBrackets, Assertions, Lookbehinds, Kets
<1> QED BY <1>1, <1>2 DEF Called, Op, MakesCall

LEMMA AssertionKeeps == ASSUME IInv, Assertion PROVE IInv'
<1>1. Scanning /\ Op.op \in Tried /\ CallGroup(Here)
  BY DEF Assertion, Exec
<1>2. Op.op \in CalledOps /\ Op.op \notin {"BRA", "SBRA", "CBRA", "SCBRA"}
  BY <1>1, LeadsOf DEF Op, Tried
<1> QED BY <1>1, <1>2, HereCalled, CallGroupKeeps

LEMMA AtomicGroupKeeps == ASSUME IInv, AtomicGroup PROVE IInv'
<1>1. Scanning /\ Op.op = "ONCE" /\ CallGroup(Here)
  BY DEF AtomicGroup, Exec
<1>2. Op.op \in CalledOps /\ Op.op \notin {"BRA", "SBRA", "CBRA", "SCBRA"}
  BY <1>1, LeadsOf DEF Op, Tried
<1> QED BY <1>1, <1>2, HereCalled, CallGroupKeeps

\* The caller of an assertion goes on after it, or not at all.
LEMMA AfterHere ==
  ASSUME IInv, Scanning \/ pc = "return", Op.op \in Tried \cup {"ONCE", "BRAPOS", "SBRAPOS", "CBRAPOS", "SCBRAPOS"}
  PROVE  Here # C.end /\ KetOf(code, Here) + 1 \in Leads(code, Here)
<1>1. KetOf(code, Here) + 1 \in Leads(code, Here) /\ Op.op \in CalledOps
  BY LeadsOf DEF Op
<1> QED BY <1>1, HereCalled, NotTheEnd

LEMMA AssertionDoneKeeps == ASSUME IInv, AssertionDone PROVE IInv'
<1> DEFINE active == IF Succeeded = Positive(Op.op) THEN <<Active(KetOf(code, Here) + 1)>> ELSE <<>>
<1>1. pc = "return" /\ Op.op \in Tried /\ Resume(C, active, <<>>)
  BY DEF AssertionDone, Back, After
<1>2. StatesIn(code, C.start, <<Active(KetOf(code, Here) + 1)>>) /\ StatesIn(code, C.start, <<>>)
  BY <1>1, AfterHere, LeadsTo, NoStates
<1>3. StatesIn(code, C.start, active)
  BY <1>2
<1> HIDE DEF active
<1> QED BY <1>1, <1>2, <1>3, CContinues, ResumeKeeps

\* Conditional groups.
LEMMA ConditionLeads ==
  ASSUME IInv, Scanning \/ pc = "return", Op.op \in {"COND", "SCOND"}
  PROVE  /\ Here # C.end /\ Here + 1 \in 1..(Len(code) - 1)
         /\ NextBranch(code, Here) + 1 \in Leads(code, Here)
         /\ code[Here + 1].op \in Tried =>
              /\ KetOf(code, Here + 1) + 1 \in Leads(code, Here) /\ Here + 1 \in Called(code) /\ MakesCall(code, Here)
         /\ code[Here + 1].op \notin Tried => (Here + 1) + 1 \in Leads(code, Here)
<1>1. Op.op \notin Kets
  BY DEF Kets
<1>2. Here # C.end /\ Here + 1 \in 1..(Len(code) - 1)
  BY <1>1, NotTheEnd
<1>3. /\ NextBranch(code, Here) + 1 \in Leads(code, Here)
      /\ code[Here + 1].op \in Tried => KetOf(code, Here + 1) + 1 \in Leads(code, Here)
                                        /\ Here + 1 \in CallsOn(code, Here)
      /\ code[Here + 1].op \notin Tried => (Here + 1) + 1 \in Leads(code, Here)
  BY LeadsOfConditions DEF Op
<1>4. CallsOn(code, Here) \subseteq Called(code)
  BY <1>2, LeadsInside
<1> QED BY <1>2, <1>3, <1>4 DEF MakesCall

LEMMA ConditionKeeps == ASSUME IInv, Condition PROVE IInv'
<1> DEFINE test == code[Here + 1]
           unsupported == test.op = "CREF" \/ (test.op = "RREF" /\ test.num # RREF_ANY)
<1>1. Scanning /\ Op.op \in {"COND", "SCOND"} /\ pc \in {"state", "return"}
  BY DEF Condition, Exec, Scanning
<1>2. \/ unsupported /\ Stop("DFA_UCOND")
      \/ test.op \in Tried /\ CallGroup(Here + 1)
      \/ test.op \notin Tried /\ \E holds : AddActive(<<Active(Fork(Here + 1, holds))>>)
  BY Zenon DEF Condition
<1>3. CASE unsupported /\ Stop("DFA_UCOND")
  <2>1. Here + 1 \in 1..(Len(code) - 1)
    BY <1>1, ConditionLeads
  <2>2. ~Compatible
    BY <1>3, <2>1, CompatibleAccepts, AcceptedOps
  <2> QED BY <1>1, <1>3, <2>2, StopKeeps
<1>4. CASE test.op \in Tried /\ CallGroup(Here + 1)
  BY <1>1, <1>4, ConditionLeads, CallGroupKeeps
<1>5. ASSUME test.op \notin Tried, NEW holds, AddActive(<<Active(Fork(Here + 1, holds))>>)
      PROVE  IInv'
  <2>1. Here # C.end /\ NextBranch(code, Here) + 1 \in Leads(code, Here) /\ (Here + 1) + 1 \in Leads(code, Here)
    BY <1>1, <1>5, ConditionLeads
  <2>2. Fork(Here + 1, holds) \in Leads(code, Here)
    BY <2>1 DEF Fork
  <2>3. StatesIn(code, C.start, <<Active(Fork(Here + 1, holds))>>)
    BY <1>1, <2>1, <2>2, LeadsTo
  <2> QED BY <1>1, <1>5, <2>3, AddActiveKeeps
<1> QED BY <1>2, <1>3, <1>4, <1>5

LEMMA ConditionDoneKeeps == ASSUME IInv, ConditionDone PROVE IInv'
<1> DEFINE holds == Succeeded = Positive(code[Here + 1].op)
           at == Fork(KetOf(code, Here + 1), holds)
<1>1. pc = "return" /\ Op.op \in {"COND", "SCOND"} /\ Resume(C, <<Active(at)>>, <<>>)
  BY DEF ConditionDone, Back
<1>2. code[Here + 1].op \in Tried
  <2>1. MakesCall(code, Here)
    BY <1>1, AtState
  <2> QED BY <1>1, <2>1 DEF MakesCall, CallsOn, CalledOps, Op
<1>3. Here # C.end /\ NextBranch(code, Here) + 1 \in Leads(code, Here) /\ KetOf(code, Here + 1) + 1 \in Leads(code, Here)
  BY <1>1, <1>2, ConditionLeads
<1> HIDE DEF holds
<1>4. at \in Leads(code, Here)
  BY <1>3 DEF Fork
<1> HIDE DEF at
<1>5. StatesIn(code, C.start, <<Active(at)>>) /\ StatesIn(code, C.start, <<>>)
  BY <1>1, <1>3, <1>4, LeadsTo, NoStates
<1> QED BY <1>1, <1>5, CContinues, ResumeKeeps

\* Recursions.
LEMMA RecursionLeads ==
  ASSUME IInv, Scanning \/ pc = "return", Op.op = "RECURSE"
  PROVE  /\ Here # C.end /\ ~Compatible
         /\ code[Here + 1].op # "CREF" =>
              /\ Here + 1 \in Leads(code, Here) /\ MakesCall(code, Here)
              /\ GroupStart(code, Op.num) \in Called(code)
         /\ pc = "return" => code[Here + 1].op # "CREF"
<1>1. Op.op \notin Kets /\ Op.op \notin CalledOps
  BY DEF Kets, CalledOps, Brackets, CaptureBrackets, Assertions, Lookbehinds
<1>2. Here # C.end
  BY <1>1, NotTheEnd
<1>3. /\ code[Here + 1].op = "CREF" => CallsOn(code, Here) = {}
      /\ code[Here + 1].op # "CREF" => Here + 1 \in Leads(code, Here) /\ GroupStart(code, Op.num) \in CallsOn(code, Here)
  BY LeadsOfConditions DEF Op
<1>4. CallsOn(code, Here) \subseteq Called(code)
  BY <1>2, LeadsInside
<1>5. ~Compatible
  <2>1. Here \in 1..(Len(code) - 1)
    BY AtState
  <2> QED BY <2>1, CompatibleAccepts, AcceptedOps DEF Op
<1>6. pc = "return" => code[Here + 1].op # "CREF"
  <2>1. pc = "return" => MakesCall(code, Here)
    BY AtState
  <2> QED BY <1>1, <1>3, <2>1 DEF MakesCall, Op
<1> QED BY <1>2, <1>3, <1>4, <1>5, <1>6 DEF MakesCall

LEMMA RecursionKeeps == ASSUME IInv, Recursion PROVE IInv'
<1> DEFINE G == [Now EXCEPT !.local_ptr = C.ptr]
           recursion == [group |-> Op.num, ptr |-> C.ptr, last_used |-> mb.last_used_ptr]
<1>1. Scanning /\ Op.op = "RECURSE" /\ pc \in {"state", "return"}
  BY DEF Recursion, Exec, Scanning
<1>2. \/ Stop("DFA_UITEM")
      \/ code[Here + 1].op # "CREF"
         /\ CallFor(G, RecursionPiece, GroupStart(code, Op.num), RecursionPairs, recursion, Loops(Op.num))
  BY DEF Recursion
<1>3. Alike(Now, G)
  BY <1>1, NowDomain DEF Alike, CallFields
<1> HIDE DEF G, recursion
<1>4. CASE Stop("DFA_UITEM")
  BY <1>1, <1>4, RecursionLeads, StopKeeps
<1>5. CASE code[Here + 1].op # "CREF"
           /\ CallFor(G, RecursionPiece, GroupStart(code, Op.num), RecursionPairs, recursion, Loops(Op.num))
  <2> DEFINE bra == GroupStart(code, Op.num)
             loops == Loops(Op.num)
  <2>1. bra \in Called(code) /\ MakesCall(code, Here) /\ ~Compatible
    BY <1>1, <1>5, RecursionLeads
  <2>2. Continues(G, <<>>) /\ Fits(G, 0, 0) /\ G.i > 0 /\ Waits(code, G)
    BY <1>1, <1>3, <2>1, LocalsChanged
  <2>3. CallFor(G, RecursionPiece, bra, RecursionPairs, recursion, loops)
    BY <1>5
  <2> HIDE DEF bra, loops
  <2>4. RecursionPairs \in Nat /\ RecursionPairs > 0
    BY SizeAssumption
  <2> QED BY <1>1, <2>1, <2>2, <2>3, <2>4, CallForKeeps
<1> QED BY <1>2, <1>4, <1>5

\* A sequence backwards is one.
LEMMA ReverseIsSeq == ASSUME NEW s, IsSeq(s) PROVE IsSeq(Reverse(s)) /\ DOMAIN Reverse(s) = DOMAIN s
<1>1. DOMAIN s = 1..Len(s) /\ Len(s) \in Nat
  BY SeqFacts
<1>2. DOMAIN Reverse(s) = DOMAIN s /\ Reverse(s) = [k \in DOMAIN Reverse(s) |-> Reverse(s)[k]]
  BY <1>1 DEF Reverse
<1> QED BY <1>2, MadeIsSeq

LEMMA RecursionDoneKeeps == ASSUME IInv, RecursionDone PROVE IInv'
<1> DEFINE counts == [k \in DOMAIN ret.matches |-> ret.matches[k][2] - ret.matches[k][1]]
           lengths == Reverse(counts)
           next == Here + 1
           active(n) == IF n = 0 THEN <<Active(next)>> ELSE <<>>
           new(n)    == IF n > 0 THEN <<HeldOff(next, n - 1)>> ELSE <<>>
           actives == [k \in DOMAIN lengths |-> active(lengths[k])]
           news == [k \in DOMAIN lengths |-> new(lengths[k])]
<1>1. pc = "return" /\ Op.op = "RECURSE"
  BY DEF RecursionDone, Back
<1>2. Stop("DFA_RECURSE") \/ Resume(C, <<>>, <<>>) \/ Resume(C, FlattenSeq(actives), FlattenSeq(news))
  BY DEF RecursionDone
<1>3. IsSeq(lengths)
  <2>1. IsSeq(ret.matches)
    BY <1>1 DEF IInv, Inductive, Answer
  <2>2. DOMAIN counts = DOMAIN ret.matches /\ counts = [k \in DOMAIN counts |-> counts[k]]
    OBVIOUS
  <2> HIDE DEF counts
  <2>3. IsSeq(counts)
    BY <2>1, <2>2, MadeIsSeq
  <2> QED BY <2>3, ReverseIsSeq
<1> HIDE DEF lengths
<1>4. /\ Here # C.end /\ ~Compatible /\ Here + 1 \in Leads(code, Here)
      /\ StatesIn(code, C.start, <<>>)
  BY <1>1, RecursionLeads, NoStates
<1>5. \A k \in DOMAIN lengths : StatesIn(code, C.start, active(lengths[k]))
  BY <1>1, <1>4, LeadsTo
<1>6. \A k \in DOMAIN lengths : StatesIn(code, C.start, new(lengths[k]))
  <2> TAKE k \in DOMAIN lengths
  <2>1. StatesIn(code, C.start, <<HeldOff(next, lengths[k] - 1)>>)
    BY <1>1, <1>4, LeadsToHeld
  <2> QED BY <1>4, <2>1
<1> HIDE DEF active, new
<1>7. DOMAIN actives = DOMAIN lengths /\ actives = [k \in DOMAIN actives |-> actives[k]]
      /\ \A k \in DOMAIN actives : StatesIn(code, C.start, actives[k])
  BY <1>5
<1>8. DOMAIN news = DOMAIN lengths /\ news = [k \in DOMAIN news |-> news[k]]
      /\ \A k \in DOMAIN news : StatesIn(code, C.start, news[k])
  BY <1>6
<1> HIDE DEF actives, news
<1>9. StatesIn(code, C.start, FlattenSeq(actives))
  BY <1>3, <1>7, MadeIsSeq, FlattenStates
<1>10. StatesIn(code, C.start, FlattenSeq(news))
  BY <1>3, <1>8, MadeIsSeq, FlattenStates
<1>11. CASE Stop("DFA_RECURSE")
  BY <1>1, <1>4, <1>11, StopKeeps
<1>12. CASE Resume(C, <<>>, <<>>)
  BY <1>1, <1>4, <1>12, CContinues, ResumeKeeps
<1>13. CASE Resume(C, FlattenSeq(actives), FlattenSeq(news))
  <2>1. Continues(C, FlattenSeq(news))
    BY <1>1, CContinues, NoneAdded DEF Continues
  <2> QED BY <1>1, <1>9, <1>10, <1>13, <2>1, ResumeKeeps
<1> QED BY <1>2, <1>11, <1>12, <1>13

\* Possessive groups: the bracket that is called on, and what follows it.
PossessiveOps == {"BRAPOS", "SBRAPOS", "CBRAPOS", "SCBRAPOS", "BRAPOSZERO"}
PossessiveBracket == IF Op.op = "BRAPOSZERO" THEN Here + 1 ELSE Here

LEMMA PossessiveLeads ==
  ASSUME IInv, Scanning \/ pc = "return", Op.op \in PossessiveOps
  PROVE  /\ Here # C.end /\ PossessiveBracket \in Called(code) /\ MakesCall(code, Here)
         /\ KetOf(code, PossessiveBracket) + 1 \in Leads(code, Here)
<1>1. CASE Op.op = "BRAPOSZERO"
  <2>1. Op.op \notin Kets
    BY <1>1 DEF Kets
  <2>2. Here # C.end /\ CallsOn(code, Here) \subseteq Called(code)
    BY <2>1, NotTheEnd, LeadsInside
  <2>3. Here + 1 \in CallsOn(code, Here) /\ KetOf(code, Here + 1) + 1 \in Leads(code, Here)
    BY <1>1, LeadsOf, LeadsOfConditions DEF Op
  <2> QED BY <1>1, <2>2, <2>3 DEF PossessiveBracket, MakesCall
<1>2. CASE Op.op # "BRAPOSZERO"
  <2>1. Op.op \in {"BRAPOS", "SBRAPOS", "CBRAPOS", "SCBRAPOS"}
    BY <1>2 DEF PossessiveOps
  <2>2. Here # C.end /\ KetOf(code, Here) + 1 \in Leads(code, Here) /\ Op.op \in CalledOps
    BY <2>1, AfterHere, LeadsOf DEF Op
  <2>3. Here \in Called(code) /\ MakesCall(code, Here)
    BY <2>1, <2>2, HereCalled
  <2> QED BY <1>2, <2>2, <2>3 DEF PossessiveBracket
<1> QED BY <1>1, <1>2

LEMMA PossessiveGroupKeeps == ASSUME IInv, PossessiveGroup PROVE IInv'
<1> DEFINE G == [Now EXCEPT !.local_ptr = C.ptr, !.matched_count = 0]
<1>1. Scanning /\ Op.op \in PossessiveOps /\ CallFor(G, OtherPiece, PossessiveBracket, 1, NoRecursion, FALSE)
  BY DEF PossessiveGroup, Exec, PossessiveOps, PossessiveBracket
<1>2. Alike(Now, G)
  BY <1>1, NowDomain DEF Alike, CallFields
<1> HIDE DEF G
<1>3. PossessiveBracket \in Called(code) /\ MakesCall(code, Here)
  BY <1>1, PossessiveLeads
<1>4. Continues(G, <<>>) /\ Fits(G, 0, 0) /\ G.i > 0 /\ Waits(code, G)
  BY <1>1, <1>2, <1>3, LocalsChanged
<1>5. 1 \in Nat /\ 1 > 0
  OBVIOUS
<1> QED BY <1>1, <1>3, <1>4, <1>5, CallForKeeps

LEMMA PossessiveGroupDoneKeeps == ASSUME IInv, PossessiveGroupDone PROVE IInv'
<1> DEFINE bra == PossessiveBracket
           length == IF Succeeded THEN ret.matches[1][2] - ret.matches[1][1] ELSE 0
           further == C.local_ptr + length
           first == First(bra, further)
           again == [C EXCEPT !.local_ptr = further, !.matched_count = @ + 1]
           skipped == [C EXCEPT !.ptr = C.local_ptr, !.clen = 0]
           after == KetOf(code, bra) + 1
           called ==
             /\ LimitError = ""
             /\ ~(Len(first) > InnerStates)
             /\ calls' = Pushed(again, NewCall(bra, further, first, 1, InnerStates, NoRecursion, C.ptr))
             /\ mb' = Begun(bra, further) /\ pc' = "state" /\ ret' = ret /\ UNCHANGED driver
<1>1. pc = "return" /\ Op.op \in PossessiveOps
  BY DEF PossessiveGroupDone, Back, PossessiveOps
<1>2. \/ Stop(LimitError) \/ Stop("DFA_WSSIZE")
      \/ called
      \/ Resume(C, <<>>, <<>>)
      \/ Resume(skipped, <<>>, <<Active(after)>>)
      \/ \E n : Resume(C, <<>>, <<HeldOff(after, n)>>)
  BY Zenon DEF PossessiveGroupDone, PossessiveBracket, After, Pushed
<1>3. Here # C.end /\ bra \in Called(code) /\ after \in Leads(code, Here)
  BY <1>1, PossessiveLeads
<1>4. Continues(C, <<>>) /\ Fits(C, 0, 0) /\ Shaped(code, C) /\ C.i > 0 /\ Waits(code, C) /\ DOMAIN C = CallFields
  BY <1>1, CContinues, AtState DEF Continues, Shaped
<1>5. Alike(C, again) /\ Alike(C, skipped)
  BY <1>4 DEF Alike, CallFields
<1>6. StatesIn(code, C.start, <<>>) /\ StatesIn(code, C.start, <<Active(after)>>)
  BY <1>1, <1>3, LeadsTo, NoStates
<1> HIDE DEF bra, length, again, skipped, after
<1>7. CASE Stop(LimitError)
  <2>1. LimitError \notin CodeErrors
    BY LimitErrors DEF CodeErrors
  <2> QED BY <1>1, <1>7, <2>1, StopKeeps
<1>8. CASE Stop("DFA_WSSIZE")
  BY <1>1, <1>8, StopKeeps DEF CodeErrors
<1>9. CASE called
  <2>1. mb.match_call_count + 1 <= options.match_limit /\ Len(calls) <= options.depth_limit
    BY <1>1, <1>9, LimitsAllow
  <2>2. Len(first) \in Nat
    BY <1>1, <1>3, InProgress, FirstStates
  <2>3. Len(first) <= InnerStates
    BY <1>9, <2>2, SizeAssumption, NotMore
  <2>4. Continues(again, <<>>) /\ Fits(again, 0, 0)
    BY <1>4, <1>5, AlikeContinues
  <2>5. again.i > 0 /\ Waits(code, again)
    BY <1>4, <1>5 DEF Alike, Waits
  <2>6. /\ calls' = Pushed(again, NewCall(bra, further, First(bra, further), 1, InnerStates, NoRecursion, C.ptr))
        /\ mb' = Begun(bra, further) /\ pc' = "state" /\ ret' = ret /\ UNCHANGED driver
    BY <1>9
  <2>7. 1 \in Nat /\ 1 > 0
    OBVIOUS
  <2> HIDE DEF further
  <2> QED BY <1>1, <1>3, <2>1, <2>3, <2>4, <2>5, <2>6, <2>7, CallBegins
<1>10. CASE Resume(C, <<>>, <<>>)
  BY <1>1, <1>4, <1>6, <1>10, ResumeKeeps
<1>11. CASE Resume(skipped, <<>>, <<Active(after)>>)
  <2>1. Continues(C, <<Active(after)>>)
    BY <1>4, NoneAdded DEF Continues
  <2>2. Continues(skipped, <<Active(after)>>)
    BY <1>4, <1>5, <2>1, AlikeContinues
  <2> QED BY <1>1, <1>6, <1>11, <2>2, ResumeKeeps
<1>12. ASSUME NEW n, Resume(C, <<>>, <<HeldOff(after, n)>>) PROVE IInv'
  <2>1. Continues(C, <<HeldOff(after, n)>>)
    BY <1>4, NoneAdded DEF Continues
  <2>2. StatesIn(code, C.start, <<HeldOff(after, n)>>)
    BY <1>1, <1>3, LeadsToHeld
  <2> QED BY <1>1, <1>6, <1>12, <2>1, <2>2, ResumeKeeps
<1> QED BY <1>2, <1>7, <1>8, <1>9, <1>10, <1>11, <1>12

LEMMA AtomicGroupDoneKeeps == ASSUME IInv, AtomicGroupDone PROVE IInv'
<1> DEFINE length == ret.matches[1][2] - ret.matches[1][1]
           ket == KetOf(code, Here)
           after == ket + 1
           repeat == IF code[ket].op \in {"KETRMAX", "KETRMIN"} THEN <<Here>> ELSE <<>>
           held(i) == HeldOff(i, length - 1)
           again == [k \in DOMAIN repeat |-> held(Here)]
           skipped == [C EXCEPT !.ptr = @ + length, !.clen = 0]
           begun == [skipped EXCEPT !.i = 0, !.active = <<>>, !.lost = C.active]
<1>1. pc = "return" /\ Op.op = "ONCE"
  BY DEF AtomicGroupDone, Back
<1>2. \/ Resume(C, <<>>, <<>>)
      \/ Resume(C, <<Active(after)>>, <<>>)
      \/ Resume(C, <<>>, <<held(after)>> \o again)
      \/ Resume(skipped, <<>>, <<Active(after)>>)
      \/ AloneInLists(C) /\ Resume(begun, <<Active(Here)>>, <<Active(after)>>)
  BY Zenon DEF AtomicGroupDone
<1>3. Here # C.end /\ after \in Leads(code, Here)
  BY <1>1, AfterHere
<1>4. Continues(C, <<>>) /\ Fits(C, 0, 0) /\ Shaped(code, C) /\ Remembered(C) /\ DOMAIN C = CallFields
  BY <1>1, CContinues, NoneAdded DEF Continues, Shaped
<1>5. /\ StatesIn(code, C.start, <<>>) /\ StatesIn(code, C.start, <<Active(after)>>)
      /\ StatesIn(code, C.start, <<held(after)>>)
      /\ StateIn(code, C.start, held(Here)) /\ StatesIn(code, C.start, <<Active(Here)>>)
  BY <1>1, <1>3, LeadsTo, LeadsToHeld, StaysThere, NoStates
<1>6. StatesIn(code, C.start, again)
  <2>1. IsSeq(repeat)
    <3>1. <<Here>> \in Seq({Here}) /\ <<>> \in Seq({Here})
      OBVIOUS
    <3> QED BY <3>1, SeqIsSeq
  <2> HIDE DEF repeat
  <2>2. DOMAIN again = DOMAIN repeat /\ again = [k \in DOMAIN again |-> again[k]]
    OBVIOUS
  <2>3. \A k \in DOMAIN again : StateIn(code, C.start, again[k])
    BY <1>5
  <2> HIDE DEF again
  <2>4. IsSeq(again)
    BY <2>1, <2>2, MadeIsSeq
  <2> QED BY <2>3, <2>4, SeqFacts DEF StatesIn
<1>7. Alike(C, skipped)
  BY <1>4 DEF Alike, CallFields
<1>8. /\ DOMAIN begun = CallFields /\ begun.active = <<>> /\ begun.lost = C.active /\ begun.i = 0
      /\ begun.start = C.start /\ begun.end = C.end /\ begun.new = C.new
      /\ begun.started = C.started /\ begun.pairs = C.pairs /\ begun.states = C.states
      /\ begun.matches = C.matches /\ begun.matched = C.matched
  BY <1>4 DEF CallFields
<1> HIDE DEF again, skipped, begun, held, after
<1>9. CASE Resume(C, <<>>, <<>>)
  BY <1>1, <1>4, <1>5, <1>9, ResumeKeeps
<1>10. CASE Resume(C, <<Active(after)>>, <<>>)
  BY <1>1, <1>4, <1>5, <1>10, ResumeKeeps
<1>11. CASE Resume(C, <<>>, <<held(after)>> \o again)
  <2>1. Continues(C, <<held(after)>> \o again)
    BY <1>4 DEF Continues
  <2>2. StatesIn(code, C.start, <<held(after)>> \o again)
    BY <1>5, <1>6, StatesConcat
  <2> QED BY <1>1, <1>5, <1>11, <2>1, <2>2, ResumeKeeps
<1>12. CASE Resume(skipped, <<>>, <<Active(after)>>)
  <2>1. Continues(C, <<Active(after)>>)
    BY <1>4 DEF Continues
  <2>2. Continues(skipped, <<Active(after)>>)
    BY <1>4, <1>7, <2>1, AlikeContinues
  <2> QED BY <1>1, <1>5, <1>12, <2>2, ResumeKeeps
<1>13. CASE AloneInLists(C) /\ Resume(begun, <<Active(Here)>>, <<Active(after)>>)
  <2>1. C.new = <<>> /\ Len(<<>>) = 0 /\ Len(<<Active(after)>>) > 0
    BY <1>13 DEF AloneInLists
  <2>2. C.started <= Len(C.active)
    BY <1>4, <2>1 DEF Remembered
  <2>3. Shaped(code, begun)
    BY <1>4, <1>5, <1>8 DEF Shaped
  <2>4. Continues(begun, <<Active(after)>>)
    BY <1>8, <2>1, <2>2, <2>3 DEF Continues
  <2> QED BY <1>1, <1>5, <1>13, <2>4, ResumeKeeps
<1> QED BY <1>2, <1>9, <1>10, <1>11, <1>12, <1>13

-----------------------------------------------------------------------------
(***************************************************************************)
(* The end of the lists, and the loop over the starting points.            *)
(***************************************************************************)
LEMMA NextCharacterKeeps == ASSUME IInv, NextCharacter PROVE IInv'
<1> DEFINE p == C.ptr + C.clen
           H == [C EXCEPT !.ptr = p, !.clen = IF p < end_subject THEN 1 ELSE 0, !.i = 1,
                          !.active = C.new, !.new = <<>>, !.started = Len(C.new), !.lost = <<>>,
                          !.could_continue = C.reset_could_continue, !.reset_could_continue = FALSE]
<1>1. pc = "state" /\ pc' = "state" /\ calls' = [calls EXCEPT ![Len(calls)] = H]
      /\ ret' = ret /\ UNCHANGED driver
  BY DEF NextCharacter, ListDone
<1>2. mb'.match_call_count = mb.match_call_count /\ DOMAIN mb' = DOMAIN mb
  BY DEF NextCharacter, IInv, Inductive
<1>3. Sound(code, C) /\ Fits(C, 0, 0) /\ Shaped(code, C)
  BY <1>1, InProgress DEF Sound
<1>4. /\ DOMAIN H = CallFields /\ H.active = C.new /\ H.new = <<>> /\ H.lost = <<>> /\ H.i = 1
      /\ H.start = C.start /\ H.end = C.end
      /\ H.started = Len(C.new) /\ H.pairs = C.pairs /\ H.states = C.states
      /\ H.matches = C.matches /\ H.matched = C.matched
  BY <1>3 DEF Shaped, CallFields
<1> HIDE DEF H
<1>5. StatesIn(code, C.start, <<>>) /\ Len(<<>>) = 0 /\ Len(C.new) \in Nat
  BY <1>3, NoStates, SeqFacts DEF Shaped, StatesIn
<1>6. Shaped(code, H)
  BY <1>3, <1>4, <1>5 DEF Shaped
<1>7. Sound(code, H) /\ Fits(H, 0, 0)
  BY <1>3, <1>4, <1>5, <1>6 DEF Sound, Remembered, Fits, Shaped
<1> QED BY <1>1, <1>2, <1>4, <1>7, TopReplaced

LEMMA AllMatchesFoundKeeps == ASSUME IInv, AllMatchesFound PROVE IInv'
<1>1. pc = "state"
  BY DEF AllMatchesFound, ListDone
<1>2. \/ Return("PARTIAL", <<>>) \/ Return("NOMATCH", <<>>)
      \/ C.matched /\ Return(MatchCode(C), C.matches)
  BY DEF AllMatchesFound
<1>3. IsSeq(<<>>)
  BY NoStates DEF StatesIn
<1>4. CASE Return("PARTIAL", <<>>)
  BY <1>1, <1>3, <1>4, ReturnKeeps DEF CodeErrors
<1>5. CASE Return("NOMATCH", <<>>)
  BY <1>1, <1>3, <1>5, ReturnKeeps DEF CodeErrors
<1>6. CASE C.matched /\ Return(MatchCode(C), C.matches)
  <2>1. MatchCode(C) \notin CodeErrors
    BY DEF MatchCode, CodeErrors
  <2>2. Shaped(code, C) /\ (Len(calls) > 1 => C.pairs > 0)
    BY <1>1, InProgress DEF Sound
  <2>3. IsSeq(C.matches) /\ (Len(calls) > 1 => Len(C.matches) > 0)
    BY <1>6, <2>2 DEF Shaped
  <2> QED BY <1>1, <1>6, <2>1, <2>3, ReturnKeeps
<1> QED BY <1>2, <1>4, <1>5, <1>6

\* An attempt: the outermost call, on the whole pattern.
LEMMA StartMatchKeeps == ASSUME IInv, StartMatch PROVE IInv'
<1> DEFINE at == Starting.start
           first == IF Restarting THEN restart ELSE Branches(1)
           N == NewCall(1, at, first, options.pairs, options.states, NoRecursion, options.start_offset)
           cs == <<N>>
<1>1. /\ pc = "bumpalong" /\ calls' = cs
      /\ mb' = [mb EXCEPT !.start_used_ptr = at, !.last_used_ptr = at, !.match_call_count = @ + 1]
      /\ input' = input /\ restart' = restart /\ result' = result
  BY DEF StartMatch
<1>2. \/ LimitError = "" /\ ~(Len(first) > options.states) /\ pc' = "state" /\ ret' = ret
      \/ pc' = "result" /\ ret'.rc \in {"MATCHLIMIT", "DEPTHLIMIT", "DFA_WSSIZE"}
  <2> DEFINE limit == LimitError
             full == Len(first) > options.states
             error == IF limit # "" THEN limit ELSE IF full THEN "DFA_WSSIZE" ELSE ""
  <2>1. IF error = "" THEN pc' = "state" /\ ret' = ret
        ELSE pc' = "result" /\ ret' = Returned(error, <<>>)
    BY Zenon DEF StartMatch
  <2>2. limit \in {"", "MATCHLIMIT", "DEPTHLIMIT"}
    BY LimitErrors
  <2> HIDE DEF limit, full
  <2>3. error = "" => limit = "" /\ ~full
    BY Zenon, <2>2
  <2>4. error # "" => error \in {"MATCHLIMIT", "DEPTHLIMIT", "DFA_WSSIZE"}
    BY Zenon, <2>2
  <2> HIDE DEF error
  <2>5. CASE error = ""
    BY Zenon, <2>1, <2>3, <2>5 DEF limit, full
  <2>6. CASE error # ""
    <3>1. Returned(error, <<>>).rc = error
      BY DEF Returned
    <3> QED BY Zenon, <2>1, <2>4, <2>6, <3>1
  <2> QED BY Zenon, <2>5, <2>6
<1>3. Inductive(input, pc, calls, mb, ret, restart) /\ calls = <<>>
  BY <1>1 DEF IInv, Inductive
<1>4. Followable(code) /\ options.match_limit \in Nat /\ options.depth_limit \in Nat
      /\ options.pairs \in Nat /\ options.states \in Nat
  BY <1>3, CodeAssumption, LimitAssumption DEF Inductive, code, options
<1>5. 1 \in Called(code) /\ ~LookingBack(1)
  BY <1>4 DEF Followable, Called, CalledOps, Brackets, CaptureBrackets, Supported, Kets, LookingBack
<1>6. StatesIn(code, 1, first) /\ Len(first) \in Nat
  <2>1. StatesIn(code, 1, restart)
    BY <1>3 DEF Inductive, code
  <2>2. StatesIn(code, 1, First(1, at))
    BY <1>4, <1>5, FirstStates
  <2>3. StatesIn(code, 1, Branches(1))
    BY <1>5, <2>2 DEF First
  <2>4. StatesIn(code, 1, first)
    BY <2>1, <2>3
  <2> HIDE DEF first
  <2> QED BY <2>4, SeqFacts DEF StatesIn
<1> HIDE DEF first
<1>7. Sound(code, N) /\ N.start = 1 /\ (Len(first) <= options.states => Fits(N, 0, 0))
  BY <1>4, <1>5, <1>6, NewCallSound
<1> HIDE DEF N, at
<1>8. IsSeq(cs) /\ Len(cs) = 1 /\ cs[1] = N
  <2>1. <<N>> \in Seq({N})
    OBVIOUS
  <2> QED BY <2>1, SeqIsSeq
<1> HIDE DEF cs
<1>9. Stack(code, cs)
  BY <1>7, <1>8 DEF Stack
<1>10. code' = code /\ options' = options /\ Compatible' = Compatible
  BY <1>1, CompatibleStays
<1>11. DOMAIN mb' = DOMAIN mb /\ mb'.match_call_count = mb.match_call_count + 1 /\ mb.match_call_count \in Nat
  BY <1>1, <1>3 DEF Inductive
<1>12. CASE LimitError = "" /\ ~(Len(first) > options.states) /\ pc' = "state" /\ ret' = ret
  <2>1. Fits(N, 0, 0)
    BY <1>4, <1>6, <1>7, <1>12, NotMore
  <2>2. ~(mb.match_call_count >= options.match_limit)
    BY <1>12, Zenon DEF LimitError
  <2>3. mb'.match_call_count <= options.match_limit
    BY <1>4, <1>11, <2>2, NotMore
  <2>4. pc' = "state" /\ ret' = ret
    BY <1>12
  <2>5. Running(options, cs, mb')
    BY <1>4, <1>8, <2>1, <2>3 DEF Running
  <2>6. Inductive(input', pc', calls', mb', ret', restart')
    BY <1>1, <1>3, <1>9, <1>11, <2>4, <2>5 DEF Inductive, code, options
  <2> QED BY <1>1, <1>10, <2>4, <2>6 DEF IInv
<1>13. CASE pc' = "result" /\ ret'.rc \in {"MATCHLIMIT", "DEPTHLIMIT", "DFA_WSSIZE"}
  <2>1. Inductive(input', pc', calls', mb', ret', restart')
    BY <1>1, <1>3, <1>9, <1>11, <1>13 DEF Inductive, code, options
  <2> QED BY <1>1, <1>10, <1>13, <2>1 DEF IInv, CodeErrors
<1> QED BY <1>2, <1>12, <1>13

LEMMA BumpalongKeeps == ASSUME IInv, Bumpalong PROVE IInv'
<1>1. /\ pc' = "bumpalong" /\ calls' = <<>> /\ input' = input /\ restart' = restart /\ result' = result
      /\ mb' = mb /\ ret' = ret
  BY DEF Bumpalong
<1>2. Inductive(input', pc', calls', mb', ret', restart')
  BY <1>1 DEF IInv, Inductive
<1> QED BY <1>1, <1>2, CompatibleStays DEF IInv

\* The states that are remembered are those of the whole pattern.
LEMMA SavedStates == ASSUME NEW c, Stack(c, calls) PROVE StatesIn(c, 1, Saved)
<1> DEFINE G == calls[1]
           f == [k \in 1..G.started |-> IF k <= Len(G.active) THEN G.active[k] ELSE G.lost[k]]
<1>1. Len(calls) \in Nat /\ 1 \in 1..Len(calls)
  BY SeqFacts DEF Stack
<1>2. Shaped(c, G) /\ Remembered(G) /\ G.start = 1
  BY <1>1 DEF Stack, Sound
<1>3. Saved = f
  BY DEF Saved
<1> HIDE DEF G
<1>4. StatesIn(c, 1, G.active) /\ StatesIn(c, 1, G.lost) /\ G.started \in Nat
  BY <1>2 DEF Shaped
<1>5. Len(G.active) \in Nat /\ Len(G.lost) \in Nat
  BY <1>4, SeqFacts DEF StatesIn
<1>6. \A k \in 1..G.started : StateIn(c, 1, f[k])
  <2> TAKE k \in 1..G.started
  <2>1. CASE k <= Len(G.active)
    BY <1>4, <1>5, <2>1 DEF StatesIn
  <2>2. CASE ~(k <= Len(G.active))
    <3>1. k <= Len(G.lost)
      BY <1>2, <1>4, <1>5, <2>2 DEF Remembered
    <3> QED BY <1>4, <1>5, <2>2, <3>1 DEF StatesIn
  <2> QED BY <2>1, <2>2
<1>7. DOMAIN f = 1..G.started /\ f = [k \in DOMAIN f |-> f[k]]
  OBVIOUS
<1> HIDE DEF f
<1>8. IsSeq(f) /\ Len(f) = G.started
  <2>1. f \in [1..G.started -> {f[k] : k \in DOMAIN f}]
    BY <1>7
  <2>2. f \in Seq({f[k] : k \in DOMAIN f}) /\ Len(f) = G.started
    BY SMTT(30), <1>4, <1>7, <2>1, SeqDef
  <2> QED BY <2>2 DEF IsSeq
<1> QED BY <1>3, <1>6, <1>8 DEF StatesIn

LEMMA EndLoopKeeps == ASSUME IInv, EndLoop PROVE IInv'
<1>1. /\ pc \in {"bumpalong", "result"} /\ pc' = "done" /\ calls' = <<>> /\ input' = input
      /\ mb' = mb /\ ret' = ret
      /\ result'.rc \in {"NOMATCH", ret.rc}
      /\ restart' = IF pc = "result" /\ ret.rc = "PARTIAL" THEN Saved ELSE <<>>
  BY DEF EndLoop
<1>2. Inductive(input, pc, calls, mb, ret, restart)
  BY DEF IInv
<1>3. StatesIn(code, 1, restart')
  <2>1. pc = "result" => StatesIn(code, 1, Saved)
    BY <1>2, SavedStates DEF Inductive, code
  <2> QED BY <1>1, <2>1, NoStates
<1>4. Inductive(input', pc', calls', mb', ret', restart')
  BY <1>1, <1>2, <1>3 DEF Inductive, code
<1>5. Compatible => ret'.rc \notin CodeErrors /\ result'.rc \notin CodeErrors
  BY <1>1 DEF IInv, CodeErrors
<1> QED BY <1>1, <1>4, <1>5, CompatibleStays DEF IInv

LEMMA NextSegmentKeeps == ASSUME IInv, NextSegment PROVE IInv'
<1>1. /\ pc = "done" /\ pc' = "bumpalong" /\ mb' = InitialBlock /\ calls' = calls
      /\ input' = input /\ restart' = restart /\ result' = result /\ ret' = ret
  BY DEF NextSegment
<1>2. DOMAIN InitialBlock = {"start_used_ptr", "last_used_ptr", "match_call_count"} /\ InitialBlock.match_call_count \in Nat
  BY DEF InitialBlock
<1>3. Inductive(input', pc', calls', mb', ret', restart')
  BY <1>1, <1>2 DEF IInv, Inductive
<1> QED BY <1>1, <1>3, CompatibleStays DEF IInv

LEMMA InitKeeps == ASSUME Init PROVE IInv
<1>1. /\ input \in Inputs /\ pc = "bumpalong" /\ calls = <<>> /\ mb = InitialBlock /\ restart = <<>>
      /\ ret.rc = "NOMATCH" /\ result = NoResult
  BY DEF Init, Returned
<1>2. DOMAIN InitialBlock = {"start_used_ptr", "last_used_ptr", "match_call_count"} /\ InitialBlock.match_call_count \in Nat
  BY DEF InitialBlock
<1>3. StatesIn(input.program.code, 1, restart)
  BY <1>1, NoStates
<1>4. Inductive(input, pc, calls, mb, ret, restart)
  BY <1>1, <1>2, <1>3 DEF Inductive
<1>5. result.rc \notin CodeErrors
  BY <1>1, Zenon DEF NoResult, CodeErrors
<1>6. ret.rc \notin CodeErrors
  BY <1>1 DEF CodeErrors
<1> QED BY <1>4, <1>5, <1>6 DEF IInv

-----------------------------------------------------------------------------
(***************************************************************************)
(* The theorems.                                                           *)
(***************************************************************************)
LEMMA StepKeeps == ASSUME IInv, [Next]_vars PROVE IInv'
<1>1. CASE Lists
  BY <1>1, HoldOffKeeps, SkipDuplicateKeeps, NextCharacterKeeps, AllMatchesFoundKeeps DEF Lists
<1>2. CASE BracketOps
  BY <1>2, KetInsideKeeps, KetAtEndKeeps, AlternationKeeps, BracketedKeeps, BraZeroKeeps, SkipZeroKeeps
  DEF BracketOps
<1>3. CASE Items
  BY <1>3, CircumflexKeeps, EndOfSubjectKeeps, DollarKeeps, WordBoundaryKeeps, CharacterKeeps, FailKeeps,
     UnsupportedKeeps DEF Items
<1>4. CASE CharacterRepeats
  BY <1>4, CharacterRepeatsKeep
<1>5. CASE Inner
  BY <1>5, AssertionKeeps, AssertionDoneKeeps, ConditionKeeps, ConditionDoneKeeps, RecursionKeeps,
     RecursionDoneKeeps, PossessiveGroupKeeps, PossessiveGroupDoneKeeps, AtomicGroupKeeps,
     AtomicGroupDoneKeeps DEF Inner
<1>6. CASE Driver
  BY <1>6, StartMatchKeeps, BumpalongKeeps, EndLoopKeeps, NextSegmentKeeps DEF Driver
<1>7. CASE UNCHANGED vars
  <2>1. /\ input' = input /\ pc' = pc /\ calls' = calls /\ mb' = mb /\ ret' = ret
        /\ restart' = restart /\ result' = result
    BY <1>7 DEF vars, driver
  <2> QED BY <2>1, CompatibleStays DEF IInv
<1> QED BY <1>1, <1>2, <1>3, <1>4, <1>5, <1>6, <1>7 DEF Next

\* The states of every call stay inside its bracket, a call waits only at an item that makes
\* one, and a call that can still go on has a place it goes on from (internal_dfa_match()).
THEOREM InvariantHolds == Spec => []IInv
BY InitKeeps, StepKeeps, PTL DEF Spec

\* The limits of the application bound the depth and the number of the calls, and the lists
\* of a call stay within its workspace (ADD_ACTIVE and ADD_NEW of internal_dfa_match()).
THEOREM LimitsHold == Spec => []WithinLimits
<1>1. IInv => WithinLimits
  <2> SUFFICES ASSUME IInv, pc = "state" PROVE WithinLimits
    BY DEF WithinLimits
  <2>1. Running(options, calls, mb)
    BY InProgress
  <2> QED BY <2>1 DEF Running, WithinLimits
<1> QED BY <1>1, InvariantHolds, PTL

\* What PCRE2_INFO_DFA_COMPATIBILITY answers (dfa_compatibility()) is a promise: no subject, no
\* options and no limits make the matcher come to an item it does not support.
THEOREM CompatibleNeverFails == Spec => []CompatibleIsSupported
<1>1. IInv => CompatibleIsSupported
  BY DEF IInv, CompatibleIsSupported
<1> QED BY <1>1, InvariantHolds, PTL
=============================================================================
