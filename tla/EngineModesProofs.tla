------------------------- MODULE EngineModesProofs -------------------------
(***************************************************************************)
(* Proofs about EngineModes, for any configuration of the gate, of the     *)
(* captures and of the table: the ranks of the gate never wait apart,      *)
(* measure only what passed and are judged exactly, the captures write     *)
(* whole records of the request they name, and the reader answers with the *)
(* rows it is asked for and says of its advice, and of what a request      *)
(* read, what is so.                                                       *)
(***************************************************************************)
EXTENDS EngineModes, GateInvariants, FiniteSetTheorems, TLAPS

-----------------------------------------------------------------------------
\* Lists.
LEMMA NatMin ==
  ASSUME NEW T, T \subseteq Nat, T # {}
  PROVE  \E n \in T : \A m \in T : n <= m
<1> DEFINE I == {0 .. n : n \in T}
<1>1. I \subseteq FiniteSubsetsOf(Nat) /\ I # {}
  <2>1. \A n \in T : 0 .. n \in SUBSET Nat /\ IsFiniteSet(0 .. n)
    BY FS_Interval
  <2>2. QED BY <2>1 DEF FiniteSubsetsOf
<1>2. PICK X \in I : \A Y \in I : <<Y, X>> \notin StrictSubsetOrdering(Nat)
  <2>1. IsWellFoundedOn(StrictSubsetOrdering(Nat), FiniteSubsetsOf(Nat))
    BY FS_StrictSubsetOrderingWellFounded
  <2> HIDE DEF I
  <2>2. QED BY <1>1, <2>1, WFMin
<1>3. PICK n \in T : X = 0 .. n
  OBVIOUS
<1>4. ASSUME NEW m \in T PROVE n <= m
  <2>1. SUFFICES ASSUME m < n PROVE FALSE
    OBVIOUS
  <2>2. 0 .. m \in I /\ 0 .. m \subseteq X /\ 0 .. m # X
    BY <1>3, <2>1
  <2>3. <<0 .. m, X>> \in StrictSubsetOrdering(Nat)
    BY <1>3, <2>2 DEF StrictSubsetOrdering
  <2>4. QED BY <1>2, <2>2, <2>3
<1>5. QED BY <1>4

Joins(u, s, t) == u = s \o t

LEMMA ListIs ==
  ASSUME NEW s, IsList(s) PROVE Len(s) \in Nat /\ DOMAIN s = 1 .. Len(s)
<1>1. PICK S : s \in Seq(S)
  BY DEF IsList
<1> QED BY <1>1

LEMMA EmptyIsList == IsList(<<>>) /\ Elems(<<>>) = {}
<1>1. <<>> \in Seq({})
  OBVIOUS
<1>2. DOMAIN <<>> = {}
  OBVIOUS
<1> QED BY <1>1, <1>2 DEF IsList, Elems

LEMMA JoinedWith ==
  ASSUME NEW s, NEW t, NEW u, IsList(s), IsList(t), Joins(u, s, t)
  PROVE  IsList(u) /\ Elems(u) = Elems(s) \cup Elems(t)
<1>1. PICK S : s \in Seq(S)
  BY DEF IsList
<1>2. PICK T : t \in Seq(T)
  BY DEF IsList
<1> DEFINE V == S \cup T
<1>3. s \in Seq(V) /\ t \in Seq(V)
  BY <1>1, <1>2
<1> HIDE DEF V
<1>4. u \in Seq(V)
  BY <1>3 DEF Joins
<1>5. /\ DOMAIN u = 1 .. (Len(s) + Len(t)) /\ Len(s) \in Nat /\ Len(t) \in Nat
      /\ \A i \in 1 .. (Len(s) + Len(t)) :
            u[i] = IF i <= Len(s) THEN s[i] ELSE t[i - Len(s)]
      /\ DOMAIN s = 1 .. Len(s) /\ DOMAIN t = 1 .. Len(t)
  BY <1>3 DEF Joins
<1>6. ASSUME NEW i \in DOMAIN u PROVE u[i] \in Elems(s) \cup Elems(t)
  <2>1. CASE i <= Len(s)
    BY <1>5, <2>1 DEF Elems
  <2>2. CASE ~(i <= Len(s))
    <3>1. i - Len(s) \in DOMAIN t
      BY <1>5, <2>2
    <3> QED BY <1>5, <2>2, <3>1 DEF Elems
  <2> QED BY <2>1, <2>2
<1>7. ASSUME NEW i \in DOMAIN s PROVE s[i] \in Elems(u)
  <2>1. i \in DOMAIN u /\ u[i] = s[i]
    BY <1>5
  <2> QED BY <2>1 DEF Elems
<1>8. ASSUME NEW i \in DOMAIN t PROVE t[i] \in Elems(u)
  <2>1. i + Len(s) \in DOMAIN u /\ u[i + Len(s)] = t[i]
    BY <1>5
  <2> QED BY <2>1 DEF Elems
<1>9. \A x \in Elems(u) : x \in Elems(s) \cup Elems(t)
  BY <1>6 DEF Elems
<1>10. \A x \in Elems(s) \cup Elems(t) : x \in Elems(u)
  BY <1>7, <1>8 DEF Elems
<1> QED BY <1>4, <1>9, <1>10 DEF IsList

LEMMA Joined ==
  ASSUME NEW s, NEW t, IsList(s), IsList(t)
  PROVE  IsList(s \o t) /\ Elems(s \o t) = Elems(s) \cup Elems(t)
<1>1. PICK u : u = s \o t
  OBVIOUS
<1>2. Joins(u, s, t)
  BY <1>1 DEF Joins
<1>3. IsList(u) /\ Elems(u) = Elems(s) \cup Elems(t)
  BY <1>2, JoinedWith
<1> QED BY <1>1, <1>3, Zenon

-----------------------------------------------------------------------------

LEMMA BaselineAsks == Baseline # <<>>
BY DEF Baseline

LEMMA BlockInit == Init => BInv
BY DEF Init, BInv, Shape, InStep, Waiting, Inside, Ranks

LEMMA BlockNext == ASSUME BInv, [Next]_vars PROVE BInv'
<1> USE BaselineAsks DEF BInv, Shape, InStep, Waiting, Inside
<1>1. CASE Request
  BY <1>1 DEF Request, Ranks
<1>2. CASE Packet
  <2>1. pc' = pc /\ todo' = todo
    BY <1>2 DEF Packet
  <2> QED BY <2>1
<1>3. CASE Agree
  BY <1>3 DEF Agree, Ranks
<1>4. CASE Judge
  BY <1>4 DEF Judge
<1>5. ASSUME NEW r \in Ranks, Construct(r) PROVE BInv'
  BY <1>5 DEF Construct, Ranks
<1>6. ASSUME NEW r \in Ranks, Report(r) PROVE BInv'
  <2>1. /\ Inside(r)
        /\ pc' = [pc EXCEPT ![r] = "ready"]
        /\ todo' = [todo EXCEPT ![r] = Tail(todo[r])]
    BY <1>6 DEF Report
  <2>2. Shape'
    BY <2>1
  <2>3. PICK s \in Ranks : s # r /\ \A q \in Ranks : q \in {r, s}
    BY DEF Ranks
  <2>4. /\ pc'[s] = pc[s] /\ todo'[s] = todo[s]
        /\ pc'[r] = "ready" /\ todo'[r] = Tail(todo[r])
    BY <2>1, <2>3
  <2>5. /\ Waiting(s) => todo[s] = Tail(todo[r])
        /\ Inside(s) => todo[s] = todo[r]
        /\ pc[s] # "new"
        /\ pc[s] = "ended" => Tail(todo[r]) = <<>>
    BY <2>1
  <2>6. InStep'
    BY <2>3, <2>4, <2>5
  <2> QED BY <2>2, <2>6
<1>7. ASSUME NEW r \in Ranks, Finish(r) PROVE BInv'
  BY <1>7 DEF Finish, Ranks
<1>8. ASSUME NEW r \in Ranks, Raise(r) PROVE BInv'
  BY <1>8 DEF Raise, Ranks
<1>9. ASSUME NEW r \in Ranks, Kill(r) PROVE BInv'
  BY <1>9 DEF Kill, Ranks
<1>10. CASE UNCHANGED vars
  BY <1>10 DEF vars
<1> QED BY <1>1, <1>2, <1>3, <1>4, <1>5, <1>6, <1>7, <1>8, <1>9, <1>10 DEF Next

(* BInv is an invariant.                                                   *)
THEOREM BlockInvariant == Spec => []BInv
BY BlockInit, BlockNext, PTL DEF Spec

(* SameCollectives: the ranks of a gate never wait in two different        *)
(* collectives, nor one of them for a rank that has ended.                 *)
THEOREM NeverApart == Spec => []SameCollectives
<1>1. BInv => SameCollectives
  BY DEF BInv, InStep, Waiting, Inside, SameCollectives
<1> QED BY <1>1, BlockInvariant, PTL

-----------------------------------------------------------------------------
LEMMA AppendedTo ==
  ASSUME NEW s, IsList(s), NEW e
  PROVE  /\ IsList(Append(s, e))
         /\ Len(s) \in Nat /\ DOMAIN s = 1..Len(s)
         /\ DOMAIN Append(s, e) = 1..(Len(s) + 1)
         /\ \A i \in DOMAIN s : Append(s, e)[i] = s[i]
         /\ Append(s, e)[Len(s) + 1] = e
<1>1. PICK S : s \in Seq(S)
  BY DEF IsList
<1>2. s \in Seq(S \cup {e}) /\ e \in S \cup {e}
  BY <1>1
<1> HIDE <1>1
<1> DEFINE T == S \cup {e}
<1>3. s \in Seq(T) /\ e \in T
  BY <1>2
<1> HIDE DEF T
<1> QED BY <1>3 DEF IsList

LEMMA TailOf ==
  ASSUME NEW s, IsList(s), s # <<>>
  PROVE  /\ IsList(Tail(s))
         /\ Head(s) = s[1] /\ 1 \in DOMAIN s
         /\ DOMAIN Tail(s) = 1..(Len(s) - 1)
         /\ \A i \in DOMAIN Tail(s) : Tail(s)[i] = s[i + 1] /\ i + 1 \in DOMAIN s
<1>1. PICK S : s \in Seq(S)
  BY DEF IsList
<1> QED BY <1>1 DEF IsList

\* A gate that was passed stays passed: rows are only added.
Grown == \A r \in Ranks : \A i \in DOMAIN rows[r] :
            i \in DOMAIN rows'[r] /\ rows'[r][i] = rows[r][i]

LEMMA GateStays == ASSUME Grown, NEW width, Gate(width) PROVE Gate(width)'
<1>1. ASSUME NEW r \in Ranks, NEW ask, Diagnosed(r, ask) PROVE Diagnosed(r, ask)'
  <2>1. PICK i \in DOMAIN rows[r] : /\ rows[r][i].ask = ask /\ Reads(rows[r][i])
                                    /\ rows[r][i].broken = <<>>
                                    /\ ask.width \in rows[r][i].widths
    BY <1>1 DEF Diagnosed
  <2>2. i \in DOMAIN rows'[r] /\ rows'[r][i] = rows[r][i]
    BY <2>1 DEF Grown
  <2> QED BY <2>1, <2>2 DEF Diagnosed, Reads, History, Window
<1>2. ASSUME NEW r \in Ranks, NEW w, WidthPasses(r, w) PROVE WidthPasses(r, w)'
  BY <1>1, <1>2 DEF WidthPasses, Clean
<1>3. ASSUME NEW r \in Ranks, NEW ask, ControlPasses(r, ask)
      PROVE  ControlPasses(r, ask)'
  <2> DEFINE Control(row) ==
        /\ row.ask = ask /\ Reads(row) /\ Len(row.broken) = 1
        /\ LET b == row.broken[1] IN
           /\ b.bad = {ask.n + 1}
           /\ b.width = ask.width
           /\ b.sampled = ask.n + 1
           /\ b.at .. (b.at + ask.n) \subseteq row.seen
           /\ Cardinality({p \in row.seen : p > b.at + ask.n + 1}) >= 3
  <2>1. PICK i \in DOMAIN rows[r] : Control(rows[r][i])
    BY <1>3 DEF ControlPasses
  <2>2. WidthPasses(r, ask.width)
    BY <1>3 DEF ControlPasses
  <2>3. WidthPasses(r, ask.width)'
    BY <1>2, <2>2
  <2> HIDE DEF Control
  <2>4. i \in DOMAIN rows'[r] /\ Control(rows'[r][i])
    BY <2>1 DEF Grown
  <2> QED BY <2>3, <2>4 DEF Control, ControlPasses, Reads, History, Window
<1> QED BY <1>2, <1>3 DEF Gate

LEMMA PassedStays == Grown => Passed \subseteq Passed'
BY GateStays DEF Passed

\* What the runner asks for after a reduction is due.
LEMMA OrderIs ==
  ASSUME NEW widths
  PROVE  /\ Len(Order(widths)) \in {1, 2, 3}
         /\ \A i \in 1..Len(Order(widths)) :
               Order(widths)[i] \in {1} \cup (widths \cap Widths)
<1>1. CASE 2 \in widths /\ 4 \in widths
  BY <1>1 DEF Order, Widths
<1>2. CASE 2 \in widths /\ 4 \notin widths
  BY <1>2 DEF Order, Widths
<1>3. CASE 2 \notin widths /\ 4 \in widths
  BY <1>3 DEF Order, Widths
<1>4. CASE 2 \notin widths /\ 4 \notin widths
  BY <1>4 DEF Order, Widths
<1> QED BY <1>1, <1>2, <1>3, <1>4

LEMMA MeasuresAsk ==
  ASSUME NEW widths
  PROVE  /\ IsList(Measures(widths))
         /\ \A k \in DOMAIN Measures(widths) : \E w \in {1} \cup (widths \cap Widths) : \E t :
               Measures(widths)[k] = Ask("measure", w, t)
<1> DEFINE n == Len(Order(widths))
           Width(t, i) == Order(widths)[IF t % 2 = 0 THEN n + 1 - i ELSE i]
           M(k) == LET t == (k - 1) \div n + 1
                   IN  Ask("measure", Width(t, k - n * (t - 1)), t)
<1>1. n \in {1, 2, 3}
  BY OrderIs
<1>2. Measures(widths) = [k \in 1..(Trials * n) |-> M(k)]
  BY DEF Measures
<1>3. Trials * n \in Nat
  BY <1>1, BlockAssumption
<1>4. ASSUME NEW k \in 1..(Trials * n)
      PROVE  \E w \in {1} \cup (widths \cap Widths) : \E t : M(k) = Ask("measure", w, t)
  <2> DEFINE t == (k - 1) \div n + 1
             i == k - n * (t - 1)
  <2>1. n \in Nat /\ n > 0 /\ k \in Nat /\ k - 1 \in Nat
    BY <1>1, <1>3
  <2>2. i \in 1..n
    <3> HIDE DEF n
    <3>1. CASE n = 1
      BY <2>1, <3>1
    <3>2. CASE n = 2
      BY <2>1, <3>2
    <3>3. CASE n = 3
      BY <2>1, <3>3
    <3> QED BY <1>1, <3>1, <3>2, <3>3
  <2>3. n + 1 - i \in 1..n
    <3> HIDE DEF n, i
    <3> QED BY <2>2, <1>1
  <2>4. Width(t, i) \in {1} \cup (widths \cap Widths)
    <3> HIDE DEF i, t
    <3>1. (IF t % 2 = 0 THEN n + 1 - i ELSE i) \in 1..n
      BY <2>2, <2>3
    <3> QED BY <3>1, OrderIs
  <2>5. M(k) = Ask("measure", Width(t, i), t)
    OBVIOUS
  <2> HIDE DEF M, Width, t, i
  <2> QED BY <2>4, <2>5
<1> HIDE DEF M, n
<1>5. Measures(widths) \in Seq({M(k) : k \in 1..(Trials * n)})
  BY <1>2, <1>3
<1>6. IsList(Measures(widths))
  BY <1>5 DEF IsList
<1> QED BY <1>2, <1>4, <1>6

LEMMA ControlsAsk ==
  ASSUME NEW widths
  PROVE  /\ IsList(ControlsOf(widths))
         /\ \A k \in DOMAIN ControlsOf(widths) :
               ControlsOf(widths)[k].mode = "diagnostic" \/ ControlsOf(widths)[k] = Reduce(3)
<1> DEFINE a == IF 2 \in widths THEN << Ask("diagnostic", 2, 0) >> ELSE <<>>
           b == IF 4 \in widths THEN << Ask("diagnostic", 4, 0), Ask("diagnostic", 4, 2) >>
                ELSE <<>>
           c == IF widths = {} THEN <<>> ELSE << Reduce(3) >>
           X == {Ask("diagnostic", 2, 0), Ask("diagnostic", 4, 0), Ask("diagnostic", 4, 2),
                 Reduce(3)}
<1>1. a \in Seq(X) /\ b \in Seq(X) /\ c \in Seq(X)
  <2> HIDE DEF X
  <2>1. {Ask("diagnostic", 2, 0), Ask("diagnostic", 4, 0), Ask("diagnostic", 4, 2), Reduce(3)} \subseteq X
    BY DEF X
  <2> QED BY <2>1
<1>2. ControlsOf(widths) = a \o b \o c
  BY DEF ControlsOf
<1> HIDE DEF a, b, c
<1>3. ControlsOf(widths) \in Seq(X)
  <2> HIDE DEF X
  <2> QED BY <1>1, <1>2
<1>4. \A k \in DOMAIN ControlsOf(widths) : ControlsOf(widths)[k] \in X
  <2> HIDE DEF X
  <2> QED BY <1>3
<1>5. \A x \in X : x.mode = "diagnostic" \/ x = Reduce(3)
  BY DEF Ask
<1> QED BY <1>3, <1>4, <1>5 DEF IsList

LEMMA MeasurementsDue ==
  ASSUME NEW widths, \A w \in widths \cap Widths : Gate(w), NEW agreed
  PROVE  /\ IsList(Measurements(widths))
         /\ \A k \in DOMAIN Measurements(widths) : Due(Measurements(widths)[k], agreed)
<1>1. ASSUME NEW w \in {1} \cup (widths \cap Widths), NEW t
      PROVE  Due(Ask("measure", w, t), agreed)
  BY DEF Due, Gated, Ask, Reduce, Widths, Passed
<1>2. CASE config.state_only
  BY <1>2, EmptyIsList DEF Measurements
<1>3. CASE ~config.state_only
  BY <1>1, <1>3, MeasuresAsk DEF Measurements
<1> QED BY <1>2, <1>3

LEMMA DiagnosticsDue ==
  ASSUME NEW agreed
  PROVE  /\ IsList(Diagnostics)
         /\ \A k \in DOMAIN Diagnostics : Due(Diagnostics[k], agreed)
<1> DEFINE X == {Ask("warmup", 2, -1), Clean(2), Ask("warmup", 4, -1), Clean(4), Reduce(2)}
<1>1. Diagnostics \in Seq(X)
  BY DEF Diagnostics
<1>2. \A x \in X : Due(x, agreed)
  BY DEF Due, Gated, Ask, Reduce, Clean
<1> QED BY <1>1, <1>2 DEF IsList

LEMMA AfterDue ==
  ASSUME GateInv, NEW n \in {1, 2, 3}, NEW agreed, agreed = Vote(0, n) \cap Vote(1, n),
         n = 3 => \A r \in Ranks : eligible[r] \subseteq Widths
  PROVE  /\ IsList(After(n, agreed))
         /\ \A k \in DOMAIN After(n, agreed) : Due(After(n, agreed)[k], agreed)
<1>1. CASE n = 1
  BY <1>1, DiagnosticsDue, EmptyIsList DEF After
<1>2. CASE n = 2
  <2>1. agreed \subseteq Widths
    BY <1>2 DEF Vote
  <2>2. \A k \in DOMAIN ControlsOf(agreed) : Due(ControlsOf(agreed)[k], agreed)
    BY <2>1, ControlsAsk DEF Due, Gated, Ask, Reduce
  <2>3. PICK m : m = IF agreed = {} THEN Measurements({}) ELSE <<>>
    OBVIOUS
  <2>4. PICK c : c = ControlsOf(agreed)
    OBVIOUS
  <2>5. IsList(m) /\ \A k \in DOMAIN m : Due(m[k], agreed)
    <3>1. CASE agreed = {}
      BY <2>3, <3>1, MeasurementsDue
    <3>2. CASE agreed # {}
      BY <2>3, <3>2, EmptyIsList
    <3> QED BY <3>1, <3>2
  <2>6. IsList(c) /\ \A k \in DOMAIN c : Due(c[k], agreed)
    BY <2>2, <2>4, ControlsAsk
  <2>7. PICK all : all = c \o m
    OBVIOUS
  <2>8. After(n, agreed) = all
    <3> DEFINE e == IF agreed = {} THEN Measurements({}) ELSE <<>>
    <3>1. After(n, agreed) = ControlsOf(agreed) \o e
      <4> HIDE DEF e
      <4> QED BY <1>2 DEF After, e
    <3>2. m = e
      BY <2>3
    <3> HIDE DEF e
    <3> QED BY <2>4, <2>7, <3>1, <3>2
  <2>9. IsList(all) /\ Elems(all) = Elems(c) \cup Elems(m)
    <3>1. Joins(all, c, m)
      BY <2>7 DEF Joins
    <3> QED BY <2>5, <2>6, <3>1, JoinedWith
  <2>10. \A k \in DOMAIN all : Due(all[k], agreed)
    BY <2>5, <2>6, <2>9 DEF Elems
  <2> QED BY <2>8, <2>9, <2>10
<1>3. CASE n = 3
  <2>1. ASSUME NEW w \in agreed \cap Widths PROVE Gate(w)
    <3>1. \A s \in Ranks : \A c \in Controls(w) : ControlPasses(s, c)
      BY <1>3, <2>1 DEF Vote, Ranks
    <3>2. Ask("diagnostic", w, 0) \in Controls(w)
      BY <2>1 DEF Widths, Controls
    <3>3. \A s \in Ranks : WidthPasses(s, w)
      BY <3>1, <3>2 DEF ControlPasses, Ask
    <3> QED BY <3>1, <3>3 DEF Gate
  <2> QED BY <1>3, <2>1, MeasurementsDue DEF After
<1> QED BY <1>1, <1>2, <1>3

LEMMA GateStart == Init => GateInv
<1> DEFINE X == {Ask("warmup", 1, -1), Clean(1), Reduce(1)}
<1>1. Baseline \in Seq(X)
  BY DEF Baseline
<1>2. \A x \in X : Due(x, {})
  BY DEF Due, Gated, Ask, Reduce, Clean
<1>3. IsList(Baseline) /\ \A k \in DOMAIN Baseline : Due(Baseline[k], {})
  BY <1>1, <1>2 DEF IsList
<1>4. Gated(NoGen.ask)
  BY DEF Gated, NoGen, Started, Reduce, Ask
<1> QED BY <1>3, <1>4, EmptyIsList DEF Init, GateInv, Inside

\* No row is written: only what is still asked for can change.
LEMMA GateKeeps ==
  ASSUME GateInv, UNCHANGED rows, UNCHANGED eligible,
         UNCHANGED todo, gen'.ask = gen.ask,
         \A r \in Ranks : Inside(r)' => Inside(r)
  PROVE  GateInv'
<1>1. Grown
  BY DEF Grown
<1>2. Passed \subseteq Passed'
  BY <1>1, PassedStays
<1>3. /\ \A r \in Ranks : \A i \in DOMAIN rows'[r] : Gated(rows'[r][i].ask)
      /\ \A r \in Ranks : \A i \in DOMAIN todo'[r] : Due(todo'[r][i], eligible'[r])
      /\ Gated(gen'.ask)
  BY DEF GateInv
<1>4. \A r \in Ranks : Inside(r)' => todo'[r] # <<>>
  BY DEF GateInv
<1> QED BY <1>2, <1>3, <1>4 DEF GateInv, Due, Gated

LEMMA GateStep == ASSUME Shape, GateInv, [Next]_vars PROVE GateInv'
<1>1. CASE Request
  <2>1. Grown
    BY <1>1 DEF Request, Grown
  <2>2. Passed \subseteq Passed'
    BY <2>1, PassedStays
  <2>3. /\ gen'.ask = Head(todo[0]) /\ todo[0] # <<>>
        /\ \A r \in Ranks : todo[r] # <<>>
        /\ UNCHANGED <<rows, todo, eligible>>
    BY <1>1 DEF Request, Ranks, Started
  <2>4. Head(todo[0]) = todo[0][1] /\ 1 \in DOMAIN todo[0]
    BY <2>3, TailOf DEF GateInv, Ranks
  <2>5. Gated(gen'.ask)
    BY <2>3, <2>4 DEF GateInv, Due, Ranks
  <2> HIDE <1>1
  <2> QED BY <2>2, <2>3, <2>5 DEF GateInv, Due, Gated
<1>2. CASE Packet
  <2>1. gen'.ask = gen.ask /\ UNCHANGED <<pc, rows, todo, eligible>>
    BY <1>2 DEF Packet, Proposed, Observed
  <2> QED BY <2>1, GateKeeps DEF Inside
<1>3. CASE Agree
  <2>0. PICK h : h = Head(todo[0])
    OBVIOUS
  <2> DEFINE n == h.n
             agreed == Vote(0, n) \cap Vote(1, n)
  <2>1. /\ h.mode = "reduce" /\ \A r \in Ranks : Head(todo[r]) = h
        /\ \A r \in Ranks : todo[r] # <<>>
        /\ eligible' = [r \in Ranks |-> agreed]
        /\ todo' = [r \in Ranks |-> After(n, agreed)]
        /\ \A r \in Ranks : ~Inside(r)'
        /\ UNCHANGED <<rows, gen>>
    BY <1>3, <2>0 DEF Agree, Ranks, Inside
  <2>2. \A r \in Ranks : Head(todo[r]) = todo[r][1] /\ 1 \in DOMAIN todo[r]
    BY <2>1, TailOf DEF GateInv
  <2>3. \A r \in Ranks : Due(h, eligible[r])
    BY <2>1, <2>2 DEF GateInv
  <2>4. n \in {1, 2, 3}
    BY <2>1, <2>3 DEF Due, Ranks
  <2>6. n = 3 => \A r \in Ranks : eligible[r] \subseteq Widths
    BY <2>1, <2>3 DEF Due, Ranks
  <2> HIDE DEF n, agreed
  <2>7. IsList(After(n, agreed)) /\ \A k \in DOMAIN After(n, agreed) : Due(After(n, agreed)[k], agreed)
    BY <2>4, <2>6, AfterDue DEF agreed
  <2>8. Grown
    BY <2>1 DEF Grown
  <2>9. Passed \subseteq Passed'
    BY <2>8, PassedStays
  <2> QED BY <2>1, <2>7, <2>9 DEF GateInv, Due, Gated
<1>4. CASE Judge
  BY <1>4, GateKeeps DEF Judge, Inside, Shape
<1>5. ASSUME NEW r \in Ranks, Construct(r) PROVE GateInv'
  BY <1>5, GateKeeps DEF Construct, Inside, Shape
<1>6. ASSUME NEW r \in Ranks, Report(r) PROVE GateInv'
  <2>1. PICK row : row.ask = gen.ask /\ rows' = [rows EXCEPT ![r] = Append(rows[r], row)]
    BY <1>6 DEF Report
  <2>2. todo' = [todo EXCEPT ![r] = Tail(todo[r])] /\ UNCHANGED <<gen, eligible>>
    BY <1>6 DEF Report
  <2>12. pc' = [pc EXCEPT ![r] = "ready"]
    BY <1>6 DEF Report
  <2>3. todo[r] # <<>>
    BY <1>6 DEF Report, GateInv, Inside
  <2> HIDE <1>6
  <2>4. /\ IsList(rows'[r])
        /\ DOMAIN rows[r] = 1..Len(rows[r]) /\ Len(rows[r]) \in Nat
        /\ DOMAIN rows'[r] = 1..(Len(rows[r]) + 1)
        /\ \A i \in DOMAIN rows[r] : rows'[r][i] = rows[r][i]
        /\ rows'[r][Len(rows[r]) + 1] = row
    BY <2>1, AppendedTo DEF GateInv
  <2>5. /\ IsList(todo'[r])
        /\ \A i \in DOMAIN todo'[r] :
              todo'[r][i] = todo[r][i + 1] /\ i + 1 \in DOMAIN todo[r]
    BY <2>2, <2>3, TailOf DEF GateInv
  <2>6. \A s \in Ranks : s # r => rows'[s] = rows[s] /\ todo'[s] = todo[s]
    BY <2>1, <2>2 DEF GateInv
  <2>7. Grown
    BY <2>4, <2>6 DEF Grown
  <2>8. Passed \subseteq Passed'
    BY <2>7, PassedStays
  <2>9. ASSUME NEW s \in Ranks, NEW i \in DOMAIN rows'[s] PROVE Gated(rows'[s][i].ask)
    <3>1. CASE s # r
      BY <2>6, <2>9, <3>1 DEF GateInv
    <3>2. CASE s = r /\ i \in DOMAIN rows[r]
      BY <2>4, <3>2 DEF GateInv
    <3>3. CASE s = r /\ i \notin DOMAIN rows[r]
      <4>1. i = Len(rows[r]) + 1
        BY <2>4, <2>9, <3>3
      <4>2. rows'[s][i].ask = gen.ask
        BY <2>1, <2>4, <3>3, <4>1
      <4> QED BY <4>2 DEF GateInv
    <3> QED BY <3>1, <3>2, <3>3
  <2>10. ASSUME NEW s \in Ranks, NEW i \in DOMAIN todo'[s]
         PROVE  Due(todo'[s][i], eligible'[s])
    BY <2>2, <2>5, <2>6, <2>10 DEF GateInv
  <2>11. /\ \A s \in Ranks : IsList(rows'[s]) /\ IsList(todo'[s])
         /\ rows' = [s \in Ranks |-> rows'[s]] /\ todo' = [s \in Ranks |-> todo'[s]]
    BY <2>1, <2>2, <2>4, <2>5, <2>6 DEF GateInv
  <2>13. \A s \in Ranks : Inside(s)' => Inside(s) /\ s # r
    BY <2>12 DEF Inside, Shape
  <2>14. Gated(gen.ask)'
    BY <2>2, <2>8 DEF GateInv, Gated
  <2>15. \A s \in Ranks : \A i \in DOMAIN rows'[s] : Gated(rows[s][i].ask)'
    BY <2>8, <2>9 DEF Gated
  <2>16. \A s \in Ranks : \A i \in DOMAIN todo'[s] : Due(todo[s][i], eligible[s])'
    BY <2>8, <2>10 DEF Due, Gated
  <2>17. eligible' = [s \in Ranks |-> eligible'[s]]
    BY <2>2 DEF GateInv
  <2>18. \A s \in Ranks : Inside(s)' => todo'[s] # <<>>
    BY <2>6, <2>13 DEF GateInv
  <2> QED BY <2>11, <2>14, <2>15, <2>16, <2>17, <2>18 DEF GateInv
<1>7. ASSUME NEW r \in Ranks, Finish(r) PROVE GateInv'
  BY <1>7, GateKeeps DEF Finish, Inside, Shape
<1>8. ASSUME NEW r \in Ranks, Raise(r) PROVE GateInv'
  BY <1>8, GateKeeps DEF Raise, Inside, Shape
<1>9. ASSUME NEW r \in Ranks, Kill(r) PROVE GateInv'
  BY <1>9, GateKeeps DEF Kill, Inside, Shape
<1>10. CASE UNCHANGED vars
  BY <1>10, GateKeeps DEF vars, Inside, Shape
<1> QED BY <1>1, <1>2, <1>3, <1>4, <1>5, <1>6, <1>7, <1>8, <1>9, <1>10 DEF Next

(* MeasuredPassedTheGate: a width above one is measured for a row only when *)
(* both ranks passed its diagnostic and every control of it.               *)
THEOREM MeasuredAfterTheGate == Spec => []MeasuredPassedTheGate
<1>1. Init => BInv /\ GateInv
  BY BlockInit, GateStart
<1>2. ASSUME BInv, GateInv, [Next]_vars PROVE BInv' /\ GateInv'
  BY <1>2, BlockNext, GateStep DEF BInv
<1>3. GateInv => MeasuredPassedTheGate
  BY DEF GateInv, Gated, Passed, Gate, MeasuredPassedTheGate
<1> QED BY <1>1, <1>2, <1>3, PTL DEF Spec

-----------------------------------------------------------------------------
\* The largest and the least of a set.
LEMMA LargestIs ==
  ASSUME NEW n \in Nat, NEW S, S \subseteq 0..n, S # {}
  PROVE  Max(S) \in S /\ \A m \in S : m <= Max(S)
<1> DEFINE T == {n - m : m \in S}
<1>1. T \subseteq Nat /\ T # {}
  <2>1. \A m \in S : m \in 0..n /\ n - m \in Nat
    OBVIOUS
  <2> QED BY <2>1
<1>2. PICK t \in T : \A m \in T : t <= m
  BY <1>1, NatMin
<1>3. PICK k \in S : t = n - k
  BY <1>2
<1>4. \A m \in S : m <= k
  BY <1>2, <1>3
<1> QED BY <1>3, <1>4 DEF Max

LEMMA LeastIs ==
  ASSUME NEW S, S \subseteq Nat, S # {}
  PROVE  Min(S) \in S /\ \A m \in S : Min(S) <= m
<1>1. PICK k \in S : \A m \in S : k <= m
  BY NatMin
<1> QED BY <1>1 DEF Min

LEMMA LesserIs ==
  ASSUME NEW a \in Int, NEW b \in Int
  PROVE  /\ Min({a, b}) = IF a <= b THEN a ELSE b
         /\ Max({a, b}) = IF a <= b THEN b ELSE a
BY DEF Min, Max

LEMMA AskIs ==
  ASSUME NEW ask, Asked(ask)
  PROVE  /\ Judged(ask) /\ ask.width \in {1, 2, 4}
         /\ Corrupt(ask) \in {-1, 0, 2} /\ Corrupt(ask) < ask.width - 1
         /\ ask.mode = "measure" => Corrupt(ask) = -1
         /\ ask.mode = "diagnostic" => Corrupt(ask) = ask.n
         /\ Cap(ask) \in Nat /\ Activation + 4 <= Cap(ask) /\ Cap(ask) <= Oracle
         /\ ask.mode = "diagnostic" => Cap(ask) = Oracle
BY BlockAssumption DEF Asked, DiagAsks, Judged, Corrupt, Cap, Clean, Ask

Room(j, n, w) == /\ n < Activation => j = 0
                 /\ n >= Activation /\ n + w <= Oracle => j = w - 1

Proposes(drafts, n, w, c, injected) ==
  \E k \in 0..(w - 1) : drafts = Proposal(k, IF injected THEN -1 ELSE c) /\ Room(k, n, w)

LEMMA DraftsAre ==
  ASSUME NEW w \in {1, 2, 4}, gen.ask.width = w, NEW c \in Int, Corrupt(gen.ask) = c,
         NEW s, NEW n \in Nat, Len(s) = n, NEW injected
  PROVE  Proposes(Drafts(s, FALSE, injected), n, w, c, injected)
<1> DEFINE room == Prompt + Oracle - Offset(s) - 1
           k == IF n >= Activation THEN Min({w - 1, Max({0, room})}) ELSE 0
<1>1. room = Oracle - n - 1 /\ room \in Int
  BY BlockAssumption, SMTT(30) DEF Offset
<1>2. PICK free \in Nat : free = Max({0, room}) /\ free = IF 0 <= room THEN room ELSE 0
  <2> HIDE DEF room
  <2>1. 0 \in Int /\ room \in Int
    BY <1>1
  <2>2. Max({0, room}) = IF 0 <= room THEN room ELSE 0
    BY <2>1, LesserIs, Zenon
  <2> QED BY <1>1, <2>2
<1>5. Min({w - 1, free}) = IF w - 1 <= free THEN w - 1 ELSE free
  BY LesserIs
<1>3. Drafts(s, FALSE, injected) = [i \in 1..k |-> IF i = c + 1 /\ ~injected THEN "c" ELSE "o"]
  BY DEF Drafts
<1>4. /\ k \in 0..(w - 1)
      /\ n < Activation => k = 0
      /\ n >= Activation /\ n + w <= Oracle => k = w - 1
  <2>1. k = IF n >= Activation THEN Min({w - 1, free}) ELSE 0
    BY <1>2
  <2>2. PICK m : m = Min({w - 1, free}) /\ m = IF w - 1 <= free THEN w - 1 ELSE free
    BY <1>5
  <2>3. PICK left : left = room /\ left = Oracle - n - 1
    BY <1>1
  <2>4. free = IF 0 <= left THEN left ELSE 0
    BY <1>2, <2>3
  <2> HIDE DEF k, room
  <2>5. k = IF n >= Activation THEN m ELSE 0
    BY <2>1, <2>2
  <2>6. /\ left = Oracle - n - 1 /\ m = IF w - 1 <= free THEN w - 1 ELSE free
        /\ Oracle \in Nat /\ Activation \in Nat
    BY <2>2, <2>3, BlockAssumption
  <2>7. CASE w = 1
    BY <2>4, <2>5, <2>6, <2>7
  <2>8. CASE w = 2
    BY <2>4, <2>5, <2>6, <2>8
  <2>9. CASE w = 4
    BY <2>4, <2>5, <2>6, <2>9
  <2> QED BY <2>7, <2>8, <2>9
<1>6. k \in Nat
  BY <1>4
<1> HIDE DEF k
<1>7. Drafts(s, FALSE, injected) = Proposal(k, IF injected THEN -1 ELSE c)
  <2>1. PICK e \in Int : e = IF injected THEN -1 ELSE c
    OBVIOUS
  <2>2. \A i \in 1..k : (i = c + 1 /\ ~injected) <=> i = e + 1
    BY <1>6, <2>1
  <2>3. Drafts(s, FALSE, injected) = Proposal(k, e)
    BY <1>3, <1>6, <2>2 DEF Proposal
  <2> QED BY <2>1, <2>3
<1> QED BY <1>4, <1>7 DEF Room, Proposes

\* What a packet is made of, and what is observed of it.
PacketParts(out, sampled, width, bad, clean, read, copies) ==
  /\ sampled = Accepted(out) + 1 /\ width = Len(gen.drafts) + 1
  /\ bad = {i \in DOMAIN gen.drafts : gen.drafts[i] # "o"}
  /\ clean = IF bad = {} THEN width ELSE Min(bad)
  /\ read = {p \in Window : Start <= p /\ p < Start + clean}
  /\ copies = (gen.ask.mode = "diagnostic")

Seen(g, out, sampled, width, bad, read, copies) ==
  /\ IsGen(g)
  /\ g.ask = gen.ask /\ g.drafts = gen.drafts /\ g.failed = gen.failed
  /\ g.injected = gen.injected
  /\ g.stream = gen.stream \o SubSeq(out, 1, sampled)
  /\ g.seen = IF copies THEN gen.seen \cup read ELSE gen.seen
  /\ g.twice = (gen.twice \/ (copies /\ gen.seen \cap read # {}))
  /\ g.widths = IF Start >= Active THEN gen.widths \cup {width} ELSE gen.widths
  /\ g.broken = IF bad = {} THEN gen.broken
                ELSE Append(gen.broken, [at |-> Start, bad |-> bad, width |-> width,
                                         sampled |-> sampled])
  /\ g.full = (gen.full \/ (/\ Start >= Active /\ width = gen.ask.width
                            /\ sampled = width /\ Len(g.stream) <= Cap(gen.ask)))

LEMMA ObservedIs ==
  ASSUME IsGen(gen), NEW out, NEW sampled, NEW width, NEW bad, NEW clean, NEW read, NEW copies,
         PacketParts(out, sampled, width, bad, clean, read, copies)
  PROVE  Seen(Observed(out), out, sampled, width, bad, read, copies)
<1> DEFINE g == Observed(out)
<1>1. PICK s : s = gen.stream \o SubSeq(out, 1, sampled)
  OBVIOUS
<1>2. PICK seen : seen = IF copies THEN gen.seen \cup read ELSE gen.seen
  OBVIOUS
<1>3. PICK twice : twice = (gen.twice \/ (copies /\ gen.seen \cap read # {}))
  OBVIOUS
<1>4. PICK widths : widths = IF Start >= Active THEN gen.widths \cup {width} ELSE gen.widths
  OBVIOUS
<1>5. PICK broken : broken = IF bad = {} THEN gen.broken
                       ELSE Append(gen.broken, [at |-> Start, bad |-> bad, width |-> width,
                                                sampled |-> sampled])
  OBVIOUS
<1>6. PICK full : full = (gen.full \/ (/\ Start >= Active /\ width = gen.ask.width
                                   /\ sampled = width /\ Len(s) <= Cap(gen.ask)))
  OBVIOUS
<1>7. g = [gen EXCEPT !.stream = s, !.seen = seen, !.twice = twice, !.widths = widths,
                      !.broken = broken, !.full = full]
  <2> DEFINE Width == Len(gen.drafts) + 1
             Sampled == Accepted(out) + 1
             Stream == gen.stream \o SubSeq(out, 1, Sampled)
             Bad == {i \in DOMAIN gen.drafts : gen.drafts[i] # "o"}
             Behind == IF Bad = {} THEN Width ELSE Min(Bad)
             Read == {p \in Window : Start <= p /\ p < Start + Behind}
             Copies == gen.ask.mode = "diagnostic"
             Sight == IF Copies THEN gen.seen \cup Read ELSE gen.seen
             Twice == gen.twice \/ (Copies /\ gen.seen \cap Read # {})
             Spread == IF Start >= Active THEN gen.widths \cup {Width} ELSE gen.widths
             Broken == IF Bad = {} THEN gen.broken
                       ELSE Append(gen.broken, [at |-> Start, bad |-> Bad, width |-> Width,
                                                sampled |-> Sampled])
             Whole == gen.full \/ (/\ Start >= Active /\ Width = gen.ask.width
                                  /\ Sampled = Width /\ Len(Stream) <= Cap(gen.ask))
  <2>1. g = [gen EXCEPT !.stream = Stream, !.seen = Sight, !.twice = Twice,
                        !.widths = Spread, !.broken = Broken, !.full = Whole]
    BY Zenon DEF Observed
  <2>2. Width = width /\ Sampled = sampled /\ Bad = bad /\ Copies = copies
    BY DEF PacketParts
  <2> HIDE DEF Bad, Copies, Width, Sampled
  <2>3. Behind = clean
    BY <2>2 DEF PacketParts
  <2> HIDE DEF Behind
  <2>4. Read = read
    BY <2>3 DEF PacketParts
  <2> HIDE DEF Read
  <2>5. Stream = s
    BY <1>1, <2>2, Zenon
  <2>6. Sight = seen
    BY <1>2, <2>2, <2>4, Zenon
  <2>7. Twice = twice
    BY <1>3, <2>2, <2>4, Zenon
  <2>8. Spread = widths
    BY <1>4, <2>2, Zenon
  <2>9. Broken = broken
    BY <1>5, <2>2, Zenon
  <2> HIDE DEF Stream
  <2>10. Whole = full
    BY <1>6, <2>2, <2>5, Zenon
  <2> HIDE DEF Sight, Twice, Spread, Broken, Whole
  <2> QED BY <2>1, <2>5, <2>6, <2>7, <2>8, <2>9, <2>10, Zenon
<1> HIDE DEF g
<1>8. g = [ask |-> gen.ask, stream |-> s, drafts |-> gen.drafts, failed |-> gen.failed,
           injected |-> gen.injected, seen |-> seen, twice |-> twice,
           widths |-> widths, broken |-> broken, full |-> full]
  BY <1>7 DEF IsGen
<1>9. IsGen(g) /\ g.stream = s /\ g.seen = seen /\ g.twice = twice /\ g.widths = widths
      /\ g.broken = broken /\ g.full = full /\ g.ask = gen.ask /\ g.drafts = gen.drafts
      /\ g.failed = gen.failed /\ g.injected = gen.injected
  BY <1>8 DEF IsGen
<1> QED BY <1>1, <1>2, <1>3, <1>4, <1>5, <1>6, <1>9, Zenon DEF Seen, g

Prepared(h, g, failed, drafts) ==
  /\ IsGen(h)
  /\ h.failed = failed /\ h.drafts = drafts
  /\ h.injected = (g.injected \/ ~AllO(drafts))
  /\ h.ask = g.ask /\ h.stream = g.stream /\ h.seen = g.seen /\ h.twice = g.twice
  /\ h.widths = g.widths /\ h.broken = g.broken /\ h.full = g.full

LEMMA ProposedIs ==
  ASSUME NEW g, IsGen(g), NEW failed, failed = (g.failed \/ ~AllO(g.stream)),
         NEW drafts, drafts = Drafts(g.stream, failed, g.injected)
  PROVE  Prepared(Proposed(g), g, failed, drafts)
<1>0. PICK h : h = Proposed(g)
  OBVIOUS
<1>1. PICK injected : injected = (g.injected \/ ~AllO(drafts))
  OBVIOUS
<1>2. h = [g EXCEPT !.failed = failed, !.drafts = drafts, !.injected = injected]
  BY <1>0, <1>1, Zenon DEF Proposed
<1>3. h = [ask |-> g.ask, stream |-> g.stream, drafts |-> drafts, failed |-> failed,
           injected |-> injected, seen |-> g.seen, twice |-> g.twice,
           widths |-> g.widths, broken |-> g.broken, full |-> g.full]
  BY <1>2 DEF IsGen
<1>4. Prepared(h, g, failed, drafts)
  BY <1>1, <1>3 DEF IsGen, Prepared
<1> QED BY <1>0, <1>4, Zenon

\* The target chooses the oracle's tokens up to the corrupted draft, if any.
Taking(m, c) == IF c + 1 \in 1..m THEN c + 1 ELSE m + 1

LEMMA SubSeqIs ==
  ASSUME NEW S, NEW s \in Seq(S), NEW k \in 0..Len(s)
  PROVE  /\ SubSeq(s, 1, k) \in Seq(S) /\ Len(SubSeq(s, 1, k)) = k
         /\ DOMAIN SubSeq(s, 1, k) = 1..k
         /\ \A i \in 1..k : SubSeq(s, 1, k)[i] = s[i]
OBVIOUS

LEMMA Emptied == ASSUME NEW S, NEW s \in Seq(S) PROVE s = <<>> <=> Len(s) = 0
OBVIOUS

LEMMA AllOIs ==
  ASSUME NEW s
  PROVE  /\ s \in Seq({"o"}) => AllO(s)
         /\ s \in Seq(Tokens) /\ AllO(s) => s \in Seq({"o"})
BY DEF AllO

LEMMA ProposalIs ==
  ASSUME NEW m \in Nat, NEW c \in Int
  PROVE  /\ Proposal(m, c) \in Seq(Tokens) /\ Len(Proposal(m, c)) = m
         /\ DOMAIN Proposal(m, c) = 1..m
         /\ \A i \in 1..m : Proposal(m, c)[i] = IF i = c + 1 THEN "c" ELSE "o"
         /\ AllO(Proposal(m, c)) <=> c + 1 \notin 1..m
<1>1. Proposal(m, c) \in Seq(Tokens) /\ Len(Proposal(m, c)) = m /\ DOMAIN Proposal(m, c) = 1..m
      /\ \A i \in 1..m : Proposal(m, c)[i] = IF i = c + 1 THEN "c" ELSE "o"
  BY DEF Proposal, Tokens
<1> QED BY <1>1 DEF AllO

LEMMA AgreedIs ==
  ASSUME gen.stream \in Seq({"o"}), NEW m \in Nat, NEW c \in Int, gen.drafts = Proposal(m, c),
         NEW out, out = Choice
  PROVE  LET k == Taking(m, c) IN
         /\ k \in 1..(m + 1) /\ Accepted(out) + 1 = k
         /\ SubSeq(out, 1, k) \in Seq({"o"}) /\ Len(SubSeq(out, 1, k)) = k
         /\ {i \in DOMAIN gen.drafts : gen.drafts[i] # "o"} = IF k = m + 1 THEN {} ELSE {c + 1}
<1> DEFINE k == Taking(m, c)
           A == {n \in 0..Len(gen.drafts) : \A i \in 1..n : gen.drafts[i] = out[i]}
<1>1. /\ gen.drafts \in Seq(Tokens) /\ Len(gen.drafts) = m /\ DOMAIN gen.drafts = 1..m
      /\ \A i \in 1..m : gen.drafts[i] = IF i = c + 1 THEN "c" ELSE "o"
  BY ProposalIs
<1>2. k \in 1..(m + 1) /\ ((k = c + 1 /\ k \in 1..m) \/ (k = m + 1 /\ c + 1 \notin 1..m))
  BY DEF Taking
<1>3. DOMAIN out = 1..(m + 1) /\ \A i \in 1..(m + 1) :
         out[i] = IF AllO(gen.stream) /\ AllO(SubSeq(gen.drafts, 1, i - 1)) THEN "o" ELSE "x"
  BY <1>1 DEF Choice
<1>4. AllO(gen.stream)
  BY AllOIs
<1> HIDE DEF k
<1>5. ASSUME NEW i \in 1..k PROVE out[i] = "o" /\ (i < k => gen.drafts[i] = "o")
  <2>1. i - 1 \in 0..Len(gen.drafts)
    BY <1>1, <1>2
  <2>2. /\ DOMAIN SubSeq(gen.drafts, 1, i - 1) = 1..(i - 1)
        /\ \A j \in 1..(i - 1) : SubSeq(gen.drafts, 1, i - 1)[j] = gen.drafts[j]
    BY <1>1, <2>1, SubSeqIs
  <2>3. \A j \in 1..(i - 1) : gen.drafts[j] = "o"
    BY <1>1, <1>2
  <2>4. AllO(SubSeq(gen.drafts, 1, i - 1))
    BY <2>2, <2>3 DEF AllO
  <2>5. i \in 1..(m + 1)
    BY <1>2
  <2>6. out[i] = "o"
    BY <1>3, <1>4, <2>4, <2>5
  <2> QED BY <1>1, <1>2, <2>6
<1>6. Accepted(out) + 1 = k
  <2>1. A \subseteq 0..m /\ k - 1 \in A
    BY <1>1, <1>2, <1>5
  <2>2. \A n \in A : n <= k - 1
    <3>1. SUFFICES ASSUME NEW n \in A, ~(n <= k - 1) PROVE FALSE
      BY <2>1
    <3>2. n \in 0..m /\ k \in 1..n
      BY <1>2, <2>1, <3>1
    <3>3. gen.drafts[k] = "c"
      BY <1>1, <1>2, <3>2
    <3>4. out[k] = "o" /\ gen.drafts[k] = out[k]
      BY <1>2, <1>5, <3>1, <3>2
    <3> QED BY <3>3, <3>4
  <2>3. Accepted(out) = Max(A)
    BY Zenon DEF Accepted
  <2> HIDE DEF A
  <2>4. Max(A) \in A /\ \A n \in A : n <= Max(A)
    <3>1. A # {}
      BY <2>1
    <3> QED BY <2>1, <3>1, LargestIs
  <2>5. Max(A) \in 0..m /\ k - 1 <= Max(A) /\ Max(A) <= k - 1
    BY <2>1, <2>2, <2>4
  <2> QED BY <1>2, <2>3, <2>5
<1>7. SubSeq(out, 1, k) \in Seq({"o"}) /\ Len(SubSeq(out, 1, k)) = k
  <2>1. out = [i \in 1..(m + 1) |-> out[i]]
    BY <1>1 DEF Choice
  <2>2. out \in Seq(Tokens) /\ Len(out) = m + 1
    <3>1. \A i \in 1..(m + 1) : out[i] \in Tokens
      BY <1>3 DEF Tokens
    <3>2. out \in [1..(m + 1) -> Tokens]
      BY <2>1, <3>1
    <3> QED BY <3>2
  <2>3. k \in 0..Len(out)
    BY <1>2, <2>2
  <2>4. /\ SubSeq(out, 1, k) \in Seq(Tokens) /\ Len(SubSeq(out, 1, k)) = k
        /\ DOMAIN SubSeq(out, 1, k) = 1..k
        /\ \A i \in 1..k : SubSeq(out, 1, k)[i] = out[i]
    BY <2>2, <2>3, SubSeqIs
  <2>5. AllO(SubSeq(out, 1, k))
    BY <1>5, <2>4 DEF AllO
  <2> QED BY <2>4, <2>5, AllOIs
<1>8. {i \in DOMAIN gen.drafts : gen.drafts[i] # "o"} = IF k = m + 1 THEN {} ELSE {c + 1}
  BY <1>1, <1>2
<1> QED BY <1>2, <1>6, <1>7, <1>8 DEF k

Midway(m, c, n) ==
  /\ IsGen(gen) /\ gen.stream \in Seq({"o"}) /\ n = Len(gen.stream) /\ ~gen.twice
  /\ Sees(gen, gen.stream)
  /\ gen.drafts = Proposal(m, c) /\ (gen.stream = <<>> => m = 0)
Extended(g, m, c, k, n) ==
  /\ IsGen(g) /\ g.ask = gen.ask
  /\ g.stream \in Seq({"o"}) /\ Len(g.stream) = n + k
  /\ ~g.twice /\ Sees(g, g.stream)
  /\ g.broken = IF k = m + 1 THEN gen.broken
                ELSE Append(gen.broken, [at |-> Start, bad |-> {c + 1}, width |-> m + 1,
                                         sampled |-> k])
  /\ g.widths = IF Start >= Active THEN gen.widths \cup {m + 1} ELSE gen.widths
  /\ g.full = (gen.full \/ (/\ Start >= Active /\ m + 1 = gen.ask.width
                            /\ k = m + 1 /\ n + k <= Cap(gen.ask)))

\* How the packet of a faultless generation is observed.
LEMMA FaultlessSeen ==
  ASSUME NEW m \in Nat, NEW c \in Int, NEW n, Midway(m, c, n), NEW k, k = Taking(m, c)
  PROVE  /\ k \in 1..(m + 1) /\ n \in Nat
         /\ Extended(Observed(Choice), m, c, k, n)
         /\ Observed(Choice).failed = gen.failed /\ Observed(Choice).injected = gen.injected
<1>0. /\ IsGen(gen) /\ gen.stream \in Seq({"o"}) /\ n = Len(gen.stream) /\ ~gen.twice
      /\ gen.seen = IF gen.ask.mode = "diagnostic"
                    THEN {p \in Window : p < Place(gen.stream)} ELSE {}
      /\ gen.drafts = Proposal(m, c) /\ (gen.stream = <<>> => m = 0)
      /\ n \in Nat
  BY DEF Midway, Sees
<1> USE <1>0
<1>a. PICK g : g = Observed(Choice)
  OBVIOUS
<1>1. PICK out : out = Choice
  OBVIOUS
<1>2. PICK bad : bad = {i \in DOMAIN gen.drafts : gen.drafts[i] # "o"}
  OBVIOUS
<1>4. /\ k \in 1..(m + 1) /\ Accepted(out) + 1 = k
      /\ SubSeq(out, 1, k) \in Seq({"o"}) /\ Len(SubSeq(out, 1, k)) = k
      /\ bad = IF k = m + 1 THEN {} ELSE {c + 1}
  BY <1>1, <1>2, AgreedIs
<1>5. k # m + 1 => k = c + 1
  BY DEF Taking
<1>6. PICK clean : clean = IF bad = {} THEN m + 1 ELSE Min(bad)
  OBVIOUS
<1>7. clean = k
  <2>1. CASE k = m + 1
    BY <1>4, <1>6, <2>1
  <2>2. CASE k # m + 1
    <3>1. bad = {k} /\ bad \subseteq Nat /\ bad # {}
      BY <1>4, <1>5, <2>2
    <3>2. Min(bad) \in bad
      BY <3>1, LeastIs
    <3> QED BY <1>6, <3>1, <3>2
  <2> QED BY <2>1, <2>2
<1>8. Len(gen.drafts) = m
  BY ProposalIs
<1>9. PICK read : read = {p \in Window : Start <= p /\ p < Start + clean}
  OBVIOUS
<1>10. PICK copies : copies = (gen.ask.mode = "diagnostic")
  OBVIOUS
<1>11. PICK width : width = Len(gen.drafts) + 1 /\ width = m + 1
  BY <1>8
<1>12. PacketParts(out, k, width, bad, clean, read, copies)
  BY <1>2, <1>4, <1>6, <1>9, <1>10, <1>11 DEF PacketParts
<1>13. Seen(Observed(out), out, k, width, bad, read, copies)
  BY <1>12, ObservedIs, Zenon
<1>14. Seen(g, out, k, width, bad, read, copies)
  BY <1>1, <1>13, <1>a, Zenon
<1>15. /\ IsGen(g)
       /\ g.ask = gen.ask /\ g.drafts = gen.drafts /\ g.failed = gen.failed
       /\ g.injected = gen.injected
       /\ g.stream = gen.stream \o SubSeq(out, 1, k)
       /\ g.seen = IF copies THEN gen.seen \cup read ELSE gen.seen
       /\ g.twice = (gen.twice \/ (copies /\ gen.seen \cap read # {}))
       /\ g.widths = IF Start >= Active THEN gen.widths \cup {width} ELSE gen.widths
       /\ g.broken = IF bad = {} THEN gen.broken
                     ELSE Append(gen.broken, [at |-> Start, bad |-> bad, width |-> width,
                                              sampled |-> k])
       /\ g.full = (gen.full \/ (/\ Start >= Active /\ width = gen.ask.width
                                 /\ k = width /\ Len(g.stream) <= Cap(gen.ask)))
  BY <1>14, Zenon DEF Seen
<1>17. g.stream \in Seq({"o"}) /\ Len(g.stream) = n + k
  BY <1>4, <1>15
<1>18. /\ Place(g.stream) = Prompt + n + k - 1
       /\ Start = IF n = 0 THEN 0 ELSE Prompt + n - 1
       /\ Place(gen.stream) = Start
  <2>1. g.stream # <<>> /\ (n = 0 <=> gen.stream = <<>>)
    BY <1>4, <1>17, Emptied
  <2>2. Prompt \in Nat
    BY BlockAssumption
  <2>3. Place(g.stream) = Prompt + (n + k) - 1
    BY <1>17, <2>1 DEF Place
  <2>4. Start = IF n = 0 THEN 0 ELSE Prompt + n - 1
    BY <2>1 DEF Start
  <2>5. Place(gen.stream) = Start
    BY DEF Place, Start
  <2> QED BY <1>4, <2>2, <2>3, <2>4, <2>5, SMTT(30)
<1>19. /\ gen.seen \cap read = {}
       /\ copies => gen.seen \cup read = {p \in Window : p < Place(g.stream)}
  <2>1. PICK from \in Nat : from = Start
    BY <1>18, BlockAssumption, SMTT(30)
  <2>2. ASSUME NEW p \in Window
        PROVE  p \in Nat /\ ((from <= p /\ p < from + k) \/ p < from <=> p < Place(g.stream))
    <3>1. p \in Nat /\ p >= Prompt
      BY BlockAssumption, SMTT(30) DEF Window, Active
    <3>2. CASE n = 0
      <4>1. m = 0
        BY <3>2, Emptied
      <4>2. k = 1 /\ Prompt \in Nat \ {0}
        BY <1>4, <4>1, BlockAssumption
      <4> QED BY <1>18, <2>1, <3>1, <3>2, <4>2
    <3>3. CASE n # 0
      <4>1. from = Prompt + n - 1 /\ Place(g.stream) = from + k /\ k \in Nat
        <5>1. from = Prompt + n - 1 /\ Place(g.stream) = Prompt + n + k - 1
          BY <1>18, <2>1, <3>3
        <5>2. Prompt \in Nat /\ k \in Nat
          BY <1>4, BlockAssumption
        <5> QED BY <5>1, <5>2, SMTT(30)
      <4> QED BY <3>1, <4>1
    <3> QED BY <3>1, <3>2, <3>3
  <2>3. gen.seen \subseteq {p \in Window : p < from}
    BY <1>18, <2>1
  <2>4. read = {p \in Window : from <= p /\ p < from + k}
    BY <1>7, <1>9, <2>1
  <2>5. gen.seen \cap read = {}
    BY <2>2, <2>3, <2>4
  <2>6. copies => gen.seen = {p \in Window : p < from}
    BY <1>10, <1>18, <2>1
  <2>7. copies => gen.seen \cup read = {p \in Window : p < Place(g.stream)}
    BY <2>2, <2>4, <2>6
  <2> QED BY <2>5, <2>7
<1>20. /\ ~g.twice
       /\ g.seen = IF gen.ask.mode = "diagnostic"
                   THEN {p \in Window : p < Place(g.stream)} ELSE {}
  BY <1>10, <1>15, <1>19
<1>21. /\ g.broken = IF k = m + 1 THEN gen.broken
                     ELSE Append(gen.broken, [at |-> Start, bad |-> {c + 1}, width |-> m + 1,
                                              sampled |-> k])
       /\ g.widths = IF Start >= Active THEN gen.widths \cup {m + 1} ELSE gen.widths
       /\ g.full = (gen.full \/ (/\ Start >= Active /\ m + 1 = gen.ask.width
                                 /\ k = m + 1 /\ n + k <= Cap(gen.ask)))
  <2>1. bad = {} <=> k = m + 1
    BY <1>4
  <2>2. k # m + 1 => bad = {c + 1}
    BY <1>4
  <2> QED BY <1>11, <1>15, <1>17, <2>1, <2>2
<1>22. Extended(g, m, c, k, n)
  BY <1>15, <1>17, <1>20, <1>21 DEF Extended, Sees
<1> QED BY <1>4, <1>15, <1>22, <1>a

\* The packet and the next proposal of a faultless generation.
LEMMA FaultlessTaken ==
  ASSUME NEW w \in {1, 2, 4}, gen.ask.width = w, NEW c \in Int, Corrupt(gen.ask) = c,
         NEW m \in Nat, NEW e \in Int, NEW n, Midway(m, e, n), ~gen.failed,
         NEW k, k = Taking(m, e),
         NEW h, h = Proposed(Observed(Choice))
  PROVE  /\ k \in 1..(m + 1) /\ n \in Nat
         /\ Extended(h, m, e, k, n) /\ ~h.failed
         /\ \E j \in 0..(w - 1) :
              /\ h.drafts = Proposal(j, IF gen.injected THEN -1 ELSE c)
              /\ Room(j, n + k, w)
              /\ h.injected = (gen.injected \/ c + 1 \in 1..j)
<1>1. PICK g : g = Observed(Choice)
  OBVIOUS
<1>2. /\ k \in 1..(m + 1) /\ n \in Nat
      /\ Extended(g, m, e, k, n)
      /\ g.failed = gen.failed /\ g.injected = gen.injected
  BY <1>1, FaultlessSeen, Zenon
<1>15. IsGen(g) /\ g.stream \in Seq({"o"}) /\ Len(g.stream) = n + k
  BY <1>2 DEF Extended
<1>3. PICK failed : failed = (g.failed \/ ~AllO(g.stream))
  OBVIOUS
<1>4. failed = FALSE
  BY <1>2, <1>3, <1>15, AllOIs
<1>5. PICK drafts : drafts = Drafts(g.stream, FALSE, gen.injected)
  OBVIOUS
<1>6. drafts = Drafts(g.stream, failed, g.injected)
  BY <1>2, <1>4, <1>5
<1>7. h = Proposed(g)
  BY <1>1
<1>8. Prepared(h, g, failed, drafts)
  BY <1>15, <1>3, <1>6, <1>7, ProposedIs, Zenon
<1>9. n + k \in Nat
  BY <1>2
<1>10. PICK j \in 0..(w - 1) :
         /\ drafts = Proposal(j, IF gen.injected THEN -1 ELSE c)
         /\ Room(j, n + k, w)
  <2>1. Len(g.stream) = n + k /\ n + k \in Nat
    BY <1>9, <1>15
  <2>2. PICK b : b = gen.injected
    OBVIOUS
  <2>3. PICK l : l = n + k
    OBVIOUS
  <2>4. Proposes(Drafts(g.stream, FALSE, b), l, w, c, b)
    BY <2>1, <2>3, DraftsAre
  <2>5. Proposes(drafts, n + k, w, c, gen.injected)
    BY <1>5, <2>2, <2>3, <2>4, Zenon
  <2> QED BY <2>5, Zenon DEF Proposes
<1>12. j \in Nat
  BY <1>10
<1>13. AllO(drafts) <=> gen.injected \/ c + 1 \notin 1..j
  <2>1. PICK b \in Int : b = IF gen.injected THEN -1 ELSE c
    OBVIOUS
  <2>2. AllO(drafts) <=> b + 1 \notin 1..j
    BY <1>10, <1>12, <2>1, ProposalIs
  <2> QED BY <1>12, <2>1, <2>2
<1>14. h.injected = (gen.injected \/ c + 1 \in 1..j)
  BY <1>2, <1>8, <1>13 DEF Prepared
<1>16. Extended(h, m, e, k, n)
  BY <1>2, <1>8 DEF Prepared, Extended, Sees
<1> QED BY <1>2, <1>4, <1>8, <1>10, <1>14, <1>16 DEF Prepared

\* A faultless generation stays so while the target chooses as it should.
LEMMA PacketFaultless ==
  ASSUME Faultless, gen' = Proposed(Observed(Choice))
  PROVE  Faultless' /\ gen'.ask = gen.ask
<1>1. PICK w \in {1, 2, 4} : w = gen.ask.width
  BY AskIs DEF Faultless
<1>2. PICK c \in {-1, 0, 2} : c = Corrupt(gen.ask)
  BY AskIs DEF Faultless
<1>3. /\ c < w - 1
      /\ c # -1 => gen.ask.mode = "diagnostic" /\ c = gen.ask.n
      /\ Cap(gen.ask) \in Nat /\ Activation + 4 <= Cap(gen.ask)
      /\ c # -1 => Cap(gen.ask) = Oracle
  BY <1>1, <1>2, AskIs DEF Faultless, Judged
<1>4. PICK n \in Nat : n = Len(gen.stream)
  BY DEF Faultless
<1>5. Packets(n, w, c)
  BY <1>1, <1>2, <1>4 DEF Faultless
<1>6. {Activation, Oracle, Prompt} \subseteq Nat \ {0} /\ Activation + 7 <= Oracle
  BY BlockAssumption
<1>7. gen.stream = <<>> => n = 0
  BY <1>4
<1>8. PICK m \in 0..(w - 1), e \in {-1, 0, 2} :
        /\ gen.drafts = Proposal(m, e) /\ Midway(m, e, n)
        /\ n < Activation => m = 0 /\ e = -1
        /\ n = Activation => m = w - 1 /\ e = c
        /\ n > Activation => e = -1 /\ \/ gen.full /\ w \in gen.widths
                                       \/ c # -1 /\ n = Activation + c + 1 /\ m = w - 1
  <2>1. ASSUME NEW m \in 0..(w - 1), NEW e, gen.drafts = Proposal(m, e), n = 0 => m = 0
        PROVE  Midway(m, e, n)
    BY <1>4, <1>7, <2>1 DEF Midway, Faultless
  <2>2. CASE n < Activation
    <3>1. gen.drafts = Proposal(0, -1) /\ 0 \in 0..(w - 1)
      BY <1>5, <2>2 DEF Packets
    <3>2. Midway(0, -1, n)
      BY <2>1, <3>1
    <3> QED BY <1>6, <2>2, <3>1, <3>2
  <2>3. CASE n = Activation
    <3>1. gen.drafts = Proposal(w - 1, c) /\ w - 1 \in 0..(w - 1) /\ n # 0
      BY <1>5, <1>6, <2>3 DEF Packets
    <3>2. Midway(w - 1, c, n)
      BY <2>1, <3>1
    <3> QED BY <1>6, <2>3, <3>1, <3>2
  <2>4. CASE n > Activation
    <3>1. PICK m \in 0..(w - 1) :
            /\ gen.drafts = Proposal(m, -1)
            /\ \/ gen.full /\ w \in gen.widths
               \/ c # -1 /\ n = Activation + c + 1 /\ m = w - 1
      BY <1>5, <2>4 DEF Packets
    <3>2. n # 0
      BY <1>6, <2>4
    <3>3. Midway(m, -1, n)
      BY <2>1, <3>1, <3>2
    <3> QED BY <1>6, <2>4, <3>1, <3>3
  <2> QED BY <1>6, <2>2, <2>3, <2>4
<1>9. PICK k : k = Taking(m, e)
  OBVIOUS
<1>10. m \in Nat /\ e \in Int /\ c \in Int
  BY <1>8
<1>11. /\ k \in 1..(m + 1)
       /\ Extended(gen', m, e, k, n) /\ ~gen'.failed
       /\ \E j \in 0..(w - 1) :
            /\ gen'.drafts = Proposal(j, IF gen.injected THEN -1 ELSE c)
            /\ Room(j, n + k, w)
            /\ gen'.injected = (gen.injected \/ c + 1 \in 1..j)
  <2>1. ~gen.failed
    BY DEF Faultless
  <2>2. w \in {1, 2, 4} /\ gen.ask.width = w /\ Corrupt(gen.ask) = c
    BY <1>1, <1>2
  <2>3. Midway(m, e, n)
    BY <1>8
  <2> QED BY <1>9, <1>10, <2>1, <2>2, <2>3, FaultlessTaken
<1>12. PICK j \in 0..(w - 1), d \in {-1, 0, 2} :
            /\ d = IF gen.injected THEN -1 ELSE c
            /\ gen'.drafts = Proposal(j, d)
            /\ Room(j, n + k, w)
            /\ gen'.injected = (gen.injected \/ c + 1 \in 1..j)
  <2>1. PICK d \in {-1, 0, 2} : d = IF gen.injected THEN -1 ELSE c
    OBVIOUS
  <2> QED BY <1>11, <2>1
<1>13. /\ IsGen(gen') /\ gen'.ask = gen.ask
       /\ gen'.stream \in Seq({"o"}) /\ Len(gen'.stream) = n + k
       /\ ~gen'.twice /\ Sees(gen', gen'.stream)
       /\ gen'.broken = IF k = m + 1 THEN gen.broken
                        ELSE Append(gen.broken, [at |-> Start, bad |-> {e + 1}, width |-> m + 1,
                                                 sampled |-> k])
       /\ gen'.widths = IF Start >= Active THEN gen.widths \cup {m + 1} ELSE gen.widths
       /\ gen'.full = (gen.full \/ (/\ Start >= Active /\ m + 1 = w
                                    /\ k = m + 1 /\ n + k <= Cap(gen.ask)))
  BY <1>1, <1>11 DEF Extended
<1>14. /\ k \in Nat /\ k = IF e + 1 \in 1..m THEN e + 1 ELSE m + 1
       /\ n >= Activation => Start = Prompt + n - 1 /\ Start >= Active
  <2>1. k \in Nat
    BY <1>10, <1>11
  <2>2. k = IF e + 1 \in 1..m THEN e + 1 ELSE m + 1
    BY <1>9 DEF Taking
  <2>3. n >= Activation => Start = Prompt + n - 1 /\ Start >= Active
    BY <1>4, <1>6, <1>7 DEF Start, Active
  <2> QED BY <2>1, <2>2, <2>3
<1>15. Packets(n + k, w, c)'
  <2>1. CASE n < Activation
    <3>1. m = 0 /\ e = -1 /\ k = 1 /\ gen.broken = <<>> /\ ~gen.injected
      BY <1>5, <1>8, <1>14, <2>1 DEF Packets
    <3>2. gen'.broken = <<>>
      BY <1>13, <3>1
    <3>3. CASE n + 1 < Activation
      <4>1. j = 0
        BY <1>12, <3>1, <3>3 DEF Room
      <4>2. gen'.drafts = Proposal(0, c) /\ ~gen'.injected
        <5>1. d = c
          BY <1>12, <3>1
        <5>2. ~ c + 1 \in 1..0
          OBVIOUS
        <5> QED BY <1>12, <3>1, <4>1, <5>1, <5>2
      <4>3. Proposal(0, c) = Proposal(0, -1)
        BY DEF Proposal
      <4> QED BY <1>6, <3>1, <3>2, <3>3, <4>2, <4>3 DEF Packets
    <3>4. CASE n + 1 = Activation
      <4>1. n + 1 + w <= Oracle /\ n + 1 >= Activation
        BY <1>1, <1>6, <3>4
      <4>2. j = w - 1
        BY <1>12, <3>1, <4>1 DEF Room
      <4>3. c # -1 => c + 1 \in 1..j
        BY <1>3, <4>2
      <4>4. gen'.drafts = Proposal(w - 1, c) /\ (c # -1 => gen'.injected)
        BY <1>12, <3>1, <4>2, <4>3
      <4> QED BY <1>6, <3>1, <3>2, <3>4, <4>4 DEF Packets
    <3> QED BY <1>6, <2>1, <3>3, <3>4
  <2>2. ASSUME n >= Activation PROVE c # -1 => gen.injected
    BY <1>5, <1>6, <2>2 DEF Packets
  <2>3. ASSUME n >= Activation
        PROVE  /\ gen'.drafts = Proposal(j, -1)
               /\ c # -1 => gen'.injected
    <3>1. gen.injected \/ c = -1
      BY <2>2, <2>3
    <3> QED BY <1>12, <3>1
  <2>4. ASSUME n >= Activation, k = m + 1, m = w - 1, n + w <= Cap(gen.ask)
        PROVE  gen'.full /\ w \in gen'.widths
    <3>1. m + 1 = w /\ n + k = n + w
      BY <2>4
    <3>2. Start >= Active
      BY <1>14, <2>4
    <3>3. gen'.widths = gen.widths \cup {w}
      BY <1>13, <3>1, <3>2
    <3>4. gen'.full
      BY <1>13, <2>4, <3>1, <3>2
    <3> QED BY <3>3, <3>4
  <2>5. CASE n = Activation /\ c = -1
    <3>1. m = w - 1 /\ k = m + 1 /\ gen.broken = <<>>
      BY <1>1, <1>5, <1>8, <1>14, <2>5 DEF Packets
    <3>2. n + w <= Cap(gen.ask)
      BY <1>1, <1>3, <1>6, <2>5
    <3>3. gen'.full /\ w \in gen'.widths
      BY <1>6, <2>4, <2>5, <3>1, <3>2
    <3>4. gen'.broken = <<>> /\ n + k > Activation
      BY <1>6, <1>11, <1>13, <1>14, <2>5, <3>1
    <3> QED BY <1>6, <1>14, <2>3, <2>5, <3>3, <3>4 DEF Packets
  <2>6. CASE n = Activation /\ c # -1
    <3>1. m = w - 1 /\ e = c /\ k = c + 1 /\ k # m + 1 /\ gen.broken = <<>>
      BY <1>1, <1>3, <1>5, <1>8, <1>14, <2>6 DEF Packets
    <3>2. n + k = Activation + c + 1 /\ n + k > Activation
      BY <1>6, <2>6, <3>1
    <3>3. n + k + w <= Oracle /\ n + k >= Activation
      <4>1. c + 1 + w <= 7
        BY <1>3
      <4>2. n + k + w = Activation + (c + 1 + w)
        BY <1>6, <2>6, <3>1
      <4> QED BY <1>6, <1>14, <2>6, <4>1, <4>2
    <3>4. j = w - 1
      BY <1>12, <3>3 DEF Room
    <3>5. Start = Active
      BY <1>6, <1>14, <2>6 DEF Active
    <3>6. m + 1 = w
      BY <1>1, <3>1
    <3>7. gen'.broken = Append(<<>>, [at |-> Start, bad |-> {e + 1}, width |-> m + 1,
                                      sampled |-> k])
      BY <1>13, <3>1
    <3>8. gen'.broken = << Rejected(gen'.ask) >>
      <4>1. [at |-> Start, bad |-> {e + 1}, width |-> m + 1, sampled |-> k]
              = [at |-> Active, bad |-> {gen'.ask.n + 1}, width |-> gen'.ask.width,
                 sampled |-> gen'.ask.n + 1]
        BY <1>1, <1>3, <1>13, <2>6, <3>1, <3>5, <3>6
      <4>2. gen'.broken = << [at |-> Start, bad |-> {e + 1}, width |-> m + 1,
                              sampled |-> k] >>
        BY <3>7
      <4> QED BY <4>1, <4>2 DEF Rejected
    <3>9. gen'.broken = << Rejected(gen.ask)' >>
      BY <3>8 DEF Rejected, Active
    <3> QED BY <1>6, <1>14, <2>3, <2>6, <3>2, <3>4, <3>9 DEF Packets
  <2>7. CASE n > Activation
    <3>1. e = -1 /\ k = m + 1
      BY <1>8, <1>14, <2>7
    <3>2. gen'.broken = IF c = -1 THEN <<>> ELSE << Rejected(gen.ask) >>
      BY <1>5, <1>13, <2>7, <3>1 DEF Packets
    <3>3. Rejected(gen.ask)' = Rejected(gen.ask)
      BY <1>13 DEF Rejected, Active
    <3>4. gen'.full /\ w \in gen'.widths
      <4>1. CASE gen.full /\ w \in gen.widths
        BY <1>13, <4>1
      <4>2. CASE c # -1 /\ n = Activation + c + 1 /\ m = w - 1
        <5>1. n + w <= Cap(gen.ask)
          BY <1>1, <1>3, <1>6, <4>2
        <5> QED BY <1>6, <2>4, <2>7, <3>1, <4>2, <5>1
      <4> QED BY <1>8, <2>7, <4>1, <4>2
    <3>5. n + k > Activation
      BY <1>6, <1>14, <2>7
    <3> QED BY <1>6, <1>14, <2>3, <2>7, <3>2, <3>3, <3>4, <3>5, SMTT(30) DEF Packets
  <2> QED BY <1>6, <2>1, <2>5, <2>6, <2>7
<1>16. Sees(gen, gen.stream)'
  BY <1>13 DEF Sees, Place, Window, Active
<1>17. Asked(gen.ask)'
  BY <1>13 DEF Faultless, Asked, DiagAsks, Clean
<1>18. Packets(Len(gen.stream), gen.ask.width, Corrupt(gen.ask))'
  BY <1>1, <1>2, <1>13, <1>15 DEF Packets, Corrupt
<1> QED BY <1>11, <1>13, <1>16, <1>17, <1>18 DEF Faultless, IsGen

\* Any generation: a token that is not the oracle's ends up in the stream, and
\* the proposer notices it.

LEMMA ChoiceIs ==
  ASSUME GenTyped
  PROVE  /\ Choice \in Seq(Tokens) /\ Len(Choice) = Len(gen.drafts) + 1
         /\ DOMAIN Choice = 1..(Len(gen.drafts) + 1)
         /\ \A i \in DOMAIN Choice : Choice[i] = "o" =>
               \A j \in 1..(i - 1) : Choice[j] = "o" /\ gen.drafts[j] = "o"
<1>1. PICK m \in Nat : m = Len(gen.drafts) /\ DOMAIN gen.drafts = 1..m
  BY DEF GenTyped
<1>2. PICK out : out = Choice
  OBVIOUS
<1>3. /\ out = [i \in 1..(m + 1) |-> out[i]]
      /\ \A i \in 1..(m + 1) :
         out[i] = IF AllO(gen.stream) /\ AllO(SubSeq(gen.drafts, 1, i - 1)) THEN "o" ELSE "x"
  BY <1>1, <1>2 DEF Choice
<1>4. out \in [1..(m + 1) -> Tokens]
  <2>1. \A i \in 1..(m + 1) : out[i] \in Tokens
    BY <1>3 DEF Tokens
  <2> QED BY <1>3, <2>1
<1>5. out \in Seq(Tokens) /\ Len(out) = m + 1 /\ DOMAIN out = 1..(m + 1)
  BY <1>4
<1>6. ASSUME NEW i \in 1..(m + 1), out[i] = "o", NEW j \in 1..(i - 1)
      PROVE  out[j] = "o" /\ gen.drafts[j] = "o"
  <2>1. AllO(gen.stream) /\ AllO(SubSeq(gen.drafts, 1, i - 1))
    BY <1>3, <1>6
  <2>2. i - 1 \in 0..m /\ j - 1 \in 0..m /\ j \in 1..(m + 1)
    BY <1>6
  <2>3. /\ DOMAIN SubSeq(gen.drafts, 1, i - 1) = 1..(i - 1)
        /\ \A l \in 1..(i - 1) : SubSeq(gen.drafts, 1, i - 1)[l] = gen.drafts[l]
    BY <1>1, <2>2, SubSeqIs DEF GenTyped
  <2>4. /\ DOMAIN SubSeq(gen.drafts, 1, j - 1) = 1..(j - 1)
        /\ \A l \in 1..(j - 1) : SubSeq(gen.drafts, 1, j - 1)[l] = gen.drafts[l]
    BY <1>1, <2>2, SubSeqIs DEF GenTyped
  <2>5. \A l \in 1..(i - 1) : gen.drafts[l] = "o"
    BY <2>1, <2>3 DEF AllO
  <2>6. \A l \in 1..(j - 1) : l \in 1..(i - 1)
    BY <1>6, <2>2
  <2>7. AllO(SubSeq(gen.drafts, 1, j - 1))
    BY <2>4, <2>5, <2>6 DEF AllO
  <2> QED BY <1>3, <1>6, <2>1, <2>2, <2>5, <2>7
<1> QED BY <1>1, <1>2, <1>5, <1>6

LEMMA AcceptedIs ==
  ASSUME GenTyped, NEW out, NEW i \in 1..(Len(gen.drafts) + 1),
         \A j \in 1..(i - 1) : gen.drafts[j] = out[j]
  PROVE  Accepted(out) \in 0..Len(gen.drafts) /\ i - 1 <= Accepted(out)
<1> DEFINE A == {n \in 0..Len(gen.drafts) : \A j \in 1..n : gen.drafts[j] = out[j]}
<1>1. PICK m \in Nat : m = Len(gen.drafts)
  BY DEF GenTyped
<1>2. A \subseteq 0..m /\ i - 1 \in A
  BY <1>1
<1>3. Accepted(out) = Max(A)
  BY Zenon DEF Accepted
<1> HIDE DEF A
<1>4. Max(A) \in A /\ \A n \in A : n <= Max(A)
  <2>1. A # {}
    BY <1>2
  <2> QED BY <1>2, <2>1, LargestIs
<1> QED BY <1>1, <1>2, <1>3, <1>4

LEMMA DraftsTyped ==
  ASSUME NEW ask, gen.ask = ask, Asked(ask) \/ ask \in Warmups, NEW s \in Seq(Tokens), NEW failed,
         NEW injected
  PROVE  Drafts(s, failed, injected) \in Seq(Tokens)
<1>1. ask.width \in {1, 2, 4} /\ Corrupt(ask) \in Int
  BY AskIs DEF Warmups, Ask, Corrupt
<1>2. PICK w \in {1, 2, 4}, c \in Int : w = gen.ask.width /\ c = Corrupt(gen.ask)
  BY <1>1
<1>3. CASE failed
  <2>1. PICK k : k = IF Len(s) >= Activation /\ ~failed
           THEN Min({gen.ask.width - 1, Max({0, Prompt + Oracle - Offset(s) - 1})}) ELSE 0
    OBVIOUS
  <2>2. k = 0
    BY <1>3, <2>1
  <2>3. Drafts(s, failed, injected)
          = [i \in 1..0 |-> IF i = Corrupt(gen.ask) + 1 /\ ~injected THEN "c" ELSE "o"]
    BY <1>3 DEF Drafts
  <2>4. \A f : DOMAIN f = 1..0 /\ f = [i \in DOMAIN f |-> f[i]] => f \in Seq(Tokens)
    OBVIOUS
  <2> QED BY <2>3, <2>4
<1>4. CASE ~failed
  <2>1. PICK n \in Nat : n = Len(s)
    OBVIOUS
  <2>2. Proposes(Drafts(s, FALSE, injected), n, w, c, injected)
    BY <1>2, <2>1, DraftsAre
  <2>3. PICK j \in 0..(w - 1), d \in Int : Drafts(s, FALSE, injected) = Proposal(j, d)
    <3>1. PICK d \in Int : d = IF injected THEN -1 ELSE c
      OBVIOUS
    <3> QED BY <2>2, <3>1 DEF Proposes
  <2>4. j \in Nat
    BY <2>3
  <2>5. Drafts(s, FALSE, injected) \in Seq(Tokens)
    BY <2>3, <2>4, ProposalIs
  <2>6. Drafts(s, failed, injected) = Drafts(s, FALSE, injected)
    BY <1>4 DEF Drafts
  <2> QED BY <2>5, <2>6
<1> QED BY <1>3, <1>4

LEMMA ConcatIs ==
  ASSUME NEW S, NEW s \in Seq(S), NEW e \in Seq(S), NEW j \in 1..Len(e)
  PROVE  Len(s) + j \in DOMAIN (s \o e) /\ (s \o e)[Len(s) + j] = e[j]
<1>1. /\ DOMAIN (s \o e) = 1 .. (Len(s) + Len(e)) /\ Len(s) \in Nat /\ Len(e) \in Nat
      /\ \A i \in 1 .. (Len(s) + Len(e)) :
            (s \o e)[i] = IF i <= Len(s) THEN s[i] ELSE e[i - Len(s)]
  OBVIOUS
<1>2. Len(s) + j \in 1 .. (Len(s) + Len(e)) /\ ~(Len(s) + j <= Len(s))
  BY <1>1
<1>3. (Len(s) + j) - Len(s) = j
  BY <1>1
<1> QED BY <1>1, <1>2, <1>3

LEMMA PacketTyped ==
  ASSUME GenTyped, Asked(gen.ask) \/ gen.ask \in Warmups, NEW out, out = Choice \/
           \E i \in DOMAIN Choice, t \in {"c", "x"} : out = [Choice EXCEPT ![i] = t],
         \A i \in DOMAIN out : out[i] # Choice[i] => Choice[i] = "o",
         gen' = Proposed(Observed(out))
  PROVE  /\ GenTyped' /\ gen'.ask = gen.ask
         /\ gen.failed \/ out # Choice => gen'.failed
<1>1. PICK m \in Nat : m = Len(gen.drafts)
  BY DEF GenTyped
<1>2. /\ Choice \in Seq(Tokens) /\ Len(Choice) = m + 1 /\ DOMAIN Choice = 1..(m + 1)
      /\ \A i \in 1..(m + 1) : Choice[i] = "o" =>
               \A j \in 1..(i - 1) : Choice[j] = "o" /\ gen.drafts[j] = "o"
  BY <1>1, ChoiceIs
<1>3. out \in Seq(Tokens) /\ Len(out) = m + 1 /\ DOMAIN out = 1..(m + 1)
  <2>1. CASE out = Choice
    BY <1>2, <2>1
  <2>2. ASSUME NEW i \in DOMAIN Choice, NEW t \in {"c", "x"}, out = [Choice EXCEPT ![i] = t]
        PROVE  out \in Seq(Tokens) /\ Len(out) = m + 1 /\ DOMAIN out = 1..(m + 1)
    <3>1. PICK s \in Seq(Tokens) : s = Choice /\ Len(s) = m + 1 /\ i \in 1..Len(s)
      BY <1>2
    <3>2. t \in Tokens
      BY DEF Tokens
    <3>3. [s EXCEPT ![i] = t] \in Seq(Tokens) /\ Len([s EXCEPT ![i] = t]) = Len(s)
          /\ DOMAIN [s EXCEPT ![i] = t] = 1..Len(s)
      BY <3>1, <3>2
    <3>4. out = [s EXCEPT ![i] = t]
      BY <2>2, <3>1
    <3> QED BY <3>1, <3>3, <3>4
  <2> QED BY <2>1, <2>2
<1>4. PICK sampled : sampled = Accepted(out) + 1
  OBVIOUS
<1>5. sampled \in 1..(m + 1)
  <2>1. 1 \in 1..(Len(gen.drafts) + 1) /\ \A j \in 1..(1 - 1) : gen.drafts[j] = out[j]
    BY <1>1
  <2>2. Accepted(out) \in 0..Len(gen.drafts)
    BY <2>1, AcceptedIs
  <2> QED BY <1>1, <1>4, <2>2
<1>6. PICK e : e = SubSeq(out, 1, sampled)
  OBVIOUS
<1>7. e \in Seq(Tokens) /\ Len(e) = sampled /\ \A i \in 1..sampled : e[i] = out[i]
  BY <1>3, <1>5, <1>6, SubSeqIs
<1>8. PICK g : g = Observed(out)
  OBVIOUS
<1>9. IsGen(g) /\ g.ask = gen.ask /\ g.drafts = gen.drafts /\ g.failed = gen.failed
      /\ g.stream = gen.stream \o e
  <2>1. PICK width, bad, clean, read, copies : PacketParts(out, sampled, width, bad, clean, read, copies)
    <3>1. PICK width, bad, copies :
            /\ width = Len(gen.drafts) + 1
            /\ bad = {i \in DOMAIN gen.drafts : gen.drafts[i] # "o"}
            /\ copies = (gen.ask.mode = "diagnostic")
      OBVIOUS
    <3>2. PICK clean : clean = IF bad = {} THEN width ELSE Min(bad)
      OBVIOUS
    <3>3. PICK read : read = {p \in Window : Start <= p /\ p < Start + clean}
      OBVIOUS
    <3> QED BY <1>4, <3>1, <3>2, <3>3, Zenon DEF PacketParts
  <2>2. IsGen(gen)
    BY DEF GenTyped
  <2>3. Seen(Observed(out), out, sampled, width, bad, read, copies)
    BY <2>1, <2>2, ObservedIs, Zenon
  <2> QED BY <1>6, <1>8, <2>3, Zenon DEF Seen
<1>10. PICK failed : failed = (g.failed \/ ~AllO(g.stream))
  OBVIOUS
<1>11. PICK drafts : drafts = Drafts(g.stream, failed, g.injected)
  OBVIOUS
<1>12. Prepared(gen', g, failed, drafts)
  BY <1>8, <1>9, <1>10, <1>11, ProposedIs, Zenon
<1>13. g.stream \in Seq(Tokens)
  BY <1>7, <1>9 DEF GenTyped
<1>14. drafts \in Seq(Tokens)
  BY <1>11, <1>13, DraftsTyped
<1>15. GenTyped' /\ gen'.ask = gen.ask /\ (gen.failed => gen'.failed)
  BY <1>9, <1>10, <1>12, <1>13, <1>14 DEF Prepared, GenTyped, IsGen
<1>16. ASSUME out # Choice PROVE gen'.failed
  <2>1. PICK i \in 1..(m + 1), t \in {"c", "x"} : out = [Choice EXCEPT ![i] = t]
    BY <1>2, <1>16
  <2>2. out[i] = t /\ \A j \in 1..(m + 1) : j # i => out[j] = Choice[j]
    BY <1>2, <2>1
  <2>3. Choice[i] # t
    <3>1. SUFFICES ASSUME Choice[i] = t PROVE FALSE
      OBVIOUS
    <3>2. out = Choice
      BY <1>2, <2>1, <3>1
    <3> QED BY <1>16, <3>2
  <2>4. Choice[i] = "o"
    BY <1>3, <2>2, <2>3
  <2>5. \A j \in 1..(i - 1) : gen.drafts[j] = out[j]
    BY <1>2, <2>2, <2>4
  <2>6. i <= sampled
    <3>1. i \in 1..(Len(gen.drafts) + 1)
      BY <1>1
    <3>2. i - 1 <= Accepted(out) /\ Accepted(out) \in 0..m
      BY <1>1, <2>5, <3>1, AcceptedIs
    <3> QED BY <1>4, <3>2
  <2>7. e[i] # "o"
    BY <1>5, <1>7, <2>2, <2>6
  <2>8. PICK n \in Nat : n = Len(gen.stream)
    BY DEF GenTyped
  <2>9. n + i \in DOMAIN g.stream /\ g.stream[n + i] = e[i]
    <3>1. \A j \in 1..Len(e) : /\ Len(gen.stream) + j \in DOMAIN (gen.stream \o e)
                               /\ (gen.stream \o e)[Len(gen.stream) + j] = e[j]
      <4>1. PICK s \in Seq(Tokens) : s = gen.stream
        BY DEF GenTyped
      <4>2. e \in Seq(Tokens)
        BY <1>7
      <4>3. ASSUME NEW j \in 1..Len(e)
            PROVE  Len(s) + j \in DOMAIN (s \o e) /\ (s \o e)[Len(s) + j] = e[j]
        BY <4>2, ConcatIs, SMTT(30)
      <4> QED BY <4>1, <4>3
    <3>2. i \in 1..Len(e)
      BY <1>5, <1>7, <2>6
    <3> QED BY <1>9, <2>8, <3>1, <3>2
  <2>10. ~AllO(g.stream)
    BY <2>7, <2>9 DEF AllO
  <2> QED BY <1>10, <1>12, <2>10 DEF Prepared
<1> QED BY <1>15, <1>16

LEMMA AskFields ==
  ASSUME NEW a, NEW w, NEW n
  PROVE  /\ Ask(a, w, n).mode = a /\ Ask(a, w, n).width = w /\ Ask(a, w, n).n = n
         /\ Reduce(n).mode = "reduce" /\ Reduce(n).n = n
         /\ Clean(w).mode = "diagnostic" /\ Clean(w).n = -1 /\ Clean(w).width = w
BY DEF Ask, Reduce, Clean

LEMMA AskedByIs ==
  /\ AskedBy(0) = {} /\ AskedBy(1) = {Clean(1)} /\ AskedBy(2) = {Clean(1), Clean(2), Clean(4)}
  /\ AskedBy(3) = DiagAsks /\ AskedBy(4) = DiagAsks
  /\ \A n \in 1..4 : AskedBy(n) \subseteq DiagAsks
<1>1. \A n \in 1..4 : n \in {1, 2, 3, 4}
  OBVIOUS
<1> QED BY <1>1 DEF AskedBy, DiagAsks

LEMMA AskedByGrows ==
  ASSUME NEW n \in 0..4, NEW m \in 1..4, n < m PROVE AskedBy(n) \subseteq AskedBy(m) /\ AskedBy(m) \subseteq DiagAsks
<1>1. n \in {0, 1, 2, 3} /\ m \in {1, 2, 3, 4}
  OBVIOUS
<1> QED BY <1>1, AskedByIs DEF DiagAsks

\* Tuples.
LEMMA WithEmpty == ASSUME NEW S, NEW s \in Seq(S) PROVE s \o <<>> = s /\ <<>> \o s = s
OBVIOUS
LEMMA SeqSame ==
  ASSUME NEW S, NEW s \in Seq(S), NEW u \in Seq(S), Len(s) = Len(u), \A i \in 1..Len(u) : s[i] = u[i]
  PROVE  s = u
<1>1. s = [i \in 1..Len(u) |-> s[i]] /\ u = [i \in 1..Len(u) |-> u[i]]
  OBVIOUS
<1> QED BY <1>1

Puts(s, t, u) ==
  /\ Len(u) = Len(s) + Len(t)
  /\ \A i \in 1..Len(s) : u[i] = s[i]
  /\ \A i \in 1..Len(t) : u[Len(s) + i] = t[i]

LEMMA Glued ==
  ASSUME NEW S, NEW s \in Seq(S), NEW t \in Seq(S), NEW u \in Seq(S), Puts(s, t, u)
  PROVE  s \o t = u
<1>1. PICK v : v = s \o t
  OBVIOUS
<1>2. v \in Seq(S) /\ Len(v) = Len(s) + Len(t)
  BY <1>1
<1>3. \A i \in 1..(Len(s) + Len(t)) : v[i] = IF i <= Len(s) THEN s[i] ELSE t[i - Len(s)]
  BY <1>1
<1>4. ASSUME NEW i \in 1..Len(u) PROVE v[i] = u[i]
  <2>1. ~(i <= Len(s)) => i - Len(s) \in 1..Len(t) /\ Len(s) + (i - Len(s)) = i
    BY DEF Puts
  <2> QED BY <1>3, <2>1 DEF Puts
<1> QED BY <1>1, <1>2, <1>4, SeqSame DEF Puts

LEMMA Glue11 == ASSUME NEW a, NEW b PROVE << a >> \o << b >> = << a, b >>
<1>1. << a >> \in Seq({a, b}) /\ << b >> \in Seq({a, b}) /\ << a, b >> \in Seq({a, b})
  OBVIOUS
<1>2. Puts(<< a >>, << b >>, << a, b >>)
  <2>1. \A i \in 1..Len(<< a >>) : << a, b >>[i] = << a >>[i]
    OBVIOUS
  <2>2. \A i \in 1..Len(<< b >>) : << a, b >>[Len(<< a >>) + i] = << b >>[i]
    OBVIOUS
  <2> QED BY <2>1, <2>2 DEF Puts
<1> QED BY <1>1, <1>2, Glued

LEMMA Glue12 == ASSUME NEW a, NEW b, NEW c PROVE << a >> \o << b, c >> = << a, b, c >>
<1>1. << a >> \in Seq({a, b, c}) /\ << b, c >> \in Seq({a, b, c}) /\ << a, b, c >> \in Seq({a, b, c})
  OBVIOUS
<1>2. Puts(<< a >>, << b, c >>, << a, b, c >>)
  BY DEF Puts
<1> QED BY <1>1, <1>2, Glued

LEMMA Glue21 == ASSUME NEW a, NEW b, NEW c PROVE << a, b >> \o << c >> = << a, b, c >>
<1>1. << a, b >> \in Seq({a, b, c}) /\ << c >> \in Seq({a, b, c}) /\ << a, b, c >> \in Seq({a, b, c})
  OBVIOUS
<1>2. Puts(<< a, b >>, << c >>, << a, b, c >>)
  BY DEF Puts
<1> QED BY <1>1, <1>2, Glued

LEMMA Glue31 == ASSUME NEW a, NEW b, NEW c, NEW d PROVE << a, b, c >> \o << d >> = << a, b, c, d >>
<1>1. << a, b, c >> \in Seq({a, b, c, d}) /\ << d >> \in Seq({a, b, c, d}) /\ << a, b, c, d >> \in Seq({a, b, c, d})
  OBVIOUS
<1>2. Puts(<< a, b, c >>, << d >>, << a, b, c, d >>)
  BY DEF Puts
<1> QED BY <1>1, <1>2, Glued

LEMMA BaselineBlock == Block(Baseline, 0, 1) /\ FullBlock(Baseline, 0, 1)
<1>1. PICK a, b, c : a = Ask("warmup", 1, -1) /\ b = Clean(1) /\ c = Reduce(1)
  OBVIOUS
<1>2. Baseline = << a, b, c >>
  BY <1>1 DEF Baseline
<1>3. FitsIn(a, 0, 1) /\ FitsIn(b, 0, 1) /\ FitsIn(c, 0, 1) /\ a.mode = "warmup" /\ b.mode = "diagnostic" /\ c.mode = "reduce"
  BY <1>1, AskedByIs, AskFields DEF FitsIn, Warmups, Asked, DiagAsks
<1>4. AskedBy(1) \ AskedBy(0) = {b}
  BY <1>1, AskedByIs
<1>5. PICK t : t = << a, b, c >>
  OBVIOUS
<1>6. /\ IsList(t) /\ DOMAIN t = 1..3 /\ Len(t) = 3 /\ t[1] = a /\ t[2] = b /\ t[3] = c
  <2>1. t \in Seq({a, b, c}) /\ Len(t) = 3 /\ DOMAIN t = 1..3
        /\ t[1] = a /\ t[2] = b /\ t[3] = c
    BY <1>5
  <2> QED BY <2>1 DEF IsList
<1>7. Block(t, 0, 1)
  BY <1>1, <1>3, <1>6 DEF Block
<1>8. FullBlock(t, 0, 1)
  BY <1>4, <1>6 DEF FullBlock, Elems
<1> QED BY <1>2, <1>5, <1>7, <1>8

LEMMA DiagnosticsBlock == Block(Diagnostics, 1, 2) /\ FullBlock(Diagnostics, 1, 2)
<1>1. PICK a, b, c, d, e : a = Ask("warmup", 2, -1) /\ b = Clean(2) /\ c = Ask("warmup", 4, -1) /\ d = Clean(4)
           /\ e = Reduce(2)
  OBVIOUS
<1>2. Diagnostics = << a, b, c, d, e >>
  BY <1>1 DEF Diagnostics
<1>3. /\ FitsIn(a, 1, 2) /\ FitsIn(b, 1, 2) /\ FitsIn(c, 1, 2) /\ FitsIn(d, 1, 2) /\ FitsIn(e, 1, 2)
      /\ a.mode = "warmup" /\ b.mode = "diagnostic" /\ c.mode = "warmup" /\ d.mode = "diagnostic"
      /\ e.mode = "reduce" /\ b # d
  BY <1>1, AskedByIs, AskFields DEF FitsIn, Warmups, Asked, DiagAsks
<1>4. AskedBy(2) \ AskedBy(1) = {b, d}
  BY <1>1, AskedByIs, AskFields
<1>5. PICK t : t = << a, b, c, d, e >>
  OBVIOUS
<1>6. /\ IsList(t) /\ DOMAIN t = 1..5 /\ Len(t) = 5
      /\ t[1] = a /\ t[2] = b /\ t[3] = c /\ t[4] = d /\ t[5] = e
  <2>1. t \in Seq({a, b, c, d, e}) /\ Len(t) = 5 /\ DOMAIN t = 1..5
        /\ t[1] = a /\ t[2] = b /\ t[3] = c /\ t[4] = d /\ t[5] = e
    BY <1>5
  <2> QED BY <2>1 DEF IsList
<1>7. Block(t, 1, 2)
  BY <1>1, <1>3, <1>6 DEF Block
<1>8. FullBlock(t, 1, 2)
  BY <1>4, <1>6 DEF FullBlock, Elems
<1> QED BY <1>2, <1>5, <1>7, <1>8

\* The controls of a width or of both, and the reduction of them.
EndsThere(t, l) ==
  /\ IsList(t) /\ l \in Nat \ {0} /\ DOMAIN t = 1..l /\ Len(t) = l /\ t[l] = Reduce(3)
  /\ \A i \in 1..l : i # l => t[i] \in AskedBy(3) \ AskedBy(2)
  /\ \A i, j \in 1..l : t[i] = t[j] => i = j

LEMMA ControlsEnd == ASSUME NEW t, NEW l, EndsThere(t, l) PROVE Block(t, 2, 3)
<1>1. \A x \in AskedBy(3) \ AskedBy(2) : FitsIn(x, 2, 3) /\ x.mode = "diagnostic"
  BY AskedByIs, AskFields DEF FitsIn, Asked, DiagAsks
<1>2. FitsIn(Reduce(3), 2, 3) /\ Reduce(3).mode = "reduce"
  BY AskFields DEF FitsIn
<1> QED BY <1>1, <1>2 DEF Block, EndsThere

LEMMA ControlsBlock ==
  ASSUME NEW widths, widths \subseteq Widths, widths # {}
  PROVE  Block(ControlsOf(widths), 2, 3) /\ (widths = Widths => FullBlock(ControlsOf(widths), 2, 3))
<1>1. PICK a, b, c, d : a = Ask("diagnostic", 2, 0) /\ b = Ask("diagnostic", 4, 0) /\ c = Ask("diagnostic", 4, 2)
           /\ d = Reduce(3)
  OBVIOUS
<1>2. AskedBy(3) \ AskedBy(2) = {a, b, c} /\ a # b /\ a # c /\ b # c /\ d \notin {a, b, c}
  BY <1>1, AskedByIs, AskFields DEF DiagAsks
<1>3. << a >> \in Seq({a}) /\ << b, c >> \in Seq({b, c})
  OBVIOUS
<1>4. CASE widths = Widths
  <2>1. ControlsOf(widths) = (<< a >> \o << b, c >>) \o << d >>
    BY <1>1, <1>4 DEF ControlsOf, Widths
  <2>2. PICK t : t = << a, b, c, d >>
    OBVIOUS
  <2>3. ControlsOf(widths) = t
    <3>1. << a >> \o << b, c >> = << a, b, c >>
      BY Glue12
    <3>2. << a, b, c >> \o << d >> = << a, b, c, d >>
      BY Glue31, Zenon
    <3> QED BY <2>1, <2>2, <3>1, <3>2, Zenon
  <2>4. t \in Seq({a, b, c, d}) /\ Len(t) = 4 /\ DOMAIN t = 1..4
        /\ t[1] = a /\ t[2] = b /\ t[3] = c /\ t[4] = d
    BY <2>2
  <2>5. EndsThere(t, 4)
    BY <1>1, <1>2, <2>4 DEF IsList, EndsThere
  <2>6. FullBlock(t, 2, 3)
    BY <1>2, <2>4 DEF FullBlock, Elems
  <2> QED BY <2>3, <2>5, <2>6, ControlsEnd
<1>5. CASE widths = {2}
  <2>1. ControlsOf(widths) = (<< a >> \o <<>>) \o << d >>
    BY <1>1, <1>5 DEF ControlsOf
  <2>2. PICK t : t = << a, d >>
    OBVIOUS
  <2>3. ControlsOf(widths) = t
    BY <1>3, <2>1, <2>2, WithEmpty, Glue11
  <2>4. t \in Seq({a, d}) /\ Len(t) = 2 /\ DOMAIN t = 1..2 /\ t[1] = a /\ t[2] = d
    BY <2>2
  <2>5. EndsThere(t, 2)
    BY <1>1, <1>2, <2>4 DEF IsList, EndsThere
  <2>6. widths # Widths
    BY <1>5 DEF Widths
  <2> QED BY <2>3, <2>5, <2>6, ControlsEnd
<1>6. CASE widths = {4}
  <2>1. ControlsOf(widths) = (<<>> \o << b, c >>) \o << d >>
    BY <1>1, <1>6 DEF ControlsOf
  <2>2. PICK t : t = << b, c, d >>
    OBVIOUS
  <2>3. ControlsOf(widths) = t
    BY <1>3, <2>1, <2>2, WithEmpty, Glue21
  <2>4. t \in Seq({b, c, d}) /\ Len(t) = 3 /\ DOMAIN t = 1..3 /\ t[1] = b /\ t[2] = c /\ t[3] = d
    BY <2>2
  <2>5. EndsThere(t, 3)
    BY <1>1, <1>2, <2>4 DEF IsList, EndsThere
  <2>6. widths # Widths
    BY <1>6 DEF Widths
  <2> QED BY <2>3, <2>5, <2>6, ControlsEnd
<1> QED BY <1>4, <1>5, <1>6 DEF Widths

LEMMA MeasurementsBlock ==
  ASSUME NEW widths, NEW n \in 1..3
  PROVE  /\ Block(Measurements(widths), n, 4)
         /\ n = 3 /\ widths = Widths => FullBlock(Measurements(widths), n, 4)
<1>1. PICK t : t = Measurements(widths)
  OBVIOUS
<1>2. IsList(t) /\ \A i \in DOMAIN t : FitsIn(t[i], n, 4) /\ t[i].mode = "measure"
  <2>1. CASE config.state_only
    <3>1. t = <<>> /\ DOMAIN <<>> = {}
      BY <1>1, <2>1 DEF Measurements
    <3> QED BY <3>1, EmptyIsList
  <2>2. CASE ~config.state_only
    <3>1. t = Measures(widths)
      BY <1>1, <2>2 DEF Measurements
    <3>2. ASSUME NEW i \in DOMAIN t PROVE FitsIn(t[i], n, 4) /\ t[i].mode = "measure"
      <4>1. PICK w \in {1} \cup (widths \cap Widths) : \E u : t[i] = Ask("measure", w, u)
        BY <3>1, MeasuresAsk
      <4>2. w \in {1, 2, 4}
        BY <4>1 DEF Widths
      <4>3. Asked(t[i])
        BY <4>1, <4>2 DEF Asked
      <4> QED BY <2>2, <4>1, <4>3, AskFields DEF FitsIn
    <3> QED BY <3>1, <3>2, MeasuresAsk
  <2> QED BY <2>1, <2>2
<1>3. Block(t, n, 4)
  BY <1>2 DEF Block
<1>4. ASSUME n = 3, widths = Widths PROVE FullBlock(t, n, 4)
  BY <1>1, <1>4, AskedByIs DEF FullBlock
<1> QED BY <1>1, <1>3, <1>4

LEMMA EmptyBlock == ASSUME NEW n \in 1..3 PROVE Block(<<>>, n, 4)
<1>1. IsList(<<>>) /\ DOMAIN <<>> = {}
  BY EmptyIsList
<1> QED BY <1>1 DEF Block

LEMMA AfterBlock ==
  ASSUME NEW n \in 1..3, NEW agreed, n = 2 => agreed \subseteq Widths
  PROVE  \E m \in 2..4 :
           /\ Block(After(n, agreed), n, m)
           /\ (n = 1 /\ agreed = {1}) \/ (n # 1 /\ agreed = Widths) =>
                FullBlock(After(n, agreed), n, m)
           /\ m = 3 => n = 2
<1>1. CASE n = 1
  <2>1. CASE agreed = {}
    <3>1. After(n, agreed) = <<>>
      BY <1>1, <2>1 DEF After
    <3> QED BY <1>1, <2>1, <3>1, EmptyBlock
  <2>2. CASE agreed # {}
    <3>1. After(n, agreed) = Diagnostics
      BY <1>1, <2>2 DEF After
    <3> QED BY <1>1, <3>1, DiagnosticsBlock
  <2> QED BY <2>1, <2>2
<1>2. CASE n = 2
  <2>1. PICK c : c = ControlsOf(agreed)
    OBVIOUS
  <2>2. PICK e : e = IF agreed = {} THEN Measurements({}) ELSE <<>>
    OBVIOUS
  <2>3. After(n, agreed) = c \o e
    <3> DEFINE E == IF agreed = {} THEN Measurements({}) ELSE <<>>
    <3>1. After(n, agreed) = ControlsOf(agreed) \o E
      <4> HIDE DEF E
      <4> QED BY <1>2 DEF After, E
    <3>2. e = E
      BY <2>2
    <3> HIDE DEF E
    <3> QED BY <2>1, <3>1, <3>2
  <2>4. CASE agreed = {}
    <3>1. c = <<>>
      <4>1. c = (<<>> \o <<>>) \o <<>>
        BY <2>1, <2>4 DEF ControlsOf
      <4>2. <<>> \in Seq({})
        OBVIOUS
      <4> QED BY <4>1, <4>2, WithEmpty
    <3>2. e = Measurements({})
      BY <2>2, <2>4
    <3>3. Block(e, 2, 4)
      BY <3>2, MeasurementsBlock
    <3>4. PICK S : e \in Seq(S)
      BY <3>3 DEF Block, IsList
    <3>5. c \o e = e
      BY <3>1, <3>4, WithEmpty
    <3>6. agreed # Widths
      BY <2>4 DEF Widths
    <3> QED BY <1>2, <2>3, <3>3, <3>5, <3>6
  <2>5. CASE agreed # {}
    <3>1. e = <<>>
      BY <2>2, <2>5
    <3>2. Block(c, 2, 3) /\ (agreed = Widths => FullBlock(c, 2, 3))
      BY <1>2, <2>1, <2>5, ControlsBlock
    <3>3. PICK S : c \in Seq(S)
      BY <3>2 DEF Block, IsList
    <3>4. c \o e = c
      BY <3>1, <3>3, WithEmpty
    <3> QED BY <1>2, <2>3, <3>2, <3>4
  <2> QED BY <2>4, <2>5
<1>3. CASE n = 3
  <2>1. After(n, agreed) = Measurements(agreed)
    BY <1>3 DEF After
  <2> QED BY <1>3, <2>1, MeasurementsBlock
<1> QED BY <1>1, <1>2, <1>3

\* A reduction is replaced by what follows from it.
Spliced(q, p, t) ==
  q = [i \in 1..(Len(p) - 1 + Len(t)) |-> IF i < Len(p) THEN p[i] ELSE t[i - (Len(p) - 1)]]

LEMMA SplicedIs ==
  ASSUME NEW n \in 1..3, NEW m \in 2..4, NEW p, Plan(p, n), NEW t, Block(t, n, m),
         NEW q, Spliced(q, p, t)
  PROVE  /\ Plan(q, m)
         /\ FullPlan(p, n) /\ FullBlock(t, n, m) => FullPlan(q, m)
<1>1. PICK k \in Nat : Len(p) = k + 1 /\ DOMAIN p = 1..(k + 1) /\ p[k + 1] = Reduce(n)
  <2>1. PICK a \in Nat : Len(p) = a /\ DOMAIN p = 1..a /\ a > 0 /\ p[a] = Reduce(n)
    BY ListIs DEF Plan, Block
  <2>2. PICK b \in Nat : a = b + 1
    BY <2>1
  <2> QED BY <2>1, <2>2
<1>2. PICK l \in Nat : Len(t) = l /\ DOMAIN t = 1..l
  BY ListIs DEF Block
<1>3. q = [i \in 1..(k + l) |-> IF i < k + 1 THEN p[i] ELSE t[i - k]]
  <2>1. Len(p) - 1 + Len(t) = k + l /\ Len(p) - 1 = k
    BY <1>1, <1>2
  <2> QED BY <1>1, <2>1 DEF Spliced
<1>4. /\ IsList(q) /\ Len(q) = k + l /\ DOMAIN q = 1..(k + l)
      /\ \A i \in 1..k : q[i] = p[i] /\ i \in DOMAIN p
      /\ \A j \in 1..l : q[k + j] = t[j] /\ k + j \in 1..(k + l)
  <2>1. q \in Seq({q[i] : i \in 1..(k + l)}) /\ Len(q) = k + l /\ DOMAIN q = 1..(k + l)
    <3>1. PICK S : S = {q[i] : i \in 1..(k + l)}
      OBVIOUS
    <3>2. q = [i \in 1..(k + l) |-> q[i]]
      BY <1>3
    <3>3. \A i \in 1..(k + l) : q[i] \in S
      BY <3>1
    <3>4. q \in [1..(k + l) -> S] /\ k + l \in Nat
      BY <3>2, <3>3
    <3>5. q \in Seq(S) /\ Len(q) = k + l /\ DOMAIN q = 1..(k + l)
      BY <3>4
    <3> QED BY <3>1, <3>5
  <2>2. ASSUME NEW i \in 1..k PROVE q[i] = p[i] /\ i \in DOMAIN p
    BY <1>1, <1>3
  <2>3. ASSUME NEW j \in 1..l PROVE q[k + j] = t[j] /\ k + j \in 1..(k + l)
    <3>1. k + j \in 1..(k + l) /\ ~(k + j < k + 1) /\ (k + j) - k = j
      OBVIOUS
    <3> QED BY <1>3, <3>1
  <2> QED BY <2>1, <2>2, <2>3 DEF IsList
<1>5. \A i \in 1..(k + l) : i \in 1..k \/ \E j \in 1..l : i = k + j
  <2>1. ASSUME NEW i \in 1..(k + l), i \notin 1..k PROVE i - k \in 1..l /\ i = k + (i - k)
    BY <2>1
  <2> QED BY <2>1
<1>6. AskedBy(n) \subseteq AskedBy(m) /\ n < m /\ AskedBy(0) = {}
  BY AskedByGrows, AskedByIs DEF Block
<1>7. \A i \in 1..k : FitsIn(q[i], 0, m) /\ q[i].mode # "reduce" /\ q[i].mode # "measure"
                      /\ (q[i].mode = "diagnostic" => q[i] \in AskedBy(n))
  <2>1. \A i \in 1..k : p[i].mode # "reduce" /\ FitsIn(p[i], 0, n)
    BY <1>1 DEF Plan, Block
  <2>2. \A i \in 1..k : p[i].mode # "measure"
    BY <2>1 DEF FitsIn
  <2> QED BY <1>4, <1>6, <2>1, <2>2 DEF FitsIn
<1>8. \A j \in 1..l : /\ FitsIn(q[k + j], 0, m) /\ (q[k + j].mode = "reduce" => m < 4 /\ j = l)
                      /\ (q[k + j].mode = "diagnostic" => q[k + j] \notin AskedBy(n))
  <2>1. \A j \in 1..l : FitsIn(t[j], n, m) /\ (t[j].mode = "reduce" => m < 4 /\ j = l)
    BY <1>2 DEF Block
  <2>2. \A x : FitsIn(x, n, m) => FitsIn(x, 0, m) /\ (x.mode = "diagnostic" => x \notin AskedBy(n))
    BY <1>6 DEF FitsIn
  <2> QED BY <1>4, <2>1, <2>2, Zenon
<1>9. ASSUME NEW i \in DOMAIN q, NEW j \in DOMAIN q, q[i].mode = "diagnostic", q[i] = q[j]
      PROVE  i = j
  <2>1. CASE i \in 1..k /\ j \in 1..k
    BY <1>4, <1>9, <2>1 DEF Plan, Block
  <2>2. \A x \in 1..k, y \in 1..l : ~(q[x].mode = "diagnostic" /\ q[x] = q[k + y])
    BY <1>7, <1>8
  <2>3. CASE i \in 1..k /\ j \notin 1..k
    <3>1. PICK y \in 1..l : j = k + y
      BY <1>4, <1>5, <2>3
    <3> QED BY <1>9, <2>2, <2>3, <3>1
  <2>5. CASE i \notin 1..k /\ j \in 1..k
    <3>1. PICK y \in 1..l : i = k + y
      BY <1>4, <1>5, <2>5
    <3> QED BY <1>9, <2>2, <2>5, <3>1
  <2>4. CASE i \notin 1..k /\ j \notin 1..k
    <3>0. PICK x \in 1..l : i = k + x
      BY <1>4, <1>5, <2>4
    <3>1. PICK y \in 1..l : i = k + x /\ j = k + y
      BY <1>4, <1>5, <2>4, <3>0
    <3>2. t[x].mode = "diagnostic" /\ t[x] = t[y]
      BY <1>4, <1>9, <3>1
    <3>3. x = y
      BY <1>2, <3>2 DEF Block
    <3> QED BY <3>1, <3>3
  <2> QED BY <2>1, <2>3, <2>4, <2>5
<1>10. m < 4 => Len(q) > 0 /\ q[Len(q)] = Reduce(m)
  <2>1. ASSUME m < 4 PROVE l > 0 /\ t[l] = Reduce(m)
    BY <1>2, <2>1 DEF Block
  <2> QED BY <1>4, <2>1
<1>11. ASSUME NEW i \in DOMAIN q
       PROVE  FitsIn(q[i], 0, m) /\ (q[i].mode = "reduce" => m < 4 /\ i = Len(q))
  <2>1. CASE i \in 1..k
    BY <1>7, <2>1
  <2>2. CASE i \notin 1..k
    <3>1. PICK j \in 1..l : i = k + j
      BY <1>4, <1>5, <1>11, <2>2
    <3> QED BY <1>4, <1>8, <3>1
  <2> QED BY <2>1, <2>2
<1>12. Plan(q, m)
  <2>1. m \in 1..4 /\ 0 < m
    OBVIOUS
  <2> QED BY <1>4, <1>9, <1>10, <1>11, <2>1 DEF Plan, Block
<1>13. ASSUME FullPlan(p, n), FullBlock(t, n, m) PROVE FullPlan(q, m)
  <2>1. ASSUME NEW x \in AskedBy(m) PROVE x \in Elems(q)
    <3>1. CASE x \in AskedBy(n)
      <4>1. PICK i \in 1..(k + 1) : p[i] = x
        BY <1>1, <1>13, <3>1 DEF FullPlan, Elems
      <4>2. x \in DiagAsks
        BY <2>1, AskedByGrows, <1>6
      <4>3. x # Reduce(n)
        BY <4>2, AskFields DEF DiagAsks
      <4>4. i \in 1..k
        BY <1>1, <4>1, <4>3
      <4> QED BY <1>4, <4>1, <4>4 DEF Elems
    <3>2. CASE x \notin AskedBy(n)
      <4>1. PICK j \in 1..l : t[j] = x
        BY <1>2, <1>13, <2>1, <3>2 DEF FullBlock, Elems
      <4> QED BY <1>4, <4>1 DEF Elems
    <3> QED BY <3>1, <3>2
  <2>2. ASSUME m = 4 PROVE MeasuredLast(q)
    <3>1. t = Measurements(Widths)
      BY <1>13, <2>2 DEF FullBlock
    <3>2. Len(q) - Len(Measurements(Widths)) = k
      BY <1>2, <1>4, <3>1
    <3>3. ASSUME NEW i \in DOMAIN q
          PROVE  IF i <= k THEN q[i].mode # "measure" ELSE q[i] = Measurements(Widths)[i - k]
      <4>1. CASE i \in 1..k
        BY <1>7, <4>1
      <4>2. CASE i \notin 1..k
        <5>1. PICK j \in 1..l : i = k + j
          BY <1>4, <1>5, <4>2
        <5>2. ~(i <= k) /\ i - k = j
          BY <5>1
        <5> QED BY <1>4, <3>1, <5>1, <5>2
      <4> QED BY <4>1, <4>2
    <3> QED BY <3>2, <3>3 DEF MeasuredLast
  <2> QED BY <2>1, <2>2 DEF FullPlan
<1> QED BY <1>12, <1>13

-----------------------------------------------------------------------------
MadeOf(p, rs, ts) ==
  /\ Len(rs) \in Nat /\ DOMAIN rs = 1..Len(rs) /\ Len(ts) \in Nat /\ DOMAIN ts = 1..Len(ts)
  /\ DOMAIN p = 1..(Len(rs) + Len(ts)) /\ Len(p) = Len(rs) + Len(ts)
  /\ \A i \in DOMAIN rs : i \in DOMAIN p /\ p[i] = rs[i].ask
  /\ \A j \in DOMAIN ts : Len(rs) + j \in DOMAIN p /\ p[Len(rs) + j] = ts[j]

LEMMA MadeIs ==
  ASSUME NEW rs, IsList(rs), NEW ts, IsList(ts)
  PROVE  MadeOf(Made(rs, ts), rs, ts)
<1>1. PICK k \in Nat : Len(rs) = k /\ DOMAIN rs = 1..k
  BY ListIs, SMTT(30)
<1>2. PICK l \in Nat : Len(ts) = l /\ DOMAIN ts = 1..l
  BY ListIs, SMTT(30)
<1>3. PICK p : p = Made(rs, ts)
  OBVIOUS
<1>4. p = [i \in 1..(k + l) |-> IF i <= k THEN rs[i].ask ELSE ts[i - k]]
  BY <1>1, <1>2, <1>3 DEF Made
<1>5. DOMAIN p = 1..(k + l)
  BY <1>4
<1>6. Len(p) = k + l
  BY <1>5
<1>7. ASSUME NEW i \in 1..k PROVE i \in 1..(k + l) /\ p[i] = rs[i].ask
  BY <1>4
<1>8. ASSUME NEW j \in 1..l PROVE k + j \in 1..(k + l) /\ p[k + j] = ts[j]
  <2>1. k + j \in 1..(k + l) /\ ~(k + j <= k) /\ (k + j) - k = j
    OBVIOUS
  <2> QED BY <1>4, <2>1
<1>9. MadeOf(p, rs, ts)
  BY <1>1, <1>2, <1>5, <1>6, <1>7, <1>8 DEF MadeOf
<1> QED BY <1>3, <1>9

\* A request that is reported is the next one of the plan.
LEMMA MadeMoves ==
  ASSUME NEW rs, IsList(rs), NEW ts, IsList(ts), ts # <<>>, NEW row, row.ask = ts[1]
  PROVE  Made(Append(rs, row), Tail(ts)) = Made(rs, ts)
<1>1. PICK k \in Nat : Len(rs) = k /\ DOMAIN rs = 1..k
  BY ListIs, SMTT(30)
<1>2. PICK l \in Nat : Len(ts) = l + 1 /\ DOMAIN ts = 1..(l + 1)
  <2>1. PICK a \in Nat : Len(ts) = a /\ DOMAIN ts = 1..a /\ a > 0
    BY ListIs, TailOf
  <2>2. PICK b \in Nat : a = b + 1
    BY <2>1
  <2> QED BY <2>1, <2>2
<1>3. PICK u : u = Append(rs, row)
  OBVIOUS
<1>4. Len(u) = k + 1 /\ (\A i \in 1..k : u[i] = rs[i]) /\ u[k + 1] = row
  <2>1. IsList(u) /\ DOMAIN u = 1..(k + 1)
    BY <1>1, <1>3, AppendedTo
  <2>2. Len(u) = k + 1
    BY <2>1
  <2> QED BY <1>1, <1>3, <2>2, AppendedTo
<1>5. PICK v : v = Tail(ts)
  OBVIOUS
<1>6. Len(v) = l /\ \A j \in 1..l : v[j] = ts[j + 1]
  <2>1. IsList(v) /\ DOMAIN v = 1..((l + 1) - 1) /\ \A j \in DOMAIN v : v[j] = ts[j + 1]
    BY <1>2, <1>5, TailOf
  <2>2. (l + 1) - 1 = l
    OBVIOUS
  <2>3. Len(v) = l
    BY <2>1, <2>2
  <2> QED BY <2>1, <2>2, <2>3
<1>7. Made(u, v) = [i \in 1..((k + 1) + l) |-> IF i <= k + 1 THEN u[i].ask ELSE v[i - (k + 1)]]
  BY <1>4, <1>6 DEF Made
<1>8. Made(rs, ts) = [i \in 1..(k + (l + 1)) |-> IF i <= k THEN rs[i].ask ELSE ts[i - k]]
  BY <1>1, <1>2 DEF Made
<1>9. ASSUME NEW i \in 1..(k + (l + 1))
      PROVE  (IF i <= k + 1 THEN u[i].ask ELSE v[i - (k + 1)])
               = (IF i <= k THEN rs[i].ask ELSE ts[i - k])
  <2>1. CASE i <= k
    <3>1. i \in 1..k /\ i <= k + 1
      BY <2>1
    <3> QED BY <1>4, <2>1, <3>1
  <2>2. CASE i = k + 1
    <3>1. ~(i <= k) /\ i - k = 1 /\ i <= k + 1
      BY <2>2
    <3> QED BY <1>4, <2>2, <3>1
  <2>3. CASE i > k + 1
    <3>1. PICK j \in 1..l : i = (k + 1) + j
      <4>1. i - (k + 1) \in 1..l /\ i = (k + 1) + (i - (k + 1))
        BY <2>3
      <4> QED BY <4>1
    <3>2. ~(i <= k + 1) /\ ~(i <= k) /\ i - (k + 1) = j /\ i - k = j + 1
      BY <3>1
    <3> QED BY <1>6, <3>2
  <2> QED BY <2>1, <2>2, <2>3
<1>10. (k + 1) + l = k + (l + 1)
  OBVIOUS
<1>11. Made(u, v) = Made(rs, ts)
  BY <1>7, <1>8, <1>9, <1>10
<1> QED BY <1>3, <1>5, <1>11

\* A reduction is the last of a plan.
LEMMA MadeSplices ==
  ASSUME NEW rs, IsList(rs), NEW ts, IsList(ts), ts # <<>>, ts[1].mode = "reduce",
         NEW n \in 1..4, Plan(Made(rs, ts), n), NEW t, IsList(t)
  PROVE  /\ n \in 1..3 /\ ts[1] = Reduce(n) /\ Len(Made(rs, ts)) = Len(rs) + 1
         /\ Spliced(Made(rs, t), Made(rs, ts), t)
<1>1. PICK k \in Nat : Len(rs) = k /\ DOMAIN rs = 1..k
  BY ListIs, SMTT(30)
<1>2. 1 \in DOMAIN ts
  BY TailOf
<1>3. PICK p : p = Made(rs, ts)
  OBVIOUS
<1>a. MadeOf(p, rs, ts)
  BY <1>3, MadeIs, Zenon
<1>4. k + 1 \in DOMAIN p /\ p[k + 1] = ts[1] /\ Len(p) = k + Len(ts) /\ DOMAIN p = 1..(k + Len(ts))
  <2>1. /\ DOMAIN p = 1..(k + Len(ts)) /\ Len(p) = k + Len(ts)
        /\ \A j \in DOMAIN ts : k + j \in DOMAIN p /\ p[k + j] = ts[j]
    BY <1>1, <1>a DEF MadeOf
  <2> QED BY <1>2, <2>1
<1>5. n < 4 /\ k + 1 = Len(p)
  BY <1>3, <1>4 DEF Plan, Block
<1>6. p[Len(p)] = Reduce(n)
  BY <1>3, <1>5 DEF Plan, Block
<1>7. n \in 1..3
  BY <1>5
<1>8. PICK l \in Nat : Len(t) = l
  BY ListIs, SMTT(30)
<1>9. Made(rs, t) = [i \in 1..(k + l) |-> IF i <= k THEN rs[i].ask ELSE t[i - k]]
  BY <1>1, <1>8 DEF Made
<1>10. ASSUME NEW i \in 1..(k + l)
       PROVE  (IF i <= k THEN rs[i].ask ELSE t[i - k])
                = (IF i < k + 1 THEN p[i] ELSE t[i - ((k + 1) - 1)])
  <2>1. CASE i <= k
    <3>1. i \in DOMAIN rs /\ i < k + 1
      BY <1>1, <2>1
    <3>2. p[i] = rs[i].ask
      BY <1>a, <3>1 DEF MadeOf
    <3> QED BY <2>1, <3>1, <3>2
  <2>2. CASE ~(i <= k)
    <3>1. ~(i < k + 1) /\ (k + 1) - 1 = k
      BY <2>2
    <3> QED BY <2>2, <3>1
  <2> QED BY <2>1, <2>2
<1>11. (k + 1) - 1 + l = k + l
  OBVIOUS
<1>12. Made(rs, t) = [i \in 1..((k + 1) - 1 + l) |-> IF i < k + 1 THEN p[i] ELSE t[i - ((k + 1) - 1)]]
  BY <1>9, <1>10, <1>11
<1>13. Spliced(Made(rs, t), p, t)
  BY <1>5, <1>8, <1>12 DEF Spliced
<1> QED BY <1>1, <1>3, <1>4, <1>5, <1>6, <1>7, <1>13

LEMMA PlanStays ==
  ASSUME UNCHANGED config, NEW r, NEW n, NEW p, p = PlanOf(r)'
  PROVE  /\ Plan(p, n) => Plan(PlanOf(r), n)'
         /\ FullPlan(p, n) => FullPlan(PlanOf(r), n)'
<1>1. Plan(p, n) => Plan(PlanOf(r), n)'
  BY DEF Plan, Block, FitsIn
<1>2. MeasuredLast(p) => MeasuredLast(PlanOf(r))'
  BY DEF MeasuredLast, Measurements
<1>3. FullPlan(p, n) => FullPlan(PlanOf(r), n)'
  BY <1>2 DEF FullPlan
<1> QED BY <1>1, <1>3

\* What a faultless report says of a width and of its controls.
InReport(r, x) == \E i \in DOMAIN rows[r] : rows[r][i].ask = x /\ GoodRow(rows[r][i])

LEMMA RowFound ==
  ASSUME NEW r \in Ranks, IsList(rows[r]), IsList(todo[r]), RowsInv, ~hit,
         \A j \in DOMAIN todo[r] : todo[r][j].mode = "reduce",
         NEW x \in DiagAsks, x \in Elems(PlanOf(r))
  PROVE  InReport(r, x)
<1>1. PICK p : p = PlanOf(r)
  OBVIOUS
<1>2. MadeOf(p, rows[r], todo[r])
  BY <1>1, MadeIs, Zenon DEF PlanOf
<1>3. PICK k \in Nat : Len(rows[r]) = k /\ DOMAIN rows[r] = 1..k
  BY ListIs, SMTT(30)
<1>4. PICK l \in Nat : Len(todo[r]) = l /\ DOMAIN todo[r] = 1..l
  BY ListIs, SMTT(30)
<1>5. /\ DOMAIN p = 1..(k + l) /\ \A i \in 1..k : p[i] = rows[r][i].ask
      /\ \A j \in 1..l : p[k + j] = todo[r][j]
  BY <1>2, <1>3, <1>4 DEF MadeOf
<1>6. PICK i \in 1..(k + l) : p[i] = x
  BY <1>1, <1>5 DEF Elems
<1>7. x.mode = "diagnostic"
  BY AskFields DEF DiagAsks
<1>8. i \in 1..k
  <2>1. SUFFICES ASSUME i \notin 1..k PROVE FALSE
    OBVIOUS
  <2>2. i - k \in 1..l /\ k + (i - k) = i
    BY <2>1
  <2>3. p[i] = todo[r][i - k]
    BY <1>5, <2>2
  <2> QED BY <1>4, <1>6, <1>7, <2>2, <2>3
<1>9. rows[r][i].ask = x /\ i \in DOMAIN rows[r]
  BY <1>3, <1>5, <1>6, <1>8
<1>10. GoodRow(rows[r][i])
  BY <1>7, <1>9 DEF RowsInv, Judged
<1> QED BY <1>9, <1>10 DEF InReport

LEMMA CleanPasses ==
  ASSUME NEW r \in Ranks, NEW w \in {1, 2, 4}, InReport(r, Clean(w))
  PROVE  Diagnosed(r, Clean(w)) /\ (w = 1 => Baselined(r))
<1>1. PICK i \in DOMAIN rows[r] : rows[r][i].ask = Clean(w) /\ GoodRow(rows[r][i])
  BY DEF InReport
<1>2. Reads(rows[r][i]) /\ rows[r][i].broken = <<>> /\ w \in rows[r][i].widths /\ rows[r][i].exact
  BY <1>1, AskFields DEF GoodRow, Reads, History
<1> QED BY <1>1, <1>2, AskFields DEF Diagnosed, Baselined

LEMMA WidthFound ==
  ASSUME NEW r \in Ranks, NEW w \in Widths, InReport(r, Clean(1)), InReport(r, Clean(w))
  PROVE  WidthPasses(r, w)
<1>1. w \in {1, 2, 4}
  BY DEF Widths
<1> QED BY <1>1, CleanPasses DEF WidthPasses

LEMMA ControlFound ==
  ASSUME NEW r \in Ranks, NEW w \in Widths, NEW c \in Controls(w), WidthPasses(r, w), InReport(r, c)
  PROVE  ControlPasses(r, c)
<1>1. c.width = w /\ c.mode = "diagnostic" /\ c.n \in {0, 2}
  BY DEF Controls, Widths, Ask
<1>2. PICK i \in DOMAIN rows[r] : rows[r][i].ask = c /\ GoodRow(rows[r][i])
  BY DEF InReport
<1>3. PICK row : row = rows[r][i]
  OBVIOUS
<1>4. Reads(row) /\ row.broken = << Rejected(c) >> /\ row.seen = Window
  BY <1>1, <1>2, <1>3 DEF GoodRow, Reads
<1>5. PICK b : b = Rejected(c)
  OBVIOUS
<1>6. row.broken[1] = b /\ Len(row.broken) = 1
  BY <1>4, <1>5
<1>7. b.at = Active /\ b.bad = {c.n + 1} /\ b.width = w /\ b.sampled = c.n + 1
  BY <1>1, <1>5 DEF Rejected
<1>8. PICK a \in Nat : a = Active /\ a = Prompt + Activation - 1
  <2>1. Prompt + Activation - 1 \in Nat
    BY BlockAssumption
  <2> QED BY <2>1 DEF Active
<1>9. PICK z \in Nat : z = Prompt + Oracle - 2 /\ a + 6 <= z
  <2>1. Prompt + Oracle - 2 \in Nat /\ Prompt + Activation - 1 + 6 <= Prompt + Oracle - 2
    BY BlockAssumption
  <2> QED BY <1>8, <2>1
<1>10. Window = a..z
  BY <1>8, <1>9 DEF Window
<1>11. b.at .. (b.at + c.n) \subseteq row.seen
  BY <1>1, <1>4, <1>7, <1>8, <1>9, <1>10
<1>12. Cardinality({q \in row.seen : q > b.at + c.n + 1}) >= 3
  <2>1. PICK d \in Nat : d = a + c.n + 2 /\ d <= a + 4
    BY <1>1
  <2>2. {q \in row.seen : q > b.at + c.n + 1} = d..z
    <3>1. b.at + c.n + 1 = d - 1
      BY <1>1, <1>7, <1>8, <2>1
    <3>2. \A q \in Int : q > d - 1 <=> q >= d
      BY <2>1
    <3>3. \A q \in a..z : q > b.at + c.n + 1 <=> q >= d
      BY <3>1, <3>2
    <3>4. a <= d
      BY <1>1, <2>1
    <3> QED BY <1>4, <1>10, <3>3, <3>4
  <2>3. d \in Int /\ z \in Int /\ ~(d > z)
    BY <1>9, <2>1
  <2>4. Cardinality(d..z) = z - d + 1
    BY <2>3, FS_Interval
  <2>5. z - d + 1 >= 3
    BY <1>9, <2>1
  <2> QED BY <2>2, <2>4, <2>5
<1>13. row.ask = c /\ WidthPasses(r, c.width)
  BY <1>1, <1>2, <1>3
<1>14. /\ row.broken[1].bad = {c.n + 1} /\ row.broken[1].width = c.width
       /\ row.broken[1].sampled = c.n + 1
       /\ row.broken[1].at .. (row.broken[1].at + c.n) \subseteq row.seen
       /\ Cardinality({q \in row.seen : q > row.broken[1].at + c.n + 1}) >= 3
  BY <1>1, <1>6, <1>7, <1>11, <1>12
<1> QED BY <1>3, <1>4, <1>6, <1>13, <1>14 DEF ControlPasses

LEMMA ControlsIs ==
  /\ \A w \in Widths : Controls(w) \subseteq DiagAsks
  /\ \A x \in DiagAsks : (\E w \in {1, 2, 4} : x = Clean(w)) \/ \E w \in Widths : x \in Controls(w)
BY DEF Controls, Widths, DiagAsks, Ask

\* What a report adds.
RowOf(row, off) ==
  /\ row.ask = gen.ask /\ row.exact = AllO(SubSeq(gen.stream, 1, Cap(gen.ask)))
  /\ row.failed = gen.failed /\ row.full = gen.full /\ row.seen = gen.seen
  /\ row.twice = gen.twice /\ row.widths = gen.widths /\ row.broken = gen.broken
  /\ row.off = off

Reporting(r, row, off) ==
  /\ Inside(r) /\ Answered /\ RowOf(row, off) /\ off \in BOOLEAN
  /\ rows' = [rows EXCEPT ![r] = Append(rows[r], row)]
  /\ todo' = [todo EXCEPT ![r] = Tail(todo[r])]
  /\ pc' = [pc EXCEPT ![r] = "ready"]
  /\ status' = [status EXCEPT ![r] = "RUNNING"]
  /\ hit' = (hit \/ (off /\ gen.ask.mode # "warmup"))
  /\ UNCHANGED <<config, gen, eligible, verdict>>

LEMMA ReportIs ==
  ASSUME NEW r \in Ranks, Report(r) PROVE \E row, off : Reporting(r, row, off)
<1>1. PICK off \in BOOLEAN :
        /\ hit' = (hit \/ (off /\ gen.ask.mode # "warmup"))
        /\ rows' = [rows EXCEPT ![r] = Append(rows[r],
            [ask |-> gen.ask, exact |-> AllO(SubSeq(gen.stream, 1, Cap(gen.ask))),
             failed |-> gen.failed, full |-> gen.full, seen |-> gen.seen,
             twice |-> gen.twice, widths |-> gen.widths,
             broken |-> gen.broken, off |-> off])]
  BY DEF Report
<1>2. PICK row : row = [ask |-> gen.ask, exact |-> AllO(SubSeq(gen.stream, 1, Cap(gen.ask))),
             failed |-> gen.failed, full |-> gen.full, seen |-> gen.seen,
             twice |-> gen.twice, widths |-> gen.widths,
             broken |-> gen.broken, off |-> off]
  OBVIOUS
<1>3. RowOf(row, off)
  BY <1>2 DEF RowOf
<1>4. rows' = [rows EXCEPT ![r] = Append(rows[r], row)]
  BY <1>1, <1>2
<1>5. /\ Inside(r) /\ Answered
      /\ todo' = [todo EXCEPT ![r] = Tail(todo[r])]
      /\ pc' = [pc EXCEPT ![r] = "ready"]
      /\ status' = [status EXCEPT ![r] = "RUNNING"]
      /\ UNCHANGED <<config, gen, eligible, verdict>>
  BY DEF Report, Inside
<1>6. hit' = (hit \/ (off /\ gen.ask.mode # "warmup"))
  BY <1>1
<1> QED BY <1>3, <1>4, <1>5, <1>6, Zenon DEF Reporting

\* The rows and the rest of what is asked for, after a report.
RowAdded(r, row) ==
  /\ \A s \in Ranks : s # r => rows'[s] = rows[s] /\ todo'[s] = todo[s] /\ pc'[s] = pc[s]
                               /\ status'[s] = status[s]
  /\ pc'[r] = "ready" /\ status'[r] = "RUNNING" /\ todo'[r] = Tail(todo[r])
  /\ rows'[r] = Append(rows[r], row)
  /\ DOMAIN rows[r] = 1..Len(rows[r]) /\ Len(rows[r]) \in Nat
  /\ DOMAIN rows'[r] = 1..(Len(rows[r]) + 1)
  /\ \A i \in DOMAIN rows[r] : rows'[r][i] = rows[r][i]
  /\ rows'[r][Len(rows[r]) + 1] = row
  /\ status' = [s \in Ranks |-> status'[s]]

LEMMA RowAddedBy ==
  ASSUME BInv, GateInv, status = [s \in Ranks |-> status[s]], NEW r \in Ranks, NEW row, NEW off,
         Reporting(r, row, off)
  PROVE  RowAdded(r, row)
<1>1. /\ IsList(rows[r]) /\ rows = [s \in Ranks |-> rows[s]] /\ todo = [s \in Ranks |-> todo[s]]
      /\ pc = [s \in Ranks |-> pc[s]]
  BY DEF GateInv, BInv, Shape
<1>2. /\ \A s \in Ranks : s # r => rows'[s] = rows[s] /\ todo'[s] = todo[s] /\ pc'[s] = pc[s]
                                   /\ status'[s] = status[s]
      /\ pc'[r] = "ready" /\ status'[r] = "RUNNING" /\ todo'[r] = Tail(todo[r])
      /\ rows'[r] = Append(rows[r], row)
      /\ status' = [s \in Ranks |-> status'[s]]
  BY <1>1 DEF Reporting
<1>3. /\ DOMAIN rows[r] = 1..Len(rows[r]) /\ Len(rows[r]) \in Nat
      /\ DOMAIN rows'[r] = 1..(Len(rows[r]) + 1)
      /\ \A i \in DOMAIN rows[r] : rows'[r][i] = rows[r][i]
      /\ rows'[r][Len(rows[r]) + 1] = row
  BY <1>1, <1>2, AppendedTo
<1> QED BY <1>2, <1>3, Zenon DEF RowAdded

Sampling(out) ==
  /\ out = Choice \/ \E i \in DOMAIN Choice, t \in {"c", "x"} : out = [Choice EXCEPT ![i] = t]
  /\ \A i \in DOMAIN out : out[i] # Choice[i] => Choice[i] = "o"
  /\ gen' = Proposed(Observed(out))
  /\ hit' = (hit \/ (out # Choice /\ gen.ask.mode # "warmup"))

LEMMA PacketIs == ASSUME Packet PROVE \E out : Sampling(out)
BY DEF Packet, Sampling

\* No step but an agreement changes a plan.
LEMMA SamePlan ==
  ASSUME BInv, GateInv, VerdictInv, [Next]_vars, ~Agree
  PROVE  /\ UNCHANGED <<config, eligible>> /\ (hit => hit')
         /\ \A r \in Ranks : PlanOf(r)' = PlanOf(r)
<1>1. CASE UNCHANGED <<config, rows, todo, eligible>> /\ (hit => hit')
  BY <1>1 DEF PlanOf
<1>2. ASSUME NEW r \in Ranks, Report(r)
      PROVE  /\ UNCHANGED <<config, eligible>> /\ (hit => hit')
             /\ \A s \in Ranks : PlanOf(s)' = PlanOf(s)
  <2>1. PICK row, off : Reporting(r, row, off)
    BY <1>2, ReportIs
  <2>2. RowAdded(r, row)
    BY <2>1, RowAddedBy DEF VerdictInv
  <2>3. UNCHANGED <<config, eligible>> /\ (hit => hit')
    BY <2>1 DEF Reporting
  <2>4. todo[r] # <<>> /\ row.ask = todo[r][1]
    BY <2>1 DEF VerdictInv, InsideInv, Reporting, RowOf
  <2>5. IsList(rows[r]) /\ IsList(todo[r])
    BY DEF GateInv
  <2>6. Made(Append(rows[r], row), Tail(todo[r])) = Made(rows[r], todo[r])
    BY <2>4, <2>5, MadeMoves
  <2>7. PlanOf(r)' = PlanOf(r)
    BY <2>2, <2>6, Zenon DEF PlanOf, RowAdded
  <2>8. ASSUME NEW s \in Ranks, s # r PROVE PlanOf(s)' = PlanOf(s)
    BY <2>2, <2>8 DEF PlanOf, RowAdded
  <2> QED BY <2>3, <2>7, <2>8
<1>3. CASE Request
  BY <1>1, <1>3 DEF Request
<1>4. CASE Packet
  <2>1. UNCHANGED <<config, rows, todo, eligible>>
    BY <1>4 DEF Packet
  <2>2. hit => hit'
    BY <1>4, PacketIs DEF Sampling
  <2> QED BY <1>1, <2>1, <2>2
<1>5. CASE Judge
  BY <1>1, <1>5 DEF Judge
<1>6. ASSUME NEW r \in Ranks, Construct(r) \/ Finish(r) \/ Raise(r) \/ Kill(r)
      PROVE  UNCHANGED <<config, rows, todo, eligible>> /\ (hit => hit')
  BY <1>6 DEF Construct, Finish, Raise, Kill
<1>7. CASE UNCHANGED vars
  BY <1>1, <1>7 DEF vars
<1> QED BY <1>1, <1>2, <1>3, <1>4, <1>5, <1>6, <1>7 DEF Next

\* The widths the ranks agree on when nothing went wrong.
LEMMA AllAgreed ==
  ASSUME GateInv, VerdictInv, ~hit, NEW n \in 1..3, NEW r \in Ranks,
         \A j \in DOMAIN todo[r] : todo[r][j].mode = "reduce", Planned(r, n)
  PROVE  Vote(r, n) = IF n = 1 THEN {1} ELSE Widths
<1>1. IsList(rows[r]) /\ IsList(todo[r]) /\ RowsInv
  BY DEF GateInv, VerdictInv
<1>2. ASSUME NEW x \in AskedBy(n) PROVE InReport(r, x)
  <2>1. x \in DiagAsks
    BY <1>2, AskedByIs
  <2>2. x \in Elems(PlanOf(r))
    BY <1>2 DEF Planned, FullPlan
  <2> QED BY <1>1, <2>1, <2>2, RowFound
<1>3. CASE n = 1
  <2>1. InReport(r, Clean(1))
    BY <1>2, <1>3, AskedByIs
  <2>2. Baselined(r)
    BY <2>1, CleanPasses
  <2> QED BY <1>3, <2>2 DEF Vote
<1>4. CASE n = 2
  <2>1. InReport(r, Clean(1)) /\ InReport(r, Clean(2)) /\ InReport(r, Clean(4))
    BY <1>2, <1>4, AskedByIs
  <2>2. \A w \in Widths : WidthPasses(r, w)
    BY <2>1, WidthFound DEF Widths
  <2>3. Vote(r, n) = {w \in Widths : WidthPasses(r, w)}
    BY <1>4 DEF Vote
  <2> QED BY <1>4, <2>2, <2>3
<1>5. CASE n = 3
  <2>1. \A x \in DiagAsks : InReport(r, x)
    BY <1>2, <1>5, AskedByIs
  <2>2. ASSUME NEW w \in Widths PROVE WidthPasses(r, w)
    <3>1. Clean(1) \in DiagAsks /\ Clean(w) \in DiagAsks
      BY DEF DiagAsks, Widths
    <3> QED BY <2>1, <3>1, WidthFound
  <2>3. ASSUME NEW w \in Widths, NEW c \in Controls(w) PROVE ControlPasses(r, c)
    <3>1. InReport(r, c)
      BY <2>1, ControlsIs
    <3> QED BY <2>2, <3>1, ControlFound
  <2>4. eligible[r] = Widths
    BY <1>5 DEF Planned
  <2>5. Vote(r, n) = {w \in eligible[r] : \A c \in Controls(w) : ControlPasses(r, c)}
    BY <1>5 DEF Vote
  <2>6. \A w \in Widths : w \in Vote(r, n)
    BY <2>3, <2>4, <2>5, Zenon
  <2>7. \A w \in Vote(r, n) : w \in Widths
    BY <2>4, <2>5, Zenon
  <2> HIDE DEF Vote
  <2>8. Vote(r, n) = Widths
    BY <2>6, <2>7, Zenon
  <2> QED BY <1>5, <2>8
<1> QED BY <1>3, <1>4, <1>5

LEMMA PlannedNext ==
  ASSUME BInv, GateInv, VerdictInv, [Next]_vars
  PROVE  \A r \in Ranks : (\E n \in 1..4 : Planned(r, n))'
<1>1. CASE ~Agree
  <2>1. /\ UNCHANGED <<config, eligible>> /\ (hit => hit')
        /\ \A r \in Ranks : PlanOf(r)' = PlanOf(r)
    BY <1>1, SamePlan
  <2>2. ASSUME NEW r \in Ranks PROVE (\E n \in 1..4 : Planned(r, n))'
    <3>1. PICK n \in 1..4 : Planned(r, n)
      BY DEF VerdictInv
    <3>2. PICK p : p = PlanOf(r)
      OBVIOUS
    <3>3. p = PlanOf(r)'
      BY <2>1, <3>2
    <3>4. Plan(p, n) /\ (~hit => FullPlan(p, n)) /\ (~hit /\ n = 3 => eligible[r] = Widths)
      BY <3>1, <3>2 DEF Planned
    <3>5. /\ Plan(p, n) => Plan(PlanOf(r), n)'
          /\ FullPlan(p, n) => FullPlan(PlanOf(r), n)'
      BY <2>1, <3>3, PlanStays
    <3>6. Planned(r, n)'
      BY <2>1, <3>4, <3>5 DEF Planned
    <3> QED BY <3>6
  <2> QED BY <2>2
<1>2. CASE Agree
  <2>1. PICK h : h = Head(todo[0])
    OBVIOUS
  <2>2. PICK t, agreed : agreed = Vote(0, h.n) \cap Vote(1, h.n) /\ t = After(h.n, agreed)
    OBVIOUS
  <2>3. /\ h.mode = "reduce"
        /\ \A r \in Ranks : todo[r] # <<>> /\ Head(todo[r]) = h /\ todo'[r] = t /\ eligible'[r] = agreed
        /\ UNCHANGED <<config, rows, hit>>
    BY <1>2, <2>1, <2>2 DEF Agree, Ranks
  <2>4. ASSUME NEW r \in Ranks
        PROVE  /\ IsList(rows[r]) /\ IsList(todo[r]) /\ todo[r] # <<>> /\ todo[r][1] = h
    BY <2>3, TailOf DEF GateInv
  <2>5. ASSUME NEW r \in Ranks, NEW n \in 1..4, Planned(r, n), NEW u, IsList(u)
        PROVE  /\ n \in 1..3 /\ h = Reduce(n) /\ Spliced(Made(rows[r], u), Made(rows[r], todo[r]), u)
               /\ \A j \in DOMAIN todo[r] : todo[r][j].mode = "reduce"
    <3>1. Plan(Made(rows[r], todo[r]), n)
      BY <2>5 DEF Planned, PlanOf
    <3>2. /\ n \in 1..3 /\ todo[r][1] = Reduce(n) /\ Len(Made(rows[r], todo[r])) = Len(rows[r]) + 1
          /\ Spliced(Made(rows[r], u), Made(rows[r], todo[r]), u)
      BY <2>3, <2>4, <2>5, <3>1, MadeSplices
    <3>3. MadeOf(Made(rows[r], todo[r]), rows[r], todo[r])
      BY <2>4, MadeIs
    <3>4. \A j \in DOMAIN todo[r] : j = 1
      <4>1. PICK k \in Nat, l \in Nat : Len(rows[r]) = k /\ Len(todo[r]) = l /\ DOMAIN todo[r] = 1..l
        BY <3>3 DEF MadeOf
      <4>2. k + l = k + 1
        BY <3>2, <3>3, <4>1 DEF MadeOf
      <4>3. l = 1
        BY <4>2
      <4> QED BY <4>1, <4>3
    <3> QED BY <2>3, <2>4, <3>2, <3>4
  <2>6. PICK n \in 1..4 : Planned(0, n)
    BY DEF VerdictInv, Ranks
  <2>7. n \in 1..3 /\ h = Reduce(n)
    BY <2>5, <2>6, EmptyIsList DEF Ranks
  <2>8. h.n = n
    BY <2>7, AskFields
  <2>9. n = 2 => agreed \subseteq Widths
    BY <2>2, <2>8 DEF Vote
  <2>10. PICK m \in 2..4 :
           /\ Block(t, n, m)
           /\ (n = 1 /\ agreed = {1}) \/ (n # 1 /\ agreed = Widths) => FullBlock(t, n, m)
           /\ m = 3 => n = 2
    BY <2>2, <2>7, <2>8, <2>9, AfterBlock
  <2>11. \A r \in Ranks : Planned(r, n) /\ \A j \in DOMAIN todo[r] : todo[r][j].mode = "reduce"
    <3>1. ASSUME NEW r \in Ranks
          PROVE  Planned(r, n) /\ \A j \in DOMAIN todo[r] : todo[r][j].mode = "reduce"
      <4>1. PICK k \in 1..4 : Planned(r, k)
        BY DEF VerdictInv
      <4>2. h = Reduce(k) /\ \A j \in DOMAIN todo[r] : todo[r][j].mode = "reduce"
        BY <2>5, <4>1, EmptyIsList
      <4>3. h.n = k
        BY <4>2, AskFields
      <4> QED BY <2>8, <4>1, <4>2, <4>3
    <3> QED BY <3>1
  <2>12. ~hit => agreed = IF n = 1 THEN {1} ELSE Widths
    <3>1. ASSUME ~hit PROVE \A r \in Ranks : Vote(r, n) = IF n = 1 THEN {1} ELSE Widths
      BY <2>7, <2>11, <3>1, AllAgreed
    <3> QED BY <2>2, <2>8, <3>1 DEF Ranks
  <2>13. ASSUME NEW r \in Ranks PROVE Planned(r, m)'
    <3>1. PICK q : q = Made(rows[r], t)
      OBVIOUS
    <3>2. PICK p : p = Made(rows[r], todo[r])
      OBVIOUS
    <3>3. q = PlanOf(r)'
      BY <2>3, <3>1 DEF PlanOf
    <3>4. IsList(t)
      BY <2>10 DEF Block
    <3>5. Spliced(q, p, t)
      BY <2>5, <2>11, <3>1, <3>2, <3>4
    <3>6. Plan(p, n) /\ (~hit => FullPlan(p, n))
      BY <2>11, <3>2 DEF Planned, PlanOf
    <3>7. Plan(q, m) /\ (FullPlan(p, n) /\ FullBlock(t, n, m) => FullPlan(q, m))
      BY <2>7, <2>10, <3>5, <3>6, SplicedIs
    <3>8. ~hit => FullPlan(q, m)
      BY <2>10, <2>12, <3>6, <3>7
    <3>9. ~hit /\ m = 3 => agreed = Widths
      BY <2>10, <2>12
    <3>10. /\ Plan(q, m) => Plan(PlanOf(r), m)'
           /\ FullPlan(q, m) => FullPlan(PlanOf(r), m)'
      BY <2>3, <3>3, PlanStays
    <3> QED BY <2>3, <3>7, <3>8, <3>9, <3>10 DEF Planned
  <2>14. m \in 1..4
    OBVIOUS
  <2> QED BY <2>13, <2>14
<1> QED BY <1>1, <1>2

\* A generation from its start to its report.
LEMMA StartIs ==
  ASSUME NEW ask, gen' = Started(ask)
  PROVE  GenTyped' /\ gen'.ask = ask /\ (Asked(ask) => Faultless')
<1>1. /\ IsGen(gen') /\ gen'.ask = ask /\ gen'.stream = <<>> /\ gen'.drafts = <<>> /\ ~gen'.failed
      /\ ~gen'.twice /\ ~gen'.injected /\ gen'.seen = {} /\ gen'.broken = <<>>
  BY DEF Started, IsGen
<1>2. GenTyped'
  BY <1>1 DEF GenTyped
<1>3. ASSUME Asked(ask) PROVE Faultless'
  <2>1. PICK n : n = Len(gen'.stream)
    OBVIOUS
  <2>2. n = 0
    BY <1>1, <2>1
  <2>3. 0 < Activation /\ Activation \in Nat
    BY BlockAssumption
  <2>4. gen'.drafts = Proposal(0, -1)
    <3>1. Proposal(0, -1) \in Seq(Tokens) /\ Len(Proposal(0, -1)) = 0
      BY ProposalIs
    <3> QED BY <1>1, <3>1, Emptied
  <2>5. \A w, c : Packets(n, w, c)'
    BY <1>1, <2>2, <2>3, <2>4 DEF Packets
  <2>6. Sees(gen', gen'.stream)
    <3>1. \A p \in Window : ~(p < 0)
      <4>1. Active \in Nat
        BY BlockAssumption DEF Active
      <4> QED BY <4>1, BlockAssumption DEF Window
    <3> QED BY <1>1, <3>1 DEF Sees, Place
  <2>7. Packets(Len(gen.stream), gen.ask.width, Corrupt(gen.ask))'
    BY <2>1, <2>5
  <2> QED BY <1>1, <1>3, <2>6, <2>7 DEF Faultless
<1> QED BY <1>1, <1>2, <1>3

LEMMA FaultlessStays == ASSUME Faultless, UNCHANGED gen PROVE Faultless'
BY DEF Faultless, Packets

LEMMA FaultlessReports ==
  ASSUME Faultless, Answered, NEW row, NEW off, RowOf(row, off), ~off
  PROVE  GoodRow(row)
<1>1. PICK ask : ask = gen.ask
  OBVIOUS
<1>2. /\ Judged(ask) /\ Corrupt(ask) \in {-1, 0, 2}
      /\ ask.mode = "measure" => Corrupt(ask) = -1
      /\ ask.mode = "diagnostic" => Corrupt(ask) = ask.n
      /\ ask.mode = "diagnostic" => Cap(ask) = Oracle
  BY <1>1, AskIs DEF Faultless
<1>3. PICK cap \in Nat : cap = Cap(ask) /\ Activation + 4 <= cap
  BY <1>1, AskIs DEF Faultless
<1>4. PICK n \in Nat : n = Len(gen.stream) /\ cap <= n
  BY <1>1, <1>3 DEF Answered, Faultless
<1>5. PICK c \in {-1, 0, 2} : c = Corrupt(ask)
  BY <1>2
<1>6. Activation \in Nat /\ Oracle \in Nat /\ Prompt \in Nat /\ Activation + 7 <= Oracle
      /\ Prompt > 0
  BY BlockAssumption
<1>7. Packets(n, ask.width, c)
  BY <1>1, <1>4, <1>5 DEF Faultless
<1>8. n > Activation
  BY <1>3, <1>4, <1>6
<1>9. gen.broken = IF c = -1 THEN <<>> ELSE << Rejected(ask) >>
  BY <1>1, <1>7, <1>8 DEF Packets
<1>10. gen.full /\ ask.width \in gen.widths
  <2>1. (gen.full /\ ask.width \in gen.widths) \/ (c # -1 /\ n = Activation + c + 1)
    BY <1>7, <1>8 DEF Packets
  <2>2. ~(c # -1 /\ n = Activation + c + 1)
    <3>1. SUFFICES ASSUME c # -1, n = Activation + c + 1 PROVE FALSE
      OBVIOUS
    <3>2. ask.mode = "diagnostic"
      BY <1>2, <1>5, <3>1 DEF Judged
    <3>3. cap = Oracle
      BY <1>2, <1>3, <3>2
    <3> QED BY <1>4, <1>6, <3>1, <3>3
  <2> QED BY <2>1, <2>2
<1>11. AllO(SubSeq(gen.stream, 1, cap))
  <2>1. gen.stream \in Seq({"o"}) /\ cap \in 0..Len(gen.stream)
    BY <1>4 DEF Faultless
  <2>2. PICK s \in Seq({"o"}) : s = gen.stream
    BY <2>1
  <2>3. SubSeq(s, 1, cap) \in Seq({"o"})
    BY <2>1, <2>2, SubSeqIs
  <2> QED BY <2>2, <2>3, AllOIs
<1>12. ask.mode = "diagnostic" => gen.seen = Window
  <2>1. SUFFICES ASSUME ask.mode = "diagnostic" PROVE gen.seen = Window
    OBVIOUS
  <2>2. n >= Oracle
    BY <1>2, <1>3, <1>4, <2>1
  <2>3. gen.stream # <<>>
    BY <1>4, <1>6, <2>2
  <2>4. gen.seen = {p \in Window : p < Prompt + n - 1}
    BY <1>1, <1>4, <2>1, <2>3 DEF Faultless, Sees, Place
  <2>5. \A p \in Window : p < Prompt + n - 1
    <3>1. \A p \in Window : p \in Int /\ p <= Prompt + Oracle - 2
      BY <1>6 DEF Window, Active
    <3> QED BY <1>6, <2>2, <3>1
  <2> QED BY <2>4, <2>5
<1>13. row.ask = ask /\ row.exact /\ ~row.failed /\ row.full /\ ~row.off
  BY <1>1, <1>3, <1>10, <1>11 DEF RowOf, Faultless
<1>14. ask.mode = "diagnostic" => /\ ~row.twice /\ row.seen = Window /\ ask.width \in row.widths
                                  /\ row.broken = IF ask.n = -1 THEN <<>> ELSE << Rejected(ask) >>
  BY <1>2, <1>5, <1>9, <1>10, <1>12 DEF RowOf, Faultless
<1> QED BY <1>13, <1>14 DEF GoodRow, History

LEMMA NextFits ==
  ASSUME GateInv, VerdictInv, NEW r \in Ranks, todo[r] # <<>>, todo[r][1].mode # "reduce"
  PROVE  Asked(todo[r][1]) \/ todo[r][1] \in Warmups
<1>1. PICK n \in 1..4 : Planned(r, n)
  BY DEF VerdictInv
<1>2. PICK p : p = PlanOf(r)
  OBVIOUS
<1>3. IsList(rows[r]) /\ IsList(todo[r])
  BY DEF GateInv
<1>4. MadeOf(p, rows[r], todo[r])
  BY <1>2, <1>3, MadeIs, Zenon DEF PlanOf
<1>5. 1 \in DOMAIN todo[r]
  BY <1>3, TailOf
<1>6. PICK i \in DOMAIN p : p[i] = todo[r][1]
  BY <1>4, <1>5 DEF MadeOf
<1>7. FitsIn(p[i], 0, n)
  BY <1>1, <1>2 DEF Planned, Plan, Block
<1> QED BY <1>6, <1>7 DEF FitsIn

LEMMA WarmupIs == \A ask \in Warmups : ~Judged(ask) /\ ask.mode = "warmup"
BY AskFields DEF Warmups, Judged

\* What the steps leave alone: rows are only added, a generation is only begun
\* by a request, and what went wrong is not forgotten.
Unmoved == UNCHANGED <<rows, gen>> /\ (hit => hit')
         /\ \A r \in Ranks : Inside(r)' => Inside(r) /\ todo'[r] = todo[r]

LEMMA QuietSteps ==
  ASSUME BInv, [Next]_vars
  PROVE  \/ Unmoved \/ Request \/ Packet
         \/ \E r \in Ranks : Report(r)
<1> USE DEF BInv, Shape, Inside, Unmoved
<1>1. Agree => Unmoved
  BY DEF Agree
<1>2. Judge => Unmoved
  BY DEF Judge
<1>3. \A r \in Ranks : Construct(r) => Unmoved
  BY DEF Construct
<1>4. \A r \in Ranks : Finish(r) => Unmoved
  BY DEF Finish
<1>5. \A r \in Ranks : Raise(r) => Unmoved
  BY DEF Raise
<1>6. \A r \in Ranks : Kill(r) => Unmoved
  BY DEF Kill
<1>7. UNCHANGED vars => Unmoved
  BY DEF vars
<1> QED BY <1>1, <1>2, <1>3, <1>4, <1>5, <1>6, <1>7 DEF Next

LEMMA RowsNext ==
  ASSUME BInv, GateInv, VerdictInv, [Next]_vars PROVE RowsInv'
<1> USE DEF VerdictInv, RowsInv
<1>1. CASE UNCHANGED rows /\ (hit => hit')
  BY <1>1
<1>2. ASSUME NEW r \in Ranks, Report(r) PROVE RowsInv'
  <2>1. PICK row, off : Reporting(r, row, off)
    BY <1>2, ReportIs
  <2>2. RowAdded(r, row)
    BY <2>1, RowAddedBy
  <2>3. /\ row.ask.mode # "reduce" /\ (hit => hit')
        /\ ~hit' /\ Judged(row.ask) => ~hit /\ ~off /\ Judged(gen.ask)
    BY <2>1 DEF Reporting, RowOf, Answered, Judged
  <2>4. ~hit' /\ Judged(row.ask) => GoodRow(row)
    <3>1. SUFFICES ASSUME ~hit', Judged(row.ask) PROVE GoodRow(row)
      OBVIOUS
    <3>2. Faultless
      BY <2>1, <2>3, <3>1 DEF InsideInv, Reporting
    <3> QED BY <2>1, <2>3, <3>1, <3>2, FaultlessReports DEF Reporting
  <2>5. ASSUME NEW s \in Ranks, NEW i \in DOMAIN rows'[s]
        PROVE  rows'[s][i] = row \/ (i \in DOMAIN rows[s] /\ rows'[s][i] = rows[s][i])
    BY <2>2, <2>5, SMTT(30) DEF RowAdded
  <2> QED BY <2>3, <2>4, <2>5
<1>3. CASE Packet
  BY <1>1, <1>3, PacketIs DEF Packet, Sampling
<1>4. CASE Request
  BY <1>1, <1>4 DEF Request
<1> QED BY <1>1, <1>2, <1>3, <1>4, QuietSteps DEF Unmoved

LEMMA InsideNext ==
  ASSUME BInv, GateInv, VerdictInv, [Next]_vars PROVE InsideInv'
<1>1. ASSUME \A r \in Ranks : Inside(r)' => Inside(r) /\ todo'[r] = todo[r], UNCHANGED gen,
             hit => hit'
      PROVE  InsideInv'
  <2>1. GenTyped => GenTyped'
    BY <1>1 DEF GenTyped
  <2>2. Faultless => Faultless'
    BY <1>1, FaultlessStays
  <2> QED BY <1>1, <2>1, <2>2 DEF VerdictInv, InsideInv
<1>2. ASSUME NEW r \in Ranks, Report(r) PROVE InsideInv'
  <2>1. PICK row, off : Reporting(r, row, off)
    BY <1>2, ReportIs
  <2>2. RowAdded(r, row)
    BY <2>1, RowAddedBy DEF VerdictInv
  <2>3. UNCHANGED gen /\ (hit => hit')
    BY <2>1 DEF Reporting
  <2>4. \A s \in Ranks : Inside(s)' => Inside(s) /\ todo'[s] = todo[s]
    BY <2>2 DEF RowAdded, Inside
  <2> QED BY <1>1, <2>3, <2>4
<1>3. CASE Packet
  <2>0. PICK out : Sampling(out)
    BY <1>3, PacketIs
  <2>2. UNCHANGED <<pc, todo>> /\ \A r \in Ranks : Inside(r)
    BY <1>3 DEF Packet, Inside
  <2>3. 0 \in Ranks
    BY DEF Ranks
  <2>4. GenTyped /\ todo[0] # <<>> /\ gen.ask = todo[0][1] /\ gen.ask.mode # "reduce"
        /\ (~hit /\ Judged(gen.ask) => Faultless)
    BY <2>2, <2>3 DEF VerdictInv, InsideInv
  <2>5. Asked(gen.ask) \/ gen.ask \in Warmups
    BY <2>3, <2>4, NextFits
  <2>6. GenTyped' /\ gen'.ask = gen.ask
    BY <2>0, <2>4, <2>5, PacketTyped DEF Sampling
  <2>7. ~hit' /\ Judged(gen'.ask) => Faultless'
    <3>1. SUFFICES ASSUME ~hit', Judged(gen.ask) PROVE Faultless'
      BY <2>6
    <3>2. ~hit /\ out = Choice
      BY <2>0, <3>1 DEF Judged, Sampling
    <3>3. Faultless
      BY <2>4, <3>1, <3>2
    <3> QED BY <2>0, <3>2, <3>3, PacketFaultless DEF Sampling
  <2> QED BY <2>2, <2>6, <2>7 DEF VerdictInv, InsideInv, Inside
<1>4. CASE Request
  <2>1. PICK ask : ask = Head(todo[0])
    OBVIOUS
  <2>2. /\ ask.mode # "reduce" /\ gen' = Started(ask) /\ UNCHANGED <<todo, hit>>
        /\ \A r \in Ranks : todo[r] # <<>> /\ Head(todo[r]) = ask
    BY <1>4, <2>1 DEF Request, Ranks
  <2>3. GenTyped' /\ gen'.ask = ask /\ (Asked(ask) => Faultless')
    BY <2>2, StartIs
  <2>4. \A r \in Ranks : todo[r][1] = ask
    BY <2>2, TailOf DEF GateInv
  <2>5. Judged(ask) => Asked(ask)
    <3>1. 0 \in Ranks
      BY DEF Ranks
    <3> QED BY <2>2, <2>4, <3>1, NextFits, WarmupIs
  <2> QED BY <2>2, <2>3, <2>4, <2>5 DEF InsideInv
<1> QED BY <1>1, <1>2, <1>3, <1>4, QuietSteps DEF Unmoved

LEMMA BaselineFound ==
  ASSUME GateInv, VerdictInv, ~hit, NEW r \in Ranks, todo[r] = <<>> PROVE Baselined(r)
<1>1. PICK n \in 1..4 : Planned(r, n)
  BY DEF VerdictInv
<1>2. Clean(1) \in AskedBy(n) /\ Clean(1) \in DiagAsks
  <2>1. n \in {1, 2, 3, 4}
    OBVIOUS
  <2> QED BY <2>1, AskedByIs DEF DiagAsks
<1>3. Clean(1) \in Elems(PlanOf(r))
  BY <1>1, <1>2 DEF Planned, FullPlan
<1>4. \A j \in DOMAIN todo[r] : todo[r][j].mode = "reduce"
  OBVIOUS
<1>5. InReport(r, Clean(1))
  BY <1>2, <1>3, <1>4, RowFound DEF GateInv, VerdictInv
<1> QED BY <1>5, CleanPasses

LEMMA StatusNext ==
  ASSUME BInv, GateInv, VerdictInv, [Next]_vars
  PROVE  StatusInv' /\ hit' \in BOOLEAN /\ status' = [r \in Ranks |-> status'[r]]
<1> USE DEF VerdictInv, StatusInv, BInv, Shape, Stopped
<1> DEFINE S == /\ StatusInv' /\ hit' \in BOOLEAN
                /\ status' = [r \in Ranks |-> status'[r]]
<1>1. CASE UNCHANGED <<pc, todo, status>> /\ hit' \in BOOLEAN /\ (hit => hit')
  BY <1>1
<1>2. ASSUME NEW r \in Ranks, Report(r) PROVE S
  <2>1. PICK row, off : Reporting(r, row, off)
    BY <1>2, ReportIs
  <2>2. RowAdded(r, row)
    BY <2>1, RowAddedBy
  <2>3. (hit => hit') /\ hit' \in BOOLEAN
    BY <2>1 DEF Reporting
  <2> QED BY <2>2, <2>3 DEF RowAdded
<1>3. CASE Packet
  <2>1. UNCHANGED <<pc, todo, status>>
    BY <1>3 DEF Packet
  <2>2. hit' \in BOOLEAN /\ (hit => hit')
    BY <1>3, PacketIs DEF Sampling
  <2> QED BY <1>1, <2>1, <2>2
<1>4. CASE Request
  BY <1>4 DEF Request
<1>5. CASE Agree
  BY <1>5 DEF Agree
<1>6. CASE Judge
  BY <1>6 DEF Judge
<1>7. ASSUME NEW r \in Ranks, Construct(r) PROVE S
  BY <1>7 DEF Construct
<1>8. ASSUME NEW r \in Ranks, Finish(r) PROVE S
  <2>1. ~hit => Baselined(r)
    BY <1>8, BaselineFound DEF Finish
  <2>2. PICK done : done = (IF Baselined(r) THEN "COMPLETE" ELSE "BASELINE_REFERENCE_FAIL")
    OBVIOUS
  <2>3. ~hit => done = "COMPLETE"
    BY <2>1, <2>2
  <2>4. /\ pc[r] = "ready" /\ todo[r] = <<>> /\ status' = [status EXCEPT ![r] = done]
        /\ pc' = [pc EXCEPT ![r] = "ended"] /\ UNCHANGED <<todo, hit>>
    BY <1>8, <2>2 DEF Finish
  <2> QED BY <2>3, <2>4
<1>9. ASSUME NEW r \in Ranks, Raise(r) PROVE S
  <2>1. PICK said \in {"ERROR", status[r]} : status' = [status EXCEPT ![r] = said]
    BY <1>9 DEF Raise
  <2>2. /\ pc[r] \in {"ready", "gen"} /\ hit' = TRUE /\ pc' = [pc EXCEPT ![r] = "raised"]
        /\ UNCHANGED todo
    BY <1>9 DEF Raise
  <2> QED BY <2>1, <2>2
<1>10. ASSUME NEW r \in Ranks, Kill(r) PROVE S
  <2>1. PICK said \in {"TORN", status[r]} : status' = [status EXCEPT ![r] = said]
    BY <1>10 DEF Kill
  <2>2. /\ pc[r] \in {"new", "ready", "gen"} /\ hit' = TRUE /\ pc' = [pc EXCEPT ![r] = "killed"]
        /\ UNCHANGED todo
    BY <1>10 DEF Kill
  <2> QED BY <2>1, <2>2
<1>11. CASE UNCHANGED vars
  BY <1>1, <1>11 DEF vars
<1> QED BY <1>2, <1>3, <1>4, <1>5, <1>6, <1>7, <1>8, <1>9, <1>10, <1>11 DEF Next

LEMMA StoppedStays ==
  ASSUME BInv, [Next]_vars, NEW r \in Ranks, Stopped(r) PROVE Stopped(r)'
<1> USE DEF BInv, Shape, Stopped
<1>1. CASE UNCHANGED pc
  BY <1>1
<1>2. ASSUME NEW s \in Ranks, Construct(s) PROVE Stopped(r)'
  BY <1>2 DEF Construct
<1>3. ASSUME NEW s \in Ranks, Report(s) PROVE Stopped(r)'
  BY <1>3 DEF Report
<1>4. ASSUME NEW s \in Ranks, Finish(s) PROVE Stopped(r)'
  BY <1>4 DEF Finish
<1>5. ASSUME NEW s \in Ranks, Raise(s) PROVE Stopped(r)'
  BY <1>5 DEF Raise
<1>6. ASSUME NEW s \in Ranks, Kill(s) PROVE Stopped(r)'
  BY <1>6 DEF Kill
<1>7. CASE Request
  BY <1>7 DEF Request
<1>8. CASE Packet \/ Agree \/ Judge \/ UNCHANGED vars
  BY <1>1, <1>8 DEF Packet, Agree, Judge, vars
<1> QED BY <1>2, <1>3, <1>4, <1>5, <1>6, <1>7, <1>8 DEF Next

\* What went wrong is in sight.
LEMMA BlamedNext ==
  ASSUME BInv, GateInv, VerdictInv, [Next]_vars, hit' PROVE Blamed'
<1>1. ASSUME NEW r \in Ranks, Stopped(r)' PROVE Blamed'
  BY <1>1 DEF Blamed
<1>2. ASSUME NEW r \in Ranks, Stopped(r) PROVE Blamed'
  BY <1>1, <1>2, StoppedStays
<1>3. ASSUME NEW r \in Ranks, Construct(r) PROVE Blamed'
  <2>1. CASE Stopped(r)'
    BY <1>1, <2>1
  <2>2. CASE ~Stopped(r)'
    <3>1. pc' = [pc EXCEPT ![r] = "ready"] /\ UNCHANGED hit
      BY <1>3, <2>2 DEF Construct, Stopped, BInv, Shape
    <3>2. pc[r] = "new" /\ UNCHANGED <<rows, gen>>
      BY <1>3 DEF Construct
    <3>3. \A s \in Ranks : Inside(s) => Inside(s)'
      BY <3>1, <3>2 DEF Inside, BInv, Shape
    <3> QED BY <1>2, <3>1, <3>2, <3>3 DEF VerdictInv, Blamed
  <2> QED BY <2>1, <2>2
<1>4. ASSUME NEW r \in Ranks, Raise(r) \/ Kill(r) PROVE Blamed'
  <2>1. pc' = [pc EXCEPT ![r] = "raised"] \/ pc' = [pc EXCEPT ![r] = "killed"]
    BY <1>4 DEF Raise, Kill
  <2>2. Stopped(r)'
    BY <2>1 DEF Stopped, BInv, Shape
  <2> QED BY <1>1, <2>2
<1>5. ASSUME NEW r \in Ranks, Report(r) PROVE Blamed'
  <2>1. PICK row, off : Reporting(r, row, off)
    BY <1>5, ReportIs
  <2>2. RowAdded(r, row)
    BY <2>1, RowAddedBy DEF VerdictInv
  <2>3. Len(rows[r]) + 1 \in DOMAIN rows'[r] /\ rows'[r][Len(rows[r]) + 1] = row
    BY <2>2 DEF RowAdded
  <2>4. CASE Judged(gen.ask) /\ (gen.failed \/ off)
    <3>1. Judged(row.ask) /\ ~History(row)
      BY <2>1, <2>4 DEF Reporting, RowOf, History
    <3> QED BY <2>3, <3>1 DEF Blamed
  <2>5. CASE ~(Judged(gen.ask) /\ (gen.failed \/ off))
    <3>1. hit
      <4>1. gen.ask.mode # "reduce" /\ hit' = (hit \/ (off /\ gen.ask.mode # "warmup"))
        BY <2>1 DEF Reporting, Answered
      <4>2. 0 \in Ranks /\ todo[r] # <<>> /\ gen.ask = todo[r][1]
        BY <2>1 DEF VerdictInv, InsideInv, Reporting, Ranks
      <4>3. Asked(gen.ask) \/ gen.ask \in Warmups
        BY <4>1, <4>2, NextFits
      <4>4. Judged(gen.ask) \/ gen.ask.mode = "warmup"
        BY <4>3, AskIs, WarmupIs
      <4> QED BY <2>5, <4>1, <4>4
    <3>2. ASSUME NEW s \in Ranks, NEW i \in DOMAIN rows[s], Judged(rows[s][i].ask),
                 ~History(rows[s][i])
          PROVE  Blamed'
      <4>1. i \in DOMAIN rows'[s] /\ rows'[s][i] = rows[s][i]
        BY <2>2, <3>2 DEF RowAdded
      <4> QED BY <3>2, <4>1 DEF Blamed
    <3>3. ~(Judged(gen.ask) /\ gen.failed)
      BY <2>5
    <3> QED BY <1>2, <3>1, <3>2, <3>3 DEF VerdictInv, Blamed
  <2> QED BY <2>4, <2>5
<1>6. CASE Packet
  <2>0. PICK out : Sampling(out)
    BY <1>6, PacketIs
  <2>2. UNCHANGED <<pc, todo, rows>> /\ \A r \in Ranks : Inside(r)
    BY <1>6 DEF Packet, Inside
  <2>3. 0 \in Ranks
    BY DEF Ranks
  <2>4. GenTyped /\ todo[0] # <<>> /\ gen.ask = todo[0][1] /\ gen.ask.mode # "reduce"
    BY <2>2, <2>3 DEF VerdictInv, InsideInv
  <2>5. Asked(gen.ask) \/ gen.ask \in Warmups
    BY <2>3, <2>4, NextFits
  <2>6. gen'.ask = gen.ask /\ (gen.failed \/ out # Choice => gen'.failed)
    BY <2>0, <2>4, <2>5, PacketTyped DEF Sampling
  <2>7. CASE ~hit
    <3>1. out # Choice /\ gen.ask.mode # "warmup"
      BY <2>0, <2>7 DEF Sampling
    <3>2. Judged(gen.ask)
      BY <2>5, <3>1, AskIs, WarmupIs
    <3>3. Inside(0)'
      BY <2>2, <2>3 DEF Inside
    <3> QED BY <2>3, <2>6, <3>1, <3>2, <3>3 DEF Blamed
  <2>8. CASE hit
    <3>1. \A r \in Ranks : Inside(r)'
      BY <2>2 DEF Inside
    <3>2. Judged(gen.ask) /\ gen.failed => Judged(gen'.ask) /\ gen'.failed
      BY <2>6
    <3> QED BY <1>2, <2>2, <2>8, <3>1, <3>2 DEF VerdictInv, Blamed
  <2> QED BY <2>7, <2>8
<1>7. CASE UNCHANGED <<rows, gen, hit>> /\ \A r \in Ranks : Inside(r) => Inside(r)'
  BY <1>2, <1>7 DEF VerdictInv, Blamed
<1>8. CASE Request
  <2>1. UNCHANGED <<rows, hit>> /\ \A r \in Ranks : ~Inside(r)
    BY <1>8 DEF Request, Inside
  <2> QED BY <1>2, <2>1 DEF VerdictInv, Blamed
<1>9. ASSUME NEW r \in Ranks, Finish(r) PROVE Blamed'
  BY <1>7, <1>9 DEF Finish, Inside, BInv, Shape
<1>10. CASE Agree \/ Judge \/ UNCHANGED vars
  BY <1>7, <1>10 DEF Agree, Judge, vars, Inside
<1> QED BY <1>3, <1>4, <1>5, <1>6, <1>8, <1>9, <1>10 DEF Next

LEMMA MeasuresLen ==
  Len(Measures(Widths)) \in Nat /\ Len(Measures(Widths)) > 0
<1>1. PICK n \in {1, 2, 3} : n = Len(Order(Widths))
  BY OrderIs
<1>2. DOMAIN Measures(Widths) = 1..(Trials * n)
  BY <1>1 DEF Measures
<1>3. Trials * n \in Nat /\ Trials * n > 0
  BY BlockAssumption
<1>4. PICK s : s = Measures(Widths)
  OBVIOUS
<1>5. IsList(s)
  BY <1>4, MeasuresAsk
<1>6. Len(s) = Trials * n
  BY <1>2, <1>3, <1>4, <1>5, ListIs
<1> QED BY <1>3, <1>4, <1>6

\* What is in a report is of the plan.
LEMMA RowFits ==
  ASSUME GateInv, VerdictInv, NEW r \in Ranks
  PROVE  /\ \A i \in DOMAIN rows[r] :
              /\ rows[r][i].ask.mode = "diagnostic" => rows[r][i].ask \in DiagAsks
              /\ rows[r][i].ask.mode = "measure" => ~config.state_only
         /\ \A i, j \in DOMAIN rows[r] :
              rows[r][i].ask.mode = "diagnostic" /\ rows[r][i].ask = rows[r][j].ask => i = j
<1>1. PICK n \in 1..4 : Planned(r, n)
  BY DEF VerdictInv
<1>2. PICK p : p = PlanOf(r)
  OBVIOUS
<1>3. MadeOf(p, rows[r], todo[r])
  BY <1>2, MadeIs, Zenon DEF PlanOf, GateInv
<1>4. \A i \in DOMAIN rows[r] : i \in DOMAIN p /\ p[i] = rows[r][i].ask
  BY <1>3 DEF MadeOf
<1>5. /\ \A i \in DOMAIN p : FitsIn(p[i], 0, n)
      /\ \A i, j \in DOMAIN p : p[i].mode = "diagnostic" /\ p[i] = p[j] => i = j
  BY <1>1, <1>2 DEF Planned, Plan, Block
<1>6. AskedBy(n) \subseteq DiagAsks
  BY AskedByIs
<1>7. \A i \in DOMAIN p : /\ p[i].mode = "diagnostic" => p[i] \in DiagAsks
                          /\ p[i].mode = "measure" => ~config.state_only
  BY <1>5, <1>6 DEF FitsIn
<1> QED BY <1>4, <1>5, <1>7, Zenon

LEMMA DiagnosedAll ==
  ASSUME NEW r \in Ranks, Passes(r), NEW x \in DiagAsks
  PROVE  \E i \in DOMAIN rows[r] : rows[r][i].ask = x /\ History(rows[r][i])
<1>1. \A w \in Widths : WidthPasses(r, w) /\ \A c \in Controls(w) : ControlPasses(r, c)
  BY DEF Passes
<1>2. \A a : Diagnosed(r, a) => \E i \in DOMAIN rows[r] : rows[r][i].ask = a /\ History(rows[r][i])
  BY DEF Diagnosed, Reads
<1>3. \A a : ControlPasses(r, a) => \E i \in DOMAIN rows[r] : rows[r][i].ask = a /\ History(rows[r][i])
  BY DEF ControlPasses, Reads
<1>4. CASE \E w \in {1, 2, 4} : x = Clean(w)
  <2>1. Diagnosed(r, Clean(1)) /\ Diagnosed(r, Clean(2)) /\ Diagnosed(r, Clean(4))
    BY <1>1 DEF WidthPasses, Widths
  <2> QED BY <1>2, <1>4, <2>1
<1>5. CASE \E w \in Widths : x \in Controls(w)
  BY <1>1, <1>3, <1>5
<1> QED BY <1>4, <1>5, ControlsIs

\* A report that passes has nothing wrong in it, and measurements.
LEMMA PassingIs ==
  ASSUME BInv, GateInv, VerdictInv, Over, \A r \in Ranks : Passes(r)
  PROVE  ~hit /\ ~config.state_only
<1>1. \A r \in Ranks : pc[r] = "ended"
  BY DEF Passes, VerdictInv, StatusInv
<1>2. ASSUME hit PROVE FALSE
  <2>0. PICK r \in Ranks : \E i \in DOMAIN rows[r] : Judged(rows[r][i].ask) /\ ~History(rows[r][i])
    BY <1>1, <1>2 DEF VerdictInv, Blamed, Stopped, Inside
  <2>1. PICK i \in DOMAIN rows[r] : Judged(rows[r][i].ask) /\ ~History(rows[r][i])
    BY <2>0
  <2>2. CASE rows[r][i].ask.mode = "measure"
    BY <2>1, <2>2 DEF Passes, Taken
  <2>3. CASE rows[r][i].ask.mode = "diagnostic"
    <3>1. rows[r][i].ask \in DiagAsks
      BY <2>3, RowFits
    <3>2. PICK j \in DOMAIN rows[r] : rows[r][j].ask = rows[r][i].ask /\ History(rows[r][j])
      BY <3>1, DiagnosedAll
    <3>3. i = j
      BY <2>3, <3>2, RowFits
    <3> QED BY <2>1, <3>2, <3>3
  <2> QED BY <2>1, <2>2, <2>3 DEF Judged
<1>3. ASSUME config.state_only PROVE FALSE
  <2>1. 0 \in Ranks
    BY DEF Ranks
  <2>2. Taken(0) = {}
    BY <1>3, <2>1, RowFits DEF Taken
  <2>3. Cardinality(Taken(0)) = 0
    BY <2>2, FS_EmptySet
  <2>4. Cardinality(Taken(0)) = Len(Measures(Widths))
    BY <2>1 DEF Passes
  <2> QED BY <2>3, <2>4, MeasuresLen
<1> QED BY <1>2, <1>3

\* The reports of a run in which nothing went wrong pass.
LEMMA FaultlessPasses ==
  ASSUME BInv, GateInv, VerdictInv, Over, ~hit, ~config.state_only, NEW r \in Ranks
  PROVE  Passes(r)
<1>1. status[r] = "COMPLETE" /\ todo[r] = <<>>
  BY DEF VerdictInv, StatusInv, Over, Stopped
<1>2. PICK n \in 1..4 : Planned(r, n)
  BY DEF VerdictInv
<1>3. PICK p : p = PlanOf(r)
  OBVIOUS
<1>4. IsList(rows[r]) /\ IsList(todo[r]) /\ DOMAIN todo[r] = {} /\ Len(todo[r]) = 0
  BY <1>1 DEF GateInv
<1>5. MadeOf(p, rows[r], todo[r])
  BY <1>3, <1>4, MadeIs, Zenon DEF PlanOf
<1>6. PICK z \in Nat : z = Len(rows[r])
  BY <1>4, ListIs
<1>7. DOMAIN rows[r] = 1..z /\ DOMAIN p = 1..z /\ Len(p) = z /\ \A i \in 1..z : p[i] = rows[r][i].ask
  <2>1. z + 0 = z
    OBVIOUS
  <2> QED BY <1>4, <1>5, <1>6, <2>1 DEF MadeOf
<1>8. n = 4
  <2>1. SUFFICES ASSUME n < 4 PROVE FALSE
    OBVIOUS
  <2>2. z > 0 /\ p[z] = Reduce(n)
    BY <1>2, <1>3, <1>7, <2>1 DEF Planned, Plan, Block
  <2>3. z \in 1..z
    BY <2>2
  <2>4. rows[r][z].ask.mode = "reduce"
    BY <1>7, <2>2, <2>3, AskFields
  <2> QED BY <1>7, <2>3, <2>4 DEF VerdictInv, RowsInv
<1>9. FullPlan(p, 4)
  BY <1>2, <1>3, <1>8 DEF Planned
<1>10. ASSUME NEW x \in DiagAsks PROVE InReport(r, x)
  <2>1. x \in Elems(PlanOf(r))
    BY <1>3, <1>9, AskedByIs DEF FullPlan
  <2>2. \A j \in DOMAIN todo[r] : todo[r][j].mode = "reduce"
    BY <1>4
  <2> QED BY <1>4, <2>1, <2>2, RowFound DEF VerdictInv
<1>11. ASSUME NEW w \in Widths
       PROVE  WidthPasses(r, w) /\ \A c \in Controls(w) : ControlPasses(r, c)
  <2>1. Clean(1) \in DiagAsks /\ Clean(w) \in DiagAsks
    BY DEF DiagAsks, Widths
  <2>2. WidthPasses(r, w)
    BY <1>10, <2>1, WidthFound
  <2>3. ASSUME NEW c \in Controls(w) PROVE ControlPasses(r, c)
    BY <1>10, <2>2, ControlsIs, ControlFound
  <2> QED BY <2>2, <2>3
<1>12. PICK m : m = Measures(Widths)
  OBVIOUS
<1>13. PICK l \in Nat : l = Len(m)
  BY <1>12, MeasuresLen
<1>14. Measurements(Widths) = m
  BY <1>12 DEF Measurements
<1>15. PICK k \in Nat : k = z - l /\ \A i \in 1..z :
         IF i <= k THEN p[i].mode # "measure" ELSE p[i] = m[i - k]
  <2>1. MeasuredLast(p)
    BY <1>9 DEF FullPlan
  <2>2. z - l >= 0 /\ \A i \in 1..z :
          IF i <= z - l THEN p[i].mode # "measure" ELSE p[i] = m[i - (z - l)]
    BY <1>7, <1>13, <1>14, <2>1 DEF MeasuredLast
  <2> QED BY <2>2
<1>16. DOMAIN m = 1..l
  BY <1>12, <1>13, MeasuresAsk, ListIs
<1>17. \A i \in 1..z : ~(i <= k) => i - k \in 1..l
  BY <1>15
<1>18. Taken(r) = (k + 1)..z
  <2>1. ASSUME NEW i \in 1..z PROVE rows[r][i].ask.mode = "measure" <=> ~(i <= k)
    <3>1. CASE i <= k
      BY <1>7, <1>15, <3>1
    <3>2. CASE ~(i <= k)
      <4>1. p[i] = m[i - k] /\ i - k \in DOMAIN m
        BY <1>15, <1>16, <1>17, <3>2
      <4>2. p[i].mode = "measure"
        BY <1>12, <4>1, MeasuresAsk, AskFields
      <4> QED BY <1>7, <3>2, <4>2
    <3> QED BY <3>1, <3>2
  <2>2. Taken(r) = {i \in 1..z : ~(i <= k)}
    BY <1>7, <2>1 DEF Taken
  <2>3. \A i \in 1..z : ~(i <= k) <=> i >= k + 1
    OBVIOUS
  <2> QED BY <2>2, <2>3
<1>19. \A a, b \in Nat : a <= b => Cardinality((a + 1)..b) = b - a
  <2>1. ASSUME NEW a \in Nat, NEW b \in Nat, a <= b PROVE Cardinality((a + 1)..b) = b - a
    <3>1. Cardinality((a + 1)..b) = IF a + 1 > b THEN 0 ELSE b - (a + 1) + 1
      BY FS_Interval
    <3> QED BY <2>1, <3>1
  <2> QED BY <2>1
<1>20. Cardinality(Taken(r)) = l
  BY <1>15, <1>18, <1>19
<1>21. ASSUME NEW i \in Taken(r)
       PROVE  /\ rows[r][i].ask = m[Cardinality({j \in Taken(r) : j <= i})]
              /\ History(rows[r][i])
  <2>1. i \in 1..z /\ ~(i <= k) /\ k <= i /\ i \in Nat
    BY <1>18, <1>21
  <2>2. {j \in Taken(r) : j <= i} = (k + 1)..i
    BY <1>18, <2>1
  <2>3. Cardinality({j \in Taken(r) : j <= i}) = i - k
    BY <1>19, <2>1, <2>2
  <2>4. rows[r][i].ask = m[i - k]
    BY <1>7, <1>15, <2>1
  <2>5. Judged(rows[r][i].ask)
    BY <1>21 DEF Taken, Judged
  <2>6. GoodRow(rows[r][i])
    BY <1>7, <2>1, <2>5 DEF VerdictInv, RowsInv
  <2> QED BY <2>3, <2>4, <2>6 DEF GoodRow
<1> QED BY <1>1, <1>11, <1>12, <1>13, <1>20, <1>21 DEF Passes

LEMMA VerdictStart == Init => VerdictInv
<1>1. SUFFICES ASSUME Init PROVE VerdictInv
  OBVIOUS
<1>2. /\ hit = FALSE /\ verdict = "none" /\ status = [r \in Ranks |-> "none"]
      /\ pc = [r \in Ranks |-> "new"] /\ todo = [r \in Ranks |-> Baseline]
      /\ rows = [r \in Ranks |-> <<>>]
  BY <1>1 DEF Init
<1>3. ASSUME NEW r \in Ranks PROVE Planned(r, 1)
  <2>1. PICK b : b = Baseline
    OBVIOUS
  <2>2. Block(b, 0, 1) /\ FullBlock(b, 0, 1) /\ IsList(b)
    BY <2>1, BaselineBlock DEF Block
  <2>3. PICK p : p = Made(<<>>, b)
    OBVIOUS
  <2>4. p = b
    <3>1. PICK S : b \in Seq(S)
      BY <2>2 DEF IsList
    <3>2. PICK l \in Nat : l = Len(b)
      BY <3>1
    <3>3. b = [i \in 1..l |-> b[i]]
      BY <3>1, <3>2
    <3>4. Len(<<>>) = 0 /\ 0 + l = l /\ \A i \in 1..l : ~(i <= 0) /\ i - 0 = i
      OBVIOUS
    <3>5. p = [i \in 1..l |-> b[i]]
      BY <2>3, <3>2, <3>4 DEF Made
    <3> QED BY <3>3, <3>5
  <2>5. Plan(p, 1) /\ FullPlan(p, 1)
    BY <2>2, <2>4, AskedByIs DEF Plan, FullPlan, FullBlock
  <2>6. PlanOf(r) = p
    BY <1>2, <2>1, <2>3 DEF PlanOf
  <2> QED BY <2>5, <2>6 DEF Planned
<1>4. RowsInv /\ InsideInv /\ StatusInv
  BY <1>2 DEF RowsInv, InsideInv, StatusInv, Inside, Stopped
<1>5. /\ hit \in BOOLEAN /\ ~hit /\ ~(verdict # "none")
      /\ status = [r \in Ranks |-> status[r]]
  BY <1>2
<1>6. \A r \in Ranks : \E n \in 1..4 : Planned(r, n)
  <2>1. 1 \in 1..4
    OBVIOUS
  <2> QED BY <1>3, <2>1
<1> QED BY <1>4, <1>5, <1>6, Zenon DEF VerdictInv

LEMMA VerdictNext ==
  ASSUME BInv, GateInv, VerdictInv, [Next]_vars
  PROVE  verdict' # "none" => Over' /\ VerdictIsExact'
<1>1. CASE Judge
  <2>1. Over /\ verdict' = (IF \A r \in Ranks : Passes(r) THEN "PASS" ELSE "FAIL")
        /\ UNCHANGED <<pc, config, hit>>
    BY <1>1 DEF Judge, Over
  <2>2. (\A r \in Ranks : Passes(r)) <=> ~hit /\ ~config.state_only
    BY <2>1, PassingIs, FaultlessPasses
  <2>3. verdict' = "PASS" <=> \A r \in Ranks : Passes(r)
    BY <2>1
  <2> QED BY <2>1, <2>2, <2>3 DEF Over, VerdictIsExact
<1>2. CASE ~Judge
  <2>1. verdict' = verdict
    BY <1>2, SMTT(30) DEF Next, vars, Request, Packet, Agree, Construct, Report, Finish, Raise, Kill
  <2>2. Over => UNCHANGED vars
    BY <1>2 DEF Over, Next, Request, Packet, Agree, Construct, Report, Finish, Raise, Kill, Ranks
  <2>3. ASSUME UNCHANGED vars, verdict # "none" PROVE Over' /\ VerdictIsExact'
    BY <2>3 DEF VerdictInv, vars, Over, VerdictIsExact
  <2> QED BY <2>1, <2>2, <2>3, SMTT(30) DEF VerdictInv
<1> QED BY <1>1, <1>2

(* VerdictIsExact: the validator passes the two reports exactly when       *)
(* measurements were asked for and nothing went wrong outside of a warmup. *)
THEOREM JudgedExactly == Spec => []VerdictIsExact
<1>1. Init => BInv /\ GateInv /\ VerdictInv
  BY BlockInit, GateStart, VerdictStart
<1>2. ASSUME BInv, GateInv, VerdictInv, [Next]_vars PROVE BInv' /\ GateInv' /\ VerdictInv'
  <2>1. BInv' /\ GateInv'
    BY <1>2, BlockNext, GateStep DEF BInv
  <2>2. \A r \in Ranks : (\E n \in 1..4 : Planned(r, n))'
    BY <1>2, PlannedNext
  <2>3. RowsInv' /\ InsideInv'
    BY <1>2, RowsNext, InsideNext
  <2>4. StatusInv' /\ hit' \in BOOLEAN /\ status' = [r \in Ranks |-> status'[r]]
    BY <1>2, StatusNext
  <2>5. hit' => Blamed'
    BY <1>2, BlamedNext
  <2>6. verdict' # "none" => Over' /\ VerdictIsExact'
    BY <1>2, VerdictNext
  <2> QED BY <2>1, <2>2, <2>3, <2>4, <2>5, <2>6 DEF VerdictInv
<1>3. VerdictInv => VerdictIsExact
  BY DEF VerdictInv, VerdictIsExact
<1> QED BY <1>1, <1>2, <1>3, PTL DEF Spec

-----------------------------------------------------------------------------
(* A node does what the program of its mode does, or nothing of it.        *)
THEOREM NodeRunsItsPrograms == RunNode => Spec /\ C!Spec /\ R!Spec
<1>1. StartNode => Init /\ C!Init /\ R!Init
  BY DEF StartNode
<1>2. ASSUME [Offline \/ Api \/ ReadsTable]_<<mode, vars, apiVars, tableVars>>
      PROVE  [Next]_vars /\ [C!Next]_C!vars /\ [R!Next]_R!vars
  BY <1>2 DEF Offline, Api, ReadsTable, vars, apiVars, tableVars, C!vars, R!vars
<1> QED BY <1>1, <1>2, PTL DEF RunNode, Spec, C!Spec, R!Spec

(* In an offline node the ranks never wait apart, and what they measure    *)
(* passed the gate.                                                        *)
THEOREM NodeKeepsTheGate == RunNode => [](SameCollectives /\ MeasuredPassedTheGate)
BY NodeRunsItsPrograms, NeverApart, MeasuredAfterTheGate, PTL

-----------------------------------------------------------------------------
Honest(s) ==
    /\ \A r \in Regions : s.advice.claims[r] \in R!Policies =>
          s.kernel[r] = s.advice.claims[r]
    /\ s.advice.effective \in R!Policies =>
          \A r \in Regions : s.kernel[r] = s.advice.effective

\* An effective policy is the one that every range is said to have.
LEMMA EffectiveIsClaimed ==
    ASSUME NEW claims, R!Effective(claims) \in R!Policies, NEW r \in Regions
    PROVE  claims[r] = R!Effective(claims)
<1> DEFINE said == {claims[q] : q \in Regions}
<1>1. PICK c \in said : said = {c}
  BY DEF R!Effective, R!Policies
<1>2. R!Effective(claims) = c
  BY <1>1 DEF R!Effective
<1>3. claims[r] \in said
  OBVIOUS
<1> QED BY <1>1, <1>2, <1>3

LEMMA RecordedHonest ==
    ASSUME NEW s, NEW kernel, NEW claims, NEW word,
           \A r \in Regions : claims[r] \in R!Policies => kernel[r] = claims[r]
    PROVE  Honest(R!Recorded(s, kernel, claims, word))
<1> DEFINE t == R!Recorded(s, kernel, claims, word)
<1>1. /\ t.kernel = kernel
      /\ t.advice.claims = claims
      /\ t.advice.effective = R!Effective(claims)
  BY DEF R!Recorded
<1> HIDE DEF t
<1>2. Honest(t)
  BY <1>1, EffectiveIsClaimed DEF Honest
<1> QED BY <1>2 DEF t

LEMMA FreshHonest == ASSUME NEW edition PROVE Honest(R!Fresh(edition))
BY DEF Honest, R!Fresh, R!NotRequested

LEMMA AppliedHonest ==
    ASSUME NEW s, NEW policy PROVE Honest(R!Applied(s, policy))
BY RecordedHonest DEF R!Applied

\* The range that failed is unknown, those before it have the policy, and those
\* behind it what they were said to have together.
LEMMA StoppedHonest ==
    ASSUME NEW s, Honest(s), NEW policy, NEW k \in Regions
    PROVE  Honest(R!Stopped(s, policy, k))
<1> DEFINE kernel == [r \in Regions |-> IF r < k THEN policy
                                   ELSE IF r = k THEN "torn" ELSE s.kernel[r]]
<1>1. ASSUME NEW r \in Regions, R!Claims(s, policy, k)[r] \in R!Policies
      PROVE  kernel[r] = R!Claims(s, policy, k)[r]
  <2>1. CASE r < k
    BY <2>1 DEF R!Claims
  <2>2. CASE ~(r < k) /\ r = k
    BY <1>1, <2>2 DEF R!Claims, R!Policies
  <2>3. CASE ~(r < k) /\ r # k
    BY <1>1, <2>3 DEF R!Claims, Honest
  <2> QED BY <2>1, <2>2, <2>3
<1> QED BY <1>1, RecordedHonest DEF R!Stopped

LEMMA RolledBackHonest ==
    ASSUME NEW s, NEW bad PROVE Honest(R!RolledBack(s, bad))
<1> DEFINE kernel == [r \in Regions |-> IF r \in bad THEN "torn" ELSE "normal"]
           claims == [r \in Regions |-> IF r \in bad THEN "unknown" ELSE "normal"]
<1>1. \A r \in Regions : claims[r] \in R!Policies => kernel[r] = claims[r]
  BY DEF R!Policies
<1> QED BY <1>1, RecordedHonest DEF R!RolledBack

LEMMA SetAdviceHonest ==
    ASSUME NEW s, Honest(s), NEW policy, NEW t \in R!SetAdvice(s, policy)
    PROVE  Honest(t)
BY AppliedHonest, StoppedHonest, RolledBackHonest DEF R!SetAdvice

LEMMA AdviceStart == R!Init => Honest(source)
BY FreshHonest, SetAdviceHonest DEF R!Init

LEMMA AdviceStep == ASSUME Honest(source), R!Next PROVE Honest(source')
<1>1. ASSUME NEW policy, R!Prepare(policy) PROVE Honest(source')
  BY <1>1, FreshHonest, SetAdviceHonest DEF R!Prepare, R!Prepared
<1>2. ASSUME NEW policy, R!Switch(policy) PROVE Honest(source')
  BY <1>2, SetAdviceHonest DEF R!Switch
<1>3. R!Install \/ R!Close \/ R!Begin \/ R!Insert => source' = source
  BY DEF R!Install, R!Close, R!Begin, R!Insert
<1>4. R!EndsAlone \/ R!End \/ R!Replace => source' = source
  BY DEF R!EndsAlone, R!End, R!Replace
<1>5. \A ids : R!Lookup(ids) => source' = source
  BY DEF R!Lookup
<1>6. \A t : R!Gather(t) \/ R!Store(t) => source' = source
  BY DEF R!Gather, R!Store
<1>7. \A n, finished : R!Emit(n, finished) => source' = source
  BY DEF R!Emit
<1> QED
  BY <1>1, <1>2, <1>3, <1>4, <1>5, <1>6, <1>7 DEF R!Next

AdviceInv == Honest(source)

(* AdviceIsHonest: what is recorded of an madvise, in force or rolled back, *)
(* is what the kernel was told of every range.                             *)
THEOREM AdviceIsWhatTheKernelDoes == RunNode => []AdviceIsHonest
<1>1. R!Init => AdviceInv
  BY AdviceStart DEF AdviceInv
<1>2. ASSUME AdviceInv, [R!Next]_R!vars PROVE AdviceInv'
  BY <1>2, AdviceStep DEF AdviceInv, R!vars
<1>3. AdviceInv => AdviceIsHonest
  BY DEF Honest, AdviceIsHonest, R!AdviceIsHonest, AdviceInv
<1>4. R!Spec => []AdviceInv
  BY <1>1, <1>2, PTL DEF R!Spec
<1> QED BY <1>3, <1>4, NodeRunsItsPrograms, PTL

-----------------------------------------------------------------------------
LEMMA PutIs ==
  ASSUME NEW name, NEW body
  PROVE  /\ IsList(C!Put(name, body))
         /\ Elems(C!Put(name, body)) = {[name |-> name, body |-> body]}
<1> DEFINE w == [name |-> name, body |-> body]
<1>1. C!Put(name, body) = <<w>>
  BY DEF C!Put
<1> HIDE DEF w
<1>2. <<w>> \in Seq({w}) /\ DOMAIN <<w>> = {1} /\ <<w>>[1] = w
  OBVIOUS
<1>3. IsList(<<w>>) /\ Elems(<<w>>) = {w}
  BY <1>2 DEF IsList, Elems
<1> QED BY <1>1, <1>3 DEF w

LEMMA LastOfSome ==
  ASSUME NEW n \in Nat, NEW S, S \subseteq 1 .. n, S # {}
  PROVE  C!Max(S) \in S
<1> DEFINE T == {m \in Nat : \A x \in S : x <= m}
<1>1. n \in T
  OBVIOUS
<1>2. PICK m \in T : \A k \in T : m <= k
  <2> HIDE DEF T
  <2>1. T \subseteq Nat
    BY DEF T
  <2> QED BY <1>1, <2>1, NatMin
<1>3. m \in S
  <2>1. SUFFICES ASSUME m \notin S PROVE FALSE
    OBVIOUS
  <2>2. PICK x \in S : x \in 1 .. n
    OBVIOUS
  <2>3. m \in Nat /\ \A y \in S : y \in Nat /\ y <= m /\ y # m
    BY <1>2, <2>1
  <2>4. m - 1 \in Nat /\ \A y \in S : y <= m - 1
    BY <2>2, <2>3
  <2>5. m - 1 \in T /\ ~(m <= m - 1)
    BY <2>3, <2>4
  <2> QED BY <1>2, <2>5
<1>4. \A x \in S : m >= x
  BY <1>2
<1>5. \E x \in S : \A y \in S : x >= y
  BY <1>3, <1>4
<1> QED BY <1>5 DEF C!Max

LEMMA FilesAfter ==
  ASSUME NEW ws, NEW n \in Nat, NEW f \in C!Names
  PROVE  /\ \/ C!After(n, ws)[f] = files[f]
            \/ \E i \in 1 .. n : ws[i].name = f /\ C!After(n, ws)[f] = C!Whole(ws[i].body)
         /\ (\E i \in 1 .. n : ws[i].name = f) =>
               \E i \in 1 .. n : ws[i].name = f /\ C!After(n, ws)[f] = C!Whole(ws[i].body)
<1> DEFINE mine == {i \in 1 .. n : ws[i].name = f}
<1>1. C!After(n, ws)[f] = IF mine = {} THEN files[f] ELSE C!Whole(ws[C!Max(mine)].body)
  BY DEF C!After
<1>2. CASE mine = {}
  BY <1>1, <1>2
<1>3. CASE mine # {}
  <2>1. C!Max(mine) \in mine
    <3> HIDE DEF mine
    <3>1. mine \subseteq 1 .. n
      BY DEF mine
    <3> QED BY <1>3, <3>1, LastOfSome
  <2> QED BY <1>1, <1>3, <2>1
<1> QED BY <1>2, <1>3

Running == [id : Nat \ {0}, len : Lengths, at : Nat, out : Nat]

LEMMA BatchIs ==
  ASSUME req \in {C!Nobody} \cup Running, NEW b \in C!Batches
  PROVE  /\ req \in Running /\ b.id = req.id /\ b.len = req.len /\ b.at = req.at
         /\ b.sched \in Nat \ {0} /\ b.sampled \in Nat
         /\ \/ /\ req.at < req.len /\ b.before = b.at /\ b.at + b.sched <= b.len
               /\ b.sampled = IF b.at + b.sched >= b.len THEN 1 ELSE 0
            \/ /\ req.at >= req.len /\ b.before = b.len
               /\ b.sampled > 0
         /\ b.before \in Nat /\ b.len \in Lengths /\ b.len \in Nat \ {0} /\ b.at \in Nat /\ b.id \in Nat \ {0}
<1>1. req # C!Nobody /\ req \in Running
  BY DEF C!Batches
<1>2. req.len \in Nat \ {0} /\ req.at \in Nat
  BY <1>1, CaptureAssumption DEF Running
<1>3. CASE req.at < req.len
  <2> DEFINE m == C!Min({Budget, req.len - req.at})
  <2>1. m \in Nat /\ m <= req.len - req.at
    BY <1>2, <1>3, CaptureAssumption DEF C!Min
  <2>2. PICK n \in 1 .. m : b = [id |-> req.id, len |-> req.len, at |-> req.at, before |-> req.at, sched |-> n,
           sampled |-> IF req.at + n >= req.len THEN 1 ELSE 0]
    BY <1>1, <1>3 DEF C!Batches
  <2> HIDE DEF m
  <2> QED BY <1>1, <1>2, <1>3, <2>1, <2>2 DEF Running
<1>4. CASE ~(req.at < req.len)
  <2>1. PICK n \in 1 .. MaxSampled : b = [id |-> req.id, len |-> req.len, at |-> req.at, before |-> req.len,
           sched |-> MaxSampled, sampled |-> n]
    BY <1>1, <1>4 DEF C!Batches
  <2> QED BY <1>1, <1>2, <1>4, <2>1, CaptureAssumption DEF Running
<1> QED BY <1>3, <1>4

\* What each part of a step writes.
Tagged(s, tags) == IsList(s) /\ \A w \in Elems(s) : w.name[1] \in tags

LEMMA TaggedJoin ==
  ASSUME NEW s, NEW t, NEW A, NEW B, Tagged(s, A), Tagged(t, B)
  PROVE  Tagged(s \o t, A \cup B) /\ Elems(s \o t) = Elems(s) \cup Elems(t)
<1>1. IsList(s \o t) /\ Elems(s \o t) = Elems(s) \cup Elems(t)
  BY Joined DEF Tagged
<1>2. PICK u : u = s \o t
  OBVIOUS
<1>3. IsList(u) /\ Elems(u) = Elems(s) \cup Elems(t)
  BY <1>1, <1>2
<1>4. Tagged(u, A \cup B)
  BY <1>3 DEF Tagged
<1> QED BY <1>1, <1>2, <1>4, Zenon

LEMMA TaggedPut ==
  ASSUME NEW tag, NEW k, NEW body
  PROVE  /\ Tagged(C!Put(<<tag, k>>, body), {tag})
         /\ Elems(C!Put(<<tag, k>>, body)) = {[name |-> <<tag, k>>, body |-> body]}
<1>1. \A w \in {[name |-> <<tag, k>>, body |-> body]} : w.name[1] = tag
  OBVIOUS
<1> QED BY <1>1, PutIs DEF Tagged

LEMMA TaggedNone == ASSUME NEW A PROVE Tagged(<<>>, A) /\ Elems(<<>>) = {}
BY EmptyIsList DEF Tagged

LEMMA CleanParts ==
  /\ Tagged(C!RepeatCleanWrites, {"repeat"}) /\ Tagged(C!TraceCleanWrites, {"trace"})
BY TaggedPut, TaggedNone DEF C!RepeatCleanWrites, C!TraceCleanWrites

LEMMA StepParts ==
  ASSUME NEW b
  PROVE  /\ Tagged(C!KvWrites(b), {"kv"})
         /\ Tagged(C!RepeatWrites(C!Repeat1(b), b), {"repeat"})
         /\ Tagged(C!TraceWrites(C!Trace1(b)), {"trace"})
         /\ Tagged(C!StatusWrites(C!RouteApplied(C!Route1(b), b), b), {"status"})
<1>1. Tagged(C!KvWrites(b), {"kv"})
  BY TaggedPut, TaggedNone DEF C!KvWrites
<1>2. \A s : Tagged(C!RepeatWrites(s, b), {"repeat"})
  BY TaggedPut, TaggedNone DEF C!RepeatWrites
<1>3. \A s : Tagged(C!TraceWrites(s), {"trace"})
  BY TaggedPut, TaggedNone DEF C!TraceWrites
<1>4. \A s : Tagged(C!StatusWrites(s, b), {"status"})
  BY TaggedPut, TaggedNone DEF C!StatusWrites
<1> QED BY <1>1, <1>2, <1>3, <1>4

LEMMA ProfilePart ==
  ASSUME NEW s, NEW b
  PROVE  /\ Tagged(C!ProfileWrites(s, b), {"profile", "attribution"})
         /\ Elems(C!ProfileWrites(s, b)) =
              IF C!ProfileFinishes(s, b)
              THEN {[name |-> <<"profile", 0>>, body |-> [id |-> s.id, len |-> b.len, window |-> s.window]],
                    [name |-> <<"attribution", 0>>, body |-> [id |-> s.id, len |-> b.len, window |-> s.window]]}
              ELSE {}
<1>1. PICK body : body = [id |-> s.id, len |-> b.len, window |-> s.window]
  OBVIOUS
<1>2. PICK p : p = C!Put(<<"profile", 0>>, body)
  OBVIOUS
<1>3. PICK q : q = C!Put(<<"attribution", 0>>, body)
  OBVIOUS
<1>4. /\ Tagged(p, {"profile"}) /\ Tagged(q, {"attribution"})
      /\ Elems(p) = {[name |-> <<"profile", 0>>, body |-> body]}
      /\ Elems(q) = {[name |-> <<"attribution", 0>>, body |-> body]}
  BY <1>2, <1>3, TaggedPut
<1>5. /\ Tagged(p \o q, {"profile", "attribution"})
      /\ Elems(p \o q) = Elems(p) \cup Elems(q)
  <2>1. {"profile"} \cup {"attribution"} = {"profile", "attribution"}
    OBVIOUS
  <2>2. Tagged(p \o q, {"profile"} \cup {"attribution"}) /\ Elems(p \o q) = Elems(p) \cup Elems(q)
    BY <1>4, TaggedJoin
  <2> QED BY <2>1, <2>2, Zenon
<1>6. CASE C!ProfileFinishes(s, b)
  <2>1. C!ProfileWrites(s, b) = p \o q
    BY <1>1, <1>2, <1>3, <1>6, Zenon DEF C!ProfileWrites
  <2>2. Elems(p \o q) = {[name |-> <<"profile", 0>>, body |-> body],
                         [name |-> <<"attribution", 0>>, body |-> body]}
    BY <1>4, <1>5
  <2>3. /\ Tagged(C!ProfileWrites(s, b), {"profile", "attribution"})
        /\ Elems(C!ProfileWrites(s, b)) = {[name |-> <<"profile", 0>>, body |-> body],
                         [name |-> <<"attribution", 0>>, body |-> body]}
    BY <1>5, <2>1, <2>2, Zenon
  <2> QED BY <1>1, <1>6, <2>3
<1>7. CASE ~C!ProfileFinishes(s, b)
  BY <1>7, TaggedNone DEF C!ProfileWrites
<1> QED BY <1>6, <1>7

LEMMA FixturePart ==
  ASSUME NEW s, NEW b
  PROVE  /\ Tagged(C!FixtureWrites(s, b), {"fixture"})
         /\ Elems(C!FixtureWrites(s, b)) =
              IF C!Counts(s, b)
              THEN {[name |-> <<"fixture", s.call + i - 1>>,
                     body |-> [id |-> s.id, of |-> b.id, launch |-> launch]] : i \in 1 .. Layers}
              ELSE {}
<1> DEFINE w(i) == [name |-> <<"fixture", s.call + i - 1>>,
                    body |-> [id |-> s.id, of |-> b.id, launch |-> launch]]
<1>1. CASE C!Counts(s, b)
  <2>1. C!FixtureWrites(s, b) = [i \in 1 .. Layers |-> w(i)]
    BY <1>1 DEF C!FixtureWrites
  <2>2. \A i \in 1 .. Layers : w(i).name[1] = "fixture"
    OBVIOUS
  <2> HIDE DEF w
  <2>3. PICK u : u = [i \in 1 .. Layers |-> w(i)]
    OBVIOUS
  <2>4. u \in Seq({w(i) : i \in 1 .. Layers}) /\ Elems(u) = {w(i) : i \in 1 .. Layers}
    BY <2>3, CaptureAssumption DEF Elems
  <2>5. Tagged(u, {"fixture"})
    BY <2>2, <2>4 DEF Tagged, IsList
  <2>6. Elems(C!FixtureWrites(s, b)) = {w(i) : i \in 1 .. Layers} /\ Tagged(C!FixtureWrites(s, b), {"fixture"})
    BY <2>1, <2>3, <2>4, <2>5
  <2>7. {w(i) : i \in 1 .. Layers} = {[name |-> <<"fixture", s.call + i - 1>>,
                     body |-> [id |-> s.id, of |-> b.id, launch |-> launch]] : i \in 1 .. Layers}
    BY DEF w
  <2> QED BY <1>1, <2>6, <2>7, Zenon
<1>2. CASE ~C!Counts(s, b)
  BY <1>2, TaggedNone DEF C!FixtureWrites
<1> QED BY <1>1, <1>2

LEMMA CleanWritesAre ==
  /\ IsList(C!CleanWrites)
  /\ Elems(C!CleanWrites) = Elems(C!RepeatCleanWrites) \cup Elems(C!TraceCleanWrites)
<1>1. PICK s : s = C!RepeatCleanWrites
  OBVIOUS
<1>2. PICK t : t = C!TraceCleanWrites
  OBVIOUS
<1>3. IsList(s) /\ IsList(t)
  BY <1>1, <1>2, CleanParts DEF Tagged
<1>4. C!CleanWrites = s \o t
  BY <1>1, <1>2, Zenon DEF C!CleanWrites
<1>5. IsList(s \o t) /\ Elems(s \o t) = Elems(s) \cup Elems(t)
  BY <1>3, Joined
<1> QED BY <1>1, <1>2, <1>4, <1>5, Zenon

Parts(b) ==
  Elems(C!RepeatCleanWrites) \cup Elems(C!TraceCleanWrites) \cup Elems(C!KvWrites(b))
  \cup Elems(C!FixtureWrites(C!Route1(b), b)) \cup Elems(C!RepeatWrites(C!Repeat1(b), b))
  \cup Elems(C!TraceWrites(C!Trace1(b)))
  \cup Elems(C!StatusWrites(C!RouteApplied(C!Route1(b), b), b))
  \cup Elems(C!ProfileWrites(C!Profile1(b), b))

LEMMA StepWritesAre ==
  ASSUME NEW b
  PROVE  IsList(C!StepWrites(b)) /\ Elems(C!StepWrites(b)) = Parts(b)
<1>1. PICK s1 : s1 = C!CleanWrites
  OBVIOUS
<1>2. PICK s2 : s2 = C!KvWrites(b)
  OBVIOUS
<1>3. PICK s3 : s3 = C!FixtureWrites(C!Route1(b), b)
  OBVIOUS
<1>4. PICK s4 : s4 = C!RepeatWrites(C!Repeat1(b), b)
  OBVIOUS
<1>5. PICK s5 : s5 = C!TraceWrites(C!Trace1(b))
  OBVIOUS
<1>6. PICK s6 : s6 = C!StatusWrites(C!RouteApplied(C!Route1(b), b), b)
  OBVIOUS
<1>7. PICK s7 : s7 = C!ProfileWrites(C!Profile1(b), b)
  OBVIOUS
<1>8. IsList(s1) /\ IsList(s2) /\ IsList(s3) /\ IsList(s4) /\ IsList(s5) /\ IsList(s6) /\ IsList(s7)
  BY <1>1, <1>2, <1>3, <1>4, <1>5, <1>6, <1>7, CleanWritesAre, StepParts, FixturePart,
     ProfilePart DEF Tagged
<1>9. C!StepWrites(b) = s1 \o s2 \o s3 \o s4 \o s5 \o s6 \o s7
  BY <1>1, <1>2, <1>3, <1>4, <1>5, <1>6, <1>7, Zenon DEF C!StepWrites
<1>10. PICK t2 : t2 = s1 \o s2
  OBVIOUS
<1>11. PICK t3 : t3 = t2 \o s3
  OBVIOUS
<1>12. PICK t4 : t4 = t3 \o s4
  OBVIOUS
<1>13. PICK t5 : t5 = t4 \o s5
  OBVIOUS
<1>14. PICK t6 : t6 = t5 \o s6
  OBVIOUS
<1>15. PICK t7 : t7 = t6 \o s7
  OBVIOUS
<1>16. C!StepWrites(b) = t7
  BY <1>9, <1>10, <1>11, <1>12, <1>13, <1>14, <1>15, Zenon
<1>17. Joins(t2, s1, s2) /\ Joins(t3, t2, s3) /\ Joins(t4, t3, s4) /\ Joins(t5, t4, s5)
       /\ Joins(t6, t5, s6) /\ Joins(t7, t6, s7)
  BY <1>10, <1>11, <1>12, <1>13, <1>14, <1>15, Zenon DEF Joins
<1>18. IsList(t2) /\ Elems(t2) = Elems(s1) \cup Elems(s2)
  BY <1>8, <1>17, JoinedWith
<1>19. IsList(t3) /\ Elems(t3) = Elems(t2) \cup Elems(s3)
  BY <1>8, <1>17, <1>18, JoinedWith
<1>20. IsList(t4) /\ Elems(t4) = Elems(t3) \cup Elems(s4)
  BY <1>8, <1>17, <1>19, JoinedWith
<1>21. IsList(t5) /\ Elems(t5) = Elems(t4) \cup Elems(s5)
  BY <1>8, <1>17, <1>20, JoinedWith
<1>22. IsList(t6) /\ Elems(t6) = Elems(t5) \cup Elems(s6)
  BY <1>8, <1>17, <1>21, JoinedWith
<1>23. IsList(t7) /\ Elems(t7) = Elems(t6) \cup Elems(s7)
  BY <1>8, <1>17, <1>22, JoinedWith
<1>24. Elems(s1) = Elems(C!RepeatCleanWrites) \cup Elems(C!TraceCleanWrites)
  BY <1>1, CleanWritesAre
<1>25. Elems(t7) = Parts(b)
  BY <1>2, <1>3, <1>4, <1>5, <1>6, <1>7, <1>18, <1>19, <1>20, <1>21, <1>22, <1>23, <1>24
  DEF Parts
<1> QED BY <1>16, <1>23, <1>25

\* What becomes of the files: nothing, a torn one, or what is written there.
Moves(W) == \A f \in C!Names :
  \/ files'[f] = files[f]
  \/ files'[f] = C!Torn
  \/ \E w \in W : w.name = f /\ files'[f] = C!Whole(w.body)

LEMMA CutMoves ==
  ASSUME NEW ws, IsList(ws), NEW n \in 0 .. Len(ws), C!Cut(n, ws)
  PROVE  Moves(Elems(ws))
<1>1. Len(ws) \in Nat /\ DOMAIN ws = 1 .. Len(ws)
  BY ListIs
<1>2. ASSUME NEW f \in C!Names
      PROVE  \/ C!After(n, ws)[f] = files[f]
             \/ \E w \in Elems(ws) : w.name = f /\ C!After(n, ws)[f] = C!Whole(w.body)
  <2>1. \/ C!After(n, ws)[f] = files[f]
        \/ \E i \in 1 .. n : ws[i].name = f /\ C!After(n, ws)[f] = C!Whole(ws[i].body)
    BY <1>1, FilesAfter
  <2>2. \A i \in 1 .. n : ws[i] \in Elems(ws)
    BY <1>1 DEF Elems
  <2> QED BY <2>1, <2>2
<1>3. CASE files' = C!After(n, ws)
  BY <1>2, <1>3 DEF Moves
<1>4. ASSUME NEW g, files' = [C!After(n, ws) EXCEPT ![g] = C!Torn]
      PROVE  Moves(Elems(ws))
  <2>1. DOMAIN C!After(n, ws) = C!Names
    BY DEF C!After
  <2>2. \A f \in C!Names : files'[f] = C!After(n, ws)[f] \/ files'[f] = C!Torn
    BY <1>4, <2>1
  <2> QED BY <1>2, <2>2 DEF Moves
<1> QED BY <1>3, <1>4 DEF C!Cut

LEMMA WholeMoves ==
  ASSUME NEW ws, IsList(ws), files' = C!After(Len(ws), ws)
  PROVE  /\ Moves(Elems(ws))
         /\ \A f \in C!Names :
               /\ files'[f] # files[f] => \E w \in Elems(ws) : w.name = f /\ files'[f] = C!Whole(w.body)
               /\ (\E w \in Elems(ws) : w.name = f) =>
                     \E w \in Elems(ws) : w.name = f /\ files'[f] = C!Whole(w.body)
<1>1. Len(ws) \in Nat /\ DOMAIN ws = 1 .. Len(ws)
  BY ListIs
<1>2. \A w : w \in Elems(ws) <=> \E i \in 1 .. Len(ws) : w = ws[i]
  BY <1>1 DEF Elems
<1> QED BY <1>1, <1>2, FilesAfter DEF Moves

-----------------------------------------------------------------------------
ServerInv ==
  /\ issued \in Nat /\ launch \in Nat
  /\ req \in {C!Nobody} \cup Running /\ req.id <= issued
  /\ gone \subseteq 1 .. issued
  /\ req # C!Nobody => req.id \notin gone

LEMMA ServerStart == C!Init => ServerInv
BY DEF C!Init, ServerInv, C!Nobody

LEMMA Running0 == C!Nobody \notin Running /\ C!Nobody.id = 0
<1>1. C!Nobody.id = 0 /\ \A x \in Running : x.id # 0
  BY DEF C!Nobody, Running
<1> QED BY <1>1

\* What a step does of the request it was of.
LEMMA AdvanceIs ==
  ASSUME ServerInv, NEW b \in C!Batches, C!Advance(b)
  PROVE  \/ /\ req' = C!Nobody /\ gone' = {b.id} /\ b.sampled > 0
         \/ /\ req' \in Running /\ req'.id = b.id /\ req'.len = b.len /\ gone' = {}
            /\ req'.at = IF b.before < b.len THEN b.at + b.sched ELSE b.at + b.sampled
<1>1. req \in Running /\ b.id = req.id /\ b.len = req.len
  BY BatchIs DEF ServerInv
<1>2. /\ b.at \in Nat /\ b.sched \in Nat /\ b.sampled \in Nat
  BY BatchIs DEF ServerInv
<1>3. PICK next \in Nat : next = IF b.before < b.len THEN b.at + b.sched ELSE b.at + b.sampled
  BY <1>2
<1>4. PICK on : on = [id |-> req.id, len |-> req.len, out |-> req.out + b.sampled,
                     at |-> IF b.before < b.len THEN b.at + b.sched ELSE b.at + b.sampled]
  OBVIOUS
<1>5. on \in Running /\ on.id = b.id /\ on.len = b.len /\ on.at = next
  BY <1>1, <1>2, <1>3, <1>4 DEF Running
<1>6. \/ req' = on /\ gone' = {}
      \/ b.sampled > 0 /\ req' = C!Nobody /\ gone' = {b.id}
  BY <1>4 DEF C!Advance
<1> QED BY <1>3, <1>5, <1>6

LEMMA ServerStep == ASSUME ServerInv, C!Next PROVE ServerInv'
<1>1. CASE C!Arrive
  <2>1. PICK n \in Lengths : req' = [id |-> issued + 1, len |-> n, at |-> 0, out |-> 0]
    BY <1>1 DEF C!Arrive
  <2>2. issued' = issued + 1 /\ UNCHANGED <<launch, gone>>
    BY <1>1 DEF C!Arrive
  <2>3. req' \in Running /\ req'.id = issued + 1
    BY <2>1 DEF Running, ServerInv
  <2> QED BY <2>2, <2>3 DEF ServerInv
<1>2. ASSUME NEW b \in C!Batches, C!Step(b) PROVE ServerInv'
  <2>1. b.id \in 1 .. issued
    BY BatchIs DEF ServerInv, Running
  <2>2. UNCHANGED <<launch, issued>> /\ C!Advance(b)
    BY <1>2 DEF C!Step
  <2> QED BY <2>1, <2>2, AdvanceIs, Running0 DEF ServerInv
<1>3. CASE C!IdleStep
  BY <1>3 DEF C!IdleStep, ServerInv
<1>4. CASE C!Abort
  <2>1. req' = C!Nobody /\ gone' = gone \cup {req.id} /\ UNCHANGED <<launch, issued>>
    BY <1>4 DEF C!Abort
  <2>2. req.id \in 1 .. issued
    <3>1. req \in Running
      BY <1>4 DEF C!Abort, ServerInv
    <3> QED BY <3>1 DEF ServerInv, Running
  <2>3. gone' \subseteq 1 .. issued'
    BY <2>1, <2>2 DEF ServerInv
  <2>4. req'.id <= issued'
    BY <2>1, Running0 DEF ServerInv
  <2> QED BY <2>1, <2>3, <2>4 DEF ServerInv
<1>5. CASE C!Die
  BY <1>5, Running0 DEF C!Die, ServerInv
<1> QED BY <1>1, <1>2, <1>3, <1>4, <1>5 DEF C!Next

\* How the files move.
LEMMA FilesMove ==
  ASSUME C!Next
  PROVE  \/ UNCHANGED files
         \/ req = C!Nobody /\ Moves(Elems(C!CleanWrites))
         \/ \E b \in C!Batches : Moves(Parts(b))
<1>1. CASE C!Arrive \/ C!Abort
  BY <1>1 DEF C!Arrive, C!Abort
<1>2. ASSUME NEW b \in C!Batches, C!Step(b) PROVE Moves(Parts(b))
  <2>1. files' = C!After(Len(C!StepWrites(b)), C!StepWrites(b))
    BY <1>2 DEF C!Step
  <2>2. PICK ws : ws = C!StepWrites(b)
    OBVIOUS
  <2>3. IsList(ws) /\ Elems(ws) = Parts(b) /\ files' = C!After(Len(ws), ws)
    BY <2>1, <2>2, StepWritesAre
  <2> QED BY <2>3, WholeMoves
<1>3. CASE C!IdleStep
  <2>1. PICK ws : ws = C!CleanWrites
    OBVIOUS
  <2>2. IsList(ws) /\ files' = C!After(Len(ws), ws)
    BY <1>3, <2>1, CleanWritesAre DEF C!IdleStep
  <2> QED BY <1>3, <2>1, <2>2, WholeMoves DEF C!IdleStep
<1>4. CASE C!Die
  <2>1. ASSUME NEW b \in C!Batches, NEW n \in 0 .. Len(C!StepWrites(b)), C!Cut(n, C!StepWrites(b))
        PROVE  Moves(Parts(b))
    <3>1. PICK ws : ws = C!StepWrites(b)
      OBVIOUS
    <3>2. IsList(ws) /\ Elems(ws) = Parts(b) /\ n \in 0 .. Len(ws) /\ C!Cut(n, ws)
      BY <2>1, <3>1, StepWritesAre
    <3> QED BY <3>2, CutMoves
  <2>2. ASSUME NEW n \in 0 .. Len(C!CleanWrites), C!Cut(n, C!CleanWrites)
        PROVE  Moves(Elems(C!CleanWrites))
    <3>1. PICK ws : ws = C!CleanWrites
      OBVIOUS
    <3>2. IsList(ws) /\ n \in 0 .. Len(ws) /\ C!Cut(n, ws)
      BY <2>2, <3>1, CleanWritesAre
    <3> QED BY <3>1, <3>2, CutMoves
  <2> QED BY <1>4, <2>1, <2>2 DEF C!Die
<1> QED BY <1>1, <1>2, <1>3, <1>4 DEF C!Next

-----------------------------------------------------------------------------
Chunk == [of : Nat, lo : Nat, hi : Nat]
SoFar(chunks, id, n) == (chunks = <<>> /\ n = 0) \/ C!IsPromptOf(chunks, id, n)

\* A chunk that follows makes up a longer part of the prompt.
LEMMA PromptGrows ==
  ASSUME NEW chunks \in Seq(Chunk), NEW id, NEW n, NEW m, SoFar(chunks, id, n),
         NEW c \in Chunk, c.of = id, c.lo = n, c.hi = m
  PROVE  Append(chunks, c) \in Seq(Chunk) /\ C!IsPromptOf(Append(chunks, c), id, m)
<1>1. PICK longer : longer = Append(chunks, c)
  OBVIOUS
<1>2. /\ longer \in Seq(Chunk) /\ Len(longer) = Len(chunks) + 1 /\ Len(chunks) \in Nat
      /\ longer[Len(longer)] = c /\ longer # <<>>
      /\ \A i \in 1 .. Len(chunks) : longer[i] = chunks[i]
      /\ DOMAIN longer = 1 .. Len(longer) /\ DOMAIN chunks = 1 .. Len(chunks)
  BY <1>1
<1>3. \A i \in DOMAIN longer : longer[i].of = id
  BY <1>2 DEF SoFar, C!IsPromptOf
<1>4. C!Last(longer).hi = m
  BY <1>2 DEF C!Last
<1>5. CASE chunks = <<>> /\ n = 0
  <2>1. Len(longer) = 1 /\ longer[1] = c
    BY <1>2, <1>5
  <2>2. C!Contiguous(longer)
    BY <1>5, <2>1 DEF C!Contiguous
  <2> QED BY <1>1, <1>2, <1>3, <1>4, <2>2 DEF C!IsPromptOf
<1>6. CASE C!IsPromptOf(chunks, id, n)
  <2>1. Len(chunks) > 0 /\ chunks[Len(chunks)].hi = n
    BY <1>2, <1>6 DEF C!IsPromptOf, C!Last
  <2>2. C!Contiguous(longer)
    <3>1. ASSUME NEW i \in 1 .. Len(longer)
          PROVE  longer[i].lo = IF i = 1 THEN 0 ELSE longer[i - 1].hi
      <4>1. CASE i <= Len(chunks)
        <5>1. longer[i] = chunks[i] /\ (i # 1 => longer[i - 1] = chunks[i - 1])
          BY <1>2, <4>1
        <5> QED BY <1>2, <1>6, <4>1, <5>1 DEF C!IsPromptOf, C!Contiguous
      <4>2. CASE i = Len(chunks) + 1
        <5>1. longer[i] = c /\ i # 1 /\ longer[i - 1] = chunks[Len(chunks)]
          BY <1>2, <2>1, <4>2
        <5> QED BY <2>1, <5>1
      <4> QED BY <1>2, <4>1, <4>2
    <3> QED BY <3>1 DEF C!Contiguous
  <2> QED BY <1>1, <1>2, <1>3, <1>4, <2>2 DEF C!IsPromptOf
<1> QED BY <1>5, <1>6 DEF SoFar

LEMMA ChunkIs ==
  ASSUME ServerInv, NEW b \in C!Batches
  PROVE  /\ C!ChunkOf(b) \in Chunk /\ C!ChunkOf(b).of = b.id
         /\ C!ChunkOf(b).lo = b.at /\ C!ChunkOf(b).hi = b.at + b.sched
BY BatchIs DEF ServerInv, C!ChunkOf, Chunk

-----------------------------------------------------------------------------
\* The repeatability capture.
RepeatCurs == [id : Nat \ {0}, chunks : Seq(Chunk), logits : BOOLEAN, invalid : BOOLEAN]
RepeatNow ==
  /\ repeat \in [completed : Nat, cur : {C!Nobody} \cup RepeatCurs]
  /\ repeat.cur # C!Nobody =>
        /\ ~repeat.cur.logits /\ ~repeat.cur.invalid
        /\ repeat.cur.id <= issued /\ repeat.completed < MaxCompleted
        /\ \/ repeat.cur.id \in gone
           \/ /\ req # C!Nobody /\ req.id = repeat.cur.id /\ req.len = PromptTokens
              /\ 0 < req.at /\ req.at < req.len
              /\ C!IsPromptOf(repeat.cur.chunks, req.id, req.at)

LEMMA RepeatCleanedIs ==
  ASSUME ServerInv, RepeatNow
  PROVE  /\ C!RepeatCleaned \in [completed : Nat, cur : {C!Nobody} \cup RepeatCurs]
         /\ C!RepeatCleaned.cur # C!Nobody =>
               C!RepeatCleaned = repeat /\ repeat.cur.id \notin gone
         /\ \A w \in Elems(C!RepeatCleanWrites) : ~w.body.logits
<1>1. CASE C!Ended(repeat.cur, gone)
  <2>1. repeat.cur # C!Nobody
    BY <1>1, Running0 DEF C!Ended, ServerInv
  <2>2. C!RepeatCleaned = [completed |-> repeat.completed + 1, cur |-> C!Nobody]
    BY <1>1 DEF C!RepeatCleaned
  <2>3. PICK body : body = [repeat.cur EXCEPT !.invalid = TRUE]
    OBVIOUS
  <2>4. ~body.logits
    BY <2>1, <2>3 DEF RepeatNow, RepeatCurs
  <2>5. PICK n : n = repeat.completed
    OBVIOUS
  <2>6. C!RepeatCleanWrites = C!Put(<<"repeat", n>>, body)
    BY <1>1, <2>3, <2>5 DEF C!RepeatCleanWrites
  <2>7. Elems(C!RepeatCleanWrites) = {[name |-> <<"repeat", n>>, body |-> body]}
    BY <2>6, TaggedPut
  <2> QED BY <2>2, <2>4, <2>7 DEF RepeatNow
<1>2. CASE ~C!Ended(repeat.cur, gone)
  <2>1. C!RepeatCleaned = repeat /\ C!RepeatCleanWrites = <<>>
    BY <1>2 DEF C!RepeatCleaned, C!RepeatCleanWrites
  <2> QED BY <1>2, <2>1, EmptyIsList DEF RepeatNow, C!Ended
<1> QED BY <1>1, <1>2

LEMMA Repeat1Is ==
  ASSUME ServerInv, RepeatNow, NEW b \in C!Batches, NEW s, s = C!Repeat1(b)
  PROVE  /\ s \in [completed : Nat, cur : {C!Nobody} \cup RepeatCurs]
         /\ s.cur # C!Nobody =>
               /\ s.cur.id = b.id /\ b.len = PromptTokens /\ b.at < b.len
               /\ ~s.cur.logits /\ ~s.cur.invalid /\ s.completed < MaxCompleted
               /\ C!IsPromptOf(s.cur.chunks, b.id, b.at + b.sched)
               /\ b.at = 0 \/ repeat.cur.id = b.id
<1>1. /\ req \in Running /\ b.id = req.id /\ b.len = req.len /\ b.at = req.at
      /\ b.sched \in Nat \ {0} /\ b.at \in Nat /\ b.id \in Nat \ {0} /\ b.len \in Nat \ {0}
      /\ \/ b.at < b.len /\ b.before = b.at /\ b.at + b.sched <= b.len
         \/ b.at >= b.len /\ b.before = b.len
  BY BatchIs DEF ServerInv
<1>2. PICK s0 : s0 = C!RepeatCleaned
  OBVIOUS
<1>3. PICK s1 : s1 = C!RepeatArmed(s0, b)
  OBVIOUS
<1>4. s = C!RepeatInput(s1, b)
  BY <1>2, <1>3, Zenon DEF C!Repeat1
<1>5. /\ s0 \in [completed : Nat, cur : {C!Nobody} \cup RepeatCurs]
      /\ s0.cur # C!Nobody => s0 = repeat /\ repeat.cur.id \notin gone
  BY <1>2, RepeatCleanedIs
<1>6. /\ s1 \in [completed : Nat, cur : {C!Nobody} \cup RepeatCurs]
      /\ s1.cur # C!Nobody =>
            /\ s1.cur.id = b.id /\ b.len = PromptTokens /\ b.at < b.len
            /\ ~s1.cur.logits /\ ~s1.cur.invalid /\ s1.completed < MaxCompleted
            /\ SoFar(s1.cur.chunks, b.id, b.at)
            /\ b.at = 0 \/ repeat.cur.id = b.id
  <2>1. CASE s0.cur # C!Nobody
    <3>1. s1 = s0
      BY <1>3, <2>1 DEF C!RepeatArmed
    <3>2. req.id = repeat.cur.id /\ s0 = repeat
      BY <1>5, <2>1 DEF RepeatNow
    <3> QED BY <1>1, <1>5, <2>1, <3>1, <3>2 DEF RepeatNow, SoFar
  <2>2. CASE /\ s0.cur = C!Nobody /\ s0.completed < MaxCompleted
             /\ C!FirstChunk(b) /\ b.len = PromptTokens
    <3>1. PICK cur : cur = [id |-> b.id, chunks |-> <<>>, logits |-> FALSE, invalid |-> FALSE]
      OBVIOUS
    <3>2. cur \in RepeatCurs
      <4>1. <<>> \in Seq(Chunk)
        OBVIOUS
      <4> QED BY <1>1, <3>1, <4>1 DEF RepeatCurs
    <3>3. s1 = [s0 EXCEPT !.cur = cur]
      BY <1>3, <2>2, <3>1 DEF C!RepeatArmed
    <3>4. s1.cur = cur /\ s1.completed = s0.completed
          /\ s1 \in [completed : Nat, cur : {C!Nobody} \cup RepeatCurs]
      BY <1>5, <3>2, <3>3
    <3>5. b.at = 0 /\ b.at < b.len
      BY <1>1, <2>2 DEF C!FirstChunk
    <3> QED BY <2>2, <3>1, <3>4, <3>5 DEF SoFar
  <2>3. CASE /\ s0.cur = C!Nobody
             /\ ~(s0.completed < MaxCompleted /\ C!FirstChunk(b) /\ b.len = PromptTokens)
    <3>1. s1 = s0
      BY <1>3, <2>3 DEF C!RepeatArmed
    <3> QED BY <1>5, <2>3, <3>1
  <2> QED BY <2>1, <2>2, <2>3
<1>7. CASE s1.cur = C!Nobody
  <2>1. s = s1
    BY <1>4, <1>7 DEF C!RepeatInput
  <2> QED BY <1>6, <1>7, <2>1
<1>8. CASE s1.cur # C!Nobody
  <2>1. PICK longer : longer = Append(s1.cur.chunks, C!ChunkOf(b))
    OBVIOUS
  <2>2. C!ChunkOf(b).hi <= PromptTokens
    BY <1>1, <1>6, <1>8, ChunkIs
  <2>3. s = [s1 EXCEPT !.cur.chunks = longer]
    BY <1>4, <1>8, <2>1, <2>2, Zenon DEF C!RepeatInput
  <2>4. s1.cur \in RepeatCurs
    BY <1>6, <1>8
  <2>5. PICK n : n = b.at + b.sched
    OBVIOUS
  <2>6. longer \in Seq(Chunk) /\ C!IsPromptOf(longer, b.id, n)
    <3>1. s1.cur.chunks \in Seq(Chunk) /\ SoFar(s1.cur.chunks, b.id, b.at)
      BY <1>6, <1>8, <2>4 DEF RepeatCurs
    <3>2. C!ChunkOf(b) \in Chunk /\ C!ChunkOf(b).of = b.id
         /\ C!ChunkOf(b).lo = b.at /\ C!ChunkOf(b).hi = n
      BY <2>5, ChunkIs
    <3> QED BY <2>1, <3>1, <3>2, PromptGrows
  <2>7. /\ s.completed = s1.completed /\ s.cur.id = s1.cur.id /\ s.cur.chunks = longer
        /\ s.cur.logits = s1.cur.logits /\ s.cur.invalid = s1.cur.invalid
        /\ s \in [completed : Nat, cur : {C!Nobody} \cup RepeatCurs]
    BY <1>6, <2>3, <2>4, <2>6 DEF RepeatCurs
  <2> QED BY <1>6, <1>8, <2>5, <2>6, <2>7
<1> QED BY <1>7, <1>8

Record(i) == files[<<"repeat", i>>]
Compared(x) == x.is = "whole" /\ x.body.logits
RecordOk(r) ==
  /\ C!IsPromptOf(r.chunks, r.id, PromptTokens) /\ r.id \in Nat \ {0}
  /\ Full /\ ~r.invalid => Len(r.chunks) = 2
Slots == 0 .. MaxCompleted - 1

\* What is compared is of a request that is done with its prefill.
RepeatRecords ==
  \A i \in Slots : Compared(Record(i)) =>
     /\ RecordOk(Record(i).body) /\ Record(i).body.id <= issued
     /\ repeat.cur # C!Nobody => Record(i).body.id # repeat.cur.id
     /\ req # C!Nobody /\ req.at = 0 => Record(i).body.id # req.id
     /\ \A j \in Slots : j # i /\ Compared(Record(j)) =>
           Record(j).body.id # Record(i).body.id

LEMMA WhatIsWhole ==
  ASSUME NEW x, NEW body, x = C!Whole(body)
  PROVE  x.is = "whole" /\ x.body = body
BY DEF C!Whole

LEMMA TornIsNot == C!Torn.is # "whole" /\ C!Absent.is # "whole"
BY DEF C!Torn, C!Absent

LEMMA SlotNames ==
  \A i \in Slots : <<"repeat", i>> \in C!Names /\ <<"trace", i>> \in C!Names
BY DEF Slots, C!Names

\* Of the writes of a step, only those of a part are named after it.
LEMMA PartsByName ==
  ASSUME NEW b, NEW w \in Parts(b)
  PROVE  /\ w.name[1] = "repeat" => w \in Elems(C!RepeatCleanWrites)
                                       \cup Elems(C!RepeatWrites(C!Repeat1(b), b))
         /\ w.name[1] = "trace" => w \in Elems(C!TraceCleanWrites)
                                      \cup Elems(C!TraceWrites(C!Trace1(b)))
         /\ w.name[1] = "kv" => w \in Elems(C!KvWrites(b))
         /\ w.name[1] = "fixture" => w \in Elems(C!FixtureWrites(C!Route1(b), b))
         /\ w.name[1] = "status" => w \in Elems(C!StatusWrites(C!RouteApplied(C!Route1(b), b), b))
         /\ w.name[1] \in {"profile", "attribution"} =>
               w \in Elems(C!ProfileWrites(C!Profile1(b), b))
<1>1. /\ \A v \in Elems(C!RepeatCleanWrites) : v.name[1] = "repeat"
      /\ \A v \in Elems(C!TraceCleanWrites) : v.name[1] = "trace"
      /\ \A v \in Elems(C!KvWrites(b)) : v.name[1] = "kv"
      /\ \A v \in Elems(C!RepeatWrites(C!Repeat1(b), b)) : v.name[1] = "repeat"
      /\ \A v \in Elems(C!TraceWrites(C!Trace1(b))) : v.name[1] = "trace"
      /\ \A v \in Elems(C!StatusWrites(C!RouteApplied(C!Route1(b), b), b)) : v.name[1] = "status"
  BY CleanParts, StepParts DEF Tagged
<1>2. \A v \in Elems(C!FixtureWrites(C!Route1(b), b)) : v.name[1] = "fixture"
  BY FixturePart DEF Tagged
<1>3. \A v \in Elems(C!ProfileWrites(C!Profile1(b), b)) : v.name[1] \in {"profile", "attribution"}
  BY ProfilePart DEF Tagged
<1>4. PICK n : n = w.name[1]
  OBVIOUS
<1> QED BY <1>1, <1>2, <1>3, <1>4 DEF Parts

\* A record is compared after a step when it was before, or the step finished it.
LEMMA RepeatWritten ==
  ASSUME ServerInv, RepeatNow, NEW b \in C!Batches, Moves(Parts(b)), NEW s, s = C!Repeat1(b),
         NEW i \in Slots, Compared(Record(i))'
  PROVE  \/ Record(i)' = Record(i)
         \/ /\ C!RepeatFinishes(s, b) /\ i = s.completed
            /\ Record(i)'.body = C!RepeatEnd(s.cur)
<1>1. <<"repeat", i>> \in C!Names
  BY SlotNames
<1>2. PICK x : x = Record(i)'
  OBVIOUS
<1>3. x.is = "whole" /\ x.body.logits
  BY <1>2 DEF Compared
<1>4. x # C!Torn
  BY <1>3, TornIsNot
<1>5. x = Record(i) \/ \E w \in Parts(b) : w.name = <<"repeat", i>> /\ x = C!Whole(w.body)
  BY <1>1, <1>2, <1>4 DEF Moves, Record
<1>6. ASSUME NEW w \in Parts(b), w.name = <<"repeat", i>>, x = C!Whole(w.body)
      PROVE  /\ C!RepeatFinishes(s, b) /\ i = s.completed
             /\ x.body = C!RepeatEnd(s.cur)
  <2>1. w.name[1] = "repeat"
    BY <1>6
  <2>2. x.body = w.body /\ w.body.logits
    BY <1>3, <1>6, WhatIsWhole
  <2>3. w \in Elems(C!RepeatCleanWrites) \cup Elems(C!RepeatWrites(s, b))
    BY <2>1, PartsByName
  <2>4. w \notin Elems(C!RepeatCleanWrites)
    BY <2>2, RepeatCleanedIs
  <2>5. w \in Elems(C!RepeatWrites(s, b))
    BY <2>3, <2>4
  <2>6. C!RepeatFinishes(s, b)
    BY <2>5, EmptyIsList DEF C!RepeatWrites
  <2>7. PICK n : n = s.completed
    OBVIOUS
  <2>8. PICK body : body = C!RepeatEnd(s.cur)
    OBVIOUS
  <2>9. C!RepeatWrites(s, b) = C!Put(<<"repeat", n>>, body)
    BY <2>6, <2>7, <2>8 DEF C!RepeatWrites
  <2>10. w = [name |-> <<"repeat", n>>, body |-> body]
    <3>1. Elems(C!Put(<<"repeat", n>>, body)) = {[name |-> <<"repeat", n>>, body |-> body]}
      BY TaggedPut
    <3>2. w \in {[name |-> <<"repeat", n>>, body |-> body]}
      BY <2>5, <2>9, <3>1, Zenon
    <3> QED BY <3>2
  <2> QED BY <1>6, <2>2, <2>6, <2>7, <2>8, <2>10
<1> QED BY <1>2, <1>5, <1>6

LEMMA RepeatFinished ==
  ASSUME ServerInv, RepeatNow, NEW b \in C!Batches, NEW s, s = C!Repeat1(b),
         C!RepeatFinishes(s, b)
  PROVE  RecordOk(C!RepeatEnd(s.cur)) /\ C!RepeatEnd(s.cur).id = b.id
<1>1. /\ b.sched \in Nat \ {0} /\ b.at \in Nat /\ b.id \in Nat \ {0} /\ b.len \in Nat \ {0}
      /\ \/ b.at < b.len /\ b.before = b.at /\ b.at + b.sched <= b.len
         \/ b.at >= b.len /\ b.before = b.len
  BY BatchIs DEF ServerInv
<1>2. s.cur # C!Nobody
  BY <1>1, Running0 DEF C!RepeatFinishes
<1>3. /\ s.cur \in RepeatCurs /\ s.cur.id = b.id /\ b.len = PromptTokens
      /\ C!IsPromptOf(s.cur.chunks, b.id, b.at + b.sched)
  BY <1>2, Repeat1Is
<1>4. b.at + b.sched = PromptTokens
  BY <1>1, <1>3 DEF C!RepeatFinishes, C!LastChunk
<1>5. PICK invalid \in BOOLEAN : invalid = (Full /\ C!LayerChunks(s.cur) # {1, 2})
  OBVIOUS
<1>6. PICK r : r = C!RepeatEnd(s.cur)
  OBVIOUS
<1>7. r = [s.cur EXCEPT !.logits = TRUE, !.invalid = invalid]
  BY <1>5, <1>6, Zenon DEF C!RepeatEnd
<1>8. r.id = s.cur.id /\ r.chunks = s.cur.chunks /\ r.invalid = invalid
  BY <1>3, <1>7 DEF RepeatCurs
<1>9. Full /\ ~invalid => Len(s.cur.chunks) = 2
  <2>1. s.cur.chunks \in Seq(Chunk)
    BY <1>3 DEF RepeatCurs
  <2>2. PICK c \in Seq(Chunk) : c = s.cur.chunks
    BY <2>1
  <2>3. SUFFICES ASSUME DOMAIN c = {1, 2} PROVE Len(c) = 2
    BY <1>5, <2>2 DEF C!LayerChunks
  <2>4. Len(c) \in Nat /\ DOMAIN c = 1 .. Len(c)
    OBVIOUS
  <2>5. 1 .. Len(c) = {1, 2}
    BY <2>3, <2>4
  <2>6. 2 \in 1 .. Len(c) /\ 3 \notin 1 .. Len(c)
    BY <2>5
  <2> QED BY <2>4, <2>6
<1>10. RecordOk(r) /\ r.id = b.id
  BY <1>1, <1>3, <1>4, <1>8, <1>9 DEF RecordOk
<1> QED BY <1>6, <1>10

LEMMA RepeatCleanWritten ==
  ASSUME ServerInv, RepeatNow, Moves(Elems(C!CleanWrites)),
         NEW i \in Slots, Compared(Record(i))'
  PROVE  Record(i)' = Record(i)
<1>1. <<"repeat", i>> \in C!Names
  BY SlotNames
<1>2. PICK x : x = Record(i)'
  OBVIOUS
<1>3. x.is = "whole" /\ x.body.logits
  BY <1>2 DEF Compared
<1>4. x # C!Torn
  BY <1>3, TornIsNot
<1>5. \/ x = Record(i)
      \/ \E w \in Elems(C!CleanWrites) : w.name = <<"repeat", i>> /\ x = C!Whole(w.body)
  BY <1>1, <1>2, <1>4 DEF Moves, Record
<1>6. ASSUME NEW w \in Elems(C!CleanWrites), w.name = <<"repeat", i>>, x = C!Whole(w.body)
      PROVE  FALSE
  <2>1. w.name[1] = "repeat"
    BY <1>6
  <2>2. w.body.logits
    BY <1>3, <1>6, WhatIsWhole
  <2>3. w \in Elems(C!RepeatCleanWrites) \cup Elems(C!TraceCleanWrites)
    BY CleanWritesAre
  <2>4. w \notin Elems(C!TraceCleanWrites)
    <3>1. \A v \in Elems(C!TraceCleanWrites) : v.name[1] = "trace"
      BY CleanParts DEF Tagged
    <3>2. "trace" # "repeat"
      OBVIOUS
    <3> QED BY <2>1, <3>1, <3>2
  <2> QED BY <2>2, <2>3, <2>4, RepeatCleanedIs
<1> QED BY <1>2, <1>5, <1>6

RepeatInv == RepeatNow /\ RepeatRecords

LEMMA NothingWritten ==
  C!Init => \A f \in C!Names : files[f] = C!Absent
BY DEF C!Init

LEMMA RepeatStart == C!Init => RepeatInv
<1> SUFFICES ASSUME C!Init PROVE RepeatInv
  OBVIOUS
<1>1. repeat = C!NoRepeat
  BY DEF C!Init
<1>2. RepeatNow
  BY <1>1 DEF RepeatNow, C!NoRepeat
<1>3. \A i \in Slots : ~Compared(Record(i))
  BY NothingWritten, SlotNames, TornIsNot DEF Compared, Record
<1> QED BY <1>2, <1>3 DEF RepeatInv, RepeatRecords

\* What a step does of the records of requests that are done.
LEMMA RecordsGrow ==
  ASSUME ServerInv, RepeatInv, NEW b \in C!Batches, Moves(Parts(b)), issued' = issued,
         \/ repeat'.cur = C!Nobody
         \/ repeat'.cur.id = b.id /\ ~C!RepeatFinishes(C!Repeat1(b), b) /\ C!Repeat1(b).cur # C!Nobody,
         req' = C!Nobody \/ req'.at # 0
  PROVE  RepeatRecords'
<1>1. PICK s : s = C!Repeat1(b)
  OBVIOUS
<1>2. /\ req # C!Nobody /\ req.id = b.id /\ b.id # 0 /\ b.at = req.at /\ b.id \in Nat \ {0}
      /\ b.id <= issued
  BY BatchIs, Running0 DEF ServerInv
<1>3. ASSUME s.cur # C!Nobody, NEW j \in Slots, Compared(Record(j))
      PROVE  Record(j).body.id # b.id
  <2>1. b.at = 0 \/ repeat.cur.id = b.id
    BY <1>1, <1>3, Repeat1Is DEF RepeatInv
  <2>2. repeat.cur.id = b.id => repeat.cur # C!Nobody
    BY <1>2, Running0
  <2> QED BY <1>2, <1>3, <2>1, <2>2 DEF RepeatInv, RepeatRecords
<1>4. ASSUME NEW j \in Slots, Compared(Record(j))'
      PROVE  \/ Record(j)' = Record(j) /\ Compared(Record(j))
             \/ /\ C!RepeatFinishes(s, b) /\ j = s.completed /\ s.cur # C!Nobody
                /\ Record(j)'.body = C!RepeatEnd(s.cur)
  <2>1. \/ Record(j)' = Record(j)
        \/ /\ C!RepeatFinishes(s, b) /\ j = s.completed
           /\ Record(j)'.body = C!RepeatEnd(s.cur)
    BY <1>1, <1>4, RepeatWritten DEF RepeatInv
  <2>2. C!RepeatFinishes(s, b) => s.cur # C!Nobody
    BY <1>2, Running0 DEF C!RepeatFinishes
  <2>3. ASSUME Record(j)' = Record(j) PROVE Compared(Record(j))
    <3>1. PICK x : x = Record(j)'
      OBVIOUS
    <3>2. Record(j) = x /\ x.is = "whole" /\ x.body.logits
      BY <1>4, <2>3, <3>1 DEF Compared
    <3> QED BY <3>2 DEF Compared
  <2> QED BY <2>1, <2>2, <2>3
<1>5. C!RepeatFinishes(s, b) =>
         RecordOk(C!RepeatEnd(s.cur)) /\ C!RepeatEnd(s.cur).id = b.id
  BY <1>1, RepeatFinished DEF RepeatInv
<1>6. ASSUME NEW i \in Slots, Compared(Record(i))'
      PROVE  /\ RecordOk(Record(i)'.body) /\ Record(i)'.body.id <= issued'
             /\ repeat'.cur # C!Nobody => Record(i)'.body.id # repeat'.cur.id
             /\ \A j \in Slots : j # i /\ Compared(Record(j))' =>
                   Record(j)'.body.id # Record(i)'.body.id
  <2>1. CASE Record(i)' = Record(i) /\ Compared(Record(i))
    <3>1. PICK r : r = Record(i).body
      OBVIOUS
    <3>2. Record(i)'.body = r
      BY <2>1, <3>1
    <3>3. /\ RecordOk(r) /\ r.id <= issued
          /\ \A j \in Slots : j # i /\ Compared(Record(j)) => Record(j).body.id # r.id
      BY <2>1, <3>1 DEF RepeatInv, RepeatRecords
    <3>4. s.cur # C!Nobody => r.id # b.id
      BY <1>3, <2>1, <3>1
    <3>5. ASSUME NEW j \in Slots, j # i, Compared(Record(j))' PROVE Record(j)'.body.id # r.id
      BY <1>4, <1>5, <3>3, <3>4, <3>5
    <3>6. repeat'.cur # C!Nobody => r.id # repeat'.cur.id
      BY <1>1, <3>4
    <3>7. r.id <= issued'
      BY <3>3
    <3> QED BY <3>2, <3>3, <3>5, <3>6, <3>7
  <2>2. CASE /\ C!RepeatFinishes(s, b) /\ i = s.completed /\ s.cur # C!Nobody
             /\ Record(i)'.body = C!RepeatEnd(s.cur)
    <3>1. PICK r : r = C!RepeatEnd(s.cur)
      OBVIOUS
    <3>2. Record(i)'.body = r /\ RecordOk(r) /\ r.id = b.id
      BY <1>5, <2>2, <3>1
    <3>3. ASSUME NEW j \in Slots, j # i, Compared(Record(j))' PROVE Record(j)'.body.id # r.id
      BY <1>3, <1>4, <2>2, <3>2, <3>3
    <3>4. repeat'.cur = C!Nobody
      BY <1>1, <2>2
    <3> QED BY <1>2, <3>2, <3>3, <3>4
  <2> QED BY <1>4, <1>6, <2>1, <2>2
<1> QED BY <1>6 DEF RepeatRecords

\* Old records stay as they are, unless the step of b writes one.
LEMMA RecordsStay ==
  ASSUME RepeatRecords, issued' \in Nat, issued' >= issued, issued \in Nat,
         \A i \in Slots : Compared(Record(i))' => Record(i)' = Record(i),
         repeat'.cur # C!Nobody => repeat'.cur = repeat.cur,
         req' # C!Nobody /\ req'.at = 0 => req' = req \/ req'.id = issued + 1
  PROVE  RepeatRecords'
<1>1. \A i \in Slots : Compared(Record(i))' => Compared(Record(i))
  <2> SUFFICES ASSUME NEW i \in Slots, Compared(Record(i))' PROVE Compared(Record(i))
    OBVIOUS
  <2>1. PICK x : x = Record(i)'
    OBVIOUS
  <2>2. Record(i) = x
    BY <2>1
  <2> QED BY <2>1, <2>2 DEF Compared
<1>2. ASSUME NEW i \in Slots, Compared(Record(i))'
      PROVE  /\ RecordOk(Record(i)'.body) /\ Record(i)'.body.id <= issued'
             /\ repeat'.cur # C!Nobody => Record(i)'.body.id # repeat'.cur.id
             /\ req' # C!Nobody /\ req'.at = 0 => Record(i)'.body.id # req'.id
             /\ \A j \in Slots : j # i /\ Compared(Record(j))' =>
                   Record(j)'.body.id # Record(i)'.body.id
  <2>1. PICK r : r = Record(i).body
    OBVIOUS
  <2>2. Record(i)'.body = r /\ Compared(Record(i))
    BY <1>1, <1>2, <2>1
  <2>3. /\ RecordOk(r) /\ r.id <= issued /\ r.id \in Nat
        /\ repeat.cur # C!Nobody => r.id # repeat.cur.id
        /\ req # C!Nobody /\ req.at = 0 => r.id # req.id
        /\ \A j \in Slots : j # i /\ Compared(Record(j)) => Record(j).body.id # r.id
    BY <2>1, <2>2 DEF RepeatRecords, RecordOk
  <2>4. \A j \in Slots : j # i /\ Compared(Record(j))' => Record(j)'.body.id # r.id
    BY <1>1, <2>3
  <2>5. req' # C!Nobody /\ req'.at = 0 => r.id # req'.id
    BY <2>3
  <2> QED BY <2>2, <2>3, <2>4, <2>5
<1> QED BY <1>2 DEF RepeatRecords, RecordOk

LEMMA RepeatStep == ASSUME ServerInv, RepeatInv, C!Next PROVE RepeatInv'
<1> USE DEF RepeatInv
<1>0. ServerInv'
  BY ServerStep
<1>1. CASE C!Arrive
  <2>1. PICK n \in Lengths : req' = [id |-> issued + 1, len |-> n, at |-> 0, out |-> 0]
    BY <1>1 DEF C!Arrive
  <2>2. issued' = issued + 1 /\ UNCHANGED <<launch, gone, repeat, files>> /\ req = C!Nobody
    BY <1>1 DEF C!Arrive
  <2>3. RepeatNow'
    BY <2>2 DEF RepeatNow, ServerInv, RepeatCurs
  <2>4. \A i \in Slots : Record(i)' = Record(i)
    BY <2>2 DEF Record
  <2>5. req'.id = issued + 1
    BY <2>1
  <2>6. RepeatRecords'
    BY <2>2, <2>4, <2>5, RecordsStay DEF ServerInv
  <2> QED BY <2>3, <2>6
<1>2. ASSUME NEW b \in C!Batches, C!Step(b) PROVE RepeatInv'
  <2>1. PICK s : s = C!Repeat1(b)
    OBVIOUS
  <2>2. UNCHANGED <<launch, issued>> /\ C!Advance(b) /\ repeat' = C!RepeatSampled(s, b)
    BY <1>2, <2>1 DEF C!Step
  <2>3. Moves(Parts(b))
    <3>1. PICK ws : ws = C!StepWrites(b)
      OBVIOUS
    <3>2. IsList(ws) /\ Elems(ws) = Parts(b) /\ files' = C!After(Len(ws), ws)
      BY <1>2, <3>1, StepWritesAre DEF C!Step
    <3> QED BY <3>2, WholeMoves
  <2>4. /\ b.sched \in Nat \ {0} /\ b.at \in Nat /\ b.id \in Nat \ {0} /\ b.len \in Nat \ {0}
        /\ b.id <= issued /\ b.sampled \in Nat
        /\ \/ /\ b.at < b.len /\ b.before = b.at /\ b.at + b.sched <= b.len
              /\ b.sampled = IF b.at + b.sched >= b.len THEN 1 ELSE 0
           \/ b.at >= b.len /\ b.before = b.len
    BY BatchIs DEF ServerInv
  <2>5. \/ req' = C!Nobody /\ gone' = {b.id} /\ b.sampled > 0
        \/ /\ req' \in Running /\ req'.id = b.id /\ req'.len = b.len /\ gone' = {}
           /\ req'.at = IF b.before < b.len THEN b.at + b.sched ELSE b.at + b.sampled
    BY <2>2, AdvanceIs
  <2>6. req' = C!Nobody \/ req'.at # 0
    BY <2>4, <2>5
  <2>7. CASE C!RepeatFinishes(s, b)
    <3>1. repeat' = [completed |-> s.completed + 1, cur |-> C!Nobody]
      BY <2>2, <2>7 DEF C!RepeatSampled
    <3>2. repeat'.cur = C!Nobody /\ repeat' \in [completed : Nat, cur : {C!Nobody} \cup RepeatCurs]
      BY <2>1, <3>1, Repeat1Is
    <3>3. RepeatRecords'
      BY <2>2, <2>3, <2>6, <3>2, RecordsGrow
    <3> QED BY <3>2, <3>3 DEF RepeatNow
  <2>8. CASE ~C!RepeatFinishes(s, b) /\ s.cur = C!Nobody
    <3>1. repeat' = s
      BY <2>2, <2>8 DEF C!RepeatSampled
    <3>2. repeat'.cur = C!Nobody /\ repeat' \in [completed : Nat, cur : {C!Nobody} \cup RepeatCurs]
      BY <2>1, <2>8, <3>1, Repeat1Is
    <3>3. RepeatRecords'
      BY <2>2, <2>3, <2>6, <3>2, RecordsGrow
    <3> QED BY <3>2, <3>3 DEF RepeatNow
  <2>9. CASE ~C!RepeatFinishes(s, b) /\ s.cur # C!Nobody
    <3>1. repeat' = s
      BY <2>2, <2>9 DEF C!RepeatSampled
    <3>2. /\ s \in [completed : Nat, cur : {C!Nobody} \cup RepeatCurs]
          /\ s.cur.id = b.id /\ b.len = PromptTokens /\ b.at < b.len
          /\ ~s.cur.logits /\ ~s.cur.invalid /\ s.completed < MaxCompleted
          /\ C!IsPromptOf(s.cur.chunks, b.id, b.at + b.sched)
      BY <2>1, <2>9, Repeat1Is
    <3>3. b.at + b.sched < b.len /\ b.sampled = 0 /\ b.before < b.len
      BY <2>4, <2>9, <3>2 DEF C!RepeatFinishes, C!LastChunk
    <3>4. /\ req' \in Running /\ req'.id = b.id /\ req'.len = b.len /\ req'.at = b.at + b.sched
      BY <2>5, <3>3
    <3>5. req' # C!Nobody /\ 0 < req'.at /\ req'.at < req'.len
      BY <2>4, <3>3, <3>4, Running0
    <3>6. C!IsPromptOf(s.cur.chunks, req'.id, req'.at)
      BY <3>2, <3>4
    <3>7. RepeatNow'
      BY <2>2, <2>4, <3>1, <3>2, <3>4, <3>5, <3>6 DEF RepeatNow
    <3>8. RepeatRecords'
      BY <2>1, <2>2, <2>3, <2>6, <2>9, <3>1, <3>2, RecordsGrow
    <3> QED BY <3>7, <3>8
  <2> QED BY <2>7, <2>8, <2>9
<1>3. ASSUME req = C!Nobody, Moves(Elems(C!CleanWrites)), issued' = issued, req' = C!Nobody,
             repeat'.cur = C!Nobody
      PROVE  RepeatRecords'
  <2>1. \A i \in Slots : Compared(Record(i))' => Record(i)' = Record(i)
    BY <1>3, RepeatCleanWritten
  <2> QED BY <1>3, <2>1, RecordsStay DEF ServerInv
<1>4. CASE C!IdleStep
  <2>1. /\ req = C!Nobody /\ repeat' = C!RepeatCleaned /\ gone' = {}
        /\ UNCHANGED <<issued, req>>
    BY <1>4 DEF C!IdleStep
  <2>2. repeat' \in [completed : Nat, cur : {C!Nobody} \cup RepeatCurs] /\ repeat'.cur = C!Nobody
    BY <2>1, RepeatCleanedIs DEF RepeatNow
  <2>3. Moves(Elems(C!CleanWrites))
    <3>1. PICK ws : ws = C!CleanWrites
      OBVIOUS
    <3>2. IsList(ws) /\ files' = C!After(Len(ws), ws)
      BY <1>4, <3>1, CleanWritesAre DEF C!IdleStep
    <3> QED BY <3>1, <3>2, WholeMoves
  <2>4. RepeatRecords'
    BY <1>3, <2>1, <2>2, <2>3
  <2> QED BY <2>2, <2>4 DEF RepeatNow
<1>5. CASE C!Abort
  <2>1. /\ req # C!Nobody /\ req' = C!Nobody /\ gone' = gone \cup {req.id}
        /\ UNCHANGED <<issued, repeat, files>>
    BY <1>5 DEF C!Abort
  <2>2. RepeatNow'
    BY <2>1 DEF RepeatNow
  <2>3. \A i \in Slots : Record(i)' = Record(i)
    BY <2>1 DEF Record
  <2>4. RepeatRecords'
    BY <2>1, <2>3, RecordsStay DEF ServerInv
  <2> QED BY <2>2, <2>4
<1>6. CASE C!Die
  <2>1. req' = C!Nobody /\ repeat' = C!NoRepeat /\ issued' = issued
    BY <1>6 DEF C!Die
  <2>2. repeat'.cur = C!Nobody /\ repeat' \in [completed : Nat, cur : {C!Nobody} \cup RepeatCurs]
    BY <2>1 DEF C!NoRepeat
  <2>3. \/ UNCHANGED files
        \/ req = C!Nobody /\ Moves(Elems(C!CleanWrites))
        \/ \E b \in C!Batches : Moves(Parts(b))
    BY FilesMove
  <2>4. CASE UNCHANGED files
    <3>1. \A i \in Slots : Record(i)' = Record(i)
      BY <2>4 DEF Record
    <3> QED BY <2>1, <2>2, <3>1, RecordsStay DEF ServerInv, RepeatNow
  <2>5. CASE req = C!Nobody /\ Moves(Elems(C!CleanWrites))
    BY <1>3, <2>1, <2>2, <2>5 DEF RepeatNow
  <2>6. ASSUME NEW b \in C!Batches, Moves(Parts(b)) PROVE RepeatRecords'
    BY <2>1, <2>2, <2>6, RecordsGrow
  <2> QED BY <2>2, <2>3, <2>4, <2>5, <2>6 DEF RepeatNow
<1> QED BY <1>1, <1>2, <1>4, <1>5, <1>6 DEF C!Next

\* What a step is, for the captures.
LEMMA StepIs ==
  ASSUME ServerInv, NEW b \in C!Batches, C!Step(b)
  PROVE  /\ req # C!Nobody /\ req.id = b.id /\ req.len = b.len /\ req.at = b.at
         /\ b.sched \in Nat \ {0} /\ b.at \in Nat /\ b.id \in Nat \ {0} /\ b.len \in Nat \ {0}
         /\ b.id <= issued /\ b.sampled \in Nat
         /\ \/ /\ b.at < b.len /\ b.before = b.at /\ b.at + b.sched <= b.len
               /\ b.sampled = IF b.at + b.sched >= b.len THEN 1 ELSE 0
            \/ b.at >= b.len /\ b.before = b.len
         /\ UNCHANGED <<launch, issued>>
         /\ Moves(Parts(b))
         /\ \/ req' = C!Nobody /\ gone' = {b.id} /\ b.sampled > 0
            \/ /\ req' \in Running /\ req'.id = b.id /\ req'.len = b.len /\ gone' = {}
               /\ req'.at = IF b.before < b.len THEN b.at + b.sched ELSE b.at + b.sampled
<1>1. /\ req \in Running /\ req.id = b.id /\ req.len = b.len /\ req.at = b.at
      /\ b.sched \in Nat \ {0} /\ b.at \in Nat /\ b.id \in Nat \ {0} /\ b.len \in Nat \ {0}
      /\ b.sampled \in Nat
      /\ \/ /\ b.at < b.len /\ b.before = b.at /\ b.at + b.sched <= b.len
            /\ b.sampled = IF b.at + b.sched >= b.len THEN 1 ELSE 0
         \/ b.at >= b.len /\ b.before = b.len
  BY BatchIs DEF ServerInv
<1>2. b.id <= issued /\ req # C!Nobody
  BY <1>1, Running0 DEF ServerInv
<1>3. UNCHANGED <<launch, issued>> /\ C!Advance(b)
  BY DEF C!Step
<1>4. Moves(Parts(b))
  <2>1. PICK ws : ws = C!StepWrites(b)
    OBVIOUS
  <2>2. IsList(ws) /\ Elems(ws) = Parts(b) /\ files' = C!After(Len(ws), ws)
    BY <2>1, StepWritesAre DEF C!Step
  <2> QED BY <2>2, WholeMoves
<1>5. \/ req' = C!Nobody /\ gone' = {b.id} /\ b.sampled > 0
      \/ /\ req' \in Running /\ req'.id = b.id /\ req'.len = b.len /\ gone' = {}
         /\ req'.at = IF b.before < b.len THEN b.at + b.sched ELSE b.at + b.sampled
  BY <1>3, AdvanceIs
<1> QED BY <1>1, <1>2, <1>3, <1>4, <1>5

\* A whole file after a move was there before, or is written.
LEMMA WrittenOrKept ==
  ASSUME NEW W, Moves(W), NEW f \in C!Names, NEW x, x = files'[f], x.is = "whole"
  PROVE  x = files[f] \/ \E w \in W : w.name = f /\ x.body = w.body
<1>1. x # C!Torn
  BY TornIsNot
<1>2. x = files[f] \/ \E w \in W : w.name = f /\ x = C!Whole(w.body)
  BY <1>1 DEF Moves
<1> QED BY <1>2, WhatIsWhole

\* What is not of a request cleans up nothing else.
LEMMA CleanNames ==
  ASSUME NEW w \in Elems(C!CleanWrites)
  PROVE  \/ w \in Elems(C!RepeatCleanWrites) /\ w.name[1] = "repeat"
         \/ w \in Elems(C!TraceCleanWrites) /\ w.name[1] = "trace"
<1>1. w \in Elems(C!RepeatCleanWrites) \/ w \in Elems(C!TraceCleanWrites)
  BY CleanWritesAre
<1>2. /\ \A v \in Elems(C!RepeatCleanWrites) : v.name[1] = "repeat"
      /\ \A v \in Elems(C!TraceCleanWrites) : v.name[1] = "trace"
  BY CleanParts DEF Tagged
<1> QED BY <1>1, <1>2

-----------------------------------------------------------------------------
\* The one-shot capture of the cache's metadata.
Kvs == [id : Nat, done : BOOLEAN, chunks : Seq(Chunk)]
KvNow ==
  /\ kv \in Kvs /\ kv.id <= issued
  /\ kv.id = 0 =>
        /\ kv.chunks = <<>> /\ ~kv.done
        /\ req # C!Nobody /\ req.len = PromptTokens => req.at = 0
  /\ kv.id # 0 /\ kv.id = req.id /\ ~kv.done =>
        /\ req.len = PromptTokens /\ req.at < req.len
        /\ C!IsPromptOf(kv.chunks, kv.id, req.at)
KvOk(d) == d.chunks \in Seq(Chunk) /\ C!IsPromptOf(d.chunks, d.id, PromptTokens)
KvFile == C!Has(<<"kv", 0>>) => KvOk(C!Body(<<"kv", 0>>))
KvInv == KvNow /\ KvFile

LEMMA OneNames ==
  {<<"kv", 0>>, <<"status", 0>>, <<"profile", 0>>, <<"attribution", 0>>} \subseteq C!Names
BY DEF C!Names

LEMMA KvStart == C!Init => KvInv
<1> SUFFICES ASSUME C!Init PROVE KvInv
  OBVIOUS
<1>1. kv = [id |-> 0, done |-> FALSE, chunks |-> <<>>] /\ issued = 0 /\ req = C!Nobody
  BY DEF C!Init, C!NoKv
<1>2. <<>> \in Seq(Chunk)
  OBVIOUS
<1>3. KvNow
  BY <1>1, <1>2 DEF KvNow, Kvs
<1>4. KvFile
  BY NothingWritten, OneNames, TornIsNot DEF KvFile, C!Has
<1> QED BY <1>3, <1>4 DEF KvInv

\* What the capture has after a step.
LEMMA KvTaken ==
  ASSUME ServerInv, KvNow, NEW b \in C!Batches, C!KvTakes(b), NEW s, s = C!KvCaptured(b)
  PROVE  /\ s \in Kvs /\ s.id = b.id /\ s.done = C!LastChunk(b)
         /\ b.len = PromptTokens /\ b.at < b.len
         /\ C!IsPromptOf(s.chunks, b.id, b.at + b.sched)
<1>1. /\ req \in Running /\ b.id = req.id /\ b.len = req.len /\ b.at = req.at
      /\ b.sched \in Nat \ {0} /\ b.at \in Nat /\ b.id \in Nat \ {0} /\ b.len \in Nat \ {0}
      /\ \/ b.at < b.len /\ b.before = b.at /\ b.at + b.sched <= b.len
         \/ b.at >= b.len /\ b.before = b.len
  BY BatchIs DEF ServerInv
<1>2. /\ ~kv.done /\ b.len = PromptTokens /\ b.before < b.len /\ kv.id \in {0, b.id}
  BY DEF C!KvTakes
<1>3. PICK longer : longer = Append(kv.chunks, C!ChunkOf(b))
  OBVIOUS
<1>4. PICK last \in BOOLEAN : last = C!LastChunk(b)
  BY DEF C!LastChunk
<1>5. s = [id |-> b.id, done |-> last, chunks |-> longer]
  BY <1>3, <1>4 DEF C!KvCaptured
<1>6. SoFar(kv.chunks, b.id, b.at)
  BY <1>1, <1>2, Running0 DEF KvNow, SoFar
<1>7. PICK n : n = b.at + b.sched
  OBVIOUS
<1>8. longer \in Seq(Chunk) /\ C!IsPromptOf(longer, b.id, n)
  <2>1. kv.chunks \in Seq(Chunk)
    BY DEF KvNow, Kvs
  <2>2. C!ChunkOf(b) \in Chunk /\ C!ChunkOf(b).of = b.id
        /\ C!ChunkOf(b).lo = b.at /\ C!ChunkOf(b).hi = n
    BY <1>7, ChunkIs
  <2> QED BY <1>3, <1>6, <2>1, <2>2, PromptGrows
<1>9. s \in Kvs /\ s.id = b.id /\ s.done = last /\ s.chunks = longer
  BY <1>1, <1>5, <1>8 DEF Kvs
<1> QED BY <1>1, <1>2, <1>4, <1>7, <1>8, <1>9

LEMMA KvWritten ==
  ASSUME ServerInv, KvInv, NEW b \in C!Batches, Moves(Parts(b))
  PROVE  KvFile'
<1> SUFFICES ASSUME C!Has(<<"kv", 0>>)' PROVE KvOk(C!Body(<<"kv", 0>>))'
  BY DEF KvFile
<1>1. PICK x : x = files'[<<"kv", 0>>]
  OBVIOUS
<1>2. x.is = "whole" /\ C!Body(<<"kv", 0>>)' = x.body
  BY <1>1 DEF C!Has, C!Body
<1>3. x = files[<<"kv", 0>>] \/ \E w \in Parts(b) : w.name = <<"kv", 0>> /\ x.body = w.body
  BY <1>1, <1>2, OneNames, WrittenOrKept
<1>4. CASE x = files[<<"kv", 0>>]
  BY <1>2, <1>4 DEF KvInv, KvFile, C!Has, C!Body, KvOk
<1>5. ASSUME NEW w \in Parts(b), w.name = <<"kv", 0>>, x.body = w.body
      PROVE  KvOk(x.body)
  <2>1. w.name[1] = "kv"
    BY <1>5
  <2>2. w \in Elems(C!KvWrites(b))
    BY <2>1, PartsByName
  <2>3. C!KvTakes(b) /\ C!LastChunk(b)
    BY <2>2, EmptyIsList DEF C!KvWrites
  <2>4. PICK s : s = C!KvCaptured(b)
    OBVIOUS
  <2>5. PICK d : d = [id |-> b.id, chunks |-> s.chunks]
    OBVIOUS
  <2>6. w.body = d
    <3>1. C!KvWrites(b) = C!Put(<<"kv", 0>>, d)
      BY <2>3, <2>4, <2>5, Zenon DEF C!KvWrites
    <3>2. Elems(C!Put(<<"kv", 0>>, d)) = {[name |-> <<"kv", 0>>, body |-> d]}
      BY TaggedPut
    <3> QED BY <2>2, <3>1, <3>2
  <2>7. /\ s \in Kvs /\ b.len = PromptTokens
        /\ C!IsPromptOf(s.chunks, b.id, b.at + b.sched)
    BY <2>3, <2>4, KvTaken DEF KvInv
  <2>8. b.at + b.sched = PromptTokens
    BY <2>3, <2>7, BatchIs DEF ServerInv, C!LastChunk
  <2>9. d.chunks = s.chunks /\ d.id = b.id
    BY <2>5
  <2> QED BY <1>5, <2>6, <2>7, <2>8, <2>9 DEF KvOk, Kvs
<1> QED BY <1>2, <1>3, <1>4, <1>5 DEF KvOk

LEMMA KvKept == ASSUME KvInv, Moves(Elems(C!CleanWrites)) \/ UNCHANGED files PROVE KvFile'
<1>1. PICK x : x = files'[<<"kv", 0>>]
  OBVIOUS
<1>2. x = files[<<"kv", 0>>] \/ x.is # "whole"
  <2>1. ASSUME NEW w \in Elems(C!CleanWrites), w.name = <<"kv", 0>> PROVE FALSE
    <3>1. w.name[1] = "kv"
      BY <2>1
    <3> QED BY <3>1, CleanNames
  <2> QED BY <1>1, <2>1, OneNames, WrittenOrKept
<1> QED BY <1>1, <1>2 DEF KvInv, KvFile, KvOk, C!Has, C!Body

LEMMA KvStep == ASSUME ServerInv, KvInv, C!Next PROVE KvInv'
<1>1. CASE C!Arrive
  <2>1. PICK n \in Lengths : req' = [id |-> issued + 1, len |-> n, at |-> 0, out |-> 0]
    BY <1>1 DEF C!Arrive
  <2>2. issued' = issued + 1 /\ UNCHANGED <<kv, files>>
    BY <1>1 DEF C!Arrive
  <2>3. KvNow'
    <3>1. req'.id = issued + 1 /\ req'.at = 0
      BY <2>1
    <3>2. kv.id # req'.id
      BY <3>1 DEF KvInv, KvNow, ServerInv, Kvs
    <3>3. kv.id <= issued'
      BY <2>2 DEF KvInv, KvNow, ServerInv, Kvs
    <3> QED BY <2>2, <3>1, <3>2, <3>3 DEF KvInv, KvNow
  <2> QED BY <2>2, <2>3, KvKept DEF KvInv
<1>2. ASSUME NEW b \in C!Batches, C!Step(b) PROVE KvInv'
  <2>1. PICK s : s = C!KvCaptured(b)
    OBVIOUS
  <2>2. kv' = s
    BY <1>2, <2>1 DEF C!Step
  <2>3. /\ b.sched \in Nat \ {0} /\ b.at \in Nat /\ b.id \in Nat \ {0} /\ b.len \in Nat \ {0}
        /\ b.id <= issued /\ b.sampled \in Nat /\ issued' = issued /\ Moves(Parts(b))
        /\ req # C!Nobody /\ req.id = b.id /\ req.len = b.len /\ req.at = b.at
        /\ \/ b.at < b.len /\ b.before = b.at /\ b.at + b.sched <= b.len
           \/ b.at >= b.len /\ b.before = b.len
    BY <1>2, StepIs
  <2>4. \/ req' = C!Nobody
        \/ /\ req' \in Running /\ req'.id = b.id /\ req'.len = b.len
           /\ req'.at = IF b.before < b.len THEN b.at + b.sched ELSE b.at + b.sampled
    BY <1>2, StepIs
  <2>5. KvFile'
    BY <2>3, KvWritten
  <2>6. CASE C!KvTakes(b)
    <3>1. /\ s \in Kvs /\ s.id = b.id /\ s.done = C!LastChunk(b)
          /\ b.len = PromptTokens /\ b.at < b.len
          /\ C!IsPromptOf(s.chunks, b.id, b.at + b.sched)
      BY <2>1, <2>6, KvTaken DEF KvInv
    <3>2. ~s.done => b.at + b.sched < b.len
      <4>1. ~s.done => ~C!LastChunk(b)
        BY <3>1, Zenon
      <4>2. ~C!LastChunk(b) => b.at + b.sched < b.len
        BY <2>3, <3>1 DEF C!LastChunk
      <4> QED BY <4>1, <4>2
    <3>3. req' # C!Nobody => req'.at = b.at + b.sched /\ req'.len = b.len
      BY <2>3, <2>4, <3>1
    <3>4. s.id = req'.id => req' # C!Nobody
      BY <2>3, <3>1, Running0
    <3>5. KvNow'
      BY <2>2, <2>3, <3>1, <3>2, <3>3, <3>4 DEF KvNow
    <3> QED BY <2>5, <3>5 DEF KvInv
  <2>7. CASE ~C!KvTakes(b)
    <3>1. s = kv
      BY <2>1, <2>7 DEF C!KvCaptured
    <3>2. kv.id = 0 => ~(b.len = PromptTokens)
      BY <2>3, <2>7 DEF C!KvTakes, KvInv, KvNow
    <3>3. ~kv.done => kv.id # b.id
      BY <2>3, <2>7 DEF C!KvTakes, KvInv, KvNow
    <3>4. kv.id # 0 /\ kv.id = req'.id => kv.id = b.id
      BY <2>4, Running0
    <3>5. KvNow'
      BY <2>2, <2>3, <2>4, <3>1, <3>2, <3>3, <3>4 DEF KvInv, KvNow
    <3> QED BY <2>5, <3>5 DEF KvInv
  <2> QED BY <2>6, <2>7
<1>3. CASE C!IdleStep
  <2>1. UNCHANGED <<kv, req, issued>>
    BY <1>3 DEF C!IdleStep
  <2>2. Moves(Elems(C!CleanWrites))
    <3>1. PICK ws : ws = C!CleanWrites
      OBVIOUS
    <3>2. IsList(ws) /\ files' = C!After(Len(ws), ws)
      BY <1>3, <3>1, CleanWritesAre DEF C!IdleStep
    <3> QED BY <3>1, <3>2, WholeMoves
  <2> QED BY <2>1, <2>2, KvKept DEF KvInv, KvNow
<1>4. CASE C!Abort
  <2>1. req' = C!Nobody /\ UNCHANGED <<kv, files, issued>>
    BY <1>4 DEF C!Abort
  <2> QED BY <2>1, Running0, KvKept DEF KvInv, KvNow
<1>5. CASE C!Die
  <2>1. req' = C!Nobody /\ kv' = C!NoKv /\ issued' = issued
    BY <1>5 DEF C!Die
  <2>2. C!NoKv \in Kvs /\ C!NoKv.id = 0 /\ C!NoKv.chunks = <<>> /\ ~C!NoKv.done
    <3>1. <<>> \in Seq(Chunk)
      OBVIOUS
    <3> QED BY <3>1 DEF C!NoKv, Kvs
  <2>3. KvNow'
    BY <2>1, <2>2 DEF KvNow, ServerInv
  <2>4. KvFile'
    BY FilesMove, KvWritten, KvKept
  <2> QED BY <2>3, <2>4 DEF KvInv
<1> QED BY <1>1, <1>2, <1>3, <1>4, <1>5 DEF C!Next

-----------------------------------------------------------------------------
\* The one-shot profile of a prefill.
Profiles == [id : Nat, on : BOOLEAN, done : BOOLEAN, window : Seq(Chunk)]
ProfileNow ==
  /\ profile \in Profiles /\ profile.id <= issued
  /\ profile.id = 0 => profile.window = <<>> /\ ~profile.done /\ ~profile.on
  /\ profile.id # 0 /\ ~profile.done => profile.on
  /\ profile.id # 0 /\ profile.id = req.id /\ ~profile.done =>
        /\ req.len >= MinTokens /\ req.at < req.len
        /\ C!IsPromptOf(profile.window, profile.id, req.at)
ProfileNames == {<<"profile", 0>>, <<"attribution", 0>>}
ProfileOk(d) == d.len >= MinTokens /\ C!IsPromptOf(d.window, d.id, d.len)
ProfileFiles == \A f \in ProfileNames : C!Has(f) => ProfileOk(C!Body(f))
ProfileInv == ProfileNow /\ ProfileFiles

LEMMA ProfileStart == C!Init => ProfileInv
<1> SUFFICES ASSUME C!Init PROVE ProfileInv
  OBVIOUS
<1>1. /\ profile = [id |-> 0, on |-> FALSE, done |-> FALSE, window |-> <<>>]
      /\ issued = 0 /\ req = C!Nobody
  BY DEF C!Init, C!NoProfile
<1>2. <<>> \in Seq(Chunk)
  OBVIOUS
<1>3. ProfileNow
  BY <1>1, <1>2 DEF ProfileNow, Profiles
<1>4. ProfileFiles
  BY NothingWritten, OneNames, TornIsNot DEF ProfileFiles, ProfileNames, C!Has
<1> QED BY <1>3, <1>4 DEF ProfileInv

\* What the profile has before the writes of a step: all of the request's chunks.
LEMMA Profile1Is ==
  ASSUME ServerInv, ProfileNow, NEW b \in C!Batches, NEW s, s = C!Profile1(b)
  PROVE  /\ s \in Profiles /\ s.id <= issued /\ s.done = profile.done
         /\ s.id \in {profile.id, b.id}
         /\ s.id = 0 => s.window = <<>> /\ ~s.done /\ ~s.on
         /\ s.id # 0 /\ ~s.done => s.on
         /\ s.id = b.id /\ ~s.done =>
               /\ b.len >= MinTokens /\ b.at < b.len
               /\ C!IsPromptOf(s.window, b.id, b.at + b.sched)
<1>1. /\ req \in Running /\ b.id = req.id /\ b.len = req.len /\ b.at = req.at
      /\ b.sched \in Nat \ {0} /\ b.at \in Nat /\ b.id \in Nat \ {0} /\ b.len \in Nat \ {0}
      /\ \/ b.at < b.len /\ b.before = b.at /\ b.at + b.sched <= b.len
         \/ b.at >= b.len /\ b.before = b.len
  BY BatchIs DEF ServerInv
<1>2. b.id <= issued
  BY <1>1 DEF ServerInv
<1>3. PICK s1 : s1 = C!ProfileStarted(b)
  OBVIOUS
<1>4. s = C!ProfileRecorded(s1, b)
  BY <1>3 DEF C!Profile1
<1>5. /\ s1 \in Profiles /\ s1.id <= issued /\ s1.done = profile.done
      /\ s1.id \in {profile.id, b.id}
      /\ s1.id = 0 => s1.window = <<>> /\ ~s1.done /\ ~s1.on
      /\ s1.id # 0 /\ ~s1.done => s1.on
      /\ s1.id = b.id /\ ~s1.done =>
            b.len >= MinTokens /\ b.at < b.len /\ SoFar(s1.window, b.id, b.at)
  <2>1. CASE /\ ~profile.done /\ profile.id = 0
             /\ C!FirstChunk(b) /\ b.len >= MinTokens
    <3>1. s1 = [profile EXCEPT !.id = b.id, !.on = TRUE]
      BY <1>3, <2>1 DEF C!ProfileStarted
    <3>2. /\ s1 \in Profiles /\ s1.id = b.id /\ s1.on /\ s1.done = profile.done
          /\ s1.window = profile.window
      BY <1>1, <3>1 DEF ProfileNow, Profiles
    <3>3. profile.window = <<>>
      BY <2>1 DEF ProfileNow
    <3>4. b.at = 0 /\ b.at < b.len
      BY <1>1, <2>1 DEF C!FirstChunk
    <3> QED BY <1>1, <1>2, <2>1, <3>2, <3>3, <3>4 DEF SoFar
  <2>2. CASE ~(/\ ~profile.done /\ profile.id = 0
               /\ C!FirstChunk(b) /\ b.len >= MinTokens)
    <3>1. s1 = profile
      BY <1>3, <2>2 DEF C!ProfileStarted
    <3> QED BY <1>1, <3>1 DEF ProfileNow, SoFar
  <2> QED BY <2>1, <2>2
<1>6. CASE ~s1.on
  <2>1. s = s1
    BY <1>4, <1>6 DEF C!ProfileRecorded
  <2> QED BY <1>1, <1>5, <1>6, <2>1
<1>7. CASE s1.on
  <2>1. PICK longer : longer = Append(s1.window, C!ChunkOf(b))
    OBVIOUS
  <2>2. s = [s1 EXCEPT !.window = longer]
    BY <1>4, <1>7, <2>1, Zenon DEF C!ProfileRecorded
  <2>3. PICK n : n = b.at + b.sched
    OBVIOUS
  <2>4. /\ C!ChunkOf(b) \in Chunk /\ C!ChunkOf(b).of = b.id
        /\ C!ChunkOf(b).lo = b.at /\ C!ChunkOf(b).hi = n
    BY <2>3, ChunkIs
  <2>5. s1.window \in Seq(Chunk)
    BY <1>5 DEF Profiles
  <2>6. longer \in Seq(Chunk)
    BY <2>1, <2>4, <2>5
  <2>7. SoFar(s1.window, b.id, b.at) => C!IsPromptOf(longer, b.id, n)
    BY <2>1, <2>4, <2>5, PromptGrows
  <2>8. /\ s \in Profiles /\ s.id = s1.id /\ s.on = s1.on /\ s.done = s1.done
        /\ s.window = longer
    BY <1>5, <2>2, <2>6 DEF Profiles
  <2>9. s1.id # 0
    BY <1>5, <1>7
  <2> QED BY <1>5, <2>3, <2>7, <2>8, <2>9
<1> QED BY <1>6, <1>7

LEMMA ProfileWritten ==
  ASSUME ServerInv, ProfileInv, NEW b \in C!Batches, Moves(Parts(b))
  PROVE  ProfileFiles'
<1> SUFFICES ASSUME NEW f \in ProfileNames, C!Has(f)' PROVE ProfileOk(C!Body(f))'
  BY DEF ProfileFiles
<1>1. PICK x : x = files'[f]
  OBVIOUS
<1>2. x.is = "whole" /\ C!Body(f)' = x.body
  BY <1>1 DEF C!Has, C!Body
<1>3. x = files[f] \/ \E w \in Parts(b) : w.name = f /\ x.body = w.body
  BY <1>1, <1>2, OneNames, WrittenOrKept DEF ProfileNames
<1>4. CASE x = files[f]
  BY <1>2, <1>4 DEF ProfileInv, ProfileFiles, C!Has, C!Body, ProfileOk
<1>5. ASSUME NEW w \in Parts(b), w.name = f, x.body = w.body
      PROVE  ProfileOk(x.body)
  <2>1. w.name[1] \in {"profile", "attribution"}
    BY <1>5 DEF ProfileNames
  <2>2. PICK s : s = C!Profile1(b)
    OBVIOUS
  <2>3. w \in Elems(C!ProfileWrites(s, b))
    BY <2>1, <2>2, PartsByName
  <2>4. C!ProfileFinishes(s, b)
    BY <2>3, ProfilePart
  <2>5. PICK d : d = [id |-> s.id, len |-> b.len, window |-> s.window]
    OBVIOUS
  <2>6. w.body = d
    BY <2>3, <2>4, <2>5, ProfilePart
  <2>7. ~s.done /\ s.id = b.id /\ C!LastChunk(b)
    BY <2>4 DEF C!ProfileFinishes
  <2>8. b.len >= MinTokens /\ C!IsPromptOf(s.window, b.id, b.at + b.sched)
    BY <2>2, <2>7, Profile1Is DEF ProfileInv
  <2>9. b.at + b.sched = b.len
    BY <2>7, BatchIs DEF ServerInv, C!LastChunk
  <2>10. d.id = b.id /\ d.len = b.len /\ d.window = s.window
    BY <2>5, <2>7
  <2> QED BY <1>5, <2>6, <2>8, <2>9, <2>10 DEF ProfileOk
<1> QED BY <1>2, <1>3, <1>4, <1>5 DEF ProfileOk

LEMMA ProfileKept ==
  ASSUME ProfileInv, Moves(Elems(C!CleanWrites)) \/ UNCHANGED files PROVE ProfileFiles'
<1> SUFFICES ASSUME NEW f \in ProfileNames, C!Has(f)' PROVE ProfileOk(C!Body(f))'
  BY DEF ProfileFiles
<1>1. PICK x : x = files'[f]
  OBVIOUS
<1>2. x.is = "whole" /\ C!Body(f)' = x.body
  BY <1>1 DEF C!Has, C!Body
<1>3. x = files[f]
  <2>1. ASSUME NEW w \in Elems(C!CleanWrites), w.name = f PROVE FALSE
    <3>1. w.name[1] \in {"profile", "attribution"}
      BY <2>1 DEF ProfileNames
    <3> QED BY <3>1, CleanNames
  <2> QED BY <1>1, <1>2, <2>1, OneNames, WrittenOrKept DEF ProfileNames
<1> QED BY <1>2, <1>3 DEF ProfileInv, ProfileFiles, C!Has, C!Body, ProfileOk

LEMMA ProfileStep == ASSUME ServerInv, ProfileInv, C!Next PROVE ProfileInv'
<1>1. CASE C!Arrive
  <2>1. PICK n \in Lengths : req' = [id |-> issued + 1, len |-> n, at |-> 0, out |-> 0]
    BY <1>1 DEF C!Arrive
  <2>2. issued' = issued + 1 /\ UNCHANGED <<profile, files>>
    BY <1>1 DEF C!Arrive
  <2>3. profile.id # req'.id
    <3>1. req'.id = issued + 1
      BY <2>1
    <3> QED BY <3>1 DEF ProfileInv, ProfileNow, ServerInv, Profiles
  <2>4. profile.id <= issued'
    BY <2>2 DEF ProfileInv, ProfileNow, ServerInv, Profiles
  <2>5. ProfileNow'
    BY <2>2, <2>3, <2>4 DEF ProfileInv, ProfileNow
  <2> QED BY <2>2, <2>5, ProfileKept DEF ProfileInv
<1>2. ASSUME NEW b \in C!Batches, C!Step(b) PROVE ProfileInv'
  <2>1. PICK s : s = C!Profile1(b)
    OBVIOUS
  <2>2. profile' = C!ProfileFinished(s, b)
    BY <1>2, <2>1 DEF C!Step
  <2>3. /\ b.sched \in Nat \ {0} /\ b.at \in Nat /\ b.id \in Nat \ {0} /\ b.len \in Nat \ {0}
        /\ b.id <= issued /\ b.sampled \in Nat /\ issued' = issued /\ Moves(Parts(b))
        /\ req # C!Nobody /\ req.id = b.id /\ req.len = b.len /\ req.at = b.at
        /\ \/ b.at < b.len /\ b.before = b.at /\ b.at + b.sched <= b.len
           \/ b.at >= b.len /\ b.before = b.len
    BY <1>2, StepIs
  <2>4. \/ req' = C!Nobody
        \/ /\ req' \in Running /\ req'.id = b.id /\ req'.len = b.len
           /\ req'.at = IF b.before < b.len THEN b.at + b.sched ELSE b.at + b.sampled
    BY <1>2, StepIs
  <2>5. ProfileFiles'
    BY <2>3, ProfileWritten
  <2>6. /\ s \in Profiles /\ s.id <= issued /\ s.done = profile.done
        /\ s.id = 0 => s.window = <<>> /\ ~s.done /\ ~s.on
        /\ s.id # 0 /\ ~s.done => s.on
        /\ s.id = b.id /\ ~s.done =>
               /\ b.len >= MinTokens /\ b.at < b.len
               /\ C!IsPromptOf(s.window, b.id, b.at + b.sched)
    BY <2>1, Profile1Is DEF ProfileInv
  <2>7. CASE C!ProfileFinishes(s, b)
    <3>1. profile' = [s EXCEPT !.on = FALSE, !.done = TRUE]
      BY <2>2, <2>7 DEF C!ProfileFinished
    <3>2. profile' \in Profiles /\ profile'.id = s.id /\ profile'.done /\ s.id = b.id
      BY <2>6, <2>7, <3>1 DEF Profiles, C!ProfileFinishes
    <3>3. ProfileNow'
      BY <2>3, <2>6, <3>2 DEF ProfileNow
    <3> QED BY <2>5, <3>3 DEF ProfileInv
  <2>8. CASE ~C!ProfileFinishes(s, b)
    <3>1. profile' = s
      BY <2>2, <2>8 DEF C!ProfileFinished
    <3>2. ASSUME s.id # 0, s.id = req'.id, ~s.done
          PROVE  /\ req'.len >= MinTokens /\ req'.at < req'.len
                 /\ C!IsPromptOf(s.window, s.id, req'.at)
      <4>1. req' # C!Nobody
        BY <3>2, Running0
      <4>2. s.id = b.id
        BY <2>4, <3>2, <4>1
      <4>3. ~C!LastChunk(b)
        BY <2>8, <3>2, <4>2 DEF C!ProfileFinishes
      <4>4. b.at < b.len /\ b.before = b.at
        BY <2>3, <2>6, <3>2, <4>2
      <4>5. b.at + b.sched < b.len
        BY <2>3, <4>3, <4>4 DEF C!LastChunk
      <4>6. req'.at = b.at + b.sched /\ req'.len = b.len
        BY <2>4, <4>1, <4>4
      <4> QED BY <2>6, <3>2, <4>2, <4>5, <4>6
    <3>3. ProfileNow'
      BY <2>3, <2>6, <3>1, <3>2 DEF ProfileNow
    <3> QED BY <2>5, <3>3 DEF ProfileInv
  <2> QED BY <2>7, <2>8
<1>3. CASE C!IdleStep
  <2>1. UNCHANGED <<profile, req, issued>>
    BY <1>3 DEF C!IdleStep
  <2>2. Moves(Elems(C!CleanWrites))
    <3>1. PICK ws : ws = C!CleanWrites
      OBVIOUS
    <3>2. IsList(ws) /\ files' = C!After(Len(ws), ws)
      BY <1>3, <3>1, CleanWritesAre DEF C!IdleStep
    <3> QED BY <3>1, <3>2, WholeMoves
  <2> QED BY <2>1, <2>2, ProfileKept DEF ProfileInv, ProfileNow
<1>4. CASE C!Abort
  <2>1. req' = C!Nobody /\ UNCHANGED <<profile, files, issued>>
    BY <1>4 DEF C!Abort
  <2> QED BY <2>1, Running0, ProfileKept DEF ProfileInv, ProfileNow
<1>5. CASE C!Die
  <2>1. req' = C!Nobody /\ profile' = C!NoProfile /\ issued' = issued
    BY <1>5 DEF C!Die
  <2>2. /\ C!NoProfile \in Profiles /\ C!NoProfile.id = 0 /\ C!NoProfile.window = <<>>
        /\ ~C!NoProfile.done /\ ~C!NoProfile.on
    <3>1. <<>> \in Seq(Chunk)
      OBVIOUS
    <3> QED BY <3>1 DEF C!NoProfile, Profiles
  <2>3. ProfileNow'
    BY <2>1, <2>2 DEF ProfileNow, ServerInv
  <2>4. ProfileFiles'
    BY FilesMove, ProfileWritten, ProfileKept
  <2> QED BY <2>3, <2>4 DEF ProfileInv
<1> QED BY <1>1, <1>2, <1>3, <1>4, <1>5 DEF C!Next

LEMMA OneShotSuffices == KvInv /\ ProfileInv => C!OneShotIsWhole
<1> SUFFICES ASSUME KvInv, ProfileInv PROVE C!OneShotIsWhole
  OBVIOUS
<1>1. \A f \in ProfileNames : C!Has(f) => ProfileOk(C!Body(f))
  BY DEF ProfileInv, ProfileFiles
<1>2. ASSUME C!Has(<<"kv", 0>>)
      PROVE  LET d == C!Body(<<"kv", 0>>) IN
             C!IsPromptOf(d.chunks, d.id, PromptTokens)
  BY <1>2 DEF KvInv, KvFile, KvOk
<1> QED BY <1>1, <1>2, Zenon DEF C!OneShotIsWhole, ProfileNames, ProfileOk

-----------------------------------------------------------------------------
\* The fixtures of the routed layers.
Routes == [id : Nat, active : BOOLEAN, done : BOOLEAN, call : Nat, saved : SUBSET Selected]
Fixture == C!Whole([id |-> route.id, of |-> route.id, launch |-> launch])
Saved(k) == files[<<"fixture", k>>]
RouteNow ==
  /\ route \in Routes /\ route.id <= issued
  /\ ~route.active /\ ~route.done => route.saved = {}
  /\ route.active => ~route.done /\ route.id # 0
  /\ route.active /\ route.id = req.id => \A k \in route.saved : Saved(k) = Fixture
Status == files[<<"status", 0>>]
RouteStatus ==
  Status.is = "whole" =>
     /\ Status.body.launch \in Nat /\ Status.body.launch <= launch
     /\ Status.body.complete /\ Status.body.launch = launch =>
           route.done /\ \A k \in Selected : Saved(k) = Fixture
RouteInv == RouteNow /\ RouteStatus

LEMMA RouteStart == C!Init => RouteInv
<1> SUFFICES ASSUME C!Init PROVE RouteInv
  OBVIOUS
<1>1. /\ route = [id |-> 0, active |-> FALSE, done |-> FALSE, call |-> 0, saved |-> {}]
      /\ issued = 0 /\ req = C!Nobody
  BY DEF C!Init, C!NoRoute
<1>2. RouteNow
  BY <1>1 DEF RouteNow, Routes
<1>3. RouteStatus
  BY NothingWritten, OneNames, TornIsNot DEF RouteStatus, Status
<1> QED BY <1>2, <1>3 DEF RouteInv

LEMMA FixtureNames == \A k \in Selected : <<"fixture", k>> \in C!Names
BY DEF C!Names

\* What the hook has before and after the layers of a step.
LEMMA Route1Is ==
  ASSUME ServerInv, RouteNow, NEW b \in C!Batches, NEW s, s = C!Route1(b)
  PROVE  /\ s \in Routes /\ s.id <= issued /\ s.done = route.done
         /\ ~s.active => s = route
         /\ s.active => ~s.done /\ s.id # 0
         /\ s.active /\ s.id = b.id => \A k \in s.saved : Saved(k) = C!Whole([id |-> b.id, of |-> b.id, launch |-> launch])
<1>1. /\ req \in Running /\ b.id = req.id /\ b.id \in Nat \ {0} /\ b.id <= issued
  BY BatchIs DEF ServerInv
<1>2. CASE /\ ~route.done /\ ~route.active
           /\ C!FirstChunk(b) /\ b.len = PromptTokens
  <2>1. s = [C!NoRoute EXCEPT !.id = b.id, !.active = TRUE]
    BY <1>2 DEF C!Route1, C!RouteArmed
  <2>2. s \in Routes /\ s.id = b.id /\ s.active /\ ~s.done /\ s.saved = {}
    <3>1. PICK r : r = C!NoRoute
      OBVIOUS
    <3>2. r \in Routes /\ ~r.done /\ r.saved = {}
      BY <3>1 DEF C!NoRoute, Routes
    <3>3. s = [r EXCEPT !.id = b.id, !.active = TRUE]
      BY <2>1, <3>1, Zenon
    <3> QED BY <1>1, <3>2, <3>3 DEF Routes
  <2>3. s.done = route.done
    BY <1>2, <2>2 DEF Routes, RouteNow
  <2> QED BY <1>1, <2>2, <2>3
<1>3. CASE ~(/\ ~route.done /\ ~route.active
             /\ C!FirstChunk(b) /\ b.len = PromptTokens)
  <2>1. s = route
    BY <1>3 DEF C!Route1, C!RouteArmed
  <2>2. s.active /\ s.id = b.id => Fixture = C!Whole([id |-> b.id, of |-> b.id, launch |-> launch])
    BY <2>1, Zenon DEF Fixture
  <2> QED BY <1>1, <2>1, <2>2 DEF RouteNow
<1> QED BY <1>2, <1>3

LEMMA AppliedIs ==
  ASSUME NEW s \in Routes, NEW b, b.sched \in Nat, NEW t, t = C!RouteApplied(s, b)
  PROVE  /\ t \in Routes /\ t.id = s.id /\ t.active = s.active /\ t.done = s.done
         /\ t.saved = s.saved \cup (C!Calls(s, b) \cap Selected)
         /\ ~s.active => t.saved = s.saved
<1>1. PICK n \in Nat : n = IF C!Counts(s, b) THEN s.call + Layers ELSE s.call
  BY CaptureAssumption DEF Routes
<1>2. PICK m \in SUBSET Selected : m = s.saved \cup (C!Calls(s, b) \cap Selected)
  BY DEF Routes
<1>3. t = [s EXCEPT !.call = n, !.saved = m]
  BY <1>1, <1>2, Zenon DEF C!RouteApplied
<1>4. ~s.active => C!Calls(s, b) = {}
  BY DEF C!Calls, C!Counts
<1> QED BY <1>2, <1>3, <1>4 DEF Routes

\* The fixtures of the calls of a step are written as the layers ran them.
LEMMA FixturesWritten ==
  ASSUME NEW b, NEW s, s = C!Route1(b), s \in Routes,
         files' = C!After(Len(C!StepWrites(b)), C!StepWrites(b)), NEW k \in Selected
  PROVE  /\ k \in C!Calls(s, b) => Saved(k)' = C!Whole([id |-> s.id, of |-> b.id, launch |-> launch])
         /\ k \notin C!Calls(s, b) => Saved(k)' = Saved(k)
<1>1. PICK ws : ws = C!StepWrites(b)
  OBVIOUS
<1>2. IsList(ws) /\ Elems(ws) = Parts(b) /\ files' = C!After(Len(ws), ws)
  BY <1>1, StepWritesAre
<1>3. PICK f : f = <<"fixture", k>>
  OBVIOUS
<1>4. f \in C!Names /\ f[1] = "fixture"
  BY <1>3, FixtureNames
<1>5. /\ files'[f] # files[f] => \E w \in Parts(b) : w.name = f /\ files'[f] = C!Whole(w.body)
      /\ (\E w \in Parts(b) : w.name = f) =>
            \E w \in Parts(b) : w.name = f /\ files'[f] = C!Whole(w.body)
  BY <1>2, <1>4, WholeMoves
<1>6. PICK body : body = [id |-> s.id, of |-> b.id, launch |-> launch]
  OBVIOUS
<1>7. ASSUME NEW w \in Parts(b), w.name = f
      PROVE  w.body = body /\ k \in C!Calls(s, b)
  <2>1. w \in Elems(C!FixtureWrites(s, b))
    BY <1>4, <1>7, PartsByName
  <2>2. C!Counts(s, b) /\ \E i \in 1 .. Layers : w = [name |-> <<"fixture", s.call + i - 1>>, body |-> body]
    BY <1>6, <2>1, FixturePart
  <2>3. PICK i \in 1 .. Layers : w = [name |-> <<"fixture", s.call + i - 1>>, body |-> body]
    BY <2>2
  <2>4. PICK j : j = s.call + i - 1
    OBVIOUS
  <2>5. w.body = body /\ w.name = <<"fixture", j>>
    BY <2>3, <2>4
  <2>6. k = j
    BY <1>3, <1>7, <2>5
  <2>7. j \in s.call .. s.call + Layers - 1
    <3>1. PICK n \in Nat : n = s.call
      BY DEF Routes
    <3>2. Layers \in Nat /\ i \in 1 .. Layers
      BY CaptureAssumption
    <3>3. n + i - 1 \in n .. n + Layers - 1
      BY <3>2
    <3> QED BY <2>4, <3>1, <3>3
  <2> QED BY <2>2, <2>5, <2>6, <2>7 DEF C!Calls
<1>8. ASSUME k \in C!Calls(s, b)
      PROVE  \E w \in Parts(b) : w.name = f
  <2>1. C!Counts(s, b) /\ k \in s.call .. s.call + Layers - 1
    BY <1>8 DEF C!Calls
  <2>2. PICK n \in Nat : n = s.call
    BY DEF Routes
  <2>3. PICK i \in 1 .. Layers : s.call + i - 1 = k
    <3>1. k - n + 1 \in 1 .. Layers /\ n + (k - n + 1) - 1 = k
      <4>1. k \in n .. n + Layers - 1 /\ Layers \in Nat
        BY <2>1, <2>2, CaptureAssumption
      <4> QED BY <4>1
    <3> QED BY <2>2, <3>1
  <2>4. PICK w : w = [name |-> <<"fixture", s.call + i - 1>>, body |-> body]
    OBVIOUS
  <2>5. w \in Elems(C!FixtureWrites(s, b))
    BY <1>6, <2>1, <2>4, FixturePart
  <2>6. w.name = f
    BY <1>3, <2>3, <2>4
  <2>7. w \in Parts(b)
    BY <2>5 DEF Parts
  <2> QED BY <2>6, <2>7
<1>9. Saved(k)' = files'[f] /\ Saved(k) = files[f]
  BY <1>3 DEF Saved
<1> QED BY <1>5, <1>6, <1>7, <1>8, <1>9

LEMMA StatusWritten ==
  ASSUME NEW b, Moves(Parts(b)), NEW t, t = C!RouteApplied(C!Route1(b), b),
         NEW x, x = Status', x.is = "whole"
  PROVE  \/ x = Status
         \/ /\ C!RouteFinishes(t, b)
            /\ x.body.complete <=> t.saved = Selected
            /\ x.body.launch = launch
<1>1. PICK f : f = <<"status", 0>>
  OBVIOUS
<1>2. f \in C!Names /\ f[1] = "status" /\ x = files'[f] /\ Status = files[f]
  BY <1>1, OneNames DEF Status
<1>3. x = Status \/ \E w \in Parts(b) : w.name = f /\ x.body = w.body
  BY <1>2, WrittenOrKept
<1>4. ASSUME NEW w \in Parts(b), w.name = f, x.body = w.body
      PROVE  /\ C!RouteFinishes(t, b)
             /\ x.body.complete <=> t.saved = Selected
             /\ x.body.launch = launch
  <2>1. w \in Elems(C!StatusWrites(t, b))
    BY <1>2, <1>4, PartsByName
  <2>2. C!RouteFinishes(t, b)
    BY <2>1, EmptyIsList DEF C!StatusWrites
  <2>3. PICK complete \in BOOLEAN : complete = (t.saved = Selected)
    OBVIOUS
  <2>4. PICK body : body = [complete |-> complete, launch |-> launch]
    OBVIOUS
  <2>5. w.body = body
    <3>1. C!StatusWrites(t, b) = C!Put(<<"status", 0>>, body)
      BY <2>2, <2>3, <2>4, Zenon DEF C!StatusWrites
    <3>2. Elems(C!Put(<<"status", 0>>, body)) = {[name |-> <<"status", 0>>, body |-> body]}
      BY TaggedPut
    <3> QED BY <2>1, <3>1, <3>2
  <2>6. body.complete = complete /\ body.launch = launch
    BY <2>4
  <2> QED BY <1>4, <2>2, <2>3, <2>5, <2>6
<1> QED BY <1>3, <1>4

\* A step that only cleans up changes the records of requests that are over.
LEMMA IdleKeeps ==
  ASSUME C!IdleStep, NEW f \in C!Names, f[1] \notin {"repeat", "trace"}
  PROVE  files'[f] = files[f]
<1>1. PICK ws : ws = C!CleanWrites
  OBVIOUS
<1>2. IsList(ws) /\ files' = C!After(Len(ws), ws)
  BY <1>1, CleanWritesAre DEF C!IdleStep
<1>3. SUFFICES ASSUME files'[f] # files[f] PROVE FALSE
  OBVIOUS
<1>4. PICK w \in Elems(ws) : w.name = f
  BY <1>2, <1>3, WholeMoves
<1> QED BY <1>1, <1>4, CleanNames

LEMMA RouteStays ==
  ASSUME RouteInv, UNCHANGED <<route, launch>>, issued' >= issued, issued' \in Nat, issued \in Nat,
         \A k \in Selected : Saved(k)' = Saved(k), Status' = Status,
         route.id = req'.id /\ route.active => route.id = req.id
  PROVE  RouteInv'
<1>1. Fixture' = Fixture
  BY DEF Fixture
<1>2. RouteNow'
  BY <1>1 DEF RouteInv, RouteNow, Routes
<1>3. RouteStatus'
  BY <1>1 DEF RouteInv, RouteStatus
<1> QED BY <1>2, <1>3 DEF RouteInv

LEMMA RouteStepped ==
  ASSUME ServerInv, RouteInv, NEW b \in C!Batches, C!Step(b) PROVE RouteInv'
<1>1. PICK s : s = C!Route1(b)
  OBVIOUS
<1>2. PICK t : t = C!RouteApplied(s, b)
  OBVIOUS
<1>3. route' = C!RouteFinished(t, b)
  BY <1>1, <1>2 DEF C!Step
<1>4. /\ b.id \in Nat \ {0} /\ b.id <= issued /\ issued' = issued /\ launch' = launch
      /\ b.sched \in Nat /\ Moves(Parts(b))
      /\ req' # C!Nobody => req'.id = b.id
  BY StepIs
<1>5. /\ s \in Routes /\ s.id <= issued /\ s.done = route.done
      /\ ~s.active => s = route
      /\ s.active => ~s.done /\ s.id # 0
      /\ s.active /\ s.id = b.id =>
            \A k \in s.saved : Saved(k) = C!Whole([id |-> b.id, of |-> b.id, launch |-> launch])
  BY <1>1, Route1Is DEF RouteInv
<1>6. /\ t \in Routes /\ t.id = s.id /\ t.active = s.active /\ t.done = s.done
      /\ t.saved = s.saved \cup (C!Calls(s, b) \cap Selected)
      /\ ~s.active => t.saved = s.saved
  BY <1>2, <1>4, <1>5, AppliedIs
<1>7. ASSUME NEW k \in Selected
      PROVE  /\ k \in C!Calls(s, b) => Saved(k)' = C!Whole([id |-> s.id, of |-> b.id, launch |-> launch])
             /\ k \notin C!Calls(s, b) => Saved(k)' = Saved(k)
  <2>1. files' = C!After(Len(C!StepWrites(b)), C!StepWrites(b))
    BY DEF C!Step
  <2> QED BY <1>1, <1>5, <2>1, FixturesWritten
<1>8. PICK own : own = C!Whole([id |-> b.id, of |-> b.id, launch |-> launch])
  OBVIOUS
<1>9. ASSUME s.active, s.id = b.id, NEW k \in t.saved PROVE Saved(k)' = own
  <2>1. k \in Selected
    BY <1>6 DEF Routes
  <2>2. k \in C!Calls(s, b) => Saved(k)' = own
    BY <1>7, <1>8, <1>9, <2>1
  <2>3. k \notin C!Calls(s, b) => Saved(k)' = own
    BY <1>5, <1>6, <1>7, <1>8, <1>9, <2>1
  <2> QED BY <2>2, <2>3
<1>10. PICK x : x = Status'
  OBVIOUS
<1>11. x.is = "whole" =>
          \/ x = Status
          \/ /\ C!RouteFinishes(t, b)
             /\ x.body.complete <=> t.saved = Selected
             /\ x.body.launch = launch
  BY <1>1, <1>2, <1>4, <1>10, StatusWritten
<1>12. x.is = "whole" => x.body.launch \in Nat /\ x.body.launch <= launch
  BY <1>11 DEF ServerInv, RouteInv, RouteStatus
<1>13. CASE C!RouteFinishes(t, b)
  <2>1. s.active /\ s.id = b.id
    BY <1>6, <1>13 DEF C!RouteFinishes
  <2>2. route' = [t EXCEPT !.active = FALSE, !.done = TRUE]
    BY <1>3, <1>13 DEF C!RouteFinished
  <2>3. route' \in Routes /\ route'.id = b.id /\ ~route'.active /\ route'.done
    BY <1>6, <2>1, <2>2 DEF Routes
  <2>4. Fixture' = own
    BY <1>4, <1>8, <2>3 DEF Fixture
  <2>5. RouteNow'
    BY <1>4, <2>3 DEF RouteNow
  <2>6. x.is = "whole" /\ x.body.complete /\ x.body.launch = launch => t.saved = Selected
    BY <1>5, <1>11, <2>1 DEF RouteInv, RouteStatus
  <2>7. RouteStatus'
    BY <1>4, <1>9, <1>10, <1>12, <2>1, <2>3, <2>4, <2>6 DEF RouteStatus
  <2> QED BY <2>5, <2>7 DEF RouteInv
<1>14. CASE ~C!RouteFinishes(t, b)
  <2>1. route' = t
    BY <1>3, <1>14 DEF C!RouteFinished
  <2>2. ASSUME t.active, t.id = req'.id PROVE \A k \in t.saved : Saved(k)' = Fixture'
    <3>1. req' # C!Nobody
      BY <1>5, <1>6, <2>2, Running0
    <3>2. t.id = b.id
      BY <1>4, <2>2, <3>1
    <3>3. Fixture' = own
      BY <1>4, <1>8, <2>1, <3>2 DEF Fixture
    <3> QED BY <1>6, <1>9, <2>2, <3>2, <3>3
  <2>3. RouteNow'
    <3>1. ~t.active /\ ~t.done => t.saved = {}
      BY <1>5, <1>6 DEF RouteInv, RouteNow
    <3> QED BY <1>4, <1>5, <1>6, <2>1, <2>2, <3>1 DEF RouteNow
  <2>4. ASSUME x.is = "whole", x.body.complete, x.body.launch = launch
        PROVE  route'.done /\ \A k \in Selected : Saved(k)' = Fixture'
    <3>1. route.done /\ \A k \in Selected : Saved(k) = Fixture
      BY <1>11, <1>14, <2>4 DEF RouteInv, RouteStatus
    <3>2. ~s.active /\ s = route
      BY <1>5, <3>1
    <3>3. C!Calls(s, b) = {}
      BY <3>2 DEF C!Calls, C!Counts
    <3>4. \A k \in Selected : Saved(k)' = Saved(k)
      BY <1>7, <3>3
    <3>5. Fixture' = Fixture
      BY <1>4, <1>6, <2>1, <3>2 DEF Fixture
    <3> QED BY <1>6, <2>1, <3>1, <3>2, <3>4, <3>5
  <2>5. RouteStatus'
    BY <1>4, <1>10, <1>12, <2>4 DEF RouteStatus
  <2> QED BY <2>3, <2>5 DEF RouteInv
<1> QED BY <1>13, <1>14

LEMMA RouteStep == ASSUME ServerInv, RouteInv, C!Next PROVE RouteInv'
<1>1. CASE C!Arrive
  <2>1. PICK n \in Lengths : req' = [id |-> issued + 1, len |-> n, at |-> 0, out |-> 0]
    BY <1>1 DEF C!Arrive
  <2>2. issued' = issued + 1 /\ UNCHANGED <<route, launch, files>>
    BY <1>1 DEF C!Arrive
  <2>3. req'.id = issued + 1
    BY <2>1
  <2>4. route.id # req'.id
    BY <2>3 DEF RouteInv, RouteNow, ServerInv, Routes
  <2>5. Status' = Status /\ \A k \in Selected : Saved(k)' = Saved(k)
    BY <2>2 DEF Status, Saved
  <2> QED BY <2>2, <2>4, <2>5, RouteStays DEF ServerInv
<1>2. ASSUME NEW b \in C!Batches, C!Step(b) PROVE RouteInv'
  BY <1>2, RouteStepped
<1>3. CASE C!IdleStep
  <2>1. UNCHANGED <<route, launch, req, issued>>
    BY <1>3 DEF C!IdleStep
  <2>2. \A k \in Selected : Saved(k)' = Saved(k)
    <3> SUFFICES ASSUME NEW k \in Selected PROVE Saved(k)' = Saved(k)
      OBVIOUS
    <3>1. PICK f : f = <<"fixture", k>>
      OBVIOUS
    <3>2. f \in C!Names /\ f[1] = "fixture"
      BY <3>1, FixtureNames
    <3>3. files'[f] = files[f]
      BY <1>3, <3>2, IdleKeeps
    <3> QED BY <3>1, <3>3 DEF Saved
  <2>3. Status' = Status
    <3>1. PICK f : f = <<"status", 0>>
      OBVIOUS
    <3>2. f \in C!Names /\ f[1] = "status"
      BY <3>1, OneNames
    <3>3. files'[f] = files[f]
      BY <1>3, <3>2, IdleKeeps
    <3> QED BY <3>1, <3>3 DEF Status
  <2> QED BY <2>1, <2>2, <2>3, RouteStays DEF ServerInv
<1>4. CASE C!Abort
  <2>1. req' = C!Nobody /\ UNCHANGED <<route, launch, files, issued>>
    BY <1>4 DEF C!Abort
  <2>2. route.active => route.id # req'.id
    BY <2>1, Running0 DEF RouteInv, RouteNow
  <2>3. Status' = Status /\ \A k \in Selected : Saved(k)' = Saved(k)
    BY <2>1 DEF Status, Saved
  <2> QED BY <2>1, <2>2, <2>3, RouteStays DEF ServerInv
<1>5. CASE C!Die
  <2>1. route' = C!NoRoute /\ launch' = launch + 1 /\ issued' = issued
    BY <1>5 DEF C!Die
  <2>2. PICK n : n = C!NoRoute
    OBVIOUS
  <2>3. n \in Routes /\ n.id = 0 /\ ~n.active /\ n.saved = {}
    BY <2>2 DEF C!NoRoute, Routes
  <2>4. RouteNow'
    BY <2>1, <2>2, <2>3 DEF RouteNow, ServerInv
  <2>5. PICK x : x = Status'
    OBVIOUS
  <2>6. x.is = "whole" => x.body.launch \in Nat /\ x.body.launch <= launch
    <3>1. CASE UNCHANGED files
      BY <2>5, <3>1 DEF RouteInv, RouteStatus, Status
    <3>2. CASE Moves(Elems(C!CleanWrites))
      <4>1. ASSUME NEW w \in Elems(C!CleanWrites), w.name = <<"status", 0>> PROVE FALSE
        <5>1. w.name[1] = "status"
          BY <4>1
        <5> QED BY <5>1, CleanNames
      <4>2. x.is = "whole" => x = Status
        BY <2>5, <3>2, <4>1, OneNames, WrittenOrKept DEF Status
      <4> QED BY <4>2 DEF RouteInv, RouteStatus
    <3>3. ASSUME NEW b \in C!Batches, Moves(Parts(b)), x.is = "whole"
          PROVE  x.body.launch \in Nat /\ x.body.launch <= launch
      <4>1. x = Status \/ x.body.launch = launch
        BY <2>5, <3>3, StatusWritten
      <4> QED BY <3>3, <4>1 DEF RouteInv, RouteStatus, ServerInv
    <3> QED BY <3>1, <3>2, <3>3, FilesMove
  <2>7. RouteStatus'
    BY <2>1, <2>5, <2>6 DEF RouteStatus, ServerInv
  <2> QED BY <2>4, <2>7 DEF RouteInv
<1> QED BY <1>1, <1>2, <1>3, <1>4, <1>5 DEF C!Next

LEMMA RouteSuffices == RouteInv => C!FixturesAreOneRequest
<1> SUFFICES ASSUME RouteInv, C!Has(<<"status", 0>>), C!Body(<<"status", 0>>).complete,
                    C!Body(<<"status", 0>>).launch = launch
             PROVE  /\ C!FixturesAccepted
                    /\ \A k, l \in Selected :
                          LET f == C!Body(<<"fixture", k>>) IN
                          /\ f.launch = launch /\ f.of = f.id
                          /\ f.id = C!Body(<<"fixture", l>>).id
  BY DEF C!FixturesAreOneRequest
<1>1. \A k \in Selected : Saved(k) = Fixture
  BY DEF RouteInv, RouteStatus, Status, C!Has, C!Body
<1>2. PICK own : own = [id |-> route.id, of |-> route.id, launch |-> launch]
  OBVIOUS
<1>3. Fixture = C!Whole(own)
  BY <1>2, Zenon DEF Fixture
<1>4. \A k \in Selected : C!Has(<<"fixture", k>>) /\ C!Body(<<"fixture", k>>) = own
  BY <1>1, <1>3, WhatIsWhole DEF Saved, C!Has, C!Body
<1>5. own.launch = launch /\ own.of = own.id
  BY <1>2
<1> QED BY <1>4, <1>5 DEF C!FixturesAccepted

-----------------------------------------------------------------------------
\* The decode traces.
TraceSteps == [at : Nat, sched : Nat, prefix : Nat, sampled : Nat]
Traces == [id : Nat \ {0}, emitted : Nat, steps : Seq(TraceSteps)]
LedTo(step) == step.at + (IF step.at < PromptTokens THEN step.sched ELSE step.sampled)
Linked(s) ==
  /\ s # <<>> /\ s[1].at = 0 /\ s[1].prefix = 0
  /\ \A j \in 1 .. Len(s) - 1 :
        /\ s[j + 1].at = LedTo(s[j])
        /\ s[j + 1].prefix = s[j].prefix + s[j].sampled
        /\ s[j + 1].prefix < EmitCap
TraceOk(t) ==
  /\ t \in Traces /\ Linked(t.steps)
  /\ t.emitted = t.steps[Len(t.steps)].prefix + t.steps[Len(t.steps)].sampled
\* The trace tells the request up to position n.
TraceTo(t, n) == TraceOk(t) /\ LedTo(t.steps[Len(t.steps)]) = n

LEMMA LinkedGrows ==
  ASSUME NEW s \in Seq(TraceSteps), NEW step \in TraceSteps,
         \/ s = <<>> /\ step.at = 0 /\ step.prefix = 0
         \/ /\ Linked(s) /\ step.at = LedTo(s[Len(s)]) /\ step.prefix < EmitCap
            /\ step.prefix = s[Len(s)].prefix + s[Len(s)].sampled,
         NEW longer, longer = Append(s, step)
  PROVE  /\ longer \in Seq(TraceSteps) /\ Linked(longer)
         /\ Len(longer) \in Nat \ {0} /\ longer[Len(longer)] = step
<1>1. /\ longer \in Seq(TraceSteps) /\ Len(longer) = Len(s) + 1 /\ Len(s) \in Nat
      /\ longer[Len(longer)] = step /\ longer # <<>>
      /\ \A i \in 1 .. Len(s) : longer[i] = s[i]
  OBVIOUS
<1>2. CASE s = <<>> /\ step.at = 0 /\ step.prefix = 0
  BY <1>1, <1>2 DEF Linked
<1>3. CASE /\ Linked(s) /\ step.at = LedTo(s[Len(s)]) /\ step.prefix < EmitCap
           /\ step.prefix = s[Len(s)].prefix + s[Len(s)].sampled
  <2>1. Len(s) > 0
    BY <1>1, <1>3 DEF Linked
  <2>2. longer[1] = s[1]
    BY <1>1, <2>1
  <2>3. ASSUME NEW j \in 1 .. Len(longer) - 1
        PROVE  /\ longer[j + 1].at = LedTo(longer[j])
               /\ longer[j + 1].prefix = longer[j].prefix + longer[j].sampled
               /\ longer[j + 1].prefix < EmitCap
    <3>1. CASE j = Len(s)
      <4>1. longer[j + 1] = step /\ longer[j] = s[Len(s)]
        BY <1>1, <2>1, <3>1
      <4> QED BY <1>3, <4>1
    <3>2. CASE j # Len(s)
      <4>1. j \in 1 .. Len(s) - 1 /\ longer[j + 1] = s[j + 1] /\ longer[j] = s[j]
        BY <1>1, <3>2
      <4> QED BY <1>3, <4>1 DEF Linked
    <3> QED BY <3>1, <3>2
  <2> QED BY <1>1, <1>3, <2>2, <2>3 DEF Linked
<1> QED BY <1>2, <1>3, <1>1

\* The last step of s with n sampled tokens, the steps before it as they are.
SampledTo(s, n, t) ==
  /\ t \in Seq(TraceSteps) /\ Linked(t) /\ Len(t) = Len(s)
  /\ t[Len(t)].at = s[Len(s)].at /\ t[Len(t)].sched = s[Len(s)].sched
  /\ t[Len(t)].prefix = s[Len(s)].prefix /\ t[Len(t)].sampled = n

LEMMA LinkedSampled ==
  ASSUME NEW s \in Seq(TraceSteps), Linked(s), NEW n \in Nat,
         NEW t, t = [s EXCEPT ![Len(s)].sampled = n]
  PROVE  SampledTo(s, n, t)
<1> USE DEF SampledTo
<1>1. Len(s) \in Nat /\ Len(s) > 0 /\ DOMAIN s = 1 .. Len(s)
  BY DEF Linked
<1>2. PICK last \in TraceSteps : last = s[Len(s)]
  BY <1>1
<1>3. PICK next : next = [last EXCEPT !.sampled = n]
  OBVIOUS
<1>4. /\ next \in TraceSteps /\ next.at = last.at /\ next.sched = last.sched
      /\ next.prefix = last.prefix /\ next.sampled = n
  BY <1>3 DEF TraceSteps
<1>5. t = [s EXCEPT ![Len(s)] = next]
  BY <1>2, <1>3, Zenon
<1>6. /\ t \in Seq(TraceSteps) /\ Len(t) = Len(s) /\ t # <<>>
      /\ t[Len(s)] = next
      /\ \A j \in 1 .. Len(s) - 1 : t[j] = s[j]
  BY <1>1, <1>4, <1>5
<1>7. ASSUME NEW j \in 1 .. Len(t) - 1
      PROVE  /\ t[j + 1].at = LedTo(t[j])
             /\ t[j + 1].prefix = t[j].prefix + t[j].sampled
             /\ t[j + 1].prefix < EmitCap
  <2>1. t[j] = s[j] /\ t[j + 1].at = s[j + 1].at /\ t[j + 1].prefix = s[j + 1].prefix
    <3>1. CASE j + 1 = Len(s)
      BY <1>1, <1>2, <1>4, <1>6, <3>1
    <3>2. CASE j + 1 # Len(s)
      BY <1>1, <1>6, <3>2
    <3> QED BY <3>1, <3>2
  <2> QED BY <1>6, <2>1 DEF Linked
<1>8. t[1].at = 0 /\ t[1].prefix = 0
  <2>1. CASE Len(s) = 1
    BY <1>2, <1>4, <1>6, <2>1 DEF Linked
  <2>2. CASE Len(s) # 1
    BY <1>1, <1>6, <2>2 DEF Linked
  <2> QED BY <2>1, <2>2
<1> QED BY <1>2, <1>4, <1>6, <1>7, <1>8 DEF Linked

-----------------------------------------------------------------------------
TraceNow ==
  /\ trace \in [completed : Nat, cur : {C!Nobody} \cup Traces]
  /\ trace.cur # C!Nobody =>
        /\ trace.completed < MaxCompleted /\ TraceOk(trace.cur)
        /\ trace.cur.emitted < EmitCap
        /\ \/ trace.cur.id \in gone
           \/ /\ req # C!Nobody /\ req.id = trace.cur.id /\ req.len = PromptTokens
              /\ TraceTo(trace.cur, req.at)
TraceFiles == \A i \in Slots : C!Has(<<"trace", i>>) => TraceOk(C!Body(<<"trace", i>>))
TraceInv == TraceNow /\ TraceFiles

LEMMA TraceStart == C!Init => TraceInv
<1> SUFFICES ASSUME C!Init PROVE TraceInv
  OBVIOUS
<1>1. trace = [completed |-> 0, cur |-> C!Nobody]
  BY DEF C!Init, C!NoTrace
<1>2. TraceNow
  BY <1>1 DEF TraceNow
<1>3. TraceFiles
  BY NothingWritten, SlotNames, TornIsNot DEF TraceFiles, C!Has
<1> QED BY <1>2, <1>3 DEF TraceInv

LEMMA TraceCleanedIs ==
  ASSUME ServerInv, TraceNow
  PROVE  /\ C!TraceCleaned \in [completed : Nat, cur : {C!Nobody} \cup Traces]
         /\ C!TraceCleaned.cur # C!Nobody =>
               C!TraceCleaned = trace /\ trace.cur.id \notin gone
         /\ \A w \in Elems(C!TraceCleanWrites) : TraceOk(w.body)
<1>1. CASE C!Ended(trace.cur, gone)
  <2>1. trace.cur # C!Nobody
    BY <1>1, Running0 DEF C!Ended, ServerInv
  <2>2. C!TraceCleaned = [completed |-> trace.completed + 1, cur |-> C!Nobody]
    BY <1>1 DEF C!TraceCleaned
  <2>3. PICK body : body = trace.cur
    OBVIOUS
  <2>4. TraceOk(body)
    BY <2>1, <2>3 DEF TraceNow
  <2>5. PICK n : n = trace.completed
    OBVIOUS
  <2>6. C!TraceCleanWrites = C!Put(<<"trace", n>>, body)
    BY <1>1, <2>3, <2>5 DEF C!TraceCleanWrites
  <2>7. Elems(C!TraceCleanWrites) = {[name |-> <<"trace", n>>, body |-> body]}
    BY <2>6, TaggedPut
  <2> QED BY <2>2, <2>4, <2>7 DEF TraceNow
<1>2. CASE ~C!Ended(trace.cur, gone)
  <2>1. C!TraceCleaned = trace /\ C!TraceCleanWrites = <<>>
    BY <1>2 DEF C!TraceCleaned, C!TraceCleanWrites
  <2> QED BY <1>2, <2>1, EmptyIsList DEF TraceNow, C!Ended
<1> QED BY <1>1, <1>2

\* After begin_step a trace that is armed has an open step for the request.
LEMMA TraceBegunIs ==
  ASSUME ServerInv, TraceNow, NEW b \in C!Batches, NEW s, s = C!TraceBegun(C!TraceCleaned, b)
  PROVE  /\ s \in [completed : Nat, cur : {C!Nobody} \cup Traces]
         /\ s.cur # C!Nobody =>
               /\ s.cur.id = b.id /\ b.len = PromptTokens /\ s.completed < MaxCompleted
               /\ TraceOk(s.cur)
               /\ LET last == s.cur.steps[Len(s.cur.steps)] IN
                  last.at = b.at /\ last.sched = b.sched /\ last.sampled = 0
<1>1. /\ req \in Running /\ b.id = req.id /\ b.len = req.len /\ b.at = req.at
      /\ b.sched \in Nat \ {0} /\ b.at \in Nat /\ b.id \in Nat \ {0} /\ b.len \in Nat \ {0}
      /\ \/ b.at < b.len /\ b.before = b.at /\ b.at + b.sched <= b.len
         \/ b.at >= b.len /\ b.before = b.len
  BY BatchIs DEF ServerInv
<1>2. PICK s0 : s0 = C!TraceCleaned
  OBVIOUS
<1>3. /\ s0 \in [completed : Nat, cur : {C!Nobody} \cup Traces]
      /\ s0.cur # C!Nobody => s0 = trace /\ trace.cur.id \notin gone
  BY <1>2, TraceCleanedIs
<1>4. s0.cur # C!Nobody =>
         /\ s0.cur.id = b.id /\ b.len = PromptTokens /\ s0.completed < MaxCompleted
         /\ TraceTo(s0.cur, b.at) /\ s0.cur.emitted < EmitCap
  BY <1>1, <1>3 DEF TraceNow
<1>5. CASE s0.completed >= MaxCompleted
  <2>1. s = s0
    BY <1>2, <1>5 DEF C!TraceBegun
  <2>2. s0.cur = C!Nobody
    BY <1>3, <1>4, <1>5, CaptureAssumption
  <2> QED BY <1>3, <2>1, <2>2
<1>6. CASE ~(s0.completed >= MaxCompleted)
  <2>0. s0.completed < MaxCompleted
    BY <1>3, <1>6, CaptureAssumption
  <2>1. PICK armed : armed = IF s0.cur = C!Nobody /\ C!FirstChunk(b) /\ b.len = PromptTokens
                             THEN [id |-> b.id, emitted |-> 0, steps |-> <<>>]
                             ELSE s0.cur
    OBVIOUS
  <2>2. PICK step : step = [at |-> b.at, sched |-> b.sched, prefix |-> armed.emitted, sampled |-> 0]
    OBVIOUS
  <2>3. s = IF armed.id # b.id THEN [s0 EXCEPT !.cur = armed]
            ELSE [s0 EXCEPT !.cur = [armed EXCEPT !.steps = Append(@, step)]]
    BY <1>2, <1>6, <2>1, <2>2, Zenon DEF C!TraceBegun
  <2>4. CASE armed = C!Nobody
    <3>1. armed.id # b.id
      BY <1>1, <2>4, Running0
    <3>2. s = [s0 EXCEPT !.cur = C!Nobody]
      BY <2>3, <2>4, <3>1
    <3> QED BY <1>3, <3>2
  <2>5. CASE armed # C!Nobody
    <3>1. /\ armed \in Traces /\ armed.id = b.id /\ b.len = PromptTokens
          /\ step \in TraceSteps /\ step.at = b.at /\ step.sched = b.sched
          /\ step.prefix = armed.emitted /\ step.sampled = 0
          /\ \/ armed.steps = <<>> /\ step.at = 0 /\ step.prefix = 0
             \/ /\ Linked(armed.steps) /\ step.at = LedTo(armed.steps[Len(armed.steps)])
                /\ step.prefix < EmitCap
                /\ step.prefix = armed.steps[Len(armed.steps)].prefix
                                   + armed.steps[Len(armed.steps)].sampled
      <4>1. CASE s0.cur = C!Nobody /\ C!FirstChunk(b) /\ b.len = PromptTokens
        <5>1. armed = [id |-> b.id, emitted |-> 0, steps |-> <<>>]
          BY <2>1, <4>1
        <5>2. <<>> \in Seq(TraceSteps)
          OBVIOUS
        <5>3. armed \in Traces /\ armed.id = b.id /\ armed.emitted = 0 /\ armed.steps = <<>>
          BY <1>1, <5>1, <5>2 DEF Traces
        <5>4. b.at = 0
          BY <1>1, <4>1 DEF C!FirstChunk
        <5> QED BY <1>1, <2>2, <4>1, <5>3, <5>4 DEF TraceSteps
      <4>2. CASE ~(s0.cur = C!Nobody /\ C!FirstChunk(b) /\ b.len = PromptTokens)
        <5>1. armed = s0.cur
          BY <2>1, <4>2
        <5>2. armed \in Traces
          BY <1>3, <2>5, <5>1
        <5>3. step \in TraceSteps /\ step.at = b.at /\ step.sched = b.sched
              /\ step.prefix = armed.emitted /\ step.sampled = 0
          BY <1>1, <2>2, <5>2 DEF TraceSteps, Traces
        <5> QED BY <1>4, <2>5, <5>1, <5>2, <5>3 DEF TraceTo, TraceOk
      <4> QED BY <4>1, <4>2
    <3>2. PICK longer : longer = Append(armed.steps, step)
      OBVIOUS
    <3>3. armed.steps \in Seq(TraceSteps)
      BY <3>1 DEF Traces
    <3>4. /\ longer \in Seq(TraceSteps) /\ Linked(longer)
          /\ Len(longer) \in Nat \ {0} /\ longer[Len(longer)] = step
      BY <3>1, <3>2, <3>3, LinkedGrows
    <3>5. PICK cur : cur = [armed EXCEPT !.steps = longer]
      OBVIOUS
    <3>6. cur \in Traces /\ cur.steps = longer /\ cur.id = b.id /\ cur.emitted = armed.emitted
      BY <3>1, <3>4, <3>5 DEF Traces
    <3>7. s = [s0 EXCEPT !.cur = cur]
      BY <2>3, <3>1, <3>2, <3>5, Zenon
    <3>8. s.cur = cur /\ s.completed = s0.completed
          /\ s \in [completed : Nat, cur : {C!Nobody} \cup Traces]
      BY <1>3, <3>6, <3>7
    <3>9. TraceOk(cur)
      BY <3>1, <3>4, <3>6 DEF TraceOk, TraceSteps
    <3> QED BY <2>0, <3>1, <3>4, <3>6, <3>8, <3>9
  <2> QED BY <2>4, <2>5
<1> QED BY <1>5, <1>6

LEMMA Trace1Is ==
  ASSUME ServerInv, TraceNow, NEW b \in C!Batches, NEW s, s = C!Trace1(b)
  PROVE  /\ s \in [completed : Nat, cur : {C!Nobody} \cup Traces]
         /\ s.cur # C!Nobody =>
               /\ s.cur.id = b.id /\ b.len = PromptTokens /\ s.completed < MaxCompleted
               /\ TraceTo(s.cur, IF b.at < b.len THEN b.at + b.sched ELSE b.at + b.sampled)
<1>1. PICK s1 : s1 = C!TraceBegun(C!TraceCleaned, b)
  OBVIOUS
<1>2. s = C!TraceEmitted(s1, b)
  BY <1>1 DEF C!Trace1
<1>3. PICK n : n = b.sampled
  OBVIOUS
<1>4. n \in Nat /\ b.id # 0 /\ b.at \in Nat /\ b.sched \in Nat
  BY <1>3, BatchIs DEF ServerInv
<1>5. /\ s1 \in [completed : Nat, cur : {C!Nobody} \cup Traces]
      /\ s1.cur # C!Nobody =>
            /\ s1.cur.id = b.id /\ b.len = PromptTokens /\ s1.completed < MaxCompleted
            /\ TraceOk(s1.cur)
            /\ s1.cur.steps[Len(s1.cur.steps)].at = b.at
            /\ s1.cur.steps[Len(s1.cur.steps)].sched = b.sched
            /\ s1.cur.steps[Len(s1.cur.steps)].sampled = 0
  BY <1>1, TraceBegunIs
<1>6. CASE s1.cur = C!Nobody
  <2>1. s = s1
    BY <1>2, <1>4, <1>6, Running0 DEF C!TraceEmitted
  <2> QED BY <1>5, <1>6, <2>1
<1>7. CASE s1.cur # C!Nobody
  <2>1. PICK cur \in Traces : cur = s1.cur
    BY <1>5, <1>7
  <2>2. cur.steps \in Seq(TraceSteps) /\ Linked(cur.steps) /\ cur.steps # <<>>
    BY <1>5, <1>7, <2>1 DEF TraceOk, Traces, Linked
  <2>3. s = [s1 EXCEPT !.cur.steps[Len(cur.steps)].sampled = n, !.cur.emitted = @ + n]
    BY <1>2, <1>3, <1>5, <1>7, <2>1, <2>2, Zenon DEF C!TraceEmitted
  <2>4. PICK steps : steps = [cur.steps EXCEPT ![Len(cur.steps)].sampled = n]
    OBVIOUS
  <2>5. PICK emitted : emitted = cur.emitted + n
    OBVIOUS
  <2>6. PICK next : next = [cur EXCEPT !.steps = steps, !.emitted = emitted]
    OBVIOUS
  <2>7. s = [s1 EXCEPT !.cur = next]
    BY <1>5, <2>1, <2>3, <2>4, <2>5, <2>6, Zenon
  <2>8. /\ steps \in Seq(TraceSteps) /\ Linked(steps) /\ Len(steps) = Len(cur.steps)
        /\ steps[Len(steps)].at = b.at /\ steps[Len(steps)].sched = b.sched
        /\ steps[Len(steps)].prefix = cur.steps[Len(cur.steps)].prefix
        /\ steps[Len(steps)].sampled = n
    <3>1. /\ cur.steps[Len(cur.steps)].at = b.at
          /\ cur.steps[Len(cur.steps)].sched = b.sched
      BY <1>5, <1>7, <2>1
    <3>2. /\ steps \in Seq(TraceSteps) /\ Linked(steps) /\ Len(steps) = Len(cur.steps)
          /\ steps[Len(steps)].at = cur.steps[Len(cur.steps)].at
          /\ steps[Len(steps)].sched = cur.steps[Len(cur.steps)].sched
          /\ steps[Len(steps)].prefix = cur.steps[Len(cur.steps)].prefix
          /\ steps[Len(steps)].sampled = n
      <4>1. PICK old : old = cur.steps
        OBVIOUS
      <4>2. /\ old \in Seq(TraceSteps) /\ Linked(old) /\ n \in Nat
            /\ steps = [old EXCEPT ![Len(old)].sampled = n]
        BY <1>4, <2>2, <2>4, <4>1
      <4> HIDE <1>1, <1>2, <1>3, <2>4
      <4>3. SampledTo(old, n, steps)
        BY <4>2, LinkedSampled
      <4> QED BY <4>1, <4>3 DEF SampledTo
    <3> QED BY <3>1, <3>2
  <2>9. emitted \in Nat /\ emitted = steps[Len(steps)].prefix + n
    <3>1. /\ cur.emitted = cur.steps[Len(cur.steps)].prefix + cur.steps[Len(cur.steps)].sampled
          /\ cur.emitted \in Nat /\ cur.steps[Len(cur.steps)].sampled = 0
      BY <1>5, <1>7, <2>1 DEF TraceOk, Traces
    <3>2. PICK last \in TraceSteps : last = cur.steps[Len(cur.steps)]
      BY <2>2
    <3>3. cur.steps[Len(cur.steps)].prefix \in Nat
      BY <3>2 DEF TraceSteps
    <3> QED BY <1>4, <2>5, <2>8, <3>1, <3>3
  <2>10. next \in Traces /\ next.steps = steps /\ next.emitted = emitted /\ next.id = cur.id
    BY <2>6, <2>8, <2>9 DEF Traces
  <2>11. /\ s.cur = next /\ s.completed = s1.completed
         /\ s \in [completed : Nat, cur : {C!Nobody} \cup Traces]
    BY <1>5, <2>7, <2>10
  <2>12. TraceOk(next)
    BY <2>8, <2>9, <2>10 DEF TraceOk
  <2>13. LedTo(steps[Len(steps)]) = IF b.at < b.len THEN b.at + b.sched ELSE b.at + b.sampled
    <3>1. b.len = PromptTokens
      BY <1>5, <1>7
    <3> QED BY <1>3, <1>4, <2>8, <3>1 DEF LedTo
  <2> QED BY <1>5, <1>7, <2>1, <2>10, <2>11, <2>12, <2>13 DEF TraceTo
<1> QED BY <1>6, <1>7

LEMMA TraceWritten ==
  ASSUME ServerInv, TraceInv, \/ Moves(Elems(C!CleanWrites)) \/ UNCHANGED files
                              \/ \E b \in C!Batches : Moves(Parts(b))
  PROVE  TraceFiles'
<1> SUFFICES ASSUME NEW i \in Slots, C!Has(<<"trace", i>>)' PROVE TraceOk(C!Body(<<"trace", i>>))'
  BY DEF TraceFiles
<1>1. PICK f : f = <<"trace", i>>
  OBVIOUS
<1>2. PICK x : x = files'[f]
  OBVIOUS
<1>3. /\ x.is = "whole" /\ C!Body(<<"trace", i>>)' = x.body
      /\ f \in C!Names /\ f[1] = "trace"
  BY <1>1, <1>2, SlotNames DEF C!Has, C!Body
<1>4. CASE x = files[f]
  BY <1>1, <1>3, <1>4 DEF TraceInv, TraceFiles, C!Has, C!Body
<1>5. ASSUME NEW w \in Elems(C!TraceCleanWrites), x.body = w.body PROVE TraceOk(x.body)
  BY <1>5, TraceCleanedIs DEF TraceInv
<1>6. CASE Moves(Elems(C!CleanWrites)) /\ x # files[f]
  <2>1. PICK w \in Elems(C!CleanWrites) : w.name = f /\ x.body = w.body
    BY <1>2, <1>3, <1>6, WrittenOrKept
  <2>2. w \in Elems(C!TraceCleanWrites)
    <3>1. w.name[1] = "trace"
      BY <1>3, <2>1
    <3> QED BY <3>1, CleanNames
  <2> QED BY <1>3, <1>5, <2>1, <2>2
<1>7. ASSUME NEW b \in C!Batches, Moves(Parts(b)), x # files[f] PROVE TraceOk(x.body)
  <2>1. PICK w \in Parts(b) : w.name = f /\ x.body = w.body
    BY <1>2, <1>3, <1>7, WrittenOrKept
  <2>2. PICK s : s = C!Trace1(b)
    OBVIOUS
  <2>3. w \in Elems(C!TraceCleanWrites) \/ w \in Elems(C!TraceWrites(s))
    <3>1. w.name[1] = "trace"
      BY <1>3, <2>1
    <3> QED BY <2>2, <3>1, PartsByName
  <2>4. ASSUME w \in Elems(C!TraceWrites(s)) PROVE TraceOk(x.body)
    <3>1. s.cur # C!Nobody
      BY <2>4, EmptyIsList DEF C!TraceWrites, C!TraceFull
    <3>2. TraceOk(s.cur)
      BY <2>2, <3>1, Trace1Is DEF TraceInv, TraceTo
    <3>3. PICK body : body = s.cur
      OBVIOUS
    <3>4. PICK n : n = s.completed
      OBVIOUS
    <3>5. C!TraceWrites(s) = C!Put(<<"trace", n>>, body)
      BY <2>4, <3>3, <3>4, EmptyIsList DEF C!TraceWrites
    <3>6. Elems(C!Put(<<"trace", n>>, body)) = {[name |-> <<"trace", n>>, body |-> body]}
      BY TaggedPut
    <3>7. w = [name |-> <<"trace", n>>, body |-> body]
      BY <2>4, <3>5, <3>6
    <3>8. w.body = body
      BY <3>7
    <3> QED BY <2>1, <3>2, <3>3, <3>8
  <2> QED BY <1>5, <2>1, <2>3, <2>4
<1> QED BY <1>2, <1>3, <1>4, <1>6, <1>7

LEMMA TraceStep == ASSUME ServerInv, TraceInv, C!Next PROVE TraceInv'
<1>0. TraceFiles'
  BY FilesMove, TraceWritten
<1>1. CASE C!Arrive
  <2>1. req = C!Nobody /\ UNCHANGED <<trace, gone>>
    BY <1>1 DEF C!Arrive
  <2>2. TraceNow'
    BY <2>1 DEF TraceInv, TraceNow
  <2> QED BY <1>0, <2>2 DEF TraceInv
<1>2. ASSUME NEW b \in C!Batches, C!Step(b) PROVE TraceInv'
  <2>1. PICK s : s = C!Trace1(b)
    OBVIOUS
  <2>2. trace' = C!TraceSampled(s)
    BY <1>2, <2>1 DEF C!Step
  <2>3. /\ s \in [completed : Nat, cur : {C!Nobody} \cup Traces]
        /\ s.cur # C!Nobody =>
              /\ s.cur.id = b.id /\ b.len = PromptTokens /\ s.completed < MaxCompleted
              /\ TraceTo(s.cur, IF b.at < b.len THEN b.at + b.sched ELSE b.at + b.sampled)
    BY <2>1, Trace1Is DEF TraceInv
  <2>4. /\ b.before < b.len <=> b.at < b.len
        /\ \/ req' = C!Nobody /\ gone' = {b.id}
           \/ /\ req' \in Running /\ req'.id = b.id /\ req'.len = b.len
              /\ req'.at = IF b.before < b.len THEN b.at + b.sched ELSE b.at + b.sampled
    BY <1>2, StepIs
  <2>5. CASE C!TraceFull(s)
    <3>1. trace' = [completed |-> s.completed + 1, cur |-> C!Nobody]
      BY <2>2, <2>5 DEF C!TraceSampled
    <3>2. TraceNow'
      BY <2>3, <3>1 DEF TraceNow
    <3> QED BY <1>0, <3>2 DEF TraceInv
  <2>6. CASE ~C!TraceFull(s)
    <3>1. trace' = s
      BY <2>2, <2>6 DEF C!TraceSampled
    <3>2. ASSUME s.cur # C!Nobody
          PROVE  /\ s.completed < MaxCompleted /\ TraceOk(s.cur)
                 /\ s.cur.emitted < EmitCap
                 /\ \/ s.cur.id \in gone'
                    \/ /\ req' # C!Nobody /\ req'.id = s.cur.id /\ req'.len = PromptTokens
                       /\ TraceTo(s.cur, req'.at)
      <4>1. s.cur.emitted < EmitCap
        <5>1. s.cur.emitted \in Nat /\ ~(s.cur.emitted >= EmitCap)
          BY <2>3, <2>6, <3>2 DEF C!TraceFull, Traces
        <5> QED BY <5>1, CaptureAssumption
      <4>2. TraceOk(s.cur)
        BY <2>3, <3>2 DEF TraceTo
      <4>3. CASE req' = C!Nobody
        BY <2>3, <2>4, <3>2, <4>1, <4>2, <4>3, Running0
      <4>4. CASE req' # C!Nobody
        <5>1. req'.at = IF b.at < b.len THEN b.at + b.sched ELSE b.at + b.sampled
          BY <2>4, <4>4
        <5> QED BY <2>3, <2>4, <3>2, <4>1, <4>2, <4>4, <5>1
      <4> QED BY <4>3, <4>4
    <3>3. TraceNow'
      BY <2>3, <3>1, <3>2 DEF TraceNow
    <3> QED BY <1>0, <3>3 DEF TraceInv
  <2> QED BY <2>5, <2>6
<1>3. CASE C!IdleStep
  <2>1. req = C!Nobody /\ trace' = C!TraceCleaned
    BY <1>3 DEF C!IdleStep
  <2>2. trace' \in [completed : Nat, cur : {C!Nobody} \cup Traces] /\ trace'.cur = C!Nobody
    BY <2>1, TraceCleanedIs DEF TraceInv, TraceNow
  <2>3. TraceNow'
    BY <2>2 DEF TraceNow
  <2> QED BY <1>0, <2>3 DEF TraceInv
<1>4. CASE C!Abort
  <2>1. gone' = gone \cup {req.id} /\ UNCHANGED trace
    BY <1>4 DEF C!Abort
  <2>2. TraceNow'
    BY <2>1 DEF TraceInv, TraceNow
  <2> QED BY <1>0, <2>2 DEF TraceInv
<1>5. CASE C!Die
  <2>1. trace' = C!NoTrace
    BY <1>5 DEF C!Die
  <2>2. trace' \in [completed : Nat, cur : {C!Nobody} \cup Traces] /\ trace'.cur = C!Nobody
    BY <2>1 DEF C!NoTrace
  <2>3. TraceNow'
    BY <2>2 DEF TraceNow
  <2> QED BY <1>0, <2>3 DEF TraceInv
<1> QED BY <1>1, <1>2, <1>3, <1>4, <1>5 DEF C!Next

LEMMA TraceSuffices == TraceInv => C!TraceFollowsRequest
<1> DEFINE Follows(t) ==
      LET s == t.steps
      IN  /\ s # <<>> /\ s[1].at = 0 /\ s[1].prefix = 0
          /\ \A j \in 1 .. Len(s) - 1 :
                /\ s[j + 1].at = s[j].at
                     + (IF s[j].at < PromptTokens THEN s[j].sched ELSE s[j].sampled)
                /\ s[j + 1].prefix = s[j].prefix + s[j].sampled
                /\ s[j + 1].prefix < EmitCap
          /\ t.emitted = C!Last(s).prefix + C!Last(s).sampled
<1>1. ASSUME NEW t, TraceOk(t) PROVE Follows(t)
  <2>1. Linked(t.steps) /\ t.emitted = t.steps[Len(t.steps)].prefix + t.steps[Len(t.steps)].sampled
    BY <1>1 DEF TraceOk
  <2> QED BY <2>1 DEF Linked, LedTo, C!Last
<1>2. ASSUME TraceInv, NEW i \in Slots, C!Traced(i) PROVE Follows(C!Body(<<"trace", i>>))
  <2>1. TraceOk(C!Body(<<"trace", i>>))
    BY <1>2 DEF TraceInv, TraceFiles, C!Traced
  <2> HIDE DEF Follows
  <2> QED BY <1>1, <2>1
<1>3. ASSUME TraceInv PROVE C!TraceFollowsRequest
  BY <1>2, <1>3 DEF C!TraceFollowsRequest, Slots
<1> QED BY <1>3

-----------------------------------------------------------------------------
CaptureInv == ServerInv /\ RepeatInv /\ TraceInv /\ RouteInv /\ KvInv /\ ProfileInv

LEMMA CaptureStep == ASSUME CaptureInv, [C!Next]_C!vars PROVE CaptureInv'
<1> USE DEF CaptureInv
<1>1. CASE C!Next
  BY <1>1, ServerStep, RepeatStep, TraceStep, RouteStep, KvStep, ProfileStep
<1>2. CASE UNCHANGED C!vars
  <2>1. UNCHANGED <<launch, issued, req, gone, repeat, trace, route, profile, kv, files>>
    BY <1>2 DEF C!vars
  <2>2. ServerInv'
    BY <2>1 DEF ServerInv
  <2>3. RepeatInv'
    <3>1. RepeatNow'
      BY <2>1 DEF RepeatInv, RepeatNow
    <3>2. \A i \in Slots : Record(i)' = Record(i)
      BY <2>1 DEF Record
    <3> QED BY <2>1, <3>1, <3>2, RecordsStay DEF ServerInv, RepeatInv
  <2>4. TraceInv'
    BY <2>1, TraceWritten DEF TraceInv, TraceNow
  <2>5. RouteInv'
    <3>1. Status' = Status /\ \A k \in Selected : Saved(k)' = Saved(k)
      BY <2>1 DEF Status, Saved
    <3> QED BY <2>1, <3>1, RouteStays DEF ServerInv
  <2>6. KvInv'
    BY <2>1, KvKept DEF KvInv, KvNow
  <2>7. ProfileInv'
    BY <2>1, ProfileKept DEF ProfileInv, ProfileNow
  <2> QED BY <2>2, <2>3, <2>4, <2>5, <2>6, <2>7
<1> QED BY <1>1, <1>2

(* What the captures hold of the running request agrees with how far it    *)
(* is, and what they wrote with the request that it names.                 *)
THEOREM CaptureInvariant == RunNode => []CaptureInv
<1>1. C!Init => CaptureInv
  BY ServerStart, RepeatStart, TraceStart, RouteStart, KvStart, ProfileStart DEF CaptureInv
<1>2. C!Spec => []CaptureInv
  BY <1>1, CaptureStep, PTL DEF C!Spec
<1> QED BY <1>2, NodeRunsItsPrograms, PTL

(* ComparedAreWhole: what the repeatability comparison accepts is the whole *)
(* prompt of the request that the record names, of no two records the same. *)
THEOREM ComparedRecordsAreWhole == RunNode => []ComparedAreWhole
<1>1. CaptureInv => ComparedAreWhole
  BY DEF CaptureInv, RepeatInv, RepeatRecords, RecordOk, Record, Compared, Slots,
         ComparedAreWhole, C!ComparedAreWhole, C!Comparable, C!Has, C!Body
<1> QED BY <1>1, CaptureInvariant, PTL

(* FixturesAreOneRequest: the fixtures that the running engine called      *)
(* complete are its own, all there, and of one request.                    *)
THEOREM FixturesAreOfOneRequest == RunNode => []FixturesAreOneRequest
<1>1. CaptureInv => FixturesAreOneRequest
  BY RouteSuffices DEF CaptureInv, FixturesAreOneRequest
<1> QED BY <1>1, CaptureInvariant, PTL

(* OneShotIsWhole: the metadata and the profiles in place are each of one  *)
(* request's whole prefill, whatever other requests ran beside it and      *)
(* however many were aborted or died in the write.                         *)
THEOREM OneShotsAreWhole == RunNode => []OneShotIsWhole
<1>1. CaptureInv => OneShotIsWhole
  BY OneShotSuffices DEF CaptureInv, OneShotIsWhole
<1> QED BY <1>1, CaptureInvariant, PTL

(* TraceFollowsRequest: a decode trace tells its request step after step   *)
(* from the start, without a gap, and ends at the cap.                     *)
THEOREM TracesFollowRequests == RunNode => []TraceFollowsRequest
<1>1. CaptureInv => TraceFollowsRequest
  BY TraceSuffices DEF CaptureInv, TraceFollowsRequest
<1> QED BY <1>1, CaptureInvariant, PTL

-----------------------------------------------------------------------------
\* Folds over lists, and the lists that the reader makes with them.
(* Induction over the numbers below a bound, for a set of numbers.         *)
LEMMA UpTo ==
  ASSUME NEW S, NEW n \in Nat, 0 \in S, \A k \in 1 .. n : k - 1 \in S => k \in S
  PROVE  \A k \in 0 .. n : k \in S
<1>1. SUFFICES ASSUME NEW j \in 0 .. n, j \notin S PROVE FALSE
  OBVIOUS
<1> DEFINE T == {k \in 0 .. n : k \notin S}
<1>2. T \subseteq Nat /\ T # {}
  BY <1>1
<1>3. PICK k \in T : \A m \in T : k <= m
  BY <1>2, NatMin
<1>4. k # 0 /\ k \in 1 .. n
  BY <1>3
<1>5. k - 1 \in 0 .. n /\ ~ k <= k - 1
  BY <1>4
<1>6. k - 1 \in S
  BY <1>3, <1>5
<1> QED BY <1>3, <1>4, <1>6

LEMMA MaxIs ==
  ASSUME NEW n \in Nat, NEW s \in SUBSET (1 .. n), s # {}
  PROVE  R!Max(s) \in s /\ \A x \in s : x <= R!Max(s)
<1> DEFINE T == {n - x : x \in s}
<1>1. T \subseteq Nat /\ T # {}
  <2>1. \A x \in s : x \in 1 .. n /\ n - x \in Nat
    OBVIOUS
  <2> QED BY <2>1
<1>2. PICK k \in T : \A m \in T : k <= m
  <2> HIDE DEF T
  <2> QED BY <1>1, NatMin
<1>3. PICK x \in s : k = n - x
  BY <1>2
<1>4. ASSUME NEW y \in s PROVE y <= x /\ x >= y
  <2>1. x \in 1 .. n /\ y \in 1 .. n /\ n - y \in T
    OBVIOUS
  <2>2. n - x <= n - y
    BY <1>2, <1>3, <2>1
  <2> QED BY <2>1, <2>2
<1> QED BY <1>3, <1>4 DEF R!Max

LEMMA MaxTo == ASSUME NEW k \in Nat \ {0} PROVE R!Max(1 .. k) = k /\ (1 .. k) \ {k} = 1 .. k - 1
<1>1. 1 .. k \in SUBSET (1 .. k) /\ k \in 1 .. k
  OBVIOUS
<1>2. R!Max(1 .. k) \in 1 .. k /\ k <= R!Max(1 .. k)
  BY <1>1, MaxIs
<1> QED BY <1>2

(* The recursion of a fold over 1 .. n that takes the last index first.    *)
FoldsTo(f, n, base, step) ==
  \A s \in SUBSET (1 .. n) : f[s] = IF s = {} THEN base ELSE step[<<R!Max(s), f[s \ {R!Max(s)}]>>]

LEMMA FoldExists ==
  ASSUME NEW n \in Nat, NEW A, NEW base \in A, NEW step \in [(1 .. n) \X A -> A]
  PROVE  \E f \in [SUBSET (1 .. n) -> A] : FoldsTo(f, n, base, step)
<1> DEFINE S == {k \in Nat : \E f \in [SUBSET (1 .. k) -> A] : FoldsTo(f, k, base, step)}
<1>1. 0 \in S
  <2> DEFINE f == [s \in SUBSET (1 .. 0) |-> base]
  <2>1. 1 .. 0 = {}
    OBVIOUS
  <2>2. f \in [SUBSET (1 .. 0) -> A] /\ FoldsTo(f, 0, base, step)
    BY <2>1 DEF FoldsTo
  <2> QED BY <2>2
<1>2. ASSUME NEW k \in 1 .. n, k - 1 \in S PROVE k \in S
  <2>1. PICK f \in [SUBSET (1 .. k - 1) -> A] : FoldsTo(f, k - 1, base, step)
    BY <1>2
  <2> DEFINE g == [s \in SUBSET (1 .. k) |->
                    IF k \notin s THEN f[s] ELSE step[<<k, f[s \ {k}]>>]]
  <2>2. \A s \in SUBSET (1 .. k) : k \notin s => s \in SUBSET (1 .. k - 1)
    BY <1>2
  <2>3. \A s \in SUBSET (1 .. k) : s \ {k} \in SUBSET (1 .. k - 1)
    BY <1>2
  <2>4. g \in [SUBSET (1 .. k) -> A]
    <3>1. SUFFICES ASSUME NEW s \in SUBSET (1 .. k) PROVE g[s] \in A
      BY Zenon
    <3>2. f[s \ {k}] \in A
      BY <2>3
    <3>3. step[<<k, f[s \ {k}]>>] \in A
      BY <3>2, <1>2
    <3> QED BY <2>2, <3>3
  <2>5. \A s \in SUBSET (1 .. k) : g[s] = IF k \notin s THEN f[s] ELSE step[<<k, f[s \ {k}]>>]
    OBVIOUS
  <2> HIDE DEF g
  <2>6. ASSUME NEW s \in SUBSET (1 .. k)
        PROVE  g[s] = IF s = {} THEN base ELSE step[<<R!Max(s), g[s \ {R!Max(s)}]>>]
    <3>1. CASE k \in s
      <4>1. R!Max(s) = k
        <5>1. k \in Nat /\ s # {}
          BY <3>1
        <5>2. R!Max(s) \in s /\ \A x \in s : x <= R!Max(s)
          BY <5>1, MaxIs
        <5>3. R!Max(s) \in 1 .. k /\ k <= R!Max(s)
          BY <5>2, <3>1
        <5> QED BY <5>1, <5>3
      <4>2. s \ {k} \in SUBSET (1 .. k) /\ k \notin s \ {k}
        OBVIOUS
      <4>3. g[s \ {k}] = f[s \ {k}]
        BY <4>2, <2>5
      <4> QED BY <4>1, <4>3, <3>1, <2>5
    <3>2. CASE k \notin s
      <4>1. s \in SUBSET (1 .. k - 1)
        BY <3>2, <2>2
      <4>2. f[s] = IF s = {} THEN base ELSE step[<<R!Max(s), f[s \ {R!Max(s)}]>>]
        BY <4>1, <2>1 DEF FoldsTo
      <4> DEFINE u == s \ {R!Max(s)}
      <4>3. u \in SUBSET (1 .. k) /\ k \notin u
        BY <3>2
      <4>4. g[u] = f[u] /\ g[s] = f[s]
        BY <4>3, <3>2, <2>5
      <4> QED BY <4>2, <4>4
    <3> QED BY <3>1, <3>2
  <2>7. FoldsTo(g, k, base, step)
    BY <2>6 DEF FoldsTo
  <2> QED BY <2>4, <2>7
<1> HIDE DEF S
<1>3. n \in S
  BY <1>1, <1>2, UpTo
<1> QED BY <1>3 DEF S

-----------------------------------------------------------------------------
(* The row with this id, if there is one, is taken to the end.             *)
LEMMA Moved ==
  ASSUME NEW S, NEW lru \in Seq(S), NEW id
  PROVE  /\ R!MoveToEnd(lru, id) \in Seq(S)
         /\ Len(R!MoveToEnd(lru, id)) = Len(lru)
         /\ id \notin R!Cached(lru) => R!MoveToEnd(lru, id) = lru
         /\ id \in R!Cached(lru) =>
              \E p \in 1 .. Len(lru) :
                 /\ lru[p].id = id
                 /\ \A j \in 1 .. Len(lru) : R!MoveToEnd(lru, id)[j] =
                      IF j < p THEN lru[j] ELSE IF j < Len(lru) THEN lru[j + 1] ELSE lru[p]
<1>1. CASE id \notin R!Cached(lru)
  BY <1>1 DEF R!MoveToEnd
<1>2. CASE id \in R!Cached(lru)
  <2>1. PICK n \in Nat : n = Len(lru) /\ DOMAIN lru = 1 .. n
    OBVIOUS
  <2> DEFINE p == CHOOSE p \in DOMAIN lru : lru[p].id = id
             a == SubSeq(lru, 1, p - 1)
             b == SubSeq(lru, p + 1, Len(lru))
  <2>2. p \in 1 .. n /\ lru[p].id = id
    <3>1. \E q \in DOMAIN lru : lru[q].id = id
      BY <1>2 DEF R!Cached
    <3> QED BY <3>1, <2>1
  <2>3. R!MoveToEnd(lru, id) = Append(a \o b, lru[p])
    BY <1>2, Zenon DEF R!MoveToEnd, R!RemoveAt
  <2> HIDE DEF p
  <2>4. a \in Seq(S) /\ Len(a) = p - 1 /\ \A j \in 1 .. p - 1 : a[j] = lru[j]
    BY <2>1, <2>2
  <2>5. b \in Seq(S) /\ Len(b) = n - p /\ \A j \in 1 .. n - p : b[j] = lru[j + p]
    BY <2>1, <2>2
  <2> HIDE DEF a, b
  <2>6. PICK c : c = a \o b
    OBVIOUS
  <2>7. c \in Seq(S) /\ Len(c) = n - 1
    <3>1. a \in Seq(S) /\ b \in Seq(S)
      BY <2>4, <2>5
    <3>2. c \in Seq(S) /\ Len(c) = Len(a) + Len(b)
      BY <2>6, <3>1
    <3> QED BY <3>2, <2>4, <2>5, <2>2
  <2>8. \A j \in 1 .. n - 1 : c[j] = IF j < p THEN lru[j] ELSE lru[j + 1]
    <3>1. SUFFICES ASSUME NEW j \in 1 .. n - 1
                   PROVE  c[j] = IF j < p THEN lru[j] ELSE lru[j + 1]
      OBVIOUS
    <3>2. CASE j < p
      <4>1. j \in 1 .. Len(a)
        BY <3>2, <2>4, <2>2
      <4>2. c[j] = a[j]
        BY <4>1, <2>4, <2>5, <2>6
      <4> QED BY <4>2, <2>4, <3>2, <2>2
    <3>3. CASE ~ j < p
      <4>1. j \in 1 .. Len(a) + Len(b) /\ ~ j \in 1 .. Len(a) /\ j - Len(a) = j - p + 1
        BY <3>3, <2>4, <2>5, <2>2
      <4>2. c[j] = b[j - Len(a)]
        BY <4>1, <2>4, <2>5, <2>6
      <4>3. j - p + 1 \in 1 .. n - p /\ (j - p + 1) + p = j + 1
        BY <3>3, <2>2
      <4>4. b[j - p + 1] = lru[j + 1]
        BY <4>3, <2>5
      <4> QED BY <4>1, <4>2, <4>4, <3>3
    <3> QED BY <3>2, <3>3
  <2>9. PICK x \in S : x = lru[p]
    BY <2>1, <2>2
  <2>10. PICK m : m = Append(c, x)
    OBVIOUS
  <2>11. m \in Seq(S) /\ Len(m) = n /\ m[n] = x /\ \A j \in 1 .. n - 1 : m[j] = c[j]
    BY <2>7, <2>10, <2>2
  <2>12. m = R!MoveToEnd(lru, id)
    BY <2>3, <2>6, <2>9, <2>10
  <2>13. \A j \in 1 .. n : m[j] =
            IF j < p THEN lru[j] ELSE IF j < n THEN lru[j + 1] ELSE lru[p]
    BY <2>8, <2>9, <2>11, <2>2
  <2> QED BY <1>2, <2>1, <2>2, <2>11, <2>12, <2>13
<1> QED BY <1>1, <1>2

Distinct(lru) == \A i, j \in DOMAIN lru : lru[i].id = lru[j].id => i = j
\* The rows with an id of B are the last ones.
AtEnd(lru, B) == \A i, j \in DOMAIN lru : i < j /\ lru[i].id \in B => lru[j].id \in B

LEMMA MovedKeeps ==
  ASSUME NEW S, NEW lru \in Seq(S), NEW id, Distinct(lru)
  PROVE  /\ R!MoveToEnd(lru, id) \in Seq(S)
         /\ Len(R!MoveToEnd(lru, id)) = Len(lru)
         /\ R!Cached(R!MoveToEnd(lru, id)) = R!Cached(lru)
         /\ Distinct(R!MoveToEnd(lru, id))
         /\ \A B : AtEnd(lru, B) => AtEnd(R!MoveToEnd(lru, id), B \cup {id})
<1> DEFINE r == R!MoveToEnd(lru, id)
<1>1. PICK n \in Nat : n = Len(lru) /\ DOMAIN lru = 1 .. n
  OBVIOUS
<1>2. r \in Seq(S) /\ Len(r) = n /\ DOMAIN r = 1 .. n
  BY <1>1, Moved
<1>3. CASE id \notin R!Cached(lru)
  <2>1. r = lru
    BY <1>3, Moved
  <2>2. ASSUME NEW B, AtEnd(lru, B) PROVE AtEnd(lru, B \cup {id})
    BY <1>3, <2>2 DEF AtEnd, R!Cached
  <2> HIDE DEF r
  <2> QED BY <1>1, <1>2, <2>1, <2>2 DEF r
<1>4. CASE id \in R!Cached(lru)
  <2>1. PICK p \in 1 .. n :
          /\ lru[p].id = id
          /\ \A j \in 1 .. n : r[j] =
                IF j < p THEN lru[j] ELSE IF j < n THEN lru[j + 1] ELSE lru[p]
    BY <1>1, <1>4, Moved
  <2> HIDE DEF r
  <2> DEFINE src(j) == IF j < p THEN j ELSE IF j < n THEN j + 1 ELSE p
  <2>2. \A j \in 1 .. n : src(j) \in 1 .. n /\ r[j] = lru[src(j)]
    BY <2>1
  <2>3. \A i, j \in 1 .. n : src(i) = src(j) => i = j
    OBVIOUS
  <2>4. \A i \in 1 .. n : i < n => src(i) # p
    OBVIOUS
  <2>5. \A i, j \in 1 .. n : i < j /\ j < n => src(i) < src(j)
    OBVIOUS
  <2>6. src(n) = p
    OBVIOUS
  <2>7. \A k \in 1 .. n : \E j \in 1 .. n : src(j) = k
    <3>1. SUFFICES ASSUME NEW k \in 1 .. n PROVE \E j \in 1 .. n : src(j) = k
      OBVIOUS
    <3>2. CASE k < p
      <4>1. src(k) = k
        BY <3>2
      <4> QED BY <4>1
    <3>3. CASE k = p
      <4>1. n \in 1 .. n
        OBVIOUS
      <4> QED BY <3>3, <2>6, <4>1
    <3>4. CASE k > p
      <4>1. k - 1 \in 1 .. n /\ src(k - 1) = k
        BY <3>4
      <4> QED BY <4>1
    <3> QED BY <3>2, <3>3, <3>4
  <2>8. \A i, j \in 1 .. n : lru[i].id = lru[j].id => i = j
    BY <1>1 DEF Distinct
  <2> HIDE DEF src
  <2>9. R!Cached(r) = R!Cached(lru)
    <3>1. R!Cached(r) = {r[j].id : j \in 1 .. n} /\ R!Cached(lru) = {lru[j].id : j \in 1 .. n}
      BY <1>1, <1>2, Zenon DEF R!Cached
    <3>2. \A j \in 1 .. n : r[j].id \in {lru[k].id : k \in 1 .. n}
      BY <2>2
    <3>3. \A k \in 1 .. n : lru[k].id \in {r[j].id : j \in 1 .. n}
      <4>1. SUFFICES ASSUME NEW k \in 1 .. n PROVE lru[k].id \in {r[j].id : j \in 1 .. n}
        OBVIOUS
      <4>2. PICK j \in 1 .. n : src(j) = k
        BY <2>7
      <4>3. r[j].id = lru[k].id
        BY <4>2, <2>2
      <4> QED BY <4>3
    <3> QED BY <3>1, <3>2, <3>3
  <2>10. Distinct(r)
    <3>1. SUFFICES ASSUME NEW i \in 1 .. n, NEW j \in 1 .. n, r[i].id = r[j].id PROVE i = j
      BY <1>2, Zenon DEF Distinct
    <3>2. lru[src(i)].id = lru[src(j)].id /\ src(i) \in 1 .. n /\ src(j) \in 1 .. n
      BY <3>1, <2>2
    <3>3. src(i) = src(j)
      BY <3>2, <2>8
    <3> QED BY <3>3, <2>3
  <2>11. ASSUME NEW B, AtEnd(lru, B) PROVE AtEnd(r, B \cup {id})
    <3>1. SUFFICES ASSUME NEW i \in 1 .. n, NEW j \in 1 .. n, i < j, r[i].id \in B \cup {id}
                   PROVE  r[j].id \in B \cup {id}
      BY <1>2 DEF AtEnd
    <3>2. CASE j = n
      BY <3>2, <2>1, <2>2, <2>6
    <3>3. CASE j # n
      <4>1. src(i) \in 1 .. n /\ src(j) \in 1 .. n /\ src(i) < src(j) /\ src(i) # p
        BY <3>1, <3>3, <2>2, <2>4, <2>5
      <4>2. lru[src(i)].id # id
        BY <4>1, <2>1, <2>8
      <4>3. lru[src(i)].id \in B
        BY <3>1, <4>2, <2>2
      <4>4. lru[src(j)].id \in B
        BY <4>1, <4>3, <2>11, <1>1 DEF AtEnd
      <4> QED BY <4>4, <2>2
    <3> QED BY <3>2, <3>3
  <2> QED BY <1>1, <1>2, <2>9, <2>10, <2>11 DEF r
<1> QED BY <1>3, <1>4

UsedWalk(f, lru, ids) ==
  f = [s \in SUBSET DOMAIN ids |->
        IF s = {} THEN lru ELSE R!MoveToEnd(f[s \ {R!Max(s)}], ids[R!Max(s)])]

(* Used is a walk over the ids, one row after another.                     *)
LEMMA UsedIs ==
  ASSUME NEW S, NEW lru \in Seq(S), NEW ids, IsList(ids)
  PROVE  \E f : /\ f[1 .. 0] = lru /\ R!Used(lru, ids) = f[1 .. Len(ids)]
                /\ \A k \in 1 .. Len(ids) : f[1 .. k] = R!MoveToEnd(f[1 .. k - 1], ids[k])
<1>1. PICK n \in Nat : n = Len(ids) /\ DOMAIN ids = 1 .. n
  BY ListIs
<1> DEFINE A == Seq(S)
           step == [x \in (1 .. n) \X A |-> R!MoveToEnd(x[2], ids[x[1]])]
           f == CHOOSE f : UsedWalk(f, lru, ids)
<1>2. R!Used(lru, ids) = f[DOMAIN ids]
  BY Zenon DEF R!Used, R!FoldLeft, R!MapThenFoldSet, UsedWalk
<1>3. step \in [(1 .. n) \X A -> A]
  BY Moved
<1>4. \A k \in 1 .. n, a \in A : step[<<k, a>>] = R!MoveToEnd(a, ids[k])
  OBVIOUS
<1> HIDE DEF step, A
<1>5. lru \in A
  BY DEF A
<1>6. PICK h \in [SUBSET (1 .. n) -> A] : FoldsTo(h, n, lru, step)
  BY <1>3, <1>5, FoldExists
<1>7. UsedWalk(h, lru, ids)
  <2> DEFINE g == [s \in SUBSET (1 .. n) |->
        IF s = {} THEN lru ELSE R!MoveToEnd(h[s \ {R!Max(s)}], ids[R!Max(s)])]
  <2>1. ASSUME NEW s \in SUBSET (1 .. n) PROVE h[s] = g[s]
    <3>1. CASE s = {}
      BY <3>1, <1>6 DEF FoldsTo
    <3>2. CASE s # {}
      <4>1. R!Max(s) \in 1 .. n /\ s \ {R!Max(s)} \in SUBSET (1 .. n)
        BY <3>2, MaxIs
      <4>2. h[s \ {R!Max(s)}] \in A
        BY <4>1, <1>6
      <4>3. step[<<R!Max(s), h[s \ {R!Max(s)}]>>] = R!MoveToEnd(h[s \ {R!Max(s)}], ids[R!Max(s)])
        BY <4>1, <4>2, <1>4
      <4> QED BY <3>2, <4>3, <1>6 DEF FoldsTo
    <3> QED BY <3>1, <3>2
  <2>2. h = g
    BY <2>1, <1>6
  <2> QED BY <2>2, <1>1 DEF UsedWalk
<1>8. UsedWalk(f, lru, ids)
  BY <1>7
<1> HIDE DEF f
<1>9. f[1 .. 0] = lru
  <2>1. 1 .. 0 = {} /\ {} \in SUBSET DOMAIN ids
    OBVIOUS
  <2> QED BY <2>1, <1>8, Zenon DEF UsedWalk
<1>10. ASSUME NEW k \in 1 .. n PROVE f[1 .. k] = R!MoveToEnd(f[1 .. k - 1], ids[k])
  <2>1. 1 .. k \in SUBSET DOMAIN ids /\ 1 .. k # {} /\ k \in Nat \ {0}
    <3>1. 1 .. k \subseteq 1 .. n /\ k \in 1 .. k /\ k \in Nat \ {0}
      OBVIOUS
    <3> QED BY <1>1, <3>1
  <2>2. R!Max(1 .. k) = k /\ (1 .. k) \ {k} = 1 .. k - 1
    BY <2>1, MaxTo
  <2> QED BY <2>1, <2>2, <1>8, Zenon DEF UsedWalk
<1> QED BY <1>1, <1>2, <1>9, <1>10

\* After the ids so far: the rows are the same, and those of the ids are the last.
Reused(new, lru, S, B) ==
  /\ new \in Seq(S) /\ Len(new) = Len(lru) /\ R!Cached(new) = R!Cached(lru)
  /\ Distinct(new) /\ AtEnd(new, B)

LEMMA UsedKeeps ==
  ASSUME NEW S, NEW lru \in Seq(S), Distinct(lru), NEW ids, IsList(ids)
  PROVE  Reused(R!Used(lru, ids), lru, S, Elems(ids))
<1>1. PICK n \in Nat : n = Len(ids) /\ DOMAIN ids = 1 .. n
  BY ListIs
<1>2. PICK f : /\ f[1 .. 0] = lru /\ R!Used(lru, ids) = f[1 .. n]
               /\ \A k \in 1 .. n : f[1 .. k] = R!MoveToEnd(f[1 .. k - 1], ids[k])
  BY <1>1, UsedIs
<1> DEFINE B(k) == {ids[i] : i \in 1 .. k}
           G == {k \in 0 .. n : Reused(f[1 .. k], lru, S, B(k))}
<1>3. 0 \in G
  <2>1. B(0) = {} /\ 0 \in 0 .. n
    OBVIOUS
  <2>2. AtEnd(lru, {})
    BY DEF AtEnd
  <2> HIDE DEF B
  <2> QED BY <2>1, <2>2, <1>2 DEF Reused
<1>4. ASSUME NEW k \in 1 .. n, k - 1 \in G PROVE k \in G
  <2>1. PICK r : r = f[1 .. k - 1]
    OBVIOUS
  <2>2. B(k) = B(k - 1) \cup {ids[k]}
    OBVIOUS
  <2>3. f[1 .. k] = R!MoveToEnd(r, ids[k]) /\ Reused(r, lru, S, B(k - 1))
    BY <1>2, <1>4, <2>1
  <2> HIDE DEF B
  <2>4. Reused(R!MoveToEnd(r, ids[k]), lru, S, B(k - 1) \cup {ids[k]})
    BY <2>3, MovedKeeps DEF Reused
  <2>5. Reused(f[1 .. k], lru, S, B(k))
    BY <2>2, <2>3, <2>4, Zenon
  <2>6. k \in 0 .. n
    OBVIOUS
  <2> QED BY <2>5, <2>6, Zenon
<1> HIDE DEF G
<1>5. n \in G
  BY <1>3, <1>4, UpTo
<1>6. B(n) = Elems(ids)
  BY <1>1 DEF Elems
<1> HIDE DEF B
<1> QED BY <1>2, <1>5, <1>6 DEF G

MissingWalk(f, lru, ids) ==
  f = [s \in SUBSET DOMAIN ids |->
        IF s = {} THEN <<>>
        ELSE IF ids[R!Max(s)] \in R!Cached(lru) \cup R!ToSet(f[s \ {R!Max(s)}])
             THEN f[s \ {R!Max(s)}] ELSE Append(f[s \ {R!Max(s)}], ids[R!Max(s)])]

\* One more id of a batch, of which these lru are cached.
Noted(lru, seen, i) ==
  IF i \in R!Cached(lru) \cup R!ToSet(seen) THEN seen ELSE Append(seen, i)

(* Missing is a walk over the ids, one id after another.                   *)
LEMMA MissingIs ==
  ASSUME NEW lru, NEW S, NEW ids \in Seq(S)
  PROVE  \E f : /\ f[1 .. 0] = <<>> /\ R!Missing(lru, ids) = f[1 .. Len(ids)]
                /\ \A k \in 1 .. Len(ids) : f[1 .. k] = Noted(lru, f[1 .. k - 1], ids[k])
<1>1. PICK n \in Nat : n = Len(ids) /\ DOMAIN ids = 1 .. n
  OBVIOUS
<1> DEFINE A == Seq(S)
           step == [x \in (1 .. n) \X A |-> Noted(lru, x[2], ids[x[1]])]
           f == CHOOSE f : MissingWalk(f, lru, ids)
<1>2. R!Missing(lru, ids) = f[DOMAIN ids]
  BY Zenon DEF R!Missing, R!FoldLeft, R!MapThenFoldSet, MissingWalk
<1>3. step \in [(1 .. n) \X A -> A]
  <2>1. \A k \in 1 .. n : ids[k] \in S
    BY <1>1
  <2>2. \A a \in A, i \in S : Noted(lru, a, i) \in A
    BY DEF Noted
  <2> QED BY <2>1, <2>2
<1>4. \A k \in 1 .. n, a \in A : step[<<k, a>>] = Noted(lru, a, ids[k])
  OBVIOUS
<1> HIDE DEF step
<1>5. <<>> \in A
  OBVIOUS
<1> HIDE DEF A
<1>6. PICK h \in [SUBSET (1 .. n) -> A] : FoldsTo(h, n, <<>>, step)
  BY <1>3, <1>5, FoldExists
<1>7. MissingWalk(h, lru, ids)
  <2> DEFINE g == [s \in SUBSET (1 .. n) |->
        IF s = {} THEN <<>>
        ELSE IF ids[R!Max(s)] \in R!Cached(lru) \cup R!ToSet(h[s \ {R!Max(s)}])
             THEN h[s \ {R!Max(s)}] ELSE Append(h[s \ {R!Max(s)}], ids[R!Max(s)])]
  <2>1. ASSUME NEW s \in SUBSET (1 .. n) PROVE h[s] = g[s]
    <3>1. CASE s = {}
      BY <3>1, <1>6 DEF FoldsTo
    <3>2. CASE s # {}
      <4>1. R!Max(s) \in 1 .. n /\ s \ {R!Max(s)} \in SUBSET (1 .. n)
        BY <3>2, MaxIs
      <4>2. h[s \ {R!Max(s)}] \in A
        BY <4>1, <1>6
      <4>3. step[<<R!Max(s), h[s \ {R!Max(s)}]>>] = Noted(lru, h[s \ {R!Max(s)}], ids[R!Max(s)])
        BY <4>1, <4>2, <1>4
      <4>4. h[s] = Noted(lru, h[s \ {R!Max(s)}], ids[R!Max(s)])
        BY <3>2, <4>3, <1>6 DEF FoldsTo
      <4> QED BY <3>2, <4>4, Zenon DEF Noted
    <3> QED BY <3>1, <3>2
  <2>2. h = g
    BY <2>1, <1>6
  <2> QED BY <2>2, <1>1 DEF MissingWalk
<1>8. MissingWalk(f, lru, ids)
  BY <1>7
<1> HIDE DEF f
<1>9. f[1 .. 0] = <<>>
  <2>1. 1 .. 0 = {} /\ {} \in SUBSET DOMAIN ids
    OBVIOUS
  <2> QED BY <2>1, <1>8, Zenon DEF MissingWalk
<1>10. ASSUME NEW k \in 1 .. n PROVE f[1 .. k] = Noted(lru, f[1 .. k - 1], ids[k])
  <2>1. 1 .. k \in SUBSET DOMAIN ids /\ 1 .. k # {} /\ k \in Nat \ {0}
    <3>1. 1 .. k \subseteq 1 .. n /\ k \in 1 .. k /\ k \in Nat \ {0}
      OBVIOUS
    <3> QED BY <1>1, <3>1
  <2>2. R!Max(1 .. k) = k /\ (1 .. k) \ {k} = 1 .. k - 1
    BY <2>1, MaxTo
  <2> QED BY <2>1, <2>2, <1>8, Zenon DEF MissingWalk, Noted
<1> QED BY <1>1, <1>2, <1>9, <1>10

Injective(s) == \A i, j \in DOMAIN s : s[i] = s[j] => i = j

LEMMA NotedKeeps ==
  ASSUME NEW lru, NEW S, NEW seen \in Seq(S), NEW i \in S, Injective(seen)
  PROVE  /\ Noted(lru, seen, i) \in Seq(S) /\ Injective(Noted(lru, seen, i))
         /\ Elems(Noted(lru, seen, i)) =
              IF i \in R!Cached(lru) THEN Elems(seen) ELSE Elems(seen) \cup {i}
<1>1. CASE i \in R!Cached(lru) \cup R!ToSet(seen)
  BY <1>1 DEF Noted, Elems, R!ToSet
<1>2. CASE ~ i \in R!Cached(lru) \cup R!ToSet(seen)
  <2>1. PICK n \in Nat : n = Len(seen) /\ DOMAIN seen = 1 .. n
    OBVIOUS
  <2>2. PICK m : m = Noted(lru, seen, i)
    OBVIOUS
  <2>3. m \in Seq(S) /\ DOMAIN m = 1 .. n + 1 /\ m[n + 1] = i /\ \A j \in 1 .. n : m[j] = seen[j]
    BY <1>2, <2>1, <2>2 DEF Noted
  <2>4. \A j \in 1 .. n : seen[j] # i
    BY <1>2, <2>1 DEF R!ToSet
  <2>5. Injective(m)
    BY <2>1, <2>3, <2>4 DEF Injective
  <2>6. Elems(m) = Elems(seen) \cup {i}
    <3>1. Elems(m) = {m[j] : j \in 1 .. n + 1} /\ Elems(seen) = {seen[j] : j \in 1 .. n}
      BY <2>1, <2>3, Zenon DEF Elems
    <3>2. \A j \in 1 .. n + 1 : j \in 1 .. n \/ j = n + 1
      OBVIOUS
    <3>3. \A j \in 1 .. n : j \in 1 .. n + 1
      OBVIOUS
    <3>4. n + 1 \in 1 .. n + 1
      OBVIOUS
    <3> QED BY <3>1, <3>2, <3>3, <3>4, <2>3
  <2> QED BY <1>2, <2>2, <2>3, <2>5, <2>6
<1> QED BY <1>1, <1>2

(* The missing ids of a batch, each of them once.                          *)
LEMMA MissingAre ==
  ASSUME NEW lru, NEW S, NEW ids \in Seq(S)
  PROVE  /\ R!Missing(lru, ids) \in Seq(S) /\ Injective(R!Missing(lru, ids))
         /\ Elems(R!Missing(lru, ids)) = Elems(ids) \ R!Cached(lru)
<1>1. PICK n \in Nat : n = Len(ids) /\ DOMAIN ids = 1 .. n
  OBVIOUS
<1>2. PICK f : /\ f[1 .. 0] = <<>> /\ R!Missing(lru, ids) = f[1 .. n]
               /\ \A k \in 1 .. n : f[1 .. k] = Noted(lru, f[1 .. k - 1], ids[k])
  BY <1>1, MissingIs
<1> DEFINE B(k) == {ids[i] : i \in 1 .. k}
           Good(k) == /\ f[1 .. k] \in Seq(S) /\ Injective(f[1 .. k])
                      /\ Elems(f[1 .. k]) = B(k) \ R!Cached(lru)
           G == {k \in 0 .. n : Good(k)}
<1>3. 0 \in G
  <2>1. B(0) = {} /\ 0 \in 0 .. n
    OBVIOUS
  <2>2. <<>> \in Seq(S) /\ Injective(<<>>) /\ Elems(<<>>) = {}
    BY EmptyIsList DEF Injective
  <2> HIDE DEF B
  <2> QED BY <2>1, <2>2, <1>2
<1>4. ASSUME NEW k \in 1 .. n, k - 1 \in G PROVE k \in G
  <2>1. PICK r : r = f[1 .. k - 1]
    OBVIOUS
  <2>2. B(k) = B(k - 1) \cup {ids[k]} /\ ids[k] \in S /\ k \in 0 .. n
    BY <1>1
  <2> HIDE DEF B
  <2>3. r \in Seq(S) /\ Injective(r) /\ Elems(r) = B(k - 1) \ R!Cached(lru)
    BY <1>4, <2>1
  <2>4. PICK i \in S : i = ids[k]
    BY <2>2
  <2> DEFINE m == Noted(lru, r, i)
  <2>5. /\ m \in Seq(S) /\ Injective(m)
        /\ Elems(m) = IF i \in R!Cached(lru) THEN Elems(r) ELSE Elems(r) \cup {i}
    <3>1. r \in Seq(S) /\ Injective(r) /\ i \in S
      BY <2>3
    <3> HIDE DEF G, Good
    <3> QED BY <3>1, NotedKeeps
  <2> HIDE DEF m
  <2>6. Elems(m) = B(k) \ R!Cached(lru)
    BY <2>2, <2>3, <2>4, <2>5
  <2>7. f[1 .. k] = m
    BY <1>2, <2>1, <2>4 DEF m
  <2> QED BY <2>2, <2>5, <2>6, <2>7
<1> HIDE DEF G
<1>5. n \in G
  BY <1>3, <1>4, UpTo
<1>6. B(n) = Elems(ids)
  BY <1>1 DEF Elems
<1> HIDE DEF B
<1> QED BY <1>2, <1>5, <1>6 DEF G

-----------------------------------------------------------------------------
\* The parts of what is missing, and what the threads read of them.
LEMMA SameSize == \A S : R!Cardinality(S) = Cardinality(S)
BY Zenon DEF R!Cardinality, Cardinality

LEMMA SortedHas ==
  ASSUME NEW S \in SUBSET Nat, IsFiniteSet(S)
  PROVE  /\ R!Sorted(S) \in Seq(Nat) /\ Len(R!Sorted(S)) = Cardinality(S)
         /\ S \subseteq Elems(R!Sorted(S))
<1> DEFINE below(i) == {j \in S : j < i}
           n == Cardinality(S)
           s == R!Sorted(S)
<1>1. \A T \in SUBSET S : IsFiniteSet(T) /\ Cardinality(T) \in Nat
  BY FS_Subset, FS_CardinalityType
<1>2. n \in Nat
  BY <1>1
<1>3. \A T \in SUBSET S : \A U \in SUBSET T : U # T => Cardinality(U) < Cardinality(T)
  <2>1. SUFFICES ASSUME NEW T \in SUBSET S, NEW U \in SUBSET T, U # T
                 PROVE  Cardinality(U) < Cardinality(T)
    OBVIOUS
  <2>2. IsFiniteSet(T) /\ Cardinality(T) \in Nat /\ Cardinality(U) \in Nat
    BY <1>1
  <2>3. Cardinality(U) <= Cardinality(T) /\ (Cardinality(T) = Cardinality(U) => U = T)
    BY <2>2, FS_Subset
  <2> QED BY <2>1, <2>2, <2>3
<1>4. \A i \in S : Cardinality(below(i)) \in 0 .. n - 1
  <2>1. SUFFICES ASSUME NEW i \in S PROVE Cardinality(below(i)) \in 0 .. n - 1
    OBVIOUS
  <2>2. below(i) \in SUBSET S /\ below(i) # S /\ S \in SUBSET S
    OBVIOUS
  <2> HIDE DEF below
  <2>3. Cardinality(below(i)) \in Nat /\ Cardinality(below(i)) < n
    BY <2>2, <1>1, <1>3
  <2> QED BY <2>3, <1>2
<1>5. \A i, j \in S : Cardinality(below(i)) = Cardinality(below(j)) => i = j
  <2>1. ASSUME NEW i \in S, NEW j \in S, i < j PROVE Cardinality(below(i)) < Cardinality(below(j))
    <3>1. \A x \in S : x \in Nat
      OBVIOUS
    <3>2. below(j) \in SUBSET S /\ below(i) \in SUBSET below(j) /\ i \in below(j) /\ i \notin below(i)
      <4>1. \A x \in S : x < i => x < j
        BY <2>1, <3>1
      <4>2. i \in S /\ j \in S /\ i < j /\ ~ i < i
        BY <2>1, <3>1
      <4> QED BY <4>1, <4>2
    <3>3. below(i) # below(j)
      BY <3>2
    <3> HIDE DEF below
    <3> QED BY <3>2, <3>3, <1>3
  <2>2. \A i \in S : Cardinality(below(i)) \in Nat
    BY <1>4
  <2> HIDE DEF below
  <2>3. \A i, j \in S : i = j \/ i < j \/ j < i
    OBVIOUS
  <2> QED BY <2>1, <2>2, <2>3
<1> DEFINE c(i) == R!Cardinality({j \in S : j < i})
<1>6. \A i \in S : c(i) = Cardinality(below(i))
  BY SameSize
<1>7. s = [k \in 1 .. n |-> CHOOSE i \in S : c(i) = k - 1]
  <2>1. s = [k \in 1 .. R!Cardinality(S) |-> CHOOSE i \in S : c(i) = k - 1]
    BY Zenon DEF R!Sorted
  <2> HIDE DEF s, c
  <2> QED BY <2>1, SameSize, Zenon
<1>8. \A i \in S : Cardinality(below(i)) + 1 \in 1 .. n /\ s[Cardinality(below(i)) + 1] = i
  <2>1. SUFFICES ASSUME NEW i \in S
                 PROVE  Cardinality(below(i)) + 1 \in 1 .. n /\ s[Cardinality(below(i)) + 1] = i
    OBVIOUS
  <2>2. PICK m \in 0 .. n - 1 : m = Cardinality(below(i))
    BY <1>4
  <2>3. m + 1 \in 1 .. n /\ (m + 1) - 1 = m
    BY <1>2
  <2> HIDE DEF s, below, n, c
  <2>4. s[m + 1] = CHOOSE j \in S : c(j) = m
    BY <1>7, <2>3
  <2>5. c(i) = m /\ \A j \in S : c(j) = m => j = i
    BY <2>2, <1>5, <1>6
  <2>6. (CHOOSE j \in S : c(j) = m) = i
    BY <2>5
  <2> QED BY <2>2, <2>3, <2>4, <2>6
<1> HIDE DEF s, below, n, c
<1>9. ASSUME NEW k \in 1 .. n PROVE s[k] \in Nat
  <2> DEFINE V == {c(i) : i \in S}
             f == [i \in S |-> c(i)]
  <2>1. V \subseteq 0 .. n - 1 /\ \A i, j \in S : c(i) = c(j) => i = j
    BY <1>4, <1>5, <1>6
  <2>2. Cardinality(V) = n
    <3>1. f \in [S -> V] /\ \A i \in S : f[i] = c(i)
      OBVIOUS
    <3>2. \A x, y \in S : f[x] = f[y] => x = y
      BY <2>1, <3>1
    <3>3. \A v \in V : \E x \in S : f[x] = v
      OBVIOUS
    <3> HIDE DEF f, V
    <3>4. ExistsBijection(S, V)
      BY <3>1, <3>2, <3>3, Zenon
         DEF ExistsBijection, Bijection, Injection, Surjection, IsInjective
    <3> QED BY <3>4, FS_Bijection DEF n
  <2>3. IsFiniteSet(0 .. n - 1) /\ Cardinality(0 .. n - 1) = n
    <3>1. /\ IsFiniteSet(0 .. n - 1)
          /\ Cardinality(0 .. n - 1) = IF 0 > n - 1 THEN 0 ELSE n - 1 - 0 + 1
      BY <1>2, FS_Interval
    <3> QED BY <3>1, <1>2
  <2> HIDE DEF V
  <2>4. V = 0 .. n - 1
    BY <2>1, <2>2, <2>3, FS_Subset
  <2>5. k - 1 \in 0 .. n - 1
    BY <1>2
  <2>6. \E i \in S : c(i) = k - 1
    BY <2>4, <2>5 DEF V
  <2> QED BY <2>6, <1>7
<1>10. s \in Seq(Nat) /\ Len(s) = n /\ DOMAIN s = 1 .. n
  <2>1. s \in [1 .. n -> Nat]
    BY <1>7, <1>9
  <2> QED BY <2>1, <1>2
<1> QED BY <1>8, <1>10 DEF s, n, Elems

Cut(n, w, k) == k * (n \div w) + R!Min({k, n % w})

LEMMA MinOf ==
  ASSUME NEW a \in Int, NEW b \in Int PROVE R!Min({a, b}) = IF a <= b THEN a ELSE b
BY DEF R!Min

LEMMA CutIs ==
  ASSUME NEW n \in Nat, NEW w \in Nat \ {0}
  PROVE  /\ \A k \in 0 .. w : Cut(n, w, k) \in 0 .. n
         /\ \A k \in 1 .. w : Cut(n, w, k - 1) <= Cut(n, w, k)
         /\ Cut(n, w, 0) = 0 /\ Cut(n, w, w) = n
<1>1. PICK q \in Nat, r \in 0 .. w - 1 : q = n \div w /\ r = n % w /\ n = w * q + r
  <2>1. n \div w \in Nat /\ n % w \in 0 .. w - 1 /\ n = w * (n \div w) + (n % w)
    OBVIOUS
  <2> QED BY <2>1
<1>2. \A k \in 0 .. w : Cut(n, w, k) = k * q + IF k <= r THEN k ELSE r
  BY <1>1, MinOf DEF Cut
<1>3. \A k \in 0 .. w : Cut(n, w, k) \in Nat
  <2>1. \A k \in 0 .. w : k * q \in Nat
    OBVIOUS
  <2> QED BY <2>1, <1>2
<1>4. ASSUME NEW k \in 1 .. w PROVE Cut(n, w, k - 1) <= Cut(n, w, k)
  <2>1. (k - 1) * q = k * q - q /\ k * q \in Nat
    OBVIOUS
  <2>2. k - 1 \in 0 .. w /\ k \in 0 .. w
    OBVIOUS
  <2>3. PICK m \in Nat : m = k * q
    BY <2>1
  <2>4. /\ Cut(n, w, k - 1) = (m - q) + IF k - 1 <= r THEN k - 1 ELSE r
        /\ Cut(n, w, k) = m + IF k <= r THEN k ELSE r
    BY <1>2, <2>1, <2>2, <2>3
  <2> QED BY <2>4
<1>5. Cut(n, w, 0) = 0 /\ Cut(n, w, w) = n
  <2>1. 0 * q = 0 /\ 0 \in 0 .. w /\ w \in 0 .. w /\ ~ w <= r /\ 0 <= r
    OBVIOUS
  <2> QED BY <2>1, <1>1, <1>2
<1>6. \A k \in 0 .. w : Cut(n, w, k) <= n
  <2> DEFINE S == {k \in 0 .. w : Cut(n, w, w - k) <= n}
  <2>1. 0 \in S
    BY <1>5
  <2>2. ASSUME NEW k \in 1 .. w, k - 1 \in S PROVE k \in S
    <3>1. w - (k - 1) \in 1 .. w /\ w - (k - 1) - 1 = w - k /\ w - k \in 0 .. w
      OBVIOUS
    <3>2. Cut(n, w, w - k) <= Cut(n, w, w - (k - 1))
      BY <3>1, <1>4
    <3>3. Cut(n, w, w - k) \in Nat /\ Cut(n, w, w - (k - 1)) \in Nat
      BY <3>1, <1>3
    <3>4. Cut(n, w, w - (k - 1)) <= n
      BY <2>2
    <3>5. Cut(n, w, w - k) <= n
      BY <3>2, <3>3, <3>4
    <3> QED BY <3>5
  <2> HIDE DEF S
  <2>3. \A k \in 0 .. w : k \in S
    BY <2>1, <2>2, UpTo
  <2>4. ASSUME NEW k \in 0 .. w PROVE Cut(n, w, k) <= n
    <3>1. w - k \in 0 .. w /\ w - (w - k) = k
      OBVIOUS
    <3> QED BY <3>1, <2>3 DEF S
  <2> QED BY <2>4
<1> QED BY <1>3, <1>4, <1>5, <1>6

LEMMA InjectiveSize ==
  ASSUME NEW S, NEW s \in Seq(S), Injective(s)
  PROVE  IsFiniteSet(Elems(s)) /\ Cardinality(Elems(s)) = Len(s)
<1>1. PICK n \in Nat : n = Len(s) /\ DOMAIN s = 1 .. n
  OBVIOUS
<1>2. IsFiniteSet(1 .. n) /\ Cardinality(1 .. n) = n
  <2>1. 1 \in Int /\ n \in Int
    OBVIOUS
  <2>2. IsFiniteSet(1 .. n) /\ Cardinality(1 .. n) = IF 1 > n THEN 0 ELSE n - 1 + 1
    BY <2>1, FS_Interval, Zenon
  <2> QED BY <2>2, <1>1
<1>3. s \in [1 .. n -> Elems(s)] /\ \A v \in Elems(s) : \E x \in 1 .. n : s[x] = v
  BY <1>1 DEF Elems
<1>4. \A x, y \in 1 .. n : s[x] = s[y] => x = y
  BY <1>1 DEF Injective
<1>5. ExistsBijection(1 .. n, Elems(s))
  <2>1. PICK D : D = 1 .. n
    OBVIOUS
  <2>2. s \in [D -> Elems(s)] /\ \A v \in Elems(s) : \E x \in D : s[x] = v
    BY <1>3, <2>1
  <2>3. \A x, y \in D : s[x] = s[y] => x = y
    BY <1>4, <2>1
  <2>4. DOMAIN s = D
    BY <1>1, <2>1
  <2>5. s \in Bijection(D, Elems(s))
    BY <2>2, <2>3, <2>4 DEF Bijection, Injection, Surjection, IsInjective
  <2> QED BY <2>1, <2>5 DEF ExistsBijection
<1> QED BY <1>1, <1>2, <1>5, FS_Bijection

LEMMA SameElems == \A s : R!ToSet(s) = Elems(s)
BY DEF R!ToSet, Elems

LEMMA PartOf ==
  ASSUME NEW S, NEW s \in Seq(S), NEW a \in Nat, NEW b \in Nat, a <= b, b <= Len(s)
  PROVE  /\ SubSeq(s, a + 1, b) \in Seq(S) /\ Len(SubSeq(s, a + 1, b)) = b - a
         /\ \A i \in 1 .. b - a : SubSeq(s, a + 1, b)[i] = s[i + a]
<1>1. PICK p \in Nat : p = a + 1
  OBVIOUS
<1>2. \A i \in p .. b : i \in 1 .. Len(s) /\ s[i] \in S
  BY <1>1
<1>3. SubSeq(s, p, b) \in Seq(S)
  BY <1>1, <1>2
<1>4. Len(SubSeq(s, p, b)) = b - a
  BY <1>1
<1>5. \A i \in 1 .. b - a : SubSeq(s, p, b)[i] = s[i + a]
  BY <1>1
<1> QED BY <1>1, <1>3, <1>4, <1>5

(* The parts that the threads read: every missing id is in one of them.    *)
LEMMA ChunksAre ==
  ASSUME NEW missing \in Seq(Nat), Injective(missing), missing # <<>>
  PROVE  \E w \in 1 .. ReadWorkers :
           /\ R!Chunks(missing) \in [1 .. w -> Seq(Nat)]
           /\ \A k \in 1 .. w : Len(R!Chunks(missing)[k])
                                  = Cut(Len(missing), w, k) - Cut(Len(missing), w, k - 1)
           /\ \A i \in Elems(missing) : \E k \in 1 .. w : i \in Elems(R!Chunks(missing)[k])
<1>1. PICK n \in Nat \ {0} : n = Len(missing) /\ DOMAIN missing = 1 .. n
  OBVIOUS
<1> DEFINE v == IF R!Parallel(missing) THEN R!Min({ReadWorkers, n}) ELSE 1
           o == IF R!Parallel(missing) THEN R!Sorted(R!ToSet(missing)) ELSE missing
<1>2. PICK w \in Nat \ {0} : w = v /\ w \in 1 .. ReadWorkers
  <2>1. ReadWorkers \in Nat \ {0}
    BY TableAssumption
  <2>2. R!Min({ReadWorkers, n}) = IF ReadWorkers <= n THEN ReadWorkers ELSE n
    BY <2>1, MinOf
  <2> QED BY <2>1, <2>2
<1>3. PICK ordered : ordered = o
  OBVIOUS
<1>4. R!Chunks(missing) =
        [k \in 1 .. w |-> SubSeq(ordered, Cut(n, w, k - 1) + 1, Cut(n, w, k))]
  BY <1>1, <1>2, <1>3, Zenon DEF R!Chunks, Cut
<1>5. ordered \in Seq(Nat) /\ Len(ordered) = n /\ Elems(missing) \subseteq Elems(ordered)
  <2>1. CASE R!Parallel(missing)
    <3>1. IsFiniteSet(Elems(missing)) /\ Cardinality(Elems(missing)) = n
      BY <1>1, InjectiveSize
    <3>2. Elems(missing) \in SUBSET Nat
      BY DEF Elems
    <3>3. ordered = R!Sorted(Elems(missing))
      BY <2>1, <1>3, SameElems
    <3> QED BY <3>1, <3>2, <3>3, SortedHas
  <2>2. CASE ~ R!Parallel(missing)
    BY <2>2, <1>1, <1>3
  <2> QED BY <2>1, <2>2
<1> HIDE DEF v, o
<1>6. /\ \A k \in 0 .. w : Cut(n, w, k) \in 0 .. n
      /\ \A k \in 1 .. w : Cut(n, w, k - 1) <= Cut(n, w, k)
      /\ Cut(n, w, 0) = 0 /\ Cut(n, w, w) = n
  BY CutIs
<1>7. ASSUME NEW k \in 1 .. w
      PROVE  LET c == R!Chunks(missing)[k] IN
             /\ c \in Seq(Nat) /\ Len(c) = Cut(n, w, k) - Cut(n, w, k - 1)
             /\ \A j \in 1 .. n : Cut(n, w, k - 1) < j /\ j <= Cut(n, w, k) =>
                   ordered[j] \in Elems(c)
  <2>1. PICK a \in 0 .. n, b \in 0 .. n : a = Cut(n, w, k - 1) /\ b = Cut(n, w, k) /\ a <= b
    <3>1. k \in 0 .. w /\ k - 1 \in 0 .. w
      OBVIOUS
    <3> QED BY <3>1, <1>6
  <2>2. PICK c : c = SubSeq(ordered, a + 1, b)
    OBVIOUS
  <2>3. c \in Seq(Nat) /\ Len(c) = b - a /\ \A i \in 1 .. b - a : c[i] = ordered[i + a]
    <3>1. ordered \in Seq(Nat) /\ a \in Nat /\ b \in Nat /\ a <= b /\ b <= Len(ordered)
      BY <1>5, <2>1
    <3> QED BY <3>1, <2>2, PartOf, SMTT(30)
  <2>4. ASSUME NEW j \in 1 .. n, a < j, j <= b PROVE ordered[j] \in Elems(c)
    <3>1. j - a \in 1 .. b - a /\ (j - a) + a = j
      BY <2>4
    <3>2. c[j - a] = ordered[j] /\ j - a \in DOMAIN c
      BY <3>1, <2>3
    <3> QED BY <3>2 DEF Elems
  <2>5. R!Chunks(missing)[k] = c
    BY <1>4, <2>1, <2>2
  <2> QED BY <2>1, <2>3, <2>4, <2>5
<1>8. ASSUME NEW i \in Elems(missing)
      PROVE  \E k \in 1 .. w : i \in Elems(R!Chunks(missing)[k])
  <2>1. PICK j \in 1 .. n : ordered[j] = i
    <3>1. i \in Elems(ordered) /\ DOMAIN ordered = 1 .. n
      BY <1>5
    <3> QED BY <3>1 DEF Elems
  <2> DEFINE T == {k \in 0 .. w : j <= Cut(n, w, k)}
  <2>2. w \in T /\ T \subseteq Nat /\ 0 \notin T
    BY <1>6
  <2>3. PICK k \in T : \A m \in T : k <= m
    <3> HIDE DEF T
    <3> QED BY <2>2, NatMin
  <2>4. k \in 1 .. w /\ k - 1 \in 0 .. w /\ k - 1 \notin T
    BY <2>2, <2>3
  <2>5. Cut(n, w, k - 1) < j /\ j <= Cut(n, w, k)
    BY <2>3, <2>4, <1>6
  <2> QED BY <2>1, <2>4, <2>5, <1>7
<1>9. R!Chunks(missing) \in [1 .. w -> Seq(Nat)]
  BY <1>4, <1>7
<1> QED BY <1>1, <1>2, <1>7, <1>8, <1>9

FlatWalk(f, ss) == f = [i \in 1 .. Len(ss) |-> IF i = 1 THEN ss[i] ELSE f[i - 1] \o ss[i]]

LEMMA FlattenIs ==
  ASSUME NEW A, NEW ss \in Seq(A), ss # <<>>
  PROVE  \E f : /\ R!FlattenSeq(ss) = f[Len(ss)]
                /\ f[1] = ss[1] /\ \A k \in 2 .. Len(ss) : f[k] = f[k - 1] \o ss[k]
<1>1. PICK n \in Nat \ {0} : n = Len(ss)
  OBVIOUS
<1> DEFINE T(f, i) == IF i = 1 THEN ss[i] ELSE f[i - 1] \o ss[i]
           S == {k \in 0 .. n : \E f : \A i \in 1 .. k : f[i] = T(f, i)}
<1>2. 0 \in S
  OBVIOUS
<1>3. ASSUME NEW k \in 1 .. n, k - 1 \in S PROVE k \in S
  <2>1. PICK f : \A i \in 1 .. k - 1 : f[i] = T(f, i)
    BY <1>3
  <2> DEFINE g == [i \in 1 .. k |-> IF i < k THEN f[i] ELSE T(f, k)]
  <2>2. \A i \in 1 .. k : g[i] = IF i < k THEN f[i] ELSE T(f, k)
    OBVIOUS
  <2> HIDE DEF g
  <2>3. ASSUME NEW i \in 1 .. k PROVE g[i] = T(g, i)
    <3>1. T(f, i) = T(g, i)
      <4>1. CASE i = 1
        BY <4>1
      <4>2. CASE i # 1
        <5>1. i - 1 \in 1 .. k /\ i - 1 < k
          BY <4>2
        <5>2. g[i - 1] = f[i - 1]
          BY <5>1, <2>2
        <5> QED BY <5>2, <4>2
      <4> QED BY <4>1, <4>2
    <3>2. g[i] = T(f, i)
      <4>1. CASE i < k
        <5>1. i \in 1 .. k - 1 /\ g[i] = f[i]
          BY <4>1, <2>2
        <5> HIDE DEF T
        <5> QED BY <5>1, <2>1
      <4>2. CASE ~ i < k
        <5>1. i = k
          BY <4>2
        <5> HIDE DEF T
        <5> QED BY <5>1, <2>2
      <4> QED BY <4>1, <4>2
    <3> HIDE DEF T
    <3> QED BY <3>1, <3>2
  <2>4. k \in 0 .. n
    OBVIOUS
  <2> HIDE DEF T
  <2> QED BY <2>3, <2>4
<1> HIDE DEF S
<1>4. n \in S
  <2>1. n \in Nat /\ n \in 0 .. n
    OBVIOUS
  <2>2. \A k \in 1 .. n : k - 1 \in S => k \in S
    BY <1>3
  <2>3. \A k \in 0 .. n : k \in S
    BY <2>1, <2>2, <1>2, UpTo
  <2> QED BY <2>1, <2>3
<1>5. PICK f : \A i \in 1 .. n : f[i] = T(f, i)
  BY <1>4 DEF S
<1> DEFINE g == [i \in 1 .. n |-> f[i]]
<1>6. \A i \in 1 .. n : g[i] = f[i]
  OBVIOUS
<1>7. ASSUME NEW i \in 1 .. n PROVE f[i] = T(g, i)
  <2>1. CASE i = 1
    BY <2>1, <1>5
  <2>2. CASE i # 1
    <3>1. i - 1 \in 1 .. n
      BY <2>2
    <3>2. g[i - 1] = f[i - 1]
      BY <3>1
    <3> QED BY <2>2, <3>2, <1>5
  <2> QED BY <2>1, <2>2
<1>8. g = [i \in 1 .. n |-> T(g, i)]
  BY <1>7
<1>9. FlatWalk(g, ss)
  BY <1>1, <1>8, Zenon DEF FlatWalk
<1> DEFINE h == CHOOSE h : FlatWalk(h, ss)
<1>10. FlatWalk(h, ss)
  BY <1>9, Zenon
<1>11. R!FlattenSeq(ss) = h[Len(ss)]
  <2>1. Len(ss) # 0
    BY <1>1
  <2> QED BY <2>1, Zenon DEF R!FlattenSeq, FlatWalk
<1> HIDE DEF h
<1>12. \A i \in 1 .. n : h[i] = T(h, i)
  BY <1>1, <1>10, Zenon DEF FlatWalk
<1>13. h[1] = ss[1]
  <2>1. 1 \in 1 .. n
    OBVIOUS
  <2> QED BY <2>1, <1>12
<1>14. \A k \in 2 .. n : h[k] = h[k - 1] \o ss[k]
  <2>1. \A k \in 2 .. n : k \in 1 .. n /\ k # 1
    OBVIOUS
  <2> QED BY <2>1, <1>12
<1> QED BY <1>1, <1>11, <1>13, <1>14

RowIs(i) == [id |-> i, edition |-> 1]
RowsAre(s) == [j \in DOMAIN s |-> RowIs(s[j])]

LEMMA RowsJoined ==
  ASSUME NEW S, NEW s \in Seq(S), NEW t \in Seq(S)
  PROVE  /\ s \o t \in Seq(S) /\ Elems(s \o t) = Elems(s) \cup Elems(t)
         /\ RowsAre(s \o t) = RowsAre(s) \o RowsAre(t)
<1>1. PICK m \in Nat, n \in Nat : m = Len(s) /\ n = Len(t) /\ DOMAIN s = 1 .. m /\ DOMAIN t = 1 .. n
  OBVIOUS
<1>2. PICK u : u = s \o t
  OBVIOUS
<1>3. u \in Seq(S) /\ DOMAIN u = 1 .. m + n
  BY <1>1, <1>2
<1>4. \A j \in 1 .. m + n : u[j] = IF j <= m THEN s[j] ELSE t[j - m]
  BY <1>1, <1>2
<1>5. Elems(u) = Elems(s) \cup Elems(t)
  <2>1. Joins(u, s, t) /\ IsList(s) /\ IsList(t)
    BY <1>2 DEF Joins, IsList
  <2> QED BY <2>1, JoinedWith
<1>6. RowsAre(u) = RowsAre(s) \o RowsAre(t)
  <2> DEFINE V == {RowIs(i) : i \in S}
  <2>1. PICK p : p = RowsAre(s)
    OBVIOUS
  <2>2. PICK q : q = RowsAre(t)
    OBVIOUS
  <2>3. PICK r : r = RowsAre(u)
    OBVIOUS
  <2>4. p \in [1 .. m -> V] /\ \A j \in 1 .. m : p[j] = RowIs(s[j])
    BY <2>1, <1>1 DEF RowsAre
  <2>5. q \in [1 .. n -> V] /\ \A j \in 1 .. n : q[j] = RowIs(t[j])
    BY <2>2, <1>1 DEF RowsAre
  <2>6. r = [j \in 1 .. m + n |-> RowIs(u[j])]
    BY <2>3, <1>3 DEF RowsAre
  <2> HIDE DEF V
  <2>7. p \in Seq(V) /\ Len(p) = m /\ q \in Seq(V) /\ Len(q) = n
    <3>1. p \in Seq(V) /\ Len(p) = m
      BY <2>4
    <3>2. q \in Seq(V) /\ Len(q) = n
      BY <2>5
    <3> QED BY <3>1, <3>2
  <2>8. PICK z : z = p \o q
    OBVIOUS
  <2>9. DOMAIN z = 1 .. m + n /\ z \in Seq(V) /\
        \A j \in 1 .. m + n : z[j] = IF j <= m THEN p[j] ELSE q[j - m]
    <3>1. p \in Seq(V) /\ q \in Seq(V)
      BY <2>7
    <3>2. z \in Seq(V) /\ Len(z) = Len(p) + Len(q)
      BY <3>1, <2>8
    <3>3. \A j \in 1 .. Len(p) + Len(q) : z[j] = IF j <= Len(p) THEN p[j] ELSE q[j - Len(p)]
      BY <3>1, <2>8
    <3>4. DOMAIN z = 1 .. m + n
      BY <3>2, <2>7
    <3> QED BY <3>2, <3>3, <3>4, <2>7
  <2>10. ASSUME NEW j \in 1 .. m + n PROVE z[j] = RowIs(u[j])
    <3>1. CASE j <= m
      BY <3>1, <2>9, <2>4, <1>4
    <3>2. CASE ~ j <= m
      <4>1. j - m \in 1 .. n
        BY <3>2
      <4> QED BY <3>2, <4>1, <2>9, <2>5, <1>4
    <3> QED BY <3>1, <3>2
  <2>11. z = [j \in 1 .. m + n |-> z[j]]
    BY <2>9
  <2>12. z = r
    BY <2>6, <2>10, <2>11
  <2> QED BY <2>1, <2>2, <2>3, <2>8, <2>12
<1> QED BY <1>2, <1>3, <1>5, <1>6

(* What the threads read is, part by part, the rows of their ids.          *)
LEMMA FlattenedAre ==
  ASSUME NEW w \in Nat \ {0}, NEW S, NEW ss \in [1 .. w -> Seq(S)]
  PROVE  /\ R!FlattenSeq(ss) \in Seq(S)
         /\ \A k \in 1 .. w : Elems(ss[k]) \subseteq Elems(R!FlattenSeq(ss))
         /\ R!FlattenSeq([k \in 1 .. w |-> RowsAre(ss[k])]) = RowsAre(R!FlattenSeq(ss))
<1>1. PICK tt : tt = [k \in 1 .. w |-> RowsAre(ss[k])]
  OBVIOUS
<1>2. ss \in Seq(Seq(S)) /\ Len(ss) = w /\ ss # <<>>
  OBVIOUS
<1>3. PICK A : A = {RowsAre(ss[k]) : k \in 1 .. w}
  OBVIOUS
<1>4. tt \in Seq(A) /\ Len(tt) = w /\ tt # <<>>
  <2>1. tt \in [1 .. w -> A]
    BY <1>1, <1>3
  <2> QED BY <2>1
<1>5. PICK f : /\ R!FlattenSeq(ss) = f[w] /\ f[1] = ss[1]
               /\ \A k \in 2 .. w : f[k] = f[k - 1] \o ss[k]
  BY <1>2, FlattenIs
<1>6. PICK g : /\ R!FlattenSeq(tt) = g[w] /\ g[1] = tt[1]
               /\ \A k \in 2 .. w : g[k] = g[k - 1] \o tt[k]
  BY <1>4, FlattenIs
<1> DEFINE Good(k) == /\ f[k] \in Seq(S) /\ g[k] = RowsAre(f[k])
                      /\ \A j \in 1 .. k : Elems(ss[j]) \subseteq Elems(f[k])
           G == {k \in 0 .. w : k # 0 => Good(k)}
<1>7. 0 \in G
  OBVIOUS
<1>8. ASSUME NEW k \in 1 .. w, k - 1 \in G PROVE k \in G
  <2>1. ss[k] \in Seq(S) /\ tt[k] = RowsAre(ss[k])
    BY <1>1
  <2>2. CASE k = 1
    <3>1. \A j \in 1 .. k : j = k
      BY <2>2
    <3>2. f[k] = ss[k] /\ g[k] = tt[k]
      BY <2>2, <1>5, <1>6
    <3>3. Good(k)
      BY <2>1, <3>1, <3>2
    <3> QED BY <3>3
  <2>3. CASE k # 1
    <3>1. k - 1 # 0 /\ k \in 2 .. w
      BY <2>3
    <3>2. Good(k - 1)
      BY <1>8, <3>1
    <3>3. PICK s, t : s = f[k - 1] /\ t = ss[k]
      OBVIOUS
    <3>4. s \in Seq(S) /\ t \in Seq(S) /\ g[k - 1] = RowsAre(s)
      BY <3>2, <3>3, <2>1
    <3>5. f[k] = s \o t /\ g[k] = RowsAre(s) \o RowsAre(t)
      BY <3>1, <3>3, <3>4, <2>1, <1>5, <1>6
    <3>6. /\ s \o t \in Seq(S) /\ Elems(s \o t) = Elems(s) \cup Elems(t)
          /\ RowsAre(s \o t) = RowsAre(s) \o RowsAre(t)
      BY <3>4, RowsJoined
    <3>7. f[k] \in Seq(S) /\ g[k] = RowsAre(f[k]) /\ Elems(f[k]) = Elems(s) \cup Elems(t)
      BY <3>5, <3>6
    <3>8. ASSUME NEW j \in 1 .. k PROVE Elems(ss[j]) \subseteq Elems(f[k])
      <4>1. j = k \/ j \in 1 .. k - 1
        OBVIOUS
      <4> QED BY <4>1, <3>2, <3>3, <3>7
    <3>9. Good(k)
      BY <3>7, <3>8
    <3> QED BY <3>9
  <2> QED BY <2>2, <2>3
<1> HIDE DEF G
<1>9. w \in G
  <2>1. w \in Nat /\ w \in 0 .. w
    OBVIOUS
  <2>2. \A k \in 1 .. w : k - 1 \in G => k \in G
    BY <1>8
  <2>3. \A k \in 0 .. w : k \in G
    BY <2>1, <2>2, <1>7, UpTo
  <2> QED BY <2>1, <2>3
<1>10. Good(w)
  BY <1>9 DEF G
<1>11. \A k \in 1 .. w : Elems(ss[k]) \subseteq Elems(R!FlattenSeq(ss))
  BY <1>5, <1>10
<1>12. R!FlattenSeq(tt) = RowsAre(R!FlattenSeq(ss)) /\ R!FlattenSeq(ss) \in Seq(S)
  BY <1>5, <1>6, <1>10
<1> QED BY <1>1, <1>11, <1>12, Zenon

\* A row goes to the end; the oldest goes when there is one too many.
Admitted(kept, row) ==
  LET more == Append(kept, row) IN IF Len(more) > MaxRows THEN Tail(more) ELSE more

\* Behind the others; if it is one too many, every row moves down by one.
Shifts(m, kept, row, S) ==
  \E more \in Seq(S) : \E rest \in Seq(S) :
     /\ m = IF Len(more) > MaxRows THEN rest ELSE more
     /\ Len(more) = Len(kept) + 1 /\ Len(rest) = Len(kept)
     /\ more[Len(kept) + 1] = row
     /\ \A j \in 1 .. Len(kept) : more[j] = kept[j] /\ rest[j] = more[j + 1]

InsertWalk(f, lru, c) ==
  f = [s \in SUBSET DOMAIN c.missing |->
        IF s = {} THEN lru
        ELSE LET more == Append(f[s \ {R!Max(s)}], R!Got(c, c.missing[R!Max(s)]))
             IN  IF Len(more) > MaxRows THEN Tail(more) ELSE more]

LEMMA AdmittedIs ==
  ASSUME NEW S, NEW kept \in Seq(S), NEW row \in S
  PROVE  Admitted(kept, row) \in Seq(S) /\ Shifts(Admitted(kept, row), kept, row, S)
<1>1. PICK more : more = Append(kept, row)
  OBVIOUS
<1>2. PICK n \in Nat : n = Len(kept)
  OBVIOUS
<1>3. /\ more \in Seq(S) /\ Len(more) = n + 1 /\ more # <<>> /\ more[n + 1] = row
      /\ \A j \in 1 .. n : more[j] = kept[j]
  BY <1>1, <1>2
<1>4. /\ Tail(more) \in Seq(S) /\ Len(Tail(more)) = n
      /\ \A j \in 1 .. n : Tail(more)[j] = more[j + 1]
  <2>1. more \in Seq(S) /\ more # <<>> /\ Len(more) - 1 = n
    BY <1>3, <1>2
  <2>2. Tail(more) \in Seq(S) /\ Len(Tail(more)) = Len(more) - 1
    BY <2>1
  <2>3. \A j \in 1 .. Len(more) - 1 : Tail(more)[j] = more[j + 1]
    BY <2>1
  <2> QED BY <2>1, <2>2, <2>3
<1>5. Admitted(kept, row) = IF Len(more) > MaxRows THEN Tail(more) ELSE more
  BY <1>1 DEF Admitted
<1>6. Shifts(Admitted(kept, row), kept, row, S)
  <2>1. PICK rest : rest = Tail(more)
    OBVIOUS
  <2>2. more \in Seq(S) /\ rest \in Seq(S) /\ Len(more) = n + 1 /\ Len(rest) = n
    BY <1>3, <1>4, <2>1
  <2>3. \A j \in 1 .. n : more[j] = kept[j] /\ rest[j] = more[j + 1]
    BY <1>3, <1>4, <2>1
  <2>4. Admitted(kept, row) = IF Len(more) > MaxRows THEN rest ELSE more
    BY <1>5, <2>1
  <2>5. Len(kept) = n /\ more[n + 1] = row
    BY <1>2, <1>3
  <2>6. /\ Len(more) = Len(kept) + 1 /\ Len(rest) = Len(kept) /\ more[Len(kept) + 1] = row
        /\ \A j \in 1 .. Len(kept) : more[j] = kept[j] /\ rest[j] = more[j + 1]
    BY <2>2, <2>3, <2>5
  <2> QED BY <2>2, <2>4, <2>6, Zenon DEF Shifts
<1> QED BY <1>3, <1>4, <1>5, <1>6

LEMMA InsertedIs ==
  ASSUME NEW S, NEW lru \in Seq(S), NEW c, IsList(c.missing),
         \A i \in Elems(c.missing) : R!Got(c, i) \in S
  PROVE  \E f : /\ f[1 .. 0] = lru /\ R!Inserted(lru, c) = f[1 .. Len(c.missing)]
                /\ \A k \in 1 .. Len(c.missing) :
                      f[1 .. k] = Admitted(f[1 .. k - 1], R!Got(c, c.missing[k]))
<1>1. PICK n \in Nat : n = Len(c.missing) /\ DOMAIN c.missing = 1 .. n
  BY ListIs
<1> DEFINE A == Seq(S)
           got(k) == R!Got(c, c.missing[k])
           step == [x \in (1 .. n) \X A |-> Admitted(x[2], got(x[1]))]
           f == CHOOSE f : InsertWalk(f, lru, c)
<1>2. R!Inserted(lru, c) = f[DOMAIN c.missing]
  BY Zenon DEF R!Inserted, R!FoldLeft, R!MapThenFoldSet, InsertWalk
<1>3. step \in [(1 .. n) \X A -> A]
  <2>1. \A k \in 1 .. n : got(k) \in S
    BY <1>1 DEF Elems
  <2> HIDE DEF got
  <2>2. \A a \in A, x \in S : Admitted(a, x) \in A
    BY AdmittedIs
  <2> QED BY <2>1, <2>2
<1>4. \A k \in 1 .. n, a \in A : step[<<k, a>>] = Admitted(a, got(k))
  <2> HIDE DEF got
  <2> QED OBVIOUS
<1> HIDE DEF step, A, got
<1>5. lru \in A
  BY DEF A
<1>6. PICK h \in [SUBSET (1 .. n) -> A] : FoldsTo(h, n, lru, step)
  BY <1>3, <1>5, FoldExists
<1>7. InsertWalk(h, lru, c)
  <2> DEFINE g == [s \in SUBSET (1 .. n) |->
        IF s = {} THEN lru ELSE Admitted(h[s \ {R!Max(s)}], got(R!Max(s)))]
  <2>1. ASSUME NEW s \in SUBSET (1 .. n) PROVE h[s] = g[s]
    <3>1. CASE s = {}
      BY <3>1, <1>6 DEF FoldsTo
    <3>2. CASE s # {}
      <4>1. R!Max(s) \in 1 .. n /\ s \ {R!Max(s)} \in SUBSET (1 .. n)
        BY <3>2, MaxIs
      <4>2. h[s \ {R!Max(s)}] \in A
        BY <4>1, <1>6
      <4>3. step[<<R!Max(s), h[s \ {R!Max(s)}]>>] = Admitted(h[s \ {R!Max(s)}], got(R!Max(s)))
        BY <4>1, <4>2, <1>4
      <4> QED BY <3>2, <4>3, <1>6 DEF FoldsTo
    <3> QED BY <3>1, <3>2
  <2>2. h = g
    BY <2>1, <1>6
  <2> QED BY <2>2, <1>1, Zenon DEF InsertWalk, Admitted, got
<1>8. InsertWalk(f, lru, c)
  BY <1>7
<1> HIDE DEF f
<1>9. f[1 .. 0] = lru
  <2>1. 1 .. 0 = {} /\ {} \in SUBSET DOMAIN c.missing
    OBVIOUS
  <2> QED BY <2>1, <1>8, Zenon DEF InsertWalk
<1>10. ASSUME NEW k \in 1 .. n PROVE f[1 .. k] = Admitted(f[1 .. k - 1], got(k))
  <2>1. 1 .. k \in SUBSET DOMAIN c.missing /\ 1 .. k # {} /\ k \in Nat \ {0}
    <3>1. 1 .. k \subseteq 1 .. n /\ k \in 1 .. k /\ k \in Nat \ {0}
      OBVIOUS
    <3> QED BY <1>1, <3>1
  <2>2. R!Max(1 .. k) = k /\ (1 .. k) \ {k} = 1 .. k - 1
    BY <2>1, MaxTo
  <2> QED BY <2>1, <2>2, <1>8, Zenon DEF InsertWalk, Admitted, got
<1> QED BY <1>1, <1>2, <1>9, <1>10 DEF got

(* A row of the batch stays while the batch alone fits.                    *)
LEMMA AdmittedKeeps ==
  ASSUME NEW S, NEW kept \in Seq(S), NEW row \in S, NEW B, Distinct(kept), AtEnd(kept, B),
         Len(kept) <= MaxRows, row.id \in B, row.id \notin R!Cached(kept)
  PROVE  /\ Admitted(kept, row) \in Seq(S) /\ Len(Admitted(kept, row)) <= MaxRows
         /\ Distinct(Admitted(kept, row)) /\ AtEnd(Admitted(kept, row), B)
         /\ R!Cached(Admitted(kept, row)) \subseteq R!Cached(kept) \cup {row.id}
         /\ IsFiniteSet(B) /\ Cardinality(B) <= MaxRows =>
               (R!Cached(kept) \cap B) \cup {row.id} \subseteq R!Cached(Admitted(kept, row))
<1>1. PICK n \in Nat : n = Len(kept) /\ DOMAIN kept = 1 .. n
  OBVIOUS
<1>2. PICK m : m = Admitted(kept, row)
  OBVIOUS
<1>3. m \in Seq(S)
  BY <1>2, AdmittedIs
<1>4. PICK more \in Seq(S), rest \in Seq(S) :
        /\ m = IF Len(more) > MaxRows THEN rest ELSE more
        /\ Len(more) = n + 1 /\ Len(rest) = n
        /\ more[n + 1] = row
        /\ \A j \in 1 .. n : more[j] = kept[j] /\ rest[j] = more[j + 1]
  <2>1. Shifts(m, kept, row, S)
    BY <1>2, AdmittedIs
  <2> QED BY <1>1, <2>1 DEF Shifts
<1>5. /\ DOMAIN more = 1 .. n + 1 /\ more \in Seq(S) /\ more[n + 1] = row
      /\ \A j \in 1 .. n : more[j] = kept[j]
  BY <1>4
<1>6. m \in Seq(S) /\ m = (IF n + 1 > MaxRows THEN rest ELSE more)
  BY <1>3, <1>4
<1>7. /\ DOMAIN rest = 1 .. n /\ Len(rest) = n /\ Len(more) = n + 1
      /\ \A j \in 1 .. n : rest[j] = more[j + 1]
  BY <1>4
<1>8. MaxRows \in Nat
  BY TableAssumption
<1>9. \A j \in 1 .. n : kept[j].id # row.id
  BY <1>1 DEF R!Cached
<1>10. Distinct(more)
  <2>1. \A i, j \in 1 .. n : kept[i].id = kept[j].id => i = j
    BY <1>1 DEF Distinct
  <2>2. \A i \in 1 .. n + 1 : i \in 1 .. n \/ i = n + 1
    OBVIOUS
  <2> QED BY <1>5, <1>9, <2>1, <2>2 DEF Distinct
<1>11. AtEnd(more, B)
  <2>1. SUFFICES ASSUME NEW i \in 1 .. n + 1, NEW j \in 1 .. n + 1, i < j, more[i].id \in B
                 PROVE  more[j].id \in B
    BY <1>5 DEF AtEnd
  <2>2. i \in 1 .. n /\ (j \in 1 .. n \/ j = n + 1)
    <3>1. i \in Nat /\ j \in Nat /\ 1 <= i /\ i < j /\ j <= n + 1
      BY <2>1
    <3> QED BY <3>1
  <2>3. CASE j = n + 1
    BY <2>3, <1>5
  <2>4. CASE j \in 1 .. n
    BY <2>1, <2>2, <2>4, <1>1, <1>5 DEF AtEnd
  <2> QED BY <2>2, <2>3, <2>4
<1>12. Distinct(rest) /\ AtEnd(rest, B)
  <2>1. \A j \in 1 .. n : j + 1 \in 1 .. n + 1
    OBVIOUS
  <2>2. \A i, j \in 1 .. n : i + 1 = j + 1 => i = j
    OBVIOUS
  <2>3. \A i, j \in 1 .. n : i < j => i + 1 < j + 1
    OBVIOUS
  <2>4. Distinct(rest)
    <3>1. SUFFICES ASSUME NEW i \in 1 .. n, NEW j \in 1 .. n, rest[i].id = rest[j].id
                   PROVE  i = j
      BY <1>7 DEF Distinct
    <3>2. more[i + 1].id = more[j + 1].id /\ i + 1 \in DOMAIN more /\ j + 1 \in DOMAIN more
      BY <3>1, <2>1, <1>5, <1>7
    <3>3. i + 1 = j + 1
      BY <3>2, <1>10 DEF Distinct
    <3> QED BY <3>3
  <2>5. AtEnd(rest, B)
    <3>1. SUFFICES ASSUME NEW i \in 1 .. n, NEW j \in 1 .. n, i < j, rest[i].id \in B
                   PROVE  rest[j].id \in B
      BY <1>7 DEF AtEnd
    <3>2. more[i + 1].id \in B /\ i + 1 \in DOMAIN more /\ j + 1 \in DOMAIN more /\ i + 1 < j + 1
      BY <3>1, <2>1, <1>5, <1>7
    <3>3. more[j + 1].id \in B
      BY <3>2, <1>11 DEF AtEnd
    <3> QED BY <3>3, <1>7
  <2> QED BY <2>4, <2>5
<1>13. R!Cached(more) = R!Cached(kept) \cup {row.id}
  <2>1. \A i \in 1 .. n + 1 : i \in 1 .. n \/ i = n + 1
    OBVIOUS
  <2>2. n + 1 \in 1 .. n + 1 /\ \A i \in 1 .. n : i \in 1 .. n + 1
    OBVIOUS
  <2> QED BY <1>1, <1>5, <2>1, <2>2 DEF R!Cached
<1>14. \A j \in 2 .. n + 1 : more[j].id \in R!Cached(rest)
  <2>1. SUFFICES ASSUME NEW j \in 2 .. n + 1 PROVE more[j].id \in R!Cached(rest)
    OBVIOUS
  <2>2. j - 1 \in 1 .. n /\ (j - 1) + 1 = j
    OBVIOUS
  <2>3. rest[j - 1] = more[j]
    BY <2>2, <1>7
  <2> QED BY <2>2, <2>3, <1>7 DEF R!Cached
<1>15. R!Cached(rest) \subseteq R!Cached(more)
  <2>1. \A j \in 1 .. n : j + 1 \in 1 .. n + 1
    OBVIOUS
  <2>2. \A j \in 1 .. n : rest[j].id \in R!Cached(more)
    BY <2>1, <1>5, <1>7 DEF R!Cached
  <2> QED BY <2>2, <1>7 DEF R!Cached
<1>16. ASSUME IsFiniteSet(B), Cardinality(B) <= MaxRows, n + 1 > MaxRows
       PROVE  more[1].id \notin B
  <2>1. SUFFICES ASSUME more[1].id \in B PROVE FALSE
    OBVIOUS
  <2>2. \A j \in 1 .. n + 1 : more[j].id \in B
    <3>1. \A j \in 1 .. n + 1 : j = 1 \/ 1 < j
      OBVIOUS
    <3>2. 1 \in 1 .. n + 1
      OBVIOUS
    <3> QED BY <2>1, <3>1, <3>2, <1>5, <1>11 DEF AtEnd
  <2> DEFINE q == [j \in 1 .. n + 1 |-> more[j].id]
  <2>3. q \in Seq(B) /\ Len(q) = n + 1 /\ DOMAIN q = 1 .. n + 1
    BY <2>2
  <2>4. \A j \in 1 .. n + 1 : q[j] = more[j].id
    OBVIOUS
  <2> HIDE DEF q
  <2>5. Injective(q)
    BY <2>3, <2>4, <1>5, <1>10 DEF Injective, Distinct
  <2>6. Cardinality(Elems(q)) = n + 1
    BY <2>3, <2>5, InjectiveSize
  <2>7. Elems(q) \in SUBSET B
    BY <2>2, <2>3, <2>4 DEF Elems
  <2>8. Cardinality(Elems(q)) <= Cardinality(B) /\ Cardinality(B) \in Nat
    BY <2>7, <1>16, FS_Subset, FS_CardinalityType
  <2> QED BY <2>6, <2>8, <1>16, <1>8
<1>17. Len(m) <= MaxRows
  BY <1>1, <1>6, <1>7, <1>8
<1>18. Distinct(m) /\ AtEnd(m, B)
  BY <1>6, <1>10, <1>11, <1>12
<1>19. R!Cached(m) \subseteq R!Cached(kept) \cup {row.id}
  BY <1>6, <1>13, <1>15
<1>20. ASSUME IsFiniteSet(B), Cardinality(B) <= MaxRows
       PROVE  (R!Cached(kept) \cap B) \cup {row.id} \subseteq R!Cached(m)
  <2>1. CASE n + 1 > MaxRows
    <3>1. m = rest
      BY <2>1, <1>6
    <3>2. more[1].id \notin B
      BY <2>1, <1>16, <1>20
    <3>3. SUFFICES ASSUME NEW i \in (R!Cached(kept) \cap B) \cup {row.id} PROVE i \in R!Cached(rest)
      BY <3>1
    <3>4. i \in B /\ i \in R!Cached(more)
      BY <3>3, <1>13
    <3>5. PICK j \in 1 .. n + 1 : more[j].id = i
      BY <3>4, <1>5 DEF R!Cached
    <3>6. j # 1
      BY <3>2, <3>4, <3>5
    <3>7. j \in 2 .. n + 1
      BY <3>6
    <3> QED BY <3>5, <3>7, <1>14
  <2>2. CASE ~ n + 1 > MaxRows
    BY <2>2, <1>6, <1>13
  <2> QED BY <2>1, <2>2
<1> QED BY <1>2, <1>6, <1>17, <1>18, <1>19, <1>20, Zenon

CachedRows == {[id |-> i, row |-> RowIs(i)] : i \in Nat}

(* The rows that were read go in; a batch that fits is in afterwards.      *)
LEMMA InsertedKeeps ==
  ASSUME NEW lru \in Seq(CachedRows), NEW c, NEW B, Distinct(lru), AtEnd(lru, B),
         Len(lru) <= MaxRows, c.missing \in Seq(Nat), Injective(c.missing),
         \A i \in Elems(c.missing) : i \in B /\ i \notin R!Cached(lru),
         \A i \in B : i \in Elems(c.missing) \/ i \in R!Cached(lru),
         \A i \in Elems(c.missing) : R!Got(c, i) = [id |-> i, row |-> RowIs(i)]
  PROVE  /\ R!Inserted(lru, c) \in Seq(CachedRows)
         /\ Len(R!Inserted(lru, c)) <= MaxRows /\ Distinct(R!Inserted(lru, c))
         /\ R!Cached(R!Inserted(lru, c)) \subseteq R!Cached(lru) \cup Elems(c.missing)
         /\ IsFiniteSet(B) /\ Cardinality(B) <= MaxRows => B \subseteq R!Cached(R!Inserted(lru, c))
<1>1. PICK s : s = c.missing
  OBVIOUS
<1>2. PICK n \in Nat : n = Len(s) /\ DOMAIN s = 1 .. n /\ s \in Seq(Nat) /\ Injective(s)
  BY <1>1
<1>3. \A k \in 1 .. n : s[k] \in Nat /\ s[k] \in Elems(s)
  BY <1>2 DEF Elems
<1>4. \A k \in 1 .. n : s[k] \in B /\ s[k] \notin R!Cached(lru)
  BY <1>1, <1>3
<1>5. \A k \in 1 .. n : R!Got(c, s[k]) = [id |-> s[k], row |-> RowIs(s[k])]
  BY <1>1, <1>3
<1>6. \A i \in Elems(s) : R!Got(c, i) \in CachedRows
  <2>1. \A i \in Elems(s) : i \in Nat
    BY <1>2, <1>3 DEF Elems
  <2> QED BY <1>1, <2>1 DEF CachedRows
<1>7. PICK f : /\ f[1 .. 0] = lru /\ R!Inserted(lru, c) = f[1 .. n]
               /\ \A k \in 1 .. n : f[1 .. k] = Admitted(f[1 .. k - 1], R!Got(c, s[k]))
  <2>1. IsList(c.missing) /\ \A i \in Elems(c.missing) : R!Got(c, i) \in CachedRows
    BY <1>1, <1>6 DEF IsList
  <2> QED BY <1>1, <1>2, <2>1, InsertedIs
<1> DEFINE Fits == IsFiniteSet(B) /\ Cardinality(B) <= MaxRows
           Good(k) ==
             /\ f[1 .. k] \in Seq(CachedRows) /\ Len(f[1 .. k]) <= MaxRows
             /\ Distinct(f[1 .. k]) /\ AtEnd(f[1 .. k], B)
             /\ \A i \in R!Cached(f[1 .. k]) :
                   i \in R!Cached(lru) \/ \E j \in 1 .. k : s[j] = i
             /\ Fits => /\ \A i \in R!Cached(lru) : i \in B => i \in R!Cached(f[1 .. k])
                        /\ \A j \in 1 .. k : s[j] \in R!Cached(f[1 .. k])
           G == {k \in 0 .. n : Good(k)}
<1>8. 0 \in G
  <2>1. 0 \in 0 .. n /\ \A j \in 1 .. 0 : FALSE
    OBVIOUS
  <2>2. Good(0)
    BY <1>7, <2>1
  <2> QED BY <2>1, <2>2
<1>9. ASSUME NEW k \in 1 .. n, k - 1 \in G PROVE k \in G
  <2>1. PICK kept : kept = f[1 .. k - 1]
    OBVIOUS
  <2>2. PICK row \in CachedRows : row = R!Got(c, s[k]) /\ row.id = s[k]
    <3>1. PICK row : row = R!Got(c, s[k])
      OBVIOUS
    <3>2. row = [id |-> s[k], row |-> RowIs(s[k])]
      BY <1>5, <3>1
    <3>3. row \in CachedRows
      BY <1>3, <1>6, <3>1
    <3>4. row.id = s[k]
      BY <3>2
    <3> QED BY <3>1, <3>3, <3>4
  <2>3. Good(k - 1) /\ k \in 0 .. n
    BY <1>9
  <2>4. PICK m : m = f[1 .. k] /\ m = Admitted(kept, row)
    BY <1>7, <2>1, <2>2
  <2>5. /\ kept \in Seq(CachedRows) /\ Distinct(kept) /\ AtEnd(kept, B) /\ Len(kept) <= MaxRows
        /\ \A i \in R!Cached(kept) : i \in R!Cached(lru) \/ \E j \in 1 .. k - 1 : s[j] = i
        /\ Fits => /\ \A i \in R!Cached(lru) : i \in B => i \in R!Cached(kept)
                   /\ \A j \in 1 .. k - 1 : s[j] \in R!Cached(kept)
    BY <2>1, <2>3
  <2> HIDE DEF Good, G, Fits
  <2>6. \A j \in 1 .. k - 1 : s[j] # s[k] /\ s[j] \in B
    <3>1. SUFFICES ASSUME NEW j \in 1 .. k - 1 PROVE s[j] # s[k] /\ s[j] \in B
      OBVIOUS
    <3>2. j \in 1 .. n /\ j # k
      OBVIOUS
    <3> QED BY <3>2, <1>2, <1>4 DEF Injective
  <2>7. row.id \in B /\ row.id \notin R!Cached(kept)
    BY <1>4, <2>2, <2>5, <2>6
  <2>8. /\ m \in Seq(CachedRows) /\ Len(m) <= MaxRows /\ Distinct(m) /\ AtEnd(m, B)
        /\ R!Cached(m) \subseteq R!Cached(kept) \cup {row.id}
        /\ Fits => (R!Cached(kept) \cap B) \cup {row.id} \subseteq R!Cached(m)
    BY <2>4, <2>5, <2>7, AdmittedKeeps DEF Fits
  <2>9. \A j \in 1 .. k : j = k \/ j \in 1 .. k - 1
    OBVIOUS
  <2>10. k \in 1 .. k /\ \A j \in 1 .. k - 1 : j \in 1 .. k
    OBVIOUS
  <2>11. \A i \in R!Cached(m) : i \in R!Cached(lru) \/ \E j \in 1 .. k : s[j] = i
    BY <2>2, <2>5, <2>8, <2>10
  <2>12. Fits => /\ \A i \in R!Cached(lru) : i \in B => i \in R!Cached(m)
                 /\ \A j \in 1 .. k : s[j] \in R!Cached(m)
    BY <2>2, <2>5, <2>6, <2>8, <2>9
  <2>13. Good(k)
    BY <2>4, <2>8, <2>11, <2>12 DEF Good
  <2> QED BY <2>3, <2>13 DEF G
<1> HIDE DEF G
<1>10. Good(n)
  <2>1. n \in 0 .. n
    OBVIOUS
  <2>2. n \in G
    BY <1>8, <1>9, <2>1, UpTo
  <2> QED BY <2>2 DEF G
<1>11. ASSUME Fits PROVE B \subseteq R!Cached(f[1 .. n])
  <2>1. SUFFICES ASSUME NEW i \in B PROVE i \in R!Cached(f[1 .. n])
    OBVIOUS
  <2>2. CASE i \in R!Cached(lru)
    BY <2>2, <1>10, <1>11
  <2>3. CASE i \in Elems(s)
    <3>1. PICK j \in 1 .. n : s[j] = i
      BY <2>3, <1>2 DEF Elems
    <3> QED BY <3>1, <1>10, <1>11
  <2> QED BY <2>2, <2>3, <1>1
<1>12. R!Cached(f[1 .. n]) \subseteq R!Cached(lru) \cup Elems(s)
  BY <1>3, <1>10
<1> QED BY <1>1, <1>7, <1>10, <1>11, <1>12

(* What a thread has read of a missing row is its row.                     *)
LEMMA GotIs ==
  ASSUME NEW c, NEW w \in Nat \ {0}, DOMAIN c.work = 1 .. w,
         \A t \in 1 .. w : c.work[t].ids \in Seq(Nat) /\ c.work[t].got = RowsAre(c.work[t].ids),
         NEW i, \E t \in 1 .. w : i \in Elems(c.work[t].ids)
  PROVE  R!Got(c, i) = [id |-> i, row |-> RowIs(i)]
<1>1. PICK ss : ss = [t \in 1 .. w |-> c.work[t].ids]
  OBVIOUS
<1>2. ss \in [1 .. w -> Seq(Nat)] /\ \A t \in 1 .. w : ss[t] = c.work[t].ids
  BY <1>1
<1>3. R!Keys(c) = R!FlattenSeq(ss)
  BY <1>1 DEF R!Keys
<1>4. R!Rows(c) = R!FlattenSeq([t \in 1 .. w |-> RowsAre(ss[t])])
  <2>1. [t \in DOMAIN c.work |-> c.work[t].got] = [t \in 1 .. w |-> RowsAre(ss[t])]
    BY <1>2
  <2> QED BY <2>1 DEF R!Rows
<1>5. PICK keys \in Seq(Nat) : keys = R!Keys(c) /\ R!Rows(c) = RowsAre(keys)
                               /\ \A t \in 1 .. w : Elems(ss[t]) \subseteq Elems(keys)
  BY <1>2, <1>3, <1>4, FlattenedAre
<1>6. i \in Elems(keys)
  BY <1>2, <1>5
<1>7. PICK p : p = CHOOSE j \in DOMAIN keys : keys[j] = i
  OBVIOUS
<1>8. p \in DOMAIN keys /\ keys[p] = i
  BY <1>6, <1>7 DEF Elems
<1>9. RowsAre(keys)[p] = RowIs(i)
  BY <1>8 DEF RowsAre
<1> QED BY <1>5, <1>7, <1>9 DEF R!Got

(* A lookup whose rows are all cached is answered with them.               *)
LEMMA AnsweredIs ==
  ASSUME NEW lru \in Seq(CachedRows), NEW ids \in Seq(Nat), NEW c, c = R!Answered(lru, ids)
  PROVE  /\ c.ids = ids
         /\ c.outcome = IF Elems(ids) \subseteq R!Cached(lru) THEN "rows" ELSE "error"
         /\ c.outcome = "rows" => c.answer = RowsAre(ids)
<1>1. CASE Elems(ids) \subseteq R!Cached(lru)
  <2>1. \A j \in DOMAIN ids : R!RowOf(lru, ids[j]) = RowIs(ids[j])
    <3>1. SUFFICES ASSUME NEW j \in DOMAIN ids PROVE R!RowOf(lru, ids[j]) = RowIs(ids[j])
      OBVIOUS
    <3>2. PICK i \in Nat : i = ids[j]
      OBVIOUS
    <3>3. i \in R!Cached(lru)
      BY <1>1, <3>2 DEF Elems
    <3>4. PICK p \in DOMAIN lru : lru[p].id = i
      BY <3>3 DEF R!Cached
    <3>5. lru[p] \in Elems(lru)
      BY <3>4 DEF Elems
    <3>6. PICK r : r = CHOOSE q \in Elems(lru) : q.id = i
      OBVIOUS
    <3>7. r \in Elems(lru) /\ r.id = i
      BY <3>4, <3>5, <3>6
    <3>8. r \in CachedRows
      BY <3>7 DEF Elems
    <3>9. r.row = RowIs(i)
      BY <3>7, <3>8 DEF CachedRows
    <3> QED BY <3>2, <3>6, <3>9, SameElems DEF R!RowOf
  <2>2. [j \in DOMAIN ids |-> R!RowOf(lru, ids[j])] = RowsAre(ids)
    BY <2>1 DEF RowsAre
  <2>3. c = [R!Idle EXCEPT !.ids = ids, !.outcome = "rows", !.answer = RowsAre(ids)]
    BY <1>1, <2>2, SameElems DEF R!Answered
  <2> QED BY <1>1, <2>3 DEF R!Idle
<1>2. CASE ~ Elems(ids) \subseteq R!Cached(lru)
  <2>1. c = [R!Idle EXCEPT !.ids = ids, !.outcome = "error"]
    BY <1>2, SameElems DEF R!Answered
  <2> QED BY <1>2, <2>1 DEF R!Idle
<1> QED BY <1>1, <1>2

-----------------------------------------------------------------------------
\* A mapping of the first edition, and a cache that is no larger than its bound.
SoundCache ==
  /\ source.edition = 1
  /\ cache.rows \in Seq(CachedRows) /\ Distinct(cache.rows) /\ Len(cache.rows) <= MaxRows

\* Every row that is missing belongs to a thread, which has it when it is done.
SoundWork(c) ==
  \E w \in Nat \ {0} :
    /\ DOMAIN c.work = 1 .. w
    /\ \A t \in 1 .. w :
         /\ c.work[t].ids \in Seq(Nat)
         /\ c.work[t].at \in {"new", "counting", "done"}
         /\ c.work[t].at # "new" => c.work[t].got = RowsAre(c.work[t].ids)
    /\ \A i \in Elems(c.missing) : \E t \in 1 .. w : i \in Elems(c.work[t].ids)

\* What is missing is what was not cached, and what was is the youngest.
SoundRead(c, lru) ==
  /\ c.outcome = "none" /\ c.ids \in Seq(Nat)
  /\ c.missing \in Seq(Nat) /\ Injective(c.missing)
  /\ \A i \in Elems(c.missing) : i \in Elems(c.ids) /\ i \notin R!Cached(lru)
  /\ \A i \in Elems(c.ids) : i \in Elems(c.missing) \/ i \in R!Cached(lru)
  /\ AtEnd(lru, Elems(c.ids))
  /\ SoundWork(c)

\* An answer is the rows that were asked for, and they are cached.
SoundAnswer(c, lru) ==
  /\ c.outcome = "rows" => c.answer = RowsAre(c.ids) /\ Elems(c.ids) \subseteq R!Cached(lru)
  /\ c.outcome = "error" => ~ Cardinality(Elems(c.ids)) <= MaxRows

ReaderInv ==
  /\ SoundCache
  /\ at = "reading" => SoundRead(call, cache.rows)
  /\ SoundAnswer(call, cache.rows)
  /\ at \in {"between", "step", "ending"} => call.outcome = "none"

LEMMA IdleIs == R!Idle.outcome = "none"
BY DEF R!Idle

LEMMA NoneIsSound == ASSUME NEW c, NEW lru, c.outcome = "none" PROVE SoundAnswer(c, lru)
BY DEF SoundAnswer

LEMMA FreshEdition == ASSUME NEW n PROVE R!Fresh(n).edition = n
BY DEF R!Fresh

LEMMA AdviceKeepsEdition ==
  ASSUME NEW s, NEW policy, NEW t \in R!SetAdvice(s, policy) PROVE t.edition = s.edition
<1>1. \A k : R!Stopped(s, policy, k).edition = s.edition
  BY DEF R!Stopped, R!Recorded
<1>2. R!Applied(s, policy).edition = s.edition
  BY DEF R!Applied, R!Recorded
<1>3. \A u, bad : R!RolledBack(u, bad).edition = u.edition
  BY DEF R!RolledBack, R!Recorded
<1> QED BY <1>1, <1>2, <1>3 DEF R!SetAdvice

LEMMA ReaderStart == R!Init => ReaderInv
<1> SUFFICES ASSUME R!Init PROVE ReaderInv
  OBVIOUS
<1>1. source.edition = 1
  <2>1. source \in R!SetAdvice(R!Fresh(1), "random") \/ source = R!Fresh(1)
    BY DEF R!Init
  <2> QED BY <2>1, FreshEdition, AdviceKeepsEdition
<1>2. cache.rows = <<>> /\ at = "between" /\ call.outcome = "none"
  BY IdleIs DEF R!Init
<1>3. <<>> \in Seq(CachedRows) /\ Distinct(<<>>) /\ Len(<<>>) <= MaxRows
  BY TableAssumption DEF Distinct
<1>4. SoundCache
  BY <1>1, <1>2, <1>3 DEF SoundCache
<1> QED BY <1>2, <1>4, NoneIsSound DEF ReaderInv

-----------------------------------------------------------------------------
\* Every step of the reader keeps it sound.
LEMMA AskedIs ==
  ASSUME NEW ids \in R!Batches PROVE ids \in Seq(Nat) /\ ids # <<>>
<1>1. PICK n \in 1 .. MaxIds : ids \in [1 .. n -> Table]
  BY DEF R!Batches
<1>2. n \in Nat \ {0} /\ Table \subseteq Nat
  BY <1>1, TableAssumption
<1>3. ids \in [1 .. n -> Nat]
  BY <1>1, <1>2
<1>4. ids \in Seq(Nat) /\ Len(ids) = n
  BY <1>2, <1>3
<1>5. ids # <<>>
  BY <1>2, <1>4
<1> QED BY <1>4, <1>5

(* An answer out of a sound cache, in which a batch that fits is complete. *)
LEMMA AnswerStep ==
  ASSUME NEW lru \in Seq(CachedRows), NEW ids \in Seq(Nat), NEW c, c = R!Answered(lru, ids),
         Cardinality(Elems(ids)) <= MaxRows => Elems(ids) \subseteq R!Cached(lru)
  PROVE  SoundAnswer(c, lru) /\ c.outcome \in {"rows", "error"}
<1>1. /\ c.ids = ids
      /\ c.outcome = IF Elems(ids) \subseteq R!Cached(lru) THEN "rows" ELSE "error"
      /\ c.outcome = "rows" => c.answer = RowsAre(ids)
  BY AnsweredIs
<1> QED BY <1>1 DEF SoundAnswer

(* The threads begin with the parts of what is missing.                    *)
LEMMA WorkBegins ==
  ASSUME NEW missing \in Seq(Nat), Injective(missing), missing # <<>>, NEW c,
         c.missing = missing,
         c.work = [t \in DOMAIN R!Chunks(missing) |->
                    [ids |-> R!Chunks(missing)[t], at |-> "new", got |-> <<>>,
                     key |-> <<>>, was |-> 0]]
  PROVE  SoundWork(c)
<1>1. PICK chunks : chunks = R!Chunks(missing)
  OBVIOUS
<1>2. PICK w \in 1 .. ReadWorkers :
         /\ chunks \in [1 .. w -> Seq(Nat)]
         /\ \A i \in Elems(missing) : \E k \in 1 .. w : i \in Elems(chunks[k])
  BY <1>1, ChunksAre
<1>3. w \in Nat \ {0}
  BY <1>2, TableAssumption
<1>4. /\ DOMAIN c.work = 1 .. w
      /\ \A t \in 1 .. w : c.work[t] = [ids |-> chunks[t], at |-> "new", got |-> <<>>,
                                        key |-> <<>>, was |-> 0]
  BY <1>1, <1>2
<1>5. \A t \in 1 .. w : c.work[t].ids = chunks[t] /\ c.work[t].at = "new"
  <2>1. SUFFICES ASSUME NEW t \in 1 .. w
                 PROVE  c.work[t].ids = chunks[t] /\ c.work[t].at = "new"
    OBVIOUS
  <2>2. c.work[t] = [ids |-> chunks[t], at |-> "new", got |-> <<>>, key |-> <<>>, was |-> 0]
    BY <1>4
  <2> QED BY <2>2
<1>6. \A t \in 1 .. w : chunks[t] \in Seq(Nat)
  BY <1>2
<1>7. \A i \in Elems(c.missing) : \E t \in 1 .. w : i \in Elems(c.work[t].ids)
  BY <1>2, <1>5
<1> QED BY <1>3, <1>4, <1>5, <1>6, <1>7 DEF SoundWork

LEMMA LookupStep ==
  ASSUME ReaderInv, NEW ids \in R!Batches, R!Lookup(ids) PROVE ReaderInv'
<1>1. PICK lru : lru = cache.rows
  OBVIOUS
<1>2. PICK missing : missing = R!Missing(lru, ids)
  OBVIOUS
<1>3. PICK used : used = R!Used(lru, ids)
  OBVIOUS
<1>4. ids \in Seq(Nat) /\ ids # <<>> /\ IsList(ids)
  <2>1. ids \in Seq(Nat) /\ ids # <<>>
    BY AskedIs
  <2> QED BY <2>1 DEF IsList
<1>5. lru \in Seq(CachedRows) /\ Distinct(lru) /\ Len(lru) <= MaxRows /\ source.edition = 1
  BY <1>1 DEF ReaderInv, SoundCache
<1>6. /\ missing \in Seq(Nat) /\ Injective(missing)
      /\ Elems(missing) = Elems(ids) \ R!Cached(lru)
  BY <1>2, <1>4, MissingAre
<1>7. /\ used \in Seq(CachedRows) /\ Len(used) = Len(lru) /\ R!Cached(used) = R!Cached(lru)
      /\ Distinct(used) /\ AtEnd(used, Elems(ids))
  BY <1>3, <1>4, <1>5, UsedKeeps DEF Reused
<1>8. cache'.rows = used /\ source' = source
  BY <1>1, <1>3 DEF R!Lookup
<1>9. SoundCache'
  BY <1>5, <1>7, <1>8 DEF SoundCache
<1>10. CASE missing = <<>>
  <2>1. at' = "outputs" /\ call' = R!Answered(used, ids)
    BY <1>1, <1>2, <1>3, <1>10 DEF R!Lookup
  <2>2. Elems(ids) \subseteq R!Cached(used)
    BY <1>6, <1>7, <1>10, EmptyIsList
  <2>3. SoundAnswer(call', used)
    BY <2>1, <2>2, <1>4, <1>7, AnswerStep
  <2> QED BY <1>8, <1>9, <2>1, <2>3 DEF ReaderInv
<1>11. CASE missing # <<>>
  <2>1. PICK chunks : chunks = R!Chunks(missing)
    OBVIOUS
  <2>2. PICK work : work = [t \in DOMAIN chunks |->
                             [ids |-> chunks[t], at |-> "new", got |-> <<>>,
                              key |-> <<>>, was |-> 0]]
    OBVIOUS
  <2>3. at' = "reading" /\ call' = [R!Idle EXCEPT !.ids = ids, !.missing = missing, !.work = work]
    BY <1>1, <1>2, <1>11, <2>1, <2>2 DEF R!Lookup
  <2>4. call'.ids = ids /\ call'.missing = missing /\ call'.work = work /\ call'.outcome = "none"
    BY <2>3 DEF R!Idle
  <2>5. SoundWork(call')
    BY <1>6, <1>11, <2>1, <2>2, <2>4, WorkBegins
  <2>6. SoundRead(call', used)
    BY <1>4, <1>6, <1>7, <2>4, <2>5 DEF SoundRead
  <2>7. SoundAnswer(call', used)
    BY <2>4, NoneIsSound
  <2> QED BY <1>8, <1>9, <2>3, <2>6, <2>7 DEF ReaderInv
<1> QED BY <1>10, <1>11

(* What a thread does with its part leaves the parts of the others.        *)
LEMMA ThreadStep ==
  ASSUME NEW c, NEW d, NEW lru, SoundRead(c, lru), NEW t \in DOMAIN c.work, NEW v,
         d = [c EXCEPT !.work[t] = v], v.ids = c.work[t].ids,
         v.at \in {"counting", "done"}, v.got = RowsAre(v.ids)
  PROVE  SoundRead(d, lru)
<1>1. PICK w \in Nat \ {0} :
        /\ DOMAIN c.work = 1 .. w
        /\ \A u \in 1 .. w :
             /\ c.work[u].ids \in Seq(Nat)
             /\ c.work[u].at \in {"new", "counting", "done"}
             /\ c.work[u].at # "new" => c.work[u].got = RowsAre(c.work[u].ids)
        /\ \A i \in Elems(c.missing) : \E u \in 1 .. w : i \in Elems(c.work[u].ids)
  BY DEF SoundRead, SoundWork
<1>2. /\ d.ids = c.ids /\ d.missing = c.missing /\ d.outcome = c.outcome
      /\ DOMAIN d.work = DOMAIN c.work
      /\ \A u \in DOMAIN c.work : d.work[u] = IF u = t THEN v ELSE c.work[u]
  OBVIOUS
<1>3. \A u \in 1 .. w :
         /\ d.work[u].ids \in Seq(Nat)
         /\ d.work[u].at \in {"new", "counting", "done"}
         /\ d.work[u].at # "new" => d.work[u].got = RowsAre(d.work[u].ids)
         /\ d.work[u].ids = c.work[u].ids
  <2>1. SUFFICES ASSUME NEW u \in 1 .. w
                 PROVE  /\ d.work[u].ids \in Seq(Nat)
                        /\ d.work[u].at \in {"new", "counting", "done"}
                        /\ d.work[u].at # "new" => d.work[u].got = RowsAre(d.work[u].ids)
                        /\ d.work[u].ids = c.work[u].ids
    OBVIOUS
  <2>2. CASE u = t
    <3>1. d.work[u] = v /\ c.work[u].ids \in Seq(Nat)
      BY <1>1, <1>2, <2>2
    <3> QED BY <2>2, <3>1
  <2>3. CASE u # t
    <3>1. d.work[u] = c.work[u]
      BY <1>1, <1>2, <2>3
    <3> QED BY <3>1, <1>1
  <2> QED BY <2>2, <2>3
<1>4. SoundWork(d)
  <2>1. \A i \in Elems(d.missing) : \E u \in 1 .. w : i \in Elems(d.work[u].ids)
    BY <1>1, <1>2, <1>3
  <2> QED BY <1>1, <1>2, <1>3, <2>1 DEF SoundWork
<1> QED BY <1>2, <1>4 DEF SoundRead

LEMMA ReadKeeps ==
  ASSUME SoundCache, at' = "reading", cache' = cache, source' = source,
         SoundRead(call', cache.rows)
  PROVE  ReaderInv'
<1>1. call'.outcome = "none"
  BY DEF SoundRead
<1>2. SoundAnswer(call', cache.rows)
  BY <1>1, NoneIsSound
<1> QED BY <1>2 DEF ReaderInv, SoundCache

LEMMA GatherStep ==
  ASSUME ReaderInv, NEW t \in DOMAIN call.work, R!Gather(t) PROVE ReaderInv'
<1>1. PICK w : w = call.work[t]
  OBVIOUS
<1>2. at = "reading" /\ at' = at /\ cache' = cache /\ source' = source
  BY DEF R!Gather
<1>3. SoundRead(call, cache.rows) /\ SoundCache
  BY <1>2 DEF ReaderInv
<1>4. [j \in DOMAIN w.ids |-> [id |-> w.ids[j], edition |-> source.edition]] = RowsAre(w.ids)
  BY <1>3 DEF SoundCache, RowsAre, RowIs
<1>5. PICK read : read = [w EXCEPT !.got = RowsAre(w.ids)]
  OBVIOUS
<1>6. PICK key : key = R!Bucket(R!PhaseNow(obs.request), t)
  OBVIOUS
<1>7. PICK v : v = IF obs.request.active
                   THEN [read EXCEPT !.at = "counting", !.key = key,
                                     !.was = obs.request.reader[key]]
                   ELSE [read EXCEPT !.at = "done"]
  OBVIOUS
<1>8. call' = [call EXCEPT !.work[t] = v]
  BY <1>1, <1>4, <1>5, <1>6, <1>7 DEF R!Gather
<1>9. v.ids = w.ids /\ v.at \in {"counting", "done"} /\ v.got = RowsAre(w.ids)
  BY <1>5, <1>7
<1>10. SoundRead(call', cache.rows)
  <2>1. PICK c : c = call
    OBVIOUS
  <2>2. PICK d : d = call'
    OBVIOUS
  <2>3. PICK lru : lru = cache.rows
    OBVIOUS
  <2>4. /\ SoundRead(c, lru) /\ t \in DOMAIN c.work /\ d = [c EXCEPT !.work[t] = v]
        /\ v.ids = c.work[t].ids /\ v.at \in {"counting", "done"} /\ v.got = RowsAre(v.ids)
    BY <1>1, <1>3, <1>8, <1>9, <2>1, <2>2, <2>3, Zenon
  <2>5. SoundRead(d, lru)
    BY <2>4, ThreadStep, Zenon
  <2> QED BY <2>2, <2>3, <2>5
<1> QED BY <1>2, <1>3, <1>10, ReadKeeps

LEMMA StoreStep ==
  ASSUME ReaderInv, NEW t \in DOMAIN call.work, R!Store(t) PROVE ReaderInv'
<1>1. PICK w : w = call.work[t]
  OBVIOUS
<1>2. at = "reading" /\ at' = at /\ cache' = cache /\ source' = source /\ w.at = "counting"
  BY <1>1 DEF R!Store
<1>3. SoundRead(call, cache.rows) /\ SoundCache
  BY <1>2 DEF ReaderInv
<1>4. PICK v : call' = [call EXCEPT !.work[t] = v] /\ v = [w EXCEPT !.at = "done"]
  BY <1>1 DEF R!Store
<1>5. v.ids = w.ids /\ v.at = "done" /\ v.got = w.got
  BY <1>4
<1>6. w.got = RowsAre(w.ids)
  <2>1. DOMAIN call.work # {} /\ w.at # "new"
    BY <1>2
  <2> QED BY <1>1, <1>3, <2>1 DEF SoundRead, SoundWork
<1>7. SoundRead(call', cache.rows)
  <2>1. PICK c : c = call
    OBVIOUS
  <2>2. PICK d : d = call'
    OBVIOUS
  <2>3. PICK lru : lru = cache.rows
    OBVIOUS
  <2>4. /\ SoundRead(c, lru) /\ t \in DOMAIN c.work /\ d = [c EXCEPT !.work[t] = v]
        /\ v.ids = c.work[t].ids /\ v.at \in {"counting", "done"} /\ v.got = RowsAre(v.ids)
    BY <1>1, <1>3, <1>4, <1>5, <1>6, <2>1, <2>2, <2>3, Zenon
  <2>5. SoundRead(d, lru)
    BY <2>4, ThreadStep, Zenon
  <2> QED BY <2>2, <2>3, <2>5
<1> QED BY <1>2, <1>3, <1>7, ReadKeeps

LEMMA ElemsFinite == ASSUME NEW S, NEW s \in Seq(S) PROVE IsFiniteSet(Elems(s))
<1>1. PICK n \in Nat : n = Len(s) /\ DOMAIN s = 1 .. n
  OBVIOUS
<1>2. IsFiniteSet(1 .. n)
  <2>1. 1 \in Int /\ n \in Int
    OBVIOUS
  <2> QED BY <2>1, FS_Interval, Zenon
<1>3. s \in [1 .. n -> Elems(s)] /\ \A v \in Elems(s) : \E x \in 1 .. n : s[x] = v
  BY <1>1 DEF Elems
<1>4. s \in Surjection(1 .. n, Elems(s))
  BY <1>3 DEF Surjection
<1> QED BY <1>2, <1>4, FS_Surjection

(* What the threads of a sound lookup have read are the rows themselves.   *)
LEMMA AllGot ==
  ASSUME NEW c, NEW lru, SoundRead(c, lru), \A t \in DOMAIN c.work : c.work[t].at = "done"
  PROVE  \A i \in Elems(c.missing) : R!Got(c, i) = [id |-> i, row |-> RowIs(i)]
<1>1. PICK w \in Nat \ {0} :
        /\ DOMAIN c.work = 1 .. w
        /\ \A u \in 1 .. w :
             /\ c.work[u].ids \in Seq(Nat)
             /\ c.work[u].at \in {"new", "counting", "done"}
             /\ c.work[u].at # "new" => c.work[u].got = RowsAre(c.work[u].ids)
        /\ \A i \in Elems(c.missing) : \E u \in 1 .. w : i \in Elems(c.work[u].ids)
  BY DEF SoundRead, SoundWork
<1>2. \A u \in 1 .. w : c.work[u].ids \in Seq(Nat) /\ c.work[u].got = RowsAre(c.work[u].ids)
  BY <1>1
<1>3. SUFFICES ASSUME NEW i \in Elems(c.missing)
               PROVE  R!Got(c, i) = [id |-> i, row |-> RowIs(i)]
  OBVIOUS
<1>4. \E u \in 1 .. w : i \in Elems(c.work[u].ids)
  BY <1>1
<1> QED BY <1>1, <1>2, <1>4, GotIs

\* What a lookup makes of a sound cache is sound, and has its rows if they fit.
SoundInsert(new, c, lru) ==
  /\ new \in Seq(CachedRows) /\ Len(new) <= MaxRows /\ Distinct(new)
  /\ R!Cached(new) \subseteq R!Cached(lru) \cup Elems(c.missing)
  /\ Cardinality(Elems(c.ids)) <= MaxRows => Elems(c.ids) \subseteq R!Cached(new)

LEMMA InsertedSound ==
  ASSUME NEW lru \in Seq(CachedRows), Distinct(lru), Len(lru) <= MaxRows,
         NEW c, SoundRead(c, lru), \A t \in DOMAIN c.work : c.work[t].at = "done"
  PROVE  SoundInsert(R!Inserted(lru, c), c, lru)
<1>1. PICK new : new = R!Inserted(lru, c)
  OBVIOUS
<1>2. PICK B : B = Elems(c.ids)
  OBVIOUS
<1>3. /\ c.ids \in Seq(Nat) /\ c.missing \in Seq(Nat) /\ Injective(c.missing)
      /\ \A i \in Elems(c.missing) : i \in B /\ i \notin R!Cached(lru)
      /\ \A i \in B : i \in Elems(c.missing) \/ i \in R!Cached(lru)
      /\ AtEnd(lru, B)
  BY <1>2 DEF SoundRead
<1>4. \A i \in Elems(c.missing) : R!Got(c, i) = [id |-> i, row |-> RowIs(i)]
  BY AllGot
<1>5. /\ new \in Seq(CachedRows) /\ Len(new) <= MaxRows /\ Distinct(new)
      /\ R!Cached(new) \subseteq R!Cached(lru) \cup Elems(c.missing)
      /\ IsFiniteSet(B) /\ Cardinality(B) <= MaxRows => B \subseteq R!Cached(new)
  BY <1>1, <1>3, <1>4, InsertedKeeps
<1>6. IsFiniteSet(B)
  BY <1>2, <1>3, ElemsFinite
<1> QED BY <1>1, <1>2, <1>5, <1>6 DEF SoundInsert

LEMMA InsertStep == ASSUME ReaderInv, R!Insert PROVE ReaderInv'
<1>1. PICK c : c = call
  OBVIOUS
<1>2. PICK lru : lru = cache.rows
  OBVIOUS
<1>3. PICK new : new = R!Inserted(lru, c)
  OBVIOUS
<1>4. PICK ids : ids = c.ids
  OBVIOUS
<1>5. /\ at = "reading" /\ \A t \in DOMAIN c.work : c.work[t].at = "done"
      /\ cache'.rows = new /\ call' = R!Answered(new, ids) /\ at' \in {"dead", "outputs"}
      /\ source' = source
  BY <1>1, <1>2, <1>3, <1>4 DEF R!Insert, R!Die
<1>6. SoundRead(c, lru) /\ SoundCache
  BY <1>1, <1>2, <1>5 DEF ReaderInv
<1>7. lru \in Seq(CachedRows) /\ Distinct(lru) /\ Len(lru) <= MaxRows /\ source.edition = 1
  BY <1>2, <1>6 DEF SoundCache
<1>8. ids \in Seq(Nat)
  BY <1>4, <1>6 DEF SoundRead
<1>9. SoundInsert(new, c, lru)
  BY <1>3, <1>5, <1>6, <1>7, InsertedSound
<1>10. /\ new \in Seq(CachedRows) /\ Len(new) <= MaxRows /\ Distinct(new)
       /\ Cardinality(Elems(ids)) <= MaxRows => Elems(ids) \subseteq R!Cached(new)
  BY <1>4, <1>9 DEF SoundInsert
<1>11. SoundAnswer(call', new)
  <2>1. PICK d : d = call'
    OBVIOUS
  <2>2. d = R!Answered(new, ids) /\ (Cardinality(Elems(ids)) <= MaxRows => Elems(ids) \subseteq R!Cached(new))
    BY <1>5, <1>10, <2>1
  <2>3. SoundAnswer(d, new)
    BY <2>2, <1>8, <1>10, AnswerStep
  <2> QED BY <2>1, <2>3
<1>12. SoundCache'
  BY <1>5, <1>7, <1>10 DEF SoundCache
<1> QED BY <1>5, <1>11, <1>12 DEF ReaderInv

(* A step that neither reads nor answers, and leaves the cache and the call.*)
LEMMA Apart ==
  ASSUME ReaderInv, call' = call, cache' = cache, source'.edition = 1,
         at' # "reading",
         at' \in {"between", "step", "ending"} => call.outcome = "none"
  PROVE  ReaderInv'
BY DEF ReaderInv, SoundCache

LEMMA PrepareStep == ASSUME ReaderInv, NEW policy, R!Prepare(policy) PROVE ReaderInv'
<1>1. source.edition = 1 /\ at = "between" /\ call' = call /\ call.outcome = "none"
  BY DEF ReaderInv, SoundCache, R!Prepare
<1>2. at' \in {"between", "dead"}
  BY <1>1 DEF R!Prepare, R!Die
<1>3. CASE source' = source /\ cache' = cache
  BY <1>1, <1>2, <1>3, Apart
<1>4. CASE source'.edition = 1 /\ cache'.rows = <<>>
  <2>1. <<>> \in Seq(CachedRows) /\ Distinct(<<>>) /\ Len(<<>>) <= MaxRows
    BY TableAssumption DEF Distinct
  <2>2. SoundAnswer(call', cache'.rows)
    BY <1>1, NoneIsSound
  <2> QED BY <1>1, <1>2, <1>4, <2>1, <2>2 DEF ReaderInv, SoundCache
<1>5. (source' = source /\ cache' = cache) \/ (source'.edition = 1 /\ cache'.rows = <<>>)
  <2>1. PICK fresh \in R!SetAdvice(R!Fresh(disk), policy) :
           IF ~R!SameFile(fresh, source) \/ ~R!TookEffect(fresh, policy)
           THEN UNCHANGED <<source, cache>>
           ELSE R!Prepared(fresh)
    BY DEF R!Prepare
  <2>2. CASE ~R!SameFile(fresh, source) \/ ~R!TookEffect(fresh, policy)
    BY <2>1, <2>2
  <2>3. CASE R!SameFile(fresh, source) /\ R!TookEffect(fresh, policy)
    <3>1. source' = fresh /\ cache' = [cache EXCEPT !.rows = <<>>]
      BY <2>1, <2>3 DEF R!Prepared
    <3>2. source'.edition = 1
      BY <1>1, <2>3, <3>1 DEF R!SameFile
    <3>3. cache'.rows = <<>>
      BY <3>1
    <3> QED BY <3>2, <3>3
  <2> QED BY <2>2, <2>3
<1> QED BY <1>3, <1>4, <1>5

LEMMA ReaderStep == ASSUME ReaderInv, R!Next PROVE ReaderInv'
<1>1. source.edition = 1 /\ (at \in {"between", "step", "ending"} => call.outcome = "none")
  BY DEF ReaderInv, SoundCache
<1>2. ASSUME NEW policy, R!Switch(policy) PROVE ReaderInv'
  <2>1. source'.edition = source.edition
    BY <1>2, AdviceKeepsEdition DEF R!Switch
  <2>2. call' = call /\ cache' = cache /\ at = "between" /\ at' \in {"between", "dead"}
    BY <1>2 DEF R!Switch, R!Die
  <2> QED BY <1>1, <2>1, <2>2, Apart
<1>3. ASSUME R!Install \/ R!Close \/ R!Replace PROVE ReaderInv'
  BY <1>1, <1>3, Apart DEF R!Install, R!Close, R!Replace
<1>4. ASSUME R!Begin \/ R!EndsAlone \/ R!End PROVE ReaderInv'
  BY <1>1, <1>4, Apart DEF R!Begin, R!EndsAlone, R!End
<1>5. ASSUME NEW n, NEW finished, R!Emit(n, finished) PROVE ReaderInv'
  <2>1. call'.outcome = "none" /\ cache' = cache /\ source' = source /\ at' \in {"ending", "step"}
    BY <1>5, IdleIs DEF R!Emit
  <2>2. SoundAnswer(call', cache.rows)
    BY <2>1, NoneIsSound
  <2> QED BY <2>1, <2>2 DEF ReaderInv, SoundCache
<1> QED
  BY <1>2, <1>3, <1>4, <1>5, InsertStep, PrepareStep, LookupStep, GatherStep, StoreStep
  DEF R!Next

(* A reader of the table is sound: the rows it has cached are rows of the  *)
(* file it opened, no thread mixes up two of them, and what a lookup found *)
(* cached is young enough to stay until it is answered.                    *)
THEOREM ReaderInvariant == RunNode => []ReaderInv
<1>1. ReaderInv /\ [R!Next]_R!vars => ReaderInv'
  <2>1. ReaderInv /\ UNCHANGED R!vars => ReaderInv'
    BY DEF ReaderInv, SoundCache, R!vars
  <2> QED BY <2>1, ReaderStep
<1>2. R!Spec => []ReaderInv
  BY <1>1, ReaderStart, PTL DEF R!Spec
<1> QED BY <1>2, NodeRunsItsPrograms, PTL

(* AnswersAreTheTable: a lookup answers with the rows it was asked for, of  *)
(* the file the process began with, whichever thread read them; it fails    *)
(* only when its batch alone is larger than the cache.                      *)
THEOREM AnswersAreOfTheTable == RunNode => []AnswersAreTheTable
<1>1. ReaderInv => AnswersAreTheTable
  <2> SUFFICES ASSUME ReaderInv PROVE AnswersAreTheTable
    OBVIOUS
  <2>1. Len(cache.rows) <= MaxRows /\ SoundAnswer(call, cache.rows)
    BY DEF ReaderInv, SoundCache
  <2>2. \A j : RowIs(j) = [id |-> j, edition |-> 1]
    BY DEF RowIs
  <2> QED BY <2>1, <2>2, SameElems, SameSize
          DEF AnswersAreTheTable, R!AnswersAreTheTable, SoundAnswer, RowsAre
<1> QED BY <1>1, ReaderInvariant, PTL

-----------------------------------------------------------------------------
\* Sums of counters.
Total(s) == R!FoldLeft(LAMBDA sum, n : sum + n, 0, s)

TotalWalk(f, s) ==
  f = [x \in SUBSET DOMAIN s |-> IF x = {} THEN 0 ELSE f[x \ {R!Max(x)}] + s[R!Max(x)]]

\* The sums of the first numbers, one after another.
SumsTo(f, s, n) == f[1 .. 0] = 0 /\ \A k \in 1 .. n : f[1 .. k] = f[1 .. k - 1] + s[k]

LEMMA TotalIs ==
  ASSUME NEW n \in Nat, NEW s \in [1 .. n -> Nat]
  PROVE  \E f : Total(s) = f[1 .. n] /\ SumsTo(f, s, n)
<1>1. DOMAIN s = 1 .. n
  OBVIOUS
<1> DEFINE step == [x \in (1 .. n) \X Nat |-> x[2] + s[x[1]]]
           f == CHOOSE f : TotalWalk(f, s)
<1>2. Total(s) = f[DOMAIN s]
  BY Zenon DEF Total, R!FoldLeft, R!MapThenFoldSet, TotalWalk
<1>3. step \in [(1 .. n) \X Nat -> Nat]
  OBVIOUS
<1>4. \A k \in 1 .. n, a \in Nat : step[<<k, a>>] = a + s[k]
  OBVIOUS
<1> HIDE DEF step
<1>5. PICK h \in [SUBSET (1 .. n) -> Nat] : FoldsTo(h, n, 0, step)
  BY <1>3, FoldExists
<1>6. TotalWalk(h, s)
  <2> DEFINE g == [x \in SUBSET (1 .. n) |->
                    IF x = {} THEN 0 ELSE h[x \ {R!Max(x)}] + s[R!Max(x)]]
  <2>1. ASSUME NEW x \in SUBSET (1 .. n) PROVE h[x] = g[x]
    <3>1. CASE x = {}
      BY <3>1, <1>5 DEF FoldsTo
    <3>2. CASE x # {}
      <4>1. R!Max(x) \in 1 .. n /\ x \ {R!Max(x)} \in SUBSET (1 .. n)
        BY <3>2, MaxIs
      <4>2. h[x \ {R!Max(x)}] \in Nat
        BY <4>1, <1>5
      <4>3. step[<<R!Max(x), h[x \ {R!Max(x)}]>>] = h[x \ {R!Max(x)}] + s[R!Max(x)]
        BY <4>1, <4>2, <1>4
      <4> QED BY <3>2, <4>3, <1>5 DEF FoldsTo
    <3> QED BY <3>1, <3>2
  <2>2. h = g
    BY <2>1, <1>5
  <2> QED BY <2>2, <1>1, Zenon DEF TotalWalk
<1>7. TotalWalk(f, s)
  BY <1>6
<1> HIDE DEF f
<1>8. f[1 .. 0] = 0
  <2>1. 1 .. 0 = {} /\ {} \in SUBSET DOMAIN s
    OBVIOUS
  <2> QED BY <2>1, <1>7, Zenon DEF TotalWalk
<1>9. ASSUME NEW k \in 1 .. n PROVE f[1 .. k] = f[1 .. k - 1] + s[k]
  <2>1. 1 .. k \in SUBSET DOMAIN s /\ 1 .. k # {} /\ k \in Nat \ {0}
    <3>1. 1 .. k \subseteq 1 .. n /\ k \in 1 .. k /\ k \in Nat \ {0}
      OBVIOUS
    <3> QED BY <1>1, <3>1
  <2>2. R!Max(1 .. k) = k /\ (1 .. k) \ {k} = 1 .. k - 1
    BY <2>1, MaxTo
  <2> QED BY <2>1, <2>2, <1>7, Zenon DEF TotalWalk
<1> QED BY <1>1, <1>2, <1>8, <1>9 DEF SumsTo

(* A sum is what a function that grows by each number ends with.           *)
LEMMA TotalBy ==
  ASSUME NEW n \in Nat, NEW s \in [1 .. n -> Nat], NEW e,
         e[0] = 0, \A k \in 1 .. n : e[k] = e[k - 1] + s[k]
  PROVE  Total(s) = e[n]
<1>1. PICK f : Total(s) = f[1 .. n] /\ SumsTo(f, s, n)
  BY TotalIs
<1> DEFINE G == {k \in 0 .. n : f[1 .. k] = e[k]}
<1>2. 0 \in G
  BY <1>1 DEF SumsTo
<1>3. ASSUME NEW k \in 1 .. n, k - 1 \in G PROVE k \in G
  <2>1. k \in 0 .. n /\ f[1 .. k - 1] = e[k - 1]
    BY <1>3
  <2>2. f[1 .. k] = f[1 .. k - 1] + s[k]
    BY <1>1 DEF SumsTo
  <2> QED BY <2>1, <2>2
<1> HIDE DEF G
<1>4. n \in G
  <2>1. n \in 0 .. n
    OBVIOUS
  <2> QED BY <1>2, <1>3, <2>1, UpTo
<1> QED BY <1>1, <1>4 DEF G

LEMMA SumsAre ==
  ASSUME NEW n \in Nat, NEW s \in [1 .. n -> Nat], NEW f, SumsTo(f, s, n)
  PROVE  \A k \in 0 .. n : f[1 .. k] \in Nat
<1> DEFINE G == {k \in 0 .. n : f[1 .. k] \in Nat}
<1>1. 0 \in G
  BY DEF SumsTo
<1>2. ASSUME NEW k \in 1 .. n, k - 1 \in G PROVE k \in G
  BY <1>2 DEF SumsTo
<1>3. \A k \in 0 .. n : k \in G
  <2> HIDE DEF G
  <2> QED BY <1>1, <1>2, UpTo
<1> QED BY <1>3

LEMMA TotalType == ASSUME NEW n \in Nat, NEW s \in [1 .. n -> Nat] PROVE Total(s) \in Nat
<1>1. PICK f : Total(s) = f[1 .. n] /\ SumsTo(f, s, n)
  BY TotalIs
<1>2. n \in 0 .. n
  OBVIOUS
<1> QED BY <1>1, <1>2, SumsAre

LEMMA TotalZero ==
  ASSUME NEW n \in Nat, NEW s \in [1 .. n -> Nat], \A k \in 1 .. n : s[k] = 0
  PROVE  Total(s) = 0
<1>1. PICK e : e = [k \in 0 .. n |-> 0]
  OBVIOUS
<1>2. e[0] = 0 /\ e[n] = 0 /\ \A k \in 1 .. n : e[k] = e[k - 1] + s[k]
  BY <1>1
<1> QED BY <1>2, TotalBy

LEMMA TotalPlus ==
  ASSUME NEW n \in Nat, NEW s \in [1 .. n -> Nat], NEW t \in [1 .. n -> Nat],
         NEW u \in [1 .. n -> Nat], \A k \in 1 .. n : u[k] = s[k] + t[k]
  PROVE  Total(u) = Total(s) + Total(t)
<1>1. PICK f : Total(s) = f[1 .. n] /\ SumsTo(f, s, n)
  BY TotalIs
<1>2. PICK g : Total(t) = g[1 .. n] /\ SumsTo(g, t, n)
  BY TotalIs
<1>3. \A k \in 0 .. n : f[1 .. k] \in Nat /\ g[1 .. k] \in Nat
  BY <1>1, <1>2, SumsAre
<1>4. PICK e : e = [k \in 0 .. n |-> f[1 .. k] + g[1 .. k]]
  OBVIOUS
<1>5. e[0] = 0 /\ e[n] = Total(s) + Total(t)
  BY <1>1, <1>2, <1>4 DEF SumsTo
<1>6. ASSUME NEW k \in 1 .. n PROVE e[k] = e[k - 1] + u[k]
  <2>1. e[k] = f[1 .. k] + g[1 .. k] /\ e[k - 1] = f[1 .. k - 1] + g[1 .. k - 1]
    BY <1>4
  <2>2. f[1 .. k] = f[1 .. k - 1] + s[k] /\ g[1 .. k] = g[1 .. k - 1] + t[k]
    BY <1>1, <1>2 DEF SumsTo
  <2>3. f[1 .. k - 1] \in Nat /\ g[1 .. k - 1] \in Nat /\ s[k] \in Nat /\ t[k] \in Nat
    <3>1. k - 1 \in 0 .. n
      OBVIOUS
    <3> QED BY <3>1, <1>3
  <2>4. u[k] = s[k] + t[k]
    OBVIOUS
  <2>5. PICK x \in Nat, y \in Nat : x = f[1 .. k - 1] /\ y = g[1 .. k - 1]
    BY <2>3
  <2>6. e[k - 1] = x + y /\ e[k] = (x + s[k]) + (y + t[k])
    BY <2>1, <2>2, <2>5
  <2>7. (x + s[k]) + (y + t[k]) = (x + y) + (s[k] + t[k])
    BY <2>3
  <2> QED BY <2>4, <2>6, <2>7
<1> QED BY <1>5, <1>6, TotalBy

\* The lengths of the w parts of a list of m rows, and nothing for the others.
CutLengths(s, n, m, w) ==
  \A k \in 1 .. n : s[k] = IF k <= w THEN Cut(m, w, k) - Cut(m, w, k - 1) ELSE 0

(* The parts of a list have as many rows as the list.                      *)
LEMMA TotalCut ==
  ASSUME NEW n \in Nat, NEW m \in Nat, NEW w \in Nat \ {0}, w <= n,
         NEW s \in [1 .. n -> Nat], CutLengths(s, n, m, w)
  PROVE  Total(s) = m
<1>1. PICK c : c = [k \in 0 .. w |-> Cut(m, w, k)]
  OBVIOUS
<1>2. c[0] = 0 /\ c[w] = m /\ \A k \in 0 .. w : c[k] \in Nat
  <2>1. /\ \A k \in 0 .. w : Cut(m, w, k) \in 0 .. m
        /\ Cut(m, w, 0) = 0 /\ Cut(m, w, w) = m
    BY CutIs
  <2>2. 0 \in 0 .. w /\ w \in 0 .. w
    OBVIOUS
  <2> QED BY <1>1, <2>1, <2>2
<1>3. \A k \in 1 .. w : k - 1 \in 0 .. w /\ k \in 0 .. w
  OBVIOUS
<1>4. \A k \in 1 .. w : s[k] = c[k] - c[k - 1]
  <2>1. \A k \in 1 .. w : k \in 1 .. n /\ k <= w
    OBVIOUS
  <2> QED BY <1>1, <1>3, <2>1 DEF CutLengths
<1>5. PICK e : e = [k \in 0 .. n |-> IF k <= w THEN c[k] ELSE m]
  OBVIOUS
<1>6. e[0] = 0 /\ e[n] = m
  BY <1>2, <1>5
<1>7. ASSUME NEW k \in 1 .. n PROVE e[k] = e[k - 1] + s[k]
  <2>1. CASE k <= w
    <3>1. e[k] = c[k] /\ e[k - 1] = c[k - 1] /\ s[k] = c[k] - c[k - 1]
      BY <2>1, <1>4, <1>5
    <3>2. c[k] \in Nat /\ c[k - 1] \in Nat
      BY <2>1, <1>2, <1>3
    <3> QED BY <3>1, <3>2
  <2>2. CASE ~ k <= w
    <3>1. s[k] = 0 /\ e[k] = m
      BY <2>2, <1>5 DEF CutLengths
    <3>2. e[k - 1] = m
      <4>1. k - 1 \in 0 .. n /\ (k - 1 <= w => k - 1 = w)
        BY <2>2
      <4> QED BY <4>1, <1>2, <1>5
    <3> QED BY <3>1, <3>2
  <2> QED BY <2>1, <2>2
<1> QED BY <1>6, <1>7, TotalBy

\* What a thread of the lookup has still to count.
Left(k, t) == IF t \in DOMAIN k.work /\ k.work[t].at # "done" THEN Len(k.work[t].ids) ELSE 0

\* The counters of the threads in a phase, and what they are when all have counted.
Read(q, p) == [t \in 1 .. ReadWorkers |-> q.reader[<<p, t>>]]
Spread(q, k, p) == [t \in 1 .. ReadWorkers |-> q.reader[<<p, t>>] + Left(k, t)]

Readers == [R!Phases \X (1 .. ReadWorkers) -> Nat]
Threads(k) == \A t \in DOMAIN k.work : t \in 1 .. ReadWorkers /\ Len(k.work[t].ids) \in Nat

LEMMA ReadWorkersIs == ReadWorkers \in Nat
BY TableAssumption

LEMMA PhasesAre == "before_first" \in R!Phases /\ "decode" \in R!Phases
BY DEF R!Phases

LEMMA LeftType == ASSUME NEW k, Threads(k), NEW t PROVE Left(k, t) \in Nat
BY DEF Threads, Left

LEMMA ReadType ==
  ASSUME NEW q, q.reader \in Readers, NEW p \in R!Phases
  PROVE  Read(q, p) \in [1 .. ReadWorkers -> Nat]
BY DEF Read, Readers

LEMMA SpreadType ==
  ASSUME NEW q, q.reader \in Readers, NEW k, Threads(k), NEW p \in R!Phases
  PROVE  Spread(q, k, p) \in [1 .. ReadWorkers -> Nat]
<1>1. \A t \in 1 .. ReadWorkers : q.reader[<<p, t>>] \in Nat /\ Left(k, t) \in Nat
  BY LeftType DEF Readers
<1> QED BY <1>1 DEF Spread

LEMMA ReadInIs == ASSUME NEW q, NEW p PROVE R!ReadIn(q, p) = Total(Read(q, p))
BY DEF R!ReadIn, Total, Read

(* A lookup that is done, or that does not read, has nothing left.         *)
LEMMA SpreadDone ==
  ASSUME NEW q, q.reader \in Readers, NEW k, \A t \in DOMAIN k.work : k.work[t].at = "done",
         NEW p \in R!Phases
  PROVE  Spread(q, k, p) = Read(q, p)
<1>1. \A t \in 1 .. ReadWorkers : q.reader[<<p, t>>] \in Nat /\ Left(k, t) = 0
  BY DEF Left, Readers
<1> QED BY <1>1 DEF Spread, Read

LEMMA SpreadIdle ==
  ASSUME NEW q, q.reader \in Readers, NEW k, k.work = <<>>, NEW p \in R!Phases
  PROVE  Spread(q, k, p) = Read(q, p)
<1>1. \A t \in DOMAIN k.work : k.work[t].at = "done"
  <2>1. DOMAIN <<>> = {}
    OBVIOUS
  <2> QED BY <2>1
<1> QED BY <1>1, SpreadDone

(* At the start of a lookup all that is missing is left.                   *)
LEMMA SpreadBegins ==
  ASSUME NEW missing \in Seq(Nat), Injective(missing), missing # <<>>, NEW k,
         k.work = [t \in DOMAIN R!Chunks(missing) |->
                    [ids |-> R!Chunks(missing)[t], at |-> "new", got |-> <<>>,
                     key |-> <<>>, was |-> 0]]
  PROVE  /\ Threads(k)
         /\ \A q, p : q.reader \in Readers /\ p \in R!Phases =>
               Total(Spread(q, k, p)) = Total(Read(q, p)) + Len(missing)
<1>1. PICK chunks : chunks = R!Chunks(missing)
  OBVIOUS
<1>2. PICK m \in Nat : m = Len(missing)
  OBVIOUS
<1>3. PICK w \in 1 .. ReadWorkers :
         /\ chunks \in [1 .. w -> Seq(Nat)]
         /\ \A t \in 1 .. w : Len(chunks[t]) = Cut(m, w, t) - Cut(m, w, t - 1)
  BY <1>1, <1>2, ChunksAre
<1>4. w \in Nat \ {0} /\ w <= ReadWorkers /\ ReadWorkers \in Nat
  BY <1>3, ReadWorkersIs
<1>5. DOMAIN k.work = 1 .. w /\ \A t \in 1 .. w : k.work[t].ids = chunks[t] /\ k.work[t].at = "new"
  <2>1. DOMAIN k.work = 1 .. w
    BY <1>1, <1>3
  <2>2. SUFFICES ASSUME NEW t \in 1 .. w PROVE k.work[t].ids = chunks[t] /\ k.work[t].at = "new"
    BY <2>1
  <2>3. k.work[t] = [ids |-> chunks[t], at |-> "new", got |-> <<>>, key |-> <<>>, was |-> 0]
    BY <1>1, <1>3
  <2> QED BY <2>3
<1>6. \A t \in 1 .. w : Len(chunks[t]) \in Nat /\ t \in 1 .. ReadWorkers
  BY <1>3, <1>4
<1>7. Threads(k)
  BY <1>5, <1>6 DEF Threads
<1>8. PICK lefts : lefts = [t \in 1 .. ReadWorkers |-> Left(k, t)]
  OBVIOUS
<1>9. lefts \in [1 .. ReadWorkers -> Nat]
  BY <1>7, <1>8, LeftType
<1>10. CutLengths(lefts, ReadWorkers, m, w)
  <2>1. SUFFICES ASSUME NEW t \in 1 .. ReadWorkers
                 PROVE  lefts[t] = IF t <= w THEN Cut(m, w, t) - Cut(m, w, t - 1) ELSE 0
    BY DEF CutLengths
  <2>2. CASE t <= w
    <3>1. t \in 1 .. w
      BY <2>2, <1>4
    <3>2. lefts[t] = Len(chunks[t])
      BY <3>1, <1>5, <1>8 DEF Left
    <3> QED BY <2>2, <3>1, <3>2, <1>3
  <2>3. CASE ~ t <= w
    <3>1. t \notin 1 .. w
      BY <2>3
    <3> QED BY <2>3, <3>1, <1>5, <1>8 DEF Left
  <2> QED BY <2>2, <2>3
<1>11. Total(lefts) = m
  <2>1. PICK n \in Nat : n = ReadWorkers
    BY <1>4
  <2>2. /\ w <= n /\ lefts \in [1 .. n -> Nat]
        /\ CutLengths(lefts, n, m, w)
    BY <1>4, <1>9, <1>10, <2>1
  <2> QED BY <1>4, <2>2, TotalCut, Zenon
<1>12. ASSUME NEW q, NEW p, q.reader \in Readers, p \in R!Phases
       PROVE  Total(Spread(q, k, p)) = Total(Read(q, p)) + m
  <2>1. Spread(q, k, p) \in [1 .. ReadWorkers -> Nat] /\ Read(q, p) \in [1 .. ReadWorkers -> Nat]
    BY <1>7, <1>12, SpreadType, ReadType
  <2>2. \A t \in 1 .. ReadWorkers : Spread(q, k, p)[t] = Read(q, p)[t] + lefts[t]
    BY <1>8 DEF Spread, Read
  <2>3. PICK n \in Nat : n = ReadWorkers
    BY <1>4
  <2>4. PICK u \in [1 .. n -> Nat] : u = Spread(q, k, p)
    BY <2>1, <2>3
  <2>5. PICK s \in [1 .. n -> Nat] : s = Read(q, p)
    BY <2>1, <2>3
  <2>6. lefts \in [1 .. n -> Nat] /\ \A t \in 1 .. n : u[t] = s[t] + lefts[t]
    BY <1>9, <2>2, <2>3, <2>4, <2>5
  <2>7. Total(u) = Total(s) + Total(lefts)
    BY <2>6, TotalPlus, Zenon
  <2> QED BY <1>11, <2>4, <2>5, <2>7
<1> QED BY <1>2, <1>7, <1>12

(* A thread that has its rows has still to count them.                     *)
LEMMA SpreadGathers ==
  ASSUME NEW k, NEW l, Threads(k), NEW t \in DOMAIN k.work, NEW v,
         k.work[t].at # "done", l.work = [k.work EXCEPT ![t] = v],
         v.ids = k.work[t].ids, v.at # "done"
  PROVE  Threads(l) /\ \A q, p : Spread(q, l, p) = Spread(q, k, p)
<1>1. DOMAIN l.work = DOMAIN k.work
      /\ \A u \in DOMAIN k.work : l.work[u] = IF u = t THEN v ELSE k.work[u]
  OBVIOUS
<1>2. Threads(l)
  BY <1>1 DEF Threads
<1>3. \A u : Left(l, u) = Left(k, u)
  BY <1>1 DEF Left
<1> QED BY <1>2, <1>3 DEF Spread

\* The thread adds what it has read to its bucket.
Counts(r, q, k, t, p) ==
  r.reader = [q.reader EXCEPT ![<<p, t>>] = q.reader[<<p, t>>] + Len(k.work[t].ids)]

\* Its part is counted, and the buckets of the others are what they were.
Counted(r, l, q, k, t, p) ==
  /\ Threads(l) /\ r.reader \in Readers
  /\ Spread(r, l, p) = Spread(q, k, p)
  /\ \A o \in R!Phases : o # p => Read(r, o) = Read(q, o)
  /\ \A u \in 1 .. ReadWorkers : u # t => r.reader[<<p, u>>] = q.reader[<<p, u>>]

(* What it counts it has no longer left.                                   *)
LEMMA SpreadStores ==
  ASSUME NEW k, NEW l, Threads(k), NEW t \in DOMAIN k.work, NEW v,
         k.work[t].at # "done", l.work = [k.work EXCEPT ![t] = v], v.at = "done",
         v.ids = k.work[t].ids,
         NEW q, NEW r, q.reader \in Readers, NEW p \in R!Phases,
         Counts(r, q, k, t, p)
  PROVE  Counted(r, l, q, k, t, p)
<1>1. DOMAIN l.work = DOMAIN k.work
      /\ \A u \in DOMAIN k.work : l.work[u] = IF u = t THEN v ELSE k.work[u]
  OBVIOUS
<1>2. Threads(l)
  BY <1>1 DEF Threads
<1>3. t \in 1 .. ReadWorkers /\ Len(k.work[t].ids) \in Nat
  BY DEF Threads
<1>4. <<p, t>> \in R!Phases \X (1 .. ReadWorkers) /\ q.reader[<<p, t>>] \in Nat
  BY <1>3 DEF Readers
<1>5. PICK n \in Nat : n = q.reader[<<p, t>>] + Len(k.work[t].ids)
  BY <1>3, <1>4
<1>6. r.reader = [q.reader EXCEPT ![<<p, t>>] = n]
  BY <1>5 DEF Counts
<1>7. r.reader \in Readers
  BY <1>6 DEF Readers
<1>8. \A o \in R!Phases, u \in 1 .. ReadWorkers :
         r.reader[<<o, u>>] = IF o = p /\ u = t THEN n ELSE q.reader[<<o, u>>]
  BY <1>6 DEF Readers
<1>9. \A o \in R!Phases : o # p => Read(r, o) = Read(q, o)
  BY <1>8 DEF Read
<1>10. ASSUME NEW u \in 1 .. ReadWorkers
       PROVE  r.reader[<<p, u>>] + Left(l, u) = q.reader[<<p, u>>] + Left(k, u)
  <2>1. CASE u = t
    <3>1. Left(l, u) = 0 /\ Left(k, u) = Len(k.work[t].ids) /\ r.reader[<<p, u>>] = n
      BY <2>1, <1>1, <1>8 DEF Left
    <3> QED BY <2>1, <3>1, <1>5
  <2>2. CASE u # t
    <3>1. Left(l, u) = Left(k, u) /\ r.reader[<<p, u>>] = q.reader[<<p, u>>]
      BY <2>2, <1>1, <1>8 DEF Left
    <3> QED BY <3>1
  <2> QED BY <2>1, <2>2
<1>11. Spread(r, l, p) = Spread(q, k, p)
  BY <1>10, Zenon DEF Spread
<1> QED BY <1>2, <1>7, <1>8, <1>9, <1>11 DEF Counted

-----------------------------------------------------------------------------
\* What the counters of a request add up to.
CounterTypes(r) == r.hits \in Int /\ r.misses \in Int /\ r.read \in Nat
AskedTypes(a) == a.before \in Nat /\ a.decode \in Nat

\* A thread that is about to write its bucket is the only one that writes it.
Counting(q, k) ==
  \A t \in DOMAIN k.work : k.work[t].at = "counting" =>
     k.work[t].key = <<R!PhaseNow(q), t>> /\ k.work[t].was = q.reader[k.work[t].key]

\* Since the request began the cache counted what was asked for, and what its
\* threads counted or still have to count, before the first token and after it.
Adds(q, k, c, a) ==
  /\ c.hits + c.misses = q.start.hits + q.start.misses + (a.before + a.decode)
  /\ q.first.seen =>
        /\ q.first.read = q.start.read + Total(Read(q, "before_first"))
        /\ c.hits + c.misses = q.first.hits + q.first.misses + a.decode
        /\ c.read + Len(k.missing) = q.first.read + Total(Spread(q, k, "decode"))
  /\ ~q.first.seen =>
        /\ a.decode = 0 /\ \A t \in 1 .. ReadWorkers : Read(q, "decode")[t] = 0
        /\ c.read + Len(k.missing) = q.start.read + Total(Spread(q, k, "before_first"))

\* All that the first request of an arm found cached it has read itself.
ReadAll(q, k, c, a) ==
  a.cold => /\ R!Cached(c.rows) \subseteq a.ids /\ Elems(k.missing) \subseteq a.ids
            /\ IsFiniteSet(a.ids)
            /\ Cardinality(a.ids) + q.start.read <= c.read + Len(k.missing)

Tallied(q, k, c, a) ==
  /\ q.reader \in Readers /\ CounterTypes(q.start) /\ (q.first.seen => CounterTypes(q.first))
  /\ Threads(k) /\ Counting(q, k) /\ Adds(q, k, c, a) /\ ReadAll(q, k, c, a)

\* A request that has not looked anything up.
Blank(q, a) ==
  /\ ~q.first.seen /\ q.reader \in Readers
  /\ \A p \in R!Phases, t \in 1 .. ReadWorkers : q.reader[<<p, t>>] = 0
  /\ a.ids = {} /\ a.before = 0 /\ a.decode = 0

LEMMA NoThreads ==
  ASSUME NEW k, k.work = <<>> PROVE Threads(k) /\ \A q : Counting(q, k)
<1>1. DOMAIN <<>> = {}
  OBVIOUS
<1> QED BY <1>1 DEF Threads, Counting

LEMMA BlankReads ==
  ASSUME NEW q, NEW a, Blank(q, a), NEW p \in R!Phases
  PROVE  Total(Read(q, p)) = 0 /\ \A t \in 1 .. ReadWorkers : Read(q, p)[t] = 0
<1>1. \A t \in 1 .. ReadWorkers : Read(q, p)[t] = 0
  BY DEF Blank, Read
<1>2. Read(q, p) \in [1 .. ReadWorkers -> Nat]
  BY ReadType DEF Blank
<1>3. PICK n \in Nat : n = ReadWorkers
  BY ReadWorkersIs
<1>4. Total(Read(q, p)) = 0
  BY <1>1, <1>2, <1>3, TotalZero
<1> QED BY <1>1, <1>4

(* A request that begins with the counters of the cache has counted right. *)
LEMMA BlankTallied ==
  ASSUME NEW q, NEW k, NEW c, NEW a, Blank(q, a), CounterTypes(c), q.start = R!Counters(c),
         k.work = <<>>, k.missing = <<>>, a.cold => c.rows = <<>>
  PROVE  Tallied(q, k, c, a)
<1>1. /\ q.start.hits = c.hits /\ q.start.misses = c.misses /\ q.start.read = c.read
      /\ CounterTypes(q.start)
  BY DEF R!Counters, CounterTypes
<1>2. Total(Read(q, "before_first")) = 0 /\ Total(Read(q, "decode")) = 0
      /\ \A t \in 1 .. ReadWorkers : Read(q, "decode")[t] = 0
  BY PhasesAre, BlankReads
<1>3. Spread(q, k, "before_first") = Read(q, "before_first")
  BY PhasesAre, SpreadIdle DEF Blank
<1>4. Len(k.missing) = 0
  OBVIOUS
<1>5. Adds(q, k, c, a)
  BY <1>1, <1>2, <1>3, <1>4 DEF Adds, Blank, CounterTypes
<1>6. ReadAll(q, k, c, a)
  <2>1. SUFFICES ASSUME a.cold
                 PROVE  /\ R!Cached(c.rows) \subseteq a.ids /\ Elems(k.missing) \subseteq a.ids
                        /\ IsFiniteSet(a.ids)
                        /\ Cardinality(a.ids) + q.start.read <= c.read + Len(k.missing)
    BY DEF ReadAll
  <2>2. DOMAIN <<>> = {}
    OBVIOUS
  <2>3. R!Cached(c.rows) = {} /\ Elems(k.missing) = {}
    BY <2>1, <2>2 DEF R!Cached, Elems
  <2>4. a.ids = {} /\ IsFiniteSet({}) /\ Cardinality({}) = 0
    BY FS_EmptySet DEF Blank
  <2> QED BY <1>1, <1>4, <2>3, <2>4 DEF CounterTypes
<1> QED BY <1>1, <1>5, <1>6, NoThreads DEF Tallied, Blank

LEMMA LookupTallied ==
  ASSUME NEW q, NEW k, NEW c, NEW a, Tallied(q, k, c, a), k.work = <<>>, k.missing = <<>>,
         CounterTypes(c), AskedTypes(a),
         NEW ids \in Seq(Nat), NEW missing \in Seq(Nat), Injective(missing),
         Elems(missing) = Elems(ids) \ R!Cached(c.rows),
         NEW h \in Nat, NEW d, d.hits = c.hits + h, d.misses = c.misses + Len(ids) - h,
         d.read = c.read, R!Cached(d.rows) = R!Cached(c.rows),
         NEW b, b.ids = a.ids \cup Elems(ids), b.cold = a.cold,
         b.before = a.before + (IF q.first.seen THEN 0 ELSE Len(ids)),
         b.decode = a.decode + (IF q.first.seen THEN Len(ids) ELSE 0),
         NEW l, l.missing = missing, Threads(l), Counting(q, l),
         \A p \in R!Phases : Total(Spread(q, l, p)) = Total(Read(q, p)) + Len(missing)
  PROVE  Tallied(q, l, d, b)
<1>1. PICK n \in Nat : n = Len(ids)
  OBVIOUS
<1>2. PICK m \in Nat : m = Len(missing)
  OBVIOUS
<1>3. q.reader \in Readers /\ CounterTypes(q.start) /\ (q.first.seen => CounterTypes(q.first))
  BY DEF Tallied
<1>4. \A p \in R!Phases : Spread(q, k, p) = Read(q, p)
  BY <1>3, SpreadIdle
<1>5. \A p \in R!Phases : Total(Read(q, p)) \in Nat
  <2>1. PICK w \in Nat : w = ReadWorkers
    BY ReadWorkersIs
  <2>2. \A p \in R!Phases : Read(q, p) \in [1 .. w -> Nat]
    BY <1>3, <2>1, ReadType
  <2> QED BY <2>2, TotalType
<1>6. Len(k.missing) = 0
  OBVIOUS
<1>7. PICK seen \in Int, found \in Int :
         seen = c.hits + c.misses /\ found = d.hits + d.misses /\ found = seen + n
  <2>1. PICK x \in Int, y \in Int : x = c.hits /\ y = c.misses
    BY DEF CounterTypes
  <2>2. d.hits = x + h /\ d.misses = y + n - h
    BY <1>1, <2>1
  <2>3. (x + h) + (y + n - h) = (x + y) + n /\ x + y \in Int /\ (x + y) + n \in Int
    OBVIOUS
  <2> QED BY <2>1, <2>2, <2>3
<1>8. Adds(q, k, c, a)
  BY DEF Tallied
<1>9. d.hits + d.misses = q.start.hits + q.start.misses + (b.before + b.decode)
  <2>1. PICK x \in Nat, y \in Nat : x = a.before /\ y = a.decode
    BY DEF AskedTypes
  <2>2. b.before + b.decode = (x + y) + n
    BY <1>1, <2>1
  <2>3. PICK z \in Int : z = q.start.hits + q.start.misses
    BY <1>3 DEF CounterTypes
  <2>4. seen = z + (x + y)
    BY <1>7, <1>8, <2>1, <2>3 DEF Adds
  <2>5. found = z + ((x + y) + n)
    <3>1. found = seen + n
      BY <1>7
    <3> QED BY <2>4, <3>1
  <2> QED BY <1>7, <2>2, <2>3, <2>5
<1>10. ASSUME q.first.seen
       PROVE  /\ q.first.read = q.start.read + Total(Read(q, "before_first"))
              /\ d.hits + d.misses = q.first.hits + q.first.misses + b.decode
              /\ d.read + Len(l.missing) = q.first.read + Total(Spread(q, l, "decode"))
  <2>1. /\ q.first.read = q.start.read + Total(Read(q, "before_first"))
        /\ c.hits + c.misses = q.first.hits + q.first.misses + a.decode
        /\ c.read = q.first.read + Total(Read(q, "decode"))
    BY <1>4, <1>6, <1>8, <1>10, PhasesAre DEF Adds, CounterTypes
  <2>2. d.hits + d.misses = q.first.hits + q.first.misses + b.decode
    <3>1. PICK x \in Int : x = q.first.hits + q.first.misses
      BY <1>3, <1>10 DEF CounterTypes
    <3>2. PICK y \in Nat : y = a.decode
      BY DEF AskedTypes
    <3>3. b.decode = y + n /\ seen = x + y
      BY <1>1, <1>7, <1>10, <2>1, <3>1, <3>2
    <3>4. found = seen + n
      BY <1>7
    <3>5. found = x + (y + n)
      BY <3>3, <3>4
    <3> QED BY <1>7, <3>1, <3>3, <3>5
  <2>3. Total(Spread(q, l, "decode")) = Total(Read(q, "decode")) + m
    BY <1>2, PhasesAre
  <2>4. Total(Read(q, "decode")) \in Nat /\ q.first.read \in Nat
    BY <1>3, <1>5, <1>10, PhasesAre DEF CounterTypes
  <2>5. d.read + Len(l.missing) = q.first.read + Total(Spread(q, l, "decode"))
    BY <1>2, <2>1, <2>3, <2>4
  <2> QED BY <2>1, <2>2, <2>5
<1>11. ASSUME ~q.first.seen
       PROVE  /\ b.decode = 0 /\ \A t \in 1 .. ReadWorkers : Read(q, "decode")[t] = 0
              /\ d.read + Len(l.missing) = q.start.read + Total(Spread(q, l, "before_first"))
  <2>1. /\ a.decode = 0 /\ \A t \in 1 .. ReadWorkers : Read(q, "decode")[t] = 0
        /\ c.read = q.start.read + Total(Read(q, "before_first"))
    BY <1>4, <1>6, <1>8, <1>11, PhasesAre DEF Adds, CounterTypes
  <2>2. Total(Spread(q, l, "before_first")) = Total(Read(q, "before_first")) + m
    BY <1>2, PhasesAre
  <2>3. Total(Read(q, "before_first")) \in Nat /\ q.start.read \in Nat
    BY <1>3, <1>5, PhasesAre DEF CounterTypes
  <2>4. d.read + Len(l.missing) = q.start.read + Total(Spread(q, l, "before_first"))
    BY <1>2, <2>1, <2>2, <2>3
  <2> QED BY <1>11, <2>1, <2>4
<1>12. Adds(q, l, d, b)
  BY <1>9, <1>10, <1>11 DEF Adds
<1>13. ReadAll(q, l, d, b)
  <2>1. SUFFICES ASSUME a.cold
                 PROVE  /\ R!Cached(d.rows) \subseteq b.ids /\ Elems(l.missing) \subseteq b.ids
                        /\ IsFiniteSet(b.ids)
                        /\ Cardinality(b.ids) + q.start.read <= d.read + Len(l.missing)
    BY DEF ReadAll
  <2>2. /\ R!Cached(c.rows) \subseteq a.ids /\ IsFiniteSet(a.ids)
        /\ Cardinality(a.ids) + q.start.read <= c.read + 0
    BY <1>6, <2>1 DEF Tallied, ReadAll
  <2>3. IsFiniteSet(Elems(missing)) /\ Cardinality(Elems(missing)) = m
    BY <1>2, InjectiveSize
  <2>4. b.ids = a.ids \cup Elems(missing)
    BY <2>2
  <2>5. /\ IsFiniteSet(b.ids)
        /\ Cardinality(b.ids) = Cardinality(a.ids) + m - Cardinality(a.ids \cap Elems(missing))
    <3>1. PICK S : S = Elems(missing)
      OBVIOUS
    <3>2. IsFiniteSet(S) /\ Cardinality(S) = m /\ b.ids = a.ids \cup S
      BY <2>3, <2>4, <3>1
    <3>3. /\ IsFiniteSet(a.ids \cup S)
          /\ Cardinality(a.ids \cup S) = Cardinality(a.ids) + Cardinality(S) - Cardinality(a.ids \cap S)
      BY <2>2, <3>2, FS_Union, Zenon
    <3> QED BY <3>1, <3>2, <3>3
  <2>6. Cardinality(a.ids \cap Elems(missing)) \in Nat /\ Cardinality(a.ids) \in Nat
    <3>1. IsFiniteSet(a.ids \cap Elems(missing))
      BY <2>2, FS_Intersection
    <3> QED BY <2>2, <3>1, FS_CardinalityType
  <2>7. Cardinality(b.ids) + q.start.read <= d.read + Len(l.missing)
    <3>1. PICK x \in Nat, y \in Nat : x = Cardinality(a.ids \cap Elems(missing)) /\ y = Cardinality(a.ids)
      BY <2>6
    <3>2. PICK z \in Nat, v \in Nat : z = q.start.read /\ v = c.read
      BY <1>3 DEF CounterTypes
    <3>3. Cardinality(b.ids) = y + m - x /\ y + z <= v
      BY <2>2, <2>5, <3>1, <3>2
    <3>4. (y + m - x) + z <= v + m
      BY <3>3
    <3>5. d.read = v /\ Len(l.missing) = m
      BY <1>2, <3>2
    <3> QED BY <3>2, <3>3, <3>4, <3>5
  <2> QED BY <2>2, <2>4, <2>5, <2>7
<1> QED BY <1>3, <1>12, <1>13 DEF Tallied

(* A thread that has its rows, of a request that is observed.              *)
LEMMA GatherTallied ==
  ASSUME NEW q, NEW k, NEW c, NEW a, Tallied(q, k, c, a), NEW t \in DOMAIN k.work, NEW v,
         k.work[t].at = "new", NEW l, l.work = [k.work EXCEPT ![t] = v],
         l.missing = k.missing, v.ids = k.work[t].ids, v.at = "counting",
         v.key = <<R!PhaseNow(q), t>>, v.was = q.reader[<<R!PhaseNow(q), t>>]
  PROVE  Tallied(q, l, c, a)
<1>1. Threads(k) /\ Counting(q, k) /\ Adds(q, k, c, a) /\ ReadAll(q, k, c, a)
  BY DEF Tallied
<1>2. Threads(l) /\ \A r, p : Spread(r, l, p) = Spread(r, k, p)
  <2>1. k.work[t].at # "done" /\ v.at # "done"
    OBVIOUS
  <2> QED BY <1>1, <2>1, SpreadGathers
<1>3. Counting(q, l)
  BY <1>1 DEF Counting
<1>4. Adds(q, l, c, a)
  BY <1>1, <1>2 DEF Adds
<1>5. ReadAll(q, l, c, a)
  BY <1>1 DEF ReadAll
<1> QED BY <1>2, <1>3, <1>4, <1>5 DEF Tallied

(* One that has counted them.                                              *)
LEMMA StoreTallied ==
  ASSUME NEW q, NEW k, NEW c, NEW a, Tallied(q, k, c, a), NEW t \in DOMAIN k.work, NEW v,
         k.work[t].at = "counting", NEW l, l.work = [k.work EXCEPT ![t] = v],
         l.missing = k.missing, v.ids = k.work[t].ids, v.at = "done", NEW r,
         r.reader = [q.reader EXCEPT ![k.work[t].key] = k.work[t].was + Len(k.work[t].ids)],
         r.start = q.start, r.first = q.first
  PROVE  Tallied(r, l, c, a)
<1>1. /\ q.reader \in Readers /\ Threads(k) /\ Counting(q, k) /\ Adds(q, k, c, a)
      /\ ReadAll(q, k, c, a)
      /\ CounterTypes(q.start) /\ (q.first.seen => CounterTypes(q.first))
  BY DEF Tallied
<1>2. PICK p : p = R!PhaseNow(q)
  OBVIOUS
<1>3. p = (IF q.first.seen THEN "decode" ELSE "before_first") /\ p \in R!Phases
  BY <1>2, PhasesAre DEF R!PhaseNow
<1>4. k.work[t].key = <<p, t>> /\ k.work[t].was = q.reader[<<p, t>>]
  BY <1>1, <1>2 DEF Counting
<1>5. Counts(r, q, k, t, p)
  BY <1>4, Zenon DEF Counts
<1>6. /\ Threads(l) /\ r.reader \in Readers /\ Spread(r, l, p) = Spread(q, k, p)
      /\ \A o \in R!Phases : o # p => Read(r, o) = Read(q, o)
      /\ \A u \in 1 .. ReadWorkers : u # t => r.reader[<<p, u>>] = q.reader[<<p, u>>]
  <2>1. k.work[t].at # "done"
    OBVIOUS
  <2>2. Counted(r, l, q, k, t, p)
    BY <1>1, <1>3, <1>5, <2>1, SpreadStores, Zenon
  <2> QED BY <2>2 DEF Counted
<1>7. R!PhaseNow(r) = p
  BY <1>2 DEF R!PhaseNow
<1>8. Counting(r, l)
  <2>1. SUFFICES ASSUME NEW u \in DOMAIN l.work, l.work[u].at = "counting"
                 PROVE  l.work[u].key = <<p, u>> /\ l.work[u].was = r.reader[<<p, u>>]
    BY <1>7, Zenon DEF Counting
  <2>2. u \in DOMAIN k.work /\ u # t /\ l.work[u] = k.work[u]
    BY <2>1
  <2>3. k.work[u].key = <<p, u>> /\ k.work[u].was = q.reader[<<p, u>>]
    BY <1>1, <1>2, <2>1, <2>2 DEF Counting
  <2>4. r.reader[<<p, u>>] = q.reader[<<p, u>>]
    BY <1>1, <1>6, <2>2 DEF Threads
  <2> QED BY <2>2, <2>3, <2>4
<1>9. CASE q.first.seen
  <2>1. p = "decode" /\ Read(r, "before_first") = Read(q, "before_first")
    BY <1>3, <1>6, <1>9, PhasesAre
  <2>2. Adds(r, l, c, a)
    BY <1>1, <1>6, <1>9, <2>1 DEF Adds
  <2> QED BY <1>1, <1>6, <1>8, <2>2 DEF Tallied, ReadAll
<1>10. CASE ~q.first.seen
  <2>1. p = "before_first" /\ Read(r, "decode") = Read(q, "decode")
    BY <1>3, <1>6, <1>10, PhasesAre
  <2>2. Adds(r, l, c, a)
    BY <1>1, <1>6, <1>10, <2>1 DEF Adds
  <2> QED BY <1>1, <1>6, <1>8, <2>2 DEF Tallied, ReadAll
<1> QED BY <1>9, <1>10

(* The rows that were read go in when every thread has counted its own.    *)
LEMMA InsertTallied ==
  ASSUME NEW q, NEW k, NEW c, NEW a, Tallied(q, k, c, a), CounterTypes(c),
         k.missing \in Seq(Nat), \A t \in DOMAIN k.work : k.work[t].at = "done",
         NEW d, d.hits = c.hits, d.misses = c.misses, d.read = c.read + Len(k.missing),
         R!Cached(d.rows) \subseteq R!Cached(c.rows) \cup Elems(k.missing),
         NEW l, l.work = <<>>, l.missing = <<>>
  PROVE  Tallied(q, l, d, a)
<1>1. /\ q.reader \in Readers /\ CounterTypes(q.start) /\ (q.first.seen => CounterTypes(q.first))
      /\ Adds(q, k, c, a) /\ ReadAll(q, k, c, a)
  BY DEF Tallied
<1>2. \A p \in R!Phases : Spread(q, l, p) = Spread(q, k, p)
  <2>1. \A p \in R!Phases : Spread(q, l, p) = Read(q, p) /\ Spread(q, k, p) = Read(q, p)
    BY <1>1, SpreadDone, SpreadIdle
  <2> QED BY <2>1
<1>3. Len(l.missing) = 0 /\ Elems(l.missing) = {} /\ Len(k.missing) \in Nat
  BY EmptyIsList
<1>4. d.read + Len(l.missing) = c.read + Len(k.missing)
  BY <1>3 DEF CounterTypes
<1>5. Adds(q, l, d, a)
  BY <1>1, <1>2, <1>4, PhasesAre DEF Adds
<1>6. ReadAll(q, l, d, a)
  BY <1>1, <1>3, <1>4 DEF ReadAll
<1> QED BY <1>1, <1>5, <1>6, NoThreads DEF Tallied

(* The first token ends what is before it.                                 *)
LEMMA EmitTallied ==
  ASSUME NEW q, NEW k, NEW c, NEW a, Tallied(q, k, c, a), CounterTypes(c), AskedTypes(a),
         k.work = <<>>, k.missing = <<>>, NEW l, l.work = <<>>, l.missing = <<>>,
         NEW r, r.reader = q.reader, r.start = q.start,
         r.first = IF q.first.seen THEN q.first ELSE R!Counters(c)
  PROVE  Tallied(r, l, c, a)
<1>1. /\ q.reader \in Readers /\ CounterTypes(q.start) /\ (q.first.seen => CounterTypes(q.first))
      /\ Adds(q, k, c, a) /\ ReadAll(q, k, c, a)
  BY DEF Tallied
<1>2. \A p : Read(r, p) = Read(q, p)
  BY DEF Read
<1>3. /\ \A p \in R!Phases : Spread(q, k, p) = Read(q, p)
      /\ \A p \in R!Phases : Spread(r, l, p) = Read(q, p)
  <2>1. \A p \in R!Phases : Spread(r, l, p) = Read(r, p)
    BY <1>1, SpreadIdle
  <2> QED BY <1>1, <1>2, <2>1, SpreadIdle
<1>4. Len(k.missing) = 0 /\ Len(l.missing) = 0
  OBVIOUS
<1>5. ReadAll(r, l, c, a)
  BY <1>1 DEF ReadAll
<1>6. CASE q.first.seen
  <2>1. r.first = q.first
    BY <1>6
  <2>2. Adds(r, l, c, a)
    BY <1>1, <1>2, <1>3, <1>4, <1>6, <2>1, PhasesAre DEF Adds
  <2> QED BY <1>1, <1>5, <2>1, <2>2, NoThreads DEF Tallied
<1>7. CASE ~q.first.seen
  <2>1. /\ r.first.seen /\ r.first.hits = c.hits /\ r.first.misses = c.misses
        /\ r.first.read = c.read /\ CounterTypes(r.first)
    BY <1>7 DEF R!Counters, CounterTypes
  <2>2. /\ c.hits + c.misses = q.start.hits + q.start.misses + (a.before + a.decode)
        /\ a.decode = 0 /\ \A t \in 1 .. ReadWorkers : Read(q, "decode")[t] = 0
        /\ c.read = q.start.read + Total(Read(q, "before_first"))
    BY <1>1, <1>3, <1>4, <1>7, PhasesAre DEF Adds, CounterTypes
  <2>3. Total(Read(q, "decode")) = 0
    <3>1. Read(q, "decode") \in [1 .. ReadWorkers -> Nat]
      BY <1>1, PhasesAre, ReadType
    <3> QED BY <2>2, <3>1, ReadWorkersIs, TotalZero
  <2>4. c.hits + c.misses = (c.hits + c.misses) + 0 /\ c.read + 0 = c.read
    BY DEF CounterTypes
  <2>5. Adds(r, l, c, a)
    BY <1>2, <1>3, <1>4, <2>1, <2>2, <2>3, <2>4, PhasesAre DEF Adds
  <2> QED BY <1>1, <1>5, <2>1, <2>5, NoThreads DEF Tallied
<1> QED BY <1>6, <1>7

\* What the report of a request says, whose end are the counters e.
Reported(q, a, e) ==
  LET whole == R!Delta(q.start, e)
  IN  /\ whole.hits + whole.misses = a.before + a.decode
      /\ whole.read = R!ReadIn(q, "before_first") + R!ReadIn(q, "decode")
      /\ q.first.seen =>
            /\ R!Delta(q.start, q.first).read = R!ReadIn(q, "before_first")
            /\ R!Delta(q.first, e).hits + R!Delta(q.first, e).misses = a.decode
      /\ a.cold => whole.read >= Cardinality(a.ids)

LEMMA ReportedAre ==
  ASSUME NEW q, NEW k, NEW c, NEW a, Tallied(q, k, c, a), CounterTypes(c), AskedTypes(a),
         k.work = <<>>, k.missing = <<>>, NEW e, e = R!Counters(c)
  PROVE  Reported(q, a, e)
<1>1. /\ q.reader \in Readers /\ CounterTypes(q.start) /\ (q.first.seen => CounterTypes(q.first))
      /\ Adds(q, k, c, a) /\ ReadAll(q, k, c, a)
  BY DEF Tallied
<1>2. e.hits = c.hits /\ e.misses = c.misses /\ e.read = c.read
  BY DEF R!Counters
<1>3. \A f, g : /\ R!Delta(f, g).hits = g.hits - f.hits
                /\ R!Delta(f, g).misses = g.misses - f.misses
                /\ R!Delta(f, g).read = g.read - f.read
  BY DEF R!Delta
<1>4. PICK x \in Nat, y \in Nat :
         /\ x = Total(Read(q, "before_first")) /\ y = Total(Read(q, "decode"))
         /\ x = R!ReadIn(q, "before_first") /\ y = R!ReadIn(q, "decode")
  <2>1. PICK w \in Nat : w = ReadWorkers
    BY ReadWorkersIs
  <2>2. Read(q, "before_first") \in [1 .. w -> Nat] /\ Read(q, "decode") \in [1 .. w -> Nat]
    BY <1>1, <2>1, PhasesAre, ReadType
  <2>3. Total(Read(q, "before_first")) \in Nat /\ Total(Read(q, "decode")) \in Nat
    BY <2>2, TotalType
  <2> QED BY <2>3, ReadInIs
<1>5. /\ Spread(q, k, "before_first") = Read(q, "before_first")
      /\ Spread(q, k, "decode") = Read(q, "decode")
  BY <1>1, PhasesAre, SpreadIdle
<1>6. Len(k.missing) = 0
  OBVIOUS
<1>7. PICK ch \in Int, cm \in Int, cr \in Nat : ch = c.hits /\ cm = c.misses /\ cr = c.read
  BY DEF CounterTypes
<1>8. PICK sh \in Int, sm \in Int, sr \in Nat :
         sh = q.start.hits /\ sm = q.start.misses /\ sr = q.start.read
  BY <1>1 DEF CounterTypes
<1>9. PICK ab \in Nat, ad \in Nat : ab = a.before /\ ad = a.decode
  BY DEF AskedTypes
<1>10. ch + cm = sh + sm + (ab + ad)
  BY <1>1, <1>7, <1>8, <1>9 DEF Adds
<1>11. (ch - sh) + (cm - sm) = ab + ad
  BY <1>10
<1>12. ASSUME q.first.seen
       PROVE  /\ cr - sr = x + y /\ q.first.read - sr = x
              /\ (ch - q.first.hits) + (cm - q.first.misses) = ad
  <2>1. PICK fh \in Int, fm \in Int, fr \in Nat :
           fh = q.first.hits /\ fm = q.first.misses /\ fr = q.first.read
    BY <1>1, <1>12 DEF CounterTypes
  <2>2. /\ q.first.read = q.start.read + Total(Read(q, "before_first"))
        /\ c.hits + c.misses = q.first.hits + q.first.misses + a.decode
        /\ c.read + Len(k.missing) = q.first.read + Total(Spread(q, k, "decode"))
    BY <1>1, <1>12 DEF Adds
  <2>3. fr = sr + x /\ ch + cm = fh + fm + ad /\ cr + 0 = fr + y
    BY <1>4, <1>5, <1>6, <1>7, <1>8, <1>9, <2>1, <2>2
  <2>4. cr - sr = x + y /\ fr - sr = x /\ (ch - fh) + (cm - fm) = ad
    BY <2>3
  <2> QED BY <2>1, <2>4
<1>13. ASSUME ~q.first.seen PROVE cr - sr = x + y
  <2>1. /\ \A t \in 1 .. ReadWorkers : Read(q, "decode")[t] = 0
        /\ c.read + Len(k.missing) = q.start.read + Total(Spread(q, k, "before_first"))
    BY <1>1, <1>13 DEF Adds
  <2>2. Total(Read(q, "decode")) = 0
    <3>1. Read(q, "decode") \in [1 .. ReadWorkers -> Nat]
      BY <1>1, PhasesAre, ReadType
    <3> QED BY <2>1, <3>1, ReadWorkersIs, TotalZero
  <2>3. cr + 0 = sr + x /\ y = 0
    BY <1>4, <1>5, <1>6, <1>7, <1>8, <2>1, <2>2
  <2> QED BY <2>3
<1>14. ASSUME a.cold PROVE cr - sr >= Cardinality(a.ids)
  <2>1. IsFiniteSet(a.ids) /\ Cardinality(a.ids) + q.start.read <= c.read + Len(k.missing)
    BY <1>1, <1>14 DEF ReadAll
  <2>2. PICK n \in Nat : n = Cardinality(a.ids)
    BY <2>1, FS_CardinalityType
  <2>3. n + sr <= cr + 0
    BY <1>6, <1>7, <1>8, <2>1, <2>2
  <2>4. cr - sr >= n
    BY <2>3
  <2> QED BY <2>2, <2>4
<1>15. /\ R!Delta(q.start, e).hits = ch - sh /\ R!Delta(q.start, e).misses = cm - sm
       /\ R!Delta(q.start, e).read = cr - sr
       /\ R!Delta(q.start, q.first).read = q.first.read - sr
       /\ R!Delta(q.first, e).hits = ch - q.first.hits
       /\ R!Delta(q.first, e).misses = cm - q.first.misses
  BY <1>2, <1>3, <1>7, <1>8
<1>16. R!Delta(q.start, e).read = x + y
  BY <1>12, <1>13, <1>15
<1> QED BY <1>4, <1>9, <1>11, <1>12, <1>14, <1>15, <1>16 DEF Reported

(* A request that looked nothing up reports nothing.                       *)
LEMMA BlankReported ==
  ASSUME NEW q, NEW a, Blank(q, a), NEW e, e = R!Unseen, q.start = R!Unseen
  PROVE  Reported(q, a, e)
<1>1. /\ R!Delta(q.start, e).hits = 0 /\ R!Delta(q.start, e).misses = 0
      /\ R!Delta(q.start, e).read = 0
  BY DEF R!Delta, R!Unseen
<1>2. R!ReadIn(q, "before_first") = 0 /\ R!ReadIn(q, "decode") = 0
  BY PhasesAre, BlankReads, ReadInIs
<1>3. a.before = 0 /\ a.decode = 0 /\ ~q.first.seen /\ Cardinality(a.ids) = 0
  BY FS_EmptySet DEF Blank
<1> QED BY <1>1, <1>2, <1>3 DEF Reported

-----------------------------------------------------------------------------
\* Every step of the reader keeps the counts.
\* When the collector is there, and that a cold cache is that of the first request.
FlowInv ==
  /\ at # "reading" => call.work = <<>> /\ call.missing = <<>>
  /\ at = "between" => ~obs.request.active
  /\ at \notin {"between", "dead"} => (obs.on <=> obs.request.active)
  /\ at \in {"reading", "outputs"} /\ obs.request.active => obs.known
  /\ asked.cold => kind = "advice" /\ (at = "dead" \/ obs.on \/ obs.known)
  /\ asked.cold /\ at \notin {"between", "dead"} => obs.on
  /\ asked.cold /\ at \in {"reading", "outputs"} => asked.ids # {}
  /\ asked.cold /\ asked.ids = {} => cache.rows = <<>>
  /\ at = "reading" /\ (\E t \in DOMAIN call.work : call.work[t].at = "counting") =>
        obs.request.active

\* What is written when tokens come, and at the last of them.
StampInv ==
  obs.request.active =>
     LET q == obs.request
     IN  /\ q.batches \in Nat /\ q.tokens \in Nat /\ (q.first.seen => q.batches > 0)
         /\ q.last.seen => at = "ending" /\ q.last = R!Snapshot /\ q.tokens > 0

CountInv ==
  /\ CounterTypes(cache) /\ AskedTypes(asked)
  /\ obs.request.active /\ obs.known => Tallied(obs.request, call, cache, asked)
  /\ obs.request.active /\ ~obs.known =>
        Blank(obs.request, asked) /\ obs.request.start = R!Unseen

\* What a report has to say is what the counters of its request say.
ReportInv ==
  report # R!NoReport =>
     /\ Reported(report.request, report.asked, report.end)
     /\ report.request.last.seen =>
           report.request.last = report.end /\ report.request.tokens > 0

LEMMA NothingIs == ~R!Nothing.active
BY DEF R!Nothing

LEMMA FlowStart == R!Init => FlowInv /\ StampInv /\ CountInv /\ ReportInv
<1> SUFFICES ASSUME R!Init PROVE FlowInv /\ StampInv /\ CountInv /\ ReportInv
  OBVIOUS
<1>1. ~obs.request.active /\ at = "between" /\ report = R!NoReport
  BY NothingIs DEF R!Init, R!Off
<1>2. call.work = <<>> /\ call.missing = <<>> /\ ~asked.cold /\ AskedTypes(asked)
  BY DEF R!Init, R!Idle, R!NotAsked, AskedTypes
<1>3. CounterTypes(cache)
  BY DEF R!Init, CounterTypes
<1> QED BY <1>1, <1>2, <1>3 DEF FlowInv, StampInv, CountInv, ReportInv

(* Between two requests there is none whose counts could be wrong.         *)
LEMMA QuietStep ==
  ASSUME FlowInv, CountInv, R!Install \/ R!Close \/ R!Replace \/ \E policy : R!Switch(policy)
  PROVE  FlowInv' /\ StampInv' /\ CountInv'
<1> DEFINE Quiet == /\ at = "between" /\ at' \in {"between", "dead"} /\ ~obs'.request.active
                    /\ call' = call /\ cache' = cache /\ asked' = asked /\ kind' = kind
                    /\ at' = "between" /\ (obs.on \/ obs.known) => obs'.on \/ obs'.known
<1>1. at = "between" => ~obs.request.active
  BY DEF FlowInv
<1>2. R!Install => Quiet
  BY <1>1 DEF R!Install
<1>3. R!Close => Quiet
  BY NothingIs DEF R!Close
<1>4. R!Replace => Quiet
  BY <1>1 DEF R!Replace
<1>5. ASSUME NEW policy, R!Switch(policy) PROVE Quiet
  <2>1. /\ at = "between" /\ call' = call /\ cache' = cache /\ asked' = asked /\ kind' = kind
        /\ (at' = at /\ obs' = obs) \/ R!Die
    BY <1>5 DEF R!Switch
  <2>2. CASE at' = at /\ obs' = obs
    BY <1>1, <2>1, <2>2
  <2>3. CASE R!Die
    BY <2>1, <2>3, NothingIs DEF R!Die
  <2> QED BY <2>1, <2>2, <2>3
<1>6. Quiet
  BY <1>2, <1>3, <1>4, <1>5
<1>7. FlowInv'
  BY <1>6 DEF FlowInv
<1> QED BY <1>6, <1>7 DEF StampInv, CountInv

LEMMA PrepareQuiet ==
  ASSUME FlowInv, CountInv, NEW policy, R!Prepare(policy)
  PROVE  FlowInv' /\ StampInv' /\ CountInv'
<1>1. at = "between" => ~obs.request.active
  BY DEF FlowInv
<1>2. /\ at = "between" /\ call' = call /\ kind' = kind /\ kind = "advice" /\ obs.on
      /\ (at' = at /\ obs' = obs) \/ R!Die
  BY DEF R!Prepare
<1>3. /\ at' \in {"between", "dead"} /\ ~obs'.request.active
      /\ at' = "between" => obs' = obs /\ obs.on
  <2>1. CASE at' = at /\ obs' = obs
    BY <1>1, <1>2, <2>1
  <2>2. CASE R!Die
    BY <2>2, NothingIs DEF R!Die
  <2> QED BY <1>2, <2>1, <2>2
<1>4. \/ cache' = cache /\ asked' = asked
      \/ cache' = [cache EXCEPT !.rows = <<>>] /\ asked' = [R!NotAsked EXCEPT !.cold = TRUE]
  BY DEF R!Prepare, R!Prepared
<1>5. CASE cache' = cache /\ asked' = asked
  BY <1>3, <1>5, <1>2 DEF FlowInv, StampInv, CountInv
<1>6. CASE cache' = [cache EXCEPT !.rows = <<>>] /\ asked' = [R!NotAsked EXCEPT !.cold = TRUE]
  <2>1. /\ cache'.rows = <<>> /\ cache'.hits = cache.hits /\ cache'.misses = cache.misses
        /\ cache'.read = cache.read /\ asked'.before = 0 /\ asked'.decode = 0
    BY <1>6 DEF R!NotAsked
  <2>2. FlowInv'
    BY <1>3, <1>2, <2>1 DEF FlowInv
  <2>3. CounterTypes(cache') /\ AskedTypes(asked')
    BY <2>1 DEF CountInv, CounterTypes, AskedTypes
  <2> QED BY <1>3, <2>2, <2>3 DEF StampInv, CountInv
<1> QED BY <1>4, <1>5, <1>6

LEMMA BeganIs ==
  ASSUME NEW a, a.ids = {}, a.before = 0, a.decode = 0
  PROVE  /\ R!Began.active /\ R!Began.start = R!Snapshot /\ Blank(R!Began, a)
         /\ R!Began.batches \in Nat /\ R!Began.tokens \in Nat /\ ~R!Began.last.seen
<1>1. ~R!Unseen.seen
  BY DEF R!Unseen
<1>2. R!Began.reader = [key \in R!Phases \X (1 .. ReadWorkers) |-> 0]
  BY DEF R!Began
<1>3. R!Began.reader \in Readers
  BY <1>2 DEF Readers
<1>4. \A p \in R!Phases, t \in 1 .. ReadWorkers : R!Began.reader[<<p, t>>] = 0
  BY <1>2
<1> QED BY <1>1, <1>3, <1>4 DEF R!Began, Blank

LEMMA BeginStep ==
  ASSUME FlowInv, CountInv, R!Begin PROVE FlowInv' /\ StampInv' /\ CountInv'
<1>1. /\ at = "between" /\ at' = "step" /\ call' = call /\ cache' = cache /\ kind' = kind
      /\ obs' = IF obs.on THEN [obs EXCEPT !.request = R!Began] ELSE obs
      /\ asked' = [R!NotAsked EXCEPT !.cold = asked.cold /\ asked.ids = {}]
      /\ kind = "advice" => obs.on \/ ~obs.known
  BY DEF R!Begin
<1>2. /\ asked'.ids = {} /\ asked'.before = 0 /\ asked'.decode = 0
      /\ asked'.cold => asked.cold /\ asked.ids = {}
  BY <1>1, Zenon DEF R!NotAsked
<1>3. call.work = <<>> /\ call.missing = <<>> /\ ~obs.request.active
  BY <1>1 DEF FlowInv
<1>4. asked'.cold => obs.on /\ cache.rows = <<>>
  BY <1>1, <1>2 DEF FlowInv
<1>5. CounterTypes(cache) /\ AskedTypes(asked')
  BY <1>2 DEF CountInv, AskedTypes
<1>6. CASE obs.on
  <2>1. obs' = [obs EXCEPT !.request = R!Began]
    BY <1>1, <1>6
  <2>2. obs'.on /\ obs'.known = obs.known /\ obs'.request = R!Began
    BY <1>6, <2>1
  <2>3. /\ R!Began.active /\ R!Began.start = R!Snapshot /\ Blank(R!Began, asked')
        /\ R!Began.batches \in Nat /\ R!Began.tokens \in Nat /\ ~R!Began.last.seen
    BY <1>2, BeganIs
  <2>4. FlowInv'
    BY <1>1, <1>2, <1>3, <1>4, <2>2, <2>3 DEF FlowInv
  <2>5. StampInv'
    BY <2>2, <2>3 DEF StampInv, Blank
  <2>6. ASSUME obs.known PROVE Tallied(R!Began, call, cache, asked')
    <3>1. R!Began.start = R!Counters(cache)
      BY <2>3, <2>6 DEF R!Snapshot
    <3> QED BY <1>3, <1>4, <1>5, <2>3, <3>1, BlankTallied
  <2>7. ~obs.known => R!Began.start = R!Unseen
    BY <2>3 DEF R!Snapshot
  <2> QED BY <1>1, <1>5, <2>2, <2>3, <2>4, <2>5, <2>6, <2>7 DEF CountInv
<1>7. CASE ~obs.on
  <2>1. obs' = obs /\ ~asked'.cold
    BY <1>1, <1>4, <1>7
  <2> QED BY <1>1, <1>3, <1>5, <1>7, <2>1 DEF FlowInv, StampInv, CountInv
<1> QED BY <1>6, <1>7

LEMMA EndsAloneStep ==
  ASSUME FlowInv, StampInv, CountInv, R!EndsAlone PROVE FlowInv' /\ StampInv' /\ CountInv'
<1>1. /\ at = "step" /\ at' = "ending" /\ obs' = obs /\ call' = call /\ cache' = cache
      /\ asked' = asked /\ kind' = kind
  BY DEF R!EndsAlone
<1>2. FlowInv'
  BY <1>1 DEF FlowInv
<1>3. StampInv'
  BY <1>1 DEF StampInv
<1> QED BY <1>1, <1>2, <1>3 DEF CountInv

LEMMA EndStep ==
  ASSUME FlowInv, StampInv, CountInv, R!End
  PROVE  FlowInv' /\ StampInv' /\ CountInv' /\ ReportInv'
<1>1. /\ at = "ending" /\ at' = "between" /\ obs' = [obs EXCEPT !.request = R!Nothing]
      /\ call' = call /\ cache' = cache /\ asked' = asked /\ kind' = kind
      /\ report' = IF obs.request.active THEN R!ReportOf(obs.request) ELSE R!NoReport
  BY DEF R!End
<1>2. ~obs'.request.active /\ obs'.on = obs.on /\ obs'.known = obs.known
  BY <1>1, NothingIs
<1>3. FlowInv' /\ StampInv' /\ CountInv'
  BY <1>1, <1>2 DEF FlowInv, StampInv, CountInv
<1>4. CASE obs.request.active
  <2>1. PICK q : q = obs.request
    OBVIOUS
  <2>2. PICK r : r = report'
    OBVIOUS
  <2>3. r.request = q /\ r.end = R!Snapshot /\ r.asked = asked
    BY <1>1, <1>4, <2>1, <2>2 DEF R!ReportOf
  <2>4. q.last.seen => q.last = r.end /\ q.tokens > 0
    BY <1>4, <2>1, <2>3 DEF StampInv
  <2>5. call.work = <<>> /\ call.missing = <<>> /\ CounterTypes(cache) /\ AskedTypes(asked)
    BY <1>1 DEF FlowInv, CountInv
  <2>6. ASSUME obs.known PROVE Reported(q, asked, r.end)
    <3>1. r.end = R!Counters(cache) /\ Tallied(q, call, cache, asked)
      BY <1>4, <2>1, <2>3, <2>6 DEF R!Snapshot, CountInv
    <3> QED BY <2>5, <3>1, ReportedAre
  <2>7. ASSUME ~obs.known PROVE Reported(q, asked, r.end)
    <3>1. r.end = R!Unseen /\ Blank(q, asked) /\ q.start = R!Unseen
      BY <1>4, <2>1, <2>3, <2>7 DEF R!Snapshot, CountInv
    <3> QED BY <3>1, BlankReported
  <2>8. Reported(r.request, r.asked, r.end)
    BY <2>3, <2>6, <2>7
  <2>9. r.request.last.seen => r.request.last = r.end /\ r.request.tokens > 0
    BY <2>3, <2>4
  <2>10. ReportInv'
    BY <2>2, <2>8, <2>9 DEF ReportInv
  <2> QED BY <1>3, <2>10
<1>5. CASE ~obs.request.active
  BY <1>1, <1>3, <1>5 DEF ReportInv
<1> QED BY <1>4, <1>5
(* The reader's report adds up when it says what its counters say.         *)
LEMMA ReportSays == ReportInv => R!ReadsAddUp
BY SameSize DEF ReportInv, R!ReadsAddUp, Reported

\* What process_outputs leaves of a request, and what it counts.
Stamped(r, q, n, finished) ==
  /\ r.active = q.active /\ r.reader = q.reader /\ r.start = q.start
  /\ n = 0 => r = q
  /\ n # 0 => /\ r.batches = q.batches + 1 /\ r.tokens = q.tokens + n
              /\ r.first = IF q.first.seen THEN q.first ELSE R!Snapshot
              /\ ~finished => r.last = q.last
              /\ finished => r.last = IF q.batches = 0 THEN r.first ELSE R!Snapshot

LEMMA OutputsAre ==
  ASSUME NEW q, NEW n, NEW finished \in BOOLEAN PROVE Stamped(R!Outputs(q, n, finished), q, n, finished)
<1>1. CASE n = 0
  BY <1>1 DEF R!Outputs, Stamped
<1>2. CASE n # 0
  <2>1. PICK first : first = IF q.first.seen THEN q.first ELSE R!Snapshot
    OBVIOUS
  <2>2. PICK last : last = IF ~finished THEN q.last
                           ELSE IF q.batches = 0 THEN first ELSE R!Snapshot
    OBVIOUS
  <2>3. R!Outputs(q, n, finished) =
           [q EXCEPT !.batches = q.batches + 1, !.tokens = q.tokens + n, !.first = first,
                     !.last = last]
    BY <1>2, <2>1, <2>2 DEF R!Outputs
  <2> QED BY <1>2, <2>1, <2>2, <2>3 DEF Stamped
<1> QED BY <1>1, <1>2

LEMMA EmitCounts ==
  ASSUME FlowInv, StampInv, CountInv, NEW n \in 0 .. 1, NEW finished \in BOOLEAN,
         R!Emit(n, finished)
  PROVE  FlowInv' /\ StampInv' /\ CountInv'
<1>1. /\ at = "outputs" /\ at' = (IF finished THEN "ending" ELSE "step") /\ call' = R!Idle
      /\ cache' = cache /\ asked' = asked /\ kind' = kind /\ (n = 0 => ~finished)
      /\ obs' = IF obs.request.active
                THEN [obs EXCEPT !.request = R!Outputs(obs.request, n, finished)] ELSE obs
  BY DEF R!Emit
<1>2. call'.work = <<>> /\ call'.missing = <<>> /\ call.work = <<>> /\ call.missing = <<>>
  BY <1>1 DEF R!Idle, FlowInv
<1>3. PICK q : q = obs.request
  OBVIOUS
<1>4. CASE ~q.active
  <2>1. obs' = obs /\ ~obs'.request.active
    BY <1>1, <1>3, <1>4
  <2>2. FlowInv'
    BY <1>1, <1>2, <1>3, <1>4, <2>1 DEF FlowInv
  <2> QED BY <1>1, <2>1, <2>2 DEF StampInv, CountInv
<1>5. CASE q.active
  <2>1. PICK r : r = R!Outputs(q, n, finished)
    OBVIOUS
  <2>2. obs'.request = r /\ obs'.on = obs.on /\ obs'.known = obs.known
    BY <1>1, <1>3, <1>5, <2>1
  <2>3. Stamped(r, q, n, finished)
    BY <2>1, OutputsAre
  <2>4. r.active /\ r.reader = q.reader /\ r.start = q.start
    BY <1>5, <2>3 DEF Stamped
  <2>5. obs.known /\ R!Snapshot = R!Counters(cache)
    BY <1>1, <1>3, <1>5 DEF FlowInv, R!Snapshot
  <2>6. FlowInv'
    BY <1>1, <1>2, <1>3, <1>5, <2>2, <2>4, <2>5 DEF FlowInv
  <2>7. R!Snapshot' = R!Snapshot
    BY <1>1, <2>2 DEF R!Snapshot
  <2>8. q.batches \in Nat /\ q.tokens \in Nat /\ (q.first.seen => q.batches > 0) /\ ~q.last.seen
    BY <1>1, <1>3, <1>5 DEF StampInv
  <2>9. CounterTypes(cache) /\ AskedTypes(asked) /\ Tallied(q, call, cache, asked)
    BY <1>3, <1>5, <2>5 DEF CountInv
  <2>10. CASE n = 0
    <3>1. r = q /\ ~finished
      BY <1>1, <2>3, <2>10 DEF Stamped
    <3>2. StampInv'
      BY <2>2, <2>8, <3>1 DEF StampInv
    <3>3. Tallied(q, call', cache, asked)
      <4>1. q.reader \in Readers /\ Adds(q, call, cache, asked) /\ ReadAll(q, call, cache, asked)
        BY <2>9 DEF Tallied
      <4>2. \A p \in R!Phases : Spread(q, call', p) = Read(q, p) /\ Spread(q, call, p) = Read(q, p)
        BY <1>2, <4>1, SpreadIdle
      <4>3. Adds(q, call', cache, asked) /\ ReadAll(q, call', cache, asked)
        BY <1>2, <4>1, <4>2, PhasesAre DEF Adds, ReadAll
      <4>4. Threads(call') /\ Counting(q, call')
        BY <1>2, NoThreads
      <4> QED BY <2>9, <4>3, <4>4 DEF Tallied
    <3> QED BY <1>1, <2>2, <2>4, <2>5, <2>6, <2>9, <3>1, <3>2, <3>3 DEF CountInv
  <2>11. CASE n # 0
    <3>1. /\ r.batches = q.batches + 1 /\ r.tokens = q.tokens + n
          /\ r.first = (IF q.first.seen THEN q.first ELSE R!Snapshot)
          /\ ~finished => r.last = q.last
          /\ finished => r.last = IF q.batches = 0 THEN r.first ELSE R!Snapshot
      BY <2>3, <2>11 DEF Stamped
    <3>2. r.batches \in Nat /\ r.tokens \in Nat /\ r.batches > 0 /\ r.tokens > 0
      BY <2>8, <2>11, <3>1
    <3>3. r.last.seen => at' = "ending" /\ r.last = R!Snapshot
      BY <1>1, <2>8, <3>1
    <3>4. StampInv'
      BY <2>2, <2>7, <3>2, <3>3 DEF StampInv
    <3>5. r.first = IF q.first.seen THEN q.first ELSE R!Counters(cache)
      BY <2>5, <3>1
    <3>6. Tallied(r, call', cache, asked)
      BY <1>2, <2>4, <2>9, <3>5, EmitTallied
    <3> QED BY <1>1, <2>2, <2>4, <2>5, <2>6, <2>9, <3>4, <3>6 DEF CountInv
  <2> QED BY <2>10, <2>11
<1> QED BY <1>4, <1>5

LEMMA GatherCounts ==
  ASSUME FlowInv, StampInv, CountInv, NEW t \in DOMAIN call.work, R!Gather(t)
  PROVE  FlowInv' /\ StampInv' /\ CountInv'
<1>1. PICK w : w = call.work[t]
  OBVIOUS
<1>2. PICK q : q = obs.request
  OBVIOUS
<1>3. PICK key : key = <<R!PhaseNow(q), t>>
  OBVIOUS
<1>4. /\ at = "reading" /\ at' = at /\ cache' = cache /\ asked' = asked /\ obs' = obs
      /\ kind' = kind /\ w.at = "new"
  BY <1>1 DEF R!Gather
<1>5. PICK read : read = [w EXCEPT !.got = [j \in DOMAIN w.ids |->
                                  [id |-> w.ids[j], edition |-> source.edition]]]
  OBVIOUS
<1>6. PICK v : v = IF q.active
                   THEN [read EXCEPT !.at = "counting", !.key = key, !.was = q.reader[key]]
                   ELSE [read EXCEPT !.at = "done"]
  OBVIOUS
<1>7. call' = [call EXCEPT !.work[t] = v]
  BY <1>1, <1>2, <1>3, <1>5, <1>6 DEF R!Gather, R!Bucket
<1>8. read.ids = w.ids
  BY <1>5
<1>9. v.ids = w.ids /\ v.at = (IF q.active THEN "counting" ELSE "done")
      /\ (q.active => v.key = key /\ v.was = q.reader[key])
  BY <1>6, <1>8
<1>10. call'.work = [call.work EXCEPT ![t] = v] /\ call'.missing = call.missing
  BY <1>7
<1>11. CASE q.active
  <2>1. obs.known /\ Tallied(q, call, cache, asked)
    BY <1>2, <1>4, <1>11 DEF FlowInv, CountInv
  <2>2. /\ w.at = "new" /\ v.ids = w.ids /\ v.at = "counting"
        /\ v.key = <<R!PhaseNow(q), t>> /\ v.was = q.reader[<<R!PhaseNow(q), t>>]
    BY <1>3, <1>4, <1>9, <1>11
  <2>3. Tallied(q, call', cache, asked)
    BY <1>1, <1>10, <2>1, <2>2, GatherTallied
  <2>4. FlowInv'
    BY <1>2, <1>4, <1>11 DEF FlowInv
  <2>5. StampInv'
    BY <1>4 DEF StampInv, R!Snapshot
  <2> QED BY <1>2, <1>4, <2>1, <2>3, <2>4, <2>5 DEF CountInv
<1>12. CASE ~q.active
  <2>1. ~(\E u \in DOMAIN call'.work : call'.work[u].at = "counting")
    <3>1. ~(\E u \in DOMAIN call.work : call.work[u].at = "counting")
      BY <1>2, <1>4, <1>12 DEF FlowInv
    <3> QED BY <1>9, <1>10, <1>12, <3>1
  <2>2. FlowInv'
    BY <1>2, <1>4, <2>1 DEF FlowInv
  <2> QED BY <1>2, <1>4, <1>12, <2>2 DEF StampInv, CountInv
<1> QED BY <1>11, <1>12

LEMMA StoreCounts ==
  ASSUME FlowInv, StampInv, CountInv, NEW t \in DOMAIN call.work, R!Store(t)
  PROVE  FlowInv' /\ StampInv' /\ CountInv'
<1>1. PICK w : w = call.work[t]
  OBVIOUS
<1>2. PICK q : q = obs.request
  OBVIOUS
<1>3. /\ at = "reading" /\ at' = at /\ cache' = cache /\ asked' = asked
      /\ kind' = kind /\ w.at = "counting"
      /\ obs' = [obs EXCEPT !.request.reader[w.key] = w.was + Len(w.ids)]
      /\ call' = [call EXCEPT !.work[t].at = "done"]
  BY <1>1 DEF R!Store
<1>4. q.active /\ obs.known
  BY <1>1, <1>2, <1>3 DEF FlowInv
<1>5. PICK r : r = obs'.request
  OBVIOUS
<1>6. PICK n : n = w.was + Len(w.ids)
  OBVIOUS
<1>7. /\ r.reader = [q.reader EXCEPT ![w.key] = n] /\ r.start = q.start /\ r.first = q.first
      /\ r.active = q.active /\ r.batches = q.batches /\ r.tokens = q.tokens /\ r.last = q.last
      /\ obs'.on = obs.on /\ obs'.known = obs.known
  <2>1. PICK reader : reader = [q.reader EXCEPT ![w.key] = n]
    OBVIOUS
  <2>2. PICK s : s = [q EXCEPT !.reader = reader]
    OBVIOUS
  <2>3. obs' = [obs EXCEPT !.request = s]
    BY <1>2, <1>3, <1>6, <2>1, <2>2
  <2>4. s.reader = reader /\ s.start = q.start /\ s.first = q.first /\ s.active = q.active
        /\ s.batches = q.batches /\ s.tokens = q.tokens /\ s.last = q.last
    BY <2>2
  <2>5. r = s /\ obs'.on = obs.on /\ obs'.known = obs.known
    BY <1>5, <2>3
  <2> QED BY <2>1, <2>4, <2>5
<1>8. PICK v : v = [w EXCEPT !.at = "done"]
  OBVIOUS
<1>9. /\ call'.work = [call.work EXCEPT ![t] = v] /\ call'.missing = call.missing
      /\ v.ids = w.ids /\ v.at = "done"
  BY <1>1, <1>3, <1>8
<1>10. Tallied(q, call, cache, asked)
  BY <1>2, <1>4 DEF CountInv
<1>11. Tallied(r, call', cache, asked)
  <2>1. r.reader = [q.reader EXCEPT ![call.work[t].key] = call.work[t].was + Len(call.work[t].ids)]
    BY <1>1, <1>6, <1>7
  <2>2. call.work[t].at = "counting" /\ v.ids = call.work[t].ids
    BY <1>1, <1>3, <1>9
  <2> QED BY <1>7, <1>9, <1>10, <2>1, <2>2, StoreTallied
<1>12. FlowInv'
  BY <1>2, <1>3, <1>4, <1>5, <1>7 DEF FlowInv
<1>13. StampInv'
  <2>1. /\ q.batches \in Nat /\ q.tokens \in Nat /\ (q.first.seen => q.batches > 0)
        /\ ~q.last.seen
    BY <1>2, <1>3, <1>4 DEF StampInv
  <2> QED BY <1>5, <1>7, <2>1 DEF StampInv
<1> QED BY <1>3, <1>4, <1>5, <1>7, <1>11, <1>12, <1>13 DEF CountInv

LEMMA InsertCounts ==
  ASSUME ReaderInv, FlowInv, StampInv, CountInv, R!Insert
  PROVE  FlowInv' /\ StampInv' /\ CountInv'
<1>1. PICK c : c = call
  OBVIOUS
<1>2. PICK lru : lru = cache.rows
  OBVIOUS
<1>3. PICK new : new = R!Inserted(lru, c)
  OBVIOUS
<1>4. /\ at = "reading" /\ \A t \in DOMAIN c.work : c.work[t].at = "done"
      /\ cache' = [cache EXCEPT !.rows = new, !.read = @ + Len(c.missing)]
      /\ call' = R!Answered(new, c.ids) /\ kind' = kind /\ asked' = asked
      /\ (at' = "outputs" /\ obs' = obs) \/ R!Die
  BY <1>1, <1>2, <1>3 DEF R!Insert
<1>5. PICK d : d = cache'
  OBVIOUS
<1>6. d.rows = new /\ d.hits = cache.hits /\ d.misses = cache.misses /\ d.read = cache.read + Len(c.missing)
  BY <1>4, <1>5
<1>7. call'.work = <<>> /\ call'.missing = <<>>
  BY <1>4 DEF R!Answered, R!Idle
<1>8. SoundRead(c, lru) /\ SoundCache
  BY <1>1, <1>4, <1>2 DEF ReaderInv
<1>9. lru \in Seq(CachedRows) /\ Distinct(lru) /\ Len(lru) <= MaxRows
  BY <1>2, <1>8 DEF SoundCache
<1>10. SoundInsert(new, c, lru)
  BY <1>3, <1>4, <1>8, <1>9, InsertedSound
<1>11. R!Cached(d.rows) \subseteq R!Cached(cache.rows) \cup Elems(c.missing)
  BY <1>2, <1>6, <1>10 DEF SoundInsert
<1>12. c.missing \in Seq(Nat)
  BY <1>8 DEF SoundRead
<1>13. CounterTypes(cache) /\ AskedTypes(asked)
  BY DEF CountInv
<1>14. CounterTypes(d)
  <2>1. Len(c.missing) \in Nat
    BY <1>12
  <2> QED BY <1>6, <1>13, <2>1 DEF CounterTypes
<1>15. CASE R!Die
  <2>1. at' = "dead" /\ ~obs'.request.active
    BY <1>15, NothingIs DEF R!Die
  <2>2. asked.cold => kind = "advice"
    BY DEF FlowInv
  <2>3. FlowInv'
    BY <1>4, <1>7, <2>1, <2>2 DEF FlowInv
  <2> QED BY <1>4, <1>5, <1>13, <1>14, <2>1, <2>3 DEF StampInv, CountInv
<1>16. CASE at' = "outputs" /\ obs' = obs
  <2>1. FlowInv'
    <3>1. asked.cold => asked.ids # {} /\ obs.on /\ kind = "advice"
      BY <1>4 DEF FlowInv
    <3>2. (obs.on <=> obs.request.active) /\ (obs.request.active => obs.known)
      BY <1>4 DEF FlowInv
    <3> QED BY <1>4, <1>7, <1>16, <3>1, <3>2 DEF FlowInv
  <2>2. StampInv'
    BY <1>4, <1>16 DEF StampInv
  <2>3. ASSUME obs.request.active PROVE obs.known /\ Tallied(obs.request, call', d, asked)
    <3>1. obs.known /\ Tallied(obs.request, c, cache, asked)
      BY <1>1, <1>4, <2>3 DEF FlowInv, CountInv
    <3> QED BY <1>4, <1>6, <1>7, <1>11, <1>12, <1>13, <3>1, InsertTallied
  <2> QED BY <1>4, <1>5, <1>13, <1>14, <1>16, <2>1, <2>2, <2>3 DEF CountInv
<1> QED BY <1>4, <1>15, <1>16

\* What a lookup finds, what it leaves to its threads, and that none has begun.
Looked(ids, missing, h) ==
  /\ ids \in Seq(Nat) /\ ids # <<>> /\ missing \in Seq(Nat) /\ Injective(missing)
  /\ Elems(missing) = Elems(ids) \ R!Cached(cache.rows)
  /\ h \in Nat /\ cache'.hits = cache.hits + h /\ cache'.misses = cache.misses + Len(ids) - h
  /\ cache'.read = cache.read /\ R!Cached(cache'.rows) = R!Cached(cache.rows)
  /\ at = "step" /\ at' \in {"outputs", "reading"}
  /\ call'.missing = missing /\ Threads(call')
  /\ \A t \in DOMAIN call'.work : call'.work[t].at = "new"
  /\ \A q, p : q.reader \in Readers /\ p \in R!Phases =>
        Total(Spread(q, call', p)) = Total(Read(q, p)) + Len(missing)
  /\ at' = "outputs" => call'.work = <<>> /\ call'.missing = <<>>

LEMMA LookedAre ==
  ASSUME ReaderInv, CountInv, NEW ids \in R!Batches, R!Lookup(ids)
  PROVE  \E missing, h : Looked(ids, missing, h)
<1>1. PICK lru : lru = cache.rows
  OBVIOUS
<1>2. PICK missing : missing = R!Missing(lru, ids)
  OBVIOUS
<1>3. PICK used : used = R!Used(lru, ids)
  OBVIOUS
<1>4. PICK h : h = R!Cardinality({j \in DOMAIN ids : ids[j] \in R!Cached(lru)})
  OBVIOUS
<1>5. ids \in Seq(Nat) /\ ids # <<>> /\ IsList(ids)
  <2>1. ids \in Seq(Nat) /\ ids # <<>>
    BY AskedIs
  <2> QED BY <2>1 DEF IsList
<1>6. lru \in Seq(CachedRows) /\ Distinct(lru) /\ Len(lru) <= MaxRows
  BY <1>1 DEF ReaderInv, SoundCache
<1>7. /\ missing \in Seq(Nat) /\ Injective(missing)
      /\ Elems(missing) = Elems(ids) \ R!Cached(lru)
  BY <1>2, <1>5, MissingAre
<1>8. R!Cached(used) = R!Cached(lru)
  BY <1>3, <1>5, <1>6, UsedKeeps DEF Reused
<1>9. h \in Nat
  <2>1. PICK S : S = {j \in DOMAIN ids : ids[j] \in R!Cached(lru)}
    OBVIOUS
  <2>2. PICK n \in Nat : DOMAIN ids = 1 .. n
    BY <1>5
  <2>3. 1 \in Int /\ n \in Int /\ S \subseteq 1 .. n
    BY <2>1, <2>2
  <2>4. IsFiniteSet(1 .. n)
    BY <2>3, FS_Interval, Zenon
  <2>5. IsFiniteSet(S)
    BY <2>3, <2>4, FS_Subset
  <2> QED BY <1>4, <2>1, <2>5, FS_CardinalityType, SameSize
<1>10. /\ cache' = [cache EXCEPT !.rows = used, !.hits = @ + h, !.misses = @ + Len(ids) - h]
       /\ at = "step"
  BY <1>1, <1>3, <1>4 DEF R!Lookup
<1>11. /\ cache'.rows = used /\ cache'.hits = cache.hits + h
       /\ cache'.misses = cache.misses + Len(ids) - h /\ cache'.read = cache.read
  BY <1>10
<1>12. CASE missing = <<>>
  <2>1. at' = "outputs" /\ call' = R!Answered(used, ids)
    BY <1>1, <1>2, <1>3, <1>12 DEF R!Lookup
  <2>2. call'.work = <<>> /\ call'.missing = <<>>
    BY <2>1 DEF R!Answered, R!Idle
  <2>3. Threads(call') /\ \A t \in DOMAIN call'.work : call'.work[t].at = "new"
    <3>1. DOMAIN <<>> = {}
      OBVIOUS
    <3> QED BY <2>2, <3>1, NoThreads
  <2>4. ASSUME NEW q, NEW p, q.reader \in Readers, p \in R!Phases
        PROVE  Total(Spread(q, call', p)) = Total(Read(q, p)) + Len(missing)
    <3>1. Spread(q, call', p) = Read(q, p)
      BY <2>2, <2>4, SpreadIdle
    <3>2. Total(Read(q, p)) \in Nat
      <4>1. PICK w \in Nat : w = ReadWorkers
        BY ReadWorkersIs
      <4>2. Read(q, p) \in [1 .. w -> Nat]
        BY <2>4, <4>1, ReadType
      <4> QED BY <4>2, TotalType
    <3>3. Len(missing) = 0
      BY <1>12
    <3> QED BY <3>1, <3>2, <3>3
  <2>5. Looked(ids, missing, h)
    BY <1>1, <1>5, <1>7, <1>8, <1>9, <1>10, <1>11, <1>12, <2>1, <2>2, <2>3, <2>4 DEF Looked
  <2> QED BY <2>5
<1>13. CASE missing # <<>>
  <2>1. PICK chunks : chunks = R!Chunks(missing)
    OBVIOUS
  <2>2. PICK work : work = [t \in DOMAIN chunks |->
                             [ids |-> chunks[t], at |-> "new", got |-> <<>>,
                              key |-> <<>>, was |-> 0]]
    OBVIOUS
  <2>3. at' = "reading" /\ call' = [R!Idle EXCEPT !.ids = ids, !.missing = missing, !.work = work]
    BY <1>1, <1>2, <1>13, <2>1, <2>2 DEF R!Lookup
  <2>4. call'.missing = missing /\ call'.work = work
    BY <2>3 DEF R!Idle
  <2>5. call'.work = [t \in DOMAIN R!Chunks(missing) |->
                       [ids |-> R!Chunks(missing)[t], at |-> "new", got |-> <<>>,
                        key |-> <<>>, was |-> 0]]
    BY <2>1, <2>2, <2>4
  <2>6. /\ Threads(call')
        /\ \A q, p : q.reader \in Readers /\ p \in R!Phases =>
              Total(Spread(q, call', p)) = Total(Read(q, p)) + Len(missing)
    BY <1>7, <1>13, <2>5, SpreadBegins
  <2>7. \A t \in DOMAIN call'.work : call'.work[t].at = "new"
    BY <2>5
  <2>8. Looked(ids, missing, h)
    BY <1>1, <1>5, <1>7, <1>8, <1>9, <1>10, <1>11, <2>3, <2>4, <2>6, <2>7 DEF Looked
  <2> QED BY <2>8
<1> QED BY <1>12, <1>13

\* What the request asked for, with the rows of one more lookup.
AskedMore(q, ids, a, b) ==
  /\ b.ids = a.ids \cup Elems(ids) /\ b.cold = a.cold
  /\ b.before = a.before + (IF q.first.seen THEN 0 ELSE Len(ids))
  /\ b.decode = a.decode + (IF q.first.seen THEN Len(ids) ELSE 0)

LEMMA AskedMoreIs ==
  ASSUME NEW ids \in R!Batches, R!Lookup(ids), obs.request.active
  PROVE  AskedMore(obs.request, ids, asked, asked')
<1>1. PICK early, late :
         /\ early = asked.before + (IF obs.request.first.seen THEN 0 ELSE Len(ids))
         /\ late = asked.decode + (IF obs.request.first.seen THEN Len(ids) ELSE 0)
  OBVIOUS
<1>2. asked' = [asked EXCEPT !.ids = @ \cup Elems(ids), !.before = early, !.decode = late]
  BY <1>1, SameElems DEF R!Lookup, R!AskedFor
<1> QED BY <1>1, <1>2 DEF AskedMore

\* The request within which a cache is met for the first time.
Met(r, q) ==
  /\ r.active = q.active /\ r.reader = q.reader /\ r.first = q.first /\ r.last = q.last
  /\ r.batches = q.batches /\ r.tokens = q.tokens

LEMMA MeetsIs ==
  ASSUME NEW ids \in R!Batches, R!Lookup(ids), obs.request.active, obs.on
  PROVE  /\ obs'.on /\ obs'.known /\ Met(obs'.request, obs.request)
         /\ obs'.request.start = IF obs.known THEN obs.request.start ELSE R!Counters(cache)
<1>1. obs' = R!Meets(obs)
  BY DEF R!Lookup
<1>2. CASE obs.known
  <2>1. obs' = obs
    BY <1>1, <1>2 DEF R!Meets
  <2> QED BY <1>2, <2>1 DEF Met
<1>3. CASE ~obs.known
  <2>1. PICK q : q = obs.request
    OBVIOUS
  <2>2. PICK r : r = [q EXCEPT !.start = R!Counters(cache)]
    OBVIOUS
  <2>3. obs' = [obs EXCEPT !.known = TRUE, !.request = r]
    BY <1>1, <1>3, <2>1, <2>2 DEF R!Meets
  <2>4. obs'.on /\ obs'.known /\ obs'.request = r
    BY <2>3
  <2>5. Met(r, q) /\ r.start = R!Counters(cache)
    BY <2>2 DEF Met
  <2> QED BY <1>3, <2>1, <2>4, <2>5
<1> QED BY <1>2, <1>3

LEMMA LookupCounts ==
  ASSUME ReaderInv, FlowInv, StampInv, CountInv, NEW ids \in R!Batches, R!Lookup(ids)
  PROVE  FlowInv' /\ StampInv' /\ CountInv'
<1>1. PICK missing, h : Looked(ids, missing, h)
  BY LookedAre
<1>2. at = "step" /\ at' \in {"outputs", "reading"} /\ kind' = kind
  BY <1>1 DEF Looked, R!Lookup
<1>3. at' # "reading" => call'.work = <<>> /\ call'.missing = <<>>
  BY <1>1 DEF Looked
<1>4. ~(\E t \in DOMAIN call'.work : call'.work[t].at = "counting")
  BY <1>1 DEF Looked
<1>5. call.work = <<>> /\ call.missing = <<>> /\ (obs.on <=> obs.request.active)
  BY <1>2 DEF FlowInv
<1>6. CounterTypes(cache) /\ AskedTypes(asked)
  BY DEF CountInv
<1>7. PICK n \in Nat : n = Len(ids)
  BY <1>1 DEF Looked
<1>8. CounterTypes(cache')
  <2>1. PICK x \in Int, y \in Int : x = cache.hits /\ y = cache.misses
    BY <1>6 DEF CounterTypes
  <2>2. h \in Nat /\ cache'.hits = x + h /\ cache'.misses = y + n - h /\ cache'.read = cache.read
    BY <1>1, <1>7, <2>1 DEF Looked
  <2>3. x + h \in Int /\ y + n - h \in Int
    BY <2>2
  <2> QED BY <1>6, <2>2, <2>3 DEF CounterTypes
<1>9. CASE ~obs.request.active
  <2>1. obs' = obs /\ asked' = asked
    BY <1>5, <1>9 DEF R!Lookup, R!Meets, R!AskedFor
  <2>2. ~asked.cold
    BY <1>2, <1>5, <1>9 DEF FlowInv
  <2>3. FlowInv'
    BY <1>2, <1>3, <1>4, <1>5, <1>9, <2>1, <2>2 DEF FlowInv
  <2> QED BY <1>6, <1>8, <1>9, <2>1, <2>3 DEF StampInv, CountInv
<1>10. CASE obs.request.active
  <2>1. PICK q : q = obs.request
    OBVIOUS
  <2>2. PICK r : r = obs'.request
    OBVIOUS
  <2>3. /\ obs'.on /\ obs'.known /\ Met(r, q)
        /\ r.start = IF obs.known THEN q.start ELSE R!Counters(cache)
    BY <1>5, <1>10, <2>1, <2>2, MeetsIs
  <2>4. AskedMore(q, ids, asked, asked')
    BY <1>10, <2>1, AskedMoreIs
  <2>5. r.active /\ r.reader = q.reader /\ r.first = q.first
    BY <1>10, <2>1, <2>3 DEF Met
  <2>6. Tallied(r, call, cache, asked)
    <3>1. CASE obs.known
      <4>1. Tallied(q, call, cache, asked) /\ r.start = q.start
        BY <1>10, <2>1, <2>3, <3>1 DEF CountInv
      <4>2. \A p : Spread(r, call, p) = Spread(q, call, p) /\ Read(r, p) = Read(q, p)
        BY <2>5 DEF Spread, Read
      <4>3. Adds(r, call, cache, asked)
        BY <2>5, <4>1, <4>2 DEF Tallied, Adds
      <4>4. ReadAll(r, call, cache, asked)
        BY <4>1 DEF Tallied, ReadAll
      <4> QED BY <1>5, <2>5, <4>1, <4>3, <4>4, NoThreads DEF Tallied
    <3>2. CASE ~obs.known
      <4>1. Blank(q, asked)
        BY <1>10, <2>1, <3>2 DEF CountInv
      <4>2. Blank(r, asked)
        BY <2>5, <4>1 DEF Blank
      <4>3. asked.cold => cache.rows = <<>>
        BY <4>1 DEF FlowInv, Blank
      <4>4. r.start = R!Counters(cache)
        BY <2>3, <3>2
      <4> QED BY <1>5, <1>6, <4>2, <4>3, <4>4, BlankTallied
    <3> QED BY <3>1, <3>2
  <2>7. Tallied(r, call', cache', asked')
    <3>1. /\ ids \in Seq(Nat) /\ missing \in Seq(Nat) /\ Injective(missing)
          /\ Elems(missing) = Elems(ids) \ R!Cached(cache.rows)
          /\ h \in Nat /\ cache'.hits = cache.hits + h
          /\ cache'.misses = cache.misses + Len(ids) - h
          /\ cache'.read = cache.read /\ R!Cached(cache'.rows) = R!Cached(cache.rows)
          /\ call'.missing = missing /\ Threads(call')
      BY <1>1 DEF Looked
    <3>2. /\ asked'.ids = asked.ids \cup Elems(ids) /\ asked'.cold = asked.cold
          /\ asked'.before = asked.before + (IF r.first.seen THEN 0 ELSE Len(ids))
          /\ asked'.decode = asked.decode + (IF r.first.seen THEN Len(ids) ELSE 0)
      BY <2>4, <2>5 DEF AskedMore
    <3>3. Counting(r, call')
      BY <1>4 DEF Counting
    <3>4. r.reader \in Readers
      BY <2>6 DEF Tallied
    <3>5. \A p \in R!Phases : Total(Spread(r, call', p)) = Total(Read(r, p)) + Len(missing)
      BY <1>1, <3>4 DEF Looked
    <3> QED BY <1>5, <1>6, <2>6, <3>1, <3>2, <3>3, <3>5, LookupTallied
  <2>8. AskedTypes(asked')
    <3>1. PICK x \in Nat, y \in Nat : x = asked.before /\ y = asked.decode
      BY <1>6 DEF AskedTypes
    <3>2. asked'.before = x + (IF q.first.seen THEN 0 ELSE n)
          /\ asked'.decode = y + (IF q.first.seen THEN n ELSE 0)
      BY <1>7, <2>4, <3>1 DEF AskedMore
    <3>3. asked'.before \in Nat /\ asked'.decode \in Nat
      BY <3>2
    <3> QED BY <3>3 DEF AskedTypes
  <2>9. asked'.ids # {}
    <3>1. ids \in Seq(Nat) /\ ids # <<>>
      BY <1>1 DEF Looked
    <3>2. ids[1] \in Elems(ids)
      BY <3>1 DEF Elems
    <3> QED BY <2>4, <3>2 DEF AskedMore
  <2>10. FlowInv'
    <3>1. asked'.cold => kind = "advice"
      BY <2>4 DEF AskedMore, FlowInv
    <3> QED BY <1>2, <1>3, <1>4, <2>2, <2>3, <2>5, <2>9, <3>1 DEF FlowInv
  <2>11. StampInv'
    <3>1. /\ q.batches \in Nat /\ q.tokens \in Nat /\ (q.first.seen => q.batches > 0)
          /\ ~q.last.seen
      BY <1>2, <1>10, <2>1 DEF StampInv
    <3> QED BY <2>2, <2>3, <2>5, <3>1 DEF StampInv, Met
  <2> QED BY <1>8, <2>2, <2>3, <2>7, <2>8, <2>10, <2>11 DEF CountInv
<1> QED BY <1>9, <1>10

LEMMA ReportStays ==
  ASSUME R!Next, ~R!End PROVE report' = report \/ report' = R!NoReport
<1>1. ASSUME NEW policy, R!Prepare(policy) \/ R!Switch(policy) PROVE report' = report
  BY <1>1 DEF R!Prepare, R!Switch
<1>2. ASSUME NEW ids, R!Lookup(ids) PROVE report' = report
  BY <1>2 DEF R!Lookup
<1>3. ASSUME NEW t, R!Gather(t) \/ R!Store(t) PROVE report' = report
  BY <1>3 DEF R!Gather, R!Store
<1>4. ASSUME NEW n, NEW finished, R!Emit(n, finished) PROVE report' = report
  BY <1>4 DEF R!Emit
<1>5. R!Insert => report' = report
  BY DEF R!Insert
<1>6. R!Install \/ R!Close \/ R!EndsAlone \/ R!Replace => report' = report
  BY DEF R!Install, R!Close, R!EndsAlone, R!Replace
<1>7. R!Begin => report' = R!NoReport
  BY DEF R!Begin
<1> QED BY <1>1, <1>2, <1>3, <1>4, <1>5, <1>6, <1>7 DEF R!Next

ReportedInv == FlowInv /\ StampInv /\ CountInv /\ ReportInv

LEMMA CountsStep == ASSUME ReaderInv, ReportedInv, R!Next PROVE ReportedInv'
<1>1. FlowInv /\ StampInv /\ CountInv /\ ReportInv
  BY DEF ReportedInv
<1>2. CASE R!End
  BY <1>1, <1>2, EndStep DEF ReportedInv
<1>3. CASE ~R!End
  <2>1. ReportInv'
    <3>1. report' = report \/ report' = R!NoReport
      BY <1>3, ReportStays
    <3> QED BY <1>1, <3>1 DEF ReportInv
  <2>2. ASSUME NEW policy, R!Switch(policy) PROVE FlowInv' /\ StampInv' /\ CountInv'
    BY <1>1, <2>2, QuietStep
  <2>3. ASSUME R!Install \/ R!Close \/ R!Replace PROVE FlowInv' /\ StampInv' /\ CountInv'
    BY <1>1, <2>3, QuietStep
  <2>4. FlowInv' /\ StampInv' /\ CountInv'
    BY <1>1, <1>3, <2>2, <2>3, PrepareQuiet, BeginStep, EndsAloneStep, EmitCounts, GatherCounts,
       StoreCounts, InsertCounts, LookupCounts DEF R!Next
  <2> QED BY <2>1, <2>4 DEF ReportedInv
<1> QED BY <1>2, <1>3

(* ReadsAddUp: whatever the order in which the threads of a lookup count    *)
(* their rows, also when the cache is met within the request and when the   *)
(* first token comes between two of its lookups, the report of a request    *)
(* gives each phase the rows its cache counted, and the hits and misses are *)
(* the rows it asked for.                                                   *)
THEOREM ReportsAddUp == RunNode => []ReadsAddUp
<1>1. ReaderInv /\ ReportedInv /\ [R!Next]_R!vars => ReportedInv'
  <2>1. ReportedInv /\ UNCHANGED R!vars => ReportedInv'
    <3> SUFFICES ASSUME ReportedInv, UNCHANGED R!vars PROVE ReportedInv'
      OBVIOUS
    <3>1. /\ kind' = kind /\ at' = at /\ cache' = cache /\ call' = call /\ obs' = obs
          /\ asked' = asked /\ report' = report
      BY DEF R!vars
    <3> QED BY <3>1 DEF ReportedInv, FlowInv, StampInv, CountInv, ReportInv, R!Snapshot
  <2> QED BY <2>1, CountsStep
<1>2. R!Init => ReportedInv
  BY FlowStart DEF ReportedInv
<1>3. ReportedInv => ReadsAddUp
  BY ReportSays DEF ReportedInv, ReadsAddUp
<1> QED BY <1>1, <1>2, <1>3, ReaderInvariant, NodeRunsItsPrograms, PTL DEF R!Spec
=============================================================================
