-------------------------- MODULE GateInvariants --------------------------
(***************************************************************************)
(* The inductive invariants of the small-block gate: that its ranks keep   *)
(* in step (BInv), that they measure only what passed (GateInv) and that   *)
(* the verdict on their reports is the right one (VerdictInv).             *)
(***************************************************************************)
EXTENDS BlockVerify

IsList(s) == \E S : s \in Seq(S)
Elems(s) == {s[i] : i \in DOMAIN s}

Waiting(r) == pc[r] = "ready"
Inside(r) == pc[r] = "gen"

Shape ==
  /\ pc \in [Ranks -> {"new", "ready", "gen", "ended", "raised", "killed"}]
  /\ todo = [r \in Ranks |-> todo[r]]

(* Nobody is ahead of the other by more than the report of one request.    *)
InStep ==
  \A r, s \in Ranks :
    /\ Waiting(r) /\ Waiting(s) => todo[r] = todo[s]
    /\ Inside(r) /\ Inside(s) => todo[r] = todo[s]
    /\ Waiting(r) /\ Inside(s) => todo[r] = Tail(todo[s])
    /\ pc[r] = "new" => todo[r] = Baseline /\ ~Inside(s) /\ pc[s] # "ended"
    /\ pc[r] = "new" /\ Waiting(s) => todo[s] = Baseline
    /\ pc[r] = "ended" /\ Waiting(s) => todo[s] = <<>>
    /\ pc[r] = "ended" /\ Inside(s) => Tail(todo[s]) = <<>>

BInv == Shape /\ InStep

-----------------------------------------------------------------------------
(* The gate: what is measured, or will be, passed it, and nothing else is  *)
(* reduced than the three votes.                                           *)
Gate(width) == \A s \in Ranks :
  WidthPasses(s, width) /\ \A c \in Controls(width) : ControlPasses(s, c)
Passed == {w \in Widths : Gate(w)}
Gated(ask) == ask.mode = "measure" /\ ask.width > 1 => ask.width \in Passed

Due(ask, widths) ==
  /\ Gated(ask)
  /\ ask.mode = "reduce" => ask.n \in {1, 2, 3}
  /\ ask.mode = "reduce" /\ ask.n = 3 => widths \subseteq Widths

GateInv ==
  /\ \A r \in Ranks : IsList(rows[r]) /\ IsList(todo[r])
  /\ rows = [r \in Ranks |-> rows[r]] /\ eligible = [r \in Ranks |-> eligible[r]]
  /\ todo = [r \in Ranks |-> todo[r]]
  /\ \A r \in Ranks : \A i \in DOMAIN rows[r] : Gated(rows[r][i].ask)
  /\ \A r \in Ranks : \A i \in DOMAIN todo[r] : Due(todo[r][i], eligible[r])
  /\ Gated(gen.ask)
  /\ \A r \in Ranks : Inside(r) => todo[r] # <<>>

-----------------------------------------------------------------------------
(* A generation outside of a warmup in which nothing went wrong so far:    *)
(* its tokens are the oracle's, and what is read, proposed and observed    *)
(* follows from how many there are.                                        *)
DiagAsks == {Clean(1), Clean(2), Clean(4), Ask("diagnostic", 2, 0),
             Ask("diagnostic", 4, 0), Ask("diagnostic", 4, 2)}
Judged(ask) == ask.mode \in {"diagnostic", "measure"}
Asked(ask) == ask \in DiagAsks \/ \E w \in {1, 2, 4} : \E t : ask = Ask("measure", w, t)

Tokens == {"o", "c", "x"}
Proposal(m, c) == [i \in 1..m |-> IF i = c + 1 THEN "c" ELSE "o"]

IsGen(g) == g = [ask |-> g.ask, stream |-> g.stream, drafts |-> g.drafts, failed |-> g.failed,
                 injected |-> g.injected, seen |-> g.seen, twice |-> g.twice,
                 widths |-> g.widths, broken |-> g.broken, full |-> g.full]

Place(s) == IF s = <<>> THEN 0 ELSE Prompt + Len(s) - 1

Rejected(ask) == [at |-> Active, bad |-> {ask.n + 1}, width |-> ask.width,
                  sampled |-> ask.n + 1]

Sees(g, s) == g.seen = IF g.ask.mode = "diagnostic"
                       THEN {p \in Window : p < Place(s)} ELSE {}

Packets(n, w, c) ==
  /\ n < Activation => gen.drafts = Proposal(0, -1) /\ gen.broken = <<>> /\ ~gen.injected
  /\ n = Activation => /\ gen.drafts = Proposal(w - 1, c) /\ gen.broken = <<>>
                       /\ c # -1 => gen.injected
  /\ n > Activation =>
       /\ c # -1 => gen.injected
       /\ gen.broken = IF c = -1 THEN <<>> ELSE << Rejected(gen.ask) >>
       /\ \E m \in 0..(w - 1) :
            /\ gen.drafts = Proposal(m, -1)
            /\ \/ gen.full /\ w \in gen.widths
               \/ c # -1 /\ n = Activation + c + 1 /\ m = w - 1

Faultless ==
  /\ IsGen(gen) /\ Asked(gen.ask)
  /\ gen.stream \in Seq({"o"}) /\ ~gen.failed /\ ~gen.twice
  /\ Sees(gen, gen.stream)
  /\ Packets(Len(gen.stream), gen.ask.width, Corrupt(gen.ask))

(* Any generation.                                                         *)
Warmups == {Ask("warmup", w, -1) : w \in {1, 2, 4}}
GenTyped == IsGen(gen) /\ gen.stream \in Seq(Tokens) /\ gen.drafts \in Seq(Tokens)

-----------------------------------------------------------------------------
(* What is asked for.  The requests a rank made and those it still has to  *)
(* make are a plan, which a reduction ends; n says which one, and 4 that   *)
(* there is none left.  A block is what follows from a reduction, and a    *)
(* plan or a block is full when nothing went wrong.                        *)
AskedBy(n) == CASE n = 0 -> {} [] n = 1 -> {Clean(1)} [] n = 2 -> {Clean(1), Clean(2), Clean(4)}
             [] n > 2 -> DiagAsks

FitsIn(ask, n, m) ==
  /\ ask.mode # "reduce" => Asked(ask) \/ ask \in Warmups
  /\ ask.mode = "measure" => m = 4 /\ ~config.state_only
  /\ ask.mode = "diagnostic" => ask \in AskedBy(m) \ AskedBy(n)

Block(t, n, m) ==
  /\ IsList(t) /\ m \in 1..4 /\ n < m
  /\ \A i \in DOMAIN t : FitsIn(t[i], n, m) /\ (t[i].mode = "reduce" => m < 4 /\ i = Len(t))
  /\ m < 4 => Len(t) > 0 /\ t[Len(t)] = Reduce(m)
  /\ \A i, j \in DOMAIN t : t[i].mode = "diagnostic" /\ t[i] = t[j] => i = j

FullBlock(t, n, m) == AskedBy(m) \ AskedBy(n) \subseteq Elems(t) /\ (m = 4 => t = Measurements(Widths))

Plan(p, n) == Block(p, 0, n)

MeasuredLast(p) ==
  LET k == Len(p) - Len(Measurements(Widths)) IN
  /\ k >= 0
  /\ \A i \in DOMAIN p : IF i <= k THEN p[i].mode # "measure"
                         ELSE p[i] = Measurements(Widths)[i - k]

FullPlan(p, n) == AskedBy(n) \subseteq Elems(p) /\ (n = 4 => MeasuredLast(p))

Made(rs, ts) ==
  [i \in 1..(Len(rs) + Len(ts)) |->
     IF i <= Len(rs) THEN rs[i].ask ELSE ts[i - Len(rs)]]
PlanOf(r) == Made(rows[r], todo[r])

Planned(r, n) ==
  /\ Plan(PlanOf(r), n)
  /\ ~hit => FullPlan(PlanOf(r), n)
  /\ ~hit /\ n = 3 => eligible[r] = Widths

(* The rows of the reports, and the generation that is under way.          *)
GoodRow(row) ==
  /\ History(row)
  /\ row.ask.mode = "diagnostic" =>
       /\ ~row.twice /\ row.seen = Window /\ row.ask.width \in row.widths
       /\ row.broken = IF row.ask.n = -1 THEN <<>> ELSE << Rejected(row.ask) >>

RowsInv ==
  \A r \in Ranks : \A i \in DOMAIN rows[r] :
    /\ rows[r][i].ask.mode # "reduce"
    /\ ~hit /\ Judged(rows[r][i].ask) => GoodRow(rows[r][i])

InsideInv ==
  \A r \in Ranks : Inside(r) =>
    /\ todo[r] # <<>> /\ gen.ask = todo[r][1] /\ gen.ask.mode # "reduce"
    /\ GenTyped
    /\ ~hit /\ Judged(gen.ask) => Faultless

(* What went wrong is in sight: in a rank that stopped, in the generation  *)
(* or in a row that the validator refuses.                                 *)
Stopped(r) == pc[r] \in {"raised", "killed"}
Blamed ==
  \/ \E r \in Ranks : Stopped(r)
  \/ \E r \in Ranks : Inside(r) /\ Judged(gen.ask) /\ gen.failed
  \/ \E r \in Ranks : \E i \in DOMAIN rows[r] :
       Judged(rows[r][i].ask) /\ ~History(rows[r][i])

StatusInv ==
  \A r \in Ranks :
    /\ ~hit => ~Stopped(r)
    /\ pc[r] = "ended" => todo[r] = <<>> /\ (~hit => status[r] = "COMPLETE")
    /\ status[r] = "COMPLETE" => pc[r] = "ended"

Over == \A r \in Ranks : pc[r] \in {"ended", "raised", "killed"}

(* The inductive invariant of VerdictIsExact.                              *)
VerdictInv ==
  /\ hit \in BOOLEAN /\ status = [r \in Ranks |-> status[r]]
  /\ \A r \in Ranks : \E n \in 1..4 : Planned(r, n)
  /\ RowsInv /\ InsideInv /\ StatusInv
  /\ hit => Blamed
  /\ verdict # "none" => Over /\ VerdictIsExact
=============================================================================
