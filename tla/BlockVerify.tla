---------------------------- MODULE BlockVerify ----------------------------
(***************************************************************************)
(* The small-block gate: block_verify_experiment.py proposes the tokens of *)
(* a recorded answer (the oracle) as drafts, block_verify_runner.py runs   *)
(* the requests of the gate on two ranks and lets them agree which packet  *)
(* widths go on, validate-ds41-block-verify.py judges the two reports.     *)
(*                                                                         *)
(* A token is "o", the oracle's at its place, "c", the one a corruption    *)
(* puts there, or "x", another one.  The engine is external: it verifies   *)
(* the last token and the drafts in one packet, accepts the drafts that    *)
(* are its own choice and adds one token.  Both ranks sample from the same *)
(* gathered logits, so there is one generation for both.  `odd' counts     *)
(* what goes wrong: a token the target should not choose, a rank whose     *)
(* logits or counters are off, an exception, a kill.                       *)
(***************************************************************************)
EXTENDS Integers, Sequences, FiniteSets, SequencesExt, FiniteSetsExt

CONSTANTS
  Prompt,               \* tokens of the prompt, 35
  Oracle,               \* tokens of the recorded answer, 64
  Short,                \* tokens a measurement asks for, 32
  Activation,           \* tokens of answer before the first draft, 8
  Trials,               \* measurements of each width, 3
  MaxOdd                \* bound on what goes wrong in a behaviour

ASSUME BlockAssumption ==
  /\ {Prompt, Oracle, Short, Activation, Trials} \subseteq Nat \ {0}
  /\ MaxOdd \in Nat
  /\ Activation + 4 <= Short /\ Short <= Oracle
  /\ Activation + 7 <= Oracle    \* room for a full packet after a rejected one

Ranks == {0, 1}
Widths == {2, 4}

(* What a rank asks for: mode, width of the packets and, of a diagnostic,  *)
(* the draft to corrupt, of a measurement its trial, or -1.  A reduction   *)
(* over the ranks is written in the same way.                              *)
Ask(mode, width, n) == [mode |-> mode, width |-> width, n |-> n]
Reduce(n) == Ask("reduce", 0, n)

Cap(ask) == IF ask.mode = "measure" THEN Short ELSE Oracle
Corrupt(ask) == IF ask.mode = "diagnostic" THEN ask.n ELSE -1

VARIABLES
  config,               \* state_only and rowwise of the frozen configuration
  pc, todo,             \* rank -> where it is, what it still asks for
  switch, before,       \* rank -> DS41_..._ROWWISE, its value before a request
  patched,              \* rank -> the observer is installed
  gen,                  \* the generation, with what the observer records
  rows, status,         \* rank -> requests and status of its report
  eligible,             \* rank -> widths the ranks agreed on
  verdict,              \* of the validator
  odd, hit              \* what went wrong, outside a warmup

vars == <<config, pc, todo, switch, before, patched, gen, rows, status,
          eligible, verdict, odd, hit>>

-----------------------------------------------------------------------------
(* One packet and the drafts of the next one.                              *)

Started(ask) == [ask |-> ask, stream |-> <<>>, drafts |-> <<>>, failed |-> FALSE,
                 injected |-> FALSE, seen |-> {}, twice |-> FALSE, widths |-> {},
                 broken |-> <<>>, full |-> FALSE]
NoGen == Started(Reduce(0))

AllO(s) == \A i \in DOMAIN s : s[i] = "o"

(* Position of the first token of the next packet: that of the last token  *)
(* of the answer, or 0 for the prompt.                                     *)
Start == IF gen.stream = <<>> THEN 0 ELSE Prompt + Len(gen.stream) - 1
Active == Prompt + Activation - 1
Window == Active .. (Prompt + Oracle - 2)

(* What the target chooses after each token of the packet, when every      *)
(* token before is the oracle's; after another one it is no matter what.   *)
Choice ==
  [i \in 1..(Len(gen.drafts) + 1) |->
     IF AllO(gen.stream) /\ AllO(SubSeq(gen.drafts, 1, i - 1)) THEN "o" ELSE "x"]

Accepted(out) ==
  Max({n \in 0..Len(gen.drafts) : \A i \in 1..n : gen.drafts[i] = out[i]})

Offset(stream) == Prompt + Len(stream)

(* proposal_plan: `stream' has all tokens that were sampled, and those the *)
(* cap cuts off.  The row of the token after the drafts is reserved.       *)
Drafts(stream, failed, injected) ==
  LET room == Prompt + Oracle - Offset(stream) - 1
      k == IF Len(stream) >= Activation /\ ~failed
           THEN Min({gen.ask.width - 1, Max({0, room})}) ELSE 0
      ci == Corrupt(gen.ask) + 1
  IN  [i \in 1..k |-> IF i = ci /\ ~injected THEN "c" ELSE "o"]

(* StepObserver: what it keeps of a packet after whose tokens the target   *)
(* chooses `out'.  Only a diagnostic copies logits, and the rows behind a  *)
(* corrupted draft are not comparable.                                     *)
Observed(out) ==
  LET width == Len(gen.drafts) + 1
      sampled == Accepted(out) + 1
      stream == gen.stream \o SubSeq(out, 1, sampled)
      bad == {i \in DOMAIN gen.drafts : gen.drafts[i] # "o"}
      clean == IF bad = {} THEN width ELSE Min(bad)
      read == {p \in Window : Start <= p /\ p < Start + clean}
      copies == gen.ask.mode = "diagnostic"
  IN  [gen EXCEPT
         !.stream = stream,
         !.seen = IF copies THEN @ \cup read ELSE @,
         !.twice = @ \/ (copies /\ gen.seen \cap read # {}),
         !.widths = IF Start >= Active THEN @ \cup {width} ELSE @,
         !.broken = IF bad = {} THEN @
                    ELSE Append(@, [at |-> Start, bad |-> bad, width |-> width,
                                    sampled |-> sampled]),
         !.full = @ \/ (/\ Start >= Active /\ width = gen.ask.width
                       /\ sampled = width /\ Len(stream) <= Cap(gen.ask))]

(* Fault: it is forgotten that the corrupted draft was proposed.           *)
ProposedAgain(g) ==
  LET failed == g.failed \/ ~AllO(g.stream)
  IN  [g EXCEPT !.failed = failed, !.drafts = Drafts(g.stream, failed, FALSE)]

(* propose and truncate_draft_token_ids, at the end of the same step.      *)
Proposed(g) ==
  LET failed == g.failed \/ ~AllO(g.stream)
      drafts == Drafts(g.stream, failed, g.injected)
  IN  [g EXCEPT !.failed = failed, !.drafts = drafts,
                !.injected = @ \/ ~AllO(drafts)]

Answered == gen.ask.mode # "reduce" /\ Len(gen.stream) >= Cap(gen.ask)

Packet ==
  /\ \A r \in Ranks : pc[r] = "gen"
  /\ ~Answered
  /\ \E out \in {Choice} \cup {[Choice EXCEPT ![i] = t] :
                                 i \in DOMAIN Choice, t \in {"c", "x"}} :
       /\ out # Choice => odd < MaxOdd /\ AllO(gen.stream)
       /\ \A i \in DOMAIN out : out[i] # Choice[i] => Choice[i] = "o"
       /\ gen' = Proposed(Observed(out))
       /\ odd' = odd + (IF out = Choice THEN 0 ELSE 1)
       /\ hit' = (hit \/ (out # Choice /\ gen.ask.mode # "warmup"))
  /\ UNCHANGED <<config, pc, todo, switch, before, patched, rows, status,
                 eligible, verdict>>

-----------------------------------------------------------------------------
(* The validator: what it says of one report.                              *)

Clean(width) == Ask("diagnostic", width, -1)
Controls(width) == {Ask("diagnostic", width, n) :
                      n \in CASE width = 2 -> {0} [] width = 4 -> {0, 2}}

(* _step_history and, of a diagnostic, _read_request.                      *)
History(row) == row.exact /\ ~row.failed /\ row.full /\ ~row.off
Reads(row) == History(row) /\ ~row.twice /\ row.seen = Window

Diagnosed(r, ask) == \E i \in DOMAIN rows[r] :
  /\ rows[r][i].ask = ask
  /\ Reads(rows[r][i])
  /\ rows[r][i].broken = <<>>
  /\ ask.width \in rows[r][i].widths

WidthPasses(r, width) == Diagnosed(r, Clean(1)) /\ Diagnosed(r, Clean(width))

(* The corrupted draft was seen in one packet of full width, was rejected  *)
(* with those behind it, and the rows after it were computed again.        *)
ControlPasses(r, ask) == \E i \in DOMAIN rows[r] :
  LET row == rows[r][i] IN
  /\ row.ask = ask
  /\ Reads(row)
  /\ WidthPasses(r, ask.width)
  /\ Len(row.broken) = 1
  /\ LET b == row.broken[1] IN
     /\ b.bad = {ask.n + 1}
     /\ b.width = ask.width
     /\ b.sampled = ask.n + 1
     /\ b.at .. (b.at + ask.n) \subseteq row.seen
     /\ Cardinality({p \in row.seen : p > b.at + ask.n + 1}) >= 3

Order(widths) == <<1>> \o (IF 2 \in widths THEN <<2>> ELSE <<>>)
                       \o (IF 4 \in widths THEN <<4>> ELSE <<>>)
Measures(widths) ==
  LET n == Len(Order(widths))
      Width(t, i) == Order(widths)[IF t % 2 = 0 THEN n + 1 - i ELSE i]
  IN  [k \in 1..(Trials * n) |->
         LET t == (k - 1) \div n + 1
         IN  Ask("measure", Width(t, k - n * (t - 1)), t)]

(* The requests of a report that are measurements.                         *)
Taken(r) == {i \in DOMAIN rows[r] : rows[r][i].ask.mode = "measure"}

(* validate_documents.  The widths a measurement is due of are those that  *)
(* pass, but the report as a whole passes when all of them do.             *)
Passes(r) ==
  /\ status[r] = "COMPLETE"
  /\ \A w \in Widths : WidthPasses(r, w) /\ \A c \in Controls(w) : ControlPasses(r, c)
  /\ Cardinality(Taken(r)) = Len(Measures(Widths))
  /\ \A i \in Taken(r) :
       /\ rows[r][i].ask = Measures(Widths)[Cardinality({j \in Taken(r) : j <= i})]
       /\ History(rows[r][i])

Judge ==
  /\ verdict = "none"
  /\ \A r \in Ranks : pc[r] \in {"ended", "raised", "killed"}
  /\ verdict' = IF \A r \in Ranks : Passes(r) THEN "PASS" ELSE "FAIL"
  /\ UNCHANGED <<config, pc, todo, switch, before, patched, gen, rows, status,
                 eligible, odd, hit>>

-----------------------------------------------------------------------------
(* The runner of a rank.                                                   *)

Baseline == << Ask("warmup", 1, -1), Clean(1), Reduce(1) >>
Diagnostics == << Ask("warmup", 2, -1), Clean(2), Ask("warmup", 4, -1), Clean(4),
             Reduce(2) >>
ControlsOf(widths) ==
  (IF 2 \in widths THEN << Ask("diagnostic", 2, 0) >> ELSE <<>>)
  \o (IF 4 \in widths THEN << Ask("diagnostic", 4, 0), Ask("diagnostic", 4, 2) >> ELSE <<>>)
  \o (IF widths = {} THEN <<>> ELSE << Reduce(3) >>)
Measurements(widths) == IF config.state_only THEN <<>> ELSE Measures(widths)

Init ==
  /\ config \in [state_only : BOOLEAN, rowwise : BOOLEAN]
  /\ pc = [r \in Ranks |-> "new"]
  /\ todo = [r \in Ranks |-> Baseline]
  /\ switch \in [Ranks -> {"unset", "1"}]
  /\ before = switch
  /\ patched = [r \in Ranks |-> FALSE]
  /\ gen = NoGen
  /\ rows = [r \in Ranks |-> <<>>]
  /\ status = [r \in Ranks |-> "none"]
  /\ eligible = [r \in Ranks |-> {}]
  /\ verdict = "none"
  /\ odd = 0 /\ hit = FALSE

(* StepObserver(...): the hooks of a boundary diagnostic may raise after   *)
(* the engine's methods were replaced, and outside of run's try.           *)
Construct(r) ==
  /\ pc[r] = "new"
  /\ patched' = [patched EXCEPT ![r] = TRUE]
  /\ \/ pc' = [pc EXCEPT ![r] = "ready"] /\ UNCHANGED <<odd, hit>>
     \/ /\ odd < MaxOdd
        /\ odd' = odd + 1 /\ hit' = TRUE
        /\ pc' = [pc EXCEPT ![r] = "raised"]
  /\ UNCHANGED <<config, todo, switch, before, gen, rows, status, eligible,
                 verdict>>

(* request, up to the generation, in which the ranks need each other.      *)
Request ==
  /\ \A r \in Ranks : pc[r] = "ready" /\ todo[r] # <<>>
  /\ Head(todo[0]) = Head(todo[1])
  /\ LET ask == Head(todo[0]) IN
     /\ ask.mode # "reduce"
     /\ gen' = Started(ask)
     /\ before' = switch
     /\ switch' = [r \in Ranks |->
                     IF config.rowwise /\ ask.width > 1 THEN "1" ELSE "0"]
  /\ pc' = [r \in Ranks |-> "gen"]
  /\ UNCHANGED <<config, todo, patched, rows, status, eligible, verdict, odd,
                 hit>>

(* The finally of request.                                                 *)
Restored(r) == switch' = [switch EXCEPT ![r] = before[r]]

(* request, after the generation: the row and the report are written.      *)
Report(r) ==
  /\ pc[r] = "gen"
  /\ Answered
  /\ \E off \in BOOLEAN :
       /\ off => odd < MaxOdd
       /\ odd' = odd + (IF off THEN 1 ELSE 0)
       /\ hit' = (hit \/ (off /\ gen.ask.mode # "warmup"))
       /\ rows' = [rows EXCEPT ![r] = Append(@,
            [ask |-> gen.ask, exact |-> AllO(SubSeq(gen.stream, 1, Cap(gen.ask))),
             failed |-> gen.failed, full |-> gen.full, seen |-> gen.seen,
             twice |-> gen.twice, widths |-> gen.widths,
             broken |-> gen.broken, off |-> off])]
  /\ Restored(r)
  /\ status' = [status EXCEPT ![r] = "RUNNING"]
  /\ pc' = [pc EXCEPT ![r] = "ready"]
  /\ todo' = [todo EXCEPT ![r] = Tail(@)]
  /\ UNCHANGED <<config, before, patched, gen, eligible, verdict>>

(* baseline_ok: the first diagnostic answered what was recorded.           *)
Baselined(r) == \E i \in DOMAIN rows[r] : rows[r][i].ask = Clean(1) /\ rows[r][i].exact

(* Fault: the corrupted diagnostics are not looked at.                     *)
VoteClean(r, n) ==
  CASE n = 1 -> IF Baselined(r) THEN {1} ELSE {}
    [] n = 2 -> {w \in Widths : WidthPasses(r, w)}
    [] n = 3 -> eligible[r]

(* What rank r puts into a reduction, and what follows from its outcome.   *)
Vote(r, n) ==
  CASE n = 1 -> IF Baselined(r) THEN {1} ELSE {}
    [] n = 2 -> {w \in Widths : WidthPasses(r, w)}
    [] n = 3 -> {w \in eligible[r] : \A c \in Controls(w) : ControlPasses(r, c)}

After(n, agreed) ==
  CASE n = 1 -> IF agreed = {} THEN <<>> ELSE Diagnostics
    [] n = 2 -> ControlsOf(agreed) \o (IF agreed = {} THEN Measurements({}) ELSE <<>>)
    [] n = 3 -> Measurements(agreed)

(* Fault: a rank goes on with its own outcome.                             *)
AgreeAlone ==
  /\ \A r \in Ranks : pc[r] = "ready" /\ todo[r] # <<>>
  /\ Head(todo[0]) = Head(todo[1])
  /\ Head(todo[0]).mode = "reduce"
  /\ eligible' = [r \in Ranks |-> Vote(r, Head(todo[r]).n)]
  /\ todo' = [r \in Ranks |-> After(Head(todo[r]).n, Vote(r, Head(todo[r]).n))]
  /\ UNCHANGED <<config, pc, switch, before, patched, gen, rows, status,
                 verdict, odd, hit>>

Agree ==
  /\ \A r \in Ranks : pc[r] = "ready" /\ todo[r] # <<>>
  /\ Head(todo[0]) = Head(todo[1])
  /\ LET n == Head(todo[0]).n
         agreed == Vote(0, n) \cap Vote(1, n)
     IN
     /\ Head(todo[0]).mode = "reduce"
     /\ eligible' = [r \in Ranks |-> agreed]
     /\ todo' = [r \in Ranks |-> After(n, agreed)]
  /\ UNCHANGED <<config, pc, switch, before, patched, gen, rows, status,
                 verdict, odd, hit>>

(* The last save and the finally.                                          *)
Finish(r) ==
  /\ pc[r] = "ready" /\ todo[r] = <<>>
  /\ status' = [status EXCEPT ![r] =
       IF Baselined(r) THEN "COMPLETE" ELSE "BASELINE_REFERENCE_FAIL"]
  /\ patched' = [patched EXCEPT ![r] = FALSE]
  /\ pc' = [pc EXCEPT ![r] = "ended"]
  /\ UNCHANGED <<config, todo, switch, before, gen, rows, eligible, verdict,
                 odd, hit>>

(* An exception within run: the report says ERROR, when it can be written. *)
Raise(r) ==
  /\ pc[r] \in {"ready", "gen"}
  /\ odd < MaxOdd
  /\ odd' = odd + 1 /\ hit' = TRUE
  /\ \E said \in {"ERROR", status[r]} : status' = [status EXCEPT ![r] = said]
  /\ IF pc[r] = "gen" THEN Restored(r) ELSE UNCHANGED switch
  /\ patched' = [patched EXCEPT ![r] = FALSE]
  /\ pc' = [pc EXCEPT ![r] = "raised"]
  /\ UNCHANGED <<config, todo, before, gen, rows, eligible, verdict>>

(* The supervisor stops the pair; write_text may be cut short.             *)
Kill(r) ==
  /\ pc[r] \in {"new", "ready", "gen"}
  /\ odd < MaxOdd \/ \E s \in Ranks : pc[s] \in {"raised", "killed"}
  /\ odd' = IF odd < MaxOdd THEN odd + 1 ELSE odd
  /\ hit' = TRUE
  /\ \E said \in {"TORN", status[r]} : status' = [status EXCEPT ![r] = said]
  /\ pc' = [pc EXCEPT ![r] = "killed"]
  /\ UNCHANGED <<config, todo, switch, before, patched, gen, rows, eligible,
                 verdict>>

Next ==
  \/ Request \/ Packet \/ Agree \/ Judge
  \/ \E r \in Ranks : \/ Construct(r) \/ Report(r) \/ Finish(r)
                      \/ Raise(r) \/ Kill(r)

Spec == Init /\ [][Next]_vars

-----------------------------------------------------------------------------
(* The collectives of the two ranks are the same ones in the same order    *)
(* (run: "All ranks must agree on branch selection before a                *)
(* collective-bearing request"): two ranks that wait ask for the same, and *)
(* neither has ended while the other still has something to ask.           *)
SameCollectives ==
  \A r, s \in Ranks : pc[r] = "ready" =>
    /\ pc[s] = "ready" => todo[s] = todo[r]
    /\ pc[s] = "ended" => todo[r] = <<>>

(* A width is measured only after its clean and its corrupted diagnostics  *)
(* passed on both ranks (validate_documents: "measurement taken despite    *)
(* failed width/state gate").                                              *)
MeasuredPassedTheGate ==
  \A r, s \in Ranks : \A i \in DOMAIN rows[r] :
    LET ask == rows[r][i].ask IN
    ask.mode = "measure" /\ ask.width > 1 =>
      /\ WidthPasses(s, ask.width)
      /\ \A c \in Controls(ask.width) : ControlPasses(s, c)

(* The verdict is exact: the reports pass if and only if measurements were *)
(* asked for and nothing went wrong outside of a warmup.  In particular a  *)
(* faithful target passes every control, and a wrong token, a rank that is *)
(* off or an exception is never judged a pass.                             *)
VerdictIsExact ==
  verdict # "none" => (verdict = "PASS" <=> ~hit /\ ~config.state_only)
=============================================================================
