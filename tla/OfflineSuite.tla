---------------------------- MODULE OfflineSuite ----------------------------
(***************************************************************************)
(* offline_spmd.py: two ranks load one model each, run the same fixed      *)
(* sequence of generations in lockstep and checkpoint their rows into a    *)
(* file of their own; the scripts validate-ds41-*.py judge the two files.  *)
(* A generation is collective: it happens when both ranks ask for the same *)
(* one.  Everything between two generations is local to a rank, and a rank *)
(* may raise or be killed anywhere.  The answer of a request is one of two *)
(* token streams: "t", which passes the content gate, and "u".             *)
(***************************************************************************)
EXTENDS Naturals, Sequences, SequencesExt, FiniteSets

CONSTANTS
  Attempts,             \* directories of results
  Schedules             \* launches to make: sequences of [at, spec]

Ranks == {0, 1}

(* The keys of prompt-tokens.json that say what to run.                    *)
ABs == {"native", "mhc", "projection", "wob"}
Observed == {"fault", "advice"}
Arms == {"m1", "dspark"}
Keys == ABs \cup Observed \cup Arms
          \cup {"block", "optimization", "profile", "capture", "text", "skip"}

ASSUME SchedulesAssumption ==
  Schedules \subseteq Seq([at : Attempts, spec : SUBSET Keys])

VARIABLES
  schedule,             \* launches still to make
  now,                  \* the launch that runs: attempt, spec, epoch
  pc, at,               \* rank -> where it is, the step it is at
  switch,               \* rank -> the candidate is switched on
  stats,                \* rank -> counters of the candidate's kernel
  reset,                \* rank -> the counters were reset
  token,                \* rank -> the answer it holds
  rows,                 \* rank -> results
  file,                 \* attempt -> rank -> its result file
  copy,                 \* attempt -> the copy of rank 1's file at rank 0
  capable,              \* rank -> the kernel accepts this rank's tensors
  odd                   \* an unexpected answer was seen

vars == <<schedule, now, pc, at, switch, stats, reset, token, rows, file,
          copy, capable, odd>>

-----------------------------------------------------------------------------
(* What a launch runs.                                                     *)

Conflict(spec) ==
  \/ "block" \in spec /\ spec \cap (ABs \cup Observed \cup {"profile"}) # {}
  \/ spec \cap Arms # {}
       /\ spec \cap (ABs \cup Observed \cup {"block", "profile"}) # {}
  \/ Observed \subseteq spec
  \/ spec \cap Observed # {} /\ spec \cap ABs # {}
  \/ "wob" \in spec /\ spec \cap (ABs \ {"wob"}) # {}
  \/ Arms \subseteq spec

Mode(spec) ==
  LET order == <<"block", "m1", "dspark", "advice", "fault", "wob",
                 "projection", "mhc", "native", "optimization", "profile">>
      given == {i \in DOMAIN order : order[i] \in spec}
  IN  IF given = {} THEN "suite"
      ELSE order[CHOOSE i \in given : \A j \in given : i <= j]

(* A step: its label, whether it is of the candidate, whether the switch   *)
(* is set before it and cleared after it, and whether it is checkpointed.  *)
Step(cand, task, n) ==
  [label |-> <<cand, task, n>>, cand |-> cand, sets |-> TRUE,
   clears |-> FALSE, saves |-> TRUE]
Kept(step) == [step EXCEPT !.sets = FALSE]

Quality(cand, tasks) == [i \in DOMAIN tasks |-> Kept(Step(cand, tasks[i], 0))]
Tasks == <<"smoke", "coding", "json", "reasoning">>

(* The second setting in a row of the optimization's switch is left out.   *)
TwoPairs ==
  << Step(FALSE, "warmup", 0), Kept(Step(FALSE, "speed", 1)),
     Step(TRUE, "warmup", 0), Kept(Step(TRUE, "speed", 1)),
     Step(FALSE, "speed", 2), Step(TRUE, "speed", 2) >>

(* Fault: the last pair in the order of the second one.                    *)
ThreePairsSwapped ==
  << Step(FALSE, "warmup", 0), Step(TRUE, "warmup", 0),
     Step(FALSE, "speed", 1), Step(TRUE, "speed", 1), Step(TRUE, "speed", 2),
     Step(FALSE, "speed", 2), Step(TRUE, "speed", 3), Step(FALSE, "speed", 3) >>

ThreePairs ==
  << Step(FALSE, "warmup", 0), Step(TRUE, "warmup", 0),
     Step(FALSE, "speed", 1), Step(TRUE, "speed", 1), Step(TRUE, "speed", 2),
     Step(FALSE, "speed", 2), Step(FALSE, "speed", 3), Step(TRUE, "speed", 3) >>

WobProgram == ThreePairs \o [i \in DOMAIN Tasks |-> Step(TRUE, Tasks[i], 0)]
ProjectionProgram == ThreePairs \o Quality(TRUE, Tasks)
MhcProgram == TwoPairs \o Quality(TRUE, Tasks)
NativeProgram == TwoPairs \o Quality(TRUE, Tasks)
OptimizationProgram == TwoPairs \o Quality(TRUE, <<"smoke", "coding", "json">>)

(* engram_advice_experiment.py: prepare_embedding sets the policy of an    *)
(* arm; the quality part sets it once for each arm.                        *)
AdviceArm(cand, n) ==
  <<Step(cand, "warmup", n)>>
    \o [i \in 1..4 |-> Kept(Step(cand, <<"Pfirst", "Prepeat", "Qnew", "Qrepeat">>[i], n))]
AdviceQuality(cand) ==
  [i \in DOMAIN Tasks |-> [Step(cand, Tasks[i], 0) EXCEPT !.sets = i = 1]]
AdviceProgram ==
  AdviceArm(FALSE, 1) \o AdviceArm(TRUE, 1) \o AdviceArm(TRUE, 2)
    \o AdviceArm(FALSE, 2) \o AdviceArm(FALSE, 3) \o AdviceArm(TRUE, 3)
    \o AdviceQuality(FALSE) \o AdviceQuality(TRUE)

DsparkProgram(cand, text) ==
  LET tasks == <<"warmup", "functional">>
      more == <<"smoke", "coding">> \o (IF text THEN <<"text">> ELSE <<>>)
                \o <<"json", "reasoning">>
  IN  Quality(cand, tasks)
        \o [n \in 1..3 |-> Kept(Step(cand, "speed", n))] \o Quality(cand, more)

(* The control after the diagnostic is not checkpointed.                   *)
FaultProgram ==
  [i \in 1..7 |->
     [Kept(Step(FALSE, <<"warmup", "P1", "P2", "Q1", "Q2", "P3", "control">>[i], 0))
        EXCEPT !.saves = i < 7]]

Instrumented(step) == [step EXCEPT !.clears = TRUE]
ProfileProgram(spec) ==
  << Kept(Step(FALSE, "warmup", 0)), Kept(Step(FALSE, "plain", 0)),
     Instrumented(Step(TRUE, "instrumented", 0)) >>
    \o (IF "capture" \in spec
        THEN <<Instrumented(Step(TRUE, "capture", 0))>> ELSE <<>>)
    \o (IF "skip" \in spec
        THEN <<>> ELSE <<Kept(Step(FALSE, "reasoning", 0))>>)

SuiteProgram ==
  Quality(FALSE, <<"forward", "smoke", "warmup">>)
    \o [n \in 1..3 |-> Kept(Step(FALSE, "speed", n))]
    \o Quality(FALSE, <<"coding", "reasoning", "json">>)

(* A block-verify run has a program of its own (block_verify_runner.py).   *)
Program(mode, spec) ==
  CASE mode = "block" -> <<>>
    [] mode = "m1" -> DsparkProgram(FALSE, "text" \in spec)
    [] mode = "dspark" -> DsparkProgram(TRUE, "text" \in spec)
    [] mode = "advice" -> AdviceProgram
    [] mode = "fault" -> FaultProgram
    [] mode = "wob" -> WobProgram
    [] mode = "projection" -> ProjectionProgram
    [] mode = "mhc" -> MhcProgram
    [] mode = "native" -> NativeProgram
    [] mode = "optimization" -> OptimizationProgram
    [] mode = "profile" -> ProfileProgram(spec)
    [] OTHER -> SuiteProgram

Labels(f) == [i \in DOMAIN f.rows |-> f.rows[i].label]
WobLabels == [i \in DOMAIN WobProgram |-> WobProgram[i].label]
AdviceLabels == [i \in DOMAIN AdviceProgram |-> AdviceProgram[i].label]

-----------------------------------------------------------------------------
NoFile == [status |-> "none", mode |-> "none", epoch |-> 0, rows |-> <<>>,
           stats |-> [ran |-> FALSE, prefill |-> FALSE, other |-> FALSE]]
NoStats == NoFile.stats
NoLaunch == [at |-> "none", spec |-> {}, mode |-> "suite", epoch |-> 0]

Init ==
  /\ schedule \in Schedules /\ now = NoLaunch
  /\ pc = [r \in Ranks |-> "ended"] /\ at = [r \in Ranks |-> 1]
  /\ switch = [r \in Ranks |-> FALSE] /\ reset = [r \in Ranks |-> FALSE]
  /\ stats = [r \in Ranks |-> NoStats] /\ token = [r \in Ranks |-> "t"]
  /\ rows = [r \in Ranks |-> <<>>]
  /\ file = [a \in Attempts |-> [r \in Ranks |-> NoFile]]
  /\ copy = [a \in Attempts |-> NoFile]
  /\ capable = [r \in Ranks |-> TRUE] /\ odd = FALSE

Ended(r) == pc[r] = "ended"
disk == <<schedule, now, file, copy, capable>>

Launch ==
  /\ schedule # <<>> /\ \A r \in Ranks : Ended(r)
  /\ schedule' = Tail(schedule)
  /\ now' = [at |-> Head(schedule).at, spec |-> Head(schedule).spec,
             mode |-> Mode(Head(schedule).spec), epoch |-> now.epoch + 1]
  /\ pc' = [r \in Ranks |-> "load"] /\ at' = [r \in Ranks |-> 1]
  /\ switch' = [r \in Ranks |-> FALSE] /\ reset' = [r \in Ranks |-> FALSE]
  /\ stats' = [r \in Ranks |-> NoStats] /\ token' = [r \in Ranks |-> "t"]
  /\ rows' = [r \in Ranks |-> <<>>]
  /\ UNCHANGED <<file, copy, capable, odd>>

(* main up to the engine: the configuration is refused, or the switches of *)
(* the arm are set.                                                        *)
Load(r) ==
  /\ pc[r] = "load"
  /\ pc' = [pc EXCEPT ![r] = IF Conflict(now.spec) THEN "ended" ELSE "join"]
  /\ switch' = [switch EXCEPT ![r] = now.mode = "dspark"]
  /\ UNCHANGED <<disk, at, stats, reset, token, rows, odd>>

(* LLM(...): the ranks form one tensor-parallel group.  What was loaded    *)
(* decides whether the kernel of an A/B experiment takes a rank's tensors. *)
Join ==
  /\ \A r \in Ranks : pc[r] = "join"
  /\ pc' = [r \in Ranks |-> "ready"]
  /\ capable' \in [Ranks -> IF now.mode \in ABs THEN BOOLEAN ELSE {TRUE}]
  /\ UNCHANGED <<schedule, now, file, copy, at, switch, stats, reset, token,
                 rows, odd>>

StepOf(r) == Program(now.mode, now.spec)[at[r]]

(* The suite goes on after the smoke test only when this rank's is right.  *)
SmokeFailed(r) ==
  now.mode = "suite" /\ at[r] = 3 /\ rows[r][2].token # "t"

(* set_arm and its kin: who resets the counters when.                      *)
Resets(r) ==
  /\ StepOf(r).sets
  /\ \/ now.mode = "wob"
     \/ now.mode \in {"projection", "mhc"} /\ StepOf(r).cand /\ ~reset[r]

Ask(r) ==
  /\ pc[r] = "ready" /\ at[r] <= Len(Program(now.mode, now.spec)) /\ ~SmokeFailed(r)
  /\ pc' = [pc EXCEPT ![r] = "asked"]
  /\ switch' = IF StepOf(r).sets
               THEN [switch EXCEPT ![r] = StepOf(r).cand] ELSE switch
  /\ IF Resets(r)
     THEN stats' = [stats EXCEPT ![r] = NoStats] /\ reset' = [reset EXCEPT ![r] = TRUE]
     ELSE UNCHANGED <<stats, reset>>
  /\ UNCHANGED <<disk, at, token, rows, odd>>

(* The kernels leave a prompt, more than one token, to the old path.       *)
Runs(r) == switch[r] /\ capable[r]
Counted(r) ==
  IF switch[r]
  THEN [ran |-> stats[r].ran \/ Runs(r), prefill |-> TRUE,
        other |-> stats[r].other \/ ~Runs(r)]
  ELSE stats[r]

(* run_generation: the same request on both ranks.  The content of one     *)
(* answer may be wrong, or the ranks may come to differ.                   *)
Generate ==
  /\ \A r \in Ranks : pc[r] = "asked"
  /\ at[0] = at[1]
  /\ pc' = [r \in Ranks |-> "answered"]
  /\ \E answer \in [Ranks -> {"t", "u"}] :
       LET unexpected == answer # [r \in Ranks |-> "t"]
       IN  /\ unexpected => ~odd
           /\ token' = answer /\ odd' = (odd \/ unexpected)
  /\ stats' = [r \in Ranks |-> Counted(r)]
  /\ UNCHANGED <<disk, at, switch, reset, rows>>

Document(r, status, results) ==
  [status |-> status, mode |-> now.mode, epoch |-> now.epoch,
   rows |-> results, stats |-> stats[r]]
Written(r, f) == file' = [file EXCEPT ![now.at][r] = f]

(* The row of an answer, and the checkpoint, which replaces the file of an *)
(* earlier launch.                                                         *)
RecordIf(r, saved) ==
  /\ pc[r] = "answered"
  /\ LET row == [label |-> StepOf(r).label, token |-> token[r],
                 ran |-> Runs(r), stats |-> stats[r], on |-> switch[r]]
     IN  /\ rows' = [rows EXCEPT ![r] = Append(@, row)]
         /\ IF saved THEN Written(r, Document(r, "running", rows'[r]))
            ELSE UNCHANGED file
  /\ at' = [at EXCEPT ![r] = @ + 1] /\ pc' = [pc EXCEPT ![r] = "ready"]
  /\ switch' = IF StepOf(r).clears THEN [switch EXCEPT ![r] = FALSE] ELSE switch
  /\ token' = [token EXCEPT ![r] = "t"]
  /\ UNCHANGED <<schedule, now, copy, capable, stats, reset, odd>>

(* Faults: a checkpoint of every other row, and none before the end.       *)
RecordEveryOther(r) == RecordIf(r, at[r] % 2 = 0)
RecordUnsaved(r) == RecordIf(r, FALSE)

Record(r) == RecordIf(r, StepOf(r).saves)

Finish(r) ==
  /\ pc[r] = "ready"
  /\ \/ at[r] > Len(Program(now.mode, now.spec))
     \/ SmokeFailed(r)
  /\ Written(r, Document(r, IF SmokeFailed(r) THEN "smoke_fail" ELSE "complete",
                         rows[r]))
  /\ pc' = [pc EXCEPT ![r] = "ended"]
  /\ UNCHANGED <<schedule, now, copy, capable, at, switch, stats, reset, token,
                 rows, odd>>

Crash(r) ==
  /\ ~Ended(r) /\ pc' = [pc EXCEPT ![r] = "ended"]
  /\ UNCHANGED <<disk, at, switch, stats, reset, token, rows, odd>>

(* Fault: the pair is stopped only when nobody runs any more.              *)
SuperviseLast ==
  /\ \A r \in Ranks : Ended(r)
  /\ UNCHANGED vars

(* supervise-ds41-offline-attempt.sh: a rank that is not active any more,  *)
(* or the end of the time allowed, stops the pair.                         *)
Supervise ==
  /\ \E r \in Ranks : Ended(r)
  /\ \E r \in Ranks : ~Ended(r)
  /\ pc' = [r \in Ranks |-> "ended"]
  /\ UNCHANGED <<disk, at, switch, stats, reset, token, rows, odd>>

(* The operator fetches rank 1's file to where the validators run.         *)
Fetch(a) ==
  /\ \A r \in Ranks : Ended(r)
  /\ copy[a] # file[a][1] /\ copy' = [copy EXCEPT ![a] = file[a][1]]
  /\ UNCHANGED <<schedule, now, file, capable, pc, at, switch, stats, reset,
                 token, rows, odd>>

-----------------------------------------------------------------------------
RankStep(r) == Load(r) \/ Ask(r) \/ Record(r) \/ Finish(r)
Collective == Join \/ Generate

Next ==
  \/ Launch \/ Collective \/ Supervise
  \/ \E r \in Ranks : RankStep(r) \/ Crash(r)
  \/ \E a \in Attempts : Fetch(a)

Spec == Init /\ [][Next]_vars

-----------------------------------------------------------------------------
(* The validators read f, rank 0's file, and g, the copy of rank 1's.      *)

RowOf(f, label) == f.rows[CHOOSE i \in DOMAIN f.rows : f.rows[i].label = label]
Has(f, label) == \E i \in DOMAIN f.rows : f.rows[i].label = label
Passed(f, label) == Has(f, label) /\ RowOf(f, label).token = "t"

(* rank_identity: over the labels of either file.                          *)
SameTokens(f, g) ==
  \A label \in Range(Labels(f)) \cup Range(Labels(g)) :
    /\ Has(f, label) /\ Has(g, label)
    /\ RowOf(f, label).token = RowOf(g, label).token

BothOf(f, g, mode) == f.mode = mode /\ g.mode = mode
BothComplete(f, g) == f.status = "complete" /\ g.status = "complete"
QualityPasses(f, cand, tasks) ==
  \A i \in DOMAIN tasks : Passed(f, <<cand, tasks[i], 0>>)
HasSpeed(f, n) ==
  \A cand \in BOOLEAN, k \in 1..n : Has(f, <<cand, "speed", k>>)

(* execution_pass: the kernel took calls, and left prompts alone.          *)
Executed(f) == f.stats.ran /\ f.stats.prefill

TwoPairsPass(f, g, mode) ==
  /\ BothOf(f, g, mode) /\ HasSpeed(f, 2) /\ BothComplete(f, g)
  /\ SameTokens(f, g) /\ QualityPasses(f, TRUE, Tasks)
  /\ Executed(f) /\ Executed(g)

(* validate-ds41-native-hip-ab.py, -mhc-ab.py and -projection-rms-ab.py    *)
NativePasses(f, g) == TwoPairsPass(f, g, "native")
MhcPasses(f, g) == TwoPairsPass(f, g, "mhc")
ProjectionPasses(f, g) ==
  /\ BothOf(f, g, "projection") /\ HasSpeed(f, 3) /\ BothComplete(f, g)
  /\ SameTokens(f, g) /\ QualityPasses(f, TRUE, Tasks)
  /\ Executed(f) /\ Executed(g)

(* validate-ds41-wob-ab.py judges every row of both ranks.                 *)
WobRow(row) ==
  /\ row.on = row.label[1]
  /\ IF row.label[1]
     THEN row.stats.ran /\ row.stats.prefill /\ ~row.stats.other
     ELSE row.stats = NoStats

WobPasses(f, g) ==
  /\ BothOf(f, g, "wob") /\ BothComplete(f, g)
  /\ \A h \in {f, g} :
       /\ Labels(h) = WobLabels
       /\ \A i \in DOMAIN h.rows : WobRow(h.rows[i])
       /\ QualityPasses(h, TRUE, Tasks)
  /\ SameTokens(f, g)

OptimizationPasses(f, g) ==
  /\ BothOf(f, g, "optimization") /\ HasSpeed(f, 2) /\ BothComplete(f, g)
  /\ SameTokens(f, g)
  /\ \A cand \in BOOLEAN, n \in 1..2 :
       RowOf(f, <<cand, "speed", n>>).token = RowOf(f, <<FALSE, "speed", 1>>).token
  /\ QualityPasses(f, TRUE, <<"smoke", "coding", "json">>)

(* validate-ds41-engram-advice.py: also one epoch, and equal streams: of   *)
(* one prompt there, of all here, whose right answers are one kind.        *)
AdvicePasses(f, g) ==
  /\ BothOf(f, g, "advice") /\ BothComplete(f, g)
  /\ f.epoch = g.epoch
  /\ \A h \in {f, g} :
       /\ Labels(h) = AdviceLabels
       /\ \A i, j \in DOMAIN h.rows : h.rows[i].token = h.rows[j].token
       /\ \A i \in DOMAIN h.rows : h.rows[i].on = h.rows[i].label[1]
       /\ \A cand \in BOOLEAN : QualityPasses(h, cand, Tasks)
  /\ SameTokens(f, g)

(* validate-ds41-offline-suite.py looks at no status.                      *)
SuitePasses(f, g) ==
  /\ BothOf(f, g, "suite") /\ SameTokens(f, g)
  /\ QualityPasses(f, FALSE, <<"smoke", "reasoning", "json", "coding">>)

(* validate-ds41-dspark-*.py: an attempt of each arm, compared row by row. *)
DsparkTasks ==
  {<<"warmup", 0>>, <<"functional", 0>>, <<"speed", 1>>, <<"speed", 2>>,
   <<"speed", 3>>, <<"smoke", 0>>, <<"coding", 0>>, <<"json", 0>>,
   <<"reasoning", 0>>}
DsparkPasses(f, g, cand) ==
  /\ BothOf(f, g, IF cand THEN "dspark" ELSE "m1")
  /\ \A task \in DsparkTasks :
       LET label == <<cand>> \o task
       IN  /\ Has(f, label) /\ Has(g, label)
           /\ RowOf(f, label).token = RowOf(g, label).token
  /\ QualityPasses(f, cand, Tasks)

(* The comparisons of numbers of drafts also want the long text.           *)
WidthsPass(f, g) ==
  /\ DsparkPasses(f, g, TRUE)
  /\ LET text == <<TRUE, "text", 0>>
     IN  Has(f, text) /\ Has(g, text) /\ RowOf(f, text).token = RowOf(g, text).token

Passes(f, g) ==
  \/ NativePasses(f, g) \/ MhcPasses(f, g)
  \/ ProjectionPasses(f, g) \/ WobPasses(f, g) \/ OptimizationPasses(f, g)
  \/ AdvicePasses(f, g) \/ SuitePasses(f, g)
  \/ WidthsPass(f, g) \/ \E cand \in BOOLEAN : DsparkPasses(f, g, cand)

-----------------------------------------------------------------------------
Stats == [ran : BOOLEAN, prefill : BOOLEAN, other : BOOLEAN]
Modes == {"block", "m1", "dspark", "advice", "fault", "wob", "projection", "mhc",
          "native", "optimization", "profile", "suite"}
Labelled ==
  {"forward", "smoke", "warmup", "speed", "coding", "json", "reasoning", "text",
   "functional", "plain", "instrumented", "capture", "Pfirst", "Prepeat", "Qnew",
   "Qrepeat", "P1", "P2", "P3", "Q1", "Q2", "control"}
LabelSet == BOOLEAN \X Labelled \X Nat
Results == Seq([label : LabelSet, token : {"t", "u"}, ran : BOOLEAN,
                stats : Stats, on : BOOLEAN])
Files == [status : {"none", "running", "complete", "smoke_fail"},
          mode : Modes \cup {"none"}, epoch : Nat, rows : Results, stats : Stats]

(* Every variable stays within the values the program gives it.            *)
TypeOK ==
  /\ schedule \in Seq([at : Attempts, spec : SUBSET Keys])
  /\ now \in [at : Attempts \cup {"none"}, spec : SUBSET Keys, mode : Modes,
              epoch : Nat]
  /\ pc \in [Ranks -> {"load", "join", "ready", "asked", "answered", "ended"}]
  /\ at \in [Ranks -> Nat \ {0}]
  /\ switch \in [Ranks -> BOOLEAN] /\ reset \in [Ranks -> BOOLEAN]
  /\ stats \in [Ranks -> Stats] /\ token \in [Ranks -> {"t", "u"}]
  /\ rows \in [Ranks -> Results]
  /\ file \in [Attempts -> [Ranks -> Files]] /\ copy \in [Attempts -> Files]
  /\ capable \in [Ranks -> BOOLEAN] /\ odd \in BOOLEAN

(* However the ranks interleave and whoever dies, the files of one launch  *)
(* tell the same story: same requests in the same order, one row apart at  *)
(* the most.                                                               *)
FilesInStep ==
  \A a \in Attempts :
    LET f == file[a][0]
        g == file[a][1]
    IN  f.epoch = g.epoch =>
          /\ Len(f.rows) <= Len(g.rows) + 1 /\ Len(g.rows) <= Len(f.rows) + 1
          /\ IsPrefix(Labels(f), Labels(g)) \/ IsPrefix(Labels(g), Labels(f))

(* What a validator passes is one launch on both ranks, never rows of a    *)
(* launch that died mixed with those of another, when the copy of rank 1's *)
(* file is up to date.  Only the advice validator compares the epochs.     *)
PassIsOneLaunch ==
  \A a \in Attempts :
    Passes(file[a][0], file[a][1]) => file[a][0].epoch = file[a][1].epoch

(* A candidate that passes was run: every row of it by its kernel on both  *)
(* ranks, and no row of the baseline.                                      *)
PassMeansDispatched ==
  \A a \in Attempts :
    Passes(file[a][0], copy[a]) =>
      \A f \in {file[a][0], copy[a]} : \A i \in DOMAIN f.rows :
        f.rows[i].ran = f.rows[i].label[1]

(* No launch hangs: while a rank runs, something other than a crash can    *)
(* happen, although the other rank may have died, or left the suite by     *)
(* itself, while this one waits for it in a collective.                    *)
NobodyStranded ==
  (\E r \in Ranks : ~Ended(r)) =>
    \/ ENABLED Collective \/ ENABLED Supervise
    \/ \E r \in Ranks : ENABLED RankStep(r)
=============================================================================
