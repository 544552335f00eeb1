------------------------- MODULE OfflineSuiteProofs -------------------------
(***************************************************************************)
(* Proofs about OfflineSuite, for any number of launches into any number   *)
(* of directories: its types, that the two files of a launch tell one      *)
(* story, and that what a validator passes is one launch whose candidate   *)
(* was run.                                                                *)
(***************************************************************************)
EXTENDS OfflineSuite, SequenceTheorems, TLAPS

(* The steps of a program, and those that are checkpointed.                *)
Steps == [label : LabelSet, cand : BOOLEAN, sets : BOOLEAN, clears : BOOLEAN,
          saves : BOOLEAN]
Saving == [label : LabelSet, cand : BOOLEAN, sets : BOOLEAN, clears : BOOLEAN,
           saves : {TRUE}]

LEMMA StepType ==
  ASSUME NEW cand \in BOOLEAN, NEW task \in Labelled, NEW n \in Nat
  PROVE  Step(cand, task, n) \in Saving /\ Kept(Step(cand, task, n)) \in Saving
BY DEF Step, Kept, Saving, LabelSet

LEMMA InstrumentedType ==
  ASSUME NEW s \in Saving PROVE Instrumented(s) \in Saving
BY DEF Instrumented, Saving

LEMMA One == ASSUME NEW S, NEW a \in S PROVE <<a>> \in Seq(S)
OBVIOUS
LEMMA Two == ASSUME NEW S, NEW a \in S, NEW b \in S PROVE <<a, b>> \in Seq(S)
OBVIOUS
LEMMA Three ==
  ASSUME NEW S, NEW a \in S, NEW b \in S, NEW c \in S PROVE <<a, b, c>> \in Seq(S)
OBVIOUS
LEMMA Joined ==
  ASSUME NEW S, NEW p \in Seq(S), NEW q \in Seq(S) PROVE p \o q \in Seq(S)
OBVIOUS
LEMMA Six ==
  ASSUME NEW S, NEW a \in S, NEW b \in S, NEW c \in S, NEW d \in S, NEW e \in S,
         NEW f \in S
  PROVE  <<a, b, c, d, e, f>> \in Seq(S)
OBVIOUS
LEMMA Eight ==
  ASSUME NEW S, NEW a \in S, NEW b \in S, NEW c \in S, NEW d \in S, NEW e \in S,
         NEW f \in S, NEW g \in S, NEW h \in S
  PROVE  <<a, b, c, d, e, f, g, h>> \in Seq(S)
OBVIOUS
LEMMA Names == \A task \in {"forward", "smoke", "warmup", "speed", "coding", "json",
   "reasoning", "text", "functional", "plain", "instrumented", "capture", "Pfirst",
   "Prepeat", "Qnew", "Qrepeat", "P1", "P2", "P3", "Q1", "Q2", "control"} :
  task \in Labelled
BY DEF Labelled

LEMMA QualityType ==
  ASSUME NEW cand \in BOOLEAN, NEW tasks \in Seq(Labelled)
  PROVE  Quality(cand, tasks) \in Seq(Saving)
<1>1. \A i \in 1..Len(tasks) : Kept(Step(cand, tasks[i], 0)) \in Saving
  BY StepType
<1>2. Quality(cand, tasks) = [i \in 1..Len(tasks) |-> Kept(Step(cand, tasks[i], 0))]
  BY DEF Quality
<1> QED BY <1>1, <1>2

LEMMA TasksType == Tasks \in Seq(Labelled) /\ DOMAIN Tasks = 1..4
BY DEF Tasks, Labelled

LEMMA TasksRun ==
  ASSUME NEW cand \in BOOLEAN
  PROVE  [i \in DOMAIN Tasks |-> Step(cand, Tasks[i], 0)] \in Seq(Saving)
<1>1. \A i \in 1..4 : Tasks[i] \in Labelled
  BY DEF Tasks, Labelled
<1>2. \A i \in 1..4 : Step(cand, Tasks[i], 0) \in Saving
  BY <1>1, StepType
<1> QED BY <1>2, TasksType

LEMMA SpeedRuns ==
  ASSUME NEW cand \in BOOLEAN
  PROVE  [n \in 1..3 |-> Kept(Step(cand, "speed", n))] \in Seq(Saving)
<1>1. \A n \in 1..3 : Kept(Step(cand, "speed", n)) \in Saving
  BY StepType, Names
<1> QED BY <1>1

LEMMA PairsType == TwoPairs \in Seq(Saving) /\ ThreePairs \in Seq(Saving)
<1>1. \A c \in BOOLEAN : \A n \in Nat :
        /\ Step(c, "warmup", n) \in Saving /\ Step(c, "speed", n) \in Saving
        /\ Kept(Step(c, "speed", n)) \in Saving
  BY StepType, Names
<1>2. \A c \in BOOLEAN : Step(c, "warmup", 0) \in Saving
  BY <1>1
<1>3. \A c \in BOOLEAN : Kept(Step(c, "speed", 1)) \in Saving
  BY <1>1
<1>4. \A c \in BOOLEAN : /\ Step(c, "speed", 1) \in Saving
                         /\ Step(c, "speed", 2) \in Saving
                         /\ Step(c, "speed", 3) \in Saving
  BY <1>1
<1>5. TwoPairs \in Seq(Saving)
  <2>1. << Step(FALSE, "warmup", 0), Kept(Step(FALSE, "speed", 1)),
           Step(TRUE, "warmup", 0), Kept(Step(TRUE, "speed", 1)),
           Step(FALSE, "speed", 2), Step(TRUE, "speed", 2) >> \in Seq(Saving)
    BY <1>2, <1>3, <1>4, Six
  <2> QED BY <2>1 DEF TwoPairs
<1>6. ThreePairs \in Seq(Saving)
  BY <1>2, <1>4, Eight DEF ThreePairs
<1> QED BY <1>5, <1>6

LEMMA SixPrograms ==
  /\ WobProgram \in Seq(Saving) /\ ProjectionProgram \in Seq(Saving)
  /\ MhcProgram \in Seq(Saving) /\ NativeProgram \in Seq(Saving)
  /\ OptimizationProgram \in Seq(Saving) /\ SuiteProgram \in Seq(Saving)
<1>1. Quality(TRUE, Tasks) \in Seq(Saving)
  BY TasksType, QualityType
<1>2. [i \in DOMAIN Tasks |-> Step(TRUE, Tasks[i], 0)] \in Seq(Saving)
  BY TasksRun
<1>3. Quality(TRUE, <<"smoke", "coding", "json">>) \in Seq(Saving)
  BY QualityType, Names, Three
<1>4. SuiteProgram \in Seq(Saving)
  <2>1. Quality(FALSE, <<"forward", "smoke", "warmup">>) \in Seq(Saving)
    BY QualityType, Names, Three
  <2>2. Quality(FALSE, <<"coding", "reasoning", "json">>) \in Seq(Saving)
    BY QualityType, Names, Three
  <2>3. [n \in 1..3 |-> Kept(Step(FALSE, "speed", n))] \in Seq(Saving)
    BY SpeedRuns
  <2> QED BY <2>1, <2>2, <2>3, Joined DEF SuiteProgram
<1> QED BY <1>1, <1>2, <1>3, <1>4, PairsType, Joined
        DEF WobProgram, ProjectionProgram, MhcProgram, NativeProgram, OptimizationProgram

LEMMA AdviceType == AdviceProgram \in Seq(Saving)
<1>1. ASSUME NEW cand \in BOOLEAN, NEW n \in Nat PROVE AdviceArm(cand, n) \in Seq(Saving)
  <2>1. <<Step(cand, "warmup", n)>> \in Seq(Saving)
    BY StepType, Names, One
  <2>2. \A i \in 1..4 : <<"Pfirst", "Prepeat", "Qnew", "Qrepeat">>[i] \in Labelled
    BY DEF Labelled
  <2>3. \A i \in 1..4 :
          Kept(Step(cand, <<"Pfirst", "Prepeat", "Qnew", "Qrepeat">>[i], n)) \in Saving
    BY <2>2, StepType
  <2>4. [i \in 1..4 |-> Kept(Step(cand, <<"Pfirst", "Prepeat", "Qnew", "Qrepeat">>[i], n))]
          \in Seq(Saving)
    BY <2>3
  <2> QED BY <2>1, <2>4, Joined DEF AdviceArm
<1>2. ASSUME NEW cand \in BOOLEAN PROVE AdviceQuality(cand) \in Seq(Saving)
  <2>1. ASSUME NEW i \in 1..4
        PROVE  [Step(cand, Tasks[i], 0) EXCEPT !.sets = i = 1] \in Saving
    <3>1. Tasks[i] \in Labelled
      BY TasksType DEF Tasks
    <3>2. Step(cand, Tasks[i], 0) \in Saving
      BY <3>1, StepType
    <3>3. (i = 1) \in BOOLEAN
      OBVIOUS
    <3> QED BY <3>2, <3>3 DEF Saving
  <2> QED BY <2>1, TasksType DEF AdviceQuality
<1> QED BY <1>1, <1>2, Joined DEF AdviceProgram

LEMMA DsparkType ==
  ASSUME NEW cand \in BOOLEAN, NEW text
  PROVE  DsparkProgram(cand, text) \in Seq(Saving)
<1> DEFINE more == <<"smoke", "coding">> \o (IF text THEN <<"text">> ELSE <<>>)
                     \o <<"json", "reasoning">>
<1>1. <<"warmup", "functional">> \in Seq(Labelled)
  BY Names, Two
<1>2. more \in Seq(Labelled)
  <2>1. <<"smoke", "coding">> \in Seq(Labelled) /\ <<"json", "reasoning">> \in Seq(Labelled)
    BY Names, Two
  <2>2. (IF text THEN <<"text">> ELSE <<>>) \in Seq(Labelled)
    BY Names, One
  <2> QED BY <2>1, <2>2, Joined
<1>3. [n \in 1..3 |-> Kept(Step(cand, "speed", n))] \in Seq(Saving)
  BY SpeedRuns
<1> HIDE DEF more
<1>4. Quality(cand, <<"warmup", "functional">>) \in Seq(Saving)
  BY <1>1, QualityType
<1>5. Quality(cand, more) \in Seq(Saving)
  BY <1>2, QualityType
<1> QED BY <1>3, <1>4, <1>5, Joined DEF DsparkProgram, more

LEMMA ProfileType == ASSUME NEW spec PROVE ProfileProgram(spec) \in Seq(Saving)
<1>1. Kept(Step(FALSE, "warmup", 0)) \in Saving /\ Kept(Step(FALSE, "plain", 0)) \in Saving
        /\ Kept(Step(FALSE, "reasoning", 0)) \in Saving
  BY StepType, Names
<1>2. /\ Instrumented(Step(TRUE, "instrumented", 0)) \in Saving
      /\ Instrumented(Step(TRUE, "capture", 0)) \in Saving
  BY StepType, Names, InstrumentedType
<1>3. << Kept(Step(FALSE, "warmup", 0)), Kept(Step(FALSE, "plain", 0)),
         Instrumented(Step(TRUE, "instrumented", 0)) >> \in Seq(Saving)
  BY <1>1, <1>2, Three
<1>4. <<Instrumented(Step(TRUE, "capture", 0))>> \in Seq(Saving)
  BY <1>2, One
<1>5. <<Kept(Step(FALSE, "reasoning", 0))>> \in Seq(Saving)
  BY <1>1, One
<1>6. <<>> \in Seq(Saving)
  OBVIOUS
<1> QED BY <1>3, <1>4, <1>5, <1>6, Joined DEF ProfileProgram

LEMMA FaultType ==
  /\ FaultProgram \in Seq(Steps)
  /\ \A i \in 1..(Len(FaultProgram) - 1) : FaultProgram[i].saves
<1> DEFINE task(i) == <<"warmup", "P1", "P2", "Q1", "Q2", "P3", "control">>[i]
           step(i) == [Kept(Step(FALSE, task(i), 0)) EXCEPT !.saves = i < 7]
<1>1. ASSUME NEW i \in 1..7 PROVE step(i) \in Steps /\ step(i).saves = (i < 7)
  <2>1. task(i) \in Labelled
    BY DEF Labelled
  <2> HIDE DEF task
  <2>2. Kept(Step(FALSE, task(i), 0)) \in Saving
    BY <2>1, StepType
  <2>3. ASSUME NEW s \in Saving, NEW q \in BOOLEAN
        PROVE  [s EXCEPT !.saves = q] \in Steps /\ [s EXCEPT !.saves = q].saves = q
    BY <2>3 DEF Saving, Steps
  <2>4. (i < 7) \in BOOLEAN
    OBVIOUS
  <2> QED BY <2>2, <2>3, <2>4
<1>2. FaultProgram = [i \in 1..7 |-> step(i)]
  BY DEF FaultProgram
<1> HIDE DEF step
<1>3. FaultProgram \in Seq(Steps) /\ Len(FaultProgram) = 7
  BY <1>1, <1>2
<1>4. \A i \in 1..6 : FaultProgram[i].saves
  <2>1. \A i \in 1..6 : FaultProgram[i] = step(i)
    BY <1>2
  <2>2. ASSUME NEW i \in 1..6 PROVE step(i).saves
    <3>1. i \in 1..7 /\ i < 7
      OBVIOUS
    <3> QED BY <3>1, <1>1
  <2> QED BY <2>1, <2>2
<1> QED BY <1>3, <1>4

(* A program keeps every row but, perhaps, its last.                       *)
LEMMA ProgramType ==
  ASSUME NEW mode, NEW spec
  PROVE  /\ Program(mode, spec) \in Seq(Steps)
         /\ \A i \in 1..(Len(Program(mode, spec)) - 1) : Program(mode, spec)[i].saves
<1> DEFINE p == Program(mode, spec)
<1>1. ASSUME p \in Seq(Saving)
      PROVE  p \in Seq(Steps) /\ \A i \in 1..(Len(p) - 1) : p[i].saves
  <2>1. \A s \in Saving : s \in Steps /\ s.saves
    BY DEF Saving, Steps
  <2> HIDE DEF p
  <2> QED BY <1>1, <2>1
<1>2. p \in Seq(Saving) \/ p = FaultProgram
  <2>1. /\ DsparkProgram(FALSE, "text" \in spec) \in Seq(Saving)
        /\ DsparkProgram(TRUE, "text" \in spec) \in Seq(Saving)
    BY DsparkType
  <2>2. <<>> \in Seq(Saving)
    OBVIOUS
  <2> QED BY <2>1, <2>2, SixPrograms, AdviceType, ProfileType DEF Program
<1> QED BY <1>1, <1>2, FaultType

-----------------------------------------------------------------------------
Plan == Program(now.mode, now.spec)

NowType ==
  /\ schedule \in Seq([at : Attempts, spec : SUBSET Keys])
  /\ now \in [at : Attempts \cup {"none"}, spec : SUBSET Keys, mode : Modes,
              epoch : Nat]
RankType ==
  /\ pc \in [Ranks -> {"load", "join", "ready", "asked", "answered", "ended"}]
  /\ at \in [Ranks -> Nat \ {0}]
  /\ switch \in [Ranks -> BOOLEAN] /\ reset \in [Ranks -> BOOLEAN]
  /\ stats \in [Ranks -> Stats] /\ token \in [Ranks -> {"t", "u"}]
  /\ capable \in [Ranks -> BOOLEAN] /\ odd \in BOOLEAN
RowsType == rows \in [Ranks -> Results]
FileType == file \in [Attempts -> [Ranks -> Files]]
CopyType == copy \in [Attempts -> Files]

(* Nobody is answered twice before the other one has gone on.              *)
Pace ==
  \A r, s \in Ranks :
    /\ at[r] <= at[s] + 1
    /\ pc[r] = "answered" => at[r] <= at[s]

(* What a rank has answered, in the order of its program.                  *)
Tells(results, n) ==
  Len(results) = n /\ \A i \in 1..n : results[i].label = Plan[i].label
Progress ==
  \A r \in Ranks :
    /\ Tells(rows[r], at[r] - 1)
    /\ at[r] <= Len(Plan) + 1
    /\ pc[r] \in {"load", "join"} => at[r] = 1
    /\ pc[r] \in {"asked", "answered"} => at[r] <= Len(Plan)

(* The file of the running launch lacks a row only at the program's end.   *)
Saved ==
  now.at \in Attempts => \A r \in Ranks :
    LET f == file[now.at][r]
    IN  f.epoch = now.epoch =>
          \/ Tells(f.rows, at[r] - 1)
          \/ at[r] = Len(Plan) + 1 /\ Tells(f.rows, Len(Plan) - 1)

Past == \A a \in Attempts, r \in Ranks : file[a][r].epoch <= now.epoch

OneStory(f, g) ==
  /\ Len(f.rows) <= Len(g.rows) + 1 /\ Len(g.rows) <= Len(f.rows) + 1
  /\ IsPrefix(Labels(f), Labels(g)) \/ IsPrefix(Labels(g), Labels(f))
Stories ==
  \A a \in Attempts :
    file[a][0].epoch = file[a][1].epoch => OneStory(file[a][0], file[a][1])

SInv == NowType /\ RankType /\ RowsType /\ FileType /\ CopyType /\ Pace /\ Progress
          /\ Saved /\ Past /\ Stories

LEMMA Least ==
  ASSUME NEW S \in SUBSET (1..11), S # {} PROVE \E i \in S : \A j \in S : i <= j
<1> DEFINE Reached(n) == \E i \in S : i <= n
           Goal == \E i \in S : \A j \in S : i <= j
<1>1. ASSUME NEW n \in 0..10, ~Reached(n), Reached(n + 1) PROVE Goal
  BY <1>1
<1>2. ~Reached(0)
  OBVIOUS
<1>3. Reached(11)
  <2>1. PICK i \in S : TRUE
    OBVIOUS
  <2>2. i \in 1..11
    OBVIOUS
  <2> QED BY <2>2
<1> HIDE DEF Reached, Goal
<1>4. Reached(1) \/ Reached(2) \/ Reached(3) => Goal
  BY <1>1, <1>2
<1>5. Reached(4) \/ Reached(5) \/ Reached(6) => Goal
  BY <1>1, <1>4
<1>6. Reached(7) \/ Reached(8) \/ Reached(9) => Goal
  BY <1>1, <1>5
<1> QED BY <1>1, <1>3, <1>6 DEF Goal

LEMMA HeadAndTail ==
  ASSUME NEW S, NEW s \in Seq(S), s # <<>> PROVE Head(s) \in S /\ Tail(s) \in Seq(S)
OBVIOUS

LEMMA PrefixOf ==
  ASSUME NEW S, NEW s \in Seq(S), NEW t \in Seq(S), Len(s) <= Len(t),
         \A i \in 1..Len(s) : s[i] = t[i]
  PROVE  IsPrefix(s, t)
BY DEF IsPrefix

LEMMA ModeType == ASSUME NEW spec PROVE Mode(spec) \in Modes
<1> DEFINE order == <<"block", "m1", "dspark", "advice", "fault", "wob",
                      "projection", "mhc", "native", "optimization", "profile">>
           given == {i \in DOMAIN order : order[i] \in spec}
<1>1. DOMAIN order = 1..11 /\ \A i \in 1..11 : order[i] \in Modes
  BY DEF Modes
<1>2. Mode(spec) = IF given = {} THEN "suite"
                   ELSE order[CHOOSE i \in given : \A j \in given : i <= j]
  BY DEF Mode
<1>3. given \subseteq 1..11
  BY <1>1
<1> HIDE DEF given, order
<1>4. given # {} => (CHOOSE i \in given : \A j \in given : i <= j) \in given
  BY <1>3, Least
<1> QED BY <1>1, <1>2, <1>3, <1>4 DEF Modes

LEMMA NoStatsType == NoStats \in Stats
BY DEF NoStats, NoFile, Stats

(* Two files that tell the program up to one row more or less.             *)
LEMMA OneProgram ==
  ASSUME NEW f \in Files, NEW g \in Files, NEW m \in Nat, NEW n \in Nat,
         m <= n + 1, n <= m + 1, Tells(f.rows, m), Tells(g.rows, n)
  PROVE  OneStory(f, g)
<1>1. DOMAIN f.rows = 1..m /\ DOMAIN g.rows = 1..n
  BY DEF Files, Results, Tells
<1>2. /\ Labels(f) = [i \in 1..m |-> Plan[i].label]
      /\ Labels(g) = [i \in 1..n |-> Plan[i].label]
  BY <1>1 DEF Labels, Tells
<1> DEFINE T == {Plan[i].label : i \in 1..(m + n)}
<1>3. Labels(f) \in Seq(T) /\ Labels(g) \in Seq(T)
  BY <1>2
<1>4. /\ Len(Labels(f)) = m /\ Len(Labels(g)) = n
      /\ \A i \in 1..m : Labels(f)[i] = Plan[i].label
      /\ \A i \in 1..n : Labels(g)[i] = Plan[i].label
  BY <1>2
<1> HIDE DEF T
<1>5. m <= n => IsPrefix(Labels(f), Labels(g))
  BY <1>3, <1>4, PrefixOf
<1>6. n <= m => IsPrefix(Labels(g), Labels(f))
  BY <1>3, <1>4, PrefixOf
<1>7. Len(f.rows) = m /\ Len(g.rows) = n
  BY DEF Tells
<1> QED BY <1>5, <1>6, <1>7 DEF OneStory

LEMMA LaunchKeeps ==
  ASSUME SInv, Launch
  PROVE  SInv'
<1> USE DEF SInv, Launch, disk, Ended, Ranks
<1>1. NowType'
  <2>1. /\ Head(schedule) \in [at : Attempts, spec : SUBSET Keys]
        /\ Tail(schedule) \in Seq([at : Attempts, spec : SUBSET Keys])
    BY HeadAndTail DEF NowType
  <2> QED BY <2>1, ModeType DEF NowType
<1>2. RankType'
  BY NoStatsType DEF RankType
<1>3. RowsType'
  BY DEF RowsType, Results
<1>4. FileType'
  BY DEF FileType
<1>5. CopyType'
  BY DEF CopyType
<1>6. Pace'
  BY DEF Pace
<1>7. Progress'
  BY DEF Progress, Tells, Plan, RowsType
<1>8. Saved'
  <2>1. \A a \in Attempts, r \in Ranks : file[a][r].epoch < now'.epoch
    BY DEF Past, FileType, Files, NowType
  <2>2. file' = file /\ now'.epoch = now.epoch + 1
    OBVIOUS
  <2>3. \A a \in Attempts, r \in Ranks : file'[a][r].epoch # now'.epoch
    BY <2>2 DEF Past, FileType, Files, NowType
  <2> HIDE DEF Launch
  <2> QED BY <2>3 DEF Saved
<1>9. Past'
  BY DEF Past, FileType, Files, NowType
<1>10. Stories'
  BY DEF Stories
<1> QED BY <1>1, <1>2, <1>3, <1>4, <1>5, <1>6, <1>7, <1>8, <1>9, <1>10

LEMMA LoadKeeps ==
  ASSUME NEW r \in Ranks, SInv, Load(r)
  PROVE  SInv'
<1> USE DEF SInv, Load, disk, Ended, Ranks
<1>1. NowType' /\ RowsType' /\ FileType' /\ CopyType' /\ Past' /\ Stories'
  BY DEF NowType, RowsType, FileType, CopyType, Past, Stories
<1>2. RankType'
  BY DEF RankType
<1>3. Pace' /\ Progress'
  BY DEF Pace, Progress, Tells, Plan, RankType
<1>4. Saved'
  BY DEF Saved, Tells, Plan
<1> QED BY <1>1, <1>2, <1>3, <1>4

LEMMA JoinKeeps ==
  ASSUME SInv, Join
  PROVE  SInv'
<1> USE DEF SInv, Join, disk, Ended, Ranks
<1>1. NowType' /\ RowsType' /\ FileType' /\ CopyType' /\ Past' /\ Stories'
  BY DEF NowType, RowsType, FileType, CopyType, Past, Stories
<1>2. RankType'
  BY DEF RankType
<1>3. Pace' /\ Progress'
  BY DEF Pace, Progress, Tells, Plan, RankType
<1>4. Saved'
  BY DEF Saved, Tells, Plan
<1> QED BY <1>1, <1>2, <1>3, <1>4

LEMMA AskKeeps ==
  ASSUME NEW r \in Ranks, SInv, Ask(r)
  PROVE  SInv'
<1> USE DEF SInv, Ask, disk, Ended, Ranks
<1>1. NowType' /\ RowsType' /\ FileType' /\ CopyType' /\ Past' /\ Stories'
  BY DEF NowType, RowsType, FileType, CopyType, Past, Stories
<1>2. RankType'
  <2>1. StepOf(r) \in Steps
    BY ProgramType DEF StepOf, RankType, Plan
  <2> QED BY <2>1, NoStatsType, ZenonT(60) DEF RankType, Steps
<1>3. Pace' /\ Progress'
  BY DEF Pace, Progress, Tells, Plan, RankType
<1>4. Saved'
  BY DEF Saved, Tells, Plan
<1> QED BY <1>1, <1>2, <1>3, <1>4

LEMMA GenerateKeeps ==
  ASSUME SInv, Generate
  PROVE  SInv'
<1> USE DEF SInv, Generate, disk, Ended, Ranks
<1>1. NowType' /\ RowsType' /\ FileType' /\ CopyType' /\ Past' /\ Stories'
  BY DEF NowType, RowsType, FileType, CopyType, Past, Stories
<1>2. RankType'
  <2>1. \A r \in Ranks : Counted(r) \in Stats
    BY DEF Counted, Runs, RankType, Stats
  <2> QED BY <2>1 DEF RankType
<1>3. Pace' /\ Progress'
  BY DEF Pace, Progress, Tells, Plan, RankType
<1>4. Saved'
  BY DEF Saved, Tells, Plan
<1> QED BY <1>1, <1>2, <1>3, <1>4

RowSet == [label : LabelSet, token : {"t", "u"}, ran : BOOLEAN, stats : Stats,
           on : BOOLEAN]

(* What rank r writes tells the same story as the other rank's file, as    *)
(* far as that is of the same launch.                                      *)
LEMMA WrittenKeeps ==
  ASSUME NEW r \in Ranks, NEW f \in Files, f.epoch = now.epoch, NowType, FileType,
         Past, Stories, now' = now, file' = [file EXCEPT ![now.at][r] = f],
         now.at \in Attempts =>
           \A s \in Ranks \ {r} : file[now.at][s].epoch = now.epoch =>
             OneStory(f, file[now.at][s])
  PROVE  FileType' /\ Past' /\ Stories'
<1>1. FileType'
  BY DEF FileType
<1>2. \A a \in Attempts, s \in Ranks :
        file'[a][s] = IF a = now.at /\ s = r THEN f ELSE file[a][s]
  BY DEF FileType
<1>3. Past'
  BY <1>2 DEF Past, NowType
<1>4. \A g, h \in Files : OneStory(g, h) <=> OneStory(h, g)
  BY DEF OneStory
<1>5. Stories'
  <2>1. ASSUME NEW a \in Attempts, file'[a][0].epoch = file'[a][1].epoch
        PROVE  OneStory(file'[a][0], file'[a][1])
    <3>1. CASE a # now.at
      BY <2>1, <3>1, <1>2 DEF Stories, Ranks
    <3>2. CASE a = now.at /\ r = 0
      BY <2>1, <3>2, <1>2 DEF Ranks
    <3>3. CASE a = now.at /\ r = 1
      BY <2>1, <3>3, <1>2, <1>4 DEF Ranks, FileType
    <3> QED BY <3>1, <3>2, <3>3 DEF Ranks
  <2> QED BY <2>1 DEF Stories
<1> QED BY <1>1, <1>3, <1>5

(* How much of the program a file tells when it is of the running launch.  *)
LEMMA FileTells ==
  ASSUME NEW s \in Ranks, SInv, now.at \in Attempts, file[now.at][s].epoch = now.epoch
  PROVE  \E n \in Nat :
           /\ \/ n = at[s] - 1
              \/ n = Len(Plan) - 1 /\ at[s] = Len(Plan) + 1
           /\ Tells(file[now.at][s].rows, n)
<1>1. Len(Plan) \in Nat
  BY ProgramType DEF Plan
<1>2. at[s] \in Nat \ {0}
  BY DEF SInv, RankType
<1>3. file[now.at][s].rows \in Results
  BY DEF SInv, FileType, Files
<1>4. Len(file[now.at][s].rows) \in Nat
  BY <1>3 DEF Results
<1>5. CASE Tells(file[now.at][s].rows, at[s] - 1)
  <2>1. PICK n \in Nat : n = at[s] - 1
    BY <1>2
  <2>2. Tells(file[now.at][s].rows, n)
    BY <2>1, <1>5
  <2> QED BY <2>1, <2>2
<1>6. CASE at[s] = Len(Plan) + 1 /\ Tells(file[now.at][s].rows, Len(Plan) - 1)
  <2>1. Len(Plan) - 1 \in Nat
    BY <1>4, <1>6 DEF Tells
  <2> QED BY <1>6, <2>1
<1> QED BY <1>5, <1>6 DEF SInv, Saved

LEMMA RecordKeeps ==
  ASSUME NEW r \in Ranks, SInv, Record(r)
  PROVE  SInv'
<1> DEFINE row == [label |-> StepOf(r).label, token |-> token[r],
                   ran |-> Runs(r), stats |-> stats[r], on |-> switch[r]]
           results == Append(rows[r], row)
           f == Document(r, "running", results)
<1>1. /\ Len(Plan) \in Nat /\ at[r] \in 1..Len(Plan)
      /\ StepOf(r) = Plan[at[r]] /\ StepOf(r) \in Steps
      /\ at[r] < Len(Plan) => StepOf(r).saves
  BY ProgramType DEF Record, RecordIf, SInv, Progress, RankType, StepOf, Plan
<1>2. row \in RowSet
  BY <1>1 DEF SInv, RankType, RowSet, Steps, Runs
<1> HIDE DEF row
<1>3. rows[r] \in Seq(RowSet) /\ Len(rows[r]) = at[r] - 1
  BY DEF SInv, RowsType, Results, RowSet, Progress, Tells
<1>4. results \in Seq(RowSet) /\ Len(results) = at[r]
  BY <1>1, <1>2, <1>3
<1>5. \A i \in 1..at[r] : results[i].label = Plan[i].label
  <2>1. \A i \in 1..(at[r] - 1) : results[i] = rows[r][i]
    BY <1>1, <1>2, <1>3
  <2>2. results[at[r]] = row
    BY <1>1, <1>2, <1>3
  <2>3. row.label = Plan[at[r]].label
    BY <1>1 DEF row
  <2>4. \A i \in 1..(at[r] - 1) : rows[r][i].label = Plan[i].label
    BY DEF SInv, Progress, Tells
  <2>5. \A i \in 1..at[r] : i \in 1..(at[r] - 1) \/ i = at[r]
    BY <1>1
  <2> HIDE DEF results
  <2> QED BY <2>1, <2>2, <2>3, <2>4, <2>5
<1> HIDE DEF results
<1>6. /\ pc[r] = "answered"
      /\ rows' = [rows EXCEPT ![r] = results]
      /\ at' = [at EXCEPT ![r] = at[r] + 1] /\ pc' = [pc EXCEPT ![r] = "ready"]
      /\ switch' = IF StepOf(r).clears THEN [switch EXCEPT ![r] = FALSE] ELSE switch
      /\ token' = [token EXCEPT ![r] = "t"]
      /\ UNCHANGED <<schedule, now, copy, capable, stats, reset, odd>>
  BY DEF Record, RecordIf, row, results
<1>7. /\ StepOf(r).saves => file' = [file EXCEPT ![now.at][r] = f]
      /\ ~StepOf(r).saves => file' = file
  <2>1. rows'[r] = results
    BY <1>6 DEF SInv, RowsType
  <2> QED BY <2>1 DEF Record, RecordIf, Written
<1>8. NowType' /\ CopyType'
  BY <1>6 DEF SInv, NowType, CopyType
<1>9. RankType'
  BY <1>6 DEF SInv, RankType
<1>10. RowsType'
  BY <1>4, <1>6 DEF SInv, RowsType, Results, RowSet
<1>11. Pace'
  BY <1>6 DEF SInv, Pace, RankType
<1>12. Plan' = Plan
  BY <1>6 DEF Plan
<1>13. Progress'
  <2>1. ASSUME NEW s \in Ranks, s # r
        PROVE  at'[s] = at[s] /\ pc'[s] = pc[s] /\ rows'[s] = rows[s]
    BY <1>6, <2>1 DEF SInv, RankType, RowsType
  <2>2. at'[r] = at[r] + 1 /\ pc'[r] = "ready" /\ rows'[r] = results
    BY <1>6 DEF SInv, RankType, RowsType
  <2>3. ASSUME NEW s \in Ranks
        PROVE  /\ Tells(rows'[s], at'[s] - 1)
               /\ at'[s] <= Len(Plan) + 1
               /\ pc'[s] \in {"load", "join"} => at'[s] = 1
               /\ pc'[s] \in {"asked", "answered"} => at'[s] <= Len(Plan)
    <3>1. CASE s = r
      BY <1>1, <1>4, <1>5, <2>2, <3>1 DEF Tells
    <3>2. CASE s # r
      BY <2>1, <3>2 DEF SInv, Progress
    <3> QED BY <3>1, <3>2
  <2> QED BY <2>3, <1>12 DEF Progress, Tells
<1>14. f \in Files /\ f.epoch = now.epoch /\ f.rows = results
  BY <1>4 DEF Document, Files, SInv, NowType, RankType, Results, RowSet
<1>15. ASSUME NEW s \in Ranks \ {r}, now.at \in Attempts,
              file[now.at][s].epoch = now.epoch
       PROVE  OneStory(f, file[now.at][s])
  <2>1. PICK n \in Nat :
          /\ \/ n = at[s] - 1
             \/ n = Len(Plan) - 1 /\ at[s] = Len(Plan) + 1
          /\ Tells(file[now.at][s].rows, n)
    BY <1>15, FileTells
  <2>2. at[r] <= at[s] /\ at[s] <= at[r] + 1 /\ at[s] \in Nat
    BY <1>6, <1>15 DEF SInv, Pace, RankType
  <2>3. n <= at[r] /\ at[r] <= n + 1
    BY <1>1, <2>1, <2>2
  <2>4. file[now.at][s] \in Files
    BY <1>15 DEF SInv, FileType
  <2> HIDE DEF f
  <2>5. Tells(f.rows, at[r]) /\ at[r] \in Nat
    BY <1>1, <1>4, <1>5, <1>14 DEF Tells
  <2>6. at[r] <= n + 1 /\ n <= at[r] + 1
    BY <1>1, <2>3
  <2> QED BY <1>14, <2>1, <2>4, <2>5, <2>6, OneProgram
<1> HIDE DEF f
<1>16. FileType' /\ Past' /\ Stories'
  <2>1. CASE StepOf(r).saves
    BY <1>6, <1>7, <1>14, <1>15, <2>1, WrittenKeeps DEF SInv
  <2>2. CASE ~StepOf(r).saves
    BY <1>6, <1>7, <2>2 DEF SInv, FileType, Past, Stories
  <2> QED BY <2>1, <2>2
<1>17. Saved'
  <2>1. ASSUME NEW s \in Ranks, now.at \in Attempts, file'[now.at][s].epoch = now.epoch
        PROVE  \/ Tells(file'[now.at][s].rows, at'[s] - 1)
               \/ at'[s] = Len(Plan) + 1 /\ Tells(file'[now.at][s].rows, Len(Plan) - 1)
    <3>1. CASE s # r
      <4>1. file'[now.at][s] = file[now.at][s] /\ at'[s] = at[s]
        BY <1>6, <1>7, <2>1, <3>1 DEF SInv, FileType, RankType
      <4> QED BY <4>1, <2>1 DEF SInv, Saved
    <3>2. CASE s = r /\ StepOf(r).saves
      <4>1. file'[now.at][s] = f /\ at'[s] = at[r] + 1
        BY <1>6, <1>7, <2>1, <3>2 DEF SInv, FileType, RankType
      <4> QED BY <4>1, <1>1, <1>4, <1>5, <1>14 DEF Tells
    <3>3. CASE s = r /\ ~StepOf(r).saves
      <4>1. file'[now.at][s] = file[now.at][r] /\ at'[s] = at[r] + 1
        BY <1>6, <1>7, <2>1, <3>3 DEF SInv, RankType
      <4>2. at[r] = Len(Plan)
        BY <1>1, <3>3
      <4>3. Tells(file[now.at][r].rows, at[r] - 1)
        BY <4>1, <4>2, <1>1, <2>1 DEF SInv, Saved
      <4> QED BY <4>1, <4>2, <4>3, <1>1
    <3> QED BY <3>1, <3>2, <3>3
  <2> QED BY <2>1, <1>6, <1>12 DEF Saved, Tells
<1> QED BY <1>8, <1>9, <1>10, <1>11, <1>13, <1>16, <1>17 DEF SInv

LEMMA FinishKeeps ==
  ASSUME NEW r \in Ranks, SInv, Finish(r)
  PROVE  SInv'
<1>1. PICK status \in {"smoke_fail", "complete"} :
        file' = [file EXCEPT ![now.at][r] = Document(r, status, rows[r])]
  BY DEF Finish, Written
<1>2. /\ pc[r] = "ready" /\ pc' = [pc EXCEPT ![r] = "ended"]
      /\ UNCHANGED <<schedule, now, copy, capable, at, switch, stats, reset, token,
                     rows, odd>>
  BY DEF Finish
<1> DEFINE f == Document(r, status, rows[r])
<1>3. f \in Files /\ f.epoch = now.epoch /\ f.rows = rows[r]
  BY DEF Document, Files, SInv, NowType, RankType, RowsType
<1>4. Tells(rows[r], at[r] - 1) /\ Len(Plan) \in Nat /\ at[r] \in 1..(Len(Plan) + 1)
  BY ProgramType DEF SInv, Progress, RankType, Plan
<1>5. ASSUME NEW s \in Ranks \ {r}, now.at \in Attempts,
             file[now.at][s].epoch = now.epoch
      PROVE  OneStory(f, file[now.at][s])
  <2>1. PICK n \in Nat :
          /\ \/ n = at[s] - 1
             \/ n = Len(Plan) - 1 /\ at[s] = Len(Plan) + 1
          /\ Tells(file[now.at][s].rows, n)
    BY <1>5, FileTells
  <2>2. at[r] <= at[s] + 1 /\ at[s] <= at[r] + 1 /\ at[s] \in Nat
    BY <1>5 DEF SInv, Pace, RankType
  <2>3. n <= at[r] /\ at[r] - 1 <= n + 1
    BY <1>4, <2>1, <2>2
  <2>4. file[now.at][s] \in Files
    BY <1>5 DEF SInv, FileType
  <2> HIDE DEF f
  <2>5. Tells(f.rows, at[r] - 1) /\ at[r] - 1 \in Nat
    BY <1>3, <1>4
  <2>6. at[r] - 1 <= n + 1 /\ n <= (at[r] - 1) + 1
    BY <1>4, <2>3
  <2> QED BY <1>3, <2>1, <2>4, <2>5, <2>6, OneProgram
<1> HIDE DEF f
<1>6. FileType' /\ Past' /\ Stories'
  BY <1>1, <1>2, <1>3, <1>5, WrittenKeeps DEF SInv, f
<1>7. NowType' /\ CopyType' /\ RankType' /\ RowsType'
  BY <1>2 DEF SInv, NowType, CopyType, RankType, RowsType
<1>8. Plan' = Plan
  BY <1>2 DEF Plan
<1>9. Pace' /\ Progress'
  BY <1>2, <1>8 DEF SInv, Pace, Progress, Tells, RankType
<1>10. Saved'
  <2>1. ASSUME NEW s \in Ranks, now.at \in Attempts, file'[now.at][s].epoch = now.epoch
        PROVE  \/ Tells(file'[now.at][s].rows, at[s] - 1)
               \/ at[s] = Len(Plan) + 1 /\ Tells(file'[now.at][s].rows, Len(Plan) - 1)
    <3>1. CASE s # r
      <4>1. file'[now.at][s] = file[now.at][s]
        BY <1>1, <2>1, <3>1 DEF SInv, FileType
      <4> QED BY <4>1, <2>1 DEF SInv, Saved
    <3>2. CASE s = r
      <4>1. file'[now.at][s] = f
        BY <1>1, <2>1, <3>2 DEF SInv, FileType, f
      <4> QED BY <4>1, <1>3, <1>4, <3>2
    <3> QED BY <3>1, <3>2
  <2> QED BY <2>1, <1>2, <1>8 DEF Saved, Tells
<1> QED BY <1>6, <1>7, <1>9, <1>10 DEF SInv

LEMMA CrashKeeps ==
  ASSUME NEW r \in Ranks, SInv, Crash(r)
  PROVE  SInv'
<1> USE DEF SInv, Crash, disk, Ended, Ranks
<1>1. NowType' /\ RowsType' /\ FileType' /\ CopyType' /\ Past' /\ Stories'
  BY DEF NowType, RowsType, FileType, CopyType, Past, Stories
<1>2. RankType'
  BY DEF RankType
<1>3. Pace' /\ Progress'
  BY DEF Pace, Progress, Tells, Plan, RankType
<1>4. Saved'
  BY DEF Saved, Tells, Plan
<1> QED BY <1>1, <1>2, <1>3, <1>4

LEMMA SuperviseKeeps ==
  ASSUME SInv, Supervise
  PROVE  SInv'
<1> USE DEF SInv, Supervise, disk, Ended, Ranks
<1>1. NowType' /\ RowsType' /\ FileType' /\ CopyType' /\ Past' /\ Stories'
  BY DEF NowType, RowsType, FileType, CopyType, Past, Stories
<1>2. RankType'
  BY DEF RankType
<1>3. Pace' /\ Progress'
  BY DEF Pace, Progress, Tells, Plan, RankType
<1>4. Saved'
  BY DEF Saved, Tells, Plan
<1> QED BY <1>1, <1>2, <1>3, <1>4

LEMMA FetchKeeps ==
  ASSUME NEW a \in Attempts, SInv, Fetch(a)
  PROVE  SInv'
<1> USE DEF SInv, Fetch, disk, Ended, Ranks
<1>1. NowType' /\ RowsType' /\ FileType' /\ CopyType' /\ Past' /\ Stories'
  BY DEF NowType, RowsType, FileType, CopyType, Past, Stories
<1>2. RankType'
  BY DEF RankType
<1>3. Pace' /\ Progress'
  BY DEF Pace, Progress, Tells, Plan, RankType
<1>4. Saved'
  BY DEF Saved, Tells, Plan
<1> QED BY <1>1, <1>2, <1>3, <1>4

LEMMA InitHolds == Init => SInv
<1> SUFFICES ASSUME Init PROVE SInv
  OBVIOUS
<1> USE DEF Init, NoLaunch, Ranks
<1>1. NoFile \in Files /\ NoFile.epoch = 0 /\ NoFile.rows = <<>>
  BY DEF NoFile, Files, Stats, Results
<1>2. NowType
  BY SchedulesAssumption DEF NowType, Modes
<1>3. RankType
  <2>1. [r \in Ranks |-> NoStats] \in [Ranks -> Stats]
    BY NoStatsType
  <2>2. stats \in [Ranks -> Stats]
    BY <2>1
  <2>3. /\ pc \in [Ranks -> {"load", "join", "ready", "asked", "answered", "ended"}]
        /\ at \in [Ranks -> Nat \ {0}] /\ token \in [Ranks -> {"t", "u"}]
    OBVIOUS
  <2>4. /\ switch \in [Ranks -> BOOLEAN] /\ reset \in [Ranks -> BOOLEAN]
        /\ capable \in [Ranks -> BOOLEAN] /\ odd \in BOOLEAN
    OBVIOUS
  <2> QED BY <2>2, <2>3, <2>4 DEF RankType
<1>a. RowsType
  BY DEF RowsType, Results
<1>4. FileType /\ CopyType /\ Past
  BY <1>1 DEF FileType, CopyType, Past
<1>5. Pace /\ Progress
  BY ProgramType DEF Pace, Progress, Tells, Plan
<1>6. Saved
  BY <1>1 DEF Saved, Tells
<1>7. Stories
  <2>1. Tells(NoFile.rows, 0)
    BY <1>1 DEF Tells
  <2>2. OneStory(NoFile, NoFile)
    BY <1>1, <2>1, OneProgram
  <2> QED BY <2>2 DEF Stories
<1> QED BY <1>2, <1>3, <1>a, <1>4, <1>5, <1>6, <1>7 DEF SInv

(* SInv is an invariant.                                                   *)
THEOREM SuiteInvariant == Spec => []SInv
<1>1. SInv /\ [Next]_vars => SInv'
  <2> SUFFICES ASSUME SInv, [Next]_vars PROVE SInv'
    OBVIOUS
  <2>1. CASE Launch BY <2>1, LaunchKeeps
  <2>2. CASE Collective BY <2>2, JoinKeeps, GenerateKeeps DEF Collective
  <2>3. CASE Supervise BY <2>3, SuperviseKeeps
  <2>4. CASE \E r \in Ranks : RankStep(r) \/ Crash(r)
    BY <2>4, LoadKeeps, AskKeeps, RecordKeeps, FinishKeeps, CrashKeeps DEF RankStep
  <2>5. CASE \E a \in Attempts : Fetch(a) BY <2>5, FetchKeeps
  <2>6. CASE UNCHANGED vars
    BY <2>6 DEF vars, SInv, NowType, RankType, RowsType, FileType, CopyType, Pace,
                Progress, Saved, Past, Stories, Tells, Plan
  <2> QED BY <2>1, <2>2, <2>3, <2>4, <2>5, <2>6 DEF Next
<1> QED BY InitHolds, <1>1, PTL DEF Spec

(* The types of the files, of the ranks and of the launches.               *)
THEOREM SuiteTypeCorrect == Spec => []TypeOK
<1>1. SInv => TypeOK
  BY DEF SInv, NowType, RankType, RowsType, FileType, CopyType, TypeOK
<1> QED BY <1>1, SuiteInvariant, PTL

(* FilesInStep: however the ranks interleave and whoever dies, the files   *)
(* of one launch tell the same story, one row apart at the most.           *)
THEOREM OneStoryTold == Spec => []FilesInStep
<1>1. SInv => FilesInStep
  BY DEF SInv, Stories, OneStory, FilesInStep
<1> QED BY <1>1, SuiteInvariant, PTL

-----------------------------------------------------------------------------
(* The switch along a program: where a step does not set it, it is already *)
(* what the step is of.                                                    *)
Leaves(s) == s.cand /\ ~s.clears
Fits(s, b) == s.label[1] = s.cand /\ (s.sets \/ s.cand = b)
Leads(p, b, c) ==
  /\ p \in Seq(Steps)
  /\ p = <<>> => b = c
  /\ p # <<>> => Fits(p[1], b) /\ Leaves(p[Len(p)]) = c
  /\ \A i \in 2..Len(p) : Fits(p[i], Leaves(p[i - 1]))

(* A step of the candidate or of the baseline that leaves the switch so.   *)
Of(s, cand) ==
  s \in Steps /\ s.label[1] = cand /\ s.cand = cand /\ s.clears = FALSE

LEMMA Chained ==
  ASSUME NEW p, NEW q, NEW b \in BOOLEAN, NEW c \in BOOLEAN, NEW d \in BOOLEAN,
         Leads(p, b, c), Leads(q, c, d)
  PROVE  Leads(p \o q, b, d)
<1>1. p \in Seq(Steps) /\ q \in Seq(Steps)
  BY DEF Leads
<1>2. CASE p = <<>>
  <2>1. p \o q = q
    BY <1>1, <1>2
  <2> QED BY <2>1, <1>2 DEF Leads
<1>3. CASE q = <<>>
  <2>1. p \o q = p
    BY <1>1, <1>3
  <2> QED BY <2>1, <1>3 DEF Leads
<1>4. CASE p # <<>> /\ q # <<>>
  <2> DEFINE s == p \o q
             m == Len(p)
  <2>1. /\ s \in Seq(Steps) /\ Len(s) = m + Len(q) /\ m \in Nat \ {0}
        /\ Len(q) \in Nat \ {0}
        /\ \A i \in 1..m : s[i] = p[i]
        /\ \A i \in 1..Len(q) : s[m + i] = q[i]
    BY <1>1, <1>4
  <2> HIDE DEF s, m
  <2>2. s # <<>> /\ Fits(s[1], b)
    BY <2>1, <1>4, SMTT(30) DEF Leads, m
  <2>3. Leaves(s[Len(s)]) = d
    <3>1. s[m + Len(q)] = q[Len(q)]
      BY <2>1
    <3> QED BY <3>1, <2>1, <1>4 DEF Leads
  <2>4. ASSUME NEW i \in 2..Len(s) PROVE Fits(s[i], Leaves(s[i - 1]))
    <3>1. CASE i <= m
      <4>1. i \in 2..Len(p) /\ s[i] = p[i] /\ s[i - 1] = p[i - 1]
        BY <2>1, <2>4, <3>1 DEF m
      <4> QED BY <4>1 DEF Leads
    <3>2. CASE i = m + 1
      <4>1. s[i] = q[1]
        BY <2>1, <2>4, <3>2
      <4>2. s[i - 1] = p[Len(p)]
        BY <2>1, <2>4, <3>2 DEF m
      <4>3. Fits(q[1], c) /\ Leaves(p[Len(p)]) = c
        BY <1>4 DEF Leads
      <4> QED BY <4>1, <4>2, <4>3
    <3>3. CASE i > m + 1
      <4>1. PICK k \in 2..Len(q) : i = m + k
        <5>1. i - m \in 2..Len(q) /\ i = m + (i - m)
          BY <2>1, <2>4, <3>3
        <5> QED BY <5>1
      <4>2. s[i] = q[k]
        BY <2>1, <2>4, <4>1
      <4>3. s[i - 1] = q[k - 1]
        <5>1. k - 1 \in 1..Len(q) /\ i - 1 = m + (k - 1)
          BY <2>1, <4>1
        <5> QED BY <5>1, <2>1
      <4> QED BY <4>2, <4>3 DEF Leads
    <3> QED BY <3>1, <3>2, <3>3, <2>1, <2>4
  <2> QED BY <2>1, <2>2, <2>3, <2>4 DEF Leads, s
<1> QED BY <1>2, <1>3, <1>4

LEMMA AllOf ==
  ASSUME NEW p \in Seq(Steps), NEW cand \in BOOLEAN,
         \A i \in 1..Len(p) : Of(p[i], cand)
  PROVE  Leads(p, cand, cand)
<1>1. Len(p) \in Nat /\ (p # <<>> => Len(p) \in 1..Len(p) /\ 1 \in 1..Len(p))
  OBVIOUS
<1>2. ASSUME NEW i \in 1..Len(p), NEW j \in 1..Len(p)
      PROVE  Fits(p[i], Leaves(p[j])) /\ Fits(p[i], cand) /\ Leaves(p[j]) = cand
  BY DEF Of, Fits, Leaves
<1>3. \A i \in 2..Len(p) : i \in 1..Len(p) /\ i - 1 \in 1..Len(p)
  BY <1>1
<1> QED BY <1>1, <1>2, <1>3 DEF Leads

(* Where the first step sets the switch, what it was before does not matter. *)
LEMMA SetFirst ==
  ASSUME NEW p, NEW b, NEW c, NEW d, Leads(p, b, c), p # <<>>, p[1].sets
  PROVE  Leads(p, d, c)
BY DEF Leads, Fits

LEMMA SavingSteps == Saving \subseteq Steps /\ Seq(Saving) \subseteq Seq(Steps)
<1>1. Saving \subseteq Steps
  BY DEF Saving, Steps
<1> QED BY <1>1

LEMMA AStep ==
  ASSUME NEW cand \in BOOLEAN, NEW task \in Labelled, NEW n \in Nat
  PROVE  /\ Of(Step(cand, task, n), cand) /\ Step(cand, task, n).sets
         /\ Of(Kept(Step(cand, task, n)), cand)
<1>1. Step(cand, task, n) \in Steps /\ Kept(Step(cand, task, n)) \in Steps
  BY StepType, SavingSteps
<1>2. /\ Step(cand, task, n).label = <<cand, task, n>>
      /\ Step(cand, task, n).cand = cand /\ Step(cand, task, n).clears = FALSE
      /\ Step(cand, task, n).sets
  BY DEF Step
<1>3. /\ Kept(Step(cand, task, n)).label = <<cand, task, n>>
      /\ Kept(Step(cand, task, n)).cand = cand
      /\ Kept(Step(cand, task, n)).clears = FALSE
  BY <1>1, <1>2 DEF Kept, Steps
<1>4. <<cand, task, n>>[1] = cand
  OBVIOUS
<1> QED BY <1>1, <1>2, <1>3, <1>4 DEF Of

LEMMA AnInstrumentedStep ==
  ASSUME NEW task \in Labelled
  PROVE  LET s == Instrumented(Step(TRUE, task, 0))
         IN  s \in Steps /\ Fits(s, FALSE) /\ Leaves(s) = FALSE
<1>1. Instrumented(Step(TRUE, task, 0)) \in Steps
  BY StepType, InstrumentedType, SavingSteps
<1> QED BY <1>1 DEF Instrumented, Step, Fits, Leaves

LEMMA QualityLeads ==
  ASSUME NEW cand \in BOOLEAN, NEW tasks \in Seq(Labelled)
  PROVE  Leads(Quality(cand, tasks), cand, cand)
<1>1. Quality(cand, tasks) = [i \in 1..Len(tasks) |-> Kept(Step(cand, tasks[i], 0))]
  BY DEF Quality
<1>2. \A i \in 1..Len(tasks) : Of(Kept(Step(cand, tasks[i], 0)), cand)
  BY AStep
<1>3. \A i \in 1..Len(tasks) : Kept(Step(cand, tasks[i], 0)) \in Steps
  BY <1>2 DEF Of
<1>4. Quality(cand, tasks) \in Seq(Steps) /\ Len(Quality(cand, tasks)) = Len(tasks)
  BY <1>1, <1>3
<1>5. \A i \in 1..Len(tasks) : Of(Quality(cand, tasks)[i], cand)
  BY <1>1, <1>2
<1> QED BY <1>4, <1>5, AllOf

LEMMA SpeedLeads ==
  ASSUME NEW cand \in BOOLEAN
  PROVE  Leads([n \in 1..3 |-> Kept(Step(cand, "speed", n))], cand, cand)
<1>1. \A n \in 1..3 : Of(Kept(Step(cand, "speed", n)), cand)
  BY AStep, Names
<1>2. \A n \in 1..3 : Kept(Step(cand, "speed", n)) \in Steps
  BY <1>1 DEF Of
<1>3. PICK p : p = [n \in 1..3 |-> Kept(Step(cand, "speed", n))]
  OBVIOUS
<1>4. p \in Seq(Steps) /\ Len(p) = 3 /\ \A i \in 1..3 : Of(p[i], cand)
  BY <1>1, <1>2, <1>3
<1> QED BY <1>3, <1>4, AllOf

LEMMA TasksLead == Leads([i \in DOMAIN Tasks |-> Step(TRUE, Tasks[i], 0)], TRUE, TRUE)
<1>1. \A i \in 1..4 : Tasks[i] \in Labelled
  BY DEF Tasks, Labelled
<1>2. \A i \in 1..4 : Of(Step(TRUE, Tasks[i], 0), TRUE)
  <2>1. TRUE \in BOOLEAN /\ 0 \in Nat
    OBVIOUS
  <2> QED BY <1>1, <2>1, AStep
<1>3. \A i \in 1..4 : Step(TRUE, Tasks[i], 0) \in Steps
  BY <1>2 DEF Of
<1>4. PICK p : p = [i \in 1..4 |-> Step(TRUE, Tasks[i], 0)]
  OBVIOUS
<1>5. p \in Seq(Steps) /\ Len(p) = 4
  <2>1. p \in Seq(Steps)
    BY <1>4, TasksRun, TasksType, SavingSteps
  <2>2. DOMAIN p = 1..4
    BY <1>4
  <2> QED BY <2>1, <2>2
<1>6. \A i \in 1..4 : Of(p[i], TRUE)
  BY <1>2, <1>4
<1>7. Leads(p, TRUE, TRUE)
  BY <1>5, <1>6, AllOf
<1> QED BY <1>4, <1>7, TasksType

LEMMA PairLeads ==
  ASSUME NEW a, NEW b, NEW cand \in BOOLEAN, NEW before \in BOOLEAN,
         Of(a, cand), Of(b, cand), a.sets \/ before = cand
  PROVE  Leads(<<a, b>>, before, cand)
<1>1. PICK p : p = <<a, b>>
  OBVIOUS
<1>2. p \in Seq(Steps) /\ Len(p) = 2 /\ p[1] = a /\ p[2] = b /\ p # <<>>
  BY <1>1 DEF Of
<1>3. \A i \in 1..2 : Of(p[i], cand)
  BY <1>2
<1>4. Leads(p, cand, cand)
  BY <1>2, <1>3, AllOf
<1>5. a.sets => Leads(p, before, cand)
  BY <1>2, <1>4, SetFirst
<1> QED BY <1>1, <1>4, <1>5

LEMMA OneLeads ==
  ASSUME NEW a, NEW cand \in BOOLEAN, NEW before \in BOOLEAN, Of(a, cand),
         a.sets \/ before = cand
  PROVE  Leads(<<a>>, before, cand)
<1>1. PICK p : p = <<a>>
  OBVIOUS
<1>2. p \in Seq(Steps) /\ Len(p) = 1 /\ p[1] = a /\ p # <<>>
  BY <1>1 DEF Of
<1>3. \A i \in 1..1 : Of(p[i], cand)
  BY <1>2
<1>4. Leads(p, cand, cand)
  BY <1>2, <1>3, AllOf
<1>5. a.sets => Leads(p, before, cand)
  BY <1>2, <1>4, SetFirst
<1> QED BY <1>1, <1>4, <1>5

(* Literal programs, step by step.                                         *)
LEMMA SixLead ==
  ASSUME NEW x \in BOOLEAN, NEW y \in BOOLEAN, NEW a \in Steps, NEW b \in Steps,
         NEW c \in Steps, NEW d \in Steps, NEW e \in Steps, NEW f \in Steps,
         Fits(a, x), Fits(b, Leaves(a)), Fits(c, Leaves(b)), Fits(d, Leaves(c)),
         Fits(e, Leaves(d)), Fits(f, Leaves(e)), Leaves(f) = y
  PROVE  Leads(<<a, b, c, d, e, f>>, x, y)
<1>1. PICK p : p = <<a, b, c, d, e, f>>
  OBVIOUS
<1>2. /\ p \in Seq(Steps) /\ Len(p) = 6 /\ p # <<>> /\ p[1] = a /\ p[2] = b
      /\ p[3] = c /\ p[4] = d /\ p[5] = e /\ p[6] = f
  BY <1>1
<1>3. ASSUME NEW i \in 2..6 PROVE Fits(p[i], Leaves(p[i - 1]))
  <2>1. i = 2 \/ i = 3 \/ i = 4 \/ i = 5 \/ i = 6
    OBVIOUS
  <2> QED BY <2>1, <1>2
<1> QED BY <1>1, <1>2, <1>3 DEF Leads

LEMMA EightLead ==
  ASSUME NEW x \in BOOLEAN, NEW y \in BOOLEAN, NEW a \in Steps, NEW b \in Steps,
         NEW c \in Steps, NEW d \in Steps, NEW e \in Steps, NEW f \in Steps,
         NEW g \in Steps, NEW h \in Steps,
         Fits(a, x), Fits(b, Leaves(a)), Fits(c, Leaves(b)), Fits(d, Leaves(c)),
         Fits(e, Leaves(d)), Fits(f, Leaves(e)), Fits(g, Leaves(f)),
         Fits(h, Leaves(g)), Leaves(h) = y
  PROVE  Leads(<<a, b, c, d, e, f, g, h>>, x, y)
<1>1. PICK p : p = <<a, b, c, d, e, f, g, h>>
  OBVIOUS
<1>2. /\ p \in Seq(Steps) /\ Len(p) = 8 /\ p # <<>> /\ p[1] = a /\ p[2] = b
      /\ p[3] = c /\ p[4] = d /\ p[5] = e /\ p[6] = f /\ p[7] = g /\ p[8] = h
  BY <1>1
<1>3. ASSUME NEW i \in 2..8 PROVE Fits(p[i], Leaves(p[i - 1]))
  <2>1. i = 2 \/ i = 3 \/ i = 4 \/ i = 5 \/ i = 6 \/ i = 7 \/ i = 8
    OBVIOUS
  <2> QED BY <2>1, <1>2
<1> QED BY <1>1, <1>2, <1>3 DEF Leads

(* A step that sets the switch fits anywhere.                              *)
LEMMA PairsLead == Leads(TwoPairs, FALSE, TRUE) /\ Leads(ThreePairs, FALSE, TRUE)
<1>1. ASSUME NEW s, NEW c \in BOOLEAN, Of(s, c)
      PROVE  s \in Steps /\ Leaves(s) = c /\ Fits(s, c) /\ (s.sets => \A b : Fits(s, b))
  BY <1>1 DEF Of, Leaves, Fits
<1>2. ASSUME NEW c \in BOOLEAN, NEW task \in {"warmup", "speed"}, NEW n \in Nat
      PROVE  /\ Step(c, task, n) \in Steps /\ Leaves(Step(c, task, n)) = c
             /\ \A b : Fits(Step(c, task, n), b)
             /\ Kept(Step(c, task, n)) \in Steps /\ Leaves(Kept(Step(c, task, n))) = c
             /\ Fits(Kept(Step(c, task, n)), c)
  <2>1. task \in Labelled
    BY Names
  <2> QED BY <2>1, <1>1, AStep
<1>3. Leads(TwoPairs, FALSE, TRUE)
  <2>1. /\ Step(FALSE, "warmup", 0) \in Steps /\ Leaves(Step(FALSE, "warmup", 0)) = FALSE
        /\ Fits(Step(FALSE, "warmup", 0), FALSE)
    BY <1>2
  <2>2. /\ Kept(Step(FALSE, "speed", 1)) \in Steps
        /\ Leaves(Kept(Step(FALSE, "speed", 1))) = FALSE
        /\ Fits(Kept(Step(FALSE, "speed", 1)), FALSE)
    BY <1>2
  <2>3. /\ Step(TRUE, "warmup", 0) \in Steps /\ Leaves(Step(TRUE, "warmup", 0)) = TRUE
        /\ Fits(Step(TRUE, "warmup", 0), FALSE)
    BY <1>2
  <2>4. /\ Kept(Step(TRUE, "speed", 1)) \in Steps
        /\ Leaves(Kept(Step(TRUE, "speed", 1))) = TRUE
        /\ Fits(Kept(Step(TRUE, "speed", 1)), TRUE)
    BY <1>2
  <2>5. /\ Step(FALSE, "speed", 2) \in Steps /\ Leaves(Step(FALSE, "speed", 2)) = FALSE
        /\ Fits(Step(FALSE, "speed", 2), TRUE)
    BY <1>2
  <2>6. /\ Step(TRUE, "speed", 2) \in Steps /\ Leaves(Step(TRUE, "speed", 2)) = TRUE
        /\ Fits(Step(TRUE, "speed", 2), FALSE)
    BY <1>2
  <2>7. Leads(<< Step(FALSE, "warmup", 0), Kept(Step(FALSE, "speed", 1)),
                 Step(TRUE, "warmup", 0), Kept(Step(TRUE, "speed", 1)),
                 Step(FALSE, "speed", 2), Step(TRUE, "speed", 2) >>, FALSE, TRUE)
    BY <2>1, <2>2, <2>3, <2>4, <2>5, <2>6, SixLead
  <2> QED BY <2>7 DEF TwoPairs
<1>4. Leads(ThreePairs, FALSE, TRUE)
  <2>1. ASSUME NEW c \in BOOLEAN, NEW b \in BOOLEAN
        PROVE  /\ Step(c, "warmup", 0) \in Steps /\ Leaves(Step(c, "warmup", 0)) = c
               /\ Fits(Step(c, "warmup", 0), b)
    BY <1>2
  <2>2. ASSUME NEW c \in BOOLEAN, NEW b \in BOOLEAN, NEW n \in Nat
        PROVE  /\ Step(c, "speed", n) \in Steps /\ Leaves(Step(c, "speed", n)) = c
               /\ Fits(Step(c, "speed", n), b)
    BY <1>2
  <2>3. /\ Step(FALSE, "warmup", 0) \in Steps /\ Leaves(Step(FALSE, "warmup", 0)) = FALSE
         /\ Fits(Step(FALSE, "warmup", 0), FALSE)
    BY <2>1
  <2>4. /\ Step(TRUE, "warmup", 0) \in Steps /\ Leaves(Step(TRUE, "warmup", 0)) = TRUE
         /\ Fits(Step(TRUE, "warmup", 0), FALSE)
    BY <2>1
  <2>5. /\ Step(FALSE, "speed", 1) \in Steps /\ Leaves(Step(FALSE, "speed", 1)) = FALSE
         /\ Fits(Step(FALSE, "speed", 1), TRUE)
    BY <2>2
  <2>6. /\ Step(TRUE, "speed", 1) \in Steps /\ Leaves(Step(TRUE, "speed", 1)) = TRUE
         /\ Fits(Step(TRUE, "speed", 1), FALSE)
    BY <2>2
  <2>7. /\ Step(TRUE, "speed", 2) \in Steps /\ Leaves(Step(TRUE, "speed", 2)) = TRUE
         /\ Fits(Step(TRUE, "speed", 2), TRUE)
    BY <2>2
  <2>8. /\ Step(FALSE, "speed", 2) \in Steps /\ Leaves(Step(FALSE, "speed", 2)) = FALSE
         /\ Fits(Step(FALSE, "speed", 2), TRUE)
    BY <2>2
  <2>9. /\ Step(FALSE, "speed", 3) \in Steps /\ Leaves(Step(FALSE, "speed", 3)) = FALSE
         /\ Fits(Step(FALSE, "speed", 3), FALSE)
    BY <2>2
  <2>10. /\ Step(TRUE, "speed", 3) \in Steps /\ Leaves(Step(TRUE, "speed", 3)) = TRUE
         /\ Fits(Step(TRUE, "speed", 3), FALSE)
    BY <2>2
  <2>11. Leads(<< Step(FALSE, "warmup", 0), Step(TRUE, "warmup", 0),
                 Step(FALSE, "speed", 1), Step(TRUE, "speed", 1), Step(TRUE, "speed", 2),
                 Step(FALSE, "speed", 2), Step(FALSE, "speed", 3),
                 Step(TRUE, "speed", 3) >>, FALSE, TRUE)
    BY <2>3, <2>4, <2>5, <2>6, <2>7, <2>8, <2>9, <2>10, EightLead
  <2> QED BY <2>11 DEF ThreePairs
<1> QED BY <1>3, <1>4

LEMMA SixProgramsLead ==
  /\ Leads(WobProgram, FALSE, TRUE) /\ Leads(ProjectionProgram, FALSE, TRUE)
  /\ Leads(MhcProgram, FALSE, TRUE) /\ Leads(NativeProgram, FALSE, TRUE)
  /\ Leads(OptimizationProgram, FALSE, TRUE) /\ Leads(SuiteProgram, FALSE, FALSE)
<1>1. Leads(Quality(TRUE, Tasks), TRUE, TRUE)
  BY TasksType, QualityLeads
<1>2. Leads(Quality(TRUE, <<"smoke", "coding", "json">>), TRUE, TRUE)
  BY QualityLeads, Names, Three
<1>3. Leads(WobProgram, FALSE, TRUE)
  BY PairsLead, TasksLead, Chained DEF WobProgram
<1>4. Leads(ProjectionProgram, FALSE, TRUE)
  BY <1>1, PairsLead, Chained DEF ProjectionProgram
<1>5. Leads(MhcProgram, FALSE, TRUE) /\ Leads(NativeProgram, FALSE, TRUE)
  BY <1>1, PairsLead, Chained DEF MhcProgram, NativeProgram
<1>6. Leads(OptimizationProgram, FALSE, TRUE)
  BY <1>2, PairsLead, Chained DEF OptimizationProgram
<1>7. Leads(SuiteProgram, FALSE, FALSE)
  <2> DEFINE p == Quality(FALSE, <<"forward", "smoke", "warmup">>)
             q == [n \in 1..3 |-> Kept(Step(FALSE, "speed", n))]
             r == Quality(FALSE, <<"coding", "reasoning", "json">>)
  <2>1. Leads(p, FALSE, FALSE) /\ Leads(r, FALSE, FALSE)
    BY QualityLeads, Names, Three
  <2>2. Leads(q, FALSE, FALSE)
    BY SpeedLeads
  <2>3. SuiteProgram = (p \o q) \o r
    BY DEF SuiteProgram
  <2> HIDE DEF p, q, r
  <2>4. Leads(p \o q, FALSE, FALSE)
    BY <2>1, <2>2, Chained
  <2> QED BY <2>1, <2>3, <2>4, Chained
<1> QED BY <1>3, <1>4, <1>5, <1>6, <1>7

LEMMA DsparkLeads ==
  ASSUME NEW cand \in BOOLEAN, NEW text
  PROVE  Leads(DsparkProgram(cand, text), cand, cand)
<1> DEFINE more == <<"smoke", "coding">> \o (IF text THEN <<"text">> ELSE <<>>)
                     \o <<"json", "reasoning">>
           p == Quality(cand, <<"warmup", "functional">>)
           q == [n \in 1..3 |-> Kept(Step(cand, "speed", n))]
           r == Quality(cand, more)
<1>1. more \in Seq(Labelled)
  <2>1. <<"smoke", "coding">> \in Seq(Labelled) /\ <<"json", "reasoning">> \in Seq(Labelled)
    BY Names, Two
  <2>2. (IF text THEN <<"text">> ELSE <<>>) \in Seq(Labelled)
    BY Names, One
  <2> QED BY <2>1, <2>2, Joined
<1> HIDE DEF more
<1>2. Leads(p, cand, cand) /\ Leads(q, cand, cand) /\ Leads(r, cand, cand)
  <2>1. <<"warmup", "functional">> \in Seq(Labelled)
    BY Names, Two
  <2> QED BY <1>1, <2>1, QualityLeads, SpeedLeads
<1>3. DsparkProgram(cand, text) = (p \o q) \o r
  BY DEF DsparkProgram, more
<1> HIDE DEF p, q, r
<1>4. Leads(p \o q, cand, cand)
  BY <1>2, Chained
<1> QED BY <1>2, <1>3, <1>4, Chained

LEMMA FaultLeads == Leads(FaultProgram, FALSE, FALSE)
<1> DEFINE task(i) == <<"warmup", "P1", "P2", "Q1", "Q2", "P3", "control">>[i]
           step(i) == [Kept(Step(FALSE, task(i), 0)) EXCEPT !.saves = i < 7]
<1>1. ASSUME NEW i \in 1..7 PROVE Of(step(i), FALSE)
  <2>1. task(i) \in Labelled
    BY DEF Labelled
  <2> HIDE DEF task
  <2>2. Of(Kept(Step(FALSE, task(i), 0)), FALSE)
    BY <2>1, AStep
  <2>3. ASSUME NEW s, Of(s, FALSE), NEW q \in BOOLEAN
        PROVE  Of([s EXCEPT !.saves = q], FALSE)
    BY <2>3 DEF Of, Steps
  <2>4. (i < 7) \in BOOLEAN
    OBVIOUS
  <2> QED BY <2>2, <2>3, <2>4
<1>2. FaultProgram = [i \in 1..7 |-> step(i)]
  BY DEF FaultProgram
<1> HIDE DEF step
<1>3. FaultProgram \in Seq(Steps) /\ Len(FaultProgram) = 7
  BY FaultType, <1>2
<1>4. \A i \in 1..7 : Of(FaultProgram[i], FALSE)
  BY <1>1, <1>2
<1> QED BY <1>3, <1>4, AllOf

LEMMA ProfileLeads == ASSUME NEW spec PROVE Leads(ProfileProgram(spec), FALSE, FALSE)
<1> DEFINE a == Kept(Step(FALSE, "warmup", 0))
           b == Kept(Step(FALSE, "plain", 0))
           c == Instrumented(Step(TRUE, "instrumented", 0))
           d == Instrumented(Step(TRUE, "capture", 0))
           e == Kept(Step(FALSE, "reasoning", 0))
           p == <<a, b, c>>
           q == IF "capture" \in spec THEN <<d>> ELSE <<>>
           r == IF "skip" \in spec THEN <<>> ELSE <<e>>
<1>1. Of(a, FALSE) /\ Of(b, FALSE) /\ Of(e, FALSE)
  BY AStep, Names
<1>2. /\ c \in Steps /\ Fits(c, FALSE) /\ Leaves(c) = FALSE
      /\ d \in Steps /\ Fits(d, FALSE) /\ Leaves(d) = FALSE
  BY AnInstrumentedStep, Names
<1>3. ProfileProgram(spec) = (p \o q) \o r
  BY DEF ProfileProgram
<1> HIDE DEF a, b, c, d, e
<1>4. Leads(p, FALSE, FALSE)
  <2>1. a \in Steps /\ b \in Steps /\ Fits(a, FALSE) /\ Fits(b, Leaves(a))
          /\ Leaves(b) = FALSE
    BY <1>1 DEF Of, Fits, Leaves
  <2>2. Fits(c, Leaves(b))
    BY <2>1, <1>2, Zenon
  <2>3. PICK t : t = p
    OBVIOUS
  <2>4. t \in Seq(Steps) /\ Len(t) = 3 /\ t # <<>> /\ t[1] = a /\ t[2] = b /\ t[3] = c
    BY <2>3, <2>1, <1>2
  <2> HIDE DEF p
  <2>5. ASSUME NEW i \in 2..3 PROVE Fits(t[i], Leaves(t[i - 1]))
    <3>1. i = 2 \/ i = 3
      OBVIOUS
    <3> QED BY <3>1, <2>4, <2>1, <2>2
  <2> QED BY <2>1, <2>3, <2>4, <2>5, <1>2 DEF Leads
<1>5. Leads(<<>>, FALSE, FALSE)
  BY DEF Leads
<1>6. Leads(q, FALSE, FALSE)
  <2>1. Leads(<<d>>, FALSE, FALSE)
    <3>1. PICK t : t = <<d>>
      OBVIOUS
    <3>2. t \in Seq(Steps) /\ Len(t) = 1 /\ t # <<>> /\ t[1] = d
      BY <3>1, <1>2
    <3>3. \A i \in 2..Len(t) : FALSE
      BY <3>2
    <3> QED BY <3>1, <3>2, <3>3, <1>2 DEF Leads
  <2> QED BY <2>1, <1>5
<1>7. Leads(r, FALSE, FALSE)
  BY <1>1, <1>5, OneLeads
<1> HIDE DEF p, q, r
<1>8. Leads(p \o q, FALSE, FALSE)
  BY <1>4, <1>6, Chained
<1> QED BY <1>3, <1>7, <1>8, Chained

LEMMA ArmLeads ==
  ASSUME NEW cand \in BOOLEAN, NEW n \in Nat, NEW b \in BOOLEAN
  PROVE  Leads(AdviceArm(cand, n), b, cand)
<1> DEFINE p == <<Step(cand, "warmup", n)>>
           tasks == <<"Pfirst", "Prepeat", "Qnew", "Qrepeat">>
<1>1. Leads(p, b, cand)
  BY AStep, Names, OneLeads
<1>2. PICK q : q = [i \in 1..4 |-> Kept(Step(cand, tasks[i], n))]
  OBVIOUS
<1>3. AdviceArm(cand, n) = p \o q
  BY <1>2 DEF AdviceArm
<1>4. \A i \in 1..4 : tasks[i] \in Labelled
  BY DEF Labelled
<1> HIDE DEF p, tasks
<1>5. \A i \in 1..4 : Of(Kept(Step(cand, tasks[i], n)), cand)
  BY <1>4, AStep
<1>6. \A i \in 1..4 : q[i] = Kept(Step(cand, tasks[i], n))
  BY <1>2
<1>7. \A i \in 1..4 : Of(q[i], cand)
  BY <1>5, <1>6
<1>8. q \in Seq(Steps) /\ Len(q) = 4
  <2>1. \A i \in 1..4 : q[i] \in Steps
    BY <1>7 DEF Of
  <2>2. q = [i \in 1..4 |-> q[i]]
    BY <1>2
  <2> QED BY <2>1, <2>2
<1>9. Leads(q, cand, cand)
  BY <1>7, <1>8, AllOf
<1> QED BY <1>1, <1>3, <1>9, Chained

LEMMA AdviceQualityLeads ==
  ASSUME NEW cand \in BOOLEAN, NEW b \in BOOLEAN
  PROVE  Leads(AdviceQuality(cand), b, cand)
<1>1. ASSUME NEW i \in 1..4
      PROVE  LET s == [Step(cand, Tasks[i], 0) EXCEPT !.sets = i = 1]
             IN  Of(s, cand) /\ (i = 1 => s.sets)
  <2>1. Tasks[i] \in Labelled
    BY TasksType DEF Tasks
  <2>2. Of(Step(cand, Tasks[i], 0), cand)
    BY <2>1, AStep
  <2>3. ASSUME NEW s, Of(s, cand), NEW q \in BOOLEAN
        PROVE  Of([s EXCEPT !.sets = q], cand) /\ (q => [s EXCEPT !.sets = q].sets)
    BY <2>3 DEF Of, Steps
  <2>4. (i = 1) \in BOOLEAN
    OBVIOUS
  <2> QED BY <2>2, <2>3, <2>4
<1>2. PICK p : p = AdviceQuality(cand)
  OBVIOUS
<1>3. p = [i \in 1..4 |-> [Step(cand, Tasks[i], 0) EXCEPT !.sets = i = 1]]
  BY <1>2, TasksType DEF AdviceQuality
<1>4. \A i \in 1..4 : p[i] = [Step(cand, Tasks[i], 0) EXCEPT !.sets = i = 1]
  BY <1>3
<1>5. \A i \in 1..4 : Of(p[i], cand) /\ (i = 1 => p[i].sets)
  <2>1. ASSUME NEW i \in 1..4 PROVE Of(p[i], cand) /\ (i = 1 => p[i].sets)
    <3>1. PICK s : s = [Step(cand, Tasks[i], 0) EXCEPT !.sets = i = 1]
      OBVIOUS
    <3>2. Of(s, cand) /\ (i = 1 => s.sets)
      BY <3>1, <1>1
    <3> QED BY <3>1, <3>2, <1>4
  <2> QED BY <2>1
<1>6. p \in Seq(Steps) /\ Len(p) = 4
  <2>1. \A i \in 1..4 : p[i] \in Steps
    BY <1>5 DEF Of
  <2>2. p = [i \in 1..4 |-> p[i]]
    BY <1>3
  <2> QED BY <2>1, <2>2
<1>7. Leads(p, cand, cand)
  BY <1>5, <1>6, AllOf
<1>8. p # <<>> /\ p[1].sets
  <2>1. 1 \in 1..4
    OBVIOUS
  <2>2. p[1].sets
    BY <1>5, <2>1, Zenon
  <2>3. p # <<>>
    BY <1>6
  <2> QED BY <2>2, <2>3
<1> QED BY <1>2, <1>7, <1>8, SetFirst

LEMMA AdviceLeads == Leads(AdviceProgram, FALSE, TRUE)
<1>1. PICK a, b, c, d, e, f, g, h :
        /\ a = AdviceArm(FALSE, 1) /\ b = AdviceArm(TRUE, 1) /\ c = AdviceArm(TRUE, 2)
        /\ d = AdviceArm(FALSE, 2) /\ e = AdviceArm(FALSE, 3) /\ f = AdviceArm(TRUE, 3)
        /\ g = AdviceQuality(FALSE) /\ h = AdviceQuality(TRUE)
  OBVIOUS
<1>2. /\ Leads(a, FALSE, FALSE) /\ Leads(b, FALSE, TRUE) /\ Leads(c, TRUE, TRUE)
      /\ Leads(d, TRUE, FALSE) /\ Leads(e, FALSE, FALSE) /\ Leads(f, FALSE, TRUE)
      /\ Leads(g, TRUE, FALSE) /\ Leads(h, FALSE, TRUE)
  BY <1>1, ArmLeads, AdviceQualityLeads
<1>3. AdviceProgram = ((((((a \o b) \o c) \o d) \o e) \o f) \o g) \o h
  BY <1>1 DEF AdviceProgram
<1>4. Leads(a \o b, FALSE, TRUE)
  BY <1>2, Chained
<1>5. Leads((a \o b) \o c, FALSE, TRUE)
  BY <1>2, <1>4, Chained
<1>6. Leads(((a \o b) \o c) \o d, FALSE, FALSE)
  BY <1>2, <1>5, Chained
<1>7. Leads((((a \o b) \o c) \o d) \o e, FALSE, FALSE)
  BY <1>2, <1>6, Chained
<1>8. Leads(((((a \o b) \o c) \o d) \o e) \o f, FALSE, TRUE)
  BY <1>2, <1>7, Chained
<1>9. Leads((((((a \o b) \o c) \o d) \o e) \o f) \o g, FALSE, FALSE)
  BY <1>2, <1>8, Chained
<1>10. Leads(((((((a \o b) \o c) \o d) \o e) \o f) \o g) \o h, FALSE, TRUE)
  BY <1>2, <1>9, Chained
<1> QED BY <1>3, <1>10

(* Every program finds the switch as its steps want it.                    *)
LEMMA ProgramLeads ==
  ASSUME NEW mode, NEW spec
  PROVE  \E c \in BOOLEAN : Leads(Program(mode, spec), mode = "dspark", c)
<1>1. Leads(DsparkProgram(FALSE, "text" \in spec), FALSE, FALSE)
        /\ Leads(DsparkProgram(TRUE, "text" \in spec), TRUE, TRUE)
  BY DsparkLeads
<1>2. Leads(<<>>, FALSE, FALSE)
  BY DEF Leads
<1>3. CASE mode = "dspark"
  <2>1. Program(mode, spec) = DsparkProgram(TRUE, "text" \in spec) /\ (mode = "dspark") = TRUE
    BY <1>3 DEF Program
  <2> QED BY <2>1, <1>1
<1>4. CASE mode # "dspark"
  <2>1. (mode = "dspark") = FALSE
    BY <1>4
  <2>2. Program(mode, spec) \in
          {<<>>, DsparkProgram(FALSE, "text" \in spec), AdviceProgram, FaultProgram,
           WobProgram, ProjectionProgram, MhcProgram, NativeProgram,
           OptimizationProgram, ProfileProgram(spec), SuiteProgram}
    BY <1>4 DEF Program
  <2> QED BY <2>1, <2>2, <1>1, <1>2, SixProgramsLead, FaultLeads, ProfileLeads, AdviceLeads
<1> QED BY <1>3, <1>4

-----------------------------------------------------------------------------
(* What was switched on at a step, and what the kernel did in it.          *)

(* The switch before step i of the program.                                *)
Before(i) == IF i = 1 THEN now.mode = "dspark" ELSE Leaves(Plan[i - 1])
Turned ==
  \A r \in Ranks :
    /\ pc[r] \in {"join", "ready"} => switch[r] = Before(at[r])
    /\ pc[r] \in {"asked", "answered"} => switch[r] = Plan[at[r]].cand

(* c: the kernel takes the tensors of the rank that has the rows.          *)
TrueRows(results, c) ==
  \A i \in DOMAIN results :
    LET row == results[i]
    IN  row.on = row.label[1] /\ row.ran = (row.on /\ c) /\ (row.stats.ran => c)
Dispatched ==
  \A r \in Ranks :
    /\ pc[r] \in {"load", "join"} => rows[r] = <<>> /\ stats[r] = NoStats
    /\ pc[r] \in {"ready", "asked", "answered"} /\ now.mode \notin ABs => capable[r]
    /\ stats[r].ran => capable[r]
    /\ TrueRows(rows[r], capable[r])

TrueFile(f) ==
  \E c \in BOOLEAN :
    /\ f.mode \notin ABs => c
    /\ f.stats.ran => c
    /\ TrueRows(f.rows, c)
Filed == \A a \in Attempts : TrueFile(copy[a]) /\ \A r \in Ranks : TrueFile(file[a][r])

(* A rank that has gone past its first step has written in this launch, so *)
(* a file of two rows is of no later launch than the other one.            *)
Begun ==
  now.at \in Attempts => \A r \in Ranks :
    at[r] >= 2 /\ Len(Plan) >= 2 => file[now.at][r].epoch = now.epoch
Ahead ==
  \A a \in Attempts, r, s \in Ranks :
    Len(file[a][r].rows) >= 2 => file[a][r].epoch <= file[a][s].epoch

KInv == Turned /\ Dispatched /\ Filed /\ Begun /\ Ahead

(* Step i of the running program, and the switch it wants.                 *)
LEMMA PlanFits ==
  ASSUME NEW i \in 1..Len(Plan)
  PROVE  Plan[i] \in Steps /\ Plan[i].label[1] = Plan[i].cand
           /\ (Plan[i].sets \/ Plan[i].cand = Before(i))
<1>1. PICK c \in BOOLEAN : Leads(Plan, now.mode = "dspark", c)
  BY ProgramLeads DEF Plan
<1>2. Plan \in Seq(Steps) /\ Plan # <<>>
  BY <1>1 DEF Leads
<1>3. Plan[i] \in Steps
  BY <1>2
<1>4. CASE i = 1
  BY <1>1, <1>2, <1>3, <1>4 DEF Leads, Fits, Before
<1>5. CASE i # 1
  <2>1. i \in 2..Len(Plan)
    BY <1>2, <1>5
  <2> QED BY <1>1, <2>1, <1>3, <1>5 DEF Leads, Fits, Before
<1> QED BY <1>4, <1>5

LEMMA NoRows == ASSUME NEW c PROVE TrueRows(<<>>, c)
BY DEF TrueRows

LEMMA TrueNoFile == TrueFile(NoFile)
<1>1. NoFile.rows = <<>> /\ NoFile.mode \notin ABs /\ NoFile.stats.ran = FALSE
  BY DEF NoFile, ABs
<1>2. TrueRows(NoFile.rows, TRUE)
  BY <1>1, NoRows
<1> QED BY <1>1, <1>2 DEF TrueFile

LEMMA KernelStart == Init => KInv
<1> SUFFICES ASSUME Init PROVE KInv
  OBVIOUS
<1>1. Turned
  BY DEF Init, Turned, Ranks
<1>2. Dispatched
  <2>1. \A r \in Ranks : /\ pc[r] = "ended" /\ stats[r] = NoStats /\ capable[r]
                         /\ rows[r] = <<>>
    BY DEF Init
  <2> QED BY <2>1, NoRows DEF Dispatched
<1>3. Filed
  BY TrueNoFile DEF Init, Filed
<1>4. Begun
  BY DEF Init, Begun
<1>5. Ahead
  <2>1. \A a \in Attempts, r \in Ranks : Len(file[a][r].rows) = 0
    BY DEF Init, NoFile
  <2> QED BY <2>1 DEF Ahead
<1> QED BY <1>1, <1>2, <1>3, <1>4, <1>5 DEF KInv

LEMMA KernelLaunch == ASSUME SInv, KInv, Launch PROVE KInv'
<1>1. Turned'
  BY DEF Launch, Turned, Ranks
<1>2. Dispatched'
  <2>1. \A r \in Ranks : /\ pc'[r] = "load" /\ stats'[r] = NoStats
                         /\ rows'[r] = <<>>
    BY DEF Launch
  <2>2. ~NoStats.ran
    BY DEF NoStats, NoFile
  <2> QED BY <2>1, <2>2, NoRows DEF Dispatched
<1>3. Filed'
  BY DEF KInv, Filed, Launch
<1>4. Begun'
  BY DEF Begun, Launch
<1>5. Ahead'
  BY DEF KInv, Ahead, Launch
<1> QED BY <1>1, <1>2, <1>3, <1>4, <1>5 DEF KInv

LEMMA KernelLoad == ASSUME SInv, KInv, NEW r \in Ranks, Load(r) PROVE KInv'
<1>1. Turned'
  <2>1. at[r] = 1
    BY DEF SInv, Progress, Load
  <2>2. switch'[r] = (now.mode = "dspark") /\ pc'[r] \in {"ended", "join"}
    BY DEF SInv, RankType, Load
  <2>3. ASSUME NEW s \in Ranks, s # r PROVE switch'[s] = switch[s] /\ pc'[s] = pc[s]
    BY <2>3 DEF SInv, RankType, Load
  <2> QED BY <2>1, <2>2, <2>3 DEF KInv, Turned, Before, Plan, Load, disk
<1>2. Dispatched'
  BY DEF KInv, Dispatched, SInv, RankType, Load, disk
<1>3. Filed'
  BY DEF KInv, Filed, Load, disk
<1>4. Begun'
  BY DEF KInv, Begun, Load, disk, Plan
<1>5. Ahead'
  BY DEF KInv, Ahead, Load, disk
<1> QED BY <1>1, <1>2, <1>3, <1>4, <1>5 DEF KInv

LEMMA KernelJoin == ASSUME SInv, KInv, Join PROVE KInv'
<1>1. Turned'
  BY DEF KInv, Turned, Before, Plan, Join
<1>2. Dispatched'
  <2>1. \A r \in Ranks : stats'[r] = NoStats /\ rows'[r] = <<>> /\ pc'[r] = "ready"
    BY DEF KInv, Dispatched, Join
  <2>2. ~NoStats.ran
    BY DEF NoStats, NoFile
  <2>3. \A r \in Ranks : now.mode \notin ABs => capable'[r]
    BY DEF Join
  <2>4. now' = now
    BY DEF Join
  <2> QED BY <2>1, <2>2, <2>3, <2>4, NoRows DEF Dispatched
<1>3. Filed'
  BY DEF KInv, Filed, Join
<1>4. Begun'
  BY DEF KInv, Begun, Join, Plan
<1>5. Ahead'
  BY DEF KInv, Ahead, Join
<1> QED BY <1>1, <1>2, <1>3, <1>4, <1>5 DEF KInv

LEMMA KernelAsk == ASSUME SInv, KInv, NEW r \in Ranks, Ask(r) PROVE KInv'
<1>0. /\ pc[r] = "ready" /\ at[r] <= Len(Plan) /\ at' = at /\ rows' = rows
      /\ pc' = [pc EXCEPT ![r] = "asked"]
      /\ switch' = IF Plan[at[r]].sets
                   THEN [switch EXCEPT ![r] = Plan[at[r]].cand] ELSE switch
      /\ stats' = stats \/ stats' = [stats EXCEPT ![r] = NoStats]
      /\ UNCHANGED <<now, file, copy, capable>>
  BY DEF Ask, StepOf, Plan, disk
<1>1. Turned'
  <2>1. at[r] \in 1..Len(Plan)
    BY <1>0, ProgramType DEF SInv, RankType, Plan
  <2>2. Plan[at[r]].sets \/ Plan[at[r]].cand = Before(at[r])
    BY <2>1, PlanFits
  <2>3. switch[r] = Before(at[r])
    BY <1>0 DEF KInv, Turned
  <2>4. switch'[r] = Plan[at[r]].cand /\ pc'[r] = "asked"
    BY <1>0, <2>2, <2>3 DEF SInv, RankType
  <2>5. ASSUME NEW s \in Ranks, s # r PROVE switch'[s] = switch[s] /\ pc'[s] = pc[s]
    BY <1>0, <2>5 DEF SInv, RankType
  <2> QED BY <1>0, <2>4, <2>5 DEF KInv, Turned, Before, Plan
<1>2. Dispatched'
  <2>1. ~NoStats.ran
    BY DEF NoStats, NoFile
  <2>2. ASSUME NEW s \in Ranks
        PROVE  /\ stats'[s] = stats[s] \/ stats'[s] = NoStats
               /\ pc'[s] = pc[s] \/ (pc'[s] = "asked" /\ pc[s] = "ready")
    BY <1>0 DEF SInv, RankType
  <2> QED BY <1>0, <2>1, <2>2 DEF KInv, Dispatched
<1>3. Filed'
  BY <1>0 DEF KInv, Filed
<1>4. Begun'
  BY <1>0 DEF KInv, Begun, Plan
<1>5. Ahead'
  BY <1>0 DEF KInv, Ahead
<1> QED BY <1>1, <1>2, <1>3, <1>4, <1>5 DEF KInv

LEMMA KernelGenerate == ASSUME SInv, KInv, Generate PROVE KInv'
<1>1. Turned'
  BY DEF KInv, Turned, Before, Plan, Generate, disk
<1>2. Dispatched'
  <2>1. ASSUME NEW r \in Ranks PROVE stats'[r].ran => capable[r]
    <3>1. stats'[r] = Counted(r)
      BY DEF Generate
    <3>2. stats[r] \in Stats /\ (stats[r].ran => capable[r])
      BY DEF SInv, RankType, KInv, Dispatched
    <3>3. Counted(r).ran => capable[r]
      <4>1. CASE switch[r]
        <5>1. Counted(r).ran = (stats[r].ran \/ Runs(r))
          BY <4>1 DEF Counted
        <5> QED BY <5>1, <3>2 DEF Runs
      <4>2. CASE ~switch[r]
        BY <3>2, <4>2 DEF Counted
      <4> QED BY <4>1, <4>2
    <3> QED BY <3>1, <3>3
  <2>2. \A r \in Ranks : pc[r] = "asked" /\ pc'[r] = "answered"
    BY DEF Generate
  <2>3. rows' = rows /\ capable' = capable /\ now' = now
    BY DEF Generate, disk
  <2> QED BY <2>1, <2>2, <2>3 DEF KInv, Dispatched
<1>3. Filed'
  BY DEF KInv, Filed, Generate, disk
<1>4. Begun'
  BY DEF KInv, Begun, Generate, disk, Plan
<1>5. Ahead'
  BY DEF KInv, Ahead, Generate, disk
<1> QED BY <1>1, <1>2, <1>3, <1>4, <1>5 DEF KInv

(* Steps that end ranks and write nothing.                                 *)
LEMMA KernelEnd ==
  ASSUME SInv, KInv, UNCHANGED <<disk, at, switch, stats, rows>>,
         \A r \in Ranks : pc'[r] = pc[r] \/ pc'[r] = "ended"
  PROVE  KInv'
<1> USE DEF KInv, disk
<1>1. Turned'
  BY DEF Turned, Before, Plan
<1>2. Dispatched'
  BY DEF Dispatched
<1>3. Filed'
  BY DEF Filed
<1>4. Begun' /\ Ahead'
  BY DEF Begun, Ahead, Plan
<1> QED BY <1>1, <1>2, <1>3, <1>4

LEMMA KernelFetch == ASSUME SInv, KInv, NEW a \in Attempts, Fetch(a) PROVE KInv'
<1> USE DEF KInv, Fetch
<1>1. Turned'
  BY DEF Turned, Before, Plan
<1>2. Dispatched'
  BY DEF Dispatched
<1>3. Filed'
  BY DEF Filed, Ranks, SInv, CopyType
<1>4. Begun' /\ Ahead'
  BY DEF Begun, Ahead, Plan
<1> QED BY <1>1, <1>2, <1>3, <1>4

LEMMA OneMore ==
  ASSUME NEW results \in Results, NEW c \in BOOLEAN, TrueRows(results, c),
         NEW row \in RowSet, row.on = row.label[1], row.ran = (row.on /\ c),
         row.stats.ran => c
  PROVE  TrueRows(Append(results, row), c)
<1>1. PICK more : more = Append(results, row)
  OBVIOUS
<1>2. /\ DOMAIN more = 1..(Len(results) + 1) /\ Len(results) \in Nat
      /\ DOMAIN results = 1..Len(results)
      /\ \A i \in 1..Len(results) : more[i] = results[i]
      /\ more[Len(results) + 1] = row
  BY <1>1 DEF Results, RowSet
<1>3. ASSUME NEW i \in DOMAIN more
      PROVE  /\ more[i].on = more[i].label[1] /\ more[i].ran = (more[i].on /\ c)
             /\ (more[i].stats.ran => c)
  <2>1. CASE i = Len(results) + 1
    BY <1>2, <2>1
  <2>2. CASE i # Len(results) + 1
    <3>1. i \in DOMAIN results
      BY <1>2, <2>2
    <3>2. more[i] = results[i]
      BY <1>2, <3>1
    <3> QED BY <3>1, <3>2 DEF TrueRows
  <2> QED BY <2>1, <2>2
<1> QED BY <1>1, <1>3 DEF TrueRows

(* Rank r writes f of the running launch.                                  *)
LEMMA FiledKeeps ==
  ASSUME NEW r \in Ranks, NEW f, SInv, Filed, TrueFile(f), copy' = copy,
         file' = [file EXCEPT ![now.at][r] = f]
  PROVE  Filed'
<1>1. ASSUME NEW a \in Attempts, NEW s \in Ranks
      PROVE  file'[a][s] = IF a = now.at /\ s = r THEN f ELSE file[a][s]
  BY <1>1 DEF SInv, FileType
<1> QED BY <1>1 DEF Filed

LEMMA AheadKeeps ==
  ASSUME NEW r \in Ranks, NEW f \in Files, SInv, Ahead, f.epoch = now.epoch,
         file' = [file EXCEPT ![now.at][r] = f],
         now.at \in Attempts /\ Len(f.rows) >= 2 =>
           \A s \in Ranks \ {r} : file[now.at][s].epoch = now.epoch
  PROVE  Ahead'
<1>1. \A a \in Attempts, s \in Ranks :
        file'[a][s] = IF a = now.at /\ s = r THEN f ELSE file[a][s]
  BY DEF SInv, FileType
<1>2. now.epoch \in Nat /\ \A a \in Attempts, s \in Ranks :
        file[a][s].epoch \in Nat /\ file[a][s].epoch <= now.epoch
  BY DEF SInv, NowType, FileType, Files, Past
<1>3. ASSUME NEW a \in Attempts, NEW p \in Ranks, NEW q \in Ranks,
             Len(file'[a][p].rows) >= 2
      PROVE  file'[a][p].epoch <= file'[a][q].epoch
  <2>1. CASE a # now.at
    BY <1>1, <1>3, <2>1 DEF Ahead
  <2>2. CASE a = now.at /\ p = r
    BY <1>1, <1>2, <1>3, <2>2
  <2>3. CASE a = now.at /\ p # r /\ q = r
    BY <1>1, <1>2, <2>3
  <2>4. CASE a = now.at /\ p # r /\ q # r
    BY <1>1, <1>3, <2>4 DEF Ahead
  <2> QED BY <2>1, <2>2, <2>3, <2>4
<1> QED BY <1>3 DEF Ahead

LEMMA KernelRecord == ASSUME SInv, SInv', KInv, NEW r \in Ranks, Record(r) PROVE KInv'
<1> DEFINE row == [label |-> StepOf(r).label, token |-> token[r],
                   ran |-> Runs(r), stats |-> stats[r], on |-> switch[r]]
           results == Append(rows[r], row)
           f == Document(r, "running", results)
<1>1. /\ at[r] \in 1..Len(Plan) /\ Len(Plan) \in Nat /\ StepOf(r) = Plan[at[r]]
      /\ at[r] < Len(Plan) => StepOf(r).saves
  BY ProgramType DEF Record, RecordIf, SInv, Progress, RankType, StepOf, Plan
<1>2. /\ StepOf(r) \in Steps /\ StepOf(r).label[1] = StepOf(r).cand
      /\ switch[r] = StepOf(r).cand
  BY <1>1, PlanFits DEF KInv, Turned, Record, RecordIf
<1>3. row \in RowSet
  BY <1>2 DEF SInv, RankType, RowSet, Steps, Runs
<1>4. /\ row.on = row.label[1] /\ row.ran = (row.on /\ capable[r])
      /\ row.stats.ran => capable[r]
  BY <1>2 DEF Runs, KInv, Dispatched
<1> HIDE DEF row
<1>5. /\ rows[r] \in Results /\ Len(rows[r]) = at[r] - 1
      /\ capable[r] \in BOOLEAN /\ TrueRows(rows[r], capable[r])
  BY DEF SInv, RowsType, Progress, Tells, RankType, KInv, Dispatched
<1>6. TrueRows(results, capable[r])
  BY <1>3, <1>4, <1>5, OneMore
<1>7. Len(results) = at[r] /\ results \in Results
  BY <1>1, <1>3, <1>5 DEF Results, RowSet
<1> HIDE DEF results
<1>8. /\ pc[r] = "answered"
      /\ rows' = [rows EXCEPT ![r] = results]
      /\ at' = [at EXCEPT ![r] = at[r] + 1] /\ pc' = [pc EXCEPT ![r] = "ready"]
      /\ switch' = IF StepOf(r).clears THEN [switch EXCEPT ![r] = FALSE] ELSE switch
      /\ UNCHANGED <<now, copy, capable, stats>>
  BY DEF Record, RecordIf, row, results
<1>9. /\ StepOf(r).saves => file' = [file EXCEPT ![now.at][r] = f]
      /\ ~StepOf(r).saves => file' = file
  <2>1. rows'[r] = results
    BY <1>8 DEF SInv, RowsType
  <2> QED BY <2>1 DEF Record, RecordIf, Written
<1>10. /\ at'[r] = at[r] + 1 /\ pc'[r] = "ready" /\ rows'[r] = results
       /\ switch'[r] = IF StepOf(r).clears THEN FALSE ELSE switch[r]
  BY <1>8 DEF SInv, RankType, RowsType
<1>11. ASSUME NEW s \in Ranks, s # r
       PROVE  /\ at'[s] = at[s] /\ pc'[s] = pc[s] /\ rows'[s] = rows[s]
              /\ switch'[s] = switch[s]
  BY <1>8, <1>11 DEF SInv, RankType, RowsType
<1>12. Plan' = Plan
  BY <1>8 DEF Plan
<1>13. Turned'
  <2>1. switch'[r] = Before(at[r] + 1)
    <3>1. Before(at[r] + 1) = Leaves(Plan[at[r]])
      BY <1>1 DEF Before
    <3>2. Leaves(StepOf(r)) = IF StepOf(r).clears THEN FALSE ELSE StepOf(r).cand
      BY <1>2 DEF Leaves, Steps
    <3> QED BY <3>1, <3>2, <1>1, <1>2, <1>10
  <2>2. ASSUME NEW s \in Ranks
        PROVE  /\ pc'[s] \in {"join", "ready"} => switch'[s] = Before(at'[s])
               /\ pc'[s] \in {"asked", "answered"} => switch'[s] = Plan[at'[s]].cand
    <3>1. CASE s = r
      BY <2>1, <3>1, <1>10
    <3>2. CASE s # r
      BY <3>2, <1>11 DEF KInv, Turned
    <3> QED BY <3>1, <3>2
  <2>3. now' = now
    BY <1>8
  <2>4. ASSUME NEW s \in Ranks
        PROVE  /\ pc'[s] \in {"join", "ready"} =>
                    switch'[s] = IF at'[s] = 1 THEN now'.mode = "dspark"
                                 ELSE Leaves(Plan'[at'[s] - 1])
               /\ pc'[s] \in {"asked", "answered"} => switch'[s] = Plan'[at'[s]].cand
    BY <2>2, <2>3, <1>12 DEF Before
  <2> QED BY <2>4 DEF Turned, Before
<1>14. Dispatched'
  <2>1. ASSUME NEW s \in Ranks
        PROVE  /\ pc'[s] \in {"load", "join"} => rows'[s] = <<>> /\ stats[s] = NoStats
               /\ pc'[s] \in {"ready", "asked", "answered"} /\ now.mode \notin ABs
                    => capable[s]
               /\ TrueRows(rows'[s], capable[s])
    <3>1. CASE s = r
      BY <3>1, <1>6, <1>8, <1>10 DEF KInv, Dispatched
    <3>2. CASE s # r
      BY <3>2, <1>11 DEF KInv, Dispatched
    <3> QED BY <3>1, <3>2
  <2> QED BY <2>1, <1>8 DEF KInv, Dispatched
<1>15. /\ f \in Files /\ f.epoch = now.epoch /\ f.rows = results /\ f.mode = now.mode
       /\ f.stats = stats[r]
  BY <1>7 DEF Document, Files, SInv, NowType, RankType
<1> HIDE DEF f
<1>16. TrueFile(f)
  <2>1. now.mode \notin ABs => capable[r]
    BY <1>8 DEF KInv, Dispatched
  <2> QED BY <2>1, <1>5, <1>6, <1>15 DEF TrueFile, KInv, Dispatched
<1>17. Filed'
  <2>1. CASE StepOf(r).saves
    BY <2>1, <1>8, <1>9, <1>16, FiledKeeps DEF KInv
  <2>2. CASE ~StepOf(r).saves
    BY <2>2, <1>8, <1>9 DEF KInv, Filed
  <2> QED BY <2>1, <2>2
<1>18. Begun'
  <2>1. ASSUME NEW s \in Ranks, now.at \in Attempts, at'[s] >= 2, Len(Plan) >= 2
        PROVE  file'[now.at][s].epoch = now.epoch
    <3>1. CASE s # r
      <4>1. file'[now.at][s] = file[now.at][s] /\ at'[s] = at[s]
        BY <1>9, <1>11, <2>1, <3>1 DEF SInv, FileType
      <4> QED BY <4>1, <2>1 DEF KInv, Begun
    <3>2. CASE s = r /\ StepOf(r).saves
      <4>1. file'[now.at][s] = f
        BY <1>9, <2>1, <3>2 DEF SInv, FileType
      <4> QED BY <4>1, <1>15
    <3>3. CASE s = r /\ ~StepOf(r).saves
      <4>1. at[r] >= 2
        BY <1>1, <2>1, <3>3
      <4> QED BY <4>1, <1>9, <2>1, <3>3 DEF KInv, Begun
    <3> QED BY <3>1, <3>2, <3>3
  <2> QED BY <2>1, <1>8, <1>12 DEF Begun
<1>19. Ahead'
  <2>1. CASE StepOf(r).saves
    <3>1. ASSUME NEW s \in Ranks \ {r}, now.at \in Attempts, Len(f.rows) >= 2
          PROVE  file[now.at][s].epoch = now.epoch
      <4>1. at[s] >= at[r] /\ at[r] >= 2 /\ at[s] \in Nat
        BY <1>1, <1>7, <1>8, <1>15, <3>1 DEF SInv, Pace, RankType
      <4>2. at[s] >= 2 /\ Len(Plan) >= 2
        BY <1>1, <4>1
      <4> QED BY <3>1, <4>2 DEF KInv, Begun
    <3> QED BY <2>1, <3>1, <1>9, <1>15, AheadKeeps DEF KInv
  <2>2. CASE ~StepOf(r).saves
    BY <2>2, <1>9 DEF KInv, Ahead
  <2> QED BY <2>1, <2>2
<1> QED BY <1>13, <1>14, <1>17, <1>18, <1>19 DEF KInv

LEMMA KernelFinish == ASSUME SInv, KInv, NEW r \in Ranks, Finish(r) PROVE KInv'
<1>1. PICK status \in {"smoke_fail", "complete"} :
        file' = [file EXCEPT ![now.at][r] = Document(r, status, rows[r])]
  BY DEF Finish, Written
<1>2. /\ pc[r] = "ready" /\ pc' = [pc EXCEPT ![r] = "ended"]
      /\ UNCHANGED <<now, copy, capable, at, switch, stats, rows>>
  BY DEF Finish
<1> DEFINE f == Document(r, status, rows[r])
<1>3. /\ f \in Files /\ f.epoch = now.epoch /\ f.rows = rows[r] /\ f.mode = now.mode
      /\ f.stats = stats[r]
  BY DEF Document, Files, SInv, NowType, RankType, RowsType
<1>4. Len(rows[r]) = at[r] - 1 /\ Len(Plan) \in Nat /\ at[r] \in 1..(Len(Plan) + 1)
  BY ProgramType DEF SInv, Progress, RankType, Plan, Tells
<1> HIDE DEF f
<1>5. file' = [file EXCEPT ![now.at][r] = f]
  BY <1>1 DEF f
<1>6. Turned' /\ Dispatched'
  <2>1. \A s \in Ranks : pc'[s] = pc[s] \/ pc'[s] = "ended"
    BY <1>2 DEF SInv, RankType
  <2> QED BY <1>2, <2>1 DEF KInv, Turned, Dispatched, Before, Plan
<1>7. Filed'
  <2>1. /\ now.mode \notin ABs => capable[r]
        /\ stats[r].ran => capable[r]
        /\ TrueRows(rows[r], capable[r]) /\ capable[r] \in BOOLEAN
    BY <1>2 DEF KInv, Dispatched, SInv, RankType
  <2>2. TrueFile(f)
    BY <2>1, <1>3 DEF TrueFile
  <2> QED BY <2>2, <1>2, <1>5, FiledKeeps DEF KInv
<1>8. Begun'
  <2>1. ASSUME NEW s \in Ranks, now.at \in Attempts, at[s] >= 2, Len(Plan) >= 2
        PROVE  file'[now.at][s].epoch = now.epoch
    <3>1. file'[now.at][s] = IF s = r THEN f ELSE file[now.at][s]
      BY <1>5, <2>1 DEF SInv, FileType
    <3> QED BY <3>1, <2>1, <1>3 DEF KInv, Begun
  <2> QED BY <2>1, <1>2 DEF Begun, Plan
<1>9. Ahead'
  <2>1. ASSUME NEW s \in Ranks \ {r}, now.at \in Attempts, Len(f.rows) >= 2
        PROVE  file[now.at][s].epoch = now.epoch
    <3>1. at[r] <= at[s] + 1 /\ at[s] \in Nat
      BY DEF SInv, Pace, RankType
    <3>2. at[s] >= 2 /\ Len(Plan) >= 2
      BY <1>3, <1>4, <2>1, <3>1
    <3> QED BY <2>1, <3>2 DEF KInv, Begun
  <2> QED BY <2>1, <1>3, <1>5, AheadKeeps DEF KInv
<1> QED BY <1>6, <1>7, <1>8, <1>9 DEF KInv

(* KInv is an invariant.                                                   *)
THEOREM KernelInvariant == Spec => []KInv
<1>1. SInv /\ SInv' /\ KInv /\ [Next]_vars => KInv'
  <2> SUFFICES ASSUME SInv, SInv', KInv, [Next]_vars PROVE KInv'
    OBVIOUS
  <2>1. CASE Launch BY <2>1, KernelLaunch
  <2>2. CASE Collective BY <2>2, KernelJoin, KernelGenerate DEF Collective
  <2>3. CASE Supervise
    <3>1. \A r \in Ranks : pc'[r] = pc[r] \/ pc'[r] = "ended"
      BY <2>3 DEF Supervise
    <3> QED BY <2>3, <3>1, KernelEnd DEF Supervise
  <2>4. ASSUME NEW r \in Ranks, RankStep(r) PROVE KInv'
    BY <2>4, KernelLoad, KernelAsk, KernelRecord, KernelFinish DEF RankStep
  <2>5. ASSUME NEW r \in Ranks, Crash(r) PROVE KInv'
    <3>1. \A s \in Ranks : pc'[s] = pc[s] \/ pc'[s] = "ended"
      BY <2>5 DEF Crash, SInv, RankType
    <3> QED BY <2>5, <3>1, KernelEnd DEF Crash
  <2>6. CASE \E a \in Attempts : Fetch(a) BY <2>6, KernelFetch
  <2>7. CASE UNCHANGED vars
    BY <2>7, KernelEnd DEF vars, disk
  <2> QED BY <2>1, <2>2, <2>3, <2>4, <2>5, <2>6, <2>7 DEF Next
<1> QED BY KernelStart, <1>1, SuiteInvariant, PTL DEF Spec

(* What has rows of two labels has two rows.                               *)
LEMMA TwoLabels ==
  ASSUME NEW f \in Files, NEW a, NEW b, Has(f, a), Has(f, b), a # b
  PROVE  Len(f.rows) >= 2
<1>1. PICK i \in DOMAIN f.rows : f.rows[i].label = a
  BY DEF Has
<1>2. PICK j \in DOMAIN f.rows : f.rows[j].label = b
  BY DEF Has
<1>3. DOMAIN f.rows = 1..Len(f.rows) /\ Len(f.rows) \in Nat
  BY DEF Files, Results
<1>4. i # j
  BY <1>1, <1>2
<1> QED BY <1>1, <1>2, <1>3, <1>4

(* What both files have when a validator passes them.                      *)
LEMMA SameLabels ==
  ASSUME NEW f, NEW g, NEW label, SameTokens(f, g), Has(f, label)
  PROVE  Has(g, label)
<1>1. PICK i \in DOMAIN f.rows : f.rows[i].label = label
  BY DEF Has
<1>2. label \in Range(Labels(f))
  BY <1>1 DEF Labels, Range
<1> QED BY <1>2 DEF SameTokens

LEMMA QualityHas ==
  ASSUME NEW f, NEW cand, NEW tasks \in Seq(Labelled), QualityPasses(f, cand, tasks),
         NEW i \in 1..Len(tasks)
  PROVE  Has(f, <<cand, tasks[i], 0>>)
BY DEF QualityPasses, Passed

LEMMA SecondOf ==
  ASSUME NEW S, NEW p \in Seq(S), NEW q \in Seq(S), Len(p) = 1, Len(q) = 2
  PROVE  (p \o q)[2] = q[1]
<1>1. 2 \in 1..Len(p) + Len(q) /\ ~(2 <= Len(p)) /\ 2 - Len(p) = 1
  OBVIOUS
<1>2. (p \o q)[2] = q[2 - Len(p)]
  BY <1>1, ConcatProperties, Zenon
<1> QED BY <1>1, <1>2

LEMMA PassesBoth ==
  ASSUME NEW f \in Files, NEW g \in Files, Passes(f, g)
  PROVE  Len(f.rows) >= 2 /\ Len(g.rows) >= 2
<1>1. ASSUME NEW h, NEW cand \in BOOLEAN, QualityPasses(h, cand, Tasks)
      PROVE  Has(h, <<cand, "smoke", 0>>) /\ Has(h, <<cand, "json", 0>>)
  <2>1. Tasks \in Seq(Labelled) /\ Len(Tasks) = 4 /\ Tasks[1] = "smoke" /\ Tasks[3] = "json"
    BY TasksType DEF Tasks
  <2>2. 1 \in 1..Len(Tasks) /\ 3 \in 1..Len(Tasks)
    BY <2>1
  <2>3. Has(h, <<cand, Tasks[1], 0>>) /\ Has(h, <<cand, Tasks[3], 0>>)
    BY <1>1, <2>1, <2>2, QualityHas
  <2> QED BY <2>1, <2>3
<1>2. ASSUME SameTokens(f, g), NEW a, NEW b, a # b, Has(f, a), Has(f, b)
      PROVE  Len(f.rows) >= 2 /\ Len(g.rows) >= 2
  BY <1>2, SameLabels, TwoLabels
<1>3. ASSUME NEW cand \in BOOLEAN PROVE <<cand, "smoke", 0>> # <<cand, "json", 0>>
  OBVIOUS
<1>4. ASSUME SameTokens(f, g), NEW cand \in BOOLEAN, QualityPasses(f, cand, Tasks)
      PROVE  Len(f.rows) >= 2 /\ Len(g.rows) >= 2
  BY <1>4, <1>1, <1>2, <1>3
<1>5. CASE NativePasses(f, g) \/ MhcPasses(f, g) \/ ProjectionPasses(f, g)
  BY <1>5, <1>4 DEF NativePasses, MhcPasses, ProjectionPasses, TwoPairsPass
<1>6. CASE WobPasses(f, g) \/ AdvicePasses(f, g)
  BY <1>6, <1>4 DEF WobPasses, AdvicePasses
<1>7. CASE OptimizationPasses(f, g)
  <2>1. \A cand \in BOOLEAN, n \in 1..2 : Has(f, <<cand, "speed", n>>)
    BY <1>7 DEF OptimizationPasses, HasSpeed
  <2>2. 1 \in 1..2
    OBVIOUS
  <2>3. Has(f, <<TRUE, "speed", 1>>) /\ Has(f, <<FALSE, "speed", 1>>)
    BY <2>1, <2>2, Zenon
  <2>4. <<TRUE, "speed", 1>> # <<FALSE, "speed", 1>>
    OBVIOUS
  <2> QED BY <2>3, <2>4, <1>2, <1>7 DEF OptimizationPasses
<1>8. CASE SuitePasses(f, g)
  <2>1. PICK tasks : tasks = <<"smoke", "reasoning", "json", "coding">>
    OBVIOUS
  <2>2. tasks \in Seq(Labelled) /\ Len(tasks) = 4 /\ tasks[1] = "smoke" /\ tasks[3] = "json"
    BY <2>1 DEF Labelled
  <2>3. QualityPasses(f, FALSE, tasks)
    BY <2>1, <1>8 DEF SuitePasses
  <2>4. 1 \in 1..Len(tasks) /\ 3 \in 1..Len(tasks)
    BY <2>2
  <2>5. Has(f, <<FALSE, tasks[1], 0>>) /\ Has(f, <<FALSE, tasks[3], 0>>)
    BY <2>2, <2>3, <2>4, QualityHas
  <2>6. Has(f, <<FALSE, "smoke", 0>>) /\ Has(f, <<FALSE, "json", 0>>)
    BY <2>2, <2>5
  <2> QED BY <2>6, <1>2, <1>3, <1>8 DEF SuitePasses
<1>9. ASSUME NEW cand \in BOOLEAN, DsparkPasses(f, g, cand)
      PROVE  Len(f.rows) >= 2 /\ Len(g.rows) >= 2
  <2>1. <<"smoke", 0>> \in DsparkTasks /\ <<"json", 0>> \in DsparkTasks
    BY DEF DsparkTasks
  <2>2. PICK a, b : a = <<cand>> \o <<"smoke", 0>> /\ b = <<cand>> \o <<"json", 0>>
    OBVIOUS
  <2>3. Has(f, a) /\ Has(f, b) /\ Has(g, a) /\ Has(g, b)
    BY <1>9, <2>1, <2>2 DEF DsparkPasses
  <2>4. a # b
    <3> DEFINE S == BOOLEAN \cup Labelled \cup Nat
    <3>1. PICK p, q, r : p = <<cand>> /\ q = <<"smoke", 0>> /\ r = <<"json", 0>>
      OBVIOUS
    <3>2. /\ p \in Seq(S) /\ q \in Seq(S) /\ r \in Seq(S)
          /\ Len(p) = 1 /\ Len(q) = 2 /\ Len(r) = 2 /\ q[1] # r[1]
      BY <3>1 DEF Labelled
    <3> HIDE DEF S
    <3>3. (p \o q)[2] = q[1] /\ (p \o r)[2] = r[1]
      BY <3>2, SecondOf
    <3> QED BY <2>2, <3>1, <3>2, <3>3
  <2> QED BY <2>3, <2>4, TwoLabels
<1>10. CASE WidthsPass(f, g)
  BY <1>10, <1>9 DEF WidthsPass
<1> QED BY <1>5, <1>6, <1>7, <1>8, <1>9, <1>10 DEF Passes

(* PassIsOneLaunch: what a validator passes is of one launch on both ranks, *)
(* never rows of a launch that died beside those of another.               *)
THEOREM PassesAreOfOneLaunch == Spec => []PassIsOneLaunch
<1>1. SInv /\ KInv => PassIsOneLaunch
  <2> SUFFICES ASSUME SInv, KInv, NEW a \in Attempts, Passes(file[a][0], file[a][1])
               PROVE  file[a][0].epoch = file[a][1].epoch
    BY DEF PassIsOneLaunch
  <2>1. file[a][0] \in Files /\ file[a][1] \in Files
    BY DEF SInv, FileType, Ranks
  <2>2. Len(file[a][0].rows) >= 2 /\ Len(file[a][1].rows) >= 2
    BY <2>1, PassesBoth
  <2>3. /\ file[a][0].epoch <= file[a][1].epoch
        /\ file[a][1].epoch <= file[a][0].epoch
    BY <2>2 DEF KInv, Ahead, Ranks
  <2> QED BY <2>1, <2>3 DEF Files
<1> QED BY <1>1, SuiteInvariant, KernelInvariant, PTL

(* What a validator asks of a file is enough for the kernel to have taken  *)
(* every row of the candidate.                                             *)
Took(f) == \A i \in DOMAIN f.rows : f.rows[i].ran = f.rows[i].label[1]

LEMMA RowsTyped ==
  ASSUME NEW f \in Files, NEW i \in DOMAIN f.rows
  PROVE  /\ f.rows[i].label[1] \in BOOLEAN /\ f.rows[i].on \in BOOLEAN
         /\ f.rows[i].ran \in BOOLEAN
<1>1. f.rows \in Seq(RowSet)
  BY DEF Files, Results, RowSet
<1>2. f.rows[i] \in RowSet
  BY <1>1
<1> QED BY <1>2 DEF RowSet, LabelSet

LEMMA TookAll ==
  ASSUME NEW f \in Files, TrueFile(f), f.mode \notin ABs \/ f.stats.ran
  PROVE  Took(f)
<1>1. TrueRows(f.rows, TRUE)
  BY DEF TrueFile
<1>2. ASSUME NEW i \in DOMAIN f.rows PROVE f.rows[i].ran = f.rows[i].label[1]
  <2>1. f.rows[i].on = f.rows[i].label[1] /\ f.rows[i].ran = (f.rows[i].on /\ TRUE)
    BY <1>1 DEF TrueRows
  <2> QED BY <2>1, RowsTyped
<1> QED BY <1>2 DEF Took

LEMMA TookWob ==
  ASSUME NEW f \in Files, TrueFile(f), \A i \in DOMAIN f.rows : WobRow(f.rows[i])
  PROVE  Took(f)
<1>1. PICK c \in BOOLEAN : TrueRows(f.rows, c)
  BY DEF TrueFile
<1>2. ASSUME NEW i \in DOMAIN f.rows PROVE f.rows[i].ran = f.rows[i].label[1]
  <2>1. PICK row : row = f.rows[i]
    OBVIOUS
  <2>2. /\ row.on = row.label[1] /\ row.ran = (row.on /\ c) /\ (row.stats.ran => c)
        /\ WobRow(row)
    BY <1>1, <2>1 DEF TrueRows
  <2>3. row.label[1] \in BOOLEAN /\ row.on \in BOOLEAN /\ row.ran \in BOOLEAN
    BY <2>1, RowsTyped
  <2>4. CASE row.label[1]
    <3>1. c
      BY <2>2, <2>4 DEF WobRow
    <3> QED BY <2>1, <2>2, <2>3, <2>4, <3>1
  <2>5. CASE ~row.label[1]
    BY <2>1, <2>2, <2>3, <2>5
  <2> QED BY <2>4, <2>5
<1> QED BY <1>2 DEF Took

LEMMA PassesTook ==
  ASSUME NEW f \in Files, NEW g \in Files, TrueFile(f), TrueFile(g), Passes(f, g)
  PROVE  Took(f) /\ Took(g)
<1>1. CASE NativePasses(f, g) \/ MhcPasses(f, g) \/ ProjectionPasses(f, g)
  <2>1. f.stats.ran /\ g.stats.ran
    BY <1>1 DEF NativePasses, MhcPasses, ProjectionPasses, TwoPairsPass, Executed
  <2> QED BY <2>1, TookAll
<1>2. CASE WobPasses(f, g)
  BY <1>2, TookWob DEF WobPasses
<1>3. CASE OptimizationPasses(f, g) \/ AdvicePasses(f, g) \/ SuitePasses(f, g)
             \/ WidthsPass(f, g) \/ \E cand \in BOOLEAN : DsparkPasses(f, g, cand)
  <2>1. f.mode \notin ABs /\ g.mode \notin ABs
    BY <1>3 DEF OptimizationPasses, AdvicePasses, SuitePasses, WidthsPass, DsparkPasses,
                BothOf, ABs
  <2> QED BY <2>1, TookAll
<1> QED BY <1>1, <1>2, <1>3 DEF Passes

(* PassMeansDispatched: every row of a candidate that passes, on both      *)
(* ranks, was run by its kernel, and no row of the baseline.               *)
THEOREM PassesAreDispatched == Spec => []PassMeansDispatched
<1>1. SInv /\ KInv => PassMeansDispatched
  <2> SUFFICES ASSUME SInv, KInv, NEW a \in Attempts, Passes(file[a][0], copy[a]),
                      NEW f \in {file[a][0], copy[a]}
               PROVE  \A i \in DOMAIN f.rows : f.rows[i].ran = f.rows[i].label[1]
    BY DEF PassMeansDispatched
  <2>1. file[a][0] \in Files /\ copy[a] \in Files
    BY DEF SInv, FileType, CopyType, Ranks
  <2>2. TrueFile(file[a][0]) /\ TrueFile(copy[a])
    BY DEF KInv, Filed, Ranks
  <2>3. Took(f)
    BY <2>1, <2>2, PassesTook
  <2> QED BY <2>3 DEF Took
<1> QED BY <1>1, SuiteInvariant, KernelInvariant, PTL
=============================================================================
