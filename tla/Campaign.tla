------------------------------ MODULE Campaign ------------------------------
(***************************************************************************)
(* The qualification runners of scripts/: each sends the cases of its plan *)
(* to a pair that serves, one after the other, keeps on disk what became   *)
(* of them and writes a verdict at the end.  A request costs minutes of    *)
(* the pair and is evidence, so a runner that is started again must not    *)
(* send what may have been served already.  How a runner guards itself     *)
(* differs: by its terminal.json, by the state of its registry.json, by a  *)
(* state.json of each case, or by its collector, run-ds4-usable-request.py.*)
(*                                                                         *)
(* A runner may be killed between any two steps (an exception nobody       *)
(* catches is the same), a request may be lost, the pair may be restarted  *)
(* under it.  A collector is a process of its own: it may outlive a runner *)
(* that is killed and go on, also while the runner runs again.  One runner *)
(* runs in a behaviour, and never twice at a time; the steps of all are    *)
(* the same, what differs is in the operators of the first part.           *)
(***************************************************************************)
EXTENDS Naturals, Sequences, SequencesExt, FiniteSets

CONSTANTS
  N,                    \* cases of a plan
  MaxLaunches,          \* bound: starts of the runner
  MaxEpoch              \* bound: starts of the pair

ASSUME CampaignAssumption ==
  N \in Nat /\ N >= 3 /\ MaxLaunches \in Nat /\ MaxEpoch \in Nat \ {0}

Cases == 1..N
Starts == 1..MaxLaunches

(* "lost" is any end of a request that left no answer to judge: the pair   *)
(* did not give one, or the collector failed before it asked or after it   *)
(* was answered.  A gate that asks the services and not the pair is a case *)
(* whose answer is what it found.                                          *)
Answers == {"good", "wrong", "lost"}

(* How the runners differ: what refuses a start, what is done at a case of *)
(* which something is on disk, the row of an answer that is not the        *)
(* expected one and whether that completes the case, after which rows no   *)
(* further case is asked for, and what the verdict is about.               *)
OnDisk == {"DIR", "IN_FLIGHT", "TASK", "COMPLETE", "FAILED"}
Always(x) == [d \in OnDisk |-> x]
Plan ==
  [refuses |-> {"terminal"}, found |-> Always("end"), wrong |-> {"FAIL"},
   completes |-> FALSE, ends |-> "never", judged |-> "rows",
   deciding |-> Cases, pair |-> "any", silent |-> "never"]

(* By way of the collector, run-ds4-usable-request.py, which completes a   *)
(* case with any answer.  Three of the runners leave it to the collector   *)
(* to look whether there is something of a case.                           *)
Request == [Plan EXCEPT !.completes = TRUE]
arm ==
  [Request EXCEPT !.refuses = {"registry"}, !.found = Always("send"),
                  !.ends = "failure"]
quality == [Request EXCEPT !.ends = "pairs"]
continuation ==
  [Request EXCEPT !.found = Always("send"), !.ends = "second", !.deciding = {2}]
usable_quality == [Request EXCEPT !.deciding = 1..(N - 1)]
performance == [Request EXCEPT !.ends = "second", !.deciding = {3}]
coding_c ==
  [Request EXCEPT !.found = Always("send"), !.wrong = {"FAIL", "BARRED"},
                  !.ends = "repair", !.judged = "last"]

(* By way of the gateway; nothing is kept of a single case.                *)
Gate == [Plan EXCEPT !.found = Always("send")]
speed_product ==
  [Gate EXCEPT !.refuses = {"terminal", "in_flight"}, !.pair = "steady"]
document_product == Gate
speed_soak ==
  [Gate EXCEPT !.refuses = {"terminal", "in_flight"}, !.ends = "failure",
               !.pair = "epoch"]
document_soak == [Gate EXCEPT !.ends = "failure"]

(* A state.json of each case.  A soak of a day looks at the service only;  *)
(* the panel sends again what failed; the id of a task is kept.            *)
Day ==
  [Plan EXCEPT !.refuses = {}, !.judged = "disk",
               !.found = [Always("skip") EXCEPT !["IN_FLIGHT"] = "end"]]
daily_soak ==
  [Day EXCEPT !.wrong = {"PASS"}, !.completes = TRUE, !.ends = "failure",
              !.pair = "ready", !.silent = "failure"]
daily_panel ==
  [Day EXCEPT !.found = [@ EXCEPT !["FAILED"] = "send"], !.ends = "failure",
              !.silent = "failure"]
acquire == [Day EXCEPT !.found = [@ EXCEPT !["TASK"] = "poll"], !.silent = "always"]

(* A directory of each case.                                               *)
noncoding == [Plan EXCEPT !.refuses = {}, !.found = Always("row")]
resume == [Plan EXCEPT !.refuses = {}]
coding_panel == [Plan EXCEPT !.refuses = {}]

Policies ==
  [arm |-> arm, quality |-> quality, continuation |-> continuation,
   usable_quality |-> usable_quality, performance |-> performance,
   coding_c |-> coding_c, speed_product |-> speed_product,
   document_product |-> document_product, speed_soak |-> speed_soak,
   document_soak |-> document_soak, daily_soak |-> daily_soak,
   daily_panel |-> daily_panel, acquire |-> acquire, noncoding |-> noncoding,
   resume |-> resume, coding_panel |-> coding_panel]

Collected == {"arm", "quality", "continuation", "usable_quality",
              "performance", "coding_c"}
Products == {"speed_product", "document_product"}
Gateway == Products \cup {"speed_soak", "document_soak"}
Daily == {"daily_soak", "daily_panel", "acquire"}
R4 == {"noncoding", "resume", "coding_panel"}
Runners == Collected \cup Gateway \cup Daily \cup R4

VARIABLES
  runner,               \* which one it is
  pc, at,               \* where it is, the case it is at
  rows,                 \* the rows it has, of this start
  disk,                 \* case -> what is on disk of it
  registry, terminal,   \* its two files
  epoch,                \* of the pair
  resident,             \* the epoch the runner holds the pair to
  steady,               \* of a product runner, before it turns the pair off
  sent,                 \* case -> times it was sent
  answer,               \* case -> what the runner was told of the last time
  by,                   \* case -> epoch it was sent to
  launches,
  orphan,               \* start -> the collector that outlived it
  hasty                 \* cases of which a collector had yet to make its mark
                        \* when the runner was started again

vars == <<runner, pc, at, rows, disk, registry, terminal, epoch, resident,
          steady, sent, answer, by, launches, orphan, hasty>>

-----------------------------------------------------------------------------
P == Policies[runner]

(* main, before the first case.                                            *)
Refused ==
  \/ "terminal" \in P.refuses /\ terminal # "none"
  \/ "in_flight" \in P.refuses /\ registry = "IN_FLIGHT"
  \/ "registry" \in P.refuses /\ registry # "none"

(* Fault: only an answer counts as a trace of a case, not its mark.        *)
Answered(c) == disk[c] \in {"COMPLETE", "FAILED"}

(* Whether the collector finds a state.json.                               *)
Marked(c) == disk[c] \notin {"none", "DIR"}

(* Fault: a case that has a directory gets a row, the runner does not end. *)
SeenAsRow(c) == IF disk[c] = "none" \/ runner \in Gateway THEN "send" ELSE "row"

(* What is done at a case: it is sent, skipped, given a row that counts as *)
(* a failure, waited for, or the runner ends.                              *)
Seen(c) == IF disk[c] = "none" THEN "send" ELSE P.found[disk[c]]

(* The runner of the C task tells a candidate it will not run from one it  *)
(* ran.                                                                    *)
RowsOf(a) ==
  CASE a = "good" -> {"PASS"} [] a = "lost" -> {"LOST"} [] OTHER -> P.wrong

(* What is left on disk.                                                   *)
Left(a) ==
  IF a = "good" \/ (a = "wrong" /\ P.completes) THEN "COMPLETE" ELSE "FAILED"

Good(row) == row = "PASS"
AllGood(s) == \A i \in DOMAIN s : Good(s[i])

(* Whether a further case is asked for after these rows.                   *)
GoesOn(s) ==
  s # <<>> =>
    CASE P.ends = "never" -> TRUE
      [] P.ends = "failure" -> Good(Last(s))
      [] P.ends = "pairs" -> Len(s) % 2 = 1 \/ AllGood(s)
      [] P.ends = "second" -> Len(s) < 2 \/ Good(Last(s))
      [] P.ends = "repair" -> Len(s) = 1 /\ Last(s) = "FAIL"

Wanted == at <= N /\ GoesOn(rows)

Passes(row, s) == row \in DOMAIN s /\ Good(s[row])

(* Fault: all are judged by the rows of their last start.                  *)
EarnedByRows(s, ready) == AllGood(s)

(* The verdict when no case is left or wanted: whether the cases passed    *)
(* that decide, and where it is looked at, whether the pair is ready and   *)
(* is the one it was.                                                      *)
Earned(s, ready) ==
  /\ CASE P.judged = "rows" -> \A c \in P.deciding : Passes(c, s)
       [] P.judged = "last" -> Good(Last(s))
       [] P.judged = "disk" -> \A c \in Cases : disk[c] = "COMPLETE"
  /\ CASE P.pair = "ready" -> ready
       [] P.pair = "epoch" -> epoch = resident
       [] P.pair = "steady" -> steady = "same"
       [] P.pair = "any" -> TRUE

(* A soak of a day and a panel that met a failure end without a verdict,   *)
(* the acquisition of the coding tasks has none.                           *)
Silent(s) ==
  P.silent = "always" \/ (P.silent = "failure" /\ ~AllGood(s))

-----------------------------------------------------------------------------
Gone == [case |-> 1, pc |-> "none"]

(* Where a collector is that has not made its mark.                        *)
Unmarked == {"look", "mark"}

Init ==
  /\ runner \in Runners
  /\ pc = "off" /\ at = 1 /\ rows = <<>>
  /\ disk = [c \in Cases |-> "none"]
  /\ registry = "none" /\ terminal = "none"
  /\ epoch = 1 /\ resident = 1 /\ steady = "unknown"
  /\ sent = [c \in Cases |-> 0]
  /\ answer = [c \in Cases |-> "none"]
  /\ by = [c \in Cases |-> 0]
  /\ launches = 0
  /\ orphan = [l \in Starts |-> Gone] /\ hasty = {}

(* main: the guards, the registry, and the identity of the pair.  The      *)
(* daily runners hold it to the epoch that stands in them.                 *)
Launch ==
  /\ pc = "off" /\ ~Refused /\ launches < MaxLaunches
  /\ launches' = launches + 1
  /\ pc' = "next" /\ at' = 1 /\ rows' = <<>> /\ steady' = "unknown"
  /\ resident' = IF runner \in Daily THEN 1 ELSE epoch
  /\ registry' = IF runner \in Gateway \cup {"arm"} THEN "IN_FLIGHT" ELSE registry
  /\ hasty' = hasty \cup {c \in Cases : \E l \in Starts :
                             orphan[l].case = c /\ orphan[l].pc \in Unmarked}
  /\ UNCHANGED <<runner, disk, terminal, epoch, sent, answer, by, orphan>>

Skip ==
  /\ pc = "next" /\ Wanted /\ Seen(at) = "skip"
  /\ at' = at + 1
  /\ UNCHANGED <<runner, pc, rows, disk, registry, terminal, epoch, resident,
                 steady, sent, answer, by, launches, orphan, hasty>>

RefuseReplay ==
  /\ pc = "next" /\ Wanted /\ Seen(at) = "row"
  /\ rows' = Append(rows, "REFUSED")
  /\ at' = at + 1
  /\ UNCHANGED <<runner, pc, disk, registry, terminal, epoch, resident,
                 steady, sent, answer, by, launches, orphan, hasty>>

(* The guard of a case, or the lifecycle that is not the one held to.      *)
End ==
  /\ pc = "next" /\ Wanted
  /\ \/ Seen(at) = "end"
     \/ Seen(at) \in {"send", "poll"} /\ runner \in Daily /\ epoch # resident
  /\ pc' = "off"
  /\ UNCHANGED <<runner, at, rows, disk, registry, terminal, epoch, resident,
                 steady, sent, answer, by, launches, orphan, hasty>>

(* A product runner turns the pair off and on before its last gate; that   *)
(* of DS4-SPEED-001 has looked at the processes just before.               *)
OffAndOn ==
  /\ pc = "next" /\ runner \in Products /\ at = N /\ steady = "unknown"
  /\ steady' = IF epoch = resident THEN "same" ELSE "moved"
  /\ epoch' = epoch + 1
  /\ UNCHANGED <<runner, pc, at, rows, disk, registry, terminal, resident,
                 sent, answer, by, launches, orphan, hasty>>

(* The collector is started.                                               *)
Collect ==
  /\ pc = "next" /\ Wanted /\ Seen(at) = "send" /\ runner \in Collected
  /\ pc' = "look"
  /\ UNCHANGED <<runner, at, rows, disk, registry, terminal, epoch, resident,
                 steady, sent, answer, by, launches, orphan, hasty>>

(* It makes the directory and ends if there is a state.json, which the     *)
(* runner takes for a request that failed.                                 *)
Look ==
  /\ pc = "look"
  /\ IF Marked(at)
     THEN pc' = "next" /\ at' = at + 1 /\ rows' = Append(rows, "REFUSED")
          /\ UNCHANGED disk
     ELSE pc' = "mark" /\ disk' = [disk EXCEPT ![at] = "DIR"]
          /\ UNCHANGED <<at, rows>>
  /\ UNCHANGED <<runner, registry, terminal, epoch, resident, steady, sent,
                 answer, by, launches, orphan, hasty>>

(* The case is marked before it is sent: by the collector, whatever was    *)
(* written since it looked, or by the runner itself.                       *)
Mark ==
  /\ \/ pc = "mark"
     \/ /\ pc = "next" /\ Wanted /\ Seen(at) = "send"
        /\ runner \notin Collected
        /\ runner \in Daily => epoch = resident
        /\ runner \in Products /\ at = N => steady # "unknown"
  /\ disk' = IF runner \in Gateway THEN disk
             ELSE [disk EXCEPT ![at] = "IN_FLIGHT"]
  /\ pc' = "post"
  /\ UNCHANGED <<runner, at, rows, registry, terminal, epoch, resident,
                 steady, sent, answer, by, launches, orphan, hasty>>

Post ==
  /\ pc = "post"
  /\ sent' = [sent EXCEPT ![at] = @ + 1]
  /\ answer' = [answer EXCEPT ![at] = "pending"]
  /\ by' = [by EXCEPT ![at] = epoch]
  /\ pc' = "wait"
  /\ UNCHANGED <<runner, at, rows, disk, registry, terminal, epoch, resident,
                 steady, launches, orphan, hasty>>

(* acquire: the id of the task, by which it is found again.                *)
SaveTask ==
  /\ runner = "acquire"
  /\ \/ pc = "wait" /\ by[at] = epoch
     \/ pc = "next" /\ Wanted /\ Seen(at) = "poll" /\ epoch = resident
  /\ disk' = [disk EXCEPT ![at] = "TASK"]
  /\ pc' = "poll"
  /\ UNCHANGED <<runner, at, rows, registry, terminal, epoch, resident,
                 steady, sent, answer, by, launches, orphan, hasty>>

(* A pair that was restarted does not answer what the last one was asked.  *)
(* The collector looks at the services before it asks, and may fail there. *)
CanCome(a) ==
  \/ pc = "wait" /\ (a = "lost" \/ by[at] = epoch)
  \/ pc = "post" /\ runner \in Collected /\ a = "lost"

Heard(a) ==
  /\ IF runner = "acquire"
     THEN pc = "poll" /\ epoch = resident /\ answer[at] \in {"pending", a} /\ a # "lost"
     ELSE CanCome(a) /\ ~(runner \in Gateway /\ a = "lost")
  /\ answer' = [answer EXCEPT ![at] = a]
  /\ pc' = "save"
  /\ UNCHANGED <<runner, at, rows, disk, registry, terminal, epoch, resident,
                 steady, sent, by, launches, orphan, hasty>>

Save ==
  /\ pc = "save"
  /\ disk' = IF runner \in Gateway THEN disk
             ELSE [disk EXCEPT ![at] = Left(answer[at])]
  /\ \E row \in RowsOf(answer[at]) : rows' = Append(rows, row)
  /\ at' = at + 1
  /\ pc' = "next"
  /\ UNCHANGED <<runner, registry, terminal, epoch, resident, steady, sent,
                 answer, by, launches, orphan, hasty>>

(* The code writes one file after the other; either refuses the next start.*)
Conclude ==
  /\ pc = "next" /\ ~Wanted
  /\ \E ready \in BOOLEAN :
       terminal' = IF Silent(rows) THEN terminal
                   ELSE IF Earned(rows, ready) THEN "PASS" ELSE "FAIL"
  /\ registry' = IF runner \in Gateway \cup {"arm"} THEN "COMPLETE" ELSE registry
  /\ pc' = "off"
  /\ UNCHANGED <<runner, at, rows, disk, epoch, resident, steady, sent, answer,
                 by, launches, orphan, hasty>>

(* With its collector, or without: one that was answered is not followed   *)
(* further, as a case in flight is refused like one that ended.            *)
Crash ==
  /\ pc # "off"
  /\ pc' = "off"
  /\ rows' = <<>>
  /\ \/ UNCHANGED orphan
     \/ /\ runner \in Collected /\ pc \in {"look", "mark", "post", "wait"}
        /\ orphan' = [orphan EXCEPT ![launches] = [case |-> at, pc |-> pc]]
  /\ UNCHANGED <<runner, at, disk, registry, terminal, epoch, resident, steady,
                 sent, answer, by, launches, hasty>>

(* The collector of a runner that was killed goes on: it looks, marks and  *)
(* sends as Look, Mark and Post, beside another of the same case perhaps.  *)
OrphanLooks(l) ==
  /\ orphan[l].pc = "look"
  /\ IF Marked(orphan[l].case)
     THEN orphan' = [orphan EXCEPT ![l] = Gone] /\ UNCHANGED disk
     ELSE /\ orphan' = [orphan EXCEPT ![l] = [@ EXCEPT !.pc = "mark"]]
          /\ disk' = [disk EXCEPT ![orphan[l].case] = "DIR"]
  /\ UNCHANGED <<runner, pc, at, rows, registry, terminal, epoch, resident,
                 steady, sent, answer, by, launches, hasty>>

OrphanMarks(l) ==
  /\ orphan[l].pc = "mark"
  /\ orphan' = [orphan EXCEPT ![l] = [@ EXCEPT !.pc = "post"]]
  /\ disk' = [disk EXCEPT ![orphan[l].case] = "IN_FLIGHT"]
  /\ UNCHANGED <<runner, pc, at, rows, registry, terminal, epoch, resident,
                 steady, sent, answer, by, launches, hasty>>

OrphanPosts(l) ==
  /\ orphan[l].pc = "post"
  /\ orphan' = [orphan EXCEPT ![l] = [@ EXCEPT !.pc = "wait"]]
  /\ sent' = [sent EXCEPT ![orphan[l].case] = @ + 1]
  /\ UNCHANGED <<runner, pc, at, rows, disk, registry, terminal, epoch,
                 resident, steady, answer, by, launches, hasty>>

(* Its answer replaces one the runner has been told of and has not read.   *)
OrphanEnds(l, a) ==
  /\ orphan[l].pc \in {"post", "wait"} /\ (orphan[l].pc = "post" => a = "lost")
  /\ orphan' = [orphan EXCEPT ![l] = Gone]
  /\ disk' = [disk EXCEPT ![orphan[l].case] = Left(a)]
  /\ answer' = IF /\ pc = "save" /\ at = orphan[l].case
                  /\ a # "lost" /\ answer[at] # "lost"
               THEN [answer EXCEPT ![at] = a] ELSE answer
  /\ UNCHANGED <<runner, pc, at, rows, registry, terminal, epoch, resident,
                 steady, sent, by, launches, hasty>>

OrphanDies(l) ==
  /\ orphan[l].pc # "none"
  /\ orphan' = [orphan EXCEPT ![l] = Gone]
  /\ UNCHANGED <<runner, pc, at, rows, disk, registry, terminal, epoch,
                 resident, steady, sent, answer, by, launches, hasty>>

RestartPair ==
  /\ epoch < MaxEpoch
  /\ epoch' = epoch + 1
  /\ UNCHANGED <<runner, pc, at, rows, disk, registry, terminal, resident,
                 steady, sent, answer, by, launches, orphan, hasty>>

Next ==
  \/ Launch \/ Skip \/ RefuseReplay \/ End \/ OffAndOn \/ Collect \/ Look
  \/ Mark \/ Post \/ SaveTask \/ Save \/ Conclude \/ Crash \/ RestartPair
  \/ \E a \in Answers : Heard(a)
  \/ \E l \in Starts : \/ OrphanLooks(l) \/ OrphanMarks(l) \/ OrphanPosts(l)
                        \/ OrphanDies(l) \/ \E a \in Answers : OrphanEnds(l, a)

Spec == Init /\ [][Next]_vars

-----------------------------------------------------------------------------
(* Every variable stays within the values the scripts give it.             *)
TypeOK ==
  /\ runner \in Runners
  /\ pc \in {"off", "next", "look", "mark", "post", "wait", "poll", "save"}
  /\ at \in 1..(N + 1)
  /\ rows \in Seq({"PASS", "FAIL", "BARRED", "LOST", "REFUSED"}) /\ Len(rows) <= N
  /\ disk \in [Cases -> {"none"} \cup OnDisk]
  /\ registry \in {"none", "IN_FLIGHT", "COMPLETE"}
  /\ terminal \in {"none", "PASS", "FAIL"}
  /\ epoch \in Nat \ {0} /\ resident \in 1..epoch
  /\ steady \in {"unknown", "same", "moved"}
  /\ sent \in [Cases -> Nat]
  /\ answer \in [Cases -> Answers \cup {"none", "pending"}]
  /\ by \in [Cases -> 0..epoch]
  /\ launches \in 0..MaxLaunches
  /\ orphan \in [Starts -> [case : Cases, pc : {"none", "look", "mark", "post", "wait"}]]
  /\ hasty \subseteq Cases

(* However often a runner is killed and started again, and whatever        *)
(* collectors of its earlier starts still do, a case is sent once: what    *)
(* was sent may have been served, whether an answer came or not.  The one  *)
(* exception is a runner that was started again while a collector of that  *)
(* case had yet to make its mark (run-ds4-usable-request.py:173-174 looks  *)
(* and then writes): then both may send it.  The panel sends again what    *)
(* failed, the two runners of the document profile look at their           *)
(* terminal.json only.                                                     *)
Resending == {"daily_panel", "document_product", "document_soak"}
SentOnce ==
  runner \notin Resending => \A c \in Cases : sent[c] <= 1 \/ c \in hasty

(* The cases a verdict is about.                                           *)
Deciding ==
  CASE runner = "continuation" -> {2}
    [] runner = "performance" -> {3}
    [] runner = "usable_quality" -> 1..(N - 1)
    [] OTHER -> Cases

(* A PASS is about answers that came: each case the verdict is about was   *)
(* answered as expected (of a soak of a day: answered), over all starts;   *)
(* a soak was served by one pair (that of a day: but for its last case), a *)
(* product runner by one pair before it turned it off and by another after.*)
PassIsEarned ==
  terminal = "PASS" =>
    /\ IF runner = "coding_c" THEN \E c \in Cases : answer[c] = "good"
       ELSE \A c \in Deciding :
              answer[c] \in IF runner = "daily_soak" THEN {"good", "wrong"} ELSE {"good"}
    /\ runner = "speed_soak" => \A c, d \in Cases : by[c] = by[d]
    /\ runner = "daily_soak" => \A c \in 1..(N - 1) : by[c] = 1
    /\ runner \in Products => by[N] > by[N - 1]
    /\ runner = "speed_product" => \A c, d \in 1..(N - 1) : by[c] = by[d]

(* A FAIL is about this start's requests: one was answered otherwise than  *)
(* expected, or left no answer, or the pair was restarted where that is    *)
(* looked at.  It is never the work of the replay guard alone, which in    *)
(* the other runners makes rows that fail, unless the runner was started   *)
(* again over a collector that had yet to make its mark.                   *)
Judging == Runners \ {"continuation", "coding_c", "noncoding", "daily_soak"}
FailIsReal ==
  terminal = "FAIL" /\ runner \in Judging =>
    \/ \E c \in Cases : answer[c] \in {"wrong", "lost"}
    \/ runner = "speed_soak" /\ epoch # resident
    \/ runner = "speed_product" /\ steady = "moved"
    \/ hasty # {}
=============================================================================
