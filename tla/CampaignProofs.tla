-------------------------- MODULE CampaignProofs --------------------------
(***************************************************************************)
(* Proofs about Campaign, for any number of cases, starts of the runner    *)
(* and starts of the pair: its types, that no case is sent twice, though   *)
(* the collectors of earlier starts go on, and that a verdict was earned.  *)
(***************************************************************************)
EXTENDS Campaign, TLAPS

RowSet == {"PASS", "FAIL", "BARRED", "LOST", "REFUSED"}

(* The rows are of cases before the one the runner is at.                  *)
RowsOK ==
  /\ rows \in Seq(RowSet) /\ Len(rows) < at
  /\ pc \in {"look", "mark", "post", "wait", "poll", "save"} => at <= N

(* A start sends each case once at the most, and in their order.           *)
OncePerStart ==
  runner \notin Collected =>
    /\ \A c \in Cases : sent[c] <= launches
    /\ pc \in {"next", "post"} => \A c \in Cases : c >= at => sent[c] < launches
    /\ pc \in {"wait", "poll", "save"} => \A c \in Cases : c > at => sent[c] < launches

FixedOK ==
  /\ runner \in Runners
  /\ pc \in {"off", "next", "look", "mark", "post", "wait", "poll", "save"}
  /\ at \in 1..(N + 1)
  /\ registry \in {"none", "IN_FLIGHT", "COMPLETE"}
  /\ terminal \in {"none", "PASS", "FAIL"}
  /\ steady \in {"unknown", "same", "moved"}

CaseOK ==
  /\ disk \in [Cases -> {"none", "DIR", "IN_FLIGHT", "TASK", "COMPLETE", "FAILED"}]
  /\ answer \in [Cases -> Answers \cup {"none", "pending"}]

EpochOK ==
  /\ epoch \in Nat \ {0} /\ resident \in 1..epoch
  /\ by \in [Cases -> 0..epoch]

CountOK ==
  /\ sent \in [Cases -> Nat]
  /\ launches \in 0..MaxLaunches

Orphans == [case : Cases, pc : {"none", "look", "mark", "post", "wait"}]
OrphanOK ==
  /\ orphan \in [Starts -> Orphans]
  /\ hasty \subseteq Cases

(* Only the collector makes a directory and outlives its runner.           *)
Alone ==
  runner \notin Collected =>
    /\ pc \notin {"look", "mark"} /\ hasty = {}
    /\ \A l \in Starts : orphan[l].pc = "none"
    /\ \A c \in Cases : disk[c] # "DIR"

(* A runner that looks at the case's file has marked what it sends, and    *)
(* never takes a marked case for one to send.                              *)
Marking == (Daily \cup R4) \ {"daily_panel"}
MarkedFirst ==
  runner \in Marking =>
    /\ \A c \in Cases : sent[c] <= 1
    /\ \A c \in Cases : disk[c] = "none" => sent[c] = 0
    /\ pc = "post" => sent[at] = 0 /\ disk[at] # "none"

(* A collector that the runner left behind before its mark is of a hasty   *)
(* case as soon as the runner goes on, and so are two of them of one case. *)
LeftBehind ==
  /\ pc # "off" => \A l \in Starts : orphan[l].pc \in Unmarked => orphan[l].case \in hasty
  /\ \A k, l \in Starts :
       /\ k # l /\ orphan[k].case = orphan[l].case
       /\ orphan[k].pc \in Unmarked /\ orphan[l].pc \in Unmarked
       => orphan[k].case \in hasty

(* What a collector sends is marked, and the mark stays.                   *)
SentIsMarked ==
  runner \in Collected =>
    /\ \A c \in Cases : sent[c] > 0 => Marked(c)
    /\ \A l \in Starts : orphan[l].pc \in {"post", "wait"} => Marked(orphan[l].case)
    /\ pc \in {"post", "wait", "save"} => Marked(at)

(* Of a case that is not hasty one collector comes to its mark, and none   *)
(* that has yet to send is of a case that was sent.                        *)
OneComes ==
  runner \in Collected =>
    /\ \A c \in Cases : sent[c] <= 1 \/ c \in hasty
    /\ \A l \in Starts : orphan[l].case \notin hasty =>
         /\ orphan[l].pc = "mark" => ~Marked(orphan[l].case)
         /\ orphan[l].pc = "post" => sent[orphan[l].case] = 0
    /\ at \notin hasty =>
         /\ pc = "mark" => ~Marked(at)
         /\ pc = "post" => sent[at] = 0
         /\ pc = "post" => \A l \in Starts : orphan[l].pc = "post" => orphan[l].case # at
    /\ \A k, l \in Starts :
         /\ k # l /\ orphan[k].case = orphan[l].case
         /\ orphan[k].pc = "post" /\ orphan[l].pc = "post"
         => orphan[k].case \in hasty

(* A runner that keeps nothing of a case starts once: a registry that is   *)
(* in flight or a verdict refuses every later start.                       *)
Guarded == {"speed_product", "speed_soak"}
StartsOnce ==
  runner \in Guarded =>
    /\ launches <= 1
    /\ registry = "none" => launches = 0
    /\ registry = "COMPLETE" => terminal # "none"

CInv == FixedOK /\ CaseOK /\ EpochOK /\ CountOK /\ OrphanOK /\ RowsOK
          /\ OncePerStart /\ Alone /\ MarkedFirst /\ LeftBehind
          /\ SentIsMarked /\ OneComes /\ StartsOnce

-----------------------------------------------------------------------------
(* The table of the runners.                                               *)

LEMMA RunnersAre ==
  Runners = {"arm", "quality", "continuation", "usable_quality", "performance",
             "coding_c", "speed_product", "document_product", "speed_soak",
             "document_soak", "daily_soak", "daily_panel", "acquire",
             "noncoding", "resume", "coding_panel"}
BY DEF Runners, Collected, Gateway, Products, Daily, R4

(* What the proofs use of it: what a wrong answer is called, what is done   *)
(* at a case that was found, what refuses a start, what is judged.         *)
PolicyOK(r) ==
  /\ Policies[r].wrong \subseteq RowSet
  /\ r # "daily_soak" => "PASS" \notin Policies[r].wrong
  /\ r \in Marking => \A d \in OnDisk : Policies[r].found[d] # "send"
  /\ r \in Daily \cup R4 => Policies[r].found["COMPLETE"] \notin {"send", "poll"}
  /\ r \in Gateway => \A d \in OnDisk : Policies[r].found[d] = "send"
  /\ r \in Daily => \A d \in OnDisk : Policies[r].found[d] # "row"
  /\ r \notin Daily => \A d \in OnDisk : Policies[r].found[d] # "skip"
  /\ r \in Gateway \cup (Collected \ {"arm"}) => "terminal" \in Policies[r].refuses
  /\ r \in Guarded => /\ "in_flight" \in Policies[r].refuses
                      /\ Policies[r].silent = "never"

JudgedOK(r) ==
  /\ r \notin Daily \cup {"coding_c"} =>
       /\ Policies[r].judged = "rows"
       /\ Policies[r].deciding = CASE r = "continuation" -> {2}
                                  [] r = "performance" -> {3}
                                  [] r = "usable_quality" -> 1..(N - 1)
                                  [] OTHER -> Cases
  /\ r = "coding_c" => Policies[r].judged = "last"
  /\ r \in Daily => /\ Policies[r].judged = "disk"
                    /\ r # "daily_soak" => ~Policies[r].completes
  /\ r \in Products => Policies[r].ends = "never"
  /\ r = "speed_product" => Policies[r].pair = "steady"
  /\ r = "speed_soak" => Policies[r].pair = "epoch"
  /\ r = "daily_soak" => Policies[r].found["IN_FLIGHT"] = "end"

LEMMA PolicyFacts == ASSUME NEW r \in Runners PROVE PolicyOK(r)
<1> USE DEF PolicyOK, Policies, Plan, Always, OnDisk, RowSet,
       Marking, Guarded, Collected, Gateway, Products, Daily, R4
<1>1. CASE r = "arm"
  <2>1. Policies[r] = arm
    BY <1>1
  <2>2. arm.wrong = Request.wrong /\ arm.found = Always("send")
    BY DEF arm, Request
  <2>3. Policies[r].wrong \subseteq RowSet
    BY <2>1, <2>2 DEF Request
  <2>4. /\ r \notin Gateway /\ r \notin Daily /\ r \notin R4
        /\ r \notin Guarded /\ r \notin Marking
        /\ r \notin Gateway \cup (Collected \ {"arm"})
    BY <1>1
  <2>5. \A d \in OnDisk : Policies[r].found[d] = "send"
    BY <2>1, <2>2
  <2>6. "PASS" \notin Policies[r].wrong
    BY <2>1, <2>2 DEF Request
  <2> HIDE DEF Policies, Plan, Always, OnDisk, RowSet, Marking, Guarded, Collected,
             Gateway, Products, Daily, R4
  <2>7. \A d \in OnDisk : Policies[r].found[d] # "skip"
    BY <2>5
  <2> QED BY <1>1, <2>3, <2>4, <2>6, <2>7
<1>2. CASE r = "quality"
  BY <1>2, ZenonT(60) DEF Request, quality
<1>3. CASE r = "continuation"
  BY <1>3, ZenonT(60) DEF Request, continuation
<1>4. CASE r = "usable_quality"
  BY <1>4, ZenonT(60) DEF Request, usable_quality
<1>5. CASE r = "performance"
  BY <1>5, ZenonT(60) DEF Request, performance
<1>6. CASE r = "coding_c"
  BY <1>6, ZenonT(60) DEF Request, coding_c
<1>7. CASE r = "speed_product"
  BY <1>7, ZenonT(60) DEF Gate, speed_product
<1>8. CASE r = "document_product"
  BY <1>8, ZenonT(60) DEF Gate, document_product
<1>9. CASE r = "speed_soak"
  BY <1>9, ZenonT(60) DEF Gate, speed_soak
<1>10. CASE r = "document_soak"
  BY <1>10, ZenonT(60) DEF Gate, document_soak
<1>11. CASE r = "daily_soak"
  BY <1>11, ZenonT(60) DEF Day, daily_soak
<1>12. CASE r = "daily_panel"
  BY <1>12, ZenonT(60) DEF Day, daily_panel
<1>13. CASE r = "acquire"
  BY <1>13, ZenonT(60) DEF Day, acquire
<1>14. CASE r = "noncoding"
  BY <1>14, ZenonT(60) DEF noncoding
<1>15. CASE r = "resume"
  BY <1>15 DEF resume
<1>16. CASE r = "coding_panel"
  BY <1>16 DEF coding_panel
<1> HIDE DEF PolicyOK, Policies, Plan, Always, OnDisk, RowSet,
       Marking, Guarded, Collected, Gateway, Products, Daily, R4
<1> QED
  BY <1>1, <1>2, <1>3, <1>4, <1>5, <1>6, <1>7, <1>8,
     <1>9, <1>10, <1>11, <1>12, <1>13, <1>14, <1>15, <1>16, RunnersAre

LEMMA JudgedFacts == ASSUME NEW r \in Runners PROVE JudgedOK(r)
<1> USE DEF JudgedOK, Policies, Plan, Always, OnDisk, Gateway, Products, Daily
<1>1. CASE r = "arm"
  BY <1>1 DEF Request, arm
<1>2. CASE r = "quality"
  BY <1>2 DEF Request, quality
<1>3. CASE r = "continuation"
  BY <1>3 DEF Request, continuation
<1>4. CASE r = "usable_quality"
  BY <1>4 DEF Request, usable_quality
<1>5. CASE r = "performance"
  BY <1>5 DEF Request, performance
<1>6. CASE r = "coding_c"
  BY <1>6 DEF Request, coding_c
<1>7. CASE r = "speed_product"
  BY <1>7 DEF Gate, speed_product
<1>8. CASE r = "document_product"
  BY <1>8 DEF Gate, document_product
<1>9. CASE r = "speed_soak"
  BY <1>9 DEF Gate, speed_soak
<1>10. CASE r = "document_soak"
  BY <1>10 DEF Gate, document_soak
<1>11. CASE r = "daily_soak"
  BY <1>11 DEF Day, daily_soak
<1>12. CASE r = "daily_panel"
  BY <1>12 DEF Day, daily_panel
<1>13. CASE r = "acquire"
  BY <1>13 DEF Day, acquire
<1>14. CASE r = "noncoding"
  BY <1>14 DEF noncoding
<1>15. CASE r = "resume"
  BY <1>15 DEF resume
<1>16. CASE r = "coding_panel"
  BY <1>16 DEF coding_panel
<1> HIDE DEF JudgedOK, Policies, Plan, Always, OnDisk, Gateway, Products, Daily
<1> QED
  BY <1>1, <1>2, <1>3, <1>4, <1>5, <1>6, <1>7, <1>8,
     <1>9, <1>10, <1>11, <1>12, <1>13, <1>14, <1>15, <1>16, RunnersAre

(* What is judged, and by what.                                            *)
JudgingOK(r) ==
  /\ r \in Judging => \A d \in OnDisk : Policies[r].found[d] # "row"
  /\ r \in (Judging \cap Collected) \ {"arm"} =>
       \A d \in OnDisk : Policies[r].found[d] # "send"
  /\ r \in Judging \ Daily =>
       Policies[r].ends \in {"never", "failure", "pairs", "second"}
  /\ r \in Judging \ {"speed_soak", "speed_product"} => Policies[r].pair = "any"
  /\ r \in Judging => Policies[r].judged \in {"rows", "disk"}
  /\ r = "arm" => "registry" \in Policies[r].refuses
  /\ r = "acquire" => Policies[r].silent = "always"
  /\ r = "daily_panel" => /\ Policies[r].silent = "failure"
                          /\ Policies[r].ends = "failure"
                          /\ Policies[r].found["FAILED"] = "send"
                          /\ Policies[r].found["IN_FLIGHT"] = "end"

LEMMA JudgingFacts == ASSUME NEW r \in Runners PROVE JudgingOK(r)
<1> USE DEF JudgingOK, Policies, Plan, Always, OnDisk, Judging, Daily, Collected
<1>1. CASE r = "arm"
  BY <1>1 DEF Request, arm
<1>2. CASE r = "quality"
  BY <1>2 DEF Request, quality
<1>3. CASE r = "continuation"
  BY <1>3 DEF Request, continuation
<1>4. CASE r = "usable_quality"
  BY <1>4, ZenonT(60) DEF Request, usable_quality
<1>5. CASE r = "performance"
  BY <1>5, ZenonT(60) DEF Request, performance
<1>6. CASE r = "coding_c"
  BY <1>6, ZenonT(60) DEF Request, coding_c
<1>7. CASE r = "speed_product"
  BY <1>7, ZenonT(60) DEF Gate, speed_product
<1>8. CASE r = "document_product"
  BY <1>8, ZenonT(60) DEF Gate, document_product
<1>9. CASE r = "speed_soak"
  BY <1>9, ZenonT(60) DEF Gate, speed_soak
<1>10. CASE r = "document_soak"
  BY <1>10, ZenonT(60) DEF Gate, document_soak
<1>11. CASE r = "daily_soak"
  BY <1>11, ZenonT(60) DEF Day, daily_soak
<1>12. CASE r = "daily_panel"
  BY <1>12, ZenonT(60) DEF Day, daily_panel
<1>13. CASE r = "acquire"
  BY <1>13, ZenonT(60) DEF Day, acquire
<1>14. CASE r = "noncoding"
  BY <1>14, ZenonT(60) DEF noncoding
<1>15. CASE r = "resume"
  BY <1>15, ZenonT(60) DEF resume
<1>16. CASE r = "coding_panel"
  BY <1>16 DEF coding_panel
<1> HIDE DEF JudgingOK, Policies, Plan, Always, OnDisk, Judging, Daily, Collected
<1> QED
  BY <1>1, <1>2, <1>3, <1>4, <1>5, <1>6, <1>7, <1>8,
     <1>9, <1>10, <1>11, <1>12, <1>13, <1>14, <1>15, <1>16, RunnersAre

LEMMA RowsOfAre ==
  ASSUME NEW a, runner \in Runners PROVE RowsOf(a) \subseteq RowSet
<1>1. PolicyOK(runner)
  BY PolicyFacts
<1>2. P.wrong \subseteq RowSet
  BY <1>1 DEF P, PolicyOK
<1> QED BY <1>2 DEF RowsOf, RowSet

LEMMA AppendRow ==
  ASSUME NEW s \in Seq(RowSet), NEW row \in RowSet
  PROVE  Append(s, row) \in Seq(RowSet) /\ Len(Append(s, row)) = Len(s) + 1
OBVIOUS

(* What is left on disk of a case is a mark.                               *)
LEMMA LeftOnDisk == ASSUME NEW a PROVE Left(a) \in {"COMPLETE", "FAILED"}
BY DEF Left

LEMMA KindsOf ==
  ASSUME runner \in Collected
  PROVE  /\ runner \notin Daily /\ runner \notin R4 /\ runner \notin Marking
         /\ runner \notin Gateway /\ runner \notin Products /\ runner \notin Guarded
BY DEF Collected, Daily, R4, Marking, Gateway, Products, Guarded

(* A case that is sent is not complete; if the runner marks, it is new.    *)
LEMMA MarkIsOpen ==
  ASSUME CInv, Mark
  PROVE  /\ at \in Cases
         /\ runner \in Daily \cup R4 => disk[at] # "COMPLETE"
         /\ runner \in Marking => disk[at] = "none"
         /\ runner \in Collected => pc = "mark"
<1> USE DEF CInv
<1>1. at \in Cases
  BY CampaignAssumption DEF Mark, Wanted, FixedOK, RowsOK, Cases
<1>a. runner \in Collected => pc = "mark"
  BY DEF Mark
<1> SUFFICES ASSUME runner \notin Collected, disk[at] # "none"
             PROVE  /\ runner \in Daily \cup R4 => disk[at] # "COMPLETE"
                    /\ runner \notin Marking
  BY <1>1, <1>a, KindsOf
<1>2. disk[at] \in OnDisk /\ P.found[disk[at]] = "send"
  BY <1>1 DEF Mark, Seen, CaseOK, OnDisk, Alone
<1>3. runner \in Daily \cup R4 => disk[at] # "COMPLETE"
  BY <1>2, PolicyFacts DEF P, PolicyOK, FixedOK
<1>4. runner \notin Marking
  BY <1>2, PolicyFacts DEF P, PolicyOK, FixedOK
<1> QED BY <1>3, <1>4

-----------------------------------------------------------------------------
(* Every step keeps the invariant.                                         *)

LEMMA LaunchKeeps ==
  ASSUME CInv, Launch PROVE CInv'
<1> USE CampaignAssumption DEF CInv, Launch, Cases
<1>1. FixedOK'
  BY DEF FixedOK
<1>2. CaseOK'
  BY DEF CaseOK
<1>3. EpochOK'
  BY DEF EpochOK
<1>4. CountOK'
  BY DEF CountOK
<1>5. RowsOK'
  BY DEF FixedOK, RowsOK
<1>6. OncePerStart'
  <2>1. runner \notin Collected => \A c \in 1..N : sent[c] \in Nat /\ sent[c] <= launches
    BY DEF CountOK, OncePerStart
  <2> QED BY <2>1 DEF OncePerStart, CountOK
<1>7. MarkedFirst'
  BY DEF MarkedFirst
<1>8. StartsOnce'
  <2> SUFFICES ASSUME runner \in Guarded PROVE StartsOnce'
    BY DEF StartsOnce
  <2>1. registry # "IN_FLIGHT" /\ terminal = "none"
    BY PolicyFacts DEF Refused, P, PolicyOK, FixedOK, Guarded, Gateway, Products
  <2>2. launches = 0
    BY <2>1 DEF StartsOnce, FixedOK
  <2>3. registry' = "IN_FLIGHT"
    BY DEF Guarded, Gateway, Products
  <2> QED BY <2>2, <2>3 DEF StartsOnce
<1>9. OrphanOK'
  BY DEF OrphanOK
<1>10. Alone'
  BY DEF Alone, Unmarked
<1>11. LeftBehind'
  BY DEF LeftBehind, OrphanOK, Orphans
<1>12. SentIsMarked'
  BY DEF SentIsMarked, Marked
<1>13. OneComes'
  BY DEF OneComes, Marked
<1> QED BY <1>1, <1>2, <1>3, <1>4, <1>5, <1>6, <1>7, <1>8,
           <1>9, <1>10, <1>11, <1>12, <1>13

LEMMA SkipKeeps ==
  ASSUME CInv, Skip PROVE CInv'
<1> USE CampaignAssumption DEF CInv, Skip, Cases
<1>1. FixedOK'
  BY DEF Wanted, FixedOK
<1>2. CaseOK'
  BY DEF CaseOK
<1>3. EpochOK'
  BY DEF EpochOK
<1>4. CountOK'
  BY DEF CountOK
<1>5. RowsOK'
  BY DEF FixedOK, RowsOK
<1>6. OncePerStart'
  BY DEF OncePerStart, FixedOK
<1>7. MarkedFirst'
  BY DEF MarkedFirst
<1>8. StartsOnce'
  BY DEF StartsOnce
<1>9. OrphanOK'
  BY DEF OrphanOK
<1>10. Alone'
  BY DEF Alone
<1>11. LeftBehind'
  BY DEF LeftBehind
<1>12. SentIsMarked'
  BY DEF SentIsMarked, Marked
<1>13. OneComes'
  BY DEF OneComes, Marked
<1> QED BY <1>1, <1>2, <1>3, <1>4, <1>5, <1>6, <1>7, <1>8,
           <1>9, <1>10, <1>11, <1>12, <1>13

LEMMA RefuseReplayKeeps ==
  ASSUME CInv, RefuseReplay PROVE CInv'
<1> USE CampaignAssumption DEF CInv, RefuseReplay, Cases
<1>1. FixedOK'
  BY DEF Wanted, FixedOK
<1>2. CaseOK'
  BY DEF CaseOK
<1>3. EpochOK'
  BY DEF EpochOK
<1>4. CountOK'
  BY DEF CountOK
<1>5. RowsOK'
  <2>1. "REFUSED" \in RowSet
    BY DEF RowSet
  <2> QED BY <2>1, AppendRow DEF RowsOK, FixedOK
<1>6. OncePerStart'
  BY DEF OncePerStart, FixedOK
<1>7. MarkedFirst'
  BY DEF MarkedFirst
<1>8. StartsOnce'
  BY DEF StartsOnce
<1>9. OrphanOK'
  BY DEF OrphanOK
<1>10. Alone'
  BY DEF Alone
<1>11. LeftBehind'
  BY DEF LeftBehind
<1>12. SentIsMarked'
  BY DEF SentIsMarked, Marked
<1>13. OneComes'
  BY DEF OneComes, Marked
<1> QED BY <1>1, <1>2, <1>3, <1>4, <1>5, <1>6, <1>7, <1>8,
           <1>9, <1>10, <1>11, <1>12, <1>13

LEMMA EndKeeps ==
  ASSUME CInv, End PROVE CInv'
<1> USE CampaignAssumption DEF CInv, End, Cases
<1>1. FixedOK'
  BY DEF FixedOK
<1>2. CaseOK'
  BY DEF CaseOK
<1>3. EpochOK'
  BY DEF EpochOK
<1>4. CountOK'
  BY DEF CountOK
<1>5. RowsOK'
  BY DEF FixedOK, RowsOK
<1>6. OncePerStart'
  BY DEF OncePerStart
<1>7. MarkedFirst'
  BY DEF MarkedFirst
<1>8. StartsOnce'
  BY DEF StartsOnce
<1>9. OrphanOK'
  BY DEF OrphanOK
<1>10. Alone'
  BY DEF Alone
<1>11. LeftBehind'
  BY DEF LeftBehind
<1>12. SentIsMarked'
  BY DEF SentIsMarked, Marked
<1>13. OneComes'
  BY DEF OneComes, Marked
<1> QED BY <1>1, <1>2, <1>3, <1>4, <1>5, <1>6, <1>7, <1>8,
           <1>9, <1>10, <1>11, <1>12, <1>13

LEMMA OffAndOnKeeps ==
  ASSUME CInv, OffAndOn PROVE CInv'
<1> USE CampaignAssumption DEF CInv, OffAndOn, Cases
<1>1. FixedOK'
  BY DEF FixedOK
<1>2. CaseOK'
  BY DEF CaseOK
<1>3. EpochOK'
  BY DEF EpochOK
<1>4. CountOK'
  BY DEF CountOK
<1>5. RowsOK'
  BY DEF FixedOK, RowsOK
<1>6. OncePerStart'
  BY DEF OncePerStart
<1>7. MarkedFirst'
  BY DEF MarkedFirst
<1>8. StartsOnce'
  BY DEF StartsOnce
<1>9. OrphanOK'
  BY DEF OrphanOK
<1>10. Alone'
  BY DEF Alone
<1>11. LeftBehind'
  BY DEF LeftBehind
<1>12. SentIsMarked'
  BY DEF SentIsMarked, Marked
<1>13. OneComes'
  BY DEF OneComes, Marked
<1> QED BY <1>1, <1>2, <1>3, <1>4, <1>5, <1>6, <1>7, <1>8,
           <1>9, <1>10, <1>11, <1>12, <1>13

LEMMA MarkKeeps ==
  ASSUME CInv, Mark PROVE CInv'
<1> USE CampaignAssumption DEF CInv, Mark, Cases
<1>a. at \in Cases /\ (runner \in Collected => pc = "mark")
  BY MarkIsOpen
<1>b. runner \in Collected => disk' = [disk EXCEPT ![at] = "IN_FLIGHT"]
  BY KindsOf
<1>1. FixedOK'
  BY DEF FixedOK
<1>2. CaseOK'
  BY DEF CaseOK
<1>3. EpochOK'
  BY DEF EpochOK
<1>4. CountOK'
  BY DEF CountOK
<1>5. RowsOK'
  BY DEF RowsOK, FixedOK, Wanted
<1>6. OncePerStart'
  BY DEF OncePerStart, Alone
<1>7. MarkedFirst'
  <2> SUFFICES ASSUME runner \in Marking PROVE MarkedFirst'
    BY DEF MarkedFirst
  <2>1. disk[at] = "none"
    BY MarkIsOpen
  <2>2. runner \notin Gateway
    BY DEF Marking, Daily, R4, Gateway, Products
  <2> QED BY <1>a, <2>1, <2>2 DEF MarkedFirst, CaseOK
<1>8. StartsOnce'
  BY DEF StartsOnce
<1>9. OrphanOK'
  BY DEF OrphanOK
<1>10. Alone'
  BY DEF Alone
<1>11. LeftBehind'
  BY DEF LeftBehind
<1>12. SentIsMarked'
  BY <1>a, <1>b DEF SentIsMarked, Marked, CaseOK, OrphanOK, Orphans
<1>13. OneComes'
  <2> SUFFICES ASSUME runner \in Collected PROVE OneComes'
    BY DEF OneComes
  <2>1. at \notin hasty => sent[at] = 0
    BY <1>a DEF OneComes, SentIsMarked, CountOK
  <2>2. at \notin hasty => \A l \in Starts : orphan[l].case = at =>
          orphan[l].pc \notin {"mark", "post"}
    BY <1>a DEF OneComes, SentIsMarked, LeftBehind, Unmarked
  <2> QED BY <1>a, <1>b, <2>1, <2>2 DEF OneComes, Marked, CaseOK, OrphanOK,
             Orphans
<1> QED BY <1>1, <1>2, <1>3, <1>4, <1>5, <1>6, <1>7, <1>8,
           <1>9, <1>10, <1>11, <1>12, <1>13

LEMMA PostKeeps ==
  ASSUME CInv, Post PROVE CInv'
<1> USE CampaignAssumption DEF CInv, Post, Cases
<1>1. FixedOK'
  BY DEF FixedOK
<1>2. CaseOK'
  BY DEF CaseOK
<1>3. EpochOK'
  BY DEF EpochOK, FixedOK, CaseOK, RowsOK
<1>4. CountOK'
  BY DEF FixedOK, CaseOK, EpochOK, CountOK, OncePerStart, RowsOK
<1>5. RowsOK'
  BY DEF FixedOK, RowsOK
<1>6. OncePerStart'
  BY DEF FixedOK, CountOK, RowsOK, OncePerStart
<1>7. MarkedFirst'
  BY DEF MarkedFirst
<1>8. StartsOnce'
  BY DEF StartsOnce
<1>9. OrphanOK'
  BY DEF OrphanOK
<1>10. Alone'
  BY DEF Alone
<1>11. LeftBehind'
  BY DEF LeftBehind
<1>12. SentIsMarked'
  BY DEF SentIsMarked, Marked
<1>13. OneComes'
  BY DEF OneComes, Marked
<1> QED BY <1>1, <1>2, <1>3, <1>4, <1>5, <1>6, <1>7, <1>8,
           <1>9, <1>10, <1>11, <1>12, <1>13

LEMMA SaveTaskKeeps ==
  ASSUME CInv, SaveTask PROVE CInv'
<1> USE CampaignAssumption DEF CInv, SaveTask, Cases
<1>1. FixedOK'
  BY DEF FixedOK
<1>2. CaseOK'
  BY DEF CaseOK
<1>3. EpochOK'
  BY DEF EpochOK
<1>4. CountOK'
  BY DEF CountOK
<1>5. RowsOK'
  BY DEF RowsOK, Wanted
<1>6. OncePerStart'
  BY DEF OncePerStart, FixedOK
<1>7. MarkedFirst'
  BY DEF MarkedFirst
<1>8. StartsOnce'
  BY DEF StartsOnce
<1>9. OrphanOK'
  BY DEF OrphanOK
<1>10. Alone'
  BY DEF Alone
<1>11. LeftBehind'
  BY DEF LeftBehind
<1>12. SentIsMarked'
  BY DEF SentIsMarked, Marked
<1>13. OneComes'
  BY KindsOf DEF OneComes, Daily
<1> QED BY <1>1, <1>2, <1>3, <1>4, <1>5, <1>6, <1>7, <1>8,
           <1>9, <1>10, <1>11, <1>12, <1>13

LEMMA SaveKeeps ==
  ASSUME CInv, Save PROVE CInv'
<1> USE CampaignAssumption DEF CInv, Save, Cases
<1>a. at \in Cases
  BY DEF FixedOK, RowsOK
<1>b. runner \in Collected => disk' = [disk EXCEPT ![at] = Left(answer[at])]
                              /\ Left(answer[at]) \in {"COMPLETE", "FAILED"}
  BY KindsOf, LeftOnDisk
<1>1. FixedOK'
  BY DEF FixedOK, CaseOK, RowsOK
<1>2. CaseOK'
  BY LeftOnDisk DEF CaseOK, FixedOK, RowsOK
<1>3. EpochOK'
  BY DEF EpochOK
<1>4. CountOK'
  BY DEF CountOK
<1>5. RowsOK'
  <2> PICK row \in RowsOf(answer[at]) : rows' = Append(rows, row)
    OBVIOUS
  <2>1. row \in RowSet
    BY RowsOfAre DEF FixedOK
  <2> QED BY <2>1, AppendRow DEF RowsOK, FixedOK
<1>6. OncePerStart'
  BY DEF OncePerStart, FixedOK
<1>7. MarkedFirst'
  BY LeftOnDisk DEF MarkedFirst, CaseOK, FixedOK, RowsOK
<1>8. StartsOnce'
  BY DEF StartsOnce
<1>9. OrphanOK'
  BY DEF OrphanOK
<1>10. Alone'
  BY LeftOnDisk DEF Alone, CaseOK, FixedOK, RowsOK
<1>11. LeftBehind'
  BY DEF LeftBehind
<1>12. SentIsMarked'
  BY <1>a, <1>b DEF SentIsMarked, Marked, CaseOK, OrphanOK, Orphans
<1>13. OneComes'
  BY <1>a, <1>b DEF OneComes, SentIsMarked, Marked, CaseOK, OrphanOK, Orphans
<1> QED BY <1>1, <1>2, <1>3, <1>4, <1>5, <1>6, <1>7, <1>8,
           <1>9, <1>10, <1>11, <1>12, <1>13

LEMMA ConcludeKeeps ==
  ASSUME CInv, Conclude PROVE CInv'
<1> USE CampaignAssumption DEF CInv, Conclude, Cases
<1>1. FixedOK'
  BY DEF FixedOK
<1>2. CaseOK'
  BY DEF CaseOK
<1>3. EpochOK'
  BY DEF EpochOK
<1>4. CountOK'
  BY DEF CountOK
<1>5. RowsOK'
  BY DEF FixedOK, RowsOK
<1>6. OncePerStart'
  BY DEF OncePerStart
<1>7. MarkedFirst'
  BY DEF MarkedFirst
<1>8. StartsOnce'
  <2> SUFFICES ASSUME runner \in Guarded PROVE StartsOnce'
    BY DEF StartsOnce
  <2>1. ~Silent(rows)
    BY PolicyFacts DEF Silent, P, PolicyOK, FixedOK
  <2>2. terminal' # "none"
    BY <2>1
  <2>3. registry' = "COMPLETE"
    BY DEF Guarded, Gateway, Products
  <2> QED BY <2>2, <2>3 DEF StartsOnce
<1>9. OrphanOK'
  BY DEF OrphanOK
<1>10. Alone'
  BY DEF Alone
<1>11. LeftBehind'
  BY DEF LeftBehind
<1>12. SentIsMarked'
  BY DEF SentIsMarked, Marked
<1>13. OneComes'
  BY DEF OneComes, Marked
<1> QED BY <1>1, <1>2, <1>3, <1>4, <1>5, <1>6, <1>7, <1>8,
           <1>9, <1>10, <1>11, <1>12, <1>13

LEMMA CrashKeeps ==
  ASSUME CInv, Crash PROVE CInv'
<1> USE CampaignAssumption DEF CInv, Crash, Cases
<1>a. \/ orphan' = orphan
      \/ /\ runner \in Collected /\ pc \in {"look", "mark", "post", "wait"}
         /\ orphan' = [orphan EXCEPT ![launches] = [case |-> at, pc |-> pc]]
         /\ at \in Cases /\ [case |-> at, pc |-> pc] \in Orphans
  BY DEF RowsOK, FixedOK, Orphans
<1>b. \A l \in Starts :
        \/ orphan'[l] = orphan[l]
        \/ /\ orphan'[l].case = at /\ orphan'[l].pc = pc /\ l = launches
           /\ runner \in Collected /\ pc \in {"look", "mark", "post", "wait"}
  BY <1>a DEF OrphanOK
<1>1. FixedOK'
  BY DEF FixedOK
<1>2. CaseOK'
  BY DEF CaseOK
<1>3. EpochOK'
  BY DEF EpochOK
<1>4. CountOK'
  BY DEF CountOK
<1>5. RowsOK'
  BY DEF FixedOK, RowsOK
<1>6. OncePerStart'
  BY DEF OncePerStart
<1>7. MarkedFirst'
  BY DEF MarkedFirst
<1>8. StartsOnce'
  BY DEF StartsOnce
<1>9. OrphanOK'
  BY <1>a DEF OrphanOK
<1>10. Alone'
  BY DEF Alone
<1>11. LeftBehind'
  BY <1>b DEF LeftBehind
<1>12. SentIsMarked'
  BY <1>b DEF SentIsMarked, Marked
<1>13. OneComes'
  BY <1>b DEF OneComes, Marked
<1> QED BY <1>1, <1>2, <1>3, <1>4, <1>5, <1>6, <1>7, <1>8,
           <1>9, <1>10, <1>11, <1>12, <1>13

LEMMA RestartPairKeeps ==
  ASSUME CInv, RestartPair PROVE CInv'
<1> USE CampaignAssumption DEF CInv, RestartPair, Cases
<1>1. FixedOK'
  BY DEF FixedOK
<1>2. CaseOK'
  BY DEF CaseOK
<1>3. EpochOK'
  BY DEF EpochOK
<1>4. CountOK'
  BY DEF CountOK
<1>5. RowsOK'
  BY DEF FixedOK, RowsOK
<1>6. OncePerStart'
  BY DEF OncePerStart
<1>7. MarkedFirst'
  BY DEF MarkedFirst
<1>8. StartsOnce'
  BY DEF StartsOnce
<1>9. OrphanOK'
  BY DEF OrphanOK
<1>10. Alone'
  BY DEF Alone
<1>11. LeftBehind'
  BY DEF LeftBehind
<1>12. SentIsMarked'
  BY DEF SentIsMarked, Marked
<1>13. OneComes'
  BY DEF OneComes, Marked
<1> QED BY <1>1, <1>2, <1>3, <1>4, <1>5, <1>6, <1>7, <1>8,
           <1>9, <1>10, <1>11, <1>12, <1>13

LEMMA HeardKeeps ==
  ASSUME CInv, NEW a \in Answers, Heard(a) PROVE CInv'
<1> USE CampaignAssumption DEF CInv, Heard, Cases
<1>a. pc \in {"post", "wait", "poll"} /\ (runner \in Collected => pc # "poll")
  BY KindsOf DEF CanCome, Daily
<1>1. FixedOK'
  BY DEF FixedOK
<1>2. CaseOK'
  BY DEF CaseOK
<1>3. EpochOK'
  BY DEF EpochOK
<1>4. CountOK'
  BY DEF CountOK
<1>5. RowsOK'
  BY <1>a DEF FixedOK, RowsOK
<1>6. OncePerStart'
  BY <1>a DEF OncePerStart, CountOK, FixedOK
<1>7. MarkedFirst'
  BY DEF MarkedFirst
<1>8. StartsOnce'
  BY DEF StartsOnce
<1>9. OrphanOK'
  BY DEF OrphanOK
<1>10. Alone'
  BY DEF Alone
<1>11. LeftBehind'
  BY <1>a DEF LeftBehind
<1>12. SentIsMarked'
  BY <1>a DEF SentIsMarked, Marked
<1>13. OneComes'
  BY DEF OneComes, Marked
<1> QED BY <1>1, <1>2, <1>3, <1>4, <1>5, <1>6, <1>7, <1>8,
           <1>9, <1>10, <1>11, <1>12, <1>13

LEMMA CollectKeeps ==
  ASSUME CInv, Collect PROVE CInv'
<1> USE CampaignAssumption DEF CInv, Collect, Cases
<1>1. FixedOK'
  BY DEF FixedOK
<1>2. CaseOK'
  BY DEF CaseOK
<1>3. EpochOK'
  BY DEF EpochOK
<1>4. CountOK'
  BY DEF CountOK
<1>5. RowsOK'
  BY DEF FixedOK, RowsOK, Wanted
<1>6. OncePerStart'
  BY DEF OncePerStart
<1>7. MarkedFirst'
  BY DEF MarkedFirst
<1>8. StartsOnce'
  BY DEF StartsOnce
<1>9. OrphanOK'
  BY DEF OrphanOK
<1>10. Alone'
  BY DEF Alone
<1>11. LeftBehind'
  BY DEF LeftBehind
<1>12. SentIsMarked'
  BY DEF SentIsMarked, Marked
<1>13. OneComes'
  BY DEF OneComes, Marked
<1> QED BY <1>1, <1>2, <1>3, <1>4, <1>5, <1>6, <1>7, <1>8,
           <1>9, <1>10, <1>11, <1>12, <1>13

LEMMA LookKeeps ==
  ASSUME CInv, Look PROVE CInv'
<1> USE CampaignAssumption DEF CInv, Look, Cases
<1>a. at \in Cases /\ runner \in Collected
  BY DEF FixedOK, RowsOK, Alone
<1>b. \A c \in Cases : disk'[c] \notin {"none", "DIR"} <=> disk[c] \notin {"none", "DIR"}
  BY <1>a DEF Marked, CaseOK
<1>1. FixedOK'
  BY <1>a DEF FixedOK
<1>2. CaseOK'
  BY <1>a DEF CaseOK
<1>3. EpochOK'
  BY DEF EpochOK
<1>4. CountOK'
  BY DEF CountOK
<1>5. RowsOK'
  <2>1. "REFUSED" \in RowSet
    BY DEF RowSet
  <2> QED BY <1>a, <2>1, AppendRow DEF RowsOK, FixedOK
<1>6. OncePerStart'
  BY <1>a DEF OncePerStart
<1>7. MarkedFirst'
  BY <1>a, KindsOf DEF MarkedFirst
<1>8. StartsOnce'
  BY DEF StartsOnce
<1>9. OrphanOK'
  BY DEF OrphanOK
<1>10. Alone'
  BY <1>a DEF Alone
<1>11. LeftBehind'
  BY DEF LeftBehind
<1>12. SentIsMarked'
  BY <1>a, <1>b DEF SentIsMarked, Marked, OrphanOK, Orphans
<1>13. OneComes'
  <2>1. pc' = "mark" => at' = at /\ disk'[at] = "DIR"
    BY <1>a DEF CaseOK
  <2>2. pc' # "post" /\ (pc' = "mark" => at' \in Cases /\ disk'[at'] = "DIR")
    BY <1>a, <2>1
  <2> QED BY <1>a, <1>b, <2>2 DEF OneComes, Marked, OrphanOK, Orphans
<1> QED BY <1>1, <1>2, <1>3, <1>4, <1>5, <1>6, <1>7, <1>8,
           <1>9, <1>10, <1>11, <1>12, <1>13

LEMMA OrphanLooksKeeps ==
  ASSUME CInv, NEW l \in Starts, OrphanLooks(l) PROVE CInv'
<1> USE CampaignAssumption DEF CInv, OrphanLooks, Cases
<1>a. runner \in Collected /\ orphan[l].case \in Cases
  BY DEF Alone, OrphanOK, Orphans
<1>b. \A c \in Cases : disk'[c] \notin {"none", "DIR"} <=> disk[c] \notin {"none", "DIR"}
  BY <1>a DEF Marked, CaseOK
<1>c. /\ orphan' \in [Starts -> Orphans]
      /\ \A k \in Starts : k # l => orphan'[k] = orphan[k]
      /\ orphan'[l].pc \in {"none", "mark"}
      /\ orphan'[l].pc = "mark" =>
           orphan'[l].case = orphan[l].case /\ ~Marked(orphan[l].case)
  BY <1>a DEF OrphanOK, Orphans, Gone
<1>d. UNCHANGED <<runner, pc, at, sent, hasty>>
  OBVIOUS
<1>1. FixedOK'
  BY DEF FixedOK
<1>2. CaseOK'
  BY <1>a DEF CaseOK
<1>3. EpochOK'
  BY DEF EpochOK
<1>4. CountOK'
  BY DEF CountOK
<1>5. RowsOK'
  BY DEF FixedOK, RowsOK
<1>6. OncePerStart'
  BY DEF OncePerStart
<1>7. MarkedFirst'
  BY <1>a, KindsOf DEF MarkedFirst
<1>8. StartsOnce'
  BY DEF StartsOnce
<1>9. OrphanOK'
  BY <1>c DEF OrphanOK
<1>10. Alone'
  BY <1>a DEF Alone
<1>11. LeftBehind'
  BY <1>c DEF LeftBehind, Unmarked
<1>12. SentIsMarked'
  <2> HIDE DEF OrphanLooks
  <2> QED BY <1>a, <1>b, <1>c, <1>d DEF SentIsMarked, Marked, OrphanOK,
             Orphans, FixedOK, RowsOK
<1>13. OneComes'
  <2>1. \A k \in Starts :
          /\ orphan'[k].pc = "post" => orphan'[k] = orphan[k]
          /\ orphan'[k].pc = "mark" =>
               /\ orphan'[k].case = orphan[k].case /\ orphan[k].case \in Cases
               /\ orphan[k].pc = "mark" \/ ~Marked(orphan[k].case)
    BY <1>a, <1>c DEF OrphanOK, Orphans
  <2> HIDE DEF OrphanLooks
  <2>2. \A k \in Starts : orphan'[k].case \notin hasty =>
           /\ orphan'[k].pc = "mark" => disk'[orphan'[k].case] \in {"none", "DIR"}
           /\ orphan'[k].pc = "post" => sent[orphan'[k].case] = 0
    BY <1>a, <1>b, <2>1 DEF OneComes, Marked
  <2>3. pc = "mark" /\ at \notin hasty => disk'[at] \in {"none", "DIR"}
    BY <1>a, <1>b DEF OneComes, Marked, FixedOK, RowsOK
  <2> QED BY <1>a, <1>d, <2>1, <2>2, <2>3 DEF OneComes, Marked
<1> QED BY <1>1, <1>2, <1>3, <1>4, <1>5, <1>6, <1>7, <1>8,
           <1>9, <1>10, <1>11, <1>12, <1>13

LEMMA OrphanMarksKeeps ==
  ASSUME CInv, NEW l \in Starts, OrphanMarks(l) PROVE CInv'
<1> USE CampaignAssumption DEF CInv, OrphanMarks, Cases
<1>a. runner \in Collected /\ orphan[l].case \in Cases
  BY DEF Alone, OrphanOK, Orphans
<1>b. /\ orphan' \in [Starts -> Orphans]
      /\ \A k \in Starts : k # l => orphan'[k] = orphan[k]
      /\ orphan'[l].pc = "post" /\ orphan'[l].case = orphan[l].case
  BY DEF OrphanOK, Orphans
<1>c. /\ disk'[orphan[l].case] = "IN_FLIGHT"
      /\ \A c \in Cases : c # orphan[l].case => disk'[c] = disk[c]
  BY <1>a DEF CaseOK
<1>1. FixedOK'
  BY DEF FixedOK
<1>2. CaseOK'
  BY <1>a DEF CaseOK
<1>3. EpochOK'
  BY DEF EpochOK
<1>4. CountOK'
  BY DEF CountOK
<1>5. RowsOK'
  BY DEF FixedOK, RowsOK
<1>6. OncePerStart'
  BY DEF OncePerStart
<1>7. MarkedFirst'
  BY <1>a, KindsOf DEF MarkedFirst
<1>8. StartsOnce'
  BY DEF StartsOnce
<1>9. OrphanOK'
  BY <1>b DEF OrphanOK
<1>10. Alone'
  BY <1>a DEF Alone
<1>11. LeftBehind'
  BY <1>b DEF LeftBehind, Unmarked
<1>12. SentIsMarked'
  BY <1>a, <1>b, <1>c DEF SentIsMarked, Marked, OrphanOK, Orphans, FixedOK,
     RowsOK
<1>13. OneComes'
  <2> SUFFICES ASSUME orphan[l].case \notin hasty PROVE OneComes'
    BY <1>a, <1>b, <1>c DEF OneComes, Marked, OrphanOK, Orphans, FixedOK, RowsOK
  <2>1. sent[orphan[l].case] = 0 /\ ~Marked(orphan[l].case)
    BY <1>a DEF OneComes, SentIsMarked, CountOK
  <2>2. \A k \in Starts : k # l /\ orphan[k].case = orphan[l].case =>
          orphan[k].pc \notin {"mark", "post"}
    BY <1>a, <2>1 DEF SentIsMarked, LeftBehind, Unmarked
  <2>3. at = orphan[l].case => pc \notin {"mark", "post"}
    BY <1>a, <2>1 DEF SentIsMarked, LeftBehind, Unmarked
  <2> QED BY <1>a, <1>b, <1>c, <2>1, <2>2, <2>3
             DEF OneComes, Marked, OrphanOK, Orphans, FixedOK, RowsOK
<1> QED BY <1>1, <1>2, <1>3, <1>4, <1>5, <1>6, <1>7, <1>8,
           <1>9, <1>10, <1>11, <1>12, <1>13

LEMMA OrphanPostsKeeps ==
  ASSUME CInv, NEW l \in Starts, OrphanPosts(l) PROVE CInv'
<1> USE CampaignAssumption DEF CInv, OrphanPosts, Cases
<1>a. runner \in Collected /\ orphan[l].case \in Cases
  BY DEF Alone, OrphanOK, Orphans
<1>b. /\ orphan' \in [Starts -> Orphans]
      /\ \A k \in Starts : k # l => orphan'[k] = orphan[k]
      /\ orphan'[l].pc = "wait" /\ orphan'[l].case = orphan[l].case
  BY DEF OrphanOK, Orphans
<1>c. /\ sent'[orphan[l].case] = sent[orphan[l].case] + 1
      /\ \A c \in Cases : c # orphan[l].case => sent'[c] = sent[c]
  BY <1>a DEF CountOK
<1>1. FixedOK'
  BY DEF FixedOK
<1>2. CaseOK'
  BY DEF CaseOK
<1>3. EpochOK'
  BY DEF EpochOK
<1>4. CountOK'
  BY <1>a DEF CountOK
<1>5. RowsOK'
  BY DEF FixedOK, RowsOK
<1>6. OncePerStart'
  BY <1>a DEF OncePerStart
<1>7. MarkedFirst'
  BY <1>a, KindsOf DEF MarkedFirst
<1>8. StartsOnce'
  BY DEF StartsOnce
<1>9. OrphanOK'
  BY <1>b DEF OrphanOK
<1>10. Alone'
  BY <1>a DEF Alone
<1>11. LeftBehind'
  BY <1>b DEF LeftBehind, Unmarked
<1>12. SentIsMarked'
  BY <1>a, <1>b, <1>c DEF SentIsMarked, Marked, OrphanOK, Orphans, FixedOK,
     RowsOK
<1>13. OneComes'
  BY <1>a, <1>b, <1>c DEF OneComes, Marked, OrphanOK, Orphans, FixedOK, RowsOK,
     CountOK
<1> QED BY <1>1, <1>2, <1>3, <1>4, <1>5, <1>6, <1>7, <1>8,
           <1>9, <1>10, <1>11, <1>12, <1>13

LEMMA OrphanEndsKeeps ==
  ASSUME CInv, NEW l \in Starts, NEW a \in Answers, OrphanEnds(l, a) PROVE CInv'
<1> USE CampaignAssumption DEF CInv, OrphanEnds, Cases
<1>a. runner \in Collected /\ orphan[l].case \in Cases
  BY DEF Alone, OrphanOK, Orphans
<1>b. /\ orphan' \in [Starts -> Orphans]
      /\ \A k \in Starts : k # l => orphan'[k] = orphan[k]
      /\ orphan'[l].pc = "none"
  BY CampaignAssumption DEF OrphanOK, Orphans, Gone
<1>c. /\ disk'[orphan[l].case] \in {"COMPLETE", "FAILED"}
      /\ \A c \in Cases : c # orphan[l].case => disk'[c] = disk[c]
  BY <1>a, LeftOnDisk DEF CaseOK
<1>1. FixedOK'
  BY DEF FixedOK
<1>2. CaseOK'
  BY <1>a, LeftOnDisk DEF CaseOK
<1>3. EpochOK'
  BY DEF EpochOK
<1>4. CountOK'
  BY DEF CountOK
<1>5. RowsOK'
  BY DEF FixedOK, RowsOK
<1>6. OncePerStart'
  BY DEF OncePerStart
<1>7. MarkedFirst'
  BY <1>a, KindsOf DEF MarkedFirst
<1>8. StartsOnce'
  BY DEF StartsOnce
<1>9. OrphanOK'
  BY <1>b DEF OrphanOK
<1>10. Alone'
  BY <1>a DEF Alone
<1>11. LeftBehind'
  BY <1>b DEF LeftBehind, Unmarked
<1>12. SentIsMarked'
  BY <1>a, <1>b, <1>c DEF SentIsMarked, Marked, OrphanOK, Orphans, FixedOK,
     RowsOK
<1>13. OneComes'
  <2>1. Marked(orphan[l].case)
    BY <1>a DEF SentIsMarked
  <2>2. \A c \in Cases : disk'[c] \notin {"none", "DIR"} <=> disk[c] \notin {"none", "DIR"}
    BY <1>c, <2>1 DEF Marked
  <2> QED BY <1>a, <1>b, <2>2 DEF OneComes, Marked, OrphanOK, Orphans, FixedOK,
             RowsOK
<1> QED BY <1>1, <1>2, <1>3, <1>4, <1>5, <1>6, <1>7, <1>8,
           <1>9, <1>10, <1>11, <1>12, <1>13

LEMMA OrphanDiesKeeps ==
  ASSUME CInv, NEW l \in Starts, OrphanDies(l) PROVE CInv'
<1> USE CampaignAssumption DEF CInv, OrphanDies, Cases
<1>a. /\ orphan' \in [Starts -> Orphans]
      /\ \A k \in Starts : k # l => orphan'[k] = orphan[k]
      /\ orphan'[l].pc = "none"
  BY CampaignAssumption DEF OrphanOK, Orphans, Gone
<1>1. FixedOK'
  BY DEF FixedOK
<1>2. CaseOK'
  BY DEF CaseOK
<1>3. EpochOK'
  BY DEF EpochOK
<1>4. CountOK'
  BY DEF CountOK
<1>5. RowsOK'
  BY DEF FixedOK, RowsOK
<1>6. OncePerStart'
  BY DEF OncePerStart
<1>7. MarkedFirst'
  BY DEF MarkedFirst
<1>8. StartsOnce'
  BY DEF StartsOnce
<1>9. OrphanOK'
  BY <1>a DEF OrphanOK
<1>10. Alone'
  BY <1>a DEF Alone
<1>11. LeftBehind'
  BY <1>a DEF LeftBehind, Unmarked
<1>12. SentIsMarked'
  BY <1>a DEF SentIsMarked, Marked
<1>13. OneComes'
  BY <1>a DEF OneComes, Marked
<1> QED BY <1>1, <1>2, <1>3, <1>4, <1>5, <1>6, <1>7, <1>8,
           <1>9, <1>10, <1>11, <1>12, <1>13

LEMMA InitInv == ASSUME Init PROVE CInv
<1> USE CampaignAssumption DEF Init, Cases
<1>1. FixedOK /\ CaseOK /\ EpochOK /\ CountOK
  BY DEF FixedOK, CaseOK, EpochOK, CountOK, Answers
<1>2. RowsOK /\ OncePerStart
  BY DEF RowsOK, OncePerStart
<1>3. MarkedFirst /\ StartsOnce
  BY DEF MarkedFirst, StartsOnce
<1>4. OrphanOK
  BY DEF OrphanOK, Orphans, Gone
<1>5. Alone /\ LeftBehind /\ SentIsMarked /\ OneComes
  BY DEF Alone, LeftBehind, SentIsMarked, OneComes, Unmarked, Gone
<1> QED BY <1>1, <1>2, <1>3, <1>4, <1>5 DEF CInv

(* The inductive invariant: types, the order in which a start sends its    *)
(* cases, and for each kind of guard what it leaves on disk.               *)
THEOREM CampaignInvariant == Spec => []CInv
<1>1. ASSUME CInv, [Next]_vars PROVE CInv'
  <2>1. CASE Launch BY <1>1, <2>1, LaunchKeeps
  <2>2. CASE Skip BY <1>1, <2>2, SkipKeeps
  <2>3. CASE RefuseReplay BY <1>1, <2>3, RefuseReplayKeeps
  <2>4. CASE End BY <1>1, <2>4, EndKeeps
  <2>5. CASE OffAndOn BY <1>1, <2>5, OffAndOnKeeps
  <2>6. CASE Mark BY <1>1, <2>6, MarkKeeps
  <2>7. CASE Post BY <1>1, <2>7, PostKeeps
  <2>8. CASE SaveTask BY <1>1, <2>8, SaveTaskKeeps
  <2>9. CASE Save BY <1>1, <2>9, SaveKeeps
  <2>10. CASE Conclude BY <1>1, <2>10, ConcludeKeeps
  <2>11. CASE Crash BY <1>1, <2>11, CrashKeeps
  <2>12. CASE RestartPair BY <1>1, <2>12, RestartPairKeeps
  <2>13. CASE \E a \in Answers : Heard(a) BY <1>1, <2>13, HeardKeeps
  <2>14. CASE Collect BY <1>1, <2>14, CollectKeeps
  <2>15. CASE Look BY <1>1, <2>15, LookKeeps
  <2>16. CASE \E l \in Starts : OrphanLooks(l) BY <1>1, <2>16, OrphanLooksKeeps
  <2>17. CASE \E l \in Starts : OrphanMarks(l) BY <1>1, <2>17, OrphanMarksKeeps
  <2>18. CASE \E l \in Starts : OrphanPosts(l) BY <1>1, <2>18, OrphanPostsKeeps
  <2>19. CASE \E l \in Starts : OrphanDies(l) BY <1>1, <2>19, OrphanDiesKeeps
  <2>20. CASE \E l \in Starts : \E a \in Answers : OrphanEnds(l, a)
    BY <1>1, <2>20, OrphanEndsKeeps
  <2>21. CASE UNCHANGED vars
    BY <1>1, <2>21 DEF vars, CInv, FixedOK, CaseOK, EpochOK, CountOK, OrphanOK,
         RowsOK, OncePerStart, Alone, MarkedFirst, LeftBehind, SentIsMarked,
         OneComes, StartsOnce, Cases, Marked
  <2> QED
    BY <1>1, <2>1, <2>2, <2>3, <2>4, <2>5, <2>6, <2>7, <2>8, <2>9, <2>10,
       <2>11, <2>12, <2>13, <2>14, <2>15, <2>16, <2>17, <2>18, <2>19, <2>20,
       <2>21 DEF Next
<1> QED BY InitInv, <1>1, PTL DEF Spec

(* Every variable of a runner keeps its type, for any plan: in particular  *)
(* no case is sent more often than the runner was started, and the rows    *)
(* never outnumber the cases.                                              *)
THEOREM CampaignTypeCorrect == Spec => []TypeOK
<1>1. ASSUME CInv PROVE TypeOK
  <2>1. rows \in Seq({"PASS", "FAIL", "BARRED", "LOST", "REFUSED"}) /\ Len(rows) <= N
    BY <1>1, CampaignAssumption DEF CInv, RowsOK, RowSet, FixedOK
  <2> QED BY <1>1, <2>1 DEF CInv, FixedOK, CaseOK, EpochOK, CountOK, OrphanOK,
             Orphans,
         OnDisk, TypeOK
<1> QED BY <1>1, CampaignInvariant, PTL

(* No case is sent twice, whatever is killed and started again and         *)
(* whatever collectors of earlier starts still do: but for the three       *)
(* runners that look at no case, and for a case of which a collector had   *)
(* yet to make its mark when the runner was started again.                 *)
THEOREM NoCaseTwice == Spec => []SentOnce
<1>1. ASSUME CInv PROVE SentOnce
  <2> SUFFICES ASSUME runner \notin Resending, NEW c \in Cases PROVE sent[c] <= 1 \/ c \in hasty
    BY DEF SentOnce
  <2> USE <1>1 DEF CInv
  <2>1. runner \in Collected \cup Marking \cup Guarded
    BY RunnersAre DEF FixedOK, Resending, Marking, Guarded, Collected, Daily, R4
  <2>2. CASE runner \in Marking
    BY <2>2 DEF MarkedFirst
  <2>3. CASE runner \in Guarded
    BY <2>3, KindsOf DEF StartsOnce, OncePerStart, CountOK
  <2>4. CASE runner \in Collected
    BY <2>4 DEF OneComes
  <2> QED BY <2>1, <2>2, <2>3, <2>4
<1> QED BY <1>1, CampaignInvariant, PTL

-----------------------------------------------------------------------------
(* What a verdict is about.                                                *)

(* The file of the case a runner is at says so until it is saved.          *)
InFlight ==
  runner \in Daily \cup R4 =>
    /\ pc \in {"post", "wait"} => disk[at] = "IN_FLIGHT"
    /\ pc = "poll" => disk[at] = "TASK"
    /\ pc = "save" => disk[at] \in {"IN_FLIGHT", "TASK"}

(* A case that is complete was answered, and stays.                        *)
CompleteIsAnswered ==
  runner \in Daily \cup R4 => \A c \in Cases : disk[c] = "COMPLETE" =>
    answer[c] = "good" \/ (answer[c] = "wrong" /\ P.completes)

(* A row is of the case of its number, unless the runner skips cases.      *)
RowsAreOfCases ==
  runner \notin Daily =>
    /\ pc # "off" => Len(rows) = at - 1
    /\ \A i \in 1..Len(rows) : rows[i] = "PASS" =>
         answer[i] = "good" /\ (runner \in R4 => disk[i] = "COMPLETE")

(* The soak of a day goes on only over cases that are done, and only while *)
(* the pair is the first: what was done before was served by the first.    *)
Done == {"COMPLETE", "FAILED"}
SoakOrder ==
  runner = "daily_soak" =>
    /\ resident = 1
    /\ pc # "off" => \A c \in Cases : c < at => disk[c] \in Done
    /\ \A c \in Cases : disk[c] # "TASK" /\ (disk[c] \in Done => by[c] >= 1)
    /\ pc \in {"wait", "save"} => by[at] >= 1
    /\ \A c, d \in Cases : c < d /\ disk[d] # "none" => by[c] = 1 /\ disk[c] \in Done

(* Where a verdict or the registry refuses a start, nothing starts after a *)
(* verdict.                                                                *)
Settled ==
  /\ runner \in Gateway \cup Collected => (terminal # "none" => pc = "off")
  /\ runner = "arm" => (terminal # "none" => registry # "none")

(* By way of the gateway, what this start sent was sent to the pair it     *)
(* found or to a later one.                                                *)
SentSince ==
  runner \in Gateway =>
    /\ pc # "off" => \A c \in Cases : c < at => by[c] \in resident..epoch
    /\ pc \in {"wait", "save"} => by[at] \in resident..epoch

(* The last case of a product runner is sent after the pair was turned off *)
(* and on.                                                                 *)
Turned ==
  runner \in Products /\ pc # "off" =>
    /\ steady = "unknown" => at <= N /\ (pc # "next" => at < N)
    /\ steady # "unknown" =>
         /\ at >= N
         /\ \A c \in 1..(N - 1) : by[c] < epoch
         /\ at > N \/ pc \in {"wait", "save"} => \A c \in 1..(N - 1) : by[c] < by[N]
    /\ steady = "same" => \A c \in 1..(N - 1) : by[c] = resident

(* What a PASS was given for, and still holds.                             *)
Decided(c) ==
  answer[c] = "good" /\ (runner \in R4 => disk[c] = "COMPLETE")
PassHolds ==
  terminal = "PASS" =>
    /\ CASE runner = "coding_c" -> \E c \in Cases : Decided(c)
         [] runner \in Daily -> \A c \in Cases : disk[c] = "COMPLETE"
         [] OTHER -> \A c \in Deciding : Decided(c)
    /\ runner = "speed_soak" => \A c, d \in Cases : by[c] = by[d]
    /\ runner \in Products => by[N] > by[N - 1]
    /\ runner = "speed_product" => \A c, d \in 1..(N - 1) : by[c] = by[d]

VInv == InFlight /\ CompleteIsAnswered /\ RowsAreOfCases /\ SoakOrder
          /\ Settled /\ SentSince /\ Turned /\ PassHolds

(* What is found of a case that is not sent.                               *)
LEMMA SeenFound ==
  ASSUME FixedOK, CaseOK, NEW c \in Cases, Seen(c) # "send"
  PROVE  /\ disk[c] \in OnDisk /\ Seen(c) = P.found[disk[c]]
         /\ runner \notin Gateway
<1>1. disk[c] \in OnDisk /\ Seen(c) = P.found[disk[c]]
  BY DEF Seen, CaseOK, OnDisk
<1>2. runner \notin Gateway
  BY <1>1, PolicyFacts DEF P, PolicyOK, FixedOK
<1> QED BY <1>1, <1>2

(* Only an answer as expected makes a row that passes, and it completes.   *)
LEMMA PassIsGood ==
  ASSUME FixedOK, runner # "daily_soak", NEW a, "PASS" \in RowsOf(a)
  PROVE  a = "good"
<1>1. "PASS" \notin P.wrong
  BY PolicyFacts DEF P, PolicyOK, FixedOK
<1> QED BY <1>1 DEF RowsOf

LEMMA CompleteIsGood ==
  ASSUME NEW a
  PROVE  /\ Left(a) = "COMPLETE" => a = "good" \/ (a = "wrong" /\ P.completes)
         /\ a = "good" => Left(a) = "COMPLETE"
BY DEF Left

LEMMA LaunchKeepsVerdict ==
  ASSUME CInv, VInv, Launch PROVE VInv'
<1> USE CampaignAssumption DEF CInv, VInv, Launch, Cases
<1>1. InFlight'
  BY DEF InFlight
<1>2. CompleteIsAnswered'
  BY DEF CompleteIsAnswered, P
<1>3. RowsAreOfCases'
  BY DEF RowsAreOfCases
<1>4. SoakOrder'
  BY DEF SoakOrder, FixedOK, RowsOK, Gateway, Products, Daily
<1>5. SentSince'
  BY DEF SentSince, FixedOK
<1>6. Turned'
  BY DEF Turned
<1>7. PassHolds'
  BY DEF PassHolds, Decided, Deciding
<1>8. Settled'
  <2>1. runner \in Gateway \cup (Collected \ {"arm"}) => terminal = "none"
    BY PolicyFacts DEF Refused, P, PolicyOK, FixedOK
  <2>2. runner = "arm" => terminal = "none"
    BY JudgingFacts DEF Refused, P, JudgingOK, FixedOK, Settled
  <2> QED BY <2>1, <2>2 DEF Settled
<1> QED BY <1>1, <1>2, <1>3, <1>4, <1>5, <1>6, <1>7, <1>8

LEMMA SkipKeepsVerdict ==
  ASSUME CInv, VInv, Skip PROVE VInv'
<1> USE CampaignAssumption DEF CInv, VInv, Skip, Cases
<1>a. at \in Cases
  BY DEF Wanted, FixedOK
<1>b. disk[at] \in OnDisk /\ P.found[disk[at]] = "skip" /\ runner \notin Gateway
  BY <1>a, SeenFound
<1>c. runner \in Daily
  BY <1>b, PolicyFacts DEF P, PolicyOK, FixedOK
<1>d. runner = "daily_soak" => disk[at] # "IN_FLIGHT"
  BY <1>b, JudgedFacts DEF P, JudgedOK, FixedOK
<1>1. InFlight'
  BY DEF InFlight
<1>2. CompleteIsAnswered'
  BY DEF CompleteIsAnswered, P
<1>3. RowsAreOfCases'
  BY <1>c DEF RowsAreOfCases
<1>4. SoakOrder'
  <2>1. runner = "daily_soak" => disk[at] # "DIR"
    BY <1>a DEF Alone, Collected
  <2> QED BY <1>a, <1>b, <1>d, <2>1 DEF SoakOrder, Done, FixedOK, OnDisk
<1>5. SentSince'
  BY <1>b DEF SentSince
<1>6. Turned'
  BY <1>b DEF Turned, Gateway
<1>7. PassHolds'
  BY DEF PassHolds, Decided, Deciding
<1>8. Settled'
  BY DEF Settled
<1> QED BY <1>1, <1>2, <1>3, <1>4, <1>5, <1>6, <1>7, <1>8

LEMMA RefuseReplayKeepsVerdict ==
  ASSUME CInv, VInv, RefuseReplay PROVE VInv'
<1> USE CampaignAssumption DEF CInv, VInv, RefuseReplay, Cases
<1>a. at \in Cases
  BY DEF Wanted, FixedOK
<1>b. disk[at] \in OnDisk /\ P.found[disk[at]] = "row" /\ runner \notin Gateway
  BY <1>a, SeenFound
<1>c. runner \notin Daily
  BY <1>b, PolicyFacts DEF P, PolicyOK, FixedOK
<1>1. InFlight'
  BY DEF InFlight
<1>2. CompleteIsAnswered'
  BY DEF CompleteIsAnswered, P
<1>3. RowsAreOfCases'
  BY DEF RowsAreOfCases, FixedOK
<1>4. SoakOrder'
  BY <1>c DEF SoakOrder, Daily
<1>5. SentSince'
  BY <1>b DEF SentSince
<1>6. Turned'
  BY <1>b DEF Turned, Gateway
<1>7. PassHolds'
  BY DEF PassHolds, Decided, Deciding
<1>8. Settled'
  BY DEF Settled
<1> QED BY <1>1, <1>2, <1>3, <1>4, <1>5, <1>6, <1>7, <1>8

LEMMA EndKeepsVerdict ==
  ASSUME CInv, VInv, End PROVE VInv'
<1> USE CampaignAssumption DEF CInv, VInv, End, Cases
<1>1. InFlight'
  BY DEF InFlight
<1>2. CompleteIsAnswered'
  BY DEF CompleteIsAnswered, P
<1>3. RowsAreOfCases'
  BY DEF RowsAreOfCases
<1>4. SoakOrder'
  BY DEF SoakOrder
<1>5. SentSince'
  BY DEF SentSince
<1>6. Turned'
  BY DEF Turned
<1>7. PassHolds'
  BY DEF PassHolds, Decided, Deciding
<1>8. Settled'
  BY DEF Settled
<1> QED BY <1>1, <1>2, <1>3, <1>4, <1>5, <1>6, <1>7, <1>8

LEMMA OffAndOnKeepsVerdict ==
  ASSUME CInv, VInv, OffAndOn PROVE VInv'
<1> USE CampaignAssumption DEF CInv, VInv, OffAndOn, Cases
<1>1. InFlight'
  BY DEF InFlight
<1>2. CompleteIsAnswered'
  BY DEF CompleteIsAnswered, P
<1>3. RowsAreOfCases'
  BY DEF RowsAreOfCases
<1>4. SoakOrder'
  BY DEF SoakOrder
<1>5. SentSince'
  BY DEF SentSince, FixedOK, CaseOK, EpochOK, RowsOK
<1>6. Turned'
  <2> SUFFICES ASSUME runner \in Products PROVE Turned'
    BY DEF Turned
  <2>1. \A c \in 1..(N - 1) : by[c] \in resident..epoch
    BY DEF SentSince, Gateway, FixedOK
  <2>2. \A c \in 1..(N - 1) : by[c] < epoch + 1
    BY <2>1 DEF EpochOK
  <2>3. epoch = resident => \A c \in 1..(N - 1) : by[c] = resident
    BY <2>1 DEF EpochOK
  <2> QED BY <2>2, <2>3 DEF Turned, FixedOK
<1>7. PassHolds'
  BY DEF PassHolds, Decided, Deciding
<1>8. Settled'
  BY DEF Settled
<1> QED BY <1>1, <1>2, <1>3, <1>4, <1>5, <1>6, <1>7, <1>8

LEMMA MarkKeepsVerdict ==
  ASSUME CInv, VInv, Mark PROVE VInv'
<1> USE CampaignAssumption DEF CInv, VInv, Mark, Cases
<1>1. InFlight'
  BY MarkIsOpen, KindsOf DEF InFlight, CaseOK, Daily, R4, Gateway, Products
<1>2. CompleteIsAnswered'
  BY DEF CompleteIsAnswered, P
<1>3. RowsAreOfCases'
  BY DEF RowsAreOfCases
<1>4. SoakOrder'
  <2> SUFFICES ASSUME runner = "daily_soak" PROVE SoakOrder'
    BY DEF SoakOrder
  <2>1. at \in Cases /\ disk[at] = "none"
    BY MarkIsOpen DEF Marking, Daily
  <2>2. disk' = [disk EXCEPT ![at] = "IN_FLIGHT"] /\ epoch = 1
    BY DEF Gateway, Products, Daily, SoakOrder, Alone, Collected
  <2>3. \A c \in Cases : c < at => by[c] = 1 /\ disk[c] \in Done
    BY <2>2 DEF SoakOrder, EpochOK, Alone, Collected
  <2>4. \A d \in Cases : at < d => disk[d] = "none"
    BY <2>1 DEF SoakOrder, Done
  <2> QED BY <2>1, <2>2, <2>3, <2>4 DEF SoakOrder, CaseOK, Done, FixedOK
<1>5. SentSince'
  BY DEF SentSince
<1>6. Turned'
  BY DEF Turned, FixedOK
<1>7. PassHolds'
  BY MarkIsOpen DEF PassHolds, Decided, Deciding, CaseOK
<1>8. Settled'
  BY DEF Settled
<1> QED BY <1>1, <1>2, <1>3, <1>4, <1>5, <1>6, <1>7, <1>8

LEMMA PostKeepsVerdict ==
  ASSUME CInv, VInv, Post PROVE VInv'
<1> USE CampaignAssumption DEF CInv, VInv, Post, Cases
<1>1. InFlight'
  BY DEF InFlight
<1>2. CompleteIsAnswered'
  BY DEF CompleteIsAnswered, CaseOK, InFlight, FixedOK, RowsOK, P
<1>3. RowsAreOfCases'
  BY DEF RowsAreOfCases
<1>4. SoakOrder'
  BY DEF FixedOK, CaseOK, EpochOK, RowsOK, MarkedFirst, Marking, Collected,
         Gateway, Products, Daily, R4, Decided, Deciding, Done,
         InFlight, CompleteIsAnswered, RowsAreOfCases, SoakOrder,
         SentSince, Turned, PassHolds, P
<1>5. SentSince'
  BY DEF SentSince, FixedOK, CaseOK, EpochOK, RowsOK
<1>6. Turned'
  BY DEF Turned, FixedOK, CaseOK, EpochOK, RowsOK
<1>7. PassHolds'
  <2>1. runner \in Gateway \cup Collected => terminal = "none"
    BY DEF Settled, FixedOK
  <2>2. CASE runner \in Daily
    BY <2>2 DEF PassHolds, Daily, Gateway, Products
  <2>3. CASE runner \in R4
    <3>1. at \in Cases /\ disk[at] = "IN_FLIGHT"
      BY <2>3 DEF InFlight, RowsOK, FixedOK
    <3>2. \A c \in Cases : Decided(c) => Decided(c)'
      BY <2>3, <3>1 DEF Decided, CaseOK
    <3>3. Deciding \subseteq Cases /\ Deciding' = Deciding
      BY DEF Deciding
    <3> QED BY <2>3, <3>2, <3>3 DEF PassHolds, R4, Daily, Gateway, Products
  <2> QED BY <2>1, <2>2, <2>3, RunnersAre DEF PassHolds, Runners, FixedOK
<1>8. Settled'
  BY DEF Settled
<1> QED BY <1>1, <1>2, <1>3, <1>4, <1>5, <1>6, <1>7, <1>8

LEMMA SaveTaskKeepsVerdict ==
  ASSUME CInv, VInv, SaveTask PROVE VInv'
<1> USE CampaignAssumption DEF CInv, VInv, SaveTask, Cases
<1>a. at \in Cases
  BY DEF Wanted, FixedOK, RowsOK
<1>b. disk[at] # "COMPLETE"
  <2>0. runner \in Daily
    BY DEF Daily
  <2>1. CASE pc = "wait"
    BY <2>0, <2>1 DEF InFlight
  <2>2. CASE Seen(at) = "poll"
    <3>1. disk[at] \in OnDisk /\ P.found[disk[at]] = "poll"
      BY <1>a, <2>2, SeenFound
    <3> QED BY <2>0, <3>1, PolicyFacts DEF P, PolicyOK, FixedOK
  <2> QED BY <2>1, <2>2
<1>1. InFlight'
  BY <1>a DEF InFlight, CaseOK
<1>2. CompleteIsAnswered'
  BY DEF CompleteIsAnswered, P
<1>3. RowsAreOfCases'
  BY DEF RowsAreOfCases
<1>4. SoakOrder'
  BY DEF SoakOrder
<1>5. SentSince'
  BY DEF SentSince
<1>6. Turned'
  BY DEF Turned, FixedOK, RowsOK, Gateway, Products, Daily
<1>7. PassHolds'
  BY <1>a, <1>b DEF PassHolds, Decided, Deciding, CaseOK
<1>8. Settled'
  BY DEF Settled
<1> QED BY <1>1, <1>2, <1>3, <1>4, <1>5, <1>6, <1>7, <1>8

LEMMA SaveKeepsVerdict ==
  ASSUME CInv, VInv, Save PROVE VInv'
<1> USE CampaignAssumption DEF CInv, VInv, Save, Cases
<1>a. at \in Cases
  BY DEF FixedOK, RowsOK
<1>b. runner \in Daily \cup R4 => disk[at] # "COMPLETE"
  BY DEF InFlight
<1>1. InFlight'
  BY DEF InFlight
<1>2. CompleteIsAnswered'
  BY <1>a, CompleteIsGood DEF CompleteIsAnswered, CaseOK, P, Daily, R4,
     Gateway, Products
<1>3. RowsAreOfCases'
  <2> SUFFICES ASSUME runner \notin Daily PROVE RowsAreOfCases'
    BY DEF RowsAreOfCases
  <2> PICK row \in RowsOf(answer[at]) : rows' = Append(rows, row)
    OBVIOUS
  <2>1. row \in RowSet
    BY RowsOfAre DEF FixedOK
  <2>2. /\ Len(rows') = at /\ rows'[at] = row
        /\ \A i \in 1..Len(rows) : rows'[i] = rows[i]
    BY <2>1 DEF RowsOK, RowsAreOfCases, FixedOK
  <2>3. row = "PASS" =>
          answer[at] = "good" /\ (runner \in R4 => disk'[at] = "COMPLETE")
    BY <1>a, PassIsGood, CompleteIsGood DEF CaseOK, Daily, R4, Gateway, Products
  <2>4. \A i \in 1..Len(rows) : i # at /\ disk'[i] = disk[i]
    BY DEF RowsAreOfCases, FixedOK, CaseOK
  <2>5. Len(rows) = at - 1
    BY DEF RowsAreOfCases
  <2> QED BY <2>2, <2>3, <2>4, <2>5 DEF RowsAreOfCases, FixedOK
<1>4. SoakOrder'
  <2> SUFFICES ASSUME runner = "daily_soak" PROVE SoakOrder'
    BY DEF SoakOrder
  <2>1. disk[at] = "IN_FLIGHT"
    BY <1>a DEF InFlight, SoakOrder, Daily
  <2>2. disk' = [disk EXCEPT ![at] = Left(answer[at])] /\ Left(answer[at]) \in Done
    BY LeftOnDisk DEF Gateway, Products, Done
  <2>3. \A d \in Cases : at < d => disk[d] = "none"
    BY <1>a, <2>1 DEF SoakOrder, Done
  <2> QED BY <1>a, <2>1, <2>2, <2>3 DEF SoakOrder, CaseOK, Done, FixedOK
<1>5. SentSince'
  BY DEF SentSince, FixedOK
<1>6. Turned'
  BY DEF Turned, FixedOK
<1>7. PassHolds'
  <2>1. runner \in Gateway \cup Collected => terminal = "none"
    BY DEF Settled, FixedOK
  <2>2. runner \in Daily \cup R4 => disk[at] # "COMPLETE"
    BY DEF InFlight
  <2>3. \A c \in Cases : c # at => disk'[c] = disk[c]
    BY <1>a DEF CaseOK
  <2> QED BY <1>a, <2>1, <2>2, <2>3, RunnersAre
             DEF PassHolds, Decided, Deciding, FixedOK, Runners
<1>8. Settled'
  BY DEF Settled
<1> QED BY <1>1, <1>2, <1>3, <1>4, <1>5, <1>6, <1>7, <1>8

LEMMA ConcludeKeepsVerdict ==
  ASSUME CInv, VInv, Conclude PROVE VInv'
<1> USE CampaignAssumption DEF CInv, VInv, Conclude, Cases
<1>1. InFlight'
  BY DEF InFlight
<1>2. CompleteIsAnswered'
  BY DEF CompleteIsAnswered, P
<1>3. RowsAreOfCases'
  BY DEF RowsAreOfCases
<1>4. SoakOrder'
  BY DEF SoakOrder
<1>5. SentSince'
  BY DEF SentSince
<1>6. Turned'
  BY DEF Turned
<1>7. PassHolds'
  <2> SUFFICES ASSUME terminal' = "PASS", terminal # "PASS" PROVE PassHolds'
    BY DEF PassHolds, Decided, Deciding
  <2> PICK ready \in BOOLEAN : Earned(rows, ready)
    OBVIOUS
  <2>1. CASE runner \in Daily
    BY <2>1, JudgedFacts DEF Earned, P, JudgedOK, FixedOK, PassHolds, Daily,
       Products
  <2>2. CASE runner = "coding_c"
    <3>1. rows # <<>> /\ Len(rows) \in 1..N
      <4>1. Len(rows) = at - 1 /\ rows \in Seq(RowSet)
        BY <2>2 DEF RowsAreOfCases, RowsOK, Daily
      <4>2. rows # <<>>
        <5> SUFFICES ASSUME rows = <<>> PROVE FALSE
          OBVIOUS
        <5>1. GoesOn(rows) /\ at = 1
          BY <4>1 DEF GoesOn, FixedOK
        <5> QED BY <5>1 DEF Wanted
      <4> QED BY <4>1, <4>2 DEF FixedOK
    <3>2. rows[Len(rows)] = "PASS"
      BY <2>2, <3>1, JudgedFacts DEF Earned, P, JudgedOK, FixedOK, Good, Last
    <3> QED BY <2>2, <3>1, <3>2 DEF RowsAreOfCases, PassHolds, Decided, Daily,
               Products
  <2>3. CASE runner \notin Daily \cup {"coding_c"}
    <3>1. \A c \in Deciding : Passes(c, rows)
      BY <2>3, JudgedFacts DEF Earned, P, JudgedOK, FixedOK, Deciding
    <3>2. \A c \in Deciding : c \in 1..Len(rows) /\ rows[c] = "PASS"
      BY <3>1 DEF Passes, Good, RowsOK
    <3>3. \A c \in Deciding : Decided(c)
      BY <2>3, <3>2 DEF RowsAreOfCases, Decided
    <3>4. runner = "speed_soak" => \A c, d \in Cases : by[c] = by[d]
      <4> SUFFICES ASSUME runner = "speed_soak" PROVE \A c, d \in Cases : by[c] = by[d]
        OBVIOUS
      <4>1. epoch = resident
        BY JudgedFacts DEF Earned, P, JudgedOK, FixedOK
      <4>2. Len(rows) = at - 1
        BY <2>3 DEF RowsAreOfCases
      <4>3. \A c \in Cases : c < at
        BY <3>2, <4>2 DEF Deciding, FixedOK
      <4> QED BY <4>1, <4>3 DEF SentSince, Gateway, EpochOK
    <3>5. runner \in Products =>
            /\ \A c \in 1..(N - 1) : by[c] < by[N]
            /\ steady = "same" => \A c \in 1..(N - 1) : by[c] = resident
      <4> SUFFICES ASSUME runner \in Products
                   PROVE  /\ \A c \in 1..(N - 1) : by[c] < by[N]
                          /\ steady = "same" => \A c \in 1..(N - 1) : by[c] = resident
        OBVIOUS
      <4>1. GoesOn(rows)
        BY JudgedFacts DEF GoesOn, P, JudgedOK, FixedOK
      <4>2. at > N
        BY <4>1 DEF Wanted, FixedOK
      <4> QED BY <4>2 DEF Turned, FixedOK
    <3>6. runner = "speed_product" => steady = "same"
      BY JudgedFacts DEF Earned, P, JudgedOK, FixedOK
    <3> QED
      BY <2>3, <3>3, <3>4, <3>5, <3>6 DEF PassHolds, Decided, Deciding, Products
  <2> QED BY <2>1, <2>2, <2>3
<1>8. Settled'
  BY DEF Settled
<1> QED BY <1>1, <1>2, <1>3, <1>4, <1>5, <1>6, <1>7, <1>8

LEMMA CrashKeepsVerdict ==
  ASSUME CInv, VInv, Crash PROVE VInv'
<1> USE CampaignAssumption DEF CInv, VInv, Crash, Cases
<1>1. InFlight'
  BY DEF InFlight
<1>2. CompleteIsAnswered'
  BY DEF CompleteIsAnswered, P
<1>3. RowsAreOfCases'
  BY DEF RowsAreOfCases
<1>4. SoakOrder'
  BY DEF SoakOrder
<1>5. SentSince'
  BY DEF SentSince
<1>6. Turned'
  BY DEF Turned
<1>7. PassHolds'
  BY DEF PassHolds, Decided, Deciding
<1>8. Settled'
  BY DEF Settled
<1> QED BY <1>1, <1>2, <1>3, <1>4, <1>5, <1>6, <1>7, <1>8

LEMMA RestartPairKeepsVerdict ==
  ASSUME CInv, VInv, RestartPair PROVE VInv'
<1> USE CampaignAssumption DEF CInv, VInv, RestartPair, Cases
<1>1. InFlight'
  BY DEF InFlight
<1>2. CompleteIsAnswered'
  BY DEF CompleteIsAnswered, P
<1>3. RowsAreOfCases'
  BY DEF RowsAreOfCases
<1>4. SoakOrder'
  BY DEF SoakOrder
<1>5. SentSince'
  BY DEF SentSince, FixedOK, CaseOK, EpochOK, RowsOK
<1>6. Turned'
  BY DEF Turned, FixedOK, CaseOK, EpochOK, RowsOK
<1>7. PassHolds'
  BY DEF PassHolds, Decided, Deciding
<1>8. Settled'
  BY DEF Settled
<1> QED BY <1>1, <1>2, <1>3, <1>4, <1>5, <1>6, <1>7, <1>8

LEMMA HeardKeepsVerdict ==
  ASSUME CInv, VInv, NEW a \in Answers, Heard(a) PROVE VInv'
<1> USE CampaignAssumption DEF CInv, VInv, Heard, Cases
<1>a. at \in Cases /\ pc \in {"post", "wait", "poll"} /\ (pc = "poll" <=> runner = "acquire")
  BY DEF CanCome, RowsOK, FixedOK, Collected
<1>b. runner \notin Collected => pc # "post"
  BY <1>a DEF CanCome
<1>c. runner \in Daily \cup R4 => disk[at] \in {"IN_FLIGHT", "TASK"}
  BY <1>a, <1>b, KindsOf DEF InFlight
<1>1. InFlight'
  BY <1>a, <1>b, <1>c DEF InFlight
<1>2. CompleteIsAnswered'
  BY <1>a, <1>c DEF CompleteIsAnswered, CaseOK, P
<1>3. RowsAreOfCases'
  BY <1>a DEF RowsAreOfCases, FixedOK, CaseOK
<1>4. SoakOrder'
  BY <1>a, <1>b DEF SoakOrder, Collected
<1>5. SentSince'
  BY <1>a, <1>b, KindsOf DEF SentSince, Gateway, Products
<1>6. Turned'
  BY <1>a, <1>b, KindsOf DEF Turned, Products, Collected
<1>7. PassHolds'
  <2>1. runner \in Gateway \cup Collected => terminal = "none"
    BY <1>a DEF Settled, FixedOK
  <2>2. CASE runner \in Daily
    BY <2>2 DEF PassHolds, Daily, Gateway, Products
  <2>3. CASE runner \in R4
    <3>2. \A c \in Cases : Decided(c) => Decided(c)'
      BY <1>a, <1>c, <2>3 DEF Decided, CaseOK
    <3>3. Deciding \subseteq Cases /\ Deciding' = Deciding
      BY DEF Deciding
    <3> QED BY <2>3, <3>2, <3>3 DEF PassHolds, R4, Daily, Gateway, Products
  <2> QED BY <2>1, <2>2, <2>3, RunnersAre DEF PassHolds, Runners, FixedOK
<1>8. Settled'
  BY <1>a DEF Settled
<1> QED BY <1>1, <1>2, <1>3, <1>4, <1>5, <1>6, <1>7, <1>8

LEMMA CollectKeepsVerdict ==
  ASSUME CInv, VInv, Collect PROVE VInv'
<1> USE CampaignAssumption DEF CInv, VInv, Collect, Cases
<1>1. InFlight'
  BY DEF InFlight
<1>2. CompleteIsAnswered'
  BY DEF CompleteIsAnswered, P
<1>3. RowsAreOfCases'
  BY DEF RowsAreOfCases
<1>4. SoakOrder'
  BY DEF SoakOrder
<1>5. SentSince'
  BY DEF SentSince
<1>6. Turned'
  BY KindsOf DEF Turned
<1>7. PassHolds'
  BY DEF PassHolds, Decided, Deciding
<1>8. Settled'
  BY DEF Settled
<1> QED BY <1>1, <1>2, <1>3, <1>4, <1>5, <1>6, <1>7, <1>8

LEMMA LookKeepsVerdict ==
  ASSUME CInv, VInv, Look PROVE VInv'
<1> USE CampaignAssumption DEF CInv, VInv, Look, Cases
<1>a. at \in Cases /\ runner \in Collected
  BY DEF FixedOK, RowsOK, Alone
<1>b. /\ runner \notin Daily /\ runner \notin R4
      /\ runner \notin Gateway /\ runner \notin Products
  BY <1>a, KindsOf
<1>c. terminal = "none" /\ pc' # "off"
  BY <1>a DEF Settled, FixedOK
<1>1. InFlight'
  BY <1>b DEF InFlight
<1>2. CompleteIsAnswered'
  BY <1>b DEF CompleteIsAnswered
<1>3. RowsAreOfCases'
  BY <1>a, <1>b DEF RowsAreOfCases, FixedOK, RowsOK
<1>4. SoakOrder'
  BY <1>b DEF SoakOrder, Daily
<1>5. SentSince'
  BY <1>b DEF SentSince
<1>6. Turned'
  BY <1>b DEF Turned
<1>7. PassHolds'
  BY <1>c DEF PassHolds
<1>8. Settled'
  BY <1>c DEF Settled
<1> QED BY <1>1, <1>2, <1>3, <1>4, <1>5, <1>6, <1>7, <1>8

LEMMA OrphanLooksKeepsVerdict ==
  ASSUME CInv, VInv, NEW l \in Starts, OrphanLooks(l) PROVE VInv'
<1> USE CampaignAssumption DEF CInv, VInv, OrphanLooks, Cases
<1>a. runner \in Collected /\ orphan[l].case \in Cases
  BY DEF Alone, OrphanOK, Orphans
<1>b. /\ runner \notin Daily /\ runner \notin R4
      /\ runner \notin Gateway /\ runner \notin Products
  BY <1>a, KindsOf
<1>1. InFlight'
  BY <1>b DEF InFlight
<1>2. CompleteIsAnswered'
  BY <1>b DEF CompleteIsAnswered
<1>3. RowsAreOfCases'
  BY <1>b DEF RowsAreOfCases
<1>4. SoakOrder'
  BY <1>b DEF SoakOrder, Daily
<1>5. SentSince'
  BY <1>b DEF SentSince
<1>6. Turned'
  BY <1>b DEF Turned
<1>7. PassHolds'
  BY <1>b DEF PassHolds, Decided, Deciding
<1>8. Settled'
  BY DEF Settled
<1> QED BY <1>1, <1>2, <1>3, <1>4, <1>5, <1>6, <1>7, <1>8

LEMMA OrphanMarksKeepsVerdict ==
  ASSUME CInv, VInv, NEW l \in Starts, OrphanMarks(l) PROVE VInv'
<1> USE CampaignAssumption DEF CInv, VInv, OrphanMarks, Cases
<1>a. runner \in Collected /\ orphan[l].case \in Cases
  BY DEF Alone, OrphanOK, Orphans
<1>b. /\ runner \notin Daily /\ runner \notin R4
      /\ runner \notin Gateway /\ runner \notin Products
  BY <1>a, KindsOf
<1>1. InFlight'
  BY <1>b DEF InFlight
<1>2. CompleteIsAnswered'
  BY <1>b DEF CompleteIsAnswered
<1>3. RowsAreOfCases'
  BY <1>b DEF RowsAreOfCases
<1>4. SoakOrder'
  BY <1>b DEF SoakOrder, Daily
<1>5. SentSince'
  BY <1>b DEF SentSince
<1>6. Turned'
  BY <1>b DEF Turned
<1>7. PassHolds'
  BY <1>b DEF PassHolds, Decided, Deciding
<1>8. Settled'
  BY DEF Settled
<1> QED BY <1>1, <1>2, <1>3, <1>4, <1>5, <1>6, <1>7, <1>8

LEMMA OrphanPostsKeepsVerdict ==
  ASSUME CInv, VInv, NEW l \in Starts, OrphanPosts(l) PROVE VInv'
<1> USE CampaignAssumption DEF CInv, VInv, OrphanPosts, Cases
<1>a. runner \in Collected /\ orphan[l].case \in Cases
  BY DEF Alone, OrphanOK, Orphans
<1>b. /\ runner \notin Daily /\ runner \notin R4
      /\ runner \notin Gateway /\ runner \notin Products
  BY <1>a, KindsOf
<1>1. InFlight'
  BY <1>b DEF InFlight
<1>2. CompleteIsAnswered'
  BY <1>b DEF CompleteIsAnswered
<1>3. RowsAreOfCases'
  BY <1>b DEF RowsAreOfCases
<1>4. SoakOrder'
  BY <1>b DEF SoakOrder, Daily
<1>5. SentSince'
  BY <1>b DEF SentSince
<1>6. Turned'
  BY <1>b DEF Turned
<1>7. PassHolds'
  BY <1>b DEF PassHolds, Decided, Deciding
<1>8. Settled'
  BY DEF Settled
<1> QED BY <1>1, <1>2, <1>3, <1>4, <1>5, <1>6, <1>7, <1>8

LEMMA OrphanEndsKeepsVerdict ==
  ASSUME CInv, VInv, NEW l \in Starts, NEW a \in Answers, OrphanEnds(l, a) PROVE VInv'
<1> USE CampaignAssumption DEF CInv, VInv, OrphanEnds, Cases
<1>a. runner \in Collected /\ orphan[l].case \in Cases
  BY DEF Alone, OrphanOK, Orphans
<1>b. /\ runner \notin Daily /\ runner \notin R4
      /\ runner \notin Gateway /\ runner \notin Products
  BY <1>a, KindsOf
<1>1. InFlight'
  BY <1>b DEF InFlight
<1>2. CompleteIsAnswered'
  BY <1>b DEF CompleteIsAnswered
<1>3. RowsAreOfCases'
  <2>1. \A i \in 1..Len(rows) : answer'[i] = answer[i]
    BY DEF RowsAreOfCases, RowsOK, FixedOK, CaseOK
  <2> QED BY <1>b, <2>1 DEF RowsAreOfCases
<1>4. SoakOrder'
  BY <1>b DEF SoakOrder, Daily
<1>5. SentSince'
  BY <1>b DEF SentSince
<1>6. Turned'
  BY <1>b DEF Turned
<1>7. PassHolds'
  <2>1. terminal # "none" => answer' = answer
    BY <1>a DEF Settled
  <2> QED BY <1>b, <2>1 DEF PassHolds, Decided, Deciding
<1>8. Settled'
  BY DEF Settled
<1> QED BY <1>1, <1>2, <1>3, <1>4, <1>5, <1>6, <1>7, <1>8

LEMMA OrphanDiesKeepsVerdict ==
  ASSUME CInv, VInv, NEW l \in Starts, OrphanDies(l) PROVE VInv'
<1> USE CampaignAssumption DEF CInv, VInv, OrphanDies, Cases
<1>1. InFlight'
  BY DEF InFlight
<1>2. CompleteIsAnswered'
  BY DEF CompleteIsAnswered, P
<1>3. RowsAreOfCases'
  BY DEF RowsAreOfCases
<1>4. SoakOrder'
  BY DEF SoakOrder
<1>5. SentSince'
  BY DEF SentSince
<1>6. Turned'
  BY DEF Turned
<1>7. PassHolds'
  BY DEF PassHolds, Decided, Deciding
<1>8. Settled'
  BY DEF Settled
<1> QED BY <1>1, <1>2, <1>3, <1>4, <1>5, <1>6, <1>7, <1>8

LEMMA InitVerdict == ASSUME Init PROVE VInv
<1> USE CampaignAssumption DEF Init, Cases
<1>1. InFlight /\ CompleteIsAnswered /\ RowsAreOfCases
  BY DEF InFlight, CompleteIsAnswered, RowsAreOfCases
<1>2. SoakOrder /\ Settled /\ SentSince /\ Turned /\ PassHolds
  BY DEF SoakOrder, Settled, SentSince, Turned, PassHolds, Done
<1> QED BY <1>1, <1>2 DEF VInv

(* What the verdict of a runner rests on, kept by every step: the rows are *)
(* of the cases, what is complete was answered, and the pairs they were    *)
(* sent to are in order.                                                   *)
THEOREM VerdictInvariant == Spec => []VInv
<1>1. ASSUME CInv, VInv, [Next]_vars PROVE VInv'
  <2>1. CASE Launch BY <1>1, <2>1, LaunchKeepsVerdict
  <2>2. CASE Skip BY <1>1, <2>2, SkipKeepsVerdict
  <2>3. CASE RefuseReplay BY <1>1, <2>3, RefuseReplayKeepsVerdict
  <2>4. CASE End BY <1>1, <2>4, EndKeepsVerdict
  <2>5. CASE OffAndOn BY <1>1, <2>5, OffAndOnKeepsVerdict
  <2>6. CASE Mark BY <1>1, <2>6, MarkKeepsVerdict
  <2>7. CASE Post BY <1>1, <2>7, PostKeepsVerdict
  <2>8. CASE SaveTask BY <1>1, <2>8, SaveTaskKeepsVerdict
  <2>9. CASE Save BY <1>1, <2>9, SaveKeepsVerdict
  <2>10. CASE Conclude BY <1>1, <2>10, ConcludeKeepsVerdict
  <2>11. CASE Crash BY <1>1, <2>11, CrashKeepsVerdict
  <2>12. CASE RestartPair BY <1>1, <2>12, RestartPairKeepsVerdict
  <2>13. CASE \E a \in Answers : Heard(a) BY <1>1, <2>13, HeardKeepsVerdict
  <2>14. CASE Collect BY <1>1, <2>14, CollectKeepsVerdict
  <2>15. CASE Look BY <1>1, <2>15, LookKeepsVerdict
  <2>16. CASE \E l \in Starts : OrphanLooks(l) BY <1>1, <2>16, OrphanLooksKeepsVerdict
  <2>17. CASE \E l \in Starts : OrphanMarks(l) BY <1>1, <2>17, OrphanMarksKeepsVerdict
  <2>18. CASE \E l \in Starts : OrphanPosts(l) BY <1>1, <2>18, OrphanPostsKeepsVerdict
  <2>19. CASE \E l \in Starts : OrphanDies(l) BY <1>1, <2>19, OrphanDiesKeepsVerdict
  <2>20. CASE \E l \in Starts : \E a \in Answers : OrphanEnds(l, a)
    BY <1>1, <2>20, OrphanEndsKeepsVerdict
  <2>21. CASE UNCHANGED vars
    BY <1>1, <2>21 DEF vars, VInv, InFlight, CompleteIsAnswered, RowsAreOfCases,
         SoakOrder, Settled, SentSince, Turned, PassHolds, Decided, Deciding, Cases, P
  <2> QED
    BY <1>1, <2>1, <2>2, <2>3, <2>4, <2>5, <2>6, <2>7, <2>8, <2>9, <2>10,
       <2>11, <2>12, <2>13, <2>14, <2>15, <2>16, <2>17, <2>18, <2>19, <2>20,
       <2>21 DEF Next
<1> QED BY InitVerdict, CampaignInvariant, <1>1, PTL DEF Spec

(* A PASS stands for answers that came: every case the verdict is about    *)
(* was answered as expected (of the soak of a day: answered), by the pairs *)
(* the runner says, whatever was killed and started again.                 *)
THEOREM PassesAreEarned == Spec => []PassIsEarned
<1>1. ASSUME CInv, VInv PROVE PassIsEarned
  <2> SUFFICES ASSUME terminal = "PASS" PROVE PassIsEarned
    BY DEF PassIsEarned
  <2> USE <1>1, CampaignAssumption DEF CInv, VInv
  <2>1. CASE runner = "coding_c"
    BY <2>1 DEF PassHolds, PassIsEarned, Decided, Products, Daily
  <2>2. CASE runner \in Daily
    <3>1. \A c \in Cases : disk[c] = "COMPLETE"
      BY <2>2 DEF PassHolds, Daily
    <3>2. \A c \in Cases : answer[c] = "good" \/ (answer[c] = "wrong" /\ P.completes)
      BY <2>2, <3>1 DEF CompleteIsAnswered, Daily, Gateway, Products
    <3>3. runner # "daily_soak" => ~P.completes
      BY <2>2, JudgedFacts DEF P, JudgedOK, FixedOK
    <3>4. runner = "daily_soak" => \A c \in 1..(N - 1) : by[c] = 1
      BY <3>1 DEF SoakOrder, Cases
    <3> QED BY <2>2, <3>2, <3>3, <3>4 DEF PassIsEarned, Deciding, Daily,
               Products
  <2>3. CASE runner \notin Daily \cup {"coding_c"}
    <3>1. \A c \in Deciding : answer[c] = "good"
      BY <2>3 DEF PassHolds, Decided
    <3> QED BY <2>3, <3>1 DEF PassHolds, PassIsEarned, Daily
  <2> QED BY <2>1, <2>2, <2>3
<1> QED BY <1>1, CampaignInvariant, VerdictInvariant, PTL

-----------------------------------------------------------------------------
(* What a FAIL is about.                                                   *)

LEMMA GoodGoesOn ==
  ASSUME NEW s \in Seq(RowSet), AllGood(s),
         P.ends \in {"never", "failure", "pairs", "second"}
  PROVE  GoesOn(s)
<1> SUFFICES ASSUME s # <<>> PROVE GoesOn(s)
  BY DEF GoesOn
<1>1. Good(Last(s))
  BY DEF AllGood, Last
<1> QED BY <1>1 DEF GoesOn

AnswerCame == pc = "save" => answer[at] \in Answers

(* Only the acquisition of tasks keeps the id of one.                      *)
NoTask == runner # "acquire" => \A c \in Cases : disk[c] # "TASK"

(* An arm starts once, and finds nothing of its cases.                     *)
ArmFindsNothing ==
  runner = "arm" =>
    /\ registry = "none" => pc = "off" /\ \A c \in Cases : disk[c] = "none"
    /\ registry = "none" \/ pc # "off" => \A l \in Starts : orphan[l].pc = "none"
    /\ pc \in {"next", "look"} => \A c \in Cases : c >= at => disk[c] = "none"
    /\ pc \notin {"off", "next"} => \A c \in Cases : c > at => disk[c] = "none"

(* What a runner has found nothing of and left to its collector, it does   *)
(* not find marked, unless an earlier collector has yet to make its mark.  *)
LooksAtNothing ==
  runner \in Collected \cap Judging /\ pc = "look" => ~Marked(at) \/ at \in hasty

(* A panel that has met no failure has all its cases.                      *)
PanelHasAll ==
  runner = "daily_panel" /\ pc # "off" /\ AllGood(rows) =>
    \A c \in Cases : c < at => disk[c] = "COMPLETE"

(* A case that was answered otherwise, or not, for good.                   *)
Failed(c) ==
  answer[c] \in {"wrong", "lost"} /\ (runner \in R4 => disk[c] \in Done)
RowsAreReal ==
  runner \in Judging \ Daily =>
    \A i \in 1..Len(rows) : rows[i] # "PASS" => Failed(i) \/ hasty # {}

FailHolds ==
  terminal = "FAIL" /\ runner \in Judging =>
    /\ runner \notin Daily
    /\ \/ \E c \in Cases : Failed(c)
       \/ runner = "speed_soak" /\ epoch # resident
       \/ runner = "speed_product" /\ steady = "moved"
       \/ hasty # {}

FInv == AnswerCame /\ NoTask /\ ArmFindsNothing /\ LooksAtNothing
          /\ PanelHasAll /\ RowsAreReal /\ FailHolds

LEMMA LaunchKeepsFail ==
  ASSUME CInv, VInv, FInv, Launch PROVE FInv'
<1> USE CampaignAssumption DEF CInv, VInv, FInv, Launch, Cases
<1>1. AnswerCame'
  BY DEF AnswerCame
<1>2. NoTask'
  BY DEF NoTask
<1>3. ArmFindsNothing'
  <2>1. runner = "arm" => registry = "none"
    BY JudgingFacts DEF Refused, P, JudgingOK, FixedOK
  <2> QED BY <2>1 DEF ArmFindsNothing, FixedOK
<1>4. PanelHasAll'
  BY DEF PanelHasAll, AllGood, Good
<1>5. RowsAreReal'
  BY DEF RowsAreReal, Failed
<1>6. FailHolds'
  <2>1. runner \in Gateway => terminal = "none"
    BY PolicyFacts DEF Refused, P, PolicyOK, FixedOK
  <2> QED BY <2>1 DEF FailHolds, Failed, Gateway, Products
<1>7. LooksAtNothing'
  BY DEF LooksAtNothing, Marked
<1> QED BY <1>1, <1>2, <1>3, <1>4, <1>5, <1>6, <1>7

LEMMA SkipKeepsFail ==
  ASSUME CInv, VInv, FInv, Skip PROVE FInv'
<1> USE CampaignAssumption DEF CInv, VInv, FInv, Skip, Cases
<1>1. AnswerCame'
  BY DEF AnswerCame
<1>2. NoTask'
  BY DEF NoTask
<1>3. ArmFindsNothing'
  BY DEF ArmFindsNothing, FixedOK
<1>4. PanelHasAll'
  <2> SUFFICES ASSUME runner = "daily_panel" PROVE disk[at] = "COMPLETE"
    BY DEF PanelHasAll, FixedOK
  <2>1. at \in Cases
    BY DEF Wanted, FixedOK
  <2>2. disk[at] \in OnDisk /\ P.found[disk[at]] = "skip"
    BY <2>1, SeenFound
  <2>3. disk[at] \notin {"TASK", "DIR"}
    BY <2>1 DEF NoTask, Alone, Collected
  <2> QED BY <2>2, <2>3, JudgingFacts DEF P, JudgingOK, FixedOK, OnDisk
<1>5. RowsAreReal'
  BY DEF RowsAreReal, Failed
<1>6. FailHolds'
  BY DEF FailHolds, Failed
<1>7. LooksAtNothing'
  BY DEF LooksAtNothing, Marked
<1> QED BY <1>1, <1>2, <1>3, <1>4, <1>5, <1>6, <1>7

LEMMA RefuseReplayKeepsFail ==
  ASSUME CInv, VInv, FInv, RefuseReplay PROVE FInv'
<1> USE CampaignAssumption DEF CInv, VInv, FInv, RefuseReplay, Cases
<1>a. at \in Cases
  BY DEF Wanted, FixedOK
<1>b. disk[at] \in OnDisk /\ P.found[disk[at]] = "row" /\ runner \notin Gateway
  BY <1>a, SeenFound
<1>c. runner \notin Daily
  BY <1>b, PolicyFacts DEF P, PolicyOK, FixedOK
<1>d. runner # "arm"
  BY <1>a, <1>b DEF ArmFindsNothing, OnDisk
<1>e. runner \notin Judging
  BY <1>b, <1>d, JudgingFacts DEF P, JudgingOK, FixedOK
<1>1. AnswerCame'
  BY DEF AnswerCame
<1>2. NoTask'
  BY DEF NoTask
<1>3. ArmFindsNothing'
  BY DEF ArmFindsNothing, FixedOK
<1>4. PanelHasAll'
  BY <1>c DEF PanelHasAll, Daily
<1>5. RowsAreReal'
  BY <1>e DEF RowsAreReal
<1>6. FailHolds'
  BY DEF FailHolds, Failed
<1>7. LooksAtNothing'
  BY DEF LooksAtNothing, Marked
<1> QED BY <1>1, <1>2, <1>3, <1>4, <1>5, <1>6, <1>7

LEMMA EndKeepsFail ==
  ASSUME CInv, VInv, FInv, End PROVE FInv'
<1> USE CampaignAssumption DEF CInv, VInv, FInv, End, Cases
<1>1. AnswerCame'
  BY DEF AnswerCame
<1>2. NoTask'
  BY DEF NoTask
<1>3. ArmFindsNothing'
  BY DEF ArmFindsNothing
<1>4. PanelHasAll'
  BY DEF PanelHasAll, AllGood, Good
<1>5. RowsAreReal'
  BY DEF RowsAreReal, Failed
<1>6. FailHolds'
  BY DEF FailHolds, Failed
<1>7. LooksAtNothing'
  BY DEF LooksAtNothing, Marked
<1> QED BY <1>1, <1>2, <1>3, <1>4, <1>5, <1>6, <1>7

LEMMA OffAndOnKeepsFail ==
  ASSUME CInv, VInv, FInv, OffAndOn PROVE FInv'
<1> USE CampaignAssumption DEF CInv, VInv, FInv, OffAndOn, Cases
<1>1. AnswerCame'
  BY DEF AnswerCame
<1>2. NoTask'
  BY DEF NoTask
<1>3. ArmFindsNothing'
  BY DEF ArmFindsNothing
<1>4. PanelHasAll'
  BY DEF PanelHasAll, AllGood, Good
<1>5. RowsAreReal'
  BY DEF RowsAreReal, Failed
<1>6. FailHolds'
  BY DEF FixedOK, CaseOK, EpochOK, RowsOK, MarkedFirst, Marking, Collected,
         Gateway, Products, Daily, R4, Judging, Failed, Done,
         InFlight, SentSince, AnswerCame, NoTask, ArmFindsNothing,
         PanelHasAll, RowsAreReal, FailHolds, P
<1>7. LooksAtNothing'
  BY DEF LooksAtNothing, Marked
<1> QED BY <1>1, <1>2, <1>3, <1>4, <1>5, <1>6, <1>7

LEMMA MarkKeepsFail ==
  ASSUME CInv, VInv, FInv, Mark PROVE FInv'
<1> USE CampaignAssumption DEF CInv, VInv, FInv, Mark, Cases
<1>1. AnswerCame'
  BY DEF AnswerCame
<1>2. NoTask'
  BY DEF NoTask
<1>3. ArmFindsNothing'
  BY DEF ArmFindsNothing, FixedOK
<1>4. PanelHasAll'
  BY DEF PanelHasAll, AllGood, Good
<1>5. RowsAreReal'
  BY DEF RowsAreReal, Failed, CaseOK, FixedOK, RowsOK, InFlight, Done,
         SentSince
<1>6. FailHolds'
  <2> SUFFICES ASSUME terminal = "FAIL", runner \in Judging PROVE FailHolds'
    BY DEF FailHolds
  <2>1. runner \in R4 /\ runner \notin Daily /\ runner \notin Products /\ runner \notin Gateway
    <3>1. runner \notin Gateway \cup Collected \cup Daily
      BY DEF Settled, FailHolds
    <3> QED BY <3>1 DEF FixedOK, Runners, Gateway
  <2>2. at \in Cases /\ disk[at] \notin Done
    BY <2>1, MarkIsOpen DEF Marking, R4, Done
  <2>3. \A c \in Cases : Failed(c) => Failed(c)'
    BY <2>1, <2>2 DEF Failed, CaseOK
  <2> QED BY <2>1, <2>3 DEF FailHolds, R4
<1>7. LooksAtNothing'
  BY DEF LooksAtNothing, Marked
<1> QED BY <1>1, <1>2, <1>3, <1>4, <1>5, <1>6, <1>7

LEMMA PostKeepsFail ==
  ASSUME CInv, VInv, FInv, Post PROVE FInv'
<1> USE CampaignAssumption DEF CInv, VInv, FInv, Post, Cases
<1>1. AnswerCame'
  BY DEF AnswerCame
<1>2. NoTask'
  BY DEF NoTask
<1>3. ArmFindsNothing'
  BY DEF ArmFindsNothing
<1>4. PanelHasAll'
  BY DEF PanelHasAll, AllGood, Good
<1>5. RowsAreReal'
  BY DEF RowsAreReal, Failed, CaseOK, FixedOK, RowsOK, InFlight, Done,
         SentSince
<1>6. FailHolds'
  <2> SUFFICES ASSUME terminal = "FAIL", runner \in Judging PROVE FailHolds'
    BY DEF FailHolds
  <2>1. runner \in R4 /\ runner \notin Daily /\ runner \notin Products /\ runner \notin Gateway
    <3>1. runner \notin Gateway \cup Collected \cup Daily
      BY DEF Settled, FailHolds
    <3> QED BY <3>1 DEF FixedOK, Runners, Gateway
  <2>2. at \in Cases /\ disk[at] \notin Done
    BY <2>1, <2>1 DEF InFlight, FixedOK, RowsOK, Done
  <2>3. \A c \in Cases : Failed(c) => Failed(c)'
    BY <2>1, <2>2 DEF Failed, CaseOK
  <2> QED BY <2>1, <2>3 DEF FailHolds, R4
<1>7. LooksAtNothing'
  BY DEF LooksAtNothing, Marked
<1> QED BY <1>1, <1>2, <1>3, <1>4, <1>5, <1>6, <1>7

LEMMA SaveTaskKeepsFail ==
  ASSUME CInv, VInv, FInv, SaveTask PROVE FInv'
<1> USE CampaignAssumption DEF CInv, VInv, FInv, SaveTask, Cases
<1>1. AnswerCame'
  BY DEF AnswerCame
<1>2. NoTask'
  BY DEF NoTask
<1>3. ArmFindsNothing'
  BY DEF ArmFindsNothing
<1>4. PanelHasAll'
  BY DEF PanelHasAll, AllGood, Good
<1>5. RowsAreReal'
  BY DEF RowsAreReal, FixedOK, RowsOK, Gateway, Products, Daily
<1>6. FailHolds'
  BY DEF FailHolds, FixedOK, RowsOK, Gateway, Products, Daily
<1>7. LooksAtNothing'
  BY DEF LooksAtNothing, Marked
<1> QED BY <1>1, <1>2, <1>3, <1>4, <1>5, <1>6, <1>7

LEMMA SaveKeepsFail ==
  ASSUME CInv, VInv, FInv, Save PROVE FInv'
<1> USE CampaignAssumption DEF CInv, VInv, FInv, Save, Cases
<1>a. at \in Cases
  BY DEF FixedOK, RowsOK
<1> PICK row \in RowsOf(answer[at]) : rows' = Append(rows, row)
  OBVIOUS
<1>b. row \in RowSet
  BY RowsOfAre DEF FixedOK
<1>c. /\ Len(rows') = Len(rows) + 1 /\ rows'[Len(rows) + 1] = row
      /\ \A i \in 1..Len(rows) : rows'[i] = rows[i]
  BY <1>b DEF RowsOK
<1>1. AnswerCame'
  BY DEF AnswerCame
<1>2. NoTask'
  BY LeftOnDisk DEF NoTask, CaseOK
<1>3. ArmFindsNothing'
  BY DEF ArmFindsNothing, FixedOK
<1>4. PanelHasAll'
  <2> SUFFICES ASSUME runner = "daily_panel", AllGood(rows') PROVE PanelHasAll'
    BY DEF PanelHasAll
  <2>1. row = "PASS" /\ AllGood(rows)
    BY <1>b, <1>c DEF AllGood, Good, RowsOK
  <2>2. disk' = [disk EXCEPT ![at] = "COMPLETE"]
    BY <2>1, PassIsGood, CompleteIsGood DEF Gateway, Products
  <2> QED BY <1>a, <2>1, <2>2 DEF PanelHasAll, CaseOK, FixedOK
<1>5. RowsAreReal'
  <2> SUFFICES ASSUME runner \in Judging \ Daily PROVE RowsAreReal'
    BY DEF RowsAreReal
  <2>1. Len(rows) = at - 1
    BY DEF RowsAreOfCases
  <2>2. row # "PASS" => answer[at] \in {"wrong", "lost"}
    BY DEF RowsOf, AnswerCame, Answers
  <2>3. row # "PASS" => /\ answer'[at] \in {"wrong", "lost"}
                        /\ runner \in R4 => disk'[at] \in Done
    BY <1>a, <2>2, LeftOnDisk DEF Done, CaseOK, R4, Gateway, Products
  <2>4. \A i \in 1..Len(rows) : i # at /\ (Failed(i) => Failed(i)')
    BY <2>1 DEF Failed, CaseOK, FixedOK
  <2>5. \A i \in 1..Len(rows') : i \in 1..Len(rows) \/ i = at
    BY <1>c, <2>1 DEF FixedOK
  <2> SUFFICES ASSUME NEW i \in 1..Len(rows'), rows'[i] # "PASS", hasty = {} PROVE Failed(i)'
    BY DEF RowsAreReal
  <2>6. CASE i \in 1..Len(rows)
    BY <1>c, <2>4, <2>6 DEF RowsAreReal
  <2>7. CASE i = at
    BY <1>c, <2>1, <2>3, <2>7 DEF Failed, FixedOK
  <2> QED BY <2>5, <2>6, <2>7
<1>6. FailHolds'
  BY DEF FailHolds, Failed, CaseOK, FixedOK, RowsOK, InFlight, Done,
         SentSince
<1>7. LooksAtNothing'
  BY DEF LooksAtNothing, Marked
<1> QED BY <1>1, <1>2, <1>3, <1>4, <1>5, <1>6, <1>7

LEMMA ConcludeKeepsFail ==
  ASSUME CInv, VInv, FInv, Conclude PROVE FInv'
<1> USE CampaignAssumption DEF CInv, VInv, FInv, Conclude, Cases
<1>1. AnswerCame'
  BY DEF AnswerCame
<1>2. NoTask'
  BY DEF NoTask
<1>3. ArmFindsNothing'
  BY DEF ArmFindsNothing
<1>4. PanelHasAll'
  BY DEF PanelHasAll, AllGood, Good
<1>5. RowsAreReal'
  BY DEF RowsAreReal, Failed
<1>6. FailHolds'
  <2> SUFFICES ASSUME terminal' = "FAIL", terminal # "FAIL", runner \in Judging
               PROVE  FailHolds'
    BY DEF FailHolds, Failed
  <2> PICK ready \in BOOLEAN : ~Silent(rows) /\ ~Earned(rows, ready)
    BY DEF FixedOK
  <2>1. runner # "acquire"
    BY JudgingFacts DEF Silent, P, JudgingOK, FixedOK
  <2>2. runner # "daily_panel"
    <3> SUFFICES ASSUME runner = "daily_panel" PROVE FALSE
      OBVIOUS
    <3>1. AllGood(rows)
      BY JudgingFacts DEF Silent, P, JudgingOK, FixedOK
    <3>2. GoesOn(rows)
      BY <3>1, GoodGoesOn, JudgingFacts DEF P, JudgingOK, FixedOK, RowsOK
    <3>3. \A c \in Cases : disk[c] = "COMPLETE"
      BY <3>1, <3>2 DEF Wanted, FixedOK, PanelHasAll
    <3> QED
      BY <3>3, JudgedFacts, JudgingFacts
         DEF Earned, P, JudgedOK, JudgingOK, FixedOK, Daily, Judging
  <2>3. runner \in Judging \ Daily
    BY <2>1, <2>2 DEF Judging, Daily
  <2>4. CASE \E i \in 1..Len(rows) : rows[i] # "PASS"
    <3>1. \A i \in 1..Len(rows) : i \in Cases
      BY DEF RowsOK, FixedOK
    <3> QED BY <2>3, <2>4, <3>1 DEF RowsAreReal, FailHolds, Failed
  <2>5. CASE \A i \in 1..Len(rows) : rows[i] = "PASS"
    <3>1. AllGood(rows)
      BY <2>5 DEF AllGood, Good, RowsOK
    <3>2. GoesOn(rows)
      BY <2>3, <3>1, GoodGoesOn, JudgingFacts DEF P, JudgingOK, FixedOK, RowsOK
    <3>3. at = N + 1 /\ Len(rows) = N
      BY <2>3, <3>2 DEF Wanted, FixedOK, RowsAreOfCases
    <3>4. \A c \in Deciding : Passes(c, rows)
      BY <2>5, <3>3 DEF Passes, Good, Deciding, RowsOK
    <3>5. P.judged = "rows" /\ P.deciding = Deciding
      BY <2>3, JudgedFacts DEF P, JudgedOK, FixedOK, Deciding, Judging
    <3>6. \/ P.pair = "epoch" /\ epoch # resident
          \/ P.pair = "steady" /\ steady # "same"
          \/ P.pair \notin {"any", "epoch", "steady"}
      BY <3>4, <3>5 DEF Earned
    <3>7. CASE runner = "speed_soak"
      BY <2>3, <3>6, <3>7, JudgedFacts DEF P, JudgedOK, FixedOK, FailHolds
    <3>8. CASE runner = "speed_product"
      <4>1. steady # "same" /\ steady # "unknown"
        BY <3>3, <3>6, <3>8, JudgedFacts DEF P, JudgedOK, FixedOK, Turned,
           Products
      <4> QED BY <2>3, <3>8, <4>1 DEF FailHolds, FixedOK
    <3>9. CASE runner \notin {"speed_soak", "speed_product"}
      BY <3>6, <3>9, JudgingFacts DEF P, JudgingOK, FixedOK
    <3> QED BY <3>7, <3>8, <3>9
  <2> QED BY <2>4, <2>5
<1>7. LooksAtNothing'
  BY DEF LooksAtNothing, Marked
<1> QED BY <1>1, <1>2, <1>3, <1>4, <1>5, <1>6, <1>7

LEMMA CrashKeepsFail ==
  ASSUME CInv, VInv, FInv, Crash PROVE FInv'
<1> USE CampaignAssumption DEF CInv, VInv, FInv, Crash, Cases
<1>1. AnswerCame'
  BY DEF AnswerCame
<1>2. NoTask'
  BY DEF NoTask
<1>3. ArmFindsNothing'
  BY DEF ArmFindsNothing
<1>4. PanelHasAll'
  BY DEF PanelHasAll, AllGood, Good
<1>5. RowsAreReal'
  BY DEF RowsAreReal, Failed
<1>6. FailHolds'
  BY DEF FailHolds, Failed
<1>7. LooksAtNothing'
  BY DEF LooksAtNothing, Marked
<1> QED BY <1>1, <1>2, <1>3, <1>4, <1>5, <1>6, <1>7

LEMMA RestartPairKeepsFail ==
  ASSUME CInv, VInv, FInv, RestartPair PROVE FInv'
<1> USE CampaignAssumption DEF CInv, VInv, FInv, RestartPair, Cases
<1>1. AnswerCame'
  BY DEF AnswerCame
<1>2. NoTask'
  BY DEF NoTask
<1>3. ArmFindsNothing'
  BY DEF ArmFindsNothing
<1>4. PanelHasAll'
  BY DEF PanelHasAll, AllGood, Good
<1>5. RowsAreReal'
  BY DEF RowsAreReal, Failed
<1>6. FailHolds'
  BY DEF FixedOK, CaseOK, EpochOK, RowsOK, MarkedFirst, Marking, Collected,
         Gateway, Products, Daily, R4, Judging, Failed, Done,
         InFlight, SentSince, AnswerCame, NoTask, ArmFindsNothing,
         PanelHasAll, RowsAreReal, FailHolds, P
<1>7. LooksAtNothing'
  BY DEF LooksAtNothing, Marked
<1> QED BY <1>1, <1>2, <1>3, <1>4, <1>5, <1>6, <1>7

LEMMA HeardKeepsFail ==
  ASSUME CInv, VInv, FInv, NEW a \in Answers, Heard(a) PROVE FInv'
<1> USE CampaignAssumption DEF CInv, VInv, FInv, Heard, Cases
<1>a. at \in Cases /\ pc \in {"post", "wait", "poll"}
  BY DEF CanCome, RowsOK, FixedOK
<1>b. runner \in R4 => pc = "wait"
  BY <1>a, KindsOf DEF CanCome, R4
<1>1. AnswerCame'
  BY <1>a DEF AnswerCame, CaseOK
<1>2. NoTask'
  BY DEF NoTask
<1>3. ArmFindsNothing'
  BY <1>a DEF ArmFindsNothing
<1>4. PanelHasAll'
  BY <1>a DEF PanelHasAll, AllGood, Good
<1>5. RowsAreReal'
  BY DEF RowsAreReal, Failed, CaseOK, FixedOK, RowsOK, InFlight, Done,
         SentSince
<1>6. FailHolds'
  <2> SUFFICES ASSUME terminal = "FAIL", runner \in Judging PROVE FailHolds'
    BY DEF FailHolds
  <2>1. runner \in R4 /\ runner \notin Daily /\ runner \notin Products /\ runner \notin Gateway
    <3>1. runner \notin Gateway \cup Collected \cup Daily
      BY <1>a DEF Settled, FailHolds
    <3> QED BY <3>1 DEF FixedOK, Runners, Gateway
  <2>2. at \in Cases /\ disk[at] \notin Done
    BY <2>1, <1>a, <1>b DEF InFlight, Done
  <2>3. \A c \in Cases : Failed(c) => Failed(c)'
    BY <2>1, <2>2 DEF Failed, CaseOK
  <2> QED BY <2>1, <2>3 DEF FailHolds, R4
<1>7. LooksAtNothing'
  BY DEF LooksAtNothing, Marked
<1> QED BY <1>1, <1>2, <1>3, <1>4, <1>5, <1>6, <1>7

LEMMA CollectKeepsFail ==
  ASSUME CInv, VInv, FInv, Collect PROVE FInv'
<1> USE CampaignAssumption DEF CInv, VInv, FInv, Collect, Cases
<1>1. AnswerCame'
  BY DEF AnswerCame
<1>2. NoTask'
  BY DEF NoTask
<1>3. ArmFindsNothing'
  BY DEF ArmFindsNothing, FixedOK
<1>4. PanelHasAll'
  BY DEF PanelHasAll, AllGood, Good
<1>5. RowsAreReal'
  BY DEF RowsAreReal, Failed
<1>6. FailHolds'
  BY DEF FailHolds, Failed
<1>7. LooksAtNothing'
  <2> SUFFICES ASSUME runner \in Judging, Marked(at) PROVE FALSE
    BY DEF LooksAtNothing, Marked
  <2>1. at \in Cases
    BY DEF Wanted, FixedOK
  <2>2. disk[at] # "none"
    BY DEF Marked
  <2>3. runner # "arm"
    BY <2>1, <2>2 DEF ArmFindsNothing, FixedOK
  <2>4. disk[at] \in OnDisk /\ P.found[disk[at]] = "send"
    BY <2>1, <2>2 DEF Seen, CaseOK, OnDisk
  <2> QED BY <2>3, <2>4, JudgingFacts DEF P, JudgingOK, FixedOK
<1> QED BY <1>1, <1>2, <1>3, <1>4, <1>5, <1>6, <1>7

LEMMA LookKeepsFail ==
  ASSUME CInv, VInv, FInv, Look PROVE FInv'
<1> USE CampaignAssumption DEF CInv, VInv, FInv, Look, Cases
<1>a. at \in Cases /\ runner \in Collected /\ terminal = "none"
  BY DEF FixedOK, RowsOK, Alone, Settled
<1>b. runner \notin Daily /\ runner \notin R4 /\ runner \notin Gateway
  BY <1>a, KindsOf
<1>c. runner = "arm" => disk' = [disk EXCEPT ![at] = "DIR"] /\ at' = at /\ pc' = "mark"
  BY <1>a DEF ArmFindsNothing, Marked, FixedOK
<1>1. AnswerCame'
  BY DEF AnswerCame
<1>2. NoTask'
  BY DEF NoTask, CaseOK
<1>3. ArmFindsNothing'
  BY <1>a, <1>c DEF ArmFindsNothing, CaseOK, FixedOK
<1>4. PanelHasAll'
  BY <1>b DEF PanelHasAll, Daily
<1>5. RowsAreReal'
  <2> SUFFICES ASSUME runner \in Judging, hasty = {} PROVE RowsAreReal'
    BY DEF RowsAreReal
  <2>1. ~Marked(at)
    BY <1>a DEF LooksAtNothing
  <2>2. rows' = rows
    BY <2>1
  <2> QED BY <1>b, <2>2 DEF RowsAreReal, Failed
<1>6. FailHolds'
  BY <1>a DEF FailHolds
<1>7. LooksAtNothing'
  BY DEF LooksAtNothing, Marked
<1> QED BY <1>1, <1>2, <1>3, <1>4, <1>5, <1>6, <1>7

LEMMA OrphanLooksKeepsFail ==
  ASSUME CInv, VInv, FInv, NEW l \in Starts, OrphanLooks(l) PROVE FInv'
<1> USE CampaignAssumption DEF CInv, VInv, FInv, OrphanLooks, Cases
<1>a. runner \in Collected /\ orphan[l].case \in Cases
  BY DEF Alone, OrphanOK, Orphans
<1>b. runner \notin Daily /\ runner \notin R4 /\ runner \notin Gateway
  BY <1>a, KindsOf
<1>1. AnswerCame'
  BY DEF AnswerCame
<1>2. NoTask'
  BY DEF NoTask, CaseOK
<1>3. ArmFindsNothing'
  BY DEF ArmFindsNothing
<1>4. PanelHasAll'
  BY <1>b DEF PanelHasAll, Daily
<1>5. RowsAreReal'
  BY <1>b DEF RowsAreReal, Failed
<1>6. FailHolds'
  BY <1>b DEF FailHolds, Failed
<1>7. LooksAtNothing'
  <2>1. disk'[at] \in {"none", "DIR"} \/ disk'[at] = disk[at] \/ ~(pc = "look")
    BY <1>a DEF CaseOK, FixedOK, RowsOK
  <2> QED BY <2>1 DEF LooksAtNothing, Marked
<1> QED BY <1>1, <1>2, <1>3, <1>4, <1>5, <1>6, <1>7

LEMMA OrphanMarksKeepsFail ==
  ASSUME CInv, VInv, FInv, NEW l \in Starts, OrphanMarks(l) PROVE FInv'
<1> USE CampaignAssumption DEF CInv, VInv, FInv, OrphanMarks, Cases
<1>a. runner \in Collected /\ orphan[l].case \in Cases
  BY DEF Alone, OrphanOK, Orphans
<1>b. runner \notin Daily /\ runner \notin R4 /\ runner \notin Gateway
  BY <1>a, KindsOf
<1>1. AnswerCame'
  BY DEF AnswerCame
<1>2. NoTask'
  BY DEF NoTask, CaseOK
<1>3. ArmFindsNothing'
  BY DEF ArmFindsNothing
<1>4. PanelHasAll'
  BY <1>b DEF PanelHasAll, Daily
<1>5. RowsAreReal'
  BY <1>b DEF RowsAreReal, Failed
<1>6. FailHolds'
  BY <1>b DEF FailHolds, Failed
<1>7. LooksAtNothing'
  <2>1. pc = "look" => disk'[at] = disk[at] \/ at \in hasty
    BY <1>a DEF CaseOK, FixedOK, RowsOK, LeftBehind, Unmarked
  <2> QED BY <2>1 DEF LooksAtNothing, Marked
<1> QED BY <1>1, <1>2, <1>3, <1>4, <1>5, <1>6, <1>7

LEMMA OrphanPostsKeepsFail ==
  ASSUME CInv, VInv, FInv, NEW l \in Starts, OrphanPosts(l) PROVE FInv'
<1> USE CampaignAssumption DEF CInv, VInv, FInv, OrphanPosts, Cases
<1>1. AnswerCame'
  BY DEF AnswerCame
<1>2. NoTask'
  BY DEF NoTask
<1>3. ArmFindsNothing'
  BY DEF ArmFindsNothing
<1>4. PanelHasAll'
  BY DEF PanelHasAll, AllGood, Good
<1>5. RowsAreReal'
  BY DEF RowsAreReal, Failed
<1>6. FailHolds'
  BY DEF FailHolds, Failed
<1>7. LooksAtNothing'
  BY DEF LooksAtNothing, Marked
<1> QED BY <1>1, <1>2, <1>3, <1>4, <1>5, <1>6, <1>7

LEMMA OrphanEndsKeepsFail ==
  ASSUME CInv, VInv, FInv, NEW l \in Starts, NEW a \in Answers, OrphanEnds(l, a) PROVE FInv'
<1> USE CampaignAssumption DEF CInv, VInv, FInv, OrphanEnds, Cases
<1>a. runner \in Collected /\ orphan[l].case \in Cases
  BY DEF Alone, OrphanOK, Orphans
<1>b. runner \notin Daily /\ runner \notin R4 /\ runner \notin Gateway
  BY <1>a, KindsOf
<1>1. AnswerCame'
  BY DEF AnswerCame
<1>2. NoTask'
  BY LeftOnDisk DEF NoTask, CaseOK
<1>3. ArmFindsNothing'
  BY DEF ArmFindsNothing
<1>4. PanelHasAll'
  BY <1>b DEF PanelHasAll, Daily
<1>5. RowsAreReal'
  <2>1. \A i \in 1..Len(rows) : answer'[i] = answer[i]
    BY <1>b DEF RowsAreOfCases, RowsOK, FixedOK, CaseOK
  <2> QED BY <1>b, <2>1 DEF RowsAreReal, Failed
<1>6. FailHolds'
  <2>1. terminal # "none" => answer' = answer
    BY <1>a DEF Settled
  <2> QED BY <1>b, <2>1 DEF FailHolds, Failed
<1>7. LooksAtNothing'
  <2>1. Marked(orphan[l].case)
    BY <1>a DEF SentIsMarked
  <2>2. pc = "look" => disk'[at] = disk[at] \/ Marked(at)
    BY <1>a, <2>1 DEF CaseOK, FixedOK, RowsOK
  <2> QED BY <2>2 DEF LooksAtNothing, Marked
<1> QED BY <1>1, <1>2, <1>3, <1>4, <1>5, <1>6, <1>7

LEMMA OrphanDiesKeepsFail ==
  ASSUME CInv, VInv, FInv, NEW l \in Starts, OrphanDies(l) PROVE FInv'
<1> USE CampaignAssumption DEF CInv, VInv, FInv, OrphanDies, Cases
<1>1. AnswerCame'
  BY DEF AnswerCame
<1>2. NoTask'
  BY DEF NoTask
<1>3. ArmFindsNothing'
  BY DEF ArmFindsNothing
<1>4. PanelHasAll'
  BY DEF PanelHasAll, AllGood, Good
<1>5. RowsAreReal'
  BY DEF RowsAreReal, Failed
<1>6. FailHolds'
  BY DEF FailHolds, Failed
<1>7. LooksAtNothing'
  BY DEF LooksAtNothing, Marked
<1> QED BY <1>1, <1>2, <1>3, <1>4, <1>5, <1>6, <1>7

LEMMA InitFail == ASSUME Init PROVE FInv
BY DEF Init, FInv, AnswerCame, NoTask, ArmFindsNothing, LooksAtNothing,
     PanelHasAll, RowsAreReal, FailHolds, Gone

(* What a FAIL rests on, kept by every step.                               *)
THEOREM FailInvariant == Spec => []FInv
<1>1. ASSUME CInv, VInv, FInv, [Next]_vars PROVE FInv'
  <2>1. CASE Launch BY <1>1, <2>1, LaunchKeepsFail
  <2>2. CASE Skip BY <1>1, <2>2, SkipKeepsFail
  <2>3. CASE RefuseReplay BY <1>1, <2>3, RefuseReplayKeepsFail
  <2>4. CASE End BY <1>1, <2>4, EndKeepsFail
  <2>5. CASE OffAndOn BY <1>1, <2>5, OffAndOnKeepsFail
  <2>6. CASE Mark BY <1>1, <2>6, MarkKeepsFail
  <2>7. CASE Post BY <1>1, <2>7, PostKeepsFail
  <2>8. CASE SaveTask BY <1>1, <2>8, SaveTaskKeepsFail
  <2>9. CASE Save BY <1>1, <2>9, SaveKeepsFail
  <2>10. CASE Conclude BY <1>1, <2>10, ConcludeKeepsFail
  <2>11. CASE Crash BY <1>1, <2>11, CrashKeepsFail
  <2>12. CASE RestartPair BY <1>1, <2>12, RestartPairKeepsFail
  <2>13. CASE \E a \in Answers : Heard(a) BY <1>1, <2>13, HeardKeepsFail
  <2>14. CASE Collect BY <1>1, <2>14, CollectKeepsFail
  <2>15. CASE Look BY <1>1, <2>15, LookKeepsFail
  <2>16. CASE \E l \in Starts : OrphanLooks(l) BY <1>1, <2>16, OrphanLooksKeepsFail
  <2>17. CASE \E l \in Starts : OrphanMarks(l) BY <1>1, <2>17, OrphanMarksKeepsFail
  <2>18. CASE \E l \in Starts : OrphanPosts(l) BY <1>1, <2>18, OrphanPostsKeepsFail
  <2>19. CASE \E l \in Starts : OrphanDies(l) BY <1>1, <2>19, OrphanDiesKeepsFail
  <2>20. CASE \E l \in Starts : \E a \in Answers : OrphanEnds(l, a)
    BY <1>1, <2>20, OrphanEndsKeepsFail
  <2>21. CASE UNCHANGED vars
    BY <1>1, <2>21 DEF vars, FInv, AnswerCame, NoTask, ArmFindsNothing,
       LooksAtNothing, PanelHasAll,
         AllGood, Good, RowsAreReal, FailHolds, Failed, Cases, Marked
  <2> QED
    BY <1>1, <2>1, <2>2, <2>3, <2>4, <2>5, <2>6, <2>7, <2>8, <2>9, <2>10,
       <2>11, <2>12, <2>13, <2>14, <2>15, <2>16, <2>17, <2>18, <2>19, <2>20,
       <2>21 DEF Next
<1> QED BY InitFail, CampaignInvariant, VerdictInvariant, <1>1, PTL DEF Spec

(* A FAIL is never the work of the replay guard alone, unless the runner   *)
(* was started again over a collector that had yet to make its mark.       *)
THEOREM FailsAreReal == Spec => []FailIsReal
<1>1. ASSUME FInv PROVE FailIsReal
  BY <1>1 DEF FInv, FailHolds, Failed, FailIsReal
<1> QED BY <1>1, FailInvariant, PTL
=============================================================================
