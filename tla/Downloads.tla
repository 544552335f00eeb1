------------------------------ MODULE Downloads ------------------------------
(***************************************************************************)
(* The model downloader, download.go: its HTTP handlers work on jobs in    *)
(* memory under m.mu, one goroutine run() transfers the files of the       *)
(* active job, and receipts, partials and published links outlive it.      *)
(* A source may change under its URL between two requests.                 *)
(***************************************************************************)
EXTENDS Naturals

CONSTANTS
  Jobs, NoJob,          \* ids of jobs; the empty id of m.active
  Count,                \* files of a job
  Size,                 \* chunks of a file
  MaxVersion            \* bound: versions a source goes through

ASSUME NoJobAssumption == NoJob \notin Jobs
ASSUME CountAssumption == Count \in Nat \ {0}
ASSUME SizeAssumption == Size \in Nat \ {0}
ASSUME VersionAssumption == MaxVersion \in Nat \ {0}

VARIABLES
  up, closing,          \* the gateway serves; shutdownDownloads was called
  job,                  \* m.jobs
  receipt,              \* job.json of each job
  sha,                  \* hash pinned for each file: the version it is of
  part,                 \* <file>.part: chunks, versions they are from, synced
  final,                \* <file>: its link, and whether the directory is synced
  source,               \* version the URLs serve now
  active, cancelled,    \* m.active, and the context of its run()
  pc, i, resp, failed   \* run(): position, file, version of the response, failure

control == <<active, cancelled>>
run == <<pc, i, resp, failed>>
records == <<job, receipt>>
disk == <<part, final>>
vars == <<up, closing, records, sha, disk, source, control, run>>

Files == 1..Count
Versions == 1..MaxVersion
Unknown == 0            \* no hash, no validator, no response

InRun == {"RUNNING", "VERIFYING", "PAUSING", "CANCELLING"}
Resumable == {"PAUSED", "FAILED", "CANCELLED"}
Statuses == {"ABSENT", "PLANNED", "COMPLETE"} \cup InRun \cup Resumable
FileStatuses == {"PLANNED", "RUNNING", "VERIFYING", "COMPLETE"}
DownloadFile == [status : FileStatuses, val : 0..MaxVersion]
DownloadJob == [status : Statuses, file : [Files -> DownloadFile]]
Partial == [n : 0..Size, of : SUBSET Versions, synced : BOOLEAN]

Planned(v) == [status |-> "PLANNED", val |-> v]
Absent == [status |-> "ABSENT", file |-> [f \in Files |-> Planned(Unknown)]]
Nothing == [n |-> 0, of |-> {}, synced |-> TRUE]

Init ==
  /\ up = FALSE /\ closing = FALSE
  /\ job = [j \in Jobs |-> Absent] /\ receipt = [j \in Jobs |-> Absent]
  /\ sha = [j \in Jobs |-> [f \in Files |-> Unknown]]
  /\ part = [j \in Jobs |-> [f \in Files |-> Nothing]]
  /\ final = [j \in Jobs |-> [f \in Files |-> "none"]]
  /\ source = 1
  /\ active = NoJob /\ cancelled = FALSE
  /\ pc = "none" /\ i = 1 /\ resp = Unknown /\ failed = FALSE

-----------------------------------------------------------------------------
(* persistLocked: an error leaves the old receipt or, after the rename,    *)
(* the new one.                                                            *)
Saved(j) == receipt' = [receipt EXCEPT ![j] = job'[j]]
NotSaved(j) == receipt' = receipt \/ Saved(j)

SetStatus(j, s) == job' = [job EXCEPT ![j].status = s]

(* reconcileLocked finds exactly the files recorded as complete. *)
Reconciled(j, d) ==
  \A f \in Files : d.file[f].status = "COMPLETE" <=> final[j][f] # "none"

-----------------------------------------------------------------------------
(* The gateway process and its handlers.                                   *)

Recovered(j) ==
  LET d == receipt[j]
      stopped == IF d.status \in InRun THEN [d EXCEPT !.status = "PAUSED"] ELSE d
  IN IF d.status = "ABSENT" \/ Reconciled(j, stopped) THEN stopped
     ELSE [d EXCEPT !.status = "FAILED"]

newDownloadManager ==
  /\ ~up
  /\ up' = TRUE /\ closing' = FALSE
  /\ job' = [j \in Jobs |-> Recovered(j)]
  /\ receipt' = job'
  /\ UNCHANGED <<sha, disk, source, control, run>>

(* A receipt could not be written: no route of this process works. *)
ManagerUnavailable ==
  /\ ~up
  /\ \E S \in SUBSET Jobs :
       receipt' = [j \in Jobs |-> IF j \in S THEN Recovered(j) ELSE receipt[j]]
  /\ UNCHANGED <<up, closing, job, sha, disk, source, control, run>>

(* The process ends: drained, killed, or past the grace period. *)
Exit ==
  /\ up
  /\ up' = FALSE /\ closing' = FALSE
  /\ job' = [j \in Jobs |-> Absent]
  /\ active' = NoJob /\ cancelled' = FALSE
  /\ pc' = "none" /\ i' = 1 /\ resp' = Unknown /\ failed' = FALSE
  /\ UNCHANGED <<receipt, sha, source>>

ProcessEnds == Exit /\ UNCHANGED disk

(* What is not synced may be lost: links, entries of parts, last chunks. *)
Remains(p) ==
  {q \in Partial : /\ q.n <= p.n /\ q.of \subseteq p.of
                   /\ q.of = {} <=> q.n = 0
                   /\ q.synced}
Remnants == UNION {Remains(part[j][f]) : j \in Jobs, f \in Files}

PowerLoss ==
  /\ Exit
  /\ final' \in [Jobs -> [Files -> {"none", "durable"}]]
  /\ \A j \in Jobs, f \in Files : final[j][f] # "linked" => final'[j][f] = final[j][f]
  /\ part' \in [Jobs -> [Files -> Remnants]]
  /\ \A j \in Jobs, f \in Files :
       /\ part'[j][f] \in Remains(part[j][f])
       /\ part[j][f].synced /\ final'[j][f] # "none" => part'[j][f] = part[j][f]

(* A URL serves a new version from now on. *)
SourceChanges ==
  /\ source < MaxVersion
  /\ source' = source + 1
  /\ UNCHANGED <<up, closing, records, sha, disk, control, run>>

(* A file may be planned with a hash, of any version published so far. *)
plan(j) ==
  /\ up /\ ~closing
  /\ job[j].status = "ABSENT" /\ receipt[j].status = "ABSENT"
  /\ \E pins \in [Files -> 0..source], vals \in [Files -> {Unknown, source}] :
       /\ sha' = [sha EXCEPT ![j] = pins]
       /\ LET d == [status |-> "PLANNED", file |-> [f \in Files |-> Planned(vals[f])]]
          IN /\ receipt' = [receipt EXCEPT ![j] = d]
             /\ \/ job' = [job EXCEPT ![j] = d]
                \/ job' = job              \* saved, and an error all the same
  /\ UNCHANGED <<up, closing, disk, source, control, run>>

(* Fault: a resumed job forgets which files it has. *)
startAfresh(j) ==
  /\ up /\ ~closing /\ active = NoJob
  /\ job[j].status \in {"PLANNED"} \cup Resumable
  /\ Reconciled(j, job[j])
  /\ job' = [job EXCEPT ![j] =
       [status |-> "RUNNING", file |-> [f \in Files |-> Planned(job[j].file[f].val)]]]
  /\ Saved(j)
  /\ active' = j /\ cancelled' = FALSE
  /\ pc' = "next" /\ i' = 1
  /\ UNCHANGED <<up, closing, sha, disk, source, resp, failed>>

start(j) ==
  /\ up /\ ~closing /\ active = NoJob
  /\ job[j].status \in {"PLANNED"} \cup Resumable
  /\ Reconciled(j, job[j])
  /\ SetStatus(j, "RUNNING")
  /\ \/ /\ Saved(j)
        /\ active' = j /\ cancelled' = FALSE
        /\ pc' = "next" /\ i' = 1
        /\ UNCHANGED <<resp, failed>>
     \/ NotSaved(j) /\ UNCHANGED <<control, run>>
  /\ UNCHANGED <<up, closing, sha, disk, source>>

pause(j, cancel) ==
  /\ up
  /\ job[j].status \notin {"ABSENT", "COMPLETE"}
  /\ IF active = j
     THEN /\ SetStatus(j, IF cancel THEN "CANCELLING" ELSE "PAUSING")
          /\ cancelled' = TRUE
     ELSE /\ SetStatus(j, IF cancel THEN "CANCELLED" ELSE "PAUSED")
          /\ UNCHANGED cancelled
  /\ NotSaved(j)
  /\ UNCHANGED <<up, closing, sha, disk, source, active, run>>

shutdownDownloads ==
  /\ up /\ ~closing
  /\ closing' = TRUE
  /\ cancelled' = (active # NoJob)
  /\ UNCHANGED <<up, records, sha, disk, source, active, run>>

-----------------------------------------------------------------------------
(* run() and transfer(), with j the active job and i its file.             *)

At(p) == active # NoJob /\ pc = p
ThisFile == job[active].file[i]
ThisPart == part[active][i]

SetFile(rec) == job' = [job EXCEPT ![active].file[i] = rec]
SetBoth(s, t) ==
  job' = [job EXCEPT ![active] =
            [status |-> s, file |-> [@.file EXCEPT ![i].status = t]]]
Goto(p) == pc' = p /\ UNCHANGED <<i, resp, failed>>
Fail == pc' = "defer" /\ failed' = TRUE /\ UNCHANGED <<i, resp>>

NextFile ==
  /\ At("next") /\ i <= Count /\ ~cancelled
  /\ ThisFile.status = "COMPLETE"
  /\ i' = i + 1
  /\ UNCHANGED <<pc, resp, failed>>
  /\ UNCHANGED <<up, closing, records, sha, disk, source, control>>

AllFiles ==
  /\ At("next") /\ i > Count
  /\ Goto("defer")
  /\ UNCHANGED <<up, closing, records, sha, disk, source, control>>

(* Bytes whose version nothing can tell are not continued. *)
MayContinue ==
  ThisPart.n = 0 \/ ThisFile.val # Unknown \/ sha[active][i] # Unknown

OpenPartial ==
  /\ At("next") /\ i <= Count /\ ~cancelled
  /\ ThisFile.status # "COMPLETE" /\ final[active][i] = "none"
  /\ \/ ThisPart.n = Size /\ Goto("verify")
     \/ ThisPart.n < Size /\ MayContinue /\ Goto("request")
  /\ UNCHANGED <<up, closing, records, sha, disk, source, control>>

(* Fault: the validator of a resumed response is not compared. *)
AnyValidator(v) == TRUE

(* The validator of the response, if it has one, is of the version it serves. *)
Validates(v) == ThisFile.val \in {Unknown, v}

Response ==
  /\ At("request")
  /\ \E v \in {Unknown, source} :
       /\ Validates(v)
       /\ SetFile([status |-> "RUNNING", val |-> v])
  /\ resp' = source
  /\ \/ Saved(active) /\ pc' = "body" /\ UNCHANGED failed
     \/ NotSaved(active) /\ pc' = "defer" /\ failed' = TRUE
  /\ UNCHANGED <<up, closing, sha, disk, source, control, i>>

ReadBody ==
  /\ At("body") /\ ~cancelled
  /\ Goto("read")
  /\ UNCHANGED <<up, closing, records, sha, disk, source, control>>

Longer(synced) ==
  [n |-> ThisPart.n + 1, of |-> ThisPart.of \cup {resp}, synced |-> synced]

(* Every second, and after the last chunk, part and receipt are saved. *)
Chunk ==
  /\ At("read") /\ ThisPart.n < Size
  /\ UNCHANGED job
  /\ \/ /\ part' = [part EXCEPT ![active][i] = Longer(TRUE)]
        /\ \/ Saved(active) /\ Goto("body")
           \/ NotSaved(active) /\ Fail
     \/ /\ part' = [part EXCEPT ![active][i] = Longer(FALSE)]
        /\ UNCHANGED receipt
        /\ \/ ThisPart.n + 1 < Size /\ Goto("body")
           \/ Fail
  /\ UNCHANGED <<up, closing, sha, final, source, control>>

EndOfBody ==
  /\ At("read") /\ ThisPart.n = Size
  /\ Goto("verify")
  /\ UNCHANGED <<up, closing, records, sha, disk, source, control>>

(* Fault: a part that was already whole is not synced again. *)
VerifyAtOnce ==
  /\ At("verify") /\ ~cancelled
  /\ Goto("mark")
  /\ UNCHANGED <<up, closing, records, sha, disk, source, control>>

SyncPartial ==
  /\ At("verify") /\ ~cancelled
  /\ part' = [part EXCEPT ![active][i].synced = TRUE]
  /\ Goto("mark")
  /\ UNCHANGED <<up, closing, records, sha, final, source, control>>

(* The status set here may be PAUSING or CANCELLING by now. *)
MarkVerifying ==
  /\ At("mark")
  /\ SetBoth("VERIFYING", "VERIFYING")
  /\ \/ Saved(active) /\ Goto("hash")
     \/ NotSaved(active) /\ Fail
  /\ UNCHANGED <<up, closing, sha, disk, source, control>>

HashMatches == sha[active][i] = Unknown \/ ThisPart.of = {sha[active][i]}

Hash ==
  /\ At("hash") /\ ~cancelled
  /\ HashMatches
  /\ Goto("link")
  /\ UNCHANGED <<up, closing, records, sha, disk, source, control>>

Link ==
  /\ At("link") /\ final[active][i] = "none"
  /\ final' = [final EXCEPT ![active][i] = "linked"]
  /\ Goto("sync")
  /\ UNCHANGED <<up, closing, records, sha, part, source, control>>

(* Fault: the directory is not synced before the record. *)
SkipSync ==
  /\ At("sync")
  /\ Goto("record")
  /\ UNCHANGED <<up, closing, records, sha, disk, source, control>>

(* That of the file only; those above it are taken to be there.            *)
SyncDirectory ==
  /\ At("sync")
  /\ final' = [final EXCEPT ![active][i] = "durable"]
  /\ Goto("record")
  /\ UNCHANGED <<up, closing, records, sha, part, source, control>>

RecordComplete ==
  /\ At("record")
  /\ SetBoth("RUNNING", "COMPLETE")
  /\ \/ Saved(active) /\ pc' = "next" /\ i' = i + 1 /\ UNCHANGED failed
     \/ NotSaved(active) /\ pc' = "defer" /\ failed' = TRUE /\ UNCHANGED i
  /\ UNCHANGED <<up, closing, sha, disk, source, control, resp>>

(* The context is cancelled, the source refuses, stalls or breaks off, the *)
(* hash differs, or an operation on a file fails.                          *)
TransferFails ==
  /\ \/ At("next") /\ i <= Count /\ (cancelled \/ ThisFile.status # "COMPLETE")
     \/ active # NoJob /\ pc \in {"request", "body", "read", "verify", "mark",
                                  "hash", "link", "sync"}
  /\ Fail
  /\ UNCHANGED <<up, closing, records, sha, disk, source, control>>

(* Fault: what went through counts, not the cancelled context. *)
OutcomeOfFiles ==
  IF ~failed /\ Reconciled(active, job[active]) THEN "COMPLETE"
  ELSE IF ~cancelled THEN "FAILED"
  ELSE IF job[active].status = "CANCELLING" THEN "CANCELLED" ELSE "PAUSED"

Outcome ==
  IF cancelled
  THEN IF job[active].status = "CANCELLING" THEN "CANCELLED" ELSE "PAUSED"
  ELSE IF failed \/ ~Reconciled(active, job[active]) THEN "FAILED" ELSE "COMPLETE"

Return ==
  /\ active' = NoJob /\ cancelled' = FALSE
  /\ pc' = "none" /\ i' = 1 /\ resp' = Unknown /\ failed' = FALSE

(* Fault: the deferred function returns when it cannot save. *)
FinishOrReturn ==
  /\ At("defer")
  /\ \/ SetStatus(active, Outcome) /\ Saved(active) /\ Return
     \/ /\ SetStatus(active, "FAILED")
        /\ pc' = "none"
        /\ UNCHANGED <<receipt, control, i, resp, failed>>
  /\ UNCHANGED <<up, closing, sha, disk, source>>

(* The deferred function of run(). *)
Finish ==
  /\ At("defer")
  /\ \/ SetStatus(active, Outcome) /\ Saved(active)
     \/ /\ SetStatus(active, "FAILED")
        /\ \/ UNCHANGED receipt
           \/ receipt' = [receipt EXCEPT ![active] =
                            [job[active] EXCEPT !.status = Outcome]]
  /\ Return
  /\ UNCHANGED <<up, closing, sha, disk, source>>

Run ==
  \/ NextFile \/ AllFiles \/ OpenPartial \/ Response \/ ReadBody \/ Chunk
  \/ EndOfBody \/ SyncPartial \/ MarkVerifying \/ Hash \/ Link
  \/ SyncDirectory \/ RecordComplete \/ TransferFails \/ Finish

Next ==
  \/ newDownloadManager \/ ManagerUnavailable \/ ProcessEnds \/ PowerLoss
  \/ SourceChanges \/ shutdownDownloads
  \/ \E j \in Jobs : plan(j) \/ start(j) \/ \E c \in BOOLEAN : pause(j, c)
  \/ Run

Spec == Init /\ [][Next]_vars

(* run() is one goroutine; connecting, headers and each chunk have their   *)
(* time limits (15, 30 and 90 seconds), after which the transfer fails.    *)
FairSpec == Spec /\ WF_vars(Run)

-----------------------------------------------------------------------------
StoredType ==
  /\ job \in [Jobs -> DownloadJob] /\ receipt \in [Jobs -> DownloadJob]
  /\ sha \in [Jobs -> [Files -> 0..MaxVersion]]

DiskType ==
  /\ part \in [Jobs -> [Files -> Partial]]
  /\ final \in [Jobs -> [Files -> {"none", "linked", "durable"}]]

ProcessType ==
  /\ up \in BOOLEAN /\ closing \in BOOLEAN /\ source \in Versions
  /\ active \in Jobs \cup {NoJob} /\ cancelled \in BOOLEAN
  /\ pc \in {"none", "next", "request", "body", "read", "verify", "mark",
             "hash", "link", "sync", "record", "defer"}
  /\ i \in 1..(Count + 1) /\ resp \in 0..MaxVersion /\ failed \in BOOLEAN

(* Every variable has its type; no partial grows beyond the pinned size.   *)
TypeOK == StoredType /\ DiskType /\ ProcessType

(* A published file has all its chunks, and from one version of the        *)
(* source: the pinned one if there is a hash; whatever was interrupted,    *)
(* resumed and changed before (transfer: validators, ranges and hash).     *)
PublishedIsWhole ==
  \A j \in Jobs, f \in Files : final[j][f] # "none" =>
    /\ part[j][f].n = Size
    /\ \E v \in Versions : /\ part[j][f].of = {v}
                           /\ sha[j][f] \in {Unknown, v}

(* What a receipt, in memory or on disk, calls complete is there, also     *)
(* after a crash or a power loss (transfer: link, sync, then record).      *)
RecordedIsThere ==
  \A j \in Jobs : \A d \in {job[j], receipt[j]} : \A f \in Files :
    d.file[f].status = "COMPLETE" \/ d.status = "COMPLETE" => final[j][f] = "durable"

(* A file once recorded as complete stays so in every later receipt and is *)
(* never written again (start, transfer, newDownloadManager).              *)
RecordedIsKept ==
  [][\A j \in Jobs, f \in Files : receipt[j].file[f].status = "COMPLETE" =>
       /\ receipt'[j].file[f].status = "COMPLETE"
       /\ part'[j][f] = part[j][f]]_vars

(* A run that was told to stop never ends as COMPLETE, nor does one that   *)
(* was not told end as stopped (run: deferred function).                   *)
StopIsHonoured ==
  [][\A j \in Jobs : active = j /\ active' = NoJob /\ up' =>
       job'[j].status \in IF cancelled THEN Resumable ELSE {"COMPLETE", "FAILED"}]_vars

(* A run gives the one active place back, whatever source and disk do.     *)
RunEnds == active # NoJob ~> active = NoJob

(* docs/DOWNLOADS.md: "Gateway interruption recovers an active receipt as  *)
(* `PAUSED`, never auto-starts."                                           *)
InterruptedIsPaused ==
  [][\A j \in Jobs : ~up /\ up' /\ receipt[j].status \in InRun =>
       job'[j].status = "PAUSED"]_vars
=============================================================================
