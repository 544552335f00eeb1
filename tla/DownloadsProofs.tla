--------------------------- MODULE DownloadsProofs ---------------------------
(***************************************************************************)
(* Safety of Downloads for any jobs, files, sizes and versions: what       *)
(* receipts say is there, what is published is whole, and neither changes  *)
(* by any order of pauses, failures, crashes and resumes.                  *)
(***************************************************************************)
EXTENDS Downloads, TLAPS

Transferring == {"request", "body", "read", "verify", "mark", "hash", "link"}
Working == Transferring \cup {"sync", "record"}

(* Where run() can be, and what the job in memory says meanwhile.          *)
RunInv ==
  /\ active = NoJob <=> pc = "none"
  /\ cancelled \/ active # NoJob => active # NoJob /\ up
  /\ active # NoJob => job[active].status \in InRun
  /\ pc \in Working => i \in Files
  /\ pc \in {"body", "read"} => resp \in Versions
  /\ failed => pc = "defer"
  /\ active # NoJob =>
       \A f \in Files : f < i => job[active].file[f].status = "COMPLETE"
  /\ pc = "defer" /\ ~failed => i = Count + 1

(* What is recorded is there and stays; job.json never says more than      *)
(* memory, which never says more than the disk.                            *)
RecordInv ==
  /\ \A j \in Jobs, f \in Files :
       /\ job[j].file[f].status = "COMPLETE" => final[j][f] = "durable"
       /\ receipt[j].file[f].status = "COMPLETE" => final[j][f] = "durable"
       /\ job[j].status = "COMPLETE" => job[j].file[f].status = "COMPLETE"
       /\ receipt[j].status = "COMPLETE" => receipt[j].file[f].status = "COMPLETE"
       /\ up /\ receipt[j].file[f].status = "COMPLETE" =>
            job[j].file[f].status = "COMPLETE"
  /\ pc = "record" => final[active][i] = "durable"

(* A job without receipt has no files.                                     *)
FreshInv ==
  \A j \in Jobs : receipt[j].status = "ABSENT" =>
    /\ job[j].status = "ABSENT"
    /\ \A f \in Files : part[j][f].n = 0 /\ final[j][f] = "none"

(* Without a hash all bytes are of one version, and no validator on record *)
(* is of another.                                                          *)
OfVersion(j, f, v) ==
  /\ part[j][f].of = {v}
  /\ job[j].file[f].val \in {Unknown, v}
  /\ receipt[j].file[f].val \in {Unknown, v}

ByteInv ==
  /\ \A j \in Jobs, f \in Files :
       /\ part[j][f].of = {} <=> part[j][f].n = 0
       /\ sha[j][f] = Unknown /\ part[j][f].n # 0 =>
            \E v \in Versions : OfVersion(j, f, v)
  /\ pc \in {"body", "read"} /\ sha[active][i] = Unknown =>
       /\ part[active][i].of \subseteq {resp}
       /\ job[active].file[i].val \in {Unknown, resp}
       /\ receipt[active].file[i].val \in {Unknown, resp}

(* The way to the link: size, hash, and nothing there yet.                 *)
LinkInv ==
  /\ pc \in Transferring => final[active][i] = "none"
  /\ pc \in {"verify", "mark", "hash", "link"} => part[active][i].n = Size
  /\ pc = "request" => MayContinue
  /\ pc = "link" => HashMatches
  /\ pc = "sync" => final[active][i] # "none"

(* What is linked was synced before. *)
SyncInv ==
  /\ \A j \in Jobs, f \in Files : final[j][f] # "none" => part[j][f].synced
  /\ pc \in {"mark", "hash", "link"} => part[active][i].synced

DownloadsInv ==
  /\ TypeOK /\ RunInv /\ RecordInv /\ FreshInv /\ ByteInv /\ LinkInv /\ SyncInv
  /\ PublishedIsWhole

-----------------------------------------------------------------------------
(* How the steps write jobs and receipts.                                  *)
LEMMA StatusWritten ==
  ASSUME StoredType, NEW j \in Jobs, NEW s \in Statuses, SetStatus(j, s)
  PROVE  /\ job' \in [Jobs -> DownloadJob]
         /\ job'[j].status = s
         /\ job'[j].file = job[j].file
         /\ \A k \in Jobs : k # j => job'[k] = job[k]
<1> DEFINE new == [job[j] EXCEPT !.status = s]
<1>1. job[j] \in DownloadJob /\ job' = [job EXCEPT ![j] = new]
  BY DEF StoredType, SetStatus
<1>2. new \in DownloadJob /\ new.status = s /\ new.file = job[j].file
  BY <1>1 DEF DownloadJob
<1> HIDE DEF new
<1> QED BY <1>1, <1>2 DEF StoredType

LEMMA FileWritten ==
  ASSUME StoredType, active \in Jobs, i \in Files, NEW d \in DownloadFile, SetFile(d)
  PROVE  /\ job' \in [Jobs -> DownloadJob]
         /\ job'[active].status = job[active].status
         /\ job'[active].file[i] = d
         /\ \A f \in Files : f # i => job'[active].file[f] = job[active].file[f]
         /\ \A k \in Jobs : k # active => job'[k] = job[k]
<1> DEFINE file == [job[active].file EXCEPT ![i] = d]
           new == [job[active] EXCEPT !.file = file]
<1>1. job[active] \in DownloadJob /\ job[active].file \in [Files -> DownloadFile]
  BY DEF StoredType, DownloadJob
<1>2. /\ file \in [Files -> DownloadFile] /\ file[i] = d
      /\ \A f \in Files : f # i => file[f] = job[active].file[f]
  BY <1>1
<1>3. job' = [job EXCEPT ![active] = new]
  BY DEF SetFile
<1> HIDE DEF file
<1>4. new \in DownloadJob /\ new.status = job[active].status /\ new.file = file
  BY <1>1, <1>2 DEF DownloadJob
<1> HIDE DEF new
<1> QED BY <1>2, <1>3, <1>4 DEF StoredType

(* MarkVerifying and RecordComplete write both statuses. *)
LEMMA BothWritten ==
  ASSUME StoredType, active \in Jobs, i \in Files,
         NEW s \in Statuses, NEW t \in FileStatuses, SetBoth(s, t)
  PROVE  /\ job' \in [Jobs -> DownloadJob]
         /\ job'[active].status = s
         /\ job'[active].file[i].status = t
         /\ job'[active].file[i].val = job[active].file[i].val
         /\ \A f \in Files : f # i => job'[active].file[f] = job[active].file[f]
         /\ \A k \in Jobs : k # active => job'[k] = job[k]
<1> DEFINE file == [job[active].file EXCEPT ![i].status = t]
           new == [status |-> s, file |-> file]
<1>1. job[active].file \in [Files -> DownloadFile]
  BY DEF StoredType, DownloadJob
<1>2. /\ file \in [Files -> DownloadFile]
      /\ file[i].status = t /\ file[i].val = job[active].file[i].val
      /\ \A f \in Files : f # i => file[f] = job[active].file[f]
  BY <1>1 DEF DownloadFile
<1>3. job' = [job EXCEPT ![active] = new]
  BY DEF SetBoth
<1> HIDE DEF file
<1>4. new \in DownloadJob /\ new.status = s /\ new.file = file
  BY <1>2 DEF DownloadJob
<1> HIDE DEF new
<1> QED BY <1>2, <1>3, <1>4 DEF StoredType

LEMMA ReceiptWritten ==
  ASSUME StoredType, NEW j \in Jobs, job' \in [Jobs -> DownloadJob], NotSaved(j)
  PROVE  /\ receipt' \in [Jobs -> DownloadJob]
         /\ \A k \in Jobs : k # j => receipt'[k] = receipt[k]
         /\ receipt'[j] \in {receipt[j], job'[j]}
BY DEF StoredType, NotSaved, Saved

LEMMA ReceiptSaved ==
  ASSUME StoredType, NEW j \in Jobs, job' \in [Jobs -> DownloadJob], Saved(j)
  PROVE  /\ receipt' \in [Jobs -> DownloadJob]
         /\ \A k \in Jobs : k # j => receipt'[k] = receipt[k]
         /\ receipt'[j] = job'[j]
         /\ NotSaved(j)
BY DEF StoredType, NotSaved, Saved
(* Boot changes nothing but the status of a job.                           *)
LEMMA Recovery ==
  ASSUME StoredType, NEW j \in Jobs
  PROVE  /\ Recovered(j) \in DownloadJob
         /\ Recovered(j).file = receipt[j].file
         /\ Recovered(j).status \in {receipt[j].status, "PAUSED", "FAILED"}
         /\ Recovered(j).status = "ABSENT" <=> receipt[j].status = "ABSENT"
<1> DEFINE d == receipt[j]
           paused == [d EXCEPT !.status = "PAUSED"]
           broken == [d EXCEPT !.status = "FAILED"]
<1>1. d \in DownloadJob
  BY DEF StoredType
<1>2. /\ paused \in DownloadJob /\ paused.file = d.file /\ paused.status = "PAUSED"
      /\ broken \in DownloadJob /\ broken.file = d.file /\ broken.status = "FAILED"
  BY <1>1 DEF DownloadJob, Statuses, InRun, Resumable
<1>3. Recovered(j) \in {d, paused, broken}
  BY DEF Recovered
<1>4. d.status = "ABSENT" => Recovered(j) = d
  BY DEF Recovered, InRun
<1> HIDE DEF d, paused, broken
<1>5. d.file = receipt[j].file /\ d.status = receipt[j].status
  BY DEF d
<1> QED BY <1>1, <1>2, <1>3, <1>4, <1>5

LEMMA AbsentType == Absent \in DownloadJob /\ Absent.status = "ABSENT"
BY VersionAssumption
   DEF Absent, DownloadJob, DownloadFile, Planned, Unknown, Statuses, FileStatuses

(* What run() and its local variables can become.                          *)
LEMMA OutcomeStatus == Outcome \in Resumable \cup {"COMPLETE"}
BY DEF Outcome, Resumable

LEMMA InitType == Init => TypeOK
<1> SUFFICES ASSUME Init PROVE TypeOK
  OBVIOUS
<1>1. StoredType
  <2>1. sha \in [Jobs -> [Files -> 0..MaxVersion]]
    BY VersionAssumption DEF Init, Unknown
  <2> QED BY <2>1, AbsentType DEF Init, StoredType
<1>2. DiskType
  <2>1. Nothing \in Partial
    BY SizeAssumption DEF Nothing, Partial
  <2> QED BY <2>1 DEF Init, DiskType
<1>3. ProcessType
  <2>1. 1 \in 1..(Count + 1) /\ 0 \in 0..MaxVersion /\ 1 \in 1..MaxVersion
    BY VersionAssumption, CountAssumption
  <2> QED BY <2>1 DEF Init, ProcessType, Versions, Unknown
<1> QED BY <1>1, <1>2, <1>3 DEF TypeOK

(* Where run() works it has a job and, but for its ends, a file.           *)
LEMMA ActiveJob == ASSUME ProcessType, active # NoJob PROVE active \in Jobs
BY DEF ProcessType

LEMMA ActiveFile ==
  ASSUME ProcessType, RunInv, active # NoJob, pc \in Working
  PROVE  active \in Jobs /\ i \in Files
BY DEF ProcessType, RunInv

(* The types of the process variables, whatever the step.                  *)
(* How the steps write the parts. *)
LEMMA ChunkWritten ==
  ASSUME TypeOK, RunInv, Chunk
  PROVE  /\ active \in Jobs /\ i \in Files /\ resp \in Versions
         /\ part' \in [Jobs -> [Files -> Partial]]
         /\ part[active][i].n \in Nat
         /\ part'[active][i].n = part[active][i].n + 1
         /\ part'[active][i].of = part[active][i].of \cup {resp}
         /\ \A j \in Jobs, f \in Files : j # active \/ f # i => part'[j][f] = part[j][f]
         /\ final' = final /\ sha' = sha /\ pc = "read" /\ pc' \in {"body", "defer"}
         /\ UNCHANGED <<active, i, resp>>
<1>1. active \in Jobs /\ i \in Files /\ resp \in Versions
  BY ActiveFile DEF Chunk, At, Working, Transferring, RunInv, TypeOK
<1>2. part[active][i] \in Partial
  BY <1>1 DEF TypeOK, DiskType
<1>3. PICK b \in BOOLEAN : part' = [part EXCEPT ![active][i] = Longer(b)]
  BY DEF Chunk
<1>4. /\ Longer(b) \in Partial
      /\ Longer(b).n = part[active][i].n + 1
      /\ Longer(b).of = part[active][i].of \cup {resp}
  <2>1. part[active][i].n < Size
    BY DEF Chunk, ThisPart
  <2> QED BY <1>1, <1>2, <2>1, SizeAssumption DEF Longer, ThisPart, Partial
<1> DEFINE p == Longer(b)
<1> HIDE DEF p
<1>5. p \in Partial /\ part' = [part EXCEPT ![active][i] = p]
  BY <1>3, <1>4 DEF p
<1>6. /\ part' \in [Jobs -> [Files -> Partial]] /\ part'[active][i] = p
      /\ \A j \in Jobs, f \in Files : j # active \/ f # i => part'[j][f] = part[j][f]
  BY <1>1, <1>5 DEF TypeOK, DiskType
<1>7. /\ final' = final /\ sha' = sha /\ pc = "read" /\ pc' \in {"body", "defer"}
      /\ UNCHANGED <<active, i, resp>>
  BY DEF Chunk, Goto, Fail, At, control
<1>8. part[active][i].n \in Nat
  BY <1>2, SizeAssumption DEF Partial
<1> QED BY <1>1, <1>4, <1>6, <1>7, <1>8 DEF p

LEMMA PartSynced ==
  ASSUME TypeOK, RunInv, SyncPartial
  PROVE  /\ active \in Jobs /\ i \in Files
         /\ part' \in [Jobs -> [Files -> Partial]]
         /\ \A j \in Jobs, f \in Files :
              part'[j][f].n = part[j][f].n /\ part'[j][f].of = part[j][f].of
         /\ part'[active][i].synced
         /\ \A j \in Jobs, f \in Files : j # active \/ f # i => part'[j][f] = part[j][f]
         /\ final' = final /\ sha' = sha /\ pc = "verify" /\ pc' = "mark"
         /\ UNCHANGED <<active, i, resp>>
<1>1. active \in Jobs /\ i \in Files
  BY ActiveFile DEF SyncPartial, At, Working, Transferring, TypeOK
<1>2. part[active][i] \in Partial
  BY <1>1 DEF TypeOK, DiskType
<1> DEFINE p == [part[active][i] EXCEPT !.synced = TRUE]
<1>3. /\ p \in Partial /\ p.n = part[active][i].n /\ p.of = part[active][i].of /\ p.synced
      /\ part' = [part EXCEPT ![active][i] = p]
  BY <1>1, <1>2 DEF Partial, SyncPartial, TypeOK, DiskType
<1> HIDE DEF p
<1>4. /\ part' \in [Jobs -> [Files -> Partial]] /\ part'[active][i] = p
      /\ \A j \in Jobs, f \in Files : j # active \/ f # i => part'[j][f] = part[j][f]
  BY <1>1, <1>3 DEF TypeOK, DiskType
<1>5. /\ final' = final /\ sha' = sha /\ pc = "verify" /\ pc' = "mark"
      /\ UNCHANGED <<active, i, resp>>
  BY DEF SyncPartial, Goto, At, control
<1>6. \A j \in Jobs, f \in Files :
        part'[j][f].n = part[j][f].n /\ part'[j][f].of = part[j][f].of
  BY <1>3, <1>4
<1> QED BY <1>1, <1>3, <1>4, <1>5, <1>6

LEMMA Loss ==
  ASSUME PowerLoss
  PROVE  /\ part' \in [Jobs -> [Files -> Partial]]
         /\ final' \in [Jobs -> [Files -> {"none", "durable"}]]
         /\ \A j \in Jobs, f \in Files :
              /\ part'[j][f].n <= part[j][f].n
              /\ part'[j][f].of \subseteq part[j][f].of
              /\ part'[j][f].of = {} <=> part'[j][f].n = 0
              /\ part'[j][f].synced
              /\ final[j][f] # "linked" => final'[j][f] = final[j][f]
              /\ part[j][f].synced /\ final'[j][f] # "none" => part'[j][f] = part[j][f]
         /\ Exit
<1>1. \A j \in Jobs, f \in Files : part'[j][f] \in Remains(part[j][f])
  BY DEF PowerLoss
<1>2. \A p : \A q \in Remains(p) :
        /\ q \in Partial /\ q.n <= p.n /\ q.of \subseteq p.of /\ q.synced
        /\ q.of = {} <=> q.n = 0
  BY DEF Remains
<1>3. Remnants \subseteq Partial
  BY <1>2 DEF Remnants
<1>4. part' \in [Jobs -> [Files -> Partial]]
  BY <1>3 DEF PowerLoss
<1>5. \A j \in Jobs, f \in Files :
        /\ part'[j][f].n <= part[j][f].n
        /\ part'[j][f].of \subseteq part[j][f].of
        /\ part'[j][f].of = {} <=> part'[j][f].n = 0
        /\ part'[j][f].synced
  BY <1>1, <1>2
<1>6. final' \in [Jobs -> [Files -> {"none", "durable"}]] /\ Exit
  BY DEF PowerLoss
<1>7. \A j \in Jobs, f \in Files : final[j][f] # "linked" => final'[j][f] = final[j][f]
  BY DEF PowerLoss
<1>8. \A j \in Jobs, f \in Files :
        part[j][f].synced /\ final'[j][f] # "none" => part'[j][f] = part[j][f]
  BY DEF PowerLoss
<1> QED BY <1>4, <1>5, <1>6, <1>7, <1>8

LEMMA ProcessStep ==
  ASSUME ProcessType, RunInv, Next
  PROVE  ProcessType'
<1> USE DEF ProcessType
<1>1. 1 \in 1..(Count + 1) /\ 0 \in 0..MaxVersion
  BY CountAssumption, VersionAssumption
<1>2. CASE newDownloadManager \/ ManagerUnavailable
  BY <1>2 DEF newDownloadManager, ManagerUnavailable, control, run
<1>3. CASE Exit
  BY <1>1, <1>3 DEF Exit, Unknown
<1>4. CASE SourceChanges
  BY <1>4, VersionAssumption DEF SourceChanges, Versions, control, run
<1>5. CASE shutdownDownloads
  BY <1>5 DEF shutdownDownloads, run
<1>6. ASSUME NEW j \in Jobs, plan(j) PROVE ProcessType'
  BY <1>6 DEF plan, control, run
<1>7. ASSUME NEW j \in Jobs, start(j) PROVE ProcessType'
  BY <1>1, <1>7 DEF start, control, run
<1>8. ASSUME NEW j \in Jobs, NEW c \in BOOLEAN, pause(j, c) PROVE ProcessType'
  BY <1>8 DEF pause, run
<1>9. ASSUME At("next"), i <= Count PROVE i + 1 \in 1..(Count + 1)
  BY <1>9, CountAssumption
<1>10. CASE NextFile
  BY <1>9, <1>10 DEF NextFile, control
<1>11. CASE AllFiles \/ OpenPartial \/ ReadBody \/ EndOfBody \/ SyncPartial \/ Hash
  BY <1>11 DEF AllFiles, OpenPartial, ReadBody, EndOfBody, SyncPartial, Hash, Goto, control
<1>12. CASE Link \/ SyncDirectory \/ TransferFails \/ Chunk \/ MarkVerifying
  BY <1>12 DEF Link, SyncDirectory, TransferFails, Chunk, MarkVerifying, Goto, Fail, control
<1>13. CASE Response
  <2>1. source \in 0..MaxVersion
    BY DEF Versions
  <2> QED BY <1>13, <2>1 DEF Response, control
<1>14. CASE RecordComplete
  <2>1. i + 1 \in 1..(Count + 1)
    BY <1>14, ActiveFile, CountAssumption DEF RecordComplete, At, Working, Files
  <2> QED BY <1>14, <2>1 DEF RecordComplete, control
<1>15. CASE Finish
  BY <1>1, <1>15 DEF Finish, Return, Unknown
<1> QED BY <1>2, <1>3, <1>4, <1>5, <1>6, <1>7, <1>8, <1>10, <1>11, <1>12, <1>13,
           <1>14, <1>15 DEF Next, Run, ProcessEnds, PowerLoss

LEMMA DiskStep ==
  ASSUME TypeOK, RunInv, Next
  PROVE  DiskType'
<1> USE DEF DiskType
<1>1. CASE UNCHANGED disk
  BY <1>1 DEF TypeOK, disk
<1>2. CASE PowerLoss
  BY <1>2, Loss
<1>3. CASE Link \/ SyncDirectory
  <2>1. active \in Jobs /\ i \in Files
    BY <1>3, ActiveFile DEF Link, SyncDirectory, At, Working, Transferring, TypeOK
  <2>2. PICK l \in {"linked", "durable"} :
          final' = [final EXCEPT ![active][i] = l] /\ part' = part
    BY <1>3 DEF Link, SyncDirectory
  <2> QED BY <2>1, <2>2 DEF TypeOK
<1>4. CASE Chunk \/ SyncPartial
  BY <1>4, ChunkWritten, PartSynced DEF TypeOK
<1>5. ASSUME NEW j \in Jobs, plan(j) \/ start(j) \/ \E c \in BOOLEAN : pause(j, c)
      PROVE  UNCHANGED disk
  BY <1>5 DEF plan, start, pause
<1>6. CASE newDownloadManager \/ ManagerUnavailable \/ ProcessEnds
           \/ SourceChanges \/ shutdownDownloads
  BY <1>1, <1>6 DEF newDownloadManager, ManagerUnavailable, ProcessEnds, SourceChanges,
                    shutdownDownloads
<1>7. CASE NextFile \/ AllFiles \/ OpenPartial \/ Response \/ ReadBody \/ EndOfBody
  BY <1>1, <1>7 DEF NextFile, AllFiles, OpenPartial, Response, ReadBody, EndOfBody
<1>8. CASE MarkVerifying \/ Hash \/ RecordComplete \/ TransferFails \/ Finish
  BY <1>1, <1>8 DEF MarkVerifying, Hash, RecordComplete, TransferFails, Finish
<1> QED BY <1>1, <1>2, <1>3, <1>4, <1>5, <1>6, <1>7, <1>8 DEF Next, Run
LEMMA StoredStep ==
  ASSUME TypeOK, RunInv, Next
  PROVE  StoredType'
<1> USE DEF TypeOK
<1>1. CASE UNCHANGED <<records, sha>>
  BY <1>1 DEF StoredType, records
<1>2. ASSUME UNCHANGED sha, job' \in [Jobs -> DownloadJob],
             receipt' \in [Jobs -> DownloadJob]
      PROVE  StoredType'
  BY <1>2 DEF StoredType
<1>3. CASE newDownloadManager
  <2>1. job' \in [Jobs -> DownloadJob] /\ receipt' = job'
    BY <1>3, Recovery DEF newDownloadManager
  <2> QED BY <1>2, <1>3, <2>1 DEF newDownloadManager
<1>4. CASE ManagerUnavailable
  <2>1. PICK S \in SUBSET Jobs :
          receipt' = [j \in Jobs |-> IF j \in S THEN Recovered(j) ELSE receipt[j]]
    BY <1>4 DEF ManagerUnavailable
  <2>2. \A j \in Jobs : Recovered(j) \in DownloadJob /\ receipt[j] \in DownloadJob
    BY Recovery DEF StoredType
  <2>3. receipt' \in [Jobs -> DownloadJob]
    BY <2>1, <2>2
  <2> QED BY <1>4, <2>3 DEF ManagerUnavailable, StoredType
<1>5. CASE Exit
  <2>1. job' \in [Jobs -> DownloadJob]
    BY <1>5, AbsentType DEF Exit
  <2> QED BY <1>5, <2>1 DEF Exit, StoredType
<1>6. ASSUME NEW j \in Jobs, plan(j) PROVE StoredType'
  <2>1. PICK pins \in [Files -> 0..source], vals \in [Files -> {Unknown, source}] :
          /\ sha' = [sha EXCEPT ![j] = pins]
          /\ LET d == [status |-> "PLANNED", file |-> [f \in Files |-> Planned(vals[f])]]
             IN /\ receipt' = [receipt EXCEPT ![j] = d]
                /\ \/ job' = [job EXCEPT ![j] = d]
                   \/ job' = job
    BY <1>6 DEF plan
  <2>4. pins \in [Files -> 0..MaxVersion]
    <3>1. 0..source \subseteq 0..MaxVersion
      BY VersionAssumption DEF ProcessType, Versions
    <3> QED BY <3>1
  <2> DEFINE d == [status |-> "PLANNED", file |-> [f \in Files |-> Planned(vals[f])]]
  <2>2. d \in DownloadJob
    <3>1. \A f \in Files : Planned(vals[f]) \in DownloadFile
      <4>1. {Unknown, source} \subseteq 0..MaxVersion
        BY VersionAssumption DEF Unknown, ProcessType, Versions
      <4> QED BY <4>1 DEF Planned, DownloadFile, FileStatuses
    <3> QED BY <3>1 DEF DownloadJob, Statuses
  <2>3. /\ receipt' = [receipt EXCEPT ![j] = d]
        /\ job' = [job EXCEPT ![j] = d] \/ job' = job
    BY <2>1
  <2> HIDE DEF d
  <2> QED BY <2>1, <2>2, <2>3, <2>4 DEF StoredType
<1>7. ASSUME NEW j \in Jobs, start(j) PROVE StoredType'
  <2>1. job' \in [Jobs -> DownloadJob]
    BY <1>7, StatusWritten DEF start, Statuses, InRun
  <2> QED BY <1>2, <1>7, <2>1, ReceiptWritten, ReceiptSaved DEF start
<1>8. ASSUME NEW j \in Jobs, NEW c \in BOOLEAN, pause(j, c) PROVE StoredType'
  <2>1. job' \in [Jobs -> DownloadJob]
    BY <1>8, StatusWritten DEF pause, Statuses, InRun, Resumable
  <2> QED BY <1>2, <1>8, <2>1, ReceiptWritten DEF pause
<1>9. CASE Response
  <2>1. active \in Jobs /\ i \in Files
    BY <1>9, ActiveFile DEF Response, At, Working, Transferring
  <2>2. PICK v \in {Unknown, source} : SetFile([status |-> "RUNNING", val |-> v])
    BY <1>9 DEF Response
  <2>3. [status |-> "RUNNING", val |-> v] \in DownloadFile
    <3>1. v \in 0..MaxVersion
      BY VersionAssumption DEF Unknown, ProcessType, Versions
    <3> QED BY <3>1 DEF DownloadFile, FileStatuses
  <2>4. job' \in [Jobs -> DownloadJob]
    BY <2>1, <2>2, <2>3, FileWritten
  <2> QED BY <1>2, <1>9, <2>1, <2>4, ReceiptWritten, ReceiptSaved DEF Response
<1>10. CASE Chunk
  <2>1. active \in Jobs
    BY <1>10, ActiveFile DEF Chunk, At, Working, Transferring
  <2>2. job' \in [Jobs -> DownloadJob]
    BY <1>10 DEF Chunk, StoredType
  <2> QED BY <1>2, <1>10, <2>1, <2>2, ReceiptWritten, ReceiptSaved DEF Chunk, StoredType
<1>11. CASE MarkVerifying \/ RecordComplete
  <2>1. active \in Jobs /\ i \in Files
    BY <1>11, ActiveFile DEF MarkVerifying, RecordComplete, At, Working, Transferring
  <2>2. job' \in [Jobs -> DownloadJob]
    BY <1>11, <2>1, BothWritten
       DEF MarkVerifying, RecordComplete, Statuses, InRun, FileStatuses
  <2> QED BY <1>2, <1>11, <2>1, <2>2, ReceiptWritten, ReceiptSaved
          DEF MarkVerifying, RecordComplete
<1>12. CASE Finish
  <2>1. active \in Jobs
    BY <1>12, ActiveJob DEF Finish, At
  <2>2. job' \in [Jobs -> DownloadJob]
    BY <1>12, <2>1, StatusWritten, OutcomeStatus DEF Finish, Statuses, Resumable
  <2>3. [job[active] EXCEPT !.status = Outcome] \in DownloadJob
    BY <2>1, OutcomeStatus DEF StoredType, DownloadJob, Statuses
  <2>4. receipt' \in [Jobs -> DownloadJob]
    <3>1. CASE Saved(active)
      BY <2>1, <2>2, <3>1, ReceiptSaved
    <3>2. CASE UNCHANGED receipt
      BY <3>2 DEF StoredType
    <3>3. CASE receipt' = [receipt EXCEPT ![active] = [job[active] EXCEPT !.status = Outcome]]
      BY <2>1, <2>3, <3>3 DEF StoredType
    <3> QED BY <1>12, <3>1, <3>2, <3>3 DEF Finish
  <2> QED BY <1>2, <1>12, <2>2, <2>4 DEF Finish
<1>13. CASE SourceChanges \/ shutdownDownloads \/ NextFile \/ AllFiles \/ OpenPartial
            \/ ReadBody \/ EndOfBody
  BY <1>1, <1>13 DEF SourceChanges, shutdownDownloads, NextFile, AllFiles, OpenPartial,
                     ReadBody, EndOfBody
<1>14. CASE SyncPartial \/ Hash \/ Link \/ SyncDirectory \/ TransferFails
  BY <1>1, <1>14 DEF SyncPartial, Hash, Link, SyncDirectory, TransferFails
<1> QED BY <1>3, <1>4, <1>5, <1>6, <1>7, <1>8, <1>9, <1>10, <1>11, <1>12, <1>13,
           <1>14 DEF Next, Run, ProcessEnds, PowerLoss

LEMMA TypeStep ==
  ASSUME TypeOK, RunInv, Next
  PROVE  TypeOK'
BY ProcessStep, DiskStep, StoredStep DEF TypeOK

-----------------------------------------------------------------------------
(* A step that writes the job leaves run() where it is.                    *)
LEMMA RunKept ==
  ASSUME TypeOK, RunInv, UNCHANGED <<active, pc, i, resp, failed>>,
         cancelled' => active # NoJob, up' = up,
         active # NoJob =>
           /\ job'[active].status \in InRun
           /\ \A f \in Files : job[active].file[f].status = "COMPLETE" =>
                job'[active].file[f].status = "COMPLETE"
  PROVE  RunInv'
BY DEF RunInv

(* run() moves on to another place, with the same file.                    *)
LEMMA RunMoves ==
  ASSUME TypeOK, RunInv, active # NoJob, pc' # "none", up' = up,
         UNCHANGED <<active, cancelled, i>>,
         pc' \in Working => i \in Files,
         pc' \in {"body", "read"} => resp' \in Versions,
         failed' => pc' = "defer",
         pc' = "defer" /\ ~failed' => i = Count + 1,
         job'[active].status \in InRun,
         \A f \in Files : job[active].file[f].status = "COMPLETE" =>
           job'[active].file[f].status = "COMPLETE"
  PROVE  RunInv'
BY DEF RunInv

LEMMA RunStep ==
  ASSUME TypeOK, RunInv, Next
  PROVE  RunInv'
<1> USE DEF TypeOK
<1>1. CASE newDownloadManager \/ ManagerUnavailable
  <2>1. active = NoJob /\ pc = "none" /\ ~cancelled /\ ~failed
    BY <1>1 DEF RunInv, newDownloadManager, ManagerUnavailable
  <2>2. UNCHANGED <<control, run>>
    BY <1>1 DEF newDownloadManager, ManagerUnavailable
  <2> QED BY <2>1, <2>2 DEF RunInv, control, run, Working, Transferring
<1>2. CASE Exit
  BY <1>2 DEF Exit, RunInv, Working, Transferring
<1>3. CASE SourceChanges \/ shutdownDownloads
  <2>1. /\ job' = job /\ up' = up /\ UNCHANGED <<active, pc, i, resp, failed>>
    BY <1>3 DEF SourceChanges, shutdownDownloads, records, control, run
  <2>2. CASE SourceChanges
    BY <2>1, <2>2, RunKept DEF SourceChanges, control, RunInv
  <2>3. CASE shutdownDownloads
    BY <2>1, <2>3, RunKept DEF shutdownDownloads, RunInv
  <2> QED BY <1>3, <2>2, <2>3
<1>4. ASSUME NEW j \in Jobs, plan(j) PROVE RunInv'
  <2>1. /\ up' = up /\ UNCHANGED <<control, run>>
        /\ \A k \in Jobs : k # j => job'[k] = job[k]
    BY <1>4 DEF plan, StoredType
  <2>2. active # NoJob => active \in Jobs /\ active # j
    BY <1>4, ActiveJob DEF plan, RunInv, InRun
  <2> QED BY <2>1, <2>2, RunKept DEF control, run, RunInv
<1>5. ASSUME NEW j \in Jobs, start(j) PROVE RunInv'
  <2>1. active = NoJob /\ pc = "none" /\ ~cancelled /\ ~failed /\ up /\ up' = up
    BY <1>5 DEF RunInv, start
  <2>2. job'[j].status = "RUNNING"
    BY <1>5, StatusWritten DEF start, Statuses, InRun
  <2>3. CASE active' = j /\ cancelled' = FALSE /\ pc' = "next" /\ i' = 1
             /\ UNCHANGED <<resp, failed>>
    BY <2>1, <2>2, <2>3, NoJobAssumption
       DEF RunInv, Working, Transferring, InRun, Files
  <2>4. CASE UNCHANGED <<control, run>>
    BY <2>1, <2>4 DEF RunInv, control, run, Working, Transferring
  <2> QED BY <1>5, <2>3, <2>4 DEF start
<1>6. ASSUME NEW j \in Jobs, NEW c \in BOOLEAN, pause(j, c) PROVE RunInv'
  <2>1. CASE active = j
    <3>1. /\ job'[j].status \in InRun /\ job'[j].file = job[j].file
      BY <1>6, <2>1, StatusWritten DEF pause, Statuses, InRun
    <3> QED BY <1>6, <2>1, <3>1, RunKept, NoJobAssumption DEF pause, run
  <2>2. CASE active # j
    <3>1. \A k \in Jobs : k # j => job'[k] = job[k]
      BY <1>6, <2>2, StatusWritten DEF pause, Statuses, Resumable
    <3>2. active # NoJob => job'[active] = job[active]
      BY <2>2, <3>1, ActiveJob
    <3>3. UNCHANGED <<active, pc, i, resp, failed>> /\ cancelled' = cancelled /\ up' = up
      BY <1>6, <2>2 DEF pause, run
    <3> QED BY <3>2, <3>3, RunKept DEF RunInv
  <2> QED BY <2>1, <2>2
<1>7. CASE NextFile
  <2>1. /\ At("next") /\ ThisFile.status = "COMPLETE" /\ i' = i + 1 /\ i \in Nat
        /\ UNCHANGED <<pc, failed, job, active, cancelled, up>>
    BY <1>7, CountAssumption DEF NextFile, records, control, ProcessType
  <2>2. \A f \in Files : f < i' => job'[active].file[f].status = "COMPLETE"
    <3> SUFFICES ASSUME NEW f \in Files, f < i' PROVE job[active].file[f].status = "COMPLETE"
      BY <2>1
    <3>1. f < i \/ f = i
      BY <2>1, CountAssumption DEF Files
    <3> QED BY <2>1, <3>1 DEF RunInv, At, ThisFile
  <2> QED BY <2>1, <2>2 DEF RunInv, At, Working, Transferring
<1>8. CASE AllFiles
  <2>1. i = Count + 1
    BY <1>8, CountAssumption DEF AllFiles, ProcessType
  <2> QED BY <1>8, <2>1, RunMoves
          DEF AllFiles, At, Goto, RunInv, records, control, Working, Transferring
<1>9. CASE OpenPartial
  <2>1. i \in Files
    BY <1>9, CountAssumption DEF OpenPartial, Files, ProcessType
  <2> QED BY <1>9, <2>1, RunMoves DEF OpenPartial, At, Goto, RunInv, records, control
<1>10. CASE ReadBody \/ EndOfBody \/ SyncPartial \/ Hash \/ Link \/ SyncDirectory
  <2>1. active # NoJob /\ i \in Files /\ job' = job /\ up' = up
    BY <1>10, ActiveFile
       DEF ReadBody, EndOfBody, SyncPartial, Hash, Link, SyncDirectory, At, Working,
           Transferring, records
  <2>2. /\ pc' \in {"read", "verify", "mark", "link", "sync", "record"}
        /\ UNCHANGED <<active, cancelled, i, resp, failed>>
        /\ pc' = "read" => pc = "body"
    BY <1>10 DEF ReadBody, EndOfBody, SyncPartial, Hash, Link, SyncDirectory, Goto, At,
                 control
  <2>3. ~failed /\ job[active].status \in InRun
    BY <1>10, <2>1 DEF ReadBody, EndOfBody, SyncPartial, Hash, Link, SyncDirectory, At, RunInv
  <2> QED BY <2>1, <2>2, <2>3, RunMoves DEF RunInv
<1>11. CASE Response
  <2>1. active \in Jobs /\ i \in Files
    BY <1>11, ActiveFile DEF Response, At, Working, Transferring
  <2>2. PICK v \in {Unknown, source} : SetFile([status |-> "RUNNING", val |-> v])
    BY <1>11 DEF Response
  <2>3. [status |-> "RUNNING", val |-> v] \in DownloadFile
    <3>1. v \in 0..MaxVersion
      BY VersionAssumption DEF Unknown, ProcessType, Versions
    <3> QED BY <3>1 DEF DownloadFile, FileStatuses
  <2>4. job'[active].status = job[active].status
        /\ \A f \in Files : f # i => job'[active].file[f] = job[active].file[f]
    BY <2>1, <2>2, <2>3, FileWritten
  <2>5. /\ pc' \in {"body", "defer"} /\ failed' = (pc' = "defer") /\ pc = "request"
        /\ UNCHANGED <<active, cancelled, i, up>> /\ resp' \in Versions
    BY <1>11 DEF Response, At, control, RunInv, ProcessType
  <2>6. \A f \in Files : f < i => f # i
    BY <2>1, CountAssumption DEF Files
  <2> QED BY <2>1, <2>4, <2>5, <2>6, NoJobAssumption DEF RunInv
<1>12. CASE Chunk \/ TransferFails
  <2>1. /\ active # NoJob /\ job' = job
        /\ \/ pc' = "defer" /\ failed'
           \/ pc = "read" /\ pc' = "body" /\ ~failed'
        /\ UNCHANGED <<active, cancelled, i, resp, up>>
    <3>1. CASE Chunk
      <4>1. active # NoJob /\ job' = job /\ UNCHANGED <<active, cancelled, up>> /\ pc = "read"
        BY <3>1 DEF Chunk, At, control
      <4>2. Goto("body") \/ Fail
        BY <3>1 DEF Chunk
      <4> QED BY <4>1, <4>2 DEF Goto, Fail, RunInv
    <3>2. CASE TransferFails
      BY <3>2 DEF TransferFails, At, Fail, records, control
    <3> QED BY <1>12, <3>1, <3>2
  <2>2. pc = "read" => i \in Files /\ resp \in Versions
    BY DEF RunInv, Working, Transferring
  <2> QED BY <2>1, <2>2, RunMoves DEF RunInv, Working, Transferring
<1>13. CASE MarkVerifying
  <2>1. active # NoJob /\ active \in Jobs /\ i \in Files
    BY <1>13, ActiveFile DEF MarkVerifying, At, Working, Transferring
  <2>2. /\ job'[active].status = "VERIFYING"
        /\ \A f \in Files : f # i => job'[active].file[f] = job[active].file[f]
    BY <1>13, <2>1, BothWritten DEF MarkVerifying, Statuses, InRun, FileStatuses
  <2>3. /\ \/ pc' = "defer" /\ failed'
           \/ pc' = "hash" /\ ~failed'
        /\ UNCHANGED <<active, cancelled, i, up>>
    BY <1>13 DEF MarkVerifying, At, Goto, Fail, control, RunInv
  <2>4. \A f \in Files : f < i => f # i
    BY <2>1, CountAssumption DEF Files
  <2> QED BY <2>1, <2>2, <2>3, <2>4 DEF RunInv, InRun
<1>14. CASE RecordComplete
  <2>1. active # NoJob /\ active \in Jobs /\ i \in Files
    BY <1>14, ActiveFile DEF RecordComplete, At, Working
  <2>2. /\ job'[active].status = "RUNNING" /\ job'[active].file[i].status = "COMPLETE"
        /\ \A f \in Files : f # i => job'[active].file[f] = job[active].file[f]
    BY <1>14, <2>1, BothWritten DEF RecordComplete, Statuses, InRun, FileStatuses
  <2>3. /\ \/ pc' = "defer" /\ failed' /\ i' = i
           \/ pc' = "next" /\ ~failed' /\ i' = i + 1
        /\ UNCHANGED <<active, cancelled, up>>
    BY <1>14 DEF RecordComplete, At, control, RunInv
  <2>4. \A f \in Files : f < i' => f < i \/ f = i
    BY <2>1, <2>3, CountAssumption DEF Files
  <2>5. \A f \in Files : f < i' => job'[active].file[f].status = "COMPLETE"
    BY <2>1, <2>2, <2>4 DEF RunInv
  <2> QED BY <2>1, <2>2, <2>3, <2>5 DEF RunInv, InRun, Working, Transferring
<1>15. CASE Finish
  BY <1>15 DEF Finish, Return, RunInv, Working, Transferring
<1> QED BY <1>1, <1>2, <1>3, <1>4, <1>5, <1>6, <1>7, <1>8, <1>9, <1>10, <1>11,
           <1>12, <1>13, <1>14, <1>15 DEF Next, Run, ProcessEnds, PowerLoss

-----------------------------------------------------------------------------
(* A step that writes one job and its receipt keeps RecordInv if memory    *)
(* only gains complete files, and only such as are there.                  *)
LEMMA RecordKept ==
  ASSUME TypeOK, RecordInv, NEW k \in Jobs, up' = up,
         \A j \in Jobs : j # k => job'[j] = job[j] /\ receipt'[j] = receipt[j],
         \A j \in Jobs, f \in Files : final[j][f] = "durable" => final'[j][f] = "durable",
         \A f \in Files :
           /\ job[k].file[f].status = "COMPLETE" => job'[k].file[f].status = "COMPLETE"
           /\ job'[k].file[f].status = "COMPLETE" => final'[k][f] = "durable"
           /\ job'[k].status = "COMPLETE" => job'[k].file[f].status = "COMPLETE",
         \/ receipt'[k] = receipt[k]
         \/ /\ receipt'[k].file = job'[k].file
            /\ receipt'[k].status = "COMPLETE" =>
                 \A f \in Files : job'[k].file[f].status = "COMPLETE",
         pc' = "record" => final'[active'][i'] = "durable"
  PROVE  RecordInv'
BY DEF RecordInv

LEMMA RecordUntouched ==
  ASSUME TypeOK, RecordInv, UNCHANGED <<records, up>>,
         \A j \in Jobs, f \in Files : final[j][f] = "durable" => final'[j][f] = "durable",
         pc' = "record" => final'[active'][i'] = "durable"
  PROVE  RecordInv'
BY DEF RecordInv, records

LEMMA RecordStep ==
  ASSUME TypeOK, RunInv, RecordInv, FreshInv, LinkInv, Next
  PROVE  RecordInv'
<1> USE DEF TypeOK
<1>1. CASE newDownloadManager \/ ManagerUnavailable
  <2>1. \A j \in Jobs : /\ Recovered(j).file = receipt[j].file
                        /\ Recovered(j).status = "COMPLETE" => receipt[j].status = "COMPLETE"
    BY Recovery
  <2>2. pc' # "record" /\ final' = final
    BY <1>1 DEF newDownloadManager, ManagerUnavailable, run, disk, RunInv
  <2>3. CASE newDownloadManager
    <3>1. \A j \in Jobs : job'[j] = Recovered(j) /\ receipt'[j] = Recovered(j)
      BY <2>3 DEF newDownloadManager
    <3> QED BY <2>1, <2>2, <3>1 DEF RecordInv
  <2>4. CASE ManagerUnavailable
    <3>1. /\ \A j \in Jobs : receipt'[j] \in {receipt[j], Recovered(j)}
          /\ job' = job /\ up' = up /\ ~up
      BY <2>4 DEF ManagerUnavailable
    <3> QED BY <2>1, <2>2, <3>1 DEF RecordInv
  <2> QED BY <1>1, <2>3, <2>4
<1>2. CASE Exit /\ (UNCHANGED disk \/ PowerLoss)
  <2>1. \A j \in Jobs : job'[j] = Absent
    BY <1>2 DEF Exit
  <2>2. \A f \in Files : Absent.status # "COMPLETE" /\ Absent.file[f].status # "COMPLETE"
    BY DEF Absent, Planned
  <2>3. \A j \in Jobs, f \in Files : final[j][f] = "durable" => final'[j][f] = "durable"
    BY <1>2, Loss DEF disk
  <2>4. receipt' = receipt /\ ~up' /\ pc' # "record"
    BY <1>2 DEF Exit
  <2> QED BY <2>1, <2>2, <2>3, <2>4 DEF RecordInv
<1>3. CASE SourceChanges \/ shutdownDownloads
  BY <1>3, RecordUntouched DEF SourceChanges, shutdownDownloads, disk, control, run, RecordInv
<1>4. ASSUME NEW j \in Jobs, plan(j) PROVE RecordInv'
  <2>1. PICK vals \in [Files -> {Unknown, source}] :
          LET d == [status |-> "PLANNED", file |-> [f \in Files |-> Planned(vals[f])]]
          IN /\ receipt' = [receipt EXCEPT ![j] = d]
             /\ \/ job' = [job EXCEPT ![j] = d]
                \/ job' = job
    BY <1>4 DEF plan
  <2> DEFINE d == [status |-> "PLANNED", file |-> [f \in Files |-> Planned(vals[f])]]
  <2>2. d.status = "PLANNED" /\ \A f \in Files : d.file[f].status = "PLANNED"
    BY DEF Planned
  <2>3. /\ receipt' = [receipt EXCEPT ![j] = d]
        /\ job' = [job EXCEPT ![j] = d] \/ job' = job
    BY <2>1
  <2> HIDE DEF d
  <2>4. /\ \A k \in Jobs : k # j => job'[k] = job[k] /\ receipt'[k] = receipt[k]
        /\ receipt'[j] = d /\ job'[j] \in {job[j], d}
    BY <2>3 DEF StoredType
  <2>5. up' = up /\ UNCHANGED <<disk, control, run>>
    BY <1>4 DEF plan
  <2>6. \A f \in Files : job[j].file[f].status # "COMPLETE"
    BY <1>4 DEF plan, FreshInv, RecordInv
  <2>7. final' = final /\ UNCHANGED <<active, pc, i>>
    BY <2>5 DEF disk, control, run
  <2> QED BY <2>2, <2>4, <2>5, <2>6, <2>7, RecordKept DEF RecordInv
<1>5. ASSUME NEW j \in Jobs, start(j) PROVE RecordInv'
  <2>1. /\ job'[j].status = "RUNNING" /\ job'[j].file = job[j].file
        /\ \A k \in Jobs : k # j => job'[k] = job[k]
        /\ job' \in [Jobs -> DownloadJob]
    BY <1>5, StatusWritten DEF start, Statuses, InRun
  <2>2. /\ receipt'[j] \in {receipt[j], job'[j]}
        /\ \A k \in Jobs : k # j => receipt'[k] = receipt[k]
    BY <1>5, <2>1, ReceiptWritten, ReceiptSaved DEF start
  <2>3. up' = up /\ final' = final /\ pc' # "record"
    BY <1>5 DEF start, disk, run, RunInv
  <2> QED BY <2>1, <2>2, <2>3, RecordKept DEF RecordInv
<1>6. ASSUME NEW j \in Jobs, NEW c \in BOOLEAN, pause(j, c) PROVE RecordInv'
  <2>1. /\ job'[j].status # "COMPLETE" /\ job'[j].file = job[j].file
        /\ \A k \in Jobs : k # j => job'[k] = job[k]
        /\ job' \in [Jobs -> DownloadJob]
    BY <1>6, StatusWritten DEF pause, Statuses, InRun, Resumable
  <2>2. /\ receipt'[j] \in {receipt[j], job'[j]}
        /\ \A k \in Jobs : k # j => receipt'[k] = receipt[k]
    BY <1>6, <2>1, ReceiptWritten DEF pause
  <2>3. up' = up /\ final' = final /\ UNCHANGED <<active, pc, i>>
    BY <1>6 DEF pause, disk, run
  <2> QED BY <2>1, <2>2, <2>3, RecordKept DEF RecordInv
<1>7. CASE NextFile \/ AllFiles \/ OpenPartial \/ ReadBody \/ EndOfBody \/ SyncPartial
           \/ Hash \/ TransferFails
  BY <1>7, RecordUntouched
     DEF NextFile, AllFiles, OpenPartial, ReadBody, EndOfBody, SyncPartial, Hash,
         TransferFails, Goto, Fail, At, disk
<1>8. CASE Link \/ SyncDirectory
  <2>1. active \in Jobs /\ i \in Files
    BY <1>8, ActiveFile DEF Link, SyncDirectory, At, Working, Transferring
  <2>2. CASE Link
    <3>1. \A j \in Jobs, f \in Files : final[j][f] = "durable" => final'[j][f] = "durable"
      BY <2>1, <2>2 DEF Link, DiskType
    <3> QED BY <2>2, <3>1, RecordUntouched DEF Link, Goto
  <2>3. CASE SyncDirectory
    <3>1. /\ \A j \in Jobs, f \in Files : final[j][f] = "durable" => final'[j][f] = "durable"
          /\ final'[active][i] = "durable"
      BY <2>1, <2>3 DEF SyncDirectory, DiskType
    <3> QED BY <2>3, <3>1, RecordUntouched DEF SyncDirectory, Goto, control
  <2> QED BY <1>8, <2>2, <2>3
<1>9. CASE Response
  <2>1. active \in Jobs /\ i \in Files
    BY <1>9, ActiveFile DEF Response, At, Working, Transferring
  <2>2. job[active].file[i].status # "COMPLETE"
    BY <1>9, <2>1 DEF Response, At, LinkInv, Transferring, RecordInv
  <2>3. PICK v \in {Unknown, source} : SetFile([status |-> "RUNNING", val |-> v])
    BY <1>9 DEF Response
  <2>4. [status |-> "RUNNING", val |-> v] \in DownloadFile
    <3>1. v \in 0..MaxVersion
      BY VersionAssumption DEF Unknown, ProcessType, Versions
    <3> QED BY <3>1 DEF DownloadFile, FileStatuses
  <2>5. /\ job' \in [Jobs -> DownloadJob]
        /\ job'[active].status = job[active].status
        /\ job'[active].file[i].status = "RUNNING"
        /\ \A f \in Files : f # i => job'[active].file[f] = job[active].file[f]
        /\ \A k \in Jobs : k # active => job'[k] = job[k]
    BY <2>1, <2>3, <2>4, FileWritten
  <2>6. /\ receipt'[active] \in {receipt[active], job'[active]}
        /\ \A k \in Jobs : k # active => receipt'[k] = receipt[k]
    BY <1>9, <2>1, <2>5, ReceiptWritten, ReceiptSaved DEF Response
  <2>7. up' = up /\ final' = final /\ pc' # "record" /\ job[active].status # "COMPLETE"
    BY <1>9 DEF Response, disk, At, RunInv, InRun
  <2> QED BY <2>1, <2>2, <2>5, <2>6, <2>7, RecordKept DEF RecordInv
<1>10. CASE Chunk
  <2>1. active \in Jobs
    BY <1>10, ActiveFile DEF Chunk, At, Working, Transferring
  <2>2. job' = job /\ job' \in [Jobs -> DownloadJob]
    BY <1>10 DEF Chunk, StoredType
  <2>3. /\ receipt'[active] \in {receipt[active], job'[active]}
        /\ \A k \in Jobs : k # active => receipt'[k] = receipt[k]
    BY <1>10, <2>1, <2>2, ReceiptWritten, ReceiptSaved DEF Chunk
  <2>4. up' = up /\ final' = final /\ pc' # "record"
    BY <1>10 DEF Chunk, Goto, Fail
  <2> QED BY <2>1, <2>2, <2>3, <2>4, RecordKept DEF RecordInv
<1>11. CASE MarkVerifying \/ RecordComplete
  <2>1. active \in Jobs /\ i \in Files
    BY <1>11, ActiveFile DEF MarkVerifying, RecordComplete, At, Working, Transferring
  <2>2. PICK s \in Statuses \ {"COMPLETE"}, t \in FileStatuses : SetBoth(s, t)
                /\ (t # "COMPLETE" => job[active].file[i].status # "COMPLETE")
                /\ (t = "COMPLETE" => final[active][i] = "durable")
    <3>1. CASE MarkVerifying
      <4>1. job[active].file[i].status # "COMPLETE"
        BY <2>1, <3>1 DEF MarkVerifying, At, LinkInv, Transferring, RecordInv
      <4> QED BY <3>1, <4>1 DEF MarkVerifying, Statuses, InRun, FileStatuses
    <3>2. CASE RecordComplete
      BY <3>2 DEF RecordComplete, At, RecordInv, Statuses, InRun, FileStatuses
    <3> QED BY <1>11, <3>1, <3>2
  <2>3. /\ job' \in [Jobs -> DownloadJob]
        /\ job'[active].status # "COMPLETE"
        /\ job'[active].file[i].status = t
        /\ \A f \in Files : f # i => job'[active].file[f] = job[active].file[f]
        /\ \A k \in Jobs : k # active => job'[k] = job[k]
    BY <2>1, <2>2, BothWritten
  <2>4. /\ receipt'[active] \in {receipt[active], job'[active]}
        /\ \A k \in Jobs : k # active => receipt'[k] = receipt[k]
    BY <1>11, <2>1, <2>3, ReceiptWritten, ReceiptSaved DEF MarkVerifying, RecordComplete
  <2>5. up' = up /\ final' = final /\ pc' # "record"
    BY <1>11 DEF MarkVerifying, RecordComplete, disk, Goto, Fail
  <2> QED BY <2>1, <2>2, <2>3, <2>4, <2>5, RecordKept DEF RecordInv
<1>12. CASE Finish
  <2>1. active \in Jobs
    BY <1>12, ActiveJob DEF Finish, At
  <2>2. PICK s \in {Outcome, "FAILED"} : SetStatus(active, s)
    BY <1>12 DEF Finish
  <2>3. s \in Statuses
    BY <2>2, OutcomeStatus DEF Statuses, Resumable
  <2>4. /\ job' \in [Jobs -> DownloadJob]
        /\ job'[active].status = s /\ job'[active].file = job[active].file
        /\ \A k \in Jobs : k # active => job'[k] = job[k]
    BY <2>1, <2>2, <2>3, StatusWritten
  <2>5. Outcome = "COMPLETE" => \A f \in Files : job[active].file[f].status = "COMPLETE"
    <3> SUFFICES ASSUME Outcome = "COMPLETE", NEW f \in Files
                 PROVE  job[active].file[f].status = "COMPLETE"
      OBVIOUS
    <3>1. ~failed
      BY DEF Outcome
    <3>2. i = Count + 1 /\ f < i
      BY <1>12, <3>1, CountAssumption DEF Finish, At, RunInv, Files
    <3> QED BY <1>12, <3>2 DEF Finish, At, RunInv
  <2>6. /\ \A k \in Jobs : k # active => receipt'[k] = receipt[k]
        /\ \/ receipt'[active] = receipt[active]
           \/ /\ receipt'[active].file = job'[active].file
              /\ receipt'[active].status = Outcome
    <3>1. CASE SetStatus(active, Outcome) /\ Saved(active)
      <4>1. job'[active].status = Outcome
        BY <2>1, <3>1, OutcomeStatus, StatusWritten DEF Statuses, Resumable
      <4> QED BY <2>1, <2>4, <3>1, <4>1, ReceiptSaved
    <3>2. CASE UNCHANGED receipt
      BY <3>2
    <3>3. CASE receipt' = [receipt EXCEPT ![active] = [job[active] EXCEPT !.status = Outcome]]
      <4> DEFINE d == [job[active] EXCEPT !.status = Outcome]
      <4>1. d.file = job[active].file /\ d.status = Outcome
        BY <2>1 DEF StoredType, DownloadJob
      <4> HIDE DEF d
      <4>2. receipt'[active] = d /\ \A k \in Jobs : k # active => receipt'[k] = receipt[k]
        BY <2>1, <3>3 DEF StoredType, d
      <4> QED BY <2>4, <4>1, <4>2
    <3> QED BY <1>12, <3>1, <3>2, <3>3 DEF Finish
  <2>7. up' = up /\ final' = final /\ pc' # "record"
    BY <1>12 DEF Finish, Return, disk
  <2> QED BY <2>1, <2>2, <2>4, <2>5, <2>6, <2>7, RecordKept DEF RecordInv
<1> QED BY <1>1, <1>2, <1>3, <1>4, <1>5, <1>6, <1>7, <1>8, <1>9, <1>10, <1>11,
           <1>12 DEF Next, Run, ProcessEnds, PowerLoss

-----------------------------------------------------------------------------
(* What plan(j) writes: a job nobody knows, with validators of now.        *)
LEMMA Plan ==
  ASSUME TypeOK, NEW j \in Jobs, plan(j)
  PROVE  /\ job[j].status = "ABSENT" /\ receipt[j].status = "ABSENT"
         /\ \A k \in Jobs : k # j =>
              job'[k] = job[k] /\ receipt'[k] = receipt[k] /\ sha'[k] = sha[k]
         /\ receipt'[j].status # "ABSENT"
         /\ UNCHANGED <<disk, control, run>>
<1>1. PICK vals \in [Files -> {Unknown, source}], pins \in [Files -> 0..source] :
        /\ sha' = [sha EXCEPT ![j] = pins]
        /\ LET d == [status |-> "PLANNED", file |-> [f \in Files |-> Planned(vals[f])]]
           IN /\ receipt' = [receipt EXCEPT ![j] = d]
              /\ \/ job' = [job EXCEPT ![j] = d]
                 \/ job' = job
  BY DEF plan
<1> DEFINE d == [status |-> "PLANNED", file |-> [f \in Files |-> Planned(vals[f])]]
<1>2. d.status = "PLANNED"
  OBVIOUS
<1>3. /\ receipt' = [receipt EXCEPT ![j] = d]
      /\ job' = [job EXCEPT ![j] = d] \/ job' = job
  BY <1>1
<1> HIDE DEF d
<1> QED BY <1>1, <1>2, <1>3 DEF plan, TypeOK, StoredType

(* What run() writes but for Response: statuses of the active job.         *)
LEMMA RunWrites ==
  ASSUME TypeOK, RunInv, Run
  PROVE  /\ active \in Jobs /\ up' = up /\ sha' = sha /\ source' = source
         /\ job'[active].status # "ABSENT"
         /\ \A k \in Jobs : k # active => job'[k] = job[k] /\ receipt'[k] = receipt[k]
         /\ \/ receipt'[active] = receipt[active]
            \/ /\ receipt'[active].status # "ABSENT"
               /\ receipt'[active].file = job'[active].file
         /\ ~Response => \A f \in Files :
              job'[active].file[f].val = job[active].file[f].val
<1> USE DEF TypeOK
<1>1. active \in Jobs /\ job[active].status # "ABSENT"
  <2>1. active # NoJob
    BY DEF Run, At, NextFile, AllFiles, OpenPartial, Response, ReadBody, Chunk, EndOfBody,
           SyncPartial, MarkVerifying, Hash, Link, SyncDirectory, RecordComplete,
           TransferFails, Finish
  <2> QED BY <2>1, ActiveJob DEF RunInv, InRun
<1>2. CASE NextFile \/ AllFiles \/ OpenPartial \/ ReadBody \/ EndOfBody \/ SyncPartial
           \/ Hash \/ TransferFails
  BY <1>1, <1>2 DEF NextFile, AllFiles, OpenPartial, ReadBody, EndOfBody, SyncPartial, Hash,
                    TransferFails, records
<1>3. CASE Link \/ SyncDirectory
  BY <1>1, <1>3 DEF Link, SyncDirectory, records
<1>4. CASE Response
  <2>1. active \in Jobs /\ i \in Files
    BY <1>4, ActiveFile DEF Response, At, Working, Transferring
  <2>2. PICK v \in {Unknown, source} : SetFile([status |-> "RUNNING", val |-> v])
    BY <1>4 DEF Response
  <2>3. [status |-> "RUNNING", val |-> v] \in DownloadFile
    <3>1. v \in 0..MaxVersion
      BY VersionAssumption DEF Unknown, ProcessType, Versions
    <3> QED BY <3>1 DEF DownloadFile, FileStatuses
  <2>4. /\ job' \in [Jobs -> DownloadJob]
        /\ job'[active].status = job[active].status
        /\ \A k \in Jobs : k # active => job'[k] = job[k]
    BY <2>1, <2>2, <2>3, FileWritten
  <2> QED BY <1>1, <1>4, <2>4, ReceiptWritten, ReceiptSaved DEF Response
<1>5. CASE Chunk
  <2>1. job' = job /\ job' \in [Jobs -> DownloadJob]
    BY <1>5 DEF Chunk, StoredType
  <2> QED BY <1>1, <1>5, <2>1, ReceiptWritten, ReceiptSaved DEF Chunk
<1>6. CASE MarkVerifying \/ RecordComplete
  <2>1. active \in Jobs /\ i \in Files
    BY <1>6, ActiveFile DEF MarkVerifying, RecordComplete, At, Working, Transferring
  <2>2. PICK s \in {"VERIFYING", "RUNNING"}, t \in FileStatuses : SetBoth(s, t)
    BY <1>6 DEF MarkVerifying, RecordComplete, FileStatuses
  <2>3. /\ job' \in [Jobs -> DownloadJob]
        /\ job'[active].status # "ABSENT"
        /\ job'[active].file[i].val = job[active].file[i].val
        /\ \A f \in Files : f # i => job'[active].file[f] = job[active].file[f]
        /\ \A k \in Jobs : k # active => job'[k] = job[k]
    BY <2>1, <2>2, BothWritten DEF Statuses, InRun
  <2>4. \A f \in Files : job'[active].file[f].val = job[active].file[f].val
    BY <2>3
  <2> QED BY <1>1, <1>6, <2>3, <2>4, ReceiptWritten, ReceiptSaved DEF MarkVerifying, RecordComplete
<1>7. CASE Finish
  <2>1. PICK s \in {Outcome, "FAILED"} : SetStatus(active, s)
    BY <1>7 DEF Finish
  <2>2. s \in Statuses /\ s # "ABSENT" /\ Outcome # "ABSENT"
    BY <2>1, OutcomeStatus DEF Statuses, Resumable
  <2>3. /\ job' \in [Jobs -> DownloadJob]
        /\ job'[active].status # "ABSENT" /\ job'[active].file = job[active].file
        /\ \A k \in Jobs : k # active => job'[k] = job[k]
    BY <1>1, <2>1, <2>2, StatusWritten
  <2>4. CASE receipt' = [receipt EXCEPT ![active] = [job[active] EXCEPT !.status = Outcome]]
    <3> DEFINE d == [job[active] EXCEPT !.status = Outcome]
    <3>1. d.file = job[active].file /\ d.status = Outcome
      BY <1>1 DEF StoredType, DownloadJob
    <3> HIDE DEF d
    <3>2. receipt'[active] = d /\ \A k \in Jobs : k # active => receipt'[k] = receipt[k]
      BY <1>1, <2>4 DEF StoredType, d
    <3> QED BY <1>1, <1>7, <2>2, <2>3, <3>1, <3>2 DEF Finish
  <2>5. CASE UNCHANGED receipt
    BY <1>1, <1>7, <2>3, <2>5 DEF Finish
  <2>6. CASE Saved(active)
    BY <1>1, <1>7, <2>3, <2>6, ReceiptSaved DEF Finish
  <2> QED BY <1>7, <2>4, <2>5, <2>6 DEF Finish
<1> QED BY <1>2, <1>3, <1>4, <1>5, <1>6, <1>7 DEF Run

(* What the handlers start and pause write: one status.                    *)
LEMMA HandlerWrites ==
  ASSUME TypeOK, NEW j \in Jobs, start(j) \/ \E c \in BOOLEAN : pause(j, c)
  PROVE  /\ up' = up /\ sha' = sha /\ source' = source /\ UNCHANGED disk
         /\ job[j].status # "ABSENT" /\ job'[j].status # "ABSENT"
         /\ job'[j].file = job[j].file
         /\ \A k \in Jobs : k # j => job'[k] = job[k] /\ receipt'[k] = receipt[k]
         /\ receipt'[j] \in {receipt[j], job'[j]}
         /\ \/ UNCHANGED <<active, pc, i, resp>>
            \/ pc' = "next"
<1> USE DEF TypeOK
<1>1. PICK s \in Statuses \ {"ABSENT"} : SetStatus(j, s)
  BY DEF start, pause, Statuses, InRun, Resumable
<1>2. /\ job' \in [Jobs -> DownloadJob]
      /\ job'[j].status # "ABSENT" /\ job'[j].file = job[j].file
      /\ \A k \in Jobs : k # j => job'[k] = job[k]
  BY <1>1, StatusWritten
<1>3. /\ receipt'[j] \in {receipt[j], job'[j]}
      /\ \A k \in Jobs : k # j => receipt'[k] = receipt[k]
  BY <1>2, ReceiptWritten, ReceiptSaved DEF start, pause
<1>4. job[j].status # "ABSENT"
  BY DEF start, pause, Resumable
<1>5. /\ up' = up /\ sha' = sha /\ source' = source /\ UNCHANGED disk
      /\ UNCHANGED <<active, pc, i, resp>> \/ pc' = "next"
  BY DEF start, pause, control, run
<1> QED BY <1>2, <1>3, <1>4, <1>5

-----------------------------------------------------------------------------
(* Where the step of run() changes the disk: its own file only.            *)
LEMMA RunDisk ==
  ASSUME TypeOK, RunInv, Run
  PROVE  \/ UNCHANGED disk
         \/ /\ active \in Jobs /\ i \in Files
            /\ \A j \in Jobs, f \in Files : j # active \/ f # i =>
                 part'[j][f] = part[j][f] /\ final'[j][f] = final[j][f]
            /\ Chunk \/ SyncPartial \/ Link \/ SyncDirectory
<1>1. CASE Chunk \/ SyncPartial
  BY <1>1, ChunkWritten, PartSynced
<1>2. CASE Link \/ SyncDirectory
  <2>1. active \in Jobs /\ i \in Files
    BY <1>2, ActiveFile DEF Link, SyncDirectory, At, Working, Transferring, TypeOK
  <2>2. PICK l \in {"linked", "durable"} :
          final' = [final EXCEPT ![active][i] = l] /\ part' = part
    BY <1>2 DEF Link, SyncDirectory
  <2> QED BY <1>2, <2>1, <2>2 DEF TypeOK, DiskType
<1>3. CASE NextFile \/ AllFiles \/ OpenPartial \/ Response \/ ReadBody \/ EndOfBody
  BY <1>3 DEF NextFile, AllFiles, OpenPartial, Response, ReadBody, EndOfBody
<1>4. CASE MarkVerifying \/ Hash \/ RecordComplete \/ TransferFails \/ Finish
  BY <1>4 DEF MarkVerifying, Hash, RecordComplete, TransferFails, Finish
<1> QED BY <1>1, <1>2, <1>3, <1>4 DEF Run

LEMMA FreshStep ==
  ASSUME TypeOK, RunInv, FreshInv, Next
  PROVE  FreshInv'
<1>1. CASE newDownloadManager \/ ManagerUnavailable
  <2>1. \A j \in Jobs : Recovered(j).status = "ABSENT" <=> receipt[j].status = "ABSENT"
    BY Recovery DEF TypeOK
  <2>2. UNCHANGED disk
    BY <1>1 DEF newDownloadManager, ManagerUnavailable
  <2>3. CASE newDownloadManager
    <3>1. \A j \in Jobs : job'[j] = Recovered(j) /\ receipt'[j] = Recovered(j)
      BY <2>3 DEF newDownloadManager
    <3> QED BY <2>1, <2>2, <3>1 DEF FreshInv, disk
  <2>4. CASE ManagerUnavailable
    <3>1. /\ \A j \in Jobs : receipt'[j] \in {receipt[j], Recovered(j)}
          /\ job' = job
      BY <2>4 DEF ManagerUnavailable
    <3> QED BY <2>1, <2>2, <3>1 DEF FreshInv, disk
  <2> QED BY <1>1, <2>3, <2>4
<1>2. CASE Exit /\ (UNCHANGED disk \/ PowerLoss)
  <2>1. receipt' = receipt /\ \A j \in Jobs : job'[j].status = "ABSENT"
    BY <1>2 DEF Exit, Absent
  <2>2. ASSUME NEW j \in Jobs, NEW f \in Files, part[j][f].n = 0, final[j][f] = "none"
        PROVE  part'[j][f].n = 0 /\ final'[j][f] = "none"
    <3>1. CASE UNCHANGED disk
      BY <2>2, <3>1 DEF disk
    <3>2. CASE PowerLoss
      <4>1. part'[j][f] \in Partial /\ part'[j][f].n <= 0 /\ final'[j][f] = "none"
        BY <2>2, <3>2, Loss
      <4> QED BY <4>1, SizeAssumption DEF Partial
    <3> QED BY <1>2, <3>1, <3>2
  <2> QED BY <2>1, <2>2 DEF FreshInv
<1>3. CASE SourceChanges \/ shutdownDownloads
  BY <1>3 DEF SourceChanges, shutdownDownloads, FreshInv, records, disk
<1>4. ASSUME NEW j \in Jobs, plan(j) PROVE FreshInv'
  BY <1>4, Plan DEF FreshInv, disk
<1>5. ASSUME NEW j \in Jobs, start(j) \/ \E c \in BOOLEAN : pause(j, c) PROVE FreshInv'
  <2>1. receipt[j].status # "ABSENT"
    BY <1>5, HandlerWrites DEF FreshInv
  <2> QED BY <1>5, <2>1, HandlerWrites DEF FreshInv, disk
<1>6. CASE Run
  <2>1. active \in Jobs /\ receipt[active].status # "ABSENT"
    BY <1>6, RunWrites, NoJobAssumption DEF FreshInv, RunInv, InRun
  <2>2. receipt'[active].status # "ABSENT"
    BY <1>6, <2>1, RunWrites
  <2>3. \A j \in Jobs, f \in Files : j # active =>
          part'[j][f] = part[j][f] /\ final'[j][f] = final[j][f]
    BY <1>6, RunDisk DEF disk
  <2>4. \A j \in Jobs : j # active => job'[j] = job[j] /\ receipt'[j] = receipt[j]
    BY <1>6, RunWrites
  <2> QED BY <2>1, <2>2, <2>3, <2>4 DEF FreshInv
<1> QED BY <1>1, <1>2, <1>3, <1>4, <1>5, <1>6 DEF Next, ProcessEnds, PowerLoss

-----------------------------------------------------------------------------
(* A step that leaves the bytes alone and takes every validator from       *)
(* memory, the receipt or nowhere.                                         *)
ValsKept ==
  \A j \in Jobs, f \in Files :
    LET known == {Unknown, job[j].file[f].val, receipt[j].file[f].val}
    IN job'[j].file[f].val \in known /\ receipt'[j].file[f].val \in known

LEMMA BytesKept ==
  ASSUME TypeOK, RunInv, ByteInv, sha' = sha, ValsKept,
         \A j \in Jobs, f \in Files :
           part'[j][f].n = part[j][f].n /\ part'[j][f].of = part[j][f].of,
         pc' \in {"body", "read"} =>
           pc \in {"body", "read"} /\ UNCHANGED <<active, i, resp>>
  PROVE  ByteInv'
<1>1. ASSUME NEW j \in Jobs, NEW f \in Files
      PROVE  /\ part'[j][f].of = {} <=> part'[j][f].n = 0
             /\ sha'[j][f] = Unknown /\ part'[j][f].n # 0 =>
                  \E v \in Versions : OfVersion(j, f, v)'
  <2>1. \A v \in Versions : OfVersion(j, f, v) => OfVersion(j, f, v)'
    BY DEF OfVersion, ValsKept
  <2> QED BY <2>1 DEF ByteInv
<1>2. ASSUME pc' \in {"body", "read"}, sha'[active'][i'] = Unknown
      PROVE  /\ part'[active'][i'].of \subseteq {resp'}
             /\ job'[active'].file[i'].val \in {Unknown, resp'}
             /\ receipt'[active'].file[i'].val \in {Unknown, resp'}
  <2>1. active \in Jobs /\ i \in Files
    BY <1>2, ActiveFile DEF Working, Transferring, RunInv, TypeOK
  <2>2. /\ pc \in {"body", "read"} /\ sha[active][i] = Unknown
        /\ UNCHANGED <<active, i, resp>>
    BY <1>2
  <2>3. /\ part[active][i].of \subseteq {resp}
        /\ job[active].file[i].val \in {Unknown, resp}
        /\ receipt[active].file[i].val \in {Unknown, resp}
    BY <2>2 DEF ByteInv
  <2>4. /\ job'[active].file[i].val \in {Unknown, resp}
        /\ receipt'[active].file[i].val \in {Unknown, resp}
    BY <2>1, <2>3 DEF ValsKept
  <2> QED BY <2>1, <2>2, <2>3, <2>4
<1> QED BY <1>1, <1>2 DEF ByteInv

LEMMA ByteStep ==
  ASSUME TypeOK, RunInv, FreshInv, ByteInv, LinkInv, Next
  PROVE  ByteInv'
<1>1. CASE newDownloadManager \/ ManagerUnavailable
  <2>1. \A j \in Jobs : Recovered(j).file = receipt[j].file
    BY Recovery DEF TypeOK
  <2>2. UNCHANGED <<part, sha>> /\ UNCHANGED <<active, pc, i, resp>>
    BY <1>1 DEF newDownloadManager, ManagerUnavailable, disk, control, run
  <2>3. ValsKept
    <3>1. CASE newDownloadManager
      <4>1. \A j \in Jobs : job'[j] = Recovered(j) /\ receipt'[j] = Recovered(j)
        BY <3>1 DEF newDownloadManager
      <4> QED BY <2>1, <4>1 DEF ValsKept
    <3>2. CASE ManagerUnavailable
      <4>1. job' = job /\ \A j \in Jobs : receipt'[j] \in {receipt[j], Recovered(j)}
        BY <3>2 DEF ManagerUnavailable
      <4> QED BY <2>1, <4>1 DEF ValsKept
    <3> QED BY <1>1, <3>1, <3>2
  <2> QED BY <2>2, <2>3, BytesKept
<1>2. CASE ProcessEnds
  <2>1. \A j \in Jobs, f \in Files : job'[j].file[f].val = Unknown
    BY <1>2 DEF ProcessEnds, Exit, Absent, Planned
  <2>2. ValsKept
    BY <1>2, <2>1 DEF ProcessEnds, Exit, ValsKept
  <2> QED BY <1>2, <2>2, BytesKept DEF ProcessEnds, Exit, disk
<1>3. CASE PowerLoss
  <2>1. \A j \in Jobs, f \in Files : job'[j].file[f].val = Unknown
    BY <1>3 DEF PowerLoss, Exit, Absent, Planned
  <2>2. receipt' = receipt /\ sha' = sha /\ pc' = "none"
    BY <1>3 DEF PowerLoss, Exit
  <2>3. ASSUME NEW j \in Jobs, NEW f \in Files
        PROVE  /\ part'[j][f].of = {} <=> part'[j][f].n = 0
               /\ sha'[j][f] = Unknown /\ part'[j][f].n # 0 =>
                    \E v \in Versions : OfVersion(j, f, v)'
    <3>1. /\ part'[j][f].of = {} <=> part'[j][f].n = 0
          /\ part'[j][f].of \subseteq part[j][f].of
      BY <1>3, Loss
    <3>2. ASSUME sha'[j][f] = Unknown, part'[j][f].n # 0
          PROVE  \E v \in Versions : OfVersion(j, f, v)'
      <4>1. part[j][f].n # 0
        BY <3>1, <3>2 DEF ByteInv
      <4>2. PICK v \in Versions : OfVersion(j, f, v)
        BY <2>2, <3>2, <4>1 DEF ByteInv
      <4>3. part'[j][f].of = {v}
        BY <3>1, <3>2, <4>2 DEF OfVersion
      <4> QED BY <2>1, <2>2, <4>2, <4>3 DEF OfVersion
    <3> QED BY <3>1, <3>2
  <2> QED BY <2>2, <2>3 DEF ByteInv
<1>4. CASE SourceChanges \/ shutdownDownloads
  <2>1. ValsKept
    BY <1>4 DEF SourceChanges, shutdownDownloads, records, ValsKept
  <2> QED BY <1>4, <2>1, BytesKept
          DEF SourceChanges, shutdownDownloads, disk, control, run
<1>5. ASSUME NEW j \in Jobs, plan(j) PROVE ByteInv'
  <2>1. \A f \in Files : part[j][f].n = 0
    BY <1>5, Plan DEF FreshInv
  <2>2. active \in Jobs => active # j
    BY <1>5, Plan, NoJobAssumption DEF RunInv, InRun
  <2>3. pc \in {"body", "read"} => active \in Jobs
    BY ActiveJob DEF RunInv, TypeOK
  <2>4. \A k \in Jobs, f \in Files, v \in Versions : k # j /\ OfVersion(k, f, v) =>
          OfVersion(k, f, v)'
    BY <1>5, Plan DEF OfVersion, disk
  <2> QED BY <1>5, <2>1, <2>2, <2>3, <2>4, Plan DEF ByteInv, disk, control, run
<1>6. ASSUME NEW j \in Jobs, start(j) \/ \E c \in BOOLEAN : pause(j, c) PROVE ByteInv'
  <2>1. ValsKept
    BY <1>6, HandlerWrites DEF ValsKept
  <2> QED BY <1>6, <2>1, HandlerWrites, BytesKept DEF disk
<1>7. CASE Run /\ ~Response /\ ~Chunk
  <2>1. ValsKept
    BY <1>7, RunWrites DEF ValsKept
  <2>2. /\ sha' = sha
        /\ \A j \in Jobs, f \in Files :
             part'[j][f].n = part[j][f].n /\ part'[j][f].of = part[j][f].of
    <3>1. CASE SyncPartial
      BY <3>1, PartSynced
    <3>2. CASE ~SyncPartial
      BY <1>7, <3>2, RunWrites, RunDisk DEF disk, Link, SyncDirectory
    <3> QED BY <3>1, <3>2
  <2>3. pc' \in {"body", "read"} =>
          pc \in {"body", "read"} /\ UNCHANGED <<active, i, resp>>
    BY <1>7 DEF Run, NextFile, AllFiles, OpenPartial, ReadBody, EndOfBody, SyncPartial,
                MarkVerifying, Hash, Link, SyncDirectory, RecordComplete, TransferFails,
                Finish, At, Goto, Fail, Return, control
  <2> QED BY <2>1, <2>2, <2>3, BytesKept
<1>8. CASE Response
  <2>1. active \in Jobs /\ i \in Files /\ part' = part /\ sha' = sha
        /\ UNCHANGED <<active, i, source>> /\ resp' = source /\ source \in Versions
        /\ pc = "request"
    BY <1>8, ActiveFile DEF Response, At, Working, Transferring, disk, control, TypeOK,
                            ProcessType
  <2>2. PICK v \in {Unknown, source} :
          Validates(v) /\ SetFile([status |-> "RUNNING", val |-> v])
    BY <1>8 DEF Response
  <2>3. [status |-> "RUNNING", val |-> v] \in DownloadFile
    <3>1. v \in 0..MaxVersion
      BY <2>1, VersionAssumption DEF Unknown, Versions
    <3> QED BY <3>1 DEF DownloadFile, FileStatuses
  <2>4. /\ job' \in [Jobs -> DownloadJob]
        /\ job'[active].file[i].val = v
        /\ \A f \in Files : f # i => job'[active].file[f] = job[active].file[f]
        /\ \A k \in Jobs : k # active => job'[k] = job[k]
    BY <2>1, <2>2, <2>3, FileWritten DEF TypeOK
  <2>5. /\ receipt'[active] \in {receipt[active], job'[active]}
        /\ \A k \in Jobs : k # active => receipt'[k] = receipt[k]
        /\ pc' = "body" => receipt'[active] = job'[active]
    BY <1>8, <2>1, <2>4, ReceiptWritten, ReceiptSaved DEF Response, TypeOK
  <2>6. \A j \in Jobs, f \in Files, w \in Versions :
          (j # active \/ f # i) /\ OfVersion(j, f, w) => OfVersion(j, f, w)'
    BY <2>1, <2>4, <2>5 DEF OfVersion
  <2>7. ASSUME sha[active][i] = Unknown, part[active][i].n # 0
        PROVE  OfVersion(active, i, source)' /\ part[active][i].of = {source}
    <3>1. PICK w \in Versions : OfVersion(active, i, w)
      BY <2>1, <2>7 DEF ByteInv
    <3>2. job[active].file[i].val # Unknown
      BY <2>1, <2>7 DEF LinkInv, MayContinue, ThisPart, ThisFile
    <3>3. job[active].file[i].val = w
      BY <3>1, <3>2 DEF OfVersion
    <3>4. v = w
      BY <2>2, <3>2, <3>3 DEF Validates, ThisFile
    <3>5. w # Unknown
      BY DEF Unknown, Versions
    <3>6. w = source /\ v = source
      BY <2>2, <3>4, <3>5
    <3>7. part[active][i].of = {source} /\ receipt[active].file[i].val \in {Unknown, source}
      BY <3>1, <3>6 DEF OfVersion
    <3> QED BY <2>1, <2>4, <2>5, <3>6, <3>7 DEF OfVersion
  <2>8. ASSUME NEW j \in Jobs, NEW f \in Files
        PROVE  /\ part'[j][f].of = {} <=> part'[j][f].n = 0
               /\ sha'[j][f] = Unknown /\ part'[j][f].n # 0 =>
                    \E w \in Versions : OfVersion(j, f, w)'
    <3>1. CASE j = active /\ f = i
      <4>1. part'[active][i].of = {} <=> part'[active][i].n = 0
        BY <2>1 DEF ByteInv
      <4>2. ASSUME sha'[active][i] = Unknown, part'[active][i].n # 0
            PROVE  OfVersion(active, i, source)'
        BY <2>1, <2>7, <4>2
      <4>3. ASSUME sha'[active][i] = Unknown, part'[active][i].n # 0
            PROVE  \E w \in Versions : OfVersion(j, f, w)'
        <5>1. OfVersion(active, i, source)'
          BY <4>2, <4>3
        <5>2. part'[j][f].of = {source}
          BY <2>1, <3>1, <5>1 DEF OfVersion
        <5>3. job'[j].file[f].val \in {Unknown, source}
          BY <2>1, <3>1, <5>1 DEF OfVersion
        <5>4. receipt'[j].file[f].val \in {Unknown, source}
          BY <2>1, <3>1, <5>1 DEF OfVersion
        <5> QED BY <2>1, <5>2, <5>3, <5>4 DEF OfVersion
      <4> QED BY <2>1, <3>1, <4>1, <4>3
    <3>2. CASE j # active \/ f # i
      BY <2>1, <2>6, <3>2 DEF ByteInv
    <3> QED BY <3>1, <3>2
  <2>9. ASSUME pc' \in {"body", "read"}, sha'[active'][i'] = Unknown
        PROVE  /\ part'[active'][i'].of \subseteq {resp'}
               /\ job'[active'].file[i'].val \in {Unknown, resp'}
               /\ receipt'[active'].file[i'].val \in {Unknown, resp'}
    <3>1. pc' = "body"
      BY <1>8, <2>9 DEF Response
    <3>2. part[active][i].of \subseteq {source}
      BY <2>1, <2>7, <2>9 DEF ByteInv
    <3> QED BY <2>1, <2>2, <2>4, <2>5, <3>1, <3>2
  <2> QED BY <2>8, <2>9 DEF ByteInv
<1>9. CASE Chunk
  <2>1. active \in Jobs /\ i \in Files /\ pc = "read" /\ resp \in Versions
    BY <1>9, ChunkWritten
  <2>2. /\ part'[active][i].n = part[active][i].n + 1
        /\ part'[active][i].of = part[active][i].of \cup {resp}
        /\ part[active][i].n \in Nat
        /\ \A j \in Jobs, f \in Files : j # active \/ f # i => part'[j][f] = part[j][f]
    BY <1>9, ChunkWritten
  <2>3. /\ job' = job /\ sha' = sha /\ UNCHANGED <<active, i, resp>>
        /\ receipt'[active] \in {receipt[active], job[active]}
        /\ \A k \in Jobs : k # active => receipt'[k] = receipt[k]
    <3>1. job' = job /\ job' \in [Jobs -> DownloadJob]
      BY <1>9 DEF Chunk, TypeOK, StoredType
    <3>2. UNCHANGED receipt \/ NotSaved(active)
      BY <1>9 DEF Chunk, NotSaved
    <3> QED BY <1>9, <2>1, <3>1, <3>2, ReceiptWritten
            DEF Chunk, Goto, Fail, control, TypeOK
  <2>4. sha[active][i] = Unknown => OfVersion(active, i, resp)'
    BY <2>1, <2>2, <2>3 DEF ByteInv, OfVersion
  <2>5. ASSUME NEW j \in Jobs, NEW f \in Files
        PROVE  /\ part'[j][f].of = {} <=> part'[j][f].n = 0
               /\ sha'[j][f] = Unknown /\ part'[j][f].n # 0 =>
                    \E w \in Versions : OfVersion(j, f, w)'
    <3>1. CASE j = active /\ f = i
      BY <2>1, <2>2, <2>3, <2>4, <3>1
    <3>2. CASE j # active \/ f # i
      <4>1. \A w \in Versions : OfVersion(j, f, w) => OfVersion(j, f, w)'
        BY <2>2, <2>3, <3>2 DEF OfVersion
      <4> QED BY <2>2, <2>3, <3>2, <4>1 DEF ByteInv
    <3> QED BY <3>1, <3>2
  <2> QED BY <2>1, <2>3, <2>4, <2>5 DEF ByteInv, OfVersion
<1> QED BY <1>1, <1>2, <1>3, <1>4, <1>5, <1>6, <1>7, <1>8, <1>9 DEF Next, Run

-----------------------------------------------------------------------------
LEMMA LinkStep ==
  ASSUME TypeOK, RunInv, FreshInv, ByteInv, LinkInv, Next
  PROVE  LinkInv'
<1> USE DEF TypeOK
<1>1. CASE newDownloadManager \/ ManagerUnavailable \/ Exit
  <2>1. pc' = "none"
    BY <1>1 DEF newDownloadManager, ManagerUnavailable, Exit, run, RunInv
  <2> QED BY <2>1 DEF LinkInv, Transferring
<1>2. CASE SourceChanges \/ shutdownDownloads
  BY <1>2 DEF SourceChanges, shutdownDownloads, LinkInv, HashMatches, MayContinue, ThisPart,
              ThisFile, records, disk, control, run
<1>3. ASSUME NEW j \in Jobs, plan(j) PROVE LinkInv'
  <2>1. pc \in Transferring => active \in Jobs /\ active # j
    BY <1>3, Plan, ActiveJob DEF RunInv, InRun, Transferring
  <2>2. /\ UNCHANGED <<part, final, active, i, pc>>
        /\ active \in Jobs /\ active # j => sha'[active] = sha[active] /\ job'[active] = job[active]
    BY <1>3, Plan DEF disk, control, run
  <2> QED BY <2>1, <2>2 DEF LinkInv, HashMatches, MayContinue, ThisPart, ThisFile, Transferring
<1>4. ASSUME NEW j \in Jobs, start(j) \/ \E c \in BOOLEAN : pause(j, c) PROVE LinkInv'
  <2>1. CASE pc' = "next"
    BY <2>1 DEF LinkInv, Transferring
  <2>2. CASE UNCHANGED <<active, pc, i, resp>>
    <3>1. active \in Jobs => job'[active].file = job[active].file
      BY <1>4, HandlerWrites
    <3>2. pc = "request" => active \in Jobs
      BY ActiveJob DEF RunInv
    <3>3. UNCHANGED <<part, final, sha>>
      BY <1>4, HandlerWrites DEF disk
    <3> QED BY <2>2, <3>1, <3>2, <3>3
            DEF LinkInv, HashMatches, MayContinue, ThisPart, ThisFile
  <2> QED BY <1>4, <2>1, <2>2, HandlerWrites
<1>5. CASE OpenPartial
  BY <1>5 DEF OpenPartial, At, Goto, LinkInv, Transferring, MayContinue, ThisPart, ThisFile,
              records, disk, control
<1>6. CASE Response
  <2>1. UNCHANGED <<final, active, i>> /\ pc = "request" /\ pc' \in {"body", "defer"}
    BY <1>6 DEF Response, At, disk, control
  <2> QED BY <2>1 DEF LinkInv, Transferring
<1>7. CASE ReadBody \/ EndOfBody
  <2>1. UNCHANGED <<part, final, active, i>>
    BY <1>7 DEF ReadBody, EndOfBody, Goto, disk, control
  <2>2. \/ pc = "body" /\ pc' = "read"
        \/ pc = "read" /\ pc' = "verify" /\ part[active][i].n = Size
    BY <1>7 DEF ReadBody, EndOfBody, Goto, At, ThisPart
  <2> QED BY <2>1, <2>2 DEF LinkInv, Transferring
<1>14. CASE SyncPartial
  BY <1>14, PartSynced DEF LinkInv, Transferring
<1>8. CASE Hash
  <2>1. UNCHANGED <<part, final, sha, active, i>> /\ pc = "hash" /\ pc' = "link"
    BY <1>8 DEF Hash, At, Goto, disk, control
  <2>2. HashMatches
    BY <1>8 DEF Hash
  <2> QED BY <2>1, <2>2 DEF LinkInv, Transferring, HashMatches, ThisPart
<1>9. CASE Chunk
  <2>1. UNCHANGED <<final, active, i>> /\ pc = "read" /\ pc' \in {"body", "defer"}
    BY <1>9 DEF Chunk, Goto, Fail, At, control
  <2> QED BY <2>1 DEF LinkInv, Transferring
<1>10. CASE MarkVerifying
  <2>1. UNCHANGED <<part, final, active, i>> /\ pc = "mark" /\ pc' \in {"hash", "defer"}
    BY <1>10 DEF MarkVerifying, Goto, Fail, At, disk, control
  <2> QED BY <2>1 DEF LinkInv, Transferring
<1>11. CASE Link
  <2>1. active \in Jobs /\ i \in Files
    BY <1>11, ActiveFile DEF Link, At, Working, Transferring
  <2>2. final' = [final EXCEPT ![active][i] = "linked"]
        /\ UNCHANGED <<active, i>> /\ pc' = "sync"
    BY <1>11 DEF Link, Goto, control
  <2> QED BY <2>1, <2>2 DEF LinkInv, Transferring, DiskType
<1>12. CASE NextFile \/ AllFiles \/ SyncDirectory \/ RecordComplete
  <2>1. pc' \in {"next", "defer", "record"}
    BY <1>12 DEF NextFile, AllFiles, SyncDirectory, RecordComplete, Goto, Fail, At
  <2> QED BY <2>1 DEF LinkInv, Transferring
<1>13. CASE TransferFails \/ Finish
  <2>1. pc' \in {"none", "defer"}
    BY <1>13 DEF TransferFails, Finish, Fail, Return
  <2> QED BY <2>1 DEF LinkInv, Transferring
<1> QED BY <1>1, <1>2, <1>3, <1>4, <1>5, <1>6, <1>7, <1>8, <1>9, <1>10, <1>11, <1>12, <1>13,
           <1>14
        DEF Next, Run, ProcessEnds, PowerLoss

(* The link is made to all bytes of one version, and they never change.    *)
LEMMA PublishedStep ==
  ASSUME TypeOK, RunInv, FreshInv, ByteInv, LinkInv, SyncInv, PublishedIsWhole, Next
  PROVE  PublishedIsWhole'
<1>1. CASE UNCHANGED disk /\ sha' = sha
  BY <1>1 DEF PublishedIsWhole, disk
<1>2. CASE PowerLoss
  <2>1. sha' = sha
    BY <1>2 DEF PowerLoss, Exit
  <2>2. ASSUME NEW j \in Jobs, NEW f \in Files, final'[j][f] # "none"
        PROVE  final[j][f] # "none" /\ part'[j][f] = part[j][f]
    <3>1. final[j][f] # "none"
      BY <1>2, <2>2, Loss
    <3>2. part[j][f].synced
      BY <3>1 DEF SyncInv
    <3> QED BY <1>2, <2>2, <3>1, <3>2, Loss
  <2> QED BY <2>1, <2>2 DEF PublishedIsWhole
<1>3. ASSUME NEW j \in Jobs, plan(j) PROVE PublishedIsWhole'
  <2>1. \A f \in Files : final[j][f] = "none"
    BY <1>3, Plan DEF FreshInv
  <2> QED BY <1>3, <2>1, Plan DEF PublishedIsWhole, disk
<1>4. CASE Run /\ ~UNCHANGED disk
  <2>1. /\ active \in Jobs /\ i \in Files /\ sha' = sha
        /\ \A j \in Jobs, f \in Files : j # active \/ f # i =>
             part'[j][f] = part[j][f] /\ final'[j][f] = final[j][f]
    BY <1>4, RunDisk, RunWrites
  <2>2. CASE Chunk \/ SyncPartial
    <3>1. final' = final /\ final[active][i] = "none"
      BY <2>2, ChunkWritten, PartSynced DEF LinkInv, Transferring
    <3> QED BY <2>1, <3>1 DEF PublishedIsWhole
  <2>3. CASE Link
    <3>1. part' = part /\ part[active][i].n = Size /\ HashMatches
      BY <2>3 DEF Link, At, LinkInv
    <3>2. \E v \in Versions : part[active][i].of = {v} /\ sha[active][i] \in {Unknown, v}
      <4>1. CASE sha[active][i] = Unknown
        BY <2>1, <3>1, <4>1, SizeAssumption DEF ByteInv, OfVersion
      <4>2. CASE sha[active][i] # Unknown
        <5>1. sha[active][i] \in Versions
          BY <2>1, <4>2, VersionAssumption DEF TypeOK, StoredType, Unknown, Versions
        <5> QED BY <3>1, <4>2, <5>1 DEF HashMatches, ThisPart
      <4> QED BY <4>1, <4>2
    <3> QED BY <2>1, <3>1, <3>2 DEF PublishedIsWhole
  <2>4. CASE SyncDirectory
    <3>1. part' = part /\ final[active][i] # "none"
      BY <2>4 DEF SyncDirectory, At, LinkInv
    <3> QED BY <2>1, <3>1 DEF PublishedIsWhole
  <2> QED BY <1>4, <2>2, <2>3, <2>4, RunDisk
<1>5. CASE newDownloadManager \/ ManagerUnavailable \/ ProcessEnds \/ SourceChanges
           \/ shutdownDownloads
  BY <1>1, <1>5 DEF newDownloadManager, ManagerUnavailable, ProcessEnds, Exit, SourceChanges,
                    shutdownDownloads
<1>6. CASE Run /\ UNCHANGED disk
  BY <1>1, <1>6, RunWrites
<1>7. ASSUME NEW j \in Jobs, start(j) \/ \E c \in BOOLEAN : pause(j, c)
      PROVE  PublishedIsWhole'
  BY <1>1, <1>7, HandlerWrites
<1> QED BY <1>2, <1>3, <1>4, <1>5, <1>6, <1>7 DEF Next

-----------------------------------------------------------------------------
LEMMA SyncStep ==
  ASSUME TypeOK, RunInv, FreshInv, LinkInv, SyncInv, Next
  PROVE  SyncInv'
<1> DEFINE Late == {"mark", "hash", "link"}
           Kept == \A j \in Jobs, f \in Files : final'[j][f] # "none" =>
                     part'[j][f].synced
<1>1. CASE PowerLoss
  <2>1. pc' = "none"
    BY <1>1 DEF PowerLoss, Exit
  <2> QED BY <1>1, <2>1, Loss DEF SyncInv
<1>2. CASE newDownloadManager \/ ManagerUnavailable \/ ProcessEnds
  <2>1. pc' = "none" \/ UNCHANGED <<pc, active, i>>
    BY <1>2 DEF newDownloadManager, ManagerUnavailable, ProcessEnds, Exit, control, run
  <2>2. UNCHANGED disk
    BY <1>2 DEF newDownloadManager, ManagerUnavailable, ProcessEnds
  <2> QED BY <2>1, <2>2 DEF SyncInv, disk
<1>3. CASE SourceChanges \/ shutdownDownloads
  BY <1>3 DEF SourceChanges, shutdownDownloads, SyncInv, disk, control, run
<1>4. ASSUME NEW j \in Jobs, plan(j) PROVE SyncInv'
  BY <1>4, Plan DEF SyncInv, disk, control, run
<1>5. ASSUME NEW j \in Jobs, start(j) \/ \E c \in BOOLEAN : pause(j, c) PROVE SyncInv'
  BY <1>5, HandlerWrites DEF SyncInv, disk
<1>6. CASE Chunk
  <2>1. final[active][i] = "none"
    BY <1>6, ChunkWritten DEF LinkInv, Transferring
  <2> QED BY <1>6, <2>1, ChunkWritten DEF SyncInv
<1>7. CASE SyncPartial
  <2>1. Kept
    BY <1>7, PartSynced DEF SyncInv
  <2>2. part'[active'][i'].synced
    BY <1>7, PartSynced
  <2> QED BY <2>1, <2>2 DEF SyncInv
<1>8. CASE Link \/ SyncDirectory
  <2>1. active \in Jobs /\ i \in Files /\ part[active][i].synced
    <3>1. active \in Jobs /\ i \in Files
      BY <1>8, ActiveFile DEF Link, SyncDirectory, At, Working, Transferring, TypeOK
    <3>2. pc = "link" \/ final[active][i] # "none"
      BY <1>8 DEF Link, SyncDirectory, At, LinkInv
    <3> QED BY <3>1, <3>2 DEF SyncInv
  <2>2. part' = part /\ pc' \in {"sync", "record"}
    BY <1>8 DEF Link, SyncDirectory, Goto
  <2>3. \A j \in Jobs, f \in Files : j # active \/ f # i => final'[j][f] = final[j][f]
    <3>1. Run
      BY <1>8 DEF Run
    <3> QED BY <3>1, RunDisk DEF disk
  <2> QED BY <2>1, <2>2, <2>3 DEF SyncInv
<1>9. CASE MarkVerifying \/ Hash
  <2>1. UNCHANGED <<part, final, active, i>> /\ pc \in {"mark", "hash"}
    BY <1>9 DEF MarkVerifying, Hash, Goto, Fail, At, disk, control
  <2> QED BY <2>1 DEF SyncInv
<1>10. CASE NextFile \/ AllFiles \/ OpenPartial \/ Response \/ ReadBody \/ EndOfBody
            \/ RecordComplete \/ TransferFails \/ Finish
  <2>1. UNCHANGED disk
    BY <1>10 DEF NextFile, AllFiles, OpenPartial, Response, ReadBody, EndOfBody,
                 RecordComplete, TransferFails, Finish
  <2>2. pc' \notin Late
    BY <1>10 DEF NextFile, AllFiles, OpenPartial, Response, ReadBody, EndOfBody,
                 RecordComplete, TransferFails, Finish, Goto, Fail, Return, At
  <2> QED BY <2>1, <2>2 DEF SyncInv, disk
<1> QED BY <1>1, <1>2, <1>3, <1>4, <1>5, <1>6, <1>7, <1>8, <1>9, <1>10 DEF Next, Run

-----------------------------------------------------------------------------
LEMMA InitInv == Init => DownloadsInv
<1> SUFFICES ASSUME Init PROVE DownloadsInv
  OBVIOUS
<1>1. TypeOK
  BY InitType
<1>2. \A j \in Jobs : job[j] = Absent /\ receipt[j] = Absent
  BY DEF Init
<1>3. \A j \in Jobs, f \in Files : part[j][f].n = 0 /\ part[j][f].of = {} /\ final[j][f] = "none"
  BY DEF Init, Nothing
<1>4. \A f \in Files : Absent.file[f].status = "PLANNED"
  BY DEF Absent, Planned
<1>5. active = NoJob /\ pc = "none" /\ cancelled = FALSE /\ failed = FALSE
  BY DEF Init
<1>6. RunInv
  BY <1>5 DEF RunInv, Working, Transferring
<1>7. RecordInv
  BY <1>2, <1>4, <1>5, AbsentType DEF RecordInv
<1>8. FreshInv
  BY <1>2, <1>3, AbsentType DEF FreshInv
<1>9. ByteInv /\ LinkInv /\ SyncInv /\ PublishedIsWhole
  BY <1>3, <1>5 DEF ByteInv, LinkInv, SyncInv, PublishedIsWhole, Transferring
<1> QED BY <1>1, <1>6, <1>7, <1>8, <1>9 DEF DownloadsInv

LEMMA InvStep == DownloadsInv /\ [Next]_vars => DownloadsInv'
<1>1. ASSUME DownloadsInv, Next PROVE DownloadsInv'
  BY <1>1, TypeStep, RunStep, RecordStep, FreshStep, ByteStep, LinkStep, SyncStep,
     PublishedStep DEF DownloadsInv
<1>2. ASSUME DownloadsInv, UNCHANGED vars PROVE DownloadsInv'
  <2> USE DEF vars, records, disk, control, run
  <2>1. TypeOK'
    BY <1>2 DEF DownloadsInv, TypeOK, StoredType, DiskType, ProcessType
  <2>2. RunInv' /\ RecordInv' /\ FreshInv'
    BY <1>2 DEF DownloadsInv, RunInv, RecordInv, FreshInv
  <2>3. ByteInv'
    BY <1>2 DEF DownloadsInv, ByteInv, OfVersion
  <2>4. LinkInv' /\ SyncInv' /\ PublishedIsWhole'
    BY <1>2 DEF DownloadsInv, LinkInv, SyncInv, PublishedIsWhole, MayContinue, HashMatches,
                ThisPart, ThisFile
  <2> QED BY <2>1, <2>2, <2>3, <2>4 DEF DownloadsInv
<1> QED BY <1>1, <1>2

(* The inductive invariant holds in every reachable state of download.go's *)
(* model, with any number of jobs, files, chunks and versions.             *)
THEOREM DownloadsInvariant == Spec => []DownloadsInv
<1> QED BY InitInv, InvStep, PTL DEF Spec

(* Every variable has its type; no partial grows beyond the pinned size    *)
(* (transfer: the excess-bytes test).                                      *)
THEOREM DownloadsTypeCorrect == Spec => []TypeOK
<1>1. DownloadsInv => TypeOK
  BY DEF DownloadsInv
<1> QED BY <1>1, DownloadsInvariant, PTL

(* Whatever was interrupted, resumed and changed at the source before, a   *)
(* published file has all its bytes from one version, the pinned one if    *)
(* there is a hash (transfer).                                             *)
THEOREM PublicationIsWhole == Spec => []PublishedIsWhole
<1>1. DownloadsInv => PublishedIsWhole
  BY DEF DownloadsInv
<1> QED BY <1>1, DownloadsInvariant, PTL

(* What a receipt calls complete is linked and synced, through every crash *)
(* and power loss (transfer, newDownloadManager).                          *)
THEOREM RecordsAreTrue == Spec => []RecordedIsThere
<1>1. DownloadsInv => RecordedIsThere
  BY DEF DownloadsInv, RecordInv, RecordedIsThere
<1> QED BY <1>1, DownloadsInvariant, PTL

-----------------------------------------------------------------------------
(* run() never takes back that a file is complete. *)
LEMMA RunKeepsComplete ==
  ASSUME DownloadsInv, Run, NEW f \in Files, job[active].file[f].status = "COMPLETE"
  PROVE  job'[active].file[f].status = "COMPLETE"
<1>1. active \in Jobs /\ StoredType /\ final[active][f] = "durable"
  BY RunWrites DEF DownloadsInv, RecordInv, TypeOK
<1>2. CASE Response
  <2>1. i \in Files /\ final[active][i] = "none"
    BY <1>2, ActiveFile DEF Response, At, Working, Transferring, DownloadsInv, LinkInv, TypeOK
  <2>2. PICK v \in {Unknown, source} : SetFile([status |-> "RUNNING", val |-> v])
    BY <1>2 DEF Response
  <2>3. [status |-> "RUNNING", val |-> v] \in DownloadFile
    <3>1. v \in 0..MaxVersion
      BY VersionAssumption DEF Unknown, Versions, DownloadsInv, TypeOK, ProcessType
    <3> QED BY <3>1 DEF DownloadFile, FileStatuses
  <2> QED BY <1>1, <2>1, <2>2, <2>3, FileWritten
<1>3. CASE MarkVerifying
  <2>1. i \in Files /\ final[active][i] = "none"
    BY <1>3, ActiveFile DEF MarkVerifying, At, Working, Transferring, DownloadsInv, LinkInv, TypeOK
  <2> QED BY <1>1, <1>3, <2>1, BothWritten DEF MarkVerifying, Statuses, InRun, FileStatuses
<1>4. CASE RecordComplete
  <2>1. i \in Files
    BY <1>4, ActiveFile DEF RecordComplete, At, Working, DownloadsInv, TypeOK
  <2> QED BY <1>1, <1>4, <2>1, BothWritten DEF RecordComplete, Statuses, InRun, FileStatuses
<1>5. CASE Finish
  <2>1. PICK s \in Statuses : SetStatus(active, s)
    BY <1>5, OutcomeStatus DEF Finish, Statuses, Resumable
  <2> QED BY <1>1, <2>1, StatusWritten
<1>6. CASE Chunk
  BY <1>6 DEF Chunk
<1>7. CASE NextFile \/ AllFiles \/ OpenPartial \/ ReadBody \/ EndOfBody
  BY <1>7 DEF NextFile, AllFiles, OpenPartial, ReadBody, EndOfBody, records
<1>8. CASE SyncPartial \/ Hash \/ Link \/ SyncDirectory \/ TransferFails
  BY <1>8 DEF SyncPartial, Hash, Link, SyncDirectory, TransferFails, records
<1> QED BY <1>2, <1>3, <1>4, <1>5, <1>6, <1>7, <1>8 DEF Run

LEMMA ReceiptKept ==
  ASSUME DownloadsInv, Next, NEW j \in Jobs, NEW f \in Files,
         receipt[j].file[f].status = "COMPLETE"
  PROVE  receipt'[j].file[f].status = "COMPLETE"
<1>1. TypeOK /\ RunInv /\ StoredType
  BY DEF DownloadsInv, TypeOK
<1>2. up => job[j].file[f].status = "COMPLETE"
  BY DEF DownloadsInv, RecordInv
<1>3. CASE newDownloadManager \/ ManagerUnavailable
  <2>1. receipt'[j] \in {receipt[j], Recovered(j)}
    <3>1. CASE newDownloadManager
      BY <3>1 DEF newDownloadManager
    <3>2. CASE ManagerUnavailable
      BY <3>2 DEF ManagerUnavailable
    <3> QED BY <1>3, <3>1, <3>2
  <2> QED BY <1>1, <2>1, Recovery
<1>4. CASE ProcessEnds \/ PowerLoss \/ SourceChanges \/ shutdownDownloads
  BY <1>4, Loss DEF ProcessEnds, Exit, SourceChanges, shutdownDownloads, records
<1>5. ASSUME NEW k \in Jobs, plan(k) PROVE receipt'[j].file[f].status = "COMPLETE"
  <2>1. k # j
    BY <1>1, <1>5, Plan DEF DownloadsInv, RecordInv, FreshInv
  <2> QED BY <1>1, <1>5, <2>1, Plan
<1>6. ASSUME NEW k \in Jobs, start(k) \/ \E c \in BOOLEAN : pause(k, c)
      PROVE  receipt'[j].file[f].status = "COMPLETE"
  <2>1. up
    BY <1>6 DEF start, pause
  <2> QED BY <1>1, <1>2, <1>6, <2>1, HandlerWrites
<1>7. CASE Run
  <2>1. active = j => job'[j].file[f].status = "COMPLETE"
    <3>1. active = j => up
      BY <1>1, NoJobAssumption DEF RunInv
    <3> QED BY <1>2, <1>7, <3>1, RunKeepsComplete
  <2> QED BY <1>1, <1>7, <2>1, RunWrites
<1> QED BY <1>3, <1>4, <1>5, <1>6, <1>7 DEF Next

LEMMA BytesStay ==
  ASSUME DownloadsInv, Next, NEW j \in Jobs, NEW f \in Files,
         receipt[j].file[f].status = "COMPLETE"
  PROVE  part'[j][f] = part[j][f]
<1>1. TypeOK /\ RunInv /\ final[j][f] = "durable" /\ part[j][f].synced
  BY DEF DownloadsInv, RecordInv, SyncInv
<1>2. CASE newDownloadManager \/ ManagerUnavailable \/ ProcessEnds \/ SourceChanges
           \/ shutdownDownloads
  BY <1>2 DEF newDownloadManager, ManagerUnavailable, ProcessEnds, SourceChanges,
              shutdownDownloads, disk
<1>3. CASE PowerLoss
  BY <1>1, <1>3, Loss
<1>4. ASSUME NEW k \in Jobs, plan(k) PROVE part'[j][f] = part[j][f]
  BY <1>1, <1>4, Plan DEF disk
<1>5. ASSUME NEW k \in Jobs, start(k) \/ \E c \in BOOLEAN : pause(k, c)
      PROVE  part'[j][f] = part[j][f]
  BY <1>1, <1>5, HandlerWrites DEF disk
<1>6. CASE Chunk \/ SyncPartial
  <2>1. final[active][i] = "none"
    BY <1>1, <1>6, ChunkWritten, PartSynced DEF DownloadsInv, LinkInv, Transferring
  <2> QED BY <1>1, <1>6, <2>1, ChunkWritten, PartSynced
<1>7. CASE Run /\ ~Chunk /\ ~SyncPartial
  <2>1. part' = part
    BY <1>1, <1>7, RunDisk DEF disk, Link, SyncDirectory
  <2> QED BY <2>1
<1> QED BY <1>2, <1>3, <1>4, <1>5, <1>6, <1>7 DEF Next

(* A file once recorded as complete stays so in every later receipt and is *)
(* never written again (start, transfer, newDownloadManager).              *)
THEOREM RecordsAreKept == Spec => RecordedIsKept
<1> DEFINE Kept == \A j \in Jobs, f \in Files : receipt[j].file[f].status = "COMPLETE" =>
                     /\ receipt'[j].file[f].status = "COMPLETE"
                     /\ part'[j][f] = part[j][f]
<1>1. DownloadsInv /\ [Next]_vars => [Kept]_vars
  BY ReceiptKept, BytesStay
<1> QED BY <1>1, DownloadsInvariant, PTL DEF Spec, RecordedIsKept

(* A run that was told to stop never ends as COMPLETE, nor does one that   *)
(* was not told end as stopped (run: deferred function).                   *)
THEOREM StopsAreHonoured == Spec => StopIsHonoured
<1> DEFINE Honoured == \A j \in Jobs : active = j /\ active' = NoJob /\ up' =>
                         job'[j].status \in IF cancelled THEN Resumable
                                            ELSE {"COMPLETE", "FAILED"}
<1>1. ASSUME DownloadsInv, Next PROVE Honoured
  <2> SUFFICES ASSUME NEW j \in Jobs, active = j, active' = NoJob, up'
               PROVE  job'[j].status \in IF cancelled THEN Resumable
                                         ELSE {"COMPLETE", "FAILED"}
    OBVIOUS
  <2>1. Finish
    <3>1. active # NoJob /\ active' # active
      BY NoJobAssumption
    <3>2. ~(newDownloadManager \/ ManagerUnavailable \/ ProcessEnds \/ PowerLoss
            \/ SourceChanges \/ shutdownDownloads)
      BY <3>1, Loss DEF newDownloadManager, ManagerUnavailable, ProcessEnds, Exit,
                        SourceChanges, shutdownDownloads, control
    <3>3. ~\E k \in Jobs : plan(k) \/ start(k) \/ \E c \in BOOLEAN : pause(k, c)
      BY <3>1 DEF plan, start, pause, control
    <3>4. ~(NextFile \/ AllFiles \/ OpenPartial \/ Response \/ ReadBody \/ Chunk \/ EndOfBody
            \/ SyncPartial \/ MarkVerifying \/ Hash \/ Link \/ SyncDirectory
            \/ RecordComplete \/ TransferFails)
      BY <3>1 DEF NextFile, AllFiles, OpenPartial, Response, ReadBody, Chunk, EndOfBody,
                  SyncPartial, MarkVerifying, Hash, Link, SyncDirectory, RecordComplete,
                  TransferFails, control
    <3> QED BY <1>1, <3>2, <3>3, <3>4 DEF Next, Run
  <2>2. PICK s \in {Outcome, "FAILED"} :
          SetStatus(active, s)
    BY <2>1 DEF Finish
  <2>3. s \in Statuses /\ active \in Jobs /\ StoredType
    BY <1>1, OutcomeStatus DEF Statuses, Resumable, DownloadsInv, TypeOK
  <2>4. job'[j].status = s
    BY <2>2, <2>3, StatusWritten
  <2> QED BY <2>4 DEF Outcome, Resumable
<1>2. DownloadsInv /\ [Next]_vars => [Honoured]_vars
  BY <1>1
<1> QED BY <1>2, DownloadsInvariant, PTL DEF Spec, StopIsHonoured
=============================================================================
