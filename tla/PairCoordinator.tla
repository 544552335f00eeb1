--------------------------- MODULE PairCoordinator ---------------------------
(***************************************************************************)
(* PairedBackend and pairedJob.run (paired.go) with the process around     *)
(* them (serveNativePairUntil, cli_extra.go).  One request drives one      *)
(* inference on both ranks.  Before anything is sent, the process takes    *)
(* the flock and creates the marker pair-poison.json with O_EXCL; only two *)
(* complete and equal answers remove it again.                             *)
(***************************************************************************)
EXTENDS PairState

CONSTANT Outputs        \* what a rank may generate, as DeepEqual tells apart

VARIABLES
  life,                 \* life of the serve-pair process
  poison,               \* PairedBackend.poison: "none" or "set"
  pc,                   \* where the admission or the job of the process is
  res                   \* the result run() has of each rank

coordVars == <<life, poison, pc, res>>

Pending == {"unsent", "sent"}
Results == Pending \cup {"bad"} \cup Outputs

ASSUME OutputsAssumption == Outputs \cap {"unsent", "sent", "bad"} = {}

Lives == {"down", "boot", "up", "draining", "expired"}
Admitting == {"locked", "marked"}
Working == {"running", "clear", "failing", "finish"}
Holding == Admitting \cup Working
Pcs == Holding \cup {"idle", "unlocked"}

NoResults == [r \in Ranks |-> "unsent"]

CoordInit ==
  /\ life = [p \in Procs |-> "down"]
  /\ poison = [p \in Procs |-> "none"]
  /\ pc = [p \in Procs |-> "idle"]
  /\ res = [p \in Procs |-> NoResults]

(***************************************************************************)
(* p.mu is held for the whole of admit(), so nothing else of the process   *)
(* that needs it runs between the steps of an admission.                   *)
(***************************************************************************)
MuFree(p) == pc[p] \notin Admitting

(* fail(): remember the reason in the process and write the marker. *)
Fail(p) == poison' = [poison EXCEPT ![p] = "set"] /\ WritePoison

Goto(p, there) == pc' = [pc EXCEPT ![p] = there]

-----------------------------------------------------------------------------
(* The process: NewPairedBackend reads the marker before Listen binds.     *)

NewPairedBackend(p) ==
  /\ life[p] = "down"
  /\ life' = [life EXCEPT ![p] = "boot"]
  /\ poison' = [poison EXCEPT ![p] = IF marker = "absent" THEN "none" ELSE "set"]
  /\ UNCHANGED <<sharedVars, pc, res>>

Listen(p) ==
  /\ life[p] = "boot" /\ \A q \in Procs : life[q] # "up"
  /\ life' = [life EXCEPT ![p] = "up"]
  /\ UNCHANGED <<sharedVars, poison, pc, res>>

(* SIGTERM: stopAdmission sets closing, the listener is closed. *)
StopAdmission(p) ==
  /\ life[p] = "up" /\ MuFree(p)
  /\ life' = [life EXCEPT ![p] = "draining"]
  /\ UNCHANGED <<sharedVars, poison, pc, res>>

(* The grace period ended, for the job or only for a connection: poison.   *)
(* The job keeps running until the process is gone.                        *)
ShutdownDeadline(p) ==
  /\ life[p] = "draining" /\ MuFree(p)
  /\ life' = [life EXCEPT ![p] = "expired"]
  /\ Fail(p)
  /\ UNCHANGED <<lock, unit, unsettled, pc, res>>

(* What the death of a process leaves: files, units and engines stay, the  *)
(* kernel drops its flock.                                                 *)
Die(p) ==
  /\ life' = [life EXCEPT ![p] = "down"]
  /\ poison' = [poison EXCEPT ![p] = "none"]
  /\ Goto(p, "idle")
  /\ res' = [res EXCEPT ![p] = NoResults]
  /\ lock' = IF lock = p THEN Free ELSE lock

(* Fault: after the deadline the process still waits for the job. *)
ExitOnlyIdle(p) ==
  /\ life[p] = "draining" /\ pc[p] = "idle"
  /\ Die(p)
  /\ UNCHANGED <<marker, durable, unit, unsettled>>

(* Shutdown saw the idle channel closed, or its deadline was reported. *)
Exit(p) ==
  /\ \/ life[p] = "draining" /\ pc[p] = "idle"
     \/ life[p] = "expired"
  /\ Die(p)
  /\ UNCHANGED <<marker, durable, unit, unsettled>>

(* Killed, or an error of Listen or Serve, which returns without a drain. *)
Crash(p) ==
  life[p] # "down" /\ Die(p) /\ UNCHANGED <<marker, durable, unit, unsettled>>

-----------------------------------------------------------------------------
(* admit()                                                                 *)

AdmitLock(p) ==
  /\ life[p] = "up" /\ poison[p] = "none" /\ pc[p] = "idle"
  /\ lock = Free
  /\ lock' = p
  /\ Goto(p, "locked")
  /\ UNCHANGED <<marker, durable, unit, unsettled, life, poison, res>>

(* The marker cannot be created: it exists, or the open fails. *)
AdmitRefused(p) ==
  /\ pc[p] = "locked"
  /\ lock' = Free
  /\ poison' = [poison EXCEPT ![p] = "set"]
  /\ Goto(p, "idle")
  /\ UNCHANGED <<marker, durable, unit, unsettled, life, res>>

(* Fault: the marker is opened without O_EXCL. *)
AdmitOverMarker(p) ==
  /\ pc[p] = "locked"
  /\ marker' = "present"
  /\ Goto(p, "marked")
  /\ UNCHANGED <<durable, lock, unit, unsettled, life, poison, res>>

AdmitMarker(p) ==
  /\ pc[p] = "locked" /\ marker = "absent"
  /\ marker' = "present"
  /\ Goto(p, "marked")
  /\ UNCHANGED <<durable, lock, unit, unsettled, life, poison, res>>

(* Fault: no file and directory sync before the ranks are called. *)
AdmitUnsynced(p) ==
  /\ pc[p] = "marked"
  /\ Goto(p, "running")
  /\ UNCHANGED <<sharedVars, life, poison, res>>

AdmitDurable(p) ==
  /\ pc[p] = "marked"
  /\ durable' = "present"
  /\ Goto(p, "running")
  /\ UNCHANGED <<marker, lock, unit, unsettled, life, poison, res>>

(* Write, file sync or directory sync failed; the marker is left behind. *)
AdmitNotDurable(p) ==
  /\ pc[p] = "marked"
  /\ durable' \in {durable, marker}
  /\ lock' = Free
  /\ poison' = [poison EXCEPT ![p] = "set"]
  /\ Goto(p, "idle")
  /\ UNCHANGED <<marker, unit, unsettled, life, res>>

-----------------------------------------------------------------------------
(* run() and drain()                                                       *)

SetResult(p, r, v) == res' = [res EXCEPT ![p][r] = v]

(* The results are not looked at again. *)
LeaveRunning(p, there) ==
  Goto(p, there) /\ res' = [res EXCEPT ![p] = NoResults]

(* A rank takes the request only while an engine of ours is up. *)
DrainSend(p, r) ==
  /\ pc[p] = "running" /\ res[p][r] = "unsent"
  /\ unit[r].who = "owned"
  /\ SetResult(p, r, "sent")
  /\ unsettled' = unsettled \cup {r}
  /\ UNCHANGED <<marker, durable, lock, unit, life, poison, pc>>

(* A complete answer of the engine that took the request. *)
DrainOK(p, r) ==
  /\ pc[p] = "running" /\ res[p][r] = "sent" /\ r \in unsettled
  /\ \E out \in Outputs : SetResult(p, r, out)
  /\ UNCHANGED <<sharedVars, life, poison, pc>>

(* Refused, lost, HTTP error, mismatch, limit, SSE error or truncation. *)
DrainError(p, r) ==
  /\ pc[p] = "running" /\ res[p][r] \in Pending
  /\ SetResult(p, r, "bad")
  /\ Fail(p)
  /\ UNCHANGED <<lock, unit, unsettled, life, pc>>

(* Fault: giving up counts as an end of the job, not as uncertainty. *)
DeadlineForgets(p) ==
  /\ pc[p] = "running" /\ \E r \in Ranks : res[p][r] \in Pending
  /\ marker' = "absent" /\ durable' = "absent"
  /\ LeaveRunning(p, "finish")
  /\ UNCHANGED <<lock, unit, unsettled, life, poison>>

(* Fault: the deadline covers only a job that neither rank has answered. *)
DeadlineOfBoth(p) ==
  /\ pc[p] = "running" /\ \A r \in Ranks : res[p][r] \in Pending
  /\ Fail(p)
  /\ LeaveRunning(p, "finish")
  /\ UNCHANGED <<lock, unit, unsettled, life>>

(* The request context expired while a rank had not answered. *)
Deadline(p) ==
  /\ pc[p] = "running" /\ \E r \in Ranks : res[p][r] \in Pending
  /\ Fail(p)
  /\ LeaveRunning(p, "finish")
  /\ UNCHANGED <<lock, unit, unsettled, life>>

Agree(p) == res[p][0] \in Outputs /\ res[p][1] = res[p][0]

(* Both ranks answered; equal outputs settle the pair. *)
OutputsAgree(p) ==
  /\ pc[p] = "running" /\ Agree(p)
  /\ unsettled' = {}
  /\ LeaveRunning(p, "clear")
  /\ UNCHANGED <<marker, durable, lock, unit, life, poison>>

OutputsDiffer(p) ==
  /\ pc[p] = "running" /\ ~Agree(p)
  /\ \A r \in Ranks : res[p][r] \notin Pending
  /\ Fail(p)
  /\ LeaveRunning(p, "finish")
  /\ UNCHANGED <<lock, unit, unsettled, life>>

(* Under p.mu: remove the marker unless fail() ran meanwhile. *)
ClearMarker(p) ==
  /\ pc[p] = "clear" /\ poison[p] = "none"
  /\ marker' = "absent" /\ durable' = "absent"
  /\ Goto(p, "finish")
  /\ UNCHANGED <<lock, unit, unsettled, life, poison, res>>

(* Poisoned meanwhile, or Remove or the directory sync failed. *)
ClearRefused(p) ==
  /\ pc[p] = "clear"
  /\ \/ UNCHANGED <<marker, durable>>
     \/ /\ poison[p] = "none" /\ marker' = "absent"
        /\ durable' \in {durable, "absent"}
  /\ Goto(p, "failing")
  /\ UNCHANGED <<lock, unit, unsettled, life, poison, res>>

FailAfterClear(p) ==
  /\ pc[p] = "failing"
  /\ Fail(p)
  /\ Goto(p, "finish")
  /\ UNCHANGED <<lock, unit, unsettled, life, res>>

(* finish: the flock goes first, then busy and the idle channel. *)
FinishUnlock(p) ==
  /\ pc[p] = "finish"
  /\ lock' = Free
  /\ Goto(p, "unlocked")
  /\ UNCHANGED <<marker, durable, unit, unsettled, life, poison, res>>

FinishIdle(p) ==
  /\ pc[p] = "unlocked"
  /\ Goto(p, "idle")
  /\ UNCHANGED <<sharedVars, life, poison, res>>

-----------------------------------------------------------------------------
AdmitStep(p) ==
  \/ AdmitRefused(p) \/ AdmitMarker(p) \/ AdmitDurable(p) \/ AdmitNotDurable(p)

DrainStep(p) ==
  \E r \in Ranks : DrainSend(p, r) \/ DrainOK(p, r) \/ DrainError(p, r)

RunStep(p) ==
  \/ Deadline(p) \/ OutputsAgree(p) \/ OutputsDiffer(p)
  \/ ClearMarker(p) \/ ClearRefused(p) \/ FailAfterClear(p)
  \/ FinishUnlock(p) \/ FinishIdle(p)

ShutdownStep(p) == ShutdownDeadline(p) \/ Exit(p)

CoordNext ==
  \E p \in Procs :
    \/ NewPairedBackend(p) \/ Listen(p) \/ StopAdmission(p)
    \/ AdmitLock(p) \/ AdmitStep(p) \/ DrainStep(p) \/ RunStep(p) \/ ShutdownStep(p)

CoordTypeOK ==
  /\ life \in [Procs -> Lives]
  /\ poison \in [Procs -> {"none", "set"}]
  /\ pc \in [Procs -> Pcs]
  /\ res \in [Procs -> [Ranks -> Results]]
=============================================================================
