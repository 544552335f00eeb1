-------------------------- MODULE ClusterController --------------------------
(***************************************************************************)
(* ClusterController.Start, Stop and Restart (controller.go): the command  *)
(* that owns the two rank units through pair-owner.json, and whose stop is *)
(* the only thing that may clear an uncertain pair.                        *)
(***************************************************************************)
EXTENDS PairState

CONSTANT MaxLaunches    \* bound: nonces a behaviour may draw

ASSUME MaxLaunchesAssumption == MaxLaunches \in Nat

VARIABLES
  owner,                \* pair-owner.json
  o,                    \* the ClusterOwner the running command works on
  op,                   \* which command runs
  cpc,                  \* where it is
  cur,                  \* the rank start() is launching
  stage,                \* progress of stopUnits for each rank
  stopErr,              \* stopUnits collected an error
  launches,             \* nonces drawn so far
  pending               \* nonce of a launch command that failed without an
                        \* answer and may still take effect, or 0

ctlVars == <<owner, o, op, cpc, cur, stage, stopErr, launches, pending>>

OwnerStates == {"none", "starting", "ready", "stopped", "cleanup_uncertain"}
Bindings == [nonce: Nat, inv: 0..2]      \* OwnedUnit; nonce 0: not in Units
NoBinding == [nonce |-> 0, inv |-> 0]
NoBindings == [r \in Ranks |-> NoBinding]
Owners == [state: OwnerStates, units: [Ranks -> Bindings]]
NoOwner == [state |-> "none", units |-> NoBindings]

Ops == {"none", "start", "stop", "restart"}
NoStage == [r \in Ranks |-> "out"]
Stages == {"out", "todo", "verified", "done"}
Cpcs == {"idle", "readOwner", "inspect", "stopping", "stopped", "uncertain",
         "archive", "precheck", "preflight", "append", "launch", "confirm",
         "health", "ready"}

CtlInit ==
  /\ owner = NoOwner /\ o = NoOwner
  /\ op = "none" /\ cpc = "idle" /\ cur = 1
  /\ stage = NoStage /\ stopErr = FALSE
  /\ launches = 0
  /\ pending = [r \in Ranks |-> 0]

Recorded(units) == {r \in Ranks : units[r].nonce # 0}

(* verifyUnit: an active unit carries our nonce and our invocation. *)
verifyUnit(b, u) ==
  \/ u.who = "none"
  \/ /\ u.who = "owned" /\ u.nonce = b.nonce
     /\ b.inv # 0 => u.inv = b.inv

(* save(): the write may fail before or after its rename. *)
SaveOK(new) == owner' = new
SaveError(new) == owner' \in {owner, new}

CtlGoto(there) == cpc' = there

-----------------------------------------------------------------------------
(* locked(): both flocks, never waiting; released when the command ends.   *)

Command(name) ==
  /\ cpc = "idle" /\ lock = Free
  /\ lock' = Ctl
  /\ op' = name
  /\ CtlGoto(IF name = "start" THEN "precheck" ELSE "readOwner")
  /\ UNCHANGED <<marker, durable, unit, unsettled>>
  /\ UNCHANGED <<owner, o, cur, stage, stopErr, launches, pending>>

(* The command returns or dies, and with it both flocks go. *)
EndCommand ==
  /\ lock' = Free
  /\ CtlGoto("idle") /\ op' = "none"
  /\ o' = NoOwner /\ cur' = 1
  /\ stage' = NoStage /\ stopErr' = FALSE
  /\ UNCHANGED <<unit, unsettled, launches>>

(* Killed; a launch it had issued may still take effect. *)
CtlCrash ==
  /\ cpc # "idle"
  /\ EndCommand
  /\ \/ UNCHANGED pending
     \/ cpc = "launch" /\ pending' = [pending EXCEPT ![cur] = o.units[cur].nonce]
  /\ UNCHANGED <<marker, durable, owner>>

-----------------------------------------------------------------------------
(* stopUnits(): verify the whole set, stop what is active, prove it.       *)

ReadOwner ==
  /\ cpc = "readOwner"
  /\ owner.state # "none"
  /\ o' = owner
  /\ CtlGoto("inspect")
  /\ UNCHANGED <<sharedVars, owner, op, cur, stage, stopErr, launches, pending>>

(* No or an unreadable pair-owner.json. *)
ReadOwnerFails ==
  /\ cpc = "readOwner"
  /\ EndCommand
  /\ UNCHANGED <<marker, durable, owner, pending>>

InspectAll ==
  /\ cpc = "inspect"
  /\ \A r \in Recorded(o.units) : verifyUnit(o.units[r], unit[r])
  /\ stage' = [r \in Ranks |-> IF r \in Recorded(o.units) THEN "todo" ELSE "out"]
  /\ stopErr' = FALSE
  /\ CtlGoto("stopping")
  /\ UNCHANGED <<sharedVars, owner, o, op, cur, launches, pending>>

(* A mismatch, or a systemctl call that failed: nothing is stopped. *)
InspectFails ==
  /\ cpc = "inspect"
  /\ CtlGoto("uncertain")
  /\ UNCHANGED <<sharedVars, owner, o, op, cur, stage, stopErr, launches, pending>>

StageTo(r, there) == stage' = [stage EXCEPT ![r] = there]

(* The goroutine of one rank: show and verify ... *)
StopVerify(r) ==
  /\ cpc = "stopping" /\ stage[r] = "todo"
  /\ verifyUnit(o.units[r], unit[r])
  /\ StageTo(r, IF unitActive(r) THEN "verified" ELSE "done")
  /\ UNCHANGED <<sharedVars, owner, o, op, cpc, cur, stopErr, launches, pending>>

StopVerifyFails(r) ==
  /\ cpc = "stopping" /\ stage[r] = "todo"
  /\ StageTo(r, "done") /\ stopErr' = TRUE
  /\ UNCHANGED <<sharedVars, owner, o, op, cpc, cur, launches, pending>>

(* ... then stop the unit of that name, whatever it is by now. *)
StopUnit(r) ==
  /\ cpc = "stopping" /\ stage[r] = "verified"
  /\ unit' = [unit EXCEPT ![r] = NoUnit]
  /\ unsettled' = unsettled \ {r}
  /\ StageTo(r, "done")
  /\ stopErr' \in {stopErr, TRUE}
  /\ UNCHANGED <<marker, durable, lock>>
  /\ UNCHANGED <<owner, o, op, cpc, cur, launches, pending>>

StopUnitFails(r) ==
  /\ cpc = "stopping" /\ stage[r] = "verified"
  /\ StageTo(r, "done") /\ stopErr' = TRUE
  /\ UNCHANGED <<sharedVars, owner, o, op, cpc, cur, launches, pending>>

StopDone == \A r \in Ranks : stage[r] \in {"out", "done"}

(* The last look: every recorded unit is proven inactive. *)
StopProven ==
  /\ cpc = "stopping" /\ StopDone /\ ~stopErr
  /\ \A r \in Recorded(o.units) : ~unitActive(r)
  /\ CtlGoto("stopped")
  /\ stage' = NoStage
  /\ UNCHANGED <<sharedVars, owner, o, op, cur, stopErr, launches, pending>>

(* Fault: an error of stopUnits is reported, but not acted upon. *)
StopAnyway ==
  /\ cpc = "stopping" /\ StopDone
  /\ CtlGoto("stopped")
  /\ stage' = NoStage /\ stopErr' = FALSE
  /\ UNCHANGED <<sharedVars, owner, o, op, cur, launches, pending>>

StopNotProven ==
  /\ cpc = "stopping" /\ StopDone
  /\ CtlGoto("uncertain")
  /\ stage' = NoStage /\ stopErr' = FALSE
  /\ UNCHANGED <<sharedVars, owner, o, op, cur, launches, pending>>

-----------------------------------------------------------------------------
(* What follows stopUnits: in stop(), and in the cleanup of start(), where *)
(* the error of the save is ignored.                                       *)

Uncertain ==
  /\ cpc = "uncertain"
  /\ SaveError([o EXCEPT !.state = "cleanup_uncertain"])
  /\ EndCommand
  /\ UNCHANGED <<marker, durable, pending>>

CleanedUp ==
  /\ cpc = "stopped" /\ op = "start"
  /\ SaveError([o EXCEPT !.state = "stopped"])
  /\ EndCommand
  /\ UNCHANGED <<marker, durable, pending>>

SaveStopped ==
  /\ cpc = "stopped" /\ op # "start"
  /\ SaveOK([o EXCEPT !.state = "stopped"])
  /\ o' = NoOwner
  /\ CtlGoto("archive")
  /\ UNCHANGED <<sharedVars, op, cur, stage, stopErr, launches, pending>>

SaveStoppedFails ==
  /\ cpc = "stopped" /\ op # "start"
  /\ SaveError([o EXCEPT !.state = "stopped"])
  /\ EndCommand
  /\ UNCHANGED <<marker, durable, pending>>

(* The rename of the marker is not followed by a directory sync. *)
Archive == marker' = "absent" /\ durable' \in {durable, "absent"}

ArchivePoison ==
  /\ cpc = "archive" /\ op = "stop"
  /\ Archive
  /\ EndCommand
  /\ UNCHANGED <<owner, pending>>

(* Restart() goes on with start(). *)
ArchiveThenStart ==
  /\ cpc = "archive" /\ op = "restart"
  /\ Archive
  /\ CtlGoto("precheck") /\ op' = "start"
  /\ UNCHANGED <<lock, unit, unsettled>>
  /\ UNCHANGED <<owner, o, cur, stage, stopErr, launches, pending>>

ArchiveFails ==
  /\ cpc = "archive" /\ marker # "absent"
  /\ EndCommand
  /\ UNCHANGED <<marker, durable, owner, pending>>

-----------------------------------------------------------------------------
(* start()                                                                 *)

(* A launch that was still on its way is taken to have arrived, or to be   *)
(* lost, by the time a later start looks at the units.                     *)
Precheck ==
  /\ cpc = "precheck"
  /\ owner.state \in {"none", "stopped"} /\ marker = "absent"
  /\ \A r \in Ranks : ~unitActive(r)
  /\ launches + 2 <= MaxLaunches        \* bound: one nonce for each rank
  /\ pending' = [r \in Ranks |-> 0]
  /\ CtlGoto("preflight")
  /\ UNCHANGED <<sharedVars, owner, o, op, cur, stage, stopErr, launches>>

(* Refused, or Verify, the launcher, a port, the memory or mkdir fails. *)
StartRefused ==
  /\ cpc \in {"precheck", "preflight"}
  /\ EndCommand
  /\ UNCHANGED <<marker, durable, owner, pending>>

SaveStarting ==
  /\ cpc = "preflight"
  /\ o' = [state |-> "starting", units |-> NoBindings]
  /\ SaveOK(o')
  /\ CtlGoto("append")
  /\ UNCHANGED <<sharedVars, op, cur, stage, stopErr, launches, pending>>

SaveStartingFails ==
  /\ cpc = "preflight"
  /\ SaveError([state |-> "starting", units |-> NoBindings])
  /\ EndCommand
  /\ UNCHANGED <<marker, durable, pending>>

(* Fault: the owner file is written once the unit is confirmed. *)
AppendUnsaved ==
  /\ cpc = "append"
  /\ launches' = launches + 1
  /\ o' = [o EXCEPT !.units[cur] = [nonce |-> launches', inv |-> 0]]
  /\ CtlGoto("launch")
  /\ UNCHANGED <<sharedVars, owner, op, cur, stage, stopErr, pending>>

(* The nonce is in the file before the launch it names is issued. *)
AppendUnit ==
  /\ cpc = "append"
  /\ launches' = launches + 1
  /\ o' = [o EXCEPT !.units[cur] = [nonce |-> launches', inv |-> 0]]
  /\ \/ SaveOK(o') /\ CtlGoto("launch")
     \/ SaveError(o') /\ CtlGoto("inspect")
  /\ UNCHANGED <<sharedVars, op, cur, stage, stopErr, pending>>

LaunchOK ==
  /\ cpc = "launch" /\ ~unitActive(cur)
  /\ unit' = [unit EXCEPT ![cur] = OwnedUnit(o.units[cur].nonce, 1)]
  /\ CtlGoto("confirm")
  /\ UNCHANGED <<marker, durable, lock, unsettled>>
  /\ UNCHANGED <<owner, o, op, cur, stage, stopErr, launches, pending>>

(* Refused, failed, or failed without an answer: then it may have started  *)
(* the unit already, or may still do so.                                   *)
LaunchFails ==
  /\ cpc = "launch"
  /\ \/ UNCHANGED <<unit, pending>>
     \/ /\ ~unitActive(cur)
        /\ unit' = [unit EXCEPT ![cur] = OwnedUnit(o.units[cur].nonce, 1)]
        /\ UNCHANGED pending
     \/ /\ ~unitActive(cur)
        /\ pending' = [pending EXCEPT ![cur] = o.units[cur].nonce]
        /\ UNCHANGED unit
  /\ CtlGoto("inspect")
  /\ UNCHANGED <<marker, durable, lock, unsettled>>
  /\ UNCHANGED <<owner, o, op, cur, stage, stopErr, launches>>

(* The InvocationID is learnt and saved; rank 1 comes before rank 0. *)
ConfirmUnit ==
  /\ cpc = "confirm"
  /\ unitActive(cur) /\ verifyUnit(o.units[cur], unit[cur])
  /\ o' = [o EXCEPT !.units[cur].inv = unit[cur].inv]
  /\ \/ /\ SaveOK(o')
        /\ CtlGoto(IF cur = 1 THEN "append" ELSE "health")
        /\ cur' = 0
     \/ SaveError(o') /\ CtlGoto("inspect") /\ UNCHANGED cur
  /\ UNCHANGED <<sharedVars, op, stage, stopErr, launches, pending>>

StartFails ==
  /\ cpc \in {"confirm", "health"}
  /\ CtlGoto("inspect")
  /\ UNCHANGED <<sharedVars, owner, o, op, cur, stage, stopErr, launches, pending>>

waitHealth ==
  /\ cpc = "health"
  /\ \A r \in Ranks : unitActive(r) /\ verifyUnit(o.units[r], unit[r])
  /\ CtlGoto("ready")
  /\ UNCHANGED <<sharedVars, owner, o, op, cur, stage, stopErr, launches, pending>>

SaveReady ==
  /\ cpc = "ready"
  /\ SaveOK([o EXCEPT !.state = "ready"])
  /\ EndCommand
  /\ UNCHANGED <<marker, durable, pending>>

SaveReadyFails ==
  /\ cpc = "ready"
  /\ o' = [o EXCEPT !.state = "ready"]
  /\ SaveError(o')
  /\ CtlGoto("inspect")
  /\ UNCHANGED <<sharedVars, op, cur, stage, stopErr, launches, pending>>

-----------------------------------------------------------------------------
StopStep ==
  \/ ReadOwner \/ ReadOwnerFails \/ InspectAll \/ InspectFails
  \/ \E r \in Ranks : \/ StopVerify(r) \/ StopVerifyFails(r)
                      \/ StopUnit(r) \/ StopUnitFails(r)
  \/ StopProven \/ StopNotProven
  \/ Uncertain \/ CleanedUp \/ SaveStopped \/ SaveStoppedFails
  \/ ArchivePoison \/ ArchiveThenStart \/ ArchiveFails

StartStep ==
  \/ Precheck \/ StartRefused \/ SaveStarting \/ SaveStartingFails
  \/ AppendUnit
  \/ LaunchOK \/ LaunchFails \/ ConfirmUnit \/ StartFails
  \/ waitHealth \/ SaveReady \/ SaveReadyFails

CtlNext ==
  \/ \E name \in Ops \ {"none"} : Command(name)
  \/ StopStep \/ StartStep

CtlTypeOK ==
  /\ owner \in Owners /\ o \in Owners
  /\ op \in Ops /\ cpc \in Cpcs /\ cur \in Ranks
  /\ stage \in [Ranks -> Stages] /\ stopErr \in BOOLEAN
  /\ launches \in Nat
  /\ pending \in [Ranks -> Nat]
=============================================================================
