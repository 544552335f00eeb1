-------------------------------- MODULE Pair ---------------------------------
(***************************************************************************)
(* The paired model backend: serve-pair processes and the cluster          *)
(* controller over the same files, flock and units, with what happens to   *)
(* them from outside: a rank exits, somebody restarts or replaces its      *)
(* unit, a launch command takes effect late, the host of rank 0 loses      *)
(* power (the files, the processes and the controller live there).         *)
(***************************************************************************)
EXTENDS PairCoordinator, ClusterController

CONSTANT MaxFaults      \* bound: faults from outside in a behaviour

ASSUME MaxFaultsAssumption == MaxFaults \in Nat

VARIABLE faults

pairVars == <<sharedVars, coordVars, ctlVars, faults>>

Init == SharedInit /\ CoordInit /\ CtlInit /\ faults = 0

-----------------------------------------------------------------------------
(* The engine of the rank ends, and with it whatever request it held. *)
RankExit(r) ==
  /\ unitActive(r)
  /\ unit' = [unit EXCEPT ![r] = NoUnit]
  /\ unsettled' = unsettled \ {r}
  /\ UNCHANGED <<marker, durable, lock, coordVars, ctlVars>>

(* systemctl restart by hand: our nonce, another InvocationID. *)
RankReplaced(r) ==
  /\ unit[r].who = "owned" /\ unit[r].inv = 1
  /\ unit' = [unit EXCEPT ![r].inv = 2]
  /\ unsettled' = unsettled \ {r}
  /\ UNCHANGED <<marker, durable, lock, coordVars, ctlVars>>

(* Somebody else's unit takes the name; it does not answer on our port. *)
ForeignUnitStarts(r) ==
  /\ ~unitActive(r)
  /\ unit' = [unit EXCEPT ![r] = ForeignUnit]
  /\ UNCHANGED <<marker, durable, lock, unsettled, coordVars, ctlVars>>

LateLaunch(r) ==
  /\ pending[r] # 0
  /\ IF unitActive(r)
     THEN UNCHANGED unit
     ELSE unit' = [unit EXCEPT ![r] = OwnedUnit(pending[r], 1)]
  /\ pending' = [pending EXCEPT ![r] = 0]
  /\ UNCHANGED <<marker, durable, lock, unsettled, coordVars>>
  /\ UNCHANGED <<owner, o, op, cpc, cur, stage, stopErr, launches>>

(* Power loss: processes, flock and unit of rank 0 go; of the marker       *)
(* either what was visible or what was durable is found again.             *)
HostCrash ==
  /\ marker' \in {marker, durable} /\ durable' = marker'
  /\ lock' = Free
  /\ unit' = [unit EXCEPT ![0] = NoUnit]
  /\ unsettled' = unsettled \ {0}
  /\ life' = [p \in Procs |-> "down"]
  /\ poison' = [p \in Procs |-> "none"]
  /\ pc' = [p \in Procs |-> "idle"]
  /\ res' = [p \in Procs |-> NoResults]
  /\ op' = "none" /\ cpc' = "idle" /\ o' = NoOwner /\ cur' = 1
  /\ stage' = NoStage /\ stopErr' = FALSE
  /\ pending' = [pending EXCEPT ![0] = 0]
  /\ UNCHANGED <<owner, launches>>

Fault ==
  \/ \E r \in Ranks : RankExit(r) \/ RankReplaced(r) \/ ForeignUnitStarts(r)
  \/ \E p \in Procs : Crash(p) /\ UNCHANGED ctlVars
  \/ CtlCrash /\ UNCHANGED coordVars
  \/ HostCrash

Next ==
  \/ CoordNext /\ UNCHANGED <<ctlVars, faults>>
  \/ CtlNext /\ UNCHANGED <<coordVars, faults>>
  \/ \E r \in Ranks : LateLaunch(r) /\ UNCHANGED faults
  \/ faults < MaxFaults /\ faults' = faults + 1 /\ Fault

Spec == Init /\ [][Next]_pairVars

-----------------------------------------------------------------------------
TypeOK == SharedTypeOK /\ CoordTypeOK /\ CtlTypeOK /\ faults \in Nat

(* No uncertainty is ever lost: while an engine that still runs holds a    *)
(* request the two ranks have not settled, pair-poison.json exists and     *)
(* would survive a power loss (paired.go, controller.go).                  *)
UnsettledIsMarked ==
  unsettled # {} => marker # "absent" /\ durable # "absent"

(* A new inference is reserved only over a settled pair: whatever crashed, *)
(* was killed or timed out before, the engines an admitted job is about to *)
(* use hold nothing of an earlier one (admit(), paired.go).                *)
AdmittedOverSettledPair ==
  \A p \in Procs : pc[p] = "marked" => unsettled = {}

(* Every engine of ours that runs can be found and stopped: its nonce is   *)
(* in pair-owner.json whatever step of start() was interrupted.            *)
RunningUnitsAreRecorded ==
  \A r \in Ranks :
    unit[r].who = "owned" => unit[r].nonce = owner.units[r].nonce

(* The marker of an uncertain pair goes only when no engine holds a        *)
(* request any more, be it by a settled job or by the archive of stop();   *)
(* "no late completion clears poison" (run(), paired.go).                  *)
MarkerClearedOnlySettled ==
  [][marker # "absent" /\ marker' = "absent" => unsettled = {}]_pairVars

(* The pair keeps the promise of PairPromise: admission, poison, crash and *)
(* whole-pair restart never put a request over an unsettled one.           *)
JobOf == IF \E p \in Procs : pc[p] = "running" THEN "open" ELSE "none"

Promise == INSTANCE PairPromise WITH job <- JobOf, held <- unsettled, engine <- unit

KeepsPromise == Promise!Spec

-----------------------------------------------------------------------------
(* Goroutines and commands that can run do run, and the deadlines of       *)
(* run(), serveNativePairUntil and the controller expire; requests,        *)
(* signals, commands and faults need not come.                             *)
Fairness ==
  /\ \A p \in Procs : /\ WF_pairVars(AdmitStep(p) /\ UNCHANGED <<ctlVars, faults>>)
                      /\ WF_pairVars(RunStep(p) /\ UNCHANGED <<ctlVars, faults>>)
                      /\ WF_pairVars(ShutdownStep(p) /\ UNCHANGED <<ctlVars, faults>>)
  /\ WF_pairVars((StopStep \/ StartStep) /\ UNCHANGED <<coordVars, faults>>)

FairSpec == Spec /\ Fairness

(* Nobody keeps pair.lock: every admission, generation and command gives   *)
(* the flock back, also when a rank never answers.                         *)
LockAlwaysComesFree == []<>(lock = Free)

(* A process told to stop is gone in the end, drained or not.              *)
DrainEnds == \A p \in Procs : life[p] = "draining" ~> life[p] = "down"
=============================================================================
