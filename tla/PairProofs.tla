------------------------------ MODULE PairProofs ------------------------------
(***************************************************************************)
(* Proofs about Pair, for any set of processes, outputs, launches and      *)
(* faults.  The inductive invariant PairInv has three parts: who holds     *)
(* pair.lock, what the marker says of the engines, and that no engine of   *)
(* ours runs, or may still come up, without its nonce in pair-owner.json.  *)
(***************************************************************************)
EXTENDS Pair, TLAPS

(* The flock is held by exactly the job, admission or command whose pc     *)
(* says so.                                                                *)
LockInv ==
  /\ \A p \in Procs : pc[p] \in Holding <=> lock = p
  /\ cpc # "idle" <=> lock = Ctl

(* Only an engine of ours holds requests, and what it holds is marked.     *)
MarkInv ==
  /\ \A r \in unsettled : unit[r].who = "owned"
  /\ unsettled # {} => marker = "present" /\ durable = "present"
  /\ \A p \in Procs :
       /\ pc[p] \in {"marked", "running"} => marker = "present"
       /\ pc[p] = "running" => durable = "present"
       /\ pc[p] \in {"marked", "clear"} => unsettled = {}
  /\ cpc \in {"stopped", "archive"} => unsettled = {}

(* What runs of ours, or may still come up, is named in units.             *)
Names(units) ==
  \A r \in Ranks :
    /\ unit[r].who = "owned" => unit[r].nonce = units[r].nonce
    /\ pending[r] # 0 => pending[r] = units[r].nonce

(* Nothing of ours runs, or may still come up, on rank r. *)
Vacant(r) == unit[r].who # "owned" /\ pending[r] = 0

KnowsUnits == {"inspect", "stopping", "stopped", "uncertain",
               "append", "launch", "confirm", "health", "ready"}

NamesInv ==
  /\ \A r \in Ranks : unit[r].who = "owned" => unit[r].nonce # 0
  /\ Names(owner.units)
  /\ cpc \in KnowsUnits => Names(o.units)
  /\ cpc = "preflight" => \A r \in Ranks : Vacant(r)
  /\ cpc \in {"append", "launch"} => Vacant(cur) /\ Vacant(0)
  /\ cpc = "confirm" /\ cur = 1 => Vacant(0)
  /\ cpc = "launch" => /\ o.units[cur].nonce # 0
                       /\ owner.units[cur].nonce = o.units[cur].nonce

PairInv == TypeOK /\ LockInv /\ MarkInv /\ NamesInv

-----------------------------------------------------------------------------
(* Type correctness                                                        *)

LEMMA CoordKeepsTypes ==
  ASSUME SharedTypeOK, CoordTypeOK, CoordNext
  PROVE  SharedTypeOK' /\ CoordTypeOK'
<1> USE DEF SharedTypeOK, CoordTypeOK, sharedVars, Holders, Markers, Goto, Pcs,
            Holding, Admitting, Working, Lives
<1>1. PICK p \in Procs :
        \/ NewPairedBackend(p) \/ Listen(p) \/ StopAdmission(p)
        \/ AdmitLock(p) \/ AdmitStep(p) \/ DrainStep(p) \/ RunStep(p) \/ ShutdownStep(p)
  BY DEF CoordNext
<1>2. NoResults \in [Ranks -> Results]
  BY DEF NoResults, Results, Pending
<1>3. CASE NewPairedBackend(p) \/ Listen(p) \/ StopAdmission(p)
  BY <1>3 DEF NewPairedBackend, Listen, StopAdmission
<1>4. CASE AdmitLock(p) \/ AdmitStep(p)
  BY <1>4 DEF AdmitLock, AdmitStep, AdmitRefused, AdmitMarker, AdmitDurable, AdmitNotDurable
<1>5. CASE DrainStep(p)
  <2>1. PICK r \in Ranks : DrainSend(p, r) \/ DrainOK(p, r) \/ DrainError(p, r)
    BY <1>5 DEF DrainStep
  <2>2. ASSUME NEW v \in Results, SetResult(p, r, v)
        PROVE  res' \in [Procs -> [Ranks -> Results]]
    BY <2>2 DEF SetResult
  <2>3. CASE DrainSend(p, r)
    <3>1. res' \in [Procs -> [Ranks -> Results]]
      BY <2>2, <2>3 DEF DrainSend, Results, Pending
    <3> QED BY <2>3, <3>1 DEF DrainSend
  <2>4. CASE DrainOK(p, r)
    <3>1. res' \in [Procs -> [Ranks -> Results]]
      BY <2>2, <2>4 DEF DrainOK, Results
    <3> QED BY <2>4, <3>1 DEF DrainOK
  <2>5. CASE DrainError(p, r)
    <3>1. res' \in [Procs -> [Ranks -> Results]]
      BY <2>2, <2>5 DEF DrainError, Results
    <3> QED BY <2>5, <3>1 DEF DrainError, Fail, WritePoison
  <2> QED BY <2>1, <2>3, <2>4, <2>5
<1>6. CASE RunStep(p)
  <2>1. CASE Deadline(p) \/ OutputsAgree(p) \/ OutputsDiffer(p)
    <3>0. UNCHANGED <<lock, unit, life>> /\ unsettled' \in {unsettled, {}}
      BY <2>1 DEF Deadline, OutputsAgree, OutputsDiffer
    <3>1. res' \in [Procs -> [Ranks -> Results]]
      BY <1>2, <2>1 DEF Deadline, OutputsAgree, OutputsDiffer, LeaveRunning
    <3>2. marker' \in Markers /\ durable' \in Markers /\ poison' \in [Procs -> {"none", "set"}]
      BY <2>1 DEF Deadline, OutputsAgree, OutputsDiffer, Fail, WritePoison
    <3>3. pc' \in [Procs -> Pcs]
      <4>1. LeaveRunning(p, "finish") \/ LeaveRunning(p, "clear")
        BY <2>1 DEF Deadline, OutputsAgree, OutputsDiffer
      <4> QED BY <4>1 DEF LeaveRunning
    <3> QED BY <3>0, <3>1, <3>2, <3>3
  <2>2. CASE ClearMarker(p) \/ ClearRefused(p) \/ FailAfterClear(p)
    BY <2>2 DEF ClearMarker, ClearRefused, FailAfterClear, Fail, WritePoison
  <2>3. CASE FinishUnlock(p) \/ FinishIdle(p)
    BY <2>3 DEF FinishUnlock, FinishIdle
  <2> QED BY <1>6, <2>1, <2>2, <2>3 DEF RunStep
<1>7. CASE ShutdownStep(p)
  <2>1. CASE ShutdownDeadline(p)
    BY <2>1 DEF ShutdownDeadline, Fail, WritePoison
  <2>2. CASE Exit(p)
    <3>1. res' \in [Procs -> [Ranks -> Results]]
      BY <1>2, <2>2 DEF Exit, Die
    <3> QED BY <2>2, <3>1 DEF Exit, Die
  <2> QED BY <1>7, <2>1, <2>2 DEF ShutdownStep
<1> QED BY <1>1, <1>3, <1>4, <1>5, <1>6, <1>7

LEMMA NoOwnerType == NoOwner \in Owners /\ NoStage \in [Ranks -> Stages]
BY DEF NoOwner, Owners, OwnerStates, NoBindings, Bindings, NoBinding, NoStage, Stages

LEMMA StateType ==
  ASSUME NEW ow \in Owners, NEW s \in OwnerStates
  PROVE  [ow EXCEPT !.state = s] \in Owners
BY DEF Owners

LEMMA EndCommandTypes ==
  ASSUME SharedTypeOK, CtlTypeOK, EndCommand,
         marker' \in Markers, durable' \in Markers,
         owner' \in Owners, pending' \in [Ranks -> Nat]
  PROVE  SharedTypeOK' /\ CtlTypeOK'
<1>1. o' \in Owners /\ stage' \in [Ranks -> Stages]
  BY NoOwnerType DEF EndCommand
<1>2. cur' \in Ranks /\ op' \in Ops /\ cpc' \in Cpcs /\ stopErr' \in BOOLEAN
  BY DEF EndCommand, Ranks, Ops, Cpcs, CtlGoto
<1>3. lock' \in Holders /\ unit' = unit /\ unsettled' = unsettled /\ launches' = launches
  BY DEF EndCommand, Holders
<1> QED BY <1>1, <1>2, <1>3 DEF SharedTypeOK, CtlTypeOK

LEMMA StopKeepsTypes ==
  ASSUME SharedTypeOK, CtlTypeOK, StopStep
  PROVE  SharedTypeOK' /\ CtlTypeOK'
<1> USE DEF SharedTypeOK, CtlTypeOK, sharedVars, CtlGoto
<1>1. CASE ReadOwner \/ InspectAll \/ InspectFails \/ StopProven \/ StopNotProven
  <2>1. stage' \in [Ranks -> Stages]
    BY <1>1, NoOwnerType DEF ReadOwner, InspectAll, InspectFails, StopProven,
          StopNotProven, Stages
  <2>2. o' \in Owners /\ stopErr' \in BOOLEAN /\ cpc' \in Cpcs
    BY <1>1 DEF ReadOwner, InspectAll, InspectFails, StopProven, StopNotProven, Cpcs
  <2> QED BY <1>1, <2>1, <2>2
        DEF ReadOwner, InspectAll, InspectFails, StopProven, StopNotProven
<1>2. ASSUME NEW r \in Ranks,
             StopVerify(r) \/ StopVerifyFails(r) \/ StopUnit(r) \/ StopUnitFails(r)
      PROVE  SharedTypeOK' /\ CtlTypeOK'
  <2>1. stage' \in [Ranks -> Stages] /\ stopErr' \in BOOLEAN
    BY <1>2 DEF StopVerify, StopVerifyFails, StopUnit, StopUnitFails, StageTo, Stages
  <2>2. NoUnit \in Units
    BY DEF NoUnit, Units
  <2>3. unit' \in [Ranks -> Units] /\ unsettled' \in SUBSET Ranks
    BY <1>2, <2>2 DEF StopVerify, StopVerifyFails, StopUnit, StopUnitFails
  <2>4. /\ lock' = lock /\ UNCHANGED <<marker, durable>>
        /\ UNCHANGED <<owner, o, op, cpc, cur, launches, pending>>
    BY <1>2 DEF StopVerify, StopVerifyFails, StopUnit, StopUnitFails
  <2> QED BY <2>1, <2>3, <2>4
<1>3. CASE Uncertain \/ CleanedUp \/ SaveStoppedFails \/ ReadOwnerFails
  <2>1. owner' \in Owners
    BY <1>3, StateType
       DEF Uncertain, CleanedUp, SaveStoppedFails, ReadOwnerFails, SaveError, OwnerStates
  <2> QED BY <1>3, <2>1, EndCommandTypes
        DEF Uncertain, CleanedUp, SaveStoppedFails, ReadOwnerFails
<1>4. CASE SaveStopped
  <2>1. owner' \in Owners /\ o' \in Owners
    BY <1>4, StateType, NoOwnerType DEF SaveStopped, SaveOK, OwnerStates
  <2> QED BY <1>4, <2>1 DEF SaveStopped, Cpcs
<1>5. CASE ArchivePoison \/ ArchiveFails
  <2>1. marker' \in Markers /\ durable' \in Markers
    BY <1>5 DEF ArchivePoison, ArchiveFails, Archive, Markers
  <2> QED BY <1>5, <2>1, EndCommandTypes DEF ArchivePoison, ArchiveFails
<1>6. CASE ArchiveThenStart
  BY <1>6 DEF ArchiveThenStart, Archive, Markers, Cpcs, Ops
<1> QED BY <1>1, <1>2, <1>3, <1>4, <1>5, <1>6 DEF StopStep

LEMMA StartKeepsTypes ==
  ASSUME SharedTypeOK, CtlTypeOK, StartStep
  PROVE  SharedTypeOK' /\ CtlTypeOK'
<1> USE DEF SharedTypeOK, CtlTypeOK, sharedVars, CtlGoto
<1>1. CASE Precheck \/ StartFails \/ waitHealth
  BY <1>1 DEF Precheck, StartFails, waitHealth, Cpcs
<1>2. [state |-> "starting", units |-> NoBindings] \in Owners
  BY DEF Owners, OwnerStates, NoBindings, Bindings, NoBinding
<1>3. CASE StartRefused \/ SaveStartingFails \/ SaveReady
  <2>1. owner' \in Owners
    BY <1>2, <1>3, StateType
       DEF StartRefused, SaveStartingFails, SaveReady, SaveOK, SaveError, OwnerStates
  <2> QED BY <1>3, <2>1, EndCommandTypes DEF StartRefused, SaveStartingFails, SaveReady
<1>4. CASE SaveStarting
  BY <1>2, <1>4 DEF SaveStarting, SaveOK, Cpcs
<1>5. CASE SaveReadyFails
  <2>1. o' \in Owners /\ owner' \in Owners
    BY <1>5, StateType DEF SaveReadyFails, SaveError, OwnerStates
  <2> QED BY <1>5, <2>1 DEF SaveReadyFails, Cpcs
<1>6. CASE AppendUnit
  <2>1. launches' \in Nat
    BY <1>6 DEF AppendUnit
  <2>2. o' \in Owners
    BY <1>6, <2>1 DEF AppendUnit, Owners, Bindings
  <2>3. owner' \in Owners
    BY <1>6, <2>2 DEF AppendUnit, SaveOK, SaveError
  <2> QED BY <1>6, <2>1, <2>2, <2>3 DEF AppendUnit, Cpcs
<1>7. CASE LaunchOK \/ LaunchFails
  <2>1. o.units[cur].nonce \in Nat
    BY DEF Owners, Bindings
  <2>2. unit' \in [Ranks -> Units]
    BY <1>7, <2>1 DEF LaunchOK, LaunchFails, OwnedUnit, Units
  <2>3. pending' \in [Ranks -> Nat]
    BY <1>7, <2>1 DEF LaunchOK, LaunchFails
  <2> QED BY <1>7, <2>2, <2>3 DEF LaunchOK, LaunchFails, Cpcs
<1>8. CASE ConfirmUnit
  <2>1. unit[cur].inv \in 0..2
    BY DEF Units
  <2>2. o' \in Owners
    <3>1. PICK inv \in 0..2 : o' = [o EXCEPT !.units[cur].inv = inv]
      BY <1>8, <2>1 DEF ConfirmUnit
    <3>2. o \in Owners /\ cur \in Ranks
      OBVIOUS
    <3>3. PICK b \in Bindings : b = o.units[cur]
      BY <3>2 DEF Owners
    <3>4. [b EXCEPT !.inv = inv] \in Bindings
      BY DEF Bindings
    <3>5. o' = [o EXCEPT !.units = [o.units EXCEPT ![cur] = [b EXCEPT !.inv = inv]]]
      BY <3>1, <3>2, <3>3 DEF Owners
    <3>6. [o.units EXCEPT ![cur] = [b EXCEPT !.inv = inv]] \in [Ranks -> Bindings]
      BY <3>2, <3>4 DEF Owners
    <3> QED BY <3>2, <3>5, <3>6 DEF Owners
  <2>3. owner' \in Owners /\ cpc' \in Cpcs /\ cur' \in Ranks
    BY <1>8, <2>2 DEF ConfirmUnit, SaveOK, SaveError, Cpcs, Ranks
  <2>4. UNCHANGED <<marker, durable, lock, unit, unsettled>>
        /\ UNCHANGED <<op, stage, stopErr, launches, pending>>
    BY <1>8 DEF ConfirmUnit
  <2> QED BY <2>2, <2>3, <2>4
<1> QED BY <1>1, <1>3, <1>4, <1>5, <1>6, <1>7, <1>8 DEF StartStep

(* Faults other than a fault of the controller leave ctlVars alone, but    *)
(* for HostCrash and LateLaunch, which are handled on their own.           *)
LEMMA UnitFaultKeepsTypes ==
  ASSUME SharedTypeOK, NEW r \in Ranks,
         \/ RankExit(r) \/ RankReplaced(r) \/ ForeignUnitStarts(r)
  PROVE  SharedTypeOK'
<1>1. NoUnit \in Units /\ ForeignUnit \in Units
  BY DEF NoUnit, ForeignUnit, Units
<1>2. ASSUME RankReplaced(r) PROVE unit' \in [Ranks -> Units]
  BY <1>2 DEF RankReplaced, SharedTypeOK, Units
<1>3. unit' \in [Ranks -> Units] /\ unsettled' \in SUBSET Ranks
  BY <1>1, <1>2 DEF RankExit, RankReplaced, ForeignUnitStarts, SharedTypeOK
<1>4. UNCHANGED <<marker, durable, lock>>
  BY DEF RankExit, RankReplaced, ForeignUnitStarts
<1> QED BY <1>3, <1>4 DEF SharedTypeOK

LEMMA TypeStep ==
  ASSUME TypeOK, [Next]_pairVars
  PROVE  TypeOK'
<1> USE DEF TypeOK
<1>1. CASE CoordNext /\ UNCHANGED <<ctlVars, faults>>
  BY <1>1, CoordKeepsTypes DEF CtlTypeOK, ctlVars
<1>2. CASE CtlNext /\ UNCHANGED <<coordVars, faults>>
  <2>1. ASSUME NEW name \in Ops \ {"none"}, Command(name)
        PROVE  SharedTypeOK' /\ CtlTypeOK'
    BY <2>1 DEF Command, CtlGoto, SharedTypeOK, CtlTypeOK, Holders, Cpcs
  <2>2. SharedTypeOK' /\ CtlTypeOK'
    BY <1>2, <2>1, StopKeepsTypes, StartKeepsTypes DEF CtlNext
  <2> QED BY <1>2, <2>2 DEF CoordTypeOK, coordVars
<1>3. CASE UNCHANGED pairVars
  BY <1>3 DEF pairVars, sharedVars, coordVars, ctlVars, SharedTypeOK, CoordTypeOK, CtlTypeOK
<1>4. ASSUME NEW r \in Ranks, LateLaunch(r), UNCHANGED faults
      PROVE  TypeOK'
  <2>1. unit' \in [Ranks -> Units] /\ pending' \in [Ranks -> Nat]
    BY <1>4 DEF LateLaunch, SharedTypeOK, CtlTypeOK, Units, OwnedUnit
  <2> QED BY <1>4, <2>1 DEF LateLaunch, SharedTypeOK, CoordTypeOK, coordVars, CtlTypeOK
<1>5. CASE faults' = faults + 1 /\ Fault
  <2>1. faults' \in Nat
    BY <1>5
  <2>2. ASSUME NEW r \in Ranks, RankExit(r) \/ RankReplaced(r) \/ ForeignUnitStarts(r)
        PROVE  TypeOK'
    <3>1. SharedTypeOK'
      BY <2>2, UnitFaultKeepsTypes
    <3>2. UNCHANGED <<coordVars, ctlVars>>
      BY <2>2 DEF RankExit, RankReplaced, ForeignUnitStarts
    <3> QED BY <2>1, <3>1, <3>2 DEF CoordTypeOK, coordVars, CtlTypeOK, ctlVars
  <2>3. ASSUME NEW p \in Procs, Crash(p), UNCHANGED ctlVars
        PROVE  TypeOK'
    <3>1. NoResults \in [Ranks -> Results]
      BY DEF NoResults, Results, Pending
    <3>2. CoordTypeOK'
      BY <2>3, <3>1 DEF Crash, Die, Goto, CoordTypeOK, Lives, Pcs
    <3>3. SharedTypeOK'
      BY <2>3 DEF Crash, Die, SharedTypeOK, Holders
    <3> QED BY <2>1, <2>3, <3>2, <3>3 DEF CtlTypeOK, ctlVars
  <2>4. CASE CtlCrash /\ UNCHANGED coordVars
    <3>1. o.units[cur].nonce \in Nat
      BY DEF CtlTypeOK, Owners, Bindings
    <3>2. pending' \in [Ranks -> Nat]
      BY <2>4, <3>1 DEF CtlCrash, CtlTypeOK
    <3>3. SharedTypeOK' /\ CtlTypeOK'
      BY <2>4, <3>2, EndCommandTypes DEF CtlCrash, SharedTypeOK, CtlTypeOK
    <3> QED BY <2>1, <2>4, <3>3 DEF CoordTypeOK, coordVars
  <2>5. CASE HostCrash
    <3>1. NoResults \in [Ranks -> Results] /\ NoUnit \in Units
      BY DEF NoResults, Results, Pending, NoUnit, Units
    <3>2. SharedTypeOK'
      BY <2>5, <3>1 DEF HostCrash, SharedTypeOK, Holders
    <3>3. CoordTypeOK'
      BY <2>5, <3>1 DEF HostCrash, CoordTypeOK, Lives, Pcs
    <3>4. cur' \in Ranks /\ op' \in Ops /\ cpc' \in Cpcs /\ stopErr' \in BOOLEAN
      BY <2>5 DEF HostCrash, Ranks, Ops, Cpcs
    <3>5. o' \in Owners /\ stage' \in [Ranks -> Stages] /\ pending' \in [Ranks -> Nat]
      BY <2>5, NoOwnerType DEF HostCrash, CtlTypeOK
    <3>6. CtlTypeOK'
      BY <2>5, <3>4, <3>5 DEF HostCrash, CtlTypeOK
    <3> QED BY <2>1, <3>2, <3>3, <3>6
  <2> QED BY <1>5, <2>2, <2>3, <2>4, <2>5 DEF Fault
<1> QED BY <1>1, <1>2, <1>3, <1>4, <1>5 DEF Next

-----------------------------------------------------------------------------
(* The lock                                                                *)

LEMMA CoordKeepsLock ==
  ASSUME CoordTypeOK, LockInv, CoordNext, UNCHANGED cpc
  PROVE  LockInv'
<1> USE ProcsAssumption DEF Free, Ctl, CoordTypeOK, LockInv, sharedVars, Goto, Pcs, Holding, Admitting, Working
<1>1. PICK p \in Procs :
        \/ NewPairedBackend(p) \/ Listen(p) \/ StopAdmission(p)
        \/ AdmitLock(p) \/ AdmitStep(p) \/ DrainStep(p) \/ RunStep(p) \/ ShutdownStep(p)
  BY DEF CoordNext
<1>2. CASE NewPairedBackend(p) \/ Listen(p) \/ StopAdmission(p)
  BY <1>2 DEF NewPairedBackend, Listen, StopAdmission
<1>3. CASE AdmitLock(p)
  BY <1>3 DEF AdmitLock
<1>4. CASE AdmitStep(p)
  BY <1>4 DEF AdmitStep, AdmitRefused, AdmitMarker, AdmitDurable, AdmitNotDurable
<1>5. CASE DrainStep(p)
  BY <1>5 DEF DrainStep, DrainSend, DrainOK, DrainError
<1>6. CASE RunStep(p)
  <2>1. CASE FinishUnlock(p) \/ FinishIdle(p)
    BY <2>1 DEF FinishUnlock, FinishIdle
  <2>2. CASE ClearMarker(p) \/ ClearRefused(p) \/ FailAfterClear(p)
    BY <2>2 DEF ClearMarker, ClearRefused, FailAfterClear
  <2>3. CASE Deadline(p) \/ OutputsAgree(p) \/ OutputsDiffer(p)
    BY <2>3 DEF Deadline, OutputsAgree, OutputsDiffer, LeaveRunning
  <2> QED BY <1>6, <2>1, <2>2, <2>3 DEF RunStep
<1>7. CASE ShutdownStep(p)
  BY <1>7 DEF ShutdownStep, ShutdownDeadline, Exit, Die
<1> QED BY <1>1, <1>2, <1>3, <1>4, <1>5, <1>6, <1>7

(* A controller step keeps the lock while the command goes on, and gives   *)
(* it back where the command ends; only Command takes it.                  *)
LEMMA CtlLock ==
  ASSUME LockInv, CtlNext
  PROVE  \/ lock = Free /\ lock' = Ctl /\ cpc' # "idle"
         \/ lock = Ctl /\ lock' = Ctl /\ cpc' # "idle"
         \/ lock = Ctl /\ lock' = Free /\ cpc' = "idle"
<1> USE DEF LockInv, sharedVars, CtlGoto
<1>1. ASSUME NEW name \in Ops \ {"none"}, Command(name)
      PROVE  lock = Free /\ lock' = Ctl /\ cpc' # "idle"
  BY <1>1 DEF Command
<1>2. CASE StopStep
  <2>1. CASE EndCommand
    BY <1>2, <2>1 DEF EndCommand, StopStep, ReadOwner, ReadOwnerFails, InspectAll,
          InspectFails, StopVerify, StopVerifyFails, StopUnit, StopUnitFails, StopProven,
          StopNotProven, Uncertain, CleanedUp, SaveStopped, SaveStoppedFails,
          ArchivePoison, ArchiveThenStart, ArchiveFails
  <2>2. CASE ~EndCommand
    BY <1>2, <2>2 DEF StopStep, ReadOwner, ReadOwnerFails, InspectAll, InspectFails,
          StopVerify, StopVerifyFails, StopUnit, StopUnitFails, StopProven, StopNotProven,
          Uncertain, CleanedUp, SaveStopped, SaveStoppedFails, ArchivePoison,
          ArchiveThenStart, ArchiveFails
  <2> QED BY <2>1, <2>2
<1>3. CASE StartStep
  <2>1. CASE EndCommand
    BY <1>3, <2>1 DEF EndCommand, StartStep, Precheck, StartRefused, SaveStarting,
          SaveStartingFails, AppendUnit, LaunchOK, LaunchFails, ConfirmUnit, StartFails,
          waitHealth, SaveReady, SaveReadyFails
  <2>2. CASE ~EndCommand
    BY <1>3, <2>2 DEF StartStep, Precheck, StartRefused, SaveStarting, SaveStartingFails,
          AppendUnit, LaunchOK, LaunchFails, ConfirmUnit, StartFails, waitHealth,
          SaveReady, SaveReadyFails
  <2> QED BY <2>1, <2>2
<1> QED BY <1>1, <1>2, <1>3 DEF CtlNext

LEMMA LockStep ==
  ASSUME TypeOK, LockInv, [Next]_pairVars
  PROVE  LockInv'
<1> USE ProcsAssumption DEF LockInv, Free, Ctl
<1>1. CASE CoordNext /\ UNCHANGED <<ctlVars, faults>>
  BY <1>1, CoordKeepsLock DEF ctlVars, TypeOK
<1>2. CASE CtlNext /\ UNCHANGED <<coordVars, faults>>
  <2>1. UNCHANGED pc
    BY <1>2 DEF coordVars
  <2> QED BY <1>2, <2>1, CtlLock
<1>3. CASE UNCHANGED pairVars
  BY <1>3 DEF pairVars, sharedVars, coordVars, ctlVars
<1>4. ASSUME NEW r \in Ranks,
             RankExit(r) \/ RankReplaced(r) \/ ForeignUnitStarts(r) \/ LateLaunch(r)
      PROVE  LockInv'
  BY <1>4 DEF RankExit, RankReplaced, ForeignUnitStarts, LateLaunch, coordVars, ctlVars
<1>5. ASSUME NEW p \in Procs, Crash(p), UNCHANGED ctlVars
      PROVE  LockInv'
  BY <1>5 DEF Crash, Die, Goto, ctlVars, TypeOK, CoordTypeOK, Holding, Admitting, Working
<1>6. CASE CtlCrash /\ UNCHANGED coordVars
  BY <1>6 DEF CtlCrash, EndCommand, CtlGoto, coordVars
<1>7. CASE HostCrash
  BY <1>7 DEF HostCrash, Holding, Admitting, Working
<1> QED BY <1>1, <1>2, <1>3, <1>4, <1>5, <1>6, <1>7 DEF Next, Fault

-----------------------------------------------------------------------------
(* The marker                                                              *)

LEMMA CoordKeepsMark ==
  ASSUME CoordTypeOK, LockInv, MarkInv, CoordNext, UNCHANGED cpc
  PROVE  MarkInv'
<1> USE ProcsAssumption DEF Free, Ctl, CoordTypeOK, LockInv, MarkInv, sharedVars, Goto,
        Pcs, Holding, Admitting, Working
<1>1. PICK p \in Procs :
        \/ NewPairedBackend(p) \/ Listen(p) \/ StopAdmission(p)
        \/ AdmitLock(p) \/ AdmitStep(p) \/ DrainStep(p) \/ RunStep(p) \/ ShutdownStep(p)
  BY DEF CoordNext
<1>2. CASE NewPairedBackend(p) \/ Listen(p) \/ StopAdmission(p) \/ AdmitLock(p)
  BY <1>2 DEF NewPairedBackend, Listen, StopAdmission, AdmitLock
<1>3. CASE AdmitStep(p)
  <2>1. CASE AdmitRefused(p)
    BY <2>1 DEF AdmitRefused
  <2>2. CASE AdmitMarker(p)
    BY <2>2 DEF AdmitMarker
  <2>3. CASE AdmitDurable(p)
    BY <2>3 DEF AdmitDurable
  <2>4. CASE AdmitNotDurable(p)
    BY <2>4 DEF AdmitNotDurable
  <2> QED BY <1>3, <2>1, <2>2, <2>3, <2>4 DEF AdmitStep
<1>4. CASE DrainStep(p)
  <2>1. PICK r \in Ranks : DrainSend(p, r) \/ DrainOK(p, r) \/ DrainError(p, r)
    BY <1>4 DEF DrainStep
  <2>2. CASE DrainSend(p, r)
    BY <2>2 DEF DrainSend
  <2>3. CASE DrainOK(p, r)
    BY <2>3 DEF DrainOK
  <2>4. CASE DrainError(p, r)
    BY <2>4 DEF DrainError, Fail, WritePoison
  <2> QED BY <2>1, <2>2, <2>3, <2>4
<1>5. CASE RunStep(p)
  <2>1. CASE Deadline(p) \/ OutputsDiffer(p)
    BY <2>1 DEF Deadline, OutputsDiffer, LeaveRunning, Fail, WritePoison
  <2>2. CASE OutputsAgree(p)
    BY <2>2 DEF OutputsAgree, LeaveRunning
  <2>3. CASE ClearMarker(p)
    BY <2>3 DEF ClearMarker
  <2>4. CASE ClearRefused(p)
    BY <2>4 DEF ClearRefused
  <2>5. CASE FailAfterClear(p)
    BY <2>5 DEF FailAfterClear, Fail, WritePoison
  <2>6. CASE FinishUnlock(p) \/ FinishIdle(p)
    BY <2>6 DEF FinishUnlock, FinishIdle
  <2> QED BY <1>5, <2>1, <2>2, <2>3, <2>4, <2>5, <2>6 DEF RunStep
<1>6. CASE ShutdownStep(p)
  <2>1. CASE ShutdownDeadline(p)
    BY <2>1 DEF ShutdownDeadline, Fail, WritePoison
  <2>2. CASE Exit(p)
    BY <2>2 DEF Exit, Die
  <2> QED BY <1>6, <2>1, <2>2 DEF ShutdownStep
<1> QED BY <1>1, <1>2, <1>3, <1>4, <1>5, <1>6

(* What stopUnits has proven inactive is all that could hold a request.    *)
LEMMA StopProvenSettles ==
  ASSUME MarkInv, NamesInv, TypeOK, StopProven
  PROVE  unsettled = {}
<1>1. Names(o.units)
  BY DEF StopProven, NamesInv, KnowsUnits
<1>2. ASSUME NEW r \in unsettled PROVE FALSE
  <2>1. r \in Ranks /\ unit[r].who = "owned"
    BY DEF MarkInv, TypeOK, SharedTypeOK
  <2>2. unit[r].nonce # 0 /\ unit[r].nonce = o.units[r].nonce
    BY <1>1, <2>1 DEF Names, NamesInv
  <2>3. r \in Recorded(o.units)
    BY <2>1, <2>2 DEF Recorded
  <2> QED BY <2>1, <2>3 DEF StopProven, unitActive
<1> QED BY <1>2

LEMMA CtlKeepsMark ==
  ASSUME TypeOK, LockInv, MarkInv, NamesInv, CtlNext, UNCHANGED pc
  PROVE  MarkInv'
<1> USE DEF MarkInv, sharedVars, CtlGoto
<1>1. ASSUME NEW name \in Ops \ {"none"}, Command(name)
      PROVE  MarkInv'
  BY <1>1 DEF Command
<1>2. ASSUME cpc # "idle"
      PROVE  \A p \in Procs : pc[p] \notin {"marked", "running", "clear"}
  BY <1>2, ProcsAssumption DEF LockInv, Holding, Admitting, Working
<1>3. CASE ReadOwner \/ InspectAll \/ InspectFails \/ StopNotProven \/ SaveStopped
  BY <1>3 DEF ReadOwner, InspectAll, InspectFails, StopNotProven, SaveStopped
<1>4. CASE ReadOwnerFails \/ Uncertain \/ CleanedUp \/ SaveStoppedFails \/ ArchiveFails
  BY <1>4 DEF ReadOwnerFails, Uncertain, CleanedUp, SaveStoppedFails, ArchiveFails, EndCommand
<1>5. CASE StopProven
  BY <1>5, StopProvenSettles DEF StopProven
<1>6. ASSUME NEW r \in Ranks, StopVerify(r) \/ StopVerifyFails(r) \/ StopUnitFails(r)
      PROVE  MarkInv'
  BY <1>6 DEF StopVerify, StopVerifyFails, StopUnitFails
<1>7. ASSUME NEW r \in Ranks, StopUnit(r)
      PROVE  MarkInv'
  <2>1. \A s \in unsettled' : s # r /\ s \in unsettled /\ s \in Ranks /\ unit'[s] = unit[s]
    BY <1>7 DEF StopUnit, TypeOK, SharedTypeOK
  <2>2. \A p \in Procs : pc'[p] \notin {"marked", "running", "clear"}
    BY <1>2, <1>7 DEF StopUnit
  <2>3. UNCHANGED <<marker, durable>> /\ cpc' = "stopping" /\ unsettled' \subseteq unsettled
    BY <1>7 DEF StopUnit
  <2> QED BY <2>1, <2>2, <2>3
<1>8. CASE ArchivePoison \/ ArchiveThenStart
  <2>1. unsettled = {} /\ unsettled' = {} /\ cpc # "idle"
    BY <1>8 DEF ArchivePoison, ArchiveThenStart, EndCommand
  <2> QED BY <1>2, <2>1
<1>9. CASE Precheck \/ SaveStarting \/ AppendUnit \/ ConfirmUnit \/ StartFails
           \/ waitHealth \/ SaveReadyFails
  BY <1>9 DEF Precheck, SaveStarting, AppendUnit, ConfirmUnit, StartFails, waitHealth,
     SaveReadyFails
<1>10. CASE StartRefused \/ SaveStartingFails \/ SaveReady
  BY <1>10 DEF StartRefused, SaveStartingFails, SaveReady, EndCommand
<1>11. CASE LaunchOK \/ LaunchFails
  <2>1. \A s \in unsettled : s \in Ranks /\ unit'[s] = unit[s]
    BY <1>11 DEF LaunchOK, LaunchFails, unitActive, TypeOK, SharedTypeOK
  <2>2. UNCHANGED <<marker, durable, unsettled>> /\ cpc' \in {"confirm", "inspect"}
    BY <1>11 DEF LaunchOK, LaunchFails
  <2> QED BY <2>1, <2>2
<1> QED BY <1>1, <1>3, <1>4, <1>5, <1>6, <1>7, <1>8, <1>9, <1>10, <1>11
        DEF CtlNext, StopStep, StartStep

LEMMA MarkStep ==
  ASSUME TypeOK, LockInv, MarkInv, NamesInv, [Next]_pairVars
  PROVE  MarkInv'
<1>1. CASE CoordNext /\ UNCHANGED <<ctlVars, faults>>
  BY <1>1, CoordKeepsMark DEF ctlVars, TypeOK
<1>2. CASE CtlNext /\ UNCHANGED <<coordVars, faults>>
  BY <1>2, CtlKeepsMark DEF coordVars
<1>3. CASE UNCHANGED pairVars
  BY <1>3 DEF pairVars, sharedVars, coordVars, ctlVars, MarkInv
<1>4. ASSUME NEW r \in Ranks,
             RankExit(r) \/ RankReplaced(r) \/ ForeignUnitStarts(r) \/ LateLaunch(r)
      PROVE  MarkInv'
  <2>1. unsettled' \subseteq unsettled
    BY <1>4 DEF RankExit, RankReplaced, ForeignUnitStarts, LateLaunch
  <2>2. \A s \in unsettled' : s \in Ranks /\ unit'[s] = unit[s]
    BY <1>4 DEF RankExit, RankReplaced, ForeignUnitStarts, LateLaunch, unitActive,
       MarkInv, TypeOK, SharedTypeOK
  <2>3. UNCHANGED <<marker, durable, pc, cpc>>
    BY <1>4 DEF RankExit, RankReplaced, ForeignUnitStarts, LateLaunch, coordVars, ctlVars
  <2> QED BY <2>1, <2>2, <2>3 DEF MarkInv
<1>5. ASSUME NEW p \in Procs, Crash(p), UNCHANGED ctlVars
      PROVE  MarkInv'
  BY <1>5 DEF Crash, Die, Goto, ctlVars, MarkInv, TypeOK, CoordTypeOK
<1>6. CASE CtlCrash /\ UNCHANGED coordVars
  BY <1>6 DEF CtlCrash, EndCommand, CtlGoto, coordVars, MarkInv
<1>7. CASE HostCrash
  BY <1>7 DEF HostCrash, MarkInv, TypeOK, SharedTypeOK
<1> QED BY <1>1, <1>2, <1>3, <1>4, <1>5, <1>6, <1>7 DEF Next, Fault

-----------------------------------------------------------------------------
(* The owner file                                                          *)

LEMMA EndCommandKeepsNames ==
  ASSUME NamesInv, EndCommand, UNCHANGED pending,
         \/ owner' = owner
         \/ Names(o.units) /\ owner'.units = o.units
  PROVE  NamesInv'
<1>1. Names(owner'.units)
  BY DEF NamesInv
<1>2. Names(owner.units)'
  BY <1>1 DEF Names, EndCommand
<1> QED BY <1>2 DEF NamesInv, EndCommand, KnowsUnits, CtlGoto

LEMMA StopKeepsNames ==
  ASSUME TypeOK, NamesInv, StopStep
  PROVE  NamesInv'
<1> USE DEF sharedVars, CtlGoto, KnowsUnits
<1>1. CASE ReadOwner \/ InspectAll \/ InspectFails \/ StopProven \/ StopNotProven
  BY <1>1 DEF ReadOwner, InspectAll, InspectFails, StopProven, StopNotProven, NamesInv,
     Names, Vacant
<1>2. ASSUME NEW r \in Ranks, StopVerify(r) \/ StopVerifyFails(r) \/ StopUnitFails(r)
      PROVE  NamesInv'
  BY <1>2 DEF StopVerify, StopVerifyFails, StopUnitFails, NamesInv, Names, Vacant
<1>3. ASSUME NEW r \in Ranks, StopUnit(r)
      PROVE  NamesInv'
  <2>1. \A s \in Ranks : unit'[s].who = "owned" => unit'[s] = unit[s]
    BY <1>3 DEF StopUnit, TypeOK, SharedTypeOK, NoUnit
  <2>2. UNCHANGED <<owner, o, cpc, cur, pending>> /\ cpc = "stopping"
    BY <1>3 DEF StopUnit
  <2> QED BY <2>1, <2>2 DEF NamesInv, Names
<1>4. ASSUME Uncertain \/ CleanedUp \/ SaveStoppedFails
      PROVE  NamesInv'
  <2>1. EndCommand /\ UNCHANGED pending /\ Names(o.units)
    BY <1>4 DEF Uncertain, CleanedUp, SaveStoppedFails, NamesInv
  <2>2. owner' = owner \/ owner'.units = o.units
    BY <1>4 DEF Uncertain, CleanedUp, SaveStoppedFails, SaveError, TypeOK, CtlTypeOK, Owners
  <2> QED BY <2>1, <2>2, EndCommandKeepsNames
<1>5. CASE SaveStopped
  <2>1. owner'.units = o.units /\ Names(o.units)
    BY <1>5 DEF SaveStopped, SaveOK, NamesInv, TypeOK, CtlTypeOK, Owners
  <2> QED BY <1>5, <2>1 DEF SaveStopped, NamesInv, Names
<1>6. CASE ReadOwnerFails \/ ArchivePoison \/ ArchiveFails
  BY <1>6, EndCommandKeepsNames DEF ReadOwnerFails, ArchivePoison, ArchiveFails
<1>7. CASE ArchiveThenStart
  BY <1>7 DEF ArchiveThenStart, NamesInv, Names
<1> QED BY <1>1, <1>2, <1>3, <1>4, <1>5, <1>6, <1>7 DEF StopStep

LEMMA StartKeepsNames ==
  ASSUME TypeOK, NamesInv, StartStep
  PROVE  NamesInv'
<1> USE DEF sharedVars, CtlGoto, KnowsUnits
<1>1. CASE Precheck
  BY <1>1 DEF Precheck, NamesInv, Names, Vacant, unitActive
<1>2. CASE StartRefused
  BY <1>2, EndCommandKeepsNames DEF StartRefused
<1>3. CASE SaveStarting
  BY <1>3 DEF SaveStarting, SaveOK, NamesInv, Names, Vacant, Ranks, TypeOK, CtlTypeOK
<1>4. CASE SaveStartingFails
  BY <1>4 DEF SaveStartingFails, SaveError, EndCommand, NamesInv, Names, Vacant
<1>5. CASE StartFails \/ waitHealth
  BY <1>5 DEF StartFails, waitHealth, NamesInv, Names
<1>6. CASE SaveReady
  <2>1. EndCommand /\ UNCHANGED pending /\ Names(o.units)
    BY <1>6 DEF SaveReady, NamesInv
  <2>2. owner'.units = o.units
    BY <1>6 DEF SaveReady, SaveOK, TypeOK, CtlTypeOK, Owners
  <2> QED BY <2>1, <2>2, EndCommandKeepsNames
<1>7. CASE SaveReadyFails
  <2>1. /\ o'.units = o.units
        /\ owner' = owner \/ owner'.units = o.units
    BY <1>7 DEF SaveReadyFails, SaveError, TypeOK, CtlTypeOK, Owners
  <2> QED BY <1>7, <2>1 DEF SaveReadyFails, NamesInv, Names
<1>8. CASE AppendUnit
  <2>1. /\ o'.units[cur].nonce # 0
        /\ \A r \in Ranks \ {cur} : o'.units[r] = o.units[r]
    BY <1>8 DEF AppendUnit, TypeOK, CtlTypeOK, Owners, Bindings
  <2>2. Vacant(cur) /\ Vacant(0) /\ Names(o.units) /\ Names(owner.units)
    BY <1>8 DEF AppendUnit, NamesInv
  <2>3. Names(o'.units)
    BY <2>1, <2>2 DEF Names, Vacant
  <2>4. UNCHANGED <<unit, pending, cur>>
    BY <1>8 DEF AppendUnit
  <2>5. Vacant(cur)' /\ Vacant(0)' /\ Names(o.units)' /\ (owner' = owner => Names(owner.units)')
    BY <2>2, <2>3, <2>4 DEF Vacant, Names
  <2>6. \/ owner' = o' /\ cpc' = "launch"
        \/ owner' \in {owner, o'} /\ cpc' = "inspect"
    BY <1>8 DEF AppendUnit, SaveOK, SaveError
  <2>7. Names(owner.units)'
    BY <2>5, <2>6 DEF Names
  <2>8. \A r \in Ranks : unit'[r].who = "owned" => unit'[r].nonce # 0
    BY <2>4 DEF NamesInv
  <2> QED BY <2>1, <2>4, <2>5, <2>6, <2>7, <2>8 DEF NamesInv
<1>9. CASE LaunchOK \/ LaunchFails
  <2>1. /\ Vacant(cur) /\ Vacant(0)
        /\ o.units[cur].nonce # 0 /\ owner.units[cur].nonce = o.units[cur].nonce
        /\ Names(o.units) /\ Names(owner.units)
    BY <1>9 DEF LaunchOK, LaunchFails, NamesInv
  <2>2. UNCHANGED <<owner, o, cur>>
    BY <1>9 DEF LaunchOK, LaunchFails
  <2>3. /\ \A r \in Ranks \ {cur} : unit'[r] = unit[r] /\ pending'[r] = pending[r]
        /\ unit'[cur] = unit[cur] \/ unit'[cur] = OwnedUnit(o.units[cur].nonce, 1)
        /\ pending'[cur] = pending[cur] \/ pending'[cur] = o.units[cur].nonce
    BY <1>9 DEF LaunchOK, LaunchFails, TypeOK, SharedTypeOK, CtlTypeOK
  <2>4. /\ Names(o.units)' /\ Names(owner.units)'
        /\ \A r \in Ranks : unit'[r].who = "owned" => unit'[r].nonce # 0
    BY <2>1, <2>2, <2>3 DEF Names, Vacant, OwnedUnit, NamesInv
  <2>5. cpc' \in {"confirm", "inspect"}
    BY <1>9 DEF LaunchOK, LaunchFails
  <2>6. cur = 1 => Vacant(0)'
    BY <2>1, <2>3 DEF Vacant, Ranks
  <2> QED BY <2>2, <2>4, <2>5, <2>6 DEF NamesInv
<1>10. CASE ConfirmUnit
  <2>1. \A r \in Ranks : o'.units[r].nonce = o.units[r].nonce
    BY <1>10 DEF ConfirmUnit, TypeOK, CtlTypeOK, Owners, Bindings
  <2>2. Names(o.units) /\ Names(owner.units) /\ (cur = 1 => Vacant(0))
    BY <1>10 DEF ConfirmUnit, NamesInv
  <2>3. UNCHANGED <<unit, pending>> /\ owner' \in {owner, o'}
    BY <1>10 DEF ConfirmUnit, SaveOK, SaveError
  <2>4. Names(o.units)' /\ Names(owner.units)'
    BY <2>1, <2>2, <2>3 DEF Names
  <2>5. \/ cpc' = "append" /\ cur = 1 /\ cur' = 0
        \/ cpc' \in {"health", "inspect"}
    BY <1>10 DEF ConfirmUnit
  <2>6. (\A r \in Ranks : unit'[r].who = "owned" => unit'[r].nonce # 0)
        /\ (cur = 1 => Vacant(0)')
    BY <2>2, <2>3 DEF NamesInv, Vacant
  <2> QED BY <2>4, <2>5, <2>6 DEF NamesInv
<1> QED BY <1>1, <1>2, <1>3, <1>4, <1>5, <1>6, <1>7, <1>8, <1>9, <1>10 DEF StartStep

LEMMA NamesStep ==
  ASSUME TypeOK, NamesInv, [Next]_pairVars
  PROVE  NamesInv'
<1>1. ASSUME UNCHANGED unit, UNCHANGED ctlVars
      PROVE  NamesInv'
  BY <1>1 DEF NamesInv, Names, Vacant, ctlVars
<1>2. ASSUME CoordNext PROVE UNCHANGED unit
  BY <1>2 DEF CoordNext, NewPairedBackend, Listen, StopAdmission, AdmitLock, AdmitStep,
     AdmitRefused, AdmitMarker, AdmitDurable, AdmitNotDurable, DrainStep, DrainSend,
     DrainOK, DrainError, RunStep, Deadline, OutputsAgree, OutputsDiffer, ClearMarker,
     ClearRefused, FailAfterClear, FinishUnlock, FinishIdle, ShutdownStep,
     ShutdownDeadline, Exit, sharedVars
<1>3. CASE CtlNext /\ UNCHANGED <<coordVars, faults>>
  <2>1. ASSUME NEW name \in Ops \ {"none"}, Command(name)
        PROVE  NamesInv'
    BY <2>1 DEF Command, CtlGoto, NamesInv, Names, KnowsUnits
  <2> QED BY <1>3, <2>1, StopKeepsNames, StartKeepsNames DEF CtlNext
<1>4. CASE UNCHANGED pairVars
  BY <1>1, <1>4 DEF pairVars, sharedVars
<1>5. ASSUME NEW r \in Ranks, RankExit(r) \/ RankReplaced(r) \/ ForeignUnitStarts(r)
      PROVE  NamesInv'
  <2>1. \A s \in Ranks : unit'[s].who = "owned" =>
          unit[s].who = "owned" /\ unit'[s].nonce = unit[s].nonce
    BY <1>5 DEF RankExit, RankReplaced, ForeignUnitStarts, NoUnit, ForeignUnit,
       TypeOK, SharedTypeOK, Units
  <2>2. UNCHANGED ctlVars
    BY <1>5 DEF RankExit, RankReplaced, ForeignUnitStarts
  <2>3. UNCHANGED <<owner, o, cpc, cur, pending>>
    BY <2>2 DEF ctlVars
  <2>4. Names(owner.units)' /\ (cpc' \in KnowsUnits => Names(o.units)')
    BY <2>1, <2>3 DEF NamesInv, Names
  <2>5. \A s \in Ranks : Vacant(s) => Vacant(s)'
    BY <2>1, <2>3 DEF Vacant
  <2>6. \A s \in Ranks : unit'[s].who = "owned" => unit'[s].nonce # 0
    BY <2>1 DEF NamesInv
  <2>7. cur \in Ranks /\ 0 \in Ranks
    BY DEF TypeOK, CtlTypeOK, Ranks
  <2> QED BY <2>3, <2>4, <2>5, <2>6, <2>7 DEF NamesInv
<1>6. ASSUME NEW r \in Ranks, LateLaunch(r)
      PROVE  NamesInv'
  <2>1. /\ \A s \in Ranks : unit'[s].who = "owned" =>
             \/ unit[s].who = "owned" /\ unit'[s].nonce = unit[s].nonce
             \/ pending[s] # 0 /\ unit'[s].nonce = pending[s]
        /\ \A s \in Ranks : pending'[s] \in {0, pending[s]}
    BY <1>6 DEF LateLaunch, OwnedUnit, TypeOK, SharedTypeOK, CtlTypeOK
  <2>2. UNCHANGED <<owner, o, cpc, cur>>
    BY <1>6 DEF LateLaunch
  <2>3. Names(owner.units)' /\ (cpc' \in KnowsUnits => Names(o.units)')
    BY <2>1, <2>2 DEF NamesInv, Names
  <2>4. \A s \in Ranks : Vacant(s) => Vacant(s)'
    BY <2>1 DEF Vacant
  <2>5. \A s \in Ranks : unit'[s].who = "owned" => unit'[s].nonce # 0
    BY <2>1 DEF NamesInv
  <2>6. cur \in Ranks /\ 0 \in Ranks
    BY DEF TypeOK, CtlTypeOK, Ranks
  <2> QED BY <2>2, <2>3, <2>4, <2>5, <2>6 DEF NamesInv
<1>7. CASE CtlCrash
  <2>1. UNCHANGED <<unit, owner>> /\ cpc' = "idle"
    BY <1>7 DEF CtlCrash, EndCommand, CtlGoto
  <2>2. \A s \in Ranks : pending'[s] = pending[s] \/ pending'[s] = owner.units[s].nonce
    BY <1>7 DEF CtlCrash, NamesInv, TypeOK, CtlTypeOK
  <2> QED BY <2>1, <2>2 DEF NamesInv, Names, KnowsUnits
<1>8. CASE HostCrash
  <2>1. UNCHANGED owner /\ cpc' = "idle"
    BY <1>8 DEF HostCrash
  <2>2. \A s \in Ranks : /\ unit'[s].who = "owned" => unit'[s] = unit[s]
                         /\ pending'[s] \in {0, pending[s]}
    BY <1>8 DEF HostCrash, NoUnit, TypeOK, SharedTypeOK, CtlTypeOK
  <2> QED BY <2>1, <2>2 DEF NamesInv, Names, KnowsUnits
<1>9. ASSUME NEW p \in Procs, Crash(p), UNCHANGED ctlVars
      PROVE  NamesInv'
  BY <1>1, <1>9 DEF Crash
<1> QED BY <1>1, <1>2, <1>3, <1>4, <1>5, <1>6, <1>7, <1>8, <1>9 DEF Next, Fault

-----------------------------------------------------------------------------
(* Every reachable state satisfies the inductive invariant of the pair,    *)
(* whatever the number of processes, outputs, launches and faults.         *)
THEOREM PairInvariant == Spec => []PairInv
<1>1. Init => PairInv
  <2> SUFFICES ASSUME Init PROVE PairInv
    OBVIOUS
  <2>1. SharedTypeOK
    BY DEF Init, SharedInit, SharedTypeOK, Markers, Holders, NoUnit, Units
  <2>2. CoordTypeOK
    BY DEF Init, CoordInit, CoordTypeOK, Lives, Pcs, NoResults, Results, Pending
  <2>3. CtlTypeOK
    BY NoOwnerType DEF Init, CtlInit, CtlTypeOK, Ops, Cpcs, Ranks
  <2>4. LockInv
    BY ProcsAssumption DEF Init, SharedInit, CoordInit, CtlInit, LockInv, Holding,
       Admitting, Working, Free, Ctl
  <2>5. MarkInv
    BY DEF Init, SharedInit, CoordInit, CtlInit, MarkInv
  <2>6. NamesInv
    BY DEF Init, SharedInit, CtlInit, NamesInv, Names, NoUnit, KnowsUnits
  <2> QED BY <2>1, <2>2, <2>3, <2>4, <2>5, <2>6 DEF PairInv, TypeOK, Init
<1>2. PairInv /\ [Next]_pairVars => PairInv'
  BY TypeStep, LockStep, MarkStep, NamesStep DEF PairInv
<1> QED BY <1>1, <1>2, PTL DEF Spec

(* No step of a process, of the controller or of a fault takes a variable  *)
(* out of the values the code can give it.                                 *)
THEOREM TypeCorrect == Spec => []TypeOK
<1>1. PairInv => TypeOK
  BY DEF PairInv
<1> QED BY <1>1, PairInvariant, PTL

(* An engine that holds a request the ranks never settled is always        *)
(* covered by a marker that survives a power loss.                         *)
THEOREM UncertaintyIsKept == Spec => []UnsettledIsMarked
<1>1. PairInv => UnsettledIsMarked
  BY DEF PairInv, MarkInv, UnsettledIsMarked
<1> QED BY <1>1, PairInvariant, PTL

(* admit() never reserves the pair over a request of an earlier job.       *)
THEOREM AdmissionIsSafe == Spec => []AdmittedOverSettledPair
<1>1. PairInv => AdmittedOverSettledPair
  BY DEF PairInv, MarkInv, AdmittedOverSettledPair
<1> QED BY <1>1, PairInvariant, PTL

(* A stop of the pair knows every engine of ours that can be running.      *)
THEOREM EnginesAreRecorded == Spec => []RunningUnitsAreRecorded
<1>1. PairInv => RunningUnitsAreRecorded
  BY DEF PairInv, NamesInv, Names, RunningUnitsAreRecorded
<1> QED BY <1>1, PairInvariant, PTL

(* Neither a job that ends late, nor a stop, nor a power loss removes the  *)
(* marker while an engine still holds an unsettled request.                *)
THEOREM MarkerOutlivesUncertainty == Spec => MarkerClearedOnlySettled
<1> DEFINE Kept == marker # "absent" /\ marker' = "absent" => unsettled = {}
<1>1. ASSUME PairInv, Next, marker # "absent", marker' = "absent"
      PROVE  unsettled = {}
  <2> USE <1>1
  <2>1. CASE CoordNext
    <3>1. PICK p \in Procs :
            \/ NewPairedBackend(p) \/ Listen(p) \/ StopAdmission(p)
            \/ AdmitLock(p) \/ AdmitStep(p) \/ DrainStep(p) \/ RunStep(p) \/ ShutdownStep(p)
      BY <2>1 DEF CoordNext
    <3>2. ~(NewPairedBackend(p) \/ Listen(p) \/ StopAdmission(p) \/ AdmitLock(p) \/ AdmitStep(p))
      BY DEF NewPairedBackend, Listen, StopAdmission, AdmitLock, AdmitStep, AdmitRefused,
         AdmitMarker, AdmitDurable, AdmitNotDurable, sharedVars
    <3>3. ~(DrainStep(p) \/ ShutdownStep(p))
      BY DEF DrainStep, DrainSend, DrainOK, DrainError, ShutdownStep, ShutdownDeadline, Exit,
         Fail, WritePoison, sharedVars
    <3>4. pc[p] = "clear"
      BY <3>1, <3>2, <3>3 DEF RunStep, Deadline, OutputsAgree, OutputsDiffer, ClearMarker,
         ClearRefused, FailAfterClear, FinishUnlock, FinishIdle, Fail, WritePoison, sharedVars
    <3> QED BY <3>4 DEF PairInv, MarkInv
  <2>2. CASE CtlNext
    <3>1. ~StartStep /\ \A name \in Ops \ {"none"} : ~Command(name)
      BY DEF Command, StartStep, Precheck, StartRefused, SaveStarting, SaveStartingFails,
         AppendUnit, LaunchOK, LaunchFails, ConfirmUnit, StartFails, waitHealth, SaveReady,
         SaveReadyFails, sharedVars
    <3>2. cpc = "archive"
      BY <2>2, <3>1 DEF CtlNext, StopStep, ReadOwner, ReadOwnerFails, InspectAll,
         InspectFails, StopVerify, StopVerifyFails, StopUnit, StopUnitFails, StopProven,
         StopNotProven, Uncertain, CleanedUp, SaveStopped, SaveStoppedFails,
         ArchivePoison, ArchiveThenStart, ArchiveFails, sharedVars
    <3> QED BY <3>2 DEF PairInv, MarkInv
  <2>3. CASE HostCrash
    BY <2>3 DEF HostCrash, PairInv, MarkInv
  <2>4. ASSUME NEW r \in Ranks,
               RankExit(r) \/ RankReplaced(r) \/ ForeignUnitStarts(r) \/ LateLaunch(r)
        PROVE  FALSE
    BY <2>4 DEF RankExit, RankReplaced, ForeignUnitStarts, LateLaunch
  <2>5. ~CtlCrash /\ \A p \in Procs : ~Crash(p)
    BY DEF CtlCrash, Crash
  <2> QED BY <2>1, <2>2, <2>3, <2>4, <2>5 DEF Next, Fault
<1>2. PairInv /\ [Next]_pairVars => [Kept]_pairVars
  BY <1>1
<1> QED BY <1>2, PairInvariant, PTL DEF Spec, MarkerClearedOnlySettled

-----------------------------------------------------------------------------
(* The promise of PairPromise                                              *)

(* A step that opens no job, and empties engines only by replacing them.   *)
LEMMA DisturbStep ==
  ASSUME \A p \in Procs : pc'[p] = "running" => pc[p] = "running",
         unsettled' = {r \in unsettled : unit'[r] = unit[r]}
  PROVE  Promise!Next
<1>1. JobOf' \in {JobOf, "none"}
  BY DEF JobOf
<1> QED BY <1>1 DEF Promise!Next, Promise!Disturb

(* A step that leaves what the promise is about alone.                     *)
LEMMA QuietStep ==
  ASSUME \A p \in Procs : pc'[p] = "running" => pc[p] = "running",
         UNCHANGED <<unsettled, unit>>
  PROVE  Promise!Next
BY DisturbStep

LEMMA CoordKeepsPromise ==
  ASSUME CoordTypeOK, LockInv, MarkInv, CoordNext
  PROVE  Promise!Next
<1> USE DEF CoordTypeOK, sharedVars, Goto
<1>1. PICK p \in Procs :
        \/ NewPairedBackend(p) \/ Listen(p) \/ StopAdmission(p)
        \/ AdmitLock(p) \/ AdmitStep(p) \/ DrainStep(p) \/ RunStep(p) \/ ShutdownStep(p)
  BY DEF CoordNext
<1>2. CASE NewPairedBackend(p) \/ Listen(p) \/ StopAdmission(p) \/ AdmitLock(p)
  BY <1>2, QuietStep DEF NewPairedBackend, Listen, StopAdmission, AdmitLock
<1>3. CASE AdmitRefused(p) \/ AdmitMarker(p) \/ AdmitNotDurable(p)
  BY <1>3, QuietStep DEF AdmitRefused, AdmitMarker, AdmitNotDurable
<1>4. CASE AdmitDurable(p)
  <2>1. JobOf = "none" /\ unsettled = {}
    BY <1>4 DEF AdmitDurable, JobOf, LockInv, MarkInv, Holding, Admitting, Working
  <2>2. JobOf' = "open" /\ UNCHANGED <<unsettled, unit>>
    BY <1>4 DEF AdmitDurable, JobOf
  <2> QED BY <2>1, <2>2 DEF Promise!Next, Promise!Open
<1>5. CASE DrainStep(p)
  <2>1. PICK r \in Ranks : DrainSend(p, r) \/ DrainOK(p, r) \/ DrainError(p, r)
    BY <1>5 DEF DrainStep
  <2>2. CASE DrainSend(p, r)
    <3>1. JobOf = "open" /\ JobOf' = "open"
      BY <2>2 DEF DrainSend, JobOf
    <3> QED BY <2>2, <3>1 DEF DrainSend, Promise!Next, Promise!Deliver
  <2>3. CASE DrainOK(p, r) \/ DrainError(p, r)
    BY <2>3, QuietStep DEF DrainOK, DrainError
  <2> QED BY <2>1, <2>2, <2>3
<1>6. CASE OutputsAgree(p)
  <2>1. JobOf = "open" /\ UNCHANGED unit /\ unsettled' = {}
    BY <1>6 DEF OutputsAgree, JobOf
  <2>2. JobOf' = "none"
    BY <1>6 DEF OutputsAgree, LeaveRunning, JobOf, LockInv, Holding, Admitting, Working
  <2> QED BY <2>1, <2>2 DEF Promise!Next, Promise!Settle
<1>7. CASE Deadline(p) \/ OutputsDiffer(p)
  BY <1>7, QuietStep DEF Deadline, OutputsDiffer, LeaveRunning
<1>8. CASE ClearMarker(p) \/ ClearRefused(p) \/ FailAfterClear(p)
           \/ FinishUnlock(p) \/ FinishIdle(p)
  BY <1>8, QuietStep DEF ClearMarker, ClearRefused, FailAfterClear, FinishUnlock, FinishIdle
<1>9. CASE ShutdownStep(p)
  BY <1>9, QuietStep DEF ShutdownStep, ShutdownDeadline, Exit, Die
<1> QED BY <1>1, <1>2, <1>3, <1>4, <1>5, <1>6, <1>7, <1>8, <1>9 DEF AdmitStep, RunStep

LEMMA CtlKeepsPromise ==
  ASSUME SharedTypeOK, MarkInv, CtlNext, UNCHANGED pc
  PROVE  Promise!Next
<1>1. ASSUME NEW r \in Ranks, StopUnit(r)
      PROVE  Promise!Next
  <2>1. unsettled' = {s \in unsettled : unit'[s] = unit[s]}
    BY <1>1 DEF StopUnit, SharedTypeOK, MarkInv, NoUnit
  <2> QED BY <2>1, DisturbStep
<1>2. CASE LaunchOK \/ LaunchFails
  <2>1. unsettled' = {s \in unsettled : unit'[s] = unit[s]}
    BY <1>2 DEF LaunchOK, LaunchFails, SharedTypeOK, MarkInv, unitActive
  <2> QED BY <2>1, DisturbStep
<1>3. CASE UNCHANGED <<unit, unsettled>>
  BY <1>3, QuietStep
<1>4. UNCHANGED <<unit, unsettled>> \/ LaunchOK \/ LaunchFails \/ \E r \in Ranks : StopUnit(r)
  BY DEF CtlNext, Command, EndCommand, sharedVars, StopStep, ReadOwner, ReadOwnerFails,
     InspectAll, InspectFails, StopVerify, StopVerifyFails, StopUnitFails, StopProven,
     StopNotProven, Uncertain, CleanedUp, SaveStopped, SaveStoppedFails, ArchivePoison,
     ArchiveThenStart, ArchiveFails, StartStep, Precheck, StartRefused, SaveStarting,
     SaveStartingFails, AppendUnit, ConfirmUnit, StartFails, waitHealth, SaveReady,
     SaveReadyFails
<1> QED BY <1>1, <1>2, <1>3, <1>4

LEMMA FaultKeepsPromise ==
  ASSUME TypeOK, MarkInv, Fault \/ \E r \in Ranks : LateLaunch(r)
  PROVE  Promise!Next
<1> USE DEF TypeOK, SharedTypeOK, CoordTypeOK
<1>1. ASSUME NEW r \in Ranks,
             RankExit(r) \/ RankReplaced(r) \/ ForeignUnitStarts(r) \/ LateLaunch(r)
      PROVE  Promise!Next
  <2>1. UNCHANGED pc
    BY <1>1 DEF RankExit, RankReplaced, ForeignUnitStarts, LateLaunch, coordVars
  <2>2. ASSUME RankReplaced(r)
        PROVE  unsettled' = {s \in unsettled : unit'[s] = unit[s]}
    <3>1. unit'[r].inv = 2 /\ unit[r].inv = 1
      BY <2>2 DEF RankReplaced, Units
    <3>2. unit'[r] # unit[r]
      BY <3>1
    <3>3. \A s \in unsettled : s # r => unit'[s] = unit[s]
      BY <2>2 DEF RankReplaced
    <3>4. unsettled' = unsettled \ {r}
      BY <2>2 DEF RankReplaced
    <3> HIDE DEF SharedTypeOK
    <3> QED BY <3>2, <3>3, <3>4
  <2>3. unsettled' = {s \in unsettled : unit'[s] = unit[s]}
    BY <1>1, <2>2 DEF RankExit, ForeignUnitStarts, LateLaunch, unitActive, MarkInv, NoUnit
  <2> QED BY <2>1, <2>3, DisturbStep
<1>2. ASSUME NEW p \in Procs, Crash(p)
      PROVE  Promise!Next
  BY <1>2, QuietStep DEF Crash, Die, Goto
<1>3. CASE CtlCrash /\ UNCHANGED coordVars
  BY <1>3, QuietStep DEF CtlCrash, EndCommand, coordVars
<1>4. CASE HostCrash
  <2>1. unsettled' = {s \in unsettled : unit'[s] = unit[s]}
    BY <1>4 DEF HostCrash, MarkInv, NoUnit
  <2> QED BY <1>4, <2>1, DisturbStep DEF HostCrash
<1> QED BY <1>1, <1>2, <1>3, <1>4 DEF Fault

(* Flock, marker, poison and owner file together implement the promise:    *)
(* no request ever reaches the engines over one that is still unsettled.   *)
THEOREM PairKeepsPromise == Spec => KeepsPromise
<1>1. Init => Promise!Init
  BY DEF Init, SharedInit, CoordInit, JobOf, Promise!Init
<1>2. PairInv /\ [Next]_pairVars => [Promise!Next]_Promise!promiseVars
  <2> SUFFICES ASSUME PairInv, [Next]_pairVars
               PROVE  [Promise!Next]_Promise!promiseVars
    OBVIOUS
  <2>1. CASE CoordNext
    BY <2>1, CoordKeepsPromise DEF PairInv, TypeOK
  <2>2. CASE CtlNext /\ UNCHANGED <<coordVars, faults>>
    BY <2>2, CtlKeepsPromise DEF PairInv, TypeOK, coordVars
  <2>3. CASE Fault \/ \E r \in Ranks : LateLaunch(r)
    BY <2>3, FaultKeepsPromise DEF PairInv
  <2>4. CASE UNCHANGED pairVars
    BY <2>4 DEF pairVars, sharedVars, coordVars, Promise!promiseVars, JobOf
  <2> QED BY <2>1, <2>2, <2>3, <2>4 DEF Next
<1> QED BY <1>1, <1>2, PairInvariant, PTL DEF Spec, KeepsPromise, Promise!Spec
=============================================================================
