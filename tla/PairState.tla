------------------------------ MODULE PairState ------------------------------
(***************************************************************************)
(* The state the paired coordinator (paired.go) and the cluster controller *)
(* (controller.go) share: files below StateDir, the flock on pair.lock,    *)
(* the systemd units of the two tensor-parallel ranks and what their       *)
(* engines still hold.                                                     *)
(***************************************************************************)
EXTENDS Naturals

CONSTANT Procs          \* serve-pair processes that may exist at one time

VARIABLES
  marker,               \* pair-poison.json as a process sees it
  durable,              \* the same directory entry as a power loss leaves it
  lock,                 \* holder of the flock on StateDir/pair.lock
  unit,                 \* the systemd unit strixglm-rank<r> of each rank
  unsettled             \* ranks whose engine accepted a request that no
                        \* agreement of both ranks has settled

sharedVars == <<marker, durable, lock, unit, unsettled>>

Ranks == {0, 1}
Free == "free"
Ctl == "ctl"
Holders == Procs \cup {Free, Ctl}

ASSUME ProcsAssumption == Free \notin Procs /\ Ctl \notin Procs

Markers == {"absent", "present"}

(***************************************************************************)
(* A unit is inactive, ours (it carries CIRU_OWNER_NONCE) or foreign.  inv *)
(* is 1 for the invocation our launch made and 2 for a later one.          *)
(***************************************************************************)
Units == [who: {"none", "owned", "foreign"}, nonce: Nat, inv: 0..2]
NoUnit == [who |-> "none", nonce |-> 0, inv |-> 0]
ForeignUnit == [who |-> "foreign", nonce |-> 0, inv |-> 1]
OwnedUnit(n, i) == [who |-> "owned", nonce |-> n, inv |-> i]

unitActive(r) == unit[r].who # "none"

(***************************************************************************)
(* controllerWrite of pair-poison.json: temp file, rename, directory sync. *)
(* The writer ignores its error, so the entry may stay as it was, or be    *)
(* there but not yet durable.                                              *)
(***************************************************************************)
WritePoison ==
  \/ marker' = "present" /\ durable' \in {durable, "present"}
  \/ UNCHANGED <<marker, durable>>

(* The flock, the units and the engines of a pair that was never started. *)
SharedInit ==
  /\ marker = "absent" /\ durable = "absent"
  /\ lock = Free
  /\ unit = [r \in Ranks |-> NoUnit]
  /\ unsettled = {}

SharedTypeOK ==
  /\ marker \in Markers /\ durable \in Markers
  /\ lock \in Holders
  /\ unit \in [Ranks -> Units]
  /\ unsettled \in SUBSET Ranks
=============================================================================
