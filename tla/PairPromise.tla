----------------------------- MODULE PairPromise ------------------------------
(***************************************************************************)
(* What the pair promises to whoever drives it.  An inference is opened    *)
(* only while no engine holds a request of an earlier one; an engine gets  *)
(* it only while it is open; and what an engine holds goes away in two     *)
(* ways only: the inference is settled, or that engine has been replaced   *)
(* by another one.  The detail of Pair (flock, marker, poison, owner file, *)
(* crashes) implements this.                                               *)
(***************************************************************************)
CONSTANT Ranks

VARIABLES
  job,                  \* "open" while an inference may reach the engines
  held,                 \* ranks whose engine holds an unsettled request
  engine                \* which engine each rank runs

promiseVars == <<job, held, engine>>

Init == job = "none" /\ held = {}

Open ==
  /\ job = "none" /\ held = {}
  /\ job' = "open"
  /\ UNCHANGED <<held, engine>>

Deliver(r) ==
  /\ job = "open"
  /\ held' = held \cup {r}
  /\ UNCHANGED <<job, engine>>

Settle ==
  /\ job = "open"
  /\ job' = "none" /\ held' = {}
  /\ UNCHANGED engine

(* The inference is given up, engines come and go; nothing is forgotten    *)
(* but what a replaced engine held.                                        *)
Disturb ==
  /\ job' \in {job, "none"}
  /\ held' = {r \in held : engine'[r] = engine[r]}

Next == Open \/ (\E r \in Ranks : Deliver(r)) \/ Settle \/ Disturb

Spec == Init /\ [][Next]_promiseVars
=============================================================================
