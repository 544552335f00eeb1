------------------------------ MODULE Requests ------------------------------
(***************************************************************************)
(* What one request of a client sets going: a streamed answer of the       *)
(* paired backend, or applies of a verified task in the gateway.  They     *)
(* share nothing; a behaviour is about one of them.                        *)
(***************************************************************************)
EXTENDS PairedStream, FiniteSets

CONSTANTS Changed, New, MaxApplies, MaxEdits

(* A task that is applied has changed something; what is new is among it. *)
ASSUME ApplyAssumption ==
  /\ Cardinality(Changed) \in Nat \ {0}
  /\ Changed = 1 .. Cardinality(Changed)
  /\ New \subseteq Changed
  /\ MaxApplies \in Nat /\ MaxEdits \in Nat

VARIABLES about, \* "stream" or "apply"
          tree, dir, task, pc, file, done, call, saved, told, late, lost,
          applies, edits

A == INSTANCE Apply

applyVars == <<tree, dir, task, pc, file, done, call, saved, told, late, lost,
               applies, edits>>

StartRequest ==
  /\ about \in {"stream", "apply"}
  /\ Init /\ A!Init
  /\ about = "stream" => task.status = "PASS"

Streaming(step) == about = "stream" /\ step /\ UNCHANGED <<about, applyVars>>
Applying == about = "apply" /\ A!Next /\ UNCHANGED <<about, vars>>

(* The fairness of PairedStream, for a behaviour that is a stream. *)
Request ==
  /\ StartRequest /\ [][Streaming(Next) \/ Applying]_<<about, vars, applyVars>>
  /\ WF_<<about, vars, applyVars>>(Streaming(RunNext))
  /\ WF_<<about, vars, applyVars>>(Streaming(SendFrame \/ EndResponse))

(* A job whose run() has a deadline comes to its end, and so does its response,
   however the drains and the client behave (paired.go, run and ServeHTTP). *)
StreamEnds == about = "stream" => JobEnds

(* All files of an apply or none, or its receipt says so; no earlier write of the
   user is lost (apply.go).  Defined in Apply. *)
ApplyIsHonest == A!ApplyIsHonest
=============================================================================
