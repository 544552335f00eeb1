------------------------------ MODULE PiSession ------------------------------
(***************************************************************************)
(* One protected local Pi workspace session: workspaces.go (start, scanPi, *)
(* prompt, abort, close), workspace_shell.go, workspace_protection.go.     *)
(* HTTP operations serialise on opMu and talk to the Pi process over its   *)
(* pipes; the goroutine scanPi both delivers the answers they wait for and *)
(* reacts to the end of a turn; a verification runs in a goroutine of its  *)
(* own, which takes opMu only after beginVerification gave it back.        *)
(***************************************************************************)
EXTENDS Naturals, Sequences

CONSTANTS
  MaxTree,              \* bound: versions of the working tree
  MaxRequests           \* bound: operations clients ask for

ASSUME BoundsAssumption ==
  MaxTree \in Nat \ {0} /\ MaxRequests \in Nat

VARIABLES
  State, lastCompletion, verification, closedCleanly,  \* under s.mu
  op,                   \* what the operation that holds opMu waits for
  applying,             \* the verification applyProtection read
  reply,                \* answer scanPi put in the channel of the live rpc
  scan,                 \* where the goroutine scanPi is
  v,                    \* the goroutine runProtectionVerification
  proc,                 \* the Pi process and its Wait goroutine
  agent,                \* the last turn of Pi
  inbox, out,           \* the two pipes
  tree, orig,           \* versions of the working tree and of the original
  activePi,             \* who has the one Pi reservation
  deleted, dir,         \* session deleted; its directory exists
  requests

session == <<State, lastCompletion, verification, closedCleanly>>
calls == <<op, applying, reply>>
process == <<proc, agent, inbox, out>>
files == <<tree, orig, deleted, dir>>
vars == <<session, calls, scan, v, process, activePi, files, requests>>

States == {"CONNECTED", "STARTING", "READY", "RUNNING", "ABORTING", "SHELL",
           "VERIFYING", "FAILED", "CLOSED"}
Trees == 1..MaxTree
Snapshot == 1
NoTree == 0
Unset == "unset"        \* Go's empty string
Completions == {Unset, "RUNNING", "NATURAL", "ERROR", "ABORTED"}
Statuses == {"UNVERIFIED", "VERIFYING", "INCOMPLETE", "FAIL", "TEST_PASS"}
Verifications == [status: Statuses, cand: {NoTree} \cup Trees, applied: BOOLEAN]
Verdict(status, cand) == [status |-> status, cand |-> cand, applied |-> FALSE]

(* Operations by the answer they wait for. *)
Rpcs == {"start", "prompt", "clear", "abort", "closeClear", "closeAbort",
         "bash", "abortBash"}
Ops == Rpcs \cup {"idle", "prepare", "closeStop", "closeMark", "closeWait",
                  "apply"}

Quiet == [at |-> "read", c |-> Unset]
NoRun == [at |-> "none", comp |-> Unset, cand |-> NoTree, status |-> "UNVERIFIED"]

Init ==
  /\ State = "CONNECTED" /\ lastCompletion = Unset
  /\ verification = Verdict("UNVERIFIED", NoTree) /\ closedCleanly = FALSE
  /\ op = "idle" /\ applying = verification /\ reply = "none"
  /\ scan = Quiet /\ v = NoRun
  /\ proc = "none" /\ agent = "none" /\ inbox = <<>> /\ out = <<>>
  /\ activePi = "free"
  /\ tree = Snapshot /\ orig = Snapshot /\ deleted = FALSE /\ dir = TRUE
  /\ requests = 0

(* Nobody holds opMu. *)
opMuFree == op = "idle" /\ v.at \notin {"running", "checked"}

(* rpc(): an answer to a call that was given up is nobody's any more. *)
Forget(pipe) == [i \in DOMAIN pipe |-> [pipe[i] EXCEPT !.live = FALSE]]

rpc(cmd, waiting) ==
  /\ inbox' = IF proc = "alive" THEN Append(inbox, [k |-> cmd, live |-> TRUE])
              ELSE inbox
  /\ op' = waiting /\ reply' = "none"
  /\ UNCHANGED <<applying, proc, agent, out>>

Answered == reply = "ok"
Unanswerable == reply = "refused" \/ proc \in {"none", "reaped"}

(* The call ends without an answer to use: refused, Pi gone, or given up. *)
GiveUp ==
  /\ reply' = "none"
  /\ inbox' = Forget(inbox) /\ out' = Forget(out)
  /\ UNCHANGED <<applying, proc, agent>>

Return == op' = "idle"

-----------------------------------------------------------------------------
(* start()                                                                 *)

Start ==
  /\ opMuFree /\ State = "CONNECTED" /\ ~deleted
  /\ activePi \in {"free", "self"}
  /\ scan = Quiet /\ out = <<>>         \* an earlier process is read to its end
  /\ \/ /\ activePi' = "self"           \* launched
        /\ State' = "STARTING"
        /\ proc' = "alive" /\ agent' = "none"
        /\ inbox' = <<[k |-> "start", live |-> TRUE]>>
        /\ op' = "start"
     \/ /\ activePi' = "free"
        /\ UNCHANGED <<State, proc, agent, inbox, op>>
  /\ UNCHANGED <<lastCompletion, verification, closedCleanly, applying, reply>>
  /\ UNCHANGED <<scan, v, out, files>>

StartOK ==
  /\ op = "start" /\ Answered
  /\ State' = "READY"
  /\ Return /\ GiveUp
  /\ UNCHANGED <<lastCompletion, verification, closedCleanly, scan, v, activePi>>
  /\ UNCHANGED files

(* An rpc failed, or then verifyScope did, which is FAILED at once. *)
StartFails ==
  /\ op = "start"
  /\ State' \in IF Answered THEN {"FAILED"} ELSE {State}
  /\ Return /\ GiveUp
  /\ UNCHANGED <<lastCompletion, verification, closedCleanly, scan, v, activePi>>
  /\ UNCHANGED files

-----------------------------------------------------------------------------
(* prompt()                                                                *)

Prompt ==
  /\ opMuFree /\ State = "READY"
  /\ State' = "RUNNING" /\ lastCompletion' = "RUNNING"
  /\ verification' = Verdict("UNVERIFIED", NoTree)
  /\ op' = "prepare"
  /\ UNCHANGED <<closedCleanly, applying, reply, scan, v, process, activePi, files>>

PrepareFails ==
  /\ op = "prepare"
  /\ State' = "READY"
  /\ Return
  /\ UNCHANGED <<lastCompletion, verification, closedCleanly, applying, reply>>
  /\ UNCHANGED <<scan, v, process, activePi, files>>

SendPrompt ==
  /\ op = "prepare" /\ rpc("prompt", "prompt")
  /\ UNCHANGED <<session, scan, v, activePi, files>>

PromptOK ==
  /\ op = "prompt" /\ Answered
  /\ Return /\ GiveUp
  /\ UNCHANGED <<session, scan, v, activePi, files>>

(* Fault: the rpc waits without the ten second context. *)
PromptWaits ==
  /\ op = "prompt" /\ Unanswerable
  /\ State' = "FAILED"
  /\ Return /\ GiveUp
  /\ UNCHANGED <<lastCompletion, verification, closedCleanly, scan, v, activePi>>
  /\ UNCHANGED files

(* Also at the deadline of ten seconds: whether Pi took it is uncertain. *)
PromptFails ==
  /\ op = "prompt"
  /\ State' = "FAILED"
  /\ Return /\ GiveUp
  /\ UNCHANGED <<lastCompletion, verification, closedCleanly, scan, v, activePi>>
  /\ UNCHANGED files

-----------------------------------------------------------------------------
(* abort(), and abortLocked() at the start of close()                      *)

Turning == State \in {"RUNNING", "ABORTING"}

NoteAbort ==
  IF Turning
  THEN lastCompletion' = "ABORTED" /\ verification' = Verdict("INCOMPLETE", NoTree)
  ELSE UNCHANGED <<lastCompletion, verification>>

Abort ==
  /\ opMuFree /\ State \notin {"CONNECTED", "CLOSED"}
  /\ NoteAbort
  /\ rpc("clear", "clear")
  /\ UNCHANGED <<State, closedCleanly, scan, v, activePi, files>>

Cleared ==
  /\ op \in {"clear", "closeClear"} /\ Answered
  /\ State' = "ABORTING"
  /\ rpc("abort", IF op = "clear" THEN "abort" ELSE "closeAbort")
  /\ UNCHANGED <<lastCompletion, verification, closedCleanly, scan, v, activePi>>
  /\ UNCHANGED files

Aborted ==
  /\ op \in {"abort", "closeAbort"} /\ Answered
  /\ State' = "READY"
  /\ op' = IF op = "abort" THEN "idle" ELSE "closeStop"
  /\ GiveUp
  /\ UNCHANGED <<lastCompletion, verification, closedCleanly, scan, v, activePi>>
  /\ UNCHANGED files

AbortFails ==
  /\ op \in {"clear", "abort", "closeClear", "closeAbort"}
  /\ Return /\ GiveUp
  /\ UNCHANGED <<session, scan, v, activePi, files>>

-----------------------------------------------------------------------------
(* close(): drain, stop the scope, CLOSED, wait for the process, release.  *)

Close ==
  /\ opMuFree /\ ~deleted
  /\ IF Turning
     THEN NoteAbort /\ rpc("clear", "closeClear")
     ELSE /\ op' = "closeStop"
          /\ UNCHANGED <<lastCompletion, verification, applying, reply, process>>
  /\ UNCHANGED <<State, closedCleanly, scan, v, activePi, files>>

(* The process dies with the scope, unless it has not entered it yet. *)
StopOwnedScope ==
  /\ op = "closeStop"
  /\ op' = "closeMark"
  /\ proc' \in IF proc = "alive" THEN {"alive", "exited"} ELSE {proc}
  /\ UNCHANGED <<session, applying, reply, scan, v, agent, inbox, out, activePi>>
  /\ UNCHANGED files

(* Fault: the reservation goes when the scope was told to stop. *)
CloseReleases ==
  /\ op = "closeMark"
  /\ State' = "CLOSED" /\ op' = "closeWait"
  /\ activePi' = IF activePi = "self" THEN "free" ELSE activePi
  /\ UNCHANGED <<lastCompletion, verification, closedCleanly, applying, reply>>
  /\ UNCHANGED <<scan, v, process, files>>

MarkClosed ==
  /\ op = "closeMark"
  /\ State' = "CLOSED" /\ op' = "closeWait"
  /\ UNCHANGED <<lastCompletion, verification, closedCleanly, applying, reply>>
  /\ UNCHANGED <<scan, v, process, activePi, files>>

CloseDone ==
  /\ op = "closeWait" /\ proc \in {"none", "reaped"}
  /\ closedCleanly' = TRUE
  /\ activePi' = IF activePi = "self" THEN "free" ELSE activePi
  /\ Return
  /\ UNCHANGED <<State, lastCompletion, verification, applying, reply, scan, v>>
  /\ UNCHANGED <<process, files>>

(* The bridge or the scope does not stop, or the caller does not wait. *)
CloseFails ==
  /\ op \in {"closeStop", "closeWait"}
  /\ Return
  /\ UNCHANGED <<session, applying, reply, scan, v, process, activePi, files>>

-----------------------------------------------------------------------------
(* shell()                                                                 *)

Shell ==
  /\ opMuFree /\ State = "READY"
  /\ verification' = Verdict("UNVERIFIED", NoTree)
  /\ State' = "SHELL"
  /\ rpc("bash", "bash")
  /\ UNCHANGED <<lastCompletion, closedCleanly, scan, v, activePi, files>>

ShellDone ==
  /\ op \in {"bash", "abortBash"} /\ Answered
  /\ State' = "READY"
  /\ Return /\ GiveUp
  /\ UNCHANGED <<lastCompletion, verification, closedCleanly, scan, v, activePi>>
  /\ UNCHANGED files

(* An error or sixty seconds: give the command up, and cancel it. *)
CancelShell ==
  /\ op = "bash" /\ op' = "abortBash" /\ reply' = "none"
  /\ inbox' = IF proc = "alive"
              THEN Append(Forget(inbox), [k |-> "abortBash", live |-> TRUE])
              ELSE inbox
  /\ out' = Forget(out)
  /\ UNCHANGED <<session, applying, scan, v, proc, agent, activePi, files>>

ShellFails ==
  /\ op = "abortBash"
  /\ State' = "FAILED"
  /\ Return /\ GiveUp
  /\ UNCHANGED <<lastCompletion, verification, closedCleanly, scan, v, activePi>>
  /\ UNCHANGED files

-----------------------------------------------------------------------------
(* scanPi: one line of Pi's output after the other.                        *)

Line(kind) == scan.at = "read" /\ out # <<>> /\ Head(out).k = kind

ScanResponse ==
  /\ Line("response")
  /\ reply' = IF Head(out).live THEN Head(out).v ELSE reply
  /\ out' = Tail(out)
  /\ UNCHANGED <<session, op, applying, scan, v, proc, agent, inbox, activePi>>
  /\ UNCHANGED files

ScanAgentStart ==
  /\ Line("agent_start")
  /\ State' = "RUNNING"
  /\ out' = Tail(out)
  /\ UNCHANGED <<lastCompletion, verification, closedCleanly, calls, scan, v>>
  /\ UNCHANGED <<proc, agent, inbox, activePi, files>>

ScanAgentEnd ==
  /\ Line("agent_end")
  /\ State' = IF State = "CLOSED" THEN State ELSE "VERIFYING"
  /\ scan' = [at |-> "ended", c |-> Head(out).v]
  /\ out' = Tail(out)
  /\ UNCHANGED <<lastCompletion, verification, closedCleanly, calls, v>>
  /\ UNCHANGED <<proc, agent, inbox, activePi, files>>

(* onProtectionAgentEnd: an aborted turn is not completed, whatever it says. *)
NoteCompletion ==
  /\ scan.at = "ended"
  /\ lastCompletion' = IF lastCompletion = "ABORTED" THEN "ABORTED" ELSE scan.c
  /\ scan' = [at |-> IF lastCompletion' = "NATURAL" THEN "begin" ELSE "incomplete",
              c |-> Unset]
  /\ UNCHANGED <<State, verification, closedCleanly, calls, v, process, activePi>>
  /\ UNCHANGED files

Incomplete ==
  /\ scan.at = "incomplete"
  /\ verification' = Verdict("INCOMPLETE", NoTree)
  /\ State' = IF State = "CLOSED" THEN State ELSE "READY"
  /\ scan' = Quiet
  /\ UNCHANGED <<lastCompletion, closedCleanly, calls, v, process, activePi>>
  /\ UNCHANGED files

(* beginVerification, once it has opMu. *)
Begin ==
  /\ v' = [NoRun EXCEPT !.at = "waiting", !.comp = lastCompletion]
  /\ State' = "VERIFYING"
  /\ verification' = Verdict("VERIFYING", NoTree)

BeginAtEnd ==
  /\ scan.at = "begin" /\ opMuFree
  /\ IF State \in {"READY", "CONNECTED", "VERIFYING"} /\ v.at = "none"
     THEN Begin /\ scan' = Quiet
     ELSE scan' = [scan EXCEPT !.at = "refused"] /\ UNCHANGED <<v, State, verification>>
  /\ UNCHANGED <<lastCompletion, closedCleanly, calls, process, activePi, files>>

BeginRefused ==
  /\ scan.at = "refused"
  /\ verification' = Verdict("UNVERIFIED", NoTree)
  /\ State' = IF State = "VERIFYING" THEN "READY" ELSE State
  /\ scan' = Quiet
  /\ UNCHANGED <<lastCompletion, closedCleanly, calls, v, process, activePi>>
  /\ UNCHANGED files

-----------------------------------------------------------------------------
(* Verify, and runProtectionVerification                                   *)

Verify ==
  /\ opMuFree /\ State \in {"READY", "CONNECTED"} /\ v.at = "none" /\ ~deleted
  /\ Begin
  /\ UNCHANGED <<lastCompletion, closedCleanly, calls, scan, process, activePi>>
  /\ UNCHANGED files

(* opMu is taken and the candidate read; without its root there is none. *)
ReadCandidate ==
  /\ v.at = "waiting" /\ op = "idle"
  /\ v' = IF deleted THEN [v EXCEPT !.at = "checked"]
          ELSE [v EXCEPT !.at = "running", !.cand = tree]
  /\ UNCHANGED <<session, calls, scan, process, activePi, files>>

(* The sandboxed commands, then a second look at the working tree. *)
RunChecks ==
  /\ v.at = "running"
  /\ \E result \in {"FAIL", "TEST_PASS"} :
       v' = [v EXCEPT !.at = "checked",
               !.status = IF tree # v.cand THEN "UNVERIFIED"
                          ELSE IF v.comp \notin {Unset, "NATURAL"} THEN "INCOMPLETE"
                          ELSE result]
  /\ UNCHANGED <<session, calls, scan, process, activePi, files>>

(* The receipt is written below the session's directory, which makes it. *)
StoreResult ==
  /\ v.at = "checked"
  /\ verification' = Verdict(v.status, v.cand)
  /\ State' = IF State # "VERIFYING" THEN State
              ELSE IF proc \in {"alive", "exited"} THEN "READY" ELSE "CONNECTED"
  /\ dir' = TRUE
  /\ v' = NoRun
  /\ UNCHANGED <<lastCompletion, closedCleanly, calls, scan, process, activePi>>
  /\ UNCHANGED <<tree, orig, deleted>>

Unverify == verification' = [verification EXCEPT !.status = "UNVERIFIED"]

(* protectionReview: what it shows of a changed candidate is unverified. *)
Review ==
  /\ opMuFree /\ State \notin {"RUNNING", "SHELL", "VERIFYING"} /\ ~deleted
  /\ verification.cand \notin {NoTree, tree} /\ ~verification.applied
  /\ Unverify
  /\ UNCHANGED <<State, lastCompletion, closedCleanly, calls, scan, v, process>>
  /\ UNCHANGED <<activePi, files>>

-----------------------------------------------------------------------------
(* applyProtection                                                         *)

MayApply ==
  /\ opMuFree /\ State \in {"READY", "CONNECTED"}
  /\ verification.status = "TEST_PASS" /\ ~verification.applied

(* Fault: the original is not compared with the snapshot. *)
ApplyOverChanged ==
  /\ MayApply
  /\ verification.cand = tree
  /\ op' = "apply" /\ applying' = verification
  /\ UNCHANGED <<session, reply, scan, v, process, activePi, files>>

(* Candidate and original are still what was verified and snapshotted. *)
Apply ==
  /\ MayApply
  /\ verification.cand = tree /\ orig = Snapshot
  /\ op' = "apply" /\ applying' = verification
  /\ UNCHANGED <<session, reply, scan, v, process, activePi, files>>

ApplyStale ==
  /\ MayApply /\ verification.cand # tree
  /\ Unverify
  /\ UNCHANGED <<State, lastCompletion, closedCleanly, calls, scan, v, process>>
  /\ UNCHANGED <<activePi, files>>

Applied ==
  /\ op = "apply"
  /\ orig' = applying.cand
  /\ verification' = [applying EXCEPT !.applied = TRUE]
  /\ Return /\ applying' = Verdict("UNVERIFIED", NoTree)
  /\ UNCHANGED <<State, lastCompletion, closedCleanly, reply, scan, v, process>>
  /\ UNCHANGED <<activePi, tree, deleted, dir>>

(* applyTask refused, or rolled back. *)
ApplyFails ==
  /\ op = "apply"
  /\ Return /\ applying' = Verdict("UNVERIFIED", NoTree)
  /\ UNCHANGED <<session, reply, scan, v, process, activePi, files>>

-----------------------------------------------------------------------------
(* Pi (external): it takes its commands in order.                          *)

Response(value) == [k |-> "response", v |-> value, live |-> Head(inbox).live]
Event(kind, value) == [k |-> kind, v |-> value, live |-> FALSE]

PiTakes(cmd) == proc = "alive" /\ inbox # <<>> /\ Head(inbox).k = cmd
PiWrites(lines) ==
  /\ inbox' = Tail(inbox) /\ out' = out \o lines
  /\ UNCHANGED <<session, calls, scan, v, proc, activePi, orig, deleted, dir>>

PiAnswers ==
  \/ /\ \E cmd \in {"start", "clear", "abortBash"} : PiTakes(cmd)
     /\ PiWrites(<<Response("ok")>>)
     /\ UNCHANGED <<agent, tree>>
  \/ /\ PiTakes("prompt")
     /\ IF agent = "running"
        THEN PiWrites(<<Response("refused")>>) /\ UNCHANGED agent
        ELSE PiWrites(<<Response("ok"), Event("agent_start", Unset)>>) /\ agent' = "running"
     /\ UNCHANGED tree
  \/ /\ PiTakes("bash")
     /\ PiWrites(<<Response("ok")>>)
     /\ tree' \in {tree} \cup ({tree + 1} \cap Trees)
     /\ UNCHANGED agent
  \/ /\ PiTakes("abort")               \* the turn ends before the answer
     /\ IF agent = "running"
        THEN PiWrites(<<Event("agent_end", "ABORTED"), Response("ok")>>) /\ agent' = "ABORTED"
        ELSE PiWrites(<<Response("ok")>>) /\ UNCHANGED agent
     /\ UNCHANGED tree

PiEdits ==
  /\ proc = "alive" /\ agent = "running" /\ tree + 1 \in Trees
  /\ tree' = tree + 1
  /\ UNCHANGED <<session, calls, scan, v, process, activePi, orig, deleted, dir>>

PiEndsTurn ==
  /\ proc = "alive" /\ agent = "running"
  /\ \E c \in {"NATURAL", "ERROR"} :
       agent' = c /\ out' = Append(out, Event("agent_end", c))
  /\ UNCHANGED <<session, calls, scan, v, proc, inbox, activePi, files>>

ProcessExits ==
  /\ proc = "alive" /\ proc' = "exited"
  /\ inbox' = <<>>
  /\ agent' = IF agent = "running" THEN "ERROR" ELSE agent
  /\ UNCHANGED <<session, calls, scan, v, out, activePi, files>>

(* The Wait goroutine; cmd.Wait closes the pipe, what was not read is lost. *)
Wait ==
  /\ proc = "exited" /\ proc' = "reaped"
  /\ State' = IF State = "CLOSED" THEN State ELSE "FAILED"
  /\ inbox' = <<>>
  /\ \E n \in 0..Len(out) : out' = SubSeq(out, 1, n)
  /\ UNCHANGED <<lastCompletion, verification, closedCleanly, calls, scan, v, agent>>
  /\ UNCHANGED <<activePi, files>>

-----------------------------------------------------------------------------
(* Other sessions, deletion of the conversation, restart of the gateway    *)

OtherStarts ==
  /\ activePi = "free"
  /\ activePi' = "other"
  /\ UNCHANGED <<session, calls, scan, v, process, files>>

OtherCloses ==
  /\ activePi = "other"
  /\ activePi' = "free"
  /\ UNCHANGED <<session, calls, scan, v, process, files>>

DeleteConversation ==
  /\ State = "CLOSED" /\ closedCleanly /\ ~deleted
  /\ deleted' = TRUE /\ dir' = FALSE
  /\ UNCHANGED <<session, calls, scan, v, process, activePi, tree, orig>>

(* No process is adopted: the session is only a record from here on. *)
GatewayRestarts ==
  /\ ~deleted
  /\ State' = "CLOSED" /\ lastCompletion' = Unset
  /\ op' = "idle" /\ applying' = Verdict("UNVERIFIED", NoTree) /\ reply' = "none"
  /\ scan' = Quiet /\ v' = NoRun
  /\ proc' = "none" /\ inbox' = <<>> /\ out' = <<>>
  /\ agent' = IF agent = "running" THEN "ERROR" ELSE agent
  /\ activePi' = "free"
  /\ UNCHANGED <<verification, closedCleanly, files>>

-----------------------------------------------------------------------------
StartStep == StartOK \/ StartFails
PromptStep == PrepareFails \/ SendPrompt \/ PromptOK \/ PromptFails
AbortStep == Cleared \/ Aborted \/ (Unanswerable /\ AbortFails)
CloseStep == StopOwnedScope \/ MarkClosed \/ CloseDone
ShellStep == ShellDone \/ CancelShell \/ ShellFails
ScanStep ==
  \/ ScanResponse \/ ScanAgentStart \/ ScanAgentEnd \/ NoteCompletion
  \/ Incomplete \/ BeginAtEnd \/ BeginRefused
VerifyStep == ReadCandidate \/ RunChecks \/ StoreResult
ApplyStep == Applied \/ ApplyFails

Request ==
  \/ Start \/ Prompt \/ Abort \/ Close \/ Shell \/ Verify \/ Review
  \/ Apply \/ ApplyStale \/ DeleteConversation

Internal ==
  \/ StartStep \/ PromptStep \/ AbortStep \/ AbortFails
  \/ CloseStep \/ CloseFails \/ ShellStep \/ ScanStep \/ VerifyStep \/ ApplyStep
  \/ PiAnswers \/ PiEdits \/ PiEndsTurn \/ ProcessExits \/ Wait
  \/ OtherStarts \/ OtherCloses \/ GatewayRestarts

Next ==
  \/ requests < MaxRequests /\ requests' = requests + 1 /\ Request
  \/ Internal /\ UNCHANGED requests

Spec == Init /\ [][Next]_vars

(* Goroutines that can run do run; the contexts of start, prompt and shell *)
(* have deadlines, those of abort and close only end with their caller.    *)
(* Pi answers.                                                             *)
FairSpec ==
  /\ Spec
  /\ WF_vars(StartStep /\ UNCHANGED requests)
  /\ WF_vars(PromptStep /\ UNCHANGED requests)
  /\ WF_vars(ShellStep /\ UNCHANGED requests)
  /\ WF_vars(AbortStep /\ UNCHANGED requests)
  /\ WF_vars(CloseStep /\ UNCHANGED requests)
  /\ WF_vars(ApplyStep /\ UNCHANGED requests)
  /\ WF_vars(ScanStep /\ UNCHANGED requests)
  /\ WF_vars(VerifyStep /\ UNCHANGED requests)
  /\ WF_vars(PiAnswers /\ UNCHANGED requests)
  /\ WF_vars(Wait /\ UNCHANGED requests)

-----------------------------------------------------------------------------
TypeOK ==
  /\ State \in States /\ lastCompletion \in Completions
  /\ verification \in Verifications /\ applying \in Verifications
  /\ closedCleanly \in BOOLEAN /\ op \in Ops
  /\ reply \in {"none", "ok", "refused"}
  /\ scan.at \in {"read", "ended", "incomplete", "begin", "refused"}
  /\ v.at \in {"none", "waiting", "running", "checked"} /\ v.comp \in Completions
  /\ proc \in {"none", "alive", "exited", "reaped"}
  /\ agent \in {"none", "running", "NATURAL", "ERROR", "ABORTED"}
  /\ tree \in Trees /\ orig \in Trees /\ dir \in BOOLEAN /\ deleted \in BOOLEAN
  /\ activePi \in {"free", "self", "other"}

(* "The product allows at most one active Pi scope": the reservation       *)
(* outlives an exited launcher, and goes only once close() has seen the    *)
(* process end (reservePi, releasePi, close).                              *)
OneScope == ~(proc = "alive" /\ activePi = "other")

(* A session writes over the original project once at most, from what was  *)
(* snapshotted to a tree that passed the checks: a later turn, verified    *)
(* against the same snapshot, is refused (applyProtection compares the     *)
(* original with protectedOriginal, which Apply does not renew).           *)
OriginalWrittenOnce ==
  [][orig' # orig =>
       /\ orig = Snapshot
       /\ verification' = [Verdict("TEST_PASS", orig') EXCEPT !.applied = TRUE]]_vars

(* "Checks do not convert an incomplete agent turn into a completed        *)
(* solution": Apply does not accept edits when the last turn ended by an    *)
(* error or an abort, and scanPi has noted so (applyProtection looks at    *)
(* the status only, not at lastCompletion).                                *)
AppliedTurnCompleted ==
  [][op # "apply" /\ op' = "apply" /\ scan = Quiet
     /\ lastCompletion = agent /\ tree # orig =>
       agent \notin {"ERROR", "ABORTED"}]_vars

(* Deletion removes the owned records of a cleanly closed session, and     *)
(* nothing writes them again.                                              *)
DeletedIsGone == deleted => ~dir

(* A session whose Pi is gone, with all it wrote read, is not in a turn:   *)
(* close() drains a turn first, which needs a Pi, and only close() gives   *)
(* the reservation back ("close the existing session before starting       *)
(* another", reservePi).                                                   *)
ExitedIsNotTurning ==
  proc = "reaped" /\ out = <<>> /\ op = "idle" => ~Turning

(* Operations with a deadline of their own give opMu back, even when Pi's  *)
(* answer waits behind a turn whose end waits for opMu (prompt, scanPi).   *)
DeadlinedOpsEnd ==
  op \in {"start", "prepare", "prompt", "bash", "abortBash"} ~> op = "idle"

(* "Abort clears Pi's pending queue and asks Pi to become idle": a Pi that *)
(* answers every command lets abort come to an end.                        *)
AbortEnds == op = "clear" ~> op = "idle"
=============================================================================
