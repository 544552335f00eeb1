--------------------------- MODULE PiSessionProofs ---------------------------
(***************************************************************************)
(* Proofs about PiSession, for any number of tree versions and requests:   *)
(* type correctness, one active Pi, and one write over the original.       *)
(***************************************************************************)
EXTENDS PiSession, TLAPS

(* What may be in the two pipes. *)
Commands == [k : {"start", "prompt", "clear", "abort", "bash", "abortBash"},
             live : BOOLEAN]
Responses == [k : {"response"}, v : {"ok", "refused"}, live : BOOLEAN]
Ends == {"NATURAL", "ERROR", "ABORTED"}
Lines ==
  Responses \cup [k : {"agent_start"}, v : {Unset}, live : {FALSE}]
            \cup [k : {"agent_end"}, v : Ends, live : {FALSE}]

PipesOK == inbox \in Seq(Commands) /\ out \in Seq(Lines)

(* The two goroutines: what they carry from one step to the next. *)
GoroutinesOK ==
  /\ scan \in [at : {"read", "ended", "incomplete", "begin", "refused"},
               c : {Unset} \cup Ends]
  /\ scan.at = "ended" => scan.c \in Ends
  /\ v \in [at : {"none", "waiting", "running", "checked"}, comp : Completions,
            cand : {NoTree} \cup Trees, status : Statuses]

(* A launched Pi is reserved, and is not launched twice. *)
ReservedOK ==
  proc \in {"alive", "exited"} => activePi = "self" /\ State # "CONNECTED"

(* What apply holds from its check to its write. *)
ApplyOK ==
  op = "apply" => /\ applying.status = "TEST_PASS" /\ ~applying.applied
                  /\ applying.cand \in Trees /\ orig = Snapshot

PiInv == TypeOK /\ PipesOK /\ GoroutinesOK /\ ReservedOK /\ ApplyOK

-----------------------------------------------------------------------------
(* The pipes                                                               *)

LEMMA ForgetCommands ==
  ASSUME NEW p \in Seq(Commands) PROVE Forget(p) \in Seq(Commands)
<1>1. \A i \in 1..Len(p) : [p[i] EXCEPT !.live = FALSE] \in Commands
  <2> TAKE i \in 1..Len(p)
  <2>1. p[i] \in Commands
    OBVIOUS
  <2> QED BY <2>1 DEF Commands
<1>2. Forget(p) = [i \in 1..Len(p) |-> [p[i] EXCEPT !.live = FALSE]]
  BY DEF Forget
<1>3. Len(p) \in Nat
  OBVIOUS
<1> QED BY <1>1, <1>2, <1>3

LEMMA ForgetLines ==
  ASSUME NEW p \in Seq(Lines) PROVE Forget(p) \in Seq(Lines)
<1>1. \A i \in 1..Len(p) : [p[i] EXCEPT !.live = FALSE] \in Lines
  <2> TAKE i \in 1..Len(p)
  <2>1. p[i] \in Lines
    OBVIOUS
  <2> QED BY <2>1 DEF Lines, Responses, Ends, Unset
<1>2. Forget(p) = [i \in 1..Len(p) |-> [p[i] EXCEPT !.live = FALSE]]
  BY DEF Forget
<1>3. Len(p) \in Nat
  OBVIOUS
<1> QED BY <1>1, <1>2, <1>3

(* Giving a call up keeps the pipes' types. *)
LEMMA GiveUpType ==
  ASSUME PipesOK, GiveUp PROVE PipesOK'
BY ForgetCommands, ForgetLines DEF PipesOK, GiveUp

LEMMA RpcType ==
  ASSUME PipesOK, NEW cmd \in {"prompt", "clear", "abort", "bash"}, NEW w, rpc(cmd, w)
  PROVE  PipesOK'
<1>1. [k |-> cmd, live |-> TRUE] \in Commands
  BY DEF Commands
<1> QED BY <1>1 DEF PipesOK, rpc

(* The line scanPi reads is of the kind it says. *)
LEMMA LineType ==
  ASSUME PipesOK, NEW kind, Line(kind)
  PROVE  /\ Head(out) \in Lines /\ Tail(out) \in Seq(Lines)
         /\ kind = "response" => Head(out).v \in {"ok", "refused"}
         /\ kind = "agent_end" => Head(out).v \in Ends
<1>1. Head(out) \in Lines /\ Tail(out) \in Seq(Lines)
  BY DEF PipesOK, Line
<1> QED BY <1>1 DEF Line, Lines, Responses

-----------------------------------------------------------------------------
(* Every action keeps the invariant                                        *)

Runs == [at : {"none", "waiting", "running", "checked"}, comp : Completions,
         cand : {NoTree} \cup Trees, status : Statuses]

LEMMA VerdictType ==
  ASSUME NEW s \in Statuses, NEW c \in {NoTree} \cup Trees
  PROVE  Verdict(s, c) \in Verifications
BY DEF Verdict, Verifications

LEMMA NoteAbortType ==
  ASSUME TypeOK, NoteAbort
  PROVE  verification' \in Verifications /\ lastCompletion' \in Completions
<1>1. "INCOMPLETE" \in Statuses /\ NoTree \in {NoTree} \cup Trees
  BY DEF Statuses
<1>2. CASE Turning
  BY <1>1, <1>2, VerdictType DEF NoteAbort, Completions
<1>3. CASE ~Turning
  BY <1>3 DEF NoteAbort, TypeOK
<1> QED BY <1>2, <1>3

LEMMA BeginType ==
  ASSUME TypeOK, Begin
  PROVE  v' \in Runs /\ verification' \in Verifications
<1>1. NoRun \in Runs
  BY DEF NoRun, Runs, Statuses, Completions
<1>2. v' \in Runs
  BY <1>1 DEF Begin, TypeOK, Runs
<1> QED BY <1>2, VerdictType DEF Begin, Statuses

LEMMA StartKeeps ==
  ASSUME PiInv, Start \/ StartStep
  PROVE  PiInv'
<1> USE DEF PiInv, TypeOK, States, Completions, Unset, Ops, Rpcs,
            GoroutinesOK, ReservedOK, ApplyOK
<1>1. CASE Start
  <2>1. [k |-> "start", live |-> TRUE] \in Commands
    BY DEF Commands
  <2>2. <<[k |-> "start", live |-> TRUE]>> \in Seq(Commands)
    BY <2>1
  <2>3. inbox' \in Seq(Commands) /\ out' = out
    BY <1>1, <2>2 DEF Start, PipesOK
  <2> QED BY <1>1, <2>3 DEF Start, PipesOK, files
<1>2. CASE StartOK
  BY <1>2, GiveUpType DEF StartOK, GiveUp, Return, files
<1>3. CASE StartFails
  BY <1>3, GiveUpType DEF StartFails, GiveUp, Return, files
<1> QED BY <1>1, <1>2, <1>3 DEF StartStep

LEMMA PromptKeeps ==
  ASSUME PiInv, Prompt \/ PromptStep
  PROVE  PiInv'
<1> USE DEF PiInv, TypeOK, States, Completions, Unset, Ops, Rpcs,
            GoroutinesOK, ReservedOK, ApplyOK
<1>1. CASE Prompt
  BY <1>1 DEF Prompt, process, files, PipesOK, opMuFree, Verdict, Verifications, Statuses
<1>2. CASE PrepareFails
  BY <1>2 DEF PrepareFails, Return, process, files, PipesOK
<1>3. CASE SendPrompt
  <2>1. PipesOK'
    BY <1>3, RpcType DEF SendPrompt
  <2> QED BY <1>3, <2>1 DEF SendPrompt, rpc, session, files
<1>4. CASE PromptOK
  BY <1>4, GiveUpType DEF PromptOK, GiveUp, Return, session, files
<1>5. CASE PromptFails
  BY <1>5, GiveUpType DEF PromptFails, GiveUp, Return, files
<1> QED BY <1>1, <1>2, <1>3, <1>4, <1>5 DEF PromptStep

LEMMA AbortKeeps ==
  ASSUME PiInv, Abort \/ Cleared \/ Aborted \/ AbortFails
  PROVE  PiInv'
<1> USE DEF PiInv, TypeOK, States, Completions, Unset, Ops, Rpcs,
            GoroutinesOK, ReservedOK, ApplyOK
<1>1. CASE Abort
  <2>1. PipesOK'
    BY <1>1, RpcType DEF Abort
  <2>2. verification' \in Verifications /\ lastCompletion' \in Completions
    BY <1>1, NoteAbortType DEF Abort
  <2> QED BY <1>1, <2>1, <2>2 DEF Abort, rpc, files, opMuFree
<1>2. CASE Cleared
  <2>1. PipesOK'
    BY <1>2, RpcType DEF Cleared
  <2> QED BY <1>2, <2>1 DEF Cleared, rpc, files
<1>3. CASE Aborted
  BY <1>3, GiveUpType DEF Aborted, GiveUp, files
<1>4. CASE AbortFails
  BY <1>4, GiveUpType DEF AbortFails, GiveUp, Return, session, files
<1> QED BY <1>1, <1>2, <1>3, <1>4

LEMMA CloseKeeps ==
  ASSUME PiInv, Close \/ CloseStep \/ CloseFails
  PROVE  PiInv'
<1> USE DEF PiInv, TypeOK, States, Completions, Unset, Ops, Rpcs,
            GoroutinesOK, ReservedOK, ApplyOK
<1>1. CASE Close /\ Turning
  <2>1. PipesOK'
    BY <1>1, RpcType DEF Close
  <2>2. verification' \in Verifications /\ lastCompletion' \in Completions
    BY <1>1, NoteAbortType DEF Close
  <2> QED BY <1>1, <2>1, <2>2 DEF Close, rpc, files, opMuFree
<1>2. CASE Close /\ ~Turning
  BY <1>2 DEF Close, process, files, PipesOK, opMuFree
<1>3. CASE StopOwnedScope
  BY <1>3 DEF StopOwnedScope, session, files, PipesOK
<1>4. CASE MarkClosed
  BY <1>4 DEF MarkClosed, process, files, PipesOK
<1>5. CASE CloseDone
  BY <1>5 DEF CloseDone, Return, process, files, PipesOK
<1>6. CASE CloseFails
  BY <1>6 DEF CloseFails, Return, session, process, files, PipesOK
<1> QED BY <1>1, <1>2, <1>3, <1>4, <1>5, <1>6 DEF CloseStep

LEMMA ShellKeeps ==
  ASSUME PiInv, Shell \/ ShellStep
  PROVE  PiInv'
<1> USE DEF PiInv, TypeOK, States, Completions, Unset, Ops, Rpcs,
            GoroutinesOK, ReservedOK, ApplyOK
<1>1. CASE Shell
  <2>1. PipesOK'
    BY <1>1, RpcType DEF Shell
  <2> QED BY <1>1, <2>1 DEF Shell, rpc, files, opMuFree, Verdict, Verifications, Statuses
<1>2. CASE ShellDone
  BY <1>2, GiveUpType DEF ShellDone, GiveUp, Return, files
<1>3. CASE CancelShell
  <2>1. [k |-> "abortBash", live |-> TRUE] \in Commands
    BY DEF Commands
  <2>2. PipesOK'
    BY <1>3, <2>1, ForgetCommands, ForgetLines DEF CancelShell, PipesOK
  <2> QED BY <1>3, <2>2 DEF CancelShell, session, files
<1>4. CASE ShellFails
  BY <1>4, GiveUpType DEF ShellFails, GiveUp, Return, files
<1> QED BY <1>1, <1>2, <1>3, <1>4 DEF ShellStep

LEMMA ScanKeeps ==
  ASSUME PiInv, ScanStep
  PROVE  PiInv'
<1> USE DEF PiInv, TypeOK, States, Completions, Unset, Ends,
            GoroutinesOK, ReservedOK, ApplyOK
<1>1. CASE ScanResponse
  <2>1. PipesOK' /\ reply' \in {"none", "ok", "refused"}
    BY <1>1, LineType DEF ScanResponse, PipesOK
  <2> QED BY <1>1, <2>1 DEF ScanResponse, session, files
<1>2. CASE ScanAgentStart
  <2>1. PipesOK'
    BY <1>2, LineType DEF ScanAgentStart, PipesOK
  <2> QED BY <1>2, <2>1 DEF ScanAgentStart, calls, files
<1>3. CASE ScanAgentEnd
  <2>1. PipesOK' /\ scan'.c \in Ends
    BY <1>3, LineType DEF ScanAgentEnd, PipesOK
  <2> QED BY <1>3, <2>1 DEF ScanAgentEnd, calls, files
<1>4. CASE NoteCompletion
  BY <1>4 DEF NoteCompletion, calls, process, files, PipesOK
<1>5. CASE Incomplete
  BY <1>5 DEF Incomplete, Quiet, Verdict, Verifications, Statuses,
              calls, process, files, PipesOK
<1>6. CASE BeginAtEnd
  <2>1. CASE Begin /\ scan' = Quiet
    BY <1>6, <2>1, BeginType
       DEF BeginAtEnd, Begin, Quiet, Runs, calls, process, files, PipesOK
  <2>2. CASE /\ scan' = [scan EXCEPT !.at = "refused"]
             /\ UNCHANGED <<v, State, verification>>
    BY <1>6, <2>2 DEF BeginAtEnd, calls, process, files, PipesOK
  <2> QED BY <1>6, <2>1, <2>2 DEF BeginAtEnd
<1>7. CASE BeginRefused
  BY <1>7 DEF BeginRefused, Quiet, Verdict, Verifications, Statuses,
              calls, process, files, PipesOK
<1> QED BY <1>1, <1>2, <1>3, <1>4, <1>5, <1>6, <1>7 DEF ScanStep

LEMMA VerifyKeeps ==
  ASSUME PiInv, Verify \/ Review \/ VerifyStep
  PROVE  PiInv'
<1> USE DEF PiInv, TypeOK, States, Completions, Unset, GoroutinesOK, ReservedOK, ApplyOK
<1>1. CASE Verify
  <2>1. v' \in Runs /\ verification' \in Verifications
    BY <1>1, BeginType DEF Verify
  <2> QED BY <1>1, <2>1 DEF Verify, Begin, Runs, calls, process, files, PipesOK
<1>2. CASE Review
  <2>1. verification' \in Verifications
    BY <1>2 DEF Review, Unverify, Verifications, Statuses
  <2> QED BY <1>2, <2>1 DEF Review, calls, process, files, PipesOK
<1>3. CASE ReadCandidate
  <2>1. v' \in Runs
    BY <1>3 DEF ReadCandidate, Runs
  <2> QED BY <1>3, <2>1 DEF ReadCandidate, Runs, session, calls, process, files, PipesOK
<1>4. CASE RunChecks
  <2>1. PICK s \in Statuses : v' = [v EXCEPT !.at = "checked", !.status = s]
    BY <1>4 DEF RunChecks, Statuses
  <2>2. v' \in Runs
    BY <2>1 DEF Runs
  <2> QED BY <1>4, <2>2 DEF RunChecks, Runs, session, calls, process, files, PipesOK
<1>5. CASE StoreResult
  BY <1>5 DEF StoreResult, NoRun, Verdict, Verifications, Statuses,
              calls, process, PipesOK
<1> QED BY <1>1, <1>2, <1>3, <1>4, <1>5 DEF VerifyStep

LEMMA ApplyKeeps ==
  ASSUME PiInv, Apply \/ ApplyStale \/ ApplyStep
  PROVE  PiInv'
<1> USE DEF PiInv, TypeOK, States, Completions, Unset, GoroutinesOK, ReservedOK, ApplyOK
<1>1. CASE Apply
  BY <1>1 DEF Apply, MayApply, Ops, session, process, files, PipesOK
<1>2. CASE ApplyStale
  <2>1. verification' \in Verifications
    BY <1>2 DEF ApplyStale, Unverify, Verifications, Statuses
  <2> QED BY <1>2, <2>1 DEF ApplyStale, calls, process, files, PipesOK
<1>3. CASE Applied
  <2>1. verification' \in Verifications /\ orig' \in Trees
    BY <1>3 DEF Applied, Verifications
  <2>2. applying' \in Verifications
    BY <1>3, VerdictType DEF Applied, Statuses
  <2> QED BY <1>3, <2>1, <2>2 DEF Applied, Return, Ops, process, PipesOK
<1>4. CASE ApplyFails
  BY <1>4 DEF ApplyFails, Return, Ops, Verdict, Verifications, Statuses,
              session, process, files, PipesOK
<1> QED BY <1>1, <1>2, <1>3, <1>4 DEF ApplyStep

LEMMA PiKeeps ==
  ASSUME PiInv, PiAnswers \/ PiEdits \/ PiEndsTurn \/ ProcessExits \/ Wait
  PROVE  PiInv'
<1> USE DEF PiInv, TypeOK, States, GoroutinesOK, ReservedOK, ApplyOK
<1>1. CASE PiAnswers
  <2>1. /\ UNCHANGED <<session, calls, scan, v, proc, activePi, orig, deleted, dir>>
        /\ tree' \in Trees
        /\ agent' \in {agent, "running", "ABORTED"}
        /\ proc = "alive"
    BY <1>1 DEF PiAnswers, PiWrites, PiTakes
  <2>2. PipesOK'
    <3>1. inbox # <<>> /\ inbox' = Tail(inbox)
      BY <1>1 DEF PiAnswers, PiWrites, PiTakes
    <3>2. Head(inbox) \in Commands /\ inbox' \in Seq(Commands)
      BY <3>1 DEF PipesOK
    <3>3. Response("ok") \in Lines /\ Response("refused") \in Lines
      BY <3>2 DEF Response, Lines, Responses, Commands
    <3>4. Event("agent_start", Unset) \in Lines /\ Event("agent_end", "ABORTED") \in Lines
      BY DEF Event, Lines, Ends
    <3>5. \/ out' = out \o <<Response("ok")>>
          \/ out' = out \o <<Response("refused")>>
          \/ out' = out \o <<Response("ok"), Event("agent_start", Unset)>>
          \/ out' = out \o <<Event("agent_end", "ABORTED"), Response("ok")>>
      BY <1>1 DEF PiAnswers, PiWrites
    <3>6. \A a, b \in Lines : <<a>> \in Seq(Lines) /\ <<a, b>> \in Seq(Lines)
      OBVIOUS
    <3>7. \A lines \in Seq(Lines) : out \o lines \in Seq(Lines)
      BY DEF PipesOK
    <3> HIDE DEF PiInv, TypeOK, GoroutinesOK, ReservedOK, ApplyOK
    <3>8. out' \in Seq(Lines)
      BY <3>3, <3>4, <3>5, <3>6, <3>7
    <3> QED BY <3>2, <3>8 DEF PipesOK
  <2> QED BY <2>1, <2>2 DEF session, calls
<1>2. CASE PiEdits
  BY <1>2 DEF PiEdits, session, calls, process, PipesOK
<1>3. CASE PiEndsTurn
  <2>1. PICK c \in {"NATURAL", "ERROR"} :
          agent' = c /\ out' = Append(out, Event("agent_end", c))
    BY <1>3 DEF PiEndsTurn
  <2>2. Event("agent_end", c) \in Lines
    BY DEF Event, Lines, Ends
  <2> QED BY <1>3, <2>1, <2>2 DEF PiEndsTurn, session, calls, files, PipesOK
<1>4. CASE ProcessExits
  BY <1>4 DEF ProcessExits, session, calls, files, PipesOK
<1>5. CASE Wait
  <2>1. PICK n \in 0..Len(out) : out' = SubSeq(out, 1, n)
    BY <1>5 DEF Wait
  <2>2. out' \in Seq(Lines)
    BY <2>1 DEF PipesOK
  <2> QED BY <1>5, <2>2 DEF Wait, calls, files, PipesOK
<1> QED BY <1>1, <1>2, <1>3, <1>4, <1>5

LEMMA OthersKeep ==
  ASSUME PiInv,
         OtherStarts \/ OtherCloses \/ DeleteConversation \/ GatewayRestarts
  PROVE  PiInv'
<1> USE DEF PiInv, TypeOK, States, GoroutinesOK, ReservedOK, ApplyOK
<1>1. CASE OtherStarts \/ OtherCloses
  BY <1>1 DEF OtherStarts, OtherCloses, session, calls, process, files, PipesOK
<1>2. CASE DeleteConversation
  <2>1. deleted' \in BOOLEAN /\ dir' \in BOOLEAN
    BY <1>2 DEF DeleteConversation
  <2>2. UNCHANGED <<session, calls, scan, v, process, activePi, tree, orig>>
    BY <1>2 DEF DeleteConversation
  <2>3. TypeOK'
    BY <2>1, <2>2 DEF session, calls, process
  <2> QED BY <2>2, <2>3 DEF session, calls, process, PipesOK
<1>3. CASE GatewayRestarts
  <2>1. applying' \in Verifications
    BY <1>3, VerdictType DEF GatewayRestarts, Statuses
  <2>2. PipesOK'
    BY <1>3 DEF GatewayRestarts, PipesOK
  <2>3. GoroutinesOK'
    BY <1>3 DEF GatewayRestarts, Completions, Quiet, NoRun, Statuses
  <2>4. TypeOK'
    BY <1>3, <2>1 DEF GatewayRestarts, Ops, Completions, Quiet, NoRun, files
  <2> QED BY <1>3, <2>2, <2>3, <2>4 DEF GatewayRestarts
<1> QED BY <1>1, <1>2, <1>3

-----------------------------------------------------------------------------
(* The invariant, and what follows                                         *)

LEMMA PiInit == Init => PiInv
<1> SUFFICES ASSUME Init PROVE PiInv
  OBVIOUS
<1>1. verification \in Verifications
  BY VerdictType DEF Init, Statuses
<1>2. Snapshot \in Trees
  BY BoundsAssumption DEF Snapshot, Trees
<1>3. TypeOK
  BY <1>1, <1>2 DEF Init, TypeOK, States, Completions, Ops, Quiet, NoRun
<1>4. PipesOK
  BY DEF Init, PipesOK
<1>5. GoroutinesOK
  BY DEF Init, GoroutinesOK, Quiet, NoRun, Completions, Statuses
<1> QED BY <1>3, <1>4, <1>5 DEF Init, PiInv, ReservedOK, ApplyOK

LEMMA PiStep == PiInv /\ [Next]_vars => PiInv'
<1> SUFFICES ASSUME PiInv, [Next]_vars PROVE PiInv'
  OBVIOUS
<1>1. CASE Request
  BY <1>1, StartKeeps, PromptKeeps, AbortKeeps, CloseKeeps, ShellKeeps, VerifyKeeps,
     ApplyKeeps, OthersKeep DEF Request
<1>2. CASE Internal
  BY <1>2, StartKeeps, PromptKeeps, AbortKeeps, CloseKeeps, ShellKeeps, ScanKeeps,
     VerifyKeeps, ApplyKeeps, PiKeeps, OthersKeep DEF Internal, AbortStep
<1>3. CASE UNCHANGED vars
  BY <1>3 DEF vars, session, calls, process, files, PiInv, TypeOK, PipesOK,
              GoroutinesOK, ReservedOK, ApplyOK
<1> QED BY <1>1, <1>2, <1>3 DEF Next

(* The invariant of a session, its pipes and its goroutines, whatever is   *)
(* asked of it, exits or restarts.                                         *)
THEOREM PiInvariant == Spec => []PiInv
BY PiInit, PiStep, PTL DEF Spec

(* Every variable of the session keeps its type; so no operation waits for *)
(* an answer the code does not know.                                       *)
THEOREM PiTypeCorrect == Spec => []TypeOK
<1>1. PiInv => TypeOK
  BY DEF PiInv
<1> QED BY <1>1, PiInvariant, PTL

(* reservePi, releasePi and close keep one Pi at most: while this one runs *)
(* no other session has the reservation.                                   *)
THEOREM OnePi == Spec => []OneScope
<1>1. PiInv => OneScope
  BY DEF PiInv, ReservedOK, OneScope
<1> QED BY <1>1, PiInvariant, PTL

LEMMA OnlyAppliedWrites ==
  ASSUME Next, orig' # orig PROVE Applied
<1>1. CASE Request
  BY <1>1 DEF Request, Start, Prompt, Abort, Close, Shell, Verify, Review, Apply,
              ApplyStale, DeleteConversation, files
<1>2. CASE StartStep \/ PromptStep \/ AbortStep \/ AbortFails
  BY <1>2 DEF StartStep, StartOK, StartFails, PromptStep, PrepareFails, SendPrompt,
              PromptOK, PromptFails, AbortStep, Cleared, Aborted, AbortFails, files
<1>3. CASE CloseStep \/ CloseFails \/ ShellStep
  BY <1>3 DEF CloseStep, StopOwnedScope, MarkClosed, CloseDone, CloseFails,
              ShellStep, ShellDone, CancelShell, ShellFails, files
<1>4. CASE ScanStep \/ VerifyStep
  BY <1>4 DEF ScanStep, ScanResponse, ScanAgentStart, ScanAgentEnd, NoteCompletion,
              Incomplete, BeginAtEnd, BeginRefused,
              VerifyStep, ReadCandidate, RunChecks, StoreResult, files
<1>5. CASE ApplyStep
  BY <1>5 DEF ApplyStep, ApplyFails, files
<1>6. CASE PiAnswers \/ PiEdits \/ PiEndsTurn \/ ProcessExits \/ Wait
  BY <1>6 DEF PiAnswers, PiWrites, PiEdits, PiEndsTurn, ProcessExits, Wait, files
<1>7. CASE OtherStarts \/ OtherCloses \/ GatewayRestarts
  BY <1>7 DEF OtherStarts, OtherCloses, GatewayRestarts, files
<1> QED BY <1>1, <1>2, <1>3, <1>4, <1>5, <1>6, <1>7 DEF Next, Internal

(* applyProtection writes over the original once at most, and writes a     *)
(* tree that passed the checks.                                            *)
THEOREM OneWrite == Spec => OriginalWrittenOnce
<1> DEFINE write ==
      orig' # orig =>
        /\ orig = Snapshot
        /\ verification' = [Verdict("TEST_PASS", orig') EXCEPT !.applied = TRUE]
<1>1. PiInv /\ [Next]_vars => [write]_vars
  <2> SUFFICES ASSUME PiInv, Next, orig' # orig PROVE write
    BY DEF vars, files
  <2>1. Applied
    BY OnlyAppliedWrites
  <2>2. applying \in Verifications /\ op = "apply"
    BY <2>1 DEF Applied, PiInv, TypeOK
  <2>3. applying = Verdict("TEST_PASS", applying.cand)
    BY <2>2 DEF PiInv, ApplyOK, Verifications, Verdict
  <2> QED BY <2>1, <2>2, <2>3 DEF Applied, PiInv, ApplyOK
<1> QED BY <1>1, PiInvariant, PTL DEF Spec, OriginalWrittenOnce
=============================================================================
