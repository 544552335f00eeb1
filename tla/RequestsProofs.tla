---------------------------- MODULE RequestsProofs ----------------------------
(***************************************************************************)
(* Safety of what a request sets going, for any capacity of the channel,   *)
(* any number of frames, files, applies and writes of the user.            *)
(*                                                                         *)
(* Of a stream: what the client was sent and what still is in the channel  *)
(* together are a prefix of rank 0's answer, or the whole of it and then   *)
(* both ranks agreed, or the response was ended by an error event.         *)
(*                                                                         *)
(* Of an apply: at every step, what is in the user's repository is what    *)
(* the position of the call says, and the receipt covers it.               *)
(***************************************************************************)
EXTENDS Requests, TLAPS

(* The answer of rank 0 as far as it is known. *)
Answer(i) == IF i <= produced THEN i ELSE Terminal

Ordered ==
  /\ \A i \in 1..Len(sent) : sent[i] = Answer(i)
  /\ \A i \in 1..Len(frames) : frames[i] = Answer(Len(sent) + i)

FlagInv ==
  /\ ~panicked
  /\ closed <=> run = "done"
  /\ run \in {"close", "done"} => detached
  /\ run \in {"close", "done"} /\ slow => err
  /\ slow => detached
  /\ handler = "gone" => detached
  /\ detached /\ run \in {"collect", "terminal"} => slow \/ handler = "gone"
  /\ run = "collect" => ~err
  /\ run = "terminal" => agreed /\ ~err
  /\ agreed => \A r \in Ranks : rank[r] = "ok"
  /\ handler = "ended" => closed /\ frames = <<>>

(* Nothing but answered frames, and if the job is over without an error    *)
(* then there is no client to be misled.                                   *)
Prefix ==
  /\ Ordered /\ handler # "ended"
  /\ Len(sent) + Len(frames) <= produced
  /\ ~detached => Len(sent) + Len(frames) = produced
  /\ run \in {"finish", "close", "done"} /\ ~err =>
       handler = "gone" \/ (run = "finish" /\ slow)

Complete ==
  /\ Ordered /\ agreed /\ ~err /\ ~slow
  /\ run \in {"finish", "close", "done"}
  /\ Len(sent) + Len(frames) = produced + 1

Failed ==
  /\ handler = "ended" /\ err /\ sent # <<>>
  /\ sent[Len(sent)] = ErrorEvent
  /\ \A i \in 1..Len(sent) : sent[i] # Terminal

StreamInv == TypeOK /\ FlagInv /\ (Prefix \/ Complete \/ Failed)

-----------------------------------------------------------------------------
LEMMA FrameTypes ==
  /\ \A n \in 1..MaxFrames : n \in Frames /\ n # Terminal /\ n # ErrorEvent
  /\ Terminal \in Frames /\ ErrorEvent \in Frames /\ Terminal # ErrorEvent
BY MaxFramesAssumption DEF Frames, Data, Terminal, ErrorEvent

(* emit keeps the channel's type, and panics only on a closed channel.     *)
LEMMA EmitType ==
  ASSUME TypeOK, FlagInv, NEW f \in Frames, emit(f)
  PROVE  /\ frames' \in Seq(Frames) /\ Len(frames') <= Capacity
         /\ detached' \in BOOLEAN /\ slow' \in BOOLEAN
         /\ panicked' = panicked
<1> USE DEF TypeOK, FlagInv, emit
<1>1. CASE detached
  BY <1>1
<1>2. CASE ~detached /\ closed
  BY <1>2
<1>3. CASE ~detached /\ ~closed /\ Len(frames) < Capacity
  BY <1>3, CapacityAssumption
<1>4. CASE ~detached /\ ~closed /\ ~(Len(frames) < Capacity)
  BY <1>4
<1> QED BY <1>1, <1>2, <1>3, <1>4

(* Each frame rank 0 produces extends the prefix or is dropped.            *)
LEMMA DrainFrameKeeps ==
  ASSUME StreamInv, DrainFrame
  PROVE  StreamInv'
<1>1. produced' \in 1..MaxFrames /\ produced' = produced + 1
  BY MaxFramesAssumption DEF StreamInv, TypeOK, DrainFrame
<1>2. emit(produced')
  BY DEF DrainFrame
<1>3. TypeOK' /\ panicked' = panicked
  <2>1. produced' \in Frames
    BY <1>1, FrameTypes
  <2>2. /\ frames' \in Seq(Frames) /\ Len(frames') <= Capacity
        /\ detached' \in BOOLEAN /\ slow' \in BOOLEAN /\ panicked' = panicked
    BY <1>2, <2>1, EmitType DEF StreamInv
  <2> QED BY <1>1, <2>2, MaxFramesAssumption DEF StreamInv, TypeOK, DrainFrame
<1>4. rank[0] = "reading" /\ ~agreed /\ run # "terminal"
  BY DEF DrainFrame, StreamInv, FlagInv, Ranks
<1>5. CASE detached
  <2>1. UNCHANGED <<frames, detached, slow, panicked>>
    BY <1>2, <1>5 DEF emit
  <2>2. FlagInv'
    BY <2>1 DEF StreamInv, FlagInv, DrainFrame
  <2>3. Ordered /\ Len(sent) + Len(frames) <= produced => Ordered'
    BY <1>1, <2>1 DEF Ordered, Answer, DrainFrame, StreamInv, TypeOK
  <2>4. ~Complete
    BY <1>4 DEF Complete
  <2>5. Failed => Failed'
    BY <2>1 DEF Failed, DrainFrame
  <2>6. Prefix => Prefix'
    <3> SUFFICES ASSUME Prefix PROVE Prefix'
      OBVIOUS
    <3>1. Ordered' /\ Len(sent) + Len(frames) <= produced'
      BY <1>1, <2>3 DEF Prefix, StreamInv, TypeOK
    <3> QED BY <1>5, <2>1, <3>1 DEF Prefix, DrainFrame
  <2> QED BY <1>3, <2>2, <2>4, <2>5, <2>6 DEF StreamInv
<1>6. CASE ~detached
  <2>1. ~closed /\ handler # "ended" /\ Prefix
    BY <1>4, <1>6 DEF StreamInv, FlagInv, Complete, Failed
  <2>2. CASE Len(frames) < Capacity
    <3>1. frames' = Append(frames, produced') /\ UNCHANGED <<detached, slow, panicked>>
      BY <1>2, <1>6, <2>1, <2>2 DEF emit
    <3>2. Ordered'
      <4>1. /\ sent' = sent /\ Len(sent) \in Nat /\ Len(frames) \in Nat
            /\ Len(sent) + Len(frames) = produced /\ produced \in Nat
        BY <1>6, <2>1 DEF Prefix, DrainFrame, StreamInv, TypeOK
      <4>2. \A i \in 1..Len(sent) : sent'[i] = Answer(i)'
        BY <1>1, <2>1, <4>1 DEF Prefix, Ordered, Answer
      <4>3. ASSUME NEW i \in 1..Len(frames')
            PROVE  frames'[i] = Answer(Len(sent) + i)'
        <5>1. CASE i <= Len(frames)
          <6>1. frames'[i] = frames[i] /\ i \in 1..Len(frames)
            BY <3>1, <5>1 DEF StreamInv, TypeOK
          <6>2. frames[i] = Answer(Len(sent) + i)
            BY <2>1, <6>1 DEF Prefix, Ordered
          <6> QED BY <1>1, <4>1, <6>1, <6>2 DEF Answer
        <5>2. CASE i = Len(frames) + 1
          <6>1. frames'[i] = produced'
            BY <3>1, <5>2 DEF StreamInv, TypeOK
          <6> QED BY <1>1, <4>1, <5>2, <6>1 DEF Answer
        <5> QED BY <3>1, <5>1, <5>2 DEF StreamInv, TypeOK
      <4> QED BY <4>1, <4>2, <4>3 DEF Ordered
    <3>3. FlagInv'
      BY <2>1, <3>1 DEF StreamInv, FlagInv, DrainFrame
    <3> QED BY <1>1, <1>3, <1>6, <2>1, <3>1, <3>2, <3>3
               DEF StreamInv, TypeOK, Prefix, DrainFrame
  <2>3. CASE ~(Len(frames) < Capacity)
    <3>1. detached' /\ slow' /\ UNCHANGED <<frames, panicked>>
      BY <1>2, <1>6, <2>1, <2>3 DEF emit
    <3>2. Ordered'
      BY <1>1, <2>1, <3>1 DEF Prefix, Ordered, Answer, DrainFrame, StreamInv, TypeOK
    <3>3. FlagInv'
      BY <1>6, <2>1, <3>1 DEF StreamInv, FlagInv, DrainFrame
    <3>4. Prefix'
      BY <1>1, <1>6, <2>1, <3>1, <3>2 DEF StreamInv, TypeOK, FlagInv, Prefix, DrainFrame
    <3> QED BY <1>3, <3>3, <3>4 DEF StreamInv
  <2> QED BY <2>2, <2>3
<1> QED BY <1>5, <1>6

LEMMA DrainEndsKeeps ==
  ASSUME StreamInv, NEW r \in Ranks, DrainHolds(r) \/ DrainEnds(r)
  PROVE  StreamInv'
<1>1. rank' \in [Ranks -> {"reading", "holding", "ok", "bad"}] /\ rank[r] # "ok"
  BY DEF StreamInv, TypeOK, DrainHolds, DrainEnds
<1>2. UNCHANGED <<produced, frames, closed, detached, slow, err, run, agreed,
                  handler, sent, panicked>>
  BY DEF DrainHolds, DrainEnds
<1>3. ~agreed
  BY <1>1 DEF StreamInv, FlagInv
<1> QED BY <1>1, <1>2, <1>3
           DEF StreamInv, TypeOK, FlagInv, Prefix, Complete, Failed, Ordered, Answer

(* The terminal frames complete the prefix, or are dropped with an error   *)
(* to come, or nobody is left to see the end.                              *)
LEMMA EmitTerminalKeeps ==
  ASSUME StreamInv, EmitTerminal
  PROVE  StreamInv'
<1>1. emit(Terminal) /\ run = "terminal" /\ run' = "finish"
  BY DEF EmitTerminal, RunTo
<1>2. /\ frames' \in Seq(Frames) /\ Len(frames') <= Capacity
      /\ detached' \in BOOLEAN /\ slow' \in BOOLEAN /\ panicked' = panicked
  BY <1>1, FrameTypes, EmitType DEF StreamInv
<1>3. TypeOK'
  BY <1>1, <1>2 DEF StreamInv, TypeOK, EmitTerminal
<1>4. agreed /\ ~err /\ ~closed /\ handler # "ended" /\ Prefix
  BY <1>1 DEF StreamInv, FlagInv, Complete, Failed
<1>5. CASE detached
  <2>1. UNCHANGED <<frames, detached, slow>>
    BY <1>1, <1>5 DEF emit
  <2> QED BY <1>1, <1>2, <1>3, <1>4, <1>5, <2>1
             DEF StreamInv, FlagInv, Prefix, Ordered, Answer, EmitTerminal
<1>6. CASE ~detached /\ Len(frames) < Capacity
  <2>1. frames' = Append(frames, Terminal) /\ UNCHANGED <<detached, slow>>
    BY <1>1, <1>4, <1>6 DEF emit
  <2>2. Ordered'
    BY <1>4, <1>6, <2>1 DEF Prefix, Ordered, Answer, EmitTerminal, StreamInv, TypeOK
  <2>3. Complete'
    BY <1>1, <1>4, <1>6, <2>1, <2>2
       DEF Complete, Prefix, EmitTerminal, StreamInv, TypeOK, FlagInv
  <2> QED BY <1>1, <1>2, <1>3, <1>4, <1>6, <2>1, <2>3 DEF StreamInv, FlagInv, EmitTerminal
<1>7. CASE ~detached /\ ~(Len(frames) < Capacity)
  <2>1. detached' /\ slow' /\ frames' = frames
    BY <1>1, <1>4, <1>7 DEF emit
  <2> QED BY <1>1, <1>2, <1>3, <1>4, <2>1
             DEF StreamInv, TypeOK, FlagInv, Prefix, Ordered, Answer, EmitTerminal
<1> QED BY <1>5, <1>6, <1>7

LEMMA RunKeeps ==
  ASSUME StreamInv,
         Deadline \/ Disagree \/ AgreeAndClear \/ MetricsFail \/ Finish \/ CloseFrames
  PROVE  StreamInv'
<1> USE DEF StreamInv, TypeOK, FlagInv, Prefix, Complete, Failed, Ordered, Answer, RunTo
<1>1. CASE Deadline
  BY <1>1 DEF Deadline
<1>2. CASE Disagree
  BY <1>2 DEF Disagree
<1>3. CASE AgreeAndClear
  BY <1>3 DEF AgreeAndClear
<1>4. CASE MetricsFail
  BY <1>4 DEF MetricsFail
<1>5. CASE Finish
  BY <1>5 DEF Finish
<1>6. CASE CloseFrames
  BY <1>6 DEF CloseFrames
<1> QED BY <1>1, <1>2, <1>3, <1>4, <1>5, <1>6

(* Moving a frame from the channel to the client keeps the order.          *)
LEMMA HandlerKeeps ==
  ASSUME StreamInv, ClientGone \/ SendFrame \/ EndResponse
  PROVE  StreamInv'
<1>1. CASE ClientGone
  BY <1>1 DEF ClientGone, StreamInv, TypeOK, FlagInv, Prefix, Complete, Failed,
              Ordered, Answer
<1>2. CASE SendFrame
  <2>1. /\ sent' = Append(sent, Head(frames)) /\ frames' = Tail(frames)
        /\ frames # <<>> /\ handler = "select"
        /\ UNCHANGED <<rank, produced, closed, detached, slow, err, run, agreed,
                       handler, panicked>>
    BY <1>2 DEF SendFrame
  <2>2. /\ sent' \in Seq(Frames) /\ frames' \in Seq(Frames)
        /\ Len(sent') = Len(sent) + 1 /\ Len(frames') = Len(frames) - 1
        /\ Head(frames) = frames[1] /\ Len(frames) >= 1
    BY <2>1 DEF StreamInv, TypeOK
  <2>3. TypeOK'
    BY <2>1, <2>2, CapacityAssumption DEF StreamInv, TypeOK
  <2>4. Ordered => Ordered'
    <3> SUFFICES ASSUME Ordered PROVE Ordered'
      OBVIOUS
    <3>1. \A i \in 1..Len(sent') : sent'[i] = Answer(i)
      BY <2>1, <2>2 DEF Ordered, StreamInv, TypeOK
    <3>2. \A i \in 1..Len(frames') : frames'[i] = Answer(Len(sent') + i)
      <4> TAKE i \in 1..Len(frames')
      <4>1. frames'[i] = frames[i + 1] /\ i + 1 \in 1..Len(frames)
        BY <2>1, <2>2 DEF StreamInv, TypeOK
      <4>2. frames[i + 1] = Answer(Len(sent) + (i + 1))
        BY <4>1 DEF Ordered
      <4>3. Len(sent) + (i + 1) = Len(sent') + i
        BY <2>2 DEF StreamInv, TypeOK
      <4> QED BY <4>1, <4>2, <4>3
    <3>3. \A i \in Nat : Answer(i)' = Answer(i)
      BY <2>1 DEF Answer
    <3> QED BY <2>1, <3>1, <3>2 DEF Ordered, Answer
  <2>5. FlagInv'
    BY <2>1 DEF StreamInv, FlagInv
  <2> DEFINE total == Len(sent) + Len(frames)
  <2>6. total' = total
    BY <2>2 DEF StreamInv, TypeOK
  <2> HIDE DEF total
  <2>7. Prefix => Prefix'
    <3>1. Prefix <=> /\ Ordered /\ handler # "ended"
                     /\ total <= produced /\ (~detached => total = produced)
                     /\ run \in {"finish", "close", "done"} /\ ~err =>
                          handler = "gone" \/ (run = "finish" /\ slow)
      BY DEF Prefix, total
    <3>2. Prefix' <=> /\ Ordered' /\ handler' # "ended"
                      /\ total' <= produced' /\ (~detached' => total' = produced')
                      /\ run' \in {"finish", "close", "done"} /\ ~err' =>
                           handler' = "gone" \/ (run' = "finish" /\ slow')
      BY DEF Prefix, total
    <3> QED BY <2>1, <2>4, <2>6, <3>1, <3>2
  <2>8. Complete => Complete'
    BY <2>1, <2>4, <2>6 DEF Complete, total
  <2>9. ~Failed
    BY <2>1 DEF Failed
  <2> QED BY <2>3, <2>5, <2>7, <2>8, <2>9 DEF StreamInv
<1>3. CASE EndResponse
  <2>1. /\ handler = "select" /\ handler' = "ended" /\ frames = <<>> /\ closed
        /\ sent' = IF err THEN Append(sent, ErrorEvent) ELSE sent
        /\ UNCHANGED <<rank, produced, frames, closed, detached, slow, err, run,
                       agreed, panicked>>
    BY <1>3 DEF EndResponse
  <2>2. FlagInv'
    BY <2>1 DEF StreamInv, FlagInv
  <2>3. TypeOK'
    BY <2>1, FrameTypes DEF StreamInv, TypeOK
  <2>4. CASE err
    <3>1. Prefix
      BY <2>1, <2>4 DEF StreamInv, Complete, Failed
    <3>2. \A i \in 1..Len(sent) : sent[i] # Terminal
      BY <3>1, FrameTypes, MaxFramesAssumption
         DEF Prefix, Ordered, Answer, StreamInv, TypeOK, Terminal
    <3>3. sent' = Append(sent, ErrorEvent)
      BY <2>1, <2>4
    <3>4. Failed'
      BY <2>1, <2>4, <3>2, <3>3, FrameTypes DEF Failed, StreamInv, TypeOK
    <3> QED BY <2>2, <2>3, <3>4 DEF StreamInv
  <2>5. CASE ~err
    <3>1. Complete
      BY <2>1, <2>5 DEF StreamInv, FlagInv, Prefix, Failed
    <3> QED BY <2>1, <2>2, <2>3, <2>5, <3>1 DEF StreamInv, Complete, Ordered, Answer
  <2> QED BY <2>4, <2>5
<1> QED BY <1>1, <1>2, <1>3

-----------------------------------------------------------------------------
LEMMA StreamInit == Init => StreamInv
BY CapacityAssumption, MaxFramesAssumption
   DEF Init, StreamInv, TypeOK, FlagInv, Prefix, Ordered, Ranks

LEMMA StreamStep == StreamInv /\ [Next]_vars => StreamInv'
<1> SUFFICES ASSUME StreamInv, [Next]_vars PROVE StreamInv'
  OBVIOUS
<1>1. CASE DrainNext
  BY <1>1, DrainFrameKeeps, DrainEndsKeeps DEF DrainNext
<1>2. CASE RunNext
  BY <1>2, EmitTerminalKeeps, RunKeeps DEF RunNext
<1>3. CASE ClientGone \/ SendFrame \/ EndResponse
  BY <1>3, HandlerKeeps
<1>4. CASE UNCHANGED vars
  BY <1>4 DEF vars, StreamInv, TypeOK, FlagInv, Prefix, Complete, Failed, Ordered, Answer
<1> QED BY <1>1, <1>2, <1>3, <1>4 DEF Next

(* The invariant holds for every interleaving of the drains, run and the   *)
(* handler.                                                                *)
THEOREM StreamInvariant == Spec => []StreamInv
BY StreamInit, StreamStep, PTL DEF Spec

(* What the invariant says of the four properties. *)
LEMMA StreamInvSuffices ==
  StreamInv => TypeOK /\ NoSendOnClosed /\ TerminalOnlyAgreed /\ NoSilentTruncation
<1>1. StreamInv => TypeOK /\ NoSendOnClosed
  BY DEF StreamInv, FlagInv, NoSendOnClosed
<1>2. StreamInv => TerminalOnlyAgreed
  <2> SUFFICES ASSUME StreamInv, NEW i \in 1..Len(sent), sent[i] = Terminal
               PROVE  agreed /\ ~err /\ i = Len(sent)
    BY DEF TerminalOnlyAgreed
  <2>1. sent \in Seq(Frames) /\ frames \in Seq(Frames) /\ produced \in 0..MaxFrames
    BY DEF StreamInv, TypeOK
  <2>2. CASE Prefix
    BY <2>1, <2>2, MaxFramesAssumption DEF Prefix, Ordered, Answer, Terminal
  <2>3. CASE Complete
    BY <2>1, <2>3, MaxFramesAssumption DEF Complete, Ordered, Answer, Terminal
  <2> QED BY <2>2, <2>3 DEF StreamInv, Failed
<1>3. StreamInv => NoSilentTruncation
  <2> SUFFICES ASSUME StreamInv, handler = "ended",
                      sent = <<>> \/ sent[Len(sent)] # ErrorEvent
               PROVE  /\ Len(sent) = produced + 1
                      /\ \A i \in 1..Len(sent) : sent[i] = Answer(i)
    BY DEF NoSilentTruncation, Answer
  <2>1. Complete /\ frames = <<>>
    BY DEF StreamInv, FlagInv, Prefix, Failed
  <2> QED BY <2>1 DEF Complete, Ordered, StreamInv, TypeOK
<1> QED BY <1>1, <1>2, <1>3

(* The flags, the channel and what was sent keep their types: the channel  *)
(* never holds more than its capacity.                                     *)
THEOREM StreamTypeCorrect == Spec => []TypeOK
BY StreamInvSuffices, StreamInvariant, PTL

(* emit() never sends on the channel run() closed.                         *)
THEOREM NeverPanics == Spec => []NoSendOnClosed
BY StreamInvSuffices, StreamInvariant, PTL

(* The client sees the terminal frames only of an agreed job without       *)
(* error, and nothing after them.                                          *)
THEOREM TerminalMeansAgreed == Spec => []TerminalOnlyAgreed
BY StreamInvSuffices, StreamInvariant, PTL

(* A response that ends without an error event is the whole answer.        *)
THEOREM WholeOrError == Spec => []NoSilentTruncation
BY StreamInvSuffices, StreamInvariant, PTL

(* And so it is beside the applies, which share nothing with a stream.     *)
THEOREM StreamsAreSafe ==
  Request => [](TypeOK /\ NoSendOnClosed /\ TerminalOnlyAgreed /\ NoSilentTruncation)
<1>1. StartRequest => StreamInv
  BY StreamInit DEF StartRequest
<1>2. StreamInv /\ [Streaming(Next) \/ Applying]_<<about, vars, applyVars>> => StreamInv'
  <2>1. [Streaming(Next) \/ Applying]_<<about, vars, applyVars>> => [Next]_vars
    BY DEF Streaming, Applying
  <2> QED BY <2>1, StreamStep
<1> QED BY <1>1, <1>2, StreamInvSuffices, PTL DEF Request

-----------------------------------------------------------------------------
(* The positions of a call before its first rename, at its renames, and when it
   is taken back. *)
Looking == {"inspect", "prepare", "stage", "staged", "verify"}
Writing == {"check", "rename", "record", "finish"}
Undoing == {"undo", "restore", "clean"}

Calls == [automatic : BOOLEAN, made : BOOLEAN, errors : BOOLEAN,
          status : {"none", "PREPARED", "APPLIED", "ROLLED_BACK"}]
Receipts == [status : {"none", "PREPARED", "APPLIED", "ROLLED_BACK", "ROLLBACK_UNCERTAIN"},
             applied : 0 .. A!Last]

ApplyType ==
  /\ tree \in [Changed -> {"absent", "old", "new", "user"}]
  /\ dir \in {"absent", "ours", "theirs"}
  /\ task \in [status : {"applying", "PASS"}, applied : BOOLEAN]
  /\ pc \in {"idle", "close", "dead"} \cup Looking \cup Writing \cup Undoing
  /\ file \in 0 .. A!Last /\ done \in 0 .. A!Last
  /\ call \in Calls /\ saved \in Receipts
  /\ told \in {"nothing", "refused", "ok", "unsaved"}
  /\ late \subseteq Changed /\ lost = {}
  /\ applies \in 0 .. MaxApplies /\ edits \in 0 .. MaxEdits

(* Where the call is, and how many entries it has renamed. *)
Places ==
  /\ pc \in Looking \cup Writing \cup {"restore"} => file \in Changed
  /\ pc \in Looking => done = 0
  /\ pc \in {"check", "rename"} => done = file - 1
  /\ pc = "record" => done = file
  /\ pc = "finish" => done = A!Last
  /\ pc \in {"undo", "restore"} => file <= done
  /\ pc = "clean" \/ (pc = "close" /\ ~task.applied) => file = 0

(* What the files are then: nothing of ours before the first rename, exactly the
   renamed entries between them, and behind a rollback only what it has called
   uncertain.  A user's file that is about to be replaced was written just now. *)
Stands ==
  /\ pc = "inspect" => \A f \in Changed : f < file => tree[f] # "new"
  /\ pc \in Looking \ {"inspect"} => A!Ours = {}
  /\ pc \in Writing => \A f \in Changed :
       IF f <= done THEN ~A!Original(f) ELSE tree[f] # "new"
  /\ pc \in Undoing \cup {"close"} /\ ~task.applied => \A f \in A!Ours :
       f <= done /\ (f <= file \/ call.errors)
  /\ pc \in {"rename", "restore"} /\ tree[file] = "user" => file \in late

(* How the call will end, as far as it is decided. *)
Ends ==
  /\ pc \in Looking \cup Writing \cup Undoing => ~task.applied
  /\ pc \in Looking \cup Writing => ~call.errors
  /\ pc \in Undoing => call.status = "ROLLED_BACK"
  /\ pc = "close" =>
       IF task.applied THEN call.status = "APPLIED" /\ ~call.errors /\ done = A!Last
       ELSE call.status = "ROLLED_BACK" /\ (~call.errors /\ call.made => dir # "ours")

(* receipt.json covers what is ours, at every moment at which the process may die. *)
Says ==
  /\ pc \in Writing \cup {"stage", "staged", "verify"} => saved.status = "PREPARED"
  /\ pc \in Undoing \cup {"close"} => saved.status \in {"PREPARED", "APPLIED"}
  /\ saved.status = "APPLIED" => saved.applied = A!Last
  /\ saved.status = "ROLLBACK_UNCERTAIN" => A!Ours \subseteq 1 .. saved.applied
  /\ pc \in {"idle", "inspect"} /\ told # "unsaved" /\ ~task.applied /\ A!Ours # {}
       => saved.status = "ROLLBACK_UNCERTAIN"
  /\ A!Ours # {} => saved.status # "none"

ApplyInv == ApplyType /\ Places /\ Stands /\ Ends /\ Says
            /\ A!AppliedIsWhole /\ A!RolledBackIsNothing

-----------------------------------------------------------------------------
LEMMA LastIsLast == A!Last \in Nat \ {0} /\ Changed = 1 .. A!Last
<1>1. PICK n \in Nat \ {0} : Changed = 1 .. n
  BY ApplyAssumption
<1>2. n \in Changed /\ \A f \in Changed : f <= n
  BY <1>1
<1>3. A!Last \in Changed /\ \A f \in Changed : f <= A!Last
  BY <1>2 DEF A!Last
<1> QED BY <1>1, <1>2, <1>3


LEMMA ReceiptType ==
  ASSUME ApplyType, NEW s \in {"PREPARED", "APPLIED", "ROLLED_BACK", "ROLLBACK_UNCERTAIN"}
  PROVE  A!Receipt(s) \in Receipts /\ A!Receipt(s).status = s /\ A!Receipt(s).applied = done
BY DEF ApplyType, A!Receipt, Receipts

(* A step that fails before, at or after a rename. *)
LEMMA FailKeeps ==
  ASSUME ApplyInv, NEW n \in 0 .. A!Last,
         pc \in Writing \cup {"stage", "staged", "verify"},
         \A f \in A!Ours : f <= n,
         pc' = "undo", file' = n, done' = n, call' \in Calls, call'.status = "ROLLED_BACK",
         \/ saved' = saved
         \/ saved' = A!Receipt("PREPARED")
         \/ saved' = A!Receipt("APPLIED") /\ done = A!Last,
         dir' \in {dir, "ours"},
         UNCHANGED <<tree, task, told, late, lost, applies, edits>>
  PROVE  ApplyInv'
<1>1. saved' \in Receipts /\ saved'.status \in {"PREPARED", "APPLIED"}
       /\ (saved'.status = "APPLIED" => saved'.applied = A!Last)
  BY ReceiptType DEF ApplyInv, ApplyType, Says
<1>2. ~task.applied
  BY DEF ApplyInv, Ends, Looking
<1>3. ApplyType' /\ Places'
  BY <1>1 DEF ApplyInv, ApplyType, Places, Undoing, Looking, Writing
<1>4. Stands' /\ Ends'
  BY <1>2 DEF Stands, Ends, Undoing, Looking, Writing, A!Ours
<1>5. Says' /\ A!AppliedIsWhole' /\ A!RolledBackIsNothing'
  BY <1>1, <1>2 DEF Says, A!Ours, A!AppliedIsWhole, A!RolledBackIsNothing, Looking, Writing, Undoing
<1> QED BY <1>3, <1>4, <1>5 DEF ApplyInv

(* FailAfter alone. *)
LEMMA FailAfterKeeps ==
  ASSUME ApplyInv, NEW n \in 0 .. A!Last, A!FailAfter(n),
         pc \in Writing \cup {"stage", "staged", "verify"},
         \A f \in A!Ours : f <= n,
         \/ saved' = saved
         \/ saved' = A!Receipt("PREPARED")
         \/ saved' = A!Receipt("APPLIED") /\ done = A!Last,
         UNCHANGED <<tree, dir, task, told, late, lost, applies, edits>>
  PROVE  ApplyInv'
<1>1. call' \in Calls /\ call'.status = "ROLLED_BACK"
  BY DEF A!FailAfter, ApplyInv, ApplyType, Calls
<1>2. pc' = "undo" /\ file' = n /\ done' = n
  BY DEF A!FailAfter
<1> QED BY <1>1, <1>2, FailKeeps


LEMMA BeginKeeps ==
  ASSUME ApplyInv, NEW automatic \in BOOLEAN, A!Begin(automatic)
  PROVE  ApplyInv'
<1> USE LastIsLast, ApplyAssumption
<1>1. CASE task.applied
  <2>1. UNCHANGED <<tree, dir, task, file, done, call, saved, late, lost, edits>>
        /\ pc' = "idle" /\ told' \in {told, "refused"} /\ applies' \in 0 .. MaxApplies
    BY <1>1 DEF A!Begin, A!Return, ApplyInv, ApplyType
  <2> QED BY <1>1, <2>1 DEF ApplyInv, ApplyType, Places, Stands, Ends, Says, Looking, Writing, Undoing,
       A!AppliedIsWhole, A!RolledBackIsNothing, A!Ours, A!Original, A!Before
<1>2. CASE ~task.applied
  <2>1. /\ UNCHANGED <<tree, dir, task, saved, told, late, lost, edits>>
        /\ pc = "idle" /\ pc' = "inspect" /\ file' = 1 /\ done' = 0 /\ applies' \in 0 .. MaxApplies
        /\ call' = [automatic |-> automatic, status |-> "none", made |-> FALSE, errors |-> FALSE]
    BY <1>2 DEF A!Begin, A!Goto, ApplyInv, ApplyType
  <2>2. call' \in Calls /\ ~call'.errors /\ ~call'.made
    BY <2>1 DEF Calls
  <2> QED BY <1>2, <2>1, <2>2 DEF ApplyInv, ApplyType, Places, Stands, Ends, Says, Looking, Writing, Undoing,
       A!AppliedIsWhole, A!RolledBackIsNothing, A!Ours, A!Original, A!Before
<1> QED BY <1>1, <1>2

LEMMA StageKeeps ==
  ASSUME ApplyInv, A!Stage
  PROVE  ApplyInv'
<1> USE LastIsLast, ApplyAssumption
<1>0. /\ pc = "stage" /\ A!Ours = {}
      /\ UNCHANGED <<tree, task, saved, told, late, lost, applies, edits>>
  BY DEF A!Stage, A!outside, ApplyInv, Stands, Looking
<1>1. CASE A!FailAfter(0) /\ UNCHANGED dir
  BY <1>0, <1>1, FailAfterKeeps
<1>2. ASSUME NEW made \in Calls, made.status = "ROLLED_BACK",
             A!Goto("undo", 0), done' = 0, call' = made, dir' \in {dir, "ours"}
      PROVE  ApplyInv'
  BY <1>0, <1>2, FailKeeps DEF A!Goto
<1>3. ASSUME call' \in Calls, ~call'.errors, UNCHANGED done, dir' \in {dir, "ours"},
             \/ file = A!Last /\ A!Goto("staged", 1)
             \/ file # A!Last /\ A!Goto("stage", file + 1)
      PROVE  ApplyInv'
  BY <1>0, <1>3 DEF A!Goto, ApplyInv, ApplyType, Places, Stands, Ends, Says, Looking, Writing, Undoing,
       A!AppliedIsWhole, A!RolledBackIsNothing, A!Ours, A!Original, A!Before
<1> DEFINE made == [call EXCEPT !.made = @ \/ (file \in New /\ dir = "absent")]
<1>4. /\ made \in Calls /\ ~made.errors
      /\ [made EXCEPT !.status = "ROLLED_BACK"] \in Calls
      /\ [made EXCEPT !.status = "ROLLED_BACK"].status = "ROLLED_BACK"
  BY <1>0 DEF ApplyInv, ApplyType, Calls, Ends, Looking
<1>5. \/ A!FailAfter(0) /\ UNCHANGED dir
      \/ /\ dir' \in {dir, "ours"}
         /\ \/ /\ call' = made /\ UNCHANGED done
               /\ \/ file = A!Last /\ A!Goto("staged", 1)
                  \/ file # A!Last /\ A!Goto("stage", file + 1)
            \/ A!Goto("undo", 0) /\ done' = 0 /\ call' = [made EXCEPT !.status = "ROLLED_BACK"]
  BY DEF A!Stage
<1> HIDE DEF made
<1> QED BY <1>1, <1>2, <1>3, <1>4, <1>5

LEMMA VerifyKeeps ==
  ASSUME ApplyInv, A!Verify
  PROVE  ApplyInv'
<1> USE LastIsLast, ApplyAssumption
<1>0. /\ pc = "verify" /\ A!Ours = {} /\ file \in Changed
      /\ UNCHANGED <<tree, dir, task, saved, told, late, lost, applies, edits>>
  BY DEF A!Verify, A!outside, ApplyInv, Stands, Looking, Places
<1>1. CASE A!FailAfter(0)
  BY <1>0, <1>1, FailAfterKeeps
<1>2. CASE UNCHANGED <<done, call>> /\ file = A!Last /\ A!Goto("check", 1)
  <2>1. pc' = "check" /\ file' = 1 /\ done = 0 /\ \A f \in Changed : tree[f] # "new"
    BY <1>0, <1>2 DEF A!Goto, A!Ours, ApplyInv, Places, Looking
  <2> QED BY <1>0, <1>2, <2>1 DEF ApplyInv, ApplyType, Places, Stands, Ends, Says, Looking,
       Writing, Undoing, A!AppliedIsWhole, A!RolledBackIsNothing, A!Original, A!Before
<1>3. CASE UNCHANGED <<done, call>> /\ file # A!Last /\ A!Goto("verify", file + 1)
  <2>1. pc' = "verify" /\ file' \in Changed /\ A!Ours' = {}
    BY <1>0, <1>3 DEF A!Goto, A!Ours
  <2> QED BY <1>0, <1>3, <2>1 DEF ApplyInv, ApplyType, Places, Stands, Ends, Says, Looking,
       Writing, Undoing, A!AppliedIsWhole, A!RolledBackIsNothing, A!Original, A!Before
<1> QED BY <1>1, <1>2, <1>3 DEF A!Verify

LEMMA RenameKeeps ==
  ASSUME ApplyInv, A!Rename
  PROVE  ApplyInv'
<1> USE LastIsLast, ApplyAssumption
<1>0. /\ pc = "rename" /\ file \in Changed /\ done = file - 1
      /\ UNCHANGED <<dir, task, saved, told, late, applies, edits>>
  BY DEF A!Rename, A!outside, ApplyInv, Looking, Writing, Places
<1>1. CASE A!FailAfter(done) /\ UNCHANGED <<tree, lost>>
  <2>1. \A f \in A!Ours : f <= done
    BY <1>0 DEF ApplyInv, Stands, Writing, A!Ours
  <2> QED BY <1>0, <1>1, <2>1, FailAfterKeeps DEF Writing
<1>2. CASE A!Overwrite(file, "new") /\ A!Goto("record", file) /\ done' = file /\ UNCHANGED call
  <2>1. lost' = {} /\ tree' = [tree EXCEPT ![file] = "new"]
    BY <1>0, <1>2 DEF A!Overwrite, ApplyInv, ApplyType, Stands
  <2> QED BY <1>0, <1>2, <2>1 DEF A!Goto, ApplyInv, ApplyType, Places, Stands, Ends, Says, Looking, Writing, Undoing,
       A!AppliedIsWhole, A!RolledBackIsNothing, A!Ours, A!Original, A!Before
<1> QED BY <1>1, <1>2 DEF A!Rename

LEMMA FinishKeeps ==
  ASSUME ApplyInv, A!Finish
  PROVE  ApplyInv'
<1> USE LastIsLast, ApplyAssumption
<1>0. /\ pc = "finish" /\ file \in Changed /\ done = A!Last
      /\ UNCHANGED <<tree, dir, told, late, lost, applies, edits>>
  BY DEF A!Finish, A!outside, ApplyInv, Looking, Writing, Places
<1>1. CASE A!SaveError(A!Receipt("APPLIED")) /\ A!FailAfter(done) /\ UNCHANGED task
  <2>1. \A f \in A!Ours : f <= done
    BY <1>0 DEF A!Ours
  <2> QED BY <1>0, <1>1, <2>1, FailAfterKeeps DEF Writing, A!SaveError
<1>2. CASE /\ A!SaveOK(A!Receipt("APPLIED")) /\ A!Goto("close", file)
           /\ call' = [call EXCEPT !.status = "APPLIED"]
           /\ task' = [task EXCEPT !.applied = TRUE] /\ UNCHANGED done
  <2>1. saved' \in Receipts /\ saved'.status = "APPLIED" /\ saved'.applied = A!Last
    BY <1>0, <1>2, ReceiptType DEF ApplyInv, A!SaveOK
  <2>2. call' \in Calls /\ call'.status = "APPLIED" /\ ~call'.errors
        /\ task' \in [status : {"applying", "PASS"}, applied : BOOLEAN] /\ task'.applied
    BY <1>0, <1>2 DEF ApplyInv, ApplyType, Calls, Ends, Writing
  <2> QED BY <1>0, <1>2, <2>1, <2>2 DEF A!Goto, ApplyInv, ApplyType, Places, Stands, Ends, Says, Looking, Writing, Undoing,
       A!AppliedIsWhole, A!RolledBackIsNothing, A!Ours, A!Original, A!Before
<1> QED BY <1>1, <1>2 DEF A!Finish

LEMMA UndoKeeps ==
  ASSUME ApplyInv, A!Undo
  PROVE  ApplyInv'
<1> USE LastIsLast, ApplyAssumption
<1>0. /\ pc = "undo" /\ ~task.applied
      /\ UNCHANGED <<tree, dir, task, done, saved, told, late, lost, applies, edits>>
  BY DEF A!Undo, A!outside, ApplyInv, Ends, Undoing
<1>1. CASE file = 0 /\ A!Goto("clean", 0) /\ UNCHANGED call
  BY <1>0, <1>1 DEF A!Goto, ApplyInv, ApplyType, Places, Stands, Ends, Says, Looking, Writing, Undoing,
       A!AppliedIsWhole, A!RolledBackIsNothing, A!Ours, A!Original, A!Before
<1>2. CASE file > 0 /\ tree[file] = "new" /\ A!Goto("restore", file) /\ UNCHANGED call
  BY <1>0, <1>2 DEF A!Goto, ApplyInv, ApplyType, Places, Stands, Ends, Says, Looking, Writing, Undoing,
       A!AppliedIsWhole, A!RolledBackIsNothing, A!Ours, A!Original, A!Before
<1>3. CASE file > 0 /\ A!Goto("undo", file - 1) /\ call' = [call EXCEPT !.errors = TRUE]
  <2>1. call' \in Calls /\ call'.errors /\ call'.status = call.status
    BY <1>3 DEF ApplyInv, ApplyType, Calls
  <2> QED BY <1>0, <1>3, <2>1 DEF A!Goto, ApplyInv, ApplyType, Places, Stands, Ends, Says, Looking, Writing, Undoing,
       A!AppliedIsWhole, A!RolledBackIsNothing, A!Ours, A!Original, A!Before
<1> QED BY <1>1, <1>2, <1>3 DEF A!Undo

LEMMA RestoreKeeps ==
  ASSUME ApplyInv, A!Restore
  PROVE  ApplyInv'
<1> USE LastIsLast, ApplyAssumption
<1>0. /\ pc = "restore" /\ ~task.applied /\ file \in Changed
      /\ pc' = "undo" /\ file' = file - 1
      /\ UNCHANGED <<dir, task, done, saved, told, late, applies, edits>>
  BY DEF A!Restore, A!Goto, A!outside, ApplyInv, Ends, Places, Undoing
<1>1. [call EXCEPT !.errors = TRUE] \in Calls
      /\ [call EXCEPT !.errors = TRUE].errors
      /\ [call EXCEPT !.errors = TRUE].status = call.status
  BY DEF ApplyInv, ApplyType, Calls
<1>2. CASE A!Overwrite(file, A!Before(file)) /\ call' \in {call, [call EXCEPT !.errors = TRUE]}
  <2>1. lost' = {} /\ tree' = [tree EXCEPT ![file] = A!Before(file)]
    BY <1>0, <1>2 DEF A!Overwrite, ApplyInv, ApplyType, Stands
  <2>2. call' \in Calls /\ call'.status = call.status /\ (call.errors => call'.errors)
    BY <1>1, <1>2 DEF ApplyInv, ApplyType
  <2>3. tree' \in [Changed -> {"absent", "old", "new", "user"}] /\ A!Ours' \subseteq A!Ours \ {file}
    BY <1>0, <2>1 DEF ApplyInv, ApplyType, A!Ours, A!Before
  <2>4. ApplyType' /\ Places'
    BY <1>0, <2>1, <2>2, <2>3 DEF ApplyInv, ApplyType, Places, Looking, Writing, Undoing
  <2>5. Ends'
    BY <1>0, <2>2 DEF ApplyInv, Ends, Looking, Writing, Undoing
  <2>6. \A f \in A!Ours' : f \in Nat /\ f <= done /\ (f <= file - 1 \/ call'.errors)
    BY <1>0, <2>2, <2>3 DEF ApplyInv, Stands, Undoing, A!Ours
  <2>7. Stands'
    BY <1>0, <2>6 DEF Stands, Looking, Writing, Undoing
  <2>8. saved.status \in {"PREPARED", "APPLIED"}
    BY <1>0 DEF ApplyInv, Says, Undoing
  <2>9. A!AppliedIsWhole' /\ A!RolledBackIsNothing'
    BY <1>0, <2>8 DEF A!AppliedIsWhole, A!RolledBackIsNothing
  <2>10. Says'
    BY <1>0, <2>3, <2>8 DEF ApplyInv, Says, Looking, Writing, Undoing
  <2> QED BY <2>4, <2>5, <2>7, <2>9, <2>10 DEF ApplyInv

<1>3. CASE call' = [call EXCEPT !.errors = TRUE] /\ UNCHANGED <<tree, lost>>
  BY <1>0, <1>1, <1>3 DEF ApplyInv, ApplyType, Places, Stands, Ends, Says, Looking, Writing, Undoing,
       A!AppliedIsWhole, A!RolledBackIsNothing, A!Ours, A!Original, A!Before
<1> QED BY <1>2, <1>3 DEF A!Restore

LEMMA CleanKeeps ==
  ASSUME ApplyInv, A!Clean
  PROVE  ApplyInv'
<1> USE LastIsLast, ApplyAssumption
<1>0. /\ pc = "clean" /\ ~task.applied /\ pc' = "close" /\ file' = 0
      /\ UNCHANGED <<tree, task, done, saved, told, late, lost, applies, edits>>
  BY DEF A!Clean, A!Goto, A!outside, ApplyInv, Ends, Undoing
<1>1. [call EXCEPT !.errors = TRUE] \in Calls
      /\ [call EXCEPT !.errors = TRUE].errors
      /\ [call EXCEPT !.errors = TRUE].status = call.status
  BY DEF ApplyInv, ApplyType, Calls
<1>2. \/ ~call.made /\ UNCHANGED <<dir, call>>
      \/ dir' = "absent" /\ UNCHANGED call
      \/ call' = [call EXCEPT !.errors = TRUE] /\ UNCHANGED dir
  BY DEF A!Clean
<1>3. dir' \in {"absent", "ours", "theirs"} /\ call' \in Calls /\ call'.status = "ROLLED_BACK"
      /\ (call.errors => call'.errors)
      /\ (~call'.errors /\ call'.made => dir' # "ours")
  BY <1>0, <1>1, <1>2 DEF ApplyInv, ApplyType, Ends, Undoing
<1>4. ApplyType' /\ Places' /\ Ends'
  BY <1>0, <1>3 DEF ApplyInv, ApplyType, Places, Ends, Looking, Writing, Undoing
<1>5. Stands'
  BY <1>0, <1>3 DEF ApplyInv, Stands, Places, Looking, Writing, Undoing, A!Ours
<1>6. saved.status \in {"PREPARED", "APPLIED"}
  BY <1>0 DEF ApplyInv, Says, Undoing
<1>7. A!AppliedIsWhole' /\ A!RolledBackIsNothing'
  BY <1>0, <1>6 DEF A!AppliedIsWhole, A!RolledBackIsNothing
<1>8. Says'
  BY <1>0, <1>6 DEF ApplyInv, Says, Looking, Writing, Undoing, A!Ours
<1> QED BY <1>4, <1>5, <1>7, <1>8 DEF ApplyInv

(* A call that ends before its first rename: nothing is ours.              *)
LEMMA RefuseKeeps ==
  ASSUME ApplyInv, pc \in {"inspect", "prepare"}, A!Refuse,
         saved' \in {saved, A!Receipt("PREPARED")}, saved' = saved \/ A!Ours = {}
  PROVE  ApplyInv'
<1> USE LastIsLast
<1>1. /\ pc' = "idle" /\ told' \in {"unsaved", "refused"} /\ (told = "unsaved" => told' = told)
      /\ UNCHANGED <<tree, dir, file, done, call, late, lost, applies, edits>>
  BY DEF A!Refuse, A!Return, A!outside
<1>2. task' \in [status : {"applying", "PASS"}, applied : BOOLEAN] /\ ~task'.applied
      /\ ~task.applied
  BY DEF A!Refuse, A!EndTask, ApplyInv, ApplyType, Ends, Looking
<1>3. saved' \in Receipts /\ (saved' = saved \/ saved'.status = "PREPARED")
  BY ReceiptType DEF ApplyInv, ApplyType
<1>4. ApplyType'
  BY <1>1, <1>2, <1>3 DEF ApplyInv, ApplyType
<1>5. Places' /\ Stands' /\ Ends'
  BY <1>1 DEF Places, Stands, Ends, Looking, Writing, Undoing
<1>6. A!Ours' = A!Ours
  BY <1>1 DEF A!Ours
<1>7. Says'
  <2>1. pc = "prepare" => A!Ours = {}
    BY DEF ApplyInv, Stands, Looking
  <2>2. saved'.status \in {saved.status, "PREPARED"}
    BY <1>3
  <2>3. A!Ours' # {} => saved' = saved
    BY <1>6
  <2> QED BY <1>1, <1>2, <1>3, <1>6, <2>1, <2>2, <2>3 DEF ApplyInv, Says, Looking, Writing, Undoing
<1>8. A!AppliedIsWhole' /\ A!RolledBackIsNothing'
  BY <1>1, <1>2, <1>3, <1>6 DEF ApplyInv, A!AppliedIsWhole, A!RolledBackIsNothing
<1> QED BY <1>4, <1>5, <1>7, <1>8 DEF ApplyInv

LEMMA InspectKeeps ==
  ASSUME ApplyInv, A!Inspect
  PROVE  ApplyInv'
<1> USE LastIsLast, ApplyAssumption
<1>0. pc = "inspect" /\ file \in Changed /\ ~task.applied /\ ~call.errors /\ done = 0
  BY DEF A!Inspect, ApplyInv, Places, Ends, Looking
<1>1. CASE A!Refuse /\ UNCHANGED saved
  BY <1>0, <1>1, RefuseKeeps
<1>2. CASE /\ A!Original(file)
           /\ IF file = A!Last THEN A!Goto("prepare", 1) ELSE A!Goto("inspect", file + 1)
           /\ UNCHANGED <<tree, dir, task, done, call, saved, told, late, lost, A!outside>>
  <2>1. /\ UNCHANGED <<tree, dir, task, done, call, saved, told, late, lost, applies, edits>>
        /\ tree[file] # "new"
    BY <1>0, <1>2 DEF A!outside, A!Original, A!Before
  <2>2. \/ file = A!Last /\ pc' = "prepare" /\ file' = 1
        \/ file # A!Last /\ pc' = "inspect" /\ file' = file + 1
    BY <1>2 DEF A!Goto
  <2>3. file' \in Changed
    BY <1>0, <2>2
  <2>4. \A f \in Changed : f <= file => tree[f] # "new"
    BY <1>0, <2>1 DEF ApplyInv, Stands
  <2>5. ApplyType' /\ Places' /\ Ends'
    BY <1>0, <2>1, <2>2, <2>3 DEF ApplyInv, ApplyType, Places, Ends, Looking, Writing, Undoing
  <2>6. Stands'
    BY <1>0, <2>1, <2>2, <2>4 DEF Stands, Looking, Writing, Undoing, A!Ours
  <2>7. A!Ours' = A!Ours /\ A!AppliedIsWhole' /\ A!RolledBackIsNothing'
    BY <1>0, <2>1 DEF ApplyInv, A!Ours, A!AppliedIsWhole, A!RolledBackIsNothing
  <2>8. pc' = "prepare" => A!Ours = {}
    BY <1>0, <2>2, <2>4 DEF A!Ours
  <2>9. Says'
    BY <1>0, <2>1, <2>2, <2>7, <2>8 DEF ApplyInv, Says, Looking, Writing, Undoing
  <2> QED BY <2>5, <2>6, <2>7, <2>9 DEF ApplyInv
<1> QED BY <1>1, <1>2 DEF A!Inspect

(* The first receipts say that nothing is applied yet.                     *)
LEMMA SavedKeeps ==
  ASSUME ApplyInv, pc \in {"prepare", "staged"}, saved' = A!Receipt("PREPARED"),
         pc' \in {"stage", "verify"}, file' = 1, call' \in Calls, ~call'.errors,
         UNCHANGED <<tree, dir, task, done, told, late, lost, applies, edits>>
  PROVE  ApplyInv'
<1> USE LastIsLast, ApplyAssumption
<1>1. A!Ours = {} /\ A!Ours' = {} /\ ~task.applied /\ done = 0
  BY DEF ApplyInv, Stands, Ends, Places, Looking, A!Ours
<1>2. saved' \in Receipts /\ saved'.status = "PREPARED"
  BY ReceiptType DEF ApplyInv
<1>3. ApplyType' /\ Places' /\ Ends'
  BY <1>1, <1>2 DEF ApplyInv, ApplyType, Places, Ends, Looking, Writing, Undoing
<1>4. Stands' /\ Says' /\ A!AppliedIsWhole' /\ A!RolledBackIsNothing'
  BY <1>1, <1>2 DEF Stands, Says, Looking, Writing, Undoing, A!AppliedIsWhole,
                    A!RolledBackIsNothing
<1> QED BY <1>3, <1>4 DEF ApplyInv

LEMMA PrepareKeeps ==
  ASSUME ApplyInv, A!Prepare
  PROVE  ApplyInv'
<1>0. pc = "prepare" /\ A!Ours = {}
  BY DEF A!Prepare, ApplyInv, Stands, Looking
<1>1. CASE A!Refuse /\ A!SaveError(A!Receipt("PREPARED"))
  BY <1>0, <1>1, RefuseKeeps DEF A!SaveError
<1>2. CASE /\ A!SaveOK(A!Receipt("PREPARED")) /\ A!Goto("stage", 1)
           /\ call' = [call EXCEPT !.status = "PREPARED"]
           /\ UNCHANGED <<tree, dir, task, done, told, late, lost, A!outside>>
  <2>1. call' \in Calls /\ ~call'.errors
    BY <1>0, <1>2 DEF ApplyInv, ApplyType, Ends, Looking, Calls
  <2> QED BY <1>0, <1>2, <2>1, SavedKeeps DEF A!SaveOK, A!Goto, A!outside
<1> QED BY <1>1, <1>2 DEF A!Prepare

LEMMA StagedKeeps ==
  ASSUME ApplyInv, A!Staged
  PROVE  ApplyInv'
<1>0. /\ pc = "staged" /\ A!Ours = {} /\ call \in Calls /\ ~call.errors
      /\ UNCHANGED <<tree, dir, task, told, late, lost, applies, edits>>
  BY DEF A!Staged, A!outside, ApplyInv, ApplyType, Stands, Ends, Looking
<1>1. CASE A!SaveError(A!Receipt("PREPARED")) /\ A!FailAfter(0)
  <2>1. 0 \in 0 .. A!Last /\ \A f \in A!Ours : f <= 0
    BY <1>0, LastIsLast
  <2> QED BY <1>0, <1>1, <2>1, FailAfterKeeps DEF A!SaveError
<1>2. CASE A!SaveOK(A!Receipt("PREPARED")) /\ A!Goto("verify", 1) /\ UNCHANGED <<done, call>>
  BY <1>0, <1>2, SavedKeeps DEF A!SaveOK, A!Goto
<1> QED BY <1>1, <1>2 DEF A!Staged

LEMMA CheckKeeps ==
  ASSUME ApplyInv, A!Check
  PROVE  ApplyInv'
<1> USE LastIsLast, ApplyAssumption
<1>0. /\ pc = "check" /\ file \in Changed /\ done = file - 1 /\ ~task.applied
      /\ UNCHANGED <<tree, dir, task, saved, told, late, lost, applies, edits>>
  BY DEF A!Check, A!outside, ApplyInv, Places, Ends, Looking, Writing
<1>1. CASE A!FailAfter(done)
  <2>1. done \in 0 .. A!Last /\ \A f \in A!Ours : f <= done
    BY <1>0 DEF ApplyInv, ApplyType, Stands, Writing, A!Ours
  <2> QED BY <1>0, <1>1, <2>1, FailAfterKeeps DEF Writing
<1>2. CASE A!Original(file) /\ A!Goto("rename", file) /\ UNCHANGED <<done, call>>
  <2>1. pc' = "rename" /\ file' = file /\ tree[file] # "user" /\ A!Ours' = A!Ours
    BY <1>0, <1>2 DEF A!Goto, A!Original, A!Before, A!Ours
  <2>2. ApplyType' /\ Places' /\ Ends'
    BY <1>0, <1>2, <2>1 DEF ApplyInv, ApplyType, Places, Ends, Looking, Writing, Undoing
  <2>3. Stands'
    BY <1>0, <1>2, <2>1 DEF ApplyInv, Stands, Looking, Writing, Undoing, A!Original, A!Before
  <2>4. Says'
    BY <1>0, <2>1 DEF ApplyInv, Says, Looking, Writing, Undoing
  <2>5. A!AppliedIsWhole' /\ A!RolledBackIsNothing'
    BY <1>0, <1>2, <2>1 DEF ApplyInv, A!AppliedIsWhole, A!RolledBackIsNothing
  <2> QED BY <2>2, <2>3, <2>4, <2>5 DEF ApplyInv
<1> QED BY <1>1, <1>2 DEF A!Check

LEMMA RecordKeeps ==
  ASSUME ApplyInv, A!Record
  PROVE  ApplyInv'
<1> USE LastIsLast, ApplyAssumption
<1>1. /\ pc = "record" /\ file \in Changed /\ done = file /\ saved.status = "PREPARED"
      /\ UNCHANGED <<tree, dir, task, told, late, lost, applies, edits>>
  BY DEF A!Record, A!outside, ApplyInv, Looking, Writing, Places, Says
<1>2. A!Receipt("PREPARED") \in Receipts /\ A!Receipt("PREPARED").status = "PREPARED"
  BY ReceiptType DEF ApplyInv
<1>3. CASE A!SaveError(A!Receipt("PREPARED")) /\ A!FailAfter(file)
  <2>1. \A f \in A!Ours : f <= done
    BY <1>1 DEF ApplyInv, Stands, Writing, A!Ours
  <2> QED BY <1>1, <1>3, <2>1, FailAfterKeeps DEF Writing, A!SaveError
<1>4. CASE /\ A!SaveOK(A!Receipt("PREPARED")) /\ UNCHANGED <<done, call>>
           /\ IF file = A!Last THEN A!Goto("finish", file) ELSE A!Goto("check", file + 1)
  BY <1>1, <1>2, <1>4 DEF A!Goto, A!SaveOK, ApplyInv, ApplyType, Places, Stands, Ends, Says, Looking, Writing, Undoing,
       A!AppliedIsWhole, A!RolledBackIsNothing, A!Ours, A!Original, A!Before
<1> QED BY <1>3, <1>4 DEF A!Record

LEMMA CloseKeeps ==
  ASSUME ApplyInv, A!Close
  PROVE  ApplyInv'
<1> USE LastIsLast
<1>1. /\ pc = "close" /\ pc' = "idle"
      /\ UNCHANGED <<tree, dir, file, done, call, late, lost, applies, edits>>
      /\ \/ saved' = A!FinalReceipt /\ told' \in {told, "ok", "refused"}
         \/ saved' \in {saved, A!FinalReceipt} /\ told' = "unsaved"
  BY DEF A!Close, A!Return, A!SaveOK, A!SaveError, A!outside
<1>2. task' \in [status : {"applying", "PASS"}, applied : BOOLEAN]
      /\ task'.applied = task.applied
  BY DEF A!Close, A!EndTask, ApplyInv, ApplyType
<1>3. PICK s \in {"APPLIED", "ROLLED_BACK", "ROLLBACK_UNCERTAIN"} :
        /\ A!FinalReceipt = A!Receipt(s)
        /\ s = IF call.errors THEN "ROLLBACK_UNCERTAIN" ELSE call.status
  BY <1>1 DEF A!FinalReceipt, ApplyInv, Ends
<1>4. A!FinalReceipt \in Receipts /\ A!FinalReceipt.status = s /\ A!FinalReceipt.applied = done
  BY <1>3, ReceiptType DEF ApplyInv
<1>5. A!Ours' = A!Ours /\ done \in 0 .. A!Last /\ A!Ours \subseteq 1 .. A!Last
  BY <1>1 DEF A!Ours, ApplyInv, ApplyType
<1>6. CASE task.applied
  <2>1. s = "APPLIED" /\ done = A!Last
    BY <1>1, <1>3, <1>6 DEF ApplyInv, Ends
  <2>2. saved.status = "APPLIED" /\ saved.applied = A!Last
    BY <1>6 DEF ApplyInv, A!AppliedIsWhole, Says
  <2>3. saved' \in Receipts /\ saved'.status = "APPLIED" /\ saved'.applied = A!Last
    BY <1>1, <1>4, <2>1, <2>2 DEF ApplyInv, ApplyType
  <2>4. ApplyType'
    BY <1>1, <1>2, <2>3 DEF ApplyInv, ApplyType
  <2>5. Places' /\ Stands' /\ Ends'
    BY <1>1 DEF Places, Stands, Ends, Looking, Writing, Undoing
  <2>6. Says'
    BY <1>1, <1>2, <1>6, <2>3 DEF Says, Looking, Writing, Undoing
  <2>7. A!AppliedIsWhole' /\ A!RolledBackIsNothing'
    BY <1>1, <1>2, <1>6, <2>3 DEF ApplyInv, A!AppliedIsWhole, A!RolledBackIsNothing, A!Original,
                                  A!Before
  <2> QED BY <2>4, <2>5, <2>6, <2>7 DEF ApplyInv
<1>7. CASE ~task.applied
  <2>1. /\ s \in {"ROLLED_BACK", "ROLLBACK_UNCERTAIN"}
        /\ s = "ROLLED_BACK" => ~call.errors /\ (call.made => dir # "ours")
    BY <1>1, <1>3, <1>7 DEF ApplyInv, Ends
  <2>2. /\ A!Ours \subseteq 1 .. done
        /\ ~call.errors => A!Ours = {}
    <3>1. file = 0 /\ \A f \in A!Ours : f <= done /\ (f <= file \/ call.errors)
      BY <1>1, <1>7 DEF ApplyInv, Stands, Places
    <3> QED BY <1>5, <3>1
  <2>3. saved.status \in {"PREPARED", "APPLIED"}
    BY <1>1 DEF ApplyInv, Says
  <2>4. saved' \in Receipts /\ (saved' = saved \/ saved' = A!FinalReceipt)
        /\ (told' # "unsaved" => saved' = A!FinalReceipt)
    BY <1>1, <1>4 DEF ApplyInv, ApplyType
  <2>5. ApplyType'
    BY <1>1, <1>2, <2>4 DEF ApplyInv, ApplyType
  <2>6. Places' /\ Stands' /\ Ends'
    BY <1>1 DEF Places, Stands, Ends, Looking, Writing, Undoing
  <2>7. Says'
    BY <1>1, <1>2, <1>4, <1>5, <2>1, <2>2, <2>3, <2>4
       DEF ApplyInv, Says, Looking, Writing, Undoing
  <2>8. A!AppliedIsWhole' /\ A!RolledBackIsNothing'
    BY <1>1, <1>2, <1>4, <1>5, <1>7, <2>1, <2>2, <2>3, <2>4
       DEF A!AppliedIsWhole, A!RolledBackIsNothing
  <2> QED BY <2>5, <2>6, <2>7, <2>8 DEF ApplyInv
<1> QED BY <1>6, <1>7

LEMMA CrashKeeps ==
  ASSUME ApplyInv, A!Crash
  PROVE  ApplyInv'
<1>1. /\ pc \notin {"idle", "dead"} /\ pc' = "dead"
      /\ UNCHANGED <<tree, dir, task, file, done, call, saved, told, late, lost, applies, edits>>
  BY DEF A!Crash, A!outside
<1>2. ApplyType'
  BY <1>1 DEF ApplyInv, ApplyType
<1>3. Places' /\ Stands' /\ Ends'
  BY <1>1 DEF Places, Stands, Ends, Looking, Writing, Undoing
<1>4. A!Ours' = A!Ours /\ A!AppliedIsWhole' /\ A!RolledBackIsNothing'
  BY <1>1 DEF ApplyInv, A!Ours, A!AppliedIsWhole, A!RolledBackIsNothing, A!Original
<1>5. Says'
  BY <1>1, <1>4 DEF ApplyInv, Says, Looking, Writing, Undoing
<1> QED BY <1>2, <1>3, <1>4, <1>5 DEF ApplyInv

LEMMA EditKeeps ==
  ASSUME ApplyInv, NEW f \in Changed, A!Edit(f)
  PROVE  ApplyInv'
<1> USE LastIsLast, ApplyAssumption
<1>1. /\ tree' = [tree EXCEPT ![f] = "user"] /\ edits' \in 0 .. MaxEdits
      /\ dir' \in {dir, "theirs"}
      /\ late' = IF pc \in {"rename", "restore"} /\ file = f THEN late \cup {f} ELSE late \ {f}
      /\ UNCHANGED <<task, pc, file, done, call, saved, told, lost, applies>>
  BY DEF A!Edit, ApplyInv, ApplyType
<1>2. tree' \in [Changed -> {"absent", "old", "new", "user"}]
      /\ tree'[f] = "user" /\ \A g \in Changed : g # f => tree'[g] = tree[g]
  BY <1>1 DEF ApplyInv, ApplyType
<1>3. A!Ours' = A!Ours \ {f}
  BY <1>2 DEF A!Ours
<1>4. \A g \in Changed : ~A!Original(g) => ~A!Original(g)'
  BY <1>2 DEF A!Original, A!Before
<1>5. ApplyType' /\ Places' /\ Ends'
  BY <1>1, <1>2 DEF ApplyInv, ApplyType, Places, Ends
<1>6. Stands'
  <2>1. pc \in Writing => \A g \in Changed :
          IF g <= done THEN ~A!Original(g)' ELSE tree'[g] # "new"
    BY <1>2, <1>4 DEF ApplyInv, Stands
  <2>2. /\ pc = "inspect" => \A g \in Changed : g < file => tree'[g] # "new"
        /\ pc \in Looking \ {"inspect"} => A!Ours' = {}
    BY <1>2, <1>3 DEF ApplyInv, Stands
  <2>3. pc \in Undoing \cup {"close"} /\ ~task.applied => \A g \in A!Ours' :
          g <= done /\ (g <= file \/ call.errors)
    BY <1>3 DEF ApplyInv, Stands
  <2>4. pc \in {"rename", "restore"} /\ tree'[file] = "user" => file \in late'
    <3>1. pc \in {"rename", "restore"} => file \in Changed
      BY DEF ApplyInv, Places, Writing
    <3> QED BY <1>1, <1>2, <3>1 DEF ApplyInv, Stands
  <2> QED BY <1>1, <2>1, <2>2, <2>3, <2>4 DEF Stands
<1>7. Says'
  BY <1>1, <1>3 DEF ApplyInv, Says
<1>8. A!AppliedIsWhole' /\ A!RolledBackIsNothing'
  BY <1>1, <1>3, <1>4 DEF ApplyInv, A!AppliedIsWhole, A!RolledBackIsNothing
<1> QED BY <1>5, <1>6, <1>7, <1>8 DEF ApplyInv

LEMMA ApplyStart == A!Init => ApplyInv
BY LastIsLast, ApplyAssumption
   DEF A!Init, A!NoReceipt, Calls, Receipts, ApplyInv, ApplyType, Places, Stands, Ends, Says, Looking, Writing, Undoing,
   A!AppliedIsWhole, A!RolledBackIsNothing, A!Ours, A!Original, A!Before

LEMMA ApplyStep == ApplyInv /\ [A!Next]_applyVars => ApplyInv'
<1> SUFFICES ASSUME ApplyInv, [A!Next]_applyVars PROVE ApplyInv'
  OBVIOUS
<1>1. CASE \E automatic \in BOOLEAN : A!Begin(automatic)
  BY <1>1, BeginKeeps
<1>2. CASE A!Inspect \/ A!Prepare \/ A!Stage \/ A!Staged \/ A!Verify
  BY <1>2, InspectKeeps, PrepareKeeps, StageKeeps, StagedKeeps, VerifyKeeps
<1>3. CASE A!Check \/ A!Rename \/ A!Record \/ A!Finish
  BY <1>3, CheckKeeps, RenameKeeps, RecordKeeps, FinishKeeps
<1>4. CASE A!Undo \/ A!Restore \/ A!Clean \/ A!Close
  BY <1>4, UndoKeeps, RestoreKeeps, CleanKeeps, CloseKeeps
<1>5. CASE A!Crash \/ \E f \in Changed : A!Edit(f)
  BY <1>5, CrashKeeps, EditKeeps
<1>6. CASE UNCHANGED applyVars
  BY <1>6 DEF applyVars, ApplyInv, ApplyType, Places, Stands, Ends, Says, Looking, Writing, Undoing,
   A!AppliedIsWhole, A!RolledBackIsNothing, A!Ours, A!Original, A!Before
<1> QED BY <1>1, <1>2, <1>3, <1>4, <1>5, <1>6 DEF A!Next

(* The invariant holds whatever step fails, whatever the user writes and
   wherever the process dies. *)
THEOREM ApplyInvariant == Request => []ApplyInv
<1>1. StartRequest => ApplyInv
  BY ApplyStart DEF StartRequest
<1>2. ApplyInv /\ [Streaming(Next) \/ Applying]_<<about, vars, applyVars>> => ApplyInv'
  <2>1. [Streaming(Next) \/ Applying]_<<about, vars, applyVars>> => [A!Next]_applyVars
    BY DEF Streaming, Applying
  <2> QED BY <2>1, ApplyStep
<1> QED BY <1>1, <1>2, PTL DEF Request

(* All files of an apply or none, or its receipt names what is left; and no
   write of the user is lost but one made after the last look at its file. *)
THEOREM AppliesAreHonest == Request => []ApplyIsHonest
<1>1. ApplyInv => ApplyIsHonest
  <2> SUFFICES ASSUME ApplyInv PROVE A!RemainsAreNamed /\ lost = {}
    BY DEF ApplyInv, ApplyIsHonest, A!ApplyIsHonest
  <2>1. A!Ours \subseteq 1 .. A!Last
    BY LastIsLast DEF A!Ours
  <2> QED BY <2>1 DEF ApplyInv, ApplyType, Says, A!RemainsAreNamed
<1> QED BY <1>1, ApplyInvariant, PTL
=============================================================================
