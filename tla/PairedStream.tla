----------------------------- MODULE PairedStream -----------------------------
(***************************************************************************)
(* One streaming pairedJob (paired.go): the two drain goroutines, run()    *)
(* and the HTTP handler share the bounded channel frames and the flags     *)
(* detached, clientSlow and err.  Rank 0's frames reach the client while   *)
(* the ranks still compute; the terminal frames are held back until both   *)
(* ranks ended and agreed.                                                 *)
(***************************************************************************)
EXTENDS Naturals, Sequences

CONSTANTS
  Capacity,             \* of the frames channel (128 in the code)
  MaxFrames             \* bound: frames before the terminal ones

ASSUME CapacityAssumption == Capacity \in Nat \ {0}
ASSUME MaxFramesAssumption == MaxFrames \in Nat

VARIABLES
  rank,                 \* each drain: "reading", "holding", "ok" or "bad"
  produced,             \* frames rank 0 has parsed before its terminal ones
  frames, closed,       \* the channel
  detached, slow,       \* pairedJob.detached, clientSlow
  err,                  \* pairedJob.err
  run,                  \* where run() is
  agreed,               \* both outputs were equal and the marker was removed
  handler,              \* where ServeHTTP is
  sent,                 \* what the client has been sent
  panicked              \* a send on a closed channel

vars == <<rank, produced, frames, closed, detached, slow, err, run, agreed,
          handler, sent, panicked>>

Ranks == {0, 1}
Data == 1..MaxFrames
Terminal == MaxFrames + 1
ErrorEvent == MaxFrames + 2
Frames == Data \cup {Terminal, ErrorEvent}

Init ==
  /\ rank = [r \in Ranks |-> "reading"] /\ produced = 0
  /\ frames = <<>> /\ closed = FALSE
  /\ detached = FALSE /\ slow = FALSE /\ err = FALSE
  /\ run = "collect" /\ agreed = FALSE
  /\ handler = "select" /\ sent = <<>>
  /\ panicked = FALSE

(* Under j.mu: drop, queue, or give the client up as too slow. *)
emit(f) ==
  IF detached
  THEN UNCHANGED <<frames, detached, slow, panicked>>
  ELSE IF closed
  THEN panicked' = TRUE /\ UNCHANGED <<frames, detached, slow>>
  ELSE IF Len(frames) < Capacity
  THEN frames' = Append(frames, f) /\ UNCHANGED <<detached, slow, panicked>>
  ELSE detached' = TRUE /\ slow' = TRUE /\ UNCHANGED <<frames, panicked>>

-----------------------------------------------------------------------------
(* drain(): it outlives run() when the deadline passed.                    *)

DrainFrame ==
  /\ rank[0] = "reading" /\ produced < MaxFrames
  /\ produced' = produced + 1
  /\ emit(produced')
  /\ UNCHANGED <<rank, closed, err, run, agreed, handler, sent>>

(* Fault: rank 0's terminal frames are passed on as they come. *)
DrainPassesTerminal(r) ==
  /\ rank[r] = "reading"
  /\ rank' = [rank EXCEPT ![r] = "holding"]
  /\ IF r = 0 THEN emit(Terminal) ELSE UNCHANGED <<frames, detached, slow, panicked>>
  /\ UNCHANGED <<produced, closed, err, run, agreed, handler, sent>>

DrainHolds(r) ==
  /\ rank[r] = "reading"
  /\ rank' = [rank EXCEPT ![r] = "holding"]
  /\ UNCHANGED <<produced, frames, closed, detached, slow, err, run, agreed,
                 handler, sent, panicked>>

(* finish(): the stream was complete only if the terminal frames came. *)
DrainEnds(r) ==
  /\ \/ rank[r] = "holding" /\ rank' = [rank EXCEPT ![r] = "ok"]
     \/ rank[r] \in {"reading", "holding"} /\ rank' = [rank EXCEPT ![r] = "bad"]
  /\ UNCHANGED <<produced, frames, closed, detached, slow, err, run, agreed,
                 handler, sent, panicked>>

-----------------------------------------------------------------------------
(* run()                                                                   *)

RunTo(there) == run' = there

Ended == \A r \in Ranks : rank[r] \in {"ok", "bad"}

(* Fault: once one rank has answered the other is waited for forever. *)
DeadlineOfBoth ==
  /\ run = "collect" /\ \A r \in Ranks : rank[r] \notin {"ok", "bad"}
  /\ err' = TRUE /\ RunTo("finish")
  /\ UNCHANGED <<rank, produced, frames, closed, detached, slow, agreed,
                 handler, sent, panicked>>

Deadline ==
  /\ run = "collect" /\ ~Ended
  /\ err' = TRUE /\ RunTo("finish")
  /\ UNCHANGED <<rank, produced, frames, closed, detached, slow, agreed,
                 handler, sent, panicked>>

(* A rank failed, the outputs differ, or the marker cannot be removed. *)
Disagree ==
  /\ run = "collect" /\ Ended
  /\ err' = TRUE /\ RunTo("finish")
  /\ UNCHANGED <<rank, produced, frames, closed, detached, slow, agreed,
                 handler, sent, panicked>>

AgreeAndClear ==
  /\ run = "collect" /\ \A r \in Ranks : rank[r] = "ok"
  /\ agreed' = TRUE /\ RunTo("terminal")
  /\ UNCHANGED <<rank, produced, frames, closed, detached, slow, err,
                 handler, sent, panicked>>

(* Merging the terminal metrics of both ranks fails. *)
MetricsFail ==
  /\ run = "terminal"
  /\ err' = TRUE /\ RunTo("finish")
  /\ UNCHANGED <<rank, produced, frames, closed, detached, slow, agreed,
                 handler, sent, panicked>>

EmitTerminal ==
  /\ run = "terminal"
  /\ emit(Terminal)
  /\ RunTo("finish")
  /\ UNCHANGED <<rank, produced, closed, err, agreed, handler, sent>>

(* Fault: the job ends without detaching the drains from the channel. *)
FinishAttached ==
  /\ run = "finish"
  /\ err' = (err \/ slow)
  /\ RunTo("close")
  /\ UNCHANGED <<rank, produced, frames, closed, detached, slow, agreed,
                 handler, sent, panicked>>

(* Fault: that frames were dropped for a slow client is not an error. *)
FinishIgnoresSlow ==
  /\ run = "finish"
  /\ detached' = TRUE
  /\ RunTo("close")
  /\ UNCHANGED <<rank, produced, frames, closed, slow, err, agreed, handler,
                 sent, panicked>>

Finish ==
  /\ run = "finish"
  /\ detached' = TRUE
  /\ err' = (err \/ slow)
  /\ RunTo("close")
  /\ UNCHANGED <<rank, produced, frames, closed, slow, agreed, handler, sent,
                 panicked>>

CloseFrames ==
  /\ run = "close"
  /\ closed' = TRUE
  /\ RunTo("done")
  /\ UNCHANGED <<rank, produced, frames, detached, slow, err, agreed, handler,
                 sent, panicked>>

-----------------------------------------------------------------------------
(* The streaming half of ServeHTTP                                         *)

(* The client went away, or a write or flush failed: the pair still drains. *)
ClientGone ==
  /\ handler = "select"
  /\ detached' = TRUE /\ handler' = "gone"
  /\ UNCHANGED <<rank, produced, frames, closed, slow, err, run, agreed, sent,
                 panicked>>

SendFrame ==
  /\ handler = "select" /\ frames # <<>>
  /\ sent' = Append(sent, Head(frames)) /\ frames' = Tail(frames)
  /\ UNCHANGED <<rank, produced, closed, detached, slow, err, run, agreed,
                 handler, panicked>>

(* The channel is closed and empty: report the error, if there is one. *)
EndResponse ==
  /\ handler = "select" /\ frames = <<>> /\ closed
  /\ handler' = "ended"
  /\ sent' = IF err THEN Append(sent, ErrorEvent) ELSE sent
  /\ UNCHANGED <<rank, produced, frames, closed, detached, slow, err, run,
                 agreed, panicked>>

-----------------------------------------------------------------------------
RunNext ==
  Deadline \/ Disagree \/ AgreeAndClear \/ MetricsFail \/ EmitTerminal
  \/ Finish \/ CloseFrames

DrainNext == DrainFrame \/ \E r \in Ranks : DrainHolds(r) \/ DrainEnds(r)

Next == DrainNext \/ RunNext \/ ClientGone \/ SendFrame \/ EndResponse

(* run() always comes to an end: its context has a deadline.  The handler  *)
(* writes or gives up: each write has a ten second deadline.               *)
Spec ==
  /\ Init /\ [][Next]_vars
  /\ WF_vars(RunNext) /\ WF_vars(SendFrame \/ EndResponse)

-----------------------------------------------------------------------------
TypeOK ==
  /\ rank \in [Ranks -> {"reading", "holding", "ok", "bad"}]
  /\ produced \in 0..MaxFrames
  /\ frames \in Seq(Frames) /\ Len(frames) <= Capacity /\ sent \in Seq(Frames)
  /\ closed \in BOOLEAN /\ detached \in BOOLEAN /\ slow \in BOOLEAN
  /\ err \in BOOLEAN /\ agreed \in BOOLEAN /\ panicked \in BOOLEAN
  /\ run \in {"collect", "terminal", "finish", "close", "done"}
  /\ handler \in {"select", "gone", "ended"}

(* A drain that outlives its job (run() gave up at the deadline) never     *)
(* sends on the closed channel: that panic would take the process down     *)
(* with every other request (emit(), run(), paired.go).                    *)
NoSendOnClosed == ~panicked

(* The client of a job sees the finish and DONE frames only when both      *)
(* ranks ended completely and agreed, and never together with an error.    *)
TerminalOnlyAgreed ==
  \A i \in 1..Len(sent) :
    sent[i] = Terminal => agreed /\ ~err /\ i = Len(sent)

(* A stream that ends without an error event is the whole answer of rank   *)
(* 0, in order and with its terminal frames: frames dropped for a slow     *)
(* client or a lost race with finish never look like success.              *)
NoSilentTruncation ==
  handler = "ended" /\ (sent = <<>> \/ sent[Len(sent)] # ErrorEvent) =>
    /\ Len(sent) = produced + 1
    /\ \A i \in 1..Len(sent) : sent[i] = IF i <= produced THEN i ELSE Terminal

(* Whatever the client does, the pair is released: run() ends, and the     *)
(* handler of a client that stays gets an end of its response.             *)
JobEnds == <>(run = "done" /\ handler # "select")
=============================================================================
