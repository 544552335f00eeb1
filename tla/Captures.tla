------------------------------ MODULE Captures ------------------------------
(***************************************************************************)
(* The opt-in captures of the serving worker: five objects of              *)
(* src/runtime/ds41 that the engine calls at fixed places of every step    *)
(* (kv_capture_once, prefill_profile_once, routed_fixture_capture,         *)
(* repeatability_diag, decode_repeat_diag) and the scripts that read what  *)
(* they wrote.                                                             *)
(*                                                                         *)
(* The engine runs one request at a time (--max-num-seqs 1), splits its    *)
(* prompt into chunks, and keeps no prefix cache; between two steps the    *)
(* client may abort the request.  The worker is one thread, so a step is   *)
(* one action; but a capture that raises, or a kill, ends the engine after *)
(* any of the step's writes, and a later engine starts in the same         *)
(* directories with its captures as new.                                   *)
(*                                                                         *)
(* Tensors are not modelled.  A chunk is the request whose rows really     *)
(* went through the model and the half-open interval of its positions.     *)
(***************************************************************************)
EXTENDS Naturals, Sequences, SequencesExt, FiniteSetsExt

CONSTANTS
    Lengths,      \* the lengths prompts have
    PromptTokens, \* the length the captures select
    MinTokens,    \* the shortest prompt the profile takes
    Budget,       \* the most tokens of a prompt a step computes
    Wide,         \* the fewest rows the routed hook takes for a prefill
    Layers,       \* the layers with routed experts
    Selected,     \* the calls the routed hook saves
    Full,         \* whether the repeatability capture is in its full mode
    MaxCompleted, \* max_requests of the two bounded captures
    EmitCap,      \* the emitted tokens a trace ends at
    MaxSampled,   \* the most tokens a decode step emits
    MaxOut,       \* bound: the tokens a request emits
    MaxIssued,    \* bound: the requests
    MaxLaunches   \* bound: the engines

VARIABLES
    launch,  \* the engine that runs, counted from 1
    issued,  \* the requests so far; a request's identity is its number
    req,     \* the running request, or Nobody
    gone,    \* finished_req_ids of the step to come
    repeat, trace, route, profile, kv,  \* the captures' memory
    files    \* what is in their directories

vars == <<launch, issued, req, gone, repeat, trace, route, profile, kv, files>>

Nobody == [id |-> 0]

Names == {<<"kv", 0>>, <<"status", 0>>, <<"profile", 0>>, <<"attribution", 0>>}
         \cup ({"repeat", "trace"} \X (0 .. MaxCompleted - 1))
         \cup ({"fixture"} \X Selected)

Absent == [is |-> "absent"]
Torn == [is |-> "torn"]
Whole(body) == [is |-> "whole", body |-> body]

NoRepeat == [completed |-> 0, cur |-> Nobody]
NoTrace == [completed |-> 0, cur |-> Nobody]
NoRoute == [id |-> 0, active |-> FALSE, done |-> FALSE, call |-> 0, saved |-> {}]
NoProfile == [id |-> 0, on |-> FALSE, done |-> FALSE, window |-> <<>>]
NoKv == [id |-> 0, done |-> FALSE, chunks |-> <<>>]

Init ==
    /\ launch = 1 /\ issued = 0 /\ req = Nobody /\ gone = {}
    /\ repeat = NoRepeat /\ trace = NoTrace /\ route = NoRoute
    /\ profile = NoProfile /\ kv = NoKv
    /\ files = [n \in Names |-> Absent]

(***************************************************************************)
(* A batch b is the one request's share of a step: its computed prompt     *)
(* tokens before the step, the tokens scheduled, the tokens it will emit.  *)
(***************************************************************************)
FirstChunk(b) == b.before = 0
LastChunk(b) == b.before < b.len /\ b.before + b.sched >= b.len
ChunkOf(b) == [of |-> b.id, lo |-> b.at, hi |-> b.at + b.sched]

\* A write of a step: the file, its content.
Put(name, body) == <<[name |-> name, body |-> body]>>

(* ------------------- repeatability_diag.RepeatabilityCapture ----------- *)
\* cleanup_finished: a request that is over before its last chunk is INVALID
Ended(cur, over) == cur.id \in over
RepeatCleanWrites ==
    IF Ended(repeat.cur, gone)
    THEN Put(<<"repeat", repeat.completed>>, [repeat.cur EXCEPT !.invalid = TRUE])
    ELSE <<>>
RepeatCleaned ==
    IF Ended(repeat.cur, gone)
    THEN [completed |-> repeat.completed + 1, cur |-> Nobody]
    ELSE repeat

\* arm_from_input_batch, then record_model_input of the forward
RepeatArmed(s, b) ==
    IF /\ s.cur = Nobody /\ s.completed < MaxCompleted
       /\ FirstChunk(b) /\ b.len = PromptTokens
    THEN [s EXCEPT !.cur = [id |-> b.id, chunks |-> <<>>, logits |-> FALSE,
                            invalid |-> FALSE]]
    ELSE s
RepeatInputShort(s, b) == \* Fault: the bound taken for the last position
    IF s.cur # Nobody /\ ChunkOf(b).hi < PromptTokens
    THEN [s EXCEPT !.cur.chunks = Append(@, ChunkOf(b))]
    ELSE s
RepeatInput(s, b) ==
    IF s.cur # Nobody /\ ChunkOf(b).hi <= PromptTokens
    THEN [s EXCEPT !.cur.chunks = Append(@, ChunkOf(b))]
    ELSE s

\* record_raw_logits and finish_after_sample: only the last chunk of the
\* request the record is of.  The full mode wants the layer-2 tensors of
\* exactly two chunks.
RepeatFinishes(s, b) == s.cur.id = b.id /\ LastChunk(b)
LayerChunks(cur) == DOMAIN cur.chunks \* the record_layer2 hooks of every forward
RepeatEnd(cur) ==
    [cur EXCEPT !.logits = TRUE, !.invalid = Full /\ LayerChunks(cur) # {1, 2}]
RepeatSampled(s, b) ==
    IF RepeatFinishes(s, b)
    THEN [completed |-> s.completed + 1, cur |-> Nobody]
    ELSE s
RepeatWrites(s, b) ==
    IF RepeatFinishes(s, b)
    THEN Put(<<"repeat", s.completed>>, RepeatEnd(s.cur))
    ELSE <<>>

(* -------------------- decode_repeat_diag.DecodeRepeatTrace ------------- *)
TraceCleanWrites ==
    IF Ended(trace.cur, gone)
    THEN Put(<<"trace", trace.completed>>, trace.cur)
    ELSE <<>>
TraceCleaned ==
    IF Ended(trace.cur, gone)
    THEN [completed |-> trace.completed + 1, cur |-> Nobody]
    ELSE trace

\* begin_step: arms, and opens a step when the request is in the batch
TraceBegun(s, b) ==
    LET armed == IF s.cur = Nobody /\ FirstChunk(b) /\ b.len = PromptTokens
                 THEN [id |-> b.id, emitted |-> 0, steps |-> <<>>]
                 ELSE s.cur
        step == [at |-> b.at, sched |-> b.sched, prefix |-> armed.emitted, sampled |-> 0]
    IN  IF s.completed >= MaxCompleted THEN s
        ELSE IF armed.id # b.id THEN [s EXCEPT !.cur = armed]
        ELSE [s EXCEPT !.cur = [armed EXCEPT !.steps = Append(@, step)]]

TraceEmittedOne(s, b) == \* Fault: one token a step
    IF s.cur.id # b.id \/ s.cur.steps = <<>> THEN s
    ELSE [s EXCEPT !.cur.steps[Len(s.cur.steps)].sampled = b.sampled,
                   !.cur.emitted = @ + Min({1, b.sampled})]
\* record_sampler closes it, and the record once the cap is reached
TraceEmitted(s, b) ==
    IF s.cur.id # b.id \/ s.cur.steps = <<>> THEN s
    ELSE [s EXCEPT !.cur.steps[Len(s.cur.steps)].sampled = b.sampled,
                   !.cur.emitted = @ + b.sampled]
TraceFull(s) == s.cur # Nobody /\ s.cur.emitted >= EmitCap
TraceSampled(s) ==
    IF TraceFull(s) THEN [completed |-> s.completed + 1, cur |-> Nobody] ELSE s
TraceWrites(s) ==
    IF TraceFull(s) THEN Put(<<"trace", s.completed>>, s.cur) ELSE <<>>

(* ---------------- routed_fixture_capture.RoutedFixtureCapture ---------- *)
RouteArmed(b) ==
    IF /\ ~route.done /\ ~route.active
       /\ FirstChunk(b) /\ b.len = PromptTokens
    THEN [NoRoute EXCEPT !.id = b.id, !.active = TRUE]
    ELSE route

\* the wrapped apply of every layer: counts a wide batch of whatever request
\* runs, and saves the selected calls under the name of the one that armed it
Counts(s, b) == s.active /\ b.sched >= Wide
Calls(s, b) == IF Counts(s, b) THEN s.call .. s.call + Layers - 1 ELSE {}
RouteApplied(s, b) ==
    [s EXCEPT !.call = IF Counts(s, b) THEN @ + Layers ELSE @,
              !.saved = @ \cup (Calls(s, b) \cap Selected)]
\* A call that is not selected is no name of a file: it writes nothing.
FixtureWrites(s, b) ==
    IF ~Counts(s, b) THEN <<>>
    ELSE [i \in 1 .. Layers |->
             [name |-> <<"fixture", s.call + i - 1>>,
              body |-> [id |-> s.id, of |-> b.id, launch |-> launch]]]

RouteFinishesAny(s, b) == s.active /\ LastChunk(b) \* Fault: whoever runs
RouteFinishes(s, b) == s.active /\ s.id = b.id /\ LastChunk(b)
RouteFinished(s, b) ==
    IF RouteFinishes(s, b) THEN [s EXCEPT !.active = FALSE, !.done = TRUE] ELSE s
StatusWrites(s, b) ==
    IF RouteFinishes(s, b)
    THEN Put(<<"status", 0>>, [complete |-> s.saved = Selected, launch |-> launch])
    ELSE <<>>

(* ---------------- prefill_profile_once.DS41PrefillProfileOnce ---------- *)
ProfileStarted(b) ==
    IF /\ ~profile.done /\ profile.id = 0
       /\ FirstChunk(b) /\ b.len >= MinTokens
    THEN [profile EXCEPT !.id = b.id, !.on = TRUE]
    ELSE profile

\* the collector's wrappers record every call made while it is enabled
ProfileRecorded(s, b) ==
    IF s.on THEN [s EXCEPT !.window = Append(@, ChunkOf(b))] ELSE s

ProfileFinishes(s, b) == ~s.done /\ s.id = b.id /\ LastChunk(b)
ProfileFinished(s, b) ==
    IF ProfileFinishes(s, b) THEN [s EXCEPT !.on = FALSE, !.done = TRUE] ELSE s
ProfileWrites(s, b) ==
    IF ProfileFinishes(s, b)
    THEN Put(<<"profile", 0>>, [id |-> s.id, len |-> b.len, window |-> s.window])
         \o Put(<<"attribution", 0>>, [id |-> s.id, len |-> b.len, window |-> s.window])
    ELSE <<>>

(* ------------------- kv_capture_once.KVMetadataCaptureOnce ------------- *)
KvTakesAny(b) == \* Fault: any selected prompt goes on with the record
    ~kv.done /\ b.len = PromptTokens /\ b.before < b.len
\* the request is fixed by the first batch of a selected prompt, and rows of
\* any other are passed over
KvTakes(b) ==
    /\ ~kv.done /\ b.len = PromptTokens /\ b.before < b.len
    /\ kv.id \in {0, b.id}
KvCaptured(b) ==
    IF KvTakes(b)
    THEN [id |-> b.id, done |-> LastChunk(b), chunks |-> Append(kv.chunks, ChunkOf(b))]
    ELSE kv
KvWrites(b) ==
    IF KvTakes(b) /\ LastChunk(b)
    THEN Put(<<"kv", 0>>, [id |-> b.id, chunks |-> KvCaptured(b).chunks])
    ELSE <<>>

(***************************************************************************)
(* A step of the engine: the hooks in the order of the calls in            *)
(* runtime/ds41/patches/vllm-dsv41-engram2.patch, and the writes they do.  *)
(***************************************************************************)
Repeat1(b) == RepeatInput(RepeatArmed(RepeatCleaned, b), b)
Trace1(b) == TraceEmitted(TraceBegun(TraceCleaned, b), b)
Route1(b) == RouteArmed(b)
Profile1(b) == ProfileRecorded(ProfileStarted(b), b)

CleanWrites == RepeatCleanWrites \o TraceCleanWrites
StepWrites(b) ==
    CleanWrites \o KvWrites(b) \o FixtureWrites(Route1(b), b)
    \o RepeatWrites(Repeat1(b), b) \o TraceWrites(Trace1(b))
    \o StatusWrites(RouteApplied(Route1(b), b), b) \o ProfileWrites(Profile1(b), b)

\* The files after the first n writes of ws.
After(n, ws) ==
    [f \in Names |->
        LET mine == {i \in 1 .. n : ws[i].name = f}
        IN  IF mine = {} THEN files[f] ELSE Whole(ws[Max(mine)].body)]

\* The batches the scheduler may form for the running request: as much of its
\* prompt as the budget lets, or one decode step.
Batches ==
    IF req = Nobody THEN {}
    ELSE IF req.at < req.len
    THEN {[id |-> req.id, len |-> req.len, at |-> req.at, before |-> req.at, sched |-> n,
           sampled |-> IF req.at + n >= req.len THEN 1 ELSE 0] :
              n \in 1 .. Min({Budget, req.len - req.at})}
    ELSE {[id |-> req.id, len |-> req.len, at |-> req.at, before |-> req.len,
           sched |-> MaxSampled, sampled |-> n] : n \in 1 .. MaxSampled}

Arrive ==
    /\ req = Nobody /\ issued < MaxIssued
    /\ issued' = issued + 1
    /\ \E n \in Lengths : req' = [id |-> issued', len |-> n, at |-> 0, out |-> 0]
    /\ UNCHANGED <<launch, gone, repeat, trace, route, profile, kv, files>>

\* A request that has emitted its last token leaves at the end of the step, and
\* the next step is told.
Advance(b) ==
    LET on == [id |-> req.id, len |-> req.len, out |-> req.out + b.sampled,
               at |-> IF b.before < b.len THEN b.at + b.sched ELSE b.at + b.sampled]
    IN  \/ on.out < MaxOut /\ req' = on /\ gone' = {}
        \/ b.sampled > 0 /\ req' = Nobody /\ gone' = {b.id}

Step(b) ==
    /\ repeat' = RepeatSampled(Repeat1(b), b)
    /\ trace' = TraceSampled(Trace1(b))
    /\ route' = RouteFinished(RouteApplied(Route1(b), b), b)
    /\ profile' = ProfileFinished(Profile1(b), b)
    /\ kv' = KvCaptured(b)
    /\ files' = After(Len(StepWrites(b)), StepWrites(b))
    /\ Advance(b)
    /\ UNCHANGED <<launch, issued>>

\* A step with nothing scheduled still tells the worker who is over.
IdleStep ==
    /\ req = Nobody /\ gone # {}
    /\ repeat' = RepeatCleaned /\ trace' = TraceCleaned /\ gone' = {}
    /\ files' = After(Len(CleanWrites), CleanWrites)
    /\ UNCHANGED <<launch, issued, req, route, profile, kv>>

\* The client goes away between two steps.
Abort ==
    /\ req # Nobody
    /\ req' = Nobody /\ gone' = gone \cup {req.id}
    /\ UNCHANGED <<launch, issued, repeat, trace, route, profile, kv, files>>

(***************************************************************************)
(* The engine dies after n writes of a step, and a later one starts.  The  *)
(* write it dies in leaves a torn file, except where the capture writes a  *)
(* temporary file and renames it.                                          *)
(***************************************************************************)
Atomic == {<<"kv", 0>>, <<"profile", 0>>, <<"attribution", 0>>}
Cut(n, ws) ==
    \/ files' = After(n, ws)
    \/ /\ n < Len(ws) /\ ws[n + 1].name \in Names \ Atomic
       /\ files' = [After(n, ws) EXCEPT ![ws[n + 1].name] = Torn]
Die ==
    /\ launch < MaxLaunches
    /\ \/ \E b \in Batches : \E n \in 0 .. Len(StepWrites(b)) : Cut(n, StepWrites(b))
       \/ req = Nobody /\ \E n \in 0 .. Len(CleanWrites) : Cut(n, CleanWrites)
    /\ launch' = launch + 1 /\ req' = Nobody /\ gone' = {}
    /\ repeat' = NoRepeat /\ trace' = NoTrace /\ route' = NoRoute
    /\ profile' = NoProfile /\ kv' = NoKv
    /\ UNCHANGED issued

Next ==
    \/ Arrive
    \/ \E b \in Batches : Step(b)
    \/ IdleStep
    \/ Abort
    \/ Die

Spec == Init /\ [][Next]_vars

-----------------------------------------------------------------------------
(***************************************************************************)
(* The readers.                                                            *)
(***************************************************************************)
Has(f) == files[f].is = "whole"
Body(f) == files[f].body

\* The chunks are one request's, each where the one before ended, and make up
\* a prompt of n tokens.
Contiguous(chunks) ==
    \A i \in 1 .. Len(chunks) : chunks[i].lo = IF i = 1 THEN 0 ELSE chunks[i - 1].hi
IsPromptOf(chunks, id, n) ==
    /\ chunks # <<>> /\ Contiguous(chunks) /\ Last(chunks).hi = n
    /\ \A i \in DOMAIN chunks : chunks[i].of = id

\* validate-ds41-routed-prefill-fixtures: the status and exactly the selected calls
FixturesAccepted ==
    /\ Has(<<"status", 0>>) /\ Body(<<"status", 0>>).complete
    /\ \A k \in Selected : Has(<<"fixture", k>>)

\* compare-ds41-repeatability-diag: fails on a record without logits, and asks
\* neither for its status nor for its reason
Comparable(i) == Has(<<"repeat", i>>) /\ Body(<<"repeat", i>>).logits

\* compare-ds41-decode-repeat-trace takes any record that loads.
Traced(i) == Has(<<"trace", i>>)

-----------------------------------------------------------------------------
\* Whatever the repeatability comparison accepts is the whole prompt of the one
\* request the record names, of the selected length and in order, and two
\* records are of two requests: a request aborted in its prefill, a record cut
\* by a dying engine, or one left by an engine before, is never half compared
\* (repeatability_diag.py, compare-ds41-repeatability-diag.py).
ComparedAreWhole ==
    \A i \in 0 .. MaxCompleted - 1 : Comparable(i) =>
        LET r == Body(<<"repeat", i>>) IN
        /\ IsPromptOf(r.chunks, r.id, PromptTokens)
        /\ Full /\ ~r.invalid => Len(r.chunks) = 2
        /\ \A j \in 0 .. MaxCompleted - 1 :
              j # i /\ Comparable(j) => Body(<<"repeat", j>>).id # r.id

\* Once the engine that runs has said COMPLETE, the fixtures are its own, all of
\* the one request they name, and the manifest validator accepts them: calls of
\* the requests that ran after an aborted one are counted under its name, but
\* never completed (routed_fixture_capture.py).
FixturesAreOneRequest ==
    LET st == <<"status", 0>> IN
    Has(st) /\ Body(st).complete /\ Body(st).launch = launch =>
        /\ FixturesAccepted
        /\ \A k, l \in Selected :
              LET f == Body(<<"fixture", k>>) IN
              /\ f.launch = launch /\ f.of = f.id
              /\ f.id = Body(<<"fixture", l>>).id

\* What the two one-shot captures put in place is one request's whole prefill:
\* its chunks from the first token of the prompt to the last without a gap,
\* nothing of another request, nothing after.  A request that was aborted in its
\* prefill, others that run beside what a record was begun for, and an engine
\* that dies in the write leave no such file (kv_capture_once.py,
\* prefill_profile_once.py).
OneShotIsWhole ==
    /\ Has(<<"kv", 0>>) =>
          LET d == Body(<<"kv", 0>>) IN IsPromptOf(d.chunks, d.id, PromptTokens)
    /\ \A f \in {<<"profile", 0>>, <<"attribution", 0>>} : Has(f) =>
          LET d == Body(f) IN
          d.len >= MinTokens /\ IsPromptOf(d.window, d.id, d.len)

\* A decode trace is a gapless prefix of one request: each of its steps starts
\* where the one before led, by its chunk of the prompt or by the tokens that
\* were accepted, with the emitted tokens counted so far, and only the last step
\* reaches the cap (decode_repeat_diag.py).
TraceFollowsRequest ==
    \A i \in 0 .. MaxCompleted - 1 : Traced(i) =>
        LET t == Body(<<"trace", i>>)
            s == t.steps
        IN  /\ s # <<>> /\ s[1].at = 0 /\ s[1].prefix = 0
            /\ \A j \in 1 .. Len(s) - 1 :
                  /\ s[j + 1].at = s[j].at
                       + (IF s[j].at < PromptTokens THEN s[j].sched ELSE s[j].sampled)
                  /\ s[j + 1].prefix = s[j].prefix + s[j].sampled
                  /\ s[j + 1].prefix < EmitCap
            /\ t.emitted = Last(s).prefix + Last(s).sampled
=============================================================================
