---------------------------- MODULE EngramReader ----------------------------
(***************************************************************************)
(* How a rank reads the rows of the sparse table it keeps on disk, and how *)
(* its experiments observe that: SafeTensorMMap and AffineRowLRU of        *)
(* runtime/ds41/affine_safetensors.py, FaultDiagnostics of                 *)
(* fault_diagnostics.py, prepare_embedding of engram_advice_experiment.py. *)
(*                                                                         *)
(* One table stands for the two, which share nothing.  The engine is one   *)
(* thread without asynchronous scheduling: a step looks its rows up, then  *)
(* its tokens reach process_outputs.  Within a lookup the rows that are    *)
(* not cached are read by several threads.  A row is the number it has in  *)
(* the file and the edition of the file it was read from.                  *)
(***************************************************************************)
EXTENDS Naturals, FiniteSets, SequencesExt, FiniteSetsExt

CONSTANTS
    Table,       \* the rows of the table, numbers
    MaxRows,     \* DS41_ENGRAM_CACHE_ROWS
    ReadWorkers, \* DS41_ENGRAM_READ_WORKERS
    MinParallel, \* DS41_ENGRAM_PARALLEL_MIN_ROWS
    Regions,     \* the ranges of complete pages that are advised, 1 .. n
    MaxIds,      \* bound: rows a step looks up
    MaxLookups,  \* bound: lookups
    MaxServed    \* bound: requests

VARIABLES
    kind,   \* the program: it serves, observes faults, or compares advice
    at,     \* where its one engine thread is
    served, \* the requests and the lookups so far, whether one decodes
    disk,   \* the edition of the file that is under the path now
    source, \* the mapping: its edition, what the kernel does, what is recorded
    cache,  \* AffineRowLRU: its rows, oldest first, and its counters
    call,   \* the lookup that runs, or its answer
    obs,    \* FaultDiagnostics
    asked,  \* history: what the request looked up
    report  \* of the last observed request

vars == <<kind, at, served, disk, source, cache, call, obs, asked, report>>

Policies == {"normal", "random"}
Phases == {"before_first", "decode"}

(* ------------------- SafeTensorMMap.set_engram_advice ------------------ *)
NotRequested == [status |-> "not_requested", effective |-> "normal",
                 claims |-> [r \in Regions |-> "normal"]]
Fresh(edition) == [edition |-> edition, kernel |-> [r \in Regions |-> "normal"],
                   advice |-> NotRequested]

Effective(claims) ==
    LET said == {claims[r] : r \in Regions}
    IN  IF \E c \in said : said = {c} THEN CHOOSE c \in said : TRUE ELSE "mixed_or_unknown"

Recorded(s, kernel, claims, status) ==
    [edition |-> s.edition, kernel |-> kernel,
     advice |-> [status |-> status, claims |-> claims,
                 effective |-> Effective(claims)]]

Applied(s, policy) ==
    Recorded(s, [r \in Regions |-> policy], [r \in Regions |-> policy], "applied")

ClaimsKept(s, policy, k) == \* Fault: the range that failed keeps what it was said to have
    [r \in Regions |-> IF r < k THEN policy ELSE s.advice.effective]
Claims(s, policy, k) ==
    [r \in Regions |-> IF r < k THEN policy
                       ELSE IF r = k THEN "unknown" ELSE s.advice.effective]

\* The k-th range failed, and any part of it may have been changed.
Stopped(s, policy, k) ==
    Recorded(s, [r \in Regions |-> IF r < k THEN policy
                                   ELSE IF r = k THEN "torn" ELSE s.kernel[r]],
             Claims(s, policy, k), "failed")

\* A failed request for random is taken back range by range; bad ranges fail.
RolledBack(s, bad) ==
    Recorded(s, [r \in Regions |-> IF r \in bad THEN "torn" ELSE "normal"],
             [r \in Regions |-> IF r \in bad THEN "unknown" ELSE "normal"],
             IF bad = {} THEN "fallback_normal" ELSE "failed")

\* The returns before the first request advise nothing and are left out.
SetAdvice(s, policy) ==
    LET stopped == {Stopped(s, policy, k) : k \in Regions}
    IN  {Applied(s, policy)}
        \cup IF policy = "normal" THEN stopped
             ELSE {RolledBack(t, bad) : t \in stopped, bad \in SUBSET Regions}

SameFile(s, t) == s.edition = t.edition \* device, inode, size and time
TookEffect(s, policy) == s.advice.status = "applied" /\ s.advice.effective = policy

(* --------------------------- AffineRowLRU ------------------------------ *)
Idle == [ids |-> <<>>, missing |-> <<>>, work |-> <<>>, outcome |-> "none",
         answer |-> <<>>]
Cached(rows) == {rows[i].id : i \in DOMAIN rows}

\* The rows that are used again go to the end, in the order of their use.
MoveToEnd(rows, id) ==
    LET p == CHOOSE p \in DOMAIN rows : rows[p].id = id
    IN  IF id \in Cached(rows) THEN Append(RemoveAt(rows, p), rows[p]) ELSE rows
Used(rows, ids) == FoldLeft(MoveToEnd, rows, ids)

\* Those that are not cached, in the order of their first use.
Missing(rows, ids) ==
    FoldLeft(LAMBDA seen, i : IF i \in Cached(rows) \cup ToSet(seen) THEN seen
                              ELSE Append(seen, i), <<>>, ids)

\* A large set of missing rows is sorted and cut into contiguous parts.
Parallel(missing) == ReadWorkers > 1 /\ Len(missing) >= MinParallel
Sorted(S) ==
    [k \in 1 .. Cardinality(S) |->
        CHOOSE i \in S : Cardinality({j \in S : j < i}) = k - 1]
Chunks(missing) ==
    LET n == Len(missing)
        w == IF Parallel(missing) THEN Min({ReadWorkers, n}) ELSE 1
        ordered == IF Parallel(missing) THEN Sorted(ToSet(missing)) ELSE missing
        End(k) == k * (n \div w) + Min({k, n % w})
    IN  [k \in 1 .. w |-> SubSeq(ordered, End(k - 1) + 1, End(k))]

KeysUnsorted(c) == c.missing \* Fault: the rows are named in the order of their first use
Keys(c) == FlattenSeq([t \in DOMAIN c.work |-> c.work[t].ids])
Rows(c) == FlattenSeq([t \in DOMAIN c.work |-> c.work[t].got])
Got(c, i) == [id |-> i, row |-> Rows(c)[CHOOSE j \in DOMAIN Keys(c) : Keys(c)[j] = i]]

\* They are inserted in the order of their first use; the oldest go.
Inserted(rows, c) ==
    FoldLeft(LAMBDA kept, i : LET more == Append(kept, Got(c, i)) IN
                              IF Len(more) > MaxRows THEN Tail(more) ELSE more,
             rows, c.missing)

\* A row of the batch that has already gone again is a KeyError.
RowOf(rows, id) == (CHOOSE r \in ToSet(rows) : r.id = id).row
Answered(rows, ids) ==
    IF ToSet(ids) \subseteq Cached(rows)
    THEN [Idle EXCEPT !.ids = ids, !.outcome = "rows",
                      !.answer = [j \in DOMAIN ids |-> RowOf(rows, ids[j])]]
    ELSE [Idle EXCEPT !.ids = ids, !.outcome = "error"]

Batches == UNION {[1 .. n -> Table] : n \in 1 .. MaxIds}

(* -------------------------- FaultDiagnostics --------------------------- *)
Counters(c) == [seen |-> TRUE, hits |-> c.hits, misses |-> c.misses, read |-> c.read]
Unseen == [seen |-> FALSE, hits |-> 0, misses |-> 0, read |-> 0]
Nothing == [active |-> FALSE]
NoReport == [of |-> "nothing"]

\* _snapshot: of the caches that were looked up since the patches are in place
Snapshot == IF obs.known THEN Counters(cache) ELSE Unseen

Began == [active |-> TRUE, start |-> Snapshot, first |-> Unseen, last |-> Unseen,
          batches |-> 0, tokens |-> 0,
          reader |-> [key \in Phases \X (1 .. ReadWorkers) |-> 0]]

\* The wrapper of lookup: a cache it meets for the first time within a request
\* gets the counters it had when the request began.
Meets(o) ==
    IF ~o.on \/ o.known THEN o
    ELSE IF ~o.request.active THEN [o EXCEPT !.known = TRUE]
    ELSE [o EXCEPT !.known = TRUE, !.request.start = Counters(cache)]

\* The wrapper of affine2_rows keeps a bucket for each phase and thread.
BucketOfAll(phase, t) == <<phase, 1>> \* Fault: one for all threads
Bucket(phase, t) == <<phase, t>>
PhaseNow(request) == IF request.first.seen THEN "decode" ELSE "before_first"

\* process_outputs: n new tokens, and whether the request is finished
Outputs(request, n, finished) ==
    LET first == IF request.first.seen THEN request.first ELSE Snapshot
    IN  IF n = 0 THEN request
        ELSE [request EXCEPT
                !.batches = @ + 1, !.tokens = @ + n, !.first = first,
                !.last = IF ~finished THEN @
                         ELSE IF request.batches = 0 THEN first ELSE Snapshot]

\* end_request, and the sums that summarize-ds41-faults.py makes of it
Delta(from, to) == [f \in {"hits", "misses", "read"} |-> to[f] - from[f]]
ReportOf(request) == [of |-> "request", request |-> request, end |-> Snapshot,
                     asked |-> asked]
ReadIn(request, phase) ==
    FoldLeft(LAMBDA sum, n : sum + n, 0,
             [t \in 1 .. ReadWorkers |-> request.reader[<<phase, t>>]])

-----------------------------------------------------------------------------
NotAsked == [ids |-> {}, before |-> 0, decode |-> 0, cold |-> FALSE]
Off == [on |-> FALSE, known |-> FALSE, request |-> Nothing]

\* The program opens the table; only one that serves asks for advice at once
\* (offline_spmd.py sets the switch to "0" for the two that observe).
Init ==
    /\ kind \in {"serve", "fault", "advice"}
    /\ at = "between" /\ served = [requests |-> 0, lookups |-> 0, decoding |-> FALSE] /\ disk = 1
    /\ source \in IF kind = "serve" THEN SetAdvice(Fresh(1), "random") ELSE {Fresh(1)}
    /\ cache = [rows |-> <<>>, hits |-> 0, misses |-> 0, read |-> 0]
    /\ call = Idle /\ obs = Off /\ asked = NotAsked /\ report = NoReport

Install ==
    /\ at = "between" /\ kind # "serve" /\ ~obs.on /\ ~obs.known
    /\ obs' = [obs EXCEPT !.on = TRUE]
    /\ UNCHANGED <<kind, at, served, disk, source, cache, call, asked, report>>

\* What follows is the request without the patches.
Close ==
    /\ at = "between" /\ obs.on /\ obs.known
    /\ obs' = [obs EXCEPT !.on = FALSE, !.request = Nothing]
    /\ UNCHANGED <<kind, at, served, disk, source, cache, call, asked, report>>

\* An exception ends the program, which closes the collector.
Die ==
    /\ at' = "dead"
    /\ obs' = [obs EXCEPT !.on = FALSE, !.request = Nothing]

Prepared(fresh) ==
    /\ source' = fresh
    /\ cache' = [cache EXCEPT !.rows = <<>>]

\* prepare_embedding: a new mapping of the same file, under the policy of the
\* arm, in place of the old one; then pages that stay resident end the program.
Prepare(policy) ==
    /\ at = "between" /\ kind = "advice" /\ obs.on
    /\ asked.cold => asked.ids # {}
    /\ \E fresh \in SetAdvice(Fresh(disk), policy) :
          IF ~SameFile(fresh, source) \/ ~TookEffect(fresh, policy)
          THEN Die /\ UNCHANGED <<source, cache, asked>>
          ELSE /\ Prepared(fresh)
               /\ asked' = [NotAsked EXCEPT !.cold = TRUE]
               /\ Die \/ UNCHANGED <<at, obs>>
    /\ UNCHANGED <<kind, served, disk, call, report>>

\* The comparison of the answers switches the mapping it has.
Switch(policy) ==
    /\ at = "between" /\ kind = "advice" /\ obs.on /\ obs.known
    /\ \E s \in SetAdvice(source, policy) :
          /\ source' = s
          /\ IF TookEffect(s, policy) THEN UNCHANGED <<at, obs>> ELSE Die
    /\ UNCHANGED <<kind, served, disk, cache, call, asked, report>>

\* The engine's warm-up or a request; begin_request when the collector is there.
Begin ==
    /\ at = "between" /\ served.requests < MaxServed
    /\ kind = "advice" => obs.on \/ ~obs.known
    /\ at' = "step" /\ served' = [served EXCEPT !.requests = @ + 1, !.decoding = FALSE]
    /\ obs' = IF obs.on THEN [obs EXCEPT !.request = Began] ELSE obs
    /\ asked' = [NotAsked EXCEPT !.cold = asked.cold /\ asked.ids = {}]
    /\ report' = NoReport
    /\ UNCHANGED <<kind, disk, source, cache, call>>

AskedFor(ids) ==
    LET n == Len(ids)
        decode == obs.request.first.seen
    IN  IF ~obs.request.active THEN asked
        ELSE [asked EXCEPT !.ids = @ \cup ToSet(ids),
                          !.before = @ + (IF decode THEN 0 ELSE n),
                          !.decode = @ + (IF decode THEN n ELSE 0)]

\* A step looks up the rows of a part of the prompt, or of one token.
Lookup(ids) ==
    /\ at = "step" /\ served.lookups < MaxLookups
    /\ served.decoding => Len(ids) = 1
    /\ LET missing == Missing(cache.rows, ids)
           rows == Used(cache.rows, ids)
           hits == Cardinality({j \in DOMAIN ids : ids[j] \in Cached(cache.rows)})
           chunks == Chunks(missing)
       IN  /\ cache' = [cache EXCEPT !.rows = rows, !.hits = @ + hits,
                                     !.misses = @ + Len(ids) - hits]
           /\ IF missing = <<>>
              THEN /\ at' = "outputs"
                   /\ call' = Answered(rows, ids)
              ELSE /\ at' = "reading"
                   /\ call' = [Idle EXCEPT !.ids = ids, !.missing = missing,
                        !.work = [t \in DOMAIN chunks |->
                            [ids |-> chunks[t], at |-> "new", got |-> <<>>,
                             key |-> <<>>, was |-> 0]]]
    /\ obs' = Meets(obs)
    /\ asked' = AskedFor(ids)
    /\ served' = [served EXCEPT !.lookups = @ + 1]
    /\ UNCHANGED <<kind, disk, source, report>>

\* A thread gathers its rows, with the request and the phase it saw at first;
\* requested_rows += len(rows) then reads the bucket, and later writes it.
Gather(t) ==
    /\ at = "reading" /\ call.work[t].at = "new"
    /\ LET w == call.work[t]
           key == Bucket(PhaseNow(obs.request), t)
           read == [w EXCEPT !.got = [j \in DOMAIN w.ids |->
                                        [id |-> w.ids[j], edition |-> source.edition]]]
       IN  call' = [call EXCEPT !.work[t] =
                      IF obs.request.active
                      THEN [read EXCEPT !.at = "counting", !.key = key,
                                        !.was = obs.request.reader[key]]
                      ELSE [read EXCEPT !.at = "done"]]
    /\ UNCHANGED <<kind, at, served, disk, source, cache, obs, asked, report>>
Store(t) ==
    /\ at = "reading" /\ call.work[t].at = "counting"
    /\ obs' = [obs EXCEPT !.request.reader[call.work[t].key] =
                    call.work[t].was + Len(call.work[t].ids)]
    /\ call' = [call EXCEPT !.work[t].at = "done"]
    /\ UNCHANGED <<kind, at, served, disk, source, cache, asked, report>>

\* The pool is done: the rows go into the cache and the answer out of it.
Insert ==
    /\ at = "reading" /\ \A t \in DOMAIN call.work : call.work[t].at = "done"
    /\ LET rows == Inserted(cache.rows, call)
       IN  /\ cache' = [cache EXCEPT !.rows = rows, !.read = @ + Len(call.missing)]
           /\ call' = Answered(rows, call.ids)
           /\ IF call'.outcome = "error" THEN Die ELSE at' = "outputs" /\ UNCHANGED obs
    /\ UNCHANGED <<kind, served, disk, source, asked, report>>

\* The step ends: only a part of the prompt gives no token.
Emit(n, finished) ==
    /\ at = "outputs"
    /\ n = 0 => ~finished /\ ~served.decoding
    /\ served' = [served EXCEPT !.decoding = n > 0]
    /\ obs' = IF obs.request.active
              THEN [obs EXCEPT !.request = Outputs(@, n, finished)] ELSE obs
    /\ at' = IF finished THEN "ending" ELSE "step"
    /\ call' = Idle
    /\ UNCHANGED <<kind, disk, source, cache, asked, report>>

\* The end may come in a later batch, without a token and without a step.
EndsAlone ==
    /\ at = "step" /\ served.decoding /\ at' = "ending"
    /\ UNCHANGED <<kind, served, disk, source, cache, call, obs, asked, report>>

\* end_request
End ==
    /\ at = "ending" /\ at' = "between"
    /\ report' = IF obs.request.active THEN ReportOf(obs.request) ELSE NoReport
    /\ obs' = [obs EXCEPT !.request = Nothing]
    /\ UNCHANGED <<kind, served, disk, source, cache, call, asked>>

\* Somebody puts another file under the path: the mapping keeps the old one,
\* and only the next arm would open it.
Replace ==
    /\ at = "between" /\ kind = "advice" /\ disk = 1 /\ disk' = 2
    /\ UNCHANGED <<kind, at, served, source, cache, call, obs, asked, report>>

Next ==
    \/ Install \/ Close \/ Begin \/ Insert \/ EndsAlone \/ End \/ Replace
    \/ \E policy \in Policies : Prepare(policy) \/ Switch(policy)
    \/ \E ids \in Batches : Lookup(ids)
    \/ \E t \in DOMAIN call.work : Gather(t) \/ Store(t)
    \/ \E n \in 0 .. 1, finished \in BOOLEAN : Emit(n, finished)

Spec == Init /\ [][Next]_vars

-----------------------------------------------------------------------------
\* Every position of an answer holds the row that was asked for, of the file the
\* process began with, whichever thread read it and whatever left the cache; a
\* lookup fails only when its batch alone is larger than the cache, and what it
\* read stays for the next one (affine_safetensors.py, AffineRowLRU).
AnswersAreTheTable ==
    LET fits == Cardinality(ToSet(call.ids)) <= MaxRows IN
    /\ call.outcome = "rows" =>
          /\ call.answer = [j \in DOMAIN call.ids |-> [id |-> call.ids[j], edition |-> 1]]
          /\ ToSet(call.ids) \subseteq Cached(cache.rows)
    /\ call.outcome = "error" => ~fits
    /\ Len(cache.rows) <= MaxRows

\* A policy the record claims, of one range or of the table, is what the kernel
\* does there, after any failure of the request or of its rollback
\* (set_engram_advice): the arms of the comparison ran under what they say.
AdviceIsHonest ==
    /\ \A r \in Regions : source.advice.claims[r] \in Policies =>
          source.kernel[r] = source.advice.claims[r]
    /\ source.advice.effective \in Policies =>
          \A r \in Regions : source.kernel[r] = source.advice.effective

\* The report of a request adds up, also for a cache first met within it: the
\* rows its threads counted are those its cache counted as read, phase by phase,
\* its hits and misses are the rows it asked for, and the first request of an arm
\* found nothing cached (fault_diagnostics.py, prepare_embedding).
ReadsAddUp ==
    report # NoReport =>
        LET r == report.request
            a == report.asked
            whole == Delta(r.start, report.end)
        IN  /\ whole.hits + whole.misses = a.before + a.decode
            /\ whole.read = ReadIn(r, "before_first") + ReadIn(r, "decode")
            /\ r.first.seen =>
                  /\ Delta(r.start, r.first).read = ReadIn(r, "before_first")
                  /\ Delta(r.first, report.end).hits + Delta(r.first, report.end).misses
                        = a.decode
            /\ r.last.seen => r.last = report.end /\ r.tokens > 0
            /\ a.cold => whole.read >= Cardinality(a.ids)
=============================================================================
