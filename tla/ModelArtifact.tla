---------------------------- MODULE ModelArtifact ----------------------------
(***************************************************************************)
(* How the repaired model comes to be and is admitted: ds41-densefix.py    *)
(* downloads the source tensors, copies the original shards and patches    *)
(* the copies; validate-ds41-densefix.py compares the result with its      *)
(* sources; artifact_identity.py seals it on each node and admits a model  *)
(* load by the seal.  Each command is a process that may raise or be       *)
(* killed anywhere, and be started again.  A file is the sequence of its   *)
(* cells and its digest is that sequence.                                  *)
(***************************************************************************)
EXTENDS Naturals, Sequences, FiniteSets

CONSTANTS
  Sizes,                \* cells of each original shard, in the order of names
  Patch,                \* tensors of the manifest: shard, first and last cell
  Blocks,               \* blocks of a source range
  Chunk,                \* cells read at a time
  MaxAttempts,          \* requests for one range, 12 in the code
  MaxCommands, MaxChecks, MaxSyncs, MaxEdits    \* bounds

Shards == 1..Len(Sizes)
Tensors == 1..Len(Patch)
Span(t) == Patch[t].first .. Patch[t].last

ASSUME SizesAssumption == Sizes \in Seq(Nat \ {0})
ASSUME PatchAssumption ==
  /\ Patch \in Seq([shard : Shards, first : Nat \ {0}, last : Nat])
  /\ Patch # <<>>
  /\ \A t \in Tensors : /\ Patch[t].first <= Patch[t].last
                        /\ Patch[t].last <= Sizes[Patch[t].shard]
  /\ \A t, u \in Tensors :
       t # u /\ Patch[t].shard = Patch[u].shard => Span(t) \cap Span(u) = {}
ASSUME BlocksAssumption == Blocks \in Nat \ {0}
ASSUME ChunkAssumption == Chunk \in Nat \ {0}
ASSUME BoundAssumption ==
  {MaxAttempts, MaxCommands, MaxChecks, MaxSyncs, MaxEdits} \subseteq Nat

Origin == 1             \* the node the commands run on
Replica == 2            \* the node the artifact is copied to
Nodes == {Origin, Replica}
Parts == {"weight", "scale"}

VARIABLES
  manifest,             \* densefix-manifest.plan.json is there
  cache, completed,     \* the cached ranges; download-receipts.json
  dest,                 \* how much of the derived directory is there
  disk,                 \* node -> shard -> its file
  precopy, repaired,    \* .densefix-precopy.json, .densefix-repair.json
  validation,           \* densefix-validation.json of each node
  seal,                 \* .ds41-artifact-verified.json of each node
  admitted,             \* what the last PASS of verify_fast on a node saw
  job, check,           \* the running densefix command, the identity command
  touched,              \* shards changed by others since validated (history)
  clock,                \* modification times that somebody saw, counted
  commands, checks, syncs, edits

bounds == <<clock, commands, checks, syncs, edits>>
source == <<manifest, cache, completed>>
identity == <<seal, admitted, check>>
vars == <<source, dest, disk, precopy, repaired, validation, identity, job,
          touched, bounds>>

-----------------------------------------------------------------------------
(* Contents.                                                               *)
Original(s) == [c \in 1..Sizes[s] |-> "o"]
Patched(s) == UNION {Span(t) : t \in {u \in Tensors : Patch[u].shard = s}}
(* artifact.json pins the digests of the repaired shards.                  *)
Pinned(s) == [c \in 1..Sizes[s] |-> IF c \in Patched(s) THEN "f" ELSE "o"]

(* What conversion makes of the cached ranges of a tensor.                 *)
Whole == [b \in 1..Blocks |-> b]
Converted(t) == IF \A k \in Parts : cache[t][k] = Whole THEN "f" ELSE "x"

NoFile == [data |-> <<>>, ino |-> 0, mtime |-> 0]
IsThere(n, s) == disk[n][s].ino # 0
(* Fault: a fingerprint without the file number.                           *)
StatNoFile(n, s) == <<Len(disk[n][s].data), disk[n][s].mtime>>
Stat(n, s) == <<n, Len(disk[n][s].data), disk[n][s].ino, disk[n][s].mtime>>

Intervals(s) == {Patch[t] : t \in {u \in Tensors : Patch[u].shard = s}}
NextInterval(s, cursor) ==
  CHOOSE x \in Intervals(s) :
    /\ x.last >= cursor
    /\ \A y \in Intervals(s) : y.last >= cursor => x.first <= y.first

Lowest(a, b) == IF a < b THEN a ELSE b

(* Fault: one cell too many is left out behind an interval.                *)
OutsideOfLate(s, data, base, end) ==
  LET out[cursor \in 1..end + 1] ==
        IF cursor > end THEN <<>>
        ELSE IF ~ \E x \in Intervals(s) : x.last >= cursor /\ x.first <= end
        THEN SubSeq(data, cursor, end)
        ELSE LET x == NextInterval(s, cursor)
             IN  SubSeq(data, cursor, Lowest(x.first - 1, end))
                   \o out[Lowest(x.last + 1, end) + 1]
  IN  out[base]

(* update_unpatched_hash: the part of a chunk outside the sorted intervals, *)
(* from position `cursor' on.                                              *)
OutsideOf(s, data, base, end) ==
  LET out[cursor \in 1..end + 1] ==
        IF cursor > end THEN <<>>
        ELSE IF ~ \E x \in Intervals(s) : x.last >= cursor /\ x.first <= end
        THEN SubSeq(data, cursor, end)
        ELSE LET x == NextInterval(s, cursor)
             IN  SubSeq(data, cursor, Lowest(x.first - 1, end))
                   \o out[Lowest(x.last, end) + 1]
  IN  out[base]

(* The whole file, one chunk after the other.                              *)
UnpatchedDigest(s, data) ==
  LET upTo[n \in 0..Len(data)] ==
        IF n = 0 THEN <<>>
        ELSE LET base == ((n - 1) \div Chunk) * Chunk
             IN  upTo[base] \o OutsideOf(s, data, base + 1, n)
  IN  upTo[Len(data)]

-----------------------------------------------------------------------------
NoReceipt == <<>>
Idle == [cmd |-> "idle"]

Init ==
  /\ manifest = FALSE /\ completed = {} /\ dest = "absent"
  /\ cache = [t \in Tensors |-> [k \in Parts |-> <<>>]]
  /\ disk = [n \in Nodes |-> [s \in Shards |-> NoFile]]
  /\ precopy = NoReceipt /\ repaired = NoReceipt
  /\ validation = [n \in Nodes |-> NoReceipt]
  /\ seal = [n \in Nodes |-> NoReceipt]
  /\ admitted = [n \in Nodes |-> NoReceipt]
  /\ job = Idle /\ check = Idle /\ touched = {}
  /\ clock = 0 /\ commands = 0 /\ checks = 0 /\ syncs = 0 /\ edits = 0

Started(j) ==
  /\ job = Idle /\ commands < MaxCommands
  /\ commands' = commands + 1 /\ job' = j
  /\ UNCHANGED <<clock, checks, syncs, edits>>

(* A raise or a kill; what was written stays, as no power fails here.      *)
JobDies ==
  /\ job # Idle /\ job' = Idle
  /\ UNCHANGED <<source, dest, disk, precopy, repaired, validation, identity,
                 touched, bounds>>

(* build_manifest: headers of all source shards, then one atomic file.     *)
BuildManifest ==
  /\ ~manifest /\ job = Idle /\ manifest' = TRUE
  /\ UNCHANGED <<cache, completed, dest, disk, precopy, repaired, validation,
                 identity, job, touched, bounds>>

-----------------------------------------------------------------------------
(* download                                                                *)
StartDownload ==
  /\ manifest
  /\ Started([cmd |-> "download", t |-> 1, part |-> "weight", tries |-> 0])
  /\ UNCHANGED <<source, dest, disk, precopy, repaired, validation, identity,
                 touched>>

Downloading == job.cmd = "download"

(* Fault: a resumed range opens its file anew.                             *)
FetchRangeAnew ==
  /\ Downloading
  /\ LET cur == Len(cache[job.t][job.part])
     IN  /\ cur < Blocks /\ job.tries < MaxAttempts
         /\ \E n \in 0..Blocks - cur :
              /\ cache' = [cache EXCEPT ![job.t][job.part] =
                             [b \in 1..n |-> cur + b]]
              /\ job' = [job EXCEPT !.tries = @ + 1]
  /\ UNCHANGED <<manifest, completed, dest, disk, precopy, repaired,
                 validation, identity, touched, bounds>>

(* strict_get_range asks for what is missing; the body may end early.      *)
FetchRange ==
  /\ Downloading
  /\ LET file == cache[job.t][job.part]
         cur == Len(file)
     IN  /\ cur < Blocks /\ job.tries < MaxAttempts
         /\ \E n \in 0..Blocks - cur :
              /\ cache' = [cache EXCEPT ![job.t][job.part] =
                   (IF cur = 0 THEN <<>> ELSE file) \o [b \in 1..n |-> cur + b]]
              /\ job' = [job EXCEPT !.tries = @ + 1]
  /\ UNCHANGED <<manifest, completed, dest, disk, precopy, repaired,
                 validation, identity, touched, bounds>>

(* The receipt of a tensor is written when both its ranges are there.      *)
RangeComplete ==
  /\ Downloading /\ Len(cache[job.t][job.part]) = Blocks
  /\ IF job.part = "weight"
     THEN /\ job' = [job EXCEPT !.part = "scale", !.tries = 0]
          /\ UNCHANGED completed
     ELSE /\ completed' = completed \cup {job.t}
          /\ job' = IF job.t = Len(Patch) THEN Idle
                    ELSE [job EXCEPT !.t = @ + 1, !.part = "weight", !.tries = 0]
  /\ UNCHANGED <<manifest, cache, dest, disk, precopy, repaired, validation,
                 identity, touched, bounds>>

-----------------------------------------------------------------------------
(* prepare                                                                 *)
StartPrepare ==
  /\ manifest /\ dest = "absent" /\ dest' = "partial"
  /\ Started([cmd |-> "prepare", s |-> 1, un |-> <<>>, receipt |-> NoReceipt])
  /\ UNCHANGED <<source, disk, precopy, repaired, validation, identity,
                 touched>>

Preparing == job.cmd = "prepare"

CopyChunk ==
  /\ Preparing /\ job.s \in Shards
  /\ LET s == job.s
         old == disk[Origin][s].data
         pos == Len(old)
         end == Lowest(pos + Chunk, Sizes[s])
     IN  /\ pos < Sizes[s]
         /\ disk' = [disk EXCEPT ![Origin][s] =
              [data |-> old \o SubSeq(Original(s), pos + 1, end),
               ino |-> 1, mtime |-> clock]]
         /\ job' = [job EXCEPT !.un = @ \o
              OutsideOf(s, Original(s), pos + 1, end)]
  /\ UNCHANGED <<source, dest, precopy, repaired, validation, identity,
                 touched, bounds>>

(* The receipt is rewritten after each shard.                              *)
ShardCopied ==
  /\ Preparing /\ job.s \in Shards
  /\ Len(disk[Origin][job.s].data) = Sizes[job.s]
  /\ LET r == [s \in 1..job.s |->
                 IF s = job.s THEN job.un ELSE job.receipt[s]]
     IN  /\ precopy' = r
         /\ job' = [job EXCEPT !.s = @ + 1, !.un = <<>>, !.receipt = r]
  /\ UNCHANGED <<source, dest, disk, repaired, validation, identity, touched,
                 bounds>>

(* Config, tokenizer and the other files, then densefix-manifest.json.     *)
FinishPrepare ==
  /\ Preparing /\ job.s \notin Shards
  /\ dest' = "whole" /\ job' = Idle
  /\ UNCHANGED <<source, disk, precopy, repaired, validation, identity,
                 touched, bounds>>

-----------------------------------------------------------------------------
(* repair                                                                  *)
StartRepair ==
  /\ manifest /\ precopy # NoReceipt /\ Cardinality(completed) = Len(Patch)
  /\ Started([cmd |-> "repair", t |-> 1, wrote |-> <<>>, receipt |-> NoReceipt])
  /\ UNCHANGED <<source, dest, disk, precopy, repaired, validation, identity,
                 touched>>

Repairing == job.cmd = "repair"

(* pwrite extends a file that is too short.                                *)
Written(data, c, v) ==
  [d \in 1..(IF c > Len(data) THEN c ELSE Len(data)) |->
     IF d = c THEN v ELSE IF d > Len(data) THEN "x" ELSE data[d]]

WriteRows ==
  /\ Repairing
  /\ LET t == job.t
         s == Patch[t].shard
         c == Patch[t].first + Len(job.wrote)
     IN  /\ IsThere(Origin, s) /\ c <= Patch[t].last
         /\ disk' = [disk EXCEPT ![Origin][s].data = Written(@, c, Converted(t)),
                                 ![Origin][s].mtime = clock]
         /\ job' = [job EXCEPT !.wrote = Append(@, Converted(t))]
  /\ UNCHANGED <<source, dest, precopy, repaired, validation, identity,
                 touched, bounds>>

(* A new run starts with an empty receipt, which replaces the old one.     *)
TensorRepaired ==
  /\ Repairing /\ Patch[job.t].first + Len(job.wrote) > Patch[job.t].last
  /\ LET r == [t \in 1..job.t |->
                 IF t = job.t THEN job.wrote ELSE job.receipt[t]]
     IN  /\ repaired' = r
         /\ job' = IF job.t = Len(Patch) THEN Idle
                   ELSE [job EXCEPT !.t = @ + 1, !.wrote = <<>>, !.receipt = r]
  /\ UNCHANGED <<source, dest, disk, precopy, validation, identity, touched,
                 bounds>>

-----------------------------------------------------------------------------
(* validate: reads both receipts, compares the tensors, hashes the shards. *)
StartValidate ==
  /\ manifest /\ precopy # NoReceipt /\ repaired # NoReceipt
  /\ \A s \in Shards : IsThere(Origin, s)
  /\ Started([cmd |-> "validate", t |-> 1, s |-> 1, precopy |-> precopy,
              repaired |-> repaired, sums |-> <<>>, late |-> {}])
  /\ UNCHANGED <<source, dest, disk, precopy, repaired, validation, identity,
                 touched>>

Validating == job.cmd = "validate"

CompareTensor ==
  /\ Validating /\ job.t \in Tensors
  /\ LET t == job.t
         data == disk[Origin][Patch[t].shard].data
         payload == SubSeq(data, Patch[t].first, Patch[t].last)
     IN  /\ Patch[t].last <= Len(data)
         /\ \A c \in Span(t) : data[c] = Converted(t)
         /\ t \in DOMAIN job.repaired /\ payload = job.repaired[t]
         /\ job' = [job EXCEPT !.t = @ + 1]
  /\ UNCHANGED <<source, dest, disk, precopy, repaired, validation, identity,
                 touched, bounds>>

HashShard ==
  /\ Validating /\ job.t \notin Tensors /\ job.s \in Shards
  /\ LET s == job.s
         data == disk[Origin][s].data
     IN  /\ s \in DOMAIN job.precopy
         /\ UnpatchedDigest(s, data) = job.precopy[s]
         /\ job' = [job EXCEPT !.s = @ + 1, !.sums = Append(@, data)]
  /\ UNCHANGED <<source, dest, disk, precopy, repaired, validation, identity,
                 touched, bounds>>

FinishValidate ==
  /\ Validating /\ job.t \notin Tensors /\ job.s \notin Shards
  /\ validation' = [validation EXCEPT ![Origin] = job.sums]
  /\ touched' = job.late /\ job' = Idle
  /\ UNCHANGED <<source, dest, disk, precopy, repaired, identity, bounds>>

-----------------------------------------------------------------------------
(* artifact_identity.py: seal-from-validation, verify-full, verify-fast    *)

(* validate_densefix_receipt: the receipt has the pinned digests.          *)
ReceiptIsPinned(n) ==
  /\ validation[n] # NoReceipt
  /\ \A s \in Shards : validation[n][s] = Pinned(s)

StartCheck(n, cmd) ==
  /\ check = Idle /\ checks < MaxChecks /\ ReceiptIsPinned(n)
  /\ cmd = "fast" => seal[n] # NoReceipt
  /\ check' = [cmd |-> cmd, n |-> n, s |-> 1, statted |-> FALSE,
               seal |-> seal[n], rows |-> <<>>]
  /\ checks' = checks + 1
  /\ UNCHANGED <<source, dest, disk, precopy, repaired, validation, seal,
                 admitted, job, touched, clock, commands, syncs, edits>>

Checking(cmd) == check.cmd = cmd /\ check.s \in Shards
StatIs(s) == Stat(check.n, s)
RowDone(row) == [check EXCEPT !.s = @ + 1, !.rows = Append(@, row),
                              !.statted = FALSE]

(* Time passes between a look at a file and the next write into it.        *)
Looked == clock' = IF disk[check.n][check.s].mtime = clock THEN clock + 1 ELSE clock

(* seal_from_validation takes the digest from the receipt, not the file.   *)
SealShard ==
  /\ Checking("seal") /\ IsThere(check.n, check.s)
  /\ Len(disk[check.n][check.s].data) = Sizes[check.s]
  /\ check' = RowDone([stat |-> StatIs(check.s), sha |-> Pinned(check.s),
                       blind |-> check.n = Replica \/ check.s \in touched])
  /\ Looked
  /\ UNCHANGED <<source, dest, disk, precopy, repaired, validation, seal,
                 admitted, job, touched, commands, checks, syncs, edits>>

(* verify_full stats a shard, then reads it.                               *)
StatShard ==
  /\ Checking("full") /\ ~check.statted /\ IsThere(check.n, check.s)
  /\ Len(disk[check.n][check.s].data) = Sizes[check.s]
  /\ check' = [check EXCEPT !.statted = TRUE, !.rows = Append(@,
                 [stat |-> StatIs(check.s), sha |-> Pinned(check.s),
                  blind |-> FALSE])]
  /\ Looked
  /\ UNCHANGED <<source, dest, disk, precopy, repaired, validation, seal,
                 admitted, job, touched, commands, checks, syncs, edits>>

ReadShard ==
  /\ Checking("full") /\ check.statted
  /\ disk[check.n][check.s].data = Pinned(check.s)
  /\ check' = [check EXCEPT !.s = @ + 1, !.statted = FALSE]
  /\ UNCHANGED <<source, dest, disk, precopy, repaired, validation, seal,
                 admitted, job, touched, bounds>>

(* verify_fast compares the fingerprint, and looks at no contents.         *)
Unchanged(row) == Stat(check.n, check.s) = row.stat

CompareShard ==
  /\ Checking("fast") /\ IsThere(check.n, check.s)
  /\ Unchanged(check.seal[check.s])
  /\ check.seal[check.s].sha = Pinned(check.s)
  /\ check' = RowDone([data |-> disk[check.n][check.s].data,
                       blind |-> check.seal[check.s].blind])
  /\ Looked
  /\ UNCHANGED <<source, dest, disk, precopy, repaired, validation, seal,
                 admitted, job, touched, commands, checks, syncs, edits>>

FinishCheck ==
  /\ check # Idle /\ check.s \notin Shards /\ check' = Idle
  /\ IF check.cmd = "fast"
     THEN admitted' = [admitted EXCEPT ![check.n] = check.rows] /\ UNCHANGED seal
     ELSE seal' = [seal EXCEPT ![check.n] = check.rows] /\ UNCHANGED admitted
  /\ UNCHANGED <<source, dest, disk, precopy, repaired, validation, job,
                 touched, bounds>>

CheckDies ==
  /\ check # Idle /\ check' = Idle
  /\ UNCHANGED <<source, dest, disk, precopy, repaired, validation, seal,
                 admitted, job, touched, bounds>>

-----------------------------------------------------------------------------
(* Others.  The directory is copied to the replica with its modification   *)
(* times and its receipts, now and then with a bad cell; something else    *)
(* writes into a shard.                                                    *)
Damage(data) == {[data EXCEPT ![c] = "x"] : c \in DOMAIN data}

Sync ==
  /\ syncs < MaxSyncs /\ syncs' = syncs + 1
  /\ validation[Origin] # NoReceipt
  /\ \E bad \in SUBSET Shards :
       disk' = [disk EXCEPT ![Replica] =
         [s \in Shards |-> [disk[Origin][s] EXCEPT
            !.data = IF s \in bad THEN [@ EXCEPT ![1] = "x"] ELSE @,
            !.ino = syncs + 1]]]
  /\ validation' = [validation EXCEPT ![Replica] = validation[Origin]]
  /\ seal' = [seal EXCEPT ![Replica] = seal[Origin]]
  /\ UNCHANGED <<source, dest, precopy, repaired, admitted, check, job,
                 touched, clock, commands, checks, edits>>

Edit(n, s) ==
  /\ edits < MaxEdits /\ edits' = edits + 1
  /\ IsThere(n, s)
  /\ \E data \in Damage(disk[n][s].data) :
       disk' = [disk EXCEPT ![n][s].data = data, ![n][s].mtime = clock]
  /\ IF n = Origin
     THEN /\ touched' = touched \cup {s}
          /\ job' = IF job.cmd = "validate"
                    THEN [job EXCEPT !.late = @ \cup {s}] ELSE job
     ELSE UNCHANGED <<touched, job>>
  /\ UNCHANGED <<source, dest, precopy, repaired, validation, identity,
                 clock, commands, checks, syncs>>

-----------------------------------------------------------------------------
Next ==
  \/ BuildManifest \/ JobDies \/ CheckDies
  \/ StartDownload \/ FetchRange \/ RangeComplete
  \/ StartPrepare \/ CopyChunk \/ ShardCopied \/ FinishPrepare
  \/ StartRepair \/ WriteRows \/ TensorRepaired
  \/ StartValidate \/ CompareTensor \/ HashShard \/ FinishValidate
  \/ \E n \in Nodes, cmd \in {"seal", "full", "fast"} : StartCheck(n, cmd)
  \/ SealShard \/ StatShard \/ ReadShard \/ CompareShard \/ FinishCheck
  \/ Sync
  \/ \E n \in Nodes, s \in Shards : Edit(n, s)

Spec == Init /\ [][Next]_vars

-----------------------------------------------------------------------------
(* Whatever request fails or process dies, a cached range is a prefix of   *)
(* the range it was cut from, and a receipt stands for whole ranges only.  *)
CacheIsPrefix ==
  /\ \A t \in Tensors, k \in Parts :
       LET file == cache[t][k]
       IN  Len(file) <= Blocks /\ \A b \in DOMAIN file : file[b] = b
  /\ \A t \in completed, k \in Parts : cache[t][k] = Whole

(* A validation receipt stands for shards that are the original outside    *)
(* the patched tensors, and correctly converted inside them unless someone *)
(* else wrote into the shard while or after it was validated.              *)
ValidatedIsRepaired ==
  validation[Origin] # NoReceipt =>
    \A s \in Shards :
      LET data == validation[Origin][s]
      IN  /\ \A c \in 1..Sizes[s] \ Patched(s) : data[c] = "o"
          /\ s \notin touched => data = Pinned(s)

(* A model load is admitted over the pinned bytes: the shards a PASS of    *)
(* verify_fast looked at held them, on either node, whoever copied or      *)
(* wrote files meanwhile.  The exception is the seal that trusts the       *)
(* validator's digest: it is blind to a change since the validation.       *)
AdmittedIsPinned ==
  \A n \in Nodes : admitted[n] # NoReceipt =>
    \A s \in Shards :
      admitted[n][s].data = Pinned(s) \/ admitted[n][s].blind
=============================================================================
