------------------------- MODULE ModelArtifactProofs -------------------------
(***************************************************************************)
(* Proofs about ModelArtifact, for any artifact, patch, number of blocks,  *)
(* of chunks, of requests and of commands: the cache of source ranges that *)
(* an interrupted download leaves and the receipts that stand for it; that *)
(* a validation receipt stands for repaired shards; and that a model load  *)
(* is admitted over the pinned bytes.                                      *)
(***************************************************************************)
EXTENDS ModelArtifact, Integers, SequenceTheorems, FiniteSetTheorems, TLAPS

(* A download is at one range; the weights of its tensor came first.       *)
Downloads == [cmd : {"download"}, t : Tensors, part : Parts, tries : Nat]
JobInv ==
  /\ "cmd" \in DOMAIN job
  /\ job.cmd = "download" =>
       /\ job \in Downloads
       /\ job.part = "scale" => cache[job.t]["weight"] = Whole

CacheType ==
  /\ completed \subseteq Tensors
  /\ cache \in [Tensors -> [Parts -> Seq(Nat)]]

CacheInv == JobInv /\ CacheType /\ CacheIsPrefix

LEMMA WholeType == Whole \in Seq(Nat) /\ Len(Whole) = Blocks
BY BlocksAssumption DEF Whole

(* A prefix of the range as long as the range is the range.                *)
LEMMA FullPrefix ==
  ASSUME NEW file \in Seq(Nat), Len(file) = Blocks, \A b \in DOMAIN file : file[b] = b
  PROVE  file = Whole
BY BlocksAssumption DEF Whole

LEMMA InitHolds == Init => CacheInv
<1> SUFFICES ASSUME Init PROVE CacheInv
  OBVIOUS
<1>1. JobInv
  BY DEF Init, JobInv, Idle
<1>2. CacheType
  BY DEF Init, CacheType
<1>3. CacheIsPrefix
  BY BlocksAssumption DEF Init, CacheIsPrefix
<1> QED BY <1>1, <1>2, <1>3 DEF CacheInv

(* The commands that touch neither the cache nor its receipts.             *)
LEMMA OthersKeep ==
  ASSUME CacheInv, UNCHANGED <<cache, completed>>, "cmd" \in DOMAIN job',
         job'.cmd = "download" => job' = job
  PROVE  CacheInv'
BY DEF CacheInv, JobInv, CacheType, CacheIsPrefix

LEMMA StartDownloadKeeps ==
  ASSUME CacheInv, StartDownload PROVE CacheInv'
<1>1. /\ job' = [cmd |-> "download", t |-> 1, part |-> "weight", tries |-> 0]
      /\ UNCHANGED <<cache, completed>>
  BY DEF StartDownload, Started, source
<1>2. 1 \in Tensors
  BY PatchAssumption DEF Tensors
<1>3. job' \in Downloads /\ job'.part = "weight"
  BY <1>1, <1>2 DEF Downloads, Parts
<1>4. JobInv'
  BY <1>3 DEF JobInv, Downloads
<1> QED BY <1>1, <1>4 DEF CacheInv, CacheType, CacheIsPrefix

LEMMA FetchRangeKeeps ==
  ASSUME CacheInv, FetchRange PROVE CacheInv'
<1> DEFINE t == job.t
           k == job.part
           file == cache[t][k]
           cur == Len(file)
<1>1. t \in Tensors /\ k \in Parts /\ file \in Seq(Nat) /\ cur \in Nat /\ job \in Downloads
  BY DEF CacheInv, JobInv, CacheType, FetchRange, Downloading, Downloads
<1>2. PICK n \in 0..Blocks - cur :
        /\ cur < Blocks
        /\ cache' = [cache EXCEPT ![t][k] =
             (IF cur = 0 THEN <<>> ELSE file) \o [b \in 1..n |-> cur + b]]
        /\ job' = [job EXCEPT !.tries = @ + 1]
        /\ completed' = completed
  BY DEF FetchRange
<1> DEFINE got == (IF cur = 0 THEN <<>> ELSE file) \o [b \in 1..n |-> cur + b]
<1>3. got \in Seq(Nat) /\ Len(got) <= Blocks /\ \A b \in DOMAIN got : got[b] = b
  <2>1. \A b \in DOMAIN file : file[b] = b
    BY <1>1 DEF CacheInv, CacheIsPrefix
  <2>2. n \in Nat /\ cur + n <= Blocks
    BY <1>1, <1>2, BlocksAssumption
  <2>3. [b \in 1..n |-> cur + b] \in Seq(Nat)
    BY <1>1, <2>2
  <2>4. CASE cur = 0
    BY <1>1, <2>2, <2>3, <2>4
  <2>5. CASE cur # 0
    <3> DEFINE more == [b \in 1..n |-> cur + b]
    <3>1. more \in Seq(Nat) /\ Len(more) = n /\ \A b \in 1..n : more[b] = cur + b
      BY <1>1, <2>2, <2>3
    <3> HIDE DEF more
    <3>2. /\ file \o more \in Seq(Nat) /\ Len(file \o more) = cur + n
          /\ \A b \in 1..cur + n :
               (file \o more)[b] = IF b <= cur THEN file[b] ELSE more[b - cur]
      BY <1>1, <2>2, <3>1, ConcatProperties
    <3>3. ASSUME NEW b \in 1..cur + n PROVE (file \o more)[b] = b
      <4>1. CASE b <= cur
        BY <1>1, <2>1, <3>2, <4>1
      <4>2. CASE b > cur
        <5>1. b - cur \in 1..n /\ cur + (b - cur) = b
          BY <1>1, <2>2, <4>2
        <5>2. (file \o more)[b] = more[b - cur]
          BY <1>1, <2>2, <3>2, <4>2
        <5> QED BY <3>1, <5>1, <5>2
      <4>3. b \in Nat /\ cur \in Nat
        BY <1>1, <2>2
      <4>4. b <= cur \/ b > cur
        BY <4>3
      <4> QED BY <4>1, <4>2, <4>4
    <3>4. DOMAIN (file \o more) = 1..cur + n
      BY <3>2
    <3> QED BY <2>2, <2>5, <3>2, <3>3, <3>4 DEF more
  <2> QED BY <2>4, <2>5
<1>4. t \notin completed
  BY <1>1, <1>2, WholeType DEF CacheInv, CacheIsPrefix
<1>5. job.part = "scale" => cache'[t]["weight"] = cache[t]["weight"]
  BY <1>1, <1>2 DEF CacheInv, CacheType
<1> HIDE DEF got
<1>6. \A u \in Tensors, j \in Parts :
        cache'[u][j] = IF u = t /\ j = k THEN got ELSE cache[u][j]
  BY <1>1, <1>2 DEF CacheInv, CacheType, got
<1>7. CacheType'
  BY <1>1, <1>2, <1>3 DEF CacheInv, CacheType, got
<1>8. JobInv'
  BY <1>1, <1>2, <1>5, <1>6, SMTT(30) DEF CacheInv, JobInv, Downloads
<1>9. CacheIsPrefix'
  <2>1. ASSUME NEW u \in Tensors, NEW j \in Parts
        PROVE  /\ Len(cache'[u][j]) <= Blocks
               /\ \A b \in DOMAIN cache'[u][j] : cache'[u][j][b] = b
    <3>1. CASE u = t /\ j = k
      BY <1>3, <1>6, <3>1
    <3>2. CASE ~(u = t /\ j = k)
      BY <1>6, <3>2 DEF CacheInv, CacheIsPrefix
    <3> QED BY <3>1, <3>2
  <2>2. ASSUME NEW u \in completed', NEW j \in Parts PROVE cache'[u][j] = Whole
    BY <1>2, <1>4, <1>6, <2>2 DEF CacheInv, CacheIsPrefix, CacheType
  <2> QED BY <2>1, <2>2 DEF CacheIsPrefix
<1> QED BY <1>7, <1>8, <1>9 DEF CacheInv

LEMMA RangeCompleteKeeps ==
  ASSUME CacheInv, RangeComplete PROVE CacheInv'
<1>1. job \in Downloads /\ job.t \in Tensors /\ job.part \in Parts
  BY DEF CacheInv, JobInv, RangeComplete, Downloading, Downloads
<1>2. cache[job.t][job.part] = Whole
  BY <1>1, FullPrefix DEF RangeComplete, CacheInv, CacheType, CacheIsPrefix
<1>3. CASE job.part = "weight"
  <2>1. /\ job' = [job EXCEPT !.part = "scale", !.tries = 0]
        /\ UNCHANGED <<cache, completed>>
    BY <1>3 DEF RangeComplete
  <2>2. job' \in Downloads /\ job'.t = job.t
    BY <1>1, <2>1 DEF Downloads, Parts
  <2>3. JobInv'
    BY <1>2, <1>3, <2>1, <2>2 DEF JobInv, Downloads
  <2> QED BY <2>1, <2>3 DEF CacheInv, CacheType, CacheIsPrefix
<1>4. CASE job.part = "scale"
  <2>1. /\ completed' = completed \cup {job.t} /\ cache' = cache
        /\ job' = IF job.t = Len(Patch) THEN Idle
                  ELSE [job EXCEPT !.t = @ + 1, !.part = "weight", !.tries = 0]
    BY <1>4 DEF RangeComplete
  <2>2. \A k \in Parts : cache[job.t][k] = Whole
    BY <1>1, <1>2, <1>4 DEF CacheInv, JobInv, RangeComplete, Downloading, Parts
  <2>3. CacheType' /\ CacheIsPrefix'
    BY <1>1, <2>1, <2>2 DEF CacheInv, CacheType, CacheIsPrefix
  <2>4. JobInv'
    <3>1. CASE job.t = Len(Patch)
      BY <2>1, <3>1 DEF JobInv, Idle
    <3>2. CASE job.t # Len(Patch)
      <4>1. job.t + 1 \in Tensors
        BY <1>1, <3>2, PatchAssumption DEF Tensors
      <4>2. job' \in Downloads /\ job'.part = "weight"
        BY <1>1, <2>1, <3>2, <4>1 DEF Downloads, Parts
      <4> QED BY <4>2 DEF JobInv, Downloads
    <3> QED BY <3>1, <3>2
  <2> QED BY <2>3, <2>4 DEF CacheInv
<1> QED BY <1>1, <1>3, <1>4 DEF Parts

LEMMA BusyKeeps ==
  ASSUME CacheInv,
         \/ CopyChunk \/ ShardCopied \/ WriteRows \/ TensorRepaired
         \/ CompareTensor \/ HashShard \/ \E n \in Nodes, s \in Shards : Edit(n, s)
  PROVE  CacheInv'
<1>1. "cmd" \in DOMAIN job
  BY DEF CacheInv, JobInv
<1>2. CASE CopyChunk
  BY <1>1, <1>2, OthersKeep DEF CopyChunk, Preparing, source
<1>3. CASE ShardCopied
  BY <1>1, <1>3, OthersKeep DEF ShardCopied, Preparing, source
<1>4. CASE WriteRows
  BY <1>1, <1>4, OthersKeep DEF WriteRows, Repairing, source
<1>5. CASE TensorRepaired
  BY <1>1, <1>5, OthersKeep DEF TensorRepaired, Repairing, source, Idle
<1>6. CASE CompareTensor
  BY <1>1, <1>6, OthersKeep DEF CompareTensor, Validating, source
<1>7. CASE HashShard
  BY <1>1, <1>7, OthersKeep DEF HashShard, Validating, source
<1>8. CASE \E n \in Nodes, s \in Shards : Edit(n, s)
  BY <1>1, <1>8, OthersKeep DEF Edit, source
<1> QED BY <1>2, <1>3, <1>4, <1>5, <1>6, <1>7, <1>8

LEMMA PlainKeeps ==
  ASSUME CacheInv,
         \/ BuildManifest \/ JobDies \/ CheckDies \/ StartPrepare \/ FinishPrepare
         \/ StartRepair \/ StartValidate \/ FinishValidate \/ SealShard \/ StatShard
         \/ ReadShard \/ CompareShard \/ FinishCheck \/ Sync
         \/ \E n \in Nodes, cmd \in {"seal", "full", "fast"} : StartCheck(n, cmd)
         \/ UNCHANGED vars
  PROVE  CacheInv'
<1>1. "cmd" \in DOMAIN job
  BY DEF CacheInv, JobInv
<1>2. UNCHANGED <<cache, completed>>
  BY DEF BuildManifest, JobDies, CheckDies, StartPrepare, FinishPrepare, StartRepair,
         StartValidate, FinishValidate, SealShard, StatShard, ReadShard, CompareShard,
         FinishCheck, Sync, StartCheck, vars, source
<1>3. CASE StartPrepare \/ StartRepair \/ StartValidate
  <2>1. "cmd" \in DOMAIN job' /\ job'.cmd # "download"
    BY <1>3 DEF StartPrepare, StartRepair, StartValidate, Started
  <2> QED BY <1>2, <2>1, OthersKeep
<1>4. CASE JobDies \/ FinishPrepare \/ FinishValidate
  <2>1. job' = Idle
    BY <1>4 DEF JobDies, FinishPrepare, FinishValidate
  <2> QED BY <1>2, <2>1, OthersKeep DEF Idle
<1>5. CASE job' = job
  BY <1>1, <1>2, <1>5, OthersKeep
<1>6. \/ StartPrepare \/ StartRepair \/ StartValidate
      \/ JobDies \/ FinishPrepare \/ FinishValidate \/ job' = job
  BY DEF BuildManifest, CheckDies, SealShard, StatShard, ReadShard, CompareShard,
         FinishCheck, Sync, StartCheck, vars
<1> QED BY <1>3, <1>4, <1>5, <1>6

LEMMA CacheKeeps ==
  ASSUME CacheInv, [Next]_vars PROVE CacheInv'
BY StartDownloadKeeps, FetchRangeKeeps, RangeCompleteKeeps, BusyKeeps, PlainKeeps DEF Next

(* CacheInv is an invariant.                                               *)
THEOREM CacheInvariant == Spec => []CacheInv
<1> QED BY InitHolds, CacheKeeps, PTL DEF Spec

(* CacheIsPrefix: whatever request fails or process dies, a cached range   *)
(* is a prefix of the range it was cut from, and a receipt stands for      *)
(* whole ranges only.                                                      *)
THEOREM CacheStaysPrefix == Spec => []CacheIsPrefix
<1>1. CacheInv => CacheIsPrefix
  BY DEF CacheInv
<1> QED BY <1>1, CacheInvariant, PTL

-----------------------------------------------------------------------------
(* The digest of a file without the tensors of the patch.  Two files of    *)
(* one length that have the same digest agree outside those tensors        *)
(* (DigestsAgree), for any intervals and any chunk size: the walk over the *)
(* intervals and the sum over the chunks are recursive functions, so both  *)
(* are shown to exist before anything is said of their values.             *)
Cells == {"o", "f", "x"}

LEMMA NatMin ==
  ASSUME NEW T, T \subseteq Nat, T # {}
  PROVE  \E n \in T : \A m \in T : n <= m
<1> DEFINE I == {0 .. n : n \in T}
<1>1. I \subseteq FiniteSubsetsOf(Nat) /\ I # {}
  <2>1. \A n \in T : 0 .. n \in SUBSET Nat /\ IsFiniteSet(0 .. n)
    BY FS_Interval
  <2>2. QED BY <2>1 DEF FiniteSubsetsOf
<1>2. PICK X \in I : \A Y \in I : <<Y, X>> \notin StrictSubsetOrdering(Nat)
  <2>1. IsWellFoundedOn(StrictSubsetOrdering(Nat), FiniteSubsetsOf(Nat))
    BY FS_StrictSubsetOrderingWellFounded
  <2> HIDE DEF I
  <2>2. QED BY <1>1, <2>1, WFMin
<1>3. PICK n \in T : X = 0 .. n
  OBVIOUS
<1>4. ASSUME NEW m \in T PROVE n <= m
  <2>1. SUFFICES ASSUME m < n PROVE FALSE
    OBVIOUS
  <2>2. 0 .. m \in I /\ 0 .. m \subseteq X /\ 0 .. m # X
    BY <1>3, <2>1
  <2>3. <<0 .. m, X>> \in StrictSubsetOrdering(Nat)
    BY <1>3, <2>2 DEF StrictSubsetOrdering
  <2>4. QED BY <1>2, <2>2, <2>3
<1>5. QED BY <1>4

(* What holds of every number whose predecessors it holds of, holds of all. *)
LEMMA NatInd ==
  ASSUME NEW S, \A n \in Nat : (\A m \in Nat : m < n => m \in S) => n \in S
  PROVE  Nat \subseteq S
<1> DEFINE T == Nat \ S
<1>1. SUFFICES ASSUME T # {} PROVE FALSE
  OBVIOUS
<1>2. PICK n \in T : \A m \in T : n <= m
  <2> HIDE DEF T
  <2>1. T \subseteq Nat BY DEF T
  <2>2. QED BY <1>1, <2>1, NatMin
<1>3. \A m \in Nat : m < n => m \in S
  BY <1>2
<1>4. QED BY <1>2, <1>3

Rest(s, data, end, f, cursor) ==
  IF cursor > end THEN <<>>
  ELSE IF ~ \E x \in Intervals(s) : x.last >= cursor /\ x.first <= end
  THEN SubSeq(data, cursor, end)
  ELSE LET x == NextInterval(s, cursor)
       IN  SubSeq(data, cursor, Lowest(x.first - 1, end))
             \o f[Lowest(x.last, end) + 1]
IsWalk(s, data, end, f) ==
  f = [cursor \in 1..end + 1 |-> Rest(s, data, end, f, cursor)]

LEMMA OutsideIs ==
  ASSUME NEW s, NEW data, NEW base, NEW end
  PROVE  OutsideOf(s, data, base, end) = (CHOOSE f : IsWalk(s, data, end, f))[base]
BY DEF OutsideOf, IsWalk, Rest

DigestTo(s, data, f, n) ==
  IF n = 0 THEN <<>>
  ELSE f[((n - 1) \div Chunk) * Chunk]
         \o OutsideOf(s, data, ((n - 1) \div Chunk) * Chunk + 1, n)
IsDigest(s, data, f) == f = [n \in 0..Len(data) |-> DigestTo(s, data, f, n)]

LEMMA DigestIs ==
  ASSUME NEW s, NEW data
  PROVE  UnpatchedDigest(s, data) = (CHOOSE f : IsDigest(s, data, f))[Len(data)]
BY DEF UnpatchedDigest, IsDigest, DigestTo

LEMMA PatchType ==
  ASSUME NEW t \in Tensors
  PROVE  /\ Patch[t] \in [shard : Shards, first : Nat \ {0}, last : Nat]
         /\ Patch[t].first <= Patch[t].last /\ Patch[t].last <= Sizes[Patch[t].shard]
<1>1. PICK S : Patch \in Seq(S) /\ S = [shard : Shards, first : Nat \ {0}, last : Nat]
  BY PatchAssumption
<1>2. Patch[t] \in S
  BY <1>1, ElementOfSeq DEF Tensors
<1> QED BY <1>1, <1>2, PatchAssumption

LEMMA IntervalType ==
  ASSUME NEW s \in Shards, NEW x \in Intervals(s)
  PROVE  /\ x.first \in Nat \ {0} /\ x.last \in Nat
         /\ x.first .. x.last \subseteq Patched(s)
<1>1. PICK t \in Tensors : Patch[t].shard = s /\ x = Patch[t]
  BY DEF Intervals
<1>2. Patch[t] \in [shard : Shards, first : Nat \ {0}, last : Nat]
  BY PatchType
<1>3. Span(t) \subseteq Patched(s)
  BY <1>1 DEF Patched
<1> QED BY <1>1, <1>2, <1>3 DEF Span

(* The next interval is one that does not end before the cursor.           *)
LEMMA NextIs ==
  ASSUME NEW s \in Shards, NEW cursor \in Nat, \E x \in Intervals(s) : x.last >= cursor
  PROVE  NextInterval(s, cursor) \in Intervals(s) /\ NextInterval(s, cursor).last >= cursor
<1> DEFINE S == {x \in Intervals(s) : x.last >= cursor}
           T == {x.first : x \in S}
<1>1. T \subseteq Nat /\ T # {}
  BY IntervalType
<1> HIDE DEF T
<1>2. PICK n \in T : \A m \in T : n <= m
  BY <1>1, NatMin
<1> USE DEF T
<1>3. PICK x \in S : x.first = n
  OBVIOUS
<1>4. x \in Intervals(s) /\ x.last >= cursor
      /\ \A y \in Intervals(s) : y.last >= cursor => x.first <= y.first
  BY <1>2, <1>3
<1> QED BY <1>4 DEF NextInterval

(* The walk goes forward.                                                  *)
LEMMA Forward ==
  ASSUME NEW s \in Shards, NEW end \in Nat, NEW cursor \in Nat, cursor <= end,
         \E x \in Intervals(s) : x.last >= cursor /\ x.first <= end
  PROVE  Lowest(NextInterval(s, cursor).last, end) + 1 \in cursor + 1..end + 1
<1>1. NextInterval(s, cursor) \in Intervals(s) /\ NextInterval(s, cursor).last >= cursor
  BY NextIs
<1>2. NextInterval(s, cursor).last \in Nat
  BY <1>1, IntervalType
<1> QED BY <1>1, <1>2 DEF Lowest

LEMMA RestLooksAhead ==
  ASSUME NEW s \in Shards, NEW data, NEW end \in Nat, NEW cursor \in Nat,
         NEW f, NEW g, \A c \in cursor + 1..end + 1 : f[c] = g[c]
  PROVE  Rest(s, data, end, f, cursor) = Rest(s, data, end, g, cursor)
<1>1. CASE cursor > end
  BY <1>1 DEF Rest
<1>2. CASE ~ cursor > end /\ ~ \E x \in Intervals(s) : x.last >= cursor /\ x.first <= end
  BY <1>2 DEF Rest
<1>3. CASE ~ cursor > end /\ \E x \in Intervals(s) : x.last >= cursor /\ x.first <= end
  <2>1. Lowest(NextInterval(s, cursor).last, end) + 1 \in cursor + 1..end + 1
    BY <1>3, Forward
  <2> QED BY <1>3, <2>1 DEF Rest
<1> QED BY <1>1, <1>2, <1>3

(* There is such a walk: it is defined from the end of the chunk backwards. *)
LEMMA WalkExists ==
  ASSUME NEW s \in Shards, NEW data, NEW end \in Nat
  PROVE  \E f : IsWalk(s, data, end, f)
<1> DEFINE Good(f, k) == \A c \in 1..end + 1 : c > k => f[c] = Rest(s, data, end, f, c)
           S == {n \in Nat : \E f : Good(f, end + 1 - n)}
<1>1. ASSUME NEW n \in Nat, \A m \in Nat : m < n => m \in S PROVE n \in S
  <2>1. CASE n = 0
    BY <2>1
  <2>2. CASE n # 0
    <3>1. PICK f : Good(f, end + 1 - (n - 1))
      BY <1>1, <2>2
    <3> DEFINE k == end + 1 - (n - 1)
               g == [c \in 1..end + 1 |-> IF c = k THEN Rest(s, data, end, f, k) ELSE f[c]]
    <3>2. k \in Int /\ end + 1 - n = k - 1
      OBVIOUS
    <3>3. \A c \in 1..end + 1 : g[c] = IF c = k THEN Rest(s, data, end, f, k) ELSE f[c]
      OBVIOUS
    <3> HIDE DEF g, k
    <3>4. ASSUME NEW c \in 1..end + 1, c > k - 1 PROVE g[c] = Rest(s, data, end, g, c)
      <4>1. \A d \in c + 1..end + 1 : f[d] = g[d]
        BY <3>2, <3>3, <3>4
      <4>2. Rest(s, data, end, f, c) = Rest(s, data, end, g, c)
        BY <4>1, RestLooksAhead
      <4>3. CASE c = k
        BY <3>3, <4>2, <4>3
      <4>4. CASE c # k
        <5>1. c > k /\ g[c] = f[c]
          BY <3>2, <3>3, <3>4, <4>4
        <5> QED BY <3>1, <4>2, <5>1 DEF k
      <4> QED BY <4>3, <4>4
    <3>5. Good(g, end + 1 - n)
      BY <3>2, <3>4
    <3> QED BY <3>5
  <2> QED BY <2>1, <2>2
<1> HIDE DEF S
<1>2. end + 1 \in S
  BY <1>1, NatInd
<1> USE DEF S
<1>3. PICK f : \A c \in 1..end + 1 : f[c] = Rest(s, data, end, f, c)
  BY <1>2
<1> DEFINE g == [c \in 1..end + 1 |-> f[c]]
<1>4. \A c \in 1..end + 1 : Rest(s, data, end, f, c) = Rest(s, data, end, g, c)
  <2>1. SUFFICES ASSUME NEW c \in 1..end + 1
                 PROVE  Rest(s, data, end, f, c) = Rest(s, data, end, g, c)
    OBVIOUS
  <2>2. \A d \in c + 1..end + 1 : f[d] = g[d]
    OBVIOUS
  <2> HIDE DEF g
  <2> QED BY <2>2, RestLooksAhead
<1>5. g = [c \in 1..end + 1 |-> Rest(s, data, end, g, c)]
  BY <1>3, <1>4
<1> QED BY <1>5 DEF IsWalk

Walks(s, data, end, f) == \A c \in 1..end + 1 : f[c] = Rest(s, data, end, f, c)

LEMMA OutsideWalks ==
  ASSUME NEW s \in Shards, NEW data, NEW end \in Nat
  PROVE  \E f : /\ \A base : OutsideOf(s, data, base, end) = f[base]
                /\ Walks(s, data, end, f)
<1> DEFINE f == CHOOSE f : IsWalk(s, data, end, f)
<1>1. IsWalk(s, data, end, f)
  BY WalkExists
<1>2. \A base : OutsideOf(s, data, base, end) = f[base]
  BY OutsideIs
<1> HIDE DEF f
<1>3. Walks(s, data, end, f)
  BY <1>1 DEF IsWalk, Walks
<1> QED BY <1>2, <1>3

(* The two parts of two equal sequences, if the first parts are as long.   *)
LEMMA SplitEqual ==
  ASSUME NEW p \in Seq(Cells), NEW q \in Seq(Cells), NEW u \in Seq(Cells), NEW v \in Seq(Cells),
         Len(p) = Len(q), p \o u = q \o v
  PROVE  p = q /\ u = v
<1>1. /\ Len(p \o u) = Len(p) + Len(u) /\ Len(q \o v) = Len(q) + Len(v)
      /\ \A i \in 1..Len(p) + Len(u) : (p \o u)[i] = IF i <= Len(p) THEN p[i] ELSE u[i - Len(p)]
      /\ \A i \in 1..Len(q) + Len(v) : (q \o v)[i] = IF i <= Len(q) THEN q[i] ELSE v[i - Len(q)]
  BY ConcatProperties, Zenon
<1>2. PICK w : w = p \o u
  OBVIOUS
<1>3. PICK a \in Nat, b \in Nat : a = Len(p) /\ b = Len(u) /\ Len(q) = a /\ Len(v) \in Nat
  OBVIOUS
<1>4. Len(v) = b
  <2>1. a + b = a + Len(v)
    BY <1>1, <1>3
  <2> QED BY <1>3, <2>1
<1>5. /\ \A i \in 1..a + b : w[i] = IF i <= a THEN p[i] ELSE u[i - a]
      /\ \A i \in 1..a + b : w[i] = IF i <= a THEN q[i] ELSE v[i - a]
  BY <1>2, <1>1, <1>3, <1>4
<1>6. \A i \in 1..a : p[i] = q[i]
  BY <1>5
<1>7. \A i \in 1..b : u[i] = v[i]
  <2>1. SUFFICES ASSUME NEW i \in 1..b PROVE u[i] = v[i]
    OBVIOUS
  <2>2. PICK j : j = i + a
    OBVIOUS
  <2>3. j \in 1..a + b /\ ~ j <= a /\ j - a = i
    BY <2>2
  <2> QED BY <1>5, <2>3
<1>8. p = q
  BY <1>3, <1>6, SeqEqual
<1>9. u = v
  BY <1>3, <1>4, <1>7, SeqEqual
<1> QED BY <1>8, <1>9

LEMMA JoinedAlike ==
  ASSUME NEW p \in Seq(Cells), NEW q \in Seq(Cells), NEW u \in Seq(Cells), NEW v \in Seq(Cells),
         Len(p) = Len(q), Len(u) = Len(v)
  PROVE  p \o u \in Seq(Cells) /\ q \o v \in Seq(Cells) /\ Len(p \o u) = Len(q \o v)
<1>1. p \o u \in Seq(Cells) /\ q \o v \in Seq(Cells)
      /\ Len(p \o u) = Len(p) + Len(u) /\ Len(q \o v) = Len(q) + Len(v)
  BY ConcatProperties, Zenon
<1> QED BY <1>1

(* A piece of a file, of one length for files that are of one length.      *)
LEMMA Piece ==
  ASSUME NEW d \in Seq(Cells), NEW m \in Nat, NEW n \in Int, m > 0, n <= Len(d)
  PROVE  /\ SubSeq(d, m, n) \in Seq(Cells)
         /\ Len(SubSeq(d, m, n)) = IF m <= n THEN n - m + 1 ELSE 0
         /\ \A i \in 1..n - m + 1 : SubSeq(d, m, n)[i] = d[m + i - 1]
<1>1. \A i \in m..n : d[i] \in Cells
  BY ElementOfSeq
<1> QED BY <1>1, SubSeqProperties

LEMMA PieceEqual ==
  ASSUME NEW d \in Seq(Cells), NEW e \in Seq(Cells), Len(d) = Len(e),
         NEW m \in Nat, NEW n \in Int, m > 0, n <= Len(d),
         SubSeq(d, m, n) = SubSeq(e, m, n)
  PROVE  \A c \in m..n : d[c] = e[c]
<1>1. SUFFICES ASSUME NEW c \in m..n PROVE d[c] = e[c]
  OBVIOUS
<1>2. PICK i : i = c - m + 1
  OBVIOUS
<1>3. i \in 1..n - m + 1 /\ m + i - 1 = c
  BY <1>2
<1> QED BY <1>3, Piece

(* From every position on, the walks over two files as long as one another *)
(* are as long, and where they are equal so are the files outside the      *)
(* intervals.                                                              *)
LEMMA WalksAgree ==
  ASSUME NEW s \in Shards, NEW d \in Seq(Cells), NEW e \in Seq(Cells), Len(d) = Len(e),
         NEW end \in 0..Len(d), NEW f, NEW g,
         Walks(s, d, end, f), Walks(s, e, end, g),
         NEW base \in 1..end + 1
  PROVE  /\ f[base] \in Seq(Cells) /\ g[base] \in Seq(Cells) /\ Len(f[base]) = Len(g[base])
         /\ f[base] = g[base] => \A c \in base..end : c \notin Patched(s) => d[c] = e[c]
<1> DEFINE Good(k) ==
             /\ f[k] \in Seq(Cells) /\ g[k] \in Seq(Cells) /\ Len(f[k]) = Len(g[k])
             /\ f[k] = g[k] => \A c \in k..end : c \notin Patched(s) => d[c] = e[c]
           S == {n \in Nat : \A k \in 1..end + 1 : k = end + 1 - n => Good(k)}
<1>1. ASSUME NEW n \in Nat, \A m \in Nat : m < n => m \in S PROVE n \in S
  <2>1. SUFFICES ASSUME NEW k \in 1..end + 1, k = end + 1 - n PROVE Good(k)
    OBVIOUS
  <2>2. \A j \in k + 1..end + 1 : Good(j)
    <3>1. SUFFICES ASSUME NEW j \in k + 1..end + 1 PROVE Good(j)
      OBVIOUS
    <3>2. PICK m : m = end + 1 - j
      OBVIOUS
    <3>3. m \in Nat /\ m < n /\ j = end + 1 - m /\ j \in 1..end + 1
      BY <2>1, <3>2
    <3> HIDE DEF Good
    <3> QED BY <1>1, <3>3
  <2>3. CASE k > end
    <3>1. f[k] = <<>> /\ g[k] = <<>>
      BY <2>3 DEF Rest, Walks
    <3> QED BY <2>3, <3>1
  <2>4. CASE ~ k > end /\ ~ \E x \in Intervals(s) : x.last >= k /\ x.first <= end
    <3>1. f[k] = SubSeq(d, k, end) /\ g[k] = SubSeq(e, k, end)
      BY <2>4 DEF Rest, Walks
    <3> QED BY <2>4, <3>1, Piece, PieceEqual
  <2>5. CASE ~ k > end /\ \E x \in Intervals(s) : x.last >= k /\ x.first <= end
    <3> DEFINE x == NextInterval(s, k)
               m == Lowest(x.first - 1, end)
               j == Lowest(x.last, end) + 1
    <3>1. f[k] = SubSeq(d, k, m) \o f[j] /\ g[k] = SubSeq(e, k, m) \o g[j]
      BY <2>5 DEF Rest, Walks
    <3>2. x \in Intervals(s) /\ x.last >= k
      BY <2>5, NextIs
    <3>3. x.first \in Nat /\ x.last \in Nat /\ x.first..x.last \subseteq Patched(s)
      BY <3>2, IntervalType
    <3>4. j \in k + 1..end + 1
      BY <2>5, Forward
    <3>5. m \in Int /\ m <= end
      BY <3>3 DEF Lowest
    <3>6. ASSUME NEW c \in k..end, c \notin Patched(s), ~ c <= m PROVE c \in j..end
      <4>1. c > x.last
        BY <3>3, <3>6 DEF Lowest
      <4> QED BY <3>3, <4>1 DEF Lowest
    <3>7. Good(j)
      BY <2>2, <3>4
    <3> HIDE DEF x, m, j
    <3>8. /\ SubSeq(d, k, m) \in Seq(Cells) /\ SubSeq(e, k, m) \in Seq(Cells)
          /\ Len(SubSeq(d, k, m)) = Len(SubSeq(e, k, m))
          /\ SubSeq(d, k, m) = SubSeq(e, k, m) => \A c \in k..m : d[c] = e[c]
      BY <3>5, Piece, PieceEqual
    <3>9. /\ f[j] \in Seq(Cells) /\ g[j] \in Seq(Cells) /\ Len(f[j]) = Len(g[j])
          /\ f[j] = g[j] => \A c \in j..end : c \notin Patched(s) => d[c] = e[c]
      BY <3>7
    <3>10. /\ f[k] \in Seq(Cells) /\ g[k] \in Seq(Cells) /\ Len(f[k]) = Len(g[k])
           /\ f[k] = g[k] => SubSeq(d, k, m) = SubSeq(e, k, m) /\ f[j] = g[j]
      <4>1. PICK p, q, u, v, w, y :
              /\ p = SubSeq(d, k, m) /\ q = SubSeq(e, k, m) /\ u = f[j] /\ v = g[j]
              /\ w = f[k] /\ y = g[k]
        OBVIOUS
      <4>2. /\ p \in Seq(Cells) /\ q \in Seq(Cells) /\ u \in Seq(Cells) /\ v \in Seq(Cells)
            /\ Len(p) = Len(q) /\ Len(u) = Len(v)
        BY <3>8, <3>9, <4>1
      <4>3. w = p \o u /\ y = q \o v
        BY <3>1, <4>1
      <4>4. w \in Seq(Cells) /\ y \in Seq(Cells) /\ Len(w) = Len(y)
        BY <4>2, <4>3, JoinedAlike
      <4>5. w = y => p = q /\ u = v
        BY <4>2, <4>3, SplitEqual, ZenonT(60)
      <4> QED BY <4>1, <4>4, <4>5
    <3>11. f[k] = g[k] => \A c \in k..end : c \notin Patched(s) => d[c] = e[c]
      <4>1. SUFFICES ASSUME f[k] = g[k], NEW c \in k..end, c \notin Patched(s)
                     PROVE  d[c] = e[c]
        OBVIOUS
      <4>2. SubSeq(d, k, m) = SubSeq(e, k, m) /\ f[j] = g[j]
        BY <3>10, <4>1
      <4>3. CASE c <= m
        BY <3>5, <3>8, <4>2, <4>3
      <4>4. CASE ~ c <= m
        BY <3>6, <3>9, <4>1, <4>2, <4>4
      <4> QED BY <4>3, <4>4
    <3> QED BY <3>10, <3>11
  <2> QED BY <2>3, <2>4, <2>5
<1> HIDE DEF S
<1>2. end + 1 - base \in S
  BY <1>1, NatInd
<1> QED BY <1>2 DEF S

LEMMA Steps ==
  ASSUME NEW a \in Nat, NEW b \in Nat, NEW C \in Nat, a < b
  PROVE  a * C + C <= b * C
<1>1. PICK k \in Nat : b = a + 1 + k
  <2>1. b - a - 1 \in Nat /\ b = a + 1 + (b - a - 1)
    OBVIOUS
  <2> QED BY <2>1
<1>2. k * C \in Nat /\ a * C \in Nat /\ b * C = a * C + C + k * C
  BY <1>1
<1> QED BY <1>2

LEMMA DivIs ==
  ASSUME NEW m \in Nat, NEW q \in Nat, NEW C \in Nat \ {0}, q * C <= m, m < q * C + C
  PROVE  m \div C = q
<1>1. PICK d \in Nat : d = m \div C /\ d * C <= m /\ m < d * C + C
  OBVIOUS
<1>2. ~ d < q
  BY <1>1, Steps
<1>3. ~ q < d
  BY <1>1, Steps
<1> QED BY <1>1, <1>2, <1>3

(* Where the chunk of cell n begins.                                       *)
Base(n) == ((n - 1) \div Chunk) * Chunk

LEMMA BaseBefore ==
  ASSUME NEW n \in Nat \ {0}
  PROVE  Base(n) \in 0..n - 1
<1>1. PICK C \in Nat \ {0} : C = Chunk
  BY ChunkAssumption
<1>2. PICK m \in Nat : m = n - 1
  OBVIOUS
<1>3. (m \div C) * C \in 0..m
  OBVIOUS
<1> QED BY <1>1, <1>2, <1>3 DEF Base

LEMMA DigestExists ==
  ASSUME NEW s \in Shards, NEW data, Len(data) \in Nat
  PROVE  \E f : IsDigest(s, data, f)
<1> DEFINE Good(f, k) == \A n \in 0..Len(data) : n <= k => f[n] = DigestTo(s, data, f, n)
           S == {n \in Nat : \E f : Good(f, n)}
<1>1. ASSUME NEW f, NEW g, NEW n \in Nat, \A m \in Nat : m < n => f[m] = g[m]
      PROVE  DigestTo(s, data, f, n) = DigestTo(s, data, g, n)
  <2>1. n # 0 => Base(n) \in Nat /\ Base(n) < n
    BY BaseBefore
  <2> QED BY <1>1, <2>1 DEF DigestTo, Base
<1>2. ASSUME NEW n \in Nat, \A m \in Nat : m < n => m \in S PROVE n \in S
  <2>1. \E f : \A m \in 0..Len(data) : m < n => f[m] = DigestTo(s, data, f, m)
    <3>1. CASE n = 0
      BY <3>1
    <3>2. CASE n # 0
      <4>1. PICK k \in Nat : k = n - 1 /\ k < n
        BY <3>2
      <4>2. k \in S
        <5> HIDE DEF S
        <5> QED BY <1>2, <4>1
      <4>3. PICK f : Good(f, k)
        BY <4>2
      <4> QED BY <4>1, <4>3
    <3> QED BY <3>1, <3>2
  <2>2. PICK f : \A m \in 0..Len(data) : m < n => f[m] = DigestTo(s, data, f, m)
    BY <2>1
  <2> DEFINE g == [m \in Nat |-> IF m = n THEN DigestTo(s, data, f, n) ELSE f[m]]
  <2>3. \A m \in Nat : g[m] = IF m = n THEN DigestTo(s, data, f, n) ELSE f[m]
    OBVIOUS
  <2> HIDE DEF g
  <2>4. ASSUME NEW m \in 0..Len(data), m <= n PROVE g[m] = DigestTo(s, data, g, m)
    <3>1. \A j \in Nat : j < m => f[j] = g[j]
      BY <2>3, <2>4
    <3>2. DigestTo(s, data, f, m) = DigestTo(s, data, g, m)
      BY <1>1, <3>1
    <3> QED BY <2>2, <2>3, <2>4, <3>2
  <2> QED BY <2>4
<1> HIDE DEF S
<1>3. Len(data) \in S
  BY <1>2, NatInd
<1> USE DEF S
<1>4. PICK f : \A n \in 0..Len(data) : f[n] = DigestTo(s, data, f, n)
  BY <1>3
<1> DEFINE h == [n \in 0..Len(data) |-> f[n]]
<1>5. ASSUME NEW n \in 0..Len(data) PROVE DigestTo(s, data, f, n) = DigestTo(s, data, h, n)
  <2>1. n # 0 => Base(n) \in 0..Len(data)
    BY BaseBefore
  <2>2. n # 0 => f[Base(n)] = h[Base(n)]
    BY <2>1
  <2> HIDE DEF h
  <2> QED BY <2>2 DEF DigestTo, Base
<1>6. h = [n \in 0..Len(data) |-> DigestTo(s, data, h, n)]
  BY <1>4, <1>5
<1> QED BY <1>6 DEF IsDigest

(* The digest of the first cells of a file, up to each of them.            *)
UpTo(s, data) == CHOOSE f : IsDigest(s, data, f)

LEMMA UpToIs ==
  ASSUME NEW s \in Shards, NEW data, Len(data) \in Nat
  PROVE  /\ UnpatchedDigest(s, data) = UpTo(s, data)[Len(data)]
         /\ \A n \in 0..Len(data) :
              UpTo(s, data)[n] =
                IF n = 0 THEN <<>>
                ELSE UpTo(s, data)[Base(n)] \o OutsideOf(s, data, Base(n) + 1, n)
<1>1. UnpatchedDigest(s, data) = UpTo(s, data)[Len(data)]
  BY DigestIs DEF UpTo
<1>2. IsDigest(s, data, UpTo(s, data))
  BY DigestExists DEF UpTo
<1>3. PICK f : f = UpTo(s, data)
  OBVIOUS
<1>4. \A n \in 0..Len(data) : f[n] = DigestTo(s, data, f, n)
  BY <1>2, <1>3 DEF IsDigest
<1> QED BY <1>1, <1>3, <1>4 DEF DigestTo, Base

LEMMA OutsidesAgree ==
  ASSUME NEW s \in Shards, NEW d \in Seq(Cells), NEW e \in Seq(Cells), Len(d) = Len(e),
         NEW n \in 0..Len(d), NEW base \in 1..n + 1
  PROVE  /\ OutsideOf(s, d, base, n) \in Seq(Cells) /\ OutsideOf(s, e, base, n) \in Seq(Cells)
         /\ Len(OutsideOf(s, d, base, n)) = Len(OutsideOf(s, e, base, n))
         /\ OutsideOf(s, d, base, n) = OutsideOf(s, e, base, n)
              => \A c \in base..n : c \notin Patched(s) => d[c] = e[c]
<1>1. PICK F : /\ \A b : OutsideOf(s, d, b, n) = F[b]
               /\ Walks(s, d, n, F)
  BY OutsideWalks
<1>2. PICK G : /\ \A b : OutsideOf(s, e, b, n) = G[b]
               /\ Walks(s, e, n, G)
  BY OutsideWalks
<1>3. /\ F[base] \in Seq(Cells) /\ G[base] \in Seq(Cells) /\ Len(F[base]) = Len(G[base])
      /\ F[base] = G[base] => \A c \in base..n : c \notin Patched(s) => d[c] = e[c]
  BY <1>1, <1>2, WalksAgree
<1> QED BY <1>1, <1>2, <1>3

(* Two files as long as one another with one digest agree outside the      *)
(* tensors of the patch.                                                   *)
LEMMA DigestsAgree ==
  ASSUME NEW s \in Shards, NEW d \in Seq(Cells), NEW e \in Seq(Cells), Len(d) = Len(e),
         UnpatchedDigest(s, d) = UnpatchedDigest(s, e)
  PROVE  \A c \in 1..Len(d) : c \notin Patched(s) => d[c] = e[c]
<1>1. PICK f, g : f = UpTo(s, d) /\ g = UpTo(s, e)
  OBVIOUS
<1>2. PICK L \in Nat : L = Len(d) /\ L = Len(e)
  OBVIOUS
<1>3. /\ f[L] = g[L]
      /\ \A n \in 0..L : f[n] = IF n = 0 THEN <<>>
                                ELSE f[Base(n)] \o OutsideOf(s, d, Base(n) + 1, n)
      /\ \A n \in 0..L : g[n] = IF n = 0 THEN <<>>
                                ELSE g[Base(n)] \o OutsideOf(s, e, Base(n) + 1, n)
  BY <1>1, <1>2, UpToIs
<1> DEFINE Good(n) ==
             /\ f[n] \in Seq(Cells) /\ g[n] \in Seq(Cells) /\ Len(f[n]) = Len(g[n])
             /\ f[n] = g[n] => \A c \in 1..n : c \notin Patched(s) => d[c] = e[c]
           S == {n \in Nat : n <= L => Good(n)}
<1>4. ASSUME NEW n \in Nat, \A m \in Nat : m < n => m \in S PROVE n \in S
  <2>1. SUFFICES ASSUME n <= L PROVE Good(n)
    OBVIOUS
  <2>2. CASE n = 0
    <3>1. f[n] = <<>> /\ g[n] = <<>>
      BY <1>3, <2>2
    <3> QED BY <2>2, <3>1
  <2>3. CASE n # 0
    <3>1. PICK b : b = Base(n) /\ b \in 0..n - 1
      BY <2>3, BaseBefore
    <3>2. Good(b)
      <4> HIDE DEF Good
      <4> QED BY <1>4, <2>1, <3>1
    <3>3. PICK u, v : u = OutsideOf(s, d, b + 1, n) /\ v = OutsideOf(s, e, b + 1, n)
      OBVIOUS
    <3>4. n \in 0..L /\ b + 1 \in 1..n + 1
      BY <2>1, <3>1
    <3>5. f[n] = f[b] \o u /\ g[n] = g[b] \o v
      BY <1>3, <2>3, <3>1, <3>3, <3>4
    <3>6. /\ u \in Seq(Cells) /\ v \in Seq(Cells) /\ Len(u) = Len(v)
          /\ u = v => \A c \in b + 1..n : c \notin Patched(s) => d[c] = e[c]
      BY <1>2, <3>3, <3>4, OutsidesAgree
    <3>7. PICK p, q, w, y : p = f[b] /\ q = g[b] /\ w = f[n] /\ y = g[n]
      OBVIOUS
    <3>8. /\ p \in Seq(Cells) /\ q \in Seq(Cells) /\ Len(p) = Len(q)
          /\ p = q => \A c \in 1..b : c \notin Patched(s) => d[c] = e[c]
      BY <3>2, <3>7
    <3>9. w = p \o u /\ y = q \o v
      BY <3>5, <3>7
    <3>10. b \in 0..n
      BY <3>1
    <3>11. w \in Seq(Cells) /\ y \in Seq(Cells) /\ Len(w) = Len(y)
      BY <3>6, <3>8, <3>9, JoinedAlike
    <3>12. ASSUME w = y PROVE \A c \in 1..n : c \notin Patched(s) => d[c] = e[c]
      <4>1. p = q /\ u = v
        <5>1. p \o u = q \o v
          BY <3>9, <3>12
        <5>2. /\ p \in Seq(Cells) /\ q \in Seq(Cells) /\ Len(p) = Len(q)
              /\ u \in Seq(Cells) /\ v \in Seq(Cells)
          BY <3>6, <3>8
        <5> QED BY <5>1, <5>2, SplitEqual
      <4>2. \A c \in 1..n : c \in 1..b \/ c \in b + 1..n
        BY <3>10
      <4> QED BY <3>6, <3>8, <4>1, <4>2
    <3> QED BY <3>7, <3>11, <3>12
  <2> QED BY <2>2, <2>3
<1> HIDE DEF S
<1>5. L \in S
  BY <1>4, NatInd
<1> QED BY <1>2, <1>3, <1>5 DEF S

-----------------------------------------------------------------------------
(* The files.  No modification time is ahead of the clock, and no file of  *)
(* the replica is of a copy that has not been made.                        *)
Contents == [data : Seq(Cells), ino : Nat, mtime : Nat]
DiskInv ==
  /\ disk \in [Nodes -> [Shards -> Contents]]
  /\ clock \in Nat /\ syncs \in Nat
  /\ \A n \in Nodes, s \in Shards : disk[n][s].mtime <= clock
  /\ \A s \in Shards : disk[Replica][s].ino <= syncs
File(s) == disk[Origin][s].data

(* What a step does to a file: nothing, a write at the present time, or a  *)
(* new copy.                                                               *)
DiskStep ==
  /\ disk' \in [Nodes -> [Shards -> Contents]]
  /\ clock' \in Nat /\ syncs' \in Nat /\ clock <= clock' /\ syncs <= syncs'
  /\ \A n \in Nodes, s \in Shards :
       \/ disk'[n][s] = disk[n][s]
       \/ /\ disk'[n][s].mtime = clock
          /\ n = Origin \/ disk'[n][s].ino = disk[n][s].ino
       \/ /\ n = Replica /\ disk'[n][s].ino = syncs + 1 /\ syncs' = syncs + 1
          /\ disk'[n][s].mtime = disk[Origin][s].mtime

LEMMA DiskKeeps == DiskInv /\ DiskStep => DiskInv'
<1> SUFFICES ASSUME DiskInv, DiskStep PROVE DiskInv'
  OBVIOUS
<1>1. ASSUME NEW n \in Nodes, NEW s \in Shards
      PROVE  disk'[n][s].mtime <= clock'
  <2>1. /\ disk[n][s].mtime \in Nat /\ disk[Origin][s].mtime \in Nat
        /\ disk[n][s].mtime <= clock /\ disk[Origin][s].mtime <= clock
    BY DEF DiskInv, Contents, Nodes
  <2>2. disk'[n][s].mtime \in {disk[n][s].mtime, clock, disk[Origin][s].mtime}
    BY DEF DiskStep
  <2> QED BY <2>1, <2>2 DEF DiskInv, DiskStep
<1>2. ASSUME NEW s \in Shards PROVE disk'[Replica][s].ino <= syncs'
  <2>1. disk[Replica][s].ino \in Nat /\ disk[Replica][s].ino <= syncs
    BY DEF DiskInv, Contents, Nodes
  <2>2. \/ disk'[Replica][s].ino = disk[Replica][s].ino
        \/ disk'[Replica][s].ino = syncs + 1 /\ syncs' = syncs + 1
    BY DEF DiskStep, Nodes, Origin, Replica
  <2> QED BY <2>1, <2>2 DEF DiskInv, DiskStep
<1> QED BY <1>1, <1>2 DEF DiskInv, DiskStep

(* A row of a seal: whoever still has that fingerprint has the pinned      *)
(* bytes.                                                                  *)
Stats == Nodes \X Nat \X Nat \X Nat
SealRows == [stat : Stats, sha : Seq(Cells), blind : BOOLEAN]
FastRows == [data : Seq(Cells), blind : BOOLEAN]
Stamped(row) ==
  row.stat[4] < clock /\ (row.stat[1] = Replica => row.stat[3] <= syncs)
Holds(row, s) ==
  row.blind \/ \A n \in Nodes : Stat(n, s) = row.stat => disk[n][s].data = Pinned(s)

LEMMA RowStays ==
  ASSUME DiskInv, DiskStep, NEW row \in SealRows, NEW s \in Shards, Stamped(row)
  PROVE  Stamped(row)' /\ (Holds(row, s) => Holds(row, s)')
<1>1. PICK st \in Stats : st = row.stat
  BY DEF SealRows
<1>2. /\ st[1] \in Nodes /\ st[2] \in Nat /\ st[3] \in Nat /\ st[4] \in Nat
      /\ st[4] < clock /\ (st[1] = Replica => st[3] <= syncs)
  BY <1>1 DEF Stats, Stamped
<1>3. clock \in Nat /\ clock' \in Nat /\ clock <= clock' /\ syncs \in Nat /\ syncs' \in Nat /\ syncs <= syncs'
  BY DEF DiskInv, DiskStep
<1>4. st[4] < clock' /\ (st[1] = Replica => st[3] <= syncs')
  BY <1>2, <1>3
<1>5. Stamped(row)'
  BY <1>1, <1>4 DEF Stamped
<1>6. ASSUME Holds(row, s) PROVE Holds(row, s)'
  <2>1. CASE row.blind
    BY <2>1 DEF Holds
  <2>2. CASE ~row.blind
    <3>1. ASSUME NEW n \in Nodes, Stat(n, s)' = row.stat
          PROVE  disk'[n][s].data = Pinned(s)
      <4>1. st = <<n, Len(disk'[n][s].data), disk'[n][s].ino, disk'[n][s].mtime>>
        BY <1>1, <3>1 DEF Stat
      <4>2. n = st[1] /\ disk'[n][s].ino = st[3] /\ disk'[n][s].mtime = st[4]
        BY <4>1
      <4>3. disk'[n][s].mtime # clock
        BY <1>2, <1>3, <4>2
      <4>4. ~ (n = Replica /\ disk'[n][s].ino = syncs + 1)
        BY <1>2, <1>3, <4>2
      <4>5. disk'[n][s] = disk[n][s]
        BY <4>3, <4>4 DEF DiskStep
      <4>6. Stat(n, s) = row.stat
        BY <1>1, <4>1, <4>5 DEF Stat
      <4> QED BY <1>6, <2>2, <4>5, <4>6 DEF Holds
    <3> QED BY <3>1 DEF Holds
  <2> QED BY <2>1, <2>2
<1> QED BY <1>5, <1>6

LEMMA TensorsAreCached ==
  ASSUME CacheInv, completed = Tensors, NEW t \in Tensors PROVE Converted(t) = "f"
BY DEF CacheInv, CacheIsPrefix, Converted

LEMMA ConvertedType == ASSUME NEW t PROVE Converted(t) \in Cells
BY DEF Converted, Cells

LEMMA AllCompleted ==
  ASSUME CacheInv, Cardinality(completed) = Len(Patch) PROVE completed = Tensors
<1>1. Len(Patch) \in Nat
  BY PatchAssumption
<1>2. IsFiniteSet(Tensors) /\ Cardinality(Tensors) = Len(Patch)
  <2>1. 1 \in Int /\ Len(Patch) \in Int
    BY <1>1
  <2>2. IsFiniteSet(1..Len(Patch)) /\ Cardinality(1..Len(Patch)) = IF 1 > Len(Patch) THEN 0 ELSE Len(Patch) - 1 + 1
    BY <2>1, FS_Interval
  <2> QED BY <1>1, <2>2 DEF Tensors
<1>3. completed \subseteq Tensors
  BY DEF CacheInv, CacheType
<1> QED BY <1>2, <1>3, FS_Subset

LEMMA ShardFacts ==
  ASSUME NEW s \in Shards
  PROVE  /\ Sizes[s] \in Nat \ {0} /\ Patched(s) \subseteq 1..Sizes[s]
         /\ Original(s) \in Seq(Cells) /\ Len(Original(s)) = Sizes[s]
         /\ Pinned(s) \in Seq(Cells) /\ Len(Pinned(s)) = Sizes[s]
<1>1. PICK n \in Nat \ {0} : n = Sizes[s]
  BY SizesAssumption DEF Shards
<1>2. ASSUME NEW c \in Patched(s) PROVE c \in 1..n
  <2>1. PICK t \in Tensors : Patch[t].shard = s /\ c \in Span(t)
    BY <1>2 DEF Patched
  <2>2. /\ Patch[t].first \in Nat \ {0} /\ Patch[t].last \in Nat /\ Patch[t].last <= n
    BY <1>1, <2>1, PatchType
  <2> QED BY <2>1, <2>2 DEF Span
<1>3. Original(s) = [c \in 1..n |-> "o"]
  BY <1>1 DEF Original
<1>4. Pinned(s) = [c \in 1..n |-> IF c \in Patched(s) THEN "f" ELSE "o"]
  BY <1>1 DEF Pinned
<1>5. Original(s) \in Seq(Cells) /\ Len(Original(s)) = n
  BY <1>3 DEF Cells
<1>6. Pinned(s) \in Seq(Cells) /\ Len(Pinned(s)) = n
  BY <1>4 DEF Cells
<1> QED BY <1>1, <1>2, <1>5, <1>6

LEMMA WrittenIs ==
  ASSUME NEW d \in Seq(Cells), NEW c \in Nat \ {0}, NEW v \in Cells
  PROVE  /\ Written(d, c, v) \in Seq(Cells)
         /\ c <= Len(d) => /\ Len(Written(d, c, v)) = Len(d)
                           /\ \A e \in 1..Len(d) : Written(d, c, v)[e] = IF e = c THEN v ELSE d[e]
<1>1. PICK n \in Nat : n = Len(d) /\ \A e \in 1..n : d[e] \in Cells
  OBVIOUS
<1>2. PICK m \in Nat : m = (IF c > n THEN c ELSE n)
  OBVIOUS
<1>3. Written(d, c, v) = [e \in 1..m |-> IF e = c THEN v ELSE IF e > n THEN "x" ELSE d[e]]
  BY <1>1, <1>2 DEF Written
<1>4. \A e \in 1..m : (IF e = c THEN v ELSE IF e > n THEN "x" ELSE d[e]) \in Cells
  BY <1>1 DEF Cells
<1>5. Written(d, c, v) \in Seq(Cells) /\ Len(Written(d, c, v)) = m
  BY <1>3, <1>4
<1>6. ASSUME c <= n PROVE m = n /\ \A e \in 1..n : Written(d, c, v)[e] = IF e = c THEN v ELSE d[e]
  <2>1. m = n
    BY <1>2, <1>6
  <2>2. ASSUME NEW e \in 1..n PROVE Written(d, c, v)[e] = IF e = c THEN v ELSE d[e]
    <3>1. e \in 1..m /\ ~ (e > n)
      BY <2>1
    <3> QED BY <1>3, <3>1
  <2> QED BY <2>1, <2>2
<1> QED BY <1>1, <1>5, <1>6

LEMMA SpanIsPatched ==
  ASSUME NEW t \in Tensors PROVE Patch[t].shard \in Shards /\ Span(t) \subseteq Patched(Patch[t].shard)
BY PatchType DEF Patched

(* The converted value, written where it is pinned, changes nothing.       *)
LEMMA WrittenPinned ==
  ASSUME NEW t \in Tensors, NEW c \in Span(t), NEW s, s = Patch[t].shard
  PROVE  Written(Pinned(s), c, "f") = Pinned(s)
<1>1. s \in Shards /\ c \in Patched(s)
  BY SpanIsPatched
<1>2. /\ Pinned(s) \in Seq(Cells) /\ Len(Pinned(s)) = Sizes[s] /\ Sizes[s] \in Nat \ {0}
      /\ c \in 1..Sizes[s]
  BY <1>1, ShardFacts
<1>3. PICK d \in Seq(Cells) : d = Pinned(s)
  BY <1>2
<1>4. PICK w : w = Written(d, c, "f")
  OBVIOUS
<1>5. /\ w \in Seq(Cells) /\ Len(w) = Len(d)
      /\ \A e \in 1..Len(d) : w[e] = IF e = c THEN "f" ELSE d[e]
  BY <1>2, <1>3, <1>4, WrittenIs DEF Cells
<1>6. d[c] = "f"
  BY <1>1, <1>2, <1>3 DEF Pinned
<1>7. \A e \in 1..Len(d) : w[e] = d[e]
  BY <1>5, <1>6
<1>8. w = d
  BY <1>5, <1>7
<1> QED BY <1>3, <1>4, <1>8

LEMMA DamageIs ==
  ASSUME NEW d \in Seq(Cells), NEW e \in Damage(d)
  PROVE  e \in Seq(Cells) /\ Len(e) = Len(d) /\ Len(d) # 0
<1>1. PICK c \in DOMAIN d : e = [d EXCEPT ![c] = "x"]
  BY DEF Damage
<1> QED BY <1>1 DEF Cells

-----------------------------------------------------------------------------
(* The commands that make the derived files, and their receipts.           *)

(* Before prepare there is nothing to repair or validate.                  *)
FreshInv ==
  dest = "absent" =>
    /\ \A s \in Shards : File(s) = <<>> /\ ~IsThere(Origin, s)
    /\ precopy = NoReceipt /\ repaired = NoReceipt /\ validation[Origin] = NoReceipt
    /\ job.cmd \in {"idle", "download"}

(* A receipt of prepare has the digests of the original shards, and those  *)
(* shards have been copied whole.                                          *)
Digests(r) == \A s \in DOMAIN r : s \in Shards /\ r[s] = UnpatchedDigest(s, Original(s))
WholeIn(r) == \A s \in DOMAIN r : Len(File(s)) = Sizes[s]
CopiedInv == Digests(precopy) /\ WholeIn(precopy)
PrepareInv ==
  job.cmd = "prepare" =>
    /\ job = [cmd |-> "prepare", s |-> job.s, un |-> job.un, receipt |-> job.receipt]
    /\ validation[Origin] = NoReceipt
    /\ job.s \in 1..Len(Sizes) + 1
    /\ Digests(job.receipt) /\ WholeIn(job.receipt) /\ DOMAIN job.receipt = 1..job.s - 1
    /\ \A s \in Shards : s > job.s => File(s) = <<>>
    /\ job.s \in Shards =>
         /\ Len(File(job.s)) <= Sizes[job.s]
         /\ Len(File(job.s)) = Sizes[job.s]
              \/ \E q \in Nat : Len(File(job.s)) = q * Chunk
         /\ job.un = UpTo(job.s, Original(job.s))[Len(File(job.s))]

(* Whoever converts a tensor has the whole of it.                          *)
RepairInv ==
  /\ job.cmd \in {"repair", "validate"} \/ repaired # NoReceipt => completed = Tensors
  /\ job.cmd = "repair" =>
       /\ job = [cmd |-> "repair", t |-> job.t, wrote |-> job.wrote, receipt |-> job.receipt]
       /\ job.t \in Tensors /\ job.wrote \in Seq(Cells)

(* What a validation has found so far.                                     *)
Original0(s, data) == \A c \in 1..Sizes[s] \ Patched(s) : data[c] = "o"
ValidateInv ==
  job.cmd = "validate" =>
    /\ job = [cmd |-> "validate", t |-> job.t, s |-> job.s, precopy |-> job.precopy,
              repaired |-> job.repaired, sums |-> job.sums, late |-> job.late]
    /\ job.t \in 1..Len(Patch) + 1 /\ job.s \in 1..Len(Sizes) + 1
    /\ Digests(job.precopy) /\ WholeIn(job.precopy)
    /\ \A t \in Tensors : t < job.t /\ Patch[t].shard \notin job.late =>
         \A c \in Span(t) : File(Patch[t].shard)[c] = "f"
    /\ job.sums \in Seq(Seq(Cells)) /\ Len(job.sums) = job.s - 1
    /\ \A s \in Shards : s < job.s =>
         /\ Original0(s, job.sums[s])
         /\ s \notin job.late => job.sums[s] = Pinned(s) /\ File(s) = Pinned(s)
ValidatedInv ==
  /\ DOMAIN validation = Nodes
  /\ validation[Origin] # NoReceipt =>
       \A s \in Shards :
         /\ Original0(s, validation[Origin][s])
         /\ s \notin touched => validation[Origin][s] = Pinned(s) /\ File(s) = Pinned(s)

HomeInv == /\ FreshInv /\ CopiedInv /\ PrepareInv /\ RepairInv /\ ValidateInv /\ ValidatedInv
           /\ job.cmd \in {"idle", "download", "prepare", "repair", "validate"}
BaseInv == CacheInv /\ DiskInv

(* Steps that leave the derived files and their receipts alone.            *)
LEMMA HomeFrame ==
  ASSUME HomeInv, BaseInv, BaseInv', disk'[Origin] = disk[Origin], completed \subseteq completed',
         validation'[Origin] = validation[Origin], DOMAIN validation' = DOMAIN validation,
         UNCHANGED <<dest, precopy, repaired, touched>>,
         \/ job' = job
         \/ job'.cmd \in {"idle", "download"}
  PROVE  HomeInv'
<1>1. \A s \in Shards : File(s)' = File(s) /\ (IsThere(Origin, s)' <=> IsThere(Origin, s))
  BY DEF File, IsThere
<1>2. completed = Tensors => completed' = Tensors
  BY DEF BaseInv, CacheInv, CacheType
<1>3. FreshInv' /\ CopiedInv' /\ ValidatedInv'
  BY <1>1 DEF HomeInv, FreshInv, CopiedInv, ValidatedInv, Digests, WholeIn
<1>4. CASE job' = job
  <2>1. PrepareInv'
    BY <1>1, <1>4 DEF HomeInv, PrepareInv, Digests, WholeIn
  <2>2. RepairInv'
    BY <1>2, <1>4 DEF HomeInv, RepairInv
  <2>3. ValidateInv'
    BY <1>1, <1>4, SpanIsPatched DEF HomeInv, ValidateInv, Digests, WholeIn
  <2> QED BY <1>3, <1>4, <2>1, <2>2, <2>3 DEF HomeInv
<1>5. CASE job'.cmd \in {"idle", "download"}
  <2>1. PrepareInv' /\ ValidateInv'
    BY <1>5 DEF PrepareInv, ValidateInv
  <2>2. RepairInv'
    BY <1>2, <1>5 DEF HomeInv, RepairInv
  <2> QED BY <1>3, <1>5, <2>1, <2>2 DEF HomeInv
<1> QED BY <1>4, <1>5

LEMMA FilesAre ==
  ASSUME DiskInv, NEW n \in Nodes, NEW s \in Shards
  PROVE  disk[n][s] \in Contents /\ disk[n][s].data \in Seq(Cells)
BY DEF DiskInv, Contents

(* One file of the origin is written.                                      *)
LEMMA OriginWritten ==
  ASSUME DiskInv, NEW s \in Shards, NEW file \in Contents, file.mtime = clock,
         disk' = [disk EXCEPT ![Origin][s] = file], UNCHANGED <<clock, syncs>>
  PROVE  /\ DiskStep /\ disk'[Origin][s] = file
         /\ \A u \in Shards : u # s => disk'[Origin][u] = disk[Origin][u]
<1>1. /\ disk'[Origin][s] = file
      /\ \A n \in Nodes, u \in Shards : ~(n = Origin /\ u = s) => disk'[n][u] = disk[n][u]
      /\ disk' \in [Nodes -> [Shards -> Contents]]
  BY DEF DiskInv, Nodes
<1>2. Origin \in Nodes
  BY DEF Nodes
<1> QED BY <1>1, <1>2 DEF DiskStep, DiskInv

LEMMA DiskSame ==
  ASSUME DiskInv, disk' = disk, syncs' = syncs, clock' \in Nat, clock <= clock'
  PROVE  DiskStep
BY DEF DiskInv, DiskStep

LEMMA LookedForward ==
  ASSUME DiskInv, Looked, check.n \in Nodes, check.s \in Shards
  PROVE  clock' \in Nat /\ clock <= clock' /\ disk[check.n][check.s].mtime < clock'
<1>1. /\ disk[check.n][check.s].mtime \in Nat /\ disk[check.n][check.s].mtime <= clock
      /\ clock \in Nat
  BY DEF DiskInv, Contents
<1> QED BY <1>1 DEF Looked

LEMMA CopyIs ==
  ASSUME DiskInv, HomeInv, CopyChunk
  PROVE  \E file \in Contents, q \in Nat, end \in Nat, pos \in Nat :
           /\ job.s \in Shards
           /\ pos = Len(File(job.s)) /\ pos < Sizes[job.s] /\ pos = q * Chunk
           /\ end = Lowest(pos + Chunk, Sizes[job.s])
           /\ disk' = [disk EXCEPT ![Origin][job.s] = file]
           /\ file.mtime = clock /\ Len(file.data) = end
           /\ job' = [job EXCEPT !.un = job.un \o OutsideOf(job.s, Original(job.s), pos + 1, end)]
<1>1. PICK s \in Shards : s = job.s
  BY DEF CopyChunk
<1>2. PICK old \in Seq(Cells) : old = File(s)
  BY FilesAre DEF Nodes, File
<1>3. PICK pos \in Nat : pos = Len(old)
  BY <1>2
<1>4. PICK size \in Nat \ {0} : size = Sizes[s]
  BY ShardFacts
<1>5. PICK C \in Nat \ {0} : C = Chunk
  BY ChunkAssumption
<1>6. PICK end \in Nat : end = Lowest(pos + C, size)
  BY DEF Lowest
<1>7. PICK o \in Seq(Cells) : o = Original(s) /\ Len(o) = size
  BY <1>4, ShardFacts
<1>8. PICK more : more = SubSeq(o, pos + 1, end)
  OBVIOUS
<1>9. PICK file : file = [data |-> old \o more, ino |-> 1, mtime |-> clock]
  OBVIOUS
<1>10. /\ pos < size
       /\ disk' = [disk EXCEPT ![Origin][s] = file]
       /\ job' = [job EXCEPT !.un = job.un \o OutsideOf(s, Original(s), pos + 1, end)]
  BY <1>1, <1>2, <1>3, <1>4, <1>5, <1>6, <1>7, <1>8, <1>9 DEF CopyChunk, File
<1>11. pos + 1 <= end /\ end <= size
  BY <1>4, <1>6, <1>10 DEF Lowest
<1>12. more \in Seq(Cells) /\ Len(more) = end - pos
  <2>1. pos + 1 \in Nat /\ pos + 1 > 0 /\ end \in Int /\ end <= Len(o)
    BY <1>7, <1>11
  <2>2. more \in Seq(Cells) /\ Len(more) = IF pos + 1 <= end THEN end - (pos + 1) + 1 ELSE 0
    BY <1>8, <2>1, Piece
  <2> QED BY <1>11, <2>2
<1>13. old \o more \in Seq(Cells) /\ Len(old \o more) = Len(old) + Len(more)
  BY <1>12, ConcatProperties, Zenon
<1>14. Len(old \o more) = end
  BY <1>3, <1>12, <1>13
<1>15. file \in Contents /\ file.mtime = clock /\ Len(file.data) = end
  BY <1>9, <1>13, <1>14 DEF Contents, DiskInv
<1>16. \E q \in Nat : pos = q * Chunk
  <2>1. /\ Len(File(s)) = Sizes[s] \/ \E q \in Nat : Len(File(s)) = q * Chunk
    BY <1>1 DEF HomeInv, PrepareInv, CopyChunk, Preparing
  <2> QED BY <1>2, <1>3, <1>4, <1>10, <2>1
<1> QED BY <1>1, <1>2, <1>3, <1>4, <1>5, <1>6, <1>10, <1>15, <1>16

LEMMA WriteIs ==
  ASSUME BaseInv, HomeInv, WriteRows
  PROVE  \E t \in Tensors, s \in Shards, c \in Nat \ {0}, file \in Contents :
           /\ c \in Span(t)
           /\ t = job.t /\ s = Patch[t].shard /\ file.mtime = clock
           /\ file.data = Written(File(s), c, "f")
           /\ IsThere(Origin, s) /\ file.ino = disk[Origin][s].ino
           /\ disk' = [disk EXCEPT ![Origin][s] = file]
           /\ job' = [job EXCEPT !.wrote = Append(job.wrote, "f")]
<1>1. PICK t \in Tensors : t = job.t /\ job.wrote \in Seq(Cells) /\ completed = Tensors
  BY DEF HomeInv, RepairInv, WriteRows, Repairing
<1>2. PICK s \in Shards : s = Patch[t].shard
  BY SpanIsPatched
<1>3. PICK c : c = Patch[t].first + Len(job.wrote)
  OBVIOUS
<1>4. PICK file : file = [disk[Origin][s] EXCEPT !.data = Written(File(s), c, "f"), !.mtime = clock]
  OBVIOUS
<1>5. Converted(t) = "f"
  BY <1>1, TensorsAreCached DEF BaseInv
<1>6. disk[Origin][s] \in Contents
  BY FilesAre DEF BaseInv, Nodes
<1>7. /\ IsThere(Origin, s) /\ c <= Patch[t].last
      /\ disk' = [disk EXCEPT ![Origin][s].data = Written(disk[Origin][s].data, c, "f"),
                              ![Origin][s].mtime = clock]
      /\ job' = [job EXCEPT !.wrote = Append(job.wrote, "f")]
  BY <1>1, <1>2, <1>3, <1>5 DEF WriteRows
<1>8. disk' = [disk EXCEPT ![Origin][s] = file]
  BY <1>4, <1>6, <1>7 DEF BaseInv, DiskInv, File, Nodes
<1>9. c \in Span(t) /\ c \in Nat \ {0}
  <2>1. Patch[t].first \in Nat \ {0} /\ Patch[t].last \in Nat
    BY PatchType
  <2>2. Len(job.wrote) \in Nat
    BY <1>1
  <2> QED BY <1>3, <1>7, <2>1, <2>2 DEF Span
<1>10. Written(File(s), c, "f") \in Seq(Cells)
  BY <1>6, <1>9, WrittenIs DEF File, Cells, Contents
<1>11. /\ file \in Contents /\ file.mtime = clock /\ file.data = Written(File(s), c, "f")
       /\ file.ino = disk[Origin][s].ino
  BY <1>4, <1>6, <1>10 DEF Contents, BaseInv, DiskInv
<1> QED BY <1>1, <1>2, <1>7, <1>8, <1>9, <1>11

LEMMA EditIs ==
  ASSUME BaseInv, NEW n \in Nodes, NEW s \in Shards, Edit(n, s)
  PROVE  \E file \in Contents :
           /\ file.mtime = clock /\ file.ino = disk[n][s].ino
           /\ Len(file.data) = Len(disk[n][s].data) /\ Len(file.data) # 0
           /\ disk' = [disk EXCEPT ![n][s] = file]
<1>1. PICK d \in Damage(disk[n][s].data) :
        disk' = [disk EXCEPT ![n][s].data = d, ![n][s].mtime = clock]
  BY DEF Edit
<1>2. disk[n][s] \in Contents /\ disk[n][s].data \in Seq(Cells)
  BY FilesAre DEF BaseInv
<1>3. d \in Seq(Cells) /\ Len(d) = Len(disk[n][s].data) /\ Len(d) # 0
  BY <1>2, DamageIs
<1>4. PICK file : file = [disk[n][s] EXCEPT !.data = d, !.mtime = clock]
  OBVIOUS
<1>5. disk' = [disk EXCEPT ![n][s] = file]
  BY <1>1, <1>2, <1>4 DEF BaseInv, DiskInv, Contents
<1>6. /\ file \in Contents /\ file.mtime = clock /\ file.ino = disk[n][s].ino /\ file.data = d
  BY <1>2, <1>3, <1>4 DEF Contents, BaseInv, DiskInv
<1> QED BY <1>3, <1>5, <1>6

LEMMA CopyStep ==
  ASSUME BaseInv, HomeInv, CopyChunk PROVE DiskStep
<1>1. PICK file \in Contents, q \in Nat, end \in Nat, pos \in Nat :
        /\ job.s \in Shards
        /\ disk' = [disk EXCEPT ![Origin][job.s] = file]
        /\ file.mtime = clock
  BY CopyIs DEF BaseInv
<1>2. UNCHANGED <<clock, syncs>>
  BY DEF CopyChunk, bounds
<1> QED BY <1>1, <1>2, OriginWritten DEF BaseInv

LEMMA WriteStep ==
  ASSUME BaseInv, HomeInv, WriteRows PROVE DiskStep
<1>1. PICK s \in Shards, file \in Contents :
        disk' = [disk EXCEPT ![Origin][s] = file] /\ file.mtime = clock
  BY WriteIs
<1>2. UNCHANGED <<clock, syncs>>
  BY DEF WriteRows, bounds
<1> QED BY <1>1, <1>2, OriginWritten DEF BaseInv

LEMMA EditStep ==
  ASSUME BaseInv, NEW n \in Nodes, NEW s \in Shards, Edit(n, s) PROVE DiskStep
<1>1. PICK file \in Contents :
        /\ file.mtime = clock /\ file.ino = disk[n][s].ino
        /\ disk' = [disk EXCEPT ![n][s] = file]
  BY EditIs
<1>2. UNCHANGED <<clock, syncs>>
  BY DEF Edit
<1>3. /\ disk'[n][s] = file
      /\ \A m \in Nodes, u \in Shards : ~(m = n /\ u = s) => disk'[m][u] = disk[m][u]
      /\ disk' \in [Nodes -> [Shards -> Contents]]
  BY <1>1 DEF BaseInv, DiskInv
<1> QED BY <1>1, <1>2, <1>3 DEF DiskStep, BaseInv, DiskInv

LEMMA SyncIs ==
  ASSUME BaseInv, Sync
  PROVE  /\ disk'[Origin] = disk[Origin] /\ DiskStep
<1>1. PICK bad \in SUBSET Shards :
        disk' = [disk EXCEPT ![Replica] =
          [s \in Shards |-> [disk[Origin][s] EXCEPT
             !.data = IF s \in bad THEN [@ EXCEPT ![1] = "x"] ELSE @,
             !.ino = syncs + 1]]]
  BY DEF Sync
<1>2. PICK copy : copy = [s \in Shards |-> [disk[Origin][s] EXCEPT
             !.data = IF s \in bad THEN [@ EXCEPT ![1] = "x"] ELSE @,
             !.ino = syncs + 1]]
  OBVIOUS
<1>3. disk' = [disk EXCEPT ![Replica] = copy]
  BY <1>1, <1>2
<1>4. ASSUME NEW s \in Shards
      PROVE  copy[s] \in Contents /\ copy[s].ino = syncs + 1 /\ copy[s].mtime = disk[Origin][s].mtime
  <2>1. PICK f \in Contents : f = disk[Origin][s]
    BY FilesAre DEF BaseInv, Nodes
  <2>2. PICK d : d = IF s \in bad THEN [f.data EXCEPT ![1] = "x"] ELSE f.data
    OBVIOUS
  <2>3. d \in Seq(Cells)
    <3>1. f.data \in Seq(Cells)
      BY DEF Contents
    <3>2. PICK e \in Seq(Cells) : e = f.data
      BY <3>1
    <3>3. PICK g : g = [e EXCEPT ![1] = "x"]
      OBVIOUS
    <3>4. PICK n \in Nat : n = Len(e) /\ DOMAIN e = 1..n /\ \A i \in 1..n : e[i] \in Cells
      BY <3>2
    <3>5. DOMAIN g = 1..n /\ \A i \in 1..n : g[i] \in Cells
      BY <3>3, <3>4 DEF Cells
    <3>6. g = [i \in 1..n |-> g[i]]
      BY <3>3, <3>4, <3>5, Zenon
    <3>7. g \in Seq(Cells)
      BY <3>5, <3>6
    <3> QED BY <2>2, <3>2, <3>3, <3>7
  <2>4. copy[s] = [f EXCEPT !.data = d, !.ino = syncs + 1]
    BY <1>2, <2>1, <2>2
  <2>5. PICK ino \in Nat : ino = syncs + 1
    BY DEF BaseInv, DiskInv
  <2>6. [f EXCEPT !.data = d, !.ino = ino] \in Contents
    BY <2>3 DEF Contents
  <2>7. copy[s].ino = ino /\ copy[s].mtime = f.mtime
    BY <2>4, <2>5 DEF Contents
  <2> QED BY <2>1, <2>4, <2>5, <2>6, <2>7
<1>5. copy \in [Shards -> Contents]
  BY <1>2, <1>4
<1>6. /\ disk'[Origin] = disk[Origin] /\ disk'[Replica] = copy
      /\ disk' \in [Nodes -> [Shards -> Contents]]
  BY <1>3, <1>5 DEF BaseInv, DiskInv, Nodes, Origin, Replica
<1>7. syncs' = syncs + 1 /\ clock' = clock /\ syncs \in Nat /\ clock \in Nat
  BY DEF Sync, BaseInv, DiskInv
<1> QED BY <1>4, <1>6, <1>7 DEF DiskStep, Nodes

(* The steps of the commands that write no file.                           *)
Reads == \/ BuildManifest \/ JobDies \/ CheckDies \/ StartDownload \/ FetchRange
         \/ RangeComplete \/ StartPrepare \/ ShardCopied \/ FinishPrepare \/ StartRepair
         \/ TensorRepaired \/ StartValidate \/ CompareTensor \/ HashShard \/ FinishValidate
         \/ ReadShard \/ FinishCheck \/ UNCHANGED vars
         \/ \E n \in Nodes, cmd \in {"seal", "full", "fast"} : StartCheck(n, cmd)

LEMMA ReadsStep == Reads => UNCHANGED <<disk, clock, syncs>>
BY DEF Reads, BuildManifest, JobDies, CheckDies, StartDownload, FetchRange, RangeComplete,
       StartPrepare, ShardCopied, FinishPrepare, StartRepair, TensorRepaired, StartValidate,
       CompareTensor, HashShard, FinishValidate, ReadShard, FinishCheck, StartCheck, Started,
       vars, bounds

LEMMA NextIsOneOf ==
  [Next]_vars =>
    \/ Reads \/ CopyChunk \/ WriteRows \/ SealShard \/ StatShard \/ CompareShard \/ Sync
    \/ \E n \in Nodes, s \in Shards : Edit(n, s)
BY DEF Next, Reads

CheckerIs ==
  check # Idle =>
    /\ check = [cmd |-> check.cmd, n |-> check.n, s |-> check.s, statted |-> check.statted,
                seal |-> check.seal, rows |-> check.rows]
    /\ check.n \in Nodes

LEMMA LooksStep ==
  ASSUME BaseInv, CheckerIs, SealShard \/ StatShard \/ CompareShard
  PROVE  /\ DiskStep /\ disk' = disk /\ syncs' = syncs /\ check.n \in Nodes /\ check.s \in Shards
         /\ disk[check.n][check.s].mtime < clock'
<1>1. /\ Looked /\ disk' = disk /\ syncs' = syncs /\ check.s \in Shards
      /\ check.cmd \in {"seal", "full", "fast"}
  BY DEF SealShard, StatShard, CompareShard, Checking
<1>2. check # Idle
  BY <1>1 DEF Idle
<1> QED BY <1>1, <1>2, LookedForward, DiskSame DEF CheckerIs, BaseInv

LEMMA DiskSteps ==
  ASSUME BaseInv, HomeInv, CheckerIs, [Next]_vars PROVE DiskStep
<1>1. CASE Reads
  <2>1. UNCHANGED <<disk, clock, syncs>>
    BY <1>1, ReadsStep
  <2> QED BY <2>1, DiskSame DEF BaseInv, DiskInv
<1> QED BY <1>1, NextIsOneOf, CopyStep, WriteStep, LooksStep, SyncIs, EditStep

(* Who else works, or works for the download, leaves the repair alone.     *)
LEMMA AsideHome ==
  ASSUME HomeInv, BaseInv, BaseInv',
         \/ BuildManifest \/ JobDies \/ CheckDies \/ StartDownload \/ FetchRange
         \/ RangeComplete \/ ReadShard \/ FinishCheck \/ SealShard \/ StatShard \/ CompareShard
         \/ Sync \/ UNCHANGED vars
         \/ \E n \in Nodes, cmd \in {"seal", "full", "fast"} : StartCheck(n, cmd)
         \/ \E s \in Shards : Edit(Replica, s)
  PROVE  HomeInv'
<1>1. CASE \/ BuildManifest \/ CheckDies \/ ReadShard \/ FinishCheck \/ SealShard \/ StatShard
           \/ CompareShard \/ UNCHANGED vars
           \/ \E n \in Nodes, cmd \in {"seal", "full", "fast"} : StartCheck(n, cmd)
  <2>1. UNCHANGED <<disk, completed, validation, dest, precopy, repaired, touched, job>>
    BY <1>1 DEF BuildManifest, CheckDies, ReadShard, FinishCheck, SealShard, StatShard,
                CompareShard, vars, StartCheck, source
  <2> QED BY <2>1, HomeFrame
<1>2. CASE JobDies \/ StartDownload \/ FetchRange \/ RangeComplete
  <2>1. UNCHANGED <<disk, validation, dest, precopy, repaired, touched>>
    BY <1>2 DEF JobDies, StartDownload, FetchRange, RangeComplete
  <2>2. completed \subseteq completed'
    BY <1>2 DEF JobDies, StartDownload, FetchRange, RangeComplete, source
  <2>3. job'.cmd \in {"idle", "download"}
    <3>1. CASE JobDies \/ StartDownload
      BY <3>1 DEF JobDies, StartDownload, Started, Idle
    <3>2. CASE FetchRange \/ RangeComplete
      <4>1. job.cmd = "download" /\ job \in Downloads
        BY <3>2 DEF FetchRange, RangeComplete, Downloading, BaseInv, CacheInv, JobInv
      <4>2. \/ job' = Idle \/ job' = [job EXCEPT !.tries = @ + 1]
            \/ job' = [job EXCEPT !.part = "scale", !.tries = 0]
            \/ job' = [job EXCEPT !.t = @ + 1, !.part = "weight", !.tries = 0]
        BY <3>2 DEF FetchRange, RangeComplete
      <4>3. PICK j : j = [cmd |-> "download", t |-> job.t, part |-> job.part, tries |-> job.tries]
                     /\ job = j
        BY <4>1 DEF Downloads
      <4>4. \A x, y, z : /\ [j EXCEPT !.tries = x].cmd = "download"
                         /\ [j EXCEPT !.part = y, !.tries = x].cmd = "download"
                         /\ [j EXCEPT !.t = z, !.part = y, !.tries = x].cmd = "download"
        BY <4>3
      <4>5. CASE job' = Idle
        BY <4>5 DEF Idle
      <4> QED BY <4>2, <4>3, <4>4, <4>5
    <3> QED BY <1>2, <3>1, <3>2
  <2> QED BY <2>1, <2>2, <2>3, HomeFrame
<1>3. CASE Sync
  <2>1. /\ UNCHANGED <<completed, dest, precopy, repaired, touched, job>>
        /\ validation' = [validation EXCEPT ![Replica] = validation[Origin]]
    BY <1>3 DEF Sync, source
  <2>2. DOMAIN validation = Nodes
    BY DEF HomeInv, ValidatedInv
  <2>3. validation'[Origin] = validation[Origin] /\ DOMAIN validation' = DOMAIN validation
    BY <2>1, <2>2 DEF Origin, Replica, Nodes
  <2>4. disk'[Origin] = disk[Origin]
    BY <1>3, SyncIs
  <2> QED BY <2>1, <2>3, <2>4, HomeFrame
<1>4. CASE \E s \in Shards : Edit(Replica, s)
  <2>1. PICK s \in Shards : Edit(Replica, s)
    BY <1>4
  <2>2. UNCHANGED <<completed, dest, precopy, repaired, touched, job, validation>>
    BY <2>1 DEF Edit, source, Origin, Replica
  <2>3. PICK file \in Contents : disk' = [disk EXCEPT ![Replica][s] = file]
    BY <2>1, EditIs DEF Nodes
  <2>4. disk'[Origin] = disk[Origin]
    BY <2>3 DEF Origin, Replica, BaseInv, DiskInv, Nodes
  <2> QED BY <2>2, <2>4, HomeFrame
<1> QED BY <1>1, <1>2, <1>3, <1>4

LEMMA NothingCopied == Digests(NoReceipt) /\ WholeIn(NoReceipt) /\ DOMAIN NoReceipt = 1..0
BY DEF Digests, WholeIn, NoReceipt

LEMMA UpToStarts == ASSUME NEW s \in Shards PROVE UpTo(s, Original(s))[0] = <<>>
<1>1. Len(Original(s)) \in Nat /\ 0 \in 0..Len(Original(s))
  BY ShardFacts
<1> QED BY <1>1, UpToIs

LEMMA StartPrepareHome ==
  ASSUME HomeInv, StartPrepare PROVE HomeInv'
<1>1. /\ dest = "absent" /\ dest' = "partial"
      /\ job' = [cmd |-> "prepare", s |-> 1, un |-> <<>>, receipt |-> NoReceipt]
      /\ UNCHANGED <<disk, completed, validation, precopy, repaired, touched>>
  BY DEF StartPrepare, Started, source
<1>2. /\ \A s \in Shards : File(s) = <<>>
      /\ precopy = NoReceipt /\ repaired = NoReceipt /\ validation[Origin] = NoReceipt
  BY <1>1 DEF HomeInv, FreshInv
<1>3. \A s \in Shards : File(s)' = <<>>
  BY <1>1, <1>2 DEF File
<1>4. FreshInv' /\ RepairInv' /\ ValidateInv'
  BY <1>1, <1>2 DEF FreshInv, RepairInv, ValidateInv
<1>5. CopiedInv' /\ ValidatedInv'
  BY <1>1, <1>2 DEF HomeInv, CopiedInv, ValidatedInv, Digests, WholeIn, File
<1>6. PrepareInv'
  <2>1. 1 \in Shards
    <3>1. 1 \in Tensors
      BY PatchAssumption DEF Tensors
    <3>2. Patch[1].shard \in Shards /\ Len(Sizes) \in Nat
      BY <3>1, SpanIsPatched, SizesAssumption
    <3> QED BY <3>2 DEF Shards
  <2>2. /\ Len(File(1)') = 0 /\ 0 <= Sizes[1] /\ 0 = 0 * Chunk
        /\ <<>> = UpTo(1, Original(1))[0]
    BY <1>3, <2>1, UpToStarts, ShardFacts, ChunkAssumption
  <2>3. 1 \in 1..Len(Sizes) + 1
    BY SizesAssumption
  <2>4. DOMAIN NoReceipt = 1..0 /\ Digests(NoReceipt) /\ WholeIn(NoReceipt)'
    BY DEF Digests, WholeIn, NoReceipt
  <2> QED BY <1>1, <1>2, <1>3, <2>1, <2>2, <2>3, <2>4 DEF PrepareInv, WholeIn
<1> QED BY <1>1, <1>4, <1>5, <1>6 DEF HomeInv

LEMMA FinishPrepareHome ==
  ASSUME HomeInv, FinishPrepare PROVE HomeInv'
<1>1. /\ dest' = "whole" /\ job' = Idle
      /\ UNCHANGED <<disk, completed, validation, precopy, repaired, touched>>
  BY DEF FinishPrepare, source
<1>2. FreshInv' /\ PrepareInv' /\ ValidateInv'
  BY <1>1 DEF FreshInv, PrepareInv, ValidateInv, Idle
<1>3. CopiedInv' /\ ValidatedInv'
  BY <1>1 DEF HomeInv, CopiedInv, ValidatedInv, Digests, WholeIn, File
<1>4. RepairInv'
  BY <1>1 DEF HomeInv, RepairInv, Idle
<1> QED BY <1>1, <1>2, <1>3, <1>4 DEF HomeInv, Idle

LEMMA StartRepairHome ==
  ASSUME HomeInv, BaseInv, StartRepair PROVE HomeInv'
<1>1. /\ job' = [cmd |-> "repair", t |-> 1, wrote |-> <<>>, receipt |-> NoReceipt]
      /\ UNCHANGED <<dest, disk, completed, validation, precopy, repaired, touched>>
      /\ Cardinality(completed) = Len(Patch) /\ precopy # NoReceipt
  BY DEF StartRepair, Started, source
<1>2. completed = Tensors
  BY <1>1, AllCompleted DEF BaseInv
<1>3. FreshInv' /\ PrepareInv' /\ ValidateInv'
  BY <1>1 DEF HomeInv, FreshInv, PrepareInv, ValidateInv
<1>4. CopiedInv' /\ ValidatedInv'
  BY <1>1 DEF HomeInv, CopiedInv, ValidatedInv, Digests, WholeIn, File
<1>5. RepairInv'
  <2>1. 1 \in Tensors
    BY PatchAssumption DEF Tensors
  <2> QED BY <1>1, <1>2, <2>1 DEF RepairInv
<1> QED BY <1>1, <1>3, <1>4, <1>5 DEF HomeInv

LEMMA TensorRepairedHome ==
  ASSUME HomeInv, TensorRepaired PROVE HomeInv'
<1>1. PICK r :
        /\ repaired' = r
        /\ job' = IF job.t = Len(Patch) THEN Idle
                  ELSE [job EXCEPT !.t = @ + 1, !.wrote = <<>>, !.receipt = r]
        /\ UNCHANGED <<dest, disk, completed, validation, precopy, touched>>
  BY DEF TensorRepaired, source
<1>2. /\ completed = Tensors /\ job.cmd = "repair"
      /\ job = [cmd |-> "repair", t |-> job.t, wrote |-> job.wrote, receipt |-> job.receipt]
      /\ job.t \in Tensors
  BY DEF HomeInv, RepairInv, TensorRepaired, Repairing
<1>3. /\ job'.cmd \in {"idle", "repair"}
      /\ job'.cmd = "repair" =>
           /\ job' = [cmd |-> "repair", t |-> job'.t, wrote |-> job'.wrote, receipt |-> job'.receipt]
           /\ job'.t \in Tensors /\ job'.wrote = <<>>
  <2>1. CASE job.t = Len(Patch)
    BY <1>1, <2>1 DEF Idle
  <2>2. CASE job.t # Len(Patch)
    <3>1. job' = [cmd |-> "repair", t |-> job.t + 1, wrote |-> <<>>, receipt |-> r]
      BY <1>1, <1>2, <2>2
    <3>2. job.t + 1 \in Tensors
      BY <1>2, <2>2, PatchAssumption DEF Tensors
    <3> QED BY <3>1, <3>2
  <2> QED BY <2>1, <2>2
<1>4. dest # "absent"
  BY <1>2 DEF HomeInv, FreshInv
<1>5. FreshInv' /\ PrepareInv' /\ ValidateInv'
  BY <1>1, <1>3, <1>4 DEF FreshInv, PrepareInv, ValidateInv
<1>6. CopiedInv' /\ ValidatedInv'
  BY <1>1 DEF HomeInv, CopiedInv, ValidatedInv, Digests, WholeIn, File
<1>7. RepairInv'
  <2>1. completed' = Tensors' /\ <<>> \in Seq(Cells)
    BY <1>1, <1>2 DEF Tensors
  <2> QED BY <1>3, <2>1 DEF RepairInv
<1> QED BY <1>3, <1>5, <1>6, <1>7 DEF HomeInv

LEMMA StartValidateHome ==
  ASSUME HomeInv, StartValidate PROVE HomeInv'
<1>1. /\ job' = [cmd |-> "validate", t |-> 1, s |-> 1, precopy |-> precopy,
                 repaired |-> repaired, sums |-> <<>>, late |-> {}]
      /\ UNCHANGED <<dest, disk, completed, validation, precopy, repaired, touched>>
      /\ repaired # NoReceipt
  BY DEF StartValidate, Started, source
<1>2. FreshInv' /\ PrepareInv'
  BY <1>1 DEF HomeInv, FreshInv, PrepareInv
<1>3. CopiedInv' /\ ValidatedInv'
  BY <1>1 DEF HomeInv, CopiedInv, ValidatedInv, Digests, WholeIn, File
<1>4. RepairInv'
  BY <1>1 DEF HomeInv, RepairInv
<1>5. ValidateInv'
  <2>1. 1 \in 1..Len(Patch) + 1 /\ 1 \in 1..Len(Sizes) + 1
    BY PatchAssumption, SizesAssumption
  <2>2. (\A t \in Tensors : ~(t < 1)) /\ (\A s \in Shards : ~(s < 1))
    BY DEF Tensors, Shards
  <2>3. Digests(precopy) /\ WholeIn(precopy)'
    BY <1>1 DEF HomeInv, CopiedInv, Digests, WholeIn, File
  <2> QED BY <1>1, <2>1, <2>2, <2>3 DEF ValidateInv, WholeIn
<1> QED BY <1>1, <1>2, <1>3, <1>4, <1>5 DEF HomeInv

(* A chunk that begins at a multiple of the chunk size is the next one of  *)
(* the digest.                                                             *)
Follows(s, pos, q, end) ==
  /\ pos < end /\ end <= Sizes[s]
  /\ end = Sizes[s] \/ end = (q + 1) * Chunk
  /\ UpTo(s, Original(s))[end]
       = UpTo(s, Original(s))[pos] \o OutsideOf(s, Original(s), pos + 1, end)

LEMMA NextChunk ==
  ASSUME NEW s \in Shards, NEW pos \in Nat, NEW q \in Nat, NEW end \in Nat,
         pos = q * Chunk, pos < Sizes[s], end = Lowest(pos + Chunk, Sizes[s])
  PROVE  Follows(s, pos, q, end)
<1>1. PICK C \in Nat \ {0} : C = Chunk
  BY ChunkAssumption
<1>2. PICK size \in Nat \ {0} : size = Sizes[s]
  BY ShardFacts
<1>3. pos < end /\ end <= size /\ (end = size \/ end = pos + C) /\ end <= pos + C
  BY <1>1, <1>2 DEF Lowest
<1>4. (q + 1) * C = q * C + C
  OBVIOUS
<1>5. PICK m \in Nat : m = end - 1
  BY <1>3
<1>6. q * C <= m /\ m < q * C + C
  BY <1>1, <1>3, <1>5
<1>7. m \div C = q
  BY <1>6, DivIs
<1>8. Base(end) = pos
  BY <1>1, <1>5, <1>7 DEF Base
<1>9. Len(Original(s)) = size /\ Len(Original(s)) \in Nat /\ end \in 0..Len(Original(s)) /\ end # 0
  BY <1>2, <1>3, ShardFacts
<1>10. UpTo(s, Original(s))[end] = IF end = 0 THEN <<>>
         ELSE UpTo(s, Original(s))[Base(end)] \o OutsideOf(s, Original(s), Base(end) + 1, end)
  BY <1>9, UpToIs
<1>11. end = size \/ end = (q + 1) * Chunk
  BY <1>1, <1>3, <1>4
<1>12. UpTo(s, Original(s))[end]
         = UpTo(s, Original(s))[pos] \o OutsideOf(s, Original(s), pos + 1, end)
  BY <1>8, <1>9, <1>10, Zenon
<1> QED BY <1>2, <1>3, <1>11, <1>12 DEF Follows

LEMMA CopyChunkHome ==
  ASSUME HomeInv, BaseInv, CopyChunk PROVE HomeInv'
<1>1. PICK file \in Contents, q \in Nat, end \in Nat, pos \in Nat :
        /\ job.s \in Shards
        /\ pos = Len(File(job.s)) /\ pos < Sizes[job.s] /\ pos = q * Chunk
        /\ end = Lowest(pos + Chunk, Sizes[job.s])
        /\ disk' = [disk EXCEPT ![Origin][job.s] = file]
        /\ file.mtime = clock /\ Len(file.data) = end
        /\ job' = [job EXCEPT !.un = job.un \o OutsideOf(job.s, Original(job.s), pos + 1, end)]
  BY CopyIs DEF BaseInv
<1>2. PICK s \in Shards : s = job.s
  BY <1>1
<1>3. UNCHANGED <<dest, completed, validation, precopy, repaired, touched, clock, syncs>>
  BY DEF CopyChunk, source, bounds
<1>4. /\ disk'[Origin][s] = file
      /\ \A u \in Shards : u # s => disk'[Origin][u] = disk[Origin][u]
  BY <1>1, <1>2, <1>3, OriginWritten DEF BaseInv
<1>5. Len(File(s)') = end /\ \A u \in Shards : u # s => File(u)' = File(u)
  BY <1>1, <1>4 DEF File
<1>6. PICK un : un = job.un \o OutsideOf(s, Original(s), pos + 1, end)
  OBVIOUS
<1>7. /\ job.cmd = "prepare"
      /\ job = [cmd |-> "prepare", s |-> s, un |-> job.un, receipt |-> job.receipt]
      /\ validation[Origin] = NoReceipt
      /\ Digests(job.receipt) /\ WholeIn(job.receipt) /\ DOMAIN job.receipt = 1..s - 1
      /\ \A u \in Shards : u > s => File(u) = <<>>
      /\ job.un = UpTo(s, Original(s))[pos]
      /\ s \in 1..Len(Sizes) + 1
  BY <1>1, <1>2 DEF HomeInv, PrepareInv, CopyChunk, Preparing
<1>8. job' = [cmd |-> "prepare", s |-> s, un |-> un, receipt |-> job.receipt]
  BY <1>1, <1>2, <1>6, <1>7
<1>9. /\ pos < end /\ end <= Sizes[s] /\ (end = Sizes[s] \/ end = (q + 1) * Chunk)
      /\ UpTo(s, Original(s))[end] = un
  <2>1. pos = q * Chunk /\ pos < Sizes[s] /\ end = Lowest(pos + Chunk, Sizes[s])
    BY <1>1, <1>2
  <2>2. Follows(s, pos, q, end)
    BY <2>1, NextChunk
  <2> QED BY <1>6, <1>7, <2>2 DEF Follows
<1>10. Sizes[s] \in Nat \ {0}
  BY ShardFacts
<1>11. Len(File(s)) # Sizes[s]
  <2>1. PICK size \in Nat : size = Sizes[s]
    BY <1>10
  <2>2. pos < size /\ pos = Len(File(s))
    BY <1>1, <1>2, <2>1
  <2> QED BY <2>1, <2>2
<1>12. dest # "absent"
  BY <1>7 DEF HomeInv, FreshInv
<1>13. FreshInv' /\ RepairInv' /\ ValidateInv' /\ ValidatedInv'
  BY <1>3, <1>7, <1>8, <1>12
     DEF HomeInv, FreshInv, RepairInv, ValidateInv, ValidatedInv, Tensors
<1>14. CopiedInv'
  <2>1. s \notin DOMAIN precopy /\ DOMAIN precopy \subseteq Shards
    <3>1. Len(File(s)) # Sizes[s]
      BY <1>11
    <3> QED BY <3>1 DEF HomeInv, CopiedInv, WholeIn, Digests
  <2> QED BY <1>3, <1>5, <2>1 DEF HomeInv, CopiedInv, WholeIn, Digests
<1>15. PrepareInv'
  <2>1. s \notin DOMAIN job.receipt /\ DOMAIN job.receipt \subseteq Shards
    <3>1. Len(File(s)) # Sizes[s]
      BY <1>11
    <3> QED BY <1>7, <3>1 DEF WholeIn, Digests
  <2>2. \A u \in DOMAIN job.receipt : Len(File(u)') = Sizes[u]
    BY <1>5, <1>7, <2>1 DEF WholeIn
  <2>3. \A u \in Shards : u > s => File(u)' = <<>>
    <3>1. s \in Nat
      BY DEF Shards
    <3> QED BY <1>5, <1>7, <3>1
  <2>4. q + 1 \in Nat
    OBVIOUS
  <2>5. job'.s = s /\ job'.un = un /\ job'.receipt = job.receipt /\ validation'[Origin] = NoReceipt
    BY <1>3, <1>7, <1>8
  <2>6. /\ Len(File(s)') <= Sizes[s]
        /\ Len(File(s)') = Sizes[s] \/ \E k \in Nat : Len(File(s)') = k * Chunk
        /\ un = UpTo(s, Original(s))[Len(File(s)')]
    BY <1>5, <1>9, <2>4
  <2> QED BY <1>7, <1>8, <2>2, <2>3, <2>5, <2>6 DEF PrepareInv, WholeIn
<1> QED BY <1>8, <1>13, <1>14, <1>15 DEF HomeInv

LEMMA ShardCopiedHome ==
  ASSUME HomeInv, BaseInv, ShardCopied PROVE HomeInv'
<1>1. PICK s \in Shards : s = job.s /\ Len(File(s)) = Sizes[s]
  BY DEF ShardCopied, File
<1>2. PICK r : r = [u \in 1..s |-> IF u = s THEN job.un ELSE job.receipt[u]]
  OBVIOUS
<1>3. /\ precopy' = r /\ job' = [job EXCEPT !.s = @ + 1, !.un = <<>>, !.receipt = r]
      /\ UNCHANGED <<dest, disk, completed, validation, repaired, touched>>
  BY <1>1, <1>2 DEF ShardCopied, source
<1>4. /\ job.cmd = "prepare"
      /\ job = [cmd |-> "prepare", s |-> s, un |-> job.un, receipt |-> job.receipt]
      /\ validation[Origin] = NoReceipt
      /\ Digests(job.receipt) /\ WholeIn(job.receipt) /\ DOMAIN job.receipt = 1..s - 1
      /\ \A u \in Shards : u > s => File(u) = <<>>
      /\ job.un = UpTo(s, Original(s))[Len(File(s))]
  BY <1>1 DEF HomeInv, PrepareInv, ShardCopied, Preparing
<1>5. PICK n \in Nat : n = Len(Sizes) /\ s \in 1..n /\ Shards = 1..n
  BY SizesAssumption DEF Shards
<1>6. job' = [cmd |-> "prepare", s |-> s + 1, un |-> <<>>, receipt |-> r]
  <2>1. PICK k : k = s + 1
    OBVIOUS
  <2>2. job' = [job EXCEPT !.s = k, !.un = <<>>, !.receipt = r]
    BY <1>1, <1>3, <2>1
  <2>3. job' = [cmd |-> "prepare", s |-> k, un |-> <<>>, receipt |-> r]
    BY <1>4, <2>2
  <2> QED BY <2>1, <2>3
<1>7. job.un = UnpatchedDigest(s, Original(s))
  <2>1. Len(Original(s)) = Sizes[s] /\ Sizes[s] \in Nat
    BY ShardFacts
  <2>2. UnpatchedDigest(s, Original(s)) = UpTo(s, Original(s))[Len(Original(s))]
    BY <2>1, UpToIs
  <2> QED BY <1>1, <1>4, <2>1, <2>2
<1>8. Digests(r)
  <2>1. ASSUME NEW u \in 1..s PROVE u \in Shards /\ r[u] = UnpatchedDigest(u, Original(u))
    <3>1. CASE u = s
      BY <1>2, <1>7, <3>1
    <3>2. CASE u # s
      <4>1. u \in 1..s - 1 /\ u \in Shards
        BY <1>5, <3>2
      <4>2. r[u] = job.receipt[u]
        BY <1>2, <3>2
      <4> QED BY <1>4, <4>1, <4>2 DEF Digests
    <3> QED BY <3>1, <3>2
  <2> QED BY <1>2, <2>1 DEF Digests
<1>9. WholeIn(r)
  <2>1. ASSUME NEW u \in 1..s PROVE Len(File(u)) = Sizes[u]
    <3>1. CASE u = s
      BY <1>1, <3>1
    <3>2. CASE u # s
      <4>1. u \in 1..s - 1
        BY <1>5, <3>2
      <4> QED BY <1>4, <4>1 DEF WholeIn
    <3> QED BY <3>1, <3>2
  <2> QED BY <1>2, <2>1 DEF WholeIn
<1>10. dest # "absent"
  BY <1>4 DEF HomeInv, FreshInv
<1>11. FreshInv' /\ RepairInv' /\ ValidateInv' /\ ValidatedInv'
  BY <1>3, <1>4, <1>6, <1>10
     DEF HomeInv, FreshInv, RepairInv, ValidateInv, ValidatedInv, Tensors
<1>12. CopiedInv'
  BY <1>3, <1>8, <1>9 DEF CopiedInv, Digests, WholeIn, File
<1>13. PrepareInv'
  <2>1. s + 1 \in 1..Len(Sizes) + 1 /\ 1..(s + 1) - 1 = 1..s
    BY <1>5
  <2>2. \A u \in Shards : u > s + 1 => File(u)' = <<>>
    <3>1. \A u \in Shards : u > s + 1 => u > s
      BY <1>5
    <3> QED BY <1>3, <1>4, <3>1 DEF File
  <2>3. ASSUME s + 1 \in Shards
        PROVE  /\ Len(File(s + 1)') = 0 /\ 0 <= Sizes[s + 1] /\ 0 = 0 * Chunk
               /\ <<>> = UpTo(s + 1, Original(s + 1))[0]
    <3>1. s + 1 > s
      BY <1>5
    <3>2. File(s + 1)' = <<>>
      BY <1>3, <1>4, <2>3, <3>1 DEF File
    <3>3. PICK u \in Shards : u = s + 1
      BY <2>3
    <3>4. Sizes[u] \in Nat /\ <<>> = UpTo(u, Original(u))[0]
      BY UpToStarts, ShardFacts
    <3> QED BY <3>2, <3>3, <3>4, ChunkAssumption
  <2>4. WholeIn(r)' /\ validation'[Origin] = NoReceipt /\ DOMAIN r = 1..s
    BY <1>2, <1>3, <1>4, <1>9 DEF WholeIn, File
  <2>5. /\ job'.s = s + 1 /\ job'.un = <<>> /\ job'.receipt = r
    BY <1>6
  <2> QED BY <1>6, <1>8, <2>1, <2>2, <2>3, <2>4, <2>5 DEF PrepareInv, WholeIn
<1> QED BY <1>6, <1>11, <1>12, <1>13 DEF HomeInv

LEMMA WriteRowsHome ==
  ASSUME HomeInv, BaseInv, WriteRows PROVE HomeInv'
<1>1. PICK t \in Tensors, s \in Shards, c \in Nat \ {0}, file \in Contents :
        /\ c \in Span(t)
        /\ t = job.t /\ s = Patch[t].shard /\ file.mtime = clock
        /\ file.data = Written(File(s), c, "f")
        /\ IsThere(Origin, s) /\ file.ino = disk[Origin][s].ino
        /\ disk' = [disk EXCEPT ![Origin][s] = file]
        /\ job' = [job EXCEPT !.wrote = Append(job.wrote, "f")]
  BY WriteIs
<1>2. UNCHANGED <<dest, completed, validation, precopy, repaired, touched, clock, syncs>>
  BY DEF WriteRows, source, bounds
<1>3. /\ disk'[Origin][s] = file
      /\ \A u \in Shards : u # s => disk'[Origin][u] = disk[Origin][u]
  BY <1>1, <1>2, OriginWritten DEF BaseInv
<1>4. /\ File(s)' = Written(File(s), c, "f") /\ File(s) \in Seq(Cells)
      /\ \A u \in Shards : u # s => File(u)' = File(u)
  BY <1>1, <1>3, FilesAre DEF File, BaseInv, Nodes
<1>5. c <= Sizes[s] /\ Sizes[s] \in Nat
  BY <1>1, PatchType, ShardFacts DEF Span
<1>6. Len(File(s)) = Sizes[s] => Len(File(s)') = Sizes[s]
  BY <1>4, <1>5, WrittenIs DEF Cells
<1>7. File(s) = Pinned(s) => File(s)' = Pinned(s)
  BY <1>1, <1>4, WrittenPinned
<1>8. /\ job.cmd = "repair" /\ completed = Tensors
      /\ job = [cmd |-> "repair", t |-> t, wrote |-> job.wrote, receipt |-> job.receipt]
      /\ job.wrote \in Seq(Cells)
  BY <1>1 DEF HomeInv, RepairInv, WriteRows, Repairing
<1>9. PICK wrote \in Seq(Cells) : wrote = Append(job.wrote, "f")
  <2>1. PICK old \in Seq(Cells) : old = job.wrote
    BY <1>8
  <2>2. "f" \in Cells
    BY DEF Cells
  <2>3. Append(old, "f") \in Seq(Cells)
    BY <2>2
  <2> QED BY <2>1, <2>3
<1>10. job' = [cmd |-> "repair", t |-> t, wrote |-> wrote, receipt |-> job.receipt]
  <2>1. job' = [job EXCEPT !.wrote = wrote]
    BY <1>1, <1>9
  <2> QED BY <1>8, <2>1
<1>11. dest # "absent"
  BY <1>8 DEF HomeInv, FreshInv
<1>12. FreshInv' /\ PrepareInv' /\ ValidateInv'
  BY <1>2, <1>10, <1>11 DEF FreshInv, PrepareInv, ValidateInv
<1>13. RepairInv'
  BY <1>2, <1>8, <1>10 DEF RepairInv, Tensors
<1>14. CopiedInv'
  BY <1>2, <1>4, <1>6 DEF HomeInv, CopiedInv, WholeIn, Digests
<1>15. ValidatedInv'
  BY <1>2, <1>4, <1>7 DEF HomeInv, ValidatedInv
<1> QED BY <1>10, <1>12, <1>13, <1>14, <1>15 DEF HomeInv

LEMMA EditHome ==
  ASSUME HomeInv, BaseInv, NEW s \in Shards, Edit(Origin, s) PROVE HomeInv'
<1>1. Origin \in Nodes
  BY DEF Nodes
<1>2. PICK file \in Contents :
        /\ file.mtime = clock /\ file.ino = disk[Origin][s].ino
        /\ Len(file.data) = Len(disk[Origin][s].data) /\ Len(file.data) # 0
        /\ disk' = [disk EXCEPT ![Origin][s] = file]
  BY <1>1, EditIs
<1>3. /\ UNCHANGED <<dest, completed, validation, precopy, repaired, clock, syncs>>
      /\ touched' = touched \cup {s}
      /\ job' = IF job.cmd = "validate" THEN [job EXCEPT !.late = @ \cup {s}] ELSE job
  BY DEF Edit, source
<1>4. /\ disk'[Origin][s] = file
      /\ \A u \in Shards : u # s => disk'[Origin][u] = disk[Origin][u]
  BY <1>2, <1>3, OriginWritten DEF BaseInv
<1>5. /\ \A u \in Shards : Len(File(u)') = Len(File(u))
      /\ \A u \in Shards : u # s => File(u)' = File(u)
      /\ Len(File(s)) # 0
  BY <1>2, <1>4 DEF File
<1>6. File(s) # <<>>
  BY <1>5
<1>7. dest # "absent"
  BY <1>6 DEF HomeInv, FreshInv
<1>8. FreshInv'
  BY <1>3, <1>7 DEF FreshInv
<1>9. CopiedInv'
  BY <1>3, <1>5 DEF HomeInv, CopiedInv, WholeIn, Digests
<1>10. ValidatedInv'
  BY <1>3, <1>5 DEF HomeInv, ValidatedInv
<1>11. CASE job.cmd # "validate"
  <2>1. job' = job
    BY <1>3, <1>11
  <2>2. RepairInv' /\ ValidateInv'
    BY <1>3, <1>11, <2>1 DEF HomeInv, RepairInv, ValidateInv, Tensors
  <2>3. PrepareInv'
    <3>1. CASE job.cmd = "prepare"
      <4>1. /\ job = [cmd |-> "prepare", s |-> job.s, un |-> job.un, receipt |-> job.receipt]
            /\ validation[Origin] = NoReceipt
            /\ job.s \in 1..Len(Sizes) + 1
            /\ Digests(job.receipt) /\ WholeIn(job.receipt) /\ DOMAIN job.receipt = 1..job.s - 1
            /\ \A u \in Shards : u > job.s => File(u) = <<>>
            /\ job.s \in Shards =>
                 /\ Len(File(job.s)) <= Sizes[job.s]
                 /\ Len(File(job.s)) = Sizes[job.s]
                      \/ \E q \in Nat : Len(File(job.s)) = q * Chunk
                 /\ job.un = UpTo(job.s, Original(job.s))[Len(File(job.s))]
        BY <3>1 DEF HomeInv, PrepareInv
      <4>2. \A u \in Shards : u > job.s => File(u)' = <<>>
        BY <1>5, <1>6, <4>1
      <4>3. \A u \in DOMAIN job.receipt : Len(File(u)') = Sizes[u]
        BY <1>5, <4>1 DEF WholeIn, Digests
      <4>4. job.s \in Shards => Len(File(job.s)') = Len(File(job.s))
        BY <1>5, <2>1
      <4> QED BY <1>3, <2>1, <4>1, <4>2, <4>3, <4>4 DEF PrepareInv, WholeIn
    <3>2. CASE job.cmd # "prepare"
      BY <2>1, <3>2 DEF PrepareInv
    <3> QED BY <3>1, <3>2
  <2> QED BY <1>8, <1>9, <1>10, <2>1, <2>2, <2>3 DEF HomeInv
<1>12. CASE job.cmd = "validate"
  <2>1. /\ job = [cmd |-> "validate", t |-> job.t, s |-> job.s, precopy |-> job.precopy,
                  repaired |-> job.repaired, sums |-> job.sums, late |-> job.late]
        /\ job.t \in 1..Len(Patch) + 1 /\ job.s \in 1..Len(Sizes) + 1
        /\ Digests(job.precopy) /\ WholeIn(job.precopy)
        /\ \A t \in Tensors : t < job.t /\ Patch[t].shard \notin job.late =>
             \A c \in Span(t) : File(Patch[t].shard)[c] = "f"
        /\ job.sums \in Seq(Seq(Cells)) /\ Len(job.sums) = job.s - 1
        /\ \A u \in Shards : u < job.s =>
             /\ Original0(u, job.sums[u])
             /\ u \notin job.late => job.sums[u] = Pinned(u) /\ File(u) = Pinned(u)
        /\ completed = Tensors
    BY <1>12 DEF HomeInv, ValidateInv, RepairInv
  <2>2. PICK late : late = job.late \cup {s}
    OBVIOUS
  <2>3. job' = [cmd |-> "validate", t |-> job.t, s |-> job.s, precopy |-> job.precopy,
                repaired |-> job.repaired, sums |-> job.sums, late |-> late]
    BY <1>3, <1>12, <2>1, <2>2
  <2>4. PrepareInv' /\ RepairInv'
    BY <1>3, <2>1, <2>3 DEF PrepareInv, RepairInv, Tensors
  <2>5. \A u \in DOMAIN job.precopy : Len(File(u)') = Sizes[u]
    BY <1>5, <2>1 DEF WholeIn, Digests
  <2>6. ASSUME NEW t \in Tensors, t < job.t, Patch[t].shard \notin late
        PROVE  \A c \in Span(t) : File(Patch[t].shard)'[c] = "f"
    BY <1>5, <2>1, <2>2, <2>6, SpanIsPatched
  <2>7. ASSUME NEW u \in Shards, u < job.s, u \notin late
        PROVE  job.sums[u] = Pinned(u) /\ File(u)' = Pinned(u)
    BY <1>5, <2>1, <2>2, <2>7
  <2>8. ValidateInv'
    <3>1. /\ job'.t = job.t /\ job'.s = job.s /\ job'.precopy = job.precopy
          /\ job'.sums = job.sums /\ job'.late = late /\ job'.cmd = "validate"
      BY <2>3
    <3> QED BY <2>1, <2>3, <2>5, <2>6, <2>7, <3>1 DEF ValidateInv, WholeIn
  <2> QED BY <1>8, <1>9, <1>10, <2>3, <2>4, <2>8 DEF HomeInv
<1> QED BY <1>11, <1>12

LEMMA CompareTensorHome ==
  ASSUME HomeInv, BaseInv, CompareTensor PROVE HomeInv'
<1>1. /\ job.cmd = "validate"
      /\ job = [cmd |-> "validate", t |-> job.t, s |-> job.s, precopy |-> job.precopy,
                repaired |-> job.repaired, sums |-> job.sums, late |-> job.late]
      /\ job.t \in Tensors /\ completed = Tensors
  BY DEF HomeInv, ValidateInv, RepairInv, CompareTensor, Validating
<1>2. /\ UNCHANGED <<dest, disk, completed, validation, precopy, repaired, touched>>
      /\ \A c \in Span(job.t) : File(Patch[job.t].shard)[c] = Converted(job.t)
      /\ job' = [job EXCEPT !.t = @ + 1]
  BY DEF CompareTensor, source, File
<1>3. Converted(job.t) = "f"
  BY <1>1, TensorsAreCached DEF BaseInv
<1>4. PICK t \in Nat : t = job.t /\ t \in 1..Len(Patch)
  BY <1>1 DEF Tensors
<1>5. job' = [cmd |-> "validate", t |-> t + 1, s |-> job.s, precopy |-> job.precopy,
              repaired |-> job.repaired, sums |-> job.sums, late |-> job.late]
  <2>1. PICK k : k = t + 1
    OBVIOUS
  <2>2. job' = [job EXCEPT !.t = k]
    BY <1>2, <1>4, <2>1
  <2>3. job' = [cmd |-> "validate", t |-> k, s |-> job.s, precopy |-> job.precopy,
              repaired |-> job.repaired, sums |-> job.sums, late |-> job.late]
    BY <1>1, <2>2
  <2> QED BY <2>1, <2>3
<1>6. FreshInv' /\ PrepareInv'
  BY <1>1, <1>2, <1>5 DEF HomeInv, FreshInv, PrepareInv
<1>7. CopiedInv' /\ ValidatedInv'
  BY <1>2 DEF HomeInv, CopiedInv, ValidatedInv, Digests, WholeIn, File
<1>8. RepairInv'
  BY <1>1, <1>2, <1>5 DEF RepairInv, Tensors
<1>9. ASSUME NEW u \in Tensors, u < t + 1, Patch[u].shard \notin job.late
      PROVE  \A c \in Span(u) : File(Patch[u].shard)'[c] = "f"
  <2>1. \A c \in Span(u) : File(Patch[u].shard)[c] = "f"
    <3>1. u = t \/ u < t
      BY <1>4, <1>9 DEF Tensors
    <3>2. CASE u = t
      BY <1>2, <1>3, <1>4, <3>2
    <3>3. CASE u < t
      BY <1>1, <1>4, <1>9, <3>3 DEF HomeInv, ValidateInv
    <3> QED BY <3>1, <3>2, <3>3
  <2> QED BY <1>2, <2>1 DEF File
<1>10. ValidateInv'
  <2>1. t + 1 \in 1..Len(Patch) + 1
    BY <1>4, PatchAssumption
  <2>2. /\ job'.t = t + 1 /\ job'.s = job.s /\ job'.precopy = job.precopy
        /\ job'.sums = job.sums /\ job'.late = job.late
    BY <1>5
  <2>3. \A u \in Shards : File(u)' = File(u)
    BY <1>2 DEF File
  <2>4. /\ job.s \in 1..Len(Sizes) + 1
        /\ Digests(job.precopy) /\ WholeIn(job.precopy)
        /\ job.sums \in Seq(Seq(Cells)) /\ Len(job.sums) = job.s - 1
        /\ \A s \in Shards : s < job.s =>
             /\ Original0(s, job.sums[s])
             /\ s \notin job.late => job.sums[s] = Pinned(s) /\ File(s) = Pinned(s)
    BY <1>1 DEF HomeInv, ValidateInv
  <2>5. \A u \in DOMAIN job.precopy : Len(File(u)') = Sizes[u]
    BY <2>3, <2>4 DEF WholeIn, Digests
  <2> QED BY <1>5, <1>9, <2>1, <2>2, <2>3, <2>4, <2>5 DEF ValidateInv, WholeIn
<1> QED BY <1>5, <1>6, <1>7, <1>8, <1>10 DEF HomeInv

(* Cells that are right inside and outside the patched tensors are pinned. *)
LEMMA PinnedIs ==
  ASSUME NEW s \in Shards, NEW d \in Seq(Cells), Len(d) = Sizes[s], Original0(s, d),
         \A c \in Patched(s) : d[c] = "f"
  PROVE  d = Pinned(s)
<1>1. PICK p \in Seq(Cells) : p = Pinned(s) /\ Len(p) = Sizes[s]
  BY ShardFacts
<1>2. PICK n \in Nat : n = Sizes[s]
  BY ShardFacts
<1>3. p = [c \in 1..n |-> IF c \in Patched(s) THEN "f" ELSE "o"]
  BY <1>1, <1>2 DEF Pinned
<1>4. ASSUME NEW c \in 1..n PROVE d[c] = p[c]
  <2>1. CASE c \in Patched(s)
    BY <1>3, <1>4, <2>1
  <2>2. CASE c \notin Patched(s)
    BY <1>2, <1>3, <1>4, <2>2 DEF Original0
  <2> QED BY <2>1, <2>2
<1>5. Len(d) = n /\ Len(p) = n
  BY <1>1, <1>2
<1>6. d = p
  BY <1>4, <1>5
<1> QED BY <1>1, <1>6

LEMMA HashShardHome ==
  ASSUME HomeInv, BaseInv, HashShard PROVE HomeInv'
<1>1. /\ job.cmd = "validate"
      /\ job = [cmd |-> "validate", t |-> job.t, s |-> job.s, precopy |-> job.precopy,
                repaired |-> job.repaired, sums |-> job.sums, late |-> job.late]
      /\ job.t \in 1..Len(Patch) + 1 /\ job.t \notin Tensors /\ completed = Tensors
      /\ Digests(job.precopy) /\ WholeIn(job.precopy)
      /\ \A t \in Tensors : t < job.t /\ Patch[t].shard \notin job.late =>
           \A c \in Span(t) : File(Patch[t].shard)[c] = "f"
      /\ job.sums \in Seq(Seq(Cells)) /\ Len(job.sums) = job.s - 1
      /\ \A u \in Shards : u < job.s =>
           /\ Original0(u, job.sums[u])
           /\ u \notin job.late => job.sums[u] = Pinned(u) /\ File(u) = Pinned(u)
  BY DEF HomeInv, ValidateInv, RepairInv, HashShard, Validating
<1>2. PICK s \in Shards : s = job.s
  BY DEF HashShard
<1>3. PICK data \in Seq(Cells) : data = File(s)
  BY FilesAre DEF BaseInv, Nodes, File
<1>4. PICK sums : sums = Append(job.sums, data)
  OBVIOUS
<1>5. /\ UNCHANGED <<dest, disk, completed, validation, precopy, repaired, touched>>
      /\ s \in DOMAIN job.precopy /\ UnpatchedDigest(s, data) = job.precopy[s]
      /\ job' = [job EXCEPT !.s = @ + 1, !.sums = sums]
  BY <1>2, <1>3, <1>4 DEF HashShard, source, File
<1>6. PICK n \in Nat : n = Len(Sizes) /\ Shards = 1..n /\ s \in 1..n
  BY SizesAssumption DEF Shards
<1>7. job' = [cmd |-> "validate", t |-> job.t, s |-> s + 1, precopy |-> job.precopy,
              repaired |-> job.repaired, sums |-> sums, late |-> job.late]
  <2>1. PICK k : k = s + 1
    OBVIOUS
  <2>2. job' = [job EXCEPT !.s = k, !.sums = sums]
    BY <1>2, <1>5, <2>1
  <2>3. job' = [cmd |-> "validate", t |-> job.t, s |-> k, precopy |-> job.precopy,
              repaired |-> job.repaired, sums |-> sums, late |-> job.late]
    BY <1>1, <2>2
  <2> QED BY <2>1, <2>3
<1>8. Original0(s, data)
  <2>1. /\ Len(data) = Sizes[s] /\ Original(s) \in Seq(Cells) /\ Len(Original(s)) = Sizes[s]
        /\ UnpatchedDigest(s, data) = UnpatchedDigest(s, Original(s))
    BY <1>1, <1>3, <1>5, ShardFacts DEF WholeIn, Digests
  <2>2. \A c \in 1..Len(data) : c \notin Patched(s) => data[c] = Original(s)[c]
    BY <2>1, DigestsAgree
  <2>3. \A c \in 1..Sizes[s] : Original(s)[c] = "o"
    BY DEF Original
  <2> QED BY <2>1, <2>2, <2>3 DEF Original0
<1>9. s \notin job.late => data = Pinned(s)
  <2>1. ASSUME s \notin job.late, NEW c \in Patched(s) PROVE data[c] = "f"
    <3>1. PICK t \in Tensors : Patch[t].shard = s /\ c \in Span(t)
      BY DEF Patched
    <3>2. t < job.t
      BY <1>1, PatchAssumption DEF Tensors
    <3> QED BY <1>1, <1>3, <2>1, <3>1, <3>2
  <2>2. Len(data) = Sizes[s]
    BY <1>1, <1>3, <1>5 DEF WholeIn
  <2> QED BY <1>8, <2>1, <2>2, PinnedIs
<1>10. /\ sums \in Seq(Seq(Cells)) /\ Len(sums) = s /\ sums[s] = data
       /\ \A u \in 1..s - 1 : sums[u] = job.sums[u]
  <2>1. PICK old \in Seq(Seq(Cells)) : old = job.sums /\ Len(old) = s - 1
    BY <1>1, <1>2
  <2>2. /\ Append(old, data) \in Seq(Seq(Cells)) /\ Len(Append(old, data)) = Len(old) + 1
        /\ \A u \in 1..Len(old) : Append(old, data)[u] = old[u]
        /\ Append(old, data)[Len(old) + 1] = data
    BY AppendProperties
  <2>3. Len(old) + 1 = s
    BY <1>6, <2>1
  <2> QED BY <1>4, <2>1, <2>2, <2>3
<1>11. FreshInv' /\ PrepareInv'
  BY <1>1, <1>5, <1>7 DEF HomeInv, FreshInv, PrepareInv
<1>12. CopiedInv' /\ ValidatedInv'
  BY <1>5 DEF HomeInv, CopiedInv, ValidatedInv, Digests, WholeIn, File
<1>13. RepairInv'
  BY <1>1, <1>5, <1>7 DEF RepairInv, Tensors
<1>14. ASSUME NEW u \in Shards, u < s + 1
       PROVE  /\ Original0(u, sums[u])
              /\ u \notin job.late => sums[u] = Pinned(u) /\ File(u) = Pinned(u)
  <2>1. u = s \/ u \in 1..s - 1
    BY <1>6, <1>14
  <2>2. CASE u = s
    BY <1>3, <1>8, <1>9, <1>10, <2>2
  <2>3. CASE u \in 1..s - 1
    <3>1. u < job.s
      BY <1>2, <1>6, <2>3
    <3> QED BY <1>1, <1>10, <2>3, <3>1
  <2> QED BY <2>1, <2>2, <2>3
<1>15. ValidateInv'
  <2>1. /\ job'.t = job.t /\ job'.s = s + 1 /\ job'.precopy = job.precopy
        /\ job'.sums = sums /\ job'.late = job.late
    BY <1>7
  <2>2. \A u \in Shards : File(u)' = File(u)
    BY <1>5 DEF File
  <2>3. s + 1 \in 1..Len(Sizes) + 1 /\ Len(sums) = (s + 1) - 1
    BY <1>6, <1>10
  <2>4. \A u \in DOMAIN job.precopy : Len(File(u)') = Sizes[u]
    BY <1>1, <2>2 DEF WholeIn, Digests
  <2>5. \A t \in Tensors : t < job.t /\ Patch[t].shard \notin job.late =>
           \A c \in Span(t) : File(Patch[t].shard)'[c] = "f"
    BY <1>1, <2>2, SpanIsPatched
  <2>6. \A u \in Shards : u < s + 1 =>
              /\ Original0(u, sums[u])
              /\ u \notin job.late => sums[u] = Pinned(u) /\ File(u)' = Pinned(u)
    BY <1>14, <2>2
  <2> QED BY <1>1, <1>7, <1>10, <2>1, <2>3, <2>4, <2>5, <2>6 DEF ValidateInv, WholeIn
<1> QED BY <1>7, <1>11, <1>12, <1>13, <1>15 DEF HomeInv

LEMMA FinishValidateHome ==
  ASSUME HomeInv, FinishValidate PROVE HomeInv'
<1>1. /\ validation' = [validation EXCEPT ![Origin] = job.sums]
      /\ touched' = job.late /\ job' = Idle
      /\ UNCHANGED <<dest, disk, completed, precopy, repaired>>
      /\ job.cmd = "validate" /\ job.s \notin Shards
  BY DEF FinishValidate, Validating, source
<1>2. /\ job.s \in 1..Len(Sizes) + 1
      /\ \A u \in Shards : u < job.s =>
           /\ Original0(u, job.sums[u])
           /\ u \notin job.late => job.sums[u] = Pinned(u) /\ File(u) = Pinned(u)
  BY <1>1 DEF HomeInv, ValidateInv
<1>3. \A u \in Shards : u < job.s
  BY <1>1, <1>2, SizesAssumption DEF Shards
<1>4. dest # "absent"
  BY <1>1 DEF HomeInv, FreshInv
<1>5. FreshInv' /\ PrepareInv' /\ ValidateInv'
  BY <1>1, <1>4 DEF FreshInv, PrepareInv, ValidateInv, Idle
<1>6. CopiedInv'
  BY <1>1 DEF HomeInv, CopiedInv, Digests, WholeIn, File
<1>7. RepairInv'
  BY <1>1 DEF HomeInv, RepairInv, Idle
<1>8. ValidatedInv'
  <2>1. DOMAIN validation = Nodes
    BY DEF HomeInv, ValidatedInv
  <2>2. validation'[Origin] = job.sums /\ DOMAIN validation' = Nodes
    BY <1>1, <2>1 DEF Nodes
  <2>3. \A u \in Shards : File(u)' = File(u)
    BY <1>1 DEF File
  <2> QED BY <1>1, <1>2, <1>3, <2>2, <2>3 DEF ValidatedInv
<1> QED BY <1>1, <1>5, <1>6, <1>7, <1>8 DEF HomeInv, Idle

LEMMA HomeKeeps ==
  ASSUME HomeInv, BaseInv, BaseInv', [Next]_vars PROVE HomeInv'
<1>1. CASE \E n \in Nodes, s \in Shards : Edit(n, s)
  BY <1>1, AsideHome, EditHome DEF Nodes
<1>2. CASE \/ BuildManifest \/ JobDies \/ CheckDies \/ StartDownload \/ FetchRange
           \/ RangeComplete \/ ReadShard \/ FinishCheck \/ SealShard \/ StatShard \/ CompareShard
           \/ Sync \/ UNCHANGED vars
           \/ \E n \in Nodes, cmd \in {"seal", "full", "fast"} : StartCheck(n, cmd)
  BY <1>2, AsideHome
<1>3. CASE \/ StartPrepare \/ CopyChunk \/ ShardCopied \/ FinishPrepare \/ StartRepair
           \/ WriteRows \/ TensorRepaired \/ StartValidate \/ CompareTensor \/ HashShard
           \/ FinishValidate
  BY <1>3, StartPrepareHome, CopyChunkHome, ShardCopiedHome, FinishPrepareHome,
     StartRepairHome, WriteRowsHome, TensorRepairedHome, StartValidateHome,
     CompareTensorHome, HashShardHome, FinishValidateHome
<1> QED BY <1>1, <1>2, <1>3 DEF Next

-----------------------------------------------------------------------------
(* Seals and admissions.                                                   *)

Sealed(row, s) == Stamped(row) /\ Holds(row, s)
Seals(x) ==
  x \in Seq(SealRows) /\ Len(x) = Len(Sizes) /\ \A s \in Shards : Sealed(x[s], s)
SealInv ==
  /\ DOMAIN seal = Nodes
  /\ \A n \in Nodes : seal[n] # NoReceipt => Seals(seal[n])

(* What a check has found so far: of which files the rows of a new seal    *)
(* are, and what a comparison with a seal has seen.                        *)
Found(rows, s) == rows[s].data = Pinned(s) \/ rows[s].blind
CheckInv ==
  \/ check = Idle
  \/ /\ check = [cmd |-> check.cmd, n |-> check.n, s |-> check.s, statted |-> check.statted,
                 seal |-> check.seal, rows |-> check.rows]
     /\ check.cmd \in {"seal", "full", "fast"} /\ check.n \in Nodes
     /\ check.s \in 1..Len(Sizes) + 1 /\ check.statted \in BOOLEAN
     /\ check.statted => check.cmd = "full" /\ check.s \in Shards
     /\ Len(check.rows) = IF check.statted THEN check.s ELSE check.s - 1
     /\ check.cmd = "seal" /\ check.n = Origin => validation[Origin] # NoReceipt
     /\ check.cmd = "fast" =>
          /\ Seals(check.seal) /\ check.rows \in Seq(FastRows)
          /\ \A s \in Shards : s < check.s => Found(check.rows, s)
     /\ check.cmd # "fast" =>
          /\ check.rows \in Seq(SealRows)
          /\ \A s \in Shards : s < check.s => Sealed(check.rows[s], s)
          /\ check.statted => /\ Stamped(check.rows[check.s])
                              /\ check.rows[check.s].stat[1] = check.n
AdmitInv == DOMAIN admitted = Nodes /\ AdmittedIsPinned
IdentityInv == SealInv /\ CheckInv /\ AdmitInv

LEMMA ShardsAre == \E n \in Nat \ {0} : n = Len(Sizes) /\ Shards = 1..n
<1>1. PICK n \in Nat : n = Len(Sizes)
  BY SizesAssumption
<1>2. 1 \in Tensors
  BY PatchAssumption DEF Tensors
<1>3. Patch[1].shard \in 1..n
  BY <1>1, <1>2, SpanIsPatched DEF Shards
<1> QED BY <1>1, <1>3 DEF Shards

LEMMA RowOf ==
  ASSUME NEW x \in Seq(SealRows), NEW s \in Nat, 1 <= s, s <= Len(x) PROVE x[s] \in SealRows
BY ElementOfSeq

LEMMA SealsStay ==
  ASSUME DiskInv, DiskStep, NEW x, Seals(x) PROVE Seals(x)'
<1>1. x \in Seq(SealRows) /\ Len(x) = Len(Sizes) /\ \A s \in Shards : Sealed(x[s], s)
  BY DEF Seals
<1>2. ASSUME NEW s \in Shards PROVE Sealed(x[s], s)'
  <2>1. PICK row \in SealRows : row = x[s]
    BY <1>1, RowOf, ShardsAre
  <2>2. Stamped(row)' /\ Holds(row, s)'
    BY <1>1, <2>1, RowStays DEF Sealed
  <2> QED BY <2>1, <2>2 DEF Sealed
<1> QED BY <1>1, <1>2 DEF Seals

(* Rows that were found stay good, whatever happens meanwhile.             *)
LEMMA CheckedStay ==
  ASSUME IdentityInv, DiskInv, DiskStep, check # Idle,
         NEW x, x = check.seal, NEW rows, rows = check.rows, NEW k, k = check.s
  PROVE  /\ check.cmd = "fast" => Seals(x)'
         /\ check.cmd # "fast" => \A s \in Shards : s < k => Sealed(rows[s], s)'
         /\ check.cmd # "fast" /\ check.statted => Stamped(rows[k])'
<1>1. /\ check = [cmd |-> check.cmd, n |-> check.n, s |-> check.s, statted |-> check.statted,
                  seal |-> check.seal, rows |-> check.rows]
      /\ check.cmd \in {"seal", "full", "fast"} /\ check.n \in Nodes
      /\ check.s \in 1..Len(Sizes) + 1 /\ check.statted \in BOOLEAN
      /\ check.statted => check.cmd = "full" /\ check.s \in Shards
      /\ Len(check.rows) = IF check.statted THEN check.s ELSE check.s - 1
      /\ check.cmd = "seal" /\ check.n = Origin => validation[Origin] # NoReceipt
      /\ check.cmd = "fast" =>
           /\ Seals(check.seal) /\ check.rows \in Seq(FastRows)
           /\ \A s \in Shards : s < check.s => Found(check.rows, s)
      /\ check.cmd # "fast" =>
           /\ check.rows \in Seq(SealRows)
           /\ \A s \in Shards : s < check.s => Sealed(check.rows[s], s)
           /\ check.statted => /\ Stamped(check.rows[check.s])
                               /\ check.rows[check.s].stat[1] = check.n
  BY DEF IdentityInv, CheckInv
<1>2. check.cmd = "fast" => Seals(x)'
  BY <1>1, SealsStay
<1>3. ASSUME check.cmd # "fast", NEW s \in Shards, s < k PROVE Sealed(rows[s], s)'
  <2>1. Sealed(rows[s], s) /\ rows \in Seq(SealRows)
    BY <1>1, <1>3
  <2>2. s \in Nat /\ 1 <= s /\ s <= Len(rows)
    BY <1>1, <1>3, ShardsAre
  <2>3. PICK row \in SealRows : row = rows[s]
    BY <2>1, <2>2, RowOf
  <2>4. Stamped(row)' /\ Holds(row, s)'
    BY <2>1, <2>3, RowStays DEF Sealed
  <2> QED BY <2>3, <2>4 DEF Sealed
<1>4. ASSUME check.cmd # "fast", check.statted PROVE Stamped(rows[k])'
  <2>1. Stamped(rows[k]) /\ rows \in Seq(SealRows) /\ k \in Shards /\ Len(rows) = k
    BY <1>1, <1>4
  <2>2. PICK row \in SealRows : row = rows[k]
    BY <2>1, RowOf, ShardsAre
  <2>3. Stamped(row)'
    BY <2>1, <2>2, RowStays
  <2> QED BY <2>2, <2>3
<1> QED BY <1>2, <1>3, <1>4

LEMMA IdentityFrame ==
  ASSUME IdentityInv, DiskInv, DiskStep, UNCHANGED <<seal, admitted>>,
         \/ check' = check
         \/ check' = Idle,
         validation[Origin] # NoReceipt => validation'[Origin] # NoReceipt
  PROVE  IdentityInv'
<1>1. SealInv'
  BY SealsStay DEF IdentityInv, SealInv
<1>2. AdmitInv'
  BY DEF IdentityInv, AdmitInv, AdmittedIsPinned
<1>3. CheckInv'
  <2>1. CASE check' = Idle
    BY <2>1 DEF CheckInv
  <2>2. CASE check' # Idle
    <3>1. check' = check /\ check # Idle
      BY <2>2
    <3>2. /\ check = [cmd |-> check.cmd, n |-> check.n, s |-> check.s, statted |-> check.statted,
                      seal |-> check.seal, rows |-> check.rows]
          /\ check.cmd \in {"seal", "full", "fast"} /\ check.n \in Nodes
          /\ check.s \in 1..Len(Sizes) + 1 /\ check.statted \in BOOLEAN
          /\ check.statted => check.cmd = "full" /\ check.s \in Shards
          /\ Len(check.rows) = IF check.statted THEN check.s ELSE check.s - 1
          /\ check.cmd = "seal" /\ check.n = Origin => validation[Origin] # NoReceipt
          /\ check.cmd = "fast" =>
               /\ Seals(check.seal) /\ check.rows \in Seq(FastRows)
               /\ \A s \in Shards : s < check.s => Found(check.rows, s)
          /\ check.cmd # "fast" =>
               /\ check.rows \in Seq(SealRows)
               /\ \A s \in Shards : s < check.s => Sealed(check.rows[s], s)
               /\ check.statted => /\ Stamped(check.rows[check.s])
                                   /\ check.rows[check.s].stat[1] = check.n
      BY <3>1 DEF IdentityInv, CheckInv
    <3>3. PICK x, rows, k : x = check.seal /\ rows = check.rows /\ k = check.s
      OBVIOUS
    <3>4. /\ check.cmd = "fast" => Seals(x)'
          /\ check.cmd # "fast" => \A s \in Shards : s < k => Sealed(rows[s], s)'
          /\ check.cmd # "fast" /\ check.statted => Stamped(rows[k])'
      BY <3>1, <3>3, CheckedStay
    <3>5. Seals(check.seal)' <=> Seals(x)'
      BY <3>1, <3>3 DEF Seals
    <3>6. \A s \in Shards : Sealed(check.rows[s], s)' <=> Sealed(rows[s], s)'
      BY <3>1, <3>3 DEF Sealed, Stamped, Holds
    <3>7. Stamped(check.rows[check.s])' <=> Stamped(rows[k])'
      BY <3>1, <3>3 DEF Stamped
    <3>8. (check.cmd # "fast") =>
            /\ \A s \in Shards : s < check.s => Sealed(check.rows[s], s)'
            /\ check.statted => Stamped(check.rows[check.s])'
      BY <3>3, <3>4, <3>6, <3>7
    <3>9. check.cmd = "fast" => Seals(check.seal)'
      BY <3>4, <3>5
    <3> QED BY <3>1, <3>2, <3>8, <3>9 DEF CheckInv
  <2> QED BY <2>1, <2>2
<1> QED BY <1>1, <1>2, <1>3 DEF IdentityInv

LEMMA StartCheckId ==
  ASSUME IdentityInv, DiskInv, DiskStep, NEW n \in Nodes, NEW cmd \in {"seal", "full", "fast"},
         StartCheck(n, cmd)
  PROVE  IdentityInv'
<1>1. /\ check' = [cmd |-> cmd, n |-> n, s |-> 1, statted |-> FALSE,
                   seal |-> seal[n], rows |-> <<>>]
      /\ cmd = "fast" => seal[n] # NoReceipt
      /\ validation[n] # NoReceipt
      /\ UNCHANGED <<seal, admitted, validation>>
  BY DEF StartCheck, ReceiptIsPinned
<1>2. SealInv'
  BY <1>1, SealsStay DEF IdentityInv, SealInv
<1>3. AdmitInv'
  BY <1>1 DEF IdentityInv, AdmitInv, AdmittedIsPinned
<1>4. CheckInv'
  <2>1. 1 \in 1..Len(Sizes) + 1 /\ \A s \in Shards : ~ (s < 1)
    BY ShardsAre
  <2>2. PICK x : x = seal[n]
    OBVIOUS
  <2>3. cmd = "fast" => Seals(x)'
    BY <1>1, <2>2, SealsStay DEF IdentityInv, SealInv
  <2>4. cmd = "fast" => Seals(check.seal)'
    BY <1>1, <2>2, <2>3 DEF Seals
  <2>5. /\ check'.cmd = cmd /\ check'.n = n /\ check'.s = 1 /\ check'.statted = FALSE
        /\ check'.rows = <<>> /\ Len(<<>>) = 0
    BY <1>1
  <2> QED BY <1>1, <2>1, <2>4, <2>5 DEF CheckInv
<1> QED BY <1>2, <1>3, <1>4 DEF IdentityInv

(* A fingerprint that was taken is older than any later write.             *)
LEMMA StatIsStamped ==
  ASSUME DiskInv, NEW n \in Nodes, NEW s \in Shards, disk' = disk, syncs' = syncs,
         disk[n][s].mtime < clock', NEW sha \in Seq(Cells), NEW blind \in BOOLEAN, NEW row,
         row = [stat |-> Stat(n, s), sha |-> sha, blind |-> blind]
  PROVE  row \in SealRows /\ Stamped(row)' /\ row.stat[1] = n
<1>1. PICK len, ino, mtime : len = Len(disk[n][s].data) /\ ino = disk[n][s].ino
                             /\ mtime = disk[n][s].mtime
  OBVIOUS
<1>2. len \in Nat /\ ino \in Nat /\ mtime \in Nat /\ (n = Replica => ino <= syncs)
  BY <1>1 DEF DiskInv, Contents
<1>3. row = [stat |-> <<n, len, ino, mtime>>, sha |-> sha, blind |-> blind]
  BY <1>1 DEF Stat
<1>4. row \in SealRows
  BY <1>2, <1>3 DEF SealRows, Stats
<1>5. row.stat[1] = n /\ row.stat[3] = ino /\ row.stat[4] = mtime
  BY <1>3
<1> QED BY <1>1, <1>2, <1>4, <1>5 DEF Stamped

LEMMA RowAppended ==
  ASSUME NEW R, NEW rows \in Seq(R), NEW row \in R, NEW longer, longer = Append(rows, row),
         NEW k \in Nat, Len(rows) = k - 1
  PROVE  /\ longer \in Seq(R) /\ Len(longer) = k /\ longer[k] = row
         /\ \A u \in Nat : 1 <= u /\ u < k => longer[u] = rows[u]
<1>1. /\ longer \in Seq(R) /\ Len(longer) = Len(rows) + 1
      /\ \A u \in 1..Len(rows) : longer[u] = rows[u]
      /\ longer[Len(rows) + 1] = row
  BY AppendProperties
<1>2. Len(rows) + 1 = k
  OBVIOUS
<1>3. \A u \in Nat : 1 <= u /\ u < k => u \in 1..Len(rows)
  OBVIOUS
<1> QED BY <1>1, <1>2, <1>3

(* What is known of a check that looks at a shard.                         *)
LEMMA Looking ==
  ASSUME IdentityInv, NEW cmd \in {"seal", "full", "fast"}, Checking(cmd)
  PROVE  /\ check # Idle
         /\ check = [cmd |-> cmd, n |-> check.n, s |-> check.s, statted |-> check.statted,
                     seal |-> check.seal, rows |-> check.rows]
         /\ check.cmd = cmd /\ check.n \in Nodes /\ check.s \in Shards
         /\ check.statted \in BOOLEAN /\ (check.statted => cmd = "full")
         /\ Len(check.rows) = IF check.statted THEN check.s ELSE check.s - 1
         /\ cmd = "seal" /\ check.n = Origin => validation[Origin] # NoReceipt
         /\ cmd = "fast" =>
               /\ Seals(check.seal) /\ check.rows \in Seq(FastRows)
               /\ \A s \in Shards : s < check.s => Found(check.rows, s)
         /\ cmd # "fast" =>
               /\ check.rows \in Seq(SealRows)
               /\ \A s \in Shards : s < check.s => Sealed(check.rows[s], s)
               /\ check.statted => /\ Stamped(check.rows[check.s])
                                   /\ check.rows[check.s].stat[1] = check.n
<1>1. check # Idle
  BY DEF Checking, Idle
<1> QED BY <1>1 DEF Checking, IdentityInv, CheckInv

(* How a check of contents goes on: the shards before k are sealed by its  *)
(* rows, and the one at k has been looked at or not.                       *)
LEMMA GoesOn ==
  ASSUME IdentityInv, DiskInv, DiskStep, UNCHANGED <<seal, admitted, validation>>,
         NEW cmd \in {"seal", "full"}, NEW n \in Nodes, NEW k \in 1..Len(Sizes) + 1,
         NEW statted \in BOOLEAN, NEW x, NEW rows \in Seq(SealRows),
         check' = [cmd |-> cmd, n |-> n, s |-> k, statted |-> statted, seal |-> x, rows |-> rows],
         statted => cmd = "full" /\ k \in Shards,
         Len(rows) = IF statted THEN k ELSE k - 1,
         cmd = "seal" /\ n = Origin => validation[Origin] # NoReceipt,
         \A s \in Shards : s < k => Sealed(rows[s], s)',
         statted => Stamped(rows[k])' /\ rows[k].stat[1] = n
  PROVE  IdentityInv'
<1>1. SealInv'
  BY SealsStay DEF IdentityInv, SealInv
<1>2. AdmitInv'
  BY DEF IdentityInv, AdmitInv, AdmittedIsPinned
<1>3. /\ check'.cmd = cmd /\ check'.n = n /\ check'.s = k /\ check'.statted = statted
      /\ check'.seal = x /\ check'.rows = rows
  OBVIOUS
<1>4. \A s \in Shards : s < k => Sealed(check.rows[s], s)'
  BY <1>3 DEF Sealed, Stamped, Holds
<1>5. statted => Stamped(check.rows[check.s])'
  BY <1>3 DEF Stamped
<1>6. CheckInv'
  BY <1>3, <1>4, <1>5 DEF CheckInv
<1> QED BY <1>1, <1>2, <1>6 DEF IdentityInv

LEMMA CheckerOfId == IdentityInv => CheckerIs
BY DEF IdentityInv, CheckInv, CheckerIs

(* What stays of the shards that were looked at before.                    *)
LEMMA EarlierStay ==
  ASSUME IdentityInv, DiskInv, DiskStep, NEW cmd \in {"seal", "full"}, Checking(cmd),
         NEW rows, rows = check.rows, NEW k \in Nat, k = check.s,
         NEW longer, \A u \in Nat : 1 <= u /\ u < k => longer[u] = rows[u]
  PROVE  \A s \in Shards : s < k => Sealed(longer[s], s)'
<1>1. check # Idle /\ check.cmd # "fast"
  BY Looking
<1>2. \A s \in Shards : s < k => Sealed(rows[s], s)'
  BY <1>1, CheckedStay
<1>3. \A s \in Shards : s \in Nat /\ 1 <= s
  BY ShardsAre
<1>4. ASSUME NEW s \in Shards, s < k PROVE Sealed(longer[s], s)'
  <2>1. longer[s] = rows[s]
    BY <1>3, <1>4
  <2> QED BY <1>2, <1>4, <2>1
<1> QED BY <1>4

LEMMA OnlyCheck ==
  ASSUME IdentityInv, DiskInv, DiskStep, UNCHANGED <<seal, admitted>>, CheckInv'
  PROVE  IdentityInv'
<1>1. SealInv'
  BY SealsStay DEF IdentityInv, SealInv
<1>2. AdmitInv'
  BY DEF IdentityInv, AdmitInv, AdmittedIsPinned
<1> QED BY <1>1, <1>2 DEF IdentityInv

LEMMA SealShardId ==
  ASSUME IdentityInv, HomeInv, BaseInv, SealShard PROVE IdentityInv'
<1>1. PICK n, s, k : n = check.n /\ s = check.s /\ k = s + 1
  OBVIOUS
<1>2. Checking("seal")
  BY DEF SealShard
<1>3. /\ check = [cmd |-> "seal", n |-> n, s |-> s, statted |-> check.statted,
                  seal |-> check.seal, rows |-> check.rows]
      /\ n \in Nodes /\ s \in Shards /\ check.statted = FALSE
      /\ Len(check.rows) = s - 1 /\ check.rows \in Seq(SealRows)
      /\ n = Origin => validation[Origin] # NoReceipt
  BY <1>1, <1>2, Looking
<1>4. /\ DiskStep /\ disk' = disk /\ syncs' = syncs /\ disk[n][s].mtime < clock'
  BY <1>1, CheckerOfId, LooksStep
<1>5. PICK row : row = [stat |-> Stat(n, s), sha |-> Pinned(s),
                        blind |-> n = Replica \/ s \in touched]
  OBVIOUS
<1>6. PICK rows \in Seq(SealRows) : rows = check.rows
  BY <1>3
<1>7. PICK longer : longer = Append(rows, row)
  OBVIOUS
<1>8. /\ UNCHANGED <<seal, admitted, validation>>
      /\ check' = [check EXCEPT !.s = k, !.rows = longer, !.statted = FALSE]
  <2>1. check' = [check EXCEPT !.s = @ + 1, !.rows = Append(@, row), !.statted = FALSE]
    BY <1>1, <1>5 DEF SealShard, RowDone, StatIs
  <2>2. UNCHANGED <<seal, admitted, validation>>
    BY DEF SealShard
  <2>3. [check EXCEPT !.s = @ + 1, !.rows = Append(@, row), !.statted = FALSE]
          = [check EXCEPT !.s = k, !.rows = longer, !.statted = FALSE]
    BY <1>1, <1>6, <1>7
  <2> QED BY <2>1, <2>2, <2>3
<1>9. PICK x : /\ x = check.seal
              /\ check' = [cmd |-> "seal", n |-> n, s |-> k, statted |-> FALSE, seal |-> x,
                           rows |-> longer]
  <2>1. PICK x, b : x = check.seal /\ b = check.statted
    OBVIOUS
  <2>2. check = [cmd |-> "seal", n |-> n, s |-> s, statted |-> b, seal |-> x, rows |-> rows]
    BY <1>3, <1>6, <2>1
  <2>3. check' = [cmd |-> "seal", n |-> n, s |-> k, statted |-> FALSE, seal |-> x,
                  rows |-> longer]
    BY <1>8, <2>2
  <2> QED BY <2>1, <2>3
<1>10. Pinned(s) \in Seq(Cells)
  BY <1>3, ShardFacts
<1>11. PICK blind \in BOOLEAN : blind = (n = Replica \/ s \in touched)
  OBVIOUS
<1>12. row = [stat |-> Stat(n, s), sha |-> Pinned(s), blind |-> blind]
  BY <1>5, <1>11
<1>13. row \in SealRows /\ Stamped(row)' /\ row.stat = Stat(n, s) /\ row.blind = blind
  <2>1. row \in SealRows /\ Stamped(row)'
    BY <1>3, <1>4, <1>10, <1>12, StatIsStamped DEF BaseInv
  <2> QED BY <1>12, <2>1
<1>14. Holds(row, s)'
  <2>1. CASE blind
    BY <1>13, <2>1 DEF Holds
  <2>2. CASE ~blind
    <3>1. n = Origin /\ s \notin touched
      BY <1>3, <1>11, <2>2 DEF Nodes
    <3>2. File(s) = Pinned(s)
      BY <1>3, <3>1 DEF HomeInv, ValidatedInv
    <3>3. ASSUME NEW m \in Nodes, Stat(m, s)' = row.stat PROVE disk'[m][s].data = Pinned(s)
      <4>1. <<m, Len(disk'[m][s].data), disk'[m][s].ino, disk'[m][s].mtime>>
              = <<n, Len(disk[n][s].data), disk[n][s].ino, disk[n][s].mtime>>
        BY <1>13, <3>3 DEF Stat
      <4>2. m = Origin
        BY <3>1, <4>1
      <4> QED BY <1>4, <3>2, <4>2 DEF File
    <3> QED BY <3>3 DEF Holds
  <2> QED BY <2>1, <2>2
<1>15. k \in 1..Len(Sizes) + 1 /\ s \in Nat \ {0} /\ k = s + 1
  BY <1>1, <1>3, ShardsAre
<1>16. /\ longer \in Seq(SealRows) /\ Len(longer) = s /\ longer[s] = row
       /\ \A u \in Nat : 1 <= u /\ u < s => longer[u] = rows[u]
  BY <1>3, <1>6, <1>7, <1>13, <1>15, RowAppended
<1>17. \A u \in Shards : u < s => Sealed(longer[u], u)'
  BY <1>1, <1>2, <1>4, <1>6, <1>15, <1>16, EarlierStay DEF BaseInv
<1>18. ASSUME NEW u \in Shards, u < k PROVE Sealed(longer[u], u)'
  <2>1. u < s \/ u = s
    BY <1>15, <1>18, ShardsAre
  <2>2. CASE u = s
    BY <1>13, <1>14, <1>16, <2>2 DEF Sealed
  <2> QED BY <1>17, <2>1, <2>2
<1>19. Len(longer) = k - 1
  BY <1>15, <1>16
<1>20. /\ check'.cmd = "seal" /\ check'.n = n /\ check'.s = k /\ check'.statted = FALSE
       /\ check'.seal = x /\ check'.rows = longer
  BY <1>9
<1>21. \A u \in Shards : u < k => Sealed(check.rows[u], u)'
  BY <1>18, <1>20 DEF Sealed, Stamped, Holds
<1>22. CheckInv'
  <2>1. check' = [cmd |-> check'.cmd, n |-> check'.n, s |-> check'.s,
                  statted |-> check'.statted, seal |-> check'.seal, rows |-> check'.rows]
    BY <1>9
  <2>2. Len(check'.rows) = check'.s - 1 /\ check'.rows \in Seq(SealRows)
    BY <1>16, <1>19, <1>20
  <2>3. check'.cmd = "seal" /\ check'.n = Origin => validation'[Origin] # NoReceipt
    BY <1>3, <1>8, <1>20
  <2>4. check'.s \in 1..Len(Sizes) + 1 /\ check'.n \in Nodes
    BY <1>3, <1>15, <1>20
  <2>5. \A u \in Shards : u < check'.s => Sealed(check.rows[u], u)'
    BY <1>20, <1>21
  <2> QED BY <1>20, <2>1, <2>2, <2>3, <2>4, <2>5 DEF CheckInv
<1> QED BY <1>4, <1>8, <1>22, OnlyCheck DEF BaseInv

LEMMA StatShardId ==
  ASSUME IdentityInv, BaseInv, StatShard PROVE IdentityInv'
<1>1. PICK n, s, x : n = check.n /\ s = check.s /\ x = check.seal
  OBVIOUS
<1>2. Checking("full") /\ ~check.statted
  BY DEF StatShard
<1>3. /\ check = [cmd |-> "full", n |-> n, s |-> s, statted |-> FALSE, seal |-> x,
                  rows |-> check.rows]
      /\ n \in Nodes /\ s \in Shards
      /\ Len(check.rows) = s - 1 /\ check.rows \in Seq(SealRows)
  <2>1. /\ check = [cmd |-> "full", n |-> check.n, s |-> check.s, statted |-> check.statted,
                    seal |-> check.seal, rows |-> check.rows]
        /\ check.n \in Nodes /\ check.s \in Shards /\ check.statted \in BOOLEAN
        /\ Len(check.rows) = IF check.statted THEN check.s ELSE check.s - 1
        /\ check.rows \in Seq(SealRows)
    BY <1>2, Looking
  <2>2. check.statted = FALSE
    BY <1>2, <2>1
  <2> QED BY <1>1, <2>1, <2>2
<1>4. /\ DiskStep /\ disk' = disk /\ syncs' = syncs /\ disk[n][s].mtime < clock'
  BY <1>1, CheckerOfId, LooksStep
<1>5. PICK row : row = [stat |-> Stat(n, s), sha |-> Pinned(s), blind |-> FALSE]
  OBVIOUS
<1>6. PICK rows \in Seq(SealRows) : rows = check.rows
  BY <1>3
<1>7. PICK longer : longer = Append(rows, row)
  OBVIOUS
<1>8. /\ UNCHANGED <<seal, admitted, validation>>
      /\ check' = [check EXCEPT !.statted = TRUE, !.rows = longer]
  <2>1. check' = [check EXCEPT !.statted = TRUE, !.rows = Append(@, row)]
    BY <1>1, <1>5 DEF StatShard, StatIs
  <2>2. UNCHANGED <<seal, admitted, validation>>
    BY DEF StatShard
  <2>3. [check EXCEPT !.statted = TRUE, !.rows = Append(@, row)]
          = [check EXCEPT !.statted = TRUE, !.rows = longer]
    BY <1>6, <1>7
  <2> QED BY <2>1, <2>2, <2>3
<1>9. check' = [cmd |-> "full", n |-> n, s |-> s, statted |-> TRUE, seal |-> x,
                rows |-> longer]
  <2>1. check = [cmd |-> "full", n |-> n, s |-> s, statted |-> FALSE, seal |-> x, rows |-> rows]
    BY <1>3, <1>6
  <2> QED BY <1>8, <2>1
<1>10. Pinned(s) \in Seq(Cells)
  BY <1>3, ShardFacts
<1>11. PICK blind \in BOOLEAN : blind = FALSE
  OBVIOUS
<1>12. row = [stat |-> Stat(n, s), sha |-> Pinned(s), blind |-> blind]
  BY <1>5, <1>11
<1>13. row \in SealRows /\ Stamped(row)' /\ row.stat[1] = n
  BY <1>3, <1>4, <1>10, <1>12, StatIsStamped DEF BaseInv
<1>14. s \in 1..Len(Sizes) + 1 /\ s \in Nat \ {0}
  BY <1>1, <1>3, ShardsAre
<1>15. /\ longer \in Seq(SealRows) /\ Len(longer) = s /\ longer[s] = row
       /\ \A u \in Nat : 1 <= u /\ u < s => longer[u] = rows[u]
  BY <1>3, <1>6, <1>7, <1>13, <1>14, RowAppended
<1>16. \A u \in Shards : u < s => Sealed(longer[u], u)'
  BY <1>1, <1>2, <1>4, <1>6, <1>14, <1>15, EarlierStay DEF BaseInv
<1>17. /\ check'.cmd = "full" /\ check'.n = n /\ check'.s = s /\ check'.statted = TRUE
       /\ check'.seal = x /\ check'.rows = longer
  BY <1>9
<1>18. \A u \in Shards : u < s => Sealed(check.rows[u], u)'
  BY <1>16, <1>17 DEF Sealed, Stamped, Holds
<1>19. Stamped(check.rows[check.s])' /\ check'.rows[check'.s].stat[1] = check'.n
  BY <1>13, <1>15, <1>17 DEF Stamped
<1>20. CheckInv'
  <2>1. check' = [cmd |-> check'.cmd, n |-> check'.n, s |-> check'.s,
                  statted |-> check'.statted, seal |-> check'.seal, rows |-> check'.rows]
    BY <1>9
  <2>2. Len(check'.rows) = check'.s /\ check'.rows \in Seq(SealRows)
    BY <1>15, <1>17
  <2>3. check'.s \in 1..Len(Sizes) + 1 /\ check'.n \in Nodes /\ check'.s \in Shards
    BY <1>3, <1>14, <1>17
  <2>4. \A u \in Shards : u < check'.s => Sealed(check.rows[u], u)'
    BY <1>17, <1>18
  <2> QED BY <1>17, <1>19, <2>1, <2>2, <2>3, <2>4 DEF CheckInv
<1> QED BY <1>4, <1>8, <1>20, OnlyCheck DEF BaseInv

LEMMA ReadShardId ==
  ASSUME IdentityInv, BaseInv, ReadShard PROVE IdentityInv'
<1>1. PICK n, s, k, x, rows : n = check.n /\ s = check.s /\ k = s + 1 /\ x = check.seal
                              /\ rows = check.rows
  OBVIOUS
<1>2. Checking("full") /\ check.statted
  BY DEF ReadShard
<1>3. /\ check = [cmd |-> "full", n |-> n, s |-> s, statted |-> check.statted, seal |-> x,
                  rows |-> rows]
      /\ n \in Nodes /\ s \in Shards /\ check # Idle /\ check.cmd = "full"
      /\ Len(rows) = s /\ rows \in Seq(SealRows) /\ rows[s].stat[1] = n
  BY <1>1, <1>2, Looking
<1>4. disk' = disk /\ clock' = clock /\ syncs' = syncs /\ DiskStep
  BY DiskSame DEF ReadShard, bounds, BaseInv, DiskInv
<1>5. /\ UNCHANGED <<seal, admitted, validation>> /\ disk[n][s].data = Pinned(s)
      /\ check' = [check EXCEPT !.s = k, !.statted = FALSE]
  BY <1>1 DEF ReadShard
<1>6. check' = [cmd |-> "full", n |-> n, s |-> k, statted |-> FALSE, seal |-> x, rows |-> rows]
  <2>1. PICK b : b = check.statted
    OBVIOUS
  <2>2. check = [cmd |-> "full", n |-> n, s |-> s, statted |-> b, seal |-> x, rows |-> rows]
    BY <1>3, <2>1
  <2> QED BY <1>5, <2>2
<1>7. /\ \A u \in Shards : u < s => Sealed(rows[u], u)'
      /\ Stamped(rows[s])'
  BY <1>1, <1>2, <1>3, <1>4, CheckedStay DEF BaseInv
<1>8. Holds(rows[s], s)'
  <2>1. ASSUME NEW m \in Nodes, Stat(m, s)' = rows[s].stat PROVE disk'[m][s].data = Pinned(s)
    <3>1. <<m, Len(disk'[m][s].data), disk'[m][s].ino, disk'[m][s].mtime>> = rows[s].stat
      BY <2>1 DEF Stat
    <3>2. m = n
      BY <1>3, <3>1
    <3> QED BY <1>4, <1>5, <3>2
  <2> QED BY <2>1 DEF Holds
<1>9. k \in 1..Len(Sizes) + 1 /\ s \in Nat \ {0} /\ k = s + 1
  BY <1>1, <1>3, ShardsAre
<1>10. ASSUME NEW u \in Shards, u < k PROVE Sealed(rows[u], u)'
  <2>1. u < s \/ u = s
    BY <1>9, <1>10, ShardsAre
  <2>2. CASE u = s
    BY <1>7, <1>8, <2>2 DEF Sealed
  <2> QED BY <1>7, <2>1, <2>2
<1>11. /\ check'.cmd = "full" /\ check'.n = n /\ check'.s = k /\ check'.statted = FALSE
       /\ check'.seal = x /\ check'.rows = rows
  BY <1>6
<1>12. \A u \in Shards : u < k => Sealed(check.rows[u], u)'
  BY <1>10, <1>11 DEF Sealed, Stamped, Holds
<1>13. CheckInv'
  <2>1. check' = [cmd |-> check'.cmd, n |-> check'.n, s |-> check'.s,
                  statted |-> check'.statted, seal |-> check'.seal, rows |-> check'.rows]
    BY <1>6
  <2>2. Len(check'.rows) = check'.s - 1 /\ check'.rows \in Seq(SealRows)
    BY <1>3, <1>9, <1>11
  <2>3. check'.s \in 1..Len(Sizes) + 1 /\ check'.n \in Nodes
    BY <1>3, <1>9, <1>11
  <2>4. \A u \in Shards : u < check'.s => Sealed(check.rows[u], u)'
    BY <1>11, <1>12
  <2> QED BY <1>11, <2>1, <2>2, <2>3, <2>4 DEF CheckInv
<1> QED BY <1>4, <1>5, <1>13, OnlyCheck DEF BaseInv

(* A file with the fingerprint of a seal has what the seal stands for.     *)
LEMMA CompareShardId ==
  ASSUME IdentityInv, BaseInv, CompareShard PROVE IdentityInv'
<1>1. PICK n, s, k, x : n = check.n /\ s = check.s /\ k = s + 1 /\ x = check.seal
  OBVIOUS
<1>2. Checking("fast")
  BY DEF CompareShard
<1>3. /\ check = [cmd |-> "fast", n |-> n, s |-> s, statted |-> check.statted, seal |-> x,
                  rows |-> check.rows]
      /\ n \in Nodes /\ s \in Shards /\ check.statted = FALSE /\ check # Idle
      /\ Len(check.rows) = s - 1 /\ check.rows \in Seq(FastRows)
      /\ Seals(x) /\ \A u \in Shards : u < s => Found(check.rows, u)
  BY <1>1, <1>2, Looking
<1>4. /\ DiskStep /\ disk' = disk
  BY <1>1, CheckerOfId, LooksStep
<1>5. PICK rows \in Seq(FastRows) : rows = check.rows
  BY <1>3
<1>6. PICK old \in SealRows : old = x[s] /\ Sealed(old, s)
  BY <1>3, RowOf, ShardsAre DEF Seals
<1>7. PICK file \in Contents : file = disk[n][s]
  BY <1>3, FilesAre DEF BaseInv
<1>8. PICK row : row = [data |-> file.data, blind |-> old.blind]
  OBVIOUS
<1>9. row \in FastRows /\ row.data = file.data /\ row.blind = old.blind
  BY <1>8 DEF FastRows, SealRows, Contents
<1>10. row.data = Pinned(s) \/ row.blind
  <2>1. Stat(n, s) = old.stat
    BY <1>1, <1>6 DEF CompareShard, Unchanged
  <2> QED BY <1>3, <1>6, <1>7, <1>9, <2>1 DEF Sealed, Holds
<1>11. PICK longer : longer = Append(rows, row)
  OBVIOUS
<1>12. /\ UNCHANGED <<seal, admitted, validation>>
       /\ check' = [check EXCEPT !.s = k, !.rows = longer, !.statted = FALSE]
  <2>1. check' = [check EXCEPT !.s = @ + 1, !.rows = Append(@, row), !.statted = FALSE]
    BY <1>1, <1>6, <1>7, <1>8 DEF CompareShard, RowDone
  <2>2. UNCHANGED <<seal, admitted, validation>>
    BY DEF CompareShard
  <2>3. [check EXCEPT !.s = @ + 1, !.rows = Append(@, row), !.statted = FALSE]
          = [check EXCEPT !.s = k, !.rows = longer, !.statted = FALSE]
    BY <1>1, <1>5, <1>11
  <2> QED BY <2>1, <2>2, <2>3
<1>13. check' = [cmd |-> "fast", n |-> n, s |-> k, statted |-> FALSE, seal |-> x,
                 rows |-> longer]
  <2>1. PICK b : b = check.statted
    OBVIOUS
  <2>2. check = [cmd |-> "fast", n |-> n, s |-> s, statted |-> b, seal |-> x, rows |-> rows]
    BY <1>3, <1>5, <2>1
  <2> QED BY <1>12, <2>2
<1>14. k \in 1..Len(Sizes) + 1 /\ s \in Nat \ {0} /\ k = s + 1
  BY <1>1, <1>3, ShardsAre
<1>15. /\ longer \in Seq(FastRows) /\ Len(longer) = s /\ longer[s] = row
       /\ \A u \in Nat : 1 <= u /\ u < s => longer[u] = rows[u]
  BY <1>3, <1>5, <1>9, <1>11, <1>14, RowAppended
<1>16. ASSUME NEW u \in Shards, u < k PROVE Found(longer, u)
  <2>1. (u < s \/ u = s) /\ u \in Nat /\ 1 <= u
    BY <1>14, <1>16, ShardsAre
  <2>2. CASE u = s
    BY <1>10, <1>15, <2>2 DEF Found
  <2>3. CASE u < s
    <3>1. Found(rows, u)
      BY <1>3, <1>5, <2>3
    <3>2. longer[u] = rows[u]
      BY <1>15, <2>1, <2>3
    <3> QED BY <3>1, <3>2 DEF Found
  <2> QED BY <2>1, <2>2, <2>3
<1>17. Seals(x)'
  BY <1>3, <1>4, SealsStay DEF BaseInv
<1>18. /\ check'.cmd = "fast" /\ check'.n = n /\ check'.s = k /\ check'.statted = FALSE
       /\ check'.seal = x /\ check'.rows = longer
  BY <1>13
<1>19. Seals(check.seal)'
  BY <1>17, <1>18 DEF Seals
<1>20. CheckInv'
  <2>1. check' = [cmd |-> check'.cmd, n |-> check'.n, s |-> check'.s,
                  statted |-> check'.statted, seal |-> check'.seal, rows |-> check'.rows]
    BY <1>13
  <2>2. Len(check'.rows) = check'.s - 1 /\ check'.rows \in Seq(FastRows)
    BY <1>14, <1>15, <1>18
  <2>3. check'.s \in 1..Len(Sizes) + 1 /\ check'.n \in Nodes
    BY <1>3, <1>14, <1>18
  <2>4. \A u \in Shards : u < check'.s => Found(check'.rows, u)
    BY <1>16, <1>18
  <2> QED BY <1>18, <1>19, <2>1, <2>2, <2>3, <2>4 DEF CheckInv, Found
<1> QED BY <1>4, <1>12, <1>20, OnlyCheck DEF BaseInv

LEMMA FinishCheckId ==
  ASSUME IdentityInv, BaseInv, FinishCheck PROVE IdentityInv'
<1>1. PICK n, s, x, rows : n = check.n /\ s = check.s /\ x = check.seal /\ rows = check.rows
  OBVIOUS
<1>2. /\ check # Idle /\ s \notin Shards /\ check' = Idle /\ UNCHANGED validation
      /\ check.cmd = "fast" =>
           admitted' = [admitted EXCEPT ![n] = rows] /\ UNCHANGED seal
      /\ check.cmd # "fast" =>
           seal' = [seal EXCEPT ![n] = rows] /\ UNCHANGED admitted
  BY <1>1 DEF FinishCheck
<1>3. /\ check.cmd \in {"seal", "full", "fast"} /\ n \in Nodes
      /\ s \in 1..Len(Sizes) + 1 /\ (check.statted => s \in Shards)
      /\ Len(rows) = IF check.statted THEN s ELSE s - 1
      /\ check.cmd = "fast" => \A u \in Shards : u < s => Found(rows, u)
      /\ check.cmd # "fast" => rows \in Seq(SealRows)
  BY <1>1, <1>2 DEF IdentityInv, CheckInv
<1>4. disk' = disk /\ clock' = clock /\ syncs' = syncs /\ DiskStep
  BY DiskSame DEF FinishCheck, bounds, BaseInv, DiskInv
<1>5. /\ \A u \in Shards : u < s
      /\ Len(rows) = Len(Sizes)
  BY <1>2, <1>3, ShardsAre
<1>6. CheckInv'
  BY <1>2 DEF CheckInv
<1>7. CASE check.cmd = "fast"
  <2>1. SealInv'
    BY <1>2, <1>4, <1>7, SealsStay DEF IdentityInv, SealInv, BaseInv
  <2>2. DOMAIN admitted' = Nodes /\ \A m \in Nodes : admitted'[m] = IF m = n THEN rows ELSE admitted[m]
    BY <1>2, <1>3, <1>7 DEF IdentityInv, AdmitInv
  <2>3. AdmitInv'
    BY <1>3, <1>5, <1>7, <2>2 DEF IdentityInv, AdmitInv, AdmittedIsPinned, Found
  <2> QED BY <1>6, <2>1, <2>3 DEF IdentityInv
<1>8. CASE check.cmd # "fast"
  <2>1. AdmitInv'
    BY <1>2, <1>8 DEF IdentityInv, AdmitInv, AdmittedIsPinned
  <2>2. \A u \in Shards : u < s => Sealed(rows[u], u)'
    BY <1>1, <1>2, <1>4, <1>8, CheckedStay DEF BaseInv
  <2>3. Seals(rows)'
    BY <1>3, <1>5, <1>8, <2>2 DEF Seals
  <2>4. DOMAIN seal' = Nodes /\ \A m \in Nodes : seal'[m] = IF m = n THEN rows ELSE seal[m]
    BY <1>2, <1>3, <1>8 DEF IdentityInv, SealInv
  <2>5. ASSUME NEW m \in Nodes, seal'[m] # NoReceipt PROVE Seals(seal[m])'
    <3>1. CASE m = n
      BY <2>3, <2>4, <3>1 DEF Seals
    <3>2. CASE m # n
      <4>1. PICK y : y = seal[m]
        OBVIOUS
      <4>2. seal'[m] = y
        BY <2>4, <3>2, <4>1
      <4>3. Seals(y)
        BY <2>5, <4>1, <4>2 DEF IdentityInv, SealInv
      <4>4. Seals(y)'
        BY <1>4, <4>3, SealsStay DEF BaseInv
      <4> QED BY <4>2, <4>4 DEF Seals
    <3> QED BY <3>1, <3>2
  <2> QED BY <1>6, <2>1, <2>4, <2>5 DEF IdentityInv, SealInv
<1> QED BY <1>7, <1>8

LEMMA SyncId ==
  ASSUME IdentityInv, BaseInv, Sync PROVE IdentityInv'
<1>1. DiskInv /\ DiskStep
  BY SyncIs DEF BaseInv
<1>2. /\ validation[Origin] # NoReceipt
      /\ validation' = [validation EXCEPT ![Replica] = validation[Origin]]
      /\ seal' = [seal EXCEPT ![Replica] = seal[Origin]]
      /\ UNCHANGED <<admitted, check>>
  BY DEF Sync
<1>3. DOMAIN seal' = Nodes /\ \A m \in Nodes : seal'[m] = seal[Origin] \/ seal'[m] = seal[m]
  BY <1>2 DEF IdentityInv, SealInv
<1>4. ASSUME NEW m \in Nodes, seal'[m] # NoReceipt PROVE Seals(seal[m])'
  <2>1. PICK y : y = seal'[m]
    OBVIOUS
  <2>2. Seals(y)
    BY <1>3, <1>4, <2>1 DEF IdentityInv, SealInv, Nodes
  <2>3. Seals(y)'
    BY <1>1, <2>2, SealsStay
  <2> QED BY <2>1, <2>3 DEF Seals
<1>5. SealInv'
  BY <1>3, <1>4 DEF SealInv
<1>6. AdmitInv'
  BY <1>2 DEF IdentityInv, AdmitInv, AdmittedIsPinned
<1>7. CheckInv'
  <2>1. validation'[Origin] = validation[Origin]
    BY <1>2 DEF Origin, Replica
  <2>2. CASE check = Idle
    BY <1>2, <2>2 DEF CheckInv
  <2>3. CASE check # Idle
    <3>1. PICK x, rows, k : x = check.seal /\ rows = check.rows /\ k = check.s
      OBVIOUS
    <3>2. /\ check.cmd = "fast" => Seals(x)'
          /\ check.cmd # "fast" => \A s \in Shards : s < k => Sealed(rows[s], s)'
          /\ check.cmd # "fast" /\ check.statted => Stamped(rows[k])'
      BY <1>1, <2>3, <3>1, CheckedStay
    <3>3. check.cmd = "fast" => Seals(check.seal)'
      BY <1>2, <3>1, <3>2 DEF Seals
    <3>4. check.cmd # "fast" => \A s \in Shards : s < check.s => Sealed(check.rows[s], s)'
      BY <1>2, <3>1, <3>2 DEF Sealed, Stamped, Holds
    <3>5. check.cmd # "fast" /\ check.statted => Stamped(check.rows[check.s])'
      BY <1>2, <3>1, <3>2 DEF Stamped
    <3> QED BY <1>2, <2>1, <2>3, <3>3, <3>4, <3>5 DEF IdentityInv, CheckInv
  <2> QED BY <2>2, <2>3
<1> QED BY <1>5, <1>6, <1>7 DEF IdentityInv

(* Whoever writes a validation receipt has digests in it.                  *)
LEMMA ReceiptStays ==
  ASSUME HomeInv, [Next]_vars, ~Sync
  PROVE  validation[Origin] # NoReceipt => validation'[Origin] # NoReceipt
<1>1. CASE FinishValidate
  <2>1. /\ validation' = [validation EXCEPT ![Origin] = job.sums]
        /\ job.cmd = "validate" /\ job.s \notin Shards
    BY <1>1 DEF FinishValidate, Validating
  <2>2. job.s \in 1..Len(Sizes) + 1 /\ Len(job.sums) = job.s - 1 /\ DOMAIN validation = Nodes
    BY <2>1 DEF HomeInv, ValidateInv, ValidatedInv
  <2>3. validation'[Origin] = job.sums
    BY <2>1, <2>2 DEF Nodes
  <2>4. Len(job.sums) # 0 /\ Len(<<>>) = 0
    BY <2>1, <2>2, ShardsAre
  <2> QED BY <2>3, <2>4 DEF NoReceipt
<1>2. CASE ~FinishValidate
  <2>1. validation' = validation
    BY <1>2 DEF Next, BuildManifest, JobDies, CheckDies, StartDownload, FetchRange,
       RangeComplete, StartPrepare, CopyChunk, ShardCopied, FinishPrepare, StartRepair,
       WriteRows, TensorRepaired, StartValidate, CompareTensor, HashShard, StartCheck,
       SealShard, StatShard, ReadShard, CompareShard, FinishCheck, Edit, vars
  <2> QED BY <2>1
<1> QED BY <1>1, <1>2

LEMMA IdentityKeeps ==
  ASSUME IdentityInv, HomeInv, BaseInv, [Next]_vars PROVE IdentityInv'
<1>1. DiskInv /\ DiskStep
  BY CheckerOfId, DiskSteps DEF BaseInv
<1>2. CASE \/ SealShard \/ StatShard \/ ReadShard \/ CompareShard \/ FinishCheck \/ Sync
  BY <1>2, SealShardId, StatShardId, ReadShardId, CompareShardId, FinishCheckId, SyncId
<1>3. CASE \E n \in Nodes, cmd \in {"seal", "full", "fast"} : StartCheck(n, cmd)
  BY <1>1, <1>3, StartCheckId
<1>4. CASE \/ BuildManifest \/ JobDies \/ CheckDies \/ StartDownload \/ FetchRange
           \/ RangeComplete \/ StartPrepare \/ CopyChunk \/ ShardCopied \/ FinishPrepare
           \/ StartRepair \/ WriteRows \/ TensorRepaired \/ StartValidate \/ CompareTensor
           \/ HashShard \/ FinishValidate \/ UNCHANGED vars
           \/ \E n \in Nodes, s \in Shards : Edit(n, s)
  <2>1. /\ UNCHANGED <<seal, admitted>>
        /\ check' = check \/ check' = Idle
    BY <1>4 DEF BuildManifest, JobDies, CheckDies, StartDownload, FetchRange,
       RangeComplete, StartPrepare, CopyChunk, ShardCopied, FinishPrepare, StartRepair,
       WriteRows, TensorRepaired, StartValidate, CompareTensor, HashShard, FinishValidate,
       Edit, vars, identity
  <2>2. CASE Sync
    BY <2>2, SyncId
  <2>3. CASE ~Sync
    BY <1>1, <2>1, <2>3, ReceiptStays, IdentityFrame
  <2> QED BY <2>2, <2>3
<1> QED BY <1>2, <1>3, <1>4 DEF Next

-----------------------------------------------------------------------------
(* The inductive invariant of the whole module.                            *)
ArtifactInv == BaseInv /\ HomeInv /\ IdentityInv

LEMMA ArtifactInit == Init => ArtifactInv
<1> SUFFICES ASSUME Init PROVE ArtifactInv
  OBVIOUS
<1>1. CacheInv
  BY InitHolds
<1>2. NoFile \in Contents /\ NoFile.mtime = 0 /\ NoFile.ino = 0 /\ NoFile.data = <<>>
  <2>1. <<>> \in Seq(Cells)
    OBVIOUS
  <2> QED BY <2>1 DEF NoFile, Contents
<1>3. \A n \in Nodes, s \in Shards : disk[n][s] = NoFile
  BY DEF Init
<1>4. disk \in [Nodes -> [Shards -> Contents]]
  BY <1>2 DEF Init
<1>5. DiskInv
  BY <1>2, <1>3, <1>4 DEF Init, DiskInv, Nodes
<1>6. /\ job.cmd = "idle" /\ precopy = <<>> /\ repaired = <<>>
      /\ DOMAIN validation = Nodes /\ validation[Origin] = <<>>
  BY DEF Init, Idle, NoReceipt, Nodes
<1>7. FreshInv
  BY <1>2, <1>3, <1>6 DEF FreshInv, File, IsThere, NoReceipt, Nodes
<1>8. CopiedInv
  BY <1>6 DEF CopiedInv, Digests, WholeIn
<1>9. PrepareInv /\ RepairInv /\ ValidateInv
  BY <1>6 DEF PrepareInv, RepairInv, ValidateInv, NoReceipt
<1>10. ValidatedInv
  BY <1>6 DEF ValidatedInv, NoReceipt
<1>11. IdentityInv
  BY DEF Init, IdentityInv, SealInv, CheckInv, AdmitInv, AdmittedIsPinned
<1> QED BY <1>1, <1>5, <1>6, <1>7, <1>8, <1>9, <1>10, <1>11 DEF ArtifactInv, BaseInv, HomeInv

(* ArtifactInv is an invariant, whichever commands run on whichever node   *)
(* in whatever order, die anywhere and are started again.                  *)
THEOREM ArtifactInvariant == Spec => []ArtifactInv
<1>1. ArtifactInv /\ [Next]_vars => ArtifactInv'
  <2> SUFFICES ASSUME ArtifactInv, [Next]_vars PROVE ArtifactInv'
    OBVIOUS
  <2>1. CheckerIs
    BY CheckerOfId DEF ArtifactInv
  <2>2. BaseInv'
    BY <2>1, CacheKeeps, DiskSteps, DiskKeeps DEF ArtifactInv, BaseInv
  <2>3. HomeInv'
    BY <2>2, HomeKeeps DEF ArtifactInv
  <2>4. IdentityInv'
    BY IdentityKeeps DEF ArtifactInv
  <2> QED BY <2>2, <2>3, <2>4 DEF ArtifactInv
<1> QED BY ArtifactInit, <1>1, PTL DEF Spec

(* ValidatedIsRepaired: a validation receipt stands for shards that are    *)
(* the original outside the patched tensors and correctly converted inside *)
(* them, unless someone else wrote into the shard while or after it was    *)
(* validated.                                                              *)
THEOREM ValidatedStaysRepaired == Spec => []ValidatedIsRepaired
<1>1. ArtifactInv => ValidatedIsRepaired
  BY DEF ArtifactInv, HomeInv, ValidatedInv, ValidatedIsRepaired, Original0
<1> QED BY <1>1, ArtifactInvariant, PTL

(* AdmittedIsPinned: whatever PASS of verify_fast admitted a model load,   *)
(* the shards it looked at held the pinned bytes, but for a seal that took *)
(* the digest of the validation without a look at the file.                *)
THEOREM AdmittedStaysPinned == Spec => []AdmittedIsPinned
<1>1. ArtifactInv => AdmittedIsPinned
  BY DEF ArtifactInv, IdentityInv, AdmitInv
<1> QED BY <1>1, ArtifactInvariant, PTL
=============================================================================
