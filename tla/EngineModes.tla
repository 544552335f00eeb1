---------------------------- MODULE EngineModes ----------------------------
(***************************************************************************)
(* runtime/ds41/launch-node.sh starts a node in one of two modes: offline, *)
(* here with the small-block gate as its program, or api, the server with  *)
(* the captures its environment asks for.  DS41_RUN_MODE stays what it is  *)
(* for as long as the unit lives, and nothing of one mode is run in the    *)
(* other.  Either reads its sparse table in the same way, which touches    *)
(* nothing of the rest: that reader is looked at by itself.                *)
(***************************************************************************)
EXTENDS BlockVerify

CONSTANTS Lengths, PromptTokens, MinTokens, Budget, Wide, Layers, Selected, Full,
          MaxCompleted, EmitCap, MaxSampled, MaxOut, MaxIssued, MaxLaunches,
          Table, MaxRows, ReadWorkers, MinParallel, Regions,
          MaxIds, MaxLookups, MaxServed

VARIABLES mode, \* DS41_RUN_MODE, or the table of a rank in either
          launch, issued, req, gone, repeat, trace, route, profile, kv, files,
          kind, at, served, disk, source, cache, call, obs, asked, report

\* No prompt is empty, and a step that is scheduled computes something.
ASSUME CaptureAssumption ==
  /\ Lengths \subseteq Nat \ {0} /\ {Budget, MaxSampled} \subseteq Nat \ {0}
  /\ {PromptTokens, MinTokens, Wide, Layers, MaxCompleted, EmitCap} \subseteq Nat
  /\ Selected \subseteq Nat /\ Full \in BOOLEAN

\* What AffineRowLRU.__init__ refuses: a negative bound, no thread, no row.
ASSUME TableAssumption ==
  Table \subseteq Nat /\ {MaxRows, MaxIds} \subseteq Nat /\ {ReadWorkers, MinParallel} \subseteq Nat \ {0}

C == INSTANCE Captures
R == INSTANCE EngramReader

apiVars == <<launch, issued, req, gone, repeat, trace, route, profile, kv, files>>
tableVars == <<kind, at, served, disk, source, cache, call, obs, asked, report>>

\* The server does not read the configuration of the gate: one stands for all.
Unread == ~config.state_only /\ ~config.rowwise /\ \A r \in Ranks : switch[r] = "unset"

StartNode ==
    /\ mode \in {"offline", "api", "table"}
    /\ Init /\ C!Init /\ R!Init
    /\ mode # "offline" => Unread
    /\ mode # "table" => kind = "fault"

Offline == mode = "offline" /\ Next /\ UNCHANGED <<mode, apiVars, tableVars>>
Api == mode = "api" /\ C!Next /\ UNCHANGED <<mode, vars, tableVars>>
ReadsTable == mode = "table" /\ R!Next /\ UNCHANGED <<mode, vars, apiVars>>

RunNode == StartNode /\ [][Offline \/ Api \/ ReadsTable]_<<mode, vars, apiVars, tableVars>>

\* What the readers of the captures rely on, defined in Captures: a compared
\* record is a whole prompt of the request it names.
ComparedAreWhole == C!ComparedAreWhole

\* The fixtures an engine called COMPLETE are all of one request.
FixturesAreOneRequest == C!FixturesAreOneRequest

\* A one-shot capture is one request's whole prefill.
OneShotIsWhole == C!OneShotIsWhole

\* A decode trace is a gapless prefix of one request.
TraceFollowsRequest == C!TraceFollowsRequest

\* Defined in EngramReader: a lookup answers with the rows it was asked for,
\* and fails only when its batch is larger than the cache.
AnswersAreTheTable == R!AnswersAreTheTable

\* What is recorded of an madvise, or of its rollback, is what the kernel does.
AdviceIsHonest == R!AdviceIsHonest

\* The rows that the threads of a request counted are those its cache counted.
ReadsAddUp == R!ReadsAddUp
=============================================================================
