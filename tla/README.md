# A TLA+ development of StrixGLM / HaloClu

StrixHaloMimo26 serves large models on a pair of machines that compute every
inference together (tensor parallelism over two ranks) and puts a Go program in
front of them: a paired backend, a controller for the two engines, and a gateway
with chat, conversations, protected workspaces, agent tasks, operations and
downloads.  Around that stand Python programs that make the model which is
served, measure the engine and decide what may become a product: the repaired
artifact and its identity, the offline suite, the small-block gate, the captures
inside the engine, the reader of its sparse table, and the qualification
runners.  This directory holds TLA+
modules of the parts whose correctness depends on the order of events, TLC
configurations that check them on small instances, and TLAPS proofs for every
instance.

All paths below are relative to the repository; `app/` is `internal/app/` and
`ds41/` is `runtime/ds41/`.

## 1. Inventory

| Component | Source | State it keeps | Operations | Talks to |
|---|---|---|---|---|
| Paired coordinator | `app/paired.go`, `app/cli_extra.go` | `busy`, `poison`, `closing`, `idle`; per job `detached`, `clientSlow`, `err`, `frames`; `pair-poison.json` | admit, run, drain, fail, Shutdown, Health, ServeHTTP | engines over HTTP; controller through `pair.lock` and the marker |
| Cluster controller | `app/controller.go` | `pair-owner.json`, two systemd user units | start, stop, restart, verify, status, legacy snapshot / stop / restore | systemd here and over ssh; engines' `/health`; coordinator through `pair.lock` and the marker |
| Gateway model admission | `app/model.go`, `main.go`, `options.go`, `context.go`, `lifecycle.go` | one admission slot, legacy `pair.lock`, lifecycle action | modelLock, generate, proxy chat, on / off | coordinator over HTTP; legacy coder and controller by flock |
| Pi workspace session | `app/workspaces.go`, `workspace_protection.go`, `workspace_shell.go`, `workspace_process.go`, `workspace_bridge.go` | session state, operation mutex, pending RPCs, verification, the one active Pi | create, connect, start, prompt, abort, shell, verify, review, apply, close | a Pi child process over stdio; conversation store; agent apply |
| Conversation store | `app/conversations.go`, `conversations_workspace.go`, `chat_conversation.go` | one file per conversation, revision, active-use counter | create, update, append, handoff, recover, delete | chat proxy, workspace session, attachments |
| Model downloads | `app/download.go`, `download_network.go` | jobs, the active one, partial and final files | plan, start, pause, cancel, resume, recovery at boot | remote hosts, disk |
| Operations | `app/operations.go`, `catalog.go` | jobs, the active one, operations flock | start, cancel, run, recovery at boot, shutdown | agent tasks, model lock, catalog downloads |
| Agent tasks | `app/agent.go`, `validation.go`, `sandbox.go` | task status, repairs, output | submit, runTask, cancel, apply | model admission, sandbox, apply |
| Transactional apply | `app/apply.go` | receipt, backups, staged files | apply, rollback | the user's working tree |
| Settings, token, browser sessions | `app/settings.go`, `browser_auth.go` | settings, token, session receipt | update, rotate, create, authenticate, delete | every handler |
| Attachments | `app/attachments.go` | one directory per upload | upload, read, delete | conversation store |
| Repaired artifact and its identity | `scripts/ds41-densefix.py`, `scripts/validate-ds41-densefix.py`, `ds41/artifact_identity.py` | cached ranges and their receipts, the derived directory, four receipts, a seal on each node | download, prepare, repair, validate; seal, verify-full, verify-fast | a source host by HTTP ranges; `rsync` to the other node; whoever writes files |
| Offline suite and its validators | `ds41/offline_spmd.py`, `engram_advice_experiment.py`, `scripts/supervise-ds41-offline-attempt.sh`, `scripts/validate-ds41-*.py` | per rank: position in the program, switches and counters of a candidate kernel, results file | one program for each experiment; supervision; judgement of two files | the other rank by collectives; candidate kernels; the operator, who fetches a file |
| Small-block gate | `ds41/block_verify_runner.py`, `block_verify_experiment.py`, `scripts/validate-ds41-block-verify.py` | the observer patched into the engine, report, eligible widths | baseline, diagnostics, corrupted controls, measurements; judgement | the other rank by requests and reductions; the engine's sampler |
| Diagnostic captures | `ds41/kv_capture_once.py`, `prefill_profile_once.py`, `routed_fixture_capture.py`, `repeatability_diag.py`, `decode_repeat_diag.py` and their readers | the request a capture is armed for, chunks, calls, files | hooks called at fixed places of each engine step | the engine's scheduler; the readers |
| Qualification runners | `scripts/run-ds4-*.py`, `scripts/run-ds41-*.py` | registry, a state of each case, rows, verdict | mark, send, wait, save, conclude | the served pair by HTTP or the gateway; a collector process; the controller |
| Reader of the sparse table | `ds41/affine_safetensors.py`, `fault_diagnostics.py`, `engram_advice_experiment.py`, `scripts/summarize-ds41-faults.py` | the mapping and the record of its advice, the row cache, the collector's request | set advice, look up, read in parallel, begin and end a request, prepare an arm | the engine's steps; the experiments of the offline program |
| Probes, patches, shell controllers | `ds41/perf_profile.py`, `patches/`, `runtime/*.sh`, `benchmarks/`, `deploy/` | one process's timings; unit files | | |
| Stateless or out of scope | `app/tools.go`, `web_metadata.go`, `config.go`, `web/`, `tools/` | none the gateway relies on | translation of one request, browser UI | |

What is hard in each, and what has to hold:

* **Paired coordinator.** The two ranks hold one inference together.  If one of
  them may still be computing, or has kept a request the other one did not
  answer, a new request would meet ranks in different states.  The code
  therefore creates a durable marker before it sends anything and removes it
  only after two complete and equal answers.  Hard: crashes and power loss
  around the marker, deadlines, shutdown racing a completion, overlapping
  processes.  Must hold: uncertainty is never lost; nothing is admitted over it;
  the lock always comes free; a client never takes a partial answer for a whole
  one.
* **Cluster controller.** Starting and stopping engines on two hosts through
  commands that may fail without telling whether they worked.  Must hold: every
  engine that runs is known to the next stop; the marker is archived only when
  both engines are gone; a foreign unit is never adopted.
* **Pi workspace session.** A child process reports events on the same pipe
  that carries the answers to requests.  Must hold: verification results belong
  to the files they were computed for; abort and close end; one active Pi.
* **Conversation store.** Prompts read a conversation, work for minutes and
  append to it.  Must hold: no lost or resurrected messages, no endlessly
  pending ones, no deletion under a running prompt.
* **Downloads.** Pausing, cancelling and restarts between bytes, hash, link and
  record.  Must hold: a published file is complete and never overwritten; a
  stopped job can be resumed or says why not.
* **Operations, agent tasks.** Cancel against completion, and restart.  Must
  hold: verdicts are final; a cancelled operation leaves no task behind.
* **Transactional apply.** A set of files is replaced one by one under a user who
  may edit them, and every step, of the rollback too, may fail.  Must hold: all
  files or none, or the receipt says so; what the user wrote is not overwritten.
* **Settings and sessions.** Must hold: what is live is what is stored; a
  session never outlives the token it was made with.

* **Repaired artifact.** Hours of copying and patching by commands that may be
  killed anywhere, and a load that is admitted by size, inode and time alone.
  Must hold: what is cached is what was served; what is validated is repaired
  and otherwise original; what is admitted are the pinned bytes.
* **Offline suite.** Two ranks in lockstep that checkpoint on their own; a
  candidate that may silently fall back to the old path.  Must hold: nobody
  waits for ever for a rank that is gone; the two files tell one story; a PASS
  is of one launch, in which the candidate really ran.
* **Small-block gate.** Each rank judges its own records before the next
  collective.  Must hold: same collectives on both; nothing is measured that
  failed its gate; the verdict is exact.
* **Captures.** Hooks see steps, not requests: aborts, one-shot arming, chunked
  prompts and a dying engine come between.  Must hold: what a reader accepts is
  one whole request.
* **Reader of the sparse table.** A cache smaller than the table, filled by
  several threads; a kernel advice that may fail half way, and its rollback too;
  counters that are patched in while the cache is in use.  Must hold: the row that
  was asked for, of the file that was opened; a policy that is recorded is in
  force; a report adds up.
* **Qualification runners.** Sixteen scripts with as many ways of guarding
  against a replay, killed and restarted over a pair that may be restarted too.
  Must hold: no case is sent twice; a PASS is earned; a FAIL is real.

`PROJECT.json` lists the hazards with their lines, those of components not yet
modelled included.

## 2. Plan

| Step | Modules | Status |
|---|---|---|
| 1 | `PairState`, `PairCoordinator`, `ClusterController`, composed by `Pair`; abstract `PairPromise`; `PairProofs` | done |
| 2 | `PairedStream`: streaming hand-over of one job; `RequestsProofs` | done |
| 3 | `PiSession`: session states, RPC reader, operation mutex, verification, apply; `PiSessionProofs` | done |
| 4 | `Downloads`: job life cycle, publication, receipts, crashes and power loss; `DownloadsProofs` | done |
| 5 | `ModelArtifact`: from the source ranges to an admitted load; `ModelArtifactProofs` | done |
| 6 | `OfflineSuite`: two ranks, their files and the validators; `OfflineSuiteProofs` | done |
| 7 | `BlockVerify` with `GateInvariants`, and `Captures`, the two modes of a node, and `EngramReader`, which both have, composed by `EngineModes`; `EngineModesProofs` | done |
| 8 | `Campaign`: the qualification runners; `CampaignProofs` | done |
| 9 | `Apply`: the transaction of a verified task, composed with `PairedStream` by `Requests`; `RequestsProofs` | done |
| 10 | `Conversations`: revisions, active use, recovery, handoff, deletion with `PiSession`'s closing states and attachments | open |
| 11 | `AgentTask` over `Apply`; `Operations` over the flock and the task it owns; `ModelAdmission`: slot, flock, lifecycle, the legacy commands of the controller | open |
| 12 | `Settings`: token rotation, sessions, persist before publish | open |

Theorems planned beside those of section 5: the ownership invariants of
`Conversations`, once it is modelled.

## 3. The modules

### PairState

What the coordinator and the controller share: the marker `pair-poison.json` as
a running process sees it (`marker`) and as a power loss leaves it (`durable`),
the flock `pair.lock` (`lock`), the systemd unit of each rank (`unit`: none,
ours with its nonce and invocation, or foreign), and `unsettled`, the ranks
whose engine has accepted a request that no agreement of both ranks has settled.
`unsettled` is the one variable without a counterpart in a file or a struct of
the gateway: it is the truth about the engines that the marker stands for.
`controllerWrite` is `WritePoison`: temp file, rename, directory sync, with its
error ignored by `fail()`, so that it may have happened or not, durably or not.

### PairCoordinator

One instance per `serve-pair` process `p`.  `life` is the process (down, booted
before `Listen`, up, draining after SIGTERM, past the grace period), `poison` is
`PairedBackend.poison`, and `pc` is the position of the only admission or job a
process can have (`busy`).

| Actions | Code |
|---|---|
| `NewPairedBackend`, `Listen` | `NewPairedBackend`, `serveNativePair` |
| `StopAdmission`, `ShutdownDeadline`, `Exit` | `serveNativePairUntil`, `Shutdown`, `fail` |
| `AdmitLock`, `AdmitRefused`, `AdmitMarker`, `AdmitDurable`, `AdmitNotDurable` | `admit()` in its order: flock, `O_EXCL` create, file and directory sync, error paths |
| `DrainSend`, `DrainOK`, `DrainError` | `drain()`: the engine takes the request, answers completely, or anything else; `DrainError` includes the `fail()` of `run()` |
| `Deadline`, `OutputsAgree`, `OutputsDiffer` | the select loop and the comparison of `run()` |
| `ClearMarker`, `ClearRefused`, `FailAfterClear` | the removal under `p.mu`, refused or failed, and the `fail()` that follows |
| `FinishUnlock`, `FinishIdle` | the tail of `run()` |
| `Crash` | SIGKILL, panic, or an error of `Listen` or `Serve` |

`p.mu` is held across `admit()`; `MuFree` says so for whoever else needs it.
An answer of a rank is a member of `Outputs`, compared as `reflect.DeepEqual`
does.  The engines accept a request no later than the job gives up: a request
still in a socket buffer then is covered by the behaviour in which it had been
accepted just before, since acceptance only adds to `unsettled`.

### ClusterController

`owner` is `pair-owner.json`, `o` the `ClusterOwner` the running command holds
in memory, `cpc` its position.  `save` may fail before or after its rename
(`SaveError`).  Nonces are numbered by `launches`; `inv` is 1 for the
invocation our own launch made and 2 for any later one.  `pending` is a launch
whose command failed without an answer and may still take effect.

| Actions | Code |
|---|---|
| `Command`, `EndCommand`, `CtlCrash` | `locked`, return of the command, death of the command |
| `ReadOwner` ... `StopNotProven` | `stopUnits`: verify all, stop each in its own goroutine, prove all inactive |
| `Uncertain`, `SaveStopped`, `CleanedUp`, `Archive...` | what `stop`, `Restart` and the deferred cleanup of `start` do with the result |
| `Precheck` ... `SaveStarting` | the checks of `start` before anything is written |
| `AppendUnit`, `LaunchOK`, `LaunchFails`, `ConfirmUnit` | the loop over rank 1 and rank 0: reserve, launch, learn the InvocationID |
| `waitHealth`, `SaveReady` | `waitHealth` and the last save |

### Pair, PairPromise

`Pair` composes both over the shared state and adds what comes from outside: an
engine exits, is restarted by hand, a foreign unit takes its name, a launch
takes effect late, a process or a command is killed, the host of rank 0 loses
power.  `PairPromise` is what the pair promises, without flock, marker, poison
or owner file: an inference opens only over engines that hold nothing, an engine
receives it only while it is open, and what an engine holds goes away only by
settlement or by replacing that engine.  `KeepsPromise` is the refinement, with
`job` open while some process is in `run()`'s collecting phase.

### PairedStream

One streaming job at the level of goroutines and channels: the two drains, which
may outlive `run()` past the deadline; `run()`; and the handler with its client.
The channel has `Capacity` places (128 in the code) and the upstream sends up to
`MaxFrames` frames before its terminal ones.  `panicked` records a send on a
closed channel.

### Apply, Requests

`Apply` is `applyTaskInternal` (`app/apply.go`) at the level of its file
operations, against a user who writes the same files.  A file is absent, the
original, ours (`"new"`) or the user's.

| Variable | Code |
|---|---|
| `tree`, `dir` | the files of `FilesChanged` in the repository; the directory of those that are new |
| `task` | `t.Status`, `t.Applied` |
| `pc`, `file`, `done`, `call` | where the call is; the entries renamed; its receipt in memory, with `CreatedDirectories` and `RollbackErrors` |
| `saved`, `told` | `receipt.json`; what the caller learned |
| `late`, `lost` | history: files written between the last look at them and their replacement; files overwritten otherwise |

| Actions | Code |
|---|---|
| `Begin` | `finishVerifiedTask`'s automatic apply, or the public one: PASS, and not yet applied |
| `Inspect`, `Prepare`, `Stage`, `Staged` | everything is looked at, backed up, recorded, staged beside its target, recorded again |
| `Verify`, `Check`, `Rename`, `Record` | the set once more; then of each entry a last look, the rename, and the receipt that names it |
| `Finish`, `Close` | APPLIED and `t.Applied`; the deferred function's last receipt |
| `Undo`, `Restore`, `Clean` | `rollbackApplyEntry` from the last entry renamed, and the directories that were made |
| `Crash`, `Edit` | the gateway dies; the user writes a file |

Every step that touches the disk may fail, and a save that fails has happened or
not.  `t.mu` is held throughout, so there is one apply of a task at a time.

`Requests` is what one request of a client sets going: a streamed answer or the
applies of a task.  They share nothing; a behaviour is about one of them.

### PiSession

One protected local session.  The code runs in several goroutines and the module
keeps where each of them is:

| Variable | Code |
|---|---|
| `State`, `lastCompletion`, `verification`, `closedCleanly` | the fields of `PiWorkspaceSession` under `s.mu`; `verification` keeps the status, the candidate it is about and `Applied` |
| `op`, `applying`, `reply` | the HTTP operation that holds `opMu`, by the answer it waits for; what `applyProtection` read; the channel of its live rpc |
| `scan` | `scanPi`, which handles a line under `s.mu` and the end of a turn outside it |
| `v` | `runProtectionVerification`: started, holding `opMu`, done |
| `proc`, `agent`, `inbox`, `out` | the process with its Wait goroutine, its last turn, its two pipes |
| `tree`, `orig` | versions of the working tree and of the original project; version 1 is the snapshot |
| `activePi` | `workspaceManager.activePi`: nobody, this session, another one |
| `deleted`, `dir` | the session is deleted; its directory exists |

| Actions | Code |
|---|---|
| `Start`, `StartOK`, `StartFails` | `start`: reserve and launch; its three rpcs and `verifyScope` as one answer |
| `Prompt`, `PrepareFails`, `SendPrompt`, `PromptOK`, `PromptFails` | `prompt` with its deadline |
| `Abort`, `Cleared`, `Aborted`, `AbortFails` | `abort` and `abortLocked`: `clear_queue`, ABORTING, `abort` |
| `Close`, `StopOwnedScope`, `MarkClosed`, `CloseDone`, `CloseFails` | `close`: drain as abort does, stop the scope, CLOSED, wait, release |
| `Shell`, `ShellDone`, `CancelShell`, `ShellFails` | `shell` with `abort_bash` |
| `ScanResponse`, `ScanAgentStart`, `ScanAgentEnd`, `NoteCompletion`, `Incomplete`, `BeginAtEnd`, `BeginRefused` | `scanPi`, `onProtectionAgentEnd`, and its `beginVerification` |
| `Verify`, `ReadCandidate`, `RunChecks`, `StoreResult` | the manual `beginVerification`, and the goroutine |
| `Review`, `Apply`, `ApplyStale`, `Applied`, `ApplyFails` | `protectionReview`, `applyProtection` |
| `Wait`, `OtherStarts`, `OtherCloses`, `DeleteConversation`, `GatewayRestarts` | the Wait goroutine, `reservePi` / `releasePi` of another session, `delete`, boot |
| `PiAnswers`, `PiEdits`, `PiEndsTurn`, `ProcessExits` | Pi itself, external: it takes its commands in order, works on one turn at a time, and may exit at any moment |

A command whose rpc was given up is not taken back: it stays in `inbox` with
`live` FALSE, Pi does execute it, and its answer is nobody's.  `opMu` has no
owner variable: an operation holds it while `op` is not `"idle"`, the
verification while `v.at` is `"running"` or `"checked"`, and `scanPi` only
within `BeginAtEnd`.

### Downloads

One gateway process after the other over one download directory.

| Variable | Code |
|---|---|
| `up`, `closing` | the process serves; `m.closing` |
| `job`, `receipt` | `m.jobs`; `job.json` of each job.  ABSENT is a job that is not there |
| `sha` | the SHA256 pinned at planning, by the version of the source it is the hash of: any one served so far, so perhaps one no longer served |
| `part`, `final` | `<file>.part` as its number of chunks, the versions they are from and whether all is synced; `<file>` as not linked, linked, or linked with its directory synced |
| `source` | the version the URLs serve at the moment |
| `active`, `cancelled` | `m.active`; whether the context of its `run()` is cancelled |
| `pc`, `i`, `resp`, `failed` | where `run()` is, at which file, which version its response body is of, and its `failure` |

| Actions | Code |
|---|---|
| `newDownloadManager`, `ManagerUnavailable` | boot: every receipt read, active ones PAUSED, reconciled with the disk, saved; or `initErr` |
| `plan`, `start`, `pause`, `shutdownDownloads` | the handlers; `start` is resume too, and `pause` cancel |
| `NextFile`, `AllFiles` | the loop of `run()` |
| `OpenPartial`, `Response`, `ReadBody`, `Chunk`, `EndOfBody` | `transfer` up to the last byte: the offset, Range and If-Range, the validators, the loop with its checkpoints |
| `SyncPartial`, `MarkVerifying`, `Hash` | `transfer`: sync, VERIFYING, the hash |
| `Link`, `SyncDirectory`, `RecordComplete` | `transfer`: publication and its record |
| `TransferFails` | every other error return of `transfer` |
| `Finish` | the deferred function of `run()` |
| `ProcessEnds`, `PowerLoss`, `SourceChanges` | from outside |

`m.mu` is held within an action, never across two: the code takes it around each
write of a job and gives it back before the network and the file system.  A save
that reports an error has happened or not (`NotSaved`): the rename comes before
the sync of the directory.

### ModelArtifact

A file is the sequence of its cells, and its digest is that sequence.  A cell is
`"o"` as in the original, `"f"` as the conversion makes it, `"x"` anything else.

| Variable | Code |
|---|---|
| `manifest`, `cache`, `completed` | `densefix-manifest.plan.json`; the partial range files; `download-receipts.json` |
| `dest`, `disk` | the derived directory; on each node, of each shard, contents, inode and modification time |
| `precopy`, `repaired`, `validation`, `seal` | `.densefix-precopy.json`, `.densefix-repair.json`; `densefix-validation.json` and `.ds41-artifact-verified.json` of each node |
| `admitted` | history: what the last PASS of `verify_fast` on a node looked at |
| `touched` | history: shards somebody else wrote into since they were validated |
| `job`, `check` | the running command of `ds41-densefix.py`, of `artifact_identity.py` |

| Actions | Code |
|---|---|
| `BuildManifest` | `build_manifest`: headers of all sources, one atomic file |
| `StartDownload`, `FetchRange`, `RangeComplete` | `download`, `download_one`: a request for what is missing, of which any part may come; the receipt after both ranges |
| `StartPrepare`, `CopyChunk`, `ShardCopied`, `FinishPrepare` | `prepare`: refusal over an existing directory, chunks with the digest of what is not patched, the receipt after each shard |
| `StartRepair`, `WriteRows`, `TensorRepaired` | `repair`: guards, `pwrite` of rows, a receipt that starts empty |
| `StartValidate`, `CompareTensor`, `HashShard`, `FinishValidate` | `validate-ds41-densefix.py` |
| `StartCheck`, `SealShard`, `StatShard`, `ReadShard`, `CompareShard`, `FinishCheck` | `seal_from_validation`, `verify_full`, `verify_fast`; the pinned digests of `artifact.json` are checked first |
| `JobDies`, `CheckDies`, `Sync`, `Edit` | a raise or a kill; the copy of directory and receipts to the other node, with a bad cell now and then; another writer |

`OutsideOf` is `update_unpatched_hash`: it cuts chunks at the borders of sorted
patched intervals, and `UnpatchedDigest` puts the chunks together.  One operator
works: a densefix command does not start while another runs.  `clock` stands for
time: it moves on only when the present modification time has been looked at, so
that a file written afterwards has a later one.

`blind` marks what the identity checks cannot know: `seal_from_validation` takes
the digest from the validator's receipt (`artifact_identity.py:124`), so a shard
that changed since its validation, or the replica's shard, is sealed unread.
`verify_full` reads what it seals.

### OfflineSuite

One launch after the other of a program whose steps are generations.  A step
has a label, says whether it is of the candidate, whether the switch is set
before it or cleared after it, and whether it is checkpointed.  `Program` gives
the steps of each experiment (`offline_spmd.py` has one branch for each), `Mode`
the order in which the keys of the configuration are looked at, and `Conflict`
the combinations that are refused.

| Variable | Code |
|---|---|
| `now`, `pc`, `at` | the launch; where each rank is; its next step |
| `switch`, `stats`, `reset` | the environment switch of the candidate; its dispatch counters; whether they were reset |
| `token`, `rows`, `file` | the answer; `results`; the results file of each rank in each directory |
| `copy` | the copy of rank 1's file where the validators run |
| `capable` | whether the kernel takes this rank's tensors |

| Actions | Code |
|---|---|
| `Launch`, `Load`, `Join` | `launch-node.sh`, `main` up to `LLM(...)`, the tensor-parallel group |
| `Ask`, `Generate`, `Record` | `set_arm` and its kin; `run_generation` on both ranks; the row and `save_checkpoint` |
| `Finish` | the end of the program, or of the suite after a failed smoke test |
| `Crash`, `Supervise` | a raise or a kill; `supervise-ds41-offline-attempt.sh` |
| `Fetch` | the operator copies rank 1's file |

The validators are state predicates over the two files (`NativePasses` ...
`WidthsPass`): they are pure functions of what they read, and the properties
quantify over every moment at which they could be run.  Whether an answer
passes its content gate is one bit of it (`"t"`), and so is whether the two
ranks' streams are equal.  The counters count whether the kernel took a call,
left a prompt alone, or fell back.

### BlockVerify, Captures, EngramReader, EngineModes

`EngineModes` composes what a node runs in its two modes (`launch-node.sh`):
offline, the small-block gate; api, the server with its captures.  The state of
the other mode stays as it is.  The reader of the table is the same in both and
shares no state with them, so it is looked at by itself, as a third one
(`"table"`).

`BlockVerify` follows a pair of ranks through `run()`: `todo` is what a rank
still asks for, in order, as requests and reductions; `gen` the generation
under way with what the observer sees of each packet; `rows` and `status` the
report; `eligible` the widths the reductions agreed on.

| Actions | Code |
|---|---|
| `Construct` | `StepObserver.__init__`, which patches the engine, or raises half way |
| `Request`, `Packet`, `Report` | `request`, one step of the engine under `ReplaySpeculator.propose`, `proposal_plan` and the observer, the row and the restored environment |
| `Agree` | the three reductions over the ranks and the branch taken after each |
| `Finish`, `Raise`, `Kill` | the end, `except` / `finally`, a kill; `write_text` is not atomic, so a kill may leave a `TORN` report |
| `Judge` | `validate-ds41-block-verify.py` over both reports |

A token is `"o"` (the recorded one), `"c"` (the corrupted draft) or `"x"`
(anything else the target may say): what greedy acceptance tells apart.

`Captures` follows one engine after the other over the same directories.  A
step of the worker is one action that runs the hooks of all five captures in
their order; a death of the engine cuts the list of its writes anywhere.

| Variable | Code |
|---|---|
| `launch`, `issued`, `req`, `gone` | the engine; requests so far; the one that runs; `finished_req_ids` of the next step |
| `repeat`, `trace`, `route`, `profile`, `kv` | the five capture objects |
| `files` | absent, torn or whole, with what is in them |

| Actions | Code |
|---|---|
| `Arrive`, `Abort` | the scheduler takes a request; the client gives it up |
| `Step`, `IdleStep` | one `execute_model` / `sample_tokens`, with a chunk of a prompt or a decode; a step with nothing scheduled, which still cleans up |
| `Die` | a hook that raises, or a kill, and the next engine |

`EngramReader` is one rank's reader with the collector of the experiments over
it.  One table stands for the two of the engine.  A row is its number and the
edition of the file it was read from.

| Variable | Code |
|---|---|
| `kind`, `at`, `served` | whether the program serves, observes faults or compares advice; where its one engine thread is; the requests and lookups so far |
| `disk`, `source` | the edition under the path; `SafeTensorMMap`: what it has mapped, what the kernel does in each range, `engram_advice` |
| `cache`, `call` | `AffineRowLRU`: rows, oldest first, and `stats`; the lookup under way with its threads, and its answer |
| `obs`, `asked`, `report` | `FaultDiagnostics`; history of what the request looked up; the record of `end_request` |

| Actions | Code |
|---|---|
| `Install`, `Close` | the patches of `FaultDiagnostics` and their removal |
| `Prepare`, `Switch` | `prepare_embedding`, and the switch of the mapping for the comparison of the answers; both end the program unless the advice took effect |
| `Begin`, `End` | `begin_request`, `end_request` |
| `Lookup`, `Insert` | `AffineRowLRU.lookup` up to the reads, and after them |
| `Gather`, `Store` | `affine2_rows` in one thread of the pool, and the counter the patch keeps for it: read, then written |
| `Emit`, `EndsAlone` | `process_outputs` with or without tokens and the end of the request |
| `Replace` | another file under the path |

`SetAdvice` gives all outcomes of `set_engram_advice`: applied, stopped at a
range, rolled back with any ranges failing again.

### Campaign

One of the sixteen runners over its plan of cases, with the pair, its restarts
and the runner's own deaths.  The steps of all are the same; `Policies` is the
table of what differs, one record for each script: what refuses a start, what
is done at a case that has something on disk, which rows end the run, what the
verdict is about and which pair it holds to.

| Variable | Code |
|---|---|
| `registry`, `terminal`, `disk` | `registry.json`; `terminal.json` or its equivalent; of each case its `state.json`, or its directory; `DIR`: a collector's directory without `state.json` yet |
| `rows`, `at`, `pc` | the results of this start; the case; where the runner is |
| `epoch`, `resident`, `steady` | starts of the pair; the one the runner holds it to; whether a product runner found the same processes before turning them off |
| `sent`, `answer`, `by` | history: times a case was sent, what the runner was told of it, which pair got it |
| `orphan` | of each start of the runner the collector that outlived it: its case and where it is |
| `hasty` | history: the cases of which a collector had yet to write its mark when the runner was started again |

| Actions | Code |
|---|---|
| `Launch` | the guards of `main` and the registry |
| `Skip`, `RefuseReplay`, `End` | what is done at a case already there |
| `Collect`, `Look` | the runner starts its collector, which looks whether the case is marked |
| `Mark`, `Post`, `SaveTask`, `Heard`, `Save` | the case is marked, sent, its task id kept, answered, written; the first two by the collector where there is one |
| `OffAndOn` | a product runner turns the pair off and on |
| `Conclude` | the verdict |
| `Crash`, `RestartPair` | a kill or an uncaught exception, with the collector or without it; the controller |
| `OrphanLooks`, `OrphanMarks`, `OrphanPosts`, `OrphanEnds`, `OrphanDies` | a collector that outlives its runner goes on, or dies too |

The verdict is what the script writes of it: `max_context_pass` of performance,
`product_admitted` of continuation, `performance_admitted` of usable-quality,
exit 0 and `PANEL_COMPLETE` of the daily panel.  Cases are grouped where a
script treats several requests as one: the three samples of performance are
case 1, its confirmation case 2; of continuation the third sample is case 1;
the repeated prompts of a drain gate are one case.

Six of the runners send through `run-ds4-usable-request.py`, a process of its own.
It looks whether there is a `state.json` (line 173) and then writes one (line 174),
without `O_EXCL`, and a runner that is killed leaves it running.  So `Launch,
Collect, Crash, Launch, Collect, Look, OrphanLooks, OrphanMarks, OrphanPosts,
Mark, Post` sends a case twice: both collectors have looked before either has
written.  The same is left open where the new collector looks first.  `SentOnce`
and `FailIsReal` except this by name: `hasty` holds the cases of which a collector
had yet to write its mark when the runner was started again, and those two
properties say nothing more of them.  No document of the repository speaks of a
collector that outlives its runner, so the exception is recorded here and in the
model rather than as a violated claim.

## 4. What the runs check

| Run | Instance | Properties | Shows |
|---|---|---|---|
| `pair_processes` | 2 processes, 1 start, 1 fault, symmetric | `UnsettledIsMarked`, `AdmittedOverSettledPair`, `MarkerClearedOnlySettled` | no interleaving of two processes, stop and one fault loses uncertainty or admits over it |
| `pair_restart` | 1 process, 2 starts, 2 faults | `RunningUnitsAreRecorded`, `KeepsPromise` | the same through whole restarts, delayed launches and two faults; the detail implements the promise |
| `pair_live` | 1 process, 1 start, 1 fault | `LockAlwaysComesFree`, `DrainEnds` | nobody keeps the lock; a process told to stop goes |
| `paired_stream` | stream: channel of 2, up to 4 frames; apply: 3 files, 1 of them new, 2 applies, 2 writes of the user | `NoSendOnClosed`, `TerminalOnlyAgreed`, `NoSilentTruncation`, `StreamEnds`, `ApplyIsHonest` | the hand-over to the client under overflow, departure, deadline and disagreement; an apply is all or nothing, or its receipt says so, whatever fails, and overwrites nothing the user wrote before the last look |
| `pi_session` | 3 tree versions, 6 requests | `OneScope`, `OriginalWrittenOnce`, `DeadlinedOpsEnd` | one Pi at most whatever exits, closes or restarts; the original is written once, from the snapshot, with a tree that passed; start, prompt and shell give `opMu` back under their own deadlines, although `scanPi` may be waiting for it |
| `downloads` | 1 job of 2 files of 2 chunks, 2 versions | `PublishedIsWhole`, `RecordedIsThere`, `RecordedIsKept`, `StopIsHonoured`, `RunEnds` | no order of pauses, failures, crashes and resumes publishes a mixture, loses a recorded file or completes a stopped run; a run always gives the active place back, also when its last save fails |
| `model_artifact` | shards of 4 and 1 cells, 2 tensors, 5 commands, 2 checks, 1 copy, 1 foreign write | `CacheIsPrefix`, `ValidatedIsRepaired`, `AdmittedIsPinned` | every command killed anywhere and started again: caches are prefixes, a validation stands for repaired shards, a load is admitted over pinned bytes |
| `offline_suite` | each experiment once, variants, 2 relaunches into one directory | `FilesInStep`, `PassIsOneLaunch`, `PassMeansDispatched`, `NobodyStranded` | the two files tell one story; a PASS is of one launch whose candidate ran; nobody is left waiting |
| `engine_modes` | gate: answers of 9, 2 widths, 3 trials, one thing goes wrong; server: 3 requests of 2 lengths, 2 engines; table: 3 rows, a cache of 2, 2 threads, 2 ranges | `SameCollectives`, `MeasuredPassedTheGate`, `VerdictIsExact`, `ComparedAreWhole`, `FixturesAreOneRequest`, `OneShotIsWhole`, `TraceFollowsRequest`, `AnswersAreTheTable`, `AdviceIsHonest`, `ReadsAddUp` | the gate's ranks stay together and its verdict is exact; what the captures' readers accept is one whole request; a lookup answers with the rows it was asked for, the advice that is recorded is in force, and the collector's reports add up |
| `campaign` | 16 runners, 4 cases, 3 starts, 2 pairs | `SentOnce`, `PassIsEarned`, `FailIsReal` | kills, lost answers, collectors of earlier starts that go on, and a restarted pair: nothing is sent twice, but where a runner was started again over a collector that had not made its mark; and verdicts mean what they say |
| `pi_abort` | 1 tree version, 4 requests | `AbortEnds` (violated) | see below |
| `pi_apply` | 2 tree versions, 6 requests | `AppliedTurnCompleted` (violated) | see below |

Type correctness (`TypeOK` of each module) is not among the properties of the
runs; section 5 proves it.

**Where the code and its documentation differ.**

* `pi_abort`.  `scanPi` takes `opMu` when a turn ends naturally
  (`workspace_protection.go:390`), and `abort` holds it over its rpcs, whose
  answers come through `scanPi`.  If the turn ends as the abort begins, both wait
  until the HTTP request is dropped; close and shutdown wait behind them.
  `WORKSPACES.md:60`: "Abort clears Pi's pending queue and asks Pi to become
  idle."  `prompt` and `shell` have deadlines and get out of the same cycle
  (`DeadlinedOpsEnd`).
* `pi_apply`.  `beginVerification` captures the completion and gives `opMu` back
  before its goroutine takes it.  An abort and a new prompt fit in between.  The
  goroutine then checks what that prompt edits and stores TEST_PASS over the
  INCOMPLETE of its failed turn, and Apply accepts it.
  `docs/PROTECTED_WORKSPACES.md:115`: "A new Pi prompt or custom shell command
  invalidates prior verification."

**Observations.**  Three more disagreements of the same components have a
property in the module but no run of their own; a configuration with the one
property and the constants named here shows each:

* `PiSession!DeletedIsGone` (`MaxTree = 1`, `MaxRequests = 3`).  `close` and
  `delete` do not wait for a verification that has not got `opMu` yet; its
  receipt is written into the deleted session's directory and makes it again.
  `WORKSPACES.md:182`: deletion "removes their owned private records, snapshots
  and receipts".
* `PiSession!ExitedIsNotTurning` (the same constants).  The Wait goroutine sets
  FAILED; an abort under way then sets ABORTING, or `scanPi` RUNNING for a
  buffered `agent_start`.  `close` drains a turn first, which needs a Pi: it
  fails from then on, and the reservation of the one Pi stays until the gateway
  restarts.
* `Downloads!InterruptedIsPaused` (one job, one file, one chunk).  A process that
  dies between `Link` and the receipt that records the file leaves a final file
  its receipt does not have.  `reconcileLocked` refuses it at boot, the job
  becomes FAILED, and so does every resume.  Nothing is lost, but
  `docs/DOWNLOADS.md:28` says: "Gateway interruption recovers an active receipt
  as `PAUSED`, never auto-starts."

What the Python programs do at their edges, met while modelling them.  No
document says otherwise, and where a property would not hold because of it, its
statement leaves the case out by name:

* `repair` accepts a partial prepare: the precopy receipt is rewritten for each
  shard, so its presence does not mean that prepare succeeded, which is how the
  message at `ds41-densefix.py:454` reads.  The validation refuses the result.
* Only the advice validator compares the epochs of the two files.  The others
  join a file with whatever copy of the other rank's file is there;
  `PassIsOneLaunch` is therefore stated for an up-to-date copy.  The keys
  `native` and `mhc` together are not refused and run `mhc`.
* The supervisor of an attempt may stop rank 1 before its last summary is
  written, as rank 0's end stops the pair, and leaves without stopping anything
  when the owner receipt or the epoch has changed.
* An exception in the constructor of the observer leaves engine methods patched.
  A gate with a single eligible width is never judged PASS.
* After an abort within its prefill, the kv, profile and route captures never arm
  again, and the profiler stays enabled; an aborted decode trace is marked
  COMPLETE.  With a later engine in the same route directory, the COMPLETE status
  of the first and newly overwritten fixtures of a partial capture pass the
  manifest validator, which does not compare request ids: `FixturesAreOneRequest`
  speaks of the launch that wrote the status.
* A prompt that shares its step with another request may be cut earlier than the
  budget.  The KV metadata is then still one whole prefill, as `OneShotIsWhole`
  says, but `validate-ds41-kv-tail-observed.py` may refuse it: it demands that the
  second chunk reuses blocks of the sliding window (lines 34-49).
* `run-ds4-speed-001-arm.py` makes its directory before it checks READY, so a
  start that finds no pair uses the directory up.  `noncoding` has no guard
  at all: a rerun replaces its `all_pass` by refused rows.  `continuation` and
  `coding_c`, started again after a crash, conclude FAIL from refused replays.
  These are the runners `Judging` leaves out.  The product and the soak of the document
  profile, and the daily panel for failed cases, send again: `Resending`.
  `daily_soak` does not compare the epoch in its last check, and completes over
  wrong answers, which it does not judge.

* A lookup of more distinct rows than `DS41_ENGRAM_CACHE_ROWS` evicts rows of its
  own batch and ends in a KeyError; `AnswersAreTheTable` says that nothing else
  makes one fail.
* An apply that fails after `receipt.json` was renamed to APPLIED (the sync of the
  directory) is rolled back.  If the process dies then, or the last save fails
  too, the receipt says APPLIED over files that were taken back: `ApplyIsHonest`
  bounds what is left by the receipt, and not the receipt by what is left.
* The error of the last save is returned also when the apply succeeded.
  `finishVerifiedTask` then reports that the apply was refused, with `t.Applied`
  set.  A directory that an uncertain rollback left is foreign to the next apply,
  which refuses.  Between the last look at a file and its rename or removal there
  is a window in which a write of the user is lost: `late`.

Two related effects are left out of the properties because no document speaks of
them: through the window of `pi_apply` a session can become READY over a FAILED
while an abandoned prompt is still in Pi's queue; and an abandoned shell command
can edit the working tree while a verified candidate is being applied (what is
written is still the verified candidate).

**Bounds.** `MaxLaunches` counts nonces; a start needs two, so 2 and 4 are one
and two starts, and two starts are what a delayed launch of the first needs to
meet the second.  `MaxFaults` bounds faults from outside in one behaviour; a
second one is what it takes to crash during the recovery from the first.
Admissions, stops, restarts and shutdowns are not bounded.  Two processes are
what an old draining process and its successor need.  Two outputs are enough to
differ.  A channel of two with four frames fills, drains and overflows.  `MaxRequests`
counts the operations clients ask of a Pi session, each with all its failures:
two whole rounds of prompt and apply after a start need five, and six leave
room for an abort, a close or a verification between them.  Three tree versions
are the snapshot and an edit in each of two turns.  Starts of other sessions,
exits, restarts and everything Pi does are bounded only by these.  Of a
download, `MaxVersion` bounds how often its source changes, once being what it
takes to mix two versions, and `Count` and `Size` are its size: two files have a
next one, two chunks an incomplete partial.  Starts, stops, failures, crashes and
power losses of downloads are not bounded.  A second job only adds the
refusal of `start` while the first is active; it is left to the proofs.  Three
files are one before and one after the failure, with one of them new; two applies
are one and its retry, and two writes of the user are one at the apply and one at
its rollback.

Of the artifact, a shard of four cells in chunks of two has a patched interval
across a chunk's border with cells left on both sides; the other shard is
patched whole.  `MaxCommands` of five is download, prepare, repair, validate and
one of them again; two checks are a seal and an admission; a copy and a foreign
write are what it takes to change a shard behind a seal.  `MCSchedules` runs
every experiment of the offline suite once, every variant of its program, a
refused and an undecided combination, and relaunches into the directory of a
first launch; one answer of a behaviour is unexpected (`odd`), as a second
changes no comparison further.  Programs have their real length.  In the gate,
widths 2 and 4 are the real ones, the answer is as long as the widest packet and
its controls need, and `MaxOdd` counts what goes wrong outside a warmup: a wrong
token, an exception or a kill.  In the server, tokens come in units: a prompt of
four and a budget of three make two chunks, the shorter prompt one; three
requests and two engines are one before, one during and one after a capture.
In the reader, a cache of two evicts with three rows, and within one batch of
three; two threads are what it takes to read in parallel, and the two ranges are
one that succeeds before one that fails; three requests are a warmup, the first
of an arm and one that finds the cache filled, with two lookups among them.
Four cases are the least in which every runner's special cases (first, second,
deciding, last) differ; three starts are one that dies, one that finds what it
left and one that finds a verdict; two epochs are a restart.  The proofs of
section 5 do not depend on any of these numbers.

**Fairness.** `Pair!Fairness` asks that an admission, a job past its deadline, a
shutdown past its grace period and a running controller command go on: they are
goroutines or processes that only wait for a bounded time (`context.WithTimeout`
in `run`, the grace period in `serveNativePairUntil`, command timeouts and
`LoadTimeoutSeconds` in the controller).  No fairness is assumed of the ranks:
they may never answer.  Nor of requests, signals, commands or faults.
`PairedStream` asks the same of `run()`, and of the handler, each of whose writes
has a deadline of ten seconds; `Requests` states it for a behaviour that is a
stream, and nothing for an apply.  `PiSession!FairSpec` asks it of `scanPi`, of the
verification goroutine, whose commands have time limits, of the Wait goroutine,
of an operation that has its answer or whose deadline can pass (start 20 s,
prompt 10 s, shell 60 s and 5 s more), of an abort or close only once it has its
answer or cannot get one any more, and of Pi's answers, but not of the end of
Pi's turns.  `Downloads!FairSpec` asks that the goroutine `run()` goes on: the
connection, the headers and every read of the body have time limits (15, 30 and
90 seconds), after which the transfer fails.

`Apply` and the Python modules assume no fairness.  `NobodyStranded` says with `ENABLED` that
a rank that runs never waits for something that cannot come, which is what their
design claims: the supervisor polls, and everything else may take any time.

`CHECK_DEADLOCK FALSE` is set because these systems may stop: a poisoned process
with no command left within the bounds has nothing to do, a finished stream
job is over, and so are a deleted Pi session and an apply whose process died.  A gateway with nothing to download
may stay as it is.  The commands, launches, requests and starts of the Python
modules run out within their bounds.

Definitions marked `Fault:` stand just before the action they are a faulty
version of and are used by no specification.  Each is a plausible bug; with it
in place of the action, the property it is listed with in `PROJECT.json` fails.

## 5. What is proved

`PairProofs.tla`, for any set of processes and outputs and any number of launches
and faults, assuming only that the process names differ from the two other
holders of the lock and that the bounds are natural numbers:

| Theorem | Property |
|---|---|
| `TypeCorrect` | `TypeOK` |
| `UncertaintyIsKept` | `UnsettledIsMarked` |
| `AdmissionIsSafe` | `AdmittedOverSettledPair` |
| `EnginesAreRecorded` | `RunningUnitsAreRecorded` |
| `MarkerOutlivesUncertainty` | `MarkerClearedOnlySettled` |
| `PairKeepsPromise` | `KeepsPromise`, the refinement of `PairPromise` |

They rest on `PairInvariant`: `PairInv` is inductive.  None of the properties is
inductive by itself.  `PairInv` adds

* `LockInv`: the flock is held by exactly the admission, job or command whose
  position says so.  It is what makes the critical sections of different
  processes and of the controller exclude one another.
* `MarkInv`: only engines of ours hold requests; a job that runs has a durable
  marker; between the creation of the marker and the first request, and between
  the agreement and its removal, nothing is unsettled; and so it is when the
  controller has proven the stop.
* `NamesInv`: every engine of ours that runs, and every launch that may still
  take effect, has its nonce both in the owner file and in the memory of the
  command that works on it; a rank that is about to be launched is vacant.  It
  gives the last part of `MarkInv`: what the stop has proven inactive is all
  that could hold a request.

Each part has its own step lemma, by cases over the actions.  The refinement
needs only that every step other than `AdmitDurable`, `DrainSend` and
`OutputsAgree` is a `Disturb` step of the promise (`DisturbStep`).

`RequestsProofs.tla`, for any capacity of the channel and any number of frames,
and for any number of changed files, calls and edits of the user:

| Theorem | Property |
|---|---|
| `StreamTypeCorrect` | `TypeOK` |
| `NeverPanics` | `NoSendOnClosed` |
| `TerminalMeansAgreed` | `TerminalOnlyAgreed` |
| `WholeOrError` | `NoSilentTruncation` |
| `AppliesAreHonest` | `ApplyIsHonest` |

`StreamsAreSafe` says the same of a behaviour of the composition that is a stream.

`StreamInv` says what the frames sent and the frames queued are together: a
prefix of rank 0's answer (`Prefix`), which is all it produced as long as nobody
detached; or the whole answer with its terminal frames, and then both ranks
agreed and nothing failed (`Complete`); or a response ended by an error event
(`Failed`).  The link from `Prefix` to a silent end is broken by `FlagInv`: a
job that is detached before its terminal frames either has a slow client, which
becomes an error when it finishes, or no client.

`ApplyInv` follows one call through its renames and back.  `Places` counts: before
each rename, `done` is how many entries are the candidate's.  `Stands` says what
the tree is then: nothing of ours while it only looks, exactly the renamed
entries while it writes, and on the way back nothing above the entry that is being
restored, unless an error was noted.  `Ends` keeps the word the call will give,
`Says` keeps the receipt true at every step at which the process may die; with
both, a restart finds no file of ours that no receipt speaks of.  What remains
is one lemma for a step (`CheckKeeps` to `CloseKeeps`), and one for a step that fails
(`FailKeeps`).  `ApplyAssumption` says that the changed entries are numbered from
one and that there is one.

`PiSessionProofs.tla`, for any number of requests and tree versions:

| Theorem | Property |
|---|---|
| `PiTypeCorrect` | `TypeOK` |
| `OnePi` | `OneScope` |
| `OneWrite` | `OriginalWrittenOnce` |

`PiInv` adds the types of what is in the two pipes and in the two goroutines
(without them the type of a reply or of a completion is not inductive), that a
launched Pi is reserved and its session not CONNECTED (so `Start` cannot launch
or release over it, and a verification cannot put CONNECTED back), and that an
apply in progress holds a passed, unapplied candidate over an unchanged original.

`DownloadsProofs.tla`, for any number of jobs, files, chunks and versions,
assuming only that there is at least one file, chunk and version and that the
empty id is no job:

| Theorem | Property |
|---|---|
| `DownloadsTypeCorrect` | `TypeOK` |
| `PublicationIsWhole` | `PublishedIsWhole` |
| `RecordsAreTrue` | `RecordedIsThere` |
| `RecordsAreKept` | `RecordedIsKept` |
| `StopsAreHonoured` | `StopIsHonoured` |

`DownloadsInv` has one part for each pair of things that have to agree:

* `RunInv`: `run()` and the job in memory.  All files before the one it works on
  are complete, and it only leaves without a failure after the last.
* `RecordInv`: the receipt never says more than memory, nor memory more than
  the disk.  With it a later save of the whole job cannot take a record back.
* `FreshInv`: a job without receipt has no files, so that planning it anew
  cannot change what a published file was pinned to.
* `ByteInv`: without a hash, all bytes of a partial are of one version, and a
  validator in memory or in the receipt is of the same.  The response that is
  being read is of that version too.  It is what `PublishedIsWhole` rests on where
  no hash decides.
* `LinkInv`: nothing is linked yet while a file is transferred, and what reaches
  the link is whole and has passed the hash, if there is one.
* `SyncInv`: what is linked was synced before, so that no power loss cuts it.

`RecordsAreKept` and `StopsAreHonoured` follow from the invariant by cases over
the steps (`ReceiptKept`, `BytesStay`, and that only `Finish` ends a run of a
living process).

`CampaignProofs.tla`, for any number of cases from three on, starts of the
runner and starts of the pair:

| Theorem | Property |
|---|---|
| `CampaignTypeCorrect` | `TypeOK` |
| `NoCaseTwice` | `SentOnce` |
| `PassesAreEarned` | `PassIsEarned` |
| `FailsAreReal` | `FailIsReal` |

`CInv` is the order of one start (`OncePerStart`: a case at or behind the present
one has not been sent by it) together with what each family of guards leaves on
disk: whoever looks at a case's file has marked it before sending it
(`MarkedFirst`), and whoever keeps nothing of a case starts once (`StartsOnce`).
A collector of an earlier start enters by four facts.  While the runner runs, one
that has yet to make its mark is of a hasty case (`LeftBehind`); what was sent is
marked, and stays so (`SentIsMarked`); and of a case that is not hasty, a collector
that comes to its mark finds none there, and one that is about to send finds
nothing sent (`OneComes`).
`VInv` follows a PASS from the answer to the row, from the row to the verdict,
and through restarts of the pair: a complete case was answered and stays so, row
`i` is of case `i`, and what this start sent went to the pair it holds to
(`SentSince`, `SoakOrder`, `Turned`); a verdict ends the runner, whose later starts
are refused (`Settled`), so that a collector that ends late changes nothing it
rests on.  `FInv` adds, for the runners that never go over an old result, what a
row that fails stands for, and that they do not leave a marked case to a collector,
unless it is hasty (`LooksAtNothing`).  The table of runners
enters through one lemma for each fact about its records.

`EngineModesProofs.tla`, for any length of the answers, any number of trials and
of things that go wrong, any lengths of prompts, budgets, layers and capture
counts, and a table of any size read by any threads:

| Theorem | Property |
|---|---|
| `NeverApart` | `SameCollectives` |
| `MeasuredAfterTheGate` | `MeasuredPassedTheGate` |
| `JudgedExactly` | `VerdictIsExact` |
| `AdviceIsWhatTheKernelDoes` | `AdviceIsHonest` |
| `AnswersAreOfTheTable` | `AnswersAreTheTable` |
| `ReportsAddUp` | `ReadsAddUp` |
| `ComparedRecordsAreWhole` | `ComparedAreWhole` |
| `FixturesAreOfOneRequest` | `FixturesAreOneRequest` |
| `OneShotsAreWhole` | `OneShotIsWhole` |
| `TracesFollowRequests` | `TraceFollowsRequest` |

`NodeRunsItsPrograms` carries them to the specification the run checks: every
behaviour of a node is one of each of its programs.  `NodeKeepsTheGate` is the
first two of them said of a node.

* `BInv`: nobody is ahead of the other by more than the report of one request, by
  where both are; a rank that is dead says nothing.
* `GateInv`: what a rank still has to ask is due (`Due`): a measurement of a width is
  only in its list once both ranks' rows show that width's gate passed, and
  rows are only added.
* `VerdictInv` compares the whole validator with the whole run, in both directions.  The
  three invariants of the gate are in a module of their own, `GateInvariants`.
  - *Nothing went wrong, so it passes.*  What a rank has asked and what it will ask is
    one list, the plan (`PlanOf`).  A report moves a request from one part of it to the
    other (`MadeMoves`), and an agreement replaces the reduction at its end by the block
    that follows (`SplicedIs`), so the plan of a rank is always one of four
    (`Planned`), no diagnostic is in it twice and, as long as nothing went wrong,
    every diagnostic is in it and both ranks agree on all widths (`AllAgreed`).
    Inside a request that is not a warmup the generation is `Faultless`: how many
    tokens it has determines what is proposed, what was rejected and which positions
    were read, for all widths and corruptions (`PacketFaultless`).  At its end that
    makes a row every test of the validator accepts (`FaultlessReports`,
    `FaultlessPasses`).
  - *Something went wrong, so it does not pass.*  It is still in sight (`Blamed`): a
    rank raised or was killed, and then its report is not complete; or a token that is
    not the oracle's is in the stream, the proposer has noticed (`PacketTyped`), and the
    row says so; or a row is there that the validator refuses.  Since a plan has no
    diagnostic twice, no other row can stand in for that one (`PassingIs`).
  Here `BlockAssumption` is used in full.  It asks for seven tokens more in the answer than
  before the first draft: a draft rejected at place 3 must leave room for one packet of
  full width, or `full` never becomes true and a faultless run fails.  The code has 64 and 8.
* `AdviceInv`: a range whose policy is claimed is under it, in all the ways in
  which `madvise` and its rollback can fail.
* `CaptureInv` has one part for the server and one for each capture.  `ServerInv`: the
  request that runs is the youngest and has not been aborted.  `RepeatInv`,
  `TraceInv`, `KvInv`, `ProfileInv`: what a hook holds in memory is of one request,
  from its first token, without a gap, as long as that request is still the one
  it follows; and so is what it has written.  `RouteInv`: the fixtures
  that are named by the status were saved by the request the hook armed for.
  A step of the engine may be a chunk of a prompt, the end of one, or one
  emitted token; the hooks see these steps only, so each part has a lemma for each.

* `ReaderInv` carries the answers of the table, and the theorem `ReaderInvariant` is
  what the two properties of the reader share.  `SoundCache`: the cache holds rows of
  the file the process opened, each once and at most `MaxRows` of them.  `SoundRead`: what
  is missing is each in one part of one thread at least, and what a thread has read is
  what its part names (`SoundWork`); and the rows of the batch that were cached are
  the youngest (`AtEnd`), which is what lets a batch that fits push out only others.
  The lists of `AffineRowLRU` are folds.  Each one is shown to be what it is meant to be
  by itself: `UsedKeeps` (the rows that are used again go to the end, in the order of
  use, and none is lost), `MissingAre` (each missing row once), `ChunksAre` (the sorted
  parts cover what is missing), `GotIs` (a row is found under its own number in
  whatever order the threads give theirs), `InsertedKeeps` (what goes in stays while
  the batch goes in, if the batch fits).
* `ReportedInv` carries the counts.  `Tallied` is a balance: the buckets of a phase, with
  what the threads of the running lookup have still to count (`Spread`), are what
  the cache has read since the request began, with what it is about to read; a
  thread that is between its read and its write of a bucket is the only one
  that writes it (`Counting`); hits and misses are what was asked for.  The first
  token closes the one phase and opens the other (`EmitTallied`).  `Blank` is a
  request whose cache the collector has not met: nothing is counted, and
  its start is set when it is met.  `FlowInv` says when the collector is there
  and that the cache of an arm is cold for its first request only; `StampInv`
  that the snapshot of the last token is the one the report ends with.  The sums are
  folds too (`Total`): two sums are compared step by step (`TotalPlus`), and the
  parts of a cut list add up to the list (`TotalCut`).

They assume `CaptureAssumption`: no prompt is empty, a step that is scheduled
computes something, and the limits are natural numbers; and `TableAssumption`:
rows are numbers, and the cache, its threads and its thresholds are what
`AffineRowLRU.__init__` accepts.

`OfflineSuiteProofs.tla`, for any schedules into any directories:

| Theorem | Property |
|---|---|
| `SuiteTypeCorrect` | `TypeOK` |
| `OneStoryTold` | `FilesInStep` |
| `PassesAreOfOneLaunch` | `PassIsOneLaunch` |
| `PassesAreDispatched` | `PassMeansDispatched` |

`SInv` is: the ranks are one step apart at most, and a rank that holds an answer
is not ahead (`Pace`); a rank's rows are the labels of its program up to where
it is (`Progress`); the file of the running launch has the same rows, but for a
last step that is not checkpointed (`Saved`); no file is of a later launch
(`Past`); and two files of one launch, this one or an old one, are prefixes of
one another (`Stories`).  That all programs keep every row but perhaps their
last is `ProgramType`, proved from the programs themselves.

`KInv` says what a row is worth.  `Turned`: at each step the candidate's switch is what
the step is of.  It rests on `ProgramLeads`, proved from the programs: a step that
does not set the switch follows one that leaves it right (`Leads`), so that no
experiment runs its baseline with the candidate still on.  `Dispatched` and
`Filed`: the flags of a row in memory, and of one in a file of this launch or
an older one, say whether the step was the candidate's and the kernel took the
rank's tensors.  `Begun` and `Ahead`: a file of two rows is of no later launch
than the other rank's.  Two validated files that are long enough are therefore
of one launch, whichever is the longer; that each validator asks for as much
is shown validator by validator from its own table of rows.

`ModelArtifactProofs.tla`, for any artifact, patch, chunk size, number of blocks
and of commands: `CacheStaysPrefix` proves `CacheIsPrefix`,
`ValidatedStaysRepaired` proves `ValidatedIsRepaired` and `AdmittedStaysPinned`
proves `AdmittedIsPinned`.  The assumptions are those of `ModelArtifact` on its
constants.  The argument:

* `CacheInv` adds to the prefixes that a download at the second range of a tensor
  has the whole first one.  So whoever converts a tensor, `repair` or `validate`,
  converts whole ranges (`RepairInv`: all receipts of the download are there, and
  stay).
* `DigestsAgree`: two files of one length with one `UnpatchedDigest` agree outside the
  patched tensors, for any intervals and chunk size.  The digest is two recursive
  functions, the walk of a chunk over the intervals and the sum over the chunks; each
  is shown to exist first (least counterexample, see below), and then two walks
  are compared from the end of the file to its beginning and two sums from the
  beginning to the end.  `OutsidesAgree` also says that the two pieces of a chunk are
  as long as one another, without which a short piece of one chunk could make
  up for a long one of the next.
* `PrepareInv` and `CopiedInv`: a receipt of `prepare` has the digests of the originals,
  of shards copied whole.  `ValidateInv` and `ValidatedInv`: the shards a validation
  has hashed are the original outside the patch; and what it found inside still holds
  of every shard nobody else wrote since, even while `repair` runs again, because
  `repair` then writes the cells that are there.
* `DiskInv` and `DiskStep`: no modification time is ahead of the clock, no file of the
  replica is of a copy not made yet, and a step leaves a file alone, writes
  it at the present time, or makes a new copy.  With `Stamped` (a fingerprint in
  a seal is older than the clock and of a copy that was made) follows `RowStays`:
  a file that has the fingerprint of a row has not been written since, so the row
  still stands for its bytes.
* `SealInv`, `CheckInv` and `AdmitInv` say this of the seals, of the rows a running
  command holds, and of what was admitted.  `CheckInv` separates a shard that has been
  looked at from one that `verify-full` has read: between the two another process
  may write, and then no file has the fingerprint of that row any more; if none
  did, the bytes that were read are those the fingerprint was taken of.

Only model-checked is

* liveness: `LockAlwaysComesFree`, `DrainEnds`, `StreamEnds`, `DeadlinedOpsEnd`,
  `RunEnds`; and `NobodyStranded`, which is stated with `ENABLED`: the prover has no
  rules for either.

The induction theorems of the library take an operator as a parameter, which no
installed prover can instantiate.  Where an induction over numbers is needed it is
done in first-order form: a nonempty set of naturals has a least element
(`NatMin` in `EngineModesProofs` and `ModelArtifactProofs`, from the well-founded ordering of finite sets), and a
least counterexample is contradicted.  A fold of the community modules is a function
that is chosen; that there is one at all is shown first in the same way (`FoldExists`),
and what it gives is then followed from one prefix of the list to the next.

## 6. What is not modelled

* Contents: how answers are parsed, compared and merged (`pairedChoices`,
  `pairedStream.feed`, `mergePaired...`) is reduced to equal, different or bad.
* `Verify`, the preflight of ports, memory and launcher hashes: one refusal.
* A later `start` clears the bindings of an earlier one.  A launch from before it
  is taken to have arrived, or to be lost, by then (`Precheck`); nothing in the
  code bounds that delay, so the assumption is the model's.
* The disk of the other host, and errors of the clock.
* Of Pi sessions: the ssh kind, direct mode, the model-generation bridge (its
  shutdown is a way `close` may fail), creation, the bounded event log, the
  sandbox's command line, and `manager.ready` / `closing`, which only refuse.  A
  review's diff and the acknowledgement of changed tests are data.  Of one
  apply, `Applied` is the whole transaction of `applyTask`.
* Of downloads: search and listings of the hosts and which URLs are allowed,
  byte counts, rates and the limit of 200 plans.  The disk reserve and an
  administrator who puts other files into the directory are among the failures.
  ETag and Last-Modified are one validator, taken to identify a version of the
  source, as is a hash.  A power loss may cut or lose any partial that is not
  both synced and published under a durable link; a receipt it keeps as last
  renamed.  Directories are taken to survive it: `MkdirAll` (`download.go:500`)
  may make several, and only a file's own is synced (705-709), not its entry in
  the one above.  Empty files, which skip the request, are not in the instances.
* Of the repaired artifact: number formats (one conversion for each tensor), the
  bound on memory, headers of source files beyond their presence.  The time
  between a `stat` and a load, in which nobody checks anything, is the load's.
  Power loss: `atomic_json` renames without a sync, so nothing is claimed of the
  disk after one; a command ends early by a raise or a kill only.
* Of the offline suite: timings, memory counters, the text gates beyond one bit,
  profile contents, and the kernels' arithmetic.  The first barrier of an embedding
  experiment is part of `Generate`.  The comparison of three drafts with two is
  that of two with one; the DSpark comparisons are modelled as far as they judge
  one attempt.  The right answers to all prompts are one kind of token, so
  `AdvicePasses` compares all streams of a rank where
  `validate-ds41-engram-advice.py:285-290` compares those of one prompt, and the
  warmups with its beginning.  No run of the model tells the two apart.
* Of the gate: timings, logits beyond three kinds of token, the packets of
  widths other than two and four.
* Of the captures: tensors, hashes, block ids, slots and the reuse of blocks of the
  sliding window, so neither of the two validators of the KV metadata: what is
  said of that file is what it holds, not that they accept it.  The comparison of
  the files of two ranks
  (both run the same schedule, one is modelled), the json summaries nobody opens
  again, and schedulings the flags of `launch-node.sh` exclude (one sequence, no
  prefix cache, no asynchronous scheduling).  `EngineModes` fixes one
  configuration of the gate while the server runs.
* Of the runners: prompts, scoring, report texts, the resets between performance
  samples, a request to a pair that is off, and the BLOCKED states of a registry
  that nothing reads again.  An exception nobody catches is a `Crash`.  The answer
  `lost` is every end of a collector without a result to judge: also a snapshot of
  resources that fails before the request or after a complete answer
  (`run-ds4-usable-request.py:94,114`).  Gates of `run-ds4-speed-001-product.py`
  that ask the services and not the pair (207, 216, 222) are cases with an answer
  all the same.  `Conclude` writes verdict and registry in one step; a start
  between the two is refused by either.  Two runners at a time are not modelled;
  nor is the temporary file two collectors of one case share, nor a child the
  daily panel leaves behind.
* Of the table's reader: the file format and the conversion of rows, timings,
  page and fault counts, `smaps`; the early returns of `set_engram_advice`
  (rejected, no whole page, no `madvise`), which advise nothing; and `overhead_ns`,
  which several threads add to without a lock, so that it may lose an addition.
* Of an apply: power loss, the checks of paths and symbolic links (a refusal),
  files and directories the user deletes or exchanges, and `makePatch`.
* `perf_profile.py` beyond its recorder, the engine patches, kernel probes, fixtures, recorded
  results, shell controllers and service units: no state of their own that
  outlives a call, or none the modelled parts read.
* The components of section 1 that the plan lists as open: conversations, agent
  tasks, operations, model admission, settings and browser sessions,
  attachments.  Nothing in them is out of TLC's reach.
