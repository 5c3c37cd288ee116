# Verification of Atlas.Chat

TLA+ models of Atlas.Chat, a desktop chat application: a Python service
(`src/src/atlas_local`, "the backend") that talks to local language models, a
React front end (`src/apps/atlas/src`) and a Tauri shell
(`src/apps/atlas/src-tauri`). The models are checked with TLC on small instances
and the central invariants are proved with TLAPS for every instance. Paths below
are relative to `src/src/atlas_local` unless they say otherwise.

## 1. Inventory

| part | state | operations | hard behaviour | what makes it correct |
|---|---|---|---|---|
| Run lifecycle, `api_service.py` | `_pending_runs`, `_active_run_id`, `_cancelled_runs`, `_shutdown_requested` under `_control_lock`; `_worker_wakeup` | `start_chat`, `start_manual_compact`, `cancel_run`, `_worker_loop`, `begin_shutdown`, `close` | API threads, one worker and the closing thread race for the same run; a provider abort closes *every* open request | each run is held by one thread, ends once, is never lost; the abort hits only the cancelled run |
| Run store, `run_store.py` | one encrypted artifact per run, `index.json`, write buffers, sequence counters, profile keys | `create_run`, `append_event`, `mark_run_*`, `*_run_with_event`, `fail_incomplete_runs`, `delete_*`, `reset_all` | two files per update, crash between them, buffered events, recovery at start and at unlock | the first outcome wins; recovery ends every interrupted run exactly once; sequence numbers only grow |
| Run events, `run_contract.py`, `api.py` | bounded queue per subscriber, last delivered sequence | `publish`, `subscribe`, the SSE generator | events published out of order, dropped, coalesced; reconnects | a client sees every event once, in order, and the stream ends |
| Profile gate, `api_service.py` | `_active_profile_operations`, `_mutating_users`, `_global_mutation_active`, `_unlocked_users`, cached keys | `create/unlock/lock_user`, `reset_thread/user/all`, every reader | counters and flags instead of a lock; streams hold a reader for minutes; runs count as holders | a mutation excludes readers, runs and other mutations; who is inside has the key |
| Thread settings, `api_service.py`, `run_store.py` | the index' entry of each thread: model, temperature, title, last run | `_resolve_thread_*`, `create_run`, rename, branch, duplicate, delete | three reads before the lock, one write under it | a thread that has run keeps its model and temperature |
| Compaction, `api_service.py`, `graph/nodes.py` | a thread's messages, summary, `compacted_message_count`, timeline | automatic and manual compaction, prompt building | a helper thread that outlives its deadline; a stop between checkpoint and end; branches | the summary stands for exactly the messages the model is no longer given, and is shorter |
| Model pulls, `model_pulls.py` | `_pulls`, each with a thread, a response and a cancel flag | `start`, `cancel`, `shutdown`, `_run` | late progress after a cancel; a cancel while the request opens | an ended pull stays ended; a cancelled one stops transferring |
| Code runner, `code_runner.py` | `_runs`, `_starting_names`, docker processes, containers, networks, folders | `start`, `stop`, timeout, exit, `shutdown`, cleanup of stale containers | reservation racing shutdown, timeout racing exit, docker failing anywhere | slots are bounded and come back, nothing is left running |
| Runner output, `code_runner.py`, `run_contract.py` | history, byte budget, bounded queues | `_pump_stream`, `_emit`, `subscribe`, the SSE generator | two pumps and one budget; the exit event in a full queue | nothing comes twice, the stream ends |
| GUI runtime, `code_runner.py` | `_state`, the docker image, the build process | `status`, `prepare`, `_build`, `shutdown` | inspections outside the lock overwrite the state | "ready" can be run, "preparing" ends |
| Provider router, `llm.py` | caches of clients, epoch and open responses of each | `chat`, `stream`, `abort_active_requests`, `set_ollama_context_window` | abort while a request opens; a second request after a broken stream | an aborted request yields nothing, another one is not disturbed |
| Profile security, `security.py` | the storage key file and its lock, plaintext and encrypted stores | `get_or_create_storage_key`, `prepare_encrypted_*` | two processes at once; death between two renames | one key for ever; the data is always somewhere |
| HTTP API, `api.py` | none of its own | routes, two SSE streams | disconnects | see run events and runner output |
| Memory, graph, discovery, frontend pages | vector store, catalogues, views | | | not state machines of interest here |
| Desktop shell, `src-tauri/src/lib.rs` | the backend child process | start, health check, stop | crash of the child, second start | one backend at a time |

How they interact: the front end calls the HTTP API; the API calls
`AtlasBackendService` in one thread per request; the service appends to the run
store and publishes on the `RunHub`; the worker thread calls the provider; the
SSE generators read the hub and, when they notice a gap, the store. The code
runner, the model pulls and the GUI runtime have threads of their own and share
nothing with the runs but the HTTP API.

## 2. Modules

| module | what it is |
|---|---|
| `RunArtifact` | the operations of the store on the record of one run, as operators |
| `RunControl` | the run lifecycle: queue, worker, cancellation, shutdown |
| `ProfileLock` | what the profile gate promises: a reader/writer lock over sets of profiles |
| `ProfileGate` | the gate as it is coded: a counter, a set and a flag, and the operations inside it |
| `ProfileRuns` | the composition: the runs of `RunControl` behind the gate of `ProfileGate` |
| `RunFeed` | what the stream of a run promises: every event in order and once, and an end behind the outcome |
| `RunEvents` | the events of a run as pure operators: joining, collapsing, truncating, renumbering, and what a stream has still to send |
| `RunStream` | the events on their way from the threads through store and `RunHub` to the clients |
| `RunRecovery` | artifacts and index on the disk, crashes between two writes, recovery, unlock, deletion |
| `SlotPool` | what the code runner promises about its slots |
| `RunnerPlan` | which network and rights a program gets, as operators |
| `CodeRunner` | the sessions of the code runner, their threads, and docker |
| `RunnerOutput` | the events of one session on their way to its clients |
| `GuiRuntime` | the image of windowed programs and who builds it |
| `ModelPulls` | model downloads |
| `ProviderCalls` | the requests of runs to the model, their clients and their aborts |
| `Compaction` | the messages of threads, their summaries and the prompts made of them |
| `ThreadSettings` | the model, temperature and title of threads |
| `StoreMigration` | the migration of a plaintext store |
| `StorageKey` | the making of the storage key by competing processes |
| `Parts` | the last seven, which share no state, in one specification in which one of them moves |
| `RunControlProofs` | proofs about `RunControl` |
| `ProfileGateProofs` | proofs about `ProfileGate`, the refinement of `ProfileLock` included |
| `ProfileRunsProofs` | proofs about `ProfileRuns`, for which it uses those of its two parts |
| `RunRecoveryProofs` | proofs about `RunRecovery` |
| `CodeRunnerProofs` | proofs about `CodeRunner`, the refinement of `SlotPool` included, and `RunnerOutput` |
| `PartsProofs` | proofs about the seven small modules, and about `Parts` |
| `RunStreamProofs` | proofs about `RunEvents` and `RunStream` |
| `SumLemmas` | lemmas about sums over sequences, for `CodeRunnerProofs` and `PartsProofs` |
| `MC*` | instances for TLC |

One action is one critical section of the lock that guards the state, one call of
a component with a lock of its own, one operation outside any lock (a docker
command, a rename, opening or closing a response), or one step of a thread
between two of those. Beside some definitions stands a faulty variant of the same
name and parameters: what a plausible bug would make of it. Each checked property
fails when one of them is put in place of the definition it stands beside.

### RunControl and the code

| model | code |
|---|---|
| `pending`, `active`, `cancelled`, `shutdownRequested` | `_pending_runs`, `_active_run_id`, `_cancelled_runs`, `_shutdown_requested` |
| `wakeup` | `_worker_wakeup` |
| `artifact[r]` | `runs/<id>.json`: status, error, events |
| `checkpointed` | runs whose `graph.update_state` succeeded |
| `worker` | the worker's place in `_worker_loop` and in the run it executes |
| `requestAborted` | the provider closed the request the worker waits for |
| `starter[r]`, `client[c]`, `closer` | the threads in `_start_run`, `cancel_run`, `begin_shutdown`/`close` |
| `StartRun`, `Enqueue`, `Announce`, `SignalWorker` | `_start_run` |
| `CancelRun`, then `WithdrawQueued` ... `FailWithdrawn`, or `RequestStop`, `ClaimStop`, `RetractStop`/`AbortRequest` | `cancel_run` for a queued and for any other run |
| `WorkerWakes` ... `WorkerIdles` | `_worker_loop`, `_claim_next_job` |
| `LoadStep` ... `ReleaseJob` | `_execute_run`, `_execute_compact_run`, the `finally` of the loop |
| `BeginShutdown` ... `WakeWorker` | `_begin_shutdown_once` |
| `JoinWorker` ... `FailAbandoned` | `_close_once` |

Abstractions:

- A block of consecutive events that only report progress is one "progress"
  event; an error is its cause.
- The steps of a run are a plan (`ChatPlan`, `CompactPlan`). What follows the
  stream up to the checkpoint (extracting and persisting memories, whose storage
  failures the code tolerates) is part of the step "answer"; what the steps do
  to the thread's messages is in `Compaction`.
- The preflight of a start may raise at any time (`RefuseRun`).
- `_close_started` is folded into `shutdownRequested`.
- `ReleaseJob` merges the release of the active slot with the `set` of
  `_worker_wakeup` that follows it: the worker itself consumes that event.
- That a second stage "stopping" is not emitted twice is not tracked: it would be
  the same "progress" block.
- Every profile is open and store calls succeed, except the claim's when
  `ClaimMayFail`; `ProfileRuns` lifts the first restriction, and the second one
  for keys and artifacts that are gone.
- Not in the model: the limit of the answer's size, at which a run aborts its own
  request (`api_service.py:2432`).

### ProfileGate and the code

| model | code |
|---|---|
| `operations`, `mutating`, `resetting` | `_active_profile_operations`, `_mutating_users`, `_global_mutation_active` |
| `unlocked` | `_unlocked_users` |
| `keys` | the store's cached keys of protected profiles |
| `users`, `indexed` | the profiles in the store's index, and whether `index.json` exists |
| `stranded` | history: the unlocked marks that a reset which raised has left without a key |
| `busy` | what `_profile_has_active_runs_locked` answers |
| `thread[t]` | an API thread's operation, its profile and its place in it |
| `EnterOperation`, `Admit`/`RefuseOperation`, `LeaveOperation` | `_profile_operation`, `_ensure_user_unlocked` |
| `EnterMutation`, `LeaveMutation` | `_profile_mutation` |
| `CreateUser`, `BeginUnlock`, `DropKey`, `StoreKey`, `UnlockFails`, `GrantUnlock`, `BeginLock`, `Revoke`, `ForgetKey` | `create_user`, `unlock_user`, `lock_user` of service and store |
| `BeginErase`, `EraseEnds`, `DeleteUser` | `reset_thread`, `reset_user` |
| `EnterReset` ... `LeaveReset` | `_global_mutation`, `reset_all`: `RemoveFiles` is the `rmtree`, `DiscardKeys` and `WriteIndex` are the store's part, `RevokeAll` empties the marks; `ResetRaises` leaves at any point of it |
| `CheckStart`, `DiscardMark`, `Enqueue`, `RefuseStart` | what `start_chat`, `start_manual_compact` and `_start_run` ask of the gate |

Abstractions:

- A password is right or wrong by choice of `StoreKey` or `UnlockFails`.
- Only the keys of protected profiles are in `keys`.
- A refused operation reads and discards the mark in one step: no mutation of that
  profile can come in between, the operation is counted. Where the code calls
  `_ensure_user_unlocked` outside the gate (the start of a run) the read and the
  discard are two steps.
- The `rmtree` of a reset deletes the index or passes over it, by choice.
- `cancel_run` reads the run inside an operation that it leaves at once: one step.

### ProfileRuns

`ProfileRuns` extends `RunControl` and instantiates `ProfileGate` with `busy`
defined from the queue and the active slot, as
`_profile_has_active_runs_locked` defines it. The request that starts run `r` is
thread `r` of the gate. Each of its actions joins an action of one with an action
or a guard of the other. It adds what happens when a store call on a run raises
because the profile's key or the run's artifact is gone: a client forgets the run
(`CancelRaises`), goes by a status it read before (`DecideBlindly`), the shutdown
collects the error and goes on (`QuiesceRaises`), the announcement raises
(`AnnounceRaises`). Erasing removes artifacts, all of them or, when it raises
half-way, some. `close` comes after the last request and stays in `RunControl`.

### RunStream and the code

| model | code |
|---|---|
| `stored`, `buffered`, `counter` | the events in `runs/<id>.json`, `_pending_run_events`, `_next_event_sequences` |
| `subscribers`, `queue` | `RunHub._queues` and the bounded queues in it |
| `publisher[p]` | a thread in `_emit_event` or `_*_run_with_terminal_event` |
| `stream[s]`, `received[s]` | the generator of `_streaming_response`: its `next_sequence`, the event it holds while it reads the store, and what it has sent (`emitted_stream_text`) |
| `produced` | history: what was appended, in order |
| `Stream`, `EmitStage`, `Rewrite`, `Finish`, `FinishAgain` | `append_event` (buffered or written), every other write of the artifact, `_finish_run_with_event` |
| `CopySubscribers`, `Put`, `DropOldest`, `PutAgain` | `RunHub.publish`, `put_bounded_queue` |
| `Subscribe`, `ReadStore`, `TakeEvent`, `TimesOut`, `Disconnect` | the generator |
| `Coalesce`, `Collapse`, `Truncate`, `Compact`, `Renumber`, `Unseen` of `RunEvents` | the functions of `run_store.py` by those names, `_register_event_sequences`, `ordered_unseen_events` |

Abstractions: text is a list of fragments, each named after the place of its
event in `produced`, and the size of a chunk is counted in fragments; events that
are neither text nor terminal are all of kind "stage"; every read renumbers the
events it finds (that it also rewrites the file when it had to is not a step of
its own); whether a token is buffered or written is a choice, as it depends on
time and size. Left out: artifacts of older versions (events without a number,
`stream_snapshot`, a status without its terminal event) and the limit of the
stream's total size.

### RunRecovery and the code

The store's lock is held for a whole operation, so an operation is the sequence
of disk contents it goes through: `writes` holds those to come, `Write` puts the
next one on the `disk`, and `Crash` forgets them, and all memory (`live`, `keys`,
`deferred`). `Create`, `Mark`, `Finish` are the operations on one run, artifact
first and index second (`Save`); `Start` and `Unlock` run `fail_incomplete_runs`
(`RecoverySteps`: each artifact, then the index once; an unreadable artifact is
moved to quarantine and replaced, and both may fail); `Delete` removes the files and
then the rows.

| model | code |
|---|---|
| `disk.artifact`, `disk.index`, `disk.quarantine` | `runs/<id>.json`, the run's row in `runs/index.json`, its files in `runs/quarantine` |
| `disk.indexed` | `runs/index.json` exists: without it no profile or run can be looked up, and the next start makes an empty one (`Found`) |
| `live`, `withdrawn` | the runs of the service, and those of them that `cancel_run` or a shutdown took from the queue and has not failed yet (`Withdraw`) |
| `Gated` | what `_profile_has_active_runs_locked` sees: the queue and the active slot, so no withdrawn run |
| `dropped` | history: withdrawn runs whose failing the store refused (`Drop`), because the profile was locked or the artifact deleted in between |
| `keys`, `deferred` | `_user_keys` of protected profiles, `_deferred_recovery_runs` |
| `resetting`, `BeginReset` ... `ResetRaises` | `_global_mutation`, `reset_all` |
| `disk.torn` | history: the runs of which a reset left a file behind without a row |

A reset takes no lock of the store for its `rmtree`, which deletes one file after the
other, `index.json` among them, in the order of the directory, and passes over what it
cannot delete: `RemoveFile` deletes any one of them, and the process may die between
two. `ResetStore` is what follows: it needs all artifacts gone, may fail to delete a
quarantined file without an error, and writes an empty index. `ResetRaises` is a
failure at any point; the keys may be forgotten by then. Not modelled: a damaged index,
for which every call that reads it raises, and legacy file formats.

### CodeRunner, RunnerPlan and RunnerOutput and the code

| model | code |
|---|---|
| `runs`, `starting`, `shuttingDown`, `ended` (`finished` of `RunnerOutput`) | `_runs`, `_starting_names`, `_shutting_down`, `runner.finished` |
| `phase[s]`, `seen`, `listed` | where a start (or the shutdown) is, and what its cleanup read and found |
| `todo[t]` | what a thread that ends a session has still to do: its own start or exit, a stop, its timeout, the shutdown |
| `client`, `containers`, `networks`, `folders` | the `docker run` process, docker's state, `work_dir` |
| `Reserves`, `CleanUp`, `Prepare`, `Launch`, `Register`, `Abandon` | `start` |
| `RequestStop`, `TimesOut`, `Exits`, `BeginShutdown`, `Swept`, `Work` | `stop`, `_enforce_timeout`, `_wait_for_exit`, `shutdown` |
| `CreateContainer`, `ProgramEnds` | docker: the container appears some time after the process |
| `Plan`, `Network` of `RunnerPlan` | the execution plans: what the scanners find is the input |
| `Bounded`, `Record`, `Put` ... of `RunnerOutput` | `_bounded_events_locked`, `_emit`, `put_bounded_queue` |
| `Decides`, `Announces`, `Kills`, `WaitForExit` | `_enforce_timeout`, `shutdown`, `_wait_for_exit` |
| `Subscribe`, `TakeEvent`, `Disconnect` | `subscribe`, `unsubscribe`, the generator in `api.py` |

`runs` is the set of the registered sessions; `shutdown` ends them one by one, in the
order of `_runs`, which the model leaves open. A docker command succeeds, or fails
without effect (`DockerFails`); a name's labels
do not change; bytes are counted as if characters had one. `Disconnect` happens
while a stream is live. In the code a client that leaves while its history is still
being sent stays subscribed: the `try` whose `finally` unsubscribes begins behind
that loop (`api.py:901`-`917`).

### GuiRuntime, ModelPulls, ProviderCalls and the code

`GuiRuntime`: `runtime` is `_state`; `LookUp`, `Inspect`, `Settle`, `Claim` are
`status` and `prepare`, `Spawn` ... `Conclude` is `_build`, `Halt` is `shutdown`. It
is assumed that the build context can be read: its hash is taken before the
`try` of `_build` (`code_runner.py:2111`), and if that raised, the state would stay
"preparing".

`ModelPulls`: `pulls` is `_pulls` in the order of `updated_at`, `loader[p]` the place
of a pull's thread in `_run`, `registered` the pulls whose `_response` is set,
`closing` what `cancel` closes after it has released the lock. `ReadBreaks` is an
exception that `_run` does not catch (`http.client.IncompleteRead`): the pull stays
"pulling" until somebody cancels it.

`ProviderCalls`: `call[q]` is the worker in `_stream_answer` and
`OpenAICompatibleChat.stream`, `epochs` and `registry` a client's `_abort_epoch` and
`_active_responses`, `cached` is `_chat_models`, `aborter` a thread in `cancel_run` or
`begin_shutdown`, `counter` one that counts a thread's tokens and so may put a client
of an old context window into the cache. A client of Ollama is closed by an abort: its
epoch is compared with the one it was created with.

### Compaction, ThreadSettings, StoreMigration, StorageKey and the code

`Compaction`: `saved[t]` is a thread's checkpoint (messages, summary,
`compacted_message_count`, the compactions in its timeline), `turn` the run and its
working copy, `helpers` the "atlas-compaction" threads. A message is an identity and a
size, a summary the set of identities it was given (`covers`) and a size: that is what
tells a lost or foreign message from a kept one. `BatchEnd` is
`_select_messages_for_compaction`, `Earliest` the binary search of
`_recent_prompt_messages`, `PromptOf` `_build_answer_messages`. Token counts are exact in
the model; the code falls back to estimates.

`ThreadSettings`: `record[t]` is the thread's entry in the index, `starter[s]` a request
in `_start_run` with what it has resolved so far. `overtaken` is a history variable: the
entry was written between its first read and its write.

`StoreMigration`: one store, a file with a log or a folder; a copy is its form and the
parts of the data in it. `StepRaises` runs the `except` clauses (`Restore`),
`DiesMigrating` does not.

`StorageKey`: `LookForKey`, `Acquire`, `LookAgain`, `WriteKey`, `Release` are
`get_or_create_storage_key`; a process that dies leaves its lock file in place, and
nobody removes it: later starts run into the deadline.

## 3. What is checked

| run | instance | what it shows |
|---|---|---|
| `safety` | 2 chat runs, 2 clients, shutdown, any step and the claim may raise | no run is held twice (`ExclusiveOwner`), ended twice (`OneOutcome`) or completed after a recorded cancellation; an abort never hits a run nobody cancels; the inductive invariant of the proofs (`Inductive`), in it that only the active run can be forgotten |
| `liveness` | 1 chat run, 1 compaction, 1 client | no run is lost (`NoOrphanRun`), every accepted run ends, a completed one is in the checkpoint, a closed service has no run left |
| `gate` | 2 profiles (one protected), 3 API threads, resets that raise at any step | the gate counts right, keeps keys under work in progress, and implements `ProfileLock`; a mark without a key is one that a failed reset left (`MarkedHasKey`) |
| `service` | 1 run of 1 protected profile, 1 client, 1 API thread, shutdown | the worker and its queue never meet a run whose key or artifact is gone (`StoreAnswers`); seen from the gate, the runs behave as `ProfileGate` assumes (`GateHolds`) |
| `feed` | 2 publishing threads, 1 client, queue of 1, 3 events | events published out of order, dropped or joined reach the client in order and once, and its stream ends when the run does: `RunStream` implements `RunFeed` |
| `history` | 1 thread, 7 events, a history of 3 | numbers stay gapless and the outcome stays, however the history is compacted; unless it is truncated, so does all text |
| `recovery` | 3 runs of 2 profiles (one protected), 2 faults | artifact and index agree between any two writes (`DiskIsSound`), an outcome on the disk is final, an unfinished run has exactly one who will end it (`RunsAreHeld`), and it ends, unless it was withdrawn and its profile locked or erased before it was failed |
| `runner` | 2 sessions (one with a window), 1 slot, another backend's container, docker failing | `CodeRunner` implements `SlotPool`, leaves nothing behind (`NothingStray`), and every slot comes back |
| `output` | 2 pumps, a budget of 3 bytes, history and queue of 2, 1 client, a timeout | the budget holds, no event comes twice, a stream that lost nothing has all, and ends |
| `parts` | see below | the properties of seven small modules |

`parts` runs `ModelPulls` (2 downloads of 2 models, one at a time, history of one),
`GuiRuntime` (2 requests), `ProviderCalls` (2 calls, 2 windows, a stop and a shutdown),
`Compaction` (2 runs, 2 threads, messages of size 1 and 3), `ThreadSettings` (2 starts of
a thread and its copy), `StoreMigration` (2 faults) and `StorageKey` (3 processes, 2
deaths). They share no state; one of them, chosen at the start, moves. So an invariant of
one holds of all its behaviours, and the run is as large as their sum, not their product.

- `PartsAreSound`: no active download is forgotten and none is left open when its
  thread ends; "preparing" means that a build is under way, "ready" that the image is
  there; a thread that has run has a model; all processes have one storage key, and the
  lock file goes away unless its owner dies. `EndedPullStays`, `CancelStopsTransfer`,
  `PreparationEnds`, `KeyIsKept` add that a late report changes nothing, that a cancelled
  transfer stops, that a preparation ends, and that a key is never replaced.
- `CallsAreSound`: an aborted request is not read on, wherever the abort met it; no answer
  is given twice; every call uses the chosen window. `AbortsOnlyStopped`: nobody else's
  request is disturbed.
- `ThreadIsKept`: what the model is told of a thread is complete, and nothing in it is from
  another thread or the future; the prompt fits; every compaction in force is shown in
  the timeline. `ContextShrinks`: an accepted summary is shorter than what it replaces.
- `LockIsKept`: a start keeps the locked model, temperature and title, unless another write
  came between its reads and its own.
- `DataSurvives`: however often a migration fails or dies, a complete copy is on the disk
  until the recovery copies are purged.

Every property of these runs is also shown to fail when one definition is
replaced by a plausible bug.

Two runs show that something the repository says of the program does not hold:

| run | what happens |
|---|---|
| `v_migration` | a store is swapped by two renames: a process that dies between them leaves nothing at the path, or a file without its log, and the next start opens an empty or incomplete store although a copy exists |
| `v_cleanup` | a cleanup copies the active names and asks docker later: a session that started in between is removed as stale |

More that a reader of the models will notice, in the code as in the model:

- `mark_run_running` raises in `_claim_next_job`, outside the worker's `try`
  (`api_service.py:532`): the worker dies with the run active, and no later run can be
  claimed. `NoOrphanRun` and `ClosedIsSettled` hold only while claims do not raise.
- A stop between the checkpoint and the last check of a manual compaction reports a saved
  compaction as stopped (`api_service.py:2390`).
- A start request that found the profile locked discards the unlocked mark after
  `unlock_user` set it (`api_service.py:1705`).
- A run that a client just withdrew is in neither place the gate looks at
  (`api_service.py:1743`): its profile can be locked, deleted or reset before the run is
  failed, the failing raises, and the run is shown as active until the next start.
  `RunsAreHeld` excepts exactly these runs (`Left`), and `EveryRunEnds` those of them
  without an artifact.
- A reset that raises in the store after the keys are forgotten (`run_store.py:1112`)
  leaves the unlocked marks in place. They open nothing, since
  `_is_profile_accessible` asks for the key as well (`api_service.py:1709`), and giving
  the password makes them good: `MarkedHasKey` says that marks without a key are
  exactly these (`stranded`).
- A reset deletes `index.json` with the other files, in the order of the directory
  (`api_service.py:1931`). If it dies or raises before the rest is gone, files without
  rows remain, which no deletion finds, only the next reset; and a quarantined file that
  cannot be deleted stays while the reset succeeds (`run_store.py:1108`).
  `ContentIsReachable` excepts exactly what such a reset left (`torn`).
- The release notes say that recovery backups of migrated stores are retained
  (`src/docs/releases/v1.2.0.md:21` and `:79`). The code deletes the backup of a
  migration that succeeded (`security.py:505`, `:562`), as
  `src/tests/test_security.py:242` expects; `Clean` does what the code does, and no
  property says which of them is right.
- A history that is collapsed by channel gives fragments other numbers
  (`run_store.py:2071`): a stream that has passed those numbers never sends the fragments
  it lacked.
- `_start_run` announces the run after it released the lock, so the announcement can land
  behind the terminal event; `history` and `feed` include such belated events. A shutdown
  marks the active run as cancelled, so it ends as "Run stopped by user." though no user
  stopped it.
- `put_bounded_queue` drops the oldest event once its first attempt failed, even if there
  is room by then (`run_contract.py:65`). In a runner's stream the exit event can go that
  way, and nothing repeats it: `StreamsEnd` of `RunnerOutput` excepts streams whose
  queue overflowed.
- An inspection of the GUI image that began before a build overwrites "preparing"
  (`code_runner.py:2051`), and the next request starts a second build, although
  the repository's `README.md:283` says that concurrent requests share one.
- `docker rm` may come before `docker run` has created the container
  (`CreateContainer` after `Work`): it stays until the next cleanup.
- A crash inside `create_run` leaves an artifact without a row: `ContentIsReachable`
  excepts it.
- Two starts that read a fresh thread at the same time both go on with their own model;
  the later one's becomes the thread's (`LockIsKept` excepts starts that were overtaken).
- The helper of an aborted compaction goes on until the model answers; its answer is
  dropped with its queue.

Bounds. Constants named `Max...` that bound the model and not the code are `MaxFaults`
(crashes and failures of `RunRecovery` and `StoreMigration`), `MaxDeaths` (`StorageKey`),
`MaxTurns` (`Compaction`), `MaxClients` and `CallCount` (`ProviderCalls`) and `EventBound`
(`RunStream`); everywhere else each request is made once and the state spaces are
finite by themselves. Two runs are the smallest number with a predecessor whose
release, abort or drain can hit a successor; two clients the smallest that can
cancel one run twice. A chat run and a compaction differ only in their plan.
Three API threads give the gate two readers and a mutation, or two mutations and
a reader; two profiles tell what is per profile from what is global. The
composition has one run and one thread because its questions are about one run and
one profile: the queue's behaviour with several runs is checked in `RunControl`,
and the gate's with several threads in `ProfileGate`.

`RunStream` has one client in a run, because clients share nothing but the list of
subscribers. With a queue of one, the second event published before the client
looks is a gap; three events from two threads give a chunk, an event that overtakes
another and an outcome that is dropped, at every turn of the generator. In `feed`
the history is long enough for every event (`MaxEvents` 9), as in nearly every real
run; `history` has a limit of three entries and appends seven, so that it is joined,
collapsed and truncated, before and behind the outcome. `NumbersTile` is not
required once something was appended behind the outcome, which only a worker whose
run a shutdown failed can do: truncation puts the outcome last, and the numbers
around it overlap until the next read; by then every stream has ended.

Two faults are a crash in an operation and another one in its recovery. Two sessions
and one slot make a start wait for another's slot, and have a preview network whose
removal fails while a container is attached. Messages of size 1 and 3 with a budget of 6
give prompts that hold all, some and only the last message, and batches that do and do not
fit; two runs suffice for a late answer of the first to meet the second. Three processes and
two deaths give the storage key one that dies with the lock while two compete.

Symmetry is used where no liveness property is checked. Deadlock is checked in
`gate`, `service` and `recovery`; a closed service in `RunControl` stops for good, and the
other modules come to rest when every request has been made and answered.

Fairness. `RunControl` assumes weak fairness of the threads that are in the
middle of a call: the code has no lock that is held while waiting, so a thread
that can go on is scheduled. A model's answer comes or raises because the
providers have timeouts (`llm.py:151`, `llm.py:193`, `llm.py:340`). Nobody has to
start a run, cancel one or quit. `RunStream` assumes weak fairness of a thread that is
publishing and of a generator that its client keeps open: each of their steps returns,
`subscriber.get` after five seconds at most. Nobody has to append an event or to
subscribe. `RunRecovery` assumes that writes end, that the service finishes the runs it
holds (which `RunControl` shows) and that Atlas is started again after a crash.
`CodeRunner` and `RunnerOutput` assume that threads go on, that docker commands return
(they have timeouts), and that the time of a session runs out; a program need not end.
`ModelPulls` assumes that a response ends or times out (30 seconds), `GuiRuntime` that
`docker build` ends, which nothing in the code bounds. The other modules state safety only.

## 4. What is proved

The theorems hold for every set of runs, clients, profiles, threads, sessions, calls,
requests, downloads and processes, and for any number of crashes and failures. They
assume what the modules' `ASSUME`s say of the constants:

- `RunControl`: compactions are runs, `NoRun` is none.
- `ProfileGate`, `ProfileRuns`: finitely many threads, every run has an owner, protected
  profiles are profiles, and the names of threads, runs and profiles do not clash.
- `RunRecovery`: finitely many runs, each with an owner; protected profiles are profiles.
- `CodeRunner`: finitely many sessions, at least one slot, a session's name is new (the code
  draws it at random).
- `RunnerOutput`: the budget, the history and the queues have room for something, a read is
  not empty, and the threads' names do not clash.
- `RunEvents`, `RunStream`: a chunk holds at least one fragment and a queue one event, a
  history may have two events (an outcome and a marker), and the worker is one of the threads
  that publish. `StreamsInOrder` alone also assumes `EventBound <= MaxEvents`: no more is
  appended than a history may keep, so that it is joined but never collapsed or truncated.
  Beyond that limit the statement is not true of the code: collapsing puts the fragments of a
  channel together, so they are no longer in the order of their production, and gives them
  other numbers (`run_store.py:2071`).
- `Compaction`: there is a thread, messages and summaries have at least one token, and the
  threshold is positive.
- `ProviderCalls`: context windows are positive, and there is one.
- `ModelPulls`: ids are not used twice, and the history is not shorter than the number of
  downloads at once (`MAX_PULL_HISTORY` is 50, and one download runs at a time).
- `GuiRuntime`, `StorageKey`: `NoAsk` is no request, `Free` no process.

**RunControl.** None of the safety properties is inductive alone: that a run has
one outcome rests on who owns it, and that on what the queue holds. `Inductive`
joins `TypeOK`, `OneOutcome` and

- `AbsentUntilEnqueued`: a run exists exactly from its enqueue on, so that an
  enqueue never overwrites an artifact;
- `QueueIsFresh`: the queue has no run twice, and none that anyone touched, so
  that a claim does not turn a finished run into a running one;
- `WorkerIsActive`: the worker executes the active run, and leaves it over;
- `ClientsAreOutside`: what a client withdrew is its alone;
- `DrainedAlone`: so is what a shutdown drained, and the queue stays empty;
- `NothingForgotten`: a live run has an owner or is the active one.

The proof goes by what a step does to one piece of state: lemmas say how an
artifact may change (`StoreStep`), how the queue may (`QueueWriters`), how the
worker, a client and the closer may move (`WorkerStep`, `ClientStep`,
`CloserMoves`), and each conjunct follows from those. `OneOutcome`, `ExclusiveOwner`,
`NoOrphanRun`, `ClosedIsSettled`, `NothingForgotten`, `TerminalIsFinal` (no step
changes the status of a run that is over) and `CancellingNeverCompletes` follow.
`NoRunIsOrphaned` and `CloseSettles` assume that claims do not raise, as they must.

Two more invariants rest on it: `CheckpointFirst` (past the checkpoint step
the run is checkpointed), which gives `CompletedIsCheckpointed`, and
`StopsAreMarked` (a run being stopped stays marked until the worker releases it,
by one client at a time), which gives `AbortsOnlyCancelled`.

**ProfileGate.** `Inductive` joins the checked invariants with `PcsFit` (where an
operation can be), `GateExcludes` (who is inside is alone) and `MarkFollowsKey`
(how marks and keys relate half-way through a mutation or a reset: `MarkedHasKey` only says
it outside of one). Steps are split into passes, which enter or leave the gate, and
walks inside it: a pass changes counters and no secrets, a walk the reverse, and a
walk of one thread leaves the other threads' profiles alone (`WalkLocal`).
`GateIsLock` maps `operations`, `mutating`, `resetting` and `busy` to what each
holder has, and shows every entry to be an `Acquire`, every exit and `RunsEnd` a
`Release`, and every walk a stutter.

**ProfileRuns.** `ProfileGate` lets its environment start and end runs only as
`GateHolds` says, so what is proved of the gate is worth something for the service only if
the runs behave like that. `RunsInductive` says what of the runs matters to the gate:

- `RunFits`: a run in the queue, being executed or on the disk was accepted by the request
  that started it, which therefore stands behind the gate's check; a queued run is as
  created, and neither active nor drained;
- `WorkerFits`: the worker executes the active run, and that is not over before the worker
  says so;
- `ClientFits`, `CloserFits`: a run that a client decided about is out of the queue, one it
  withdrew is not executed, and a shutdown empties the queue for good;
- `CallFits`: the request for a run holds the gate for the run's owner.

It is inductive only together with the gate's `Inductive`: an artifact is erased by a thread
that mutates the profile, which the gate excludes while the profile is busy
(`ErasedAreIdle`). Conversely a step of a run is a step of the gate because the only run
that begins to work does so in `Enqueue`, behind the check (`NoneBegins` of every other
step); most are `RunsEnd` or leave `BusyProfiles` alone. The theorems of `ProfileGateProofs`
are then instantiated for the composition. `StoreAnswers` follows: the profile of a queued or
executed run is busy, and `WorkIsReadable` of the gate says that busy profiles keep
their keys.

**RunRecovery.** `DiskIsSound` speaks of the disk between two writes, so the invariant has to
speak of the writes that are still to come: `Plan` says that every disk content of the
current operation is `Sound`, differs from a fresh disk only on runs that were created, and
loses no outcome of the one before. Then a write or a crash at any place leaves a sound
disk. Each operation is shown to make such a plan, `RecoverySteps` by following its loop over
the artifacts; a reset, which has no plan, deletes one file at a time from a sound disk
(`RemovalKeeps`). `Sound` also says what a disk without an index is: no rows, and whatever is
left is `torn`.

The runs that somebody may still touch are `Held`: those the service has and the dropped ones,
which a client may still mark as cancelling. `LiveIsOpen` says that where the operation leads
to, such a run is unfinished, in its artifact and, if there is an index, in its row;
`DroppedIsLeft` that a dropped one has a password or no file; `GhostsHeld` that at the end of the
operation every active row is held or waits for a password; `UnlockWaits` that while a profile
is being unlocked its runs still wait, so that a failure loses none; `HeldIsSpared` that a
recovery leaves `Held` alone. With `Stopped` they give `RunsAreHeld`; `OutcomeKept` is a
property of a plan's neighbours.

**CodeRunner.** `Owned` is what `SessionsAreSound` says. A session that has lost its slot
may still have a process or a folder as long as a thread is about to remove it, and that is
kept only if it is known which threads have something to do: `Fits` says so for each
phase of a session (a start that is not over has no timeout and no exit behind it, a waiting
exit no other chore, a finished session a dead process). `SlotsAreAPool` shows that a
reservation is a `Take` of `SlotPool`, a start that fails and an exit are a `Give`, the
beginning of a shutdown is a `Close`, and every chore a stutter;
`SlotsAreBounded` follows from it.

**RunnerOutput.** `SessionFits`, `ThreadFits` and `StreamFits` follow an event from the
thread that recorded it through a queue to a client: it is in one of those places, in none
of them twice, and a stream whose session is finished is in no list of subscribers.
`NothingComesTwice` is a part of that. `EndedStreamsHaveAll` needs more: `Complete` (as long as
the pumps may still write, or had ended when the session was finished, everything recorded
since a live stream began is under way to it or has arrived), `ExitIsLast` (then no output
is behind the exit event in a queue) and `Ended`, what the two become when the stream takes
the exit event. `TruncationIsToldOnce` rests on `NotesFit` (there is a note only if
`truncated` is set), and that the budget holds on `Counted` (`bytes` is the sum of what is
recorded); with those `LogStaysSound` is complete.

**RunEvents and RunStream.** What a history tells must survive operators that rebuild it, each
a fold or a recursive function. The lemmas show, of each of them, what it makes of one more
event (`OfKindsMore`, `TextsMore`, `WidthMore`, `CoalesceMore`, `CollapseMore`,
`RenumberMore`), from one argument about equations of that form (`StepsFold`, `FoldInTurn`);
then facts are carried from a history to the one with an event more (`HistoriesFollow`).
`Retells(a, b)` says that a history has the text of another in every channel of text and
its events of every other kind, and that its numbers follow one another to the same end.
Joining retells a history
(`CoalesceRetells`) because the chunk takes the last number of what it joins; collapsing does
(`CollapseRetells`) because the channels of a stretch together are as wide as the stretch.
`TruncateKeeps` adds what the limit leaves, and the three give `CompactKeeps`.
In the store the invariant is `StoreInv`: the file keeps its limit, and `Faithful(Artifact,
produced, counter)`. That is more than `NumbersTile` and `HistoryIsKept`: it has to say that
there is at most one outcome, and that nothing is behind it unless something was said
belatedly (`Closing`), for otherwise the outcome, which a truncation moves to the end, would
leave a gap. Each append, write and read of the store keeps it (`FreshFaithful`, `WriteFaithful`,
`SyncFaithful`), and `StoreTiles` and `StoreKeeps` lead back to the checked properties:
`HistoryStaysSound`. `FeedStaysSound` adds `FeedTyped`, the types of queues, threads and
streams; what a stream has unseen is typed by following `send` event by event.

That the streams implement `RunFeed` (`StreamsInOrder`) needs to know what the numbers stand
for. The k-th event that is produced carries the number k as its text, so the text of a range
of numbers is a run of them (`Run`), and `Said(p, k, n)` is what was said of kind k before
number n. `PlainStore` says that every event of a history that is not collapsed is the run of
its range and all of one kind (`Tells`), and that the next number is one more than the events
produced; joining keeps that (`CoalescePlain`), and collapsing cannot happen while there is room
for every event. `EventsKnown` says that whatever is with a publishing thread, in a queue or held
back by a stream was produced, and so is in the store and below the next number: an event that
came too early is never sent twice. `FeedFollows` is what a client relies on: waiting for
number n, it got the runs before n, by channel as well, and the outcome only if it is
among them (`Follows`). Reading the store keeps it because the text of a channel
up to an event extends what was sent of it (`SentExtended`), and the rest is exactly the run
from where the stream stands (`RestIs`, `UnseenFollows`), wherever inside a joined range that is;
an event of the queue keeps it because it is the one that is waited for (`FollowsMore`).
A step is then a `Produce`, a `Deliver` or a stutter of `RunFeed`.

**Compaction.** `TextFits` is the heart: the summary of a thread, and of the working copy of
the run, covers exactly its first `count` messages. `CopyFits` says that the working copy is
what is saved and the messages of this run, so that a `save` loses nothing; `HelpersFit` that
an answer in the run's own queue covers exactly the messages up to the end of its batch, so
that a late answer of another run, thread or call never reaches a summary; `SummaryFits` that the
copy's summary is the saved one or shorter, and `PromptIsBuilt` that the prompt being
answered was made of the copy as it is. `PromptFits` also needs that the binary search of
`_recent_prompt_messages` finds a suffix that fits if one does: `Found` is its loop invariant,
`Upward` says that what fits stays fitting when messages are left out, which is a property of
sums (`SizesOfPart`). `ContextOnlyShrinks` follows from `SummaryFits` and the
comparison with which an answer is accepted.

**SumLemmas.** `FoldLeft` is a function defined by recursion, which for the prover is a
`CHOOSE`. The lemmas show that exactly one function meets its equation, so that a sum is what
one expects: one more element adds its size, the sum of a part is not larger than the whole.
Induction over a natural number is done with sets of numbers (`NumbersFollow`, from the
library's `WFMin`).

**StorageKey.** `KeyIsKept` is not inductive: `MakerHasLock` (a process that makes the key
has the lock) and `WritesFirst` (it writes only while there is no key) are needed, the
latter because nobody else can write between its second look and its rename. They hold
for any number of deaths, since a process that dies leaves the lock in place. `LockIsOwned`
adds that only a death does: whatever else fails, the lock file goes away.

**StoreMigration.** `CopiesFit` lists what copies there are at each stage and that they hold
what the disk held, `DataFits` where the data is as long as nobody died, and `LeftFits` that
the complete copies a dead process left are still there when the next one starts: so
`CopyRemains` holds, until the recovery copies are purged. That the next start also finds the
copy is not proved, because it does not: see the run `v_migration`.

**ProviderCalls.** `CallFits` ties what a call has (client, epoch, response, what it has
yielded) to where it is. `ResponseFits` is the heart: a response being read is in the
registry of the call's client, and if the client was aborted since the call began, an
aborter has the response in its hands and will close it. So no call can begin to read after
an abort without seeing the new epoch. `AborterFits` says that an abort is of the active
call, which gives `AbortsOnlyStopped`.

**ThreadSettings.** `ReadsHold`: as long as nobody overtook a start, what it has read of its
thread still is what the thread has. A write of another request to the thread sets
`overtaken`, all others leave the thread alone. `ThreadsHaveModels` is a part of its types.

**GuiRuntime, ModelPulls.** `RuntimeIsWhatItSays` needs that an inspection which found the
image is never outdated (nothing removes it) and that a docker build has a thread that
waits for it. `NoTransferIsLeft` and `EndedPullsStay` need that only an ended or cancelled
download is past the loop that reads, and that a response is open or registered only while
its thread is there. `PullsTypeCorrect` needs `HistoryFits`: the history names no download
twice, so its length is the number of its downloads. If it is full while there is room for one
more, some of them must have ended, since it is not shorter than the number that may be
active; so pruning makes room and forgets no active one.

**Parts.** A step of the joint specification is a step of one part and a stutter of the others
(`PartsStep`), so it implements the specification of each (`PartsAreTheirParts`), and
what is proved of a part alone holds in it: `PartsStaySound`.

The proofs changed the models in a few places. `EndPull` had a `CASE` whose guards overlapped,
which TLA+ leaves undetermined and TLC resolves by taking the first; it is an `IF` now, as in
the code. The registry of `CodeRunner` was a sequence of which nothing but the order of the
shutdown depended; it is a set now, and that order is left open. Others were put into a form, of the same value, that the
provers can expand, since a filter (`SelectSeq`) is built into the prover without one: the
list of `RunnerOutput`'s subscribers loses its first occurrence of a stream, as with
`list.remove`; `RunEvents` selects the events of some kinds with a recursive function
(`OfKinds`), and what `Unseen` sends is a recursive function of the places of the artifact; the
history of `ModelPulls` loses one place at a time; the binary search is a function of a triple.

Only model-checked:

- liveness (`EveryRunEnds`, `StreamsEnd`, `SlotsComeBack`, `CancelStopsTransfer`,
  `PreparationEnds`, and the others in the cfgs), which is out of the proof system's reach,
  as is `ENABLED`;
- the two runs that show a disagreement.

## 5. Not modelled

- Cryptographic primitives, the platform's secret stores, prompts, the selection of
  memories, vector search, the discovery catalogues: data or I/O without protocol state.
- The front end and the desktop shell: reconnects and duplicate suppression in
  TypeScript, start and stop of the backend process in Rust. The backend's side of both
  is in `RunStream` and `RunControl`.
- Artifacts and indexes of older versions, which are converted at reading, and a damaged
  index, with which no call succeeds that reads it.
- A runner session's standard input, the proxy of previews, the scanners of program text
  and the scripts that run in the container.
- The exact byte and token arithmetic (estimates, multi-byte characters).
