----------------------------- MODULE RunControl -----------------------------
(***************************************************************************)
(* The run lifecycle of AtlasBackendService: API threads start and cancel  *)
(* runs, one worker thread executes them one at a time, and a shutdown     *)
(* quiesces both.  An action is one critical section of _control_lock, one *)
(* call of RunStore (atomic under the store's own lock), or one step of    *)
(* the worker between two of those.                                        *)
(*                                                                         *)
(* Profiles, thread locks and the persistence of the artifacts are the     *)
(* business of other modules: here every profile is unlocked and a store   *)
(* call succeeds, except the claim's, which ClaimMayFail lets raise.       *)
(***************************************************************************)
EXTENDS RunArtifact, SequencesExt

CONSTANTS
  Runs,          \* every run the service may be asked to start
  Compacts,      \* those of mode "compact"; the others are of mode "chat"
  Clients,       \* API threads that cancel runs
  NoRun,
  ClaimMayFail   \* may mark_run_running raise while a job is claimed?

ASSUME RunsAssumption == /\ Compacts \subseteq Runs
                         /\ NoRun \notin Runs
                         /\ ClaimMayFail \in BOOLEAN

VARIABLES
  pending,            \* _pending_runs
  active,             \* _active_run_id
  cancelled,          \* _cancelled_runs
  shutdownRequested,  \* _shutdown_requested
  wakeup,             \* _worker_wakeup is set
  artifact,           \* RunStore: the artifact of each run
  checkpointed,       \* runs whose graph.update_state took effect
  worker,             \* the worker thread
  requestAborted,     \* the provider closed the worker's current request
  starter,            \* the API thread that starts each run
  client,             \* the API threads that cancel
  closer              \* the thread in begin_shutdown and close

control == <<pending, active, cancelled, shutdownRequested>>
store   == <<artifact, checkpointed>>
thread  == <<worker, requestAborted>>
vars    == <<control, wakeup, store, thread, starter, client, closer>>

-----------------------------------------------------------------------------
(* What the worker does for a run, in order.  "check" is                   *)
(* _raise_if_cancelled, "report" appends progress events.  "work" is what  *)
(* precedes the answer (memory retrieval, automatic compaction) or the     *)
(* summary of a manual compaction; "answer" is the model's stream and what *)
(* follows it (memory extraction and persistence, whose storage failures   *)
(* are tolerated).  Both have model requests open.                         *)

\* Faulty variant: the answer is announced before it is saved.
PlanCompletingFirst == <<"load", "check", "report", "work", "check", "answer",
                         "check", "complete", "checkpoint">>

ChatPlan    == <<"load", "check", "report", "work", "check", "answer", "check",
                 "checkpoint", "complete">>
CompactPlan == <<"load", "check", "report", "work", "check", "report",
                 "checkpoint", "check", "complete">>

Plan(r) == IF r \in Compacts THEN CompactPlan ELSE ChatPlan

ModelSteps  == {"work", "answer"}
FaultySteps == {"load", "work", "answer", "checkpoint"}

Job  == worker.job
Step == Plan(Job)[worker.step]

Executing(steps) == worker.pc = "run" /\ Step \in steps

NoCall        == [pc |-> "ready", run |-> NoRun]
IdleWorker    == [pc |-> "wait", job |-> NoRun, step |-> 1, error |-> "none"]
WorkerAlive   == worker.pc \notin {"exited", "dead"}

\* abort_active_requests: the request the worker waits for, if any, will raise.
AbortOpenRequest == requestAborted' = (requestAborted \/ Executing(ModelSteps))

\* _ensure_worker_started replaces a worker thread that died.
EnsureWorker == worker' = IF WorkerAlive THEN worker ELSE IdleWorker

-----------------------------------------------------------------------------
Init ==
  /\ pending = <<>>
  /\ active = NoRun
  /\ cancelled = {}
  /\ shutdownRequested = FALSE
  /\ wakeup = FALSE
  /\ artifact = [r \in Runs |-> Absent]
  /\ checkpointed = {}
  /\ worker = IdleWorker
  /\ requestAborted = FALSE
  /\ starter = [r \in Runs |-> "new"]
  /\ client = [c \in Clients |-> NoCall]
  /\ closer = [pc |-> "open", active |-> NoRun, pending |-> <<>>]

SetArtifact(r, a) == artifact' = [artifact EXCEPT ![r] = a]
Report(r)         == SetArtifact(r, WithProgress(artifact[r]))

StarterAt(r, from, to) ==
  /\ starter[r] = from
  /\ starter' = [starter EXCEPT ![r] = to]

-----------------------------------------------------------------------------
(* Faulty variants of the actions below: each one is a slip the code could *)
(* have, and breaks a property of this module.                             *)

EnqueueUnchecked(r) ==  \* the blocked check is not repeated under the lock
  /\ StarterAt(r, "preflight", "announce")
  /\ SetArtifact(r, Created)
  /\ cancelled' = cancelled \ {r}
  /\ pending' = Append(pending, r)
  /\ UNCHANGED <<active, shutdownRequested, wakeup, checkpointed, thread,
                 client, closer>>

WithdrawWithoutPop(c) ==  \* the job stays in _pending_runs
  /\ client[c].pc = "decide"
  /\ \E i \in DOMAIN pending : pending[i] = client[c].run
  /\ client' = [client EXCEPT ![c].pc = "withdrawn"]
  /\ UNCHANGED <<control, wakeup, store, thread, starter, closer>>

AbortUnguarded(c) ==  \* aborts without looking at the active run
  /\ client[c].pc = "abort"
  /\ AbortOpenRequest
  /\ client' = [client EXCEPT ![c] = NoCall]
  /\ UNCHANGED <<control, wakeup, store, worker, starter, closer>>

IdleClearsEvent ==  \* the event is cleared before waiting, not after
  /\ worker.pc = "idle"
  /\ worker' = [worker EXCEPT !.pc = IF shutdownRequested THEN "exited" ELSE "wait"]
  /\ wakeup' = FALSE
  /\ UNCHANGED <<control, store, starter, client, closer, requestAborted>>

DrainForgets ==  \* the queue is cleared before it is copied
  /\ closer.pc = "open"
  /\ shutdownRequested' = TRUE
  /\ closer' = [pc |-> "drain", active |-> active, pending |-> <<>>]
  /\ pending' = <<>>
  /\ cancelled' = cancelled \union ({active} \ {NoRun})
  /\ UNCHANGED <<active, wakeup, store, thread, starter, client>>

-----------------------------------------------------------------------------
(* _start_run: preflight, enqueue under the lock, then announce.           *)

StartRun(r) ==
  /\ ~shutdownRequested
  /\ StarterAt(r, "new", "preflight")
  /\ EnsureWorker
  /\ UNCHANGED <<control, wakeup, store, client, closer, requestAborted>>

\* The preflight raises, or the second check finds the service closing.
RefuseRun(r) ==
  /\ StarterAt(r, "preflight", "refused")
  /\ UNCHANGED <<control, wakeup, store, thread, client, closer>>

Enqueue(r) ==
  /\ ~shutdownRequested
  /\ StarterAt(r, "preflight", "announce")
  /\ SetArtifact(r, Created)
  /\ cancelled' = cancelled \ {r}
  /\ pending' = Append(pending, r)
  /\ UNCHANGED <<active, shutdownRequested, wakeup, checkpointed, thread,
                 client, closer>>

\* The "run_queued" event, when something is ahead, and the stage "queued".
Announce(r) ==
  /\ StarterAt(r, "announce", "signal")
  /\ Report(r)
  /\ UNCHANGED <<control, wakeup, checkpointed, thread, client, closer>>

SignalWorker(r) ==
  /\ StarterAt(r, "signal", "returned")
  /\ wakeup' = TRUE
  /\ UNCHANGED <<control, store, thread, client, closer>>

-----------------------------------------------------------------------------
(* cancel_run                                                              *)

ClientGoes(c, pc) == client' = [client EXCEPT ![c].pc = pc]
ClientReturns(c)  == client' = [client EXCEPT ![c] = NoCall]

CancelRun(c, r) ==
  /\ client[c].pc = "ready"
  /\ ~shutdownRequested
  /\ artifact[r].status # "absent"
  /\ client' = [client EXCEPT ![c] = [pc |-> "decide", run |-> r]]
  /\ EnsureWorker
  /\ UNCHANGED <<control, wakeup, store, starter, closer, requestAborted>>

\* The run is still queued: the client takes it out of the queue, and alone
\* answers for it from here on.
WithdrawQueued(c) ==
  LET r == client[c].run IN
  /\ client[c].pc = "decide"
  /\ active # r
  /\ \E i \in DOMAIN pending :
       /\ pending[i] = r
       /\ pending' = RemoveAt(pending, i)
  /\ cancelled' = cancelled \ {r}
  /\ ClientGoes(c, "withdrawn")
  /\ UNCHANGED <<active, shutdownRequested, wakeup, store, thread, starter,
                 closer>>

NotQueued(r) == active = r \/ \A i \in DOMAIN pending : pending[i] # r

\* The run is over, or another client is cancelling it already.
NothingToCancel(c) ==
  LET r == client[c].run IN
  /\ client[c].pc = "decide"
  /\ NotQueued(r)
  /\ IsTerminal(artifact[r]) \/ r \in cancelled
  /\ ClientReturns(c)
  /\ UNCHANGED <<control, wakeup, store, thread, starter, closer>>

RequestStop(c) ==
  LET r == client[c].run IN
  /\ client[c].pc = "decide"
  /\ NotQueued(r)
  /\ ~IsTerminal(artifact[r]) /\ r \notin cancelled
  /\ cancelled' = cancelled \union {r}
  /\ ClientGoes(c, "claim")
  /\ UNCHANGED <<pending, active, shutdownRequested, wakeup, store, thread,
                 starter, closer>>

EmitStopping(c) ==
  /\ client[c].pc = "withdrawn"
  /\ Report(client[c].run)
  /\ ClientGoes(c, "fail")
  /\ UNCHANGED <<control, wakeup, checkpointed, thread, starter, closer>>

FailWithdrawn(c) ==
  LET r == client[c].run IN
  /\ client[c].pc = "fail"
  /\ SetArtifact(r, Finish(artifact[r], "failed", "stopped"))
  /\ ClientReturns(c)
  /\ UNCHANGED <<control, wakeup, checkpointed, thread, starter, closer>>

ClaimStop(c) ==
  LET r == client[c].run IN
  /\ client[c].pc = "claim"
  /\ SetArtifact(r, MarkCancellingWithEvent(artifact[r]))
  /\ ClientGoes(c, IF IsTerminal(artifact[r]) THEN "retract" ELSE "abort")
  /\ UNCHANGED <<control, wakeup, checkpointed, thread, starter, closer>>

\* The run finished before the claim.
RetractStop(c) ==
  /\ client[c].pc = "retract"
  /\ cancelled' = cancelled \ {client[c].run}
  /\ ClientReturns(c)
  /\ UNCHANGED <<pending, active, shutdownRequested, wakeup, store, thread,
                 starter, closer>>

\* abort_active_requests closes every open request, whoever owns it: the
\* check that the run is still the active one shares its critical section.
AbortRequest(c) ==
  /\ client[c].pc = "abort"
  /\ IF active = client[c].run THEN AbortOpenRequest ELSE UNCHANGED requestAborted
  /\ ClientReturns(c)
  /\ UNCHANGED <<control, wakeup, store, worker, starter, closer>>

-----------------------------------------------------------------------------
(* _worker_loop: wait, clear the event, then claim until nothing is left.  *)

WorkerGoes(from, to) ==
  /\ worker.pc = from
  /\ worker' = [worker EXCEPT !.pc = to]

WorkerWakes ==
  /\ wakeup
  /\ WorkerGoes("wait", "woken")
  /\ UNCHANGED <<control, wakeup, store, starter, client, closer,
                 requestAborted>>

WorkerClears ==
  /\ WorkerGoes("woken", "claim")
  /\ wakeup' = FALSE
  /\ UNCHANGED <<control, store, starter, client, closer, requestAborted>>

Claimable == ~shutdownRequested /\ active = NoRun /\ pending # <<>>

ClaimJob ==
  /\ worker.pc = "claim"
  /\ Claimable
  /\ pending' = Tail(pending)
  /\ active' = Head(pending)
  /\ SetArtifact(Head(pending), MarkRunning(artifact[Head(pending)]))
  /\ worker' = [IdleWorker EXCEPT !.pc = "run", !.job = Head(pending)]
  /\ UNCHANGED <<cancelled, shutdownRequested, wakeup, checkpointed, starter,
                 client, closer, requestAborted>>

\* mark_run_running raises after the job left the queue: nothing in the loop
\* catches it, and the worker thread ends with the run still active.
ClaimRaises ==
  /\ ClaimMayFail
  /\ worker.pc = "claim"
  /\ Claimable
  /\ pending' = Tail(pending)
  /\ active' = Head(pending)
  /\ worker' = [worker EXCEPT !.pc = "dead"]
  /\ UNCHANGED <<cancelled, shutdownRequested, wakeup, store, starter, client,
                 closer, requestAborted>>

ClaimNothing ==
  /\ ~Claimable
  /\ WorkerGoes("claim", "idle")
  /\ UNCHANGED <<control, wakeup, store, starter, client, closer,
                 requestAborted>>

WorkerIdles ==
  /\ WorkerGoes("idle", IF shutdownRequested THEN "exited" ELSE "wait")
  /\ UNCHANGED <<control, wakeup, store, starter, client, closer,
                 requestAborted>>

-----------------------------------------------------------------------------
(* _execute_run and _execute_compact_run, one step of the plan at a time.  *)

Advance == /\ worker' = [worker EXCEPT !.step = @ + 1]
           /\ requestAborted' = FALSE

\* The run's own error, or the user's stop when the run is marked by then.
FailsWith(error) ==
  /\ worker' = [worker EXCEPT !.pc = "fail",
                  !.error = IF Job \in cancelled THEN "stopped" ELSE error]
  /\ requestAborted' = FALSE

LoadStep ==
  /\ Executing({"load"})
  /\ Advance
  /\ UNCHANGED <<control, wakeup, store, starter, client, closer>>

ReportStep ==
  /\ Executing({"report"})
  /\ Report(Job)
  /\ Advance
  /\ UNCHANGED <<control, wakeup, checkpointed, starter, client, closer>>

\* The model answers, unless its request was closed meanwhile.
ModelStep ==
  /\ Executing(ModelSteps)
  /\ ~requestAborted
  /\ Report(Job)
  /\ Advance
  /\ UNCHANGED <<control, wakeup, checkpointed, starter, client, closer>>

CheckStep ==
  /\ Executing({"check"})
  /\ IF Job \in cancelled THEN FailsWith("stopped") ELSE Advance
  /\ UNCHANGED <<control, wakeup, store, starter, client, closer>>

CheckpointStep ==
  /\ Executing({"checkpoint"})
  /\ checkpointed' = checkpointed \union {Job}
  /\ Advance
  /\ UNCHANGED <<control, wakeup, artifact, starter, client, closer>>

CompleteStep ==
  /\ Executing({"complete"})
  /\ SetArtifact(Job, Finish(artifact[Job], "completed", "none"))
  /\ worker' = [worker EXCEPT !.pc = "release"]
  /\ UNCHANGED <<control, wakeup, checkpointed, starter, client, closer,
                 requestAborted>>

StepRaises ==
  /\ Executing(FaultySteps)
  /\ FailsWith("raised")
  /\ UNCHANGED <<control, wakeup, store, starter, client, closer>>

RecordFailure ==
  /\ WorkerGoes("fail", "release")
  /\ SetArtifact(Job, Finish(artifact[Job], "failed", worker.error))
  /\ UNCHANGED <<control, wakeup, checkpointed, starter, client, closer,
                 requestAborted>>

\* The finally clause; the event it sets is consumed by the worker itself.
ReleaseJob ==
  /\ worker.pc = "release"
  /\ worker' = [IdleWorker EXCEPT !.pc = "claim"]
  /\ active' = IF active = Job THEN NoRun ELSE active
  /\ cancelled' = cancelled \ {Job}
  /\ wakeup' = TRUE
  /\ UNCHANGED <<pending, shutdownRequested, store, starter, client, closer,
                 requestAborted>>

-----------------------------------------------------------------------------
(* begin_shutdown, then close.                                             *)

CloserGoes(from, to) ==
  /\ closer.pc = from
  /\ closer' = [closer EXCEPT !.pc = to]

BeginShutdown ==
  /\ closer.pc = "open"
  /\ shutdownRequested' = TRUE
  /\ closer' = [pc |-> "drain", active |-> active, pending |-> pending]
  /\ pending' = <<>>
  /\ cancelled' = cancelled \union ({active} \ {NoRun})
  /\ UNCHANGED <<active, wakeup, store, thread, starter, client>>

FailDrained ==
  /\ closer.pc = "drain"
  /\ closer.pending # <<>>
  /\ LET r == Head(closer.pending)
     IN  SetArtifact(r, Finish(artifact[r], "failed", "shutdown"))
  /\ closer' = [closer EXCEPT !.pending = Tail(@)]
  /\ UNCHANGED <<control, wakeup, checkpointed, thread, starter, client>>

QuiesceActive ==
  /\ closer.pending = <<>>
  /\ closer.active # NoRun
  /\ CloserGoes("drain", "abort")
  /\ SetArtifact(closer.active, MarkCancelling(artifact[closer.active]))
  /\ UNCHANGED <<control, wakeup, checkpointed, thread, starter, client>>

NoActiveToQuiesce ==
  /\ closer.pending = <<>>
  /\ closer.active = NoRun
  /\ CloserGoes("drain", "wake")
  /\ UNCHANGED <<control, wakeup, store, thread, starter, client>>

AbortActive ==
  /\ CloserGoes("abort", "wake")
  /\ AbortOpenRequest
  /\ UNCHANGED <<control, wakeup, store, worker, starter, client>>

WakeWorker ==
  /\ CloserGoes("wake", "quiesced")
  /\ wakeup' = TRUE
  /\ UNCHANGED <<control, store, thread, starter, client>>

JoinWorker ==
  /\ closer.pc = "quiesced"
  /\ closer' = [closer EXCEPT !.pc = "join", !.active = active]
  /\ UNCHANGED <<control, wakeup, store, thread, starter, client>>

\* The worker thread ended: databases, memory and keys are closed.
CloseResources ==
  /\ ~WorkerAlive
  /\ CloserGoes("join", "closed")
  /\ UNCHANGED <<control, wakeup, store, thread, starter, client>>

\* WORKER_SHUTDOWN_TIMEOUT_SECONDS pass: the resources stay open.
JoinTimesOut ==
  /\ WorkerAlive
  /\ CloserGoes("join", IF closer.active = NoRun THEN "left" ELSE "abandon")
  /\ UNCHANGED <<control, wakeup, store, thread, starter, client>>

FailAbandoned ==
  /\ CloserGoes("abandon", "left")
  /\ SetArtifact(closer.active,
                 Finish(artifact[closer.active], "failed", "shutdown"))
  /\ UNCHANGED <<control, wakeup, checkpointed, thread, starter, client>>

-----------------------------------------------------------------------------
Starting(r) == RefuseRun(r) \/ Enqueue(r) \/ Announce(r) \/ SignalWorker(r)

Cancelling(c) == \/ WithdrawQueued(c)
                 \/ NothingToCancel(c)
                 \/ RequestStop(c)
                 \/ EmitStopping(c)
                 \/ FailWithdrawn(c)
                 \/ ClaimStop(c)
                 \/ RetractStop(c)
                 \/ AbortRequest(c)

Waiting == \/ WorkerWakes
           \/ WorkerClears
           \/ ClaimJob
           \/ ClaimRaises
           \/ ClaimNothing
           \/ WorkerIdles

Executes == \/ LoadStep
            \/ ReportStep
            \/ ModelStep
            \/ CheckStep
            \/ CheckpointStep
            \/ CompleteStep
            \/ StepRaises
            \/ RecordFailure
            \/ ReleaseJob

Closing == \/ FailDrained
           \/ QuiesceActive
           \/ NoActiveToQuiesce
           \/ AbortActive
           \/ WakeWorker
           \/ JoinWorker
           \/ CloseResources
           \/ JoinTimesOut
           \/ FailAbandoned

Next == \/ \E r \in Runs : StartRun(r) \/ Starting(r)
        \/ \E c \in Clients : Cancelling(c) \/ \E r \in Runs : CancelRun(c, r)
        \/ Waiting
        \/ Executes
        \/ BeginShutdown
        \/ Closing

\* Threads that are in the middle of a call go on; nobody has to start a run,
\* to cancel one or to quit Atlas.
Fairness == /\ \A r \in Runs : WF_vars(Starting(r))
            /\ \A c \in Clients : WF_vars(Cancelling(c))
            /\ WF_vars(Waiting)
            /\ WF_vars(Executes)
            /\ WF_vars(Closing)

Spec == Init /\ [][Next]_vars /\ Fairness

-----------------------------------------------------------------------------
(* Properties                                                              *)

WorkerPcs  == {"wait", "woken", "claim", "idle", "run", "fail", "release",
               "exited", "dead"}
StarterPcs == {"new", "preflight", "refused", "announce", "signal",
               "returned"}
ClientPcs  == {"ready", "decide", "withdrawn", "fail", "claim", "retract",
               "abort"}
CloserPcs  == {"open", "drain", "abort", "wake", "quiesced", "join",
               "abandon", "left", "closed"}

\* Every variable has its type: a status, event or error that RunStore does
\* not know, or a queue entry that is no run, would be a broken handler.
TypeOK ==
  /\ pending \in Seq(Runs)
  /\ active \in Runs \union {NoRun}
  /\ cancelled \subseteq Runs
  /\ shutdownRequested \in BOOLEAN
  /\ wakeup \in BOOLEAN
  /\ artifact \in [Runs -> Artifact]
  /\ checkpointed \subseteq Runs
  /\ worker \in [pc : WorkerPcs, job : Runs \union {NoRun}, step : 1 .. 9,
                 error : Errors]
  /\ starter \in [Runs -> StarterPcs]
  /\ client \in [Clients -> [pc : ClientPcs, run : Runs \union {NoRun}]]
  /\ closer \in [pc : CloserPcs, active : Runs \union {NoRun},
                 pending : Seq(Runs)]
  /\ requestAborted \in BOOLEAN

\* However many threads try to finish a run (the worker, a cancelling client,
\* the shutdown), its artifact holds exactly one terminal event once the run
\* is over, none before, and the event says what the status says.
OneOutcome == \A r \in Runs : SingleOutcome(artifact[r])

\* Whoever must still bring run r to its end.
Busy            == worker.pc \in {"run", "fail", "release"}
WorkerOwns(r)   == Busy /\ Job = r
QueueOwns(r)    == \E i \in DOMAIN pending : pending[i] = r
ClientOwns(c, r) == client[c].pc \in {"withdrawn", "fail"} /\ client[c].run = r
CloserOwns(r)   == \E i \in DOMAIN closer.pending : closer.pending[i] = r

Owned(r) == \/ WorkerOwns(r)
            \/ QueueOwns(r)
            \/ \E c \in Clients : ClientOwns(c, r)
            \/ CloserOwns(r)

\* A run that was accepted and is not over is never forgotten: the queue, the
\* worker, the client that withdrew it or the shutdown that drained it still
\* holds it.
NoOrphanRun == \A r \in Runs : IsLive(artifact[r]) => Owned(r)

\* Taking a run out of the queue is exclusive: a run that a client withdrew
\* or a shutdown drained is neither queued nor executed, nor withdrawn twice.
ExclusiveOwner ==
  \A r \in Runs :
    /\ QueueOwns(r) => ~WorkerOwns(r) /\ ~CloserOwns(r)
    /\ WorkerOwns(r) => ~CloserOwns(r)
    /\ \A c \in Clients : ClientOwns(c, r) =>
         /\ ~QueueOwns(r) /\ ~WorkerOwns(r) /\ ~CloserOwns(r)
         /\ \A d \in Clients : ClientOwns(d, r) => d = c

\* No handler takes back the outcome of a run: neither a late cancellation nor
\* the claim's unconditional "running" nor the shutdown's "cancelling".
TerminalIsFinal ==
  [][\A r \in Runs : IsTerminal(artifact[r]) =>
       artifact'[r].status = artifact[r].status]_vars

\* Once the store has recorded a cancellation, the worker that is about to
\* complete the run can only fail it.
CancellingNeverCompletes ==
  [][\A r \in Runs : artifact[r].status = "cancelling" =>
       artifact'[r].status # "completed"]_vars

\* abort_active_requests closes the requests of whichever run is executing;
\* it only ever hits a run that is being cancelled, never its successor.
AbortsOnlyCancelled ==
  [][requestAborted' /\ ~requestAborted => Job \in cancelled]_vars

\* A run reported as completed has its turn in the thread's history.
CompletedIsCheckpointed ==
  \A r \in Runs : artifact[r].status = "completed" => r \in checkpointed

\* When close has released the resources, no run is left for a worker that no
\* longer exists: what is not over is held by a client in cancel_run.
ClosedIsSettled ==
  closer.pc = "closed" =>
    /\ pending = <<>>
    /\ \A r \in Runs : IsLive(artifact[r]) => \E c \in Clients : ClientOwns(c, r)

\* Every accepted run ends, whatever is cancelled, raised or shut down while
\* it waits or executes: no wakeup is lost and the queue never stalls.
EveryRunEnds ==
  \A r \in Runs : artifact[r].status = "queued" ~> IsTerminal(artifact[r])

-----------------------------------------------------------------------------
(* The inductive invariant behind the properties above.                    *)

\* A run exists exactly from the moment it was enqueued.
AbsentUntilEnqueued ==
  \A r \in Runs : artifact[r].status = "absent"
                  <=> starter[r] \in {"new", "preflight", "refused"}

\* The queue holds each run once, none of them touched since its creation.
QueueIsFresh ==
  /\ IsInjective(pending)
  /\ \A i \in DOMAIN pending : /\ artifact[pending[i]].status = "queued"
                               /\ pending[i] # active

\* The worker executes the active run, and leaves it over.  Only a claim that
\* raised leaves a run active without a worker.
WorkerIsActive ==
  /\ Busy => Job = active /\ active \in Runs
  /\ worker.pc = "release" => IsTerminal(artifact[Job])
  /\ active \in Runs => artifact[active].status # "absent"
  /\ ~ClaimMayFail => worker.pc # "dead" /\ (~Busy => active = NoRun)

\* A client in cancel_run has a run that exists; past its decision that run is
\* out of the queue, and what it withdrew is its alone.
ClientsAreOutside ==
  \A c \in Clients :
    LET r == client[c].run IN
    /\ client[c].pc # "ready" => r \in Runs /\ artifact[r].status # "absent"
    /\ client[c].pc \notin {"ready", "decide"} => ~QueueOwns(r)
    /\ client[c].pc \in {"withdrawn", "fail"} =>
         /\ r # active
         /\ \A d \in Clients : ClientOwns(d, r) => d = c

\* After the shutdown began the queue is empty for good, and what was drained
\* from it is held by nobody else.
DrainedAlone ==
  /\ closer.pc = "open" <=> ~shutdownRequested
  /\ shutdownRequested => pending = <<>>
  /\ closer.pc = "open" => closer.pending = <<>> /\ closer.active = NoRun
  /\ closer.pc \notin {"open", "drain"} => closer.pending = <<>>
  /\ closer.pc = "closed" => ~WorkerAlive
  /\ closer.active \in Runs => artifact[closer.active].status # "absent"
  /\ closer.pc \in {"abort", "abandon"} => closer.active \in Runs
  /\ IsInjective(closer.pending)
  /\ \A i \in DOMAIN closer.pending :
       /\ closer.pending[i] # active
       /\ artifact[closer.pending[i]].status # "absent"
       /\ \A c \in Clients : ~ClientOwns(c, closer.pending[i])

\* Nothing but the active run can ever be forgotten.
NothingForgotten ==
  \A r \in Runs : IsLive(artifact[r]) => Owned(r) \/ r = active

\* All of these together: what every step of the API threads, the worker and the
\* shutdown preserves, whether or not a claim raises.
Inductive == /\ TypeOK
             /\ OneOutcome
             /\ AbsentUntilEnqueued
             /\ QueueIsFresh
             /\ WorkerIsActive
             /\ ClientsAreOutside
             /\ DrainedAlone
             /\ NothingForgotten

\* Client c is stopping run r, which was not in the queue any more.
Stopping(c, r) == client[c].pc \in {"claim", "retract", "abort"} /\ client[c].run = r

\* One client at a time stops the run that executes, and as long as it does the
\* run is marked; so is the one that executes when the shutdown aborts it.
StopsAreMarked ==
  /\ worker.pc = "run" /\ closer.pc \in {"drain", "abort"} => Job \in cancelled
  /\ worker.pc \in {"run", "fail"} /\ closer.pc # "left" =>
       ~IsTerminal(artifact[Job])
  /\ \A c \in Clients : client[c].pc = "retract" =>
       IsTerminal(artifact[client[c].run])
  /\ \A c \in Clients : Busy /\ Stopping(c, Job) =>
       /\ Job \in cancelled
       /\ \A d \in Clients : Stopping(d, Job) => d = c

\* Past the checkpoint step the run is checkpointed.
PastCheckpoint ==
  worker.pc = "run" /\ worker.step > IF Job \in Compacts THEN 7 ELSE 8

CheckpointFirst == /\ PastCheckpoint => Job \in checkpointed
                   /\ CompletedIsCheckpointed

=============================================================================
