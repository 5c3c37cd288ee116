-------------------------- MODULE ProfileRunsProofs --------------------------
(***************************************************************************)
(* Proofs, for any number of profiles, runs and threads, that the runs use *)
(* the gate as ProfileGate says, and that the store therefore never        *)
(* answers the worker with an error of the gate's making.                  *)
(***************************************************************************)
EXTENDS ProfileRuns, RunControlProofs

\* What is proved of the gate, for the threads and the busy profiles of this service.
Proved == INSTANCE ProfileGateProofs
            WITH thread <- call, busy <- BusyProfiles,
                 Threads <- ApiThreads \union Runs

(* The invariant of the runs. *)

Accepted == {"announce", "signal", "returned"}

RunsTyped ==
  /\ pending \in Seq(Runs) /\ IsInjective(pending) /\ active \in Runs \union {NoRun}
  /\ shutdownRequested \in BOOLEAN
  /\ artifact \in [Runs -> Artifact] /\ starter \in [Runs -> StarterPcs]
  /\ worker \in [pc : WorkerPcs, job : Runs \union {NoRun}, step : Nat, error : Errors]
  /\ client \in [Clients -> [pc : ClientPcs, run : Runs \union {NoRun}]]
  /\ closer \in [pc : CloserPcs, active : Runs \union {NoRun}, pending : Seq(Runs)]

\* A run in the queue was accepted, is as it was created, and is neither executed nor
\* drained; and a run that was never accepted is nowhere.
RunFits(r) ==
  /\ QueueOwns(r) => artifact[r].status = "queued" /\ r # active
  /\ QueueOwns(r) \/ r = active \/ artifact[r].status # "absent" => starter[r] \in Accepted
  /\ CloserOwns(r) => r # active

\* The worker executes the active run, which is not over before the worker says so.
WorkerFits ==
  /\ Busy => Job = active /\ active \in Runs
  /\ worker.pc \in {"run", "fail"} => IsLive(artifact[Job])

\* A client cancels a run that was accepted; one that it has decided about is out of
\* the queue, and one that it withdrew is not executed.
ClientFits(c) ==
  /\ client[c].pc # "ready" => client[c].run \in Runs /\ starter[client[c].run] \in Accepted
  /\ client[c].pc \notin {"ready", "decide"} => ~QueueOwns(client[c].run)
  /\ client[c].pc \in {"withdrawn", "fail"} => client[c].run # active

\* A shutdown empties the queue for good.
CloserFits ==
  /\ closer.pc = "open" <=> ~shutdownRequested
  /\ shutdownRequested => pending = <<>>
  /\ closer.pc = "open" => closer.pending = <<>>

\* The request that starts a run is in the gate for the run's owner.
CallFits(r) == call[r].op = "start" => call[r].profile = Owner[r]

RunsInductive ==
  /\ RunsTyped /\ WorkerFits /\ CloserFits
  /\ \A r \in Runs : RunFits(r) /\ CallFits(r)
  /\ \A c \in Clients : ClientFits(c)

\* A run that the gate has to know of.
Working(r) == QueueOwns(r) \/ (r = active /\ IsLive(artifact[r]))

\* Nothing new to do: no run begins to work.
NoneBegins == \A r \in Runs : Working(r)' => Working(r)

Workers == [pc : WorkerPcs, job : Runs \union {NoRun}, step : Nat, error : Errors]
Calls   == [pc : ClientPcs, run : Runs \union {NoRun}]
Closers == [pc : CloserPcs, active : Runs \union {NoRun}, pending : Seq(Runs)]

-----------------------------------------------------------------------------
(* What is written to the store. *)

\* A write makes no run live, or present, that was not, and leaves alone what is in
\* the queue.
StoreKeeps ==
  /\ artifact' \in [Runs -> Artifact]
  /\ \A r \in Runs : /\ IsLive(artifact'[r]) => IsLive(artifact[r])
                     /\ artifact[r].status = "absent" => artifact'[r].status = "absent"
                     /\ QueueOwns(r) => artifact'[r].status = artifact[r].status

LEMMA Reported ==
  ASSUME RunsTyped, NEW q \in Runs, Report(q)
  PROVE  /\ artifact' \in [Runs -> Artifact]
         /\ \A r \in Runs : artifact'[r].status = artifact[r].status
<1>1. PICK a : a = artifact[q]
  OBVIOUS
<1>2. a \in Artifact
  BY <1>1 DEF RunsTyped
<1>3. PICK b : b = WithProgress(a)
  OBVIOUS
<1>4. b \in Artifact /\ b.status = a.status
  <2>1. CASE b = a
    BY <1>2, <2>1
  <2>2. CASE b = [a EXCEPT !.events = Append(a.events, "progress")]
    <3>1. Append(a.events, "progress") \in Seq(EventKinds)
      BY <1>2 DEF Artifact, EventKinds
    <3> QED BY <1>2, <2>2, <3>1 DEF Artifact
  <2> QED BY <1>3, <2>1, <2>2 DEF WithProgress
<1> QED BY <1>1, <1>3, <1>4 DEF Report, SetArtifact, RunsTyped

LEMMA Finished ==
  ASSUME RunsTyped, NEW q \in Runs, NEW status \in TerminalStatuses, NEW error \in Errors,
         SetArtifact(q, Finish(artifact[q], status, error))
  PROVE  /\ artifact' \in [Runs -> Artifact]
         /\ \A r \in Runs \ {q} : artifact'[r] = artifact[r]
         /\ IsLive(artifact'[q]) => IsLive(artifact[q])
<1>1. PICK a : a = artifact[q]
  OBVIOUS
<1>2. a \in Artifact
  BY <1>1 DEF RunsTyped
<1>3. ASSUME NEW s \in TerminalStatuses, NEW e \in Errors
      PROVE  EndedAs(a, s, e) \in Artifact /\ ~IsLive(EndedAs(a, s, e))
  <2>1. PICK kind : kind = IF s = "completed" THEN "run_completed" ELSE "run_failed"
    OBVIOUS
  <2>2. kind \in EventKinds /\ Append(a.events, kind) \in Seq(EventKinds)
    BY <1>2, <2>1 DEF EventKinds, TerminalKinds, Artifact
  <2>3. PICK why : why = IF s = "failed" THEN e ELSE a.error
    OBVIOUS
  <2>4. why \in Errors
    BY <1>2, <2>3 DEF Artifact
  <2>5. EndedAs(a, s, e) = [a EXCEPT !.status = s, !.error = why, !.events = Append(a.events, kind)]
    BY <1>2, <2>1, <2>3 DEF EndedAs, Artifact
  <2> QED BY <1>2, <2>2, <2>4, <2>5 DEF Artifact, Statuses, IsLive, LiveStatuses, TerminalStatuses
<1>4. PICK b : b = Finish(a, status, error)
  OBVIOUS
<1>5. "failed" \in TerminalStatuses /\ "stopped" \in Errors /\ a.error \in Errors
  BY <1>2 DEF TerminalStatuses, Errors, Artifact
<1>6. \/ b = a
      \/ \E s \in TerminalStatuses, e \in Errors : b = EndedAs(a, s, e)
  BY <1>4, <1>5 DEF Finish, IsTerminal
<1>7. b \in Artifact /\ (IsLive(b) => IsLive(a))
  BY <1>2, <1>3, <1>6
<1> QED BY <1>1, <1>4, <1>7 DEF SetArtifact, RunsTyped

LEMMA MarkedCancelling ==
  ASSUME RunsTyped, NEW q \in Runs, artifact[q].status # "absent",
         \/ SetArtifact(q, MarkCancelling(artifact[q]))
         \/ SetArtifact(q, MarkCancellingWithEvent(artifact[q]))
  PROVE  /\ artifact' \in [Runs -> Artifact]
         /\ \A r \in Runs \ {q} : artifact'[r] = artifact[r]
         /\ IsLive(artifact'[q]) <=> IsLive(artifact[q])
<1>1. PICK a : a = artifact[q]
  OBVIOUS
<1>2. a \in Artifact /\ a.status # "absent"
  BY <1>1 DEF RunsTyped
<1>3. CASE IsTerminal(a)
  BY <1>1, <1>3 DEF MarkCancelling, MarkCancellingWithEvent, SetArtifact, RunsTyped
<1>4. CASE ~IsTerminal(a)
  <2>1. PICK b : b = [a EXCEPT !.status = "cancelling"]
    OBVIOUS
  <2>2. b \in Artifact /\ IsLive(b) /\ IsLive(a)
    BY <1>2, <1>4, <2>1 DEF Artifact, Statuses, IsTerminal, IsLive, LiveStatuses
  <2>3. WithProgress(b) \in Artifact /\ IsLive(WithProgress(b))
    <3>1. CASE WithProgress(b) = b
      BY <2>2, <3>1
    <3>2. CASE WithProgress(b) = [b EXCEPT !.events = Append(@, "progress")]
      BY <2>2, <3>2, SMTT(30) DEF Artifact, EventKinds, IsLive
    <3> QED BY <3>1, <3>2 DEF WithProgress
  <2>4. \E d \in {b, WithProgress(b)} : SetArtifact(q, d)
    BY <1>1, <1>4, <2>1 DEF MarkCancelling, MarkCancellingWithEvent
  <2> QED BY <1>1, <2>2, <2>3, <2>4 DEF SetArtifact, RunsTyped
<1> QED BY <1>3, <1>4

-----------------------------------------------------------------------------
(* Steps of the runs that let none into the queue or into the active slot. *)

LEMMA QuietStep ==
  ASSUME RunsInductive, UNCHANGED <<pending, active, shutdownRequested, starter>>, StoreKeeps,
         \A r \in Runs : call'[r] = call[r], worker' \in Workers, WorkerFits',
         client' \in [Clients -> Calls], \A c \in Clients : ClientFits(c)',
         closer' \in Closers, CloserFits', \A r \in Runs : CloserOwns(r)' => CloserOwns(r)
  PROVE  RunsInductive' /\ NoneBegins
<1>1. RunsTyped'
  BY DEF RunsInductive, RunsTyped, StoreKeeps, Workers, Calls, Closers
<1>2. \A r \in Runs : QueueOwns(r)' <=> QueueOwns(r)
  BY DEF QueueOwns
<1>3. ASSUME NEW r \in Runs
      PROVE  RunFits(r)' /\ CallFits(r)'
  BY <1>2 DEF RunsInductive, RunFits, CallFits, StoreKeeps
<1>4. NoneBegins
  BY <1>2 DEF NoneBegins, Working, StoreKeeps
<1> QED BY <1>1, <1>3, <1>4 DEF RunsInductive

LEMMA StoreStays ==
  ASSUME RunsTyped, UNCHANGED artifact
  PROVE  StoreKeeps
BY DEF RunsTyped, StoreKeeps

LEMMA WorkerStays ==
  ASSUME RunsInductive, UNCHANGED active,
         worker' = worker \/ EnsureWorker,
         worker.pc \in {"run", "fail"} => IsLive(artifact'[Job])
  PROVE  worker' \in Workers /\ WorkerFits'
<1>1. /\ worker \in Workers /\ IdleWorker \in Workers /\ IdleWorker.pc = "wait"
      /\ worker' = worker \/ worker' = IdleWorker
  BY DEF RunsInductive, RunsTyped, Workers, IdleWorker, EnsureWorker, WorkerPcs, Errors
<1> QED BY <1>1 DEF RunsInductive, WorkerFits, Busy, Job

LEMMA ClientsStay ==
  ASSUME RunsInductive, UNCHANGED <<pending, active, starter, client>>
  PROVE  client' \in [Clients -> Calls] /\ \A c \in Clients : ClientFits(c)'
BY DEF RunsInductive, RunsTyped, Calls, ClientFits, QueueOwns

LEMMA CloserStays ==
  ASSUME RunsInductive, UNCHANGED <<pending, shutdownRequested, closer>>
  PROVE  closer' \in Closers /\ CloserFits' /\ \A r \in Runs : CloserOwns(r)' => CloserOwns(r)
BY DEF RunsInductive, RunsTyped, Closers, CloserFits, CloserOwns

\* A client goes on with a run, or returns.
LEMMA ClientActs ==
  ASSUME RunsInductive, NEW c \in Clients, NEW rec \in Calls, client' = [client EXCEPT ![c] = rec],
         UNCHANGED <<pending, active, shutdownRequested, starter, closer, call>>, StoreKeeps,
         worker' \in Workers, WorkerFits',
         rec.pc # "ready" => rec.run \in Runs /\ starter[rec.run] \in Accepted,
         rec.pc \notin {"ready", "decide"} => ~QueueOwns(rec.run),
         rec.pc \in {"withdrawn", "fail"} => rec.run # active
  PROVE  RunsInductive' /\ NoneBegins
<1>1. client \in [Clients -> Calls] /\ \A d \in Clients : ClientFits(d)
  BY DEF RunsInductive, RunsTyped, Calls
<1>2. client' \in [Clients -> Calls] /\ client'[c] = rec
      /\ \A d \in Clients : d # c => client'[d] = client[d]
  BY <1>1
<1>3. ASSUME NEW d \in Clients
      PROVE  ClientFits(d)'
  BY <1>1, <1>2 DEF ClientFits, QueueOwns
<1> QED BY <1>2, <1>3, CloserStays, QuietStep

-----------------------------------------------------------------------------
(* The requests that start runs. *)

LEMMA StarterMoves ==
  ASSUME RunsInductive, NEW q \in Runs, NEW pc \in StarterPcs, starter' = [starter EXCEPT ![q] = pc],
         starter[q] \in Accepted => pc \in Accepted,
         UNCHANGED <<pending, active, shutdownRequested, client, closer>>,
         artifact' \in [Runs -> Artifact], \A r \in Runs : artifact'[r].status = artifact[r].status,
         worker' = worker \/ EnsureWorker,
         call' = call \/ \E rec : /\ call' = [call EXCEPT ![q] = rec]
                                  /\ rec.op = "start" => rec.profile = Owner[q]
  PROVE  RunsInductive' /\ NoneBegins
<1>1. /\ RunsTyped /\ WorkerFits /\ CloserFits /\ \A r \in Runs : RunFits(r) /\ CallFits(r)
      /\ \A c \in Clients : ClientFits(c)
  BY DEF RunsInductive
<1>2. /\ \A r \in Runs : starter[r] \in Accepted => starter'[r] \in Accepted
      /\ starter' \in [Runs -> StarterPcs]
  BY <1>1 DEF RunsTyped
<1>3. worker.pc \in {"run", "fail"} => IsLive(artifact'[Job])
  BY <1>1 DEF WorkerFits, Busy, IsLive, RunsTyped
<1>4. worker' \in Workers /\ WorkerFits'
  BY <1>3, WorkerStays
<1>5. RunsTyped'
  BY <1>1, <1>2, <1>4 DEF RunsTyped, Workers
<1>6. \A r \in Runs : QueueOwns(r)' <=> QueueOwns(r)
  BY DEF QueueOwns
<1>7. ASSUME NEW r \in Runs
      PROVE  RunFits(r)'
  BY <1>1, <1>2, <1>6 DEF RunFits, CloserOwns
<1>8. ASSUME NEW r \in Runs
      PROVE  CallFits(r)'
  <2>1. CASE call' = call
    BY <1>1, <2>1 DEF CallFits
  <2>2. CASE call' # call
    <3>1. PICK rec : /\ call' = [call EXCEPT ![q] = rec]
                     /\ rec.op = "start" => rec.profile = Owner[q]
      BY <2>2
    <3>2. (call'[r] = rec /\ r = q) \/ call'[r] = call[r]
      BY <2>2, <3>1
    <3> QED BY <1>1, <3>1, <3>2 DEF CallFits
  <2> QED BY <2>1, <2>2
<1>9. ASSUME NEW c \in Clients
      PROVE  ClientFits(c)'
  BY <1>1, <1>2 DEF ClientFits, QueueOwns
<1>10. CloserFits'
  BY <1>1 DEF CloserFits
<1>11. NoneBegins
  BY <1>6 DEF NoneBegins, Working, IsLive
<1> QED BY <1>4, <1>5, <1>7, <1>8, <1>9, <1>10, <1>11 DEF RunsInductive

\* Every step of a request that starts a run, but for the enqueue.
Prepares(r) == \/ CheckProfile(r) \/ BeginStart(r) \/ RejectStart(r) \/ RejectRun(r)
               \/ AnnounceRun(r) \/ AnnounceRaises(r)

LEMMA PrepareKeeps ==
  ASSUME RunsInductive, NEW r \in Runs, Prepares(r)
  PROVE  RunsInductive' /\ NoneBegins
<1>1. RunsTyped /\ starter \in [Runs -> StarterPcs]
  BY DEF RunsInductive, RunsTyped
<1>2. starter = [starter EXCEPT ![r] = starter[r]] /\ starter[r] \in StarterPcs
  BY <1>1
<1>3. artifact \in [Runs -> Artifact]
  BY <1>1 DEF RunsTyped
<1>4. CASE CheckProfile(r)
  <2>1. PICK pc : call' = [call EXCEPT ![r] = [pc |-> pc, op |-> "start", profile |-> Owner[r]]]
    BY <1>4 DEF CheckProfile, Gate!CheckStart
  <2>2. PICK rec : rec = [pc |-> pc, op |-> "start", profile |-> Owner[r]]
    OBVIOUS
  <2>3. call' = [call EXCEPT ![r] = rec] /\ rec.profile = Owner[r]
    BY <2>1, <2>2
  <2>4. UNCHANGED <<pending, active, shutdownRequested, artifact, starter, worker, client, closer>>
    BY <1>4 DEF CheckProfile, runVars, control, store, thread
  <2> QED BY <1>2, <1>3, <2>3, <2>4, StarterMoves
<1>5. ASSUME Gate!DiscardMark(r) \/ Gate!RefuseStart(r)
      PROVE  \E rec : call' = [call EXCEPT ![r] = rec] /\ rec.op # "start"
  <2>1. PICK rec : rec = Gate!Idle
    OBVIOUS
  <2>2. call' = [call EXCEPT ![r] = rec]
    BY <1>5, <2>1 DEF Gate!DiscardMark, Gate!RefuseStart, Gate!Returns
  <2>3. rec.op # "start"
    BY <2>1 DEF Gate!Idle
  <2> QED BY <2>2, <2>3
<1>6. CASE BeginStart(r)
  <2>1. /\ starter' = [starter EXCEPT ![r] = "preflight"] /\ starter[r] = "new" /\ EnsureWorker
        /\ UNCHANGED <<pending, active, shutdownRequested, artifact, client, closer, call>>
    BY <1>6 DEF BeginStart, StartRun, StarterAt, control, store, gateVars
  <2> QED BY <1>3, <2>1, StarterMoves DEF StarterPcs, Accepted
<1>7. CASE RejectStart(r)
  <2>1. /\ starter' = [starter EXCEPT ![r] = "refused"] /\ starter[r] = "new"
        /\ UNCHANGED <<pending, active, shutdownRequested, artifact, worker, client, closer>>
    BY <1>7 DEF RejectStart, StarterAt, control, store, thread
  <2>2. \E rec : call' = [call EXCEPT ![r] = rec] /\ rec.op # "start"
    BY <1>5, <1>7 DEF RejectStart
  <2> QED BY <1>3, <2>1, <2>2, StarterMoves DEF StarterPcs, Accepted
<1>8. CASE RejectRun(r)
  <2>1. /\ starter' = [starter EXCEPT ![r] = "refused"] /\ starter[r] = "preflight"
        /\ UNCHANGED <<pending, active, shutdownRequested, artifact, worker, client, closer>>
    BY <1>8 DEF RejectRun, RefuseRun, StarterAt, control, store, thread
  <2>2. \E rec : call' = [call EXCEPT ![r] = rec] /\ rec.op # "start"
    BY <1>5, <1>8 DEF RejectRun
  <2> QED BY <1>3, <2>1, <2>2, StarterMoves DEF StarterPcs, Accepted
<1>9. CASE AnnounceRun(r)
  <2>1. CASE Announce(r)
    <3>1. /\ starter' = [starter EXCEPT ![r] = "signal"] /\ starter[r] = "announce" /\ Report(r)
          /\ UNCHANGED <<pending, active, shutdownRequested, worker, client, closer, call>>
      BY <1>9, <2>1 DEF AnnounceRun, Announce, StarterAt, control, thread, gateVars
    <3> QED BY <1>1, <3>1, Reported, StarterMoves DEF StarterPcs, Accepted
  <2>2. CASE SignalWorker(r)
    <3>1. /\ starter' = [starter EXCEPT ![r] = "returned"] /\ starter[r] = "signal"
          /\ UNCHANGED <<pending, active, shutdownRequested, artifact, worker, client, closer, call>>
      BY <1>9, <2>2 DEF AnnounceRun, SignalWorker, StarterAt, control, store, thread, gateVars
    <3> QED BY <1>3, <3>1, StarterMoves DEF StarterPcs, Accepted
  <2> QED BY <1>9, <2>1, <2>2 DEF AnnounceRun
<1>10. CASE AnnounceRaises(r)
  <2>1. /\ starter' = [starter EXCEPT ![r] = "returned"]
        /\ UNCHANGED <<pending, active, shutdownRequested, artifact, worker, client, closer, call>>
    BY <1>10 DEF AnnounceRaises, StarterAt, control, store, thread, gateVars
  <2> QED BY <1>3, <2>1, StarterMoves DEF StarterPcs, Accepted
<1> QED BY <1>4, <1>6, <1>7, <1>8, <1>9, <1>10 DEF Prepares

\* The run is queued: its profile gets to work.
LEMMA EnqueueRunKeeps ==
  ASSUME RunsInductive, NEW r \in Runs, EnqueueRun(r)
  PROVE  /\ RunsInductive'
         /\ \A s \in Runs : Working(s)' <=> Working(s) \/ s = r
<1>1. /\ RunsTyped /\ WorkerFits /\ CloserFits /\ \A q \in Runs : RunFits(q) /\ CallFits(q)
      /\ \A c \in Clients : ClientFits(c)
  BY DEF RunsInductive
<1>2. /\ ~shutdownRequested /\ starter[r] = "preflight" /\ starter' = [starter EXCEPT ![r] = "announce"]
      /\ artifact' = [artifact EXCEPT ![r] = Created] /\ pending' = Append(pending, r)
      /\ UNCHANGED <<active, shutdownRequested, worker, client, closer>>
      /\ call' = [call EXCEPT ![r] = Gate!Idle]
  BY DEF EnqueueRun, Enqueue, StarterAt, SetArtifact, thread, Gate!Accept, Gate!Returns
<1>3. Created \in Artifact /\ Created.status = "queued"
  BY DEF Created, Artifact, Statuses, LiveStatuses, Errors
<1>4. ~QueueOwns(r) /\ r # active /\ artifact[r].status = "absent"
  BY <1>1, <1>2 DEF RunFits, Accepted
<1>5. /\ pending' \in Seq(Runs) /\ IsInjective(pending')
      /\ \A s \in Runs : QueueOwns(s)' <=> QueueOwns(s) \/ s = r
  BY <1>1, <1>2, <1>4, AppendedRun DEF RunsTyped, QueueOwns
<1>6. /\ artifact' \in [Runs -> Artifact] /\ artifact'[r] = Created
      /\ \A s \in Runs \ {r} : artifact'[s] = artifact[s]
      /\ starter' \in [Runs -> StarterPcs] /\ starter'[r] = "announce"
      /\ \A s \in Runs \ {r} : starter'[s] = starter[s]
  BY <1>1, <1>2, <1>3 DEF RunsTyped, StarterPcs
<1>7. RunsTyped'
  BY <1>1, <1>2, <1>5, <1>6 DEF RunsTyped
<1>8. ASSUME NEW s \in Runs
      PROVE  RunFits(s)'
  <2>1. CloserOwns(s)' => CloserOwns(s) /\ closer.pc # "open"
    BY <1>1, <1>2 DEF CloserOwns, CloserFits
  <2> QED BY <1>1, <1>2, <1>3, <1>4, <1>5, <1>6, <2>1 DEF RunFits, Accepted
<1>9. ASSUME NEW s \in Runs
      PROVE  CallFits(s)'
  <2>1. Gate!Idle.op # "start"
    BY DEF Gate!Idle
  <2>2. call'[s] = Gate!Idle \/ call'[s] = call[s]
    BY <1>2
  <2> QED BY <1>1, <2>1, <2>2 DEF CallFits
<1>10. WorkerFits'
  <2>1. worker.pc \in {"run", "fail"} => artifact'[Job] = artifact[Job] /\ Job' = Job
    BY <1>1, <1>2, <1>4, <1>6 DEF WorkerFits, Busy, Job
  <2> QED BY <1>1, <1>2, <2>1 DEF WorkerFits, Busy, Job
<1>11. CloserFits'
  BY <1>1, <1>2 DEF CloserFits
<1>12. ASSUME NEW c \in Clients
       PROVE  ClientFits(c)'
  BY <1>1, <1>2, <1>5, <1>6 DEF ClientFits, Accepted
<1>13. \A s \in Runs : Working(s)' <=> Working(s) \/ s = r
  BY <1>2, <1>4, <1>5, <1>6 DEF Working
<1> QED BY <1>7, <1>8, <1>9, <1>10, <1>11, <1>12, <1>13 DEF RunsInductive

-----------------------------------------------------------------------------
(* The clients that cancel runs. *)

\* Ending a run that is out of the queue.
LEMMA StoreEnds ==
  ASSUME RunsInductive, NEW q \in Runs, NEW status \in TerminalStatuses, NEW error \in Errors,
         artifact[q].status # "absent", ~QueueOwns(q),
         SetArtifact(q, Finish(artifact[q], status, error))
  PROVE  StoreKeeps /\ \A r \in Runs \ {q} : artifact'[r] = artifact[r]
BY Finished DEF RunsInductive, StoreKeeps

\* Marking it as being cancelled.
LEMMA StoreMarks ==
  ASSUME RunsInductive, NEW q \in Runs, artifact[q].status # "absent", ~QueueOwns(q),
         \/ SetArtifact(q, MarkCancelling(artifact[q]))
         \/ SetArtifact(q, MarkCancellingWithEvent(artifact[q]))
  PROVE  /\ StoreKeeps
         /\ \A r \in Runs : IsLive(artifact'[r]) <=> IsLive(artifact[r])
BY MarkedCancelling DEF RunsInductive, StoreKeeps

\* Reporting how far it is.
LEMMA StoreReports ==
  ASSUME RunsInductive, NEW q \in Runs, Report(q)
  PROVE  /\ StoreKeeps
         /\ \A r \in Runs : IsLive(artifact'[r]) <=> IsLive(artifact[r])
BY Reported DEF RunsInductive, StoreKeeps, IsLive

\* The client forgets the run.
LEMMA ClientLeaves ==
  ASSUME RunsInductive, NEW c \in Clients, ClientReturns(c),
         UNCHANGED <<pending, active, shutdownRequested, starter, closer, call>>, StoreKeeps,
         worker' \in Workers, WorkerFits'
  PROVE  RunsInductive' /\ NoneBegins
<1>1. PICK rec : rec = NoCall
  OBVIOUS
<1>2. rec \in Calls /\ rec.pc = "ready" /\ client' = [client EXCEPT ![c] = rec]
  BY <1>1 DEF NoCall, Calls, ClientPcs, ClientReturns
<1> QED BY <1>2, ClientActs

\* The client goes on with its run.
LEMMA ClientTurns ==
  ASSUME RunsInductive, NEW c \in Clients, NEW pc \in ClientPcs, ClientGoes(c, pc),
         client[c].pc # "ready",
         UNCHANGED <<pending, active, shutdownRequested, starter, closer, call>>, StoreKeeps,
         worker' \in Workers, WorkerFits',
         pc \notin {"ready", "decide"} => ~QueueOwns(client[c].run),
         pc \in {"withdrawn", "fail"} => client[c].run # active
  PROVE  RunsInductive' /\ NoneBegins
<1>1. client[c] \in Calls
  BY DEF RunsInductive, RunsTyped, Calls
<1>2. PICK rec : rec = [client[c] EXCEPT !.pc = pc]
  OBVIOUS
<1>3. rec \in Calls /\ rec.pc = pc /\ rec.run = client[c].run
  BY <1>1, <1>2 DEF Calls
<1>4. client' = [client EXCEPT ![c] = rec]
  BY <1>2 DEF ClientGoes
<1>5. client[c].run \in Runs /\ starter[client[c].run] \in Accepted
  BY DEF RunsInductive, ClientFits
<1> QED BY <1>3, <1>4, <1>5, ClientActs

\* The worker is not disturbed by what a client writes.
LEMMA WorkerUndisturbed ==
  ASSUME RunsInductive, UNCHANGED <<active, worker>>,
         \A r \in Runs : r = active => (IsLive(artifact[r]) => IsLive(artifact'[r]))
  PROVE  worker' \in Workers /\ WorkerFits'
<1>1. worker.pc \in {"run", "fail"} => Job \in Runs /\ Job = active /\ IsLive(artifact[Job])
  BY DEF RunsInductive, WorkerFits, Busy
<1> QED BY <1>1, WorkerStays

\* A client of a run that it found out of the queue.
LEMMA OutOfQueue ==
  ASSUME RunsInductive, NEW r \in Runs, NotQueued(r)
  PROVE  ~QueueOwns(r)
BY DEF RunsInductive, RunFits, NotQueued, QueueOwns

\* The client takes its run out of the queue: it is not executed either.
LEMMA WithdrawKeeps ==
  ASSUME RunsInductive, NEW c \in Clients, WithdrawQueued(c), UNCHANGED gateVars
  PROVE  RunsInductive' /\ NoneBegins
<1>1. /\ RunsTyped /\ WorkerFits /\ CloserFits /\ \A q \in Runs : RunFits(q) /\ CallFits(q)
      /\ \A d \in Clients : ClientFits(d)
  BY DEF RunsInductive
<1>2. PICK r \in Runs : r = client[c].run /\ starter[r] \in Accepted
  BY <1>1 DEF WithdrawQueued, ClientFits
<1>3. /\ active # r /\ client' = [client EXCEPT ![c].pc = "withdrawn"]
      /\ UNCHANGED <<active, shutdownRequested, artifact, starter, worker, closer, call>>
      /\ \E i \in DOMAIN pending : pending[i] = r /\ pending' = RemoveAt(pending, i)
  BY <1>2 DEF WithdrawQueued, ClientGoes, store, thread, gateVars
<1>4. /\ pending' \in Seq(Runs) /\ IsInjective(pending')
      /\ \A s \in Runs : QueueOwns(s)' <=> QueueOwns(s) /\ s # r
  <2>1. PICK i \in DOMAIN pending : pending[i] = r /\ pending' = RemoveAt(pending, i)
    BY <1>3
  <2>2. pending \in Seq(Runs) /\ IsInjective(pending)
    BY <1>1 DEF RunsTyped
  <2>3. PICK q : q = RemoveAt(pending, i)
    OBVIOUS
  <2>4. /\ q \in Seq(Runs) /\ IsInjective(q)
        /\ \A s \in Runs : (\E k \in DOMAIN q : q[k] = s)
                           <=> (s # r /\ \E k \in DOMAIN pending : pending[k] = s)
    BY <2>1, <2>2, <2>3, WithdrawnRun
  <2> QED BY <2>1, <2>3, <2>4 DEF QueueOwns
<1>5. client[c] \in Calls
  BY <1>1 DEF RunsTyped, Calls
<1>6. PICK rec : rec = [client[c] EXCEPT !.pc = "withdrawn"]
  OBVIOUS
<1>7. rec \in Calls /\ rec.pc = "withdrawn" /\ rec.run = r
  BY <1>2, <1>5, <1>6 DEF Calls, ClientPcs
<1>8. /\ client' \in [Clients -> Calls] /\ client'[c] = rec
      /\ \A d \in Clients : d # c => client'[d] = client[d]
  BY <1>1, <1>3, <1>6, <1>7 DEF RunsTyped, Calls
<1>9. RunsTyped'
  BY <1>1, <1>3, <1>4, <1>8 DEF RunsTyped, Calls
<1>10. ASSUME NEW s \in Runs
       PROVE  RunFits(s)' /\ CallFits(s)'
  BY <1>1, <1>3, <1>4 DEF RunFits, CallFits, CloserOwns
<1>11. ASSUME NEW d \in Clients
       PROVE  ClientFits(d)'
  BY <1>1, <1>2, <1>3, <1>4, <1>7, <1>8 DEF ClientFits
<1>12. WorkerFits' /\ CloserFits'
  <2>1. pending = <<>> => FALSE
    BY <1>3
  <2> QED BY <1>1, <1>3, <2>1 DEF WorkerFits, Busy, Job, CloserFits
<1>13. NoneBegins
  BY <1>3, <1>4 DEF NoneBegins, Working
<1> QED BY <1>9, <1>10, <1>11, <1>12, <1>13 DEF RunsInductive

\* Every step of a client.
Cancels(c) == \/ \E r \in Runs : AccessRun(c, r)
              \/ GoOnCancelling(c)
              \/ DecideBlindly(c)
              \/ CancelRaises(c)

LEMMA CancelKeeps ==
  ASSUME RunsInductive, NEW c \in Clients, Cancels(c)
  PROVE  RunsInductive' /\ NoneBegins
<1>1. /\ RunsTyped /\ WorkerFits /\ \A q \in Runs : RunFits(q)
      /\ ClientFits(c)
  BY DEF RunsInductive
<1>2. ASSUME NEW r \in Runs, AccessRun(c, r)
      PROVE  RunsInductive' /\ NoneBegins
  <2>1. /\ artifact[r].status # "absent" /\ EnsureWorker
        /\ client' = [client EXCEPT ![c] = [pc |-> "decide", run |-> r]]
        /\ UNCHANGED <<pending, active, shutdownRequested, starter, closer, call, artifact>>
    BY <1>2 DEF AccessRun, CancelRun, control, store, gateVars
  <2>2. PICK rec : rec = [pc |-> "decide", run |-> r]
    OBVIOUS
  <2>3. rec \in Calls /\ rec.pc = "decide" /\ rec.run = r
    BY <2>2 DEF Calls, ClientPcs
  <2>4. worker' \in Workers /\ WorkerFits'
    BY <1>1, <2>1, WorkerStays DEF WorkerFits
  <2>5. StoreKeeps /\ starter[r] \in Accepted
    BY <1>1, <2>1, StoreStays DEF RunFits
  <2>6. client' = [client EXCEPT ![c] = rec]
    BY <2>1, <2>2
  <2> QED BY <2>1, <2>3, <2>4, <2>5, <2>6, ClientActs
<1>3. ASSUME client[c].pc # "ready", NEW r \in Runs, r = client[c].run,
             \/ ClientReturns(c)
             \/ NotQueued(r) /\ ClientGoes(c, "claim"),
             UNCHANGED <<pending, active, shutdownRequested, artifact, worker, starter, closer, call>>
      PROVE  RunsInductive' /\ NoneBegins
  <2>1. StoreKeeps /\ worker' \in Workers /\ WorkerFits'
    BY <1>1, <1>3, StoreStays, WorkerUndisturbed
  <2>2. CASE ClientReturns(c)
    BY <1>3, <2>1, <2>2, ClientLeaves
  <2>3. CASE NotQueued(r) /\ ClientGoes(c, "claim")
    <3>1. ~QueueOwns(r) /\ "claim" \in ClientPcs
      BY <2>3, OutOfQueue DEF ClientPcs
    <3> QED BY <1>3, <2>1, <2>3, <3>1, ClientTurns
  <2> QED BY <1>3, <2>2, <2>3
<1>4. ASSUME client[c].pc # "ready"
      PROVE  client[c].run \in Runs
  BY <1>1, <1>4 DEF ClientFits
<1>5. CASE DecideBlindly(c)
  <2>1. /\ client[c].pc = "decide"
        /\ UNCHANGED <<pending, active, shutdownRequested, artifact, worker, starter, closer, call>>
    BY <1>5 DEF DecideBlindly, store, thread, gateVars
  <2>2. PICK r \in Runs : r = client[c].run
    BY <1>4, <2>1
  <2>3. NotQueued(r) /\ (ClientReturns(c) \/ ClientGoes(c, "claim"))
    BY <1>5, <2>2 DEF DecideBlindly
  <2> QED BY <1>3, <2>1, <2>2, <2>3
<1>6. CASE CancelRaises(c)
  <2>1. /\ client[c].pc # "ready" /\ ClientReturns(c)
        /\ UNCHANGED <<pending, active, shutdownRequested, artifact, worker, starter, closer, call>>
    BY <1>6 DEF CancelRaises, control, store, thread, gateVars
  <2> QED BY <1>3, <1>4, <2>1
<1>7. CASE GoOnCancelling(c)
  <2>1. UNCHANGED call /\ (ReadsStore(c) => artifact[client[c].run].status # "absent")
    BY <1>7 DEF GoOnCancelling, Writable, gateVars
  <2>2. CASE WithdrawQueued(c)
    BY <1>7, <2>2, WithdrawKeeps DEF GoOnCancelling
  <2>3. CASE NothingToCancel(c) \/ RetractStop(c)
    <3>1. /\ client[c].pc # "ready" /\ ClientReturns(c)
          /\ UNCHANGED <<pending, active, shutdownRequested, artifact, worker, starter, closer>>
      BY <2>3 DEF NothingToCancel, RetractStop, control, store, thread
    <3> QED BY <1>3, <1>4, <2>1, <3>1
  <2>4. CASE RequestStop(c)
    <3>1. /\ client[c].pc # "ready" /\ ClientGoes(c, "claim")
          /\ UNCHANGED <<pending, active, shutdownRequested, artifact, worker, starter, closer>>
      BY <2>4 DEF RequestStop, store, thread
    <3>2. PICK r \in Runs : r = client[c].run
      BY <1>4, <3>1
    <3>3. NotQueued(r)
      BY <2>4, <3>2 DEF RequestStop
    <3> QED BY <1>3, <2>1, <3>1, <3>2, <3>3
  <2>5. CASE AbortRequest(c)
    <3>1. /\ client[c].pc # "ready" /\ ClientReturns(c)
          /\ UNCHANGED <<pending, active, shutdownRequested, artifact, worker, starter, closer>>
      BY <2>5 DEF AbortRequest, control, store
    <3> QED BY <1>3, <1>4, <2>1, <3>1
  <2>6. CASE EmitStopping(c)
    <3>1. /\ client[c].pc = "withdrawn" /\ Report(client[c].run) /\ ClientGoes(c, "fail")
          /\ UNCHANGED <<pending, active, shutdownRequested, worker, starter, closer>>
      BY <2>6 DEF EmitStopping, control, thread
    <3>2. client[c].run \in Runs /\ ~QueueOwns(client[c].run) /\ client[c].run # active
      BY <1>1, <3>1 DEF ClientFits
    <3>3. StoreKeeps /\ worker' \in Workers /\ WorkerFits'
      BY <3>1, <3>2, StoreReports, WorkerUndisturbed
    <3> QED BY <2>1, <3>1, <3>2, <3>3, ClientTurns DEF ClientPcs
  <2>7. CASE FailWithdrawn(c)
    <3>1. /\ client[c].pc = "fail" /\ ClientReturns(c)
          /\ SetArtifact(client[c].run, Finish(artifact[client[c].run], "failed", "stopped"))
          /\ UNCHANGED <<pending, active, shutdownRequested, worker, starter, closer>>
      BY <2>7 DEF FailWithdrawn, control, thread
    <3>2. /\ client[c].run \in Runs /\ ~QueueOwns(client[c].run) /\ client[c].run # active
          /\ artifact[client[c].run].status # "absent"
      BY <1>1, <2>1, <3>1 DEF ClientFits, ReadsStore
    <3>3. StoreKeeps /\ \A r \in Runs \ {client[c].run} : artifact'[r] = artifact[r]
      BY <3>1, <3>2, StoreEnds DEF TerminalStatuses, Errors
    <3>4. worker' \in Workers /\ WorkerFits'
      BY <3>1, <3>2, <3>3, WorkerUndisturbed
    <3> QED BY <2>1, <3>1, <3>3, <3>4, ClientLeaves
  <2>8. CASE ClaimStop(c)
    <3>1. PICK pc \in {"retract", "abort"} : ClientGoes(c, pc)
      BY <2>8 DEF ClaimStop
    <3>2. /\ client[c].pc = "claim"
          /\ SetArtifact(client[c].run, MarkCancellingWithEvent(artifact[client[c].run]))
          /\ UNCHANGED <<pending, active, shutdownRequested, worker, starter, closer>>
      BY <2>8 DEF ClaimStop, control, thread
    <3>3. /\ client[c].run \in Runs /\ ~QueueOwns(client[c].run)
          /\ artifact[client[c].run].status # "absent"
      BY <1>1, <2>1, <3>2 DEF ClientFits, ReadsStore
    <3>4. StoreKeeps /\ worker' \in Workers /\ WorkerFits'
      BY <3>2, <3>3, StoreMarks, WorkerUndisturbed
    <3> QED BY <2>1, <3>1, <3>2, <3>3, <3>4, ClientTurns DEF ClientPcs
  <2> QED BY <1>7, <2>2, <2>3, <2>4, <2>5, <2>6, <2>7, <2>8 DEF GoOnCancelling, Cancelling
<1> QED BY <1>2, <1>5, <1>6, <1>7 DEF Cancels

-----------------------------------------------------------------------------
(* The worker. *)

\* The worker takes the head of the queue, whether or not the store lets it.
LEMMA ClaimKeeps ==
  ASSUME RunsInductive, ClaimJob \/ ClaimRaises, UNCHANGED gateVars
  PROVE  RunsInductive' /\ NoneBegins
<1>1. /\ RunsTyped /\ WorkerFits /\ CloserFits /\ \A q \in Runs : RunFits(q) /\ CallFits(q)
      /\ \A d \in Clients : ClientFits(d)
  BY DEF RunsInductive
<1>2. PICK h : h = Head(pending)
  OBVIOUS
<1>3. /\ ~shutdownRequested /\ pending # <<>> /\ pending' = Tail(pending) /\ active' = h
      /\ UNCHANGED <<shutdownRequested, starter, client, closer, call>>
  BY <1>2 DEF ClaimJob, ClaimRaises, Claimable, store, gateVars
<1>4. PICK q : q = Tail(pending)
  OBVIOUS
<1>5. /\ h \in Runs /\ QueueOwns(h) /\ q \in Seq(Runs) /\ IsInjective(q)
      /\ \A s \in Runs : (\E k \in DOMAIN q : q[k] = s)
                         <=> (s # h /\ \E k \in DOMAIN pending : pending[k] = s)
  BY <1>1, <1>2, <1>3, <1>4, TakenRun DEF RunsTyped, QueueOwns
<1>6. \A s \in Runs : QueueOwns(s)' <=> QueueOwns(s) /\ s # h
  BY <1>3, <1>4, <1>5 DEF QueueOwns
<1>7. /\ artifact' \in [Runs -> Artifact] /\ IsLive(artifact'[h])
      /\ \A s \in Runs \ {h} : artifact'[s] = artifact[s]
  <2>1. artifact[h] \in Artifact /\ artifact[h].status = "queued"
    BY <1>1, <1>5 DEF RunsTyped, RunFits
  <2>2. PICK b : b = MarkRunning(artifact[h])
    OBVIOUS
  <2>3. b \in Artifact /\ IsLive(b)
    BY <2>1, <2>2 DEF MarkRunning, Artifact, Statuses, LiveStatuses, IsLive
  <2>4. UNCHANGED artifact \/ artifact' = [artifact EXCEPT ![h] = b]
    BY <1>2, <2>2 DEF ClaimJob, ClaimRaises, SetArtifact, store
  <2> QED BY <1>1, <1>5, <2>1, <2>3, <2>4, SMTT(30) DEF RunsTyped, IsLive, LiveStatuses
<1>8. worker' \in Workers /\ WorkerFits'
  <2>1. CASE ClaimJob
    <3>1. worker' = [pc |-> "run", job |-> h, step |-> 1, error |-> "none"]
      BY <1>2, <2>1 DEF ClaimJob, IdleWorker
    <3> QED BY <1>3, <1>5, <1>7, <3>1 DEF Workers, WorkerPcs, Errors, WorkerFits, Busy, Job
  <2>2. CASE ClaimRaises
    <3>1. worker' = [worker EXCEPT !.pc = "dead"] /\ worker \in Workers
      BY <1>1, <2>2 DEF ClaimRaises, RunsTyped, Workers
    <3> QED BY <3>1 DEF Workers, WorkerPcs, WorkerFits, Busy
  <2> QED BY <2>1, <2>2
<1>9. RunsTyped'
  BY <1>1, <1>3, <1>4, <1>5, <1>7, <1>8 DEF RunsTyped, Workers
<1>10. ASSUME NEW s \in Runs
       PROVE  RunFits(s)' /\ CallFits(s)'
  <2>1. ~CloserOwns(s)'
    BY <1>1, <1>3 DEF CloserFits, CloserOwns
  <2> QED BY <1>1, <1>3, <1>5, <1>6, <1>7, <2>1 DEF RunFits, CallFits
<1>11. ASSUME NEW d \in Clients
       PROVE  ClientFits(d)'
  BY <1>1, <1>3, <1>5, <1>6 DEF ClientFits
<1>12. CloserFits'
  BY <1>1, <1>3 DEF CloserFits
<1>13. NoneBegins
  BY <1>3, <1>5, <1>6 DEF NoneBegins, Working
<1> QED BY <1>8, <1>9, <1>10, <1>11, <1>12, <1>13 DEF RunsInductive

\* The worker releases a run that is over.
LEMMA ReleaseKeeps ==
  ASSUME RunsInductive, ReleaseJob, UNCHANGED gateVars
  PROVE  RunsInductive' /\ NoneBegins
<1>1. /\ RunsTyped /\ WorkerFits /\ CloserFits /\ \A q \in Runs : RunFits(q) /\ CallFits(q)
      /\ \A d \in Clients : ClientFits(d)
  BY DEF RunsInductive
<1>2. /\ active' = NoRun
      /\ worker' = [pc |-> "claim", job |-> NoRun, step |-> 1, error |-> "none"]
      /\ UNCHANGED <<pending, shutdownRequested, artifact, starter, client, closer, call>>
  BY <1>1 DEF ReleaseJob, WorkerFits, Busy, IdleWorker, store, gateVars
<1>3. NoRun \notin Runs
  BY RunsAssumption
<1>4. RunsTyped' /\ WorkerFits' /\ CloserFits'
  BY <1>1, <1>2 DEF RunsTyped, WorkerPcs, Errors, WorkerFits, Busy, CloserFits
<1>5. ASSUME NEW s \in Runs
      PROVE  RunFits(s)' /\ CallFits(s)'
  BY <1>1, <1>2, <1>3 DEF RunFits, CallFits, QueueOwns, CloserOwns
<1>6. ASSUME NEW d \in Clients
      PROVE  ClientFits(d)'
  BY <1>1, <1>2, <1>3 DEF ClientFits, QueueOwns
<1>7. NoneBegins
  BY <1>2, <1>3 DEF NoneBegins, Working, QueueOwns
<1> QED BY <1>4, <1>5, <1>6, <1>7 DEF RunsInductive

\* Whatever else the worker does.
LEMMA WorkerActs ==
  ASSUME RunsInductive, worker' \in Workers, WorkerFits', StoreKeeps,
         UNCHANGED <<control, starter, client, closer, gateVars>>
  PROVE  RunsInductive' /\ NoneBegins
BY ClientsStay, CloserStays, QuietStep DEF control, gateVars

LEMMA WorkerKeeps ==
  ASSUME RunsInductive, WorkerSteps
  PROVE  RunsInductive' /\ NoneBegins
<1>1. /\ RunsTyped /\ WorkerFits /\ \A q \in Runs : RunFits(q)
      /\ worker \in Workers /\ UNCHANGED gateVars
  BY DEF RunsInductive, RunsTyped, Workers, WorkerSteps
<1>2. CASE WorkerWakes \/ WorkerClears \/ ClaimNothing \/ WorkerIdles
  <2>1. PICK pc \in {"woken", "claim", "idle", "exited", "wait"} : worker' = [worker EXCEPT !.pc = pc]
    BY <1>2 DEF WorkerWakes, WorkerClears, ClaimNothing, WorkerIdles, WorkerGoes
  <2>2. UNCHANGED <<control, artifact, starter, client, closer>>
    BY <1>2 DEF WorkerWakes, WorkerClears, ClaimNothing, WorkerIdles, store
  <2>3. worker' \in Workers /\ WorkerFits'
    BY <1>1, <2>1 DEF Workers, WorkerPcs, WorkerFits, Busy
  <2> QED BY <1>1, <2>2, <2>3, StoreStays, WorkerActs
<1>3. CASE ClaimJob \/ ClaimRaises
  BY <1>1, <1>3, ClaimKeeps
<1>4. CASE ReleaseJob
  BY <1>1, <1>4, ReleaseKeeps
<1>5. CASE LoadStep \/ CheckStep \/ CheckpointStep \/ StepRaises \/ ReportStep \/ ModelStep
  <2>1. worker.pc = "run" /\ Job = active /\ active \in Runs /\ IsLive(artifact[active])
    BY <1>1, <1>5 DEF LoadStep, CheckStep, CheckpointStep, StepRaises, ReportStep, ModelStep,
                      Executing, WorkerFits, Busy
  <2>2. Advance \/ \E error \in Errors : FailsWith(error)
    BY <1>5 DEF LoadStep, CheckStep, CheckpointStep, StepRaises, ReportStep, ModelStep, Errors
  <2>3. /\ UNCHANGED artifact \/ Report(active)
        /\ UNCHANGED <<control, starter, client, closer>>
    BY <1>5, <2>1 DEF LoadStep, CheckStep, CheckpointStep, StepRaises, ReportStep, ModelStep, store
  <2>4. StoreKeeps /\ \A r \in Runs : IsLive(artifact'[r]) <=> IsLive(artifact[r])
    BY <1>1, <2>1, <2>3, StoreStays, StoreReports
  <2>5. worker' \in Workers /\ worker'.job = worker.job /\ worker'.pc \in {"run", "fail"}
    <3>1. CASE Advance
      BY <1>1, <2>1, <3>1 DEF Advance, Workers
    <3>2. ASSUME NEW error \in Errors, FailsWith(error)
          PROVE  worker' \in Workers /\ worker'.job = worker.job /\ worker'.pc = "fail"
      <4>1. PICK e \in Errors : worker' = [worker EXCEPT !.pc = "fail", !.error = e]
        BY <3>2 DEF FailsWith, Errors
      <4> QED BY <1>1, <4>1 DEF Workers, WorkerPcs
    <3> QED BY <2>2, <3>1, <3>2
  <2>6. WorkerFits'
    <3>1. Job' = active /\ active' = active
      BY <2>1, <2>3, <2>5 DEF Job, control
    <3> QED BY <2>1, <2>4, <3>1 DEF WorkerFits
  <2> QED BY <1>1, <2>3, <2>4, <2>5, <2>6, WorkerActs
<1>6. CASE CompleteStep \/ RecordFailure
  <2>1. Job = active /\ active \in Runs /\ IsLive(artifact[active])
    BY <1>1, <1>6 DEF CompleteStep, RecordFailure, Executing, WorkerGoes, WorkerFits, Busy
  <2>2. PICK status \in TerminalStatuses, error \in Errors :
          SetArtifact(active, Finish(artifact[active], status, error))
    BY <1>1, <1>6, <2>1 DEF CompleteStep, RecordFailure, TerminalStatuses, Errors, Workers
  <2>3. artifact[active].status # "absent" /\ ~QueueOwns(active)
    BY <1>1, <2>1 DEF RunFits, IsLive, LiveStatuses
  <2>4. StoreKeeps
    BY <2>1, <2>2, <2>3, StoreEnds
  <2>5. /\ worker' = [worker EXCEPT !.pc = "release"]
        /\ UNCHANGED <<control, starter, client, closer>>
    BY <1>6 DEF CompleteStep, RecordFailure, WorkerGoes
  <2>6. worker' \in Workers /\ WorkerFits'
    BY <1>1, <2>1, <2>5 DEF Workers, WorkerPcs, WorkerFits, Busy, Job, control
  <2> QED BY <1>1, <2>4, <2>5, <2>6, WorkerActs
<1> QED BY <1>2, <1>3, <1>4, <1>5, <1>6 DEF WorkerSteps, Waiting, Executes

-----------------------------------------------------------------------------
(* The shutdown. *)

\* It takes the queue over.
LEMMA ShutdownKeeps ==
  ASSUME RunsInductive, BeginShutdown, UNCHANGED gateVars
  PROVE  RunsInductive' /\ NoneBegins
<1>1. /\ RunsTyped /\ WorkerFits /\ CloserFits /\ \A q \in Runs : RunFits(q) /\ CallFits(q)
      /\ \A d \in Clients : ClientFits(d)
  BY DEF RunsInductive
<1>2. /\ shutdownRequested' = TRUE /\ pending' = <<>>
      /\ closer' = [pc |-> "drain", active |-> active, pending |-> pending]
      /\ UNCHANGED <<active, artifact, worker, starter, client, call>>
  BY DEF BeginShutdown, store, thread, gateVars
<1>3. \A r \in Runs : ~QueueOwns(r)' /\ (CloserOwns(r)' <=> QueueOwns(r))
  BY <1>2 DEF QueueOwns, CloserOwns
<1>4. RunsTyped'
  BY <1>1, <1>2 DEF RunsTyped, CloserPcs, IsInjective
<1>5. WorkerFits' /\ CloserFits'
  BY <1>1, <1>2 DEF WorkerFits, Busy, Job, CloserFits
<1>6. ASSUME NEW s \in Runs
      PROVE  RunFits(s)' /\ CallFits(s)'
  BY <1>1, <1>2, <1>3 DEF RunFits, CallFits
<1>7. ASSUME NEW d \in Clients
      PROVE  ClientFits(d)'
  BY <1>1, <1>2, <1>3 DEF ClientFits
<1>8. NoneBegins
  BY <1>2, <1>3 DEF NoneBegins, Working
<1> QED BY <1>4, <1>5, <1>6, <1>7, <1>8 DEF RunsInductive

\* Then it goes on without the queue.
LEMMA CloserActs ==
  ASSUME RunsInductive, closer.pc # "open", closer' \in Closers, closer'.pc # "open",
         \A r \in Runs : CloserOwns(r)' => CloserOwns(r),
         worker' \in Workers, WorkerFits', StoreKeeps,
         UNCHANGED <<control, starter, client, gateVars>>
  PROVE  RunsInductive' /\ NoneBegins
<1>1. CloserFits'
  BY DEF RunsInductive, CloserFits, control
<1> QED BY <1>1, ClientsStay, QuietStep DEF control, gateVars

\* What is left of the drained queue was in it.
LEMMA DrainedTail ==
  ASSUME RunsTyped, closer.pending # <<>>, closer' = [closer EXCEPT !.pending = Tail(@)]
  PROVE  /\ closer' \in Closers /\ closer'.pc = closer.pc
         /\ \A r \in Runs : CloserOwns(r)' => CloserOwns(r)
         /\ Head(closer.pending) \in Runs /\ CloserOwns(Head(closer.pending))
<1>1. PICK q : q = closer.pending
  OBVIOUS
<1>2. closer \in Closers /\ q \in Seq(Runs) /\ q # <<>>
  BY <1>1 DEF RunsTyped, Closers
<1>3. /\ Tail(q) \in Seq(Runs) /\ Head(q) = q[1] /\ 1 \in DOMAIN q /\ q[1] \in Runs
      /\ \A i \in DOMAIN Tail(q) : i + 1 \in DOMAIN q /\ Tail(q)[i] = q[i + 1]
  BY <1>2
<1>4. closer' = [closer EXCEPT !.pending = Tail(q)]
  BY <1>1
<1>5. closer' \in Closers /\ closer'.pc = closer.pc /\ closer'.pending = Tail(q)
  BY <1>2, <1>3, <1>4 DEF Closers
<1> QED BY <1>1, <1>3, <1>5 DEF CloserOwns

LEMMA QuiesceKeeps ==
  ASSUME RunsInductive, Quiesces \/ QuiesceRaises
  PROVE  RunsInductive' /\ NoneBegins
<1>1. /\ RunsTyped /\ WorkerFits /\ CloserFits /\ \A q \in Runs : RunFits(q)
      /\ closer \in Closers /\ UNCHANGED gateVars
  BY DEF RunsInductive, RunsTyped, Closers, Quiesces, QuiesceRaises
<1>2. closer.pc # "open" => \A r \in Runs : ~QueueOwns(r)
  BY <1>1 DEF CloserFits, QueueOwns
<1>3. UNCHANGED worker /\ UNCHANGED active /\ UNCHANGED artifact
        => worker' \in Workers /\ WorkerFits' /\ StoreKeeps
  BY <1>1, WorkerUndisturbed, StoreStays
<1>4. CASE BeginShutdown
  BY <1>1, <1>4, ShutdownKeeps
<1>5. CASE FailDrained /\ closer.pending # <<>> /\ Writable(Head(closer.pending))
  <2>1. PICK r : r = Head(closer.pending)
    OBVIOUS
  <2>2. /\ closer.pc = "drain" /\ closer' = [closer EXCEPT !.pending = Tail(@)]
        /\ SetArtifact(r, Finish(artifact[r], "failed", "shutdown"))
        /\ artifact[r].status # "absent"
        /\ UNCHANGED <<control, worker, starter, client>>
    BY <1>5, <2>1 DEF FailDrained, thread, Writable
  <2>3. /\ closer' \in Closers /\ closer'.pc = "drain" /\ r \in Runs /\ CloserOwns(r)
        /\ \A q \in Runs : CloserOwns(q)' => CloserOwns(q)
    BY <1>1, <1>5, <2>1, <2>2, DrainedTail
  <2>4. r # active /\ ~QueueOwns(r)
    BY <1>1, <1>2, <2>2, <2>3 DEF RunFits
  <2>5. StoreKeeps /\ \A q \in Runs \ {r} : artifact'[q] = artifact[q]
    BY <2>2, <2>3, <2>4, StoreEnds DEF TerminalStatuses, Errors
  <2>6. worker' \in Workers /\ WorkerFits'
    BY <2>2, <2>4, <2>5, WorkerUndisturbed DEF control
  <2> QED BY <1>1, <2>2, <2>3, <2>5, <2>6, CloserActs
<1>6. CASE QuiesceActive /\ closer.active \in Runs /\ Writable(closer.active)
  <2>1. /\ closer.pc = "drain" /\ closer' = [closer EXCEPT !.pc = "abort"]
        /\ SetArtifact(closer.active, MarkCancelling(artifact[closer.active]))
        /\ artifact[closer.active].status # "absent"
        /\ UNCHANGED <<control, worker, starter, client>>
    BY <1>6 DEF QuiesceActive, CloserGoes, thread, Writable
  <2>2. /\ StoreKeeps
        /\ \A r \in Runs : IsLive(artifact'[r]) <=> IsLive(artifact[r])
    BY <1>2, <1>6, <2>1, StoreMarks
  <2>3. worker' \in Workers /\ WorkerFits'
    BY <2>1, <2>2, WorkerUndisturbed DEF control
  <2>4. closer' \in Closers /\ closer'.pc # "open" /\ \A q \in Runs : CloserOwns(q)' => CloserOwns(q)
    BY <1>1, <2>1 DEF Closers, CloserPcs, CloserOwns
  <2> QED BY <1>1, <2>1, <2>2, <2>3, <2>4, CloserActs
<1>7. ASSUME closer.pc # "open", NEW pc \in {"abort", "wake", "quiesced"},
             closer' = [closer EXCEPT !.pc = pc],
             UNCHANGED <<control, artifact, worker, starter, client>>
      PROVE  RunsInductive' /\ NoneBegins
  <2>1. closer' \in Closers /\ closer'.pc # "open" /\ \A q \in Runs : CloserOwns(q)' => CloserOwns(q)
    BY <1>1, <1>7 DEF Closers, CloserPcs, CloserOwns
  <2>2. worker' \in Workers /\ WorkerFits' /\ StoreKeeps
    BY <1>3, <1>7 DEF control
  <2> QED BY <1>1, <1>7, <2>1, <2>2, CloserActs
<1>8. CASE NoActiveToQuiesce \/ AbortActive \/ WakeWorker
  <2>1. PICK pc \in {"abort", "wake", "quiesced"} : closer' = [closer EXCEPT !.pc = pc]
    BY <1>8 DEF NoActiveToQuiesce, AbortActive, WakeWorker, CloserGoes
  <2>2. closer.pc # "open" /\ UNCHANGED <<control, artifact, worker, starter, client>>
    BY <1>8 DEF NoActiveToQuiesce, AbortActive, WakeWorker, CloserGoes, store, thread
  <2> QED BY <1>7, <2>1, <2>2
<1>9. CASE QuiesceRaises
  <2>1. closer.pc = "drain" /\ UNCHANGED <<control, artifact, worker, starter, client>>
    BY <1>9 DEF QuiesceRaises, store, thread
  <2>2. CASE closer.pending # <<>> /\ closer' = [closer EXCEPT !.pending = Tail(@)]
    <3>1. /\ closer' \in Closers /\ closer'.pc = "drain"
          /\ \A q \in Runs : CloserOwns(q)' => CloserOwns(q)
      BY <1>1, <2>1, <2>2, DrainedTail
    <3>2. worker' \in Workers /\ WorkerFits' /\ StoreKeeps
      BY <1>3, <2>1 DEF control
    <3> QED BY <1>1, <2>1, <3>1, <3>2, CloserActs
  <2>3. CASE closer' = [closer EXCEPT !.pc = "abort"]
    BY <1>7, <2>1, <2>3
  <2> QED BY <1>9, <2>2, <2>3 DEF QuiesceRaises
<1> QED BY <1>4, <1>5, <1>6, <1>8, <1>9 DEF Quiesces, FailDrained

-----------------------------------------------------------------------------
(* The gate of this service is the one that ProfileGateProofs proves about: *)
(* name by name, the two instances of ProfileGate are equal.               *)

LEMMA GateIsGate == Proved!GateAssumption
BY OwnersAssumption DEF Proved!IsFiniteSet, IsFiniteSet

LEMMA SameStart ==
  /\ Gate!vars = Proved!vars /\ Gate!vars' = Proved!vars'
  /\ Gate!Init <=> Proved!Init
BY DEF Gate!vars, Gate!gate, Gate!secrets, Gate!Init, Gate!Idle,
       Proved!vars, Proved!gate, Proved!secrets, Proved!Init, Proved!Idle

LEMMA SameInductive ==
  /\ Gate!Inductive <=> Proved!Inductive
  /\ Gate!Inductive' <=> Proved!Inductive'
<1> USE DEF Gate!Mutations, Gate!Readable, Gate!Idle, Proved!Mutations, Proved!Readable,
            Proved!Idle, Gate!Backed, Proved!Backed
<1>1. (Gate!TypeOK <=> Proved!TypeOK) /\ (Gate!TypeOK' <=> Proved!TypeOK')
  BY DEF Gate!TypeOK, Gate!Pcs, Gate!Ops, Proved!TypeOK, Proved!Pcs, Proved!Ops
<1>2. (Gate!GateIsExact <=> Proved!GateIsExact) /\ (Gate!GateIsExact' <=> Proved!GateIsExact')
  BY DEF Gate!GateIsExact, Gate!OperatingOn, Gate!MutatingOn, Gate!Resets, Gate!Cardinality,
         Proved!GateIsExact, Proved!OperatingOn, Proved!MutatingOn, Proved!Resets,
         Proved!Cardinality
<1>3. (Gate!PcsFit <=> Proved!PcsFit) /\ (Gate!PcsFit' <=> Proved!PcsFit')
  BY DEF Gate!PcsFit, Gate!Fits, Proved!PcsFit, Proved!Fits
<1>4. (Gate!GateExcludes <=> Proved!GateExcludes) /\ (Gate!GateExcludes' <=> Proved!GateExcludes')
  BY DEF Gate!GateExcludes, Gate!Resets, Proved!GateExcludes, Proved!Resets
<1>5. (Gate!WorkIsReadable <=> Proved!WorkIsReadable) /\ (Gate!WorkIsReadable' <=> Proved!WorkIsReadable')
  BY DEF Gate!WorkIsReadable, Proved!WorkIsReadable
<1>6. (Gate!MarkFollowsKey <=> Proved!MarkFollowsKey) /\ (Gate!MarkFollowsKey' <=> Proved!MarkFollowsKey')
  BY DEF Gate!MarkFollowsKey, Gate!FollowsKey, Proved!MarkFollowsKey, Proved!FollowsKey
<1>7. (Gate!MarkedHasKey <=> Proved!MarkedHasKey) /\ (Gate!MarkedHasKey' <=> Proved!MarkedHasKey')
  BY DEF Gate!MarkedHasKey, Gate!Blocked, Proved!MarkedHasKey, Proved!Blocked
<1> QED BY <1>1, <1>2, <1>3, <1>4, <1>5, <1>6, <1>7 DEF Gate!Inductive, Proved!Inductive

LEMMA SameSteps ==
  ASSUME NEW t \in ApiThreads \union Runs
  PROVE  /\ Gate!Operating(t) <=> Proved!Operating(t)
         /\ Gate!Mutating(t) <=> Proved!Mutating(t)
         /\ Gate!Resetting(t) <=> Proved!Resetting(t)
         /\ Gate!Starting(t) <=> Proved!Starting(t)
<1> USE DEF Gate!At, Gate!Goes, Gate!Returns, Gate!Idle, Gate!gate, Gate!secrets, Gate!Accessible,
            Gate!Refuses, Gate!Mutations, Gate!Readable, Proved!At, Proved!Goes, Proved!Returns,
            Proved!Idle, Proved!gate, Proved!secrets, Proved!Accessible, Proved!Refuses,
            Proved!Mutations, Proved!Readable
<1>1. Gate!Operating(t) <=> Proved!Operating(t)
  BY DEF Gate!Operating, Gate!EnterOperation, Gate!Admit, Gate!RefuseOperation,
         Gate!LeaveOperation, Proved!Operating, Proved!EnterOperation, Proved!Admit,
         Proved!RefuseOperation, Proved!LeaveOperation
<1>2. Gate!Unlocking(t) <=> Proved!Unlocking(t)
  BY DEF Gate!Unlocking, Gate!BeginUnlock, Gate!DropKey, Gate!StoreKey, Gate!UnlockFails,
         Gate!GrantUnlock, Proved!Unlocking, Proved!BeginUnlock, Proved!DropKey, Proved!StoreKey,
         Proved!UnlockFails, Proved!GrantUnlock
<1>3. Gate!Erasing(t) <=> Proved!Erasing(t)
  BY DEF Gate!Erasing, Gate!BeginErase, Gate!RefuseErase, Gate!EraseEnds, Gate!DeleteUser,
         Proved!Erasing, Proved!BeginErase, Proved!RefuseErase, Proved!EraseEnds,
         Proved!DeleteUser
<1>4. Gate!Mutating(t) <=> Proved!Mutating(t)
  BY <1>2, <1>3 DEF Gate!Mutating, Gate!EnterMutation, Gate!MutationRaises, Gate!CreateUser, Gate!BeginLock,
         Gate!Revoke, Gate!ForgetKey, Gate!LeaveMutation, Proved!Mutating, Proved!EnterMutation,
         Proved!MutationRaises, Proved!CreateUser, Proved!BeginLock, Proved!Revoke,
         Proved!ForgetKey, Proved!LeaveMutation
<1>5. Gate!Resetting(t) <=> Proved!Resetting(t)
  BY DEF Gate!Resetting, Gate!EnterReset, Gate!RemoveFiles, Gate!DiscardKeys,
         Gate!WriteIndex, Gate!RevokeAll, Gate!ResetRaises, Gate!LeaveReset, Proved!Resetting,
         Proved!EnterReset, Proved!RemoveFiles, Proved!DiscardKeys, Proved!WriteIndex,
         Proved!RevokeAll, Proved!ResetRaises, Proved!LeaveReset
<1>6. Gate!Starting(t) <=> Proved!Starting(t)
  BY DEF Gate!Starting, Gate!CheckStart, Gate!DiscardMark, Gate!Enqueue, Gate!Accept,
         Gate!RefuseStart, Gate!Blocked, Proved!Starting, Proved!CheckStart, Proved!DiscardMark,
         Proved!Enqueue, Proved!Accept, Proved!RefuseStart, Proved!Blocked
<1> QED BY <1>1, <1>4, <1>5, <1>6

LEMMA SameNext ==
  Gate!Next <=> Proved!Next
<1>1. Gate!RunsEnd <=> Proved!RunsEnd
  BY DEF Gate!RunsEnd, Gate!gate, Gate!secrets, Proved!RunsEnd, Proved!gate, Proved!secrets
<1> QED BY <1>1, SameSteps DEF Gate!Next, Proved!Next

\* What is proved of the gate holds of the gate of this service.
LEMMA GateBegins ==
  ASSUME Gate!Init
  PROVE  Gate!Inductive
BY Proved!InductiveInit, GateIsGate, SameStart, SameInductive

LEMMA GateKeeps ==
  ASSUME Gate!Inductive, [Gate!Next]_Gate!vars
  PROVE  Gate!Inductive'
<1>1. Proved!Inductive /\ [Proved!Next]_Proved!vars
  BY SameStart, SameInductive, SameNext
<1> QED BY <1>1, Proved!InductiveStep, GateIsGate, SameInductive

-----------------------------------------------------------------------------
(* What the runs do, to the gate. *)

\* The busy profiles are those of the runs that the gate has to know of.
LEMMA BusyAre ==
  /\ RunsTyped => \A p : p \in BusyProfiles <=> \E r \in Runs : Working(r) /\ Owner[r] = p
  /\ RunsTyped' => \A p : p \in BusyProfiles' <=> \E r \in Runs : Working(r)' /\ Owner[r] = p
BY DEF BusyProfiles, Working, QueueOwns, RunsTyped

\* To the gate, runs end.
LEMMA RunsOnlyEnd ==
  ASSUME RunsTyped, RunsTyped', NoneBegins, UNCHANGED gateVars
  PROVE  Gate!RunsEnd
<1>1. BusyProfiles' \subseteq BusyProfiles
  BY BusyAre DEF NoneBegins
<1>2. PICK ended \in SUBSET BusyProfiles : ended = BusyProfiles \ BusyProfiles'
  OBVIOUS
<1>3. BusyProfiles' = BusyProfiles \ ended
  BY <1>1, <1>2
<1> QED BY <1>2, <1>3 DEF Gate!RunsEnd, Gate!gate, Gate!secrets, gateVars

\* The requests that start runs are the gate's own, or change nothing of it.
LEMMA PrepareGates ==
  ASSUME RunsInductive, NEW r \in Runs, Prepares(r)
  PROVE  Gate!Next
<1>1. CASE CheckProfile(r) \/ RejectStart(r) \/ RejectRun(r)
  <2>1. Owner[r] \in Profiles
    BY OwnersAssumption
  <2>2. Gate!Starting(r)
    BY <1>1, <2>1 DEF CheckProfile, RejectStart, RejectRun, Gate!Starting
  <2> QED BY <2>2 DEF Gate!Next
<1>2. CASE BeginStart(r) \/ AnnounceRun(r) \/ AnnounceRaises(r)
  <2>1. UNCHANGED gateVars
    BY <1>2 DEF BeginStart, AnnounceRun, AnnounceRaises
  <2>2. RunsTyped /\ RunsTyped' /\ NoneBegins
    BY PrepareKeeps DEF RunsInductive
  <2>3. Gate!RunsEnd
    BY <2>1, <2>2, RunsOnlyEnd
  <2> QED BY <2>3 DEF Gate!Next
<1> QED BY <1>1, <1>2 DEF Prepares

\* The enqueue is an entry of the run's profile.
LEMMA EnqueueGates ==
  ASSUME RunsInductive, NEW r \in Runs, EnqueueRun(r)
  PROVE  Gate!Next
<1>1. RunsTyped /\ RunsTyped' /\ CallFits(r) /\ \A s \in Runs : Working(s)' <=> Working(s) \/ s = r
  BY EnqueueRunKeeps DEF RunsInductive
<1>2. Gate!Accept(r) /\ call[r].profile = Owner[r]
  BY <1>1 DEF EnqueueRun, Gate!Accept, Gate!At, CallFits
<1>3. \A p : p \in BusyProfiles' <=> p \in BusyProfiles \/ p = Owner[r]
  BY <1>1, BusyAre
<1>4. BusyProfiles' = BusyProfiles \union {call[r].profile}
  BY <1>2, <1>3
<1>5. Gate!Starting(r)
  BY <1>2, <1>4 DEF Gate!Starting, Gate!Enqueue
<1> QED BY <1>5 DEF Gate!Next

\* What an erasure takes along is neither queued nor executed, so that the gate sees the
\* same busy profiles before and after: no lock, deletion or reset is kept from happening
\* by what the worker does, other than by the gate.
LEMMA ErasedAreIdle ==
  ASSUME RunsInductive, Gate!Inductive, NEW t \in ApiThreads,
         Gate!Operating(t) \/ Gate!Mutating(t) \/ Gate!Resetting(t)
  PROVE  /\ \A r \in Erased(t) \union Erasing(t) : ~Working(r)
         /\ \A r \in Runs : call'[r] = call[r]
<1>1. \A r \in Runs : Working(r) => Owner[r] \in BusyProfiles
  BY BusyAre DEF RunsInductive
<1>2. /\ \A u \in (ApiThreads \union Runs) \ {t} : call'[u] = call[u]
      /\ \A p \in users \ users' : p \notin BusyProfiles
  <2>1. Proved!Operating(t) \/ Proved!Mutating(t) \/ Proved!Resetting(t)
    BY SameSteps
  <2>2. Proved!Inductive
    BY SameInductive
  <2> QED BY <2>1, <2>2, Proved!OnlyIdleGo, GateIsGate
<1>3. call[t].op \in Gate!Mutations => call[t].profile \notin BusyProfiles
  BY DEF Gate!Inductive, Gate!GateExcludes
<1>4. call[t].op = "reset" => BusyProfiles = {}
  BY DEF Gate!Inductive, Gate!GateExcludes, Gate!Resets
<1> QED BY <1>1, <1>2, <1>3, <1>4, OwnersAssumption DEF Erased, Erasing

LEMMA UseGateKeeps ==
  ASSUME RunsInductive, Gate!Inductive, NEW t \in ApiThreads, UseGate(t)
  PROVE  RunsInductive' /\ NoneBegins
<1>1. PICK gone \in SUBSET Runs :
        /\ artifact' = [r \in Runs |-> IF r \in gone THEN Absent ELSE artifact[r]]
        /\ gone \subseteq Erased(t) \union Erasing(t)
  BY DEF UseGate
<1>2. /\ UNCHANGED <<control, worker, starter, client, closer>>
      /\ Gate!Operating(t) \/ Gate!Mutating(t) \/ Gate!Resetting(t)
  BY DEF UseGate, thread
<1>3. /\ \A r \in gone : ~Working(r)
      /\ \A r \in Runs : call'[r] = call[r]
  BY <1>1, <1>2, ErasedAreIdle
<1>4. artifact \in [Runs -> Artifact] /\ Absent \in Artifact /\ Absent.status = "absent" /\ ~IsLive(Absent)
  BY DEF RunsInductive, RunsTyped, Absent, Artifact, Statuses, Errors, IsLive, LiveStatuses
<1>5. StoreKeeps
  BY <1>1, <1>3, <1>4 DEF StoreKeeps, Working
<1>6. worker' \in Workers /\ WorkerFits'
  BY <1>1, <1>2, <1>3, WorkerUndisturbed DEF Working, control
<1> QED BY <1>2, <1>3, <1>5, <1>6, ClientsStay, CloserStays, QuietStep DEF control

-----------------------------------------------------------------------------
\* Nothing is queued at first, and nobody is in the gate.
LEMMA ServiceStart ==
  ASSUME ServiceInit
  PROVE  RunsInductive /\ Gate!Init
<1>1. RunsTyped
  <2>1. TypeOK /\ IsInjective(pending)
    BY InductiveInit DEF ServiceInit, Inductive, QueueIsFresh
  <2> QED BY <2>1 DEF TypeOK, RunsTyped
<1>2. WorkerFits /\ CloserFits
  BY DEF ServiceInit, Init, WorkerFits, Busy, IdleWorker, CloserFits
<1>3. ASSUME NEW r \in Runs
      PROVE  RunFits(r) /\ CallFits(r) /\ ~Working(r)
  <2>1. ~QueueOwns(r) /\ ~CloserOwns(r) /\ r # active /\ artifact[r].status = "absent"
    BY RunsAssumption DEF ServiceInit, Init, QueueOwns, CloserOwns, Absent
  <2>2. PICK idle : idle = Gate!Idle
    OBVIOUS
  <2>3. call[r] = idle /\ idle.op = "none"
    BY <2>2 DEF ServiceInit, Gate!Idle
  <2> QED BY <2>1, <2>3 DEF RunFits, CallFits, Working
<1>4. \A c \in Clients : ClientFits(c)
  BY DEF ServiceInit, Init, ClientFits, NoCall
<1>5. BusyProfiles = {}
  BY <1>1, <1>3, BusyAre
<1> QED BY <1>1, <1>2, <1>3, <1>4, <1>5 DEF RunsInductive, ServiceInit, Gate!Init

\* Every step keeps the invariant of the runs and is a step of the gate.
LEMMA ServiceStep ==
  ASSUME RunsInductive, Gate!Inductive, [ServiceNext]_serviceVars
  PROVE  RunsInductive' /\ [Gate!Next]_Gate!vars
<1>1. ASSUME NEW r \in Runs, Prepares(r)
      PROVE  RunsInductive' /\ Gate!Next
  BY <1>1, PrepareKeeps, PrepareGates
<1>2. ASSUME NEW r \in Runs, EnqueueRun(r)
      PROVE  RunsInductive' /\ Gate!Next
  BY <1>2, EnqueueRunKeeps, EnqueueGates
<1>3. ASSUME RunsInductive', NoneBegins, UNCHANGED gateVars
      PROVE  RunsInductive' /\ Gate!Next
  BY <1>3, RunsOnlyEnd DEF Gate!Next, RunsInductive
<1>4. ASSUME NEW c \in Clients, Cancels(c)
      PROVE  RunsInductive' /\ Gate!Next
  <2>1. UNCHANGED gateVars
    BY <1>4 DEF Cancels, AccessRun, GoOnCancelling, DecideBlindly, CancelRaises
  <2> QED BY <1>3, <1>4, <2>1, CancelKeeps
<1>5. CASE WorkerSteps
  BY <1>3, <1>5, WorkerKeeps DEF WorkerSteps
<1>6. CASE Quiesces \/ QuiesceRaises
  BY <1>3, <1>6, QuiesceKeeps DEF Quiesces, QuiesceRaises
<1>7. ASSUME NEW t \in ApiThreads, UseGate(t)
      PROVE  RunsInductive' /\ Gate!Next
  <2>1. Gate!Operating(t) \/ Gate!Mutating(t) \/ Gate!Resetting(t)
    BY <1>7 DEF UseGate
  <2> QED BY <1>7, <2>1, UseGateKeeps DEF Gate!Next
<1>8. CASE UNCHANGED serviceVars
  <2>1. UNCHANGED <<control, store, thread, starter, client, closer, gateVars>>
    BY <1>8 DEF serviceVars, runVars
  <2>2. UNCHANGED <<active, worker, artifact>>
    BY <2>1 DEF control, thread, store
  <2>3. StoreKeeps /\ worker' \in Workers /\ WorkerFits'
    BY <2>2, StoreStays, WorkerUndisturbed DEF RunsInductive
  <2>4. RunsInductive' /\ NoneBegins
    BY <2>1, <2>3, WorkerActs
  <2> QED BY <1>3, <2>1, <2>4
<1> QED BY <1>1, <1>2, <1>4, <1>5, <1>6, <1>7, <1>8 DEF ServiceNext, Prepares, Cancels

\* The invariant behind the theorems below: the runs' own part of it, and the gate's.
THEOREM ServiceInductive == Service => [](RunsInductive /\ Gate!Inductive)
<1>1. ServiceInit => RunsInductive /\ Gate!Inductive
  BY ServiceStart, GateBegins
<1>2. RunsInductive /\ Gate!Inductive /\ [ServiceNext]_serviceVars
        => (RunsInductive /\ Gate!Inductive)'
  BY ServiceStep, GateKeeps
<1> QED BY <1>1, <1>2, PTL DEF Service

\* Starting, claiming, cancelling, draining and ending runs are nothing to the gate but
\* requests that it lets in and runs that end; so what is proved of the gate by itself
\* holds of the service.
THEOREM RunsUseTheGate == Service => GateHolds
<1>1. ServiceInit => Gate!Init
  BY ServiceStart
<1>2. RunsInductive /\ Gate!Inductive /\ [ServiceNext]_serviceVars => [Gate!Next]_Gate!vars
  BY ServiceStep
<1> QED BY <1>1, <1>2, ServiceInductive, PTL DEF Service, GateHolds, Gate!Spec

\* The worker finds the run it executes, and the claim the one it takes, with its profile
\* there and its key cached, whoever locks, deletes or resets profiles meanwhile.
THEOREM StoreAlwaysAnswers == Service => []StoreAnswers
<1>1. RunsInductive /\ Gate!Inductive => StoreAnswers
  <2> SUFFICES ASSUME RunsInductive, Gate!Inductive
               PROVE  StoreAnswers
    OBVIOUS
  <2>1. /\ RunsTyped /\ WorkerFits /\ \A r \in Runs : RunFits(r)
        /\ \A p \in BusyProfiles : Gate!Readable(p)
    BY DEF RunsInductive, Gate!Inductive, Gate!WorkIsReadable
  <2>2. ASSUME NEW r \in Runs, Working(r)
        PROVE  Writable(r)
    <3>1. Gate!Readable(Owner[r])
      BY <2>1, <2>2, BusyAre
    <3>2. artifact[r].status # "absent"
      BY <2>1, <2>2 DEF Working, RunFits, IsLive, LiveStatuses
    <3> QED BY <3>1, <3>2 DEF Writable
  <2>3. WorkerFindsRun
    <3>1. worker.pc \in {"run", "fail"} => Job \in Runs /\ Working(Job)
      BY <2>1 DEF WorkerFits, Busy, Working
    <3> QED BY <2>2, <3>1 DEF WorkerFindsRun
  <2>4. QueueFindsRuns
    <3>1. \A i \in DOMAIN pending : pending[i] \in Runs /\ Working(pending[i])
      BY <2>1 DEF RunsTyped, Working, QueueOwns
    <3> QED BY <2>2, <3>1 DEF QueueFindsRuns
  <2> QED BY <2>3, <2>4 DEF StoreAnswers
<1> QED BY <1>1, ServiceInductive, PTL

=============================================================================
