-------------------------- MODULE RunControlProofs --------------------------
(***************************************************************************)
(* Proofs, for any number of runs and clients, that the run lifecycle      *)
(* keeps its type, gives every run one outcome, never takes it back and    *)
(* never forgets a run, completes only what is saved, and closes model     *)
(* requests only for a run that is being cancelled.  They all rest on the  *)
(* invariant Inductive.                                                    *)
(***************************************************************************)
EXTENDS RunControl, SequenceTheorems, TLAPS

(* What the methods of RunStore do to an artifact.                         *)

\* An appended event becomes the last one and leaves the others in place.
LEMMA AppendedEvent ==
  ASSUME NEW events \in Seq(EventKinds), NEW e \in EventKinds
  PROVE  /\ Append(events, e) \in Seq(EventKinds)
         /\ DOMAIN Append(events, e) = DOMAIN events \union {Len(events) + 1}
         /\ Len(events) + 1 \notin DOMAIN events
         /\ Append(events, e)[Len(events) + 1] = e
         /\ \A i \in DOMAIN events : Append(events, e)[i] = events[i]
  OBVIOUS

\* Progress events never change the outcome of a run.
LEMMA ProgressKeepsOutcome ==
  ASSUME NEW a \in Artifact, SingleOutcome(a)
  PROVE  /\ WithProgress(a) \in Artifact
         /\ WithProgress(a).status = a.status
         /\ SingleOutcome(WithProgress(a))
  <1> DEFINE b == [a EXCEPT !.events = Append(@, "progress")]
  <1>1. CASE WithProgress(a) = a
    BY <1>1
  <1>2. CASE WithProgress(a) = b
    <2>1. /\ b \in Artifact
          /\ b.status = a.status
          /\ b.events = Append(a.events, "progress")
      BY AppendedEvent DEF Artifact, EventKinds
    <2>2. \A kinds \in SUBSET TerminalKinds : Has(b, kinds) <=> Has(a, kinds)
      BY <2>1, AppendedEvent DEF Has, Artifact, EventKinds, TerminalKinds
    <2>3. \A i \in DOMAIN b.events : b.events[i] \in TerminalKinds =>
            i \in DOMAIN a.events /\ a.events[i] \in TerminalKinds
      BY <2>1, AppendedEvent DEF Artifact, EventKinds, TerminalKinds
    <2> QED
      BY <1>2, <2>1, <2>2, <2>3 DEF SingleOutcome, TerminalKinds
  <1> QED
    BY <1>1, <1>2 DEF WithProgress

\* A change of status among the live ones leaves the events alone.
LEMMA LiveStatusKeepsOutcome ==
  ASSUME NEW a \in Artifact, SingleOutcome(a), ~IsTerminal(a),
         NEW s \in LiveStatuses
  PROVE  /\ [a EXCEPT !.status = s] \in Artifact
         /\ [a EXCEPT !.status = s].status = s
         /\ SingleOutcome([a EXCEPT !.status = s])
  BY DEF Artifact, SingleOutcome, IsTerminal, LiveStatuses, TerminalStatuses,
         Statuses, Has

\* A recorded cancellation leaves a finished run alone.
LEMMA CancellingKeepsOutcome ==
  ASSUME NEW a \in Artifact, SingleOutcome(a)
  PROVE  /\ MarkCancelling(a) \in Artifact
         /\ MarkCancelling(a).status = IF IsTerminal(a) THEN a.status
                                                        ELSE "cancelling"
         /\ SingleOutcome(MarkCancelling(a))
         /\ MarkCancellingWithEvent(a) \in Artifact
         /\ MarkCancellingWithEvent(a).status = MarkCancelling(a).status
         /\ SingleOutcome(MarkCancellingWithEvent(a))
  <1>1. CASE IsTerminal(a)
    BY <1>1 DEF MarkCancelling, MarkCancellingWithEvent
  <1>2. CASE ~IsTerminal(a)
    <2>1. /\ MarkCancelling(a) \in Artifact
          /\ MarkCancelling(a).status = "cancelling"
          /\ SingleOutcome(MarkCancelling(a))
      BY <1>2, LiveStatusKeepsOutcome DEF MarkCancelling, LiveStatuses
    <2>2. MarkCancellingWithEvent(a) = WithProgress(MarkCancelling(a))
      BY <1>2 DEF MarkCancellingWithEvent
    <2> QED
      BY <1>2, <2>1, <2>2, ProgressKeepsOutcome
  <1> QED
    BY <1>1, <1>2

\* Finishing a run gives it one outcome, and keeps the one it already has; a
\* cancelled run does not complete.
LEMMA FinishKeepsOutcome ==
  ASSUME NEW a \in Artifact, SingleOutcome(a),
         NEW status \in TerminalStatuses, NEW error \in Errors
  PROVE  /\ Finish(a, status, error) \in Artifact
         /\ IsTerminal(Finish(a, status, error))
         /\ SingleOutcome(Finish(a, status, error))
         /\ IsTerminal(a) => Finish(a, status, error) = a
         /\ a.status = "cancelling" =>
              Finish(a, status, error).status = "failed"
         /\ status = "failed" /\ ~IsTerminal(a) =>
              Finish(a, status, error).status = "failed"
  <1>1. Has(a, TerminalKinds) <=> IsTerminal(a)
    BY DEF SingleOutcome, Has, TerminalKinds, IsTerminal, TerminalStatuses
  <1>2. CASE IsTerminal(a)
    <2>1. Finish(a, status, error) = a
      BY <1>1, <1>2 DEF Finish
    <2> QED
      BY <1>2, <2>1 DEF IsTerminal, TerminalStatuses
  <1>3. CASE ~IsTerminal(a)
    <2> DEFINE b(s, e) == EndedAs(a, s, e)
    <2>1. ASSUME NEW s \in TerminalStatuses, NEW e \in Errors
          PROVE  /\ b(s, e) \in Artifact
                 /\ b(s, e).status = s
                 /\ IsTerminal(b(s, e))
                 /\ SingleOutcome(b(s, e))
      <3> DEFINE kind == IF s = "completed" THEN "run_completed" ELSE "run_failed"
      <3>1. kind \in EventKinds /\ kind \in TerminalKinds
        BY DEF EventKinds, TerminalKinds
      <3>2. /\ b(s, e) \in Artifact
            /\ b(s, e).status = s
            /\ b(s, e).events = Append(a.events, kind)
        BY <3>1, AppendedEvent DEF EndedAs, Artifact, Statuses, TerminalStatuses
      <3>3. \A i \in DOMAIN a.events : a.events[i] \notin TerminalKinds
        BY <1>1, <1>3 DEF Has
      <3>4. \A i \in DOMAIN b(s, e).events : b(s, e).events[i] \in TerminalKinds =>
              i = Len(a.events) + 1
        BY <3>1, <3>2, <3>3, AppendedEvent DEF Artifact
      <3>5. Len(a.events) + 1 \in DOMAIN b(s, e).events
            /\ b(s, e).events[Len(a.events) + 1] = kind
        BY <3>1, <3>2, AppendedEvent DEF Artifact
      <3>6. \A k \in TerminalKinds : Has(b(s, e), {k}) <=> k = kind
        BY <3>4, <3>5 DEF Has
      <3> QED
        BY <3>2, <3>4, <3>6
           DEF SingleOutcome, TerminalKinds, IsTerminal, TerminalStatuses
    <2> HIDE DEF b
    <2>2. Finish(a, status, error) =
            IF a.status = "cancelling" /\ status = "completed"
            THEN b("failed", "stopped") ELSE b(status, error)
      BY <1>1, <1>3 DEF Finish, b
    <2> QED
      BY <1>3, <2>1, <2>2 DEF TerminalStatuses, Errors
  <1> QED
    BY <1>2, <1>3

-----------------------------------------------------------------------------
(* The queue.                                                              *)

\* A run that was not queued is queued once.
LEMMA AppendedRun ==
  ASSUME NEW q \in Seq(Runs), IsInjective(q), NEW r \in Runs,
         \A i \in DOMAIN q : q[i] # r
  PROVE  /\ Append(q, r) \in Seq(Runs)
         /\ IsInjective(Append(q, r))
         /\ \A s \in Runs : (\E i \in DOMAIN Append(q, r) : Append(q, r)[i] = s)
              <=> (s = r \/ \E i \in DOMAIN q : q[i] = s)
  <1>1. /\ Append(q, r) \in Seq(Runs)
        /\ DOMAIN Append(q, r) = DOMAIN q \union {Len(q) + 1}
        /\ Append(q, r)[Len(q) + 1] = r
        /\ \A i \in DOMAIN q : Append(q, r)[i] = q[i]
    OBVIOUS
  <1> QED
    BY <1>1 DEF IsInjective

\* Taking the first run off the queue takes exactly that run off it.
LEMMA TakenRun ==
  ASSUME NEW q \in Seq(Runs), IsInjective(q), q # <<>>
  PROVE  /\ Head(q) \in Runs
         /\ Head(q) = q[1] /\ 1 \in DOMAIN q
         /\ Tail(q) \in Seq(Runs)
         /\ IsInjective(Tail(q))
         /\ \A s \in Runs : (\E i \in DOMAIN Tail(q) : Tail(q)[i] = s)
              <=> (s # Head(q) /\ \E i \in DOMAIN q : q[i] = s)
  <1>1. /\ Head(q) = q[1] /\ 1 \in DOMAIN q
        /\ Head(q) \in Runs
        /\ Tail(q) \in Seq(Runs)
        /\ DOMAIN q = 1 .. Len(q)
        /\ Len(q) \in Nat
        /\ DOMAIN Tail(q) = 1 .. (Len(q) - 1)
        /\ \A i \in DOMAIN Tail(q) : Tail(q)[i] = q[i + 1]
    OBVIOUS
  <1>2. \A i \in DOMAIN q : q[i] # Head(q) => i - 1 \in DOMAIN Tail(q)
    BY <1>1
  <1>3. IsInjective(Tail(q))
    BY <1>1 DEF IsInjective
  <1>4. \A i \in DOMAIN Tail(q) : i + 1 \in DOMAIN q /\ i + 1 # 1
    BY <1>1
  <1>5. \A i \in DOMAIN Tail(q) : Tail(q)[i] # Head(q)
    BY <1>1, <1>4 DEF IsInjective
  <1>6. ASSUME NEW s \in Runs
        PROVE  (\E i \in DOMAIN Tail(q) : Tail(q)[i] = s)
                 <=> (s # Head(q) /\ \E i \in DOMAIN q : q[i] = s)
    <2>1. ASSUME NEW i \in DOMAIN Tail(q), Tail(q)[i] = s
          PROVE  s # Head(q) /\ \E j \in DOMAIN q : q[j] = s
      BY <1>1, <1>4, <1>5, <2>1
    <2>2. ASSUME NEW i \in DOMAIN q, q[i] = s, s # Head(q)
          PROVE  \E j \in DOMAIN Tail(q) : Tail(q)[j] = s
      <3>1. i - 1 \in DOMAIN Tail(q) /\ (i - 1) + 1 = i
        BY <1>1, <1>2, <2>2
      <3> QED
        BY <1>1, <2>2, <3>1
    <2> QED
      BY <2>1, <2>2
  <1> QED
    BY <1>1, <1>3, <1>6

\* So does withdrawing a run from the middle of the queue.
LEMMA WithdrawnRun ==
  ASSUME NEW q \in Seq(Runs), IsInjective(q), NEW k \in DOMAIN q
  PROVE  /\ RemoveAt(q, k) \in Seq(Runs)
         /\ IsInjective(RemoveAt(q, k))
         /\ \A s \in Runs : (\E i \in DOMAIN RemoveAt(q, k) : RemoveAt(q, k)[i] = s)
              <=> (s # q[k] /\ \E i \in DOMAIN q : q[i] = s)
  <1> DEFINE p == RemoveAt(q, k)
  <1>1. /\ Len(q) \in Nat /\ DOMAIN q = 1 .. Len(q) /\ k \in 1 .. Len(q)
        /\ \A i \in 1 .. Len(q) : q[i] \in Runs
    OBVIOUS
  <1> DEFINE front == SubSeq(q, 1, k - 1)
             back  == SubSeq(q, k + 1, Len(q))
  <1>2. /\ front \in Seq(Runs)
        /\ Len(front) = k - 1
        /\ \A i \in 1 .. k - 1 : front[i] = q[i]
    BY <1>1
  <1>3. /\ back \in Seq(Runs)
        /\ Len(back) = Len(q) - k
        /\ \A i \in 1 .. Len(q) - k : back[i] = q[i + k]
    <2>1. /\ k + 1 \in Int /\ Len(q) \in Int
          /\ \A i \in k + 1 .. Len(q) : q[i] \in Runs
      BY <1>1
    <2>2. /\ back \in Seq(Runs)
          /\ Len(back) = IF k + 1 <= Len(q) THEN Len(q) - (k + 1) + 1 ELSE 0
          /\ \A i \in 1 .. Len(q) - (k + 1) + 1 : back[i] = q[k + 1 + i - 1]
      BY <2>1, SubSeqProperties
    <2> HIDE DEF back
    <2>3. Len(back) = Len(q) - k
      BY <1>1, <2>2
    <2>4. Len(q) - (k + 1) + 1 = Len(q) - k
      BY <1>1
    <2>5. \A i \in 1 .. Len(q) - k : k + 1 + i - 1 = i + k
      BY <1>1
    <2> QED
      BY <2>2, <2>3, <2>4, <2>5
  <1>4. /\ p \in Seq(Runs)
        /\ DOMAIN p = 1 .. Len(q) - 1
        /\ \A i \in 1 .. Len(q) - 1 : p[i] = IF i < k THEN q[i] ELSE q[i + 1]
    <2>1. p = front \o back
      BY DEF RemoveAt
    <2> HIDE DEF p, front, back
    <2>2. /\ p \in Seq(Runs)
          /\ Len(p) = Len(front) + Len(back)
          /\ \A i \in 1 .. Len(front) + Len(back) : p[i] =
               IF i <= Len(front) THEN front[i] ELSE back[i - Len(front)]
      BY <1>2, <1>3, <2>1, ConcatProperties
    <2>3. Len(p) = Len(q) - 1 /\ Len(front) + Len(back) = Len(q) - 1
      BY <1>1, <1>2, <1>3, <2>2
    <2>4. ASSUME NEW i \in 1 .. Len(q) - 1
          PROVE  p[i] = IF i < k THEN q[i] ELSE q[i + 1]
      <3>1. CASE i < k
        <4>1. i \in 1 .. k - 1 /\ i <= Len(front)
          BY <1>1, <1>2, <3>1
        <4> QED
          BY <1>2, <2>2, <2>3, <3>1, <4>1
      <3>2. CASE ~(i < k)
        <4>1. /\ i - Len(front) \in 1 .. Len(q) - k
              /\ ~(i <= Len(front))
              /\ (i - Len(front)) + k = i + 1
          BY <1>1, <1>2, <3>2
        <4>2. p[i] = back[i - Len(front)]
          BY <2>2, <2>3, <4>1
        <4>3. back[i - Len(front)] = q[i + 1]
          BY <1>3, <4>1
        <4> QED
          BY <3>2, <4>2, <4>3
      <3> QED
        BY <3>1, <3>2
    <2>5. DOMAIN p = 1 .. Len(p)
      BY <2>2
    <2> QED
      BY <2>2, <2>3, <2>4, <2>5
  <1> HIDE DEF p
  <1>5. IsInjective(p)
    <2> DEFINE at(i) == IF i < k THEN i ELSE i + 1
    <2>1. \A i \in DOMAIN p : at(i) \in DOMAIN q /\ p[i] = q[at(i)]
      BY <1>1, <1>4
    <2>2. \A i, j \in DOMAIN p : at(i) = at(j) => i = j
      BY <1>1, <1>4
    <2> HIDE DEF at
    <2> QED
      BY <2>1, <2>2 DEF IsInjective
  <1>6. ASSUME NEW s \in Runs
        PROVE  (\E i \in DOMAIN p : p[i] = s)
                 <=> (s # q[k] /\ \E i \in DOMAIN q : q[i] = s)
    <2>1. ASSUME NEW i \in DOMAIN p, p[i] = s
          PROVE  s # q[k] /\ \E j \in DOMAIN q : q[j] = s
      BY <1>1, <1>4, <2>1 DEF IsInjective
    <2>2. ASSUME NEW i \in DOMAIN q, q[i] = s, s # q[k]
          PROVE  \E j \in DOMAIN p : p[j] = s
      <3>1. CASE i < k
        BY <1>1, <1>4, <2>2, <3>1
      <3>2. CASE i > k
        <4>1. i - 1 \in DOMAIN p /\ ~(i - 1 < k) /\ (i - 1) + 1 = i
          BY <1>1, <1>4, <3>2
        <4> QED
          BY <1>1, <1>4, <2>2, <4>1
      <3> QED
        BY <1>1, <2>2, <3>1, <3>2
    <2> QED
      BY <2>1, <2>2
  <1> QED
    BY <1>4, <1>5, <1>6 DEF p

-----------------------------------------------------------------------------
(* What a step makes of the artifacts.                                     *)

\* The rules every rewriting of an artifact follows.
Follows(b, a) ==
  /\ b \in Artifact
  /\ SingleOutcome(b)
  /\ IsTerminal(a) => b.status = a.status
  /\ a.status = "cancelling" => b.status # "completed"
  /\ a.status # "absent" => b.status # "absent"

ArtifactsFollow == /\ DOMAIN artifact' = Runs
                   /\ artifact' = [r \in Runs |-> artifact'[r]]
                   /\ \A r \in Runs : Follows(artifact'[r], artifact[r])

\* A step that rewrites one artifact leaves the others as they are.
LEMMA OneArtifactFollows ==
  ASSUME TypeOK, OneOutcome, NEW r \in Runs, NEW b, SetArtifact(r, b),
         Follows(b, artifact[r])
  PROVE  ArtifactsFollow
  <1>1. \A q \in Runs : artifact'[q] = IF q = r THEN b ELSE artifact[q]
    BY DEF TypeOK, SetArtifact
  <1>2. \A q \in Runs : Follows(artifact[q], artifact[q])
    BY DEF Follows, TypeOK, OneOutcome, IsTerminal, TerminalStatuses
  <1> QED
    BY <1>1, <1>2 DEF ArtifactsFollow, TypeOK, SetArtifact

\* Neither does a step that rewrites none.
LEMMA NoArtifactFollows ==
  ASSUME TypeOK, OneOutcome, UNCHANGED artifact
  PROVE  ArtifactsFollow
  BY DEF ArtifactsFollow, Follows, TypeOK, OneOutcome, IsTerminal, TerminalStatuses

\* A progress event is a legal continuation of any artifact.
LEMMA ReportFollows ==
  ASSUME TypeOK, OneOutcome, NEW r \in Runs, Report(r)
  PROVE  ArtifactsFollow
  <1>1. Follows(WithProgress(artifact[r]), artifact[r])
    BY ProgressKeepsOutcome
       DEF Follows, TypeOK, OneOutcome, IsTerminal, TerminalStatuses
  <1> QED
    BY <1>1, OneArtifactFollows DEF Report

\* So is a finish, and it leaves the run over.
LEMMA FinishFollows ==
  ASSUME TypeOK, OneOutcome, NEW r \in Runs,
         NEW status \in TerminalStatuses, NEW error \in Errors,
         SetArtifact(r, Finish(artifact[r], status, error))
  PROVE  ArtifactsFollow /\ IsTerminal(artifact'[r])
  <1>1. Follows(Finish(artifact[r], status, error), artifact[r])
    BY FinishKeepsOutcome
       DEF Follows, TypeOK, OneOutcome, IsTerminal, TerminalStatuses
  <1>2. artifact'[r] = Finish(artifact[r], status, error)
    BY DEF SetArtifact, TypeOK
  <1> QED
    BY <1>1, <1>2, OneArtifactFollows, FinishKeepsOutcome DEF TypeOK, OneOutcome

\* The actions that write an artifact.
LEMMA Writers ==
  ASSUME Next
  PROVE  \/ UNCHANGED artifact
         \/ \E r \in Runs : Enqueue(r) \/ Announce(r)
         \/ \E c \in Clients : EmitStopping(c) \/ FailWithdrawn(c) \/ ClaimStop(c)
         \/ ClaimJob \/ ReportStep \/ ModelStep \/ CompleteStep \/ RecordFailure
         \/ FailDrained \/ QuiesceActive \/ FailAbandoned
  BY DEF Next, store, StartRun, Starting, RefuseRun, SignalWorker, CancelRun,
         Cancelling, WithdrawQueued, NothingToCancel, RequestStop, RetractStop,
         AbortRequest, Waiting, WorkerWakes, WorkerClears, ClaimRaises,
         ClaimNothing, WorkerIdles, Executes, LoadStep, CheckStep,
         CheckpointStep, StepRaises, ReleaseJob, BeginShutdown, Closing,
         NoActiveToQuiesce, AbortActive, WakeWorker, JoinWorker,
         CloseResources, JoinTimesOut

\* A step follows the rules on every artifact.
LEMMA StoreStep ==
  ASSUME Inductive, Next
  PROVE  ArtifactsFollow
  <1> USE DEF Inductive
  <1>1. ASSUME NEW r \in Runs, Enqueue(r)
        PROVE  ArtifactsFollow
    <2>1. Follows(Created, artifact[r])
      BY <1>1 DEF Follows, Created, Artifact, SingleOutcome, Has, IsTerminal,
                  TerminalStatuses, Statuses, LiveStatuses, Errors, EventKinds,
                  Enqueue, StarterAt, AbsentUntilEnqueued
    <2> QED
      BY <1>1, <2>1, OneArtifactFollows DEF Enqueue
  <1>2. ASSUME NEW r \in Runs, Announce(r)
        PROVE  ArtifactsFollow
    BY <1>2, ReportFollows DEF Announce
  <1>3. ASSUME NEW c \in Clients, EmitStopping(c)
        PROVE  ArtifactsFollow
    BY <1>3, ReportFollows DEF EmitStopping, ClientsAreOutside
  <1>4. ASSUME NEW c \in Clients, FailWithdrawn(c)
        PROVE  ArtifactsFollow
    <2>1. client[c].run \in Runs /\ "failed" \in TerminalStatuses /\ "stopped" \in Errors
      BY <1>4 DEF FailWithdrawn, ClientsAreOutside, TerminalStatuses, Errors
    <2> QED
      BY <1>4, <2>1, FinishFollows DEF FailWithdrawn
  <1>5. ASSUME NEW c \in Clients, ClaimStop(c)
        PROVE  ArtifactsFollow
    <2> DEFINE r == client[c].run
    <2>1. r \in Runs /\ artifact[r].status # "absent"
      BY <1>5 DEF ClaimStop, ClientsAreOutside
    <2>2. Follows(MarkCancellingWithEvent(artifact[r]), artifact[r])
      BY <2>1, CancellingKeepsOutcome
         DEF Follows, TypeOK, OneOutcome, IsTerminal, TerminalStatuses
    <2> QED
      BY <1>5, <2>1, <2>2, OneArtifactFollows DEF ClaimStop
  <1>6. CASE ClaimJob
    <2> DEFINE r == Head(pending)
    <2>1. r \in Runs /\ artifact[r].status = "queued"
      BY <1>6, TakenRun DEF ClaimJob, Claimable, TypeOK, QueueIsFresh
    <2>2. Follows(MarkRunning(artifact[r]), artifact[r])
      BY <2>1, LiveStatusKeepsOutcome
         DEF Follows, TypeOK, OneOutcome, IsTerminal, TerminalStatuses,
             LiveStatuses, MarkRunning
    <2> QED
      BY <1>6, <2>1, <2>2, OneArtifactFollows DEF ClaimJob
  <1>7. CASE ReportStep \/ ModelStep
    BY <1>7, ReportFollows DEF ReportStep, ModelStep, Executing, WorkerIsActive, Busy
  <1>8. CASE CompleteStep
    <2>1. Job \in Runs /\ "completed" \in TerminalStatuses /\ "none" \in Errors
      BY <1>8 DEF CompleteStep, Executing, WorkerIsActive, Busy, TerminalStatuses, Errors
    <2> QED
      BY <1>8, <2>1, FinishFollows DEF CompleteStep
  <1>9. CASE RecordFailure
    <2>1. Job \in Runs /\ "failed" \in TerminalStatuses /\ worker.error \in Errors
      BY <1>9 DEF RecordFailure, WorkerGoes, WorkerIsActive, Busy, TerminalStatuses, TypeOK
    <2> QED
      BY <1>9, <2>1, FinishFollows DEF RecordFailure
  <1>10. CASE FailDrained
    <2>1. /\ Head(closer.pending) \in Runs
          /\ "failed" \in TerminalStatuses /\ "shutdown" \in Errors
      BY <1>10, TakenRun DEF FailDrained, TypeOK, DrainedAlone, TerminalStatuses, Errors
    <2> QED
      BY <1>10, <2>1, FinishFollows DEF FailDrained
  <1>11. CASE QuiesceActive
    <2> DEFINE r == closer.active
    <2>1. r \in Runs /\ artifact[r].status # "absent"
      BY <1>11 DEF QuiesceActive, TypeOK, DrainedAlone
    <2>2. Follows(MarkCancelling(artifact[r]), artifact[r])
      BY <2>1, CancellingKeepsOutcome
         DEF Follows, TypeOK, OneOutcome, IsTerminal, TerminalStatuses
    <2> QED
      BY <1>11, <2>1, <2>2, OneArtifactFollows DEF QuiesceActive
  <1>12. CASE FailAbandoned
    <2>1. /\ closer.active \in Runs
          /\ "failed" \in TerminalStatuses /\ "shutdown" \in Errors
      BY <1>12 DEF FailAbandoned, CloserGoes, DrainedAlone, TerminalStatuses, Errors
    <2> QED
      BY <1>12, <2>1, FinishFollows DEF FailAbandoned
  <1>13. CASE UNCHANGED artifact
    BY <1>13, NoArtifactFollows
  <1> QED
    BY <1>1, <1>2, <1>3, <1>4, <1>5, <1>6, <1>7, <1>8, <1>9, <1>10, <1>11,
       <1>12, <1>13, Writers

-----------------------------------------------------------------------------
(* The types of the other variables.                                       *)

\* The last step of every plan is the one that completes the run.
LEMMA PlanSteps ==
  ASSUME NEW r \in Runs, NEW k \in 1 .. 9
  PROVE  /\ Plan(r)[k] = "complete" <=> k = 9
         /\ Plan(r)[k] = "checkpoint" <=> k = IF r \in Compacts THEN 7 ELSE 8
  BY DEF Plan, ChatPlan, CompactPlan

\* No plan ends with a step that advances: the step number stays in range.
LEMMA AdvanceType ==
  ASSUME Inductive, worker.pc = "run", Step # "complete", Advance
  PROVE  /\ worker'.pc = "run" /\ worker'.job = Job /\ worker'.error = worker.error
         /\ worker'.step = worker.step + 1
         /\ worker'.step \in 1 .. 9
         /\ worker' \in [pc : WorkerPcs, job : Runs \union {NoRun},
                         step : 1 .. 9, error : Errors]
         /\ requestAborted' \in BOOLEAN
  <1>1. Job \in Runs /\ worker.step \in 1 .. 9 /\ worker.step # 9
    BY PlanSteps DEF Inductive, TypeOK, WorkerIsActive, Busy, Step
  <1> QED
    <2>1. worker \in [pc : WorkerPcs, job : Runs \union {NoRun}, step : 1 .. 9,
                     error : Errors]
      BY DEF Inductive, TypeOK
    <2>2. worker.step + 1 \in 1 .. 9
      BY <1>1
    <2> QED
      BY <2>1, <2>2 DEF Advance, Job

\* The types of everything but the artifacts, which StoreStep covers.
ControlTyped ==
  /\ pending \in Seq(Runs)
  /\ active \in Runs \union {NoRun}
  /\ cancelled \subseteq Runs
  /\ shutdownRequested \in BOOLEAN
  /\ wakeup \in BOOLEAN
  /\ checkpointed \subseteq Runs

ThreadsTyped ==
  /\ worker \in [pc : WorkerPcs, job : Runs \union {NoRun}, step : 1 .. 9,
                 error : Errors]
  /\ starter \in [Runs -> StarterPcs]
  /\ client \in [Clients -> [pc : ClientPcs, run : Runs \union {NoRun}]]
  /\ closer \in [pc : CloserPcs, active : Runs \union {NoRun},
                 pending : Seq(Runs)]
  /\ requestAborted \in BOOLEAN

\* Types, for the threads that start runs.
LEMMA StartTypes ==
  ASSUME Inductive, NEW r \in Runs, StartRun(r) \/ Starting(r)
  PROVE  ControlTyped' /\ ThreadsTyped'
  <1> USE DEF Inductive, TypeOK, ControlTyped, ThreadsTyped, control, store, thread
  <1>1. CASE StartRun(r)
    BY <1>1 DEF StartRun, StarterAt, StarterPcs, EnsureWorker, WorkerAlive,
                IdleWorker, WorkerPcs, Errors
  <1>2. CASE RefuseRun(r) \/ Announce(r) \/ SignalWorker(r)
    BY <1>2 DEF RefuseRun, Announce, SignalWorker, StarterAt, StarterPcs
  <1>3. CASE Enqueue(r)
    BY <1>3 DEF Enqueue, StarterAt, StarterPcs
  <1> QED
    BY <1>1, <1>2, <1>3 DEF Starting

\* Types, for the threads that cancel runs.
LEMMA CancelTypes ==
  ASSUME Inductive, NEW c \in Clients,
         Cancelling(c) \/ \E r \in Runs : CancelRun(c, r)
  PROVE  ControlTyped' /\ ThreadsTyped'
  <1> USE DEF Inductive, TypeOK, ControlTyped, ThreadsTyped, control, store, thread,
              ClientGoes, ClientReturns, NoCall, ClientPcs
  <1>1. ASSUME NEW r \in Runs, CancelRun(c, r)
        PROVE  ControlTyped' /\ ThreadsTyped'
    BY <1>1 DEF CancelRun, EnsureWorker, WorkerAlive, IdleWorker, WorkerPcs, Errors
  <1>2. CASE WithdrawQueued(c)
    <2>1. PICK k \in DOMAIN pending : pending' = RemoveAt(pending, k)
      BY <1>2 DEF WithdrawQueued
    <2>2. pending' \in Seq(Runs)
      BY <2>1, WithdrawnRun DEF QueueIsFresh
    <2> QED
      BY <1>2, <2>2 DEF WithdrawQueued
  <1>3. CASE NothingToCancel(c) \/ RequestStop(c) \/ RetractStop(c)
    <2>1. client[c].pc # "ready" => client[c].run \in Runs
      BY DEF ClientsAreOutside
    <2>2. CASE NothingToCancel(c)
      BY <2>1, <2>2 DEF NothingToCancel
    <2>3. CASE RequestStop(c)
      <3>1. cancelled' = cancelled \union {client[c].run} /\ client[c].run \in Runs
        BY <2>1, <2>3 DEF RequestStop
      <3> QED BY <2>3, <3>1, ZenonT(60) DEF RequestStop
    <2>4. CASE RetractStop(c)
      <3>1. cancelled' \subseteq cancelled
        BY <2>4 DEF RetractStop
      <3> QED BY <2>4, <3>1 DEF RetractStop
    <2> QED BY <1>3, <2>2, <2>3, <2>4
  <1>4. CASE EmitStopping(c) \/ FailWithdrawn(c) \/ ClaimStop(c)
    BY <1>4 DEF EmitStopping, FailWithdrawn, ClaimStop
  <1>5. CASE AbortRequest(c)
    BY <1>5 DEF AbortRequest, AbortOpenRequest, Executing
  <1> QED
    BY <1>1, <1>2, <1>3, <1>4, <1>5 DEF Cancelling

\* Types, for the worker between two runs.
LEMMA WaitingTypes ==
  ASSUME Inductive, Waiting
  PROVE  ControlTyped' /\ ThreadsTyped'
  <1> USE DEF Inductive, TypeOK, ControlTyped, ThreadsTyped, control, store, thread
  <1>1. CASE WorkerWakes \/ WorkerClears \/ ClaimNothing \/ WorkerIdles
    BY <1>1 DEF WorkerWakes, WorkerClears, ClaimNothing, WorkerIdles, WorkerGoes,
                WorkerPcs
  <1>2. CASE ClaimJob \/ ClaimRaises
    <2>1. Head(pending) \in Runs /\ Tail(pending) \in Seq(Runs)
      BY <1>2, TakenRun DEF ClaimJob, ClaimRaises, Claimable, QueueIsFresh
    <2>2. pending' \in Seq(Runs) /\ active' \in Runs
      BY <1>2, <2>1 DEF ClaimJob, ClaimRaises
    <2>3. worker' \in [pc : WorkerPcs, job : Runs \union {NoRun}, step : 1 .. 9,
                      error : Errors]
      <3>1. CASE ClaimJob
        <4> HIDE DEF Inductive, TypeOK
        <4>1. worker' = [pc |-> "run", job |-> Head(pending), step |-> 1,
                         error |-> "none"]
          BY <3>1 DEF ClaimJob, IdleWorker
        <4> QED
          BY <2>1, <4>1 DEF WorkerPcs, Errors
      <3>2. CASE ClaimRaises
        BY <3>2 DEF ClaimRaises, WorkerPcs
      <3> QED
        BY <1>2, <3>1, <3>2
    <2>4. UNCHANGED <<cancelled, shutdownRequested, wakeup, checkpointed,
                      starter, client, closer, requestAborted>>
      BY <1>2 DEF ClaimJob, ClaimRaises
    <2> QED
      BY <2>2, <2>3, <2>4
  <1> QED
    BY <1>1, <1>2 DEF Waiting

\* Types, for the worker inside a run.
LEMMA ExecutesTypes ==
  ASSUME Inductive, Executes
  PROVE  ControlTyped' /\ ThreadsTyped'
  <1> USE DEF Inductive, TypeOK, ControlTyped, ThreadsTyped, control, store, thread
  <1>1. ASSUME Executing(FaultySteps \union {"report", "check"}), Advance
        PROVE  /\ worker' \in [pc : WorkerPcs, job : Runs \union {NoRun},
                               step : 1 .. 9, error : Errors]
               /\ requestAborted' \in BOOLEAN
    <2>1. worker.pc = "run" /\ Step # "complete"
      BY <1>1 DEF Executing, FaultySteps
    <2> QED
      BY <1>1, <2>1, AdvanceType
  <1>2. ASSUME NEW error \in Errors, FailsWith(error)
        PROVE  /\ worker' \in [pc : WorkerPcs, job : Runs \union {NoRun},
                               step : 1 .. 9, error : Errors]
               /\ requestAborted' \in BOOLEAN
    BY <1>2 DEF FailsWith, WorkerPcs, Errors
  <1>3. CASE LoadStep \/ ReportStep \/ ModelStep
    BY <1>1, <1>3 DEF LoadStep, ReportStep, ModelStep, Executing, ModelSteps, FaultySteps
  <1>4. CASE CheckStep
    <2>1. "stopped" \in Errors
      BY DEF Errors
    <2> QED
      BY <1>1, <1>2, <1>4, <2>1 DEF CheckStep, Executing
  <1>5. CASE CheckpointStep
    <2>1. Job \in Runs
      BY <1>5 DEF CheckpointStep, Executing, WorkerIsActive, Busy
    <2> QED
      BY <1>1, <1>5, <2>1 DEF CheckpointStep, Executing, FaultySteps
  <1>6. CASE StepRaises
    <2>1. "raised" \in Errors
      BY DEF Errors
    <2> QED
      BY <1>2, <1>6, <2>1 DEF StepRaises
  <1>7. CASE CompleteStep \/ RecordFailure
    BY <1>7 DEF CompleteStep, RecordFailure, WorkerGoes, WorkerPcs
  <1>8. CASE ReleaseJob
    BY <1>8 DEF ReleaseJob, IdleWorker, WorkerPcs, Errors
  <1> QED
    BY <1>3, <1>4, <1>5, <1>6, <1>7, <1>8 DEF Executes

\* Types, for the closing thread.
LEMMA ClosingTypes ==
  ASSUME Inductive, BeginShutdown \/ Closing
  PROVE  ControlTyped' /\ ThreadsTyped'
  <1> USE DEF Inductive, TypeOK, ControlTyped, ThreadsTyped, control, store, thread,
              CloserGoes, CloserPcs
  <1>1. CASE BeginShutdown
    BY <1>1 DEF BeginShutdown
  <1>2. CASE FailDrained
    <2>1. Tail(closer.pending) \in Seq(Runs)
      BY <1>2, TakenRun DEF FailDrained, DrainedAlone
    <2> QED
      BY <1>2, <2>1 DEF FailDrained
  <1>3. CASE QuiesceActive \/ NoActiveToQuiesce \/ WakeWorker \/ FailAbandoned
    BY <1>3 DEF QuiesceActive, NoActiveToQuiesce, WakeWorker, FailAbandoned
  <1>4. CASE AbortActive
    BY <1>4 DEF AbortActive, AbortOpenRequest, Executing
  <1>5. CASE JoinWorker \/ CloseResources \/ JoinTimesOut
    BY <1>5 DEF JoinWorker, CloseResources, JoinTimesOut
  <1> QED
    BY <1>1, <1>2, <1>3, <1>4, <1>5 DEF Closing

\* No step breaks a type.
LEMMA TypeStep ==
  ASSUME Inductive, Next
  PROVE  TypeOK'
  <1>1. ControlTyped' /\ ThreadsTyped'
    BY StartTypes, CancelTypes, WaitingTypes, ExecutesTypes, ClosingTypes DEF Next
  <1>2. artifact' \in [Runs -> Artifact]
    BY StoreStep DEF ArtifactsFollow, Follows
  <1> QED
    BY <1>1, <1>2 DEF TypeOK, ControlTyped, ThreadsTyped

-----------------------------------------------------------------------------
(* Who may change what: the store, the starters, the queue.                *)

\* A progress event changes no status.
LEMMA ReportKeepsStatus ==
  ASSUME TypeOK, OneOutcome, NEW q \in Runs, Report(q), NEW r \in Runs
  PROVE  artifact'[r].status = artifact[r].status
  BY ProgressKeepsOutcome DEF Report, SetArtifact, TypeOK, OneOutcome

\* The status of a run changes when it is enqueued, when it is claimed, and
\* otherwise only while it is out of the queue.
LEMMA StatusStep ==
  ASSUME Inductive, Next, NEW r \in Runs,
         artifact'[r].status # artifact[r].status
  PROVE  \/ Enqueue(r)
         \/ ClaimJob /\ r = Head(pending)
         \/ artifact[r].status # "absent" /\ ~QueueOwns(r)
  <1> USE DEF Inductive
  <1>1. ASSUME NEW q \in Runs, SetArtifact(q, artifact'[q])
        PROVE  r = q
    BY <1>1 DEF SetArtifact, TypeOK
  <1>2. \A q \in Runs : \A b : SetArtifact(q, b) => r = q
    BY DEF SetArtifact, TypeOK
  <1>3. \A q \in Runs : ~Report(q)
    BY ReportKeepsStatus
  <1>4. CASE \E q \in Runs : Enqueue(q) \/ Announce(q)
    BY <1>2, <1>3, <1>4 DEF Enqueue, Announce
  <1>5. CASE \E c \in Clients : EmitStopping(c) \/ FailWithdrawn(c) \/ ClaimStop(c)
    BY <1>2, <1>3, <1>5
       DEF EmitStopping, FailWithdrawn, ClaimStop, ClientsAreOutside
  <1>6. CASE ClaimJob
    BY <1>2, <1>6, TakenRun DEF ClaimJob, Claimable, TypeOK, QueueIsFresh
  <1>7. CASE ReportStep \/ ModelStep \/ CompleteStep \/ RecordFailure
    <2>1. Job = active /\ active \in Runs /\ artifact[active].status # "absent"
      BY <1>7 DEF ReportStep, ModelStep, CompleteStep, RecordFailure, Executing,
                  WorkerGoes, WorkerIsActive, Busy
    <2>2. r = Job
      BY <1>2, <1>3, <1>7, <2>1 DEF ReportStep, ModelStep, CompleteStep, RecordFailure
    <2> QED
      BY <2>1, <2>2 DEF QueueOwns, QueueIsFresh
  <1>8. CASE FailDrained \/ QuiesceActive \/ FailAbandoned
    <2>1. closer.pc # "open" /\ ~QueueOwns(r)
      BY <1>8 DEF FailDrained, QuiesceActive, FailAbandoned, CloserGoes,
                  DrainedAlone, QueueOwns
    <2>2. ASSUME FailDrained
          PROVE  /\ Head(closer.pending) \in Runs
                 /\ artifact[Head(closer.pending)].status # "absent"
      BY <2>2, TakenRun DEF FailDrained, DrainedAlone, TypeOK
    <2>3. ASSUME QuiesceActive \/ FailAbandoned
          PROVE  closer.active \in Runs /\ artifact[closer.active].status # "absent"
      BY <2>3 DEF QuiesceActive, FailAbandoned, CloserGoes, DrainedAlone, TypeOK
    <2> QED
      BY <1>2, <1>8, <2>1, <2>2, <2>3 DEF FailDrained, QuiesceActive, FailAbandoned
  <1> QED
    BY <1>4, <1>5, <1>6, <1>7, <1>8, Writers

\* A starter leaves the part of the call before the run exists by enqueuing it.
LEMMA StarterStep ==
  ASSUME Inductive, Next, NEW r \in Runs, ~Enqueue(r)
  PROVE  starter'[r] \in {"new", "preflight", "refused"}
           <=> starter[r] \in {"new", "preflight", "refused"}
  <1>1. CASE UNCHANGED starter
    BY <1>1
  <1>2. CASE \E q \in Runs : StartRun(q) \/ Starting(q)
    BY <1>2 DEF StartRun, Starting, RefuseRun, Enqueue, Announce, SignalWorker,
                StarterAt, Inductive, TypeOK
  <1> QED
    BY <1>1, <1>2
       DEF Next, CancelRun, Cancelling, WithdrawQueued, NothingToCancel,
           RequestStop, EmitStopping, FailWithdrawn, ClaimStop, RetractStop,
           AbortRequest, Waiting, WorkerWakes, WorkerClears, ClaimJob,
           ClaimRaises, ClaimNothing, WorkerIdles, Executes, LoadStep,
           ReportStep, ModelStep, CheckStep, CheckpointStep, CompleteStep,
           StepRaises, RecordFailure, ReleaseJob, BeginShutdown, Closing,
           FailDrained, QuiesceActive, NoActiveToQuiesce, AbortActive,
           WakeWorker, JoinWorker, CloseResources, JoinTimesOut, FailAbandoned

\* A run exists once its starter has enqueued it, and not before.
LEMMA AbsentStep ==
  ASSUME Inductive, Next
  PROVE  AbsentUntilEnqueued'
  <1> SUFFICES ASSUME NEW r \in Runs
               PROVE  artifact'[r].status = "absent"
                        <=> starter'[r] \in {"new", "preflight", "refused"}
    BY DEF AbsentUntilEnqueued
  <1>1. CASE Enqueue(r)
    BY <1>1 DEF Enqueue, SetArtifact, StarterAt, Created, Inductive, TypeOK
  <1>2. CASE ~Enqueue(r)
    <2>1. artifact[r].status = "absent" => artifact'[r].status = "absent"
      <3>1. ~(ClaimJob /\ r = Head(pending) /\ artifact[r].status = "absent")
        BY TakenRun DEF ClaimJob, Claimable, Inductive, TypeOK, QueueIsFresh
      <3> QED
        BY <1>2, <3>1, StatusStep
    <2>2. artifact[r].status # "absent" => artifact'[r].status # "absent"
      BY StoreStep DEF ArtifactsFollow, Follows
    <2> QED
      BY <1>2, <2>1, <2>2, StarterStep DEF Inductive, AbsentUntilEnqueued
  <1> QED
    BY <1>1, <1>2

\* The five ways the queue changes, and whom it holds afterwards.
LEMMA EnqueueQueue ==
  ASSUME Inductive, NEW r \in Runs, Enqueue(r)
  PROVE  /\ IsInjective(pending')
         /\ ~QueueOwns(r)
         /\ \A s \in Runs : QueueOwns(s)' <=> QueueOwns(s) \/ s = r
  <1>1. pending \in Seq(Runs) /\ IsInjective(pending)
    BY DEF Inductive, TypeOK, QueueIsFresh
  <1>2. \A i \in DOMAIN pending : pending[i] # r
    BY DEF Enqueue, StarterAt, Inductive, AbsentUntilEnqueued, QueueIsFresh
  <1>3. pending' = Append(pending, r)
    BY DEF Enqueue
  <1> QED
    BY <1>1, <1>2, <1>3, AppendedRun DEF QueueOwns

\* A claim takes the head of the queue, and only that.
LEMMA ClaimQueue ==
  ASSUME Inductive, ClaimJob \/ ClaimRaises
  PROVE  /\ IsInjective(pending')
         /\ Head(pending) \in Runs /\ QueueOwns(Head(pending))
         /\ \A s \in Runs : QueueOwns(s)' <=> QueueOwns(s) /\ s # Head(pending)
  <1>1. pending \in Seq(Runs) /\ IsInjective(pending)
    BY DEF Inductive, TypeOK, QueueIsFresh
  <1>2. pending # <<>> /\ pending' = Tail(pending)
    BY DEF ClaimJob, ClaimRaises, Claimable
  <1> QED
    BY <1>1, <1>2, TakenRun DEF QueueOwns

\* A withdrawal takes the client's run out of the queue, and only that.
LEMMA WithdrawQueue ==
  ASSUME Inductive, NEW c \in Clients, WithdrawQueued(c)
  PROVE  /\ IsInjective(pending')
         /\ client[c].run \in Runs /\ QueueOwns(client[c].run)
         /\ \A s \in Runs : QueueOwns(s)' <=> QueueOwns(s) /\ s # client[c].run
  <1>1. pending \in Seq(Runs) /\ IsInjective(pending)
    BY DEF Inductive, TypeOK, QueueIsFresh
  <1>2. PICK k \in DOMAIN pending :
          pending[k] = client[c].run /\ pending' = RemoveAt(pending, k)
    BY DEF WithdrawQueued
  <1>3. client[c].run \in Runs
    BY <1>1, <1>2
  <1> QED
    BY <1>1, <1>2, <1>3, WithdrawnRun DEF QueueOwns

\* A shutdown leaves nothing queued.
LEMMA DrainQueue ==
  ASSUME BeginShutdown
  PROVE  IsInjective(pending') /\ \A s \in Runs : ~QueueOwns(s)'
  BY DEF BeginShutdown, QueueOwns, IsInjective

\* An unchanged queue holds the same runs.
LEMMA SameQueue ==
  ASSUME UNCHANGED pending
  PROVE  \A s \in Runs : QueueOwns(s)' <=> QueueOwns(s)
  BY DEF QueueOwns

\* These are the only steps that change the queue.
LEMMA QueueWriters ==
  ASSUME Next
  PROVE  \/ UNCHANGED pending
         \/ \E r \in Runs : Enqueue(r)
         \/ ClaimJob \/ ClaimRaises
         \/ \E c \in Clients : WithdrawQueued(c)
         \/ BeginShutdown
  BY DEF Next, control, StartRun, Starting, RefuseRun, Announce, SignalWorker,
         CancelRun, Cancelling, NothingToCancel, RequestStop, EmitStopping,
         FailWithdrawn, ClaimStop, RetractStop, AbortRequest, Waiting,
         WorkerWakes, WorkerClears, ClaimNothing, WorkerIdles, Executes,
         LoadStep, ReportStep, ModelStep, CheckStep, CheckpointStep,
         CompleteStep, StepRaises, RecordFailure, ReleaseJob, Closing,
         FailDrained, QuiesceActive, NoActiveToQuiesce, AbortActive,
         WakeWorker, JoinWorker, CloseResources, JoinTimesOut, FailAbandoned

\* A run becomes active by being claimed.
LEMMA ActiveStep ==
  ASSUME Inductive, Next, active' # active
  PROVE  \/ (ClaimJob \/ ClaimRaises) /\ active' = Head(pending) /\ active = NoRun
         \/ ReleaseJob /\ active' = NoRun
  BY DEF Next, control, StartRun, Starting, RefuseRun, Enqueue, Announce,
         SignalWorker, CancelRun, Cancelling, WithdrawQueued, NothingToCancel,
         RequestStop, EmitStopping, FailWithdrawn, ClaimStop, RetractStop,
         AbortRequest, Waiting, WorkerWakes, WorkerClears, ClaimJob,
         ClaimRaises, Claimable, ClaimNothing, WorkerIdles, Executes, LoadStep,
         ReportStep, ModelStep, CheckStep, CheckpointStep, CompleteStep,
         StepRaises, RecordFailure, ReleaseJob, BeginShutdown, Closing,
         FailDrained, QuiesceActive, NoActiveToQuiesce, AbortActive,
         WakeWorker, JoinWorker, CloseResources, JoinTimesOut, FailAbandoned

\* No run that is not queued ever gets back into the queue.
LEMMA OutStaysOut ==
  ASSUME Inductive, Next, NEW r \in Runs, artifact[r].status # "absent",
         ~QueueOwns(r)
  PROVE  ~QueueOwns(r)'
  <1>1. ~Enqueue(r)
    BY DEF Enqueue, StarterAt, Inductive, AbsentUntilEnqueued
  <1> QED
    BY <1>1, QueueWriters, EnqueueQueue, ClaimQueue, WithdrawQueue, DrainQueue,
       SameQueue

\* The queue keeps each run once, as it was created.
LEMMA QueueStep ==
  ASSUME Inductive, Next
  PROVE  QueueIsFresh'
  <1>1. IsInjective(pending')
    BY QueueWriters, EnqueueQueue, ClaimQueue, WithdrawQueue, DrainQueue
       DEF Inductive, QueueIsFresh
  <1>2. ASSUME NEW r \in Runs, QueueOwns(r)'
        PROVE  artifact'[r].status = "queued" /\ r # active'
    <2>1. CASE Enqueue(r)
      <3>1. artifact'[r].status = "queued"
        BY <2>1 DEF Enqueue, SetArtifact, Created, Inductive, TypeOK
      <3>2. active' = active /\ active # r
        BY <2>1 DEF Enqueue, StarterAt, Inductive, AbsentUntilEnqueued, WorkerIsActive
      <3> QED
        BY <3>1, <3>2
    <2>2. CASE ~Enqueue(r)
      <3>1. QueueOwns(r)
        BY <1>2, <2>2, QueueWriters, EnqueueQueue, ClaimQueue, WithdrawQueue,
           DrainQueue, SameQueue
      <3>2. artifact[r].status = "queued" /\ r # active
        BY <3>1 DEF QueueOwns, Inductive, QueueIsFresh
      <3>3. (ClaimJob \/ ClaimRaises) => r # Head(pending)
        BY <1>2, ClaimQueue
      <3>4. artifact'[r].status = artifact[r].status
        BY <2>2, <3>1, <3>3, StatusStep
      <3>5. r # active'
        BY <3>2, <3>3, ActiveStep, RunsAssumption
      <3> QED
        BY <3>2, <3>4, <3>5
    <2> QED
      BY <2>1, <2>2
  <1>3. pending' \in Seq(Runs)
    BY TypeStep DEF TypeOK
  <1>4. ASSUME NEW i \in DOMAIN pending'
        PROVE  artifact'[pending'[i]].status = "queued" /\ pending'[i] # active'
    <2>1. PICK r \in Runs : r = pending'[i]
      BY <1>3
    <2>2. QueueOwns(r)'
      BY <2>1 DEF QueueOwns
    <2> QED
      BY <1>2, <2>1, <2>2
  <1> QED
    BY <1>1, <1>4 DEF QueueIsFresh, IsInjective

-----------------------------------------------------------------------------
(* The worker.                                                             *)

\* Only the worker's own steps move it, or start it anew when it is gone.
LEMMA OthersLeaveWorker ==
  ASSUME Next
  PROVE  \/ Waiting
         \/ Executes
         \/ EnsureWorker /\ active' = active
         \/ worker' = worker /\ active' = active
  BY DEF Next, control, thread, StartRun, Starting, RefuseRun, Enqueue, Announce,
         SignalWorker, CancelRun, Cancelling, WithdrawQueued, NothingToCancel,
         RequestStop, EmitStopping, FailWithdrawn, ClaimStop, RetractStop,
         AbortRequest, BeginShutdown, Closing, FailDrained, QuiesceActive,
         NoActiveToQuiesce, AbortActive, WakeWorker, JoinWorker,
         CloseResources, JoinTimesOut, FailAbandoned

\* While it executes, the worker stays with its run and ends it before release.
LEMMA ExecutesMoves ==
  ASSUME Inductive, Executes
  PROVE  /\ Busy
         /\ \/ ReleaseJob
            \/ /\ Busy' /\ worker'.job = worker.job /\ active' = active
               /\ worker'.pc = "release" => IsTerminal(artifact'[Job])
  <1> USE DEF Busy, Executing, Inductive, control
  <1>0. worker \in [pc : WorkerPcs, job : Runs \union {NoRun}, step : 1 .. 9,
                   error : Errors]
    BY DEF TypeOK
  <1>1. CASE LoadStep \/ ReportStep \/ ModelStep \/ CheckpointStep \/ StepRaises
             \/ CheckStep
    BY <1>0, <1>1 DEF LoadStep, ReportStep, ModelStep, CheckpointStep, StepRaises,
                      CheckStep, Advance, FailsWith
  <1>2. CASE CompleteStep
    <2>1. Job \in Runs /\ "completed" \in TerminalStatuses /\ "none" \in Errors
      BY <1>2 DEF CompleteStep, WorkerIsActive, TerminalStatuses, Errors
    <2> QED
      BY <1>0, <1>2, <2>1, FinishFollows DEF CompleteStep
  <1>3. CASE RecordFailure
    <2>1. Job \in Runs /\ "failed" \in TerminalStatuses /\ worker.error \in Errors
      BY <1>0, <1>3 DEF RecordFailure, WorkerGoes, WorkerIsActive, TerminalStatuses
    <2> QED
      BY <1>0, <1>3, <2>1, FinishFollows DEF RecordFailure, WorkerGoes
  <1>4. CASE ReleaseJob
    BY <1>4 DEF ReleaseJob
  <1> QED
    BY <1>1, <1>2, <1>3, <1>4 DEF Executes

\* Between two runs the worker has no job.
LEMMA WaitingMoves ==
  ASSUME Inductive, Waiting
  PROVE  /\ ~Busy
         /\ \/ ClaimJob
            \/ ClaimRaises
            \/ ~Busy' /\ worker'.pc # "dead" /\ active' = active
  BY DEF Busy, Inductive, TypeOK, control, Waiting, WorkerWakes, WorkerClears,
         WorkerGoes, ClaimJob, ClaimRaises, ClaimNothing, WorkerIdles

\* The run the worker executes stays the active one.
LEMMA WorkerStep ==
  ASSUME Inductive, Next
  PROVE  WorkerIsActive'
  <1> USE DEF Inductive
  <1>1. active' \in Runs => artifact'[active'].status # "absent"
    <2>1. (ClaimJob \/ ClaimRaises) =>
            Head(pending) \in Runs /\ artifact[Head(pending)].status # "absent"
      BY ClaimQueue DEF QueueOwns, QueueIsFresh
    <2>2. active' \in Runs => artifact[active'].status # "absent"
      BY <2>1, ActiveStep, RunsAssumption DEF WorkerIsActive
    <2> QED
      BY <2>2, StoreStep DEF ArtifactsFollow, Follows
  <1>2. CASE worker' = worker /\ active' = active
    <2>1. worker.pc = "release" => IsTerminal(artifact'[Job])
      BY StoreStep DEF ArtifactsFollow, Follows, WorkerIsActive, Busy, IsTerminal
    <2> QED
      BY <1>1, <1>2, <2>1 DEF WorkerIsActive, Busy, Job
  <1>3. CASE EnsureWorker /\ active' = active /\ ~WorkerAlive
    <2>1. worker'.pc = "wait" /\ ~Busy' /\ ~Busy
      BY <1>3 DEF EnsureWorker, IdleWorker, Busy, WorkerAlive
    <2> QED
      BY <1>1, <1>3, <2>1 DEF WorkerIsActive
  <1>4. CASE Executes /\ ~ReleaseJob
    <2>1. /\ Busy /\ Busy' /\ worker'.job = worker.job /\ active' = active
          /\ worker'.pc = "release" => IsTerminal(artifact'[Job])
      BY <1>4, ExecutesMoves
    <2> QED
      BY <1>1, <2>1 DEF WorkerIsActive, Busy, Job
  <1>5. CASE ReleaseJob
    <2>1. worker'.pc = "claim" /\ ~Busy'
      BY <1>5 DEF ReleaseJob, IdleWorker, Busy
    <2>2. active' = NoRun
      BY <1>5 DEF ReleaseJob, WorkerIsActive, Busy
    <2> QED
      BY <1>1, <2>1, <2>2 DEF WorkerIsActive
  <1>6. CASE ClaimJob
    <2>1. worker'.pc = "run" /\ worker'.job = Head(pending) /\ active' = Head(pending)
      BY <1>6 DEF ClaimJob, IdleWorker
    <2> QED
      BY <1>1, <1>6, <2>1, ClaimQueue DEF WorkerIsActive, Busy, Job
  <1>7. CASE ClaimRaises
    <2>1. worker'.pc = "dead" /\ ~Busy' /\ ClaimMayFail
      BY <1>7 DEF ClaimRaises, Busy, TypeOK
    <2> QED
      BY <1>1, <2>1 DEF WorkerIsActive
  <1>8. CASE Waiting /\ ~ClaimJob /\ ~ClaimRaises
    <2>1. ~Busy /\ ~Busy' /\ worker'.pc # "dead" /\ active' = active
      BY <1>8, WaitingMoves
    <2> QED
      BY <1>1, <2>1 DEF WorkerIsActive, Busy
  <1> QED
    BY <1>2, <1>3, <1>4, <1>5, <1>6, <1>7, <1>8, OthersLeaveWorker DEF EnsureWorker

-----------------------------------------------------------------------------
(* The clients.                                                            *)

\* How a client moves in cancel_run.
LEMMA ClientMoves ==
  ASSUME Inductive, Next, NEW c \in Clients
  PROVE  \/ client'[c] = client[c]
         \/ /\ client'[c] = NoCall
            /\ FailWithdrawn(c) \/ client[c].pc \notin {"withdrawn", "fail"}
         \/ \E r \in Runs : CancelRun(c, r)
         \/ WithdrawQueued(c)
         \/ RequestStop(c)
         \/ EmitStopping(c)
         \/ ClaimStop(c)
  <1>1. CASE UNCHANGED client
    BY <1>1
  <1>2. CASE \E d \in Clients : Cancelling(d) \/ \E r \in Runs : CancelRun(d, r)
    <2>1. PICK d \in Clients : Cancelling(d) \/ \E r \in Runs : CancelRun(d, r)
      BY <1>2
    <2>2. CASE d # c
      BY <2>1, <2>2 DEF Inductive, TypeOK, Cancelling, CancelRun, WithdrawQueued,
         NothingToCancel, RequestStop, EmitStopping, FailWithdrawn, ClaimStop,
         RetractStop, AbortRequest, ClientGoes, ClientReturns
    <2>3. CASE d = c
      BY <2>1, <2>3 DEF Inductive, TypeOK, Cancelling, NothingToCancel,
         FailWithdrawn, RetractStop, AbortRequest, ClientReturns
    <2> QED
      BY <2>2, <2>3
  <1> QED
    BY <1>1, <1>2
       DEF Next, StartRun, Starting, RefuseRun, Enqueue, Announce, SignalWorker,
           Waiting, WorkerWakes, WorkerClears, ClaimJob, ClaimRaises,
           ClaimNothing, WorkerIdles, Executes, LoadStep, ReportStep, ModelStep,
           CheckStep, CheckpointStep, CompleteStep, StepRaises, RecordFailure,
           ReleaseJob, BeginShutdown, Closing, FailDrained, QuiesceActive,
           NoActiveToQuiesce, AbortActive, WakeWorker, JoinWorker,
           CloseResources, JoinTimesOut, FailAbandoned

\* Where a client stands in cancel_run, and for which run, after a step.
LEMMA ClientIn ==
  ASSUME Inductive, Next, NEW c \in Clients
  PROVE  /\ client'[c].pc # "ready" =>
              /\ client'[c].run \in Runs
              /\ artifact[client'[c].run].status # "absent"
         /\ client'[c].pc \notin {"ready", "decide"} =>
              /\ client'[c].run = client[c].run
              /\ client[c].pc # "ready"
              /\ client[c].pc = "decide" => WithdrawQueued(c) \/ RequestStop(c)
         /\ client'[c].pc \in {"withdrawn", "fail"} /\ ~WithdrawQueued(c) =>
              client[c].pc \in {"withdrawn", "fail"}
         /\ WithdrawQueued(c) \/ RequestStop(c) =>
              client[c].pc = "decide" /\ client[c].run \in Runs
  <1> USE DEF Inductive, ClientsAreOutside
  <1>0. client \in [Clients -> [pc : ClientPcs, run : Runs \union {NoRun}]]
    BY DEF TypeOK
  <1>1. CASE client'[c] = client[c]
    BY <1>0, <1>1 DEF WithdrawQueued, RequestStop, ClientGoes
  <1>2. CASE client'[c] = NoCall
    BY <1>0, <1>2 DEF NoCall, WithdrawQueued, RequestStop, ClientGoes
  <1>3. CASE \E r \in Runs : CancelRun(c, r)
    BY <1>0, <1>3 DEF CancelRun, WithdrawQueued, RequestStop
  <1>4. CASE WithdrawQueued(c)
    BY <1>0, <1>4 DEF WithdrawQueued, ClientGoes, RequestStop
  <1>5. CASE RequestStop(c)
    BY <1>0, <1>5 DEF RequestStop, ClientGoes, WithdrawQueued
  <1>6. CASE EmitStopping(c) \/ ClaimStop(c)
    BY <1>0, <1>6 DEF EmitStopping, ClaimStop, ClientGoes, WithdrawQueued, RequestStop
  <1> QED
    BY <1>1, <1>2, <1>3, <1>4, <1>5, <1>6, ClientMoves

\* What a client decided about its run stays true until it returns.
LEMMA ClientStep ==
  ASSUME Inductive, Next
  PROVE  ClientsAreOutside'
  <1> USE DEF Inductive
  <1>1. ASSUME NEW c \in Clients, client'[c].pc # "ready"
        PROVE  /\ client'[c].run \in Runs
               /\ artifact'[client'[c].run].status # "absent"
    BY <1>1, ClientIn, StoreStep DEF ArtifactsFollow, Follows
  <1>2. ASSUME NEW c \in Clients, client'[c].pc \notin {"ready", "decide"},
               NEW r \in Runs, r = client'[c].run
        PROVE  ~QueueOwns(r)'
    <2>1. /\ r = client[c].run
          /\ client[c].pc # "ready"
          /\ client[c].pc = "decide" => WithdrawQueued(c) \/ RequestStop(c)
          /\ artifact[r].status # "absent"
      BY <1>2, ClientIn
    <2>2. CASE WithdrawQueued(c)
      BY <2>1, <2>2, WithdrawQueue
    <2>3. CASE RequestStop(c)
      <3>1. ~QueueOwns(r)
        BY <2>1, <2>3 DEF RequestStop, NotQueued, QueueOwns, QueueIsFresh
      <3> QED
        BY <2>1, <3>1, OutStaysOut
    <2>4. CASE client[c].pc # "decide"
      BY <2>1, <2>4, OutStaysOut DEF ClientsAreOutside
    <2> QED
      BY <2>1, <2>2, <2>3, <2>4
  <1>3. ASSUME NEW c \in Clients, NEW r \in Runs, ClientOwns(c, r)'
        PROVE  (WithdrawQueued(c) /\ client[c].run = r) \/ ClientOwns(c, r)
    BY <1>3, ClientIn DEF ClientOwns
  <1>4. ASSUME NEW c \in Clients, NEW r \in Runs, ClientOwns(c, r)'
        PROVE  r # active'
    <2>1. CASE WithdrawQueued(c) /\ client[c].run = r
      BY <2>1 DEF WithdrawQueued
    <2>2. CASE ClientOwns(c, r)
      <3>1. r # active /\ ~QueueOwns(r)
        BY <2>2 DEF ClientOwns, ClientsAreOutside
      <3> QED
        BY <3>1, ActiveStep, ClaimQueue, RunsAssumption
    <2> QED
      BY <1>3, <1>4, <2>1, <2>2
  <1>5. ASSUME NEW c \in Clients, NEW d \in Clients, NEW r \in Runs,
               ClientOwns(c, r)', ClientOwns(d, r)'
        PROVE  d = c
    <2>1. \A e \in Clients : ClientOwns(e, r) => ~QueueOwns(r)
      BY DEF ClientOwns, ClientsAreOutside
    <2>2. \A e \in Clients : WithdrawQueued(e) /\ client[e].run = r => QueueOwns(r)
      BY WithdrawQueue
    <2>3. CASE ClientOwns(c, r) /\ ClientOwns(d, r)
      BY <2>3 DEF ClientOwns, ClientsAreOutside
    <2>4. CASE WithdrawQueued(c) /\ WithdrawQueued(d)
      BY <2>4 DEF WithdrawQueued, ClientGoes, TypeOK
    <2> QED
      BY <1>3, <1>5, <2>1, <2>2, <2>3, <2>4
  <1>6. ASSUME NEW c \in Clients, client'[c].pc \in {"withdrawn", "fail"}
        PROVE  \E r \in Runs : r = client'[c].run /\ ClientOwns(c, r)'
    BY <1>1, <1>6 DEF ClientOwns
  <1> QED
    BY <1>1, <1>2, <1>4, <1>5, <1>6 DEF ClientsAreOutside, ClientOwns, QueueOwns

-----------------------------------------------------------------------------
(* The shutdown.                                                           *)

\* How the steps of the closing thread change its place and its list.
LEMMA CloserMoves ==
  ASSUME Next
  PROVE  \/ BeginShutdown
         \/ Closing /\ UNCHANGED <<pending, active, shutdownRequested, worker, client>>
         \/ UNCHANGED <<closer, shutdownRequested>>
  BY DEF Next, control, thread, StartRun, Starting, RefuseRun, Enqueue, Announce,
         SignalWorker, CancelRun, Cancelling, WithdrawQueued, NothingToCancel,
         RequestStop, EmitStopping, FailWithdrawn, ClaimStop, RetractStop,
         AbortRequest, Waiting, WorkerWakes, WorkerClears, ClaimJob, ClaimRaises,
         ClaimNothing, WorkerIdles, Executes, LoadStep, ReportStep, ModelStep,
         CheckStep, CheckpointStep, CompleteStep, StepRaises, RecordFailure,
         ReleaseJob, Closing, FailDrained, QuiesceActive, NoActiveToQuiesce,
         AbortActive, WakeWorker, JoinWorker, CloseResources, JoinTimesOut,
         FailAbandoned

\* What each step of the shutdown makes of what it holds.
LEMMA CloserFields ==
  ASSUME Inductive, Next, ~BeginShutdown, closer' # closer
  PROVE  /\ closer.pc # "open" /\ closer'.pc # "open"
         /\ closer'.active \in {closer.active, active}
         /\ \/ FailDrained /\ closer'.pc = "drain" /\ closer'.pending = Tail(closer.pending)
            \/ ~FailDrained /\ closer.pending = <<>> /\ closer'.pending = <<>>
         /\ closer'.pc \in {"abort", "abandon"} =>
              closer'.active = closer.active /\ closer.active \in Runs
         /\ closer'.pc = "closed" => ~WorkerAlive
  <1>0. /\ closer \in [pc : CloserPcs, active : Runs \union {NoRun}, pending : Seq(Runs)]
        /\ closer.pc \notin {"open", "drain"} => closer.pending = <<>>
        /\ closer.pc = "abandon" => closer.active \in Runs
    BY DEF Inductive, TypeOK, DrainedAlone
  <1>1. CASE FailDrained
    BY <1>0, <1>1 DEF FailDrained
  <1>2. CASE QuiesceActive
    BY <1>0, <1>2 DEF QuiesceActive, CloserGoes, FailDrained
  <1>3. CASE NoActiveToQuiesce \/ AbortActive \/ WakeWorker \/ FailAbandoned
    BY <1>0, <1>3
       DEF NoActiveToQuiesce, AbortActive, WakeWorker, FailAbandoned, CloserGoes,
           FailDrained
  <1>4. CASE JoinWorker
    BY <1>0, <1>4 DEF JoinWorker, FailDrained
  <1>5. CASE CloseResources
    BY <1>0, <1>5 DEF CloseResources, CloserGoes, FailDrained
  <1>6. CASE JoinTimesOut
    BY <1>0, <1>6 DEF JoinTimesOut, CloserGoes, FailDrained
  <1> QED
    BY <1>1, <1>2, <1>3, <1>4, <1>5, <1>6, CloserMoves DEF Closing

\* After the shutdown began nothing enters the queue, is claimed or withdrawn,
\* and a worker that ended stays so.
LEMMA NothingAfterShutdown ==
  ASSUME Inductive, Next, shutdownRequested
  PROVE  /\ pending = <<>> /\ pending' = <<>>
         /\ active' \in {active, NoRun}
         /\ \A c \in Clients : ~WithdrawQueued(c)
         /\ ~WorkerAlive => ~WorkerAlive'
  <1>1. pending = <<>>
    BY DEF Inductive, DrainedAlone
  <1>2. /\ \A c \in Clients : ~WithdrawQueued(c)
        /\ \A r \in Runs : ~Enqueue(r)
        /\ ~ClaimJob /\ ~ClaimRaises
    BY <1>1 DEF WithdrawQueued, Enqueue, ClaimJob, ClaimRaises, Claimable
  <1>3. pending' = <<>>
    BY <1>1, <1>2, QueueWriters DEF BeginShutdown
  <1>4. active' \in {active, NoRun}
    BY <1>2, ActiveStep
  <1>5. ASSUME ~WorkerAlive
        PROVE  worker' = worker
    <2>1. ~Executes /\ ~Waiting
      BY <1>5 DEF WorkerAlive, Executes, LoadStep, ReportStep, ModelStep, CheckStep,
         CheckpointStep, CompleteStep, StepRaises, RecordFailure, ReleaseJob,
         Executing, Waiting, WorkerWakes, WorkerClears, WorkerGoes, ClaimJob,
         ClaimRaises, ClaimNothing, WorkerIdles
    <2>2. ~(\E r \in Runs : StartRun(r)) /\ ~(\E c \in Clients, r \in Runs : CancelRun(c, r))
      BY DEF StartRun, CancelRun
    <2> QED
      BY <2>1, <2>2
         DEF Next, thread, Starting, RefuseRun, Enqueue, Announce, SignalWorker,
             Cancelling, WithdrawQueued, NothingToCancel, RequestStop,
             EmitStopping, FailWithdrawn, ClaimStop, RetractStop, AbortRequest,
             BeginShutdown, Closing, FailDrained, QuiesceActive,
             NoActiveToQuiesce, AbortActive, WakeWorker, JoinWorker,
             CloseResources, JoinTimesOut, FailAbandoned
  <1> QED
    BY <1>1, <1>2, <1>3, <1>4, <1>5 DEF WorkerAlive

\* What the shutdown holds: the run it has yet to fail, each one once.
LEMMA DrainedStep ==
  ASSUME Inductive, Next
  PROVE  /\ IsInjective(closer'.pending)
         /\ closer'.pending \in Seq(Runs)
         /\ \A r \in Runs : CloserOwns(r)' =>
              CloserOwns(r) \/ (BeginShutdown /\ QueueOwns(r))
         /\ \A r \in Runs : CloserOwns(r) =>
              CloserOwns(r)' \/ (FailDrained /\ r = Head(closer.pending))
  <1> USE DEF CloserOwns
  <1>0. closer'.pending \in Seq(Runs)
    BY TypeStep DEF TypeOK
  <1>1. CASE BeginShutdown
    BY <1>0, <1>1 DEF BeginShutdown, Inductive, DrainedAlone, QueueIsFresh, QueueOwns
  <1>2. CASE FailDrained
    <2>1. closer.pending \in Seq(Runs) /\ IsInjective(closer.pending)
      BY DEF Inductive, TypeOK, DrainedAlone
    <2>2. closer.pending # <<>> /\ closer'.pending = Tail(closer.pending)
      BY <1>2 DEF FailDrained, Inductive, TypeOK
    <2> QED
      BY <1>0, <1>2, <2>1, <2>2, TakenRun
  <1>3. CASE closer'.pending = closer.pending
    BY <1>0, <1>3 DEF Inductive, DrainedAlone
  <1>4. BeginShutdown \/ FailDrained \/ closer'.pending = closer.pending
    BY CloserFields
  <1> QED
    BY <1>1, <1>2, <1>3, <1>4

\* What was drained stays with the closing thread alone.
LEMMA DrainStep ==
  ASSUME Inductive, Next
  PROVE  DrainedAlone'
  <1> USE DEF Inductive, CloserGoes
  <1>0. closer \in [pc : CloserPcs, active : Runs \union {NoRun}, pending : Seq(Runs)]
    BY DEF TypeOK
  <1>1. /\ closer'.pc = "open" <=> ~shutdownRequested'
        /\ closer'.pc = "open" => closer'.pending = <<>> /\ closer'.active = NoRun
        /\ closer'.pc \notin {"open", "drain"} => closer'.pending = <<>>
        /\ closer'.pc \in {"abort", "abandon"} => closer'.active \in Runs
    <2>1. CASE BeginShutdown
      BY <2>1 DEF BeginShutdown
    <2>2. CASE closer' = closer
      <3>1. shutdownRequested' = shutdownRequested
        <4>1. ~BeginShutdown
          BY <2>2 DEF BeginShutdown
        <4> QED
          BY <4>1, CloserMoves
      <3> QED
        BY <2>2, <3>1 DEF DrainedAlone
    <2>3. CASE ~BeginShutdown /\ closer' # closer
      <3>1. shutdownRequested' = shutdownRequested
        BY <2>3, CloserMoves
      <3> QED
        BY <2>3, <3>1, CloserFields DEF DrainedAlone
    <2> QED
      BY <2>1, <2>2, <2>3
  <1>2. shutdownRequested' => pending' = <<>>
    <2>1. CASE shutdownRequested
      BY <2>1, NothingAfterShutdown
    <2>2. CASE ~shutdownRequested
      <3>1. shutdownRequested' => BeginShutdown
        BY <2>2, CloserMoves
      <3> QED
        BY <3>1 DEF BeginShutdown
    <2> QED
      BY <2>1, <2>2
  <1>3. closer'.pc = "closed" => ~WorkerAlive'
    <2>1. CASE closer.pc = "closed"
      BY <2>1, NothingAfterShutdown DEF DrainedAlone
    <2>2. CASE closer.pc # "closed" /\ closer'.pc = "closed"
      <3>1. ~WorkerAlive /\ closer.pc # "open"
        <4>1. ~BeginShutdown
          BY <2>2 DEF BeginShutdown
        <4> QED
          BY <2>2, <4>1, CloserFields
      <3> QED
        BY <3>1, NothingAfterShutdown DEF DrainedAlone
    <2> QED
      BY <2>1, <2>2
  <1>4. closer'.active \in Runs => artifact'[closer'.active].status # "absent"
    <2>1. closer'.active \in {closer.active, active}
      <3>1. CASE BeginShutdown
        BY <3>1 DEF BeginShutdown
      <3>2. CASE ~BeginShutdown
        BY <3>2, CloserFields
      <3> QED
        BY <3>1, <3>2
    <2> QED
      BY <2>1, StoreStep DEF ArtifactsFollow, Follows, DrainedAlone, WorkerIsActive
  <1>5. ASSUME NEW r \in Runs, CloserOwns(r)'
        PROVE  /\ r # active'
               /\ artifact'[r].status # "absent"
               /\ \A c \in Clients : ~ClientOwns(c, r)'
    <2>1. CASE BeginShutdown /\ QueueOwns(r)
      BY <2>1, StoreStep
         DEF BeginShutdown, ArtifactsFollow, Follows, QueueOwns, QueueIsFresh,
             ClientOwns, ClientsAreOutside
    <2>2. CASE CloserOwns(r)
      <3>1. shutdownRequested
        BY <2>2 DEF CloserOwns, DrainedAlone
      <3>2. /\ r # active
            /\ artifact[r].status # "absent"
            /\ \A c \in Clients : ~ClientOwns(c, r)
        BY <2>2 DEF CloserOwns, DrainedAlone
      <3>3. \A c \in Clients : ClientOwns(c, r)' => ClientOwns(c, r)
        BY <3>1, NothingAfterShutdown, ClientIn DEF ClientOwns
      <3> QED
        BY <3>1, <3>2, <3>3, NothingAfterShutdown, StoreStep, RunsAssumption
           DEF ArtifactsFollow, Follows
    <2> QED
      BY <1>5, <2>1, <2>2, DrainedStep
  <1>6. ASSUME NEW i \in DOMAIN closer'.pending
        PROVE  /\ closer'.pending[i] # active'
               /\ artifact'[closer'.pending[i]].status # "absent"
               /\ \A c \in Clients : ~(/\ client'[c].pc \in {"withdrawn", "fail"}
                                       /\ client'[c].run = closer'.pending[i])
    <2>1. PICK r \in Runs : r = closer'.pending[i]
      BY DrainedStep
    <2>2. CloserOwns(r)'
      BY <2>1 DEF CloserOwns
    <2> QED
      BY <1>5, <2>1, <2>2 DEF ClientOwns
  <1>7. IsInjective(closer'.pending)
    BY DrainedStep
  <1> QED
    BY <1>1, <1>2, <1>3, <1>4, <1>6, <1>7 DEF DrainedAlone, IsInjective, ClientOwns

-----------------------------------------------------------------------------
(* No run is forgotten.                                                    *)

\* A live run passes from one owner to the next, never to nobody.
LEMMA OwnedStep ==
  ASSUME Inductive, Next
  PROVE  NothingForgotten'
  <1> USE DEF Inductive
  <1> SUFFICES ASSUME NEW r \in Runs, IsLive(artifact'[r])
               PROVE  Owned(r)' \/ r = active'
    BY DEF NothingForgotten
  <1>0. artifact'[r] \in Artifact /\ ~IsTerminal(artifact'[r])
    BY StoreStep DEF ArtifactsFollow, Follows, IsLive, IsTerminal, LiveStatuses,
                     TerminalStatuses
  <1>1. CASE artifact[r].status = "absent"
    <2>1. ~(ClaimJob /\ r = Head(pending))
      BY <1>1, ClaimQueue DEF QueueOwns, QueueIsFresh
    <2>2. Enqueue(r)
      BY <1>1, <2>1, StatusStep DEF IsLive, LiveStatuses
    <2> QED
      BY <2>2, EnqueueQueue DEF Owned
  <1>2. CASE artifact[r].status # "absent"
    <2>1. IsLive(artifact[r])
      BY <1>0, <1>2, StoreStep
         DEF ArtifactsFollow, Follows, TypeOK, Artifact, Statuses, IsLive,
             IsTerminal, LiveStatuses, TerminalStatuses
    <2>2. CASE r = active
      <3>1. active' = active \/ ReleaseJob
        BY <2>2, ActiveStep, RunsAssumption
      <3>2. ~ReleaseJob
        <4>1. ReleaseJob => IsTerminal(artifact[r]) /\ artifact' = artifact
          BY <2>2 DEF ReleaseJob, WorkerIsActive, Busy, store
        <4> QED
          BY <1>0, <4>1
      <3> QED
        BY <2>2, <3>1, <3>2
    <2>3. CASE WorkerOwns(r)
      BY <2>2, <2>3 DEF WorkerOwns, WorkerIsActive
    <2>4. CASE QueueOwns(r)
      <3>1. CASE ClaimJob \/ ClaimRaises
        BY <2>4, <3>1, ClaimQueue DEF ClaimJob, ClaimRaises, Owned
      <3>2. CASE \E c \in Clients : WithdrawQueued(c)
        <4>1. PICK c \in Clients : WithdrawQueued(c)
          BY <3>2
        <4>2. CASE r = client[c].run
          <5>1. ClientOwns(c, r)'
            BY <4>1, <4>2 DEF WithdrawQueued, ClientGoes, ClientOwns, TypeOK
          <5> QED
            BY <5>1 DEF Owned
        <4> QED
          BY <2>4, <4>1, <4>2, WithdrawQueue DEF Owned
      <3>3. CASE BeginShutdown
        BY <2>4, <3>3 DEF BeginShutdown, QueueOwns, CloserOwns, Owned
      <3>4. CASE \E q \in Runs : Enqueue(q)
        BY <2>4, <3>4, EnqueueQueue DEF Owned
      <3>5. CASE UNCHANGED pending
        BY <2>4, <3>5, SameQueue DEF Owned
      <3> QED
        BY <3>1, <3>2, <3>3, <3>4, <3>5, QueueWriters
    <2>5. ASSUME NEW c \in Clients, ClientOwns(c, r)
          PROVE  Owned(r)'
      <3>1. ~FailWithdrawn(c)
        <4>1. SUFFICES ASSUME FailWithdrawn(c) PROVE FALSE
          OBVIOUS
        <4>2. "failed" \in TerminalStatuses /\ "stopped" \in Errors
          BY DEF TerminalStatuses, Errors
        <4>3. client[c].run = r
          BY <2>5 DEF ClientOwns
        <4> QED
          BY <1>0, <4>1, <4>2, <4>3, FinishFollows DEF FailWithdrawn
      <3>2. ClientOwns(c, r)'
        <4>1. client[c] \in [pc : ClientPcs, run : Runs \union {NoRun}]
          BY DEF TypeOK
        <4> QED
          BY <2>5, <3>1, <4>1, ClientMoves
             DEF ClientOwns, CancelRun, WithdrawQueued, RequestStop, EmitStopping,
                 ClaimStop, ClientGoes, TypeOK
      <3> QED
        BY <3>2 DEF Owned
    <2>6. CASE CloserOwns(r)
      <3>1. ~(FailDrained /\ r = Head(closer.pending))
        <4>1. "failed" \in TerminalStatuses /\ "shutdown" \in Errors
          BY DEF TerminalStatuses, Errors
        <4> QED
          BY <1>0, <4>1, FinishFollows DEF FailDrained
      <3> QED
        BY <2>6, <3>1, DrainedStep DEF Owned
    <2> QED
      BY <2>1, <2>2, <2>3, <2>4, <2>5, <2>6 DEF NothingForgotten, Owned
  <1> QED
    BY <1>1, <1>2

-----------------------------------------------------------------------------

\* No run exists at first.
LEMMA InductiveInit == Init => Inductive
  <1> SUFFICES ASSUME Init PROVE Inductive
    OBVIOUS
  <1> USE DEF Init
  <1>1. Absent \in Artifact /\ SingleOutcome(Absent) /\ ~IsLive(Absent)
    BY DEF Absent, Artifact, Statuses, Errors, SingleOutcome, Has, IsLive,
           LiveStatuses, EventKinds
  <1>2. TypeOK
    <2>1. worker \in [pc : WorkerPcs, job : Runs \union {NoRun}, step : 1 .. 9,
                     error : Errors]
      BY DEF IdleWorker, WorkerPcs, Errors
    <2>2. /\ starter \in [Runs -> StarterPcs]
          /\ client \in [Clients -> [pc : ClientPcs, run : Runs \union {NoRun}]]
          /\ closer \in [pc : CloserPcs, active : Runs \union {NoRun},
                         pending : Seq(Runs)]
      BY DEF NoCall, StarterPcs, ClientPcs, CloserPcs
    <2> QED
      BY <1>1, <2>1, <2>2 DEF TypeOK
  <1>3. OneOutcome
    BY <1>1 DEF OneOutcome
  <1>4. AbsentUntilEnqueued
    BY DEF AbsentUntilEnqueued, Absent
  <1>5. QueueIsFresh /\ DrainedAlone
    BY RunsAssumption DEF QueueIsFresh, DrainedAlone, IsInjective
  <1>6. WorkerIsActive
    BY RunsAssumption DEF WorkerIsActive, Busy, IdleWorker
  <1>7. ClientsAreOutside
    BY DEF ClientsAreOutside, NoCall
  <1>8. NothingForgotten
    BY <1>1 DEF NothingForgotten
  <1> QED
    BY <1>2, <1>3, <1>4, <1>5, <1>6, <1>7, <1>8 DEF Inductive

\* A stuttering step changes nothing of the invariant.
LEMMA InductiveStutter ==
  ASSUME Inductive, UNCHANGED vars
  PROVE  Inductive'
  <1> USE DEF vars, control, store, thread
  <1>1. TypeOK' /\ OneOutcome' /\ AbsentUntilEnqueued' /\ QueueIsFresh'
    BY DEF Inductive, TypeOK, OneOutcome, AbsentUntilEnqueued, QueueIsFresh
  <1>2. WorkerIsActive' /\ ClientsAreOutside' /\ DrainedAlone'
    BY DEF Inductive, WorkerIsActive, Busy, Job, ClientsAreOutside, QueueOwns,
           ClientOwns, DrainedAlone, WorkerAlive
  <1>3. NothingForgotten'
    BY DEF Inductive, NothingForgotten, Owned, WorkerOwns, Busy, Job, QueueOwns,
           ClientOwns, CloserOwns
  <1> QED
    BY <1>1, <1>2, <1>3 DEF Inductive

\* The invariant of the run lifecycle is inductive.
THEOREM InductiveInvariant == Spec => []Inductive
  <1>1. Inductive /\ [Next]_vars => Inductive'
    <2>1. ASSUME Inductive, Next PROVE Inductive'
      <3>1. OneOutcome'
        BY <2>1, StoreStep DEF ArtifactsFollow, Follows, OneOutcome
      <3> QED
        BY <2>1, <3>1, TypeStep, AbsentStep, QueueStep, WorkerStep, ClientStep,
           DrainStep, OwnedStep DEF Inductive
    <2> QED
      BY <2>1, InductiveStutter
  <1> QED
    BY <1>1, InductiveInit, PTL DEF Spec

-----------------------------------------------------------------------------
(* What follows from it.                                                   *)

\* Type correctness: every handler leaves every variable in its type.
THEOREM TypeCorrect == Spec => []TypeOK
  BY InductiveInvariant, PTL DEF Inductive

\* RunStore records one outcome per run, whoever finishes it.
THEOREM OneOutcomeHolds == Spec => []OneOutcome
  BY InductiveInvariant, PTL DEF Inductive

\* A run taken out of the queue by cancel_run or begin_shutdown is nobody
\* else's.
THEOREM OwnersExclude == Spec => []ExclusiveOwner
  <1>1. Inductive => ExclusiveOwner
    <2> SUFFICES ASSUME Inductive, NEW r \in Runs
                 PROVE  /\ QueueOwns(r) => ~WorkerOwns(r) /\ ~CloserOwns(r)
                        /\ WorkerOwns(r) => ~CloserOwns(r)
                        /\ \A c \in Clients : ClientOwns(c, r) =>
                             /\ ~QueueOwns(r) /\ ~WorkerOwns(r) /\ ~CloserOwns(r)
                             /\ \A d \in Clients : ClientOwns(d, r) => d = c
      BY DEF ExclusiveOwner
    <2>1. WorkerOwns(r) => r = active
      BY DEF Inductive, WorkerIsActive, WorkerOwns
    <2>2. QueueOwns(r) => r # active /\ ~CloserOwns(r)
      BY DEF Inductive, QueueIsFresh, DrainedAlone, QueueOwns, CloserOwns
    <2>3. CloserOwns(r) => r # active /\ \A c \in Clients : ~ClientOwns(c, r)
      BY DEF Inductive, DrainedAlone, CloserOwns
    <2>4. ASSUME NEW c \in Clients, ClientOwns(c, r)
          PROVE  /\ ~QueueOwns(r) /\ r # active
                 /\ \A d \in Clients : ClientOwns(d, r) => d = c
      BY <2>4 DEF Inductive, ClientsAreOutside, ClientOwns
    <2> QED
      BY <2>1, <2>2, <2>3, <2>4
  <1> QED
    BY <1>1, InductiveInvariant, PTL

\* Nothing but the active run can be forgotten: the runs behind it stay in
\* the hands of the queue, of a client or of the shutdown.
THEOREM OnlyActiveIsForgotten == Spec => []NothingForgotten
  BY InductiveInvariant, PTL DEF Inductive

\* When mark_run_running does not raise, no accepted run is forgotten.
THEOREM NoRunIsOrphaned ==
  ASSUME ClaimMayFail = FALSE
  PROVE  Spec => []NoOrphanRun
  <1>1. Inductive => NoOrphanRun
    <2> SUFFICES ASSUME Inductive, NEW r \in Runs, IsLive(artifact[r])
                 PROVE  Owned(r)
      BY DEF NoOrphanRun
    <2>1. CASE r = active
      <3>1. Busy /\ Job = r
        BY <2>1, RunsAssumption DEF Inductive, WorkerIsActive
      <3> QED
        BY <3>1 DEF Owned, WorkerOwns
    <2>2. CASE r # active
      BY <2>2 DEF Inductive, NothingForgotten
    <2> QED
      BY <2>1, <2>2
  <1> QED
    BY <1>1, InductiveInvariant, PTL

\* Nor does close release the resources under a run.
THEOREM CloseSettles ==
  ASSUME ClaimMayFail = FALSE
  PROVE  Spec => []ClosedIsSettled
  <1>1. Inductive => ClosedIsSettled
    <2> SUFFICES ASSUME Inductive, closer.pc = "closed"
                 PROVE  /\ pending = <<>>
                        /\ \A r \in Runs : IsLive(artifact[r]) =>
                             \E c \in Clients : ClientOwns(c, r)
      BY DEF ClosedIsSettled
    <2>1. pending = <<>> /\ closer.pending = <<>> /\ ~WorkerAlive
      BY DEF Inductive, DrainedAlone
    <2>2. ~Busy /\ active = NoRun
      BY <2>1 DEF Busy, WorkerAlive, Inductive, WorkerIsActive
    <2>3. \A r \in Runs : IsLive(artifact[r]) => Owned(r)
      BY <2>2, RunsAssumption DEF Inductive, NothingForgotten
    <2> QED
      BY <2>1, <2>2, <2>3 DEF Owned, WorkerOwns, QueueOwns, CloserOwns
  <1> QED
    BY <1>1, InductiveInvariant, PTL

\* No step takes back an outcome.
THEOREM OutcomeIsFinal == Spec => TerminalIsFinal
  <1>1. Inductive /\ [Next]_vars =>
          [\A r \in Runs : IsTerminal(artifact[r]) =>
             artifact'[r].status = artifact[r].status]_vars
    BY StoreStep DEF ArtifactsFollow, Follows
  <1> QED
    BY <1>1, InductiveInvariant, PTL DEF Spec, TerminalIsFinal

\* No step completes a run whose cancellation is recorded.
THEOREM CancellationHolds == Spec => CancellingNeverCompletes
  <1>1. Inductive /\ [Next]_vars =>
          [\A r \in Runs : artifact[r].status = "cancelling" =>
             artifact'[r].status # "completed"]_vars
    BY StoreStep DEF ArtifactsFollow, Follows
  <1> QED
    BY <1>1, InductiveInvariant, PTL DEF Spec, CancellingNeverCompletes

-----------------------------------------------------------------------------
(* Saved before completed.                                                 *)

\* A run is completed only by the step behind its checkpoint.
LEMMA CompletedStep ==
  ASSUME Inductive, Next, NEW r \in Runs,
         artifact[r].status # "completed", artifact'[r].status = "completed"
  PROVE  CompleteStep /\ r = Job
  <1> USE DEF Inductive
  <1>1. \A q \in Runs : \A b : SetArtifact(q, b) => r = q /\ artifact'[r] = b
    BY DEF SetArtifact, TypeOK
  <1>2. \A q \in Runs : ~Report(q)
    BY ReportKeepsStatus
  <1>3. ASSUME NEW error \in Errors,
               artifact'[r] = Finish(artifact[r], "failed", error)
        PROVE  FALSE
    <2>1. "failed" \in TerminalStatuses
      BY DEF TerminalStatuses
    <2>2. CASE IsTerminal(artifact[r])
      BY <1>3, <2>1, <2>2, FinishKeepsOutcome DEF OneOutcome, TypeOK
    <2>3. CASE ~IsTerminal(artifact[r])
      BY <1>3, <2>1, <2>3, FinishKeepsOutcome DEF OneOutcome, TypeOK
    <2> QED
      BY <2>2, <2>3
  <1>4. {"stopped", "shutdown"} \subseteq Errors /\ worker.error \in Errors
    BY DEF Errors, TypeOK
  <1>5. ~ \E q \in Runs : Enqueue(q) \/ Announce(q)
    BY <1>1, <1>2 DEF Enqueue, Announce, Created
  <1>6. ~ \E c \in Clients : EmitStopping(c) \/ FailWithdrawn(c)
    BY <1>1, <1>2, <1>3, <1>4 DEF EmitStopping, FailWithdrawn, ClientsAreOutside
  <1>7. \A q \in Runs : /\ MarkCancelling(artifact[q]).status = "completed"
                             => artifact[q].status = "completed"
                        /\ MarkCancellingWithEvent(artifact[q]).status = "completed"
                             => artifact[q].status = "completed"
    BY CancellingKeepsOutcome DEF OneOutcome, TypeOK
  <1>8. ~QuiesceActive /\ ~ \E c \in Clients : ClaimStop(c)
    BY <1>1, <1>7 DEF QuiesceActive, ClaimStop, ClientsAreOutside, TypeOK
  <1>9. ~ClaimJob
    BY <1>1, ClaimQueue DEF ClaimJob, MarkRunning, TypeOK, Artifact
  <1>10. ~ReportStep /\ ~ModelStep /\ ~RecordFailure
    BY <1>1, <1>2, <1>3, <1>4
       DEF ReportStep, ModelStep, RecordFailure, WorkerGoes, Executing,
           WorkerIsActive, Busy
  <1>11. ~FailDrained
    BY <1>1, <1>3, <1>4, TakenRun DEF FailDrained, TypeOK, DrainedAlone
  <1>12. ~FailAbandoned
    BY <1>1, <1>3, <1>4 DEF FailAbandoned, CloserGoes, DrainedAlone
  <1>13. CASE CompleteStep
    BY <1>1, <1>13 DEF CompleteStep, Executing, WorkerIsActive, Busy
  <1> QED
    BY <1>5, <1>6, <1>8, <1>9, <1>10, <1>11, <1>12, <1>13, Writers

\* The worker advances past the checkpoint step by taking it.
LEMMA CheckpointStepFirst ==
  ASSUME Inductive, Next, CheckpointFirst
  PROVE  CheckpointFirst'
  <1> USE DEF Inductive
  <1>1. checkpointed \subseteq checkpointed'
    BY DEF Next, store, StartRun, Starting, RefuseRun, Enqueue, Announce,
         SignalWorker, CancelRun, Cancelling, WithdrawQueued, NothingToCancel,
         RequestStop, EmitStopping, FailWithdrawn, ClaimStop, RetractStop,
         AbortRequest, Waiting, WorkerWakes, WorkerClears, ClaimJob, ClaimRaises,
         ClaimNothing, WorkerIdles, Executes, LoadStep, ReportStep, ModelStep,
         CheckStep, CheckpointStep, CompleteStep, StepRaises, RecordFailure,
         ReleaseJob, BeginShutdown, Closing, FailDrained, QuiesceActive,
         NoActiveToQuiesce, AbortActive, WakeWorker, JoinWorker,
         CloseResources, JoinTimesOut, FailAbandoned
  <1>2. ASSUME PastCheckpoint'
        PROVE  Job' \in checkpointed'
    <2> DEFINE at == IF Job \in Compacts THEN 7 ELSE 8
    <2>1. CASE worker' = worker
      BY <1>1, <1>2, <2>1 DEF PastCheckpoint, Job, CheckpointFirst
    <2>2. CASE EnsureWorker /\ worker' # worker
      BY <1>2, <2>2 DEF EnsureWorker, IdleWorker, PastCheckpoint
    <2>3. CASE Waiting
      <3>1. ClaimJob => worker'.step = 1
        BY DEF ClaimJob, IdleWorker
      <3>2. ClaimRaises => worker'.pc = "dead"
        BY DEF ClaimRaises, TypeOK
      <3> QED
        BY <1>2, <2>3, <3>1, <3>2, WaitingMoves DEF Busy, PastCheckpoint
    <2>4. CASE Executes
      <3>1. CASE ReleaseJob \/ CompleteStep \/ RecordFailure \/ StepRaises
        BY <1>2, <3>1
           DEF ReleaseJob, CompleteStep, RecordFailure, WorkerGoes, StepRaises,
               FailsWith, IdleWorker, PastCheckpoint, TypeOK
      <3>2. CASE Executing(FaultySteps \union {"report", "check"}) /\ Advance
        <4>1. worker.pc = "run" /\ Step # "complete"
          BY <3>2 DEF Executing, FaultySteps
        <4>2. Job' = Job /\ worker'.pc = "run" /\ worker'.step = worker.step + 1
          BY <3>2, <4>1, AdvanceType DEF Job
        <4>3. Job \in Runs /\ worker.step \in 1 .. 9
          BY <4>1 DEF WorkerIsActive, Busy, TypeOK
        <4>4. worker.step + 1 > at
          BY <1>2, <4>2 DEF PastCheckpoint
        <4>5. CASE worker.step > at
          BY <1>1, <4>1, <4>2, <4>5 DEF CheckpointFirst, PastCheckpoint
        <4>6. CASE worker.step = at
          <5>1. Step = "checkpoint"
            BY <4>3, <4>6, PlanSteps DEF Step
          <5>2. ~StepRaises
            BY <4>2 DEF StepRaises, FailsWith, TypeOK
          <5>3. CheckpointStep
            BY <2>4, <4>1, <5>1, <5>2
               DEF Executes, LoadStep, ReportStep, ModelStep, CheckStep,
                   CompleteStep, RecordFailure, WorkerGoes, ReleaseJob,
                   Executing, ModelSteps
          <5> QED
            BY <4>2, <5>3 DEF CheckpointStep
        <4> QED
          BY <4>3, <4>4, <4>5, <4>6
      <3>3. CASE CheckStep /\ ~Advance
        BY <1>2, <3>3 DEF CheckStep, FailsWith, PastCheckpoint, TypeOK
      <3> QED
        BY <2>4, <3>1, <3>2, <3>3
           DEF Executes, LoadStep, ReportStep, ModelStep, CheckStep, CheckpointStep,
               Executing, ModelSteps, FaultySteps
    <2> QED
      BY <2>1, <2>2, <2>3, <2>4, OthersLeaveWorker
  <1>3. ASSUME NEW r \in Runs, artifact'[r].status = "completed"
        PROVE  r \in checkpointed'
    <2>1. CASE artifact[r].status = "completed"
      BY <1>1, <2>1 DEF CheckpointFirst, CompletedIsCheckpointed
    <2>2. CASE artifact[r].status # "completed"
      <3>1. CompleteStep /\ r = Job
        BY <1>3, <2>2, CompletedStep
      <3>2. worker.pc = "run" /\ worker.step = 9
        BY <3>1, PlanSteps
           DEF CompleteStep, Executing, Step, TypeOK, WorkerIsActive, Busy
      <3> QED
        BY <1>1, <3>1, <3>2 DEF CheckpointFirst, PastCheckpoint
    <2> QED
      BY <2>1, <2>2
  <1> QED
    BY <1>2, <1>3 DEF CheckpointFirst, CompletedIsCheckpointed

\* No run is reported as completed before graph.update_state saved its turn.
THEOREM CompletionIsSaved == Spec => []CompletedIsCheckpointed
  <1>1. Init => CheckpointFirst
    BY DEF Init, CheckpointFirst, PastCheckpoint, CompletedIsCheckpointed, Absent,
           IdleWorker
  <1>2. Inductive /\ CheckpointFirst /\ [Next]_vars => CheckpointFirst'
    BY CheckpointStepFirst
       DEF vars, control, store, thread, CheckpointFirst, PastCheckpoint, Job,
           CompletedIsCheckpointed
  <1>3. CheckpointFirst => CompletedIsCheckpointed
    BY DEF CheckpointFirst
  <1> QED
    BY <1>1, <1>2, <1>3, InductiveInvariant, PTL DEF Spec

-----------------------------------------------------------------------------
(* Aborting only what is being cancelled.                                  *)

\* Who can end a run.
LEMMA TerminalStep ==
  ASSUME Inductive, Next, NEW r \in Runs,
         ~IsTerminal(artifact[r]), IsTerminal(artifact'[r])
  PROVE  \/ r # active
         \/ r = Job /\ worker'.pc = "release"
         \/ FailAbandoned
  <1> USE DEF Inductive
  <1>1. \A q \in Runs : \A b : SetArtifact(q, b) => r = q /\ artifact'[r] = b
    BY DEF SetArtifact, TypeOK
  <1>2. \A q \in Runs : ~Report(q)
    BY ReportKeepsStatus DEF IsTerminal
  <1>3. ~ \E q \in Runs : Enqueue(q) \/ Announce(q)
    BY <1>1, <1>2 DEF Enqueue, Announce, Created, IsTerminal, TerminalStatuses
  <1>4. CASE \E c \in Clients : EmitStopping(c) \/ FailWithdrawn(c)
    BY <1>1, <1>2, <1>4 DEF EmitStopping, FailWithdrawn, ClientsAreOutside
  <1>5. ~QuiesceActive /\ ~ \E c \in Clients : ClaimStop(c)
    <2>1. \A q \in Runs :
            /\ IsTerminal(MarkCancelling(artifact[q])) => IsTerminal(artifact[q])
            /\ IsTerminal(MarkCancellingWithEvent(artifact[q]))
                 => IsTerminal(artifact[q])
      BY CancellingKeepsOutcome DEF OneOutcome, TypeOK, IsTerminal, TerminalStatuses
    <2> QED
      <3>1. ~QuiesceActive
        <4>1. QuiesceActive => closer.active \in Runs
          BY DEF QuiesceActive, TypeOK
        <4>2. SUFFICES ASSUME QuiesceActive PROVE FALSE
          OBVIOUS
        <4>3. /\ r = closer.active
              /\ artifact'[r] = MarkCancelling(artifact[r])
          BY <1>1, <4>1, <4>2 DEF QuiesceActive
        <4> QED
          BY <2>1, <4>3 DEF IsTerminal
      <3>2. ASSUME NEW c \in Clients, ClaimStop(c) PROVE FALSE
        <4>1. client[c].run \in Runs
          BY <3>2 DEF ClaimStop, ClientsAreOutside
        <4>2. artifact'[r] = MarkCancellingWithEvent(artifact[r])
          BY <1>1, <3>2, <4>1 DEF ClaimStop
        <4> QED
          BY <2>1, <4>2 DEF IsTerminal
      <3> QED
        BY <3>1, <3>2
  <1>6. ~ClaimJob
    BY <1>1, ClaimQueue
       DEF ClaimJob, MarkRunning, TypeOK, Artifact, IsTerminal, TerminalStatuses
  <1>7. CASE ReportStep \/ ModelStep \/ CompleteStep \/ RecordFailure
    <2>1. Job \in Runs
      BY <1>7 DEF ReportStep, ModelStep, CompleteStep, RecordFailure, WorkerGoes,
                  Executing, WorkerIsActive, Busy
    <2> QED
      BY <1>1, <1>2, <1>7, <2>1
         DEF ReportStep, ModelStep, CompleteStep, RecordFailure, WorkerGoes, TypeOK
  <1>8. CASE FailDrained
    <2>1. Head(closer.pending) \in Runs /\ Head(closer.pending) # active
      BY <1>8, TakenRun DEF FailDrained, TypeOK, DrainedAlone
    <2> QED
      BY <1>1, <1>8, <2>1 DEF FailDrained
  <1> QED
    BY <1>3, <1>4, <1>5, <1>6, <1>7, <1>8, Writers

\* Who can unmark a run.
LEMMA UnmarkStep ==
  ASSUME Inductive, Next, NEW r \in Runs, r \in cancelled, r \notin cancelled'
  PROVE  \/ Enqueue(r)
         \/ \E c \in Clients : WithdrawQueued(c) /\ client[c].run = r
         \/ \E c \in Clients : RetractStop(c) /\ client[c].run = r
         \/ ReleaseJob
  BY DEF Next, control, StartRun, Starting, RefuseRun, Enqueue, Announce,
         SignalWorker, CancelRun, Cancelling, WithdrawQueued, NothingToCancel,
         RequestStop, EmitStopping, FailWithdrawn, ClaimStop, RetractStop,
         AbortRequest, Waiting, WorkerWakes, WorkerClears, ClaimJob, ClaimRaises,
         ClaimNothing, WorkerIdles, Executes, LoadStep, ReportStep, ModelStep,
         CheckStep, CheckpointStep, CompleteStep, StepRaises, RecordFailure,
         ReleaseJob, BeginShutdown, Closing, FailDrained, QuiesceActive,
         NoActiveToQuiesce, AbortActive, WakeWorker, JoinWorker,
         CloseResources, JoinTimesOut, FailAbandoned

\* The worker of the next state executes a run it claims or already executed.
LEMMA BusyStep ==
  ASSUME Inductive, Next, Busy'
  PROVE  \/ ClaimJob
         \/ /\ Busy /\ Job' = Job /\ active' = active /\ active \in Runs /\ Job = active
            /\ worker'.pc = "run" => worker.pc = "run"
            /\ worker'.pc \in {"run", "fail"} => worker.pc \in {"run", "fail"}
            /\ ~ReleaseJob
  <1> USE DEF Inductive
  <1>1. CASE worker' = worker /\ active' = active
    BY <1>1 DEF Busy, Job, WorkerIsActive, ReleaseJob, IdleWorker
  <1>2. CASE EnsureWorker /\ active' = active /\ worker' # worker
    BY <1>2 DEF EnsureWorker, IdleWorker, Busy
  <1>3. CASE Waiting
    <2>1. ~ClaimRaises
      BY DEF ClaimRaises, Busy, TypeOK
    <2> QED
      BY <1>3, <2>1, WaitingMoves
  <1>4. CASE Executes
    <2>1. ~ReleaseJob
      BY DEF ReleaseJob, IdleWorker, Busy
    <2>2. Busy /\ Job' = Job /\ active' = active /\ active \in Runs /\ Job = active
      BY <1>4, <2>1, ExecutesMoves DEF Job, WorkerIsActive
    <2>3. worker'.pc = "run" => worker.pc = "run"
      BY <1>4, <2>1
         DEF Executes, LoadStep, ReportStep, ModelStep, CheckStep, CheckpointStep,
             CompleteStep, StepRaises, Executing, RecordFailure, WorkerGoes, TypeOK
    <2>4. worker'.pc \in {"run", "fail"} => worker.pc \in {"run", "fail"}
      BY <1>4, <2>1
         DEF Executes, LoadStep, ReportStep, ModelStep, CheckStep, CheckpointStep,
             CompleteStep, StepRaises, Executing, RecordFailure, WorkerGoes, TypeOK
    <2> QED
      BY <2>1, <2>2, <2>3, <2>4
  <1> QED
    BY <1>1, <1>2, <1>3, <1>4, OthersLeaveWorker

\* A client stops a run by asking for it when the run is neither queued nor
\* marked.
LEMMA StoppingStep ==
  ASSUME Inductive, Next, NEW c \in Clients, NEW r \in Runs, Stopping(c, r)'
  PROVE  \/ RequestStop(c) /\ client[c].run = r /\ r \in cancelled' /\ r \notin cancelled
         \/ Stopping(c, r) /\ ~RetractStop(c)
  <1>0. client[c] \in [pc : ClientPcs, run : Runs \union {NoRun}]
    BY DEF Inductive, TypeOK
  <1>1. client'[c] # NoCall
    BY DEF Stopping, NoCall
  <1>2. ~RetractStop(c)
    BY <1>1 DEF RetractStop, ClientReturns, Inductive, TypeOK
  <1>3. ~WithdrawQueued(c) /\ ~EmitStopping(c) /\ ~ \E q \in Runs : CancelRun(c, q)
    BY <1>0 DEF WithdrawQueued, EmitStopping, CancelRun, ClientGoes, Stopping,
                Inductive, TypeOK
  <1>4. CASE client'[c] = client[c]
    BY <1>2, <1>4 DEF Stopping
  <1>5. CASE RequestStop(c)
    BY <1>5 DEF RequestStop, ClientGoes, Stopping, Inductive, TypeOK
  <1>6. CASE ClaimStop(c)
    BY <1>2, <1>6 DEF ClaimStop, ClientGoes, Stopping, Inductive, TypeOK
  <1> QED
    BY <1>1, <1>3, <1>4, <1>5, <1>6, ClientMoves

\* The shutdown aborts the run that was active when it began.
LEMMA AbortingStep ==
  ASSUME Inductive, Next, closer'.pc \in {"drain", "abort"}, ~BeginShutdown
  PROVE  closer.pc \in {"drain", "abort"} /\ shutdownRequested
  <1>1. CASE closer' = closer
    BY <1>1 DEF Inductive, DrainedAlone
  <1>2. CASE Closing
    BY <1>2 DEF Closing, FailDrained, QuiesceActive, NoActiveToQuiesce, AbortActive,
         WakeWorker, JoinWorker, CloseResources, JoinTimesOut, FailAbandoned,
         CloserGoes, Inductive, TypeOK, DrainedAlone
  <1> QED
    BY <1>1, <1>2, CloserMoves

\* A run that is being stopped stays marked until the worker releases it.
LEMMA MarkedStep ==
  ASSUME Inductive, StopsAreMarked, Next
  PROVE  StopsAreMarked'
  <1> USE DEF Inductive
  <1>1. ASSUME NEW r \in Runs, r = active, Busy, r \in cancelled, r \notin cancelled'
        PROVE  ReleaseJob \/ \E c \in Clients : RetractStop(c) /\ Stopping(c, r)
    <2>1. ~Enqueue(r)
      BY <1>1 DEF Enqueue, StarterAt, AbsentUntilEnqueued, WorkerIsActive
    <2>2. \A c \in Clients : ~(WithdrawQueued(c) /\ client[c].run = r)
      BY <1>1 DEF WithdrawQueued
    <2>3. \A c \in Clients : RetractStop(c) /\ client[c].run = r => Stopping(c, r)
      BY DEF RetractStop, Stopping
    <2> QED
      BY <1>1, <2>1, <2>2, <2>3, UnmarkStep
  <1>2. ASSUME worker'.pc = "run", closer'.pc \in {"drain", "abort"}
        PROVE  Job' \in cancelled'
    <2>1. CASE BeginShutdown
      BY <1>2, <2>1, RunsAssumption
         DEF BeginShutdown, thread, WorkerIsActive, Busy, Job
    <2>2. CASE ~BeginShutdown
      <3>1. closer.pc \in {"drain", "abort"} /\ shutdownRequested
        BY <1>2, <2>2, AbortingStep
      <3>2. ~ClaimJob
        BY <3>1 DEF ClaimJob, Claimable
      <3>3. /\ Busy /\ worker.pc = "run" /\ Job' = Job /\ Job = active
            /\ active \in Runs /\ ~ReleaseJob
        BY <1>2, <3>2, BusyStep DEF Busy
      <3>4. Job \in cancelled /\ ~IsTerminal(artifact[Job])
        BY <3>1, <3>3 DEF StopsAreMarked
      <3>5. \A c \in Clients : ~(RetractStop(c) /\ Stopping(c, Job))
        BY <3>4 DEF RetractStop, Stopping, StopsAreMarked
      <3> QED
        BY <1>1, <3>3, <3>4, <3>5
    <2> QED
      BY <2>1, <2>2
  <1>3. ASSUME worker'.pc \in {"run", "fail"}, closer'.pc # "left"
        PROVE  ~IsTerminal(artifact'[Job'])
    <2>1. CASE ClaimJob
      <3>1. Job' = Head(pending) /\ Head(pending) \in Runs
        BY <2>1, ClaimQueue DEF ClaimJob, IdleWorker, Job
      <3>2. artifact'[Head(pending)].status = "running"
        BY <2>1, <3>1 DEF ClaimJob, SetArtifact, MarkRunning, TypeOK, Artifact
      <3> QED
        BY <3>1, <3>2 DEF IsTerminal, TerminalStatuses
    <2>2. CASE ~ClaimJob
      <3>1. worker.pc \in {"run", "fail"} /\ Job' = Job /\ Job = active /\ active \in Runs
        BY <1>3, <2>2, BusyStep DEF Busy
      <3>2. closer.pc # "left"
        BY <1>3, CloserMoves
           DEF BeginShutdown, Closing, FailDrained, QuiesceActive,
               NoActiveToQuiesce, AbortActive, WakeWorker, JoinWorker,
               CloseResources, JoinTimesOut, FailAbandoned, CloserGoes
      <3>3. ~FailAbandoned
        BY <1>3 DEF FailAbandoned, CloserGoes, TypeOK
      <3>4. ~IsTerminal(artifact[Job])
        BY <3>1, <3>2 DEF StopsAreMarked
      <3> QED
        BY <1>3, <3>1, <3>3, <3>4, TerminalStep
    <2> QED
      BY <2>1, <2>2
  <1>4. ASSUME NEW c \in Clients, client'[c].pc = "retract"
        PROVE  IsTerminal(artifact'[client'[c].run])
    <2>1. /\ client'[c].run \in Runs /\ client'[c].run = client[c].run
      BY <1>4, ClientIn
    <2>2. CASE client[c].pc = "retract"
      BY <2>1, <2>2, StoreStep
         DEF StopsAreMarked, ArtifactsFollow, Follows, IsTerminal
    <2>3. CASE client[c].pc # "retract"
      <3>1. ClaimStop(c)
        <4>1. client'[c] # client[c] /\ client'[c] # NoCall
          BY <1>4, <2>3 DEF NoCall
        <4>2. ~ \E q \in Runs : CancelRun(c, q)
          BY <1>4 DEF CancelRun, TypeOK
        <4>3. ~WithdrawQueued(c)
          BY <1>4 DEF WithdrawQueued, ClientGoes, TypeOK
        <4>4. ~RequestStop(c) /\ ~EmitStopping(c)
          BY <1>4 DEF RequestStop, EmitStopping, ClientGoes, TypeOK
        <4> QED
          BY <4>1, <4>2, <4>3, <4>4, ClientMoves
      <3>2. IsTerminal(artifact[client[c].run])
        BY <1>4, <3>1 DEF ClaimStop, ClientGoes, TypeOK
      <3> QED
        BY <2>1, <3>2, StoreStep DEF ArtifactsFollow, Follows, IsTerminal
    <2> QED
      BY <2>2, <2>3
  <1>5. ASSUME NEW r \in Runs, NEW c \in Clients, Busy', r = Job', Stopping(c, r)'
        PROVE  /\ r \in cancelled'
               /\ \A d \in Clients : Stopping(d, r)' => d = c
    <2>1. ~ClaimJob
      <3>1. SUFFICES ASSUME ClaimJob PROVE FALSE
        OBVIOUS
      <3>2. r = Head(pending) /\ QueueOwns(r)
        BY <1>5, <3>1, ClaimQueue DEF ClaimJob, IdleWorker, Job
      <3>3. Stopping(c, r)
        BY <1>5, <3>1 DEF ClaimJob, Stopping
      <3> QED
        BY <3>2, <3>3 DEF Stopping, ClientsAreOutside
    <2>2. /\ Busy /\ r = Job /\ r = active /\ ~ReleaseJob
      BY <1>5, <2>1, BusyStep
    <2>3. \A d \in Clients : Stopping(d, r)' =>
            \/ RequestStop(d) /\ client[d].run = r /\ r \in cancelled' /\ r \notin cancelled
            \/ Stopping(d, r) /\ ~RetractStop(d)
      BY StoppingStep
    <2>4. \A d \in Clients : Stopping(d, r) =>
            r \in cancelled /\ \A e \in Clients : Stopping(e, r) => e = d
      BY <2>2 DEF StopsAreMarked
    <2>5. CASE RequestStop(c) /\ r \in cancelled' /\ r \notin cancelled
      <3>1. ASSUME NEW d \in Clients, RequestStop(d)
            PROVE  d = c
        BY <2>5, <3>1 DEF RequestStop, ClientGoes, TypeOK
      <3> QED
        BY <2>3, <2>4, <2>5, <3>1
    <2>6. CASE Stopping(c, r) /\ ~RetractStop(c)
      <3>1. r \in cancelled'
        BY <1>1, <2>2, <2>4, <2>6
      <3> QED
        BY <2>3, <2>4, <2>6, <3>1
    <2> QED
      BY <1>5, <2>3, <2>5, <2>6
  <1>6. Busy' => Job' \in Runs
    BY WorkerStep DEF WorkerIsActive
  <1>7. ASSUME NEW c \in Clients, Busy', Stopping(c, Job)'
        PROVE  /\ Job' \in cancelled'
               /\ \A d \in Clients : Stopping(d, Job)' => d = c
    <2>1. PICK r \in Runs : r = Job'
      BY <1>6, <1>7
    <2>2. Stopping(c, r)'
      BY <1>7, <2>1 DEF Stopping
    <2>3. r \in cancelled' /\ \A d \in Clients : Stopping(d, r)' => d = c
      BY <1>5, <1>7, <2>1, <2>2
    <2> QED
      BY <2>1, <2>3 DEF Stopping
  <1> QED
    BY <1>2, <1>3, <1>4, <1>7 DEF StopsAreMarked

\* abort_active_requests never closes the request of a run that nobody
\* cancels.
THEOREM AbortsHitOnlyCancelled == Spec => AbortsOnlyCancelled
  <1>1. Init => StopsAreMarked
    BY DEF Init, StopsAreMarked, Busy, IdleWorker, NoCall, Stopping
  <1>2. Inductive /\ StopsAreMarked /\ [Next]_vars => StopsAreMarked'
    <2>1. CASE Next
      BY <2>1, MarkedStep
    <2>2. CASE UNCHANGED vars
      BY <2>2 DEF vars, control, store, thread, StopsAreMarked, Busy, Job, Stopping
    <2> QED
      BY <2>1, <2>2
  <1>3. ASSUME Inductive, StopsAreMarked, Next, requestAborted', ~requestAborted
        PROVE  Job \in cancelled
    <2>1. CASE \E c \in Clients : AbortRequest(c)
      <3>1. PICK c \in Clients : AbortRequest(c)
        BY <2>1
      <3>2. active = client[c].run /\ Executing(ModelSteps)
        BY <1>3, <3>1 DEF AbortRequest, AbortOpenRequest
      <3>3. Busy /\ Job = active
        BY <1>3, <3>2 DEF Executing, Busy, Inductive, WorkerIsActive
      <3>4. Stopping(c, Job)
        BY <3>1, <3>2, <3>3 DEF AbortRequest, Stopping
      <3> QED
        BY <1>3, <3>3, <3>4 DEF StopsAreMarked
    <2>2. CASE AbortActive
      BY <1>3, <2>2
         DEF AbortActive, AbortOpenRequest, CloserGoes, Executing, StopsAreMarked
    <2>3. CASE requestAborted' \in {requestAborted, FALSE}
      BY <1>3, <2>3
    <2> QED
      BY <1>3, <2>1, <2>2, <2>3
         DEF Next, thread, StartRun, Starting, RefuseRun, Enqueue, Announce,
             SignalWorker, CancelRun, Cancelling, WithdrawQueued,
             NothingToCancel, RequestStop, EmitStopping, FailWithdrawn,
             ClaimStop, RetractStop, Waiting, WorkerWakes, WorkerClears,
             ClaimJob, ClaimRaises, ClaimNothing, WorkerIdles, Executes,
             LoadStep, ReportStep, ModelStep, CheckStep, CheckpointStep,
             CompleteStep, StepRaises, FailsWith, Advance, RecordFailure,
             ReleaseJob, BeginShutdown, Closing, FailDrained, QuiesceActive,
             NoActiveToQuiesce, WakeWorker, JoinWorker, CloseResources,
             JoinTimesOut, FailAbandoned
  <1>4. Inductive /\ StopsAreMarked /\ [Next]_vars =>
          [requestAborted' /\ ~requestAborted => Job \in cancelled]_vars
    BY <1>3
  <1> QED
    BY <1>1, <1>2, <1>4, InductiveInvariant, PTL DEF Spec, AbortsOnlyCancelled

=============================================================================
