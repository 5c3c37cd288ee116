----------------------------- MODULE ProfileRuns -----------------------------
(***************************************************************************)
(* The runs of RunControl behind the gate of ProfileGate: a run belongs to *)
(* a profile, the queue and the active slot tell the gate which profiles   *)
(* are busy, and a store call on a run raises when the profile's key or    *)
(* the run's artifact is gone.                                             *)
(*                                                                         *)
(* The request that starts run r is thread r of the gate.  The service may *)
(* be quiesced (begin_shutdown) while requests are served; close comes     *)
(* after the last request and is left to RunControl.                       *)
(***************************************************************************)
EXTENDS RunControl, FiniteSets

CONSTANTS Profiles, Protected, ApiThreads, NoProfile,
          Owner   \* the profile of each run

ASSUME OwnersAssumption == /\ Owner \in [Runs -> Profiles]
                           /\ ApiThreads \intersect Runs = {}
                           /\ (ApiThreads \union Runs) \intersect Profiles = {}
                           /\ IsFiniteSet(ApiThreads \union Runs)
                           /\ Protected \subseteq Profiles /\ NoProfile \notin Profiles

VARIABLES operations, mutating, resetting, unlocked, keys, users, indexed, stranded, call

gateVars    == <<operations, mutating, resetting, unlocked, keys, users, indexed, stranded,
                 call>>
runVars     == <<control, wakeup, store, thread, starter, client, closer>>
serviceVars == <<runVars, gateVars>>

(* Faulty variants: queued runs are not looked for; neither are those that *)
(* are being cancelled.                                                    *)
BusyActiveOnly ==
  {Owner[r] : r \in {x \in Runs : x = active /\ IsLive(artifact[x])}}

BusyUnlessCancelling ==
  {Owner[pending[i]] : i \in DOMAIN pending}
    \union {Owner[r] : r \in {x \in Runs : x = active /\ artifact[x].status = "running"}}

\* _profile_has_active_runs_locked.
BusyProfiles ==
  {Owner[pending[i]] : i \in DOMAIN pending}
    \union {Owner[r] : r \in {x \in Runs : x = active /\ IsLive(artifact[x])}}

Gate == INSTANCE ProfileGate
          WITH thread <- call, busy <- BusyProfiles,
               Threads <- ApiThreads \union Runs

\* A store call on run r goes through.
Writable(r) == artifact[r].status # "absent" /\ Gate!Readable(Owner[r])

ServiceInit ==
  /\ Init
  /\ operations = [p \in Profiles |-> 0]
  /\ mutating = {}
  /\ resetting = FALSE
  /\ unlocked = {}
  /\ keys = {}
  /\ users = {}
  /\ indexed = TRUE
  /\ stranded = {}
  /\ call = [t \in ApiThreads \union Runs |-> Gate!Idle]

-----------------------------------------------------------------------------
(* Starting a run                                                          *)

CheckProfile(r) ==
  /\ starter[r] = "new"
  /\ UNCHANGED runVars
  /\ Gate!CheckStart(r, Owner[r])

BeginStart(r) ==
  /\ call[r].pc = "preflight"
  /\ StartRun(r)
  /\ ~Gate!Blocked(Owner[r])
  /\ UNCHANGED gateVars

\* The profile is shut, the gate blocks it, or the service is closing.
RejectStart(r) ==
  /\ StarterAt(r, "new", "refused")
  /\ UNCHANGED <<control, wakeup, store, thread, client, closer>>
  /\ Gate!DiscardMark(r) \/ Gate!RefuseStart(r)

RejectRun(r) == RefuseRun(r) /\ Gate!RefuseStart(r)

EnqueueRun(r) == Enqueue(r) /\ Gate!Accept(r)

AnnounceRun(r) ==
  /\ \/ Writable(r) /\ Announce(r)
     \/ SignalWorker(r)
  /\ UNCHANGED gateVars

\* The run is over and its profile shut or gone: the request ends with the
\* store's error, and the worker is not woken.
AnnounceRaises(r) ==
  /\ ~Writable(r)
  /\ StarterAt(r, "announce", "returned")
  /\ UNCHANGED <<control, wakeup, store, thread, client, closer, gateVars>>

-----------------------------------------------------------------------------
(* Cancelling and executing runs                                           *)

\* _get_accessible_run passes through the gate and leaves it at once.
AccessRun(c, r) ==
  /\ ~Gate!Blocked(Owner[r])
  /\ Gate!Accessible(Owner[r])
  /\ CancelRun(c, r)
  /\ UNCHANGED gateVars

ReadsStore(c) == client[c].pc \in {"decide", "withdrawn", "fail", "claim"}

GoOnCancelling(c) ==
  /\ ReadsStore(c) => Writable(client[c].run)
  /\ Cancelling(c)
  /\ UNCHANGED gateVars

\* The run cannot be read any more: cancel_run goes by the status it read when
\* it was called, over by then or not.
DecideBlindly(c) ==
  LET r == client[c].run IN
  /\ client[c].pc = "decide"
  /\ ~Writable(r) /\ NotQueued(r)
  /\ \/ ClientReturns(c) /\ UNCHANGED cancelled
     \/ r \notin cancelled /\ cancelled' = cancelled \union {r} /\ ClientGoes(c, "claim")
  /\ UNCHANGED <<pending, active, shutdownRequested, wakeup, store, thread,
                 starter, closer, gateVars>>

\* The store raises under the client, which forgets the run.
CancelRaises(c) ==
  /\ client[c].pc \in {"withdrawn", "fail", "claim"}
  /\ ~Writable(client[c].run)
  /\ ClientReturns(c)
  /\ UNCHANGED <<control, wakeup, store, thread, starter, closer, gateVars>>

WorkerSteps == (Waiting \/ Executes) /\ UNCHANGED gateVars

Quiesces ==
  /\ \/ BeginShutdown
     \/ closer.pending # <<>> /\ Writable(Head(closer.pending)) /\ FailDrained
     \/ closer.active \in Runs /\ Writable(closer.active) /\ QuiesceActive
     \/ NoActiveToQuiesce
     \/ AbortActive
     \/ WakeWorker
  /\ UNCHANGED gateVars

\* begin_shutdown collects the store's errors and goes on.
QuiesceRaises ==
  /\ closer.pc = "drain"
  /\ \/ /\ closer.pending # <<>> /\ ~Writable(Head(closer.pending))
        /\ closer' = [closer EXCEPT !.pending = Tail(@)]
     \/ /\ closer.pending = <<>>
        /\ closer.active \in Runs /\ ~Writable(closer.active)
        /\ closer' = [closer EXCEPT !.pc = "abort"]
  /\ UNCHANGED <<control, wakeup, store, thread, starter, client, gateVars>>

-----------------------------------------------------------------------------
(* The API threads in the gate.  Erasing a thread or a profile takes the   *)
(* artifacts of its runs along, a reset those of all runs; one that raises *)
(* may be half done.  A reset also waits until the worker has released a   *)
(* run that is over.                                                       *)

\* Whose artifacts a step may delete, and whose it has deleted at its end.
Erasing(t) ==
  {r \in Runs : \/ /\ call[t].pc = "inside" /\ call[t].op \in Gate!Mutations
                   /\ Owner[r] = call[t].profile
                \/ /\ call[t].op = "reset"
                   /\ call[t].pc = "wipe" \/ call'[t].pc = "wipe"}

Erased(t) ==
  {r \in Runs : IF call[t].op = "reset" THEN call'[t].pc = "unindexed"
                ELSE Owner[r] \in users \ users'}

UseGate(t) ==
  \E gone \in SUBSET Runs :
    /\ artifact' = [r \in Runs |-> IF r \in gone THEN Absent ELSE artifact[r]]
    /\ UNCHANGED <<control, wakeup, checkpointed, thread, starter, client, closer>>
    /\ Gate!Operating(t) \/ Gate!Mutating(t) \/ Gate!Resetting(t)
    /\ resetting' /\ ~resetting => active = NoRun
    /\ Erased(t) \subseteq gone
    /\ gone \subseteq Erased(t) \union Erasing(t)

-----------------------------------------------------------------------------
ServiceNext ==
  \/ \E r \in Runs : \/ CheckProfile(r)
                     \/ BeginStart(r)
                     \/ RejectStart(r)
                     \/ RejectRun(r)
                     \/ EnqueueRun(r)
                     \/ AnnounceRun(r)
                     \/ AnnounceRaises(r)
  \/ \E c \in Clients : \/ \E r \in Runs : AccessRun(c, r)
                        \/ GoOnCancelling(c)
                        \/ DecideBlindly(c)
                        \/ CancelRaises(c)
  \/ WorkerSteps
  \/ Quiesces
  \/ QuiesceRaises
  \/ \E t \in ApiThreads : UseGate(t)

Service == ServiceInit /\ [][ServiceNext]_serviceVars

-----------------------------------------------------------------------------
(* Properties                                                              *)

\* The queue and the active slot are what the gate takes them for: to the
\* gate, starting, claiming, cancelling, draining and ending runs are requests
\* it lets in and runs that end.
GateHolds == Gate!Spec

\* The worker never comes to a run whose profile was locked, deleted or reset,
\* or whose artifact is gone, and none is taken from it until the run is over.
WorkerFindsRun ==
  worker.pc \in {"run", "fail"} => Writable(Job)

\* Nor does the claim of a queued run find one, so that it cannot raise for
\* that reason and kill the worker.
QueueFindsRuns == \A i \in DOMAIN pending : Writable(pending[i])

\* So the store never answers the worker with an error of the gate's making.
StoreAnswers == WorkerFindsRun /\ QueueFindsRuns

=============================================================================
