---------------------------- MODULE RunnerOutput ----------------------------
(***************************************************************************)
(* The events of one session of the code runner: two threads pump what the *)
(* program writes, its timeout and a shutdown announce themselves, and the *)
(* thread that waits for its exit ends it; clients subscribe and follow.   *)
(*                                                                         *)
(* An action is one critical section of the session's lock, one operation  *)
(* on a subscriber's queue, or one turn of a client's generator.           *)
(***************************************************************************)
EXTENDS Integers, SequencesExt, FiniteSetsExt

CONSTANTS
  Pumps,         \* the threads that read the program's streams
  Killers,       \* the timeout and the shutdown
  Streams,       \* clients' streams, each opened at most once
  MaxBytes,      \* max_output_bytes
  Chunks,        \* the sizes that a pump may read
  HistoryLimit,  \* history_limit
  QueueSize      \* subscriber_queue_size

ASSUME OutputAssumption ==
  /\ MaxBytes \in Nat \ {0} /\ HistoryLimit \in Nat \ {0} /\ QueueSize \in Nat \ {0}
  /\ Chunks \subseteq Nat \ {0}
  /\ Pumps \cap Killers = {} /\ "wait" \notin Pumps \cup Killers

VARIABLES
  alive,        \* the docker run process
  finished,     \* runner.finished
  recorded,     \* the events so far; runner.history is the end of it
  bytes,        \* output_bytes
  truncated,    \* output_truncated
  subscribers,  \* in the order of subscription
  queue,        \* each subscriber's
  thread,       \* what each emitting thread is doing
  stream,       \* what each client's generator is doing
  received,     \* what it sent to its client
  joined,       \* history: the pumps were done when the session was finished
  overflown     \* history: the streams from whose queue an event was dropped

session == <<alive, finished, recorded, bytes, truncated, joined>>
clients == <<stream, received>>
hub     == <<subscribers, queue, overflown>>
outputVars == <<session, clients, hub, thread>>

Emitters == Pumps \cup Killers \cup {"wait"}

\* n tells events apart: it is the place in the history.
Event(kind, by, size, n) == [kind |-> kind, by |-> by, size |-> size, n |-> n]
Exit(n) == Event("exit", "wait", 0, n)

\* to: the events a thread still has to put, and in whose queues.
Thread(pc) == [pc |-> pc, to |-> <<>>]

OutputInit ==
  /\ alive = TRUE
  /\ finished = FALSE
  /\ recorded = <<>>
  /\ bytes = 0
  /\ truncated = FALSE
  /\ subscribers = <<>>
  /\ queue = [s \in Streams |-> <<>>]
  /\ thread = [e \in Emitters |-> Thread("ready")]
  /\ stream = [s \in Streams |-> "closed"]
  /\ received = [s \in Streams |-> <<>>]
  /\ joined = FALSE
  /\ overflown = {}

History == SubSeq(recorded, IF Len(recorded) > HistoryLimit
                              THEN Len(recorded) - HistoryLimit + 1 ELSE 1, Len(recorded))

-----------------------------------------------------------------------------
(* Emitting                                                                *)

Goes(e, pc) == thread' = [thread EXCEPT ![e].pc = pc]

\* A thread that has put its events goes on.
AfterPut(e) == IF e \in Pumps THEN "ready" ELSE IF e \in Killers THEN "kill" ELSE "done"

\* Each event for every subscriber.
Deliveries(events, subs) ==
  FlattenSeq([i \in DOMAIN events |-> [j \in DOMAIN subs |-> <<events[i], subs[j]>>]])

\* The events are recorded and the subscribers copied under the session's lock.
Record(e, events) ==
  /\ recorded' = recorded \o events
  /\ LET to == Deliveries(events, subscribers) IN
     thread' = [thread EXCEPT ![e] =
                  IF to = <<>> THEN Thread(AfterPut(e)) ELSE [pc |-> "put", to |-> to]]

Left == MaxBytes - bytes

\* _bounded_events_locked: what of a chunk is emitted.
Bounded(p, size) ==
  LET kept == IF size <= Left THEN size ELSE Left
      part == IF kept > 0 THEN <<Event("output", p, kept, Len(recorded) + 1)>> ELSE <<>>
      note == IF size > Left /\ ~truncated
                THEN <<Event("note", p, 0, Len(recorded) + Len(part) + 1)>> ELSE <<>>
  IN part \o note

\* _pump_stream reads a chunk; it may find output after the process is dead.
Pump(p) ==
  /\ thread[p].pc = "ready"
  /\ \E size \in Chunks :
       /\ Record(p, Bounded(p, size))
       /\ bytes' = IF size <= Left THEN bytes + size ELSE MaxBytes
       /\ truncated' = (truncated \/ size > Left)
  /\ UNCHANGED <<alive, finished, joined, clients, hub>>

PumpEnds(p) ==
  /\ thread[p].pc = "ready"
  /\ ~alive
  /\ Goes(p, "done")
  /\ UNCHANGED <<session, clients, hub>>

\* The next event and queue of a thread.
What(e)  == Head(thread[e].to)[1]
Where(e) == Head(thread[e].to)[2]
Full(e)  == Len(queue[Where(e)]) >= QueueSize

Served(e) ==
  LET rest == Tail(thread[e].to) IN
  thread' = [thread EXCEPT ![e] =
               IF rest = <<>> THEN Thread(AfterPut(e)) ELSE [pc |-> "put", to |-> rest]]

Enqueue(e) == queue' = [queue EXCEPT ![Where(e)] = Append(@, What(e))]

\* Faulty variant: an event that was put is put again after making room.
PutOn(e) ==
  /\ thread[e].pc = "put"
  /\ IF Full(e) THEN UNCHANGED queue ELSE Enqueue(e)
  /\ Goes(e, "drop")
  /\ UNCHANGED <<session, clients, subscribers, overflown>>

\* put_bounded_queue: an attempt, ...
Put(e) ==
  /\ thread[e].pc = "put"
  /\ IF Full(e) THEN Goes(e, "drop") /\ UNCHANGED queue
                ELSE Enqueue(e) /\ Served(e)
  /\ UNCHANGED <<session, clients, subscribers, overflown>>

\* ... making room when the queue is full, if it still holds something, ...
DropOldest(e) ==
  /\ thread[e].pc = "drop"
  /\ IF queue[Where(e)] = <<>>
       THEN UNCHANGED <<queue, overflown>>
       ELSE /\ queue' = [queue EXCEPT ![Where(e)] = Tail(@)]
            /\ overflown' = overflown \cup {Where(e)}
  /\ Goes(e, "again")
  /\ UNCHANGED <<session, clients, subscribers>>

\* ... and a last attempt: the room may have been taken by another thread.
PutAgain(e) ==
  /\ thread[e].pc = "again"
  /\ IF Full(e) THEN UNCHANGED queue /\ overflown' = overflown \cup {Where(e)}
                ELSE Enqueue(e) /\ UNCHANGED overflown
  /\ Served(e)
  /\ UNCHANGED <<session, clients, subscribers>>

-----------------------------------------------------------------------------
(* The end                                                                 *)

\* The program ends by itself, or is stopped.
Dies ==
  /\ alive
  /\ alive' = FALSE
  /\ UNCHANGED <<finished, recorded, bytes, truncated, joined, clients, hub, thread>>

\* _enforce_timeout sees that the session is not finished; a shutdown does not look.
Decides(k) ==
  /\ thread[k].pc = "ready"
  /\ k = "timeout" => ~finished
  /\ Goes(k, "announce")
  /\ UNCHANGED <<session, clients, hub>>

\* Then, whatever happened since, it announces itself ...
Announces(k) ==
  /\ thread[k].pc = "announce"
  /\ Record(k, <<Event("note", k, 0, Len(recorded) + 1)>>)
  /\ UNCHANGED <<alive, finished, bytes, truncated, joined, clients, hub>>

\* ... and kills the process.
Kills(k) ==
  /\ thread[k].pc = "kill"
  /\ alive' = FALSE
  /\ Goes(k, "done")
  /\ UNCHANGED <<finished, recorded, bytes, truncated, joined, clients, hub>>

PumpsDone == \A p \in Pumps : thread[p].pc = "done"

Finishes ==
  /\ finished' = TRUE
  /\ Record("wait", <<Exit(Len(recorded) + 1)>>)
  /\ subscribers' = <<>>
  /\ UNCHANGED <<alive, bytes, truncated, clients, queue, overflown>>

\* Faulty variant: the pumps are not joined.
ExitUnjoined ==
  /\ thread["wait"].pc = "ready" /\ ~alive
  /\ joined' = TRUE
  /\ Finishes

\* _wait_for_exit: a pump that goes on for a second is left behind.
WaitForExit ==
  /\ thread["wait"].pc = "ready" /\ ~alive
  /\ joined' = PumpsDone
  /\ Finishes

-----------------------------------------------------------------------------
(* Clients                                                                 *)

\* Faulty variant: it is not noticed that the session is over.
SubscribeAnyway(s) ==
  /\ stream[s] = "closed"
  /\ received' = [received EXCEPT ![s] = History]
  /\ stream' = [stream EXCEPT ![s] = "live"]
  /\ subscribers' = Append(subscribers, s)
  /\ UNCHANGED <<session, queue, overflown, thread>>

\* subscribe, and what of the history the client is sent.
Subscribe(s) ==
  /\ stream[s] = "closed"
  /\ received' = [received EXCEPT ![s] = History]
  /\ IF finished
       THEN /\ stream' = [stream EXCEPT ![s] = "over"]
            /\ UNCHANGED subscribers
       ELSE /\ stream' = [stream EXCEPT ![s] = "live"]
            /\ subscribers' = Append(subscribers, s)
  /\ UNCHANGED <<session, queue, overflown, thread>>

Leaves(s, how) ==
  /\ stream' = [stream EXCEPT ![s] = how]
  /\ IF s \in ToSet(subscribers)
       THEN \E i \in DOMAIN subscribers :
              subscribers[i] = s /\ subscribers' = RemoveAt(subscribers, i)
       ELSE UNCHANGED subscribers

\* The exit event ends the stream.
TakeEvent(s) ==
  /\ stream[s] = "live" /\ queue[s] # <<>>
  /\ received' = [received EXCEPT ![s] = Append(@, Head(queue[s]))]
  /\ queue' = [queue EXCEPT ![s] = Tail(@)]
  /\ IF Head(queue[s]).kind = "exit" THEN Leaves(s, "exit")
                                     ELSE UNCHANGED <<stream, subscribers>>
  /\ UNCHANGED <<session, overflown, thread>>

Disconnect(s) ==
  /\ stream[s] = "live"
  /\ Leaves(s, "gone")
  /\ UNCHANGED <<session, received, queue, overflown, thread>>

-----------------------------------------------------------------------------
OutputNext ==
  \/ \E p \in Pumps : Pump(p) \/ PumpEnds(p)
  \/ \E e \in Emitters : Put(e) \/ DropOldest(e) \/ PutAgain(e)
  \/ \E k \in Killers : Decides(k) \/ Announces(k) \/ Kills(k)
  \/ Dies \/ WaitForExit
  \/ \E s \in Streams : Subscribe(s) \/ TakeEvent(s) \/ Disconnect(s)

\* Threads and generators go on, and the time of a session runs out.  Nobody has
\* to subscribe, to shut down or to leave, and a program may write for ever.
OutputFairness ==
  /\ \A e \in Emitters : WF_outputVars(Put(e) \/ DropOldest(e) \/ PutAgain(e))
  /\ WF_outputVars(Decides("timeout"))
  /\ \A k \in Killers : WF_outputVars(Announces(k) \/ Kills(k))
  /\ WF_outputVars(WaitForExit)
  /\ \A s \in Streams : WF_outputVars(TakeEvent(s))

OutputSpec == OutputInit /\ [][OutputNext]_outputVars /\ OutputFairness

-----------------------------------------------------------------------------
(* Properties                                                              *)

\* The types of the variables; queues are bounded.
OutputTypeOK ==
  /\ {alive, finished, truncated, joined} \subseteq BOOLEAN
  /\ bytes \in 0..MaxBytes
  /\ \A i \in DOMAIN recorded : recorded[i].n = i
  /\ ToSet(subscribers) \subseteq Streams
  /\ \A s \in Streams : Len(queue[s]) <= QueueSize
  /\ \A e \in Emitters :
       thread[e].pc \in {"ready", "announce", "put", "drop", "again", "kill", "done"}
  /\ \A s \in Streams : stream[s] \in {"closed", "live", "over", "exit", "gone"}
  /\ overflown \subseteq Streams

\* The two pumps share one budget: together they never emit more than MaxBytes
\* of the program's output, whatever arrives.
BudgetKept ==
  LET sizes == [i \in DOMAIN recorded |-> recorded[i].size] IN
  FoldLeft(+, 0, sizes) <= MaxBytes

\* They say once, whichever of them it is, that there was more.
ToldOnce ==
  Cardinality({i \in DOMAIN recorded :
                 recorded[i].kind = "note" /\ recorded[i].by \in Pumps}) <= 1

\* A client gets no event twice, although it gets some from the history, some
\* from its queue, and subscribes while threads are emitting.
OnceEach ==
  \A s \in Streams : IsInjective(received[s] \o queue[s])

\* What is recorded keeps its bounds and is told once.
LogIsSound == OutputTypeOK /\ BudgetKept /\ ToldOnce /\ OnceEach

\* A stream that ended with the exit event, from whose queue nothing was dropped,
\* has sent all the program's output since it began, if the pumps were done in
\* time.
EndedHasAll ==
  \A s \in Streams :
    stream[s] = "exit" /\ s \notin overflown /\ joined =>
      \A i \in DOMAIN recorded :
        recorded[i].by \in Pumps /\ recorded[i].n >= received[s][1].n =>
          recorded[i] \in ToSet(received[s])

\* A stream ends, unless an event was dropped from its queue: a thread that found
\* the queue full may make room when there is room, and drop the exit event.
StreamsEnd ==
  \A s \in Streams : stream[s] = "live" ~> stream[s] # "live" \/ s \in overflown

=============================================================================
