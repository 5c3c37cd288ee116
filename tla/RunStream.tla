----------------------------- MODULE RunStream -----------------------------
(***************************************************************************)
(* The events of one run on their way to the clients: threads append them  *)
(* to the store, which numbers, buffers and compacts them, and publish     *)
(* them through the RunHub; each client's stream (the generator behind     *)
(* /chat/stream) has a bounded queue, and reads the store when it notices  *)
(* a gap or nothing comes.                                                 *)
(*                                                                         *)
(* An action is one call of the store (under its lock), one operation on a *)
(* subscriber's queue, or one turn of the generator.  Writing a file is    *)
(* not told from failing to write it: see the module about recovery.       *)
(***************************************************************************)
EXTENDS RunEvents

CONSTANTS
  Publishers,   \* threads that append events of the run
  Worker,       \* the one of them that executes the run
  Streams,      \* streams that clients open, each at most once
  QueueSize,    \* RunHub's subscriber_queue_size
  EventBound    \* how many events are appended at most (a bound of the model)

ASSUME StreamAssumption == /\ Worker \in Publishers
                           /\ QueueSize \in Nat \ {0}
                           /\ EventBound \in Nat

VARIABLES
  stored,       \* the events in the artifact's file
  buffered,     \* _pending_run_events
  counter,      \* _next_event_sequences
  subscribers,  \* RunHub._queues: who is subscribed
  queue,        \* the queue of each subscriber
  publisher,    \* what each publishing thread is doing
  stream,       \* what each stream is doing
  received,     \* what each client got: pieces of text and other events
  produced      \* history: the kind of each event appended so far

store == <<stored, buffered, counter, produced>>
hub   == <<subscribers, queue>>
vars  == <<store, hub, publisher, stream, received>>

NoEvent == Event("truncated", 0)
Silent  == [pc |-> "ready", event |-> NoEvent, to |-> <<>>]
Closed  == [pc |-> "closed", next |-> 1, ahead |-> <<>>]

Init ==
  /\ stored = <<>>
  /\ buffered = <<>>
  /\ counter = 1
  /\ subscribers = <<>>
  /\ queue = [s \in Streams |-> <<>>]
  /\ publisher = [p \in Publishers |-> Silent]
  /\ stream = [s \in Streams |-> Closed]
  /\ received = [s \in Streams |-> <<>>]
  /\ produced = <<>>

-----------------------------------------------------------------------------
(* The store                                                               *)

\* What get_run returns, and the counter after it.
Artifact == Renumber(stored) \o buffered
Synced(n, events) == IF n < NextNumber(events) THEN NextNumber(events) ELSE n
Counter  == Synced(counter, Renumber(stored))

\* _write_run_file of the artifact and some more events: they are numbered anew
\* where they must be, and what was buffered is written with them.
Write(more) ==
  LET events == Renumber(Artifact \o more) IN
  /\ stored' = Compact(events)
  /\ buffered' = <<>>
  /\ counter' = Synced(counter + Len(more), events)

\* A new event, and what becomes of it when it is written: the same object.
Fresh(kind)   == [Event(kind, counter) EXCEPT !.text = <<Len(produced) + 1>>]
Written(kind) == Last(Renumber(Artifact \o <<Fresh(kind)>>))

-----------------------------------------------------------------------------
(* Publishing                                                              *)

Goes(p, pc) == publisher' = [publisher EXCEPT ![p].pc = pc]

Publishes(p, e) ==
  publisher' = [publisher EXCEPT ![p] = [Silent EXCEPT !.pc = "publish", !.event = e]]

CanAppend(p) == publisher[p].pc = "ready" /\ Len(produced) < EventBound

\* append_event of a token: written at once only when the chunk is full or
\* old enough.
Stream(kind) ==
  /\ CanAppend(Worker)
  /\ kind \in TextKinds
  /\ produced' = Append(produced, kind)
  /\ \/ /\ buffered' = Append(buffered, Fresh(kind))
        /\ counter' = counter + 1
        /\ Publishes(Worker, Fresh(kind))
        /\ UNCHANGED stored
     \/ Write(<<Fresh(kind)>>) /\ Publishes(Worker, Written(kind))
  /\ UNCHANGED <<hub, stream, received>>

\* append_event of any other kind, and the stage "stopping" of a cancellation.
EmitStage(p) ==
  /\ CanAppend(p)
  /\ produced' = Append(produced, "stage")
  /\ Write(<<Fresh("stage")>>)
  /\ Publishes(p, Written("stage"))
  /\ UNCHANGED <<hub, stream, received>>

\* mark_run_running, mark_run_cancelling, append_trace_item: the buffered
\* events are written, too.
Rewrite ==
  /\ Write(<<>>)
  /\ UNCHANGED <<produced, hub, publisher, stream, received>>

\* _finish_run_with_event.  Other threads may still append behind it.
Finish(p) ==
  /\ CanAppend(p)
  /\ ~Has(Artifact, IsTerminal)
  /\ produced' = Append(produced, "terminal")
  /\ Write(<<Fresh("terminal")>>)
  /\ Publishes(p, Written("terminal"))
  /\ UNCHANGED <<hub, stream, received>>

\* The run was over already: its terminal event is published once more.
FinishAgain(p) ==
  /\ publisher[p].pc = "ready"
  /\ Has(Artifact, IsTerminal)
  /\ Write(<<>>)
  /\ Publishes(p, Last(Channel(Artifact, "terminal")))
  /\ UNCHANGED <<produced, hub, stream, received>>

\* The thread is done with a subscriber and turns to the next one, if any.
TurnsTo(p, subs) ==
  publisher' = [publisher EXCEPT ![p] =
                  IF subs = <<>> THEN Silent ELSE [@ EXCEPT !.pc = "put", !.to = subs]]

\* RunHub.publish copies the list of subscribers, then serves one by one.
CopySubscribers(p) ==
  /\ publisher[p].pc = "publish"
  /\ TurnsTo(p, subscribers)
  /\ UNCHANGED <<store, hub, stream, received>>

Target(p) == Head(publisher[p].to)
Served(p) == TurnsTo(p, Tail(publisher[p].to))
Full(s)   == Len(queue[s]) >= QueueSize

Enqueue(p) ==
  queue' = [queue EXCEPT ![Target(p)] = Append(@, publisher[p].event)]

\* put_bounded_queue: put, or drop the oldest and put, or give up.
Put(p) ==
  /\ publisher[p].pc = "put"
  /\ IF Full(Target(p)) THEN Goes(p, "drop") /\ UNCHANGED queue
                        ELSE Enqueue(p) /\ Served(p)
  /\ UNCHANGED <<store, subscribers, stream, received>>

DropOldest(p) ==
  /\ publisher[p].pc = "drop"
  /\ queue' = [queue EXCEPT ![Target(p)] = IF @ = <<>> THEN @ ELSE Tail(@)]
  /\ Goes(p, "again")
  /\ UNCHANGED <<store, subscribers, stream, received>>

PutAgain(p) ==
  /\ publisher[p].pc = "again"
  /\ IF Full(Target(p)) THEN UNCHANGED queue ELSE Enqueue(p)
  /\ Served(p)
  /\ UNCHANGED <<store, subscribers, stream, received>>

-----------------------------------------------------------------------------
(* A stream                                                                *)

Connected(s) == stream[s].pc \in {"read", "wait"}

Pieces(events) ==
  [i \in DOMAIN events |-> Piece(events[i].kind, events[i].text)]

Receives(s, pieces) == received' = [received EXCEPT ![s] = @ \o pieces]

Sent(s) == [k \in TextKinds |-> TextOf(received[s], k)]

Unsubscribed(s) ==
  FoldLeft(LAMBDA others, t : IF t = s THEN others ELSE Append(others, t), <<>>, subscribers)

\* The stream waits for number n, or ends behind the run's outcome.
GoesOn(s, n, over) ==
  /\ stream' = [stream EXCEPT ![s] = [pc |-> IF over THEN "ended" ELSE "wait",
                                      next |-> n, ahead |-> <<>>]]
  /\ subscribers' = IF over THEN Unsubscribed(s) ELSE subscribers

\* First the subscription, then the replay.
Subscribe(s) ==
  /\ stream[s].pc = "closed"
  /\ stream' = [stream EXCEPT ![s].pc = "read"]
  /\ subscribers' = Append(subscribers, s)
  /\ UNCHANGED <<store, queue, publisher, received>>

\* get_run, and what is new in it; the event that was ahead is in it, too, or
\* is the next one.  The quantifiers over one value only name it: TLC evaluates
\* it once.
ReadStore(s) ==
  /\ stream[s].pc = "read"
  /\ \E artifact \in {Artifact} : \E sent \in {Sent(s)} :
     \E unseen \in {Unseen(artifact, stream[s].next, sent)} :
       LET behind == Has(stream[s].ahead, LAMBDA e : e.first # unseen.next)
           ahead  == IF behind THEN <<>> ELSE stream[s].ahead
           over   == Has(unseen.send, IsTerminal)
           pieces == IF over THEN unseen.send ELSE unseen.send \o Pieces(ahead)
       IN /\ Receives(s, pieces)
          /\ GoesOn(s, IF over THEN unseen.next ELSE unseen.next + Len(ahead),
                    Has(pieces, IsTerminal))
  /\ counter' = Counter
  /\ UNCHANGED <<stored, buffered, produced, queue, publisher>>

\* The next event of the queue is an old one, the expected one, or ahead.
TakeEvent(s) ==
  LET e == Head(queue[s])  next == stream[s].next IN
  /\ stream[s].pc = "wait" /\ queue[s] # <<>>
  /\ queue' = [queue EXCEPT ![s] = Tail(@)]
  /\ \/ e.first < next /\ UNCHANGED <<stream, subscribers, received>>
     \/ /\ e.first = next
        /\ Receives(s, Pieces(<<e>>))
        /\ GoesOn(s, next + 1, IsTerminal(e))
     \/ /\ e.first > next
        /\ stream' = [stream EXCEPT ![s].pc = "read", ![s].ahead = <<e>>]
        /\ UNCHANGED <<subscribers, received>>
  /\ UNCHANGED <<store, publisher>>

\* Faulty variant: the stream goes on waiting.
TimesOutInVain(s) ==
  /\ stream[s].pc = "wait" /\ queue[s] = <<>>
  /\ UNCHANGED vars

\* Nothing came for five seconds.
TimesOut(s) ==
  /\ stream[s].pc = "wait" /\ queue[s] = <<>>
  /\ stream' = [stream EXCEPT ![s].pc = "read"]
  /\ UNCHANGED <<store, hub, publisher, received>>

\* The client goes away.
Disconnect(s) ==
  /\ Connected(s)
  /\ stream' = [stream EXCEPT ![s].pc = "gone"]
  /\ subscribers' = Unsubscribed(s)
  /\ UNCHANGED <<store, queue, publisher, received>>

-----------------------------------------------------------------------------
Appending(p) == EmitStage(p) \/ Finish(p) \/ FinishAgain(p)

Publishing(p) == \/ CopySubscribers(p)
                 \/ Put(p)
                 \/ DropOldest(p)
                 \/ PutAgain(p)

Following(s) == ReadStore(s) \/ TakeEvent(s) \/ TimesOut(s)

Next == \/ \E kind \in TextKinds : Stream(kind)
        \/ \E p \in Publishers : Appending(p) \/ Publishing(p)
        \/ Rewrite
        \/ \E s \in Streams : Subscribe(s) \/ Following(s) \/ Disconnect(s)

\* Threads that publish and generators that are asked for more go on.
Fairness == /\ \A p \in Publishers : WF_vars(Publishing(p))
            /\ \A s \in Streams : WF_vars(Following(s))

Spec == Init /\ [][Next]_vars /\ Fairness

-----------------------------------------------------------------------------
(* Properties                                                              *)

Events == [kind : Kinds, first : Nat, last : Nat, text : Seq(Nat)]

\* Every variable has its type, and no queue outgrows its size.
TypeOK ==
  /\ stored \in Seq(Events) /\ buffered \in Seq(Events)
  /\ counter \in Nat \ {0}
  /\ subscribers \in Seq(Streams)
  /\ queue \in [Streams -> Seq(Events)]
  /\ \A s \in Streams : Len(queue[s]) <= QueueSize
  /\ publisher \in [Publishers -> [pc : {"ready", "publish", "put", "drop", "again"},
                                   event : Events \union {NoEvent}, to : Seq(Streams)]]
  /\ stream \in [Streams -> [pc : {"closed", "read", "wait", "ended", "gone"},
                             next : Nat \ {0}, ahead : Seq(Events)]]
  /\ received \in [Streams -> Seq([kind : Kinds, text : Seq(Nat)])]
  /\ produced \in Seq(Kinds)

\* The events as they were produced, and the fragments in those of some kinds.
Original        == [i \in DOMAIN produced |-> Event(produced[i], i)]
Produced(kinds) == Texts(OfKinds(Original, kinds))

\* Something was said behind the outcome: by a worker whose run a shutdown failed.
Belated   == \E i \in 1 .. Len(produced) - 1 : produced[i] = "terminal"
Truncated == Channel(Artifact, "truncated") # <<>>

\* However the file was joined, collapsed and truncated, the numbers of the
\* events that get_run returns follow one another without a gap or an overlap,
\* and end where the next event will begin: a stream could not tell a gap of
\* its queue from one of the artifact.  (Where something is behind the outcome and
\* the history is truncated as well, the outcome is moved behind it.)
NumbersTile ==
  \/ Belated /\ Truncated
  \/ /\ \A i \in DOMAIN Artifact :
          Artifact[i].first = NextNumber(SubSeq(Artifact, 1, i - 1))
     /\ NextNumber(Artifact) = counter

\* The feed's types, and the numbers that its streams go by.
FeedIsSound == TypeOK /\ NumbersTile

\* However a history is joined, collapsed and truncated, it keeps its bound and
\* its outcome, and unless it is truncated every fragment of every channel.
HistoryIsKept ==
  /\ Len(stored) <= MaxEvents
  /\ TextOf(Artifact, "terminal") = Produced({"terminal"})
  /\ ~Truncated =>
       /\ \A k \in TextKinds : TextOf(Artifact, k) = Produced({k})
       /\ TextOf(Artifact, "stage") = Produced({"stage"})

\* What the limit does to the numbers of a history and to what it tells.
HistoryIsSound == NumbersTile /\ HistoryIsKept

Feed == INSTANCE RunFeed
          WITH Followers <- Streams, Terminal <- "terminal",
               received <- [s \in Streams |-> Texts(received[s])],
               dismissed <- {s \in Streams : stream[s].pc = "ended"}

\* Each stream implements RunFeed: events that were published out of order,
\* dropped by a full queue or joined in the store reach the client in order and
\* once, and the stream ends behind the outcome only.
InOrderOnce == Feed!Spec

\* Once the run is over every stream ends, even when its queue dropped the
\* outcome.
StreamsEnd ==
  \A s \in Streams : Produced({"terminal"}) # <<>> /\ Connected(s) ~> ~Connected(s)

=============================================================================
