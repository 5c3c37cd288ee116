----------------------------- MODULE RunEvents -----------------------------
(***************************************************************************)
(* The events of one run as RunStore keeps them: runs of streamed text are *)
(* joined into chunks, and a history that is still too long has each of    *)
(* its stretches of text collapsed by channel, then its rest truncated.    *)
(* And the events of a stored artifact that a stream has yet to send.      *)
(*                                                                         *)
(* An event stands for the sequence numbers first .. last.  Its text is    *)
(* the list of the fragments in it; a fragment is named after the number   *)
(* under which it was produced, and so is an event that is not text.       *)
(***************************************************************************)
EXTENDS Naturals, FiniteSets, SequencesExt

CONSTANTS
  Chunk,       \* _PERSISTED_STREAM_CHUNK_BYTES, in fragments
  MaxEvents    \* _MAX_PERSISTED_RUN_EVENTS

ASSUME EventsAssumption == Chunk \in Nat \ {0} /\ MaxEvents \in Nat \ {0, 1}

TextKinds == {"thinking", "token"}
Kinds     == TextKinds \union {"stage", "terminal", "truncated"}

Piece(kind, text) == [kind |-> kind, text |-> text]
Event(kind, n)    == [kind |-> kind, first |-> n, last |-> n, text |-> <<n>>]

IsText(e)     == e.kind \in TextKinds
IsTerminal(e) == e.kind = "terminal"
Has(events, Test(_)) == \E i \in DOMAIN events : Test(events[i])

OfKinds(events, kinds) ==
  LET kept[i \in 0 .. Len(events)] ==
        IF i = 0 THEN <<>>
        ELSE IF events[i].kind \in kinds THEN Append(kept[i - 1], events[i]) ELSE kept[i - 1]
  IN  kept[Len(events)]

Texts(events)      == FoldLeft(LAMBDA text, e : text \o e.text, <<>>, events)
Channel(events, k) == OfKinds(events, {k})
TextOf(events, k)  == Texts(Channel(events, k))
NextNumber(events) == IF events = <<>> THEN 1 ELSE Last(events).last + 1

-----------------------------------------------------------------------------
(* Faulty variants of the operators below.                                 *)

JoinWithoutRange(done, e) ==  \* the chunk keeps the range of its first event
  [done EXCEPT ![Len(done)].text = @ \o e.text]

GatherByChannel(segment) ==  \* a channel takes the range of its first event
  LET Part(k) == LET c == Channel(segment, k) IN
                 IF c = <<>> THEN <<>>
                 ELSE <<[Head(c) EXCEPT !.text = Texts(c)]>>
  IN  Part("thinking") \o Part("token")

-----------------------------------------------------------------------------
(* _coalesce_stream_events                                                 *)

Joins(d, e) == /\ IsText(e) /\ d.kind = e.kind
               /\ e.first = d.last + 1
               /\ Len(d.text) + Len(e.text) <= Chunk

Join(done, e) ==
  [done EXCEPT ![Len(done)].text = @ \o e.text, ![Len(done)].last = e.last]

AddToChunks(done, e) ==
  IF done # <<>> /\ Joins(Last(done), e) THEN Join(done, e) ELSE Append(done, e)

Coalesce(events) == FoldLeft(AddToChunks, <<>>, events)

(* _collapse_stream_segments: of each stretch of text, the thinking first, *)
(* and the range of the stretch divided anew, as wide as the channels are. *)

Width(events) == FoldLeft(LAMBDA width, e : width + (e.last - e.first + 1), 0, events)

Channels(segment) ==
  LET start == Head(segment).first
      split == start + Width(Channel(segment, "thinking"))
      Part(k, from) == LET c == Channel(segment, k) IN
                       IF c = <<>> THEN <<>>
                       ELSE <<[kind |-> k, first |-> from,
                               last |-> from + Width(c) - 1, text |-> Texts(c)]>>
  IN  Part("thinking", start) \o Part("token", split)

\* done ends with the stretch that e goes on with, if any.
Gather(done, e) ==
  LET cut == SelectLastInSeq(done, LAMBDA d : ~IsText(d)) IN
  IF IsText(e)
  THEN SubSeq(done, 1, cut) \o Channels(Append(SubSeq(done, cut + 1, Len(done)), e))
  ELSE Append(done, e)

Collapse(events) == FoldLeft(Gather, <<>>, events)

(* _truncate_event_history: a marker for what no longer fits, and the last *)
(* terminal event behind it.                                               *)

Truncate(events) ==
  LET outcomes == Channel(events, "terminal")
      terminal == IF outcomes = <<>> THEN <<>> ELSE <<Last(outcomes)>>
      others   == OfKinds(events, Kinds \ {"terminal"})
      room     == MaxEvents - 1 - Len(terminal)
      dropped  == SubSeq(others, room + 1, Len(others))
      marker   == IF dropped = <<>> THEN <<>>
                  ELSE <<[kind |-> "truncated", first |-> Head(dropped).first,
                          last |-> Last(dropped).last, text |-> <<>>]>>
  IN  SubSeq(others, 1, room) \o marker \o terminal

(* _compact_artifact_for_storage                                           *)
Fits(events) == Len(events) <= MaxEvents

Compact(events) ==
  LET chunks    == Coalesce(events)
      collapsed == IF Fits(chunks) THEN chunks ELSE Collapse(chunks)
  IN  IF Fits(collapsed) THEN collapsed ELSE Truncate(collapsed)

\* _register_event_sequences: ranges one behind the other, widths kept.
Renumber(events) ==
  LET end[i \in 0 .. Len(events)] ==
        IF i = 0 THEN 0 ELSE end[i - 1] + (events[i].last - events[i].first + 1)
  IN  [i \in DOMAIN events |-> [events[i] EXCEPT !.first = end[i - 1] + 1, !.last = end[i]]]

-----------------------------------------------------------------------------
(* ordered_unseen_events: what of an artifact a stream that waits for      *)
(* number "next" and has sent the fragments "sent" is still to send.       *)

\* Faulty variant: a text that was sent in part is sent as a whole.
UnseenWhole(events, next, sent) ==
  LET new == SelectSeq(events, LAMBDA e : e.last >= next)
  IN  [next |-> IF new = <<>> THEN next ELSE NextNumber(events),
       send |-> [i \in DOMAIN new |-> Piece(new[i].kind, new[i].text)]]

\* The ranges of an artifact follow one another, so what is new is its end.  Of
\* a channel the text up to an event is compared with what was sent: the rest of
\* it is sent, or nothing when something else was.
Unseen(events, next, sent) ==
  LET old == Cardinality({i \in DOMAIN events : events[i].last < next})
      UpTo(i)    == TextOf(SubSeq(events, 1, i), events[i].kind)
      Extends(i) == IsPrefix(sent[events[i].kind], UpTo(i))
      Told(i)    == LET told == {j \in old + 1 .. i - 1 :
                                   events[j].kind = events[i].kind /\ Extends(j)}
                    IN  IF told = {} THEN sent[events[i].kind] ELSE UpTo(Max(told))
      Rest(i)    == IF ~IsText(events[i]) THEN events[i].text
                    ELSE IF Extends(i) THEN SubSeq(UpTo(i), Len(Told(i)) + 1, Len(UpTo(i)))
                    ELSE <<>>
      send[i \in 0 .. Len(events)] ==
        IF i <= old THEN <<>>
        ELSE IF IsText(events[i]) /\ Rest(i) = <<>> THEN send[i - 1]
        ELSE Append(send[i - 1], Piece(events[i].kind, Rest(i)))
  IN  [next |-> IF old = Len(events) THEN next ELSE NextNumber(events),
       send |-> send[Len(events)]]

=============================================================================
