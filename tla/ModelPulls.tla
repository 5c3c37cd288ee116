----------------------------- MODULE ModelPulls -----------------------------
(***************************************************************************)
(* Model downloads (model_pulls.py): requests start and cancel them, each  *)
(* has a thread that reads Ollama's progress, and a shutdown cancels what  *)
(* is active.                                                              *)
(*                                                                         *)
(* An action is one critical section of the manager's lock, or one call    *)
(* made outside of it (opening, reading or closing the response).          *)
(***************************************************************************)
EXTENDS Integers, FiniteSetsExt, SequencesExt

CONSTANTS
  Pulls,        \* pull ids, in the order in which they are used
  Models,
  MaxPulls,     \* max_concurrent
  MaxHistory    \* MAX_PULL_HISTORY

ASSUME PullsAssumption ==
  /\ Pulls \in Seq(Nat) /\ IsInjective(Pulls)
  /\ MaxPulls \in Nat \ {0} /\ MaxHistory \in Nat /\ MaxHistory >= MaxPulls

PullIds == ToSet(Pulls)
PullActive   == {"queued", "pulling"}
PullTerminal == {"completed", "failed", "cancelled"}

VARIABLES
  pulls,       \* _pulls: the known ids, the one updated last at the end
  pull,        \* each one's model, status and _cancel
  loader,      \* what each pull's thread is doing
  response,    \* each pull's response: "none", "open" or "closed"
  registered,  \* the pulls whose _response is set
  closing,     \* the pulls whose response a cancel is about to close
  sweep        \* the pulls that a shutdown still has to cancel

pullVars == <<pulls, pull, loader, response, registered, closing, sweep>>

NewPull(m) == [model |-> m, status |-> "queued", cancel |-> FALSE]

PullsInit ==
  /\ pulls = << >>
  /\ pull = << >>
  /\ loader = [p \in PullIds |-> "none"]
  /\ response = [p \in PullIds |-> "none"]
  /\ registered = {} /\ closing = {} /\ sweep = {}

Status(p) == pull[p].status
ActivePulls == {p \in DOMAIN pull : Status(p) \in PullActive}
Listed == ActivePulls \cap ToSet(pulls)
Known(m) == {p \in Listed : pull[p].model = m}

-----------------------------------------------------------------------------
(* Requests *)

\* _prune_history: the oldest ended pulls go, so that one more fits.
OldestGone(s, ended) ==
  LET places == {i \in DOMAIN s : s[i] \in ended}
  IN  IF places = {} THEN s ELSE RemoveAt(s, Min(places))
Pruned(s, ended) ==
  LET excess == Len(s) - MaxHistory + 1
      left[n \in 0..excess] == IF n = 0 THEN s ELSE OldestGone(left[n - 1], ended)
  IN  IF excess > 0 THEN left[excess] ELSE s
Prune == Pruned(pulls, ToSet(pulls) \ ActivePulls)

\* There is room for another pull.
Room == Cardinality(Listed) < MaxPulls

\* start: a pull of the same model is returned; otherwise there must be room.
StartPull(m) ==
  LET p == Pulls[Cardinality(DOMAIN pull) + 1]
  IN  /\ Cardinality(DOMAIN pull) < Len(Pulls)
      /\ IF Known(m) = {} /\ Room
         THEN /\ pulls' = Append(Prune, p)
              /\ pull' = [q \in DOMAIN pull \cup {p} |->
                            IF q = p THEN NewPull(m) ELSE pull[q]]
              /\ loader' = [loader EXCEPT ![p] = "begin"]
         ELSE pulls' = Prune /\ UNCHANGED <<pull, loader>>
      /\ UNCHANGED <<response, registered, closing, sweep>>

\* Every change of a pull sets updated_at.
PlaceOf(p) == CHOOSE i \in DOMAIN pulls : pulls[i] = p
Touched(p) == Append(RemoveAt(pulls, PlaceOf(p)), p)
Updated(p, s) ==
  /\ pull' = [pull EXCEPT ![p].status = s]
  /\ pulls' = IF p \in ToSet(pulls) THEN Touched(p) ELSE pulls

\* cancel, for a client or for the shutdown: the mark under the lock, then the
\* response, if there is one by now, outside of it.
MarksCancelled(p) ==
  IF p \in ToSet(pulls) /\ Status(p) \in PullActive
  THEN /\ pull' = [pull EXCEPT ![p].status = "cancelled", ![p].cancel = TRUE]
       /\ pulls' = Touched(p)
       /\ closing' = closing \cup ({p} \cap registered)
  ELSE UNCHANGED <<pull, pulls, closing>>

CancelPull(p) ==
  /\ p \in ActivePulls
  /\ MarksCancelled(p)
  /\ UNCHANGED <<loader, response, registered, sweep>>

CloseResponse(p) ==
  /\ p \in closing
  /\ closing' = closing \ {p}
  /\ response' = [response EXCEPT ![p] = "closed"]
  /\ UNCHANGED <<pulls, pull, loader, registered, sweep>>

\* shutdown lists the active pulls, and cancels them one by one.
BeginSweep ==
  /\ sweep = {} /\ Listed # {}
  /\ sweep' = Listed
  /\ UNCHANGED <<pulls, pull, loader, response, registered, closing>>

SweepPull(p) ==
  /\ p \in sweep
  /\ sweep' = sweep \ {p}
  /\ MarksCancelled(p)
  /\ UNCHANGED <<loader, response, registered>>

-----------------------------------------------------------------------------
(* The thread of a pull: _run *)

LoaderAt(p, pc) == loader[p] = pc
LoaderGoes(p, pc) == loader' = [loader EXCEPT ![p] = pc]

BeginPull(p) ==
  /\ LoaderAt(p, "begin")
  /\ IF pull[p].cancel THEN LoaderGoes(p, "done") /\ UNCHANGED <<pull, pulls>>
     ELSE LoaderGoes(p, "open") /\ Updated(p, "pulling")
  /\ UNCHANGED <<response, registered, closing, sweep>>

\* provider_urlopen answers, or raises.
OpenPull(p) ==
  /\ LoaderAt(p, "open")
  /\ \/ LoaderGoes(p, "register") /\ response' = [response EXCEPT ![p] = "open"]
     \/ LoaderGoes(p, "fails") /\ UNCHANGED response
  /\ UNCHANGED <<pulls, pull, registered, closing, sweep>>

\* A cancel that came while the request was opening saw no response: the thread
\* closes it. (RegisterLeaving returns without closing it.)
RegisterLeaving(p) ==
  /\ LoaderAt(p, "register")
  /\ IF pull[p].cancel THEN LoaderGoes(p, "leave") /\ UNCHANGED registered
     ELSE LoaderGoes(p, "read") /\ registered' = registered \cup {p}
  /\ UNCHANGED <<pulls, pull, response, closing, sweep>>
RegisterPull(p) ==
  /\ LoaderAt(p, "register")
  /\ IF pull[p].cancel
     THEN /\ LoaderGoes(p, "leave")
          /\ response' = [response EXCEPT ![p] = "closed"]
          /\ UNCHANGED registered
     ELSE /\ LoaderGoes(p, "read")
          /\ registered' = registered \cup {p}
          /\ UNCHANGED response
  /\ UNCHANGED <<pulls, pull, closing, sweep>>

\* One turn of the reading loop: progress, the end of the response, or an error
\* (its own, the 30 second timeout, or the response closed under it). "with
\* response" closes it on every way out.
ReadPull(p) ==
  /\ LoaderAt(p, "read")
  /\ \/ /\ response[p] = "open" /\ ~pull[p].cancel
        /\ Updated(p, "pulling")
        /\ UNCHANGED <<loader, response>>
     \/ /\ \/ pull[p].cancel /\ LoaderGoes(p, "leave")
           \/ response[p] = "open" /\ LoaderGoes(p, "succeeds")
           \/ LoaderGoes(p, "fails")
        /\ response' = [response EXCEPT ![p] = "closed"]
        /\ UNCHANGED <<pull, pulls>>
  /\ UNCHANGED <<registered, closing, sweep>>

\* An exception that _run does not list, such as an http.client.IncompleteRead,
\* ends the thread: the pull stays as it is until somebody cancels it.
ReadBreaks(p) ==
  /\ LoaderAt(p, "read")
  /\ LoaderGoes(p, "leave")
  /\ response' = [response EXCEPT ![p] = "closed"]
  /\ UNCHANGED <<pulls, pull, registered, closing, sweep>>

\* The check of _cancel, and the _update that follows it, which checks it again
\* under the lock. (UpdateBlindly trusts the first check.)
UpdateBlindly(p, s) == Updated(p, s)
Update(p, s) ==
  IF pull[p].cancel \/ Status(p) \in PullTerminal THEN UNCHANGED <<pull, pulls>>
  ELSE Updated(p, s)

EndPull(p) ==
  \/ /\ loader[p] \in {"succeeds", "fails"}
     /\ LoaderGoes(p, IF pull[p].cancel THEN "leave"
                      ELSE IF loader[p] = "succeeds" THEN "completed" ELSE "failed")
     /\ UNCHANGED <<pulls, pull, response, registered, closing, sweep>>
  \/ /\ loader[p] \in {"completed", "failed"}
     /\ Update(p, loader[p])
     /\ LoaderGoes(p, "leave")
     /\ UNCHANGED <<response, registered, closing, sweep>>

\* finally: _response = None
LeavePull(p) ==
  /\ LoaderAt(p, "leave")
  /\ LoaderGoes(p, "done")
  /\ registered' = registered \ {p}
  /\ UNCHANGED <<pulls, pull, response, closing, sweep>>

Loading(p) == BeginPull(p) \/ OpenPull(p) \/ RegisterPull(p) \/ EndPull(p) \/ LeavePull(p)

PullsNext ==
  \/ \E m \in Models : StartPull(m)
  \/ \E p \in PullIds : \/ CancelPull(p) \/ CloseResponse(p) \/ SweepPull(p)
                        \/ Loading(p) \/ ReadPull(p) \/ ReadBreaks(p)
  \/ BeginSweep

\* A response comes to an end, or times out.
PullsFairness ==
  \A p \in PullIds : /\ WF_pullVars(Loading(p))
                     /\ WF_pullVars(ReadPull(p) /\ loader'[p] # "read")
                     /\ WF_pullVars(CloseResponse(p))
                     /\ WF_pullVars(SweepPull(p))

PullsSpec == PullsInit /\ [][PullsNext]_pullVars /\ PullsFairness

-----------------------------------------------------------------------------
(* Properties *)

\* The types; a pull that is still active is never forgotten, at most MaxPulls are,
\* and the history keeps its bound (_prune_history).
PullsTypeOK ==
  /\ ToSet(pulls) \subseteq DOMAIN pull /\ DOMAIN pull \subseteq PullIds
  /\ \A p \in DOMAIN pull : pull[p] \in [model : Models, cancel : BOOLEAN,
                                         status : PullActive \cup PullTerminal]
  /\ ActivePulls \subseteq ToSet(pulls) /\ Cardinality(ActivePulls) <= MaxPulls
  /\ IsInjective(pulls) /\ Len(pulls) <= MaxHistory
  /\ registered \cup closing \cup sweep \subseteq PullIds

\* A pull that ended never changes again: progress, completion or failure that
\* arrives after the user's cancellation is dropped.
EndedPullStays ==
  [][\A p \in DOMAIN pull :
       Status(p) \in PullTerminal => Status(p)' = Status(p)]_pullVars

\* A thread that is done has left no response open, whenever the cancellation
\* came: before the request, while it was opening, or while it was read.
NoTransferLeft ==
  \A p \in PullIds :
    loader[p] = "done" => response[p] # "open" /\ p \notin registered

\* A cancelled download stops transferring.
CancelStopsTransfer ==
  \A p \in PullIds :
    (p \in DOMAIN pull /\ pull[p].cancel) ~> (loader[p] = "done" /\ response[p] # "open")

=============================================================================
