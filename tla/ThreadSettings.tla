--------------------------- MODULE ThreadSettings ---------------------------
(***************************************************************************)
(* The settings that the index of the store keeps for a chat thread, and   *)
(* the requests that read and write them (_start_run and the _resolve      *)
(* functions in api_service.py, the thread operations of run_store.py).  A *)
(* thread that has run is locked to its model and temperature.  A start    *)
(* reads the thread three times, under no lock, and writes it when it      *)
(* enqueues the run; other requests rename, branch and delete threads      *)
(* meanwhile.                                                              *)
(*                                                                         *)
(* The gate of profiles is ProfileGate's, and deletes are requests of a    *)
(* profile without live runs.                                              *)
(***************************************************************************)
EXTENDS Integers, FiniteSets

CONSTANTS
  Starters,     \* the requests that start a run
  ChatModels,   \* chat models
  Heats,        \* temperatures that a client may ask for
  Names,        \* titles that clients give to threads
  Unset         \* no model, no temperature (the model's default), no title

ASSUME SettingsAssumption == Unset \notin ChatModels \cup Heats \cup Names

\* Thread "chat" is the one the requests are for; "copy" is branched from it.
SettingsThreads == {"chat", "copy"}

VARIABLES
  record,    \* the index' entry of each thread
  starter,   \* the requests
  enqueued   \* the model that the run of each request was enqueued with

settingsVars == <<record, starter, enqueued>>

\* ran: last_run_id is set.
NoRecord == [known |-> FALSE, model |-> Unset, heat |-> Unset, title |-> Unset, ran |-> FALSE]
NotAsked == [pc |-> "new", thread |-> "chat", compact |-> FALSE, model |-> Unset,
             heat |-> Unset, title |-> Unset, overtaken |-> FALSE]

SettingsInit ==
  /\ record = [t \in SettingsThreads |-> NoRecord]
  /\ starter = [s \in Starters |-> NotAsked]
  /\ enqueued = [s \in Starters |-> Unset]

StarterIs(s, pc) == starter[s].pc = pc
On(s) == record[starter[s].thread]
Resolving(s) == starter[s].pc \in {"model", "heat", "title", "enqueue"}

\* A thread's entry is written. overtaken, of a request that looks at the thread
\* meanwhile, is for the properties.
Written(t, entry) == record' = [record EXCEPT ![t] = entry]
Overtaken(t, others) ==
  [s \in Starters |-> IF Resolving(s) /\ starter[s].thread = t
                      THEN [others[s] EXCEPT !.overtaken = TRUE] ELSE others[s]]

-----------------------------------------------------------------------------
(* Starting a run *)

\* start_chat, and start_manual_compact of a thread that has run: it asks for
\* nothing.
AskStart(s, t) ==
  /\ StarterIs(s, "new") /\ (t = "copy" => record[t].known)
  /\ \E compact \in BOOLEAN, model \in ChatModels \cup {Unset}, heat \in Heats \cup {Unset},
        title \in Names \cup {Unset} :
       /\ compact => record[t].ran /\ {model, heat, title} = {Unset}
       /\ starter' = [starter EXCEPT ![s] =
            [pc |-> "model", thread |-> t, compact |-> compact, model |-> model,
             heat |-> heat, title |-> title, overtaken |-> FALSE]]
  /\ UNCHANGED <<record, enqueued>>

\* A request that was answered is forgotten.
StartAnswered(pc) == [NotAsked EXCEPT !.pc = pc]
RefuseStart(s) == starter' = [starter EXCEPT ![s] = StartAnswered("refused")]

\* _resolve_thread_model: the thread's model, or the one asked for.
\* (TakesAnyModel prefers the one asked for.)
TakesAnyModel(s) ==
  IF starter[s].model # Unset THEN {starter[s].model}
  ELSE {On(s).model} \ {Unset}
ModelOf(s) ==
  IF On(s).model = Unset THEN {starter[s].model} \ {Unset}
  ELSE IF starter[s].model \in {Unset, On(s).model} THEN {On(s).model}
  ELSE {}
ResolveModel(s) ==
  /\ StarterIs(s, "model")
  /\ \/ \E m \in ModelOf(s) :
          starter' = [starter EXCEPT ![s].model = m,
                                     ![s].pc = IF starter[s].compact THEN "title" ELSE "heat"]
     \/ ModelOf(s) = {} /\ RefuseStart(s)
  /\ UNCHANGED <<record, enqueued>>

\* _resolve_thread_temperature: that of a thread that has run, or the one asked for.
HeatOf(s) ==
  IF ~On(s).ran THEN {starter[s].heat}
  ELSE IF starter[s].heat \in {Unset, On(s).heat} THEN {On(s).heat}
  ELSE {}
ResolveHeat(s) ==
  /\ StarterIs(s, "heat")
  /\ \/ \E h \in HeatOf(s) : starter' = [starter EXCEPT ![s].heat = h, ![s].pc = "title"]
     \/ HeatOf(s) = {} /\ RefuseStart(s)
  /\ UNCHANGED <<record, enqueued>>

\* _resolve_thread_title: the thread's, or the one asked for.
ResolveTitle(s) ==
  /\ StarterIs(s, "title")
  /\ starter' = [starter EXCEPT
       ![s].title = IF On(s).title # Unset THEN On(s).title ELSE @, ![s].pc = "enqueue"]
  /\ UNCHANGED <<record, enqueued>>

\* create_run, in the critical section of _start_run: only a chat run touches the
\* thread's entry.
Entry(s) == [known |-> TRUE, model |-> starter[s].model, heat |-> starter[s].heat,
             title |-> starter[s].title, ran |-> TRUE]
Touch(s) == IF starter[s].compact THEN UNCHANGED record ELSE Written(starter[s].thread, Entry(s))
EnqueueSettings(s) ==
  /\ StarterIs(s, "enqueue")
  /\ Touch(s)
  /\ enqueued' = [enqueued EXCEPT ![s] = starter[s].model]
  /\ LET others == Overtaken(starter[s].thread, starter) IN
     starter' = [others EXCEPT ![s] = StartAnswered("enqueued")]

-----------------------------------------------------------------------------
(* Other requests *)

\* rename_thread: an entry is made if there is none.
RenameThread(t, title) ==
  /\ record[t].title # title
  /\ Written(t, [record[t] EXCEPT !.known = TRUE, !.title = title])
  /\ starter' = Overtaken(t, starter)
  /\ UNCHANGED enqueued

\* _branch_thread_data and _duplicate_thread_data: the copy has the model and the
\* temperature, and has not run; its title is a new one.
CopySettings ==
  /\ record["chat"].known /\ ~record["copy"].known
  /\ Written("copy", [record["chat"] EXCEPT !.ran = FALSE, !.title = Unset])
  /\ starter' = Overtaken("copy", starter)
  /\ UNCHANGED enqueued

\* delete_thread.
DeleteSettings(t) ==
  /\ record[t].known
  /\ Written(t, NoRecord)
  /\ starter' = Overtaken(t, starter)
  /\ UNCHANGED enqueued

SettingsNext ==
  \/ \E s \in Starters : \/ \E t \in SettingsThreads : AskStart(s, t)
                         \/ ResolveModel(s) \/ ResolveHeat(s) \/ ResolveTitle(s)
                         \/ EnqueueSettings(s)
  \/ \E t \in SettingsThreads : \/ \E title \in Names : RenameThread(t, title)
                                \/ DeleteSettings(t)
  \/ CopySettings

SettingsSpec == SettingsInit /\ [][SettingsNext]_settingsVars

-----------------------------------------------------------------------------
(* Properties *)

\* The types; and a thread that has run has a model, with which a run that is
\* started without a model can go on.
SettingsTypeOK ==
  /\ \A t \in SettingsThreads :
       /\ record[t].model \in ChatModels \cup {Unset} /\ record[t].heat \in Heats \cup {Unset}
       /\ record[t].ran => record[t].known /\ record[t].model # Unset
  /\ \A s \in Starters : StarterIs(s, "enqueued") => enqueued[s] \in ChatModels

\* A start that nobody overtakes runs its thread with the model that the thread is
\* locked to, and leaves the model, the temperature and the title as they are: only
\* one whose reads are stale by the time it enqueues undoes another's settings.
LockIsKept ==
  [][\A s \in Starters :
       LET old == On(s)
           new == record'[starter[s].thread] IN
       StarterIs(s, "enqueue") /\ starter'[s].pc = "enqueued" /\ ~starter[s].overtaken =>
         /\ old.model # Unset => enqueued'[s] = old.model
         /\ old.ran => new.model = old.model /\ new.heat = old.heat
         /\ old.title # Unset => new.title = old.title]_settingsVars

=============================================================================
