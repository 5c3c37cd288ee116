---------------------------- MODULE ProviderCalls ----------------------------
(***************************************************************************)
(* The requests of runs to the model, and how they are aborted (LLMProvider *)
(* and OpenAICompatibleChat in llm.py, their use in api_service.py): the    *)
(* worker executes one call at a time, through a client that the provider   *)
(* caches; a stop and the shutdown abort what the cached clients have open; *)
(* another thread counts tokens, and the context window may be changed.     *)
(*                                                                         *)
(* An action is one critical section (of _control_lock or of a client's    *)
(* lock), one change of the provider's caches, or one operation on a       *)
(* response.  A client of Ollama is closed for good by an abort; one of the *)
(* other providers only aborts the requests that it has begun.             *)
(***************************************************************************)
EXTENDS Integers, FiniteSets, Sequences

CONSTANTS
  CallCount,    \* calls are 1..CallCount, executed in this order
  Windows,      \* context windows that may be chosen
  MaxClients,   \* bound on the clients that are created (of the model)
  Aborters       \* who aborts: a subset of {"client", "shutdown"}

ASSUME CallsAssumption ==
  /\ CallCount \in Nat /\ MaxClients \in Nat
  /\ Windows \subseteq Nat \ {0} /\ Windows # {}
  /\ Aborters \subseteq {"client", "shutdown"}

Calls   == 1..CallCount
Clients == 1..MaxClients

VARIABLES
  ollama,     \* the provider is Ollama: chosen at the start
  active,     \* _active_run_id: the call being executed, or 0
  call,       \* each call: where it is, its client, its epoch, how it asks
  conn,       \* its response: "none", "open" or "closed"
  got,        \* the ways in which it yielded text
  cancelled,  \* _cancelled_runs
  stopping,   \* _shutdown_requested
  epochs,     \* each created client's _abort_epoch
  registry,   \* each client's _active_responses
  cached,     \* _chat_models: the cached clients
  window,     \* the context window
  windows,    \* the window that each client was created with
  counter,    \* the thread that counts tokens: the window it has read, or 0
  aborter      \* each aborting thread

provider == <<ollama, epochs, registry, cached, window, windows>>
callVars == <<active, call, conn, got, cancelled, stopping, provider, counter, aborter>>

NewCall == [pc |-> "idle", client |-> 0, epoch |-> 0, whole |-> FALSE]
Quiet == [pc |-> "idle", todo |-> {}, hit |-> {}]

CallsInit ==
  /\ ollama \in BOOLEAN
  /\ active = 0
  /\ call = [q \in Calls |-> NewCall]
  /\ conn = [q \in Calls |-> "none"]
  /\ got = [q \in Calls |-> {}]
  /\ cancelled = {} /\ stopping = FALSE
  /\ epochs = << >> /\ registry = << >> /\ windows = << >> /\ cached = {}
  /\ window = CHOOSE w \in Windows : TRUE
  /\ counter = 0
  /\ aborter = [k \in Aborters |-> Quiet]

\* A client's stop holds _control_lock while it aborts.
ControlFree == "client" \in Aborters => aborter["client"].pc # "abort"
CallAt(q, pc) == call[q].pc = pc
CallGoes(q, pc) == call' = [call EXCEPT ![q].pc = pc]
Over(q) == CallAt(q, "done")
Begun(q) == call[q].pc \in {"open", "register", "read", "consume", "again", "answer"}
Aborted(q) == epochs[call[q].client] # call[q].epoch

-----------------------------------------------------------------------------
(* The provider's cache *)

\* chat: the cached client of this window, or a new one.
NewClient(w) ==
  /\ Len(epochs) < MaxClients /\ UNCHANGED ollama
  /\ epochs' = Append(epochs, 0)
  /\ registry' = Append(registry, {})
  /\ windows' = Append(windows, w)
  /\ cached' = cached \cup {Len(epochs) + 1}
Keyed(w) == {c \in cached : windows[c] = w}
Chat(w, c) ==
  \/ c \in Keyed(w) /\ UNCHANGED <<ollama, epochs, registry, windows, cached>>
  \/ Keyed(w) = {} /\ NewClient(w) /\ c = Len(epochs) + 1

\* count_message_tokens of Ollama, for a client that looks at a thread: it reads the
\* window and stores its client later, under no lock.
CountReads ==
  /\ ollama /\ counter = 0
  /\ counter' = window
  /\ UNCHANGED <<active, call, conn, got, cancelled, stopping, provider, aborter>>
CountChats ==
  /\ counter \in Windows
  /\ counter' = 0
  /\ \E c \in Clients : Chat(counter, c)
  /\ UNCHANGED <<active, call, conn, got, cancelled, stopping, window, aborter>>

\* set_ollama_context_window, of an idle service. The caches are closed and
\* cleared. (SetWindowAnytime does not ask whether a run is active.)
SetWindowAnytime(w) ==
  /\ ControlFree /\ ollama /\ w # window
  /\ window' = w
  /\ epochs' = [c \in DOMAIN epochs |-> IF c \in cached THEN epochs[c] + 1 ELSE epochs[c]]
  /\ cached' = {}
  /\ UNCHANGED <<active, call, conn, got, cancelled, stopping, ollama, registry, windows,
                 counter, aborter>>
SetWindow(w) == active = 0 /\ SetWindowAnytime(w)

-----------------------------------------------------------------------------
(* A call: _stream_answer and OpenAICompatibleChat.stream *)

\* The worker takes the next run, unless the service is shutting down.
TakeCall(q) ==
  /\ ControlFree /\ ~stopping /\ active = 0
  /\ CallAt(q, "idle") /\ \A p \in 1..(q - 1) : Over(p)
  /\ active' = q
  /\ CallGoes(q, "check")
  /\ UNCHANGED <<conn, got, cancelled, stopping, provider, counter, aborter>>

\* _raise_if_cancelled, before the request and after every piece of text.
CheckCancelled(q) ==
  /\ ControlFree /\ call[q].pc \in {"check", "consume"}
  /\ CallGoes(q, IF q \in cancelled THEN "leave" ELSE
                 IF CallAt(q, "check") THEN "fetch" ELSE
                 IF call[q].whole THEN "leave" ELSE "read")
  /\ UNCHANGED <<active, conn, got, cancelled, stopping, provider, counter, aborter>>

FetchClient(q) ==
  /\ CallAt(q, "fetch")
  /\ \E c \in Clients :
       /\ Chat(window, c)
       /\ call' = [call EXCEPT ![q].pc = "begin", ![q].client = c]
  /\ UNCHANGED <<active, conn, got, cancelled, stopping, window, counter, aborter>>

\* The epoch is read when the request begins. A closed client of Ollama is one
\* whose epoch has moved since it was created.
BeginCall(q) ==
  /\ CallAt(q, "begin")
  /\ call' = [call EXCEPT ![q].pc = "open",
                          ![q].epoch = IF ollama THEN 0 ELSE epochs[call[q].client]]
  /\ UNCHANGED <<active, conn, got, cancelled, stopping, provider, counter, aborter>>

\* A stream that gave no text, or is no stream, may be asked for again as a whole;
\* one that gave some may not. (AsksAgain does.)
AsksAgain(q) == ~ollama /\ ~call[q].whole
MayAskAgain(q) == AsksAgain(q) /\ got[q] = {}

\* The request is answered, refused because the server does not stream, or fails.
OpenCall(q) ==
  /\ CallAt(q, "open")
  /\ \/ CallGoes(q, "register") /\ conn' = [conn EXCEPT ![q] = "open"]
     \/ MayAskAgain(q) /\ CallGoes(q, "again") /\ UNCHANGED conn
     \/ CallGoes(q, "leave") /\ UNCHANGED conn
  /\ UNCHANGED <<active, got, cancelled, stopping, provider, counter, aborter>>

\* _register_active_response_at_epoch: a response that opened after the abort is
\* closed. (RegisterUnchecked does not compare the epochs.)
Enters(q) == registry' = [registry EXCEPT ![call[q].client] = @ \cup {q}]
RegisterUnchecked(q) ==
  /\ CallAt(q, "register") /\ Enters(q) /\ CallGoes(q, "read")
  /\ UNCHANGED <<active, conn, got, cancelled, stopping, ollama, epochs, cached, window,
                 windows, counter, aborter>>
RegisterCall(q) ==
  /\ CallAt(q, "register")
  /\ IF Aborted(q)
     THEN CallGoes(q, "leave") /\ conn' = [conn EXCEPT ![q] = "closed"] /\ UNCHANGED registry
     ELSE CallGoes(q, "read") /\ Enters(q) /\ UNCHANGED conn
  /\ UNCHANGED <<active, got, cancelled, stopping, ollama, epochs, cached, window, windows,
                 counter, aborter>>

\* A piece of text arrives, or the whole answer: it is yielded unless the request
\* was aborted.
Yield(q) ==
  /\ \/ CallAt(q, "read") /\ conn[q] = "open" /\ ~call[q].whole
     \/ CallAt(q, "answer")
  /\ IF Aborted(q) THEN CallGoes(q, "leave") /\ UNCHANGED got
     ELSE /\ CallGoes(q, "consume")
          /\ got' = [got EXCEPT ![q] = @ \cup {IF call[q].whole THEN "whole" ELSE "stream"}]
  /\ UNCHANGED <<active, conn, cancelled, stopping, provider, counter, aborter>>

\* The response is taken out of the registry and closed.
Unregister(q) ==
  /\ registry' = [registry EXCEPT ![call[q].client] = @ \ {q}]
  /\ conn' = [conn EXCEPT ![q] = "closed"]

\* The response ends or breaks.
EndOfResponse(q) ==
  /\ CallAt(q, "read")
  /\ Unregister(q)
  /\ \/ CallGoes(q, "leave")
     \/ MayAskAgain(q) /\ CallGoes(q, "again")
     \/ call[q].whole /\ CallGoes(q, "answer")
  /\ UNCHANGED <<active, got, cancelled, stopping, ollama, epochs, cached, window, windows,
                 counter, aborter>>

\* _invoke_at_epoch, with the epoch of the stream.
AskAgain(q) ==
  /\ CallAt(q, "again")
  /\ IF Aborted(q) THEN CallGoes(q, "leave")
     ELSE call' = [call EXCEPT ![q].pc = "open", ![q].whole = TRUE]
  /\ UNCHANGED <<active, conn, got, cancelled, stopping, provider, counter, aborter>>

\* The generator is left, which closes what is open, and the run ends: what was kept
\* of it is forgotten.
LeaveCall(q) ==
  /\ ControlFree /\ CallAt(q, "leave")
  /\ call' = [call EXCEPT ![q] = [NewCall EXCEPT !.pc = "done"]]
  /\ got' = [got EXCEPT ![q] = {}]
  /\ active' = 0
  /\ IF conn[q] = "none" THEN UNCHANGED <<registry, conn>> ELSE Unregister(q)
  /\ UNCHANGED <<cancelled, stopping, ollama, epochs, cached, window, windows, counter, aborter>>

-----------------------------------------------------------------------------
(* Aborting: cancel_run, begin_shutdown, abort_active_requests *)

AborterAt(k, pc) == aborter[k].pc = pc

\* A client's stop claims the active run, and aborts if it is still active by
\* then. (StopAnyway does not check.)
ClaimStop(q) ==
  /\ "client" \in Aborters /\ ControlFree
  /\ cancelled = {} /\ active = q
  /\ cancelled' = {q}
  /\ UNCHANGED <<active, call, conn, got, stopping, provider, counter, aborter>>
StopAnyway(q) ==
  /\ "client" \in Aborters /\ AborterAt("client", "idle") /\ q \in cancelled
  /\ aborter' = [aborter EXCEPT !["client"] = [Quiet EXCEPT !.pc = "abort", !.todo = cached]]
  /\ UNCHANGED <<active, call, conn, got, cancelled, stopping, provider, counter>>
StopCall(q) == active = q /\ StopAnyway(q)

\* The shutdown cancels the active run, and aborts without the lock.
ShutDownCalls ==
  /\ "shutdown" \in Aborters /\ ControlFree /\ ~stopping
  /\ stopping' = TRUE
  /\ cancelled' = cancelled \cup ({active} \ {0})
  /\ aborter' = IF active = 0 THEN aborter
               ELSE [aborter EXCEPT !["shutdown"] = [Quiet EXCEPT !.pc = "abort", !.todo = cached]]
  /\ UNCHANGED <<active, call, conn, got, provider, counter>>

\* OpenAICompatibleChat.abort of one client: the epoch and the list of what is
\* open, then the closing, outside of the client's lock.
AbortClient(k, c) ==
  /\ AborterAt(k, "abort") /\ aborter[k].hit = {} /\ c \in aborter[k].todo
  /\ epochs' = [epochs EXCEPT ![c] = @ + 1]
  /\ aborter' = [aborter EXCEPT ![k].todo = @ \ {c}, ![k].hit = registry[c]]
  /\ UNCHANGED <<active, call, conn, got, cancelled, stopping, ollama, registry, cached, window,
                 windows, counter>>
CloseHit(k, q) ==
  /\ AborterAt(k, "abort") /\ q \in aborter[k].hit
  /\ conn' = [conn EXCEPT ![q] = "closed"]
  /\ aborter' = [aborter EXCEPT ![k].hit = @ \ {q}]
  /\ UNCHANGED <<active, call, got, cancelled, stopping, provider, counter>>
ClearCache(k) ==
  /\ AborterAt(k, "abort") /\ aborter[k].todo = {} /\ aborter[k].hit = {}
  /\ cached' = {}
  /\ aborter' = [aborter EXCEPT ![k].pc = "done"]
  /\ UNCHANGED <<active, call, conn, got, cancelled, stopping, ollama, epochs, registry, window,
                 windows, counter>>

Aborting(k) ==
  \/ \E c \in Clients : AbortClient(k, c)
  \/ \E q \in Calls : CloseHit(k, q)
  \/ ClearCache(k)

Calling(q) ==
  \/ TakeCall(q) \/ CheckCancelled(q) \/ FetchClient(q) \/ BeginCall(q) \/ OpenCall(q)
  \/ RegisterCall(q) \/ Yield(q) \/ EndOfResponse(q) \/ AskAgain(q) \/ LeaveCall(q)

CallsNext ==
  \/ \E q \in Calls : Calling(q) \/ ClaimStop(q) \/ StopCall(q)
  \/ \E k \in Aborters : Aborting(k)
  \/ \E w \in Windows : SetWindow(w)
  \/ ShutDownCalls \/ CountReads \/ CountChats

CallsSpec == CallsInit /\ [][CallsNext]_callVars

-----------------------------------------------------------------------------
(* Properties *)

\* The types; what a client keeps registered is a request that reads from it now.
CallsTypeOK ==
  /\ active \in {0} \cup Calls /\ cancelled \subseteq Calls
  /\ \A q \in Calls :
       /\ call[q].client \in {0} \cup DOMAIN epochs
       /\ call[q].epoch \in Nat /\ call[q].whole \in BOOLEAN
       /\ CallAt(q, "idle") \/ Over(q) \/ active = q
       /\ conn[q] \in {"none", "open", "closed"}
  /\ cached \subseteq DOMAIN epochs /\ counter \in Windows \cup {0}
  /\ \A c \in DOMAIN registry : \A q \in registry[c] :
       call[q].client = c /\ call[q].pc \in {"read", "consume", "leave"}

\* An answer is streamed or given as a whole, never both: the second request that
\* stream() may make would append a second answer to the text already shown.
OneAnswer == \A q \in Calls : got[q] # {"stream", "whole"}

\* When no abort is in progress, no request that began before the last one reads
\* from an open response, however the abort met it: before it was sent, between
\* its answer and its registration, or while it was read.
AbortReachesAll ==
  (\A k \in Aborters : ~AborterAt(k, "abort")) =>
    \A q \in Calls :
      call[q].pc \in {"read", "consume"} /\ conn[q] = "open" => ~Aborted(q)

\* Nobody disturbs the request of a run that was not stopped: a stop that comes
\* late does not abort the next run's request, and neither does a change of the
\* context window.
AbortsOnlyStopped ==
  [][\A q \in Calls \ cancelled :
       Begun(q) => epochs'[call[q].client] = epochs[call[q].client]]_callVars

\* A run's request uses the context window that is chosen, even if the thread that
\* counts tokens puts a client of the previous window into the cache.
UsesChosenWindow ==
  \A q \in Calls : Begun(q) => windows[call[q].client] = window

\* What a call may rely on.
CallsAreSound == CallsTypeOK /\ OneAnswer /\ AbortReachesAll /\ UsesChosenWindow

=============================================================================
