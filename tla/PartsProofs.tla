----------------------------- MODULE PartsProofs -----------------------------
(***************************************************************************)
(* Proofs about parts of the backend that share no state: the calls of the *)
(* model (ProviderCalls), the settings of threads (ThreadSettings), the    *)
(* image of windowed programs (GuiRuntime), the downloads of models        *)
(* (ModelPulls), the storage key (StorageKey), the migration of the store  *)
(* (StoreMigration) and the compaction of threads (Compaction).            *)
(***************************************************************************)
EXTENDS Parts, SumLemmas, FiniteSetTheorems, TLAPS

(* The calls of the model. *)

CallPcs == {"idle", "check", "fetch", "begin", "open", "register", "read", "consume",
            "again", "answer", "leave", "done"}

\* The types of the variables.
CallsTyped ==
  /\ ollama \in BOOLEAN /\ stopping \in BOOLEAN
  /\ active \in {0} \cup Calls /\ cancelled \subseteq Calls
  /\ call \in [Calls -> [pc : CallPcs, client : Nat, epoch : Nat, whole : BOOLEAN]]
  /\ conn \in [Calls -> {"none", "open", "closed"}]
  /\ got \in [Calls -> SUBSET {"stream", "whole"}]
  /\ epochs \in Seq(Nat) /\ registry \in Seq(SUBSET Calls) /\ windows \in Seq(Windows)
  /\ Len(registry) = Len(epochs) /\ Len(windows) = Len(epochs)
  /\ cached \subseteq DOMAIN epochs /\ window \in Windows /\ counter \in Windows \cup {0}
  /\ aborter \in [Aborters -> [pc : {"idle", "abort", "done"}, todo : SUBSET DOMAIN epochs,
                               hit : SUBSET Calls]]

Before == {"idle", "check", "fetch", "begin"}

\* What a call has, by where it is. Only the active one is under way; it has a client
\* of the chosen window once it has one, and whether it asks for the whole answer
\* decides what it may have yielded.
CallFits(q) ==
  /\ call[q].pc \notin {"idle", "done"} <=> active = q
  /\ call[q].client \in {0} \cup DOMAIN epochs
  /\ call[q].pc \in Before => conn[q] = "none" /\ ~call[q].whole
  /\ call[q].pc \in {"done"} \cup Before => got[q] = {}
  /\ call[q].pc \in {"begin", "open", "register", "read", "consume", "again", "answer"} =>
       call[q].client # 0 /\ windows[call[q].client] = window
  /\ conn[q] # "none" /\ ~Over(q) => call[q].client # 0
  /\ CallAt(q, "register") => conn[q] # "none"
  /\ CallAt(q, "answer") => conn[q] = "closed"
  /\ call[q].whole => got[q] \subseteq {"whole"}
  /\ ~call[q].whole => got[q] \subseteq {"stream"}
  /\ CallAt(q, "again") => got[q] = {}

\* A response that a call reads from is registered; if the call was aborted since it
\* began, an aborter is about to close the response.
ResponseFits(q) ==
  /\ \A c \in DOMAIN registry : q \in registry[c] =>
       call[q].client = c /\ call[q].pc \in {"read", "consume", "leave"} /\ conn[q] # "none"
  /\ call[q].pc \in {"read", "consume"} /\ conn[q] = "open" =>
       /\ q \in registry[call[q].client]
       /\ Aborted(q) => \E k \in Aborters : q \in aborter[k].hit

\* An abort is of the active call, and that one is cancelled: a client's stop keeps the
\* worker from going on, and a shutdown from taking another call.
AborterFits(k) ==
  /\ aborter[k].hit # {} => AborterAt(k, "abort")
  /\ \A q \in aborter[k].hit : conn[q] # "none"
  /\ k = "client" /\ AborterAt(k, "abort") => active \in cancelled
  /\ k = "shutdown" /\ ~AborterAt(k, "idle") => stopping

CallsInductive ==
  /\ CallsTyped
  /\ \A q \in Calls : CallFits(q) /\ ResponseFits(q)
  /\ \A k \in Aborters : AborterFits(k)
  /\ stopping => active \in cancelled \cup {0}

\* A cached client is taken, or a new one is made: no other client changes.
LEMMA ChatKeeps ==
  ASSUME CallsTyped, NEW w \in Windows, NEW c \in Clients, Chat(w, c)
  PROVE  /\ epochs' \in Seq(Nat) /\ registry' \in Seq(SUBSET Calls) /\ windows' \in Seq(Windows)
         /\ Len(registry') = Len(epochs') /\ Len(windows') = Len(epochs')
         /\ cached' \subseteq DOMAIN epochs' /\ DOMAIN epochs \subseteq DOMAIN epochs'
         /\ c \in DOMAIN epochs' /\ windows'[c] = w
         /\ \A d \in DOMAIN epochs : /\ epochs'[d] = epochs[d] /\ windows'[d] = windows[d]
                                     /\ registry'[d] = registry[d]
         /\ \A d \in DOMAIN registry' \ DOMAIN registry : registry'[d] = {}
         /\ UNCHANGED ollama
<1>0. /\ epochs \in Seq(Nat) /\ registry \in Seq(SUBSET Calls) /\ windows \in Seq(Windows)
      /\ Len(registry) = Len(epochs) /\ Len(windows) = Len(epochs) /\ Len(epochs) \in Nat
      /\ cached \subseteq DOMAIN epochs /\ DOMAIN epochs = 1..Len(epochs)
      /\ DOMAIN registry = 1..Len(epochs) /\ DOMAIN windows = 1..Len(epochs)
  BY DEF CallsTyped
<1>1. CASE c \in Keyed(w) /\ UNCHANGED <<ollama, epochs, registry, windows, cached>>
  BY <1>0, <1>1 DEF Keyed
<1>2. CASE NewClient(w) /\ c = Len(epochs) + 1
  <2>1. /\ epochs' = Append(epochs, 0) /\ registry' = Append(registry, {})
        /\ windows' = Append(windows, w) /\ cached' = cached \cup {c} /\ UNCHANGED ollama
    BY <1>2 DEF NewClient
  <2>2. /\ epochs' \in Seq(Nat) /\ Len(epochs') = Len(epochs) + 1 /\ epochs'[c] = 0
        /\ \A d \in 1..Len(epochs) : epochs'[d] = epochs[d]
    BY <1>0, <1>2, <2>1
  <2>3. {} \in SUBSET Calls
    OBVIOUS
  <2>4. /\ registry' \in Seq(SUBSET Calls) /\ Len(registry') = Len(epochs) + 1 /\ registry'[c] = {}
        /\ \A d \in 1..Len(epochs) : registry'[d] = registry[d]
    BY <1>0, <1>2, <2>1, <2>3, AppendProperties
  <2>5. /\ windows' \in Seq(Windows) /\ Len(windows') = Len(epochs) + 1 /\ windows'[c] = w
        /\ \A d \in 1..Len(epochs) : windows'[d] = windows[d]
    BY <1>0, <1>2, <2>1
  <2>6. DOMAIN epochs' = 1..(Len(epochs) + 1) /\ DOMAIN registry' = 1..(Len(epochs) + 1)
    BY <2>2, <2>4
  <2> QED BY <1>0, <1>2, <2>1, <2>2, <2>4, <2>5, <2>6
<1> QED BY <1>1, <1>2 DEF Chat

\* Nothing is said of a call that is not under way but that it is not under way.
LEMMA CallRests ==
  ASSUME CallsTyped, NEW r \in Calls, CallFits(r), ResponseFits(r), active # r, active' # r,
         call'[r] = call[r], conn'[r] = conn[r], got'[r] = got[r],
         DOMAIN epochs \subseteq DOMAIN epochs',
         \A c \in DOMAIN registry' : r \in registry'[c] => c \in DOMAIN registry /\ r \in registry[c]
  PROVE  CallFits(r)' /\ ResponseFits(r)'
<1>1. call[r].pc \in {"idle", "done"}
  BY DEF CallFits
<1>2. CallFits(r)'
  BY <1>1 DEF CallFits, Before, CallAt, Over
<1>3. ResponseFits(r)'
  BY <1>1 DEF ResponseFits
<1> QED BY <1>2, <1>3

\* A step of the call that is under way, or taken: the other calls rest, and the
\* aborters go on as they were.
LEMMA CallStep ==
  ASSUME CallsInductive, NEW q \in Calls, active \in {0, q}, active' \in {0, q},
         NEW rec \in [pc : CallPcs, client : Nat, epoch : Nat, whole : BOOLEAN],
         call' = [call EXCEPT ![q] = rec],
         conn' \in [Calls -> {"none", "open", "closed"}],
         got' \in [Calls -> SUBSET {"stream", "whole"}],
         \A r \in Calls \ {q} : conn'[r] = conn[r] /\ got'[r] = got[r],
         conn[q] # "none" => conn'[q] # "none",
         epochs' \in Seq(Nat), registry' \in Seq(SUBSET Calls), windows' \in Seq(Windows),
         Len(registry') = Len(epochs'), Len(windows') = Len(epochs'),
         cached' \subseteq DOMAIN epochs', DOMAIN epochs \subseteq DOMAIN epochs',
         \A r \in Calls \ {q}, c \in DOMAIN registry' :
            r \in registry'[c] => c \in DOMAIN registry /\ r \in registry[c],
         (\A k \in Aborters : k = "client" => ~AborterAt(k, "abort")) \/ active' = active,
         stopping => active' = active \/ active' = 0,
         CallFits(q)', ResponseFits(q)',
         UNCHANGED <<cancelled, stopping, ollama, window, counter, aborter>>
  PROVE  CallsInductive'
<1>1. CallsTyped
  BY DEF CallsInductive
<1>2. CallsTyped'
  BY <1>1 DEF CallsTyped
<1>3. ASSUME NEW r \in Calls
      PROVE  CallFits(r)' /\ ResponseFits(r)'
  <2>1. CASE r = q
    BY <2>1
  <2>2. CASE r # q
    <3>1. CallFits(r) /\ ResponseFits(r)
      BY DEF CallsInductive
    <3>2. active # r /\ active' # r
      BY <2>2 DEF Calls, CallsAssumption
    <3>3. call'[r] = call[r]
      BY <1>1, <2>2 DEF CallsTyped
    <3> QED BY <1>1, <2>2, <3>1, <3>2, <3>3, CallRests
  <2> QED BY <2>1, <2>2
<1>4. ASSUME NEW k \in Aborters
      PROVE  AborterFits(k)'
  <2>1. AborterFits(k) /\ aborter[k].hit \subseteq Calls
    BY <1>1 DEF CallsInductive, CallsTyped
  <2>2. \A r \in aborter[k].hit : conn'[r] # "none"
    BY <2>1 DEF AborterFits
  <2> QED BY <2>1, <2>2 DEF AborterFits, AborterAt
<1>5. stopping' => active' \in cancelled' \cup {0}
  BY DEF CallsInductive
<1> QED BY <1>2, <1>3, <1>4, <1>5 DEF CallsInductive

\* What holds of a call that is under way.
LEMMA CallIsUnderWay ==
  ASSUME CallsInductive, NEW q \in Calls, call[q].pc \notin {"idle", "done"}
  PROVE  /\ active = q /\ CallFits(q) /\ ResponseFits(q) /\ CallsTyped
         /\ call[q] \in [pc : CallPcs, client : Nat, epoch : Nat, whole : BOOLEAN]
         /\ conn[q] \in {"none", "open", "closed"} /\ got[q] \subseteq {"stream", "whole"}
BY DEF CallsInductive, CallFits, CallsTyped

LEMMA TakeCallStep ==
  ASSUME CallsInductive, NEW q \in Calls, TakeCall(q)
  PROVE  CallsInductive'
<1>1. /\ CallsTyped /\ CallFits(q) /\ ResponseFits(q)
      /\ call[q].pc = "idle" /\ active = 0 /\ active' = q /\ ~stopping /\ ControlFree
      /\ UNCHANGED <<conn, got, cancelled, stopping, provider, counter, aborter>>
  BY DEF TakeCall, CallAt, CallsInductive
<1>2. PICK rec : rec = [call[q] EXCEPT !.pc = "check"]
  OBVIOUS
<1>3. /\ call' = [call EXCEPT ![q] = rec] /\ rec.pc = "check" /\ rec.client = call[q].client
      /\ rec.whole = call[q].whole /\ call'[q] = rec
      /\ rec \in [pc : CallPcs, client : Nat, epoch : Nat, whole : BOOLEAN]
  BY <1>1, <1>2, ZenonT(60) DEF TakeCall, CallGoes, CallsTyped, CallPcs
<1>4. CallFits(q)'
  BY <1>1, <1>3 DEF CallFits, Before, CallAt, Over, provider
<1>5. ResponseFits(q)'
  BY <1>1, <1>3 DEF ResponseFits, provider
<1>6. \A k \in Aborters : k = "client" => ~AborterAt(k, "abort")
  BY <1>1 DEF ControlFree, AborterAt
<1> QED BY <1>1, <1>3, <1>4, <1>5, <1>6, CallStep DEF CallsTyped, provider

LEMMA CheckCancelledStep ==
  ASSUME CallsInductive, NEW q \in Calls, CheckCancelled(q)
  PROVE  CallsInductive'
<1>1. /\ CallsTyped /\ CallFits(q) /\ ResponseFits(q) /\ active = q /\ active' = q
      /\ call[q].pc \in {"check", "consume"}
      /\ UNCHANGED <<active, conn, got, cancelled, stopping, provider, counter, aborter>>
  BY CallIsUnderWay DEF CheckCancelled
<1>2. PICK pc \in {"leave", "fetch", "read"} :
        /\ call' = [call EXCEPT ![q].pc = pc]
        /\ pc = "fetch" => call[q].pc = "check"
        /\ pc = "read" => call[q].pc = "consume" /\ ~call[q].whole
  BY <1>1 DEF CheckCancelled, CallGoes, CallAt
<1>3. PICK rec : rec = [call[q] EXCEPT !.pc = pc]
  OBVIOUS
<1>4. /\ call' = [call EXCEPT ![q] = rec] /\ rec.pc = pc /\ rec.client = call[q].client
      /\ rec.whole = call[q].whole /\ rec.epoch = call[q].epoch /\ call'[q] = rec
      /\ rec \in [pc : CallPcs, client : Nat, epoch : Nat, whole : BOOLEAN]
  BY <1>1, <1>2, <1>3, ZenonT(60) DEF CallsTyped, CallPcs
<1>5. CallFits(q)'
  BY <1>1, <1>2, <1>4 DEF CallFits, Before, CallAt, Over, provider
<1>6. ResponseFits(q)'
  BY <1>1, <1>2, <1>4 DEF ResponseFits, provider, Aborted
<1> QED BY <1>1, <1>4, <1>5, <1>6, CallStep DEF CallsTyped, provider

LEMMA FetchClientStep ==
  ASSUME CallsInductive, NEW q \in Calls, FetchClient(q)
  PROVE  CallsInductive'
<1>1. /\ CallsTyped /\ CallFits(q) /\ ResponseFits(q) /\ active = q /\ call[q].pc = "fetch"
      /\ UNCHANGED <<active, conn, got, cancelled, stopping, window, counter, aborter>>
  BY CallIsUnderWay DEF FetchClient, CallAt
<1>2. PICK c \in Clients :
        Chat(window, c) /\ call' = [call EXCEPT ![q].pc = "begin", ![q].client = c]
  BY DEF FetchClient
<1>3. /\ epochs' \in Seq(Nat) /\ registry' \in Seq(SUBSET Calls) /\ windows' \in Seq(Windows)
      /\ Len(registry') = Len(epochs') /\ Len(windows') = Len(epochs')
      /\ cached' \subseteq DOMAIN epochs' /\ DOMAIN epochs \subseteq DOMAIN epochs'
      /\ c \in DOMAIN epochs' /\ windows'[c] = window
      /\ \A d \in DOMAIN epochs : /\ epochs'[d] = epochs[d] /\ windows'[d] = windows[d]
                                  /\ registry'[d] = registry[d]
      /\ \A d \in DOMAIN registry' \ DOMAIN registry : registry'[d] = {}
      /\ UNCHANGED ollama
  BY <1>1, <1>2, ChatKeeps DEF CallsTyped
<1>4. DOMAIN registry = DOMAIN epochs
  BY <1>1 DEF CallsTyped
<1>5. \A d \in DOMAIN registry' : \A r \in registry'[d] : d \in DOMAIN registry /\ r \in registry[d]
  BY <1>3, <1>4
<1>6. c \in Nat /\ c # 0
  BY CallsAssumption DEF Clients
<1>7. PICK rec : rec = [call[q] EXCEPT !.pc = "begin", !.client = c]
  OBVIOUS
<1>8. /\ call' = [call EXCEPT ![q] = rec] /\ rec.pc = "begin" /\ rec.client = c
      /\ rec.whole = call[q].whole /\ rec.epoch = call[q].epoch /\ call'[q] = rec
      /\ rec \in [pc : CallPcs, client : Nat, epoch : Nat, whole : BOOLEAN]
  <2>1. call[q] \in [pc : CallPcs, client : Nat, epoch : Nat, whole : BOOLEAN]
    BY <1>1 DEF CallsTyped
  <2>2. call' = [call EXCEPT ![q] = rec]
    BY <1>2, <1>6, <1>7 DEF FetchClient
  <2>3. call'[q] = rec
    BY <1>1, <2>2 DEF CallsTyped
  <2> QED BY <1>2, <1>6, <1>7, <2>1, <2>2, <2>3 DEF CallPcs
<1>9. CallFits(q)'
  BY <1>1, <1>3, <1>6, <1>8 DEF CallFits, Before, CallAt, Over
<1>10. ResponseFits(q)'
  BY <1>1, <1>5, <1>8 DEF ResponseFits
<1> QED BY <1>1, <1>3, <1>5, <1>8, <1>9, <1>10, CallStep DEF CallsTyped

LEMMA BeginCallStep ==
  ASSUME CallsInductive, NEW q \in Calls, BeginCall(q)
  PROVE  CallsInductive'
<1>1. /\ CallsTyped /\ CallFits(q) /\ ResponseFits(q) /\ active = q /\ call[q].pc = "begin"
      /\ UNCHANGED <<active, conn, got, cancelled, stopping, provider, counter, aborter>>
  BY CallIsUnderWay DEF BeginCall, CallAt
<1>2. PICK e : e = IF ollama THEN 0 ELSE epochs[call[q].client]
  OBVIOUS
<1>3. e \in Nat
  <2>1. call[q].client \in DOMAIN epochs
    BY <1>1 DEF CallFits
  <2>2. epochs[call[q].client] \in Nat
    BY <1>1, <2>1 DEF CallsTyped
  <2> QED BY <1>2, <2>2
<1>4. PICK rec : rec = [call[q] EXCEPT !.pc = "open", !.epoch = e]
  OBVIOUS
<1>5. /\ call' = [call EXCEPT ![q] = rec] /\ rec.pc = "open" /\ rec.client = call[q].client
      /\ rec.whole = call[q].whole /\ call'[q] = rec
      /\ rec \in [pc : CallPcs, client : Nat, epoch : Nat, whole : BOOLEAN]
  <2>1. call[q] \in [pc : CallPcs, client : Nat, epoch : Nat, whole : BOOLEAN]
    BY <1>1 DEF CallsTyped
  <2>2. call' = [call EXCEPT ![q] = rec]
    BY <1>2, <1>3, <1>4 DEF BeginCall
  <2>3. call'[q] = rec
    BY <1>1, <2>2 DEF CallsTyped
  <2> QED BY <1>2, <1>3, <1>4, <2>1, <2>2, <2>3 DEF CallPcs
<1>6. CallFits(q)'
  BY <1>1, <1>5 DEF CallFits, Before, CallAt, Over, provider
<1>7. ResponseFits(q)'
  BY <1>1, <1>5 DEF ResponseFits, provider
<1> QED BY <1>1, <1>5, <1>6, <1>7, CallStep DEF CallsTyped, provider

LEMMA OpenCallStep ==
  ASSUME CallsInductive, NEW q \in Calls, OpenCall(q)
  PROVE  CallsInductive'
<1>1. /\ CallsTyped /\ CallFits(q) /\ ResponseFits(q) /\ active = q /\ call[q].pc = "open"
      /\ UNCHANGED <<active, got, cancelled, stopping, provider, counter, aborter>>
  BY CallIsUnderWay DEF OpenCall, CallAt
<1>2. PICK pc \in {"register", "again", "leave"} :
        /\ call' = [call EXCEPT ![q].pc = pc]
        /\ pc = "again" => MayAskAgain(q)
        /\ IF pc = "register" THEN conn' = [conn EXCEPT ![q] = "open"] ELSE UNCHANGED conn
  BY <1>1 DEF OpenCall, CallGoes
<1>3. PICK rec : rec = [call[q] EXCEPT !.pc = pc]
  OBVIOUS
<1>4. /\ call' = [call EXCEPT ![q] = rec] /\ rec.pc = pc /\ rec.client = call[q].client
      /\ rec.whole = call[q].whole /\ call'[q] = rec
      /\ rec \in [pc : CallPcs, client : Nat, epoch : Nat, whole : BOOLEAN]
  BY <1>1, <1>2, <1>3, ZenonT(60) DEF CallsTyped, CallPcs
<1>5. /\ conn' \in [Calls -> {"none", "open", "closed"}]
      /\ \A r \in Calls \ {q} : conn'[r] = conn[r]
      /\ conn[q] # "none" => conn'[q] # "none"
      /\ pc = "register" => conn'[q] # "none"
      /\ pc # "register" => conn' = conn
  BY <1>1, <1>2 DEF CallsTyped
<1>6. CallFits(q)'
  BY <1>1, <1>2, <1>4, <1>5 DEF CallFits, Before, CallAt, Over, provider, MayAskAgain, AsksAgain
<1>7. ResponseFits(q)'
  BY <1>1, <1>2, <1>4, <1>5 DEF ResponseFits, provider
<1> QED BY <1>1, <1>4, <1>5, <1>6, <1>7, CallStep DEF CallsTyped, provider

LEMMA RegisterCallStep ==
  ASSUME CallsInductive, NEW q \in Calls, RegisterCall(q)
  PROVE  CallsInductive'
<1>1. /\ CallsTyped /\ CallFits(q) /\ ResponseFits(q) /\ active = q /\ call[q].pc = "register"
      /\ UNCHANGED <<active, got, cancelled, stopping, ollama, epochs, cached, window, windows,
                     counter, aborter>>
  BY CallIsUnderWay DEF RegisterCall, CallAt
<1>2. PICK pc : pc = IF Aborted(q) THEN "leave" ELSE "read"
  OBVIOUS
<1>3. PICK rec : rec = [call[q] EXCEPT !.pc = pc]
  OBVIOUS
<1>4. /\ call' = [call EXCEPT ![q] = rec] /\ rec.pc = pc /\ rec.client = call[q].client
      /\ rec.whole = call[q].whole /\ rec.epoch = call[q].epoch /\ call'[q] = rec
      /\ rec \in [pc : CallPcs, client : Nat, epoch : Nat, whole : BOOLEAN]
  <2>1. call[q] \in [pc : CallPcs, client : Nat, epoch : Nat, whole : BOOLEAN]
    BY <1>1 DEF CallsTyped
  <2>2. call' = [call EXCEPT ![q] = rec]
    BY <1>2, <1>3 DEF RegisterCall, CallGoes
  <2>3. call'[q] = rec
    BY <1>1, <2>2 DEF CallsTyped
  <2> QED BY <1>2, <1>3, <2>1, <2>2, <2>3 DEF CallPcs
<1>5. call[q].client \in DOMAIN epochs /\ DOMAIN registry = DOMAIN epochs
  BY <1>1 DEF CallFits, CallsTyped
<1>6. CASE Aborted(q)
  <2>1. conn' = [conn EXCEPT ![q] = "closed"] /\ UNCHANGED registry /\ rec.pc = "leave"
    BY <1>2, <1>4, <1>6 DEF RegisterCall
  <2>2. /\ conn' \in [Calls -> {"none", "open", "closed"}] /\ conn'[q] = "closed"
        /\ \A r \in Calls \ {q} : conn'[r] = conn[r]
    BY <1>1, <2>1 DEF CallsTyped
  <2>3. CallFits(q)'
    BY <1>1, <1>4, <2>1, <2>2 DEF CallFits, Before, CallAt, Over
  <2>4. ResponseFits(q)'
    BY <1>1, <1>4, <2>1, <2>2 DEF ResponseFits
  <2> QED BY <1>1, <1>4, <2>1, <2>2, <2>3, <2>4, CallStep DEF CallsTyped
<1>7. CASE ~Aborted(q)
  <2>1. registry' = [registry EXCEPT ![call[q].client] = @ \cup {q}] /\ UNCHANGED conn /\ rec.pc = "read"
    BY <1>2, <1>4, <1>7 DEF RegisterCall, Enters
  <2>2. /\ registry' \in Seq(SUBSET Calls) /\ Len(registry') = Len(registry)
        /\ DOMAIN registry' = DOMAIN registry
        /\ \A c \in DOMAIN registry : /\ c # call[q].client => registry'[c] = registry[c]
                                      /\ c = call[q].client => registry'[c] = registry[c] \cup {q}
    BY <1>1, <1>5, <2>1 DEF CallsTyped
  <2>3. conn[q] # "none"
    BY <1>1 DEF CallFits, CallAt
  <2>4. CallFits(q)'
    BY <1>1, <1>4, <2>1 DEF CallFits, Before, CallAt, Over
  <2>5. ResponseFits(q)'
    BY <1>1, <1>4, <1>5, <1>7, <2>1, <2>2, <2>3 DEF ResponseFits, Aborted
  <2> QED BY <1>1, <1>4, <2>1, <2>2, <2>4, <2>5, CallStep DEF CallsTyped
<1> QED BY <1>6, <1>7

LEMMA YieldStep ==
  ASSUME CallsInductive, NEW q \in Calls, Yield(q)
  PROVE  CallsInductive'
<1>1. /\ CallsTyped /\ CallFits(q) /\ ResponseFits(q) /\ active = q
      /\ \/ call[q].pc = "read" /\ ~call[q].whole
         \/ call[q].pc = "answer"
      /\ UNCHANGED <<active, conn, cancelled, stopping, provider, counter, aborter>>
  BY CallIsUnderWay DEF Yield, CallAt
<1>2. /\ got[q] \subseteq {"stream", "whole"}
      /\ call[q] \in [pc : CallPcs, client : Nat, epoch : Nat, whole : BOOLEAN]
  BY <1>1 DEF CallsTyped
<1>3. PICK pc \in {"leave", "consume"}, text \in {{}, {"stream"}, {"whole"}} :
        /\ call' = [call EXCEPT ![q].pc = pc]
        /\ got' = [got EXCEPT ![q] = @ \cup text]
        /\ "whole" \in text => call[q].whole
        /\ "stream" \in text => ~call[q].whole
  <2>1. CASE Aborted(q)
    <3>1. got' = [got EXCEPT ![q] = @ \cup {}]
      BY <1>1, <2>1 DEF Yield, CallsTyped
    <3> QED BY <2>1, <3>1 DEF Yield, CallGoes
  <2>2. CASE ~Aborted(q)
    BY <2>2 DEF Yield, CallGoes
  <2> QED BY <2>1, <2>2
<1>4. PICK rec : rec = [call[q] EXCEPT !.pc = pc]
  OBVIOUS
<1>5. /\ call' = [call EXCEPT ![q] = rec] /\ rec.pc = pc /\ rec.client = call[q].client
      /\ rec.whole = call[q].whole /\ rec.epoch = call[q].epoch /\ call'[q] = rec
      /\ rec \in [pc : CallPcs, client : Nat, epoch : Nat, whole : BOOLEAN]
  BY <1>1, <1>2, <1>3, <1>4 DEF CallsTyped, CallPcs
<1>6. /\ got' \in [Calls -> SUBSET {"stream", "whole"}] /\ got'[q] = got[q] \cup text
      /\ \A r \in Calls \ {q} : got'[r] = got[r]
  BY <1>1, <1>2, <1>3 DEF CallsTyped
<1>7. CallFits(q)'
  <2>1. /\ call[q].whole => got'[q] \subseteq {"whole"}
        /\ ~call[q].whole => got'[q] \subseteq {"stream"}
    BY <1>1, <1>3, <1>6 DEF CallFits
  <2>2. /\ call'[q].pc \in {"leave", "consume"} /\ call'[q].client = call[q].client
        /\ call'[q].whole = call[q].whole
    BY <1>3, <1>5
  <2>3. /\ active' = q /\ conn'[q] = conn[q] /\ windows' = windows /\ window' = window
        /\ epochs' = epochs
    BY <1>1 DEF provider
  <2>4. call[q].client # 0 /\ windows[call[q].client] = window /\ call[q].client \in DOMAIN epochs
    BY <1>1 DEF CallFits
  <2> QED BY <2>1, <2>2, <2>3, <2>4 DEF CallFits, Before, CallAt, Over
<1>8. ResponseFits(q)'
  <2>1. call[q].pc # "read" => conn[q] # "open"
    BY <1>1 DEF CallFits, CallAt
  <2> QED BY <1>1, <1>3, <1>5, <2>1 DEF ResponseFits, provider, Aborted
<1> QED BY <1>1, <1>5, <1>6, <1>7, <1>8, CallStep DEF CallsTyped, provider

\* The response of a call is taken out of the registry and closed.
LEMMA UnregisterCloses ==
  ASSUME CallsInductive, NEW q \in Calls, call[q].client # 0, CallFits(q), ResponseFits(q),
         Unregister(q)
  PROVE  /\ registry' \in Seq(SUBSET Calls) /\ Len(registry') = Len(registry)
         /\ \A r \in Calls, c \in DOMAIN registry' :
              r \in registry'[c] => r # q /\ c \in DOMAIN registry /\ r \in registry[c]
         /\ conn' \in [Calls -> {"none", "open", "closed"}] /\ conn'[q] = "closed"
         /\ \A r \in Calls \ {q} : conn'[r] = conn[r]
<1>1. CallsTyped
  BY DEF CallsInductive
<1>2. call[q].client \in DOMAIN epochs /\ DOMAIN registry = DOMAIN epochs
  BY <1>1 DEF CallFits, CallsTyped
<1>3. /\ registry' = [registry EXCEPT ![call[q].client] = @ \ {q}]
      /\ conn' = [conn EXCEPT ![q] = "closed"]
  BY DEF Unregister
<1>4. /\ registry' \in Seq(SUBSET Calls) /\ Len(registry') = Len(registry)
      /\ DOMAIN registry' = DOMAIN registry
      /\ \A c \in DOMAIN registry : /\ c # call[q].client => registry'[c] = registry[c]
                                    /\ c = call[q].client => registry'[c] = registry[c] \ {q}
  BY <1>1, <1>2, <1>3 DEF CallsTyped
<1>5. \A c \in DOMAIN registry : q \in registry[c] => c = call[q].client
  BY DEF ResponseFits
<1>6. /\ conn' \in [Calls -> {"none", "open", "closed"}] /\ conn'[q] = "closed"
      /\ \A r \in Calls \ {q} : conn'[r] = conn[r]
  BY <1>1, <1>3 DEF CallsTyped
<1> QED BY <1>4, <1>5, <1>6

LEMMA EndOfResponseStep ==
  ASSUME CallsInductive, NEW q \in Calls, EndOfResponse(q)
  PROVE  CallsInductive'
<1>1. /\ CallsTyped /\ CallFits(q) /\ ResponseFits(q) /\ active = q /\ call[q].pc = "read"
      /\ call[q] \in [pc : CallPcs, client : Nat, epoch : Nat, whole : BOOLEAN]
      /\ UNCHANGED <<active, got, cancelled, stopping, ollama, epochs, cached, window, windows,
                     counter, aborter>>
  BY CallIsUnderWay DEF EndOfResponse, CallAt
<1>2. /\ registry' \in Seq(SUBSET Calls) /\ Len(registry') = Len(registry)
      /\ \A r \in Calls, c \in DOMAIN registry' :
           r \in registry'[c] => r # q /\ c \in DOMAIN registry /\ r \in registry[c]
      /\ conn' \in [Calls -> {"none", "open", "closed"}] /\ conn'[q] = "closed"
      /\ \A r \in Calls \ {q} : conn'[r] = conn[r]
  <2>1. call[q].client # 0
    BY <1>1 DEF CallFits
  <2> QED BY <1>1, <2>1, UnregisterCloses DEF EndOfResponse
<1>3. PICK pc \in {"leave", "again", "answer"} :
        /\ call' = [call EXCEPT ![q].pc = pc]
        /\ pc = "again" => MayAskAgain(q)
        /\ pc = "answer" => call[q].whole
  BY DEF EndOfResponse, CallGoes
<1>4. PICK rec : rec = [call[q] EXCEPT !.pc = pc]
  OBVIOUS
<1>5. /\ call' = [call EXCEPT ![q] = rec] /\ rec.pc = pc /\ rec.client = call[q].client
      /\ rec.whole = call[q].whole /\ call'[q] = rec
      /\ rec \in [pc : CallPcs, client : Nat, epoch : Nat, whole : BOOLEAN]
  BY <1>1, <1>3, <1>4 DEF CallsTyped, CallPcs
<1>6. CallFits(q)'
  BY <1>1, <1>2, <1>3, <1>5 DEF CallFits, Before, CallAt, Over, MayAskAgain, AsksAgain
<1>7. ResponseFits(q)'
  BY <1>2, <1>3, <1>5 DEF ResponseFits
<1> QED BY <1>1, <1>2, <1>5, <1>6, <1>7, CallStep DEF CallsTyped

LEMMA AskAgainStep ==
  ASSUME CallsInductive, NEW q \in Calls, AskAgain(q)
  PROVE  CallsInductive'
<1>1. /\ CallsTyped /\ CallFits(q) /\ ResponseFits(q) /\ active = q /\ call[q].pc = "again"
      /\ call[q] \in [pc : CallPcs, client : Nat, epoch : Nat, whole : BOOLEAN]
      /\ UNCHANGED <<active, conn, got, cancelled, stopping, provider, counter, aborter>>
  BY CallIsUnderWay DEF AskAgain, CallAt
<1>2. PICK rec : rec = IF Aborted(q) THEN [call[q] EXCEPT !.pc = "leave"]
                       ELSE [call[q] EXCEPT !.pc = "open", !.whole = TRUE]
  OBVIOUS
<1>3. call' = [call EXCEPT ![q] = rec]
  BY <1>2 DEF AskAgain, CallGoes
<1>4. /\ rec.pc \in {"leave", "open"} /\ rec.client = call[q].client
      /\ rec.whole \in {call[q].whole, TRUE}
      /\ rec \in [pc : CallPcs, client : Nat, epoch : Nat, whole : BOOLEAN]
  BY <1>1, <1>2 DEF CallPcs
<1>5. call'[q] = rec
  BY <1>1, <1>3 DEF CallsTyped
<1>6. CallFits(q)'
  BY <1>1, <1>4, <1>5 DEF CallFits, Before, CallAt, Over, provider
<1>7. ResponseFits(q)'
  BY <1>1, <1>4, <1>5 DEF ResponseFits, provider
<1> QED BY <1>1, <1>3, <1>4, <1>6, <1>7, CallStep DEF CallsTyped, provider

LEMMA LeaveCallStep ==
  ASSUME CallsInductive, NEW q \in Calls, LeaveCall(q)
  PROVE  CallsInductive'
<1>1. /\ CallsTyped /\ CallFits(q) /\ ResponseFits(q) /\ active = q /\ call[q].pc = "leave"
      /\ active' = 0 /\ got' = [got EXCEPT ![q] = {}] /\ ControlFree
      /\ UNCHANGED <<cancelled, stopping, ollama, epochs, cached, window, windows, counter, aborter>>
  BY CallIsUnderWay DEF LeaveCall, CallAt
<1>2. /\ registry' \in Seq(SUBSET Calls) /\ Len(registry') = Len(registry)
      /\ \A r \in Calls, c \in DOMAIN registry' :
           r \in registry'[c] => r # q /\ c \in DOMAIN registry /\ r \in registry[c]
      /\ conn' \in [Calls -> {"none", "open", "closed"}]
      /\ conn[q] # "none" => conn'[q] # "none"
      /\ \A r \in Calls \ {q} : conn'[r] = conn[r]
  <2>1. CASE conn[q] = "none"
    <3>1. UNCHANGED <<registry, conn>>
      BY <2>1 DEF LeaveCall
    <3>2. \A c \in DOMAIN registry : q \notin registry[c]
      BY <1>1, <2>1 DEF ResponseFits
    <3> QED BY <1>1, <2>1, <3>1, <3>2 DEF CallsTyped
  <2>2. CASE conn[q] # "none"
    <3>1. call[q].client # 0
      BY <1>1, <2>2 DEF CallFits, Over, CallAt
    <3>2. Unregister(q)
      BY <2>2 DEF LeaveCall
    <3> QED BY <1>1, <3>1, <3>2, UnregisterCloses
  <2> QED BY <2>1, <2>2
<1>3. PICK rec : rec = [NewCall EXCEPT !.pc = "done"]
  OBVIOUS
<1>4. /\ call' = [call EXCEPT ![q] = rec] /\ rec.pc = "done" /\ rec.client = 0 /\ rec.whole = FALSE
      /\ rec \in [pc : CallPcs, client : Nat, epoch : Nat, whole : BOOLEAN]
  BY <1>3 DEF LeaveCall, NewCall, CallPcs
<1>5. call'[q] = rec
  BY <1>1, <1>4 DEF CallsTyped
<1>6. /\ got' \in [Calls -> SUBSET {"stream", "whole"}] /\ got'[q] = {}
      /\ \A r \in Calls \ {q} : got'[r] = got[r]
  BY <1>1 DEF CallsTyped
<1>7. q # 0
  BY DEF Calls, CallsAssumption
<1>8. CallFits(q)'
  BY <1>1, <1>4, <1>5, <1>6, <1>7 DEF CallFits, Before, CallAt, Over
<1>9. ResponseFits(q)'
  BY <1>2, <1>4, <1>5 DEF ResponseFits
<1>10. \A k \in Aborters : k = "client" => ~AborterAt(k, "abort")
  BY <1>1 DEF ControlFree, AborterAt
<1> QED BY <1>1, <1>2, <1>4, <1>6, <1>8, <1>9, <1>10, CallStep DEF CallsTyped

\* A step of nobody's call: the calls are where they were, though a response may be
\* closed under one, clients may come, and their epochs may move.
LEMMA OtherStep ==
  ASSUME CallsInductive, CallsTyped', UNCHANGED <<active, call, got>>,
         \A q \in Calls : conn'[q] = conn[q] \/ (conn[q] # "none" /\ conn'[q] = "closed"),
         DOMAIN epochs \subseteq DOMAIN epochs',
         \A d \in DOMAIN epochs : windows'[d] = windows[d] /\ registry'[d] = registry[d],
         \A d \in DOMAIN registry' \ DOMAIN registry : registry'[d] = {},
         window' = window \/ active = 0,
         \A q \in Calls : active = q /\ conn'[q] = "open" /\ call[q].pc \in {"read", "consume"} /\ Aborted(q)'
            => \E k \in Aborters : q \in aborter'[k].hit,
         \A k \in Aborters : AborterFits(k)',
         stopping' => active \in cancelled' \cup {0}
  PROVE  CallsInductive'
<1>1. CallsTyped /\ \A q \in Calls : CallFits(q) /\ ResponseFits(q)
  BY DEF CallsInductive
<1>2. DOMAIN registry = DOMAIN epochs
  BY <1>1 DEF CallsTyped
<1>3. ASSUME NEW q \in Calls
      PROVE  CallFits(q)'
  <2>1. call[q].client # 0 => windows'[call[q].client] = windows[call[q].client]
    BY <1>1 DEF CallFits
  <2>2. active # q \/ window' = window
    BY DEF Calls, CallsAssumption
  <2> QED BY <1>1, <2>1, <2>2 DEF CallFits, Before, CallAt, Over
<1>4. ASSUME NEW q \in Calls
      PROVE  ResponseFits(q)'
  <2>1. \A c \in DOMAIN registry' : q \in registry'[c] => c \in DOMAIN registry /\ q \in registry[c]
    BY <1>2
  <2>2. ASSUME call[q].pc \in {"read", "consume"}, conn'[q] = "open"
        PROVE  /\ q \in registry'[call[q].client]
               /\ Aborted(q)' => \E k \in Aborters : q \in aborter'[k].hit
    <3>1. active = q /\ conn[q] = "open" /\ call[q].client \in DOMAIN epochs
      BY <1>1, <2>2 DEF CallFits
    <3> QED BY <1>1, <2>2, <3>1 DEF ResponseFits
  <2>3. \A c \in DOMAIN registry' : q \in registry'[c] =>
          call'[q].client = c /\ call'[q].pc \in {"read", "consume", "leave"} /\ conn'[q] # "none"
    BY <1>1, <2>1 DEF ResponseFits
  <2> QED BY <2>2, <2>3 DEF ResponseFits
<1> QED BY <1>3, <1>4 DEF CallsInductive

\* What a call that reads may rely on as long as the epochs and the aborters stay.
LEMMA HitsStay ==
  ASSUME CallsInductive, UNCHANGED <<call, active>>,
         \A d \in DOMAIN epochs : epochs'[d] = epochs[d],
         \A q \in Calls : conn'[q] = "open" => conn[q] = "open",
         \A q \in Calls, k \in Aborters :
            q \in aborter[k].hit /\ conn'[q] = "open" => q \in aborter'[k].hit
  PROVE  \A q \in Calls : active = q /\ conn'[q] = "open" /\ call[q].pc \in {"read", "consume"} /\ Aborted(q)'
            => \E k \in Aborters : q \in aborter'[k].hit
<1> SUFFICES ASSUME NEW q \in Calls, active = q, conn'[q] = "open",
                    call[q].pc \in {"read", "consume"}, Aborted(q)'
             PROVE  \E k \in Aborters : q \in aborter'[k].hit
  OBVIOUS
<1>1. CallFits(q) /\ ResponseFits(q)
  BY DEF CallsInductive
<1>2. call[q].client \in DOMAIN epochs
  BY <1>1 DEF CallFits
<1>3. Aborted(q)
  BY <1>2 DEF Aborted
<1> QED BY <1>1, <1>3 DEF ResponseFits

LEMMA CountStep ==
  ASSUME CallsInductive, CountReads \/ CountChats
  PROVE  CallsInductive'
<1>1. CallsTyped /\ \A k \in Aborters : AborterFits(k)
  BY DEF CallsInductive
<1>2. /\ UNCHANGED <<active, call, conn, got, cancelled, stopping, window, aborter, ollama>>
      /\ epochs' \in Seq(Nat) /\ registry' \in Seq(SUBSET Calls) /\ windows' \in Seq(Windows)
      /\ Len(registry') = Len(epochs') /\ Len(windows') = Len(epochs')
      /\ cached' \subseteq DOMAIN epochs' /\ DOMAIN epochs \subseteq DOMAIN epochs'
      /\ \A d \in DOMAIN epochs : /\ epochs'[d] = epochs[d] /\ windows'[d] = windows[d]
                                  /\ registry'[d] = registry[d]
      /\ \A d \in DOMAIN registry' \ DOMAIN registry : registry'[d] = {}
      /\ counter' \in Windows \cup {0}
  <2>1. CASE CountReads
    BY <1>1, <2>1 DEF CountReads, provider, CallsTyped
  <2>2. CASE CountChats
    <3>1. PICK c \in Clients : Chat(counter, c)
      BY <2>2 DEF CountChats
    <3>2. counter \in Windows
      BY <2>2 DEF CountChats
    <3> QED BY <1>1, <2>2, <3>1, <3>2, ChatKeeps DEF CountChats
  <2> QED BY <2>1, <2>2
<1>3. CallsTyped'
  BY <1>1, <1>2 DEF CallsTyped
<1>4. \A k \in Aborters : AborterFits(k)'
  BY <1>1, <1>2 DEF AborterFits, AborterAt
<1>5. \A q \in Calls : active = q /\ conn'[q] = "open" /\ call[q].pc \in {"read", "consume"} /\ Aborted(q)'
         => \E k \in Aborters : q \in aborter'[k].hit
  BY <1>2, HitsStay
<1>6. stopping' => active \in cancelled' \cup {0}
  BY <1>2 DEF CallsInductive
<1> QED BY <1>2, <1>3, <1>4, <1>5, <1>6, OtherStep

LEMMA SetWindowStep ==
  ASSUME CallsInductive, NEW w \in Windows, SetWindow(w)
  PROVE  CallsInductive'
<1>1. CallsTyped /\ \A k \in Aborters : AborterFits(k)
  BY DEF CallsInductive
<1>2. /\ active = 0 /\ window' = w /\ cached' = {}
      /\ epochs' = [c \in DOMAIN epochs |-> IF c \in cached THEN epochs[c] + 1 ELSE epochs[c]]
      /\ UNCHANGED <<active, call, conn, got, cancelled, stopping, ollama, registry, windows,
                     counter, aborter>>
  BY DEF SetWindow, SetWindowAnytime
<1>3. epochs' \in Seq(Nat) /\ Len(epochs') = Len(epochs) /\ DOMAIN epochs' = DOMAIN epochs
  <2>1. epochs \in Seq(Nat) /\ Len(epochs) \in Nat /\ DOMAIN epochs = 1..Len(epochs)
    BY <1>1 DEF CallsTyped
  <2>2. epochs' \in [1..Len(epochs) -> Nat]
    BY <1>2, <2>1
  <2> QED BY <2>1, <2>2
<1>4. CallsTyped'
  BY <1>1, <1>2, <1>3 DEF CallsTyped
<1>5. \A k \in Aborters : AborterFits(k)'
  BY <1>1, <1>2 DEF AborterFits, AborterAt
<1>6. \A q \in Calls : active # q
  BY <1>2, CallsAssumption DEF Calls
<1>7. stopping' => active \in cancelled' \cup {0}
  BY <1>2
<1> QED BY <1>2, <1>3, <1>4, <1>5, <1>6, <1>7, OtherStep

LEMMA ClaimStopStep ==
  ASSUME CallsInductive, NEW q \in Calls, ClaimStop(q)
  PROVE  CallsInductive'
<1>1. CallsTyped /\ \A k \in Aborters : AborterFits(k)
  BY DEF CallsInductive
<1>2. /\ cancelled = {} /\ active = q /\ cancelled' = {q}
      /\ UNCHANGED <<active, call, conn, got, stopping, provider, counter, aborter>>
  BY DEF ClaimStop
<1>3. CallsTyped'
  BY <1>1, <1>2 DEF CallsTyped, provider
<1>4. \A k \in Aborters : AborterFits(k)'
  BY <1>1, <1>2 DEF AborterFits, AborterAt
<1>5. \A r \in Calls : active = r /\ conn'[r] = "open" /\ call[r].pc \in {"read", "consume"} /\ Aborted(r)'
         => \E k \in Aborters : r \in aborter'[k].hit
  BY <1>2, HitsStay DEF provider
<1>6. stopping' => active \in cancelled' \cup {0}
  BY <1>2
<1> QED BY <1>1, <1>2, <1>3, <1>4, <1>5, <1>6, OtherStep DEF provider, CallsTyped

\* An aborter that has nothing to close begins.
LEMMA AborterBegins ==
  ASSUME CallsInductive, NEW k \in Aborters, aborter[k].hit = {},
         NEW rec, rec = [Quiet EXCEPT !.pc = "abort", !.todo = cached],
         aborter' = [aborter EXCEPT ![k] = rec],
         UNCHANGED <<active, call, conn, got, provider, counter>>,
         cancelled' \subseteq Calls, cancelled \subseteq cancelled', stopping' \in BOOLEAN,
         stopping => stopping', stopping' => active \in cancelled' \cup {0},
         k = "client" => active \in cancelled', k = "shutdown" => stopping'
  PROVE  CallsInductive'
<1>1. CallsTyped /\ \A j \in Aborters : AborterFits(j)
  BY DEF CallsInductive
<1>2. /\ rec \in [pc : {"idle", "abort", "done"}, todo : SUBSET DOMAIN epochs, hit : SUBSET Calls]
      /\ rec.pc = "abort" /\ rec.hit = {}
  BY <1>1 DEF Quiet, CallsTyped
<1>3. aborter'[k] = rec /\ \A j \in Aborters \ {k} : aborter'[j] = aborter[j]
  BY <1>1 DEF CallsTyped
<1>4. aborter' \in [Aborters -> [pc : {"idle", "abort", "done"}, todo : SUBSET DOMAIN epochs,
                                  hit : SUBSET Calls]]
  BY <1>1, <1>2 DEF CallsTyped
<1>5. CallsTyped'
  BY <1>1, <1>4 DEF CallsTyped, provider
<1>6. ASSUME NEW j \in Aborters
      PROVE  AborterFits(j)'
  <2>1. CASE j = k
    BY <1>2, <1>3, <2>1 DEF AborterFits, AborterAt
  <2>2. CASE j # k
    BY <1>1, <1>3, <2>2 DEF AborterFits, AborterAt
  <2> QED BY <2>1, <2>2
<1>7. \A q \in Calls, j \in Aborters : q \in aborter[j].hit => q \in aborter'[j].hit
  BY <1>3
<1>8. \A q \in Calls : active = q /\ conn'[q] = "open" /\ call[q].pc \in {"read", "consume"} /\ Aborted(q)'
         => \E j \in Aborters : q \in aborter'[j].hit
  BY <1>7, HitsStay DEF provider
<1> QED BY <1>1, <1>5, <1>6, <1>8, OtherStep DEF provider, CallsTyped

LEMMA StopCallStep ==
  ASSUME CallsInductive, NEW q \in Calls, StopCall(q)
  PROVE  CallsInductive'
<1>1. PICK rec : rec = [Quiet EXCEPT !.pc = "abort", !.todo = cached]
  OBVIOUS
<1>2. PICK k : k = "client"
  OBVIOUS
<1>3. /\ k \in Aborters /\ aborter[k].pc = "idle" /\ active = q /\ q \in cancelled
      /\ aborter' = [aborter EXCEPT ![k] = rec]
      /\ UNCHANGED <<active, call, conn, got, cancelled, stopping, provider, counter>>
  BY <1>1, <1>2 DEF StopCall, StopAnyway, AborterAt
<1>4. aborter[k].hit = {}
  BY <1>3 DEF CallsInductive, AborterFits, AborterAt
<1>5. /\ cancelled' \subseteq Calls /\ cancelled \subseteq cancelled' /\ stopping' \in BOOLEAN
      /\ stopping' => active \in cancelled' \cup {0}
  BY <1>3 DEF CallsInductive, CallsTyped
<1> QED BY <1>1, <1>2, <1>3, <1>4, <1>5, AborterBegins

LEMMA ShutDownCallsStep ==
  ASSUME CallsInductive, ShutDownCalls
  PROVE  CallsInductive'
<1>0. CallsTyped /\ \A k \in Aborters : AborterFits(k)
  BY DEF CallsInductive
<1>1. PICK rec : rec = [Quiet EXCEPT !.pc = "abort", !.todo = cached]
  OBVIOUS
<1>2. PICK k : k = "shutdown"
  OBVIOUS
<1>3. /\ k \in Aborters /\ ~stopping /\ stopping' = TRUE
      /\ cancelled' = cancelled \cup ({active} \ {0})
      /\ active # 0 => aborter' = [aborter EXCEPT ![k] = rec]
      /\ active = 0 => aborter' = aborter
      /\ UNCHANGED <<active, call, conn, got, provider, counter>>
  BY <1>1, <1>2 DEF ShutDownCalls
<1>4. aborter[k].hit = {}
  <2>1. aborter[k].pc = "idle"
    BY <1>0, <1>2, <1>3 DEF AborterFits, AborterAt
  <2> QED BY <1>0, <1>3, <2>1 DEF AborterFits, AborterAt
<1>5. /\ cancelled' \subseteq Calls /\ cancelled \subseteq cancelled'
      /\ active \in cancelled' \cup {0}
  BY <1>0, <1>3 DEF CallsTyped
<1>6. CASE active # 0
  BY <1>1, <1>2, <1>3, <1>4, <1>5, <1>6, AborterBegins
<1>7. CASE active = 0
  <2>1. CallsTyped'
    BY <1>0, <1>3, <1>5, <1>7 DEF CallsTyped, provider
  <2>2. \A j \in Aborters : AborterFits(j)'
    BY <1>0, <1>3, <1>7 DEF AborterFits, AborterAt
  <2>3. \A q \in Calls : active = q /\ conn'[q] = "open" /\ call[q].pc \in {"read", "consume"} /\ Aborted(q)'
           => \E j \in Aborters : q \in aborter'[j].hit
    BY <1>3, <1>7, HitsStay DEF provider
  <2> QED BY <1>0, <1>3, <1>5, <2>1, <2>2, <2>3, OtherStep DEF provider, CallsTyped
<1> QED BY <1>6, <1>7

LEMMA AbortClientStep ==
  ASSUME CallsInductive, NEW k \in Aborters, NEW c \in Clients, AbortClient(k, c)
  PROVE  CallsInductive'
<1>1. /\ CallsTyped /\ \A j \in Aborters : AborterFits(j)
      /\ \A q \in Calls : CallFits(q) /\ ResponseFits(q)
  BY DEF CallsInductive
<1>2. /\ aborter[k].pc = "abort" /\ aborter[k].hit = {} /\ c \in aborter[k].todo
      /\ epochs' = [epochs EXCEPT ![c] = @ + 1]
      /\ aborter' = [aborter EXCEPT ![k].todo = @ \ {c}, ![k].hit = registry[c]]
      /\ UNCHANGED <<active, call, conn, got, cancelled, stopping, ollama, registry, cached, window,
                     windows, counter>>
  BY DEF AbortClient, AborterAt
<1>3. c \in DOMAIN epochs /\ DOMAIN registry = DOMAIN epochs
  BY <1>1, <1>2 DEF CallsTyped
<1>4. /\ epochs' \in Seq(Nat) /\ Len(epochs') = Len(epochs) /\ DOMAIN epochs' = DOMAIN epochs
      /\ \A d \in DOMAIN epochs : d # c => epochs'[d] = epochs[d]
  BY <1>1, <1>2, <1>3 DEF CallsTyped
<1>5. registry[c] \in SUBSET Calls
  BY <1>1, <1>3 DEF CallsTyped
<1>6. PICK rec : rec = [aborter[k] EXCEPT !.todo = @ \ {c}, !.hit = registry[c]]
  OBVIOUS
<1>7. /\ rec \in [pc : {"idle", "abort", "done"}, todo : SUBSET DOMAIN epochs, hit : SUBSET Calls]
      /\ rec.pc = "abort" /\ rec.hit = registry[c]
  <2>1. aborter[k] \in [pc : {"idle", "abort", "done"}, todo : SUBSET DOMAIN epochs, hit : SUBSET Calls]
    BY <1>1 DEF CallsTyped
  <2>2. aborter[k].todo \ {c} \in SUBSET DOMAIN epochs
    BY <2>1
  <2> QED BY <1>2, <1>5, <1>6, <2>1, <2>2
<1>8. aborter' = [aborter EXCEPT ![k] = rec]
  BY <1>2, <1>6
<1>9. aborter'[k] = rec /\ \A j \in Aborters \ {k} : aborter'[j] = aborter[j]
  BY <1>1, <1>8 DEF CallsTyped
<1>10. CallsTyped'
  <2>1. aborter' \in [Aborters -> [pc : {"idle", "abort", "done"}, todo : SUBSET DOMAIN epochs,
                                    hit : SUBSET Calls]]
    BY <1>1, <1>7, <1>8 DEF CallsTyped
  <2> QED BY <1>1, <1>2, <1>4, <2>1 DEF CallsTyped
<1>11. \A j \in Aborters : AborterFits(j)'
  <2>1. \A q \in registry[c] : conn[q] # "none"
    BY <1>1, <1>3, <1>5 DEF ResponseFits
  <2>2. AborterFits(k)'
    BY <1>1, <1>2, <1>7, <1>9, <2>1 DEF AborterFits, AborterAt
  <2>3. \A j \in Aborters \ {k} : AborterFits(j)'
    BY <1>1, <1>2, <1>9 DEF AborterFits, AborterAt
  <2> QED BY <2>2, <2>3
<1>12. ASSUME NEW q \in Calls, active = q, conn'[q] = "open", call[q].pc \in {"read", "consume"}, Aborted(q)'
       PROVE  \E j \in Aborters : q \in aborter'[j].hit
  <2>1. call[q].client \in DOMAIN epochs /\ conn[q] = "open" /\ q \in registry[call[q].client]
    BY <1>1, <1>2, <1>12 DEF CallFits, ResponseFits
  <2>2. CASE call[q].client = c
    BY <1>7, <1>9, <2>1, <2>2
  <2>3. CASE call[q].client # c
    <3>1. Aborted(q)
      BY <1>2, <1>4, <1>12, <2>1, <2>3 DEF Aborted
    <3>2. PICK j \in Aborters : q \in aborter[j].hit
      BY <1>1, <1>12, <2>1, <3>1 DEF ResponseFits
    <3> QED BY <1>2, <1>9, <3>2
  <2> QED BY <2>2, <2>3
<1>13. stopping' => active \in cancelled' \cup {0}
  BY <1>2 DEF CallsInductive
<1> QED BY <1>2, <1>4, <1>10, <1>11, <1>12, <1>13, OtherStep

LEMMA CloseHitStep ==
  ASSUME CallsInductive, NEW k \in Aborters, NEW h \in Calls, CloseHit(k, h)
  PROVE  CallsInductive'
<1>1. /\ CallsTyped /\ \A j \in Aborters : AborterFits(j)
  BY DEF CallsInductive
<1>2. /\ aborter[k].pc = "abort" /\ h \in aborter[k].hit
      /\ conn' = [conn EXCEPT ![h] = "closed"]
      /\ aborter' = [aborter EXCEPT ![k].hit = @ \ {h}]
      /\ UNCHANGED <<active, call, got, cancelled, stopping, provider, counter>>
  BY DEF CloseHit, AborterAt
<1>3. PICK rec : rec = [aborter[k] EXCEPT !.hit = @ \ {h}]
  OBVIOUS
<1>4. /\ rec \in [pc : {"idle", "abort", "done"}, todo : SUBSET DOMAIN epochs, hit : SUBSET Calls]
      /\ rec.pc = "abort" /\ rec.hit = aborter[k].hit \ {h}
  BY <1>1, <1>2, <1>3 DEF CallsTyped
<1>5. aborter' = [aborter EXCEPT ![k] = rec]
  BY <1>2, <1>3
<1>6. aborter'[k] = rec /\ \A j \in Aborters \ {k} : aborter'[j] = aborter[j]
  BY <1>1, <1>5 DEF CallsTyped
<1>7. /\ conn' \in [Calls -> {"none", "open", "closed"}] /\ conn'[h] = "closed"
      /\ \A q \in Calls \ {h} : conn'[q] = conn[q]
  BY <1>1, <1>2 DEF CallsTyped
<1>8. CallsTyped'
  <2>1. aborter' \in [Aborters -> [pc : {"idle", "abort", "done"}, todo : SUBSET DOMAIN epochs,
                                    hit : SUBSET Calls]]
    BY <1>1, <1>4, <1>5 DEF CallsTyped
  <2> QED BY <1>1, <1>2, <1>7, <2>1 DEF CallsTyped, provider
<1>9. conn[h] # "none"
  BY <1>1, <1>2 DEF AborterFits
<1>10. \A q \in Calls : conn'[q] = conn[q] \/ (conn[q] # "none" /\ conn'[q] = "closed")
  BY <1>7, <1>9
<1>11. ASSUME NEW j \in Aborters
       PROVE  AborterFits(j)'
  <2>1. AborterFits(j) /\ aborter'[j].hit \subseteq aborter[j].hit /\ aborter'[j].pc = aborter[j].pc
        /\ aborter[j].hit \subseteq Calls
    BY <1>1, <1>2, <1>4, <1>6 DEF CallsTyped
  <2>2. \A q \in aborter'[j].hit : conn'[q] # "none"
    BY <1>10, <2>1 DEF AborterFits
  <2> QED BY <1>2, <2>1, <2>2 DEF AborterFits, AborterAt
<1>12. /\ \A q \in Calls : conn'[q] = "open" => conn[q] = "open"
       /\ \A q \in Calls, j \in Aborters :
            q \in aborter[j].hit /\ conn'[q] = "open" => q \in aborter'[j].hit
  BY <1>4, <1>6, <1>7
<1>13. \A q \in Calls : active = q /\ conn'[q] = "open" /\ call[q].pc \in {"read", "consume"} /\ Aborted(q)'
          => \E j \in Aborters : q \in aborter'[j].hit
  BY <1>2, <1>12, HitsStay DEF provider
<1>14. stopping' => active \in cancelled' \cup {0}
  BY <1>2 DEF CallsInductive
<1> QED BY <1>1, <1>2, <1>8, <1>10, <1>11, <1>13, <1>14, OtherStep DEF provider, CallsTyped

LEMMA ClearCacheStep ==
  ASSUME CallsInductive, NEW k \in Aborters, ClearCache(k)
  PROVE  CallsInductive'
<1>1. /\ CallsTyped /\ \A j \in Aborters : AborterFits(j)
  BY DEF CallsInductive
<1>2. /\ aborter[k].pc = "abort" /\ aborter[k].hit = {} /\ cached' = {}
      /\ aborter' = [aborter EXCEPT ![k].pc = "done"]
      /\ UNCHANGED <<active, call, conn, got, cancelled, stopping, ollama, epochs, registry, window,
                     windows, counter>>
  BY DEF ClearCache, AborterAt
<1>3. /\ \A j \in Aborters : aborter'[j].hit = aborter[j].hit
      /\ aborter'[k].pc = "done" /\ \A j \in Aborters \ {k} : aborter'[j] = aborter[j]
      /\ aborter' \in [Aborters -> [pc : {"idle", "abort", "done"}, todo : SUBSET DOMAIN epochs,
                                    hit : SUBSET Calls]]
  <2>1. PICK rec : rec = [aborter[k] EXCEPT !.pc = "done"]
    OBVIOUS
  <2>2. /\ rec \in [pc : {"idle", "abort", "done"}, todo : SUBSET DOMAIN epochs, hit : SUBSET Calls]
        /\ rec.pc = "done" /\ rec.hit = aborter[k].hit
    BY <1>1, <2>1 DEF CallsTyped
  <2>3. aborter' = [aborter EXCEPT ![k] = rec]
    BY <1>2, <2>1
  <2> QED BY <1>1, <2>2, <2>3 DEF CallsTyped
<1>4. CallsTyped'
  BY <1>1, <1>2, <1>3 DEF CallsTyped
<1>5. ASSUME NEW j \in Aborters
      PROVE  AborterFits(j)'
  <2>1. CASE j = k
    BY <1>1, <1>2, <1>3, <2>1 DEF AborterFits, AborterAt
  <2>2. CASE j # k
    BY <1>1, <1>2, <1>3, <2>2 DEF AborterFits, AborterAt
  <2> QED BY <2>1, <2>2
<1>6. \A q \in Calls : active = q /\ conn'[q] = "open" /\ call[q].pc \in {"read", "consume"} /\ Aborted(q)'
         => \E j \in Aborters : q \in aborter'[j].hit
  BY <1>2, <1>3, HitsStay
<1>7. stopping' => active \in cancelled' \cup {0}
  BY <1>2 DEF CallsInductive
<1> QED BY <1>1, <1>2, <1>4, <1>5, <1>6, <1>7, OtherStep DEF CallsTyped

LEMMA CallsInitHolds == CallsInit => CallsInductive
<1> SUFFICES ASSUME CallsInit PROVE CallsInductive
  OBVIOUS
<1>1. window \in Windows
  BY CallsAssumption DEF CallsInit
<1>2. /\ epochs = <<>> /\ registry = <<>> /\ windows = <<>>
      /\ epochs \in Seq(Nat) /\ registry \in Seq(SUBSET Calls) /\ windows \in Seq(Windows)
      /\ DOMAIN registry = {}
  BY DEF CallsInit
<1>3. /\ call \in [Calls -> [pc : CallPcs, client : Nat, epoch : Nat, whole : BOOLEAN]]
      /\ \A q \in Calls : call[q].pc = "idle" /\ call[q].client = 0 /\ call[q].whole = FALSE
  BY DEF CallsInit, NewCall, CallPcs
<1>4. /\ aborter \in [Aborters -> [pc : {"idle", "abort", "done"}, todo : SUBSET DOMAIN epochs,
                                   hit : SUBSET Calls]]
      /\ \A k \in Aborters : aborter[k].pc = "idle" /\ aborter[k].hit = {}
  BY DEF CallsInit, Quiet
<1>5. CallsTyped
  BY <1>1, <1>2, <1>3, <1>4 DEF CallsInit, CallsTyped
<1>6. \A q \in Calls : active # q
  BY CallsAssumption DEF CallsInit, Calls
<1>7. ASSUME NEW q \in Calls
      PROVE  CallFits(q) /\ ResponseFits(q)
  BY <1>2, <1>3, <1>6 DEF CallsInit, CallFits, ResponseFits, Before, CallAt, Over
<1>8. \A k \in Aborters : AborterFits(k)
  BY <1>4 DEF AborterFits, AborterAt
<1> QED BY <1>5, <1>7, <1>8 DEF CallsInductive, CallsInit

LEMMA CallsNextKeeps == CallsInductive /\ [CallsNext]_callVars => CallsInductive'
<1> SUFFICES ASSUME CallsInductive, [CallsNext]_callVars PROVE CallsInductive'
  OBVIOUS
<1>1. ASSUME NEW q \in Calls, Calling(q)
      PROVE  CallsInductive'
  BY <1>1, TakeCallStep, CheckCancelledStep, FetchClientStep, BeginCallStep, OpenCallStep,
     RegisterCallStep, YieldStep, EndOfResponseStep, AskAgainStep, LeaveCallStep DEF Calling
<1>2. ASSUME NEW k \in Aborters, Aborting(k)
      PROVE  CallsInductive'
  BY <1>2, AbortClientStep, CloseHitStep, ClearCacheStep DEF Aborting
<1>3. CASE UNCHANGED callVars
  <2>1. UNCHANGED <<active, call, conn, got, cancelled, stopping, provider, counter, aborter>>
    BY <1>3 DEF callVars
  <2>2. CallsTyped'
    BY <2>1 DEF CallsInductive, CallsTyped, provider
  <2>3. \A q \in Calls : CallFits(q)' /\ ResponseFits(q)'
    BY <2>1 DEF CallsInductive, CallFits, ResponseFits, provider, CallAt, Over, Aborted
  <2>4. \A k \in Aborters : AborterFits(k)'
    BY <2>1 DEF CallsInductive, AborterFits, AborterAt
  <2> QED BY <2>1, <2>2, <2>3, <2>4 DEF CallsInductive
<1> QED BY <1>1, <1>2, <1>3, ClaimStopStep, StopCallStep, SetWindowStep, ShutDownCallsStep,
           CountStep DEF CallsNext

\* The inductive invariant of the calls.
THEOREM CallsInvariant == CallsSpec => []CallsInductive
BY CallsInitHolds, CallsNextKeeps, PTL DEF CallsSpec

\* However a stop, a shutdown, a new client and a change of the context window meet a
\* call (OpenAICompatibleChat.stream, abort): its answer is streamed or whole, no
\* request that began before an abort is still read from after it, and each uses the
\* context window that is chosen.
THEOREM CallsStaySound == CallsSpec => []CallsAreSound
<1>1. CallsInductive => CallsAreSound
  <2> SUFFICES ASSUME CallsInductive PROVE CallsAreSound
    OBVIOUS
  <2>1. CallsTyped /\ \A q \in Calls : CallFits(q) /\ ResponseFits(q)
    BY DEF CallsInductive
  <2>2. CallsTypeOK
    <3>1. ASSUME NEW q \in Calls
          PROVE  /\ call[q].client \in {0} \cup DOMAIN epochs
                 /\ call[q].epoch \in Nat /\ call[q].whole \in BOOLEAN
                 /\ CallAt(q, "idle") \/ Over(q) \/ active = q
                 /\ conn[q] \in {"none", "open", "closed"}
      BY <2>1 DEF CallsTyped, CallFits, CallAt, Over
    <3>2. ASSUME NEW c \in DOMAIN registry, NEW q \in registry[c]
          PROVE  call[q].client = c /\ call[q].pc \in {"read", "consume", "leave"}
      <4>1. q \in Calls
        BY <2>1 DEF CallsTyped
      <4> QED BY <2>1, <4>1 DEF ResponseFits
    <3> QED BY <2>1, <3>1, <3>2 DEF CallsTypeOK, CallsTyped
  <2>3. OneAnswer
    <3>1. ASSUME NEW q \in Calls
          PROVE  got[q] \subseteq {"whole"} \/ got[q] \subseteq {"stream"}
      BY <2>1 DEF CallFits
    <3> QED BY <3>1 DEF OneAnswer
  <2>4. AbortReachesAll
    BY <2>1 DEF CallsInductive, AbortReachesAll, ResponseFits, AborterFits
  <2>5. UsesChosenWindow
    BY <2>1 DEF UsesChosenWindow, CallFits, Begun
  <2> QED BY <2>2, <2>3, <2>4, <2>5 DEF CallsAreSound
<1> QED BY CallsInvariant, <1>1, PTL

\* A stop that comes late aborts nobody else's request, and neither does a change of
\* the context window: an abort is of the call that is being executed, which cannot
\* end while a client's stop aborts it, and after which a shutdown takes no other.
THEOREM OnlyStoppedAreAborted == CallsSpec => AbortsOnlyStopped
<1> DEFINE Undisturbed == \A q \in Calls \ cancelled :
                            Begun(q) => epochs'[call[q].client] = epochs[call[q].client]
<1>1. CallsInductive /\ [CallsNext]_callVars => [Undisturbed]_callVars
  <2> SUFFICES ASSUME CallsInductive, CallsNext, NEW q \in Calls \ cancelled, Begun(q)
               PROVE  epochs'[call[q].client] = epochs[call[q].client]
    OBVIOUS
  <2>1. /\ CallsTyped /\ active = q /\ call[q].client \in DOMAIN epochs
        /\ \A k \in Aborters : AborterFits(k)
    BY DEF CallsInductive, CallFits, Begun
  <2>2. CASE UNCHANGED epochs
    BY <2>2
  <2>3. ASSUME NEW w \in Windows, NEW c \in Clients, Chat(w, c)
        PROVE  epochs'[call[q].client] = epochs[call[q].client]
    BY <2>1, <2>3, ChatKeeps
  <2>4. ASSUME NEW k \in Aborters, NEW c \in Clients, AbortClient(k, c)
        PROVE  FALSE
    <3>1. k \in {"client", "shutdown"} /\ AborterAt(k, "abort") /\ ~AborterAt(k, "idle")
      BY <2>4, CallsAssumption DEF AbortClient, AborterAt
    <3>2. active \in cancelled \/ (stopping /\ active \in cancelled \cup {0})
      BY <2>1, <3>1 DEF AborterFits, CallsInductive
    <3> QED BY <2>1, <3>2, CallsAssumption DEF Calls
  <2>5. ASSUME NEW w \in Windows, SetWindow(w)
        PROVE  FALSE
    BY <2>1, <2>5, CallsAssumption DEF SetWindow, Calls
  <2>6. ASSUME NEW k \in Aborters, Aborting(k)
        PROVE  UNCHANGED epochs
    BY <2>4, <2>6 DEF Aborting, CloseHit, ClearCache, provider
  <2>7. ASSUME NEW r \in Calls, Calling(r)
        PROVE  UNCHANGED epochs \/ FetchClient(r)
    BY <2>7 DEF Calling, TakeCall, CheckCancelled, BeginCall, OpenCall, RegisterCall, Yield,
                EndOfResponse, AskAgain, LeaveCall, provider
  <2>8. ASSUME NEW r \in Calls, ClaimStop(r) \/ StopCall(r)
        PROVE  UNCHANGED epochs
    BY <2>8 DEF ClaimStop, StopCall, StopAnyway, provider
  <2>9. ASSUME NEW r \in Calls, FetchClient(r)
        PROVE  epochs'[call[q].client] = epochs[call[q].client]
    BY <2>1, <2>3, <2>9 DEF FetchClient, CallsTyped
  <2>10. CASE ShutDownCalls \/ CountReads
    BY <2>10 DEF ShutDownCalls, CountReads, provider
  <2>11. CASE CountChats
    BY <2>3, <2>11 DEF CountChats
  <2> QED BY <2>5, <2>6, <2>7, <2>8, <2>9, <2>10, <2>11 DEF CallsNext
<1> QED BY CallsInvariant, <1>1, PTL DEF CallsSpec, AbortsOnlyStopped

-----------------------------------------------------------------------------
(* The settings of threads. *)

Entries == [known : BOOLEAN, model : ChatModels \cup {Unset}, heat : Heats \cup {Unset},
            title : Names \cup {Unset}, ran : BOOLEAN]

Requests == [pc : {"new", "model", "heat", "title", "enqueue", "enqueued", "refused"},
             thread : SettingsThreads, compact : BOOLEAN, model : ChatModels \cup {Unset},
             heat : Heats \cup {Unset}, title : Names \cup {Unset}, overtaken : BOOLEAN]

SettingsTyped ==
  /\ record \in [SettingsThreads -> Entries]
  /\ starter \in [Starters -> Requests]
  /\ enqueued \in [Starters -> ChatModels \cup {Unset}]
  /\ \A t \in SettingsThreads : record[t].ran => record[t].known /\ record[t].model # Unset

\* What a start that nobody overtook has read of its thread still holds.
ReadsHold(s) ==
  /\ starter[s].pc \in {"heat", "title", "enqueue"} =>
       starter[s].model # Unset /\ (On(s).model # Unset => On(s).model = starter[s].model)
  /\ starter[s].pc \in {"title", "enqueue"} /\ ~starter[s].compact /\ On(s).ran =>
       starter[s].heat = On(s).heat
  /\ StarterIs(s, "enqueue") /\ On(s).title # Unset => starter[s].title = On(s).title

\* A start that has resolved its model has one, overtaken or not; a heat is resolved
\* for chat runs.
StartFits(s) ==
  /\ starter[s].pc \in {"heat", "title", "enqueue"} => starter[s].model # Unset
  /\ StarterIs(s, "enqueued") => enqueued[s] \in ChatModels
  /\ Resolving(s) /\ ~starter[s].overtaken => ReadsHold(s)

SettingsInductive == SettingsTyped /\ \A s \in Starters : StartFits(s)

LEMMA SettingsInitHolds == SettingsInit => SettingsInductive
<1> SUFFICES ASSUME SettingsInit PROVE SettingsInductive
  OBVIOUS
<1>1. NoRecord \in Entries /\ NotAsked \in Requests
  BY DEF NoRecord, NotAsked, Entries, Requests, SettingsThreads
<1>2. SettingsTyped
  BY <1>1 DEF SettingsInit, SettingsTyped, NoRecord
<1>3. \A s \in Starters : starter[s].pc = "new"
  BY DEF SettingsInit, NotAsked
<1> QED BY <1>2, <1>3 DEF SettingsInductive, StartFits, StarterIs, Resolving

\* A thread's entry is written: who looks at the thread is overtaken, and what the
\* others have read holds.
LEMMA WrittenOvertakes ==
  ASSUME SettingsInductive, NEW t \in SettingsThreads, NEW entry \in Entries,
         entry.ran => entry.known /\ entry.model # Unset,
         Written(t, entry) \/ UNCHANGED record,
         NEW s \in Starters, starter'[s] = Overtaken(t, starter)[s], enqueued'[s] = enqueued[s]
  PROVE  starter'[s] \in Requests /\ StartFits(s)'
<1>1. SettingsTyped /\ StartFits(s) /\ starter[s] \in Requests
  BY DEF SettingsInductive, SettingsTyped
<1>2. CASE Resolving(s) /\ starter[s].thread = t
  <2>1. starter'[s] = [starter[s] EXCEPT !.overtaken = TRUE]
    BY <1>2 DEF Overtaken
  <2>2. /\ starter'[s] \in Requests /\ starter'[s].pc = starter[s].pc /\ starter'[s].overtaken
        /\ starter'[s].model = starter[s].model
    BY <1>1, <2>1 DEF Requests
  <2> QED BY <1>1, <1>2, <2>2 DEF StartFits, StarterIs, Resolving
<1>3. CASE ~(Resolving(s) /\ starter[s].thread = t)
  <2>1. starter'[s] = starter[s]
    BY <1>3 DEF Overtaken
  <2>2. Resolving(s) => On(s)' = On(s)
    BY <1>1, <1>3, <2>1 DEF On, Written, SettingsTyped, Requests
  <2>3. ReadsHold(s) /\ Resolving(s) => ReadsHold(s)'
    BY <2>1, <2>2 DEF ReadsHold, StarterIs
  <2> QED BY <1>1, <2>1, <2>3 DEF StartFits, StarterIs, Resolving
<1> QED BY <1>2, <1>3

\* A start goes on: what the others have read holds.
LEMMA StarterMoves ==
  ASSUME SettingsInductive, NEW s \in Starters, NEW req \in Requests,
         starter' = [starter EXCEPT ![s] = req], UNCHANGED <<record, enqueued>>,
         StartFits(s)'
  PROVE  SettingsInductive'
<1>1. SettingsTyped
  BY DEF SettingsInductive
<1>2. SettingsTyped'
  BY <1>1 DEF SettingsTyped
<1>3. ASSUME NEW r \in Starters, r # s
      PROVE  StartFits(r)'
  <2>1. starter'[r] = starter[r] /\ StartFits(r)
    BY <1>1, <1>3 DEF SettingsTyped, SettingsInductive
  <2> QED BY <2>1 DEF StartFits, StarterIs, Resolving, ReadsHold, On
<1> QED BY <1>2, <1>3 DEF SettingsInductive

LEMMA AskStartKeeps ==
  ASSUME SettingsInductive, NEW s \in Starters, NEW t \in SettingsThreads, AskStart(s, t)
  PROVE  SettingsInductive'
<1>1. PICK compact \in BOOLEAN, model \in ChatModels \cup {Unset}, heat \in Heats \cup {Unset},
           title \in Names \cup {Unset} :
        starter' = [starter EXCEPT ![s] =
            [pc |-> "model", thread |-> t, compact |-> compact, model |-> model,
             heat |-> heat, title |-> title, overtaken |-> FALSE]]
  BY DEF AskStart
<1>2. PICK req : req = [pc |-> "model", thread |-> t, compact |-> compact, model |-> model,
                        heat |-> heat, title |-> title, overtaken |-> FALSE]
  OBVIOUS
<1>3. req \in Requests /\ req.pc = "model" /\ starter' = [starter EXCEPT ![s] = req]
  BY <1>1, <1>2 DEF Requests
<1>4. starter'[s] = req
  BY <1>3 DEF SettingsInductive, SettingsTyped
<1>5. StartFits(s)'
  BY <1>3, <1>4 DEF StartFits, StarterIs, ReadsHold
<1> QED BY <1>3, <1>5, StarterMoves DEF AskStart

LEMMA ResolveKeeps ==
  ASSUME SettingsInductive, NEW s \in Starters,
         ResolveModel(s) \/ ResolveHeat(s) \/ ResolveTitle(s)
  PROVE  SettingsInductive'
<1>1. /\ SettingsTyped /\ StartFits(s) /\ starter[s] \in Requests /\ On(s) \in Entries
      /\ UNCHANGED <<record, enqueued>>
      /\ On(s).ran => On(s).model # Unset
  BY DEF SettingsInductive, SettingsTyped, ResolveModel, ResolveHeat, ResolveTitle, On, Requests
<1>2. ASSUME RefuseStart(s)
      PROVE  SettingsInductive'
  <2>1. PICK req : req = StartAnswered("refused")
    OBVIOUS
  <2>2. req \in Requests /\ req.pc = "refused" /\ starter' = [starter EXCEPT ![s] = req]
    BY <1>2, <2>1 DEF RefuseStart, StartAnswered, NotAsked, Requests, SettingsThreads
  <2>3. starter'[s] = req
    BY <1>1, <2>2 DEF SettingsTyped
  <2>4. StartFits(s)'
    BY <2>2, <2>3 DEF StartFits, StarterIs, Resolving
  <2> QED BY <1>1, <2>2, <2>4, StarterMoves
<1>3. ASSUME NEW m \in ModelOf(s), StarterIs(s, "model"),
             starter' = [starter EXCEPT ![s].model = m,
                                        ![s].pc = IF starter[s].compact THEN "title" ELSE "heat"]
      PROVE  SettingsInductive'
  <2>1. PICK req : req = [starter[s] EXCEPT !.model = m,
                                            !.pc = IF starter[s].compact THEN "title" ELSE "heat"]
    OBVIOUS
  <2>2. starter' = [starter EXCEPT ![s] = req]
    BY <1>3, <2>1
  <2>3. m \in ChatModels /\ m # Unset /\ (On(s).model # Unset => On(s).model = m)
    BY <1>1, <1>3, SettingsAssumption DEF ModelOf, Entries, Requests
  <2>4. /\ req \in Requests /\ req.pc \in {"title", "heat"} /\ req.model = m
        /\ req.thread = starter[s].thread /\ req.compact = starter[s].compact
        /\ req.pc = "title" => req.compact
    BY <1>1, <2>1, <2>3 DEF Requests
  <2>5. starter'[s] = req
    BY <1>1, <2>2 DEF SettingsTyped
  <2>6. StartFits(s)'
    BY <1>1, <2>3, <2>4, <2>5 DEF StartFits, StarterIs, ReadsHold, On
  <2> QED BY <1>1, <2>2, <2>4, <2>6, StarterMoves
<1>4. ASSUME NEW h \in HeatOf(s), StarterIs(s, "heat"),
             starter' = [starter EXCEPT ![s].heat = h, ![s].pc = "title"]
      PROVE  SettingsInductive'
  <2>1. PICK req : req = [starter[s] EXCEPT !.heat = h, !.pc = "title"]
    OBVIOUS
  <2>2. starter' = [starter EXCEPT ![s] = req]
    BY <1>4, <2>1
  <2>3. h \in Heats \cup {Unset} /\ (On(s).ran => h = On(s).heat)
    BY <1>1, <1>4 DEF HeatOf, Entries, Requests
  <2>4. /\ req \in Requests /\ req.pc = "title" /\ req.model = starter[s].model /\ req.heat = h
        /\ req.thread = starter[s].thread /\ req.overtaken = starter[s].overtaken
    BY <1>1, <2>1, <2>3 DEF Requests
  <2>5. starter'[s] = req
    BY <1>1, <2>2 DEF SettingsTyped
  <2>6. StartFits(s)'
    BY <1>1, <1>4, <2>3, <2>4, <2>5 DEF StartFits, StarterIs, ReadsHold, On, Resolving
  <2> QED BY <1>1, <2>2, <2>4, <2>6, StarterMoves
<1>5. CASE ResolveTitle(s)
  <2>1. PICK title : title = IF On(s).title # Unset THEN On(s).title ELSE starter[s].title
    OBVIOUS
  <2>2. PICK req : req = [starter[s] EXCEPT !.title = title, !.pc = "enqueue"]
    OBVIOUS
  <2>3. starter[s].pc = "title" /\ starter' = [starter EXCEPT ![s] = req]
    BY <1>5, <2>1, <2>2 DEF ResolveTitle, StarterIs
  <2>4. /\ req \in Requests /\ req.pc = "enqueue" /\ req.model = starter[s].model
        /\ req.heat = starter[s].heat /\ req.title = title /\ req.compact = starter[s].compact
        /\ req.thread = starter[s].thread /\ req.overtaken = starter[s].overtaken
    BY <1>1, <2>1, <2>2 DEF Requests, Entries
  <2>5. starter'[s] = req
    BY <1>1, <2>3 DEF SettingsTyped
  <2>6. StartFits(s)'
    BY <1>1, <2>1, <2>3, <2>4, <2>5 DEF StartFits, StarterIs, ReadsHold, On, Resolving
  <2> QED BY <1>1, <2>3, <2>4, <2>6, StarterMoves
<1> QED BY <1>2, <1>3, <1>4, <1>5 DEF ResolveModel, ResolveHeat

LEMMA EnqueueSettingsKeeps ==
  ASSUME SettingsInductive, NEW s \in Starters, EnqueueSettings(s)
  PROVE  SettingsInductive'
<1>1. /\ SettingsTyped /\ StartFits(s) /\ starter[s] \in Requests /\ StarterIs(s, "enqueue")
  BY DEF SettingsInductive, SettingsTyped, EnqueueSettings
<1>2. PICK t : t = starter[s].thread
  OBVIOUS
<1>3. PICK entry : entry = Entry(s)
  OBVIOUS
<1>4. /\ t \in SettingsThreads /\ starter[s].model \in ChatModels
      /\ entry \in Entries /\ entry.known /\ entry.model # Unset
  BY <1>1, <1>2, <1>3 DEF Requests, Entries, Entry, StartFits, StarterIs
<1>5. Written(t, entry) \/ UNCHANGED record
  BY <1>2, <1>3 DEF EnqueueSettings, Touch
<1>6. PICK req : req = StartAnswered("enqueued")
  OBVIOUS
<1>7. req \in Requests /\ req.pc = "enqueued"
  BY <1>6 DEF StartAnswered, NotAsked, Requests, SettingsThreads
<1>8. /\ starter' = [Overtaken(t, starter) EXCEPT ![s] = req]
      /\ enqueued' = [enqueued EXCEPT ![s] = starter[s].model]
  BY <1>2, <1>6 DEF EnqueueSettings
<1>9. DOMAIN Overtaken(t, starter) = Starters
  BY DEF Overtaken
<1>10. starter'[s] = req /\ enqueued'[s] \in ChatModels
  BY <1>1, <1>4, <1>8, <1>9 DEF SettingsTyped
<1>11. ASSUME NEW r \in Starters, r # s
       PROVE  starter'[r] \in Requests /\ StartFits(r)'
  <2>1. starter'[r] = Overtaken(t, starter)[r] /\ enqueued'[r] = enqueued[r]
    BY <1>1, <1>8, <1>9, <1>11 DEF SettingsTyped
  <2> QED BY <1>4, <1>5, <2>1, WrittenOvertakes
<1>12. StartFits(s)'
  BY <1>7, <1>10 DEF StartFits, StarterIs, Resolving
<1>13. starter' \in [Starters -> Requests]
  BY <1>7, <1>8, <1>9, <1>10, <1>11
<1>14. enqueued' \in [Starters -> ChatModels \cup {Unset}]
  BY <1>1, <1>4, <1>8 DEF SettingsTyped
<1>15. /\ record' \in [SettingsThreads -> Entries]
       /\ \A u \in SettingsThreads : record'[u].ran => record'[u].known /\ record'[u].model # Unset
  BY <1>1, <1>4, <1>5 DEF SettingsTyped, Written
<1> QED BY <1>11, <1>12, <1>13, <1>14, <1>15 DEF SettingsInductive, SettingsTyped

\* A request that starts nothing writes a thread's entry.
LEMMA OtherWriteKeeps ==
  ASSUME SettingsInductive, NEW t \in SettingsThreads, NEW entry \in Entries,
         entry.ran => entry.known /\ entry.model # Unset,
         Written(t, entry), starter' = Overtaken(t, starter), UNCHANGED enqueued
  PROVE  SettingsInductive'
<1>1. SettingsTyped
  BY DEF SettingsInductive
<1>2. \A s \in Starters : starter'[s] \in Requests /\ StartFits(s)'
  BY WrittenOvertakes
<1>3. starter' \in [Starters -> Requests]
  BY <1>2 DEF Overtaken
<1>4. /\ record' \in [SettingsThreads -> Entries]
      /\ \A u \in SettingsThreads : record'[u].ran => record'[u].known /\ record'[u].model # Unset
  BY <1>1 DEF SettingsTyped, Written
<1> QED BY <1>1, <1>2, <1>3, <1>4 DEF SettingsInductive, SettingsTyped

LEMMA OtherRequestsKeep ==
  ASSUME SettingsInductive,
         NEW t \in SettingsThreads, NEW title \in Names,
         RenameThread(t, title) \/ CopySettings \/ DeleteSettings(t)
  PROVE  SettingsInductive'
<1>1. /\ \A u \in SettingsThreads : record[u] \in Entries
      /\ \A u \in SettingsThreads : record[u].ran => record[u].known /\ record[u].model # Unset
      /\ {"chat", "copy"} \subseteq SettingsThreads
  BY DEF SettingsInductive, SettingsTyped, SettingsThreads
<1>2. CASE RenameThread(t, title)
  <2>1. PICK entry : entry = [record[t] EXCEPT !.known = TRUE, !.title = title]
    OBVIOUS
  <2>2. entry \in Entries /\ (entry.ran => entry.known /\ entry.model # Unset)
    BY <1>1, <2>1 DEF Entries
  <2> QED BY <1>2, <2>1, <2>2, OtherWriteKeeps DEF RenameThread
<1>3. CASE CopySettings
  <2>1. PICK entry : entry = [record["chat"] EXCEPT !.ran = FALSE, !.title = Unset]
    OBVIOUS
  <2>2. entry \in Entries /\ (entry.ran => entry.known /\ entry.model # Unset)
    BY <1>1, <2>1 DEF Entries
  <2> QED BY <1>1, <1>3, <2>1, <2>2, OtherWriteKeeps DEF CopySettings
<1>4. CASE DeleteSettings(t)
  <2>1. NoRecord \in Entries /\ ~NoRecord.ran
    BY DEF NoRecord, Entries
  <2> QED BY <1>4, <2>1, OtherWriteKeeps DEF DeleteSettings
<1> QED BY <1>2, <1>3, <1>4

LEMMA SettingsNextKeeps == SettingsInductive /\ [SettingsNext]_settingsVars => SettingsInductive'
<1> SUFFICES ASSUME SettingsInductive, [SettingsNext]_settingsVars PROVE SettingsInductive'
  OBVIOUS
<1>1. ASSUME NEW s \in Starters,
             \/ \E t \in SettingsThreads : AskStart(s, t)
             \/ ResolveModel(s) \/ ResolveHeat(s) \/ ResolveTitle(s) \/ EnqueueSettings(s)
      PROVE  SettingsInductive'
  BY <1>1, AskStartKeeps, ResolveKeeps, EnqueueSettingsKeeps
<1>2. ASSUME NEW t \in SettingsThreads, NEW title \in Names, RenameThread(t, title)
      PROVE  SettingsInductive'
  BY <1>2, OtherRequestsKeep
<1>3. ASSUME NEW t \in SettingsThreads, DeleteSettings(t)
      PROVE  SettingsInductive'
  <2>1. NoRecord \in Entries /\ ~NoRecord.ran
    BY DEF NoRecord, Entries
  <2> QED BY <1>3, <2>1, OtherWriteKeeps DEF DeleteSettings
<1>4. CASE CopySettings
  <2>1. PICK entry : entry = [record["chat"] EXCEPT !.ran = FALSE, !.title = Unset]
    OBVIOUS
  <2>2. entry \in Entries /\ ~entry.ran /\ "copy" \in SettingsThreads
    BY <2>1 DEF Entries, SettingsInductive, SettingsTyped, SettingsThreads
  <2> QED BY <1>4, <2>1, <2>2, OtherWriteKeeps DEF CopySettings
<1>5. CASE UNCHANGED settingsVars
  <2>1. UNCHANGED <<record, starter, enqueued>>
    BY <1>5 DEF settingsVars
  <2> QED BY <2>1 DEF SettingsInductive, SettingsTyped, StartFits, StarterIs, Resolving,
                      ReadsHold, On
<1> QED BY <1>1, <1>2, <1>3, <1>4, <1>5 DEF SettingsNext

\* What a start has read of its thread holds until another request overtakes it; and
\* the types, among them that a thread that has run has a model.
THEOREM SettingsInvariant == SettingsSpec => []SettingsInductive
BY SettingsInitHolds, SettingsNextKeeps, PTL DEF SettingsSpec

\* A thread that has run is known and has a model, and a start is enqueued with a model
\* (_resolve_thread_model, create_run).
THEOREM ThreadsHaveModels == SettingsSpec => []SettingsTypeOK
<1>1. SettingsInductive => SettingsTypeOK
  <2> SUFFICES ASSUME SettingsInductive PROVE SettingsTypeOK
    OBVIOUS
  <2>1. \A t \in SettingsThreads : /\ record[t].model \in ChatModels \cup {Unset}
                                   /\ record[t].heat \in Heats \cup {Unset}
    BY DEF SettingsInductive, SettingsTyped, Entries
  <2>2. \A t \in SettingsThreads : record[t].ran => record[t].known /\ record[t].model # Unset
    BY DEF SettingsInductive, SettingsTyped
  <2>3. \A s \in Starters : StarterIs(s, "enqueued") => enqueued[s] \in ChatModels
    BY DEF SettingsInductive, StartFits
  <2> QED BY <2>1, <2>2, <2>3 DEF SettingsTypeOK
<1> QED BY SettingsInvariant, <1>1, PTL

\* A start that nobody overtakes runs its thread with the model the thread is locked
\* to, and leaves the model, the temperature and the title as they are
\* (_resolve_thread_model and the others read what create_run then writes).
THEOREM ThreadKeepsItsLock == SettingsSpec => LockIsKept
<1> DEFINE KeptBy(s) ==
      LET old == On(s)
          new == record'[starter[s].thread] IN
      StarterIs(s, "enqueue") /\ starter'[s].pc = "enqueued" /\ ~starter[s].overtaken =>
        /\ old.model # Unset => enqueued'[s] = old.model
        /\ old.ran => new.model = old.model /\ new.heat = old.heat
        /\ old.title # Unset => new.title = old.title
<1>1. SettingsInductive /\ [SettingsNext]_settingsVars =>
        [\A s \in Starters : KeptBy(s)]_settingsVars
  <2> SUFFICES ASSUME SettingsInductive, SettingsNext, NEW s \in Starters,
                      StarterIs(s, "enqueue"), starter'[s].pc = "enqueued", ~starter[s].overtaken
               PROVE  KeptBy(s)
    OBVIOUS
  <2>1. /\ SettingsTyped /\ StartFits(s) /\ starter[s] \in Requests /\ On(s) \in Entries
        /\ On(s).ran => On(s).model # Unset
    BY DEF SettingsInductive, SettingsTyped, On, Requests
  <2>2. /\ On(s).model # Unset => starter[s].model = On(s).model
        /\ On(s).ran /\ ~starter[s].compact => starter[s].heat = On(s).heat
        /\ On(s).title # Unset => starter[s].title = On(s).title
    BY <2>1 DEF StartFits, Resolving, StarterIs, ReadsHold
  <2>3. ASSUME NEW t \in SettingsThreads, starter' = Overtaken(t, starter)
        PROVE  FALSE
    <3>1. starter'[s].pc = starter[s].pc
      BY <2>1, <2>3 DEF Overtaken, Requests
    <3> QED BY <3>1 DEF StarterIs
  <2>4. ASSUME NEW r \in Starters, r # s, NEW req, starter' = [starter EXCEPT ![r] = req]
        PROVE  FALSE
    BY <2>1, <2>4 DEF SettingsTyped, StarterIs
  <2>5. EnqueueSettings(s)
    <3>1. ASSUME NEW r \in Starters, NEW t \in SettingsThreads, AskStart(r, t)
          PROVE  FALSE
      <4>1. r # s
        BY <3>1 DEF AskStart, StarterIs
      <4>2. PICK req : starter' = [starter EXCEPT ![r] = req]
        BY <3>1 DEF AskStart
      <4> QED BY <2>4, <4>1, <4>2
    <3>2. ASSUME NEW r \in Starters, ResolveModel(r) \/ ResolveHeat(r) \/ ResolveTitle(r)
          PROVE  FALSE
      <4>1. r # s
        BY <3>2 DEF ResolveModel, ResolveHeat, ResolveTitle, StarterIs
      <4>2. starter'[s] = starter[s]
        BY <2>1, <3>2, <4>1 DEF SettingsTyped, ResolveModel, ResolveHeat, ResolveTitle, RefuseStart
      <4> QED BY <4>2 DEF StarterIs
    <3>3. ASSUME NEW r \in Starters, r # s, EnqueueSettings(r)
          PROVE  FALSE
      <4>1. starter'[s] = Overtaken(starter[r].thread, starter)[s]
        BY <3>3 DEF EnqueueSettings, Overtaken
      <4>2. starter'[s].pc = starter[s].pc
        BY <2>1, <4>1 DEF Overtaken, Requests
      <4> QED BY <4>2 DEF StarterIs
    <3>4. "copy" \in SettingsThreads
      BY DEF SettingsThreads
    <3> QED BY <2>3, <3>1, <3>2, <3>3, <3>4 DEF SettingsNext, RenameThread, DeleteSettings,
                                                CopySettings
  <2>6. enqueued'[s] = starter[s].model
    BY <2>1, <2>5 DEF EnqueueSettings, SettingsTyped
  <2>7. CASE starter[s].compact
    BY <2>2, <2>5, <2>6, <2>7 DEF EnqueueSettings, Touch, On
  <2>8. CASE ~starter[s].compact
    <3>1. record' = [record EXCEPT ![starter[s].thread] = Entry(s)]
      BY <2>5, <2>8 DEF EnqueueSettings, Touch, Written
    <3>2. record'[starter[s].thread] = Entry(s)
      BY <2>1, <3>1 DEF SettingsTyped, Requests
    <3> QED BY <2>1, <2>2, <2>6, <2>8, <3>2 DEF Entry
  <2> QED BY <2>7, <2>8
<1> QED BY SettingsInvariant, <1>1, PTL DEF SettingsSpec, LockIsKept

-----------------------------------------------------------------------------
(* The image of windowed programs. *)

AskPcs == {"idle", "inspect_status", "inspect_prepare", "settle_status", "settle_prepare",
           "claim", "answered"}
BuildPcs == {"none", "spawn", "record", "wait", "refused", "conclude", "done"}

BuildsTyped ==
  /\ runtime \in {"missing", "preparing", "ready", "failed"}
  /\ image \in BOOLEAN /\ halted \in BOOLEAN
  /\ ask \in [Asks -> AskPcs] /\ build \in [Asks -> BuildPcs] /\ seen \in [Asks -> BOOLEAN]
  /\ process \in {NoAsk} \cup UnderWay

\* A docker build that runs is waited for, or about to be; only a request that was
\* answered has started one; and what an inspection found is there.
BuildFits(a) ==
  /\ a \in building => build[a] \in {"record", "wait"}
  /\ build[a] # "none" => ask[a] = "answered"
  /\ seen[a] => image

BuildInductive ==
  /\ BuildsTyped /\ building \subseteq Asks
  /\ \A a \in Asks : BuildFits(a)
  /\ PreparingIsReal /\ ReadyIsThere

LEMMA BuildInitHolds == BuildInit => BuildInductive
<1> SUFFICES ASSUME BuildInit PROVE BuildInductive
  OBVIOUS
<1>1. BuildsTyped /\ building \subseteq Asks
  BY DEF BuildInit, BuildsTyped, AskPcs, BuildPcs
<1>2. \A a \in Asks : BuildFits(a)
  BY DEF BuildInit, BuildFits
<1>3. PreparingIsReal /\ ReadyIsThere
  BY DEF BuildInit, PreparingIsReal, ReadyIsThere
<1> QED BY <1>1, <1>2, <1>3 DEF BuildInductive

\* A request that looks or settles starts no build and ends none.
LEMMA AskKeeps ==
  ASSUME BuildInductive, NEW a \in Asks, LookUp(a) \/ Inspect(a) \/ Settle(a) \/ FindsBuild(a)
  PROVE  BuildInductive'
<1>1. /\ BuildsTyped /\ building \subseteq Asks /\ \A b \in Asks : BuildFits(b)
      /\ PreparingIsReal /\ ReadyIsThere
      /\ UNCHANGED <<image, build, building, process, halted>>
  BY DEF BuildInductive, LookUp, Inspect, Settle, FindsBuild
<1>2. PICK pc \in AskPcs : ask' = [ask EXCEPT ![a] = pc]
  BY DEF LookUp, Inspect, Settle, FindsBuild, AskGoes, AskPcs
<1>3. ask[a] # "answered"
  BY DEF LookUp, Inspect, Settle, FindsBuild
<1>4. seen' \in [Asks -> BOOLEAN] /\ \A b \in Asks : seen'[b] => image
  <2>1. CASE UNCHANGED seen
    BY <1>1, <2>1 DEF BuildsTyped, BuildFits
  <2>2. CASE Inspected(a)
    <3>1. PICK found \in {FALSE, image} : seen' = [seen EXCEPT ![a] = found]
      BY <2>2 DEF Inspected
    <3> QED BY <1>1, <3>1 DEF BuildsTyped, BuildFits
  <2> QED BY <2>1, <2>2 DEF LookUp, Inspect, Settle, FindsBuild
<1>5. /\ runtime' \in {"missing", "preparing", "ready", "failed"}
      /\ runtime' = "preparing" => runtime = "preparing"
      /\ runtime' = "ready" => image
  BY <1>1 DEF BuildsTyped, BuildFits, ReadyIsThere, LookUp, Inspect, Settle, FindsBuild
<1>6. UnderWay' = UnderWay
  BY <1>1 DEF UnderWay
<1>7. BuildsTyped'
  BY <1>1, <1>2, <1>4, <1>5, <1>6 DEF BuildsTyped
<1>8. ASSUME NEW b \in Asks
      PROVE  BuildFits(b)'
  BY <1>1, <1>2, <1>3, <1>4 DEF BuildFits, BuildsTyped
<1>9. PreparingIsReal' /\ ReadyIsThere'
  BY <1>1, <1>5, <1>6 DEF PreparingIsReal, ReadyIsThere
<1> QED BY <1>1, <1>7, <1>8, <1>9 DEF BuildInductive

LEMMA StartBuildKeeps ==
  ASSUME BuildInductive, NEW a \in Asks, StartBuild(a)
  PROVE  BuildInductive'
<1>1. /\ BuildsTyped /\ building \subseteq Asks /\ \A b \in Asks : BuildFits(b)
      /\ UNCHANGED <<image, seen, building, process, halted>>
      /\ ask[a] = "claim" /\ ask' = [ask EXCEPT ![a] = "answered"]
      /\ build' = [build EXCEPT ![a] = "spawn"] /\ runtime' = "preparing"
  BY DEF BuildInductive, StartBuild, AskGoes, BuildGoes
<1>2. build[a] = "none" /\ a \notin building /\ a \in UnderWay' /\ UnderWay \subseteq UnderWay'
  BY <1>1 DEF BuildFits, BuildsTyped, UnderWay
<1>3. BuildsTyped'
  BY <1>1, <1>2 DEF BuildsTyped, AskPcs, BuildPcs
<1>4. ASSUME NEW b \in Asks
      PROVE  BuildFits(b)'
  BY <1>1, <1>2 DEF BuildFits, BuildsTyped
<1>5. PreparingIsReal' /\ ReadyIsThere'
  BY <1>1, <1>2 DEF PreparingIsReal, ReadyIsThere
<1> QED BY <1>1, <1>3, <1>4, <1>5 DEF BuildInductive

\* The thread of a build goes on, and is not done; or docker build ends by itself, or
\* is killed.
LEMMA BuildGoesOn ==
  ASSUME BuildInductive,
         NEW a \in Asks, Spawn(a) \/ RecordProcess(a) \/ BuildRuns(a) \/ BuildReturns(a) \/ Halt
  PROVE  BuildInductive'
<1>1. /\ BuildsTyped /\ building \subseteq Asks /\ \A b \in Asks : BuildFits(b)
      /\ PreparingIsReal /\ ReadyIsThere
      /\ UNCHANGED <<runtime, ask>> /\ image' \in BOOLEAN /\ (image => image')
      /\ halted' \in BOOLEAN
  BY DEF BuildInductive, BuildsTyped, Spawn, RecordProcess, BuildRuns, BuildReturns, Halt
<1>2. /\ build' \in [Asks -> BuildPcs]
      /\ \A b \in Asks : build[b] \notin {"none", "done"} <=> build'[b] \notin {"none", "done"}
      /\ \A b \in Asks : build'[b] # "none" => build[b] # "none"
  BY <1>1 DEF BuildsTyped, BuildPcs, Spawn, RecordProcess, BuildRuns, BuildReturns, Halt, BuildGoes
<1>3. UnderWay' = UnderWay
  BY <1>2 DEF UnderWay
<1>4. seen' \in [Asks -> BOOLEAN] /\ \A b \in Asks : seen'[b] => image
  <2>1. CASE UNCHANGED seen
    BY <1>1, <2>1 DEF BuildsTyped, BuildFits
  <2>2. CASE Inspected(a)
    <3>1. PICK found \in {FALSE, image} : seen' = [seen EXCEPT ![a] = found]
      BY <2>2 DEF Inspected
    <3> QED BY <1>1, <3>1 DEF BuildsTyped, BuildFits
  <2> QED BY <2>1, <2>2 DEF Spawn, RecordProcess, BuildRuns, BuildReturns, Halt
<1>5. /\ building' \subseteq Asks
      /\ \A b \in Asks : b \in building' => build'[b] \in {"record", "wait"}
  BY <1>1 DEF BuildsTyped, BuildFits, Spawn, RecordProcess, BuildRuns, BuildReturns, Halt, BuildGoes
<1>6. process' \in {NoAsk} \cup UnderWay
  BY <1>1 DEF BuildsTyped, UnderWay, Spawn, RecordProcess, BuildRuns, BuildReturns, Halt
<1>7. BuildsTyped'
  BY <1>1, <1>2, <1>3, <1>4, <1>6 DEF BuildsTyped
<1>8. ASSUME NEW b \in Asks
      PROVE  BuildFits(b)'
  BY <1>1, <1>2, <1>4, <1>5 DEF BuildFits
<1>9. PreparingIsReal' /\ ReadyIsThere'
  BY <1>1, <1>3 DEF PreparingIsReal, ReadyIsThere
<1> QED BY <1>5, <1>7, <1>8, <1>9 DEF BuildInductive

\* A build that is over leaves "preparing" behind, whoever else is building.
LEMMA ConcludeKeeps ==
  ASSUME BuildInductive, NEW a \in Asks, Conclude(a)
  PROVE  BuildInductive'
<1>1. /\ BuildsTyped /\ building \subseteq Asks /\ \A b \in Asks : BuildFits(b)
      /\ UNCHANGED <<image, ask, seen, building, halted>>
      /\ build[a] \in {"conclude", "refused"} /\ build' = [build EXCEPT ![a] = "done"]
      /\ runtime' \in {"ready", "failed"} /\ (runtime' = "ready" => seen[a]) /\ process' = NoAsk
  BY DEF BuildInductive, Conclude, Concluded, Outcomes, BuildGoes
<1>2. BuildsTyped'
  BY <1>1 DEF BuildsTyped, BuildPcs
<1>3. ASSUME NEW b \in Asks
      PROVE  BuildFits(b)'
  BY <1>1 DEF BuildFits, BuildsTyped
<1>4. PreparingIsReal' /\ ReadyIsThere'
  BY <1>1 DEF PreparingIsReal, ReadyIsThere, BuildFits
<1> QED BY <1>1, <1>2, <1>3, <1>4 DEF BuildInductive

LEMMA BuildNextKeeps == BuildInductive /\ [BuildNext]_buildVars => BuildInductive'
<1> SUFFICES ASSUME BuildInductive, [BuildNext]_buildVars PROVE BuildInductive'
  OBVIOUS
<1>1. ASSUME NEW a \in Asks, LookUp(a) \/ Answering(a) \/ Building(a) \/ BuildRuns(a)
      PROVE  BuildInductive'
  BY <1>1, AskKeeps, StartBuildKeeps, BuildGoesOn, ConcludeKeeps DEF Answering, Building, Claim
<1>2. CASE Halt
  <2>1. /\ UNCHANGED <<runtime, image, ask, seen, build, process>> /\ halted' \in BOOLEAN
        /\ building' \subseteq building
    BY <1>2 DEF Halt
  <2> QED BY <2>1 DEF BuildInductive, BuildsTyped, BuildFits, PreparingIsReal, ReadyIsThere, UnderWay
<1>3. CASE UNCHANGED buildVars
  <2>1. UNCHANGED <<runtime, image, ask, seen, build, building, process, halted>>
    BY <1>3 DEF buildVars
  <2> QED BY <2>1 DEF BuildInductive, BuildsTyped, BuildFits, PreparingIsReal, ReadyIsThere, UnderWay
<1> QED BY <1>1, <1>2, <1>3 DEF BuildNext

\* Whoever asks while images are built (status, prepare, _build and shutdown of
\* PythonGuiRuntimeManager): the runtime is said to be prepared only while a build is
\* under way, and to be ready only if its image is there; the process that a shutdown
\* would kill belongs to a build that is not over.
THEOREM RuntimeIsWhatItSays == BuildSpec => [](BuildTypeOK /\ PreparingIsReal /\ ReadyIsThere)
<1>1. BuildInductive => BuildTypeOK /\ PreparingIsReal /\ ReadyIsThere
  <2> SUFFICES ASSUME BuildInductive PROVE BuildTypeOK
    BY DEF BuildInductive
  <2>1. BuildsTyped /\ building \subseteq Asks /\ \A a \in Asks : BuildFits(a)
    BY DEF BuildInductive
  <2>2. building \subseteq UnderWay
    BY <2>1 DEF BuildFits, UnderWay
  <2>3. ASSUME NEW a \in Asks
        PROVE  ask[a] \in AskPcs /\ build[a] \in BuildPcs /\ seen[a] \in BOOLEAN
    BY <2>1 DEF BuildsTyped
  <2> QED BY <2>1, <2>2, <2>3 DEF BuildTypeOK, BuildsTyped, BuildFits, AskPcs, BuildPcs
<1> QED BY BuildInitHolds, BuildNextKeeps, <1>1, PTL DEF BuildSpec

-----------------------------------------------------------------------------
(* Downloads. *)

LoaderPcs == {"none", "begin", "open", "register", "read", "succeeds", "fails", "completed",
              "failed", "leave", "done"}
PullStates == [model : Models, status : PullActive \cup PullTerminal, cancel : BOOLEAN]

\* The ids of the pulls that were started.
Started == {Pulls[i] : i \in 1..Cardinality(DOMAIN pull)}

PullsTyped ==
  /\ pull \in [DOMAIN pull -> PullStates]
  /\ Cardinality(DOMAIN pull) \in 0..Len(Pulls) /\ IsFiniteSet(DOMAIN pull)
  /\ DOMAIN pull = Started
  /\ loader \in [PullIds -> LoaderPcs] /\ response \in [PullIds -> {"none", "open", "closed"}]

\* Only a pull that was started has a thread; a response is open, and registered, only
\* while its thread is there; and a thread goes on after the end of its pull only if
\* that was cancelled.
PullFits(p) ==
  /\ loader[p] # "none" => p \in DOMAIN pull
  /\ response[p] = "open" => loader[p] \in {"register", "read"}
  /\ p \in registered => loader[p] \notin {"none", "begin", "open", "register", "done"}
  /\ p \in DOMAIN pull /\ Status(p) \in PullTerminal => pull[p].cancel \/ loader[p] \in {"leave", "done"}

PullsInductive == PullsTyped /\ \A p \in PullIds : PullFits(p)

LEMMA PullsInitHolds == PullsInit => PullsInductive
<1> SUFFICES ASSUME PullsInit PROVE PullsInductive
  OBVIOUS
<1>1. pull = << >> /\ DOMAIN pull = {}
  BY DEF PullsInit
<1>2. Cardinality(DOMAIN pull) = 0 /\ IsFiniteSet(DOMAIN pull) /\ Started = {}
  BY <1>1, FS_EmptySet DEF Started
<1>3. PullsTyped
  BY <1>1, <1>2, PullsAssumption DEF PullsInit, PullsTyped, LoaderPcs
<1>4. \A p \in PullIds : PullFits(p)
  BY <1>1 DEF PullsInit, PullFits
<1> QED BY <1>3, <1>4 DEF PullsInductive

\* The pull that is started next has an id that no pull had.
LEMMA NextPullIsNew ==
  ASSUME PullsTyped, Cardinality(DOMAIN pull) < Len(Pulls),
         NEW p, p = Pulls[Cardinality(DOMAIN pull) + 1]
  PROVE  /\ p \in PullIds /\ p \notin DOMAIN pull
         /\ IsFiniteSet(DOMAIN pull \cup {p})
         /\ Cardinality(DOMAIN pull \cup {p}) = Cardinality(DOMAIN pull) + 1
         /\ DOMAIN pull \cup {p} = {Pulls[i] : i \in 1..(Cardinality(DOMAIN pull) + 1)}
<1>1. PICK n \in Nat : n = Cardinality(DOMAIN pull)
  BY DEF PullsTyped
<1>2. /\ DOMAIN Pulls = 1..Len(Pulls) /\ Len(Pulls) \in Nat
      /\ \A i, j \in DOMAIN Pulls : Pulls[i] = Pulls[j] => i = j
  BY PullsAssumption DEF IsInjective
<1>3. DOMAIN pull = {Pulls[i] : i \in 1..n} /\ IsFiniteSet(DOMAIN pull)
  BY <1>1 DEF PullsTyped, Started
<1>4. p \in PullIds
  BY <1>1, <1>2 DEF PullIds, ToSet
<1>5. p \notin DOMAIN pull
  <2> SUFFICES ASSUME p \in DOMAIN pull PROVE FALSE
    OBVIOUS
  <2>1. PICK i \in 1..n : p = Pulls[i]
    BY <1>3
  <2>2. p = Pulls[n + 1] /\ i \in DOMAIN Pulls /\ n + 1 \in DOMAIN Pulls /\ i # n + 1
    BY <1>1, <1>2
  <2> QED BY <1>2, <2>1, <2>2
<1>6. DOMAIN pull \cup {p} = {Pulls[i] : i \in 1..(n + 1)}
  <2>1. 1..(n + 1) = (1..n) \cup {n + 1}
    OBVIOUS
  <2>2. p = Pulls[n + 1]
    BY <1>1
  <2> QED BY <1>3, <2>1, <2>2
<1> QED BY <1>1, <1>3, <1>4, <1>5, <1>6, FS_AddElement

LEMMA StartPullKeeps ==
  ASSUME PullsInductive, NEW m \in Models, StartPull(m)
  PROVE  /\ PullsInductive'
         /\ \A p \in DOMAIN pull : pull'[p] = pull[p]
<1>1. PICK p : p = Pulls[Cardinality(DOMAIN pull) + 1]
  OBVIOUS
<1>2. PullsTyped /\ Cardinality(DOMAIN pull) < Len(Pulls) /\ UNCHANGED <<response, registered>>
  BY DEF PullsInductive, StartPull
<1>3. CASE UNCHANGED <<pull, loader>>
  BY <1>2, <1>3 DEF PullsInductive, PullsTyped, Started, PullFits, Status
<1>4. CASE /\ pull' = [q \in DOMAIN pull \cup {p} |-> IF q = p THEN NewPull(m) ELSE pull[q]]
           /\ loader' = [loader EXCEPT ![p] = "begin"]
  <2>1. /\ p \in PullIds /\ p \notin DOMAIN pull
        /\ IsFiniteSet(DOMAIN pull \cup {p})
        /\ Cardinality(DOMAIN pull \cup {p}) = Cardinality(DOMAIN pull) + 1
        /\ DOMAIN pull \cup {p} = {Pulls[i] : i \in 1..(Cardinality(DOMAIN pull) + 1)}
    BY <1>1, <1>2, NextPullIsNew
  <2>2. DOMAIN pull' = DOMAIN pull \cup {p}
    BY <1>4
  <2>3. Cardinality(DOMAIN pull') = Cardinality(DOMAIN pull) + 1
    BY <2>1, <2>2
  <2>4. NewPull(m) \in PullStates /\ NewPull(m).status = "queued"
    BY DEF NewPull, PullStates, PullActive
  <2>5. /\ \A q \in DOMAIN pull : pull'[q] = pull[q] /\ pull'[q] \in PullStates
        /\ pull'[p] = NewPull(m)
    BY <1>2, <1>4, <2>1 DEF PullsTyped
  <2>6. pull' \in [DOMAIN pull' -> PullStates]
    BY <1>4, <2>2, <2>4, <2>5
  <2>7. PullsTyped'
    <3>1. Started' = {Pulls[i] : i \in 1..(Cardinality(DOMAIN pull) + 1)}
      BY <2>3 DEF Started
    <3>2. Cardinality(DOMAIN pull') \in 0..Len(Pulls)
      BY <1>2, <2>3, PullsAssumption DEF PullsTyped
    <3>3. loader' \in [PullIds -> LoaderPcs] /\ response' \in [PullIds -> {"none", "open", "closed"}]
      BY <1>2, <1>4 DEF PullsTyped, LoaderPcs
    <3> QED BY <2>1, <2>2, <2>6, <3>1, <3>2, <3>3 DEF PullsTyped
  <2>8. ASSUME NEW q \in PullIds
        PROVE  PullFits(q)'
    <3>1. CASE q = p
      <4>1. loader[p] = "none" /\ response[p] # "open" /\ p \notin registered
        BY <2>1 DEF PullsInductive, PullFits
      <4>2. loader'[p] = "begin"
        BY <1>2, <1>4, <2>1 DEF PullsTyped
      <4> QED BY <1>2, <2>2, <2>4, <2>5, <3>1, <4>1, <4>2 DEF PullFits, Status, PullTerminal
    <3>2. CASE q # p
      <4>1. loader'[q] = loader[q] /\ PullFits(q)
        BY <1>2, <1>4, <3>2 DEF PullsInductive, PullsTyped
      <4> QED BY <1>2, <2>2, <2>5, <3>2, <4>1 DEF PullFits, Status
    <3> QED BY <3>1, <3>2
  <2> QED BY <2>5, <2>7, <2>8 DEF PullsInductive
<1> QED BY <1>1, <1>3, <1>4 DEF StartPull

\* A step of the thread of a pull, or a cancel of it, changes that pull only; and it
\* does not change its status once that is final.
LEMMA PullStep ==
  ASSUME PullsInductive, NEW p \in PullIds,
         NEW pc \in LoaderPcs, loader' = [loader EXCEPT ![p] = pc],
         NEW state, pull' = [pull EXCEPT ![p] = state],
         p \in DOMAIN pull => state \in PullStates,
         p \in DOMAIN pull /\ Status(p) \in PullTerminal => state = pull[p],
         NEW answer \in {"none", "open", "closed"}, response' = [response EXCEPT ![p] = answer],
         registered' \in {registered, registered \cup {p}, registered \ {p}},
         pc # "none" => p \in DOMAIN pull,
         answer = "open" => pc \in {"register", "read"},
         p \in registered' => pc \notin {"none", "begin", "open", "register", "done"},
         p \in DOMAIN pull /\ state.status \in PullTerminal =>
           state.cancel \/ pc \in {"leave", "done"}
  PROVE  /\ PullsInductive'
         /\ \A q \in DOMAIN pull : Status(q) \in PullTerminal => Status(q)' = Status(q)
<1>1. PullsTyped /\ DOMAIN pull' = DOMAIN pull
  BY DEF PullsInductive
<1>2. \A q \in DOMAIN pull : /\ q # p => pull'[q] = pull[q]
                             /\ q = p => pull'[q] = state
  BY <1>1 DEF PullsTyped
<1>3. PullsTyped'
  <2>1. pull' \in [DOMAIN pull' -> PullStates]
    BY <1>1, <1>2 DEF PullsTyped
  <2> QED BY <1>1, <2>1 DEF PullsTyped, Started
<1>4. ASSUME NEW q \in PullIds
      PROVE  PullFits(q)'
  <2>1. CASE q = p
    <3>1. loader'[p] = pc /\ response'[p] = answer
      BY <1>1 DEF PullsTyped
    <3> QED BY <1>1, <1>2, <2>1, <3>1 DEF PullFits, Status
  <2>2. CASE q # p
    <3>1. /\ loader'[q] = loader[q] /\ response'[q] = response[q] /\ PullFits(q)
          /\ q \in registered' <=> q \in registered
      BY <1>1, <2>2 DEF PullsTyped, PullsInductive
    <3> QED BY <1>1, <1>2, <2>2, <3>1 DEF PullFits, Status
  <2> QED BY <2>1, <2>2
<1>5. \A q \in DOMAIN pull : Status(q) \in PullTerminal => Status(q)' = Status(q)
  BY <1>1, <1>2 DEF Status
<1> QED BY <1>3, <1>4, <1>5 DEF PullsInductive

\* What is not assigned is assigned what it was.
LEMMA PullsStand ==
  ASSUME PullsInductive, NEW p \in PullIds
  PROVE  /\ loader = [loader EXCEPT ![p] = loader[p]] /\ loader[p] \in LoaderPcs
         /\ response = [response EXCEPT ![p] = response[p]]
         /\ response[p] \in {"none", "open", "closed"}
         /\ pull = [pull EXCEPT ![p] = pull[p]]
         /\ p \in DOMAIN pull => pull[p] \in PullStates
BY DEF PullsInductive, PullsTyped

\* A new status is a new state of the pull.
LEMMA UpdatedState ==
  ASSUME PullsInductive, NEW p \in PullIds, NEW s \in PullActive \cup PullTerminal, Updated(p, s),
         NEW state, state = [pull[p] EXCEPT !.status = s]
  PROVE  /\ pull' = [pull EXCEPT ![p] = state]
         /\ p \in DOMAIN pull => state \in PullStates /\ state.status = s /\ state.cancel = pull[p].cancel
BY DEF Updated, PullsInductive, PullsTyped, PullStates

\* A cancelled pull is a pull, with its flag set.
LEMMA CancelledState ==
  ASSUME NEW r \in PullStates, NEW state, state = [r EXCEPT !.status = "cancelled", !.cancel = TRUE]
  PROVE  state \in PullStates /\ state.cancel
<1>1. r \in [model : Models, status : PullActive \cup PullTerminal, cancel : BOOLEAN]
  BY DEF PullStates
<1>2. "cancelled" \in PullActive \cup PullTerminal
  BY DEF PullTerminal
<1>3. state \in [model : Models, status : PullActive \cup PullTerminal, cancel : BOOLEAN]
  BY <1>1, <1>2
<1>4. state.cancel
  BY <1>1
<1> QED BY <1>3, <1>4 DEF PullStates

LEMMA CancelPullKeeps ==
  ASSUME PullsInductive, NEW p \in PullIds, MarksCancelled(p), UNCHANGED <<loader, response, registered>>
  PROVE  /\ PullsInductive'
         /\ \A q \in DOMAIN pull : Status(q) \in PullTerminal => Status(q)' = Status(q)
<1>1. CASE Status(p) \in PullActive /\ pull' = [pull EXCEPT ![p].status = "cancelled", ![p].cancel = TRUE]
  <2>1. PICK state : state = [pull[p] EXCEPT !.status = "cancelled", !.cancel = TRUE]
    OBVIOUS
  <2>2. pull' = [pull EXCEPT ![p] = state]
    BY <1>1, <2>1
  <2>3. p \in DOMAIN pull => state \in PullStates /\ state.cancel
    BY <2>1, PullsStand, CancelledState
  <2>4. ~(Status(p) \in PullTerminal)
    BY <1>1 DEF PullActive, PullTerminal
  <2>5. PullFits(p)
    BY DEF PullsInductive
  <2> QED BY <2>2, <2>3, <2>4, <2>5, PullsStand, PullStep DEF PullFits
<1>2. CASE UNCHANGED pull
  BY <1>2 DEF PullsInductive, PullsTyped, Started, PullFits, Status
<1> QED BY <1>1, <1>2 DEF MarksCancelled

LEMMA CloseResponseKeeps ==
  ASSUME PullsInductive, NEW p \in PullIds, CloseResponse(p)
  PROVE  PullsInductive'
<1>1. /\ UNCHANGED <<pull, loader, registered>> /\ response' = [response EXCEPT ![p] = "closed"]
      /\ PullFits(p)
  BY DEF CloseResponse, PullsInductive
<1>2. pull' = [pull EXCEPT ![p] = pull[p]] /\ loader' = [loader EXCEPT ![p] = loader[p]]
  BY <1>1, PullsStand
<1>3. p \in DOMAIN pull => pull[p] \in PullStates
  BY PullsStand
<1> QED BY <1>1, <1>2, <1>3, PullsStand, PullStep DEF PullFits, Status

\* The thread of a pull goes on.
LEMMA LoadingKeeps ==
  ASSUME PullsInductive, NEW p \in PullIds, Loading(p) \/ ReadPull(p) \/ ReadBreaks(p)
  PROVE  /\ PullsInductive'
         /\ \A q \in DOMAIN pull : Status(q) \in PullTerminal => Status(q)' = Status(q)
<1>1. /\ PullFits(p) /\ p \in DOMAIN pull /\ pull[p] \in PullStates
      /\ loader = [loader EXCEPT ![p] = loader[p]]
      /\ response = [response EXCEPT ![p] = response[p]] /\ response[p] \in {"none", "open", "closed"}
      /\ pull = [pull EXCEPT ![p] = pull[p]]
  <2>1. loader[p] # "none" /\ PullFits(p)
    BY DEF PullsInductive, Loading, BeginPull, OpenPull, RegisterPull, EndPull, LeavePull, ReadPull,
           ReadBreaks, LoaderAt
  <2> QED BY <2>1, PullsStand DEF PullFits
<1>2. CASE BeginPull(p)
  <2>1. loader[p] = "begin" /\ UNCHANGED <<response, registered>>
    BY <1>2 DEF BeginPull, LoaderAt
  <2>2. CASE pull[p].cancel
    <3>1. loader' = [loader EXCEPT ![p] = "done"] /\ UNCHANGED pull
      BY <1>2, <2>2 DEF BeginPull, LoaderGoes
    <3> QED BY <1>1, <2>1, <3>1, PullStep DEF PullFits, LoaderPcs, Status
  <2>3. CASE ~pull[p].cancel
    <3>1. loader' = [loader EXCEPT ![p] = "open"] /\ Updated(p, "pulling")
      BY <1>2, <2>3 DEF BeginPull, LoaderGoes
    <3>2. PICK state : state = [pull[p] EXCEPT !.status = "pulling"]
      OBVIOUS
    <3>3. pull' = [pull EXCEPT ![p] = state] /\ state \in PullStates /\ state.status = "pulling"
      BY <1>1, <3>1, <3>2, UpdatedState DEF PullActive
    <3> QED BY <1>1, <2>1, <2>3, <3>1, <3>3, PullStep DEF PullFits, LoaderPcs, Status, PullTerminal
  <2> QED BY <2>2, <2>3
<1>3. CASE OpenPull(p)
  <2>1. loader[p] = "open" /\ UNCHANGED <<pull, registered>>
    BY <1>3 DEF OpenPull, LoaderAt
  <2>2. CASE loader' = [loader EXCEPT ![p] = "register"] /\ response' = [response EXCEPT ![p] = "open"]
    BY <1>1, <2>1, <2>2, PullStep DEF PullFits, LoaderPcs, Status
  <2>3. CASE loader' = [loader EXCEPT ![p] = "fails"] /\ UNCHANGED response
    BY <1>1, <2>1, <2>3, PullStep DEF PullFits, LoaderPcs, Status
  <2> QED BY <1>3, <2>2, <2>3 DEF OpenPull, LoaderGoes
<1>4. CASE RegisterPull(p)
  <2>1. loader[p] = "register" /\ UNCHANGED pull
    BY <1>4 DEF RegisterPull, LoaderAt
  <2>2. CASE pull[p].cancel
    <3>1. /\ loader' = [loader EXCEPT ![p] = "leave"] /\ response' = [response EXCEPT ![p] = "closed"]
          /\ UNCHANGED registered
      BY <1>4, <2>2 DEF RegisterPull, LoaderGoes
    <3> QED BY <1>1, <2>1, <2>2, <3>1, PullStep DEF PullFits, LoaderPcs, Status
  <2>3. CASE ~pull[p].cancel
    <3>1. /\ loader' = [loader EXCEPT ![p] = "read"] /\ registered' = registered \cup {p}
          /\ UNCHANGED response
      BY <1>4, <2>3 DEF RegisterPull, LoaderGoes
    <3> QED BY <1>1, <2>1, <2>3, <3>1, PullStep DEF PullFits, LoaderPcs, Status
  <2> QED BY <2>2, <2>3
<1>5. CASE EndPull(p)
  <2>1. UNCHANGED <<response, registered>>
    BY <1>5 DEF EndPull
  <2>2. CASE loader[p] \in {"succeeds", "fails"}
    <3>1. PICK pc \in {"leave", "completed", "failed"} :
            loader' = [loader EXCEPT ![p] = pc] /\ UNCHANGED pull /\ (pull[p].cancel => pc = "leave")
      BY <1>5, <2>2 DEF EndPull, LoaderGoes
    <3> QED BY <1>1, <2>1, <2>2, <3>1, PullStep DEF PullFits, LoaderPcs, Status
  <2>3. CASE loader[p] \in {"completed", "failed"}
    <3>1. loader' = [loader EXCEPT ![p] = "leave"] /\ Update(p, loader[p])
      BY <1>5, <2>3 DEF EndPull, LoaderGoes
    <3>2. CASE UNCHANGED pull
      BY <1>1, <2>1, <2>3, <3>1, <3>2, PullStep DEF PullFits, LoaderPcs, Status
    <3>3. CASE ~(Status(p) \in PullTerminal) /\ Updated(p, loader[p])
      <4>1. PICK state : state = [pull[p] EXCEPT !.status = loader[p]]
        OBVIOUS
      <4>2. pull' = [pull EXCEPT ![p] = state] /\ state \in PullStates
        BY <1>1, <2>3, <3>3, <4>1, UpdatedState DEF PullTerminal
      <4> QED BY <1>1, <2>1, <2>3, <3>1, <3>3, <4>2, PullStep DEF PullFits, LoaderPcs
    <3> QED BY <3>1, <3>2, <3>3 DEF Update
  <2> QED BY <1>5, <2>2, <2>3 DEF EndPull
<1>6. CASE LeavePull(p)
  <2>1. /\ loader[p] = "leave" /\ UNCHANGED <<pull, response>>
        /\ loader' = [loader EXCEPT ![p] = "done"] /\ registered' = registered \ {p}
    BY <1>6 DEF LeavePull, LoaderAt, LoaderGoes
  <2> QED BY <1>1, <2>1, PullStep DEF PullFits, LoaderPcs, Status
<1>7. CASE ReadBreaks(p)
  <2>1. /\ loader[p] = "read" /\ UNCHANGED <<pull, registered>>
        /\ loader' = [loader EXCEPT ![p] = "leave"] /\ response' = [response EXCEPT ![p] = "closed"]
    BY <1>7 DEF ReadBreaks, LoaderAt, LoaderGoes
  <2> QED BY <1>1, <2>1, PullStep DEF PullFits, LoaderPcs, Status
<1>8. CASE ReadPull(p)
  <2>1. loader[p] = "read" /\ UNCHANGED registered
    BY <1>8 DEF ReadPull, LoaderAt
  <2>2. CASE ~pull[p].cancel /\ Updated(p, "pulling") /\ UNCHANGED <<loader, response>>
    <3>1. PICK state : state = [pull[p] EXCEPT !.status = "pulling"]
      OBVIOUS
    <3>2. pull' = [pull EXCEPT ![p] = state] /\ state \in PullStates /\ state.status = "pulling"
      BY <1>1, <2>2, <3>1, UpdatedState DEF PullActive
    <3> QED BY <1>1, <2>1, <2>2, <3>2, PullStep DEF PullFits, LoaderPcs, Status, PullTerminal
  <2>3. CASE /\ \E pc \in {"leave", "succeeds", "fails"} : loader' = [loader EXCEPT ![p] = pc]
             /\ response' = [response EXCEPT ![p] = "closed"] /\ UNCHANGED pull
    BY <1>1, <2>1, <2>3, PullStep DEF PullFits, LoaderPcs, Status
  <2> QED BY <1>8, <2>2, <2>3 DEF ReadPull, LoaderGoes
<1> QED BY <1>2, <1>3, <1>4, <1>5, <1>6, <1>7, <1>8 DEF Loading

LEMMA PullsNextKeeps ==
  ASSUME PullsInductive, [PullsNext]_pullVars
  PROVE  /\ PullsInductive'
         /\ \A q \in DOMAIN pull : Status(q) \in PullTerminal => Status(q)' = Status(q)
<1>1. ASSUME NEW m \in Models, StartPull(m)
      PROVE  /\ PullsInductive'
             /\ \A q \in DOMAIN pull : Status(q) \in PullTerminal => Status(q)' = Status(q)
  BY <1>1, StartPullKeeps DEF Status
<1>2. ASSUME NEW p \in PullIds, CancelPull(p) \/ SweepPull(p)
      PROVE  /\ PullsInductive'
             /\ \A q \in DOMAIN pull : Status(q) \in PullTerminal => Status(q)' = Status(q)
  BY <1>2, CancelPullKeeps DEF CancelPull, SweepPull
<1>3. ASSUME NEW p \in PullIds, CloseResponse(p)
      PROVE  /\ PullsInductive'
             /\ \A q \in DOMAIN pull : Status(q) \in PullTerminal => Status(q)' = Status(q)
  BY <1>3, CloseResponseKeeps DEF CloseResponse, Status
<1>4. ASSUME NEW p \in PullIds, Loading(p) \/ ReadPull(p) \/ ReadBreaks(p)
      PROVE  /\ PullsInductive'
             /\ \A q \in DOMAIN pull : Status(q) \in PullTerminal => Status(q)' = Status(q)
  BY <1>4, LoadingKeeps
<1>5. CASE BeginSweep \/ UNCHANGED pullVars
  <2>1. UNCHANGED <<pull, loader, response, registered>>
    BY <1>5 DEF BeginSweep, pullVars
  <2> QED BY <2>1 DEF PullsInductive, PullsTyped, Started, PullFits, Status
<1> QED BY <1>1, <1>2, <1>3, <1>4, <1>5 DEF PullsNext

\* The inductive invariant of the downloads.
THEOREM PullsInvariant == PullsSpec => []PullsInductive
<1>1. PullsInductive /\ [PullsNext]_pullVars => PullsInductive'
  BY PullsNextKeeps
<1> QED BY PullsInitHolds, <1>1, PTL DEF PullsSpec

\* Whatever arrives after a download was cancelled or ended (_run, _update and cancel of
\* the pull manager): its status stays.
THEOREM EndedPullsStay == PullsSpec => EndedPullStays
<1>1. PullsInductive /\ [PullsNext]_pullVars =>
        [\A p \in DOMAIN pull : Status(p) \in PullTerminal => Status(p)' = Status(p)]_pullVars
  BY PullsNextKeeps
<1> QED BY PullsInvariant, <1>1, PTL DEF PullsSpec, EndedPullStays

\* Whenever a cancellation comes, a thread that is done leaves no response open or
\* registered.
THEOREM NoTransferIsLeft == PullsSpec => []NoTransferLeft
<1>1. PullsInductive => NoTransferLeft
  BY DEF PullsInductive, PullFits, NoTransferLeft
<1> QED BY PullsInvariant, <1>1, PTL

-----------------------------------------------------------------------------
(* Downloads: the history. *)

\* A sequence without its element at i.
LEMMA RemovedAt ==
  ASSUME NEW S, NEW s \in Seq(S), IsInjective(s), NEW i \in DOMAIN s,
         NEW r, r = RemoveAt(s, i)
  PROVE  /\ r \in Seq(S) /\ IsInjective(r) /\ Len(r) = Len(s) - 1
         /\ ToSet(r) = ToSet(s) \ {s[i]}
<1>1. PICK n \in Nat : n = Len(s) /\ DOMAIN s = 1..n /\ i \in 1..n
  OBVIOUS
<1>2. PICK a, b : a = SubSeq(s, 1, i - 1) /\ b = SubSeq(s, i + 1, n)
  OBVIOUS
<1>3. /\ a \in Seq(S) /\ Len(a) = i - 1 /\ \A j \in 1..(i - 1) : a[j] = s[j]
  <2>1. 1 \in Int /\ i - 1 \in Int /\ \A j \in 1..(i - 1) : s[j] \in S
    BY <1>1
  <2>2. /\ a \in Seq(S) /\ Len(a) = IF 1 <= i - 1 THEN (i - 1) - 1 + 1 ELSE 0
        /\ \A j \in 1..((i - 1) - 1 + 1) : a[j] = s[1 + j - 1]
    BY <1>2, <2>1, SubSeqProperties
  <2>3. /\ (IF 1 <= i - 1 THEN (i - 1) - 1 + 1 ELSE 0) = i - 1
        /\ (i - 1) - 1 + 1 = i - 1
        /\ \A j \in 1..(i - 1) : 1 + j - 1 = j
    BY <1>1
  <2>4. \A j \in 1..(i - 1) : a[j] = s[1 + j - 1]
    BY <2>2, <2>3
  <2>5. \A j \in 1..(i - 1) : a[j] = s[j]
    BY <2>3, <2>4
  <2> QED BY <2>2, <2>3, <2>5
<1>4. /\ b \in Seq(S) /\ Len(b) = n - i /\ \A j \in 1..(n - i) : b[j] = s[i + j]
  <2>1. i + 1 \in Int /\ n \in Int /\ \A j \in (i + 1)..n : s[j] \in S
    BY <1>1
  <2>2. /\ b \in Seq(S) /\ Len(b) = IF i + 1 <= n THEN n - (i + 1) + 1 ELSE 0
        /\ \A j \in 1..(n - (i + 1) + 1) : b[j] = s[(i + 1) + j - 1]
    BY <1>2, <2>1, SubSeqProperties
  <2>3. /\ (IF i + 1 <= n THEN n - (i + 1) + 1 ELSE 0) = n - i
        /\ n - (i + 1) + 1 = n - i
        /\ \A j \in 1..(n - i) : (i + 1) + j - 1 = i + j
    BY <1>1
  <2>4. \A j \in 1..(n - i) : b[j] = s[(i + 1) + j - 1]
    BY <2>2, <2>3
  <2>5. \A j \in 1..(n - i) : b[j] = s[i + j]
    BY <2>3, <2>4
  <2> QED BY <2>2, <2>3, <2>5
<1>5. r = a \o b
  BY <1>1, <1>2 DEF RemoveAt
<1>6. /\ r \in Seq(S) /\ Len(r) = Len(a) + Len(b)
      /\ \A j \in 1..(Len(a) + Len(b)) : r[j] = IF j <= Len(a) THEN a[j] ELSE b[j - Len(a)]
  <2>1. a \in Seq(S) /\ b \in Seq(S)
    BY <1>3, <1>4
  <2> QED BY <1>5, <2>1, ConcatProperties
<1>7. Len(r) = n - 1 /\ DOMAIN r = 1..(n - 1)
  <2>1. (i - 1) + (n - i) = n - 1
    BY <1>1
  <2>2. Len(r) = n - 1
    BY <1>3, <1>4, <1>6, <2>1
  <2> QED BY <1>6, <2>2
<1>8. ASSUME NEW j \in 1..(n - 1)
      PROVE  r[j] = IF j < i THEN s[j] ELSE s[j + 1]
  <2>1. CASE j < i
    <3>1. j \in 1..(Len(a) + Len(b)) /\ j <= Len(a) /\ j \in 1..(i - 1)
      BY <1>1, <1>3, <1>4, <2>1
    <3> QED BY <1>3, <1>6, <2>1, <3>1
  <2>2. CASE ~(j < i)
    <3>1. /\ j \in 1..(Len(a) + Len(b)) /\ ~(j <= Len(a)) /\ j - Len(a) \in 1..(n - i)
          /\ i + (j - Len(a)) = j + 1
      BY <1>1, <1>3, <1>4, <2>2
    <3>2. r[j] = b[j - Len(a)]
      BY <1>6, <3>1
    <3> QED BY <1>4, <2>2, <3>1, <3>2
  <2> QED BY <2>1, <2>2
<1>9. \A j, k \in 1..n : s[j] = s[k] => j = k
  BY <1>1 DEF IsInjective
<1>10. IsInjective(r)
  <2> SUFFICES ASSUME NEW j \in 1..(n - 1), NEW k \in 1..(n - 1), r[j] = r[k] PROVE j = k
    BY <1>7 DEF IsInjective
  <2>1. PICK x \in 1..n : x = (IF j < i THEN j ELSE j + 1) /\ r[j] = s[x]
    BY <1>1, <1>8
  <2>2. PICK y \in 1..n : y = (IF k < i THEN k ELSE k + 1) /\ r[k] = s[y]
    BY <1>1, <1>8
  <2>3. x = y
    BY <1>9, <2>1, <2>2
  <2> QED BY <1>1, <2>1, <2>2, <2>3
<1>11. ASSUME NEW y PROVE y \in ToSet(r) <=> y \in ToSet(s) /\ y # s[i]
  <2>1. ASSUME y \in ToSet(r) PROVE y \in ToSet(s) /\ y # s[i]
    <3>1. PICK j \in 1..(n - 1) : y = r[j]
      BY <1>7, <2>1 DEF ToSet
    <3>2. PICK x \in 1..n : x # i /\ y = s[x]
      BY <1>1, <1>8, <3>1
    <3> QED BY <1>1, <1>9, <3>2 DEF ToSet
  <2>2. ASSUME y \in ToSet(s), y # s[i] PROVE y \in ToSet(r)
    <3>1. PICK x \in 1..n : y = s[x] /\ x # i
      BY <1>1, <2>2 DEF ToSet
    <3>2. PICK j \in 1..(n - 1) : j = IF x < i THEN x ELSE x - 1
      BY <1>1, <3>1
    <3>3. r[j] = s[x]
      BY <1>1, <1>8, <3>1, <3>2
    <3> QED BY <1>7, <3>1, <3>3 DEF ToSet
  <2> QED BY <2>1, <2>2
<1> QED BY <1>1, <1>6, <1>7, <1>10, <1>11

\* A sequence with one more element.
LEMMA OneMoreAt ==
  ASSUME NEW n \in Nat, NEW s, DOMAIN s = 1..n, IsInjective(s), NEW p, p \notin ToSet(s),
         NEW r, DOMAIN r = 1..(n + 1), r[n + 1] = p, \A i \in 1..n : r[i] = s[i]
  PROVE  IsInjective(r) /\ ToSet(r) = ToSet(s) \cup {p}
<1>1. \A i \in 1..n : s[i] # p /\ \A j \in 1..n : s[i] = s[j] => i = j
  BY DEF IsInjective, ToSet
<1>2. /\ \A i \in 1..(n + 1) : i \in 1..n \/ i = n + 1
      /\ n + 1 \in 1..(n + 1) /\ \A i \in 1..n : i \in 1..(n + 1)
  OBVIOUS
<1>3. IsInjective(r)
  BY <1>1, <1>2 DEF IsInjective
<1>4. \A y : y \in ToSet(r) <=> y \in ToSet(s) \/ y = p
  BY <1>1, <1>2 DEF ToSet
<1> QED BY <1>3, <1>4

\* The history has no pull twice, and its length is the number of its pulls.
LEMMA HistoryIsCounted ==
  ASSUME NEW S, NEW s \in Seq(S), IsInjective(s)
  PROVE  IsFiniteSet(ToSet(s)) /\ Cardinality(ToSet(s)) = Len(s)
<1>1. PICK n \in Nat : n = Len(s) /\ DOMAIN s = 1..n
  OBVIOUS
<1>2. s \in Bijection(1..n, ToSet(s))
  <2>1. s \in [1..n -> ToSet(s)] /\ \A y \in ToSet(s) : \E i \in 1..n : s[i] = y
    BY <1>1 DEF ToSet
  <2>2. \A i, j \in 1..n : s[i] = s[j] => i = j
    BY <1>1 DEF IsInjective
  <2> QED BY <2>1, <2>2 DEF Bijection, Injection, Surjection, IsInjective
<1>3. IsFiniteSet(1..n) /\ Cardinality(1..n) = n
  BY FS_Interval
<1>4. 1 \in Int /\ n \in Int
  OBVIOUS
<1> QED BY <1>1, <1>2, <1>3, FS_Bijection DEF ExistsBijection

\* The oldest of the ended pulls goes, if there is one.
LEMMA OldestIsGone ==
  ASSUME NEW S, NEW s \in Seq(S), IsInjective(s), NEW ended, ended \cap ToSet(s) # {},
         NEW r, r = OldestGone(s, ended)
  PROVE  /\ r \in Seq(S) /\ IsInjective(r) /\ Len(r) = Len(s) - 1
         /\ \E x \in ended : ToSet(r) = ToSet(s) \ {x}
<1>1. PICK places : places = {i \in DOMAIN s : s[i] \in ended}
  OBVIOUS
<1>2. places # {} /\ places \in SUBSET Nat
  <2>1. DOMAIN s \subseteq Nat
    OBVIOUS
  <2> QED BY <1>1, <2>1 DEF ToSet
<1>3. PICK i : i = Min(places)
  OBVIOUS
<1>4. i \in places
  <2>1. \E n \in places : \A m \in places : n <= m
    BY <1>2, LeastNumber
  <2> QED BY <1>3, <2>1 DEF Min
<1>5. i \in DOMAIN s /\ s[i] \in ended
  BY <1>1, <1>4
<1>6. r = RemoveAt(s, i)
  BY <1>1, <1>2, <1>3 DEF OldestGone
<1>7. /\ r \in Seq(S) /\ IsInjective(r) /\ Len(r) = Len(s) - 1
      /\ ToSet(r) = ToSet(s) \ {s[i]}
  BY <1>5, <1>6, RemovedAt
<1> QED BY <1>5, <1>7

\* A history within its bound loses one pull if it is full, and none otherwise.
LEMMA PrunedIs ==
  ASSUME NEW S, NEW s \in Seq(S), Len(s) <= MaxHistory, NEW ended
  PROVE  Pruned(s, ended) = IF Len(s) = MaxHistory THEN OldestGone(s, ended) ELSE s
<1>1. PICK e \in Int : e = Len(s) - MaxHistory + 1
  <2>1. Len(s) \in Nat /\ MaxHistory \in Nat
    BY PullsAssumption
  <2>2. Len(s) - MaxHistory + 1 \in Int
    BY <2>1
  <2> QED BY <2>2
<1>2. e <= 1 /\ (e > 0 <=> Len(s) = MaxHistory) /\ (e > 0 => e = 1)
  BY <1>1, PullsAssumption
<1>3. PICK t : t = OldestGone(s, ended)
  OBVIOUS
<1>4. PICK kept : kept = CHOOSE f : f = [n \in 0..e |->
                           IF n = 0 THEN s ELSE OldestGone(f[n - 1], ended)]
  OBVIOUS
<1>5. Pruned(s, ended) = IF e > 0 THEN kept[e] ELSE s
  BY <1>1, <1>4 DEF Pruned
<1>6. CASE e = 1
  <2>1. \A n \in 0..1 : n = 0 \/ n = 1
    OBVIOUS
  <2>2. PICK g : g = [n \in 0..1 |-> IF n = 0 THEN s ELSE t]
    OBVIOUS
  <2>3. g[0] = s /\ g[1] = t
    BY <2>2
  <2>4. ASSUME NEW n \in 0..1
        PROVE  g[n] = IF n = 0 THEN s ELSE OldestGone(g[n - 1], ended)
    BY <1>3, <2>1, <2>3
  <2>5. g = [n \in 0..1 |-> IF n = 0 THEN s ELSE OldestGone(g[n - 1], ended)]
    BY <2>2, <2>4
  <2>6. kept = [n \in 0..1 |-> IF n = 0 THEN s ELSE OldestGone(kept[n - 1], ended)]
    BY <1>4, <1>6, <2>5
  <2>7. kept[0] = s /\ kept[1] = OldestGone(kept[0], ended)
    BY <2>6
  <2> QED BY <1>2, <1>3, <1>5, <1>6, <2>7
<1>7. CASE ~(e > 0)
  BY <1>2, <1>5, <1>7
<1> QED BY <1>2, <1>6, <1>7

\* A pull that changes moves to the end of the history.
LEMMA TouchedHas ==
  ASSUME NEW S, pulls \in Seq(S), IsInjective(pulls), NEW p \in ToSet(pulls),
         NEW r, r = Touched(p)
  PROVE  /\ r \in Seq(S) /\ IsInjective(r) /\ Len(r) = Len(pulls)
         /\ ToSet(r) = ToSet(pulls)
<1>1. PICK i : i = PlaceOf(p)
  OBVIOUS
<1>2. i \in DOMAIN pulls /\ pulls[i] = p
  <2>1. \E j \in DOMAIN pulls : pulls[j] = p
    BY DEF ToSet
  <2> QED BY <1>1, <2>1 DEF PlaceOf
<1>3. PICK s : s = RemoveAt(pulls, i)
  OBVIOUS
<1>4. /\ s \in Seq(S) /\ IsInjective(s) /\ Len(s) = Len(pulls) - 1
      /\ ToSet(s) = ToSet(pulls) \ {pulls[i]}
  BY <1>2, <1>3, RemovedAt
<1>5. r = Append(s, p) /\ p \in S /\ p \notin ToSet(s)
  <2>1. \A j \in DOMAIN pulls : pulls[j] \in S
    OBVIOUS
  <2>2. p \in S
    BY <1>2, <2>1
  <2> QED BY <1>1, <1>2, <1>3, <1>4, <2>2 DEF Touched
<1>6. /\ r \in Seq(S) /\ IsInjective(r) /\ Len(r) = Len(s) + 1
      /\ ToSet(r) = ToSet(s) \cup {p}
  <2>1. PICK n \in Nat : n = Len(s) /\ DOMAIN s = 1..n
    BY <1>4
  <2>2. /\ r \in Seq(S) /\ Len(r) = n + 1 /\ r[n + 1] = p
        /\ \A j \in 1..n : r[j] = s[j]
    BY <1>4, <1>5, <2>1, AppendProperties
  <2>3. DOMAIN s = 1..n /\ IsInjective(s) /\ p \notin ToSet(s)
    BY <1>4, <1>5, <2>1
  <2>4. DOMAIN r = 1..(n + 1) /\ r[n + 1] = p /\ \A j \in 1..n : r[j] = s[j]
    BY <2>2
  <2>5. IsInjective(r) /\ ToSet(r) = ToSet(s) \cup {p}
    BY <2>3, <2>4, OneMoreAt
  <2> QED BY <2>1, <2>2, <2>5
<1>7. Len(r) = Len(pulls)
  <2>1. Len(pulls) \in Nat
    OBVIOUS
  <2> QED BY <1>4, <1>6, <2>1
<1>8. ToSet(r) = ToSet(pulls)
  BY <1>2, <1>4, <1>6
<1> QED BY <1>6, <1>7, <1>8

\* The history: bounded, no pull twice in it, and every active pull in it.
HistoryFits ==
  /\ pulls \in Seq(PullIds) /\ IsInjective(pulls) /\ Len(pulls) <= MaxHistory
  /\ ToSet(pulls) \subseteq DOMAIN pull
  /\ ActivePulls \subseteq ToSet(pulls) /\ Cardinality(ActivePulls) <= MaxPulls
  /\ registered \cup closing \cup sweep \subseteq PullIds

LEMMA HistoryFitsFirst == PullsInit => HistoryFits
<1> SUFFICES ASSUME PullsInit PROVE HistoryFits
  OBVIOUS
<1>1. /\ pulls = << >> /\ DOMAIN pull = {} /\ registered = {} /\ closing = {} /\ sweep = {}
  BY DEF PullsInit
<1>2. ActivePulls = {} /\ ToSet(pulls) = {}
  BY <1>1 DEF ActivePulls, ToSet
<1>3. Cardinality(ActivePulls) <= MaxPulls
  BY <1>2, PullsAssumption, FS_EmptySet
<1>4. pulls \in Seq(PullIds) /\ IsInjective(pulls) /\ Len(pulls) <= MaxHistory
  BY <1>1, PullsAssumption DEF IsInjective
<1> QED BY <1>1, <1>2, <1>3, <1>4 DEF HistoryFits

\* The active pulls are counted.
LEMMA ActiveAreCounted ==
  ASSUME HistoryFits
  PROVE  /\ IsFiniteSet(ToSet(pulls)) /\ Cardinality(ToSet(pulls)) = Len(pulls)
         /\ IsFiniteSet(ActivePulls) /\ Cardinality(ActivePulls) \in Nat
<1>1. IsFiniteSet(ToSet(pulls)) /\ Cardinality(ToSet(pulls)) = Len(pulls)
  BY HistoryIsCounted DEF HistoryFits
<1>2. ActivePulls \in SUBSET ToSet(pulls)
  BY DEF HistoryFits
<1>3. IsFiniteSet(ActivePulls)
  BY <1>1, <1>2, FS_Subset
<1> QED BY <1>1, <1>3, FS_CardinalityType

\* A step that starts no pull, makes none active, and moves at most one to the end.
LEMMA HistoryStays ==
  ASSUME HistoryFits, DOMAIN pull' = DOMAIN pull,
         pulls' = pulls \/ \E p \in ToSet(pulls) : pulls' = Touched(p),
         \A q \in DOMAIN pull : Status(q)' \in PullActive => Status(q) \in PullActive,
         registered' \cup closing' \cup sweep' \subseteq PullIds
  PROVE  HistoryFits'
<1>1. /\ pulls' \in Seq(PullIds) /\ IsInjective(pulls') /\ Len(pulls') = Len(pulls)
      /\ ToSet(pulls') = ToSet(pulls)
  <2>1. CASE pulls' = pulls
    BY <2>1 DEF HistoryFits
  <2>2. ASSUME NEW p \in ToSet(pulls), pulls' = Touched(p)
        PROVE  /\ pulls' \in Seq(PullIds) /\ IsInjective(pulls') /\ Len(pulls') = Len(pulls)
               /\ ToSet(pulls') = ToSet(pulls)
    <3>1. pulls \in Seq(PullIds) /\ IsInjective(pulls)
      BY DEF HistoryFits
    <3> QED BY <2>2, <3>1, TouchedHas
  <2> QED BY <2>1, <2>2
<1>2. ActivePulls' \in SUBSET ActivePulls
  BY DEF ActivePulls
<1>3. Cardinality(ActivePulls') <= Cardinality(ActivePulls)
  BY <1>2, ActiveAreCounted, FS_Subset
<1>4. Cardinality(ActivePulls') \in Nat /\ Cardinality(ActivePulls) \in Nat
  BY <1>2, ActiveAreCounted, FS_Subset, FS_CardinalityType
<1>5. Cardinality(ActivePulls)' <= MaxPulls
  BY <1>3, <1>4, PullsAssumption DEF HistoryFits
<1> QED BY <1>1, <1>2, <1>5 DEF HistoryFits

\* A pull that gets a status is active only if it was.
LEMMA UpdatedStays ==
  ASSUME PullsInductive, HistoryFits, NEW p \in PullIds, p \in DOMAIN pull,
         NEW s, Updated(p, s), s \in PullActive => Status(p) \in PullActive,
         UNCHANGED <<closing, sweep>>, registered' \subseteq registered \cup {p}
  PROVE  HistoryFits'
<1>1. /\ DOMAIN pull' = DOMAIN pull /\ pull'[p] = [pull[p] EXCEPT !.status = s]
      /\ \A q \in DOMAIN pull : q # p => pull'[q] = pull[q]
  BY DEF Updated, PullsInductive, PullsTyped
<1>2. pull[p] \in PullStates
  BY DEF PullsInductive, PullsTyped
<1>3. pull'[p].status = s
  BY <1>1, <1>2 DEF PullStates
<1>4. \A q \in DOMAIN pull : Status(q)' \in PullActive => Status(q) \in PullActive
  BY <1>1, <1>3 DEF Status
<1>5. pulls' = pulls \/ \E q \in ToSet(pulls) : pulls' = Touched(q)
  BY DEF Updated
<1>6. registered' \cup closing' \cup sweep' \subseteq PullIds
  BY DEF HistoryFits
<1> QED BY <1>1, <1>4, <1>5, <1>6, HistoryStays

\* A step that changes no pull.
LEMMA HistoryStands ==
  ASSUME HistoryFits, UNCHANGED <<pulls, pull>>, registered' \cup closing' \cup sweep' \subseteq PullIds
  PROVE  HistoryFits'
<1>1. \A q \in DOMAIN pull : Status(q)' \in PullActive => Status(q) \in PullActive
  BY DEF Status
<1> QED BY <1>1, HistoryStays

LEMMA CancelKeepsHistory ==
  ASSUME PullsInductive, HistoryFits, NEW p \in PullIds, MarksCancelled(p),
         UNCHANGED registered, sweep' \subseteq sweep
  PROVE  HistoryFits'
<1>1. registered \cup closing \cup sweep \subseteq PullIds
  BY DEF HistoryFits
<1>2. CASE /\ pull' = [pull EXCEPT ![p].status = "cancelled", ![p].cancel = TRUE]
           /\ pulls' = Touched(p) /\ p \in ToSet(pulls)
           /\ closing' = closing \cup ({p} \cap registered)
  <2>1. DOMAIN pull' = DOMAIN pull /\ p \in DOMAIN pull
    BY <1>2 DEF HistoryFits, PullsInductive, PullsTyped
  <2>2. \A q \in DOMAIN pull : q # p => pull'[q] = pull[q]
    BY <1>2, <2>1 DEF PullsInductive, PullsTyped
  <2>3. pull'[p].status = "cancelled"
    <3>1. PICK state : state = [pull[p] EXCEPT !.status = "cancelled", !.cancel = TRUE]
      OBVIOUS
    <3>2. pull[p] \in [model : Models, status : PullActive \cup PullTerminal, cancel : BOOLEAN]
      BY <2>1 DEF PullsInductive, PullsTyped, PullStates
    <3>3. state.status = "cancelled"
      BY <3>1, <3>2
    <3>4. pull'[p] = state
      BY <1>2, <2>1, <3>1 DEF PullsInductive, PullsTyped
    <3> QED BY <3>3, <3>4
  <2>4. \A q \in DOMAIN pull : Status(q)' \in PullActive => Status(q) \in PullActive
    BY <2>1, <2>2, <2>3 DEF Status, PullActive
  <2>5. registered' \cup closing' \cup sweep' \subseteq PullIds
    BY <1>1, <1>2
  <2> QED BY <1>2, <2>1, <2>4, <2>5, HistoryStays
<1>3. CASE UNCHANGED <<pull, pulls, closing>>
  BY <1>1, <1>3, HistoryStands
<1> QED BY <1>2, <1>3 DEF MarksCancelled

\* The thread of a pull: before it reports progress it has seen the pull active.
LEMMA LoadingKeepsHistory ==
  ASSUME PullsInductive, HistoryFits, NEW p \in PullIds, Loading(p) \/ ReadPull(p) \/ ReadBreaks(p)
  PROVE  HistoryFits'
<1>1. /\ registered \cup closing \cup sweep \subseteq PullIds
      /\ UNCHANGED <<closing, sweep>> /\ registered' \subseteq registered \cup {p}
  BY DEF HistoryFits, Loading, BeginPull, OpenPull, RegisterPull, EndPull, LeavePull, ReadPull,
         ReadBreaks
<1>2. PullFits(p) /\ loader[p] # "none"
  BY DEF PullsInductive, Loading, BeginPull, OpenPull, RegisterPull, EndPull, LeavePull, ReadPull,
         ReadBreaks, LoaderAt
<1>3. p \in DOMAIN pull
  BY <1>2 DEF PullFits
<1>4. Status(p) \in PullActive \cup PullTerminal
  BY <1>3 DEF PullsInductive, PullsTyped, PullStates, Status
<1>5. CASE UNCHANGED <<pulls, pull>>
  BY <1>1, <1>5, HistoryStands
<1>6. CASE Updated(p, "pulling") /\ ~pull[p].cancel /\ loader[p] \in {"begin", "read"}
  <2>1. Status(p) \in PullActive
    BY <1>2, <1>3, <1>4, <1>6 DEF PullFits
  <2> QED BY <1>1, <1>3, <1>6, <2>1, UpdatedStays
<1>7. CASE Updated(p, loader[p]) /\ loader[p] \in {"completed", "failed"}
  <2>1. PICK s : s = loader[p]
    OBVIOUS
  <2>2. Updated(p, s) /\ s \notin PullActive
    BY <1>7, <2>1 DEF PullActive
  <2> QED BY <1>1, <1>3, <2>2, UpdatedStays
<1>8. \/ UNCHANGED <<pulls, pull>>
      \/ Updated(p, "pulling") /\ ~pull[p].cancel /\ loader[p] \in {"begin", "read"}
      \/ Updated(p, loader[p]) /\ loader[p] \in {"completed", "failed"}
  BY DEF Loading, BeginPull, OpenPull, RegisterPull, EndPull, Update, LeavePull, ReadPull,
         ReadBreaks, LoaderAt
<1> QED BY <1>5, <1>6, <1>7, <1>8

\* Pruning forgets no active pull; and where there is room for another pull, the history
\* has room for it then.
LEMMA PruneKeeps ==
  ASSUME HistoryFits, NEW r, r = Prune
  PROVE  /\ r \in Seq(PullIds) /\ IsInjective(r) /\ Len(r) <= MaxHistory
         /\ ToSet(r) \subseteq ToSet(pulls) /\ ActivePulls \subseteq ToSet(r)
         /\ Cardinality(ActivePulls) < MaxPulls => Len(r) < MaxHistory
<1>1. PICK ended : ended = ToSet(pulls) \ ActivePulls
  OBVIOUS
<1>2. /\ pulls \in Seq(PullIds) /\ IsInjective(pulls) /\ Len(pulls) <= MaxHistory
      /\ ActivePulls \subseteq ToSet(pulls)
  BY DEF HistoryFits
<1>3. r = Pruned(pulls, ended)
  BY <1>1 DEF Prune
<1>4. r = IF Len(pulls) = MaxHistory THEN OldestGone(pulls, ended) ELSE pulls
  BY <1>2, <1>3, PrunedIs
<1>5. Len(pulls) \in Nat /\ MaxHistory \in Nat /\ MaxPulls \in Nat /\ MaxPulls <= MaxHistory
  BY <1>2, PullsAssumption
<1>6. CASE Len(pulls) # MaxHistory
  BY <1>2, <1>4, <1>5, <1>6
<1>7. CASE Len(pulls) = MaxHistory /\ ended # {}
  <2>1. ended \cap ToSet(pulls) # {} /\ r = OldestGone(pulls, ended)
    BY <1>1, <1>4, <1>7
  <2>2. /\ r \in Seq(PullIds) /\ IsInjective(r) /\ Len(r) = Len(pulls) - 1
        /\ \E x \in ended : ToSet(r) = ToSet(pulls) \ {x}
    BY <1>2, <2>1, OldestIsGone
  <2>3. ToSet(r) \subseteq ToSet(pulls) /\ ActivePulls \subseteq ToSet(r)
    BY <1>1, <1>2, <2>2
  <2>4. Len(r) < MaxHistory /\ Len(r) <= MaxHistory
    BY <1>5, <1>7, <2>2
  <2> QED BY <2>2, <2>3, <2>4
<1>8. CASE Len(pulls) = MaxHistory /\ ended = {}
  <2>1. ToSet(pulls) = ActivePulls
    BY <1>1, <1>2, <1>8
  <2>2. ~(Cardinality(ActivePulls) < MaxPulls)
    BY <1>5, <1>8, <2>1, ActiveAreCounted
  <2>3. r = pulls
    <3>1. {i \in DOMAIN pulls : pulls[i] \in ended} = {}
      BY <1>8
    <3> QED BY <1>4, <1>8, <3>1 DEF OldestGone
  <2> QED BY <1>2, <2>2, <2>3
<1> QED BY <1>6, <1>7, <1>8

\* A pull that is started comes last in the history.
LEMMA StartPullKeepsHistory ==
  ASSUME PullsInductive, HistoryFits, NEW m \in Models, StartPull(m)
  PROVE  HistoryFits'
<1>1. PICK p, r : p = Pulls[Cardinality(DOMAIN pull) + 1] /\ r = Prune
  OBVIOUS
<1>2. /\ r \in Seq(PullIds) /\ IsInjective(r) /\ Len(r) <= MaxHistory
      /\ ToSet(r) \subseteq ToSet(pulls) /\ ActivePulls \subseteq ToSet(r)
      /\ Cardinality(ActivePulls) < MaxPulls => Len(r) < MaxHistory
  BY <1>1, PruneKeeps
<1>3. UNCHANGED <<registered, closing, sweep>>
  BY DEF StartPull
<1>4. CASE pulls' = r /\ UNCHANGED pull
  <2>1. ActivePulls' = ActivePulls
    BY <1>4 DEF ActivePulls, Status
  <2>2. ToSet(pulls') \subseteq DOMAIN pull'
    BY <1>2, <1>4 DEF HistoryFits
  <2> QED BY <1>2, <1>3, <1>4, <2>1, <2>2 DEF HistoryFits
<1>5. CASE /\ Room /\ pulls' = Append(r, p)
           /\ pull' = [q \in DOMAIN pull \cup {p} |-> IF q = p THEN NewPull(m) ELSE pull[q]]
  <2>1. p \in PullIds /\ p \notin DOMAIN pull
    <3>1. PullsTyped /\ Cardinality(DOMAIN pull) < Len(Pulls)
      BY DEF PullsInductive, StartPull
    <3> QED BY <1>1, <3>1, NextPullIsNew
  <2>2. p \notin ToSet(r) /\ ToSet(r) \subseteq DOMAIN pull
    BY <1>2, <2>1 DEF HistoryFits
  <2>3. PICK n \in Nat : n = Len(r) /\ DOMAIN r = 1..n
    BY <1>2
  <2>4. PICK h : h = Append(r, p)
    OBVIOUS
  <2>5. /\ h \in Seq(PullIds) /\ Len(h) = n + 1 /\ h[n + 1] = p
        /\ \A j \in 1..n : h[j] = r[j]
    BY <1>2, <2>1, <2>3, <2>4, AppendProperties
  <2>6. DOMAIN r = 1..n /\ IsInjective(r) /\ p \notin ToSet(r)
    BY <1>2, <2>2, <2>3
  <2>7. DOMAIN h = 1..(n + 1) /\ h[n + 1] = p /\ \A j \in 1..n : h[j] = r[j]
    BY <2>5
  <2>8. IsInjective(h) /\ ToSet(h) = ToSet(r) \cup {p}
    BY <2>6, <2>7, OneMoreAt
  <2>9. pulls' = h
    BY <1>5, <2>4
  <2>10. ActivePulls' = ActivePulls \cup {p}
    BY <1>5, <2>1 DEF ActivePulls, Status, NewPull, PullActive
  <2>11. Cardinality(ActivePulls) < MaxPulls
    <3>1. Listed = ActivePulls
      BY DEF Listed, HistoryFits
    <3> QED BY <1>5, <3>1 DEF Room
  <2>12. Cardinality(ActivePulls)' <= MaxPulls
    <3>1. Cardinality(ActivePulls \cup {p}) = Cardinality(ActivePulls) + 1
      <4>1. p \notin ActivePulls
        BY <2>1 DEF ActivePulls
      <4> QED BY <4>1, ActiveAreCounted, FS_AddElement
    <3> QED BY <2>10, <2>11, <3>1, ActiveAreCounted, PullsAssumption
  <2>13. Len(h) <= MaxHistory
    BY <1>2, <2>3, <2>5, <2>11, PullsAssumption
  <2>14. ToSet(pulls') \subseteq DOMAIN pull' /\ ActivePulls' \subseteq ToSet(pulls')
    BY <1>2, <1>5, <2>2, <2>8, <2>9, <2>10
  <2> QED BY <1>3, <2>5, <2>8, <2>9, <2>12, <2>13, <2>14 DEF HistoryFits
<1> QED BY <1>1, <1>4, <1>5 DEF StartPull

LEMMA PullsNextKeepsHistory ==
  ASSUME PullsInductive, HistoryFits, [PullsNext]_pullVars
  PROVE  HistoryFits'
<1>1. registered \cup closing \cup sweep \subseteq PullIds
  BY DEF HistoryFits
<1>2. ASSUME NEW m \in Models, StartPull(m) PROVE HistoryFits'
  BY <1>2, StartPullKeepsHistory
<1>3. ASSUME NEW p \in PullIds, CancelPull(p) \/ SweepPull(p) PROVE HistoryFits'
  <2>1. MarksCancelled(p) /\ UNCHANGED registered /\ sweep' \subseteq sweep
    BY <1>3 DEF CancelPull, SweepPull
  <2> QED BY <2>1, CancelKeepsHistory
<1>4. ASSUME NEW p \in PullIds, CloseResponse(p) PROVE HistoryFits'
  BY <1>1, <1>4, HistoryStands DEF CloseResponse
<1>5. ASSUME NEW p \in PullIds, Loading(p) \/ ReadPull(p) \/ ReadBreaks(p) PROVE HistoryFits'
  BY <1>5, LoadingKeepsHistory
<1>6. CASE BeginSweep
  <2>1. sweep' = ActivePulls \cap ToSet(pulls) /\ UNCHANGED <<pulls, pull, registered, closing>>
    BY <1>6 DEF BeginSweep, Listed
  <2>2. ToSet(pulls) \subseteq PullIds
    BY DEF HistoryFits, ToSet
  <2> QED BY <1>1, <2>1, <2>2, HistoryStands
<1>7. CASE UNCHANGED pullVars
  BY <1>1, <1>7, HistoryStands DEF pullVars
<1> QED BY <1>2, <1>3, <1>4, <1>5, <1>6, <1>7 DEF PullsNext

\* start, _prune_history and every change of a pull: the history keeps its bound, has no
\* pull twice, and never forgets an active pull, of which there are at most MaxPulls.
THEOREM PullsTypeCorrect == PullsSpec => []PullsTypeOK
<1>1. HistoryFits /\ PullsInductive /\ [PullsNext]_pullVars => HistoryFits'
  BY PullsNextKeepsHistory
<1>2. PullsInductive /\ HistoryFits => PullsTypeOK
  <2> SUFFICES ASSUME PullsInductive, HistoryFits PROVE PullsTypeOK
    OBVIOUS
  <2>1. DOMAIN pull \subseteq PullIds
    BY PullsAssumption DEF PullsInductive, PullsTyped, Started, PullIds, ToSet
  <2>2. \A p \in DOMAIN pull : pull[p] \in PullStates
    BY DEF PullsInductive, PullsTyped
  <2> QED BY <2>1, <2>2 DEF HistoryFits, PullsTypeOK, PullStates
<1> QED BY PullsInvariant, HistoryFitsFirst, <1>1, <1>2, PTL DEF PullsSpec

-----------------------------------------------------------------------------
(* The storage key. *)

KeyPcs == {"look", "acquire", "again", "write", "release", "load", "ready", "failed"}

\* The types of the variables.
KeyTypeOK ==
  /\ starting \in [Processes -> [pc : KeyPcs, key : Nat]]
  /\ keyFile \in Nat /\ keysMade \in Nat /\ deaths \in Nat
  /\ keyLock \in Processes \cup {Free}

\* A process that makes the key has the lock; one that dies leaves it locked.
MakerHasLock == \A p \in Processes : starting[p].pc \in Creating => keyLock = p

\* It writes the key only while there is none.
WritesFirst == \A p \in Processes : At(p, "write") => keyFile = 0

KeyInductive == KeyTypeOK /\ MakerHasLock /\ WritesFirst /\ OneKey

\* Initially no process makes a key and none has one.
LEMMA KeyInitHolds == KeyInit => KeyInductive
  BY DEF KeyInit, KeyInductive, KeyTypeOK, MakerHasLock, WritesFirst, OneKey, KeyPcs,
         Creating, At

\* Every step but the writing of the key leaves the file as it is.
LEMMA KeyWriters ==
  ASSUME KeyNext
  PROVE  keyFile' = keyFile \/ \E p \in Processes : WriteKey(p)
  BY DEF KeyNext, LookForKey, Acquire, LockUnwritten, LookAgain, Release, LoadKey,
         StartAgain, DiesWithKey, KeyFileKept

\* Every step of the processes preserves the types.
LEMMA KeyTypesStep ==
  ASSUME KeyTypeOK, KeyNext
  PROVE  KeyTypeOK'
<1> USE DEF KeyTypeOK, KeyPcs, At, Goes, KeyFileKept
<1> SUFFICES ASSUME NEW p \in Processes,
                    \/ LookForKey(p) \/ Acquire(p) \/ LockUnwritten(p) \/ LookAgain(p)
                    \/ WriteKey(p) \/ Release(p) \/ LoadKey(p) \/ StartAgain(p)
                    \/ DiesWithKey(p)
             PROVE  KeyTypeOK'
  BY DEF KeyNext
<1>1. CASE LookForKey(p) BY <1>1 DEF LookForKey
<1>2. CASE Acquire(p) BY <1>2 DEF Acquire
<1>3. CASE LockUnwritten(p) BY <1>3 DEF LockUnwritten
<1>4. CASE LookAgain(p) BY <1>4 DEF LookAgain
<1>5. CASE WriteKey(p) BY <1>5 DEF WriteKey
<1>6. CASE Release(p) BY <1>6 DEF Release
<1>7. CASE LoadKey(p) BY <1>7 DEF LoadKey
<1>8. CASE StartAgain(p) BY <1>8 DEF StartAgain
<1>9. CASE DiesWithKey(p) BY <1>9 DEF DiesWithKey
<1> QED BY <1>1, <1>2, <1>3, <1>4, <1>5, <1>6, <1>7, <1>8, <1>9

\* Every step of the processes preserves the rest of the invariant: the lock keeps
\* the others away from the writing of the key.
LEMMA KeyLockStep ==
  ASSUME KeyInductive, KeyNext
  PROVE  MakerHasLock' /\ WritesFirst' /\ OneKey'
<1> USE StorageKeyAssumption
    DEF KeyInductive, KeyTypeOK, MakerHasLock, WritesFirst, OneKey, Creating, KeyPcs, At,
        Goes, KeyFileKept
<1> SUFFICES ASSUME NEW p \in Processes,
                    \/ LookForKey(p) \/ Acquire(p) \/ LockUnwritten(p) \/ LookAgain(p)
                    \/ WriteKey(p) \/ Release(p) \/ LoadKey(p) \/ StartAgain(p)
                    \/ DiesWithKey(p)
             PROVE  MakerHasLock' /\ WritesFirst' /\ OneKey'
  BY DEF KeyNext
<1>1. CASE LookForKey(p) BY <1>1 DEF LookForKey
<1>2. CASE Acquire(p) BY <1>2 DEF Acquire
<1>3. CASE LockUnwritten(p) BY <1>3 DEF LockUnwritten
<1>4. CASE LookAgain(p) BY <1>4 DEF LookAgain
<1>5. CASE WriteKey(p) BY <1>5 DEF WriteKey
<1>6. CASE Release(p) BY <1>6 DEF Release
<1>7. CASE LoadKey(p) BY <1>7 DEF LoadKey
<1>8. CASE StartAgain(p) BY <1>8 DEF StartAgain
<1>9. CASE DiesWithKey(p) BY <1>9 DEF DiesWithKey
<1> QED BY <1>1, <1>2, <1>3, <1>4, <1>5, <1>6, <1>7, <1>8, <1>9

\* The inductive invariant of the processes that start.
THEOREM KeyInvariant == KeySpec => []KeyInductive
<1>1. KeyInductive /\ [KeyNext]_keyVars => KeyInductive'
  <2>1. CASE KeyNext
    BY <2>1, KeyTypesStep, KeyLockStep DEF KeyInductive
  <2>2. CASE UNCHANGED keyVars
    BY <2>2 DEF keyVars, KeyInductive, KeyTypeOK, MakerHasLock, WritesFirst, OneKey, At
  <2> QED BY <2>1, <2>2
<1> QED BY KeyInitHolds, <1>1, PTL DEF KeySpec

\* Every process that goes on with a key has the one in the file
\* (get_or_create_storage_key).
THEOREM OneKeyHolds == KeySpec => []OneKey
<1>1. KeyInductive => OneKey BY DEF KeyInductive
<1> QED BY KeyInvariant, <1>1, PTL

\* No process replaces a key that another one has written.
THEOREM KeyIsNeverReplaced == KeySpec => KeyIsKept
<1>1. KeyInductive /\ [KeyNext]_keyVars => [keyFile # 0 => UNCHANGED keyFile]_keyVars
  <2>1. CASE KeyNext
    <3>1. ASSUME NEW p \in Processes, WriteKey(p), KeyInductive
          PROVE  keyFile = 0
      BY <3>1 DEF WriteKey, KeyInductive, WritesFirst
    <3> QED BY <2>1, <3>1, KeyWriters
  <2>2. CASE UNCHANGED keyVars BY <2>2
  <2> QED BY <2>1, <2>2
<1> QED BY KeyInvariant, <1>1, PTL DEF KeySpec, KeyIsKept

\* The lock has an owner after every step.
LEMMA LockOwnerStep ==
  ASSUME KeyInductive, LockHasOwner, KeyNext
  PROVE  LockHasOwner'
<1> USE StorageKeyAssumption
    DEF KeyInductive, KeyTypeOK, MakerHasLock, LockHasOwner, Creating, KeyPcs, At, Goes,
        KeyFileKept
<1> SUFFICES ASSUME NEW p \in Processes,
                    \/ LookForKey(p) \/ Acquire(p) \/ LockUnwritten(p) \/ LookAgain(p)
                    \/ WriteKey(p) \/ Release(p) \/ LoadKey(p) \/ StartAgain(p)
                    \/ DiesWithKey(p)
             PROVE  LockHasOwner'
  BY DEF KeyNext
<1>1. CASE LookForKey(p) BY <1>1 DEF LookForKey
<1>2. CASE Acquire(p) BY <1>2 DEF Acquire
<1>3. CASE LockUnwritten(p) BY <1>3 DEF LockUnwritten
<1>4. CASE LookAgain(p) BY <1>4 DEF LookAgain
<1>5. CASE WriteKey(p) BY <1>5 DEF WriteKey
<1>6. CASE Release(p) BY <1>6 DEF Release
<1>7. CASE LoadKey(p) BY <1>7 DEF LoadKey
<1>8. CASE StartAgain(p) BY <1>8 DEF StartAgain
<1>9. CASE DiesWithKey(p) BY <1>9 DEF DiesWithKey
<1> QED BY <1>1, <1>2, <1>3, <1>4, <1>5, <1>6, <1>7, <1>8, <1>9

\* A start that fails, wherever it does, leaves no lock file that would keep the next
\* from making the key: only a death does (the finally clause of
\* get_or_create_storage_key).
THEOREM LockIsOwned == KeySpec => []LockHasOwner
<1>1. KeyInit => LockHasOwner
  BY DEF KeyInit, LockHasOwner
<1>2. KeyInductive /\ LockHasOwner /\ [KeyNext]_keyVars => LockHasOwner'
  <2>1. ASSUME LockHasOwner, UNCHANGED keyVars PROVE LockHasOwner'
    BY <2>1 DEF keyVars, LockHasOwner
  <2> QED BY <2>1, LockOwnerStep
<1> QED BY KeyInvariant, <1>1, <1>2, PTL DEF KeySpec

-----------------------------------------------------------------------------
(* The migration of the store. *)

Forms  == {"none", "empty", "plain", "encrypted"}
Copies == [form : Forms, parts : SUBSET Parts]

MigrationTypeOK ==
  /\ folder \in BOOLEAN /\ crashed \in BOOLEAN /\ purged \in BOOLEAN /\ faults \in Nat
  /\ stage \in {"down", "copy", "encrypt", "aside", "place", "clean", "open", "dead"}
  /\ live \in Copies /\ staged \in Copies /\ aside \in Copies /\ backup \in Copies
  /\ sidecar \subseteq Parts
  /\ folder => sidecar = {}
  /\ live.form = "none" => live = None

\* What is at the store's path, with the log.
Disk == live.parts \cup sidecar

\* Which copies there are at each stage, and what they hold: the encrypted one and
\* the backup have what the disk had.
CopiesFit ==
  /\ stage \in {"down", "copy", "open"} =>
       /\ staged = None /\ backup = None
       /\ aside = None \/ (live.form = "encrypted" /\ faults > 0)
  /\ stage \in {"encrypt", "aside"} => aside = None /\ backup = PlainCopy(Disk)
  /\ stage = "encrypt" => staged = None
  /\ stage = "aside" => staged = [form |-> "encrypted", parts |-> Disk]
  /\ stage = "place" => /\ staged = [form |-> "encrypted", parts |-> Disk \cup aside.parts]
                        /\ backup = PlainCopy(staged.parts)
                        /\ sidecar = {}
                        /\ IF folder THEN live = None ELSE aside.form = "plain"
  /\ stage = "clean" => /\ staged = None /\ live.form = "encrypted" /\ sidecar = {}
                        /\ aside.parts \subseteq live.parts /\ backup.parts \subseteq live.parts
  /\ stage = "dead" => backup = None /\ crashed
  /\ StageIs("open") => live.form # "plain"
  /\ stage \in {"copy", "encrypt", "aside"} => live.form = "plain"
  /\ stage = "place" /\ folder => aside.form = "plain"

\* Without a crash, the data is where the stage says.
DataFits ==
  ~crashed =>
    /\ stage \in {"down", "open", "copy", "encrypt", "aside", "clean"} => HasAll(Disk)
    /\ stage = "place" => HasAll(staged.parts)

\* What a dead process left is listed, and nothing is before the first failure.
LeftFits ==
  /\ stage = "dead" /\ ~purged =>
       \A c \in {staged, aside} : HasAll(c.parts) => \E r \in left : r[2] = c
  /\ faults = 0 => left = {}

MigrationInductive ==
  /\ MigrationTypeOK /\ CopiesFit /\ DataFits /\ LeftFits /\ CopyRemains

LEMMA MigrationInitHolds == MigrationInit => MigrationInductive
<1> SUFFICES ASSUME MigrationInit PROVE MigrationInductive
  OBVIOUS
<1>1. /\ live \in Copies /\ live.form = "plain" /\ Disk = Parts
      /\ None \in Copies /\ sidecar \subseteq Parts /\ (folder => sidecar = {})
  BY DEF MigrationInit, PlainCopy, Copies, Forms, None, Parts, Disk
<1> QED BY <1>1 DEF MigrationInit, MigrationInductive, MigrationTypeOK, CopiesFit, DataFits,
                    LeftFits, CopyRemains, StageIs, HasAll, Disk

\* Opening: a store without a copy on the way is copied, or opened as it is.
LEMMA PrepareStep ==
  ASSUME MigrationInductive, Prepare
  PROVE  MigrationInductive'
<1>1. live' \in Copies /\ live'.parts = live.parts /\ (live'.form = "none" => live' = None)
      /\ live'.form # "none"
  BY DEF Prepare, MigrationInductive, MigrationTypeOK, Copies, Forms, None
<1>2. /\ stage = "down" /\ stage' \in {"copy", "open"} /\ (stage' = "copy" <=> live.form = "plain")
      /\ (live.form # "none" => live' = live) /\ (live.form = "none" => live'.form = "empty")
      /\ UNCHANGED <<sidecar, staged, aside, backup, left, folder, faults, crashed, purged>>
  BY DEF Prepare, StageIs, Kept, None
<1>3. MigrationTypeOK'
  BY <1>1, <1>2 DEF MigrationInductive, MigrationTypeOK
<1>4. Disk' = Disk
  BY <1>1, <1>2 DEF Disk
<1>5. CopiesFit'
  BY <1>1, <1>2, <1>4 DEF MigrationInductive, CopiesFit, StageIs
<1>6. DataFits' /\ LeftFits' /\ CopyRemains'
  BY <1>2, <1>4 DEF MigrationInductive, DataFits, LeftFits, CopyRemains, Disk
<1> QED BY <1>3, <1>5, <1>6 DEF MigrationInductive

LEMMA CopyStoreStep ==
  ASSUME MigrationInductive, CopyStore
  PROVE  MigrationInductive'
<1>1. /\ stage = "copy" /\ stage' = "encrypt" /\ backup' = PlainCopy(Disk)
      /\ UNCHANGED <<live, sidecar, staged, aside, left, folder, faults, crashed, purged>>
  BY DEF CopyStore, Snapshot, StageIs, Kept, Disk
<1>2. Disk' = Disk /\ Disk \subseteq Parts
  BY <1>1 DEF Disk, MigrationInductive, MigrationTypeOK, Copies
<1>3. MigrationTypeOK'
  BY <1>1, <1>2 DEF MigrationInductive, MigrationTypeOK, Copies, PlainCopy, Forms
<1>4. CopiesFit'
  BY <1>1, <1>2 DEF MigrationInductive, CopiesFit, StageIs
<1>5. DataFits' /\ LeftFits'
  BY <1>1, <1>2 DEF MigrationInductive, DataFits, LeftFits
<1>6. CopyRemains'
  BY <1>1 DEF MigrationInductive, CopyRemains, CopiesFit, HasAll, None, Parts
<1> QED BY <1>3, <1>4, <1>5, <1>6 DEF MigrationInductive

LEMMA EncryptCopyStep ==
  ASSUME MigrationInductive, EncryptCopy
  PROVE  MigrationInductive'
<1>1. /\ stage = "encrypt" /\ stage' = "aside" /\ staged' = [backup EXCEPT !.form = "encrypted"]
      /\ UNCHANGED <<live, sidecar, aside, backup, left, folder, faults, crashed, purged>>
  BY DEF EncryptCopy, StageIs, Kept
<1>2. Disk' = Disk /\ Disk \subseteq Parts /\ staged' = [form |-> "encrypted", parts |-> Disk]
  BY <1>1 DEF Disk, MigrationInductive, MigrationTypeOK, CopiesFit, Copies, PlainCopy
<1>3. MigrationTypeOK'
  BY <1>1, <1>2 DEF MigrationInductive, MigrationTypeOK, Copies, Forms
<1>4. CopiesFit'
  BY <1>1, <1>2 DEF MigrationInductive, CopiesFit, StageIs
<1>5. DataFits' /\ LeftFits'
  BY <1>1, <1>2 DEF MigrationInductive, DataFits, LeftFits
<1>6. CopyRemains'
  BY <1>1 DEF MigrationInductive, CopyRemains, CopiesFit, HasAll, None, Parts
<1> QED BY <1>3, <1>4, <1>5, <1>6 DEF MigrationInductive

LEMMA SetAsideStep ==
  ASSUME MigrationInductive, SetAside
  PROVE  MigrationInductive'
<1>1. /\ stage = "aside" /\ stage' = "place" /\ aside = None
      /\ staged = [form |-> "encrypted", parts |-> Disk] /\ backup = PlainCopy(Disk)
      /\ live.form = "plain" /\ live \in Copies /\ (folder => sidecar = {}) /\ sidecar \subseteq Parts
      /\ UNCHANGED <<staged, backup, left, folder, faults, crashed, purged>>
  BY DEF SetAside, StageIs, Kept, MigrationInductive, CopiesFit, MigrationTypeOK
<1>2. CASE folder
  <2>1. aside' = live /\ live' = None /\ sidecar' = {} /\ Disk = live.parts /\ Disk' = {}
    BY <1>1, <1>2 DEF SetAside, Disk, None
  <2>2. MigrationTypeOK'
    BY <1>1, <2>1 DEF MigrationInductive, MigrationTypeOK, None, Copies, Forms
  <2>3. CopiesFit'
    BY <1>1, <1>2, <2>1 DEF CopiesFit, StageIs, PlainCopy
  <2>4. DataFits' /\ LeftFits'
    BY <1>1, <2>1 DEF MigrationInductive, DataFits, LeftFits
  <2>5. CopyRemains'
    BY <1>1, <2>1 DEF MigrationInductive, CopyRemains, Disk, None, HasAll, Parts
  <2> QED BY <2>2, <2>3, <2>4, <2>5 DEF MigrationInductive
<1>3. CASE ~folder
  <2>1. aside' = PlainCopy(sidecar) /\ sidecar' = {} /\ live' = live /\ Disk' = live.parts
    BY <1>1, <1>3 DEF SetAside, Disk
  <2>2. MigrationTypeOK'
    BY <1>1, <2>1 DEF MigrationInductive, MigrationTypeOK, PlainCopy, Copies, Forms
  <2>3. Disk = Disk' \cup aside'.parts
    BY <2>1 DEF Disk, PlainCopy
  <2>4. CopiesFit'
    BY <1>1, <1>3, <2>1, <2>3 DEF CopiesFit, StageIs, PlainCopy
  <2>5. DataFits' /\ LeftFits'
    BY <1>1, <2>1 DEF MigrationInductive, DataFits, LeftFits
  <2>6. CopyRemains'
    BY <1>1, <2>1 DEF MigrationInductive, CopyRemains, Disk, None, HasAll, Parts, PlainCopy
  <2> QED BY <2>2, <2>4, <2>5, <2>6 DEF MigrationInductive
<1> QED BY <1>2, <1>3

LEMMA PutInPlaceStep ==
  ASSUME MigrationInductive, PutInPlace
  PROVE  MigrationInductive'
<1>1. /\ stage = "place" /\ stage' = "clean" /\ live' = staged /\ staged' = None
      /\ staged = [form |-> "encrypted", parts |-> Disk \cup aside.parts]
      /\ backup = PlainCopy(staged.parts) /\ sidecar = {}
      /\ staged \in Copies
      /\ UNCHANGED <<sidecar, aside, backup, left, folder, faults, crashed, purged>>
  BY DEF PutInPlace, StageIs, Kept, MigrationInductive, CopiesFit, MigrationTypeOK
<1>2. /\ live'.form = "encrypted" /\ live'.parts = staged.parts
      /\ aside.parts \subseteq live'.parts /\ backup.parts = live'.parts
      /\ Disk \subseteq live'.parts /\ Disk' = live'.parts
  BY <1>1 DEF PlainCopy, Disk
<1>3. MigrationTypeOK'
  BY <1>1, <1>2 DEF MigrationInductive, MigrationTypeOK, None, Copies, Forms
<1>4. CopiesFit'
  BY <1>1, <1>2 DEF CopiesFit, StageIs
<1>5. DataFits' /\ LeftFits'
  BY <1>1, <1>2 DEF MigrationInductive, DataFits, LeftFits
<1>6. CopyRemains'
  BY <1>1, <1>2 DEF MigrationInductive, CopyRemains, Disk, HasAll, MigrationTypeOK, Copies
<1> QED BY <1>3, <1>4, <1>5, <1>6 DEF MigrationInductive

LEMMA CleanStep ==
  ASSUME MigrationInductive, Clean
  PROVE  MigrationInductive'
<1>1. /\ stage = "clean" /\ staged = None /\ live.form = "encrypted" /\ sidecar = {}
      /\ aside.parts \subseteq live.parts /\ backup.parts \subseteq live.parts
      /\ UNCHANGED <<live, sidecar, staged, left, folder, faults, crashed, purged>>
      /\ \/ aside' = None /\ UNCHANGED <<backup, stage>>
         \/ aside = None /\ UNCHANGED aside /\ backup' = None /\ stage' = "open"
  BY DEF Clean, StageIs, Kept, MigrationInductive, CopiesFit
<1>2. MigrationTypeOK'
  BY <1>1 DEF MigrationInductive, MigrationTypeOK, None, Copies, Forms
<1>3. CopiesFit'
  BY <1>1 DEF MigrationInductive, CopiesFit, StageIs, None
<1>4. DataFits' /\ LeftFits'
  BY <1>1 DEF MigrationInductive, DataFits, LeftFits, Disk
<1>5. CopyRemains'
  <2>1. /\ HasAll(aside.parts) => HasAll(live.parts \cup sidecar)
        /\ HasAll(backup.parts) => HasAll(live.parts \cup sidecar)
        /\ ~HasAll(staged.parts)
    BY <1>1 DEF MigrationInductive, MigrationTypeOK, Copies, HasAll, None, Parts
  <2> QED BY <1>1, <2>1 DEF MigrationInductive, CopyRemains
<1> QED BY <1>2, <1>3, <1>4, <1>5 DEF MigrationInductive

\* What is listed when an attempt is cut short.
LEMMA LeavesAll ==
  ASSUME Leaves
  PROVE  /\ left \subseteq left'
         /\ HasAll(staged'.parts) => \E r \in left' : r[2] = staged'
         /\ HasAll(aside'.parts) => \E r \in left' : r[2] = aside'
         /\ HasAll(backup.parts) => \E r \in left' : r[2] = backup
<1>1. \A c : HasAll(c.parts) => c # None /\ c.parts # {}
  BY DEF HasAll, Parts, None
<1>2. left' = left \cup {r \in Remains : r[2] # None /\ r[2].parts # {}}
  BY DEF Leaves
<1>3. /\ <<"beside", staged'>> \in Remains /\ <<"backups", backup>> \in Remains
      /\ <<"beside", aside'>> \in Remains \/ <<"backups", aside'>> \in Remains
  BY DEF Remains
<1>4. ASSUME NEW w, NEW c, <<w, c>> \in Remains, HasAll(c.parts)
      PROVE  \E r \in left' : r[2] = c
  BY <1>1, <1>2, <1>4
<1> QED BY <1>2, <1>3, <1>4

LEMMA StepRaisesStep ==
  ASSUME MigrationInductive, StepRaises
  PROVE  MigrationInductive'
<1>1. /\ stage \in {"copy", "encrypt", "aside", "place", "clean"} /\ stage' = "down"
      /\ Restore /\ staged' = None /\ backup' = None /\ faults' = faults + 1 /\ Leaves
      /\ UNCHANGED <<folder, crashed, purged>>
  BY DEF StepRaises, Afresh
<1>2. /\ left \subseteq left' /\ (HasAll(backup.parts) => \E r \in left' : r[2] = backup)
      /\ (HasAll(aside'.parts) => \E r \in left' : r[2] = aside')
  BY <1>1, LeavesAll
<1>3. /\ live' \in Copies /\ aside' \in Copies /\ sidecar' \subseteq Parts
      /\ (folder => sidecar' = {}) /\ (live'.form = "none" => live' = None)
      /\ stage = "place" => Disk' = staged.parts /\ aside' = None
      /\ stage # "place" => UNCHANGED <<live, sidecar, aside>> /\ Disk' = Disk
  <2>1. CASE stage # "place"
    BY <1>1, <2>1 DEF Restore, StageIs, MigrationInductive, MigrationTypeOK, Disk
  <2>2. CASE stage = "place" /\ folder
    BY <1>1, <2>2 DEF Restore, StageIs, MigrationInductive, MigrationTypeOK, CopiesFit, Disk,
                      None, Copies, Forms
  <2>3. CASE stage = "place" /\ ~folder
    BY <1>1, <2>3 DEF Restore, StageIs, MigrationInductive, MigrationTypeOK, CopiesFit, Disk,
                      None, Copies, Forms
  <2> QED BY <2>1, <2>2, <2>3
<1>4. faults \in Nat /\ faults' \in Nat /\ faults' > 0
  BY <1>1 DEF MigrationInductive, MigrationTypeOK
<1>5. MigrationTypeOK'
  BY <1>1, <1>3, <1>4 DEF MigrationInductive, MigrationTypeOK, None, Copies, Forms
<1>6. CopiesFit'
  BY <1>1, <1>3, <1>4 DEF MigrationInductive, CopiesFit, StageIs
<1>7. DataFits' /\ LeftFits'
  BY <1>1, <1>3, <1>4 DEF MigrationInductive, DataFits, LeftFits
<1>8. CopyRemains'
  <2>1. ASSUME ~purged
        PROVE  HasAll(live'.parts \cup sidecar') \/ \E r \in left' : HasAll(r[2].parts)
    <3>0. /\ stage = "place" => staged.parts = Disk \cup aside.parts
          /\ stage = "aside" => staged.parts = Disk
          /\ staged.parts \subseteq Parts
      BY DEF MigrationInductive, MigrationTypeOK, CopiesFit, Copies
    <3>1. CASE HasAll(Disk)
      <4>1. stage = "place" => HasAll(staged.parts)
        BY <3>0, <3>1 DEF HasAll
      <4> QED BY <1>3, <3>1, <4>1 DEF Disk
    <3>2. CASE HasAll(staged.parts)
      <4>1. stage \in {"aside", "place"}
        BY <1>1, <3>2 DEF MigrationInductive, CopiesFit, None, HasAll, Parts
      <4> QED BY <1>3, <3>0, <3>2, <4>1 DEF Disk
    <3>3. CASE HasAll(backup.parts)
      BY <1>2, <3>3
    <3>4. CASE HasAll(aside.parts)
      <4>1. stage = "place" => HasAll(staged.parts)
        BY <3>4 DEF MigrationInductive, MigrationTypeOK, CopiesFit, HasAll, Copies
      <4> QED BY <1>2, <1>3, <3>2, <3>4, <4>1
    <3>5. CASE \E r \in left : HasAll(r[2].parts)
      BY <1>2, <3>5
    <3> QED BY <2>1, <3>1, <3>2, <3>3, <3>4, <3>5 DEF MigrationInductive, CopyRemains, Disk
  <2> QED BY <1>1, <2>1 DEF CopyRemains
<1> QED BY <1>5, <1>6, <1>7, <1>8 DEF MigrationInductive

LEMMA DiesMigratingStep ==
  ASSUME MigrationInductive, DiesMigrating
  PROVE  MigrationInductive'
<1>1. /\ stage' = "dead" /\ crashed' = TRUE /\ backup' = None /\ faults' = faults + 1 /\ Leaves
      /\ UNCHANGED <<live, sidecar, staged, aside, folder, purged>>
  BY DEF DiesMigrating, Afresh
<1>2. /\ left \subseteq left' /\ (HasAll(backup.parts) => \E r \in left' : r[2] = backup)
      /\ HasAll(staged.parts) => \E r \in left' : r[2] = staged
      /\ HasAll(aside.parts) => \E r \in left' : r[2] = aside
  BY <1>1, LeavesAll
<1>3. faults' \in Nat /\ faults' # 0
  BY <1>1 DEF MigrationInductive, MigrationTypeOK
<1>4. MigrationTypeOK'
  BY <1>1, <1>3 DEF MigrationInductive, MigrationTypeOK, None, Copies, Forms
<1>5. CopiesFit' /\ DataFits' /\ LeftFits'
  BY <1>1, <1>2, <1>3 DEF CopiesFit, DataFits, LeftFits, StageIs
<1>6. CopyRemains'
  BY <1>1, <1>2 DEF MigrationInductive, CopyRemains
<1> QED BY <1>4, <1>5, <1>6 DEF MigrationInductive

LEMMA ComesBackStep ==
  ASSUME MigrationInductive, ComesBack
  PROVE  MigrationInductive'
<1>1. /\ stage = "dead" /\ stage' = "down" /\ staged' = None /\ aside' = None
      /\ backup = None /\ crashed
      /\ UNCHANGED <<live, sidecar, backup, left, folder, faults, crashed, purged>>
  BY DEF ComesBack, StageIs, Kept, MigrationInductive, CopiesFit
<1>2. MigrationTypeOK'
  BY <1>1 DEF MigrationInductive, MigrationTypeOK, None, Copies, Forms
<1>3. CopiesFit' /\ DataFits' /\ LeftFits'
  BY <1>1 DEF MigrationInductive, CopiesFit, DataFits, LeftFits, StageIs
<1>4. CopyRemains'
  BY <1>1 DEF MigrationInductive, CopyRemains, LeftFits
<1> QED BY <1>2, <1>3, <1>4 DEF MigrationInductive

LEMMA PurgeStep ==
  ASSUME MigrationInductive, Purge
  PROVE  MigrationInductive'
<1>1. /\ stage = "open" /\ purged' = TRUE /\ left' \subseteq left
      /\ UNCHANGED <<folder, stage, live, sidecar, staged, aside, backup, faults, crashed>>
  BY DEF Purge, StageIs
<1>2. MigrationTypeOK' /\ CopiesFit' /\ CopyRemains'
  BY <1>1 DEF MigrationInductive, MigrationTypeOK, CopiesFit, CopyRemains, StageIs, Disk
<1>3. DataFits' /\ LeftFits'
  BY <1>1 DEF MigrationInductive, DataFits, LeftFits, Disk
<1> QED BY <1>2, <1>3 DEF MigrationInductive

\* The inductive invariant of the migration.
THEOREM MigrationInvariant == MigrationSpec => []MigrationInductive
<1>1. MigrationInductive /\ [MigrationNext]_migrationVars => MigrationInductive'
  <2>1. MigrationInductive /\ MigrationNext => MigrationInductive'
    BY PrepareStep, CopyStoreStep, EncryptCopyStep, SetAsideStep, PutInPlaceStep, CleanStep,
       StepRaisesStep, DiesMigratingStep, ComesBackStep, PurgeStep DEF MigrationNext
  <2>2. MigrationInductive /\ UNCHANGED migrationVars => MigrationInductive'
    BY DEF migrationVars, MigrationInductive, MigrationTypeOK, CopiesFit, DataFits, LeftFits,
           CopyRemains, Disk, StageIs
  <2> QED BY <2>1, <2>2
<1> QED BY MigrationInitHolds, <1>1, PTL DEF MigrationSpec

\* However many steps of prepare_encrypted_sqlite and of its counterpart for folders
\* raise, the store has its data; whenever the process dies there is a complete copy,
\* until the recovery copies are purged.
THEOREM MigrationKeepsData == MigrationSpec => []DataSurvives
<1>1. MigrationInductive => DataSurvives
  <2> SUFFICES ASSUME MigrationInductive PROVE DataSurvives
    OBVIOUS
  <2>1. FailureKeepsData
    BY DEF MigrationInductive, DataFits, FailureKeepsData, Disk
  <2> QED BY <2>1 DEF MigrationInductive, DataSurvives
<1> QED BY MigrationInvariant, <1>1, PTL

-----------------------------------------------------------------------------
(* Compaction: the inductive invariant. *)

Messages == [id : Nat, role : {"user", "assistant"}, size : Nat \ {0}]
Texts    == [messages : Seq(Messages), summary : [covers : SUBSET Nat, size : Nat],
             count : Nat, marks : SUBSET Nat]
Replies  == [result : {"none", "error"}]
              \cup [result : {"ok"}, size : Nat, covers : SUBSET Nat, upto : Nat]
TurnPcs  == {"idle", "compact", "waiting", "finish", "answer", "answering", "save"}
Turns    == [pc : TurnPcs, manual : BOOLEAN, auto : BOOLEAN, thread : ChatThreads, work : Texts,
             phase : {"before", "after"}, asked : Nat, reply : Replies,
             prompt : [summary : BOOLEAN, from : Nat]]

CompactionTyped ==
  /\ saved \in [ChatThreads -> Texts]
  /\ turn \in Turns
  /\ turns \in 0..MaxTurns /\ stopped \in BOOLEAN
  /\ helpers \subseteq [run : Nat, call : Nat, upto : Nat, covers : SUBSET Nat]

\* A summary stands for the messages that it replaces, and is marked.
TextFits(t) ==
  /\ t.count <= Len(t.messages)
  /\ t.summary.covers = Folded(t)
  /\ t.count > 0 => t.count \in t.marks

Earlier == saved[turn.thread]

\* A run is before its first summary, or waits for the only one that it asks for, ...
PhaseFits ==
  /\ turn.asked <= 1
  /\ turn.manual => turn.phase = "before" /\ turn.pc \notin {"answer", "answering", "save"}
  /\ ~turn.manual => turn.pc # "finish"
  /\ turn.pc \in {"answer", "answering"} => turn.phase = "before"
  /\ turn.pc = "save" => turn.phase = "after"
  /\ turn.pc = "compact" /\ turn.phase = "before" => turn.asked = 0
  /\ turn.pc = "waiting" => turn.asked = 1

\* ... its working copy has the saved messages, the new prompt and then the answer ...
Gained == IF turn.manual THEN 0 ELSE IF turn.phase = "before" THEN 1 ELSE 2
CopyFits ==
  turn.pc # "idle" =>
    /\ Len(Work.messages) = Len(Earlier.messages) + Gained
    /\ \A k \in DOMAIN Earlier.messages : Work.messages[k] = Earlier.messages[k]

\* ... and what is saved of its summary, but for one that it accepted after the answer.
SameSummary == Work.summary = Earlier.summary /\ Work.count = Earlier.count
Shorter(new, old) == Tokens(new) < Tokens([old EXCEPT !.messages = new.messages])
SummaryFits ==
  turn.pc # "idle" => SameSummary \/ (turn.pc = "save" /\ Shorter(Work, Earlier))

\* What a summary is to cover that the run is waiting for.
Asked(upto, covers) ==
  /\ upto \in Work.count..Len(Work.messages)
  /\ turn.phase = "before" => upto <= Len(Earlier.messages)
  /\ covers = Work.summary.covers \cup Given(Work, upto)

\* Helpers of an earlier run, or of an earlier call, do not reach this one.
HelpersFit ==
  /\ \A h \in helpers : /\ h.run <= turns
                        /\ h.run = turns /\ turn.pc # "idle" => h.call <= turn.asked
                        /\ OwnQueue(h) => Asked(h.upto, h.covers)
  /\ turn.pc = "waiting" /\ turn.reply.result = "ok" => Asked(turn.reply.upto, turn.reply.covers)

\* The prompt that is being answered is the one that was built.
PromptIsBuilt ==
  turn.pc = "answering" => turn.prompt = PromptOf(Work) /\ Latest(Work) <= PromptBudget

CompactionInductive ==
  /\ CompactionTyped
  /\ \A t \in ChatThreads : TextFits(saved[t])
  /\ TextFits(Work)
  /\ PhaseFits /\ CopyFits /\ SummaryFits /\ HelpersFit /\ PromptIsBuilt

-----------------------------------------------------------------------------
(* Compaction: texts. *)

\* The messages that a summary stands for are the first ones.
LEMMA SameFolded ==
  ASSUME NEW t, NEW u, t.count = u.count,
         \A k \in 1..t.count : t.messages[k].id = u.messages[k].id
  PROVE  Folded(t) = Folded(u)
BY DEF Folded

\* A text that keeps its summary, and the messages before, still fits.
LEMMA TextGrows ==
  ASSUME NEW t \in Texts, TextFits(t), NEW u \in Texts,
         u.summary = t.summary, u.count = t.count, u.marks = t.marks,
         u.count <= Len(u.messages),
         \A k \in 1..t.count : u.messages[k] = t.messages[k]
  PROVE  TextFits(u)
<1>1. Folded(t) = Folded(u)
  BY SameFolded
<1> QED BY <1>1 DEF TextFits

LEMMA NothingFits == Nothing \in Texts /\ TextFits(Nothing) /\ Rest \in Turns
<1>1. Nothing \in Texts
  <2>1. <<>> \in Seq(Messages)
    OBVIOUS
  <2> QED BY <2>1 DEF Nothing, NoSummary, Texts
<1>2. Folded(Nothing) = {}
  <2>1. 1..0 = {}
    OBVIOUS
  <2> QED BY <2>1 DEF Folded, Nothing
<1>3. TextFits(Nothing)
  <2>1. PICK s : s = <<>> /\ Len(s) = 0
    OBVIOUS
  <2>2. Nothing.count = 0 /\ Nothing.messages = s /\ Nothing.summary.covers = {}
    BY <2>1 DEF Nothing, NoSummary
  <2> QED BY <1>2, <2>1, <2>2 DEF TextFits
<1>4. 1 \in ChatThreads
  BY CompactionAssumption DEF ChatThreads
<1>5. [result |-> "none"] \in Replies
  BY DEF Replies
<1> QED BY <1>1, <1>3, <1>4, <1>5 DEF Rest, Turns, TurnPcs

\* Nothing is wrong with a run that is over.
LEMMA RestKeeps ==
  ASSUME CompactionInductive, turn' = Rest, stopped' = FALSE, UNCHANGED turns, helpers' \subseteq helpers,
         saved' \in [ChatThreads -> Texts], \A t \in ChatThreads : TextFits(saved'[t])
  PROVE  CompactionInductive'
<1>1. CompactionTyped'
  BY NothingFits DEF CompactionInductive, CompactionTyped
<1>2. /\ turn'.pc = "idle" /\ turn'.work = Nothing /\ turn'.asked = 0 /\ ~turn'.manual
      /\ turn'.phase = "before"
  BY DEF Rest
<1>3. TextFits(Work)'
  BY <1>2, NothingFits DEF Work
<1>4. PhaseFits' /\ CopyFits' /\ SummaryFits' /\ PromptIsBuilt'
  BY <1>2 DEF PhaseFits, CopyFits, SummaryFits, PromptIsBuilt
<1>5. HelpersFit'
  BY <1>2 DEF HelpersFit, CompactionInductive, OwnQueue, TurnAt
<1>6. \A t \in ChatThreads : TextFits(saved[t])'
  OBVIOUS
<1> QED BY <1>1, <1>3, <1>4, <1>5, <1>6 DEF CompactionInductive

LEMMA TurnEndsKeeps ==
  ASSUME CompactionInductive, TurnEnds, UNCHANGED <<saved, turns>>, helpers' \subseteq helpers
  PROVE  CompactionInductive'
<1>1. saved' \in [ChatThreads -> Texts] /\ \A t \in ChatThreads : TextFits(saved'[t])
  BY DEF CompactionInductive, CompactionTyped
<1> QED BY <1>1, RestKeeps DEF TurnEnds

LEMMA BeginChatKeeps ==
  ASSUME CompactionInductive, NEW t \in ChatThreads, BeginChat(t)
  PROVE  CompactionInductive'
<1>1. PICK size \in Sizes, auto \in BOOLEAN :
       turn' = [Rest EXCEPT
         !.pc = "compact", !.thread = t, !.auto = auto,
         !.work = [saved[t] EXCEPT
           !.messages = Append(@, [id |-> NextId, role |-> "user", size |-> size])]]
  BY DEF BeginChat
<1>2. PICK m : m = [id |-> NextId, role |-> "user", size |-> size]
  OBVIOUS
<1>3. /\ turns \in Nat /\ turns < MaxTurns /\ turns' = turns + 1 /\ MaxTurns \in Nat
      /\ UNCHANGED <<saved, helpers, stopped>>
  BY CompactionAssumption DEF BeginChat, CompactionInductive, CompactionTyped
<1>4. m \in Messages
  BY <1>2, <1>3, CompactionAssumption DEF Messages, NextId
<1>5. PICK old : old = saved[t] /\ old \in Texts /\ TextFits(old)
  BY DEF CompactionInductive, CompactionTyped
<1>6. PICK new : new = [old EXCEPT !.messages = Append(@, m)]
  OBVIOUS
<1>7. /\ new \in Texts /\ new.messages = Append(old.messages, m) /\ new.count = old.count
      /\ new.summary = old.summary /\ new.marks = old.marks
      /\ Len(new.messages) = Len(old.messages) + 1
      /\ \A k \in DOMAIN old.messages : new.messages[k] = old.messages[k]
  <2>1. PICK told : told = Append(old.messages, m)
    OBVIOUS
  <2>2. old.messages \in Seq(Messages)
    BY <1>5 DEF Texts
  <2>3. /\ told \in Seq(Messages) /\ Len(told) = Len(old.messages) + 1
        /\ \A k \in DOMAIN old.messages : told[k] = old.messages[k]
    BY <1>4, <2>1, <2>2
  <2>4. new = [old EXCEPT !.messages = told]
    BY <1>6, <2>1
  <2>5. /\ new \in Texts /\ new.messages = told /\ new.count = old.count
        /\ new.summary = old.summary /\ new.marks = old.marks
    BY <1>5, <2>3, <2>4 DEF Texts
  <2> QED BY <2>1, <2>3, <2>5
<1>8. TextFits(new)
  <2>1. old.count <= Len(old.messages) /\ old.count \in Nat /\ Len(old.messages) \in Nat
        /\ DOMAIN old.messages = 1..Len(old.messages)
    BY <1>5 DEF TextFits, Texts
  <2>2. new.count <= Len(new.messages) /\ \A k \in 1..old.count : new.messages[k] = old.messages[k]
    BY <1>7, <2>1
  <2> QED BY <1>5, <1>7, <2>2, TextGrows
<1>9. turn' = [Rest EXCEPT !.pc = "compact", !.thread = t, !.auto = auto, !.work = new]
  BY <1>1, <1>2, <1>5, <1>6
<1>10. /\ turn' \in Turns /\ turn'.pc = "compact" /\ turn'.thread = t /\ turn'.work = new
       /\ turn'.asked = 0 /\ ~turn'.manual /\ turn'.phase = "before"
  BY <1>7, <1>9, NothingFits DEF Rest, Turns, TurnPcs
<1>11. CompactionTyped'
  BY <1>3, <1>10 DEF CompactionInductive, CompactionTyped
<1>12. TextFits(Work)' /\ \A u \in ChatThreads : TextFits(saved[u])'
  BY <1>3, <1>8, <1>10 DEF CompactionInductive, Work
<1>13. PhaseFits' /\ PromptIsBuilt'
  BY <1>10 DEF PhaseFits, PromptIsBuilt
<1>14. CopyFits' /\ SummaryFits'
  BY <1>3, <1>5, <1>7, <1>10 DEF CopyFits, SummaryFits, SameSummary, Earlier, Gained, Work
<1>15. HelpersFit'
  <2>1. \A h \in helpers : h.run \in Nat /\ h.run <= turns
    BY DEF CompactionInductive, CompactionTyped, HelpersFit
  <2> QED BY <1>3, <1>10, <2>1 DEF HelpersFit, OwnQueue, TurnAt
<1> QED BY <1>11, <1>12, <1>13, <1>14, <1>15 DEF CompactionInductive

LEMMA BeginCompactKeeps ==
  ASSUME CompactionInductive, NEW t \in ChatThreads, BeginCompact(t)
  PROVE  CompactionInductive'
<1>1. PICK pc : pc = IF saved[t].messages = <<>> THEN "idle" ELSE "compact"
  OBVIOUS
<1>2. /\ turns \in Nat /\ turns < MaxTurns /\ turns' = turns + 1 /\ MaxTurns \in Nat
      /\ UNCHANGED <<saved, helpers, stopped>>
  BY CompactionAssumption DEF BeginCompact, CompactionInductive, CompactionTyped
<1>3. turn' = [Rest EXCEPT !.pc = pc, !.thread = t, !.manual = TRUE, !.work = saved[t]]
  BY <1>1 DEF BeginCompact
<1>4. PICK old : old = saved[t] /\ old \in Texts /\ TextFits(old) /\ Len(old.messages) \in Nat
  BY DEF CompactionInductive, CompactionTyped, Texts
<1>5. /\ turn' \in Turns /\ turn'.pc \in {"idle", "compact"} /\ turn'.thread = t /\ turn'.work = old
      /\ turn'.asked = 0 /\ turn'.manual /\ turn'.phase = "before"
  BY <1>1, <1>3, <1>4, NothingFits DEF Rest, Turns, TurnPcs
<1>6. CompactionTyped'
  BY <1>2, <1>5 DEF CompactionInductive, CompactionTyped
<1>7. TextFits(Work)' /\ \A u \in ChatThreads : TextFits(saved[u])'
  BY <1>2, <1>4, <1>5 DEF CompactionInductive, Work
<1>8. PhaseFits' /\ PromptIsBuilt'
  BY <1>5 DEF PhaseFits, PromptIsBuilt
<1>9. CopyFits' /\ SummaryFits'
  BY <1>2, <1>4, <1>5 DEF CopyFits, SummaryFits, SameSummary, Earlier, Gained, Work
<1>10. HelpersFit'
  <2>1. \A h \in helpers : h.run \in Nat /\ h.run <= turns
    BY DEF CompactionInductive, CompactionTyped, HelpersFit
  <2> QED BY <1>2, <1>5, <2>1 DEF HelpersFit, OwnQueue, TurnAt
<1> QED BY <1>6, <1>7, <1>8, <1>9, <1>10 DEF CompactionInductive

\* Only the mark of the stop is set.
LEMMA StopTurnKeeps ==
  ASSUME CompactionInductive, StopTurn PROVE CompactionInductive'
<1>1. UNCHANGED <<saved, turn, turns, helpers>> /\ stopped' = TRUE
  BY DEF StopTurn
<1> QED BY <1>1 DEF CompactionInductive, CompactionTyped, PhaseFits, CopyFits, SummaryFits, SameSummary,
            Shorter, HelpersFit, OwnQueue, TurnAt, Asked, PromptIsBuilt, Work, Earlier, Gained

\* A run that goes on to its answer or its end leaves what it has as it is.
LEMMA GoesOnKeeps ==
  ASSUME CompactionInductive, NEW pc, TurnGoes(pc), UNCHANGED <<saved, turns, stopped>>,
         helpers' = helpers, turn.pc \in {"compact", "waiting"}, ~turn.manual,
         \/ pc = "answer" /\ turn.phase = "before"
         \/ pc = "save" /\ turn.phase = "after"
  PROVE  CompactionInductive'
<1>1. turn \in Turns /\ turn' = [turn EXCEPT !.pc = pc] /\ pc \in TurnPcs
  BY DEF CompactionInductive, CompactionTyped, TurnGoes, TurnPcs
<1>2. /\ turn' \in Turns /\ turn'.pc = pc
      /\ turn'.manual = turn.manual /\ turn'.thread = turn.thread /\ turn'.work = turn.work
      /\ turn'.phase = turn.phase /\ turn'.asked = turn.asked
  BY <1>1 DEF Turns
<1>3. CompactionTyped'
  BY <1>2 DEF CompactionInductive, CompactionTyped
<1>4. TextFits(Work)' /\ \A u \in ChatThreads : TextFits(saved[u])'
  BY <1>2 DEF CompactionInductive, Work
<1>5. PhaseFits' /\ PromptIsBuilt'
  BY <1>2 DEF CompactionInductive, PhaseFits, PromptIsBuilt
<1>6. CopyFits' /\ SummaryFits'
  BY <1>2 DEF CompactionInductive, CopyFits, SummaryFits, SameSummary, Earlier, Gained, Work
<1>7. HelpersFit'
  BY <1>2 DEF CompactionInductive, HelpersFit, OwnQueue, TurnAt
<1> QED BY <1>3, <1>4, <1>5, <1>6, <1>7 DEF CompactionInductive

LEMMA LeaveKeeps ==
  ASSUME CompactionInductive, LeaveCompaction, UNCHANGED <<saved, turns, helpers>>,
         turn.pc \in {"compact", "waiting"}
  PROVE  CompactionInductive'
<1>1. turn \in Turns /\ turn.phase \in {"before", "after"} /\ turn.manual \in BOOLEAN
  BY DEF CompactionInductive, CompactionTyped, Turns
<1>2. CASE turn.manual
  BY <1>2, TurnEndsKeeps DEF LeaveCompaction
<1>3. CASE ~turn.manual
  <2>1. PICK pc : pc = AfterCompaction
    OBVIOUS
  <2>2. /\ TurnGoes(pc) /\ UNCHANGED stopped
        /\ \/ pc = "answer" /\ turn.phase = "before"
           \/ pc = "save" /\ turn.phase = "after"
    BY <1>1, <1>3, <2>1 DEF LeaveCompaction, AfterCompaction
  <2> QED BY <1>3, <2>2, GoesOnKeeps
<1> QED BY <1>2, <1>3

\* The batch of messages for a summary follows those that it has.
LEMMA BatchFollows ==
  ASSUME NEW t \in Texts, NEW cutoff \in Int, BatchEnd(t, cutoff) > 0
  PROVE  BatchEnd(t, cutoff) \in (t.count + 1)..cutoff
<1>1. t.count \in Nat
  BY DEF Texts
<1>2. PICK x : x = Fitting(t, cutoff)
  OBVIOUS
<1>3. \A k \in x : k \in (t.count + 1)..cutoff
  BY <1>2 DEF Fitting, UnitEnds
<1>4. x # {} /\ BatchEnd(t, cutoff) = Max(x)
  BY <1>2 DEF BatchEnd
<1>5. cutoff \in Nat /\ x \in SUBSET (1..cutoff)
  BY <1>1, <1>3, <1>4
<1>6. Max(x) \in x
  BY <1>4, <1>5, LargestPlace
<1> QED BY <1>3, <1>4, <1>6

\* A helper is asked about messages of the working copy.
LEMMA AskingKeeps ==
  ASSUME CompactionInductive, NEW upto \in Nat, Ask(upto), UNCHANGED <<saved, turns, stopped>>,
         TurnAt("compact"), turn.asked = 0,
         upto \in Work.count..Len(Work.messages),
         turn.phase = "before" => upto <= Len(Earlier.messages)
  PROVE  CompactionInductive'
<1>1. PICK covers : covers = Work.summary.covers \cup Given(Work, upto)
  OBVIOUS
<1>2. PICK h : h = [run |-> turns, call |-> turn.asked + 1, upto |-> upto, covers |-> covers]
  OBVIOUS
<1>3. turn \in Turns /\ Work \in Texts /\ turns \in Nat /\ turn.pc = "compact"
  BY CompactionAssumption DEF CompactionInductive, CompactionTyped, Turns, Work, TurnAt
<1>4. covers \in SUBSET Nat
  <2>1. PICK w \in Texts : w = Work
    BY <1>3
  <2>2. /\ w.count \in Nat /\ w.messages \in Seq(Messages) /\ w.summary.covers \in SUBSET Nat
        /\ upto <= Len(w.messages) /\ \A m \in Messages : m.id \in Nat
    BY <2>1 DEF Texts, Messages
  <2>3. \A k \in (w.count + 1)..upto : w.messages[k].id \in Nat
    BY <2>2
  <2> QED BY <1>1, <2>1, <2>2, <2>3 DEF Given
<1>5. /\ turn' = [turn EXCEPT !.pc = "waiting", !.asked = turn.asked + 1, !.reply = [result |-> "none"]]
      /\ helpers' = helpers \cup {h}
  BY <1>1, <1>2 DEF Ask
<1>6. /\ turn' \in Turns /\ turn'.pc = "waiting" /\ turn'.asked = 1
      /\ turn'.manual = turn.manual /\ turn'.thread = turn.thread /\ turn'.work = turn.work
      /\ turn'.phase = turn.phase /\ turn'.reply.result = "none"
  <2>1. [result |-> "none"] \in Replies /\ "waiting" \in TurnPcs
    BY DEF Replies, TurnPcs
  <2>2. PICK r \in Replies : r = [result |-> "none"]
    BY <2>1
  <2>3. turn' = [turn EXCEPT !.pc = "waiting", !.asked = 1, !.reply = r]
    BY <1>5, <2>2
  <2> QED BY <1>3, <2>1, <2>2, <2>3 DEF Turns
<1>7. CompactionTyped'
  BY <1>2, <1>3, <1>4, <1>5, <1>6 DEF CompactionInductive, CompactionTyped
<1>8. TextFits(Work)' /\ \A u \in ChatThreads : TextFits(saved[u])'
  BY <1>6 DEF CompactionInductive, Work
<1>9. PhaseFits' /\ PromptIsBuilt'
  BY <1>3, <1>6 DEF CompactionInductive, PhaseFits, PromptIsBuilt
<1>10. CopyFits' /\ SummaryFits'
  BY <1>3, <1>6 DEF CompactionInductive, CopyFits, SummaryFits, SameSummary, Earlier, Gained, Work
<1>11. Work' = Work /\ Earlier' = Earlier
  BY <1>6 DEF Work, Earlier
<1>12. HelpersFit'
  <2>1. \A g \in helpers : g.run <= turns /\ (g.run = turns => g.call <= 0) /\ g.run \in Nat /\ g.call \in Nat
    BY <1>3 DEF CompactionInductive, CompactionTyped, HelpersFit
  <2>2. h.run = turns /\ h.call = 1 /\ h.upto = upto /\ h.covers = covers
    BY <1>2
  <2>3. Asked(upto, covers)'
    BY <1>1, <1>6, <1>11 DEF Asked
  <2> SUFFICES ASSUME NEW g \in helpers'
               PROVE  /\ g.run <= turns
                      /\ g.run = turns => g.call <= 1
                      /\ OwnQueue(g)' => Asked(g.upto, g.covers)'
    BY <1>6 DEF HelpersFit
  <2>4. CASE g = h
    BY <1>3, <2>2, <2>3, <2>4
  <2>5. CASE g \in helpers
    <3>1. ~OwnQueue(g)'
      BY <1>6, <2>1, <2>5 DEF OwnQueue, TurnAt
    <3> QED BY <2>1, <2>5, <3>1
  <2> QED BY <1>5, <2>4, <2>5
<1> QED BY <1>7, <1>8, <1>9, <1>10, <1>12 DEF CompactionInductive

\* Earlier the answer a run has one message that is not saved, the prompt, which is
\* protected; a compact run has none.
LEMMA ProtectedStay ==
  ASSUME CompactionInductive, turn.pc = "compact"
  PROVE  /\ Work \in Texts /\ Cutoff \in Int /\ Cutoff <= Len(Work.messages)
         /\ Work.count \in Nat /\ Work.count <= Len(Work.messages)
         /\ turn.phase = "before" => Cutoff <= Len(Earlier.messages) /\ Work.count <= Len(Earlier.messages)
<1>1. /\ turn \in Turns /\ Work \in Texts /\ turn.manual \in BOOLEAN /\ turn.phase \in {"before", "after"}
      /\ Earlier \in Texts /\ TextFits(Work) /\ TextFits(Earlier)
  BY DEF CompactionInductive, CompactionTyped, Turns, Work, Earlier
<1>2. /\ Work.count \in Nat /\ Work.count <= Len(Work.messages) /\ Len(Work.messages) \in Nat
      /\ Earlier.count <= Len(Earlier.messages) /\ Len(Earlier.messages) \in Nat
  BY <1>1 DEF Texts, TextFits
<1>3. SameSummary
  BY DEF CompactionInductive, SummaryFits
<1>4. Len(Work.messages) = Len(Earlier.messages) + Gained
  BY DEF CompactionInductive, CopyFits
<1>5. turn.phase = "before" => Gained <= Protected
  BY <1>1 DEF Gained, Protected
<1>6. Protected \in {1, 2} /\ Gained \in {0, 1, 2}
  BY DEF Gained, Protected
<1> QED BY <1>1, <1>2, <1>3, <1>4, <1>5, <1>6 DEF Cutoff, SameSummary

LEMMA FirstAsk ==
  ASSUME CompactionInductive, turn.pc = "compact", Budget
  PROVE  turn.asked = 0
BY DEF CompactionInductive, PhaseFits, Budget

LEMMA AskSummaryKeeps ==
  ASSUME CompactionInductive, AskSummary PROVE CompactionInductive'
<1>1. PICK upto : upto = BatchEnd(Work, Cutoff)
  OBVIOUS
<1>2. turn.pc = "compact" /\ TurnAt("compact") /\ Budget /\ upto > 0 /\ Ask(upto)
      /\ UNCHANGED <<saved, turns, stopped>>
  BY <1>1 DEF AskSummary, TurnAt
<1>3. /\ Work \in Texts /\ Cutoff \in Int /\ Cutoff <= Len(Work.messages)
      /\ Work.count \in Nat /\ Work.count <= Len(Work.messages)
      /\ turn.phase = "before" => Cutoff <= Len(Earlier.messages) /\ Work.count <= Len(Earlier.messages)
  BY <1>2, ProtectedStay
<1>4. upto \in (Work.count + 1)..Cutoff
  BY <1>1, <1>2, <1>3, BatchFollows
<1>5. Len(Work.messages) \in Nat /\ (turn.phase = "before" => Len(Earlier.messages) \in Nat)
  BY DEF CompactionInductive, CompactionTyped, Turns, Texts, Work, Earlier
<1>6. /\ upto \in Nat /\ upto \in Work.count..Len(Work.messages)
      /\ turn.phase = "before" => upto <= Len(Earlier.messages)
  BY <1>3, <1>4, <1>5
<1>7. turn.asked = 0
  BY <1>2, FirstAsk
<1> QED BY <1>2, <1>6, <1>7, AskingKeeps

LEMMA AskTighterKeeps ==
  ASSUME CompactionInductive, AskTighter PROVE CompactionInductive'
<1>1. PICK upto : upto = Work.count
  OBVIOUS
<1>2. turn.pc = "compact" /\ TurnAt("compact") /\ Budget /\ Ask(upto)
      /\ UNCHANGED <<saved, turns, stopped>>
  BY <1>1 DEF AskTighter, TurnAt
<1>3. /\ Work.count \in Nat /\ Work.count <= Len(Work.messages)
      /\ turn.phase = "before" => Work.count <= Len(Earlier.messages)
  BY <1>2, ProtectedStay
<1>4. Len(Work.messages) \in Nat
  BY DEF CompactionInductive, CompactionTyped, Turns, Texts, Work
<1>5. /\ upto \in Nat /\ upto \in Work.count..Len(Work.messages)
      /\ turn.phase = "before" => upto <= Len(Earlier.messages)
  BY <1>1, <1>3, <1>4
<1>6. turn.asked = 0
  BY <1>2, FirstAsk
<1> QED BY <1>2, <1>5, <1>6, AskingKeeps

\* What a helper says reaches only the call that waits for it.
LEMMA HelperKeeps ==
  ASSUME CompactionInductive, NEW h \in helpers, HelperReplies(h) PROVE CompactionInductive'
<1>1. PICK reply \in {[result |-> "error"]}
               \cup [result : {"ok"}, size : SummarySizes, covers : {h.covers}, upto : {h.upto}] :
        turn' = IF OwnQueue(h) THEN [turn EXCEPT !.reply = reply] ELSE turn
  BY DEF HelperReplies
<1>2. helpers' = helpers \ {h} /\ UNCHANGED <<saved, turns, stopped>>
  BY DEF HelperReplies
<1>3. h.upto \in Nat /\ h.covers \in SUBSET Nat
  BY DEF CompactionInductive, CompactionTyped
<1>4. /\ reply \in Replies
      /\ reply.result = "ok" => reply.upto = h.upto /\ reply.covers = h.covers
  <2>1. CASE reply = [result |-> "error"]
    BY <2>1 DEF Replies
  <2>2. CASE reply \in [result : {"ok"}, size : SummarySizes, covers : {h.covers}, upto : {h.upto}]
    BY <1>3, <2>2, CompactionAssumption DEF Replies
  <2> QED BY <1>1, <2>1, <2>2
<1>5. turn \in Turns
  BY DEF CompactionInductive, CompactionTyped
<1>6. /\ turn' \in Turns /\ turn'.pc = turn.pc /\ turn'.asked = turn.asked
      /\ turn'.manual = turn.manual /\ turn'.thread = turn.thread /\ turn'.work = turn.work
      /\ turn'.phase = turn.phase /\ turn'.prompt = turn.prompt
      /\ ~OwnQueue(h) => turn'.reply = turn.reply
      /\ OwnQueue(h) => turn'.reply = reply
  BY <1>1, <1>4, <1>5 DEF Turns
<1>7. CompactionTyped'
  BY <1>2, <1>6 DEF CompactionInductive, CompactionTyped
<1>8. Work' = Work /\ Earlier' = Earlier
  BY <1>2, <1>6 DEF Work, Earlier
<1>9. TextFits(Work)' /\ \A u \in ChatThreads : TextFits(saved[u])'
  BY <1>2, <1>8 DEF CompactionInductive
<1>10. PhaseFits' /\ PromptIsBuilt'
  BY <1>6, <1>8 DEF CompactionInductive, PhaseFits, PromptIsBuilt
<1>11. CopyFits' /\ SummaryFits'
  BY <1>6, <1>8 DEF CompactionInductive, CopyFits, SummaryFits, SameSummary, Gained
<1>12. HelpersFit'
  <2>1. HelpersFit
    BY DEF CompactionInductive
  <2>2. PICK r \in Replies : r = turn'.reply
    BY <1>6 DEF Turns
  <2>3. turn.pc = "waiting" /\ r.result = "ok" => Asked(r.upto, r.covers)
    <3>1. CASE OwnQueue(h)
      <4>1. Asked(h.upto, h.covers) /\ r = reply
        BY <1>6, <2>1, <2>2, <3>1 DEF HelpersFit
      <4> QED BY <1>4, <4>1
    <3>2. CASE ~OwnQueue(h)
      <4>1. r = turn.reply
        BY <1>6, <2>2, <3>2
      <4> QED BY <2>1, <4>1 DEF HelpersFit
    <3> QED BY <3>1, <3>2
  <2>4. turn.pc = "waiting" /\ r.result = "ok" => Asked(r.upto, r.covers)'
    BY <1>6, <1>8, <2>3 DEF Asked
  <2>5. ASSUME NEW g \in helpers'
        PROVE  /\ g.run <= turns
               /\ g.run = turns /\ turn'.pc # "idle" => g.call <= turn'.asked
               /\ OwnQueue(g)' => Asked(g.upto, g.covers)'
    <3>1. g \in helpers
      BY <1>2, <2>5
    <3>2. OwnQueue(g)' => OwnQueue(g)
      BY <1>2, <1>6 DEF OwnQueue, TurnAt
    <3>3. Asked(g.upto, g.covers) => Asked(g.upto, g.covers)'
      BY <1>6, <1>8 DEF Asked
    <3> QED BY <1>6, <2>1, <3>1, <3>2, <3>3 DEF HelpersFit
  <2>6. turn'.pc = "waiting" /\ turn'.reply.result = "ok"
          => Asked(turn.reply.upto, turn.reply.covers)'
    BY <1>6, <2>2, <2>4 DEF Asked
  <2> QED BY <1>2, <2>5, <2>6 DEF HelpersFit
<1> QED BY <1>7, <1>9, <1>10, <1>11, <1>12 DEF CompactionInductive

-----------------------------------------------------------------------------
(* Compaction: the search for the longest suffix that fits. *)

Least(x) == CHOOSE n \in x : \A m \in x : n <= m
FitIn(fit, low, high) == fit \cap (low..high)

\* What a binary search between low and high finds: the first place that fits.
Found(fit, low, high, best) ==
  IF FitIn(fit, low, high) = {} THEN best ELSE Least(FitIn(fit, low, high))

Places(n) == (1..(n + 1)) \X (0..n) \X (1..n)

\* One turn of the search goes on in one half of the places.
SearchTurn(f, fit, s) ==
  LET low  == s[1]
      high == s[2]
      best == s[3]
      mid  == (low + high) \div 2
  IN  IF low > high THEN best
      ELSE IF mid \in fit THEN f[<<low, mid - 1, mid>>]
      ELSE f[<<mid + 1, high, best>>]
Searches(f, fit, n) == f = [s \in Places(n) |-> SearchTurn(f, fit, s)]

\* What fits at a place fits at every later one.
Upward(fit, n) == \A k \in fit : \A m \in k..n : m \in fit

LEMMA LeastIs ==
  ASSUME NEW x \in SUBSET Nat, NEW k \in x, \A m \in x : k <= m
  PROVE  Least(x) = k
<1>1. Least(x) \in x /\ \A m \in x : Least(x) <= m
  BY DEF Least
<1>2. PICK l \in Nat : l = Least(x)
  BY <1>1
<1>3. l <= k /\ k <= l
  BY <1>1, <1>2
<1> QED BY <1>2, <1>3

\* The half in which the search goes on has what it is to find.
LEMMA HalvesFind ==
  ASSUME NEW n \in Nat, NEW fit \in SUBSET (1..n), Upward(fit, n),
         NEW low \in 1..(n + 1), NEW high \in 0..n, NEW best \in 1..n, low <= high,
         NEW mid, mid = (low + high) \div 2
  PROVE  /\ mid \in low..high /\ mid \in 1..n /\ mid - 1 \in 0..n /\ mid + 1 \in 1..(n + 1)
         /\ Found(fit, low, high, best) = IF mid \in fit THEN Found(fit, low, mid - 1, mid)
                                          ELSE Found(fit, mid + 1, high, best)
<1>1. mid \in low..high /\ mid \in 1..n /\ mid - 1 \in 0..n /\ mid + 1 \in 1..(n + 1)
  OBVIOUS
<1>4. \A k \in fit : k \in 1..n
  OBVIOUS
<1>2. CASE mid \in fit
  <2>1. PICK x : x = FitIn(fit, low, high)
    OBVIOUS
  <2>2. PICK y : y = FitIn(fit, low, mid - 1)
    OBVIOUS
  <2>3. /\ x \subseteq Nat /\ y \subseteq Nat /\ mid \in x
        /\ \A k \in y : k \in x /\ k < mid
        /\ \A k \in x : k < mid => k \in y
    BY <1>1, <1>2, <1>4, <2>1, <2>2 DEF FitIn
  <2>4. CASE y = {}
    <3>1. \A k \in x : mid <= k
      BY <1>1, <2>3, <2>4
    <3>2. Least(x) = mid
      BY <2>3, <3>1, LeastIs
    <3> QED BY <1>1, <1>2, <2>1, <2>2, <2>3, <2>4, <3>2 DEF Found
  <2>5. CASE y # {}
    <3>1. PICK k \in y : \A m \in y : k <= m
      BY <2>3, <2>5, LeastNumber
    <3>2. \A m \in x : k <= m
      BY <1>1, <2>3, <3>1
    <3>3. Least(x) = k
      BY <2>3, <3>1, <3>2, LeastIs
    <3>4. Least(y) = k
      BY <2>3, <3>1, LeastIs
    <3> QED BY <1>1, <1>2, <2>1, <2>2, <2>3, <2>5, <3>3, <3>4 DEF Found
  <2> QED BY <2>4, <2>5
<1>3. CASE mid \notin fit
  <2>1. \A k \in fit : k > mid
    <3>1. ASSUME NEW k \in fit, ~(k > mid) PROVE FALSE
      <4>1. mid \in k..n
        BY <1>1, <1>4, <3>1
      <4> QED BY <1>3, <4>1 DEF Upward
    <3> QED BY <3>1
  <2>2. FitIn(fit, low, high) = FitIn(fit, mid + 1, high)
    <3>1. \A k \in fit : k \in low..high <=> k \in (mid + 1)..high
      BY <1>1, <1>4, <2>1
    <3> QED BY <3>1 DEF FitIn
  <2> QED BY <1>3, <2>2 DEF Found
<1> QED BY <1>1, <1>2, <1>3

\* The recursive function of the search exists, ...
LEMMA SearchExists ==
  ASSUME NEW n \in Nat, NEW fit \in SUBSET (1..n), Upward(fit, n)
  PROVE  \E f : Searches(f, fit, n)
<1>1. PICK f : f = [s \in Places(n) |-> Found(fit, s[1], s[2], s[3])]
  OBVIOUS
<1>2. ASSUME NEW s \in Places(n) PROVE f[s] = SearchTurn(f, fit, s)
  <2>1. PICK low \in 1..(n + 1), high \in 0..n, best \in 1..n : s = <<low, high, best>>
    BY <1>2 DEF Places
  <2>2. s[1] = low /\ s[2] = high /\ s[3] = best
    BY <2>1
  <2>3. f[s] = Found(fit, low, high, best)
    BY <1>1, <2>2
  <2>4. PICK mid : mid = (low + high) \div 2
    OBVIOUS
  <2>5. CASE low > high
    <3>1. FitIn(fit, low, high) = {}
      <4>1. low..high = {}
        BY <2>5
      <4> QED BY <4>1 DEF FitIn
    <3> QED BY <2>2, <2>3, <2>5, <3>1 DEF SearchTurn, Found
  <2>6. CASE low <= high
    <3>1. /\ mid \in 1..n /\ mid - 1 \in 0..n /\ mid + 1 \in 1..(n + 1)
          /\ Found(fit, low, high, best) = IF mid \in fit THEN Found(fit, low, mid - 1, mid)
                                           ELSE Found(fit, mid + 1, high, best)
      BY <2>4, <2>6, HalvesFind
    <3>2. \A l \in 1..(n + 1), h \in 0..n, b \in 1..n : f[<<l, h, b>>] = Found(fit, l, h, b)
      BY <1>1 DEF Places
    <3>3. /\ f[<<low, mid - 1, mid>>] = Found(fit, low, mid - 1, mid)
          /\ f[<<mid + 1, high, best>>] = Found(fit, mid + 1, high, best)
      BY <3>1, <3>2
    <3>4. SearchTurn(f, fit, s) = IF mid \in fit THEN f[<<low, mid - 1, mid>>]
                                  ELSE f[<<mid + 1, high, best>>]
      BY <2>2, <2>4, <2>6 DEF SearchTurn
    <3> QED BY <2>3, <3>1, <3>3, <3>4
  <2> QED BY <2>5, <2>6
<1>3. Searches(f, fit, n)
  BY <1>1, <1>2 DEF Searches
<1> QED BY <1>3

\* ... and finds the first place that fits, if the last one does.
LEMMA SearchFinds ==
  ASSUME NEW n \in Nat, NEW fit \in SUBSET (1..n), Upward(fit, n), NEW f, Searches(f, fit, n)
  PROVE  \A low \in 1..(n + 1), high \in 0..n, best \in 1..n :
           f[<<low, high, best>>] = Found(fit, low, high, best)
<1>1. PICK T : T = {d \in Nat : \A low \in 1..(n + 1), high \in 0..n, best \in 1..n :
                      high - low < d => f[<<low, high, best>>] = Found(fit, low, high, best)}
  OBVIOUS
<1>2. ASSUME NEW low \in 1..(n + 1), NEW high \in 0..n, NEW best \in 1..n
      PROVE  /\ low > high => f[<<low, high, best>>] = best
             /\ low <= high =>
                  \A mid : mid = (low + high) \div 2 =>
                    f[<<low, high, best>>] = IF mid \in fit THEN f[<<low, mid - 1, mid>>]
                                             ELSE f[<<mid + 1, high, best>>]
  <2>1. PICK s : s = <<low, high, best>>
    OBVIOUS
  <2>2. s \in Places(n) /\ s[1] = low /\ s[2] = high /\ s[3] = best
    BY <2>1 DEF Places
  <2>3. f[s] = SearchTurn(f, fit, s)
    BY <2>2 DEF Searches
  <2> QED BY <2>1, <2>2, <2>3 DEF SearchTurn
<1>3. ASSUME NEW low \in 1..(n + 1), NEW high \in 0..n, NEW best \in 1..n, low > high
      PROVE  f[<<low, high, best>>] = Found(fit, low, high, best)
  <2>1. FitIn(fit, low, high) = {}
    <3>1. low..high = {}
      BY <1>3
    <3> QED BY <3>1 DEF FitIn
  <2> QED BY <1>2, <1>3, <2>1 DEF Found
<1>4. 0 \in T
  <2>1. \A low \in 1..(n + 1), high \in 0..n : high - low < 0 => low > high
    OBVIOUS
  <2> QED BY <1>1, <1>3, <2>1
<1>5. ASSUME NEW d \in Nat, d \in T PROVE d + 1 \in T
  <2> SUFFICES ASSUME NEW low \in 1..(n + 1), NEW high \in 0..n, NEW best \in 1..n, high - low < d + 1
               PROVE  f[<<low, high, best>>] = Found(fit, low, high, best)
    BY <1>1
  <2>1. CASE low <= high
    <3>1. PICK mid : mid = (low + high) \div 2
      OBVIOUS
    <3>2. /\ mid \in low..high /\ mid \in 1..n /\ mid - 1 \in 0..n /\ mid + 1 \in 1..(n + 1)
          /\ Found(fit, low, high, best) = IF mid \in fit THEN Found(fit, low, mid - 1, mid)
                                           ELSE Found(fit, mid + 1, high, best)
      BY <2>1, <3>1, HalvesFind, SMTT(30)
    <3>3. (mid - 1) - low < d /\ high - (mid + 1) < d
      BY <3>2
    <3>4. f[<<low, mid - 1, mid>>] = Found(fit, low, mid - 1, mid)
      BY <1>1, <1>5, <3>2, <3>3
    <3>5. f[<<mid + 1, high, best>>] = Found(fit, mid + 1, high, best)
      BY <1>1, <1>5, <3>2, <3>3
    <3>6. f[<<low, high, best>>] = IF mid \in fit THEN f[<<low, mid - 1, mid>>]
                                   ELSE f[<<mid + 1, high, best>>]
      BY <1>2, <2>1, <3>1
    <3> QED BY <3>2, <3>4, <3>5, <3>6
  <2> QED BY <1>3, <2>1
<1>6. Nat \subseteq T
  BY <1>4, <1>5, NumbersFollow
<1>7. ASSUME NEW low \in 1..(n + 1), NEW high \in 0..n, NEW best \in 1..n
      PROVE  f[<<low, high, best>>] = Found(fit, low, high, best)
  <2>1. n + 1 \in T /\ high - low < n + 1
    BY <1>6
  <2> QED BY <1>1, <2>1
<1> QED BY <1>7

-----------------------------------------------------------------------------
(* Compaction: the prompt. *)

LEMMA TotalIs ==
  ASSUME NEW m \in Seq(Messages)
  PROVE  Total(m) = SizeSum(m) /\ Total(m) \in Nat
<1>1. Total(m) = SizeSum(m)
  BY FoldOfRecords DEF Total
<1>2. \A x \in Messages : x.size \in Nat
  BY DEF Messages
<1>3. \A i \in DOMAIN m : m[i] \in Messages
  OBVIOUS
<1>4. \A i \in DOMAIN m : m[i].size \in Nat
  BY <1>2, <1>3
<1>5. SizeSum(m) \in Nat
  BY <1>4, SizesNumber
<1> QED BY <1>1, <1>5

\* A part of the messages that begins later is not larger.
LEMMA SuffixesShrink ==
  ASSUME NEW raw \in Seq(Messages), NEW i \in 1..Len(raw), NEW j \in i..Len(raw)
  PROVE  Suffix(raw, j) <= Suffix(raw, i) /\ Suffix(raw, j) \in Nat /\ Suffix(raw, i) \in Nat
<1>1. PICK n \in Nat : n = Len(raw) /\ DOMAIN raw = 1..n
  OBVIOUS
<1>2. PICK s : s = SizesOf(raw)
  OBVIOUS
<1>3. \A x \in Messages : x.size \in Nat
  BY DEF Messages
<1>4. \A k \in DOMAIN raw : raw[k].size \in Nat
  BY <1>3
<1>5. \A k \in 1..n : s[k] \in Nat
  BY <1>1, <1>2, <1>4 DEF SizesOf
<1>6. ASSUME NEW k \in 1..n
      PROVE  /\ SumTo(k - 1, s) + Suffix(raw, k) = SumTo(n, s)
             /\ Suffix(raw, k) \in Nat /\ SumTo(k - 1, s) \in Nat
  <2>1. PICK part : part = SubSeq(raw, k, n)
    OBVIOUS
  <2>2. part \in Seq(Messages) /\ Suffix(raw, k) = Total(part)
    BY <1>1, <2>1 DEF Suffix
  <2>3. Total(part) = SizeSum(part) /\ Total(part) \in Nat
    BY <2>2, TotalIs
  <2>4. k \in Nat \ {0} /\ k <= n + 1 /\ n <= Len(raw)
    BY <1>1
  <2>5. SumTo(k - 1, s) + SizeSum(part) = SumTo(n, s)
    BY <1>2, <1>4, <2>1, <2>4, SizesOfPart
  <2>6. k - 1 \in Nat /\ \A l \in 1..(k - 1) : s[l] \in Nat
    BY <1>5
  <2>7. SumTo(k - 1, s) \in Nat
    BY <2>6, SumIsNumber
  <2> QED BY <2>2, <2>3, <2>5, <2>7
<1>7. i - 1 \in Nat /\ j - 1 \in Nat /\ i - 1 <= j - 1 /\ \A l \in 1..(j - 1) : s[l] \in Nat
  BY <1>1, <1>5
<1>8. SumTo(i - 1, s) <= SumTo(j - 1, s)
  BY <1>7, SumsGrow
<1>9. i \in 1..n /\ j \in 1..n
  BY <1>1
<1>10. /\ SumTo(i - 1, s) + Suffix(raw, i) = SumTo(j - 1, s) + Suffix(raw, j)
       /\ Suffix(raw, i) \in Nat /\ SumTo(i - 1, s) \in Nat
       /\ Suffix(raw, j) \in Nat /\ SumTo(j - 1, s) \in Nat
  BY <1>6, <1>9
<1> QED BY <1>8, <1>10

\* One turn of the search in the model.
SuffixTurn(g, raw, room, s) ==
  LET low  == s[1]
      high == s[2]
      best == s[3]
      mid  == (low + high) \div 2
  IN  IF low > high THEN best
      ELSE IF Suffix(raw, mid) <= room THEN g[<<low, mid - 1, mid>>]
      ELSE g[<<mid + 1, high, best>>]
SuffixSearches(g, raw, room) ==
  g = [s \in (1..(Len(raw) + 1)) \X (0..Len(raw)) \X (1..Len(raw)) |-> SuffixTurn(g, raw, room, s)]

\* The search finds where the longest part begins that fits.
LEMMA EarliestFits ==
  ASSUME NEW raw \in Seq(Messages), raw # <<>>, NEW room \in Int, Suffix(raw, Len(raw)) <= room
  PROVE  /\ Earliest(raw, room) \in 1..Len(raw)
         /\ Suffix(raw, Earliest(raw, room)) <= room
         /\ \A k \in 1..(Earliest(raw, room) - 1) : Suffix(raw, k) > room
<1>1. PICK n \in Nat : n = Len(raw) /\ n > 0
  OBVIOUS
<1>2. PICK fit : fit = {k \in 1..n : Suffix(raw, k) <= room}
  OBVIOUS
<1>3. fit \in SUBSET (1..n) /\ n \in fit
  BY <1>1, <1>2
<1>4. \A k \in 1..n : Suffix(raw, k) \in Nat
  BY <1>1, SuffixesShrink
<1>5. Upward(fit, n)
  <2> SUFFICES ASSUME NEW k \in fit, NEW m \in k..n PROVE m \in fit
    BY DEF Upward
  <2>1. k \in 1..n /\ m \in 1..n /\ Suffix(raw, k) <= room
    BY <1>2
  <2>2. Suffix(raw, m) <= Suffix(raw, k)
    BY <1>1, <2>1, SuffixesShrink
  <2>3. Suffix(raw, m) <= room
    BY <1>4, <2>1, <2>2
  <2> QED BY <1>2, <2>1, <2>3
<1>6. ASSUME NEW g PROVE SuffixSearches(g, raw, room) <=> Searches(g, fit, n)
  <2>1. ASSUME NEW s \in Places(n) PROVE SuffixTurn(g, raw, room, s) = SearchTurn(g, fit, s)
    <3>1. PICK low \in 1..(n + 1), high \in 0..n, best \in 1..n : s = <<low, high, best>>
      BY <2>1 DEF Places
    <3>2. s[1] = low /\ s[2] = high /\ s[3] = best
      BY <3>1
    <3>3. PICK mid : mid = (low + high) \div 2
      OBVIOUS
    <3>4. low <= high => (mid \in fit <=> Suffix(raw, mid) <= room)
      <4>1. low <= high => mid \in 1..n
        BY <3>3
      <4> QED BY <1>2, <4>1
    <3>5. CASE low > high
      BY <3>2, <3>5 DEF SuffixTurn, SearchTurn
    <3>6. CASE low <= high
      BY <3>2, <3>3, <3>4, <3>6 DEF SuffixTurn, SearchTurn
    <3> QED BY <3>5, <3>6
  <2>2. Places(n) = (1..(Len(raw) + 1)) \X (0..Len(raw)) \X (1..Len(raw))
    BY <1>1 DEF Places
  <2> QED BY <2>1, <2>2 DEF SuffixSearches, Searches
<1>7. PICK f : f = CHOOSE g : SuffixSearches(g, raw, room)
  OBVIOUS
<1>8. Searches(f, fit, n) /\ Earliest(raw, room) = f[<<1, n, n>>]
  <2>1. PICK g : Searches(g, fit, n)
    BY <1>3, <1>5, SearchExists
  <2>2. SuffixSearches(f, raw, room)
    BY <1>6, <1>7, <2>1
  <2>3. Earliest(raw, room) = f[<<1, Len(raw), Len(raw)>>]
    BY <1>7 DEF Earliest, SuffixSearches, SuffixTurn
  <2> QED BY <1>1, <1>6, <2>2, <2>3
<1>9. f[<<1, n, n>>] = Found(fit, 1, n, n)
  BY <1>1, <1>3, <1>5, <1>8, SearchFinds
<1>10. FitIn(fit, 1, n) = fit
  BY <1>3 DEF FitIn
<1>11. PICK e \in fit : \A m \in fit : e <= m
  BY <1>3, LeastNumber
<1>12. Least(fit) = e
  BY <1>3, <1>11, LeastIs
<1>13. Earliest(raw, room) = e
  BY <1>3, <1>8, <1>9, <1>10, <1>12 DEF Found
<1>14. ASSUME NEW k \in 1..(e - 1) PROVE Suffix(raw, k) > room
  <2>1. k \in 1..n /\ k \notin fit
    BY <1>3, <1>11
  <2> QED BY <1>2, <1>4, <2>1
<1> QED BY <1>1, <1>2, <1>3, <1>11, <1>13, <1>14

\* What a prompt gives of a text: its last messages, as many as fit.
PromptGives(t, prompt) ==
  LET size(k) == Total(SubSeq(t.messages, k, Len(t.messages)))
                   + (IF prompt.summary THEN t.summary.size ELSE 0)
  IN  /\ prompt.from \in (t.count + 1)..Len(t.messages)
      /\ size(prompt.from) <= PromptBudget
      /\ prompt.from > t.count + 1 => size(prompt.from - 1) > PromptBudget

LEMMA PromptIs ==
  ASSUME NEW t \in Texts, t.count < Len(t.messages), Latest(t) <= PromptBudget
  PROVE  PromptOf(t) \in [summary : BOOLEAN, from : Nat] /\ PromptGives(t, PromptOf(t))
<1>1. PICK m \in Seq(Messages) : m = t.messages
  BY DEF Texts
<1>2. PICK n \in Nat : n = Len(m) /\ DOMAIN m = 1..n
  OBVIOUS
<1>3. PICK c \in Nat : c = t.count /\ c < n
  BY <1>1, <1>2 DEF Texts
<1>4. PICK raw : raw = SubSeq(m, c + 1, n) /\ raw = Raw(t)
  BY <1>1, <1>2, <1>3 DEF Raw
<1>5. raw \in Seq(Messages) /\ Len(raw) = n - c /\ raw # <<>>
  <2>1. c + 1 \in 1..(Len(m) + 1) /\ n \in (c + 1) - 1..Len(m) /\ c + 1 <= n
    BY <1>2, <1>3
  <2>2. Len(raw) = n - (c + 1) + 1 /\ raw \in Seq(Messages)
    BY <1>4, <2>1, SubSeqProperties
  <2>3. n - (c + 1) + 1 = n - c /\ n - c > 0
    BY <1>2, <1>3
  <2> QED BY <2>2, <2>3
<1>6. ASSUME NEW k \in 1..(n - c)
      PROVE  Suffix(raw, k) = Total(SubSeq(m, c + k, n)) /\ Suffix(raw, k) \in Nat
  <2>1. c + 1 \in 1..Len(m) /\ n \in 1..Len(m) /\ k \in 1..(n - (c + 1) + 1) /\ n - c \in 1..(n - (c + 1) + 1)
    BY <1>2, <1>3
  <2>2. SubSeq(SubSeq(m, c + 1, n), k, n - c) = SubSeq(m, (c + 1) + k - 1, (c + 1) + (n - c) - 1)
    BY <2>1, SubSeqOfSubSeq
  <2>3. (c + 1) + k - 1 = c + k /\ (c + 1) + (n - c) - 1 = n
    BY <1>2, <1>3
  <2>4. SubSeq(raw, k, Len(raw)) = SubSeq(m, c + k, n)
    BY <1>4, <1>5, <2>2, <2>3
  <2>5. Suffix(raw, k) = Total(SubSeq(m, c + k, n))
    BY <2>4 DEF Suffix
  <2>6. SubSeq(m, c + k, n) \in Seq(Messages)
    BY <1>2, <1>3
  <2> QED BY <2>5, <2>6, TotalIs
<1>7. PICK shown \in Nat : shown = IF ShowsSummary(t) THEN t.summary.size ELSE 0
  BY DEF Texts
<1>8. RoomFor(t) = PromptBudget - shown /\ PromptBudget \in Nat
  BY <1>7, CompactionAssumption DEF RoomFor
<1>9. Suffix(raw, n - c) <= RoomFor(t)
  <2>1. SubSeq(m, n, n) = <<m[n]>> /\ n - c \in 1..(n - c) /\ c + (n - c) = n /\ n \in 1..n
    <3>1. n \in 1..Len(m) /\ n \in n..Len(m) /\ m[n] \in Messages
      BY <1>2, <1>3
    <3>2. SubSeq(m, n, n) = SubSeq(m, n, n - 1) \o <<m[n]>>
      BY <3>1, SubSeqRecursiveSecond
    <3>3. SubSeq(m, n, n - 1) = <<>>
      BY <1>2, SubSeqEmpty
    <3>4. <<>> \o <<m[n]>> = <<m[n]>>
      <4>1. <<m[n]>> \in Seq(Messages)
        BY <3>1
      <4> QED BY <4>1, ConcatEmptySeq
    <3>5. n - c \in 1..(n - c) /\ c + (n - c) = n /\ n \in 1..n
      BY <1>3
    <3> QED BY <3>2, <3>3, <3>4, <3>5
  <2>2. m[n] \in Messages /\ Latest(t) = m[n].size /\ m[n].size \in Nat
    <3>1. m[n] \in Messages
      BY <1>2, <2>1
    <3>2. Latest(t) = m[n].size
      BY <1>1, <1>2 DEF Latest, Last
    <3> QED BY <3>1, <3>2 DEF Messages
  <2>3. Total(<<m[n]>>) = m[n].size
    <3>1. <<m[n]>> = Append(<<>>, m[n]) /\ <<>> \in Seq(Messages) /\ <<m[n]>> \in Seq(Messages)
      BY <2>2
    <3>2. SizeSum(<<m[n]>>) = SizeSum(<<>>) + m[n].size
      BY <2>2, <3>1, SizesAdd
    <3>3. Total(<<m[n]>>) = SizeSum(<<m[n]>>)
      BY <3>1, TotalIs
    <3> QED BY <2>2, <3>2, <3>3, SizesOfNone
  <2>4. Suffix(raw, n - c) = Latest(t)
    BY <1>6, <2>1, <2>2, <2>3
  <2>5. shown + Latest(t) <= PromptBudget
    BY <1>7, <1>8, <2>2 DEF ShowsSummary
  <2> QED BY <1>8, <2>2, <2>4, <2>5
<1>10. ASSUME NEW e \in 1..(n - c), PromptOf(t) = [summary |-> ShowsSummary(t), from |-> c + e],
              Suffix(raw, e) <= RoomFor(t), e > 1 => Suffix(raw, e - 1) > RoomFor(t)
       PROVE  PromptOf(t) \in [summary : BOOLEAN, from : Nat] /\ PromptGives(t, PromptOf(t))
  <2>1. PICK prompt : prompt = PromptOf(t)
    OBVIOUS
  <2>2. ShowsSummary(t) \in BOOLEAN
    BY DEF ShowsSummary
  <2>3. prompt.summary = ShowsSummary(t) /\ prompt.from = c + e
    BY <1>10, <2>1
  <2>4. prompt \in [summary : BOOLEAN, from : Nat]
    BY <1>10, <2>1, <2>2
  <2>5. prompt.from \in (c + 1)..n
    BY <1>2, <1>3, <2>3
  <2>6. Total(SubSeq(m, c + e, n)) + shown <= PromptBudget
    BY <1>6, <1>8, <1>10
  <2>7. e > 1 => Total(SubSeq(m, (c + e) - 1, n)) + shown > PromptBudget
    <3> SUFFICES ASSUME e > 1 PROVE Total(SubSeq(m, (c + e) - 1, n)) + shown > PromptBudget
      OBVIOUS
    <3>1. e - 1 \in 1..(n - c) /\ c + (e - 1) = (c + e) - 1
      BY <1>2, <1>3
    <3>2. Suffix(raw, e - 1) = Total(SubSeq(m, (c + e) - 1, n)) /\ Suffix(raw, e - 1) \in Nat
      BY <1>6, <3>1
    <3> QED BY <1>8, <1>10, <3>2
  <2>8. prompt.from > c + 1 => e > 1
    BY <2>3
  <2>9. PromptGives(t, prompt)
    BY <1>1, <1>2, <1>3, <1>7, <2>3, <2>5, <2>6, <2>7, <2>8 DEF PromptGives
  <2> QED BY <2>1, <2>4, <2>9
<1>11. CASE Total(Raw(t)) <= RoomFor(t)
  <2>1. PromptOf(t) = [summary |-> ShowsSummary(t), from |-> c + 1]
    BY <1>3, <1>11 DEF PromptOf
  <2>2. 1 \in 1..(n - c)
    BY <1>2, <1>3
  <2>3. Suffix(raw, 1) <= RoomFor(t)
    BY <1>4, <1>5, <1>6, <1>11, <2>2
  <2> QED BY <1>10, <2>1, <2>2, <2>3
<1>12. CASE ~(Total(Raw(t)) <= RoomFor(t))
  <2>1. PICK e : e = Earliest(raw, RoomFor(t))
    OBVIOUS
  <2>2. RoomFor(t) \in Int /\ Suffix(raw, Len(raw)) <= RoomFor(t)
    BY <1>5, <1>8, <1>9
  <2>3. e \in 1..Len(raw) /\ Suffix(raw, e) <= RoomFor(t) /\ \A k \in 1..(e - 1) : Suffix(raw, k) > RoomFor(t)
    BY <1>5, <2>1, <2>2, EarliestFits
  <2>4. e \in 1..(n - c) /\ (e > 1 => e - 1 \in 1..(e - 1))
    BY <1>5, <2>3
  <2>5. PromptOf(t) = [summary |-> ShowsSummary(t), from |-> c + e]
    BY <1>3, <1>4, <1>12, <2>1 DEF PromptOf
  <2> QED BY <1>10, <2>3, <2>4, <2>5
<1> QED BY <1>11, <1>12

-----------------------------------------------------------------------------
(* Compaction: the answer and its prompt. *)

LEMMA BuildPromptKeeps ==
  ASSUME CompactionInductive, BuildPrompt PROVE CompactionInductive'
<1>1. CASE Latest(Work) > PromptBudget
  <2>1. TurnEnds /\ UNCHANGED <<saved, turns>> /\ helpers' \subseteq helpers
    BY <1>1 DEF BuildPrompt
  <2> QED BY <2>1, TurnEndsKeeps
<1>2. CASE ~(Latest(Work) > PromptBudget)
  <2>1. turn \in Turns /\ turn.pc = "answer" /\ UNCHANGED <<saved, turns, helpers, stopped>>
    BY <1>2 DEF BuildPrompt, TurnAt, CompactionInductive, CompactionTyped
  <2>2. PICK w \in Texts : w = Work /\ TextFits(w)
    BY <2>1 DEF CompactionInductive, Turns, Work
  <2>3. PICK old \in Texts : old = Earlier /\ TextFits(old)
    BY <2>1 DEF CompactionInductive, CompactionTyped, Turns, Earlier
  <2>4. ~turn.manual /\ turn.phase = "before"
    BY <2>1 DEF CompactionInductive, PhaseFits
  <2>5. w.count = old.count /\ Len(w.messages) = Len(old.messages) + 1
    BY <2>1, <2>2, <2>3, <2>4 DEF CompactionInductive, SummaryFits, SameSummary, CopyFits, Gained
  <2>6. w.count < Len(w.messages)
    BY <2>3, <2>5 DEF Texts, TextFits
  <2>7. Latest(w) <= PromptBudget
    <3>1. PICK m \in Seq(Messages) : m = w.messages /\ Len(m) \in Nat /\ Len(m) > 0
      BY <2>2, <2>6 DEF Texts
    <3>2. m[Len(m)] \in Messages
      BY <3>1
    <3>3. Latest(w) \in Nat
      BY <3>1, <3>2 DEF Latest, Last, Messages
    <3> QED BY <1>2, <2>2, <3>3, CompactionAssumption
  <2>8. PICK prompt \in [summary : BOOLEAN, from : Nat] : prompt = PromptOf(w)
    BY <2>6, <2>7, PromptIs
  <2>9. turn' = [turn EXCEPT !.pc = "answering", !.prompt = prompt]
    BY <1>2, <2>2, <2>8 DEF BuildPrompt
  <2>10. /\ turn' \in Turns /\ turn'.pc = "answering" /\ turn'.prompt = prompt
         /\ turn'.manual = turn.manual /\ turn'.thread = turn.thread /\ turn'.work = turn.work
         /\ turn'.phase = turn.phase /\ turn'.asked = turn.asked
    BY <2>1, <2>9 DEF Turns, TurnPcs
  <2>11. CompactionTyped'
    BY <2>1, <2>10 DEF CompactionInductive, CompactionTyped
  <2>12. TextFits(Work)' /\ \A u \in ChatThreads : TextFits(saved[u])'
    BY <2>1, <2>10 DEF CompactionInductive, Work
  <2>13. PhaseFits'
    BY <2>1, <2>4, <2>10 DEF CompactionInductive, PhaseFits
  <2>14. CopyFits' /\ SummaryFits'
    BY <2>1, <2>10 DEF CompactionInductive, CopyFits, SummaryFits, SameSummary, Earlier, Gained, Work
  <2>15. HelpersFit'
    BY <2>1, <2>10 DEF CompactionInductive, HelpersFit, OwnQueue, TurnAt
  <2>16. PromptIsBuilt'
    <3>1. Work' = w
      BY <2>2, <2>10 DEF Work
    <3>2. turn'.prompt = PromptOf(w) /\ Latest(w) <= PromptBudget
      BY <2>7, <2>8, <2>10
    <3> QED BY <3>1, <3>2 DEF PromptIsBuilt
  <2> QED BY <2>11, <2>12, <2>13, <2>14, <2>15, <2>16 DEF CompactionInductive
<1> QED BY <1>1, <1>2

LEMMA AnsweredKeeps ==
  ASSUME CompactionInductive, Answered PROVE CompactionInductive'
<1>1. PICK size \in Sizes :
        turn' = [turn EXCEPT
          !.pc = "compact", !.phase = "after",
          !.work.messages = Append(@, [id |-> NextId + 1, role |-> "assistant", size |-> size])]
  BY DEF Answered
<1>2. turn \in Turns /\ turn.pc = "answering" /\ UNCHANGED <<saved, turns, helpers, stopped>>
      /\ turns \in Nat
  BY CompactionAssumption DEF Answered, TurnAt, CompactionInductive, CompactionTyped
<1>3. PICK w \in Texts : w = turn.work /\ w = Work /\ TextFits(w)
  BY <1>2 DEF CompactionInductive, Turns, Work
<1>4. PICK m : m = [id |-> NextId + 1, role |-> "assistant", size |-> size]
  OBVIOUS
<1>5. m \in Messages
  BY <1>2, <1>4, CompactionAssumption DEF Messages, NextId
<1>6. PICK told : told = Append(w.messages, m)
  OBVIOUS
<1>7. w.messages \in Seq(Messages) /\ w.count \in Nat /\ w.count <= Len(w.messages)
  BY <1>3 DEF Texts, TextFits
<1>8. /\ told \in Seq(Messages) /\ Len(told) = Len(w.messages) + 1
      /\ \A k \in DOMAIN w.messages : told[k] = w.messages[k]
  BY <1>5, <1>6, <1>7
<1>9. PICK new : new = [w EXCEPT !.messages = told]
  OBVIOUS
<1>10. /\ new \in Texts /\ new.messages = told /\ new.count = w.count
       /\ new.summary = w.summary /\ new.marks = w.marks
  BY <1>8, <1>9 DEF Texts
<1>11. turn' = [turn EXCEPT !.pc = "compact", !.phase = "after", !.work = new]
  BY <1>1, <1>2, <1>3, <1>4, <1>6, <1>9 DEF Turns, Texts
<1>12. /\ turn' \in Turns /\ turn'.pc = "compact" /\ turn'.phase = "after" /\ turn'.work = new
       /\ turn'.manual = turn.manual /\ turn'.thread = turn.thread /\ turn'.asked = turn.asked
  BY <1>2, <1>10, <1>11 DEF Turns, TurnPcs
<1>13. CompactionTyped'
  BY <1>2, <1>12 DEF CompactionInductive, CompactionTyped
<1>14. TextFits(new)
  <2>1. /\ new.count <= Len(new.messages)
        /\ \A k \in 1..w.count : new.messages[k] = w.messages[k]
    BY <1>7, <1>8, <1>10
  <2> QED BY <1>3, <1>10, <2>1, TextGrows
<1>15. TextFits(Work)' /\ \A u \in ChatThreads : TextFits(saved[u])'
  BY <1>2, <1>12, <1>14 DEF CompactionInductive, Work
<1>16. ~turn.manual /\ turn.phase = "before"
  BY <1>2 DEF CompactionInductive, PhaseFits
<1>17. PhaseFits' /\ PromptIsBuilt'
  BY <1>12, <1>16 DEF CompactionInductive, PhaseFits, PromptIsBuilt
<1>18. CopyFits'
  <2>1. PICK old \in Seq(Messages) : old = Earlier.messages
    BY <1>2 DEF CompactionInductive, CompactionTyped, Turns, Texts, Earlier
  <2>2. Len(w.messages) = Len(old) + 1 /\ \A k \in DOMAIN old : w.messages[k] = old[k]
    BY <1>2, <1>3, <1>16, <2>1 DEF CompactionInductive, CopyFits, Gained
  <2>3. Len(told) = Len(old) + 2 /\ \A k \in DOMAIN old : told[k] = old[k]
    BY <1>7, <1>8, <2>1, <2>2
  <2> QED BY <1>2, <1>10, <1>12, <1>16, <2>1, <2>3 DEF CopyFits, Gained, Work, Earlier
<1>19. SummaryFits'
  BY <1>2, <1>3, <1>10, <1>12 DEF CompactionInductive, SummaryFits, SameSummary, Work, Earlier
<1>20. HelpersFit'
  BY <1>2, <1>12 DEF CompactionInductive, HelpersFit, OwnQueue, TurnAt
<1> QED BY <1>13, <1>15, <1>17, <1>18, <1>19, <1>20 DEF CompactionInductive

\* What is saved at the end is the working copy.
LEMMA SavedIsCopy ==
  ASSUME CompactionInductive, SaveTurn
  PROVE  /\ Work \in Texts /\ turn.thread \in ChatThreads
         /\ saved' = [saved EXCEPT ![turn.thread] = Work]
         /\ SameSummary \/ Shorter(Work, Earlier)
<1>1. turn \in Turns /\ turn.pc = "save" /\ turn.phase = "after" /\ ~turn.manual
  BY DEF SaveTurn, TurnAt, CompactionInductive, CompactionTyped, PhaseFits
<1>2. PICK w \in Texts : w = Work
  BY <1>1 DEF Turns, Work
<1>3. PICK a \in Seq(Messages) : a = w.messages
  BY <1>2 DEF Texts
<1>4. turn.thread \in ChatThreads
  BY <1>1 DEF Turns
<1>5. PICK b \in Seq(Messages) : b = saved[turn.thread].messages /\ b = Earlier.messages
  BY <1>4 DEF CompactionInductive, CompactionTyped, Texts, Earlier
<1>6. Len(a) = Len(b) + 2 /\ \A k \in DOMAIN b : a[k] = b[k]
  BY <1>1, <1>2, <1>3, <1>5 DEF CompactionInductive, CopyFits, Gained
<1>7. PICK n \in Nat : n = Len(b) /\ Len(a) = n + 2 /\ DOMAIN b = 1..n
  BY <1>6
<1>8. PICK last : last = SubSeq(a, n + 1, n + 2)
  OBVIOUS
<1>9. last \in Seq(Messages) /\ Len(last) = 2 /\ \A i \in 1..2 : last[i] = a[n + i]
  <2>1. /\ n + 1 \in Int /\ n + 2 \in Int /\ n + 1 <= n + 2 /\ (n + 2) - (n + 1) + 1 = 2
        /\ \A i \in 1..2 : (n + 1) + i - 1 = n + i
    BY <1>7
  <2>2. \A i \in (n + 1)..(n + 2) : a[i] \in Messages
    BY <1>7
  <2>3. /\ last \in Seq(Messages) /\ Len(last) = (n + 2) - (n + 1) + 1
        /\ \A i \in 1..((n + 2) - (n + 1) + 1) : last[i] = a[(n + 1) + i - 1]
    BY <1>8, <2>1, <2>2, SubSeqProperties
  <2> QED BY <2>1, <2>3
<1>10. PICK whole : whole = b \o last
  OBVIOUS
<1>11. whole = a
  <2>1. /\ whole \in Seq(Messages) /\ Len(whole) = Len(b) + Len(last)
        /\ \A i \in 1..(Len(b) + Len(last)) : whole[i] = IF i <= Len(b) THEN b[i] ELSE last[i - Len(b)]
    BY <1>9, <1>10, ConcatProperties
  <2>2. Len(whole) = Len(a)
    BY <1>7, <1>9, <2>1
  <2>3. ASSUME NEW i \in 1..Len(whole) PROVE whole[i] = a[i]
    <3>1. i \in 1..(n + 2) /\ whole[i] = IF i <= n THEN b[i] ELSE last[i - n]
      BY <1>7, <1>9, <2>1
    <3>2. CASE i <= n
      BY <1>6, <1>7, <3>1, <3>2
    <3>3. CASE i > n
      <4>1. i - n \in 1..2 /\ n + (i - n) = i
        BY <1>7, <3>1, <3>3
      <4>2. whole[i] = last[i - n]
        BY <1>7, <3>1, <3>3
      <4> QED BY <1>9, <4>1, <4>2
    <3> QED BY <1>7, <3>1, <3>2, <3>3
  <2> QED BY <2>1, <2>2, <2>3, SeqEqual
<1>12. w = [w EXCEPT !.messages = whole]
  BY <1>2, <1>3, <1>11 DEF Texts
<1>13. n + 2 - 1 = n + 1
  BY <1>7
<1>14. saved' = [saved EXCEPT ![turn.thread] = [w EXCEPT !.messages = whole]]
  BY <1>2, <1>3, <1>5, <1>7, <1>8, <1>10, <1>13 DEF SaveTurn
<1>15. SameSummary \/ Shorter(Work, Earlier)
  BY <1>1 DEF CompactionInductive, SummaryFits
<1> QED BY <1>2, <1>4, <1>12, <1>14, <1>15

LEMMA SaveTurnKeeps ==
  ASSUME CompactionInductive, SaveTurn PROVE CompactionInductive'
<1>1. /\ Work \in Texts /\ turn.thread \in ChatThreads
      /\ saved' = [saved EXCEPT ![turn.thread] = Work]
  BY SavedIsCopy
<1>2. saved \in [ChatThreads -> Texts] /\ TextFits(Work) /\ \A t \in ChatThreads : TextFits(saved[t])
  BY DEF CompactionInductive, CompactionTyped
<1>3. saved' \in [ChatThreads -> Texts] /\ \A t \in ChatThreads : TextFits(saved'[t])
  BY <1>1, <1>2
<1>4. turn' = Rest /\ stopped' = FALSE /\ UNCHANGED turns /\ helpers' \subseteq helpers
  BY DEF SaveTurn, TurnEnds
<1> QED BY <1>3, <1>4, RestKeeps

-----------------------------------------------------------------------------
(* Compaction: accepting a summary. *)

LEMMA TokensAre ==
  ASSUME NEW t, NEW u, t.messages = u.messages, t.count = u.count, t.summary.size = u.summary.size
  PROVE  Tokens(t) = Tokens(u)
BY DEF Tokens, Raw

\* What a copy has more than the saved messages does not depend on the summary.
LEMMA CopyHasMore ==
  ASSUME NEW b \in Seq(Messages), NEW w \in Seq(Messages), NEW g \in {0, 1},
         Len(w) = Len(b) + g, \A k \in DOMAIN b : w[k] = b[k]
  PROVE  \E more \in Nat : \A c \in 0..Len(b) :
           Total(SubSeq(w, c + 1, Len(w))) = Total(SubSeq(b, c + 1, Len(b))) + more
<1>1. PICK n \in Nat : n = Len(b) /\ DOMAIN b = 1..n
  OBVIOUS
<1>2. CASE g = 0
  <2>1. w = b
    <3>1. Len(w) = Len(b) /\ \A k \in 1..Len(w) : w[k] = b[k]
      BY <1>1, <1>2
    <3> QED BY <3>1, SeqEqual
  <2>2. ASSUME NEW c \in 0..Len(b)
        PROVE  Total(SubSeq(w, c + 1, Len(w))) = Total(SubSeq(b, c + 1, Len(b))) + 0
    <3>1. PICK part : part = SubSeq(b, c + 1, n)
      OBVIOUS
    <3>2. part \in Seq(Messages)
      BY <1>1, <2>2, <3>1
    <3>3. Total(part) \in Nat
      BY <3>2, TotalIs
    <3>4. Total(part) = Total(part) + 0
      BY <3>3
    <3> QED BY <1>1, <2>1, <3>1, <3>4
  <2> QED BY <2>2
<1>3. CASE g = 1
  <2>1. n + 1 \in 1..Len(w) /\ Len(w) = n + 1 /\ w[n + 1] \in Messages
    BY <1>1, <1>3
  <2>2. PICK m \in Messages : m = w[n + 1]
    BY <2>1
  <2>3. m.size \in Nat
    BY DEF Messages
  <2>4. ASSUME NEW c \in 0..Len(b)
        PROVE  Total(SubSeq(w, c + 1, Len(w))) = Total(SubSeq(b, c + 1, Len(b))) + m.size
    <3>1. c + 1 \in 1..Len(w) /\ n + 1 \in (c + 1)..Len(w) /\ (n + 1) - 1 = n
      BY <1>1, <2>1, <2>4
    <3>2. SubSeq(w, c + 1, n + 1) = SubSeq(w, c + 1, (n + 1) - 1) \o <<w[n + 1]>>
      BY <3>1, SubSeqRecursiveSecond
    <3>3. PICK p, q : p = SubSeq(b, c + 1, n) /\ q = SubSeq(w, c + 1, n)
      OBVIOUS
    <3>4. p = q
      <4>1. /\ c + 1 \in Int /\ n \in Int
            /\ \A i \in (c + 1)..n : b[i] \in Messages /\ w[i] \in Messages /\ w[i] = b[i]
        BY <1>1, <2>4
      <4>2. /\ p \in Seq(Messages) /\ Len(p) = IF c + 1 <= n THEN n - (c + 1) + 1 ELSE 0
            /\ \A i \in 1..(n - (c + 1) + 1) : p[i] = b[(c + 1) + i - 1]
        BY <3>3, <4>1, SubSeqProperties
      <4>3. /\ q \in Seq(Messages) /\ Len(q) = IF c + 1 <= n THEN n - (c + 1) + 1 ELSE 0
            /\ \A i \in 1..(n - (c + 1) + 1) : q[i] = w[(c + 1) + i - 1]
        BY <3>3, <4>1, SubSeqProperties
      <4>4. Len(p) = Len(q)
        BY <4>2, <4>3
      <4>5. ASSUME NEW i \in 1..Len(p) PROVE p[i] = q[i]
        <5>1. i \in 1..(n - (c + 1) + 1) /\ (c + 1) + i - 1 \in (c + 1)..n
          BY <1>1, <2>4, <4>2
        <5> QED BY <4>1, <4>2, <4>3, <5>1
      <4> QED BY <4>2, <4>3, <4>4, <4>5, SeqEqual
    <3>5. p \in Seq(Messages)
      BY <1>1, <2>4, <3>3
    <3>6. SubSeq(w, c + 1, n + 1) = Append(p, m)
      <4>1. Append(p, m) = p \o <<m>>
        BY <3>5, AppendIsConcat
      <4> QED BY <2>2, <3>1, <3>2, <3>3, <3>4, <4>1
    <3>7. SizeSum(Append(p, m)) = SizeSum(p) + m.size
      BY <3>5, SizesAdd
    <3>8. Append(p, m) \in Seq(Messages)
      BY <3>5
    <3>9. Total(Append(p, m)) = SizeSum(Append(p, m)) /\ Total(p) = SizeSum(p)
      BY <3>5, <3>8, TotalIs
    <3> QED BY <1>1, <2>1, <3>3, <3>6, <3>7, <3>9
  <2> QED BY <2>3, <2>4
<1> QED BY <1>2, <1>3

\* What a run accepts: a summary of the first messages of its copy that makes it
\* shorter; before the answer, of messages that are saved.
Accepting(w, b, r, n) ==
  /\ n \in Texts /\ TextFits(n)
  /\ n.messages = w.messages /\ n.count = r.upto /\ n.summary.size = r.size
  /\ Tokens(n) < Tokens(w)
  /\ w.count = b.count /\ w.summary = b.summary
  /\ turn.phase = "before" => r.upto <= Len(b.messages)

LEMMA AcceptedFits ==
  ASSUME CompactionInductive, Accepted
  PROVE  \E w, b, n \in Texts, r \in Replies :
           /\ w = Work /\ b = Earlier /\ r = turn.reply /\ n = Marked(Summarised(r))
           /\ TextFits(b)
           /\ Accepting(w, b, r, n)
<1>1. turn \in Turns /\ turn.pc = "waiting" /\ turn.reply.result = "ok"
  BY DEF Accepted, TurnAt, CompactionInductive, CompactionTyped
<1>2. PICK w \in Texts : w = Work /\ TextFits(w)
  BY <1>1 DEF CompactionInductive, Turns, Work
<1>3. PICK b \in Texts : b = Earlier /\ TextFits(b)
  BY <1>1 DEF CompactionInductive, CompactionTyped, Turns, Earlier
<1>4. PICK r \in Replies : r = turn.reply
  BY <1>1 DEF Turns
<1>5. r.size \in Nat /\ r.upto \in Nat /\ r.covers \in SUBSET Nat
  BY <1>1, <1>4 DEF Replies
<1>6. /\ r.upto \in w.count..Len(w.messages)
      /\ turn.phase = "before" => r.upto <= Len(b.messages)
      /\ r.covers = w.summary.covers \cup Given(w, r.upto)
  BY <1>1, <1>2, <1>3, <1>4 DEF CompactionInductive, HelpersFit, Asked
<1>7. w.count = b.count /\ w.summary = b.summary
  BY <1>1, <1>2, <1>3 DEF CompactionInductive, SummaryFits, SameSummary
<1>8. PICK new : new = Summarised(r)
  OBVIOUS
<1>9. PICK sum : sum = [covers |-> r.covers, size |-> r.size]
  OBVIOUS
<1>10. sum \in [covers : SUBSET Nat, size : Nat]
  BY <1>5, <1>9
<1>11. new = [w EXCEPT !.summary = sum, !.count = r.upto]
  BY <1>2, <1>8, <1>9 DEF Summarised
<1>12. /\ new \in Texts /\ new.messages = w.messages /\ new.count = r.upto
       /\ new.summary = sum /\ new.marks = w.marks
  BY <1>5, <1>10, <1>11 DEF Texts
<1>13. PICK marks : marks = w.marks \cup {r.upto}
  OBVIOUS
<1>14. marks \in SUBSET Nat
  BY <1>5, <1>13 DEF Texts
<1>15. PICK n : n = [new EXCEPT !.marks = marks]
  OBVIOUS
<1>16. n = Marked(new)
  BY <1>12, <1>13, <1>15 DEF Marked
<1>17. /\ n \in Texts /\ n.messages = w.messages /\ n.count = r.upto
       /\ n.summary = sum /\ n.marks = marks
  BY <1>12, <1>14, <1>15 DEF Texts
<1>18. Folded(n) = Folded(w) \cup Given(w, r.upto)
  <2>1. w.count \in Nat /\ r.upto >= w.count
    BY <1>6 DEF Texts
  <2>2. \A k : k \in 1..r.upto <=> k \in 1..w.count \/ k \in (w.count + 1)..r.upto
    BY <1>5, <2>1
  <2> QED BY <1>17, <2>2 DEF Folded, Given
<1>19. TextFits(n)
  <2>1. w.summary.covers = Folded(w)
    BY <1>2 DEF TextFits
  <2>2. n.summary.covers = Folded(n)
    BY <1>6, <1>9, <1>17, <1>18, <2>1
  <2>3. n.count <= Len(n.messages) /\ n.count \in n.marks
    BY <1>5, <1>6, <1>13, <1>17
  <2> QED BY <2>2, <2>3 DEF TextFits
<1>20. Tokens(n) < Tokens(w)
  <2>1. Tokens(n) = Tokens(new)
    BY <1>12, <1>17, TokensAre
  <2>2. Tokens(new) < Tokens(w)
    BY <1>2, <1>4, <1>8 DEF Accepted, Accepts
  <2> QED BY <2>1, <2>2
<1>21. n.summary.size = r.size
  BY <1>9, <1>17
<1>22. Accepting(w, b, r, n)
  BY <1>6, <1>7, <1>17, <1>19, <1>20, <1>21 DEF Accepting
<1> QED BY <1>2, <1>3, <1>4, <1>8, <1>16, <1>17, <1>22

LEMMA AcceptedKeeps ==
  ASSUME CompactionInductive, Accepted PROVE CompactionInductive'
<1>1. PICK w, b, n \in Texts, r \in Replies :
        /\ w = Work /\ b = Earlier /\ r = turn.reply /\ n = Marked(Summarised(r))
        /\ TextFits(b)
        /\ Accepting(w, b, r, n)
  BY AcceptedFits
<1>2. /\ turn \in Turns /\ turn.pc = "waiting" /\ UNCHANGED <<turns, helpers, stopped>>
      /\ saved \in [ChatThreads -> Texts] /\ turn.thread \in ChatThreads
      /\ turn.manual \in BOOLEAN /\ turn.phase \in {"before", "after"}
  BY DEF Accepted, TurnAt, CompactionInductive, CompactionTyped, Turns
<1>3. PICK pc : pc = IF turn.manual THEN "finish" ELSE AfterCompaction
  OBVIOUS
<1>4. turn' = [turn EXCEPT !.work = n, !.pc = pc] /\ Saves(Summarised(r))
  BY <1>1, <1>3 DEF Accepted
<1>5. pc \in {"finish", "answer", "save"}
  BY <1>3 DEF AfterCompaction
<1>6. /\ turn' \in Turns /\ turn'.pc = pc /\ turn'.work = n
      /\ turn'.manual = turn.manual /\ turn'.thread = turn.thread
      /\ turn'.phase = turn.phase /\ turn'.asked = turn.asked
  BY <1>2, <1>4, <1>5 DEF Turns, TurnPcs
<1>7. turn.manual => turn.phase = "before"
  BY DEF CompactionInductive, PhaseFits
<1>8. PhaseFits' /\ PromptIsBuilt'
  BY <1>2, <1>3, <1>5, <1>6, <1>7 DEF CompactionInductive, PhaseFits, PromptIsBuilt, AfterCompaction
<1>9. HelpersFit'
  BY <1>2, <1>5, <1>6 DEF CompactionInductive, HelpersFit, OwnQueue, TurnAt
<1>10. /\ Len(w.messages) = Len(b.messages) + Gained
       /\ \A k \in DOMAIN b.messages : w.messages[k] = b.messages[k]
  BY <1>1, <1>2 DEF CompactionInductive, CopyFits
<1>11. Work' = n /\ Gained' = Gained
  BY <1>6 DEF Work, Gained
<1>12. CASE turn.phase = "before"
  <2>1. PICK x : x = [n EXCEPT !.messages = b.messages]
    OBVIOUS
  <2>2. /\ x \in Texts /\ x.messages = b.messages /\ x.count = n.count
        /\ x.summary = n.summary /\ x.marks = n.marks
    BY <1>1, <2>1 DEF Texts
  <2>3. TextFits(x)
    <3>1. /\ n.count = r.upto /\ r.upto <= Len(b.messages) /\ n.messages = w.messages /\ n.count \in Nat
          /\ TextFits(n)
      BY <1>1, <1>12 DEF Accepting, Texts
    <3>2. b.messages \in Seq(Messages)
      BY <1>1 DEF Texts
    <3>3. x.count <= Len(x.messages) /\ \A k \in 1..n.count : x.messages[k] = n.messages[k]
      BY <1>10, <2>2, <3>1, <3>2
    <3> QED BY <1>1, <2>2, <3>1, <3>3, TextGrows
  <2>4. saved' = [saved EXCEPT ![turn.thread] = x]
    <3>1. Summarised(r).count = r.upto
      BY <1>1 DEF Summarised, Accepting, Marked, Texts
    <3>2. b.messages = saved[turn.thread].messages /\ r.upto <= Len(b.messages)
      BY <1>1, <1>12 DEF Earlier, Accepting
    <3>3. saved' = Checkpoint(n)
      BY <1>1, <1>4, <1>12, <3>1, <3>2 DEF Saves
    <3> QED BY <2>1, <3>2, <3>3 DEF Checkpoint
  <2>5. saved' \in [ChatThreads -> Texts] /\ saved'[turn.thread] = x
    BY <1>2, <2>2, <2>4
  <2>6. \A u \in ChatThreads : TextFits(saved[u])'
    BY <1>2, <2>2, <2>3, <2>4 DEF CompactionInductive
  <2>7. CompactionTyped'
    BY <1>2, <1>6, <2>5 DEF CompactionInductive, CompactionTyped
  <2>8. TextFits(Work)'
    BY <1>1, <1>11 DEF Accepting
  <2>9. Earlier' = x
    BY <1>6, <2>5 DEF Earlier
  <2>10. CopyFits'
    BY <1>1, <1>10, <1>11, <2>2, <2>9 DEF CopyFits, Accepting
  <2>11. SummaryFits'
    BY <1>11, <2>2, <2>9 DEF SummaryFits, SameSummary
  <2> QED BY <1>8, <1>9, <2>6, <2>7, <2>8, <2>10, <2>11 DEF CompactionInductive
<1>13. CASE turn.phase = "after"
  <2>1. UNCHANGED saved /\ pc = "save" /\ ~turn.manual
    BY <1>3, <1>4, <1>7, <1>13 DEF Saves, AfterCompaction
  <2>2. CompactionTyped'
    BY <1>2, <1>6, <2>1 DEF CompactionInductive, CompactionTyped
  <2>3. TextFits(Work)' /\ \A u \in ChatThreads : TextFits(saved[u])'
    BY <1>1, <1>11, <2>1 DEF CompactionInductive, Accepting
  <2>4. Earlier' = b
    BY <1>1, <1>6, <2>1 DEF Earlier
  <2>5. CopyFits'
    BY <1>1, <1>10, <1>11, <2>4 DEF CopyFits, Accepting
  <2>6. Shorter(n, b)
    <3>1. PICK u : u = [b EXCEPT !.messages = n.messages]
      OBVIOUS
    <3>2. u.messages = w.messages /\ u.count = w.count /\ u.summary.size = w.summary.size
      BY <1>1, <3>1 DEF Accepting, Texts
    <3>3. Tokens(u) = Tokens(w)
      BY <3>2, TokensAre
    <3> QED BY <1>1, <3>1, <3>3 DEF Accepting, Shorter
  <2>7. SummaryFits'
    BY <1>6, <1>11, <2>1, <2>4, <2>6 DEF SummaryFits, Shorter, Tokens, Raw
  <2> QED BY <1>8, <1>9, <2>2, <2>3, <2>5, <2>7 DEF CompactionInductive
<1> QED BY <1>2, <1>12, <1>13

-----------------------------------------------------------------------------
(* Compaction: other threads, and the invariant. *)

\* A thread that the run does not work on may get any text that fits.
LEMMA OthersKeep ==
  ASSUME CompactionInductive, NEW new \in ChatThreads, NEW x \in Texts, TextFits(x),
         turn.thread # new, saved' = [saved EXCEPT ![new] = x],
         UNCHANGED <<turn, turns, helpers, stopped>>
  PROVE  CompactionInductive'
<1>1. turn \in Turns /\ saved \in [ChatThreads -> Texts] /\ turn.thread \in ChatThreads
  BY DEF CompactionInductive, CompactionTyped, Turns
<1>2. CompactionTyped'
  BY <1>1 DEF CompactionInductive, CompactionTyped
<1>3. \A u \in ChatThreads : TextFits(saved[u])'
  BY <1>1 DEF CompactionInductive
<1>4. Earlier' = Earlier /\ Work' = Work
  BY <1>1 DEF Earlier, Work
<1>5. TextFits(Work)'
  BY <1>4 DEF CompactionInductive
<1>6. PhaseFits' /\ PromptIsBuilt'
  BY <1>4 DEF CompactionInductive, PhaseFits, PromptIsBuilt
<1>7. CopyFits'
  BY <1>4 DEF CompactionInductive, CopyFits, Gained
<1>8. SummaryFits'
  <2>1. CASE SameSummary
    BY <1>4, <2>1 DEF SummaryFits, SameSummary
  <2>2. CASE turn.pc = "save" /\ Shorter(Work, Earlier)
    BY <1>4, <2>2 DEF SummaryFits, Shorter, Tokens, Raw
  <2>3. CASE turn.pc = "idle"
    BY <2>3 DEF SummaryFits
  <2> QED BY <2>1, <2>2, <2>3 DEF CompactionInductive, SummaryFits
<1>9. HelpersFit'
  BY <1>4 DEF CompactionInductive, HelpersFit, OwnQueue, TurnAt, Asked
<1> QED BY <1>2, <1>3, <1>5, <1>6, <1>7, <1>8, <1>9 DEF CompactionInductive

LEMMA DuplicateKeeps ==
  ASSUME CompactionInductive, NEW t \in ChatThreads, NEW new \in ChatThreads, DuplicateThread(t, new)
  PROVE  CompactionInductive'
<1>1. PICK x \in Texts : x = saved[t] /\ TextFits(x)
  BY DEF CompactionInductive, CompactionTyped
<1>2. turn.thread # new /\ saved' = [saved EXCEPT ![new] = x] /\ UNCHANGED <<turn, turns, helpers, stopped>>
  BY <1>1 DEF DuplicateThread, Fresh
<1> QED BY <1>1, <1>2, OthersKeep

LEMMA BranchKeeps ==
  ASSUME CompactionInductive, NEW t \in ChatThreads, NEW new \in ChatThreads, NEW k,
         BranchThread(t, new, k)
  PROVE  CompactionInductive'
<1>1. PICK m \in Seq(Messages) : m = saved[t].messages /\ k \in 1..Len(m)
  BY DEF CompactionInductive, CompactionTyped, Texts, BranchThread
<1>2. PICK part : part = SubSeq(m, 1, k)
  OBVIOUS
<1>3. part \in Seq(Messages) /\ Len(part) \in Nat
  BY <1>1, <1>2
<1>4. PICK x : x = [Nothing EXCEPT !.messages = part]
  OBVIOUS
<1>5. /\ x \in Texts /\ x.messages = part /\ x.count = Nothing.count
      /\ x.summary = Nothing.summary /\ x.marks = Nothing.marks
  BY <1>3, <1>4, NothingFits DEF Texts
<1>6. TextFits(x)
  <2>1. x.count <= Len(x.messages) /\ \A i \in 1..Nothing.count : x.messages[i] = Nothing.messages[i]
    <3>1. Nothing.count = 0 /\ 1..0 = {}
      BY DEF Nothing
    <3> QED BY <1>3, <1>5, <3>1
  <2> QED BY <1>5, <2>1, NothingFits, TextGrows
<1>7. turn.thread # new /\ saved' = [saved EXCEPT ![new] = x] /\ UNCHANGED <<turn, turns, helpers, stopped>>
  BY <1>1, <1>2, <1>4 DEF BranchThread, Fresh
<1> QED BY <1>5, <1>6, <1>7, OthersKeep

LEMMA CompactionInitHolds == CompactionInit => CompactionInductive
<1> SUFFICES ASSUME CompactionInit PROVE CompactionInductive
  OBVIOUS
<1>1. PICK sizes \in Pasts : saved = [t \in ChatThreads |-> IF t = 1 THEN Past(sizes) ELSE Nothing]
  BY DEF CompactionInit
<1>2. sizes \in Seq(Sizes) /\ Sizes \subseteq Nat \ {0}
  BY <1>1, CompactionAssumption
<1>3. PICK m : m = [k \in DOMAIN sizes |->
                      [id |-> k, role |-> IF k % 2 = 1 THEN "user" ELSE "assistant", size |-> sizes[k]]]
  OBVIOUS
<1>4. m \in Seq(Messages) /\ Len(m) \in Nat
  <2>1. PICK n \in Nat : DOMAIN sizes = 1..n /\ n = Len(sizes)
    BY <1>2
  <2>2. ASSUME NEW k \in 1..n PROVE m[k] \in Messages
    <3>1. sizes[k] \in Nat \ {0} /\ k \in Nat
      <4>1. sizes[k] \in Sizes
        BY <1>2, <2>1
      <4>2. sizes[k] \in Nat \ {0}
        BY <4>1, CompactionAssumption
      <4> QED BY <2>1, <4>2
    <3>2. PICK role \in {"user", "assistant"} : role = IF k % 2 = 1 THEN "user" ELSE "assistant"
      OBVIOUS
    <3>3. m[k] = [id |-> k, role |-> role, size |-> sizes[k]]
      BY <1>3, <2>1, <3>2
    <3> QED BY <3>1, <3>3 DEF Messages
  <2>3. m \in [1..n -> Messages]
    BY <1>3, <2>1, <2>2
  <2> QED BY <2>3
<1>5. PICK past : past = [Nothing EXCEPT !.messages = m]
  OBVIOUS
<1>6. /\ past \in Texts /\ past.messages = m /\ past.count = Nothing.count
      /\ past.summary = Nothing.summary /\ past.marks = Nothing.marks
  BY <1>4, <1>5, NothingFits DEF Texts
<1>7. TextFits(past)
  <2>1. past.count <= Len(past.messages) /\ \A i \in 1..Nothing.count : past.messages[i] = Nothing.messages[i]
    <3>1. Nothing.count = 0 /\ 1..0 = {}
      BY DEF Nothing
    <3> QED BY <1>4, <1>6, <3>1
  <2> QED BY <1>6, <2>1, NothingFits, TextGrows
<1>8. saved = [t \in ChatThreads |-> IF t = 1 THEN past ELSE Nothing]
  BY <1>1, <1>3, <1>5 DEF Past
<1>9. turn = Rest /\ turns = 0 /\ helpers = {} /\ stopped = FALSE
  BY DEF CompactionInit
<1>10. CompactionTyped
  <2>1. saved \in [ChatThreads -> Texts] /\ turn \in Turns
    BY <1>6, <1>8, <1>9, NothingFits
  <2>2. turns \in 0..MaxTurns
    BY <1>9, CompactionAssumption
  <2>3. stopped \in BOOLEAN
    BY <1>9
  <2> QED BY <1>9, <2>1, <2>2, <2>3 DEF CompactionTyped
<1>11. \A t \in ChatThreads : TextFits(saved[t])
  BY <1>7, <1>8, NothingFits
<1>12. /\ turn.pc = "idle" /\ turn.work = Nothing /\ turn.asked = 0 /\ ~turn.manual
       /\ turn.phase = "before"
  BY <1>9 DEF Rest
<1>13. TextFits(Work)
  BY <1>12, NothingFits DEF Work
<1>14. PhaseFits /\ CopyFits /\ SummaryFits /\ PromptIsBuilt
  BY <1>12 DEF PhaseFits, CopyFits, SummaryFits, PromptIsBuilt
<1>15. HelpersFit
  BY <1>9, <1>12 DEF HelpersFit
<1> QED BY <1>10, <1>11, <1>13, <1>14, <1>15 DEF CompactionInductive

LEMMA CompactionNextKeeps ==
  CompactionInductive /\ [CompactionNext]_compactionVars => CompactionInductive'
<1> SUFFICES ASSUME CompactionInductive, [CompactionNext]_compactionVars PROVE CompactionInductive'
  OBVIOUS
<1>1. CASE UNCHANGED compactionVars
  BY <1>1 DEF compactionVars, CompactionInductive, CompactionTyped, PhaseFits, CopyFits, SummaryFits,
              SameSummary, Shorter, Tokens, Raw, HelpersFit, OwnQueue, TurnAt, Asked, PromptIsBuilt,
              Work, Earlier, Gained
<1>2. ASSUME NEW t \in ChatThreads, BeginChat(t) \/ BeginCompact(t) PROVE CompactionInductive'
  BY <1>2, BeginChatKeeps, BeginCompactKeeps
<1>3. CASE StopTurn
  BY <1>3, StopTurnKeeps
<1>4. CASE Stopping \/ CompletesCompact \/ AnswerFails \/ ProcessDies
  <2>1. TurnEnds /\ UNCHANGED <<saved, turns>> /\ helpers' \subseteq helpers
    BY <1>4 DEF Stopping, CompletesCompact, AnswerFails, ProcessDies
  <2> QED BY <2>1, TurnEndsKeeps
<1>5. CASE AskSummary \/ AskTighter
  BY <1>5, AskSummaryKeeps, AskTighterKeeps
<1>6. CASE NotCompacted \/ Unavailable \/ Rejected
  <2>1. LeaveCompaction /\ UNCHANGED <<saved, turns, helpers>> /\ turn.pc \in {"compact", "waiting"}
    BY <1>6 DEF NotCompacted, Unavailable, Rejected, TurnAt
  <2> QED BY <2>1, LeaveKeeps
<1>7. ASSUME NEW h \in helpers, HelperReplies(h) PROVE CompactionInductive'
  BY <1>7, HelperKeeps
<1>8. CASE Accepted
  BY <1>8, AcceptedKeeps
<1>9. CASE BuildPrompt \/ Answered \/ SaveTurn
  BY <1>9, BuildPromptKeeps, AnsweredKeeps, SaveTurnKeeps
<1>10. ASSUME NEW t \in ChatThreads, NEW new \in ChatThreads,
              DuplicateThread(t, new) \/ \E k \in 1..Len(saved[t].messages) : BranchThread(t, new, k)
       PROVE  CompactionInductive'
  BY <1>10, DuplicateKeeps, BranchKeeps
<1> QED BY <1>1, <1>2, <1>3, <1>4, <1>5, <1>6, <1>7, <1>8, <1>9, <1>10 DEF CompactionNext

\* The inductive invariant of the threads and their compaction.
THEOREM CompactionInvariant == CompactionSpec => []CompactionInductive
<1> QED BY CompactionInitHolds, CompactionNextKeeps, PTL DEF CompactionSpec

\* The prompt that is answered is what the model gives of the working copy, and
\* there is one: the prompt that is being answered is never part of the summary.
LEMMA PromptOfCopy ==
  ASSUME CompactionInductive, turn.pc = "answering"
  PROVE  PromptGives(Work, turn.prompt)
<1>1. turn \in Turns /\ ~turn.manual /\ turn.phase = "before"
  BY DEF CompactionInductive, CompactionTyped, PhaseFits
<1>2. PICK w \in Texts : w = Work
  BY <1>1 DEF Turns, Work
<1>3. PICK old \in Texts : old = Earlier /\ TextFits(old)
  BY <1>1 DEF CompactionInductive, CompactionTyped, Turns, Earlier
<1>4. w.count = old.count /\ Len(w.messages) = Len(old.messages) + 1
  BY <1>1, <1>2, <1>3 DEF CompactionInductive, SummaryFits, SameSummary, CopyFits, Gained
<1>5. w.count < Len(w.messages)
  BY <1>3, <1>4 DEF Texts, TextFits
<1>6. turn.prompt = PromptOf(w) /\ Latest(w) <= PromptBudget
  BY <1>2 DEF CompactionInductive, PromptIsBuilt
<1> QED BY <1>2, <1>5, <1>6, PromptIs

\* Nothing of a conversation is lost or made up: what a summary covers is exactly
\* what it replaces, the summary is marked, and a prompt holds the latest messages,
\* as many as fit (_execute_run, _maybe_compact_context, _recent_prompt_messages).
THEOREM ThreadStaysKept == CompactionSpec => []ThreadIsKept
<1>1. CompactionInductive => ThreadIsKept
  <2> SUFFICES ASSUME CompactionInductive PROVE ThreadIsKept
    OBVIOUS
  <2>1. ASSUME NEW t \in States PROVE t \in Texts /\ TextFits(t)
    BY DEF States, CompactionInductive, CompactionTyped, Turns, Work
  <2>2. ASSUME NEW t \in States
        PROVE  /\ t.count \in 0..Len(t.messages) /\ t.summary.size \in Nat
               /\ \A k \in DOMAIN t.messages : t.messages[k].role \in {"user", "assistant"}
    <3>1. PICK m \in Seq(Messages) : m = t.messages
      BY <2>1 DEF Texts
    <3>2. \A k \in DOMAIN m : m[k] \in Messages
      BY <3>1
    <3>3. \A x \in Messages : x.role \in {"user", "assistant"}
      BY DEF Messages
    <3>4. t.count \in 0..Len(t.messages) /\ t.summary.size \in Nat
      BY <2>1 DEF Texts, TextFits
    <3> QED BY <3>1, <3>2, <3>3, <3>4
  <2>3. CompactionTypeOK
    BY <2>2 DEF CompactionTypeOK, CompactionInductive, CompactionTyped, PhaseFits, Turns
  <2>4. NothingDropped /\ NothingForeign /\ Announced
    BY <2>1 DEF NothingDropped, NothingForeign, Announced, TextFits
  <2>5. PromptFits
    BY PromptOfCopy DEF PromptFits, PromptGives, TurnAt
  <2> QED BY <2>3, <2>4, <2>5 DEF ThreadIsKept
<1> QED BY <1>1, CompactionInvariant, PTL

\* A compaction before the answer saves what makes the saved thread shorter too.
LEMMA AcceptedShrinks ==
  ASSUME CompactionInductive, Accepted, NEW t \in ChatThreads, saved'[t].summary # saved[t].summary
  PROVE  Tokens(saved'[t]) < Tokens([saved[t] EXCEPT !.messages = saved'[t].messages])
<1>1. PICK w, b, n \in Texts, r \in Replies :
        /\ w = Work /\ b = Earlier /\ r = turn.reply /\ n = Marked(Summarised(r))
        /\ TextFits(b)
        /\ Accepting(w, b, r, n)
  BY AcceptedFits
<1>2. turn.pc = "waiting" /\ saved \in [ChatThreads -> Texts] /\ turn.thread \in ChatThreads
  BY DEF Accepted, TurnAt, CompactionInductive, CompactionTyped, Turns
<1>3. Saves(Summarised(r)) /\ turn.phase = "before" /\ saved' # saved
  BY <1>1, <1>2 DEF Accepted, Saves
<1>4. saved' = Checkpoint(n)
  BY <1>1, <1>3 DEF Saves
<1>5. PICK x : x = [n EXCEPT !.messages = b.messages]
  OBVIOUS
<1>6. saved' = [saved EXCEPT ![turn.thread] = x]
  BY <1>1, <1>4, <1>5 DEF Checkpoint, Earlier
<1>7. t = turn.thread /\ saved'[t] = x /\ saved[t] = b
  BY <1>1, <1>2, <1>6 DEF Earlier
<1>8. x.messages = b.messages /\ x.count = n.count /\ x.summary = n.summary
  BY <1>1, <1>5 DEF Texts
<1>9. [b EXCEPT !.messages = b.messages] = b
  BY <1>1 DEF Texts
<1>10. PICK old \in Seq(Messages), new \in Seq(Messages) : old = b.messages /\ new = w.messages
  BY <1>1 DEF Texts
<1>11. /\ Len(new) = Len(old) + Gained /\ Gained \in {0, 1}
       /\ \A k \in DOMAIN old : new[k] = old[k]
  BY <1>1, <1>2, <1>3, <1>10 DEF CompactionInductive, CopyFits, Gained
<1>12. PICK more \in Nat : \A c \in 0..Len(old) :
         Total(SubSeq(new, c + 1, Len(new))) = Total(SubSeq(old, c + 1, Len(old))) + more
  BY <1>11, CopyHasMore
<1>13. b.count \in 0..Len(old) /\ n.count \in 0..Len(old)
  BY <1>1, <1>3, <1>10 DEF Texts, TextFits, Accepting
<1>14. ASSUME NEW c \in 0..Len(old) PROVE Total(SubSeq(old, c + 1, Len(old))) \in Nat
  <2>1. SubSeq(old, c + 1, Len(old)) \in Seq(Messages)
    BY <1>14
  <2> QED BY <2>1, TotalIs
<1>15. PICK p \in Nat, q \in Nat :
         p = Total(SubSeq(old, n.count + 1, Len(old))) /\ q = Total(SubSeq(old, b.count + 1, Len(old)))
  BY <1>13, <1>14
<1>16. n.messages = new /\ w.count = b.count /\ w.summary = b.summary /\ Tokens(n) < Tokens(w)
  BY <1>1, <1>10 DEF Accepting
<1>17. Tokens(n) = p + more + n.summary.size /\ Tokens(w) = q + more + b.summary.size
  BY <1>10, <1>12, <1>13, <1>15, <1>16 DEF Tokens, Raw
<1>18. Tokens(x) = p + n.summary.size /\ Tokens(b) = q + b.summary.size
  BY <1>8, <1>10, <1>15 DEF Tokens, Raw
<1>19. PICK i \in Nat, j \in Nat : i = n.summary.size /\ j = b.summary.size
  BY <1>1 DEF Texts
<1>20. p + more + i < q + more + j
  BY <1>16, <1>17, <1>19
<1>21. p + i < q + j
  BY <1>20
<1>22. Tokens(x) < Tokens(b)
  BY <1>18, <1>19, <1>21
<1> QED BY <1>7, <1>8, <1>9, <1>22

\* A compaction never makes what the model is told of a thread longer: neither the
\* one that is saved at once, which is measured with the new prompt, nor the one
\* that is saved with the answer (_maybe_compact_context, _execute_run).
THEOREM ContextOnlyShrinks == CompactionSpec => ContextShrinks
<1>1. CompactionInductive /\ [CompactionNext]_compactionVars =>
        \A t \in ChatThreads :
          saved[t] # Nothing /\ saved'[t].summary # saved[t].summary =>
            Tokens(saved'[t]) < Tokens([saved[t] EXCEPT !.messages = saved'[t].messages])
  <2> SUFFICES ASSUME CompactionInductive, [CompactionNext]_compactionVars, NEW t \in ChatThreads,
                      saved[t] # Nothing, saved'[t].summary # saved[t].summary
               PROVE  Tokens(saved'[t]) < Tokens([saved[t] EXCEPT !.messages = saved'[t].messages])
    OBVIOUS
  <2>1. saved \in [ChatThreads -> Texts] /\ saved' # saved
    BY DEF CompactionInductive, CompactionTyped
  <2>2. CASE Accepted
    BY <2>2, AcceptedShrinks
  <2>3. CASE SaveTurn
    <3>1. /\ turn.thread \in ChatThreads /\ saved' = [saved EXCEPT ![turn.thread] = Work]
          /\ SameSummary \/ Shorter(Work, Earlier)
      BY <2>3, SavedIsCopy
    <3>2. t = turn.thread /\ saved'[t] = Work /\ saved[t] = Earlier
      BY <2>1, <3>1 DEF Earlier
    <3>3. ~SameSummary
      BY <3>2 DEF SameSummary
    <3> QED BY <3>1, <3>2, <3>3 DEF Shorter
  <2>4. ASSUME NEW u \in ChatThreads, NEW new \in ChatThreads, saved[new] = Nothing, NEW x,
               saved' = [saved EXCEPT ![new] = x]
        PROVE  FALSE
    BY <2>1, <2>4
  <2>5. CASE ~Accepted /\ ~SaveTurn
    <3>1. PICK u \in ChatThreads, new \in ChatThreads :
            DuplicateThread(u, new) \/ \E k \in 1..Len(saved[u].messages) : BranchThread(u, new, k)
      BY <2>1, <2>5 DEF CompactionNext, compactionVars, BeginChat, BeginCompact, StopTurn, Stopping,
         AskSummary, AskTighter, NotCompacted, HelperReplies, Unavailable, Rejected, CompletesCompact,
         BuildPrompt, Answered, AnswerFails, ProcessDies
    <3>2. saved[new] = Nothing /\ \E x : saved' = [saved EXCEPT ![new] = x]
      BY <3>1 DEF DuplicateThread, BranchThread, Fresh
    <3> QED BY <2>4, <3>2
  <2> QED BY <2>2, <2>3, <2>5
<1> QED BY <1>1, CompactionInvariant, PTL DEF ContextShrinks, CompactionSpec

-----------------------------------------------------------------------------
(* The parts together. *)

\* A step of the parts is a step of each of them, or leaves it as it is.
LEMMA PartsStep ==
  ASSUME [PartsNext]_partsVars
  PROVE  /\ [PullsNext]_pullVars /\ [BuildNext]_buildVars /\ [CallsNext]_callVars
         /\ [CompactionNext]_compactionVars /\ [SettingsNext]_settingsVars
         /\ [MigrationNext]_migrationVars /\ [KeyNext]_keyVars
<1>1. CASE UNCHANGED partsVars
  BY <1>1 DEF partsVars
<1>2. CASE PartsNext
  BY <1>2 DEF PartsNext, Only
<1> QED BY <1>1, <1>2

\* Each part behaves as it does on its own, so that all that is proved of it holds of
\* the parts together.
THEOREM PartsAreTheirParts ==
  PartsSpec => /\ PullsSpec /\ BuildSpec /\ CallsSpec /\ CompactionSpec
               /\ SettingsSpec /\ MigrationSpec /\ KeySpec
<1>1. PartsInit => /\ PullsInit /\ BuildInit /\ CallsInit /\ CompactionInit
                   /\ SettingsInit /\ MigrationInit /\ KeyInit
  BY DEF PartsInit
<1> QED BY <1>1, PartsStep, PTL
        DEF PartsSpec, PullsSpec, BuildSpec, CallsSpec, CompactionSpec, SettingsSpec,
            MigrationSpec, KeySpec

\* Whichever part moves: no download is forgotten or left open, the GUI runtime is what
\* it is said to be, a thread that ran has a model, and the processes have one key and
\* leave no lock behind.
THEOREM PartsStaySound == PartsSpec => []PartsAreSound
<1> QED BY PartsAreTheirParts, PullsTypeCorrect, NoTransferIsLeft, RuntimeIsWhatItSays,
           ThreadsHaveModels, OneKeyHolds, LockIsOwned, PTL DEF PartsAreSound

=============================================================================
