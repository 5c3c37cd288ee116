-------------------------- MODULE CodeRunnerProofs --------------------------
(***************************************************************************)
(* Proofs about the code runner.  CodeRunner: for any number of sessions   *)
(* and slots, no docker process and no folder is left behind by a session  *)
(* without a slot, and the slots are a pool.  RunnerOutput: for any number *)
(* of clients, chunks and pumps, no client gets an event twice, a stream   *)
(* that ended and lost nothing on its way has all the output since it      *)
(* began, and the pumps keep their common budget.                          *)
(***************************************************************************)
EXTENDS CodeRunner, RunnerOutput, SumLemmas, FiniteSetTheorems, SequenceTheorems, TLAPS

(* CodeRunner: the inductive invariant. *)

Killing == {"client", "clientAndFolder"}
Erasing == {"clientAndFolder", "folderAndNetwork"}

\* Where a session is in its life says what there is of it, and which of its
\* threads has nothing to do.
Fits(s) ==
  /\ phase[s] \notin {"register", "started", "failed"} => client[s] = "none" /\ s \notin folders
  /\ phase[s] # "started" => /\ s \notin runs \cup waiting \cup ended
                             /\ todo[<<s, "timeout">>] = <<>>
  /\ phase[s] \notin {"started", "failed"} \/ s \in waiting => todo[<<s, "own">>] = <<>>
  /\ phase[s] = "started" => s \in waiting \cup ended
  /\ s \in armed => todo[<<s, "timeout">>] = <<>>
  /\ s \in ended => client[s] = "dead" /\ s \notin waiting

\* A session without a slot has no process and no folder, unless somebody is
\* about to end the one and to remove the other.
Owned(s) ==
  s \notin Active =>
    /\ Alive(s) => Pending(Killing, s)
    /\ s \in folders => s \in waiting \/ Pending(Erasing, s)

IInv ==
  /\ TypeOK
  /\ shuttingDown => runs = {}
  /\ \A s \in Sessions : Fits(s) /\ Owned(s)
  /\ ~shuttingDown => todo[<<Closer, "stop">>] = <<>>

-----------------------------------------------------------------------------
(* Chores. *)

\* The threads of a session differ, and the shutdown has its own.
LEMMA ThreadNames ==
  ASSUME NEW s \in Sessions
  PROVE  /\ <<s, "own">> \in Threads /\ <<s, "stop">> \in Threads
         /\ <<s, "timeout">> \in Threads /\ <<Closer, "stop">> \in Threads
         /\ \A r \in Sessions, x \in {"own", "stop", "timeout"} :
              /\ <<r, x>> # <<Closer, "stop">>
              /\ \A y \in {"own", "stop", "timeout"} : <<r, x>> = <<s, y>> => r = s /\ x = y
BY RunnerAssumption DEF Threads, Closer

\* What a thread has to do for a session is a sequence of chores of that session.
LEMMA ForWork ==
  ASSUME NEW s \in Sessions
  PROVE  /\ For(s, Stop) \in Seq(Chores \X Sessions)
         /\ For(s, Failure) \in Seq(Chores \X Sessions)
         /\ For(s, Ending) \in Seq(Chores \X Sessions)
         /\ For(s, <<>>) = <<>> /\ <<>> \in Seq(Chores \X Sessions)
         /\ \E i \in DOMAIN For(s, Stop) : For(s, Stop)[i] = <<"client", s>>
         /\ \E i \in DOMAIN For(s, Failure) : For(s, Failure)[i] = <<"clientAndFolder", s>>
         /\ \E i \in DOMAIN For(s, Ending) : For(s, Ending)[i] = <<"folderAndNetwork", s>>
<1>1. \A x \in Chores : <<x, s>> \in Chores \X Sessions
  OBVIOUS
<1>2. For(s, Stop) = <<<<"container", s>>, <<"client", s>>>>
  BY DEF For, Stop
<1>3. For(s, Failure) = <<<<"container", s>>, <<"clientAndFolder", s>>, <<"network", s>>>>
  BY DEF For, Failure
<1>4. For(s, Ending) = <<<<"folderAndNetwork", s>>>>
  BY DEF For, Ending
<1>5. For(s, <<>>) = <<>> /\ <<>> \in Seq(Chores \X Sessions)
  BY DEF For
<1> QED BY <1>1, <1>2, <1>3, <1>4, <1>5, SMTT(30) DEF Chores

\* A thread that had nothing to do is given work: what was pending still is.
LEMMA PendingMore ==
  ASSUME todo \in [Threads -> Seq(Chores \X Sessions)], NEW t \in Threads, todo[t] = <<>>,
         NEW q \in Seq(Chores \X Sessions), todo' = [todo EXCEPT ![t] = q],
         NEW C, NEW s
  PROVE  /\ Pending(C, s) => Pending(C, s)'
         /\ (\E i \in DOMAIN q : q[i][2] = s /\ q[i][1] \in C) => Pending(C, s)'
<1>1. todo'[t] = q /\ \A u \in Threads \ {t} : todo'[u] = todo[u]
  OBVIOUS
<1>2. ASSUME Pending(C, s)
      PROVE  Pending(C, s)'
  <2>1. PICK u \in Threads : \E i \in DOMAIN todo[u] : todo[u][i][2] = s /\ todo[u][i][1] \in C
    BY <1>2 DEF Pending
  <2>2. u # t
    BY <2>1
  <2>3. todo'[u] = todo[u]
    BY <1>1, <2>2
  <2> QED BY <2>1, <2>3 DEF Pending
<1>3. ASSUME \E i \in DOMAIN q : q[i][2] = s /\ q[i][1] \in C
      PROVE  Pending(C, s)'
  BY <1>1, <1>3 DEF Pending
<1> QED BY <1>2, <1>3

\* A thread does the first thing it has to do: nothing else is forgotten.
LEMMA PendingLess ==
  ASSUME todo \in [Threads -> Seq(Chores \X Sessions)], NEW t \in Threads, todo[t] # <<>>,
         todo' = [todo EXCEPT ![t] = Tail(@)],
         NEW C, NEW s, Pending(C, s),
         ~(Head(todo[t])[2] = s /\ Head(todo[t])[1] \in C)
  PROVE  Pending(C, s)'
<1>0. PICK u \in Threads : \E i \in DOMAIN todo[u] : todo[u][i][2] = s /\ todo[u][i][1] \in C
  BY DEF Pending
<1>1. PICK i \in DOMAIN todo[u] : todo[u][i][2] = s /\ todo[u][i][1] \in C
  BY <1>0
<1>2. CASE u # t
  BY <1>1, <1>2 DEF Pending
<1>3. CASE u = t
  <2>1. /\ todo[t] \in Seq(Chores \X Sessions) /\ i \in 1..Len(todo[t])
        /\ Len(todo[t]) \in Nat /\ Head(todo[t]) = todo[t][1]
    BY <1>1, <1>3
  <2>2. i # 1
    BY <1>1, <1>3, <2>1
  <2>3. /\ Tail(todo[t]) \in Seq(Chores \X Sessions) /\ Len(Tail(todo[t])) = Len(todo[t]) - 1
        /\ \A j \in 1..Len(Tail(todo[t])) : Tail(todo[t])[j] = todo[t][j + 1]
    BY <2>1, HeadTailProperties
  <2>4. i - 1 \in DOMAIN Tail(todo[t]) /\ Tail(todo[t])[i - 1] = todo[t][i]
    BY <2>1, <2>2, <2>3
  <2>5. todo'[t] = Tail(todo[t])
    OBVIOUS
  <2> QED BY <1>1, <1>3, <2>4, <2>5 DEF Pending
<1> QED BY <1>2, <1>3

\* A shutdown has to kill and to erase every session of the order it takes.
LEMMA InTurnWork ==
  ASSUME NEW order \in Seq(Sessions), NEW q, q = InTurn(order, Sweeping)
  PROVE  /\ q \in Seq(Chores \X Sessions)
         /\ \A j \in 1..Len(order) :
              \E i \in DOMAIN q : q[i] = <<"clientAndFolder", order[j]>>
<1>1. Len(Sweeping) = 3 /\ Sweeping[3] = "clientAndFolder" /\ Sweeping \in [1..3 -> Chores]
  BY DEF Sweeping, Chores
<1>2. q = [k \in 1..(Len(order) * 3) |-> <<Sweeping[((k - 1) % 3) + 1], order[((k - 1) \div 3) + 1]>>]
  BY <1>1 DEF InTurn
<1>3. Len(order) \in Nat
  OBVIOUS
<1>4. ASSUME NEW k \in 1..(Len(order) * 3)
      PROVE  ((k - 1) % 3) + 1 \in 1..3 /\ ((k - 1) \div 3) + 1 \in 1..Len(order)
  BY <1>3
<1>5. \A k \in 1..(Len(order) * 3) : q[k] \in Chores \X Sessions
  BY <1>1, <1>2, <1>4
<1>6. q \in Seq(Chores \X Sessions)
  <2>1. Len(order) * 3 \in Nat /\ q \in [1..(Len(order) * 3) -> Chores \X Sessions]
    BY <1>2, <1>3, <1>5
  <2> QED BY <2>1
<1>7. ASSUME NEW j \in 1..Len(order)
      PROVE  \E i \in DOMAIN q : q[i] = <<"clientAndFolder", order[j]>>
  <2>1. PICK k : k = 3 * j
    OBVIOUS
  <2>2. k \in 1..(Len(order) * 3) /\ ((k - 1) % 3) + 1 = 3 /\ ((k - 1) \div 3) + 1 = j
    BY <1>3, <2>1
  <2>3. k \in DOMAIN q /\ q[k] = <<Sweeping[3], order[j]>>
    BY <1>2, <2>2
  <2> QED BY <1>1, <2>3
<1> QED BY <1>6, <1>7

\* A shutdown's order leaves no session out.
LEMMA OrderIsComplete ==
  ASSUME NEW S, IsFiniteSet(S), NEW order \in SetToSeqs(S)
  PROVE  order \in Seq(S) /\ \A x \in S : \E i \in 1..Len(order) : order[i] = x
<1> DEFINE n == Cardinality(S)
<1>1. n \in Nat /\ IsFiniteSet(1..n) /\ Cardinality(1..n) = n
  BY FS_CardinalityType, FS_Interval
<1>2. order \in [1..n -> S] /\ \A i, j \in 1..n : i # j => order[i] # order[j]
  BY DEF SetToSeqs
<1>3. order \in Injection(1..n, S)
  BY <1>2 DEF Injection, IsInjective
<1>4. order \in Surjection(1..n, S)
  BY <1>1, <1>3, FS_Injection
<1>5. order \in Seq(S) /\ Len(order) = n
  BY <1>1, <1>2
<1> QED BY <1>4, <1>5 DEF Surjection

-----------------------------------------------------------------------------
(* The steps. *)

\* What a step that is not about session r leaves to it.
Same(r) ==
  /\ phase'[r] = phase[r] /\ client'[r] = client[r]
  /\ r \in Active' <=> r \in Active
  /\ r \in runs' => r \in runs
  /\ r \in ended' <=> r \in ended
  /\ r \in waiting' <=> r \in waiting
  /\ r \in armed' => r \in armed
  /\ r \in folders' => r \in folders
  /\ todo'[<<r, "own">>] = todo[<<r, "own">>]
  /\ todo'[<<r, "timeout">>] = todo[<<r, "timeout">>]
  /\ Pending(Killing, r) => Pending(Killing, r)'
  /\ Pending(Erasing, r) => Pending(Erasing, r)'

\* It keeps what the invariant says of r.
LEMMA SameKeeps ==
  ASSUME NEW r \in Sessions, Fits(r), Owned(r), Same(r)
  PROVE  Fits(r)' /\ Owned(r)'
<1>1. Fits(r)'
  BY DEF Fits, Same
<1>2. Owned(r)'
  BY DEF Owned, Same, Alive
<1> QED BY <1>1, <1>2

\* What is pending, when nobody is given or does a chore.
LEMMA PendingSame ==
  ASSUME UNCHANGED todo, NEW C, NEW s
  PROVE  Pending(C, s)' <=> Pending(C, s)
BY DEF Pending

Cleaning == {"seeContainers", "listContainers", "removeContainers",
             "seeNetworks", "listNetworks", "removeNetworks"}

\* A cleanup goes on to its next step, and takes names out of Docker.
LEMMA CleanUpMoves ==
  ASSUME TypeOK, NEW s \in Starters, CleanUp(s)
  PROVE  /\ \E x \in Cleaning \cup {IF s = Closer THEN "closed" ELSE "prepare"} :
              phase' = [phase EXCEPT ![s] = x]
         /\ phase[s] \in Cleaning
         /\ seen' \in [Starters -> SUBSET Sessions]
         /\ listed' \in [Starters -> SUBSET Names]
         /\ containers' \subseteq Names /\ networks' \subseteq Names
         /\ UNCHANGED <<registry, todo, waiting, armed, preview, client, folders>>
<1> DEFINE to == Cleaning \cup {IF s = Closer THEN "closed" ELSE "prepare"}
<1>1. PICK kind \in Kinds : CopyNames(s, kind) \/ ListStale(s, kind) \/ RemoveStale(s, kind)
  BY DEF CleanUp
<1>2. /\ Seeing(kind) \in Cleaning /\ Listing(kind) \in Cleaning /\ Removing(kind) \in Cleaning
      /\ After(s, kind) \in to
  BY DEF Kinds, Seeing, Listing, Removing, After, Cleaning
<1>3. CASE CopyNames(s, kind)
  <2>1. Preserved(s, kind) \in SUBSET Sessions
    BY DEF Preserved, Running, TypeOK
  <2> QED BY <1>2, <1>3, <2>1 DEF CopyNames, At, Enter, TypeOK, outside
<1>4. ASSUME NEW names \in SUBSET Names, LooksAt(s, kind, names)
      PROVE  /\ \E x \in to : phase' = [phase EXCEPT ![s] = x]
             /\ listed' \in [Starters -> SUBSET Names]
  <2>1. listed' \in [Starters -> SUBSET Names]
    BY <1>4 DEF LooksAt, TypeOK
  <2> QED BY <1>2, <1>4, <2>1 DEF LooksAt, Enter
<1>5. CASE ListStale(s, kind)
  <2>1. \E names \in SUBSET Names : LooksAt(s, kind, names)
    <3>1. \A seenBy : {name \in (IF kind = "containers" THEN containers ELSE networks) \ seenBy : Removable(name)}
                        \in SUBSET Names
      BY DEF TypeOK
    <3> QED BY <1>5, <3>1 DEF ListStale
  <2>2. seen' \in [Starters -> SUBSET Sessions]
    BY <1>5 DEF ListStale, TypeOK
  <2> QED BY <1>2, <1>4, <1>5, <2>1, <2>2 DEF ListStale, At, TypeOK, outside
<1>6. CASE RemoveStale(s, kind)
  <2>1. PICK name \in listed[s] :
          /\ LooksAt(s, kind, listed[s] \ {name})
          /\ IF kind = "containers" THEN RemoveContainer(name) ELSE RemoveNetwork(name)
    BY <1>6 DEF RemoveStale
  <2>2. listed[s] \ {name} \in SUBSET Names
    BY DEF TypeOK
  <2>3. containers' \subseteq Names /\ networks' \subseteq Names
    BY <2>1 DEF RemoveContainer, RemoveNetwork, TypeOK
  <2> QED BY <1>2, <1>4, <1>6, <2>1, <2>2, <2>3 DEF RemoveStale, At, TypeOK
<1> QED BY <1>1, <1>3, <1>5, <1>6

\* A cleanup touches no process and no folder.
LEMMA CleanUpKeeps ==
  ASSUME IInv, NEW s \in Starters, CleanUp(s)
  PROVE  IInv'
<1>1. TypeOK
  BY DEF IInv
<1>2. /\ \E x \in Cleaning \cup {IF s = Closer THEN "closed" ELSE "prepare"} :
           phase' = [phase EXCEPT ![s] = x]
      /\ phase[s] \in Cleaning
      /\ seen' \in [Starters -> SUBSET Sessions]
      /\ listed' \in [Starters -> SUBSET Names]
      /\ containers' \subseteq Names /\ networks' \subseteq Names
      /\ UNCHANGED <<registry, todo, waiting, armed, preview, client, folders>>
  BY <1>1, CleanUpMoves
<1>3. PICK x \in Cleaning \cup {IF s = Closer THEN "closed" ELSE "prepare"} :
        phase' = [phase EXCEPT ![s] = x]
  BY <1>2
<1>4. Closer \notin Sessions
  BY RunnerAssumption DEF Closer
<1>5. phase' \in [Starters -> Phases] /\ \A r \in Starters \ {s} : phase'[r] = phase[r]
  BY <1>1, <1>3 DEF TypeOK, Phases, Cleaning
<1>6. s \in Sessions => phase'[s] \in Cleaning \cup {"prepare"}
  BY <1>1, <1>3, <1>4 DEF TypeOK
<1>7. starting' = {r \in Sessions : phase'[r] \notin {"idle", "refused", "started", "failed"}}
  BY <1>1, <1>2, <1>5, <1>6 DEF TypeOK, registry, Cleaning, Starters
<1>8. TypeOK'
  BY <1>1, <1>2, <1>5, <1>7 DEF TypeOK, registry
<1>9. ASSUME NEW r \in Sessions
      PROVE  Fits(r)' /\ Owned(r)'
  <2>1. Fits(r) /\ Owned(r)
    BY DEF IInv
  <2>2. CASE r # s
    <3>1. Same(r)
      BY <1>2, <1>5, <2>2, PendingSame DEF Same, registry, Starters, Active, Running
    <3> QED BY <2>1, <3>1, SameKeeps
  <2>3. CASE r = s
    <3>1. Fits(r)'
      BY <1>2, <1>6, <2>1, <2>3 DEF Fits, registry, Cleaning
    <3>2. Owned(r)'
      BY <1>2, <2>1, PendingSame DEF Owned, registry, Active, Running, Alive
    <3> QED BY <3>1, <3>2
  <2> QED BY <2>2, <2>3
<1> QED BY <1>2, <1>8, <1>9 DEF IInv, registry

\* A request: it takes a slot or is refused, and forgets the sessions that ended.
LEMMA ReservesKeeps ==
  ASSUME IInv, NEW s \in Sessions, Reserves(s)
  PROVE  IInv'
<1>1. TypeOK
  BY DEF IInv
<1>2. /\ phase[s] = "idle" /\ runs' = runs \ ended
      /\ UNCHANGED <<shuttingDown, ended, seen, listed, todo, waiting, armed, outside>>
  BY DEF Reserves, At
<1>3. preview' \subseteq Sessions /\ (Reserve(s) \/ Refused(s))
  BY <1>1 DEF Reserves, TypeOK
<1>4. \/ phase' = [phase EXCEPT ![s] = "seeContainers"] /\ starting' = starting \cup {s}
      \/ phase' = [phase EXCEPT ![s] = "refused"] /\ starting' = starting
  BY <1>3 DEF Reserve, Takes, Refused, Enter
<1>5. /\ phase' \in [Starters -> Phases] /\ phase'[s] \in {"seeContainers", "refused"}
      /\ \A r \in Starters \ {s} : phase'[r] = phase[r]
  BY <1>1, <1>4 DEF TypeOK, Phases, Starters
<1>6. starting' = {r \in Sessions : phase'[r] \notin {"idle", "refused", "started", "failed"}}
  BY <1>1, <1>2, <1>4 DEF TypeOK, Starters
<1>7. TypeOK'
  BY <1>1, <1>2, <1>3, <1>5, <1>6 DEF TypeOK, outside
<1>8. \A r \in Sessions : Fits(r) /\ Owned(r)
  BY DEF IInv
<1>9. ASSUME NEW r \in Sessions
      PROVE  Fits(r)' /\ Owned(r)'
  <2>1. CASE r # s
    <3>1. Same(r)
      BY <1>2, <1>4, <1>5, <2>1, PendingSame DEF Same, outside, Starters, Active, Running
    <3> QED BY <1>8, <3>1, SameKeeps
  <2>2. CASE r = s
    <3>1. client[s] = "none" /\ s \notin folders /\ s \notin runs \cup waiting \cup ended
          /\ todo[<<s, "timeout">>] = <<>> /\ todo[<<s, "own">>] = <<>> /\ s \notin armed
      BY <1>1, <1>2, <1>8 DEF Fits, TypeOK
    <3> QED BY <1>2, <1>5, <2>2, <3>1 DEF Fits, Owned, Alive, outside
  <2> QED BY <2>1, <2>2
<1> QED BY <1>2, <1>7, <1>9 DEF IInv

\* A start that fails: its slot is given back, and what it left is taken care of.
LEMMA AbandonFits ==
  ASSUME IInv, NEW s \in Sessions, NEW work \in {<<>>, Failure, Ending},
         Abandon(s, work), phase[s] \in {"prepare", "launch", "register"}
  PROVE  /\ phase' \in [Starters -> Phases] /\ phase'[s] = "failed"
         /\ \A r \in Starters \ {s} : phase'[r] = phase[r]
         /\ starting' = {r \in Sessions : phase'[r] \notin {"idle", "refused", "started", "failed"}}
         /\ starting' = starting \ {s}
         /\ todo' \in [Threads -> Seq(Chores \X Sessions)]
         /\ \A t \in Threads : t # <<s, "own">> => todo'[t] = todo[t]
         /\ \A C, r : Pending(C, r) => Pending(C, r)'
         /\ \A C : (\E i \in DOMAIN For(s, work) : For(s, work)[i][2] = s /\ For(s, work)[i][1] \in C)
              => Pending(C, s)'
<1>1. TypeOK /\ Fits(s)
  BY DEF IInv
<1>2. /\ starting' = starting \ {s} /\ phase' = [phase EXCEPT ![s] = "failed"]
      /\ todo' = [todo EXCEPT ![<<s, "own">>] = For(s, work)]
  BY DEF Abandon, Enter
<1>3. <<s, "own">> \in Threads /\ todo[<<s, "own">>] = <<>>
  BY <1>1, ThreadNames DEF Fits
<1>4. For(s, work) \in Seq(Chores \X Sessions)
  BY ForWork
<1>5. todo \in [Threads -> Seq(Chores \X Sessions)]
  BY <1>1 DEF TypeOK
<1>6. PICK q : q = For(s, work)
  OBVIOUS
<1>7. PICK t : t = <<s, "own">>
  OBVIOUS
<1>8. \A C, r : /\ Pending(C, r) => Pending(C, r)'
                /\ (\E i \in DOMAIN q : q[i][2] = r /\ q[i][1] \in C) => Pending(C, r)'
  BY <1>2, <1>3, <1>4, <1>5, <1>6, <1>7, PendingMore
<1>9. /\ phase' \in [Starters -> Phases] /\ phase'[s] = "failed"
      /\ \A r \in Starters \ {s} : phase'[r] = phase[r]
      /\ starting' = {r \in Sessions : phase'[r] \notin {"idle", "refused", "started", "failed"}}
  BY <1>1, <1>2 DEF TypeOK, Phases, Starters
<1> QED BY <1>2, <1>3, <1>4, <1>5, <1>6, <1>8, <1>9

\* _ensure_internal_network.
LEMMA PrepareKeeps ==
  ASSUME IInv, NEW s \in Sessions, Prepare(s)
  PROVE  IInv'
<1>1. TypeOK /\ \A r \in Sessions : Fits(r) /\ Owned(r)
  BY DEF IInv
<1>2. /\ phase[s] = "prepare"
      /\ UNCHANGED <<runs, shuttingDown, ended, cleanup, waiting, armed, preview,
                     client, containers, folders>>
  BY DEF Prepare, At
<1>3. client[s] = "none" /\ s \notin folders /\ s \notin runs \cup waiting \cup ended
      /\ todo[<<s, "timeout">>] = <<>> /\ todo[<<s, "own">>] = <<>> /\ s \notin armed
      /\ s \in starting /\ s \in Active
  BY <1>1, <1>2 DEF Fits, TypeOK, Active
<1>4. networks' \subseteq Names
  BY <1>1 DEF Prepare, TypeOK, Names
<1>5. CASE phase' = [phase EXCEPT ![s] = "launch"] /\ UNCHANGED <<starting, todo>>
  <2>1. /\ phase' \in [Starters -> Phases] /\ phase'[s] = "launch"
        /\ \A r \in Starters \ {s} : phase'[r] = phase[r]
        /\ starting' = {r \in Sessions : phase'[r] \notin {"idle", "refused", "started", "failed"}}
    BY <1>1, <1>2, <1>5 DEF TypeOK, Phases, Starters
  <2>2. TypeOK'
    BY <1>1, <1>2, <1>4, <1>5, <2>1 DEF TypeOK, cleanup
  <2>3. ASSUME NEW r \in Sessions, r # s
        PROVE  Same(r)
    BY <1>2, <1>5, <2>1, <2>3, PendingSame DEF Same, Starters, Active, Running
  <2>4. Fits(s)' /\ Owned(s)'
    BY <1>2, <1>3, <1>5, <2>1 DEF Fits, Owned, Alive
  <2> QED BY <1>1, <1>2, <1>5, <2>2, <2>3, <2>4, SameKeeps DEF IInv
<1>6. CASE Abandon(s, <<>>)
  <2>1. /\ phase' \in [Starters -> Phases] /\ phase'[s] = "failed"
        /\ \A r \in Starters \ {s} : phase'[r] = phase[r]
        /\ starting' = {r \in Sessions : phase'[r] \notin {"idle", "refused", "started", "failed"}}
        /\ starting' = starting \ {s}
        /\ todo' \in [Threads -> Seq(Chores \X Sessions)]
        /\ \A t \in Threads : t # <<s, "own">> => todo'[t] = todo[t]
        /\ \A C, r : Pending(C, r) => Pending(C, r)'
    BY <1>2, <1>6, AbandonFits
  <2>2. TypeOK'
    BY <1>1, <1>2, <1>4, <2>1 DEF TypeOK, cleanup
  <2>3. ASSUME NEW r \in Sessions, r # s
        PROVE  Same(r)
    BY <1>2, <2>1, <2>3, ThreadNames DEF Same, Starters, Active, Running
  <2>4. todo'[<<s, "timeout">>] = <<>> /\ todo'[<<Closer, "stop">>] = todo[<<Closer, "stop">>]
    BY <1>3, <2>1, ThreadNames
  <2>5. Fits(s)' /\ Owned(s)'
    BY <1>2, <1>3, <2>1, <2>4 DEF Fits, Owned, Alive
  <2> QED BY <1>1, <1>2, <2>2, <2>3, <2>4, <2>5, SameKeeps DEF IInv
<1> QED BY <1>5, <1>6 DEF Prepare, Enter

\* The folder with the source file, and Popen.
LEMMA LaunchKeeps ==
  ASSUME IInv, NEW s \in Sessions, Launch(s)
  PROVE  IInv'
<1>1. TypeOK /\ \A r \in Sessions : Fits(r) /\ Owned(r)
  BY DEF IInv
<1>2. /\ phase[s] = "launch" /\ folders' = folders \cup {s}
      /\ UNCHANGED <<runs, shuttingDown, ended, cleanup, waiting, armed, preview,
                     containers, networks>>
  BY DEF Launch, At
<1>3. client[s] = "none" /\ s \notin folders /\ s \notin runs \cup waiting \cup ended
      /\ todo[<<s, "timeout">>] = <<>> /\ todo[<<s, "own">>] = <<>> /\ s \notin armed
      /\ s \in starting /\ s \in Active
  BY <1>1, <1>2 DEF Fits, TypeOK, Active
<1>4. CASE /\ client' = [client EXCEPT ![s] = "launched"] /\ phase' = [phase EXCEPT ![s] = "register"]
           /\ UNCHANGED <<starting, todo>>
  <2>1. /\ phase' \in [Starters -> Phases] /\ phase'[s] = "register"
        /\ \A r \in Starters \ {s} : phase'[r] = phase[r]
        /\ starting' = {r \in Sessions : phase'[r] \notin {"idle", "refused", "started", "failed"}}
        /\ client' \in [Sessions -> {"none", "launched", "attached", "dead"}]
        /\ \A r \in Sessions \ {s} : client'[r] = client[r]
    BY <1>1, <1>2, <1>4 DEF TypeOK, Phases, Starters
  <2>2. TypeOK'
    BY <1>1, <1>2, <1>4, <2>1 DEF TypeOK, cleanup
  <2>3. ASSUME NEW r \in Sessions, r # s
        PROVE  Same(r)
    BY <1>2, <1>4, <2>1, <2>3, PendingSame DEF Same, Starters, Active, Running
  <2>4. Fits(s)' /\ Owned(s)'
    BY <1>2, <1>3, <1>4, <2>1 DEF Fits, Owned, Active, Running
  <2> QED BY <1>1, <1>2, <1>4, <2>2, <2>3, <2>4, SameKeeps DEF IInv
<1>5. CASE Abandon(s, Ending) /\ UNCHANGED client
  <2>1. /\ phase' \in [Starters -> Phases] /\ phase'[s] = "failed"
        /\ \A r \in Starters \ {s} : phase'[r] = phase[r]
        /\ starting' = {r \in Sessions : phase'[r] \notin {"idle", "refused", "started", "failed"}}
        /\ starting' = starting \ {s}
        /\ todo' \in [Threads -> Seq(Chores \X Sessions)]
        /\ \A t \in Threads : t # <<s, "own">> => todo'[t] = todo[t]
        /\ \A C, r : Pending(C, r) => Pending(C, r)'
        /\ \A C : (\E i \in DOMAIN For(s, Ending) : For(s, Ending)[i][2] = s /\ For(s, Ending)[i][1] \in C)
             => Pending(C, s)'
    BY <1>2, <1>5, AbandonFits
  <2>2. TypeOK'
    BY <1>1, <1>2, <1>5, <2>1 DEF TypeOK, cleanup
  <2>3. ASSUME NEW r \in Sessions, r # s
        PROVE  Same(r)
    BY <1>2, <1>5, <2>1, <2>3, ThreadNames DEF Same, Starters, Active, Running
  <2>4. todo'[<<s, "timeout">>] = <<>> /\ todo'[<<Closer, "stop">>] = todo[<<Closer, "stop">>]
    BY <1>3, <2>1, ThreadNames
  <2>5. Pending(Erasing, s)'
    <3>1. PICK i \in DOMAIN For(s, Ending) : For(s, Ending)[i] = <<"folderAndNetwork", s>>
      BY ForWork
    <3> QED BY <2>1, <3>1 DEF Erasing
  <2>6. Fits(s)' /\ Owned(s)'
    BY <1>2, <1>3, <1>5, <2>1, <2>4, <2>5 DEF Fits, Owned, Alive
  <2> QED BY <1>1, <1>2, <2>2, <2>3, <2>4, <2>6, SameKeeps DEF IInv
<1> QED BY <1>4, <1>5 DEF Launch, Enter

\* The registration: it finds the runner open, or tears down what was launched.
LEMMA RegisterKeeps ==
  ASSUME IInv, NEW s \in Sessions, Register(s)
  PROVE  IInv'
<1>1. TypeOK /\ \A r \in Sessions : Fits(r) /\ Owned(r)
  BY DEF IInv
<1>2. phase[s] = "register" /\ UNCHANGED <<shuttingDown, ended, cleanup, preview, outside>>
  BY DEF Register, At
<1>3. s \notin runs \cup waiting \cup ended
      /\ todo[<<s, "timeout">>] = <<>> /\ todo[<<s, "own">>] = <<>> /\ s \notin armed
      /\ s \in starting
  BY <1>1, <1>2 DEF Fits, TypeOK
<1>4. CASE ~shuttingDown /\ Registers(s)
  <2>1. /\ runs' = runs \cup {s} /\ starting' = starting \ {s}
        /\ phase' = [phase EXCEPT ![s] = "started"]
        /\ waiting' = waiting \cup {s} /\ armed' = armed \cup {s} /\ UNCHANGED todo
    BY <1>4 DEF Registers, Enter
  <2>2. /\ phase' \in [Starters -> Phases] /\ phase'[s] = "started"
        /\ \A r \in Starters \ {s} : phase'[r] = phase[r]
        /\ starting' = {r \in Sessions : phase'[r] \notin {"idle", "refused", "started", "failed"}}
    BY <1>1, <2>1 DEF TypeOK, Phases, Starters
  <2>3. TypeOK'
    BY <1>1, <1>2, <2>1, <2>2 DEF TypeOK, cleanup, outside
  <2>4. ASSUME NEW r \in Sessions, r # s
        PROVE  Same(r)
    BY <1>2, <2>1, <2>2, <2>4, PendingSame DEF Same, Starters, Active, Running, outside
  <2>5. Fits(s)' /\ Owned(s)'
    BY <1>2, <1>3, <2>1, <2>2 DEF Fits, Owned, Active, Running
  <2> QED BY <1>1, <1>2, <1>4, <2>1, <2>3, <2>4, <2>5, SameKeeps DEF IInv
<1>5. CASE Abandon(s, Failure) /\ UNCHANGED <<runs, waiting, armed>>
  <2>1. /\ phase' \in [Starters -> Phases] /\ phase'[s] = "failed"
        /\ \A r \in Starters \ {s} : phase'[r] = phase[r]
        /\ starting' = {r \in Sessions : phase'[r] \notin {"idle", "refused", "started", "failed"}}
        /\ starting' = starting \ {s}
        /\ todo' \in [Threads -> Seq(Chores \X Sessions)]
        /\ \A t \in Threads : t # <<s, "own">> => todo'[t] = todo[t]
        /\ \A C, r : Pending(C, r) => Pending(C, r)'
        /\ \A C : (\E i \in DOMAIN For(s, Failure) : For(s, Failure)[i][2] = s /\ For(s, Failure)[i][1] \in C)
             => Pending(C, s)'
    BY <1>2, <1>5, AbandonFits
  <2>2. TypeOK'
    BY <1>1, <1>2, <1>5, <2>1 DEF TypeOK, cleanup, outside
  <2>3. ASSUME NEW r \in Sessions, r # s
        PROVE  Same(r)
    BY <1>2, <1>5, <2>1, <2>3, ThreadNames DEF Same, Starters, Active, Running, outside
  <2>4. todo'[<<s, "timeout">>] = <<>> /\ todo'[<<Closer, "stop">>] = todo[<<Closer, "stop">>]
    BY <1>3, <2>1, ThreadNames
  <2>5. Pending(Erasing, s)' /\ Pending(Killing, s)'
    <3>1. PICK i \in DOMAIN For(s, Failure) : For(s, Failure)[i] = <<"clientAndFolder", s>>
      BY ForWork
    <3> QED BY <2>1, <3>1 DEF Erasing, Killing
  <2>6. Fits(s)' /\ Owned(s)'
    BY <1>2, <1>3, <1>5, <2>1, <2>4, <2>5 DEF Fits, Owned
  <2> QED BY <1>1, <1>2, <1>5, <2>2, <2>3, <2>4, <2>6, SameKeeps DEF IInv
<1> QED BY <1>4, <1>5 DEF Register

\* Docker moves the process of a session that has one.
LEMMA ClientMovesKeeps ==
  ASSUME IInv, NEW s \in Sessions, client[s] \in {"launched", "attached"},
         NEW x \in {"attached", "dead"}, client' = [client EXCEPT ![s] = x],
         containers' \subseteq Names,
         UNCHANGED <<registry, cleanup, threads, preview, networks, folders>>
  PROVE  IInv'
<1>1. TypeOK /\ \A r \in Sessions : Fits(r) /\ Owned(r)
  BY DEF IInv
<1>2. /\ client' \in [Sessions -> {"none", "launched", "attached", "dead"}]
      /\ client'[s] = x /\ \A r \in Sessions \ {s} : client'[r] = client[r]
  BY <1>1 DEF TypeOK
<1>3. TypeOK'
  BY <1>1, <1>2 DEF TypeOK, registry, cleanup, threads
<1>4. ASSUME NEW r \in Sessions, r # s
      PROVE  Same(r)
  BY <1>2, <1>4, PendingSame DEF Same, registry, threads, Active, Running
<1>5. Fits(s)'
  BY <1>1, <1>2 DEF Fits, registry, threads
<1>6. Owned(s)'
  BY <1>1, <1>2, PendingSame DEF Owned, Alive, registry, threads, Active, Running
<1> QED BY <1>1, <1>3, <1>4, <1>5, <1>6, SameKeeps DEF IInv, registry, threads

LEMMA DockerKeeps ==
  ASSUME IInv, NEW s \in Sessions, CreateContainer(s) \/ ProgramEnds(s)
  PROVE  IInv'
<1>1. containers \subseteq Names /\ s \in Names
  BY DEF IInv, TypeOK, Names
<1>2. CASE CreateContainer(s)
  <2>1. CASE s \in preview /\ s \notin networks
    BY <1>1, <1>2, <2>1, ClientMovesKeeps DEF CreateContainer
  <2>2. CASE ~(s \in preview /\ s \notin networks)
    BY <1>1, <1>2, <2>2, ClientMovesKeeps DEF CreateContainer
  <2> QED BY <2>1, <2>2
<1>3. CASE ProgramEnds(s)
  BY <1>1, <1>3, ClientMovesKeeps DEF ProgramEnds
<1> QED BY <1>2, <1>3

\* Work that is given to one thread, which had nothing to do, is not taken from another.
LEMMA GivesWork ==
  ASSUME IInv, NEW s \in Sessions, NEW x \in {"own", "stop", "timeout"},
         todo[<<s, x>>] = <<>>, NEW q \in Seq(Chores \X Sessions),
         todo' = [todo EXCEPT ![<<s, x>>] = q]
  PROVE  /\ todo' \in [Threads -> Seq(Chores \X Sessions)]
         /\ todo'[<<s, x>>] = q
         /\ \A r \in Sessions, y \in {"own", "stop", "timeout"} :
              r # s \/ y # x => todo'[<<r, y>>] = todo[<<r, y>>]
         /\ todo'[<<Closer, "stop">>] = todo[<<Closer, "stop">>]
         /\ \A C, r : /\ Pending(C, r) => Pending(C, r)'
                      /\ (\E i \in DOMAIN q : q[i][2] = r /\ q[i][1] \in C) => Pending(C, r)'
<1>1. todo \in [Threads -> Seq(Chores \X Sessions)]
  BY DEF IInv, TypeOK
<1>2. PICK t : t = <<s, x>>
  OBVIOUS
<1>3. t \in Threads /\ todo[t] = <<>> /\ todo' = [todo EXCEPT ![t] = q]
  BY <1>2, ThreadNames
<1>4. \A C, r : /\ Pending(C, r) => Pending(C, r)'
                /\ (\E i \in DOMAIN q : q[i][2] = r /\ q[i][1] \in C) => Pending(C, r)'
  BY <1>1, <1>3, PendingMore
<1>5. todo'[t] = q /\ \A u \in Threads : u # t => todo'[u] = todo[u]
  BY <1>1, <1>3
<1>6. todo' \in [Threads -> Seq(Chores \X Sessions)]
  BY <1>1, <1>3
<1>7. \A r \in Sessions, y \in {"own", "stop", "timeout"} :
        <<r, y>> \in Threads /\ (r # s \/ y # x => <<r, y>> # <<s, x>>)
  BY DEF Threads
<1>8. <<Closer, "stop">> \in Threads /\ <<s, x>> # <<Closer, "stop">>
  BY ThreadNames
<1> QED BY <1>2, <1>4, <1>5, <1>6, <1>7, <1>8

\* stop.
LEMMA RequestStopKeeps ==
  ASSUME IInv, NEW s \in Sessions, RequestStop(s)
  PROVE  IInv'
<1>1. TypeOK /\ \A r \in Sessions : Fits(r) /\ Owned(r)
  BY DEF IInv
<1>2. PICK q : q = For(s, Stop)
  OBVIOUS
<1>3. q \in Seq(Chores \X Sessions)
  BY <1>2, ForWork
<1>4. /\ todo' = [todo EXCEPT ![<<s, "stop">>] = q] /\ todo[<<s, "stop">>] = <<>>
      /\ UNCHANGED <<registry, cleanup, phase, waiting, armed, preview, outside>>
  BY <1>2 DEF RequestStop
<1>5. /\ todo' \in [Threads -> Seq(Chores \X Sessions)]
      /\ \A r \in Sessions, y \in {"own", "timeout"} : todo'[<<r, y>>] = todo[<<r, y>>]
      /\ todo'[<<Closer, "stop">>] = todo[<<Closer, "stop">>]
      /\ \A C, r : Pending(C, r) => Pending(C, r)'
  <2>1. /\ todo' \in [Threads -> Seq(Chores \X Sessions)]
        /\ \A r \in Sessions, y \in {"own", "stop", "timeout"} :
             r # s \/ y # "stop" => todo'[<<r, y>>] = todo[<<r, y>>]
        /\ todo'[<<Closer, "stop">>] = todo[<<Closer, "stop">>]
        /\ \A C, r : /\ Pending(C, r) => Pending(C, r)'
                     /\ (\E i \in DOMAIN q : q[i][2] = r /\ q[i][1] \in C) => Pending(C, r)'
    BY <1>3, <1>4, GivesWork
  <2> QED BY <2>1
<1>6. TypeOK'
  BY <1>1, <1>4, <1>5 DEF TypeOK, registry, cleanup, outside
<1>7. ASSUME NEW r \in Sessions
      PROVE  Same(r)
  BY <1>4, <1>5 DEF Same, registry, outside, Active, Running
<1> QED BY <1>1, <1>4, <1>5, <1>6, <1>7, SameKeeps DEF IInv, registry

\* _enforce_timeout.
LEMMA TimesOutKeeps ==
  ASSUME IInv, NEW s \in Sessions, TimesOut(s)
  PROVE  IInv'
<1>1. TypeOK /\ \A r \in Sessions : Fits(r) /\ Owned(r)
  BY DEF IInv
<1>2. PICK q : q = For(s, Stop)
  OBVIOUS
<1>3. q \in Seq(Chores \X Sessions)
  BY <1>2, ForWork
<1>4. /\ s \in armed /\ armed' = armed \ {s} /\ todo' = [todo EXCEPT ![<<s, "timeout">>] = q]
      /\ UNCHANGED <<registry, cleanup, phase, waiting, preview, outside>>
  BY <1>2 DEF TimesOut
<1>5. s \in waiting /\ todo[<<s, "timeout">>] = <<>> /\ phase[s] = "started"
  BY <1>1, <1>4 DEF Fits, TypeOK
<1>6. /\ todo' \in [Threads -> Seq(Chores \X Sessions)]
      /\ \A r \in Sessions : r # s => todo'[<<r, "timeout">>] = todo[<<r, "timeout">>]
      /\ \A r \in Sessions : todo'[<<r, "own">>] = todo[<<r, "own">>]
      /\ todo'[<<Closer, "stop">>] = todo[<<Closer, "stop">>]
      /\ \A C, r : Pending(C, r) => Pending(C, r)'
  <2>1. /\ todo' \in [Threads -> Seq(Chores \X Sessions)]
        /\ \A r \in Sessions, y \in {"own", "stop", "timeout"} :
             r # s \/ y # "timeout" => todo'[<<r, y>>] = todo[<<r, y>>]
        /\ todo'[<<Closer, "stop">>] = todo[<<Closer, "stop">>]
        /\ \A C, r : /\ Pending(C, r) => Pending(C, r)'
                     /\ (\E i \in DOMAIN q : q[i][2] = r /\ q[i][1] \in C) => Pending(C, r)'
    BY <1>3, <1>4, <1>5, GivesWork
  <2> QED BY <2>1
<1>7. TypeOK'
  BY <1>1, <1>4, <1>6 DEF TypeOK, registry, cleanup, outside
<1>8. ASSUME NEW r \in Sessions, r # s
      PROVE  Same(r)
  BY <1>4, <1>6, <1>8 DEF Same, registry, outside, Active, Running
<1>9. Fits(s)'
  BY <1>1, <1>4, <1>5, <1>6 DEF Fits, registry, outside
<1>10. Owned(s)'
  BY <1>1, <1>4, <1>6 DEF Owned, Alive, registry, outside, Active, Running
<1> QED BY <1>1, <1>4, <1>6, <1>7, <1>8, <1>9, <1>10, SameKeeps DEF IInv, registry

\* _wait_for_exit.
LEMMA ExitsKeeps ==
  ASSUME IInv, NEW s \in Sessions, Exits(s)
  PROVE  IInv'
<1>1. TypeOK /\ \A r \in Sessions : Fits(r) /\ Owned(r)
  BY DEF IInv
<1>2. PICK q : q = For(s, Ending)
  OBVIOUS
<1>3. q \in Seq(Chores \X Sessions) /\ \E i \in DOMAIN q : q[i] = <<"folderAndNetwork", s>>
  BY <1>2, ForWork
<1>4. /\ s \in waiting /\ client[s] = "dead" /\ ended' = ended \cup {s}
      /\ waiting' = waiting \ {s} /\ armed' = armed \ {s}
      /\ todo' = [todo EXCEPT ![<<s, "own">>] = q]
      /\ UNCHANGED <<runs, starting, shuttingDown, cleanup, phase, preview, outside>>
  BY <1>2 DEF Exits
<1>5. todo[<<s, "own">>] = <<>> /\ phase[s] = "started"
  BY <1>1, <1>4 DEF Fits
<1>6. /\ todo' \in [Threads -> Seq(Chores \X Sessions)]
      /\ \A r \in Sessions : r # s => todo'[<<r, "own">>] = todo[<<r, "own">>]
      /\ \A r \in Sessions : todo'[<<r, "timeout">>] = todo[<<r, "timeout">>]
      /\ todo'[<<Closer, "stop">>] = todo[<<Closer, "stop">>]
      /\ \A C, r : /\ Pending(C, r) => Pending(C, r)'
                   /\ (\E i \in DOMAIN q : q[i][2] = r /\ q[i][1] \in C) => Pending(C, r)'
  <2>1. /\ todo' \in [Threads -> Seq(Chores \X Sessions)]
        /\ \A r \in Sessions, y \in {"own", "stop", "timeout"} :
             r # s \/ y # "own" => todo'[<<r, y>>] = todo[<<r, y>>]
        /\ todo'[<<Closer, "stop">>] = todo[<<Closer, "stop">>]
        /\ \A C, r : /\ Pending(C, r) => Pending(C, r)'
                     /\ (\E i \in DOMAIN q : q[i][2] = r /\ q[i][1] \in C) => Pending(C, r)'
    BY <1>3, <1>4, <1>5, GivesWork
  <2> QED BY <2>1
<1>7. TypeOK'
  BY <1>1, <1>4, <1>6 DEF TypeOK, cleanup, outside
<1>8. ASSUME NEW r \in Sessions, r # s
      PROVE  Same(r)
  BY <1>4, <1>6, <1>8 DEF Same, outside, Active, Running
<1>9. Fits(s)'
  BY <1>1, <1>4, <1>5, <1>6 DEF Fits, outside
<1>10. Owned(s)'
  <2>1. Pending(Erasing, s)'
    BY <1>3, <1>6 DEF Erasing
  <2> QED BY <1>4, <2>1 DEF Owned, Alive, outside
<1> QED BY <1>1, <1>4, <1>6, <1>7, <1>8, <1>9, <1>10, SameKeeps DEF IInv

\* The shutdown takes the sessions out of the registry, and all of them to its end.
LEMMA BeginShutdownKeeps ==
  ASSUME IInv, BeginShutdown
  PROVE  IInv'
<1>1. TypeOK /\ \A r \in Sessions : Fits(r) /\ Owned(r)
  BY DEF IInv
<1>2. PICK order \in SetToSeqs(runs) :
        todo' = [todo EXCEPT ![<<Closer, "stop">>] = InTurn(order, Sweeping)]
  BY DEF BeginShutdown
<1>3. order \in Seq(Sessions) /\ \A r \in runs : \E j \in 1..Len(order) : order[j] = r
  <2>1. IsFiniteSet(runs) /\ runs \subseteq Sessions
    BY <1>1, RunnerAssumption, FS_Subset DEF TypeOK
  <2>2. order \in Seq(runs) /\ \A r \in runs : \E j \in 1..Len(order) : order[j] = r
    BY <1>2, <2>1, OrderIsComplete
  <2> QED BY <2>1, <2>2
<1>4. PICK q : q = InTurn(order, Sweeping)
  OBVIOUS
<1>5. /\ q \in Seq(Chores \X Sessions)
      /\ \A r \in runs : \E i \in DOMAIN q : q[i] = <<"clientAndFolder", r>>
  <2>1. /\ q \in Seq(Chores \X Sessions)
        /\ \A j \in 1..Len(order) : \E i \in DOMAIN q : q[i] = <<"clientAndFolder", order[j]>>
    BY <1>3, <1>4, InTurnWork
  <2> QED BY <1>3, <2>1
<1>6. PICK t : t = <<Closer, "stop">>
  OBVIOUS
<1>7. t \in Threads /\ todo[t] = <<>> /\ todo' = [todo EXCEPT ![t] = q]
  BY <1>2, <1>4, <1>6 DEF Threads, BeginShutdown, IInv
<1>8. /\ shuttingDown' = TRUE /\ runs' = {} /\ phase' = [phase EXCEPT ![Closer] = "sweep"]
      /\ UNCHANGED <<starting, ended, cleanup, waiting, armed, preview, outside>>
  BY DEF BeginShutdown, Enter
<1>9. \A C, r : /\ Pending(C, r) => Pending(C, r)'
                /\ (\E i \in DOMAIN q : q[i][2] = r /\ q[i][1] \in C) => Pending(C, r)'
  BY <1>1, <1>5, <1>7, PendingMore DEF TypeOK
<1>10. /\ todo' \in [Threads -> Seq(Chores \X Sessions)]
       /\ \A u \in Threads : u # t => todo'[u] = todo[u]
  BY <1>1, <1>5, <1>7 DEF TypeOK
<1>11. /\ Closer \notin Sessions
       /\ phase' \in [Starters -> Phases] /\ \A r \in Sessions : phase'[r] = phase[r]
  BY <1>1, <1>8, RunnerAssumption DEF TypeOK, Phases, Starters, Closer
<1>12. TypeOK'
  BY <1>1, <1>8, <1>10, <1>11 DEF TypeOK, cleanup, outside
<1>13. ASSUME NEW r \in Sessions
       PROVE  Fits(r)' /\ Owned(r)'
  <2>1. todo'[<<r, "own">>] = todo[<<r, "own">>] /\ todo'[<<r, "timeout">>] = todo[<<r, "timeout">>]
    BY <1>6, <1>10, ThreadNames
  <2>2. Fits(r)'
    BY <1>1, <1>8, <1>11, <2>1 DEF Fits, outside
  <2>3. CASE r \in runs
    <3>1. Pending(Killing, r)' /\ Pending(Erasing, r)'
      BY <1>5, <1>9, <2>3 DEF Killing, Erasing
    <3> QED BY <2>2, <3>1 DEF Owned
  <2>4. CASE r \notin runs
    <3>1. r \in Active' <=> r \in Active
      BY <1>8, <2>4 DEF Active, Running
    <3>2. Owned(r)'
      BY <1>1, <1>8, <1>9, <3>1 DEF Owned, Alive, outside
    <3> QED BY <2>2, <3>2
  <2> QED BY <2>3, <2>4
<1> QED BY <1>8, <1>12, <1>13 DEF IInv

\* The shutdown goes on to clean up.
LEMMA SweptKeeps ==
  ASSUME IInv, Swept
  PROVE  IInv'
<1>1. TypeOK /\ \A r \in Sessions : Fits(r) /\ Owned(r)
  BY DEF IInv
<1>2. /\ phase' = [phase EXCEPT ![Closer] = "seeContainers"]
      /\ UNCHANGED <<registry, cleanup, todo, waiting, armed, preview, outside>>
  BY DEF Swept, Enter
<1>3. /\ Closer \notin Sessions
      /\ phase' \in [Starters -> Phases] /\ \A r \in Sessions : phase'[r] = phase[r]
  BY <1>1, <1>2, RunnerAssumption DEF TypeOK, Phases, Starters, Closer
<1>4. TypeOK'
  BY <1>1, <1>2, <1>3 DEF TypeOK, registry, cleanup, outside
<1>5. ASSUME NEW r \in Sessions
      PROVE  Same(r)
  BY <1>2, <1>3, PendingSame DEF Same, registry, outside, Active, Running
<1> QED BY <1>1, <1>2, <1>4, <1>5, SameKeeps DEF IInv, registry

\* A thread does its next chore: what it ends or removes, nobody else has to.
LEMMA WorkKeeps ==
  ASSUME IInv, NEW t \in Threads, Work(t)
  PROVE  IInv'
<1>1. TypeOK /\ \A r \in Sessions : Fits(r) /\ Owned(r)
  BY DEF IInv
<1>2. /\ todo[t] # <<>> /\ todo' = [todo EXCEPT ![t] = Tail(@)]
      /\ UNCHANGED <<registry, cleanup, phase, waiting, armed, preview>>
  BY DEF Work
<1>3. todo \in [Threads -> Seq(Chores \X Sessions)]
  BY <1>1 DEF TypeOK
<1>4. PICK what : what = Head(todo[t])[1]
  OBVIOUS
<1>5. PICK s : s = Head(todo[t])[2]
  OBVIOUS
<1>6. what \in Chores /\ s \in Sessions /\ Tail(todo[t]) \in Seq(Chores \X Sessions)
  <2>1. todo[t] \in Seq(Chores \X Sessions)
    BY <1>3
  <2>2. Head(todo[t]) \in Chores \X Sessions /\ Tail(todo[t]) \in Seq(Chores \X Sessions)
    BY <1>2, <2>1, HeadTailProperties
  <2> QED BY <1>4, <1>5, <2>2
<1>7. \/ what \in {"container", "network"} /\ UNCHANGED <<client, folders>>
      \/ what = "client" /\ KillClient(s) /\ UNCHANGED folders
      \/ what = "clientAndFolder" /\ KillClient(s) /\ RemoveFolder(s)
      \/ what = "folderAndNetwork" /\ RemoveFolder(s) /\ UNCHANGED client
  BY <1>4, <1>5 DEF Work
<1>8. containers' \subseteq Names /\ networks' \subseteq Names
  <2>1. ASSUME RemoveOwnNetwork(s)
        PROVE  containers' \subseteq Names /\ networks' \subseteq Names
    BY <1>1, <2>1 DEF RemoveOwnNetwork, RemoveNetwork, TypeOK
  <2>2. ASSUME RemoveContainer(s)
        PROVE  containers' \subseteq Names /\ networks' \subseteq Names
    BY <1>1, <2>2 DEF RemoveContainer, TypeOK
  <2> QED BY <1>1, <1>4, <1>5, <2>1, <2>2 DEF Work, TypeOK
<1>9. /\ client' \in [Sessions -> {"none", "launched", "attached", "dead"}]
      /\ \A r \in Sessions : \/ client'[r] = client[r]
                             \/ client[r] # "none" /\ client'[r] = "dead"
      /\ what \in Killing => client'[s] \in {"none", "dead"}
  BY <1>1, <1>6, <1>7 DEF KillClient, TypeOK, Killing
<1>10. folders' \subseteq folders /\ (what \in Erasing => s \notin folders')
  BY <1>6, <1>7 DEF RemoveFolder, Erasing
<1>11. /\ todo' \in [Threads -> Seq(Chores \X Sessions)]
       /\ \A u \in Threads : todo[u] = <<>> => todo'[u] = <<>>
  BY <1>2, <1>3, <1>6
<1>12. TypeOK'
  BY <1>1, <1>2, <1>8, <1>9, <1>10, <1>11 DEF TypeOK, registry, cleanup
<1>13. ASSUME NEW C, NEW r, Pending(C, r), ~(s = r /\ what \in C)
       PROVE  Pending(C, r)'
  BY <1>2, <1>3, <1>4, <1>5, <1>13, PendingLess
<1>14. ASSUME NEW r \in Sessions
       PROVE  Fits(r)' /\ Owned(r)'
  <2>1. /\ todo[<<r, "own">>] = <<>> => todo'[<<r, "own">>] = <<>>
        /\ todo[<<r, "timeout">>] = <<>> => todo'[<<r, "timeout">>] = <<>>
    BY <1>11, ThreadNames
  <2>2. Fits(r)'
    BY <1>1, <1>2, <1>9, <1>10, <2>1 DEF Fits, registry
  <2>3. ASSUME r \notin Active
        PROVE  /\ Alive(r)' => Pending(Killing, r)'
               /\ r \in folders' => r \in waiting \/ Pending(Erasing, r)'
    <3>1. ASSUME Alive(r)'
          PROVE  Pending(Killing, r)'
      <4>1. Alive(r) /\ ~(s = r /\ what \in Killing)
        BY <1>9, <3>1 DEF Alive
      <4> QED BY <1>1, <1>13, <2>3, <4>1 DEF Owned
    <3>2. ASSUME r \in folders', r \notin waiting
          PROVE  Pending(Erasing, r)'
      <4>1. r \in folders /\ ~(s = r /\ what \in Erasing)
        BY <1>10, <3>2
      <4> QED BY <1>1, <1>13, <2>3, <3>2, <4>1 DEF Owned
    <3> QED BY <3>1, <3>2
  <2>4. Owned(r)'
    BY <1>2, <2>3 DEF Owned, registry, Active, Running
  <2> QED BY <2>2, <2>4
<1>15. ~shuttingDown' => todo'[<<Closer, "stop">>] = <<>>
  BY <1>2, <1>11 DEF IInv, registry, Threads
<1> QED BY <1>2, <1>12, <1>14, <1>15 DEF IInv, registry

-----------------------------------------------------------------------------
(* The theorems. *)

LEMMA InitHolds == Init => IInv
<1> SUFFICES ASSUME Init PROVE IInv
  OBVIOUS
<1>1. TypeOK
  <2>1. \A t \in Threads : todo[t] = <<>>
    BY DEF Init
  <2>2. todo \in [Threads -> Seq(Chores \X Sessions)]
    BY DEF Init
  <2>3. /\ phase \in [Starters -> Phases] /\ \A s \in Sessions : phase[s] = "idle"
        /\ seen \in [Starters -> SUBSET Sessions] /\ listed \in [Starters -> SUBSET Names]
        /\ client \in [Sessions -> {"none", "launched", "attached", "dead"}]
    BY DEF Init, Phases, Starters
  <2>4. /\ containers \subseteq Names /\ networks \subseteq Names
        /\ runs = {} /\ starting = {} /\ shuttingDown = FALSE /\ ended = {}
        /\ waiting = {} /\ armed = {} /\ preview = {} /\ folders = {}
    BY DEF Init, Names
  <2> QED BY <2>2, <2>3, <2>4 DEF TypeOK
<1>2. ASSUME NEW s \in Sessions
      PROVE  Fits(s) /\ Owned(s)
  <2>1. /\ phase[s] = "idle" /\ client[s] = "none"
        /\ todo[<<s, "own">>] = <<>> /\ todo[<<s, "timeout">>] = <<>>
    BY ThreadNames DEF Init, Starters
  <2> QED BY <2>1 DEF Init, Fits, Owned, Alive
<1>3. todo[<<Closer, "stop">>] = <<>>
  BY DEF Init, Threads
<1> QED BY <1>1, <1>2, <1>3 DEF IInv, Init

LEMMA NextKeeps == IInv /\ [Next]_vars => IInv'
<1> SUFFICES ASSUME IInv, [Next]_vars PROVE IInv'
  OBVIOUS
<1>1. ASSUME NEW s \in Sessions,
             \/ Reserves(s) \/ Start(s) \/ CreateContainer(s) \/ ProgramEnds(s)
             \/ RequestStop(s) \/ TimesOut(s) \/ Exits(s)
      PROVE  IInv'
  BY <1>1, ReservesKeeps, PrepareKeeps, LaunchKeeps, RegisterKeeps, DockerKeeps,
     RequestStopKeeps, TimesOutKeeps, ExitsKeeps DEF Start
<1>2. ASSUME NEW s \in Starters, CleanUp(s)
      PROVE  IInv'
  BY <1>2, CleanUpKeeps
<1>3. ASSUME NEW t \in Threads, Work(t)
      PROVE  IInv'
  BY <1>3, WorkKeeps
<1>4. CASE UNCHANGED vars
  <2>1. UNCHANGED <<registry, cleanup, threads, preview, outside>>
    BY <1>4 DEF vars
  <2>2. TypeOK'
    BY <2>1 DEF IInv, TypeOK, registry, cleanup, threads, outside
  <2>3. ASSUME NEW r \in Sessions
        PROVE  Same(r)
    BY <2>1, PendingSame DEF Same, registry, threads, outside, Active, Running
  <2> QED BY <2>1, <2>2, <2>3, SameKeeps DEF IInv, registry, threads
<1> QED BY <1>1, <1>2, <1>3, <1>4, BeginShutdownKeeps, SweptKeeps DEF Next

LEMMA Inductive == Spec => []IInv
BY InitHolds, NextKeeps, PTL DEF Spec

\* However starts, stops, timeouts, exits and a shutdown overlap, no docker process
\* and no work folder is left to a session without a slot, unless a thread is about
\* to end the one and to remove the other (start, stop, _wait_for_exit, shutdown).
THEOREM NothingIsLeftBehind == Spec => []SessionsAreSound
<1>1. IInv => SessionsAreSound
  BY DEF IInv, Owned, SessionsAreSound, NothingStray, Killing, Erasing
<1> QED BY <1>1, Inductive, PTL

\* A start that fails gives its slot back.
LEMMA AbandonGives ==
  ASSUME IInv, NEW s \in Sessions, NEW work, Abandon(s, work),
         phase[s] \in {"prepare", "launch", "register"},
         UNCHANGED <<runs, ended, shuttingDown>>
  PROVE  Pool!Give(s)
<1>1. s \in starting /\ s \notin runs
  BY DEF IInv, TypeOK, Fits
<1>2. Active' = Active \ {s}
  BY <1>1 DEF Abandon, Active, Running
<1> QED BY <1>1, <1>2 DEF Pool!Give, Active

\* The pool counts its slots as the runner does.
LEMMA PoolCounts == \A S : Pool!Cardinality(S) = Cardinality(S)
BY DEF Pool!Cardinality, Cardinality

\* What every step does to the slots.
LEMMA PoolStep == IInv /\ [Next]_vars => [Pool!Next]_<<Active, shuttingDown>>
<1> SUFFICES ASSUME IInv, [Next]_vars PROVE [Pool!Next]_<<Active, shuttingDown>>
  OBVIOUS
<1>1. TypeOK /\ \A s \in Sessions : Fits(s)
  BY DEF IInv
<1>2. ASSUME UNCHANGED registry
      PROVE  UNCHANGED <<Active, shuttingDown>>
  BY <1>2 DEF registry, Active, Running
<1>3. ASSUME NEW s \in Sessions, Reserves(s)
      PROVE  Pool!Take(s) \/ UNCHANGED <<Active, shuttingDown>>
  <2>1. runs' = runs \ ended /\ UNCHANGED <<ended, shuttingDown>> /\ (Reserve(s) \/ Refused(s))
    BY <1>3 DEF Reserves
  <2>2. s \notin Active
    BY <1>1, <1>3 DEF Reserves, At, Active, Running, TypeOK, Fits
  <2>3. CASE Refused(s) \/ UNCHANGED starting
    BY <2>1, <2>3 DEF Refused, Active, Running
  <2>4. CASE Reserve(s) /\ starting' = starting \cup {s}
    <3>1. CASE ~shuttingDown /\ Cardinality(Active) < MaxConcurrent
      <4>1. Active' = Active \cup {s}
        BY <2>1, <2>4 DEF Active, Running
      <4> QED BY <2>1, <2>2, <3>1, <4>1, PoolCounts DEF Pool!Take
    <3>2. CASE ~(~shuttingDown /\ Cardinality(Active) < MaxConcurrent)
      BY <2>3, <2>4, <3>2 DEF Reserve
    <3> QED BY <3>1, <3>2
  <2> QED BY <2>1, <2>3, <2>4 DEF Reserve, Takes
<1>4. ASSUME NEW s \in Sessions, Start(s)
      PROVE  Pool!Give(s) \/ UNCHANGED <<Active, shuttingDown>>
  <2>1. CASE Prepare(s)
    BY <1>2, <2>1, AbandonGives DEF Prepare, At, registry
  <2>2. CASE Launch(s)
    BY <1>2, <2>2, AbandonGives DEF Launch, At, registry
  <2>3. CASE Register(s)
    <3>1. CASE Registers(s)
      <4>1. s \in starting /\ s \notin ended
        BY <1>1, <2>3 DEF Register, At, TypeOK, Fits
      <4> QED BY <2>3, <3>1, <4>1 DEF Register, Registers, Active, Running
    <3>2. CASE Abandon(s, Failure) /\ UNCHANGED runs
      BY <2>3, <3>2, AbandonGives DEF Register, At
    <3> QED BY <2>3, <3>1, <3>2 DEF Register
  <2> QED BY <1>4, <2>1, <2>2, <2>3 DEF Start
<1>5. ASSUME NEW s \in Sessions, Exits(s)
      PROVE  Pool!Give(s) \/ UNCHANGED <<Active, shuttingDown>>
  <2>1. /\ s \notin ended /\ s \notin starting
        /\ ended' = ended \cup {s} /\ UNCHANGED <<runs, starting, shuttingDown>>
    BY <1>1, <1>5 DEF Exits, TypeOK, Fits
  <2>2. Active' = Active \ {s}
    BY <2>1 DEF Active, Running
  <2> QED BY <2>1, <2>2 DEF Pool!Give
<1>6. ASSUME NEW s \in Starters, CleanUp(s)
      PROVE  UNCHANGED <<Active, shuttingDown>>
  BY <1>1, <1>2, <1>6, CleanUpMoves
<1>7. CASE BeginShutdown
  <2>1. Active' \in SUBSET Active
    BY <1>7 DEF BeginShutdown, Active, Running
  <2> QED BY <1>7, <2>1 DEF BeginShutdown, Pool!Next, Pool!Close
<1>8. ASSUME NEW s \in Sessions,
             CreateContainer(s) \/ ProgramEnds(s) \/ RequestStop(s) \/ TimesOut(s)
      PROVE  UNCHANGED <<Active, shuttingDown>>
  BY <1>2, <1>8 DEF CreateContainer, ProgramEnds, RequestStop, TimesOut
<1>9. ASSUME NEW t \in Threads, Work(t)
      PROVE  UNCHANGED <<Active, shuttingDown>>
  BY <1>2, <1>9 DEF Work
<1>10. CASE Swept \/ UNCHANGED vars
  BY <1>2, <1>10 DEF Swept, vars
<1> QED BY <1>3, <1>4, <1>5, <1>6, <1>7, <1>8, <1>9, <1>10 DEF Next, Pool!Next

\* The slots are a pool: _reserve_start takes one that nobody has, a failed start
\* or an exit gives it back, and a shutdown closes the pool.
THEOREM SlotsAreAPool == Spec => PoolSpec
<1>1. Init => Pool!Init
  BY DEF Init, Pool!Init, Active, Running
<1> QED BY <1>1, PoolStep, Inductive, PTL DEF Spec, PoolSpec, Pool!Spec

\* Never more sessions than ATLAS_RUNNER_MAX_CONCURRENT are being started or run,
\* although the sessions that are being started are not in the registry yet.
THEOREM SlotsAreBounded == Spec => [](Cardinality(Active) <= MaxConcurrent)
<1> DEFINE SlotsKept == Cardinality(Active) <= MaxConcurrent
<1>1. /\ IInv => IsFiniteSet(Active)
      /\ IInv' => IsFiniteSet(Active')
  <2>1. /\ IInv => Active \subseteq Sessions
        /\ IInv' => Active' \subseteq Sessions
    BY DEF IInv, TypeOK, Active, Running
  <2> QED BY <2>1, RunnerAssumption, FS_Subset
<1>2. Init => SlotsKept
  BY RunnerAssumption, FS_EmptySet DEF Init, Active, Running
<1>3. ASSUME IInv, IInv', SlotsKept, [Pool!Next]_<<Active, shuttingDown>>
      PROVE  SlotsKept'
  <2>1. Cardinality(Active) \in Nat /\ Cardinality(Active') \in Nat /\ MaxConcurrent \in Nat
    BY <1>1, <1>3, FS_CardinalityType, RunnerAssumption
  <2>2. CASE Active' \in SUBSET Active
    BY <1>1, <1>3, <2>1, <2>2, FS_Subset
  <2>3. ASSUME NEW s \in Sessions, Pool!Take(s)
        PROVE  SlotsKept'
    <3>1. Active' = Active \cup {s} /\ s \notin Active /\ Cardinality(Active) < MaxConcurrent
      BY <2>3, PoolCounts DEF Pool!Take
    <3>2. Cardinality(Active') = Cardinality(Active) + 1
      BY <1>1, <1>3, <3>1, FS_AddElement
    <3> QED BY <2>1, <3>1, <3>2
  <2> QED BY <1>3, <2>2, <2>3 DEF Pool!Next, Pool!Give, Pool!Close
<1>4. IInv /\ IInv' /\ SlotsKept /\ [Next]_vars => SlotsKept'
  BY <1>3, PoolStep
<1> QED BY <1>2, <1>4, Inductive, PTL DEF Spec

-----------------------------------------------------------------------------
(* RunnerOutput: the inductive invariant. *)

OutEvents == [kind : {"output", "note", "exit"}, by : Emitters, size : Nat, n : Nat]
Letters   == OutEvents \X Streams
OutPcs    == {"ready", "announce", "put", "drop", "again", "kill", "done"}
Putting   == {"put", "drop", "again"}
Followers == [pc : OutPcs, to : Seq(Letters)]

Has(q, x) == \E i \in DOMAIN q : q[i] = x

OutputTyped ==
  /\ alive \in BOOLEAN /\ finished \in BOOLEAN /\ truncated \in BOOLEAN /\ joined \in BOOLEAN
  /\ bytes \in 0..MaxBytes
  /\ recorded \in Seq(OutEvents) /\ \A i \in DOMAIN recorded : recorded[i].n = i
  /\ subscribers \in Seq(Streams) /\ IsInjective(subscribers)
  /\ queue \in [Streams -> Seq(OutEvents)] /\ \A s \in Streams : Len(queue[s]) <= QueueSize
  /\ received \in [Streams -> Seq(OutEvents)]
  /\ thread \in [Emitters -> Followers]
  /\ stream \in [Streams -> {"closed", "live", "over", "exit", "gone"}]
  /\ overflown \subseteq Streams

\* x is the event that was recorded as its number says.
Known(x) == x.n \in DOMAIN recorded /\ recorded[x.n] = x

\* Thread e still has to put event x into the queue of s.
Owes(e, s, x) == Has(thread[e].to, <<x, s>>)

\* The session is finished by the thread that waits for its exit, which alone records
\* the exit event; if the pumps were done then, they are.
SessionFits ==
  /\ thread["wait"].pc = "ready" <=> ~finished
  /\ joined => finished /\ PumpsDone
  /\ finished => subscribers = <<>>
  /\ \A i \in DOMAIN recorded :
       recorded[i].kind = "exit" => recorded[i].by = "wait" /\ finished

\* A thread that puts events has some, which it recorded itself, each for a client that
\* has not got it yet.
ThreadFits(e) ==
  /\ thread[e].pc \in Putting <=> thread[e].to # <<>>
  /\ IsInjective(thread[e].to)
  /\ \A x \in OutEvents, s \in Streams : Owes(e, s, x) =>
       /\ Known(x) /\ x.by = e /\ stream[s] # "closed"
       /\ ~Has(queue[s], x) /\ ~Has(received[s], x)

\* What a client has got and what is in its queue was recorded and differs; those who
\* follow an unfinished session are its subscribers.
StreamFits(s) ==
  /\ IsInjective(received[s]) /\ IsInjective(queue[s])
  /\ \A x \in OutEvents : Has(received[s], x) => Known(x) /\ ~Has(queue[s], x)
  /\ \A x \in OutEvents : Has(queue[s], x) => Known(x)
  /\ stream[s] = "closed" => received[s] = <<>> /\ queue[s] = <<>>
  /\ Has(subscribers, s) => stream[s] = "live"
  /\ stream[s] = "live" /\ ~finished => Has(subscribers, s)
  /\ stream[s] = "exit" => finished

\* Behind the exit event no output comes.
ExitIsLast(s) ==
  joined => \A i, j \in DOMAIN queue[s] :
              i < j /\ queue[s][i].kind = "exit" => queue[s][j].by \notin Pumps

\* The output that s should have got is on its way, as long as nothing was dropped and
\* the pumps were not left behind.
Since(s, i) == received[s] = <<>> \/ i >= received[s][1].n
Underway(s, x) ==
  Has(received[s], x) \/ Has(queue[s], x) \/ \E e \in Emitters : Owes(e, s, x)
Complete(s) ==
  stream[s] = "live" /\ s \notin overflown /\ (finished => joined) =>
    \A i \in DOMAIN recorded :
      recorded[i].by \in Pumps /\ Since(s, i) => Underway(s, recorded[i])
Ended(s) ==
  stream[s] = "exit" /\ s \notin overflown /\ joined =>
    /\ received[s] # <<>>
    /\ \A i \in DOMAIN recorded :
         recorded[i].by \in Pumps /\ Since(s, i) => Has(received[s], recorded[i])

OutputInductive ==
  /\ OutputTyped /\ SessionFits
  /\ \A e \in Emitters : ThreadFits(e)
  /\ \A s \in Streams : StreamFits(s) /\ ExitIsLast(s) /\ Complete(s) /\ Ended(s)

-----------------------------------------------------------------------------
(* Sequences. *)

\* What is in a sequence to which one more was appended.
LEMMA Appended ==
  ASSUME NEW S, NEW q \in Seq(S), NEW x \in S
  PROVE  /\ Append(q, x) \in Seq(S) /\ Append(q, x) # <<>> /\ Len(Append(q, x)) = Len(q) + 1
         /\ \A y : Has(Append(q, x), y) <=> Has(q, y) \/ y = x
         /\ IsInjective(q) /\ ~Has(q, x) => IsInjective(Append(q, x))
         /\ Append(q, x)[1] = IF q = <<>> THEN x ELSE q[1]
         /\ \A i \in DOMAIN Append(q, x) :
              \/ i = Len(q) + 1 /\ Append(q, x)[i] = x
              \/ i \in DOMAIN q /\ Append(q, x)[i] = q[i]
<1>1. PICK a : a = Append(q, x)
  OBVIOUS
<1>2. a \in Seq(S) /\ Len(a) = Len(q) + 1 /\ DOMAIN a = 1..Len(a) /\ DOMAIN q = 1..Len(q)
  BY <1>1
<1>3. /\ a[Len(q) + 1] = x /\ Len(q) + 1 \in DOMAIN a
      /\ \A i \in DOMAIN q : i \in DOMAIN a /\ a[i] = q[i]
      /\ \A i \in DOMAIN a : i = Len(q) + 1 \/ i \in DOMAIN q
  BY <1>1, <1>2
<1>4. \A y : Has(a, y) <=> Has(q, y) \/ y = x
  BY <1>3 DEF Has
<1>5. IsInjective(q) /\ ~Has(q, x) => IsInjective(a)
  BY <1>3 DEF Has, IsInjective
<1>6. a[1] = IF q = <<>> THEN x ELSE q[1]
  BY <1>2, <1>3
<1> QED BY <1>1, <1>2, <1>3, <1>4, <1>5, <1>6

\* What is left of a sequence when its first element is taken.
LEMMA Taken ==
  ASSUME NEW S, NEW q \in Seq(S), q # <<>>
  PROVE  /\ Head(q) \in S /\ Tail(q) \in Seq(S) /\ Len(Tail(q)) = Len(q) - 1
         /\ 1 \in DOMAIN q /\ q[1] = Head(q)
         /\ \A y : Has(q, y) <=> y = Head(q) \/ Has(Tail(q), y)
         /\ IsInjective(q) => IsInjective(Tail(q)) /\ ~Has(Tail(q), Head(q))
         /\ \A i \in DOMAIN Tail(q) : i + 1 \in DOMAIN q /\ Tail(q)[i] = q[i + 1] /\ i + 1 > 1
<1>1. PICK a : a = Tail(q)
  OBVIOUS
<1>2. /\ a \in Seq(S) /\ Len(a) = Len(q) - 1 /\ Head(q) \in S /\ Head(q) = q[1]
      /\ DOMAIN a = 1..Len(a) /\ DOMAIN q = 1..Len(q) /\ 1 \in DOMAIN q
  BY <1>1
<1>3. /\ \A i \in DOMAIN a : i + 1 \in DOMAIN q /\ a[i] = q[i + 1] /\ i + 1 > 1 /\ i \in Nat
      /\ \A i \in DOMAIN q : i = 1 \/ (i - 1 \in DOMAIN a /\ a[i - 1] = q[i])
  BY <1>1, <1>2
<1>4. \A y : Has(q, y) <=> y = Head(q) \/ Has(a, y)
  BY <1>2, <1>3, SMTT(30) DEF Has
<1>5. IsInjective(q) => IsInjective(a) /\ ~Has(a, Head(q))
  <2> SUFFICES ASSUME \A i, j \in DOMAIN q : q[i] = q[j] => i = j
               PROVE  IsInjective(a) /\ ~Has(a, Head(q))
    BY DEF IsInjective
  <2>1. \A i, j \in DOMAIN a : a[i] = a[j] => i = j
    BY <1>3
  <2>2. \A i \in DOMAIN a : a[i] # q[1]
    BY <1>2, <1>3
  <2> QED BY <1>2, <2>1, <2>2 DEF Has, IsInjective
<1> QED BY <1>1, <1>2, <1>3, <1>4, <1>5

\* What is in two sequences, one behind the other.
LEMMA Joined ==
  ASSUME NEW S, NEW q \in Seq(S), NEW r \in Seq(S)
  PROVE  /\ q \o r \in Seq(S) /\ Len(q \o r) = Len(q) + Len(r)
         /\ \A i \in DOMAIN q : i \in DOMAIN (q \o r) /\ (q \o r)[i] = q[i]
         /\ \A i \in DOMAIN r : Len(q) + i \in DOMAIN (q \o r) /\ (q \o r)[Len(q) + i] = r[i]
         /\ \A i \in DOMAIN (q \o r) : i \in DOMAIN q \/ (i - Len(q) \in DOMAIN r /\ (q \o r)[i] = r[i - Len(q)])
         /\ \A y : Has(q \o r, y) <=> Has(q, y) \/ Has(r, y)
         /\ IsInjective(q) /\ IsInjective(r) /\ (\A y \in S : ~(Has(q, y) /\ Has(r, y))) => IsInjective(q \o r)
<1>1. PICK a : a = q \o r
  OBVIOUS
<1>2. /\ a \in Seq(S) /\ Len(a) = Len(q) + Len(r)
      /\ DOMAIN a = 1..Len(a) /\ DOMAIN q = 1..Len(q) /\ DOMAIN r = 1..Len(r)
  BY <1>1
<1>3. /\ \A i \in DOMAIN q : i \in DOMAIN a /\ a[i] = q[i]
      /\ \A i \in DOMAIN r : Len(q) + i \in DOMAIN a /\ a[Len(q) + i] = r[i]
      /\ \A i \in DOMAIN a : i \in DOMAIN q \/ (i - Len(q) \in DOMAIN r /\ a[i] = r[i - Len(q)])
  BY <1>1, <1>2
<1>4. \A y : Has(a, y) <=> Has(q, y) \/ Has(r, y)
  BY <1>3 DEF Has
<1>5. ASSUME IsInjective(q), IsInjective(r), \A y \in S : ~(Has(q, y) /\ Has(r, y))
      PROVE  IsInjective(a)
  <2>1. \A i \in DOMAIN q, j \in DOMAIN r : q[i] # r[j]
    BY <1>2, <1>5 DEF Has
  <2>2. ASSUME NEW i \in DOMAIN a, NEW j \in DOMAIN a, a[i] = a[j]
        PROVE  i = j
    <3>1. CASE i \in DOMAIN q /\ j \in DOMAIN q
      BY <1>3, <1>5, <2>2, <3>1 DEF IsInjective
    <3>2. CASE i \notin DOMAIN q /\ j \notin DOMAIN q
      <4>1. i - Len(q) = j - Len(q)
        BY <1>3, <1>5, <2>2, <3>2 DEF IsInjective
      <4> QED BY <1>2, <4>1
    <3>3. CASE i \in DOMAIN q /\ j \notin DOMAIN q
      BY <1>3, <2>1, <2>2, <3>3
    <3>4. CASE i \notin DOMAIN q /\ j \in DOMAIN q
      BY <1>3, <2>1, <2>2, <3>4
    <3> QED BY <3>1, <3>2, <3>3, <3>4
  <2> QED BY <2>2 DEF IsInjective
<1> QED BY <1>1, <1>2, <1>3, <1>4, <1>5

\* Flattening one or two sequences.
LEMMA Flattened ==
  ASSUME NEW S, NEW q \in Seq(Seq(S))
  PROVE  /\ Len(q) = 0 => FlattenSeq(q) = <<>>
         /\ Len(q) = 1 => FlattenSeq(q) = q[1]
         /\ Len(q) = 2 => FlattenSeq(q) = q[1] \o q[2]
<1>1. CASE Len(q) = 0
  BY <1>1 DEF FlattenSeq
<1> DEFINE Is(f) == f = [i \in 1..Len(q) |-> IF i = 1 THEN q[i] ELSE f[i - 1] \o q[i]]
           flat  == CHOOSE f : Is(f)
<1>2. Len(q) # 0 => FlattenSeq(q) = flat[Len(q)]
  BY DEF FlattenSeq
<1>3. CASE Len(q) = 1
  <2>1. Is([i \in 1..1 |-> q[1]])
    BY <1>3
  <2>2. Is(flat)
    BY <2>1
  <2> QED BY <1>2, <1>3, <2>2
<1>4. CASE Len(q) = 2
  <2> DEFINE both == q[1] \o q[2]
  <2> HIDE DEF both
  <2>1. PICK g : g = [i \in 1..2 |-> IF i = 1 THEN q[1] ELSE both]
    OBVIOUS
  <2>2. g[1] = q[1] /\ g[2] = both
    BY <2>1
  <2>3. \A i \in 1..Len(q) : g[i] = IF i = 1 THEN q[i] ELSE g[i - 1] \o q[i]
    <3>1. \A i \in 1..Len(q) : i = 1 \/ i = 2
      BY <1>4
    <3>2. g[2 - 1] = q[1]
      BY <2>2
    <3>3. g[2] = g[2 - 1] \o q[2]
      BY <2>2, <3>2, Zenon DEF both
    <3> QED BY <2>2, <3>1, <3>3
  <2>4. g = [i \in 1..Len(q) |-> IF i = 1 THEN q[i] ELSE g[i - 1] \o q[i]]
    BY <1>4, <2>1, <2>3
  <2>5. PICK f : f = flat
    OBVIOUS
  <2>6. Is(f)
    BY <2>4, <2>5
  <2> HIDE DEF flat
  <2>7. f[1] = q[1] /\ f[2] = f[1] \o q[2]
    BY <1>4, <2>6
  <2> QED BY <1>2, <1>4, <2>5, <2>7
<1> QED BY <1>1, <1>3, <1>4

\* The events of a record are due to each subscriber, each once.
LEMMA Delivered ==
  ASSUME NEW events \in Seq(OutEvents), Len(events) <= 2, IsInjective(events),
         NEW subs \in Seq(Streams), IsInjective(subs), NEW to, to = Deliveries(events, subs)
  PROVE  /\ to \in Seq(Letters) /\ IsInjective(to)
         /\ \A x \in OutEvents, s \in Streams : Has(to, <<x, s>>) <=> Has(events, x) /\ Has(subs, s)
<1> DEFINE Row(x) == [j \in DOMAIN subs |-> <<x, subs[j]>>]
<1>1. ASSUME NEW x \in OutEvents
      PROVE  /\ Row(x) \in Seq(Letters) /\ IsInjective(Row(x))
             /\ \A y \in OutEvents, s \in Streams : Has(Row(x), <<y, s>>) <=> y = x /\ Has(subs, s)
  <2>1. PICK row : row = Row(x)
    OBVIOUS
  <2>2. /\ DOMAIN row = 1..Len(subs) /\ Len(subs) \in Nat
        /\ \A j \in DOMAIN row : subs[j] \in Streams /\ row[j] = <<x, subs[j]>> /\ row[j] \in Letters
    BY <2>1 DEF Letters
  <2>3. row \in Seq(Letters)
    BY <2>1, <2>2
  <2>4. IsInjective(row)
    BY <2>2 DEF IsInjective
  <2>5. ASSUME NEW y \in OutEvents, NEW s \in Streams
        PROVE  Has(row, <<y, s>>) <=> y = x /\ Has(subs, s)
    <3>1. DOMAIN row = DOMAIN subs
      BY <2>2
    <3>2. \A j \in DOMAIN row : row[j] = <<y, s>> <=> y = x /\ subs[j] = s
      BY <2>2
    <3>3. \A j \in DOMAIN subs : <<x, subs[j]>> = row[j]
      BY <2>2, <3>1
    <3> QED BY <3>1, <3>2, Zenon DEF Has
  <2> QED BY <2>1, <2>3, <2>4, <2>5
<1> HIDE DEF Row
<1>2. PICK rows : rows = [i \in DOMAIN events |-> Row(events[i])]
  OBVIOUS
<1>3. /\ rows \in Seq(Seq(Letters)) /\ Len(rows) = Len(events) /\ DOMAIN events = 1..Len(events)
      /\ \A i \in DOMAIN events : rows[i] = Row(events[i]) /\ events[i] \in OutEvents
  <2>1. DOMAIN events = 1..Len(events) /\ Len(events) \in Nat
    OBVIOUS
  <2>2. \A i \in DOMAIN events : events[i] \in OutEvents /\ rows[i] = Row(events[i])
    BY <1>2
  <2>3. rows = [i \in 1..Len(events) |-> rows[i]] /\ \A i \in 1..Len(events) : rows[i] \in Seq(Letters)
    BY <1>1, <1>2, <2>1, <2>2
  <2>4. rows \in [1..Len(events) -> Seq(Letters)]
    BY <2>3
  <2> QED BY <2>1, <2>2, <2>4
<1>4. to = FlattenSeq(rows)
  <2>1. rows = [i \in DOMAIN events |-> [j \in DOMAIN subs |-> <<events[i], subs[j]>>]]
    BY <1>2 DEF Row
  <2> QED BY <2>1, Zenon DEF Deliveries
<1>8. /\ Len(rows) = 0 => to = <<>>
      /\ Len(rows) = 1 => to = rows[1]
      /\ Len(rows) = 2 => to = rows[1] \o rows[2]
  BY <1>3, <1>4, Flattened, Zenon
<1>5. CASE Len(events) = 0
  <2>3. Len(rows) = 0
    BY <1>3, <1>5
  <2>4. to = <<>>
    BY <1>8, <2>3, Zenon
  <2>5. <<>> \in Seq(Letters)
    OBVIOUS
  <2>1. to \in Seq(Letters)
    BY <2>4, <2>5, Zenon
  <2>2. DOMAIN to = {} /\ DOMAIN events = {}
    BY <1>3, <1>5, <2>4
  <2> QED BY <2>1, <2>2, Zenon DEF IsInjective, Has
<1>6. CASE Len(events) = 1
  <2>1. 1 \in DOMAIN events /\ \A i \in DOMAIN events : i = 1
    BY <1>3, <1>6
  <2>2. to = Row(events[1]) /\ events[1] \in OutEvents
    BY <1>3, <1>6, <1>8, <2>1
  <2>3. \A x : Has(events, x) <=> x = events[1]
    BY <2>1 DEF Has
  <2> QED BY <1>1, <2>2, <2>3
<1>7. CASE Len(events) = 2
  <2>1. /\ to = rows[1] \o rows[2] /\ rows[1] = Row(events[1]) /\ rows[2] = Row(events[2])
        /\ events[1] \in OutEvents /\ events[2] \in OutEvents /\ events[1] # events[2]
        /\ 1 \in DOMAIN events /\ 2 \in DOMAIN events /\ \A i \in DOMAIN events : i = 1 \/ i = 2
    <3>1. 1 \in DOMAIN events /\ 2 \in DOMAIN events /\ \A i \in DOMAIN events : i = 1 \/ i = 2
      BY <1>3, <1>7
    <3>2. events[1] # events[2]
      BY <3>1 DEF IsInjective
    <3> QED BY <1>3, <1>7, <1>8, <3>1, <3>2
  <2>2. \A z \in Letters : \E y \in OutEvents, s \in Streams : z = <<y, s>>
    BY DEF Letters
  <2>3. \A z \in Letters : ~(Has(rows[1], z) /\ Has(rows[2], z))
    BY <1>1, <2>1, <2>2
  <2>4. to \in Seq(Letters) /\ IsInjective(to)
    BY <1>1, <2>1, <2>3, Joined
  <2>5. ASSUME NEW x \in OutEvents, NEW s \in Streams
        PROVE  Has(to, <<x, s>>) <=> Has(events, x) /\ Has(subs, s)
    <3>1. Has(to, <<x, s>>) <=> Has(rows[1], <<x, s>>) \/ Has(rows[2], <<x, s>>)
      BY <1>1, <2>1, Joined
    <3>2. Has(events, x) <=> x = events[1] \/ x = events[2]
      BY <2>1 DEF Has
    <3> QED BY <1>1, <2>1, <3>1, <3>2
  <2> QED BY <2>4, <2>5
<1> QED BY <1>3, <1>5, <1>6, <1>7

-----------------------------------------------------------------------------
(* Initially, and steps that move no event. *)

LEMMA OutputInitHolds == OutputInit => OutputInductive
<1> SUFFICES ASSUME OutputInit PROVE OutputInductive
  OBVIOUS
<1>1. /\ recorded = <<>> /\ subscribers = <<>> /\ ~finished /\ ~joined
      /\ \A s \in Streams : queue[s] = <<>> /\ received[s] = <<>> /\ stream[s] = "closed"
      /\ "wait" \in Emitters
      /\ \A e \in Emitters : thread[e].pc = "ready" /\ thread[e].to = <<>>
  BY DEF OutputInit, Emitters, Thread
<1>2. \A x : ~Has(<<>>, x)
  BY DEF Has
<1>3. IsInjective(<<>>)
  BY DEF IsInjective
<1>4. OutputTyped
  <2>1. Thread("ready") \in Followers
    BY DEF Thread, Followers, OutPcs
  <2>2. /\ queue \in [Streams -> Seq(OutEvents)] /\ received \in [Streams -> Seq(OutEvents)]
        /\ \A s \in Streams : Len(queue[s]) = 0
    BY DEF OutputInit
  <2>3. /\ stream \in [Streams -> {"closed", "live", "over", "exit", "gone"}]
        /\ thread \in [Emitters -> Followers]
    BY <2>1 DEF OutputInit
  <2>4. /\ recorded \in Seq(OutEvents) /\ \A i \in DOMAIN recorded : recorded[i].n = i
        /\ subscribers \in Seq(Streams)
    BY <1>1
  <2>5. /\ alive \in BOOLEAN /\ finished \in BOOLEAN /\ truncated \in BOOLEAN /\ joined \in BOOLEAN
    BY Zenon DEF OutputInit
  <2>6. bytes \in 0..MaxBytes /\ overflown \subseteq Streams /\ QueueSize >= 0
    BY OutputAssumption DEF OutputInit
  <2> QED BY <1>1, <1>3, <2>2, <2>3, <2>4, <2>5, <2>6, OutputAssumption DEF OutputTyped
<1>5. SessionFits
  BY <1>1 DEF SessionFits
<1>6. \A e \in Emitters : ThreadFits(e)
  BY <1>1, <1>2, <1>3 DEF ThreadFits, Owes, Putting
<1>7. \A s \in Streams : StreamFits(s) /\ ExitIsLast(s) /\ Complete(s) /\ Ended(s)
  BY <1>1, <1>2, <1>3 DEF StreamFits, ExitIsLast, Complete, Ended
<1> QED BY <1>4, <1>5, <1>6, <1>7 DEF OutputInductive

\* What a thread has to do may change where it is, and nothing else.
LEMMA GoesThread ==
  ASSUME OutputTyped, NEW e \in Emitters, NEW pc \in OutPcs, Goes(e, pc)
  PROVE  /\ thread' \in [Emitters -> Followers]
         /\ thread'[e].pc = pc
         /\ \A f \in Emitters : thread'[f].to = thread[f].to /\ (f # e => thread'[f] = thread[f])
<1>1. PICK rec : rec = [thread[e] EXCEPT !.pc = pc]
  OBVIOUS
<1>2. thread' = [thread EXCEPT ![e] = rec]
  BY <1>1 DEF Goes
<1>3. thread[e] \in Followers /\ thread \in [Emitters -> Followers]
  BY DEF OutputTyped
<1>4. rec \in Followers /\ rec.pc = pc /\ rec.to = thread[e].to
  BY <1>1, <1>3 DEF Followers
<1> QED BY <1>2, <1>3, <1>4

\* A step that only moves a thread, which neither puts, nor begins to put, an event.
LEMMA GoesKeeps ==
  ASSUME OutputInductive, NEW e \in Emitters, NEW pc \in OutPcs, Goes(e, pc),
         pc \in Putting <=> thread[e].pc \in Putting,
         e = "wait" => (pc = "ready" <=> thread[e].pc = "ready"),
         e \in Pumps => (thread[e].pc = "done" => pc = "done"),
         alive' \in BOOLEAN, UNCHANGED <<finished, recorded, bytes, truncated, joined, clients, hub>>
  PROVE  OutputInductive'
<1>1. /\ thread' \in [Emitters -> Followers] /\ thread'[e].pc = pc
      /\ \A f \in Emitters : thread'[f].to = thread[f].to /\ (f # e => thread'[f] = thread[f])
  BY GoesThread DEF OutputInductive
<1>2. UNCHANGED <<subscribers, queue, overflown, stream, received>>
  BY DEF clients, hub
<1>3. OutputTyped'
  BY <1>1, <1>2 DEF OutputInductive, OutputTyped
<1>4. SessionFits'
  BY <1>1, <1>2 DEF OutputInductive, SessionFits, PumpsDone, Emitters
<1>5. ASSUME NEW f \in Emitters PROVE ThreadFits(f)'
  <2>1. ThreadFits(f) /\ thread'[f].to = thread[f].to
    BY <1>1 DEF OutputInductive
  <2>2. thread'[f].pc \in Putting <=> thread[f].pc \in Putting
    BY <1>1
  <2> QED BY <1>2, <2>1, <2>2 DEF ThreadFits, Owes, Known
<1>6. ASSUME NEW s \in Streams PROVE (StreamFits(s) /\ ExitIsLast(s) /\ Complete(s) /\ Ended(s))'
  <2>1. StreamFits(s) /\ ExitIsLast(s) /\ Complete(s) /\ Ended(s)
    BY DEF OutputInductive
  <2>2. \A x : Underway(s, x)' <=> Underway(s, x)
    BY <1>1, <1>2 DEF Underway, Owes
  <2>3. StreamFits(s)' /\ ExitIsLast(s)'
    BY <1>2, <2>1 DEF StreamFits, ExitIsLast, Known
  <2>4. Complete(s)' /\ Ended(s)'
    BY <1>2, <2>1, <2>2 DEF Complete, Ended, Since
  <2> QED BY <2>3, <2>4
<1> QED BY <1>3, <1>4, <1>5, <1>6 DEF OutputInductive

-----------------------------------------------------------------------------
(* Putting an event into a queue. *)

\* What a thread that puts events has to put next.
LEMMA NextLetter ==
  ASSUME OutputInductive, NEW e \in Emitters, thread[e].pc \in Putting
  PROVE  /\ thread[e].to \in Seq(Letters) /\ thread[e].to # <<>> /\ thread[e] \in Followers
         /\ What(e) \in OutEvents /\ Where(e) \in Streams
         /\ Head(thread[e].to) = <<What(e), Where(e)>>
         /\ Owes(e, Where(e), What(e)) /\ Known(What(e)) /\ What(e).by = e
         /\ stream[Where(e)] # "closed"
         /\ ~Has(queue[Where(e)], What(e)) /\ ~Has(received[Where(e)], What(e))
         /\ joined => e \notin Pumps
<1>1. thread[e] \in Followers /\ ThreadFits(e)
  BY DEF OutputInductive, OutputTyped
<1>2. thread[e].to \in Seq(Letters) /\ thread[e].to # <<>>
  BY <1>1 DEF Followers, ThreadFits
<1>3. Head(thread[e].to) \in Letters /\ Has(thread[e].to, Head(thread[e].to))
  BY <1>2, Taken
<1>4. /\ What(e) \in OutEvents /\ Where(e) \in Streams
      /\ Head(thread[e].to) = <<What(e), Where(e)>>
  BY <1>3 DEF What, Where, Letters
<1>5. Owes(e, Where(e), What(e))
  BY <1>3, <1>4 DEF Owes
<1>6. joined => e \notin Pumps
  BY DEF OutputInductive, SessionFits, PumpsDone, Putting
<1> QED BY <1>1, <1>2, <1>4, <1>5, <1>6 DEF ThreadFits

\* Having dealt with it, it goes on to the next.
LEMMA ServedThread ==
  ASSUME OutputInductive, NEW e \in Emitters, thread[e].pc \in Putting, Served(e)
  PROVE  /\ thread' \in [Emitters -> Followers]
         /\ \A f \in Emitters \ {e} : thread'[f] = thread[f]
         /\ thread'[e].pc \in Putting <=> thread'[e].to # <<>>
         /\ e = "wait" => thread'[e].pc # "ready"
         /\ IsInjective(thread'[e].to)
         /\ \A s \in Streams : \A y \in OutEvents :
              Owes(e, s, y) <=> Owes(e, s, y)' \/ (y = What(e) /\ s = Where(e))
         /\ \A s \in Streams : \A y \in OutEvents :
              y = What(e) /\ s = Where(e) => ~Owes(e, s, y)'
<1>1. PICK rest : rest = Tail(thread[e].to)
  OBVIOUS
<1>2. PICK rec : rec = IF rest = <<>> THEN Thread(AfterPut(e)) ELSE [pc |-> "put", to |-> rest]
  OBVIOUS
<1>3. thread' = [thread EXCEPT ![e] = rec]
  BY <1>1, <1>2 DEF Served
<1>4. /\ thread[e].to \in Seq(Letters) /\ thread[e].to # <<>>
      /\ Head(thread[e].to) = <<What(e), Where(e)>>
      /\ What(e) \in OutEvents /\ Where(e) \in Streams /\ IsInjective(thread[e].to)
  BY NextLetter DEF OutputInductive, ThreadFits
<1>5. /\ rest \in Seq(Letters)
      /\ \A z : Has(thread[e].to, z) <=> z = <<What(e), Where(e)>> \/ Has(rest, z)
      /\ IsInjective(rest) /\ ~Has(rest, <<What(e), Where(e)>>)
  <2>1. /\ rest \in Seq(Letters)
        /\ \A z : Has(thread[e].to, z) <=> z = Head(thread[e].to) \/ Has(rest, z)
        /\ IsInjective(rest) /\ ~Has(rest, Head(thread[e].to))
    BY <1>1, <1>4, Taken
  <2> QED BY <1>4, <2>1, Zenon
<1>6. AfterPut(e) \in {"ready", "kill", "done"} /\ (e = "wait" => AfterPut(e) = "done")
  BY OutputAssumption DEF AfterPut
<1>7. /\ rec \in Followers /\ rec.to = rest /\ (rec.pc \in Putting <=> rest # <<>>)
      /\ e = "wait" => rec.pc # "ready"
  BY <1>2, <1>5, <1>6 DEF Thread, Followers, OutPcs, Putting
<1>8. thread' \in [Emitters -> Followers] /\ thread'[e] = rec /\ \A f \in Emitters \ {e} : thread'[f] = thread[f]
  BY <1>3, <1>7 DEF OutputInductive, OutputTyped
<1>9. /\ \A s \in Streams : \A y \in OutEvents :
              Owes(e, s, y) <=> Owes(e, s, y)' \/ (y = What(e) /\ s = Where(e))
      /\ \A s \in Streams : \A y \in OutEvents :
              y = What(e) /\ s = Where(e) => ~Owes(e, s, y)'
  <2>1. \A s \in Streams : \A y \in OutEvents :
          <<y, s>> = <<What(e), Where(e)>> <=> y = What(e) /\ s = Where(e)
    OBVIOUS
  <2>2. thread'[e].to = rest
    BY <1>7, <1>8
  <2>3. ~Has(thread'[e].to, <<What(e), Where(e)>>)
    BY <1>5, <2>2, Zenon
  <2>4. \A s \in Streams : \A y \in OutEvents :
          Has(thread[e].to, <<y, s>>) <=> Has(thread'[e].to, <<y, s>>) \/ (y = What(e) /\ s = Where(e))
    BY <1>5, <2>1, <2>2, Zenon
  <2> QED BY <2>3, <2>4, Zenon DEF Owes
<1> QED BY <1>5, <1>7, <1>8, <1>9

\* The event is in the queue now, and is no longer due.
LEMMA EnqueueKeeps ==
  ASSUME OutputInductive, NEW e \in Emitters, thread[e].pc \in Putting, ~Full(e), Enqueue(e),
         Served(e), UNCHANGED <<session, clients, subscribers, overflown>>
  PROVE  OutputInductive'
<1>1. PICK x \in OutEvents, w \in Streams : x = What(e) /\ w = Where(e)
  BY NextLetter
<1>2. /\ Owes(e, w, x) /\ Known(x) /\ x.by = e /\ stream[w] # "closed"
      /\ ~Has(queue[w], x) /\ ~Has(received[w], x) /\ (joined => e \notin Pumps)
  BY <1>1, NextLetter
<1>3. /\ queue \in [Streams -> Seq(OutEvents)] /\ Len(queue[w]) < QueueSize
      /\ queue' = [queue EXCEPT ![w] = Append(queue[w], x)]
      /\ QueueSize \in Nat /\ \A s \in Streams : Len(queue[s]) <= QueueSize
  BY <1>1, OutputAssumption DEF Full, Enqueue, OutputInductive, OutputTyped
<1>4. PICK q : q = Append(queue[w], x)
  OBVIOUS
<1>5. /\ q \in Seq(OutEvents) /\ Len(q) = Len(queue[w]) + 1
      /\ \A y : Has(q, y) <=> Has(queue[w], y) \/ y = x
      /\ IsInjective(queue[w]) => IsInjective(q)
      /\ \A i \in DOMAIN q : \/ i = Len(queue[w]) + 1 /\ q[i] = x
                             \/ i \in DOMAIN queue[w] /\ q[i] = queue[w][i]
  BY <1>2, <1>3, <1>4, Appended
<1>6. queue' = [queue EXCEPT ![w] = q]
  BY <1>3, <1>4
<1>7. queue'[w] = q /\ \A s \in Streams \ {w} : queue'[s] = queue[s]
  BY <1>3, <1>6
<1>8. \A s \in Streams : \A y \in OutEvents : Has(queue'[s], y) <=> Has(queue[s], y) \/ (s = w /\ y = x)
  BY <1>5, <1>7
<1>9. /\ thread' \in [Emitters -> Followers]
      /\ \A f \in Emitters \ {e} : thread'[f] = thread[f]
      /\ thread'[e].pc \in Putting <=> thread'[e].to # <<>>
      /\ e = "wait" => thread'[e].pc # "ready"
      /\ IsInjective(thread'[e].to)
      /\ \A s \in Streams : \A y \in OutEvents :
           Owes(e, s, y) <=> Owes(e, s, y)' \/ (y = x /\ s = w)
      /\ ~Owes(e, w, x)'
  BY <1>1, ServedThread
<1>10. UNCHANGED <<alive, finished, recorded, bytes, truncated, joined, stream, received,
                   subscribers, overflown>>
  BY DEF session, clients
<1>11. OutputTyped'
  <2>1. queue' \in [Streams -> Seq(OutEvents)] /\ \A s \in Streams : Len(queue'[s]) <= QueueSize
    BY <1>3, <1>5, <1>6, <1>7
  <2> QED BY <1>9, <1>10, <2>1 DEF OutputInductive, OutputTyped
<1>12. SessionFits'
  BY <1>2, <1>9, <1>10 DEF OutputInductive, SessionFits, PumpsDone, Emitters, Putting
<1>13. ASSUME NEW f \in Emitters PROVE ThreadFits(f)'
  <2>1. ASSUME NEW y \in OutEvents, NEW s \in Streams, Owes(f, s, y)'
        PROVE  Owes(f, s, y) /\ ~Has(queue'[s], y)
    <3>1. Owes(f, s, y)
      BY <1>9, <2>1 DEF Owes
    <3>2. y.by = f /\ ~Has(queue[s], y)
      BY <3>1 DEF OutputInductive, ThreadFits
    <3>3. f = e => ~(y = x /\ s = w)
      BY <1>9, <2>1
    <3> QED BY <1>2, <1>8, <3>1, <3>2, <3>3
  <2>2. ThreadFits(f)
    BY DEF OutputInductive
  <2>3. IsInjective(thread'[f].to) /\ (thread'[f].pc \in Putting <=> thread'[f].to # <<>>)
    BY <1>9, <2>2 DEF ThreadFits
  <2> QED BY <1>10, <2>1, <2>2, <2>3 DEF ThreadFits, Known
<1>14. ASSUME NEW s \in Streams
       PROVE  (StreamFits(s) /\ ExitIsLast(s) /\ Complete(s) /\ Ended(s))'
  <2>1. StreamFits(s) /\ ExitIsLast(s) /\ Complete(s) /\ Ended(s)
    BY DEF OutputInductive
  <2>2. StreamFits(s)'
    <3>1. IsInjective(queue'[s])
      BY <1>5, <1>7, <2>1 DEF StreamFits
    <3>2. stream[s] = "closed" => queue'[s] = queue[s]
      BY <1>2, <1>7
    <3> QED BY <1>2, <1>8, <1>10, <2>1, <3>1, <3>2 DEF StreamFits, Known
  <2>3. ExitIsLast(s)'
    <3>1. CASE s = w
      <4> SUFFICES ASSUME joined, NEW i \in DOMAIN q, NEW j \in DOMAIN q, i < j, q[i].kind = "exit"
                   PROVE  q[j].by \notin Pumps
        BY <1>7, <1>10, <3>1 DEF ExitIsLast
      <4>1. i \in DOMAIN queue[w] /\ q[i] = queue[w][i]
        BY <1>3, <1>5
      <4> QED BY <1>2, <1>5, <2>1, <3>1, <4>1 DEF ExitIsLast
    <3>2. CASE s # w
      BY <1>7, <1>10, <2>1, <3>2 DEF ExitIsLast
    <3> QED BY <3>1, <3>2
  <2>4. ASSUME NEW y \in OutEvents, Underway(s, y) PROVE Underway(s, y)'
    <3>1. CASE Has(received[s], y) \/ Has(queue[s], y)
      BY <1>8, <1>10, <3>1 DEF Underway
    <3>2. ASSUME NEW f \in Emitters, Owes(f, s, y)
          PROVE  Underway(s, y)'
      <4>1. CASE f = e
        BY <1>8, <1>9, <3>2, <4>1 DEF Underway
      <4>2. CASE f # e
        BY <1>9, <3>2, <4>2 DEF Underway, Owes
      <4> QED BY <4>1, <4>2
    <3> QED BY <2>4, <3>1, <3>2 DEF Underway
  <2>5. \A i \in DOMAIN recorded : recorded[i] \in OutEvents
    BY DEF OutputInductive, OutputTyped
  <2>6. Complete(s)' /\ Ended(s)'
    BY <1>10, <2>1, <2>4, <2>5 DEF Complete, Ended, Since
  <2> QED BY <2>2, <2>3, <2>6
<1> QED BY <1>11, <1>12, <1>13, <1>14 DEF OutputInductive

\* The event is lost, and its stream known to have lost one.
LEMMA LoseKeeps ==
  ASSUME OutputInductive, NEW e \in Emitters, thread[e].pc \in Putting, Served(e),
         overflown' = overflown \cup {Where(e)}, UNCHANGED <<session, clients, subscribers, queue>>
  PROVE  OutputInductive'
<1>1. PICK x \in OutEvents, w \in Streams : x = What(e) /\ w = Where(e)
  BY NextLetter
<1>2. /\ thread' \in [Emitters -> Followers]
      /\ \A f \in Emitters \ {e} : thread'[f] = thread[f]
      /\ thread'[e].pc \in Putting <=> thread'[e].to # <<>>
      /\ e = "wait" => thread'[e].pc # "ready"
      /\ IsInjective(thread'[e].to)
      /\ \A s \in Streams : \A y \in OutEvents :
           Owes(e, s, y) <=> Owes(e, s, y)' \/ (y = x /\ s = w)
  BY <1>1, ServedThread
<1>3. UNCHANGED <<alive, finished, recorded, bytes, truncated, joined, stream, received,
                  subscribers, queue>>
  BY DEF session, clients
<1>4. overflown' = overflown \cup {w} /\ (joined => e \notin Pumps)
  BY <1>1, NextLetter
<1>5. OutputTyped'
  BY <1>2, <1>3, <1>4 DEF OutputInductive, OutputTyped
<1>6. SessionFits'
  BY <1>2, <1>3, <1>4 DEF OutputInductive, SessionFits, PumpsDone, Emitters, Putting
<1>7. ASSUME NEW f \in Emitters PROVE ThreadFits(f)'
  <2>1. \A s \in Streams : \A y \in OutEvents : Owes(f, s, y)' => Owes(f, s, y)
    BY <1>2 DEF Owes
  <2>2. ThreadFits(f)
    BY DEF OutputInductive
  <2>3. IsInjective(thread'[f].to) /\ (thread'[f].pc \in Putting <=> thread'[f].to # <<>>)
    BY <1>2, <2>2 DEF ThreadFits
  <2> QED BY <1>3, <2>1, <2>2, <2>3 DEF ThreadFits, Known
<1>8. ASSUME NEW s \in Streams
      PROVE  (StreamFits(s) /\ ExitIsLast(s) /\ Complete(s) /\ Ended(s))'
  <2>1. StreamFits(s) /\ ExitIsLast(s) /\ Complete(s) /\ Ended(s)
    BY DEF OutputInductive
  <2>2. StreamFits(s)' /\ ExitIsLast(s)'
    BY <1>3, <2>1 DEF StreamFits, ExitIsLast, Known
  <2>3. CASE s = w
    BY <1>4, <2>2, <2>3 DEF Complete, Ended
  <2>4. CASE s # w
    <3>1. ASSUME NEW y \in OutEvents, Underway(s, y) PROVE Underway(s, y)'
      <4>1. CASE Has(received[s], y) \/ Has(queue[s], y)
        BY <1>3, <4>1 DEF Underway
      <4>2. ASSUME NEW f \in Emitters, Owes(f, s, y)
            PROVE  Owes(f, s, y)'
        BY <1>2, <2>4, <4>2 DEF Owes
      <4> QED BY <3>1, <4>1, <4>2 DEF Underway
    <3>2. \A i \in DOMAIN recorded : recorded[i] \in OutEvents
      BY DEF OutputInductive, OutputTyped
    <3>3. Complete(s)' /\ Ended(s)'
      BY <1>3, <1>4, <2>1, <2>4, <3>1, <3>2 DEF Complete, Ended, Since
    <3> QED BY <2>2, <3>3
  <2> QED BY <2>2, <2>3, <2>4
<1> QED BY <1>5, <1>6, <1>7, <1>8 DEF OutputInductive

\* The oldest event of the queue makes room.
LEMMA DropKeeps ==
  ASSUME OutputInductive, NEW e \in Emitters, DropOldest(e)
  PROVE  OutputInductive'
<1>1. thread[e].pc = "drop" /\ thread[e].pc \in Putting /\ Goes(e, "again")
  BY DEF DropOldest, Putting
<1>2. "again" \in OutPcs /\ "again" \in Putting
  BY DEF OutPcs, Putting
<1>3. PICK w \in Streams : w = Where(e)
  BY <1>1, NextLetter
<1>4. UNCHANGED <<alive, finished, recorded, bytes, truncated, joined, stream, received,
                  subscribers>>
  BY DEF DropOldest, session, clients
<1>5. CASE UNCHANGED <<queue, overflown>>
  <2>1. UNCHANGED clients /\ UNCHANGED hub /\ alive' \in BOOLEAN
    BY <1>4, <1>5 DEF clients, hub, OutputInductive, OutputTyped
  <2> QED BY <1>1, <1>2, <1>4, <2>1, GoesKeeps
<1>6. CASE /\ queue[w] # <<>> /\ queue' = [queue EXCEPT ![w] = Tail(queue[w])]
           /\ overflown' = overflown \cup {w}
  <2>1. PICK q : q = Tail(queue[w])
    OBVIOUS
  <2>2. queue \in [Streams -> Seq(OutEvents)] /\ \A s \in Streams : Len(queue[s]) <= QueueSize
    BY DEF OutputInductive, OutputTyped
  <2>3. /\ q \in Seq(OutEvents) /\ Len(q) = Len(queue[w]) - 1
        /\ \A y : Has(q, y) => Has(queue[w], y)
        /\ IsInjective(queue[w]) => IsInjective(q)
        /\ \A i \in DOMAIN q : i + 1 \in DOMAIN queue[w] /\ q[i] = queue[w][i + 1]
    BY <1>6, <2>1, <2>2, Taken
  <2>4. queue' = [queue EXCEPT ![w] = q]
    BY <1>6, <2>1
  <2>5. queue'[w] = q /\ \A s \in Streams \ {w} : queue'[s] = queue[s]
    BY <2>2, <2>4
  <2>6. \A s \in Streams : \A y : Has(queue'[s], y) => Has(queue[s], y)
    BY <2>3, <2>5
  <2>7. /\ thread' \in [Emitters -> Followers] /\ thread'[e].pc = "again"
        /\ \A f \in Emitters : thread'[f].to = thread[f].to /\ (f # e => thread'[f] = thread[f])
    BY <1>1, <1>2, GoesThread DEF OutputInductive
  <2>8. OutputTyped'
    <3>1. queue' \in [Streams -> Seq(OutEvents)] /\ \A s \in Streams : Len(queue'[s]) <= QueueSize
      BY <2>2, <2>3, <2>4, <2>5, OutputAssumption
    <3> QED BY <1>4, <1>6, <2>7, <3>1 DEF OutputInductive, OutputTyped
  <2>9. SessionFits'
    BY <1>1, <1>4, <2>7 DEF OutputInductive, SessionFits, PumpsDone, Emitters
  <2>10. ASSUME NEW f \in Emitters PROVE ThreadFits(f)'
    <3>1. ThreadFits(f) /\ thread'[f].to = thread[f].to
      BY <2>7 DEF OutputInductive
    <3>2. thread'[f].pc \in Putting <=> thread[f].pc \in Putting
      BY <1>1, <1>2, <2>7
    <3> QED BY <1>4, <2>6, <3>1, <3>2 DEF ThreadFits, Owes, Known
  <2>11. ASSUME NEW s \in Streams
         PROVE  (StreamFits(s) /\ ExitIsLast(s) /\ Complete(s) /\ Ended(s))'
    <3>1. StreamFits(s) /\ ExitIsLast(s) /\ Complete(s) /\ Ended(s)
      BY DEF OutputInductive
    <3>2. CASE s # w
      <4>1. queue'[s] = queue[s] /\ (s \in overflown' <=> s \in overflown)
        BY <1>6, <2>5, <3>2
      <4>2. \A x : Underway(s, x)' <=> Underway(s, x)
        BY <1>4, <2>7, <4>1 DEF Underway, Owes
      <4>3. StreamFits(s)' /\ ExitIsLast(s)'
        BY <1>4, <3>1, <4>1 DEF StreamFits, ExitIsLast, Known
      <4>4. Complete(s)' /\ Ended(s)'
        BY <1>4, <3>1, <4>1, <4>2 DEF Complete, Ended, Since
      <4> QED BY <4>3, <4>4
    <3>3. CASE s = w
      <4>1. StreamFits(s)'
        BY <1>4, <1>6, <2>3, <2>5, <2>6, <3>1, <3>3 DEF StreamFits, Known
      <4>2. ExitIsLast(s)'
        <5> SUFFICES ASSUME joined, NEW i \in DOMAIN q, NEW j \in DOMAIN q, i < j, q[i].kind = "exit"
                     PROVE  q[j].by \notin Pumps
          BY <1>4, <2>5, <3>3 DEF ExitIsLast
        <5>1. i + 1 \in DOMAIN queue[w] /\ j + 1 \in DOMAIN queue[w] /\ i + 1 < j + 1
          BY <2>3
        <5> QED BY <2>3, <3>1, <3>3, <5>1 DEF ExitIsLast
      <4>3. Complete(s)' /\ Ended(s)'
        BY <1>6, <3>3 DEF Complete, Ended
      <4> QED BY <4>1, <4>2, <4>3
    <3> QED BY <3>2, <3>3
  <2> QED BY <2>8, <2>9, <2>10, <2>11 DEF OutputInductive
<1> QED BY <1>3, <1>5, <1>6 DEF DropOldest

\* The three steps of put_bounded_queue.
LEMMA PuttingKeeps ==
  ASSUME OutputInductive, NEW e \in Emitters, Put(e) \/ DropOldest(e) \/ PutAgain(e)
  PROVE  OutputInductive'
<1>1. CASE Put(e)
  <2>1. thread[e].pc \in Putting /\ "drop" \in OutPcs /\ "drop" \in Putting
    BY <1>1 DEF Put, Putting, OutPcs
  <2>2. CASE Goes(e, "drop") /\ UNCHANGED queue
    <3>1. alive' \in BOOLEAN /\ UNCHANGED <<finished, recorded, bytes, truncated, joined>>
          /\ UNCHANGED clients /\ UNCHANGED hub
      BY <1>1, <2>2 DEF Put, session, hub, OutputInductive, OutputTyped
    <3>2. thread[e].pc = "put"
      BY <1>1 DEF Put
    <3> QED BY <2>1, <2>2, <3>1, <3>2, GoesKeeps
  <2>3. CASE ~Full(e) /\ Enqueue(e) /\ Served(e)
    BY <1>1, <2>1, <2>3, EnqueueKeeps DEF Put
  <2> QED BY <1>1, <2>2, <2>3 DEF Put
<1>2. CASE DropOldest(e)
  BY <1>2, DropKeeps
<1>3. CASE PutAgain(e)
  <2>1. thread[e].pc \in Putting
    BY <1>3 DEF PutAgain, Putting
  <2>2. CASE ~Full(e)
    BY <1>3, <2>1, <2>2, EnqueueKeeps DEF PutAgain
  <2>3. CASE Full(e)
    BY <1>3, <2>1, <2>3, LoseKeeps DEF PutAgain
  <2> QED BY <2>2, <2>3
<1> QED BY <1>1, <1>2, <1>3

-----------------------------------------------------------------------------
(* Recording events. *)

\* A thread that records events has them to put.
LEMMA RecordThread ==
  ASSUME OutputInductive, NEW e \in Emitters, NEW events \in Seq(OutEvents), Len(events) <= 2,
         IsInjective(events), Record(e, events)
  PROVE  /\ thread' \in [Emitters -> Followers]
         /\ \A f \in Emitters \ {e} : thread'[f] = thread[f]
         /\ thread'[e].pc \in Putting <=> thread'[e].to # <<>>
         /\ e = "wait" => thread'[e].pc # "ready"
         /\ IsInjective(thread'[e].to)
         /\ \A s \in Streams : \A y \in OutEvents :
              Owes(e, s, y)' <=> Has(events, y) /\ Has(subscribers, s)
<1>1. PICK to : to = Deliveries(events, subscribers)
  OBVIOUS
<1>2. PICK rec : rec = IF to = <<>> THEN Thread(AfterPut(e)) ELSE [pc |-> "put", to |-> to]
  OBVIOUS
<1>3. thread' = [thread EXCEPT ![e] = rec]
  BY <1>1, <1>2 DEF Record
<1>4. subscribers \in Seq(Streams) /\ IsInjective(subscribers) /\ thread \in [Emitters -> Followers]
  BY DEF OutputInductive, OutputTyped
<1>5. /\ to \in Seq(Letters) /\ IsInjective(to)
      /\ \A x \in OutEvents, s \in Streams : Has(to, <<x, s>>) <=> Has(events, x) /\ Has(subscribers, s)
  BY <1>1, <1>4, Delivered
<1>6. AfterPut(e) \in {"ready", "kill", "done"} /\ (e = "wait" => AfterPut(e) = "done")
  BY OutputAssumption DEF AfterPut
<1>7. /\ rec \in Followers /\ rec.to = to /\ (rec.pc \in Putting <=> to # <<>>)
      /\ e = "wait" => rec.pc # "ready"
  BY <1>2, <1>5, <1>6 DEF Thread, Followers, OutPcs, Putting
<1>8. /\ thread' \in [Emitters -> Followers] /\ thread'[e] = rec
      /\ \A f \in Emitters \ {e} : thread'[f] = thread[f]
  BY <1>3, <1>4, <1>7
<1>9. thread'[e].to = to
  BY <1>7, <1>8
<1> QED BY <1>5, <1>7, <1>8, <1>9, Zenon DEF Owes

\* What is recorded is on its way to those who subscribe; the exit event ends that.
LEMMA RecordKeeps ==
  ASSUME OutputInductive, NEW e \in Emitters, thread[e].pc \in {"ready", "announce"},
         NEW events \in Seq(OutEvents), Len(events) <= 2,
         \A i \in DOMAIN events : events[i].n = Len(recorded) + i /\ events[i].by = e,
         Record(e, events), bytes' \in 0..MaxBytes, truncated' \in BOOLEAN,
         UNCHANGED <<alive, queue, overflown, clients>>,
         \/ /\ e # "wait" /\ UNCHANGED <<finished, joined, subscribers>>
            /\ \A i \in DOMAIN events : events[i].kind # "exit"
         \/ e = "wait" /\ ~finished /\ finished' /\ joined' = PumpsDone /\ subscribers' = <<>>
  PROVE  OutputInductive'
<1>1. /\ recorded \in Seq(OutEvents) /\ \A i \in DOMAIN recorded : recorded[i].n = i
      /\ DOMAIN recorded = 1..Len(recorded) /\ DOMAIN events = 1..Len(events) /\ Len(recorded) \in Nat
  BY DEF OutputInductive, OutputTyped
<1>2. recorded' = recorded \o events
  BY DEF Record
<1>3. /\ recorded' \in Seq(OutEvents)
      /\ \A i \in DOMAIN recorded : i \in DOMAIN recorded' /\ recorded'[i] = recorded[i]
      /\ \A i \in DOMAIN events : Len(recorded) + i \in DOMAIN recorded' /\ recorded'[Len(recorded) + i] = events[i]
      /\ \A i \in DOMAIN recorded' :
           i \in DOMAIN recorded \/ (i - Len(recorded) \in DOMAIN events /\ recorded'[i] = events[i - Len(recorded)])
  BY <1>1, <1>2, Joined, SMTT(60)
<1>4. IsInjective(events)
  <2> SUFFICES ASSUME NEW i \in DOMAIN events, NEW j \in DOMAIN events, events[i] = events[j]
               PROVE  i = j
    BY DEF IsInjective
  <2>1. Len(recorded) + i = Len(recorded) + j
    OBVIOUS
  <2> QED BY <1>1, <2>1
<1>5. /\ thread' \in [Emitters -> Followers]
      /\ \A f \in Emitters \ {e} : thread'[f] = thread[f]
      /\ thread'[e].pc \in Putting <=> thread'[e].to # <<>>
      /\ e = "wait" => thread'[e].pc # "ready"
      /\ IsInjective(thread'[e].to)
      /\ \A s \in Streams : \A y \in OutEvents :
           Owes(e, s, y)' <=> Has(events, y) /\ Has(subscribers, s)
  BY <1>4, RecordThread
<1>6. UNCHANGED <<stream, received>>
  BY DEF clients
<1>7. \A y \in OutEvents : Has(events, y) => ~Known(y) /\ Known(y)' /\ y.by = e
  <2> SUFFICES ASSUME NEW i \in DOMAIN events
               PROVE  ~Known(events[i]) /\ Known(events[i])'
    BY DEF Has
  <2> QED BY <1>1, <1>3 DEF Known
<1>8. \A y \in OutEvents : Known(y) => Known(y)'
  BY <1>3 DEF Known
<1>9. ~(thread[e].pc \in Putting) /\ thread[e].to = <<>>
  BY DEF OutputInductive, ThreadFits, Putting
<1>10. joined => e \notin Pumps
  BY DEF OutputInductive, SessionFits, PumpsDone
<1>11. OutputTyped'
  <2>1. \A i \in DOMAIN recorded' : recorded'[i].n = i
    <3> SUFFICES ASSUME NEW i \in DOMAIN recorded' PROVE recorded'[i].n = i
      OBVIOUS
    <3>1. i \in Nat
      BY <1>3
    <3>2. CASE i - Len(recorded) \in DOMAIN events /\ recorded'[i] = events[i - Len(recorded)]
      BY <1>1, <3>1, <3>2
    <3> QED BY <1>1, <1>3, <3>2
  <2>2. finished' \in BOOLEAN /\ joined' \in BOOLEAN
    BY DEF OutputInductive, OutputTyped, PumpsDone
  <2>3. subscribers' \in Seq(Streams) /\ IsInjective(subscribers')
    <3>1. IsInjective(<<>>) /\ <<>> \in Seq(Streams)
      BY DEF IsInjective
    <3> QED BY <3>1 DEF OutputInductive, OutputTyped
  <2> QED BY <1>3, <1>5, <1>6, <2>1, <2>2, <2>3 DEF OutputInductive, OutputTyped
<1>12. SessionFits'
  <2>1. SessionFits /\ "wait" \in Emitters /\ "wait" \notin Pumps /\ Pumps \subseteq Emitters
    BY OutputAssumption DEF OutputInductive, Emitters
  <2>2. thread'["wait"].pc = "ready" <=> ~finished'
    BY <1>5, <2>1 DEF SessionFits
  <2>3. joined' => finished' /\ PumpsDone'
    BY <1>5, <1>10, <2>1 DEF SessionFits, PumpsDone
  <2>4. finished' => subscribers' = <<>>
    BY <2>1 DEF SessionFits
  <2>5. \A i \in DOMAIN recorded' : recorded'[i].kind = "exit" => recorded'[i].by = "wait" /\ finished'
    BY <1>3, <2>1 DEF SessionFits
  <2> QED BY <2>2, <2>3, <2>4, <2>5 DEF SessionFits
<1>13. ASSUME NEW f \in Emitters PROVE ThreadFits(f)'
  <2>1. ThreadFits(f) /\ \A s \in Streams : StreamFits(s)
    BY DEF OutputInductive
  <2>2. CASE f = e
    <3>1. ASSUME NEW y \in OutEvents, NEW s \in Streams, Owes(e, s, y)'
          PROVE  /\ Known(y)' /\ y.by = e /\ stream[s] # "closed"
                 /\ ~Has(queue[s], y) /\ ~Has(received[s], y)
      <4>1. Has(events, y) /\ Has(subscribers, s)
        BY <1>5, <3>1
      <4> QED BY <1>7, <2>1, <4>1 DEF StreamFits
    <3> QED BY <1>5, <1>6, <2>2, <3>1 DEF ThreadFits
  <2>3. CASE f # e
    <3>1. thread'[f] = thread[f]
      BY <1>5, <2>3
    <3> QED BY <1>6, <1>8, <2>1, <3>1 DEF ThreadFits, Owes
  <2> QED BY <2>2, <2>3
<1>14. ASSUME NEW s \in Streams
       PROVE  (StreamFits(s) /\ ExitIsLast(s) /\ Complete(s) /\ Ended(s))'
  <2>1. StreamFits(s) /\ ExitIsLast(s) /\ Complete(s) /\ Ended(s) /\ SessionFits
    BY DEF OutputInductive
  <2>2. StreamFits(s)'
    <3>1. ~Has(<<>>, s)
      BY DEF Has
    <3> QED BY <1>6, <1>8, <2>1, <3>1 DEF StreamFits
  <2>3. ExitIsLast(s)'
    <3>1. CASE joined
      BY <2>1, <3>1 DEF ExitIsLast
    <3>2. CASE ~finished
      <4>1. \A i \in DOMAIN queue[s] : queue[s][i] \in OutEvents /\ Has(queue[s], queue[s][i])
        BY DEF OutputInductive, OutputTyped, Has
      <4>2. \A i \in DOMAIN queue[s] : queue[s][i].kind # "exit"
        BY <2>1, <3>2, <4>1 DEF StreamFits, Known, SessionFits
      <4> QED BY <4>2 DEF ExitIsLast
    <3>3. joined' => joined \/ ~finished
      OBVIOUS
    <3> QED BY <3>1, <3>2, <3>3 DEF ExitIsLast
  <2>4. ASSUME NEW y \in OutEvents, Underway(s, y) PROVE Underway(s, y)'
    <3>1. CASE Has(received[s], y) \/ Has(queue[s], y)
      BY <1>6, <3>1 DEF Underway
    <3>2. ASSUME NEW f \in Emitters, Owes(f, s, y) PROVE Owes(f, s, y)'
      <4>1. f # e
        BY <1>9, <3>2 DEF Owes, Has
      <4> QED BY <1>5, <3>2, <4>1 DEF Owes
    <3> QED BY <2>4, <3>1, <3>2 DEF Underway
  <2>5. \A i \in DOMAIN recorded : recorded[i] \in OutEvents
    BY <1>1
  <2>6. Complete(s)'
    <3> SUFFICES ASSUME stream[s] = "live", s \notin overflown, finished' => joined',
                        NEW i \in DOMAIN recorded', NEW y, y = recorded'[i], y.by \in Pumps, Since(s, i)
                 PROVE  Underway(s, y)'
      BY <1>6 DEF Complete, Since
    <3>1. CASE i \in DOMAIN recorded
      <4>1. y = recorded[i] /\ (finished => joined)
        BY <1>3, <3>1
      <4> QED BY <2>1, <2>4, <2>5, <3>1, <4>1 DEF Complete
    <3>2. CASE i \notin DOMAIN recorded
      <4>1. PICK j \in DOMAIN events : y = events[j]
        BY <1>3, <3>2
      <4>2. e \in Pumps /\ e # "wait" /\ ~joined /\ ~finished
        BY <1>10, <4>1, OutputAssumption
      <4>3. Has(subscribers, s) /\ Has(events, y) /\ y \in OutEvents
        BY <2>1, <4>1, <4>2 DEF StreamFits, Has
      <4>4. Owes(e, s, y)'
        BY <1>5, <4>3
      <4> QED BY <4>4 DEF Underway
    <3> QED BY <3>1, <3>2
  <2>7. Ended(s)'
    <3> SUFFICES ASSUME stream[s] = "exit", s \notin overflown, joined'
                 PROVE  /\ received[s] # <<>>
                        /\ \A i \in DOMAIN recorded' :
                             recorded'[i].by \in Pumps /\ Since(s, i) => Has(received[s], recorded'[i])
      BY <1>6 DEF Ended, Since
    <3>1. joined /\ e \notin Pumps
      BY <1>10, <2>1 DEF StreamFits
    <3> QED BY <1>3, <2>1, <3>1 DEF Ended
  <2> QED BY <2>2, <2>3, <2>6, <2>7
<1> QED BY <1>11, <1>12, <1>13, <1>14 DEF OutputInductive

\* What a pump records of a chunk: its own events, numbered on, and a note only at
\* the end and only when the budget was passed for the first time.
FromChunk(p, size, events) ==
  /\ events \in Seq(OutEvents) /\ Len(events) <= 2
  /\ \A i \in DOMAIN events :
       events[i].n = Len(recorded) + i /\ events[i].by = p /\ events[i].kind # "exit"
  /\ \A i \in DOMAIN events :
       events[i].kind = "note" => i = Len(events) /\ size > Left /\ ~truncated

\* A chunk gives at most an output event and a note, numbered from the end of the record.
LEMMA BoundedEvents ==
  ASSUME OutputTyped, NEW p \in Pumps, NEW size \in Nat, NEW events, events = Bounded(p, size)
  PROVE  FromChunk(p, size, events)
<1>1. Left \in Nat /\ Len(recorded) \in Nat /\ p \in Emitters
  BY OutputAssumption DEF OutputTyped, Left, Emitters
<1>2. PICK kept : kept = IF size <= Left THEN size ELSE Left
  OBVIOUS
<1>3. PICK part : part = IF kept > 0 THEN <<Event("output", p, kept, Len(recorded) + 1)>> ELSE <<>>
  OBVIOUS
<1>4. PICK note : note = IF size > Left /\ ~truncated
                           THEN <<Event("note", p, 0, Len(recorded) + Len(part) + 1)>> ELSE <<>>
  OBVIOUS
<1>5. events = part \o note
  BY <1>2, <1>3, <1>4 DEF Bounded
<1>6. \A n \in Nat, k \in Nat :
        /\ Event("output", p, k, n) \in OutEvents /\ Event("note", p, k, n) \in OutEvents
        /\ Event("output", p, k, n).n = n /\ Event("output", p, k, n).by = p
        /\ Event("note", p, k, n).n = n /\ Event("note", p, k, n).by = p
        /\ Event("output", p, k, n).kind = "output" /\ Event("note", p, k, n).kind = "note"
  BY <1>1 DEF Event, OutEvents
<1>7. kept \in Nat
  BY <1>1, <1>2
<1> HIDE DEF Event, OutEvents
<1>8. /\ part \in Seq(OutEvents) /\ Len(part) \in 0..1
      /\ \A i \in DOMAIN part :
           part[i].n = Len(recorded) + i /\ part[i].by = p /\ part[i].kind = "output"
  <2>1. CASE kept > 0
    <3>1. PICK x : x = Event("output", p, kept, Len(recorded) + 1)
      OBVIOUS
    <3>2. x \in OutEvents /\ x.n = Len(recorded) + 1 /\ x.by = p /\ x.kind = "output"
      BY <1>1, <1>6, <1>7, <3>1
    <3>3. part = <<x>>
      BY <1>3, <2>1, <3>1
    <3> QED BY <3>2, <3>3
  <2>2. CASE ~(kept > 0)
    BY <1>3, <2>2
  <2> QED BY <2>1, <2>2
<1>9. /\ note \in Seq(OutEvents) /\ Len(note) \in 0..1
      /\ \A i \in DOMAIN note :
           /\ note[i].n = Len(recorded) + Len(part) + i /\ note[i].by = p /\ note[i].kind = "note"
           /\ size > Left /\ ~truncated
  <2>1. CASE size > Left /\ ~truncated
    <3>1. PICK x : x = Event("note", p, 0, Len(recorded) + Len(part) + 1)
      OBVIOUS
    <3>2. x \in OutEvents /\ x.n = Len(recorded) + Len(part) + 1 /\ x.by = p /\ x.kind = "note"
      BY <1>1, <1>6, <1>8, <3>1
    <3>3. note = <<x>>
      BY <1>4, <2>1, <3>1
    <3> QED BY <2>1, <3>2, <3>3
  <2>2. CASE ~(size > Left /\ ~truncated)
    BY <1>4, <2>2
  <2> QED BY <2>1, <2>2
<1>10. /\ events \in Seq(OutEvents) /\ Len(events) <= 2 /\ Len(events) = Len(part) + Len(note)
       /\ \A i \in DOMAIN events :
            \/ i \in DOMAIN part /\ events[i] = part[i]
            \/ i - Len(part) \in DOMAIN note /\ events[i] = note[i - Len(part)]
  <2>1. part \in Seq(OutEvents) /\ note \in Seq(OutEvents)
    BY <1>8, <1>9
  <2>2. /\ events \in Seq(OutEvents) /\ Len(events) = Len(part) + Len(note)
        /\ \A i \in DOMAIN part : events[i] = part[i]
        /\ \A i \in DOMAIN events :
             \/ i \in DOMAIN part
             \/ i - Len(part) \in DOMAIN note /\ events[i] = note[i - Len(part)]
    BY <1>5, <2>1, Joined
  <2>3. Len(events) <= 2
    BY <1>8, <1>9, <2>2
  <2> QED BY <2>2, <2>3
<1>11. \A i \in DOMAIN events : i \in Nat
  BY <1>10
<1>12. \A i \in DOMAIN events :
         events[i].n = Len(recorded) + i /\ events[i].by = p /\ events[i].kind # "exit"
  BY <1>1, <1>8, <1>9, <1>10, <1>11
<1>13. ASSUME NEW i \in DOMAIN events, events[i].kind = "note"
       PROVE  i = Len(events) /\ size > Left /\ ~truncated
  <2>1. i - Len(part) \in DOMAIN note
    BY <1>8, <1>10, <1>13
  <2>2. i - Len(part) = 1 /\ Len(note) = 1
    BY <1>9, <2>1
  <2> QED BY <1>8, <1>9, <1>10, <1>11, <2>1, <2>2
<1> QED BY <1>10, <1>12, <1>13 DEF FromChunk

LEMMA PumpKeeps ==
  ASSUME OutputInductive, NEW p \in Pumps, Pump(p)
  PROVE  OutputInductive'
<1>1. PICK size \in Chunks :
        /\ Record(p, Bounded(p, size))
        /\ bytes' = IF size <= Left THEN bytes + size ELSE MaxBytes
        /\ truncated' = (truncated \/ size > Left)
  BY DEF Pump
<1>2. PICK events : events = Bounded(p, size)
  OBVIOUS
<1>3. OutputTyped /\ size \in Nat /\ p \in Emitters /\ p # "wait"
  BY OutputAssumption DEF OutputInductive, Emitters
<1>4. /\ events \in Seq(OutEvents) /\ Len(events) <= 2
      /\ \A i \in DOMAIN events :
           events[i].n = Len(recorded) + i /\ events[i].by = p /\ events[i].kind # "exit"
  <2>1. OutputTyped /\ p \in Pumps /\ size \in Nat
    BY <1>3
  <2>2. FromChunk(p, size, events)
    BY <1>2, <2>1, BoundedEvents
  <2> QED BY <2>2 DEF FromChunk
<1>5. bytes' \in 0..MaxBytes
  BY <1>1, <1>3, OutputAssumption DEF OutputTyped, Left
<1>6. truncated' \in BOOLEAN
  BY <1>1, <1>3, Zenon DEF OutputTyped
<1>7. /\ thread[p].pc \in {"ready", "announce"}
      /\ UNCHANGED <<alive, queue, overflown, clients>> /\ UNCHANGED <<finished, joined, subscribers>>
  BY DEF Pump, hub
<1>8. Record(p, events)
  BY <1>1, <1>2
<1> QED BY <1>3, <1>4, <1>5, <1>6, <1>7, <1>8, RecordKeeps

LEMMA AnnounceKeeps ==
  ASSUME OutputInductive, NEW k \in Killers, Announces(k)
  PROVE  OutputInductive'
<1>1. PICK x : x = Event("note", k, 0, Len(recorded) + 1)
  OBVIOUS
<1>2. PICK events : events = <<x>>
  OBVIOUS
<1>3. OutputTyped /\ k \in Emitters /\ k # "wait"
  BY OutputAssumption DEF OutputInductive, Emitters
<1>4. x \in OutEvents /\ x.n = Len(recorded) + 1 /\ x.by = k /\ x.kind = "note"
  BY <1>1, <1>3 DEF Event, OutEvents, OutputTyped
<1>5. /\ events \in Seq(OutEvents) /\ Len(events) <= 2
      /\ \A i \in DOMAIN events :
           events[i].n = Len(recorded) + i /\ events[i].by = k /\ events[i].kind # "exit"
  BY <1>2, <1>4
<1>6. Record(k, events) /\ bytes' \in 0..MaxBytes /\ truncated' \in BOOLEAN
  BY <1>1, <1>2, <1>3 DEF Announces, OutputTyped
<1>7. /\ thread[k].pc \in {"ready", "announce"}
      /\ UNCHANGED <<alive, queue, overflown, clients>> /\ UNCHANGED <<finished, joined, subscribers>>
  BY DEF Announces, hub
<1> QED BY <1>3, <1>5, <1>6, <1>7, RecordKeeps

LEMMA WaitKeeps ==
  ASSUME OutputInductive, WaitForExit
  PROVE  OutputInductive'
<1>1. PICK x : x = Exit(Len(recorded) + 1)
  OBVIOUS
<1>2. PICK events : events = <<x>>
  OBVIOUS
<1>3. OutputTyped /\ SessionFits /\ "wait" \in Emitters
  BY DEF OutputInductive, Emitters
<1>4. x \in OutEvents /\ x.n = Len(recorded) + 1 /\ x.by = "wait"
  BY <1>1, <1>3 DEF Exit, Event, OutEvents, OutputTyped
<1>5. /\ events \in Seq(OutEvents) /\ Len(events) <= 2
      /\ \A i \in DOMAIN events : events[i].n = Len(recorded) + i /\ events[i].by = "wait"
  BY <1>2, <1>4
<1>6. Record("wait", events) /\ bytes' \in 0..MaxBytes /\ truncated' \in BOOLEAN
  BY <1>1, <1>2, <1>3 DEF WaitForExit, Finishes, OutputTyped
<1>7. /\ thread["wait"].pc \in {"ready", "announce"} /\ ~finished
      /\ finished' /\ joined' = PumpsDone /\ subscribers' = <<>>
      /\ UNCHANGED <<alive, queue, overflown, clients>>
  BY <1>3 DEF WaitForExit, Finishes, SessionFits
<1> QED BY <1>3, <1>5, <1>6, <1>7, RecordKeeps

-----------------------------------------------------------------------------
(* Clients. *)

\* A part of a sequence.
LEMMA PartOf ==
  ASSUME NEW S, NEW q \in Seq(S), NEW m \in 1..Len(q) + 1, NEW n \in 0..Len(q), m <= n + 1
  PROVE  /\ SubSeq(q, m, n) \in Seq(S) /\ Len(SubSeq(q, m, n)) = n - m + 1
         /\ \A i \in 1..(n - m + 1) : SubSeq(q, m, n)[i] = q[m + i - 1]
         /\ \A y : Has(SubSeq(q, m, n), y) <=> \E i \in m..n : q[i] = y
         /\ IsInjective(q) => IsInjective(SubSeq(q, m, n))
<1>1. PICK a : a = SubSeq(q, m, n)
  OBVIOUS
<1>2. /\ a \in Seq(S) /\ Len(a) = n - m + 1 /\ DOMAIN a = 1..(n - m + 1) /\ DOMAIN q = 1..Len(q)
      /\ \A i \in 1..(n - m + 1) : a[i] = q[m + i - 1] /\ m + i - 1 \in m..n
  BY <1>1
<1>3. \A i \in m..n : i - m + 1 \in 1..(n - m + 1) /\ a[i - m + 1] = q[i]
  <2> SUFFICES ASSUME NEW i \in m..n
               PROVE  i - m + 1 \in 1..(n - m + 1) /\ a[i - m + 1] = q[i]
    OBVIOUS
  <2>1. i - m + 1 \in 1..(n - m + 1) /\ m + (i - m + 1) - 1 = i
    OBVIOUS
  <2>2. a[i - m + 1] = q[m + (i - m + 1) - 1]
    BY <1>2, <2>1
  <2> QED BY <2>1, <2>2
<1>4. \A y : Has(a, y) <=> \E i \in m..n : q[i] = y
  BY <1>2, <1>3 DEF Has
<1>5. ASSUME IsInjective(q) PROVE IsInjective(a)
  <2> SUFFICES ASSUME NEW i \in 1..(n - m + 1), NEW j \in 1..(n - m + 1), a[i] = a[j]
               PROVE  i = j
    BY <1>2 DEF IsInjective
  <2>1. m + i - 1 \in DOMAIN q /\ m + j - 1 \in DOMAIN q /\ q[m + i - 1] = q[m + j - 1]
    BY <1>2
  <2>2. m + i - 1 = m + j - 1
    BY <1>5, <2>1 DEF IsInjective
  <2> QED BY <2>2
<1> QED BY <1>1, <1>2, <1>4, <1>5

\* A sequence without the element that is removed.
LEMMA RemovedAt ==
  ASSUME NEW S, NEW q \in Seq(S), IsInjective(q), NEW i \in DOMAIN q
  PROVE  /\ RemoveAt(q, i) \in Seq(S) /\ IsInjective(RemoveAt(q, i))
         /\ \A y : Has(RemoveAt(q, i), y) <=> Has(q, y) /\ y # q[i]
<1>1. i \in 1..Len(q) /\ DOMAIN q = 1..Len(q)
  OBVIOUS
<1>2. PICK a : a = SubSeq(q, 1, i - 1)
  OBVIOUS
<1>3. PICK b : b = SubSeq(q, i + 1, Len(q))
  OBVIOUS
<1>4. /\ a \in Seq(S) /\ IsInjective(a)
      /\ \A y : Has(a, y) <=> \E j \in 1..(i - 1) : q[j] = y
  <2>1. 1 \in 1..Len(q) + 1 /\ i - 1 \in 0..Len(q) /\ 1 <= i - 1 + 1
    BY <1>1
  <2> QED BY <1>2, <2>1, PartOf
<1>5. /\ b \in Seq(S) /\ IsInjective(b)
      /\ \A y : Has(b, y) <=> \E j \in (i + 1)..Len(q) : q[j] = y
  <2>1. i + 1 \in 1..Len(q) + 1 /\ Len(q) \in 0..Len(q) /\ i + 1 <= Len(q) + 1
    BY <1>1
  <2> QED BY <1>3, <2>1, PartOf
<1>6. \A j \in 1..(i - 1), k \in (i + 1)..Len(q) : q[j] # q[k]
  BY <1>1 DEF IsInjective
<1>7. \A y \in S : ~(Has(a, y) /\ Has(b, y))
  BY <1>4, <1>5, <1>6
<1>8. /\ a \o b \in Seq(S) /\ IsInjective(a \o b)
      /\ \A y : Has(a \o b, y) <=> Has(a, y) \/ Has(b, y)
  BY <1>4, <1>5, <1>7, Joined
<1>9. \A y : Has(q, y) /\ y # q[i] <=> Has(a, y) \/ Has(b, y)
  <2>1. \A j \in 1..Len(q) : j \in 1..(i - 1) \/ j = i \/ j \in (i + 1)..Len(q)
    BY <1>1
  <2>2. \A j \in 1..(i - 1) : j \in DOMAIN q /\ q[j] # q[i]
    BY <1>1 DEF IsInjective
  <2>3. \A j \in (i + 1)..Len(q) : j \in DOMAIN q /\ q[j] # q[i]
    BY <1>1 DEF IsInjective
  <2> QED BY <1>1, <1>4, <1>5, <2>1, <2>2, <2>3 DEF Has
<1>10. RemoveAt(q, i) = a \o b
  BY <1>2, <1>3 DEF RemoveAt
<1> QED BY <1>8, <1>9, <1>10

\* Who leaves is no subscriber any more, and the others still are.
LEMMA LeavesHub ==
  ASSUME OutputInductive, NEW s \in Streams,
         NEW how \in {"closed", "live", "over", "exit", "gone"}, Leaves(s, how)
  PROVE  /\ stream' \in [Streams -> {"closed", "live", "over", "exit", "gone"}]
         /\ stream'[s] = how /\ \A r \in Streams \ {s} : stream'[r] = stream[r]
         /\ subscribers' \in Seq(Streams) /\ IsInjective(subscribers')
         /\ \A r : Has(subscribers', r) <=> Has(subscribers, r) /\ r # s
         /\ finished => subscribers' = <<>>
<1>1. /\ subscribers \in Seq(Streams) /\ IsInjective(subscribers)
      /\ stream \in [Streams -> {"closed", "live", "over", "exit", "gone"}]
      /\ finished => subscribers = <<>>
  BY DEF OutputInductive, OutputTyped, SessionFits
<1>2. /\ stream' \in [Streams -> {"closed", "live", "over", "exit", "gone"}]
      /\ stream'[s] = how /\ \A r \in Streams \ {s} : stream'[r] = stream[r]
  BY <1>1 DEF Leaves
<1>3. CASE s \in ToSet(subscribers)
  <2>1. PICK i \in DOMAIN subscribers : subscribers[i] = s /\ subscribers' = RemoveAt(subscribers, i)
    BY <1>3 DEF Leaves
  <2>2. ~finished
    BY <1>1, <2>1
  <2> QED BY <1>1, <1>2, <2>1, <2>2, RemovedAt
<1>4. CASE s \notin ToSet(subscribers)
  <2>1. subscribers' = subscribers /\ ~Has(subscribers, s)
    BY <1>4 DEF Leaves, ToSet, Has
  <2> QED BY <1>1, <1>2, <2>1
<1> QED BY <1>3, <1>4

\* A client that follows gets the history, and what comes behind it.
LEMMA SubscribeKeeps ==
  ASSUME OutputInductive, NEW s \in Streams, Subscribe(s)
  PROVE  OutputInductive'
<1>1. /\ UNCHANGED <<alive, finished, recorded, bytes, truncated, joined, queue, overflown, thread>>
      /\ stream[s] = "closed" /\ received' = [received EXCEPT ![s] = History]
  BY DEF Subscribe, session
<1>2. PICK h : h = History
  OBVIOUS
<1>3. PICK start : start = IF Len(recorded) > HistoryLimit THEN Len(recorded) - HistoryLimit + 1 ELSE 1
  OBVIOUS
<1>4. /\ recorded \in Seq(OutEvents) /\ \A i \in DOMAIN recorded : recorded[i].n = i
      /\ DOMAIN recorded = 1..Len(recorded) /\ IsInjective(recorded)
      /\ received \in [Streams -> Seq(OutEvents)]
      /\ subscribers \in Seq(Streams) /\ IsInjective(subscribers)
      /\ stream \in [Streams -> {"closed", "live", "over", "exit", "gone"}]
  <2>1. /\ recorded \in Seq(OutEvents) /\ \A i \in DOMAIN recorded : recorded[i].n = i
        /\ received \in [Streams -> Seq(OutEvents)]
        /\ subscribers \in Seq(Streams) /\ IsInjective(subscribers)
        /\ stream \in [Streams -> {"closed", "live", "over", "exit", "gone"}]
    BY DEF OutputInductive, OutputTyped
  <2>2. IsInjective(recorded)
    BY <2>1 DEF IsInjective
  <2> QED BY <2>1, <2>2
<1>5. /\ h \in Seq(OutEvents) /\ IsInjective(h) /\ start \in Nat
      /\ \A y : Has(h, y) <=> \E i \in start..Len(recorded) : recorded[i] = y
      /\ start \in 1..Len(recorded) + 1
      /\ h # <<>> => h[1].n = start
      /\ h = <<>> => DOMAIN recorded = {}
  <2>1. /\ start \in 1..Len(recorded) + 1 /\ Len(recorded) \in 0..Len(recorded)
        /\ start <= Len(recorded) + 1 /\ (start = Len(recorded) + 1 => Len(recorded) = 0)
    BY <1>3, <1>4, OutputAssumption
  <2>2. h = SubSeq(recorded, start, Len(recorded))
    BY <1>2, <1>3 DEF History
  <2>3. /\ h \in Seq(OutEvents) /\ Len(h) = Len(recorded) - start + 1 /\ IsInjective(h)
        /\ \A i \in 1..(Len(recorded) - start + 1) : h[i] = recorded[start + i - 1]
        /\ \A y : Has(h, y) <=> \E i \in start..Len(recorded) : recorded[i] = y
    <3>4. /\ recorded \in Seq(OutEvents) /\ start \in 1..Len(recorded) + 1
          /\ Len(recorded) \in 0..Len(recorded) /\ start <= Len(recorded) + 1
      BY <1>4, <2>1
    <3>1. PICK part : part = SubSeq(recorded, start, Len(recorded))
      OBVIOUS
    <3>2. /\ part \in Seq(OutEvents) /\ Len(part) = Len(recorded) - start + 1
          /\ IsInjective(recorded) => IsInjective(part)
          /\ \A i \in 1..(Len(recorded) - start + 1) : part[i] = recorded[start + i - 1]
          /\ \A y : Has(part, y) <=> \E i \in start..Len(recorded) : recorded[i] = y
      BY <3>1, <3>4, PartOf
    <3>3. h = part
      BY <2>2, <3>1, Zenon
    <3> QED BY <1>4, <3>2, <3>3
  <2>4. ASSUME h # <<>> PROVE h[1].n = start
    <3>1. 1 \in 1..(Len(recorded) - start + 1) /\ start + 1 - 1 = start
      BY <2>1, <2>3, <2>4
    <3>2. h[1] = recorded[start + 1 - 1]
      BY <2>3, <3>1
    <3>3. h[1] = recorded[start] /\ start \in DOMAIN recorded
      BY <1>4, <2>1, <3>1, <3>2
    <3> QED BY <1>4, <3>3
  <2>5. h = <<>> => DOMAIN recorded = {}
    BY <1>4, <2>1, <2>3
  <2> QED BY <2>1, <2>3, <2>4, <2>5
<1>6. /\ received' \in [Streams -> Seq(OutEvents)] /\ received'[s] = h
      /\ \A r \in Streams \ {s} : received'[r] = received[r]
  BY <1>1, <1>2, <1>4, <1>5
<1>7. StreamFits(s) /\ queue[s] = <<>> /\ received[s] = <<>> /\ ~Has(subscribers, s)
  BY <1>1 DEF OutputInductive, StreamFits
<1>8. PICK how \in {"live", "over"} : stream' = [stream EXCEPT ![s] = how] /\ (how = "live" <=> ~finished)
  BY <1>1 DEF Subscribe
<1>9. /\ stream' \in [Streams -> {"closed", "live", "over", "exit", "gone"}] /\ stream'[s] = how
      /\ \A r \in Streams \ {s} : stream'[r] = stream[r]
  BY <1>4, <1>8
<1>10. /\ subscribers' \in Seq(Streams) /\ IsInjective(subscribers')
       /\ \A r : Has(subscribers', r) <=> Has(subscribers, r) \/ (r = s /\ how = "live")
       /\ finished => subscribers' = subscribers
  <2>1. CASE finished
    BY <1>1, <1>4, <1>8, <2>1 DEF Subscribe
  <2>2. CASE ~finished
    <3>1. subscribers' = Append(subscribers, s)
      BY <2>2 DEF Subscribe
    <3> QED BY <1>4, <1>7, <1>8, <2>2, <3>1, Appended
  <2> QED BY <2>1, <2>2
<1>11. OutputTyped'
  BY <1>1, <1>6, <1>9, <1>10 DEF OutputInductive, OutputTyped
<1>12. SessionFits'
  BY <1>1, <1>10 DEF OutputInductive, SessionFits, PumpsDone
<1>13. ASSUME NEW f \in Emitters PROVE ThreadFits(f)'
  <2>1. ThreadFits(f)
    BY DEF OutputInductive
  <2>2. \A r \in Streams : \A y \in OutEvents : Owes(f, r, y) => r # s
    BY <1>1, <2>1 DEF ThreadFits
  <2> QED BY <1>1, <1>6, <1>9, <2>1, <2>2 DEF ThreadFits, Owes, Known
<1>14. ASSUME NEW r \in Streams
       PROVE  (StreamFits(r) /\ ExitIsLast(r) /\ Complete(r) /\ Ended(r))'
  <2>1. StreamFits(r) /\ ExitIsLast(r) /\ Complete(r) /\ Ended(r)
    BY DEF OutputInductive
  <2>2. ExitIsLast(r)'
    BY <1>1, <2>1 DEF ExitIsLast
  <2>3. CASE r # s
    <3>1. stream'[r] = stream[r] /\ received'[r] = received[r] /\ queue'[r] = queue[r]
      BY <1>1, <1>6, <1>9, <2>3
    <3>2. \A y : Underway(r, y)' <=> Underway(r, y)
      BY <1>1, <3>1 DEF Underway, Owes
    <3>3. StreamFits(r)'
      BY <1>1, <1>10, <2>1, <2>3, <3>1 DEF StreamFits, Known
    <3>4. Complete(r)' /\ Ended(r)'
      BY <1>1, <2>1, <3>1, <3>2 DEF Complete, Ended, Since
    <3> QED BY <2>2, <3>3, <3>4
  <2>4. CASE r = s
    <3>1. \A y : ~Has(queue[s], y)
      BY <1>7 DEF Has
    <3>2. ASSUME NEW y \in OutEvents, Has(h, y) PROVE Known(y)
      <4>1. PICK i \in start..Len(recorded) : recorded[i] = y
        BY <1>5, <3>2
      <4>2. i \in DOMAIN recorded
        BY <1>4, <1>5, <4>1
      <4> QED BY <1>4, <4>1, <4>2 DEF Known
    <3>3. StreamFits(s)'
      BY <1>1, <1>5, <1>6, <1>7, <1>8, <1>9, <1>10, <3>1, <3>2 DEF StreamFits, Known
    <3>4. ASSUME NEW i \in DOMAIN recorded, h = <<>> \/ i >= h[1].n
          PROVE  Has(h, recorded[i])
      BY <1>4, <1>5, <3>4
    <3>5. Complete(s)'
      BY <1>1, <1>6, <3>4 DEF Complete, Since, Underway
    <3>6. Ended(s)'
      BY <1>8, <1>9 DEF Ended
    <3> QED BY <2>2, <2>4, <3>3, <3>5, <3>6
  <2> QED BY <2>3, <2>4
<1> QED BY <1>11, <1>12, <1>13, <1>14 DEF OutputInductive

\* A client that leaves gets nothing any more.
LEMMA DisconnectKeeps ==
  ASSUME OutputInductive, NEW s \in Streams, Disconnect(s)
  PROVE  OutputInductive'
<1>1. /\ UNCHANGED <<alive, finished, recorded, bytes, truncated, joined, queue, overflown, thread,
                     received>>
      /\ stream[s] = "live" /\ Leaves(s, "gone")
  BY DEF Disconnect, session
<1>2. /\ stream' \in [Streams -> {"closed", "live", "over", "exit", "gone"}]
      /\ stream'[s] = "gone" /\ \A r \in Streams \ {s} : stream'[r] = stream[r]
      /\ subscribers' \in Seq(Streams) /\ IsInjective(subscribers')
      /\ \A r : Has(subscribers', r) <=> Has(subscribers, r) /\ r # s
      /\ finished => subscribers' = <<>>
  BY <1>1, LeavesHub
<1>3. OutputTyped'
  BY <1>1, <1>2 DEF OutputInductive, OutputTyped
<1>4. SessionFits'
  BY <1>1, <1>2 DEF OutputInductive, SessionFits, PumpsDone
<1>5. ASSUME NEW f \in Emitters PROVE ThreadFits(f)'
  BY <1>1, <1>2 DEF OutputInductive, ThreadFits, Owes, Known
<1>6. ASSUME NEW r \in Streams
      PROVE  (StreamFits(r) /\ ExitIsLast(r) /\ Complete(r) /\ Ended(r))'
  <2>1. StreamFits(r) /\ ExitIsLast(r) /\ Complete(r) /\ Ended(r)
    BY DEF OutputInductive
  <2>2. StreamFits(r)' /\ ExitIsLast(r)'
    BY <1>1, <1>2, <2>1 DEF StreamFits, ExitIsLast, Known
  <2>3. \A y : Underway(r, y)' <=> Underway(r, y)
    BY <1>1 DEF Underway, Owes
  <2>4. stream'[r] = stream[r] \/ stream'[r] = "gone"
    BY <1>2
  <2>5. Complete(r)' /\ Ended(r)'
    BY <1>1, <2>1, <2>3, <2>4 DEF Complete, Ended, Since
  <2> QED BY <2>2, <2>5
<1> QED BY <1>3, <1>4, <1>5, <1>6 DEF OutputInductive

\* What a client takes from its queue it has got; the exit event ends its stream, which
\* then has all.
LEMMA TakeKeeps ==
  ASSUME OutputInductive, NEW s \in Streams, TakeEvent(s)
  PROVE  OutputInductive'
<1>1. /\ UNCHANGED <<alive, finished, recorded, bytes, truncated, joined, overflown, thread>>
      /\ stream[s] = "live" /\ queue[s] # <<>>
  BY DEF TakeEvent, session
<1>2. /\ queue \in [Streams -> Seq(OutEvents)] /\ received \in [Streams -> Seq(OutEvents)]
      /\ recorded \in Seq(OutEvents) /\ \A i \in DOMAIN recorded : recorded[i].n = i
      /\ \A r \in Streams : Len(queue[r]) <= QueueSize
      /\ stream \in [Streams -> {"closed", "live", "over", "exit", "gone"}]
      /\ subscribers \in Seq(Streams) /\ IsInjective(subscribers)
  BY DEF OutputInductive, OutputTyped
<1>3. PICK x : x = Head(queue[s])
  OBVIOUS
<1>4. PICK q : q = Tail(queue[s])
  OBVIOUS
<1>5. PICK got : got = Append(received[s], x)
  OBVIOUS
<1>6. /\ x \in OutEvents /\ q \in Seq(OutEvents) /\ Len(q) = Len(queue[s]) - 1
      /\ 1 \in DOMAIN queue[s] /\ queue[s][1] = x
      /\ \A y : Has(queue[s], y) <=> y = x \/ Has(q, y)
      /\ IsInjective(queue[s]) => IsInjective(q) /\ ~Has(q, x)
      /\ \A i \in DOMAIN q : i + 1 \in DOMAIN queue[s] /\ q[i] = queue[s][i + 1] /\ i + 1 > 1
  BY <1>1, <1>2, <1>3, <1>4, Taken
<1>7. /\ got \in Seq(OutEvents) /\ got # <<>>
      /\ \A y : Has(got, y) <=> Has(received[s], y) \/ y = x
      /\ IsInjective(received[s]) /\ ~Has(received[s], x) => IsInjective(got)
      /\ got[1] = IF received[s] = <<>> THEN x ELSE received[s][1]
  BY <1>2, <1>5, <1>6, Appended
<1>8. /\ queue' = [queue EXCEPT ![s] = q] /\ received' = [received EXCEPT ![s] = got]
  BY <1>3, <1>4, <1>5 DEF TakeEvent
<1>9. /\ queue' \in [Streams -> Seq(OutEvents)] /\ received' \in [Streams -> Seq(OutEvents)]
      /\ queue'[s] = q /\ received'[s] = got
      /\ \A r \in Streams \ {s} : queue'[r] = queue[r] /\ received'[r] = received[r]
  BY <1>2, <1>6, <1>7, <1>8
<1>10. StreamFits(s) /\ ExitIsLast(s) /\ Complete(s) /\ Ended(s) /\ SessionFits
  BY DEF OutputInductive
<1>11. Known(x) /\ ~Has(received[s], x)
  BY <1>6, <1>10 DEF StreamFits
<1>12. x.kind = "exit" => x.by = "wait" /\ finished
  BY <1>10, <1>11 DEF Known, SessionFits
<1>13. /\ stream' \in [Streams -> {"closed", "live", "over", "exit", "gone"}]
       /\ stream'[s] = IF x.kind = "exit" THEN "exit" ELSE "live"
       /\ \A r \in Streams \ {s} : stream'[r] = stream[r]
       /\ subscribers' \in Seq(Streams) /\ IsInjective(subscribers')
       /\ \A r : Has(subscribers', r) <=> Has(subscribers, r) /\ ~(r = s /\ x.kind = "exit")
       /\ finished => subscribers' = <<>>
  <2>1. CASE x.kind = "exit"
    <3>1. Leaves(s, "exit")
      BY <1>3, <2>1 DEF TakeEvent
    <3> QED BY <2>1, <3>1, LeavesHub
  <2>2. CASE x.kind # "exit"
    <3>1. UNCHANGED <<stream, subscribers>>
      BY <1>3, <2>2 DEF TakeEvent
    <3> QED BY <1>1, <1>2, <1>10, <2>2, <3>1 DEF SessionFits
  <2> QED BY <2>1, <2>2
<1>14. OutputTyped'
  <2>1. \A r \in Streams : Len(queue'[r]) <= QueueSize
    <3>1. Len(queue[s]) \in Nat /\ Len(queue[s]) <= QueueSize /\ QueueSize \in Nat
      BY <1>2, OutputAssumption
    <3>2. Len(q) <= QueueSize
      BY <1>6, <3>1
    <3> QED BY <1>2, <1>9, <3>2
  <2> QED BY <1>1, <1>9, <1>13, <2>1 DEF OutputInductive, OutputTyped
<1>15. SessionFits'
  BY <1>1, <1>10, <1>13 DEF SessionFits, PumpsDone
<1>16. ASSUME NEW f \in Emitters PROVE ThreadFits(f)'
  <2>1. ThreadFits(f)
    BY DEF OutputInductive
  <2>2. ASSUME NEW r \in Streams, NEW y \in OutEvents, Owes(f, r, y)
        PROVE  stream'[r] # "closed" /\ ~Has(queue'[r], y) /\ ~Has(received'[r], y)
    <3>1. stream[r] # "closed" /\ ~Has(queue[r], y) /\ ~Has(received[r], y)
      BY <2>1, <2>2 DEF ThreadFits
    <3>2. CASE r = s
      BY <1>6, <1>7, <1>9, <1>13, <3>1, <3>2
    <3>3. CASE r # s
      BY <1>9, <1>13, <3>1, <3>3
    <3> QED BY <3>2, <3>3
  <2> QED BY <1>1, <2>1, <2>2 DEF ThreadFits, Owes, Known
<1>17. ASSUME NEW r \in Streams
       PROVE  (StreamFits(r) /\ ExitIsLast(r) /\ Complete(r) /\ Ended(r))'
  <2>1. StreamFits(r) /\ ExitIsLast(r) /\ Complete(r) /\ Ended(r)
    BY DEF OutputInductive
  <2>2. CASE r # s
    <3>1. stream'[r] = stream[r] /\ received'[r] = received[r] /\ queue'[r] = queue[r]
      BY <1>9, <1>13, <2>2
    <3>2. \A y : Underway(r, y)' <=> Underway(r, y)
      BY <1>1, <3>1 DEF Underway, Owes
    <3>3. StreamFits(r)' /\ ExitIsLast(r)'
      BY <1>1, <1>13, <2>1, <2>2, <3>1 DEF StreamFits, ExitIsLast, Known
    <3>4. Complete(r)' /\ Ended(r)'
      BY <1>1, <2>1, <3>1, <3>2 DEF Complete, Ended, Since
    <3> QED BY <3>3, <3>4
  <2>3. CASE r = s
    <3>1. StreamFits(s)'
      <4>1. IsInjective(got) /\ IsInjective(q)
        BY <1>6, <1>7, <1>10, <1>11 DEF StreamFits
      <4>2. \A y \in OutEvents : Has(got, y) => Known(y) /\ ~Has(q, y)
        BY <1>6, <1>7, <1>10, <1>11 DEF StreamFits
      <4>3. \A y \in OutEvents : Has(q, y) => Known(y)
        BY <1>6, <1>10 DEF StreamFits
      <4> QED BY <1>1, <1>9, <1>10, <1>12, <1>13, <4>1, <4>2, <4>3 DEF StreamFits, Known
    <3>2. ExitIsLast(s)'
      <4> SUFFICES ASSUME joined, NEW i \in DOMAIN q, NEW j \in DOMAIN q, i < j, q[i].kind = "exit"
                   PROVE  q[j].by \notin Pumps
        BY <1>1, <1>9 DEF ExitIsLast
      <4>1. i + 1 \in DOMAIN queue[s] /\ j + 1 \in DOMAIN queue[s] /\ i + 1 < j + 1
        BY <1>6
      <4> QED BY <1>6, <1>10, <4>1 DEF ExitIsLast
    <3>3. ASSUME NEW i \in DOMAIN recorded, i >= got[1].n
          PROVE  Since(s, i)
      BY <1>7, <3>3 DEF Since
    <3>4. ASSUME NEW y, Underway(s, y) PROVE Underway(s, y)'
      BY <1>1, <1>6, <1>7, <1>9, <3>4 DEF Underway, Owes
    <3>5. Complete(s)'
      BY <1>1, <1>7, <1>9, <1>10, <3>3, <3>4 DEF Complete, Since
    <3>6. Ended(s)'
      <4> SUFFICES ASSUME x.kind = "exit", s \notin overflown, joined,
                          NEW i \in DOMAIN recorded, recorded[i].by \in Pumps, i >= got[1].n
                   PROVE  Has(got, recorded[i])
        BY <1>1, <1>7, <1>9, <1>13 DEF Ended, Since
      <4>1. Underway(s, recorded[i]) /\ recorded[i] \in OutEvents
        BY <1>1, <1>2, <1>10, <3>3 DEF Complete
      <4>2. ASSUME NEW f \in Emitters, Owes(f, s, recorded[i]) PROVE FALSE
        <5>1. ThreadFits(f)
          BY DEF OutputInductive
        <5>2. f \in Pumps
          BY <4>1, <4>2, <5>1 DEF ThreadFits
        <5>3. thread[f].to = <<>>
          BY <1>10, <5>1, <5>2 DEF SessionFits, PumpsDone, ThreadFits, Putting
        <5> QED BY <4>2, <5>3 DEF Owes, Has
      <4>3. recorded[i] # x
        BY <1>12, OutputAssumption
      <4>4. ~Has(q, recorded[i])
        BY <1>6, <1>10 DEF Has, ExitIsLast
      <4>5. ~Has(queue[s], recorded[i])
        BY <1>6, <4>3, <4>4
      <4> QED BY <1>7, <4>1, <4>2, <4>5 DEF Underway
    <3> QED BY <2>3, <3>1, <3>2, <3>5, <3>6
  <2> QED BY <2>2, <2>3
<1> QED BY <1>14, <1>15, <1>16, <1>17 DEF OutputInductive

-----------------------------------------------------------------------------
(* The theorems. *)

LEMMA OutputStep == OutputInductive /\ [OutputNext]_outputVars => OutputInductive'
<1> SUFFICES ASSUME OutputInductive, [OutputNext]_outputVars PROVE OutputInductive'
  OBVIOUS
<1>1. ASSUME NEW p \in Pumps, PumpEnds(p) PROVE OutputInductive'
  <2>1. /\ p \in Emitters /\ p # "wait" /\ "done" \in OutPcs /\ "done" \notin Putting
        /\ thread[p].pc \notin Putting
    BY <1>1, OutputAssumption DEF Emitters, OutPcs, Putting, PumpEnds
  <2>2. /\ UNCHANGED <<finished, recorded, bytes, truncated, joined>> /\ UNCHANGED clients
        /\ UNCHANGED hub /\ alive' \in BOOLEAN
    BY <1>1 DEF PumpEnds, session, OutputInductive, OutputTyped
  <2> QED BY <1>1, <2>1, <2>2, GoesKeeps DEF PumpEnds
<1>2. ASSUME NEW k \in Killers, Decides(k) \/ Kills(k) PROVE OutputInductive'
  <2>1. /\ k \in Emitters /\ k # "wait" /\ k \notin Pumps
    BY OutputAssumption DEF Emitters
  <2>2. /\ UNCHANGED <<finished, recorded, bytes, truncated, joined>> /\ UNCHANGED clients
        /\ UNCHANGED hub /\ alive' \in BOOLEAN
    BY <1>2 DEF Decides, Kills, session, OutputInductive, OutputTyped
  <2>3. CASE Decides(k)
    <3>1. "announce" \in OutPcs /\ "announce" \notin Putting /\ thread[k].pc \notin Putting
      BY <2>3 DEF Decides, OutPcs, Putting
    <3> QED BY <2>1, <2>2, <2>3, <3>1, GoesKeeps DEF Decides
  <2>4. CASE Kills(k)
    <3>1. "done" \in OutPcs /\ "done" \notin Putting /\ thread[k].pc \notin Putting
      BY <2>4 DEF Kills, OutPcs, Putting
    <3> QED BY <2>1, <2>2, <2>4, <3>1, GoesKeeps DEF Kills
  <2> QED BY <1>2, <2>3, <2>4
<1>3. CASE Dies \/ UNCHANGED outputVars
  <2>1. UNCHANGED <<finished, recorded, bytes, truncated, joined, stream, received, subscribers,
                    queue, overflown, thread>> /\ alive' \in BOOLEAN
    BY <1>3 DEF Dies, outputVars, session, clients, hub, OutputInductive, OutputTyped
  <2>2. OutputTyped'
    BY <2>1 DEF OutputInductive, OutputTyped
  <2>3. SessionFits'
    BY <2>1 DEF OutputInductive, SessionFits, PumpsDone
  <2>4. \A e \in Emitters : ThreadFits(e)'
    BY <2>1 DEF OutputInductive, ThreadFits, Owes, Known
  <2>5. ASSUME NEW s \in Streams PROVE (StreamFits(s) /\ ExitIsLast(s) /\ Complete(s) /\ Ended(s))'
    <3>1. StreamFits(s) /\ ExitIsLast(s) /\ Complete(s) /\ Ended(s)
      BY DEF OutputInductive
    <3>2. \A y : Underway(s, y)' <=> Underway(s, y)
      BY <2>1 DEF Underway, Owes
    <3>3. StreamFits(s)' /\ ExitIsLast(s)'
      BY <2>1, <3>1 DEF StreamFits, ExitIsLast, Known
    <3>4. Complete(s)' /\ Ended(s)'
      BY <2>1, <3>1, <3>2 DEF Complete, Ended, Since
    <3> QED BY <3>3, <3>4
  <2> QED BY <2>2, <2>3, <2>4, <2>5 DEF OutputInductive
<1> QED BY <1>1, <1>2, <1>3, PumpKeeps, PuttingKeeps, AnnounceKeeps, WaitKeeps, SubscribeKeeps,
           TakeKeeps, DisconnectKeeps DEF OutputNext

LEMMA OutputInvariant == OutputSpec => []OutputInductive
BY OutputInitHolds, OutputStep, PTL DEF OutputSpec

\* The variables have their types.
THEOREM OutputTypes == OutputSpec => []OutputTypeOK
<1>1. OutputInductive => OutputTypeOK
  <2> SUFFICES ASSUME OutputInductive PROVE OutputTypeOK
    OBVIOUS
  <2>1. OutputTyped
    BY DEF OutputInductive
  <2>2. ToSet(subscribers) \subseteq Streams
    BY <2>1 DEF OutputTyped, ToSet
  <2>3. \A e \in Emitters : thread[e].pc \in OutPcs
    BY <2>1 DEF OutputTyped, Followers
  <2> QED BY <2>1, <2>2, <2>3 DEF OutputTypeOK, OutputTyped, OutPcs
<1> QED BY OutputInvariant, <1>1, PTL

\* A note of the pumps is the only one, and known to have been given.
IsNote(i) == recorded[i].kind = "note" /\ recorded[i].by \in Pumps
NotesFit ==
  \A i \in DOMAIN recorded :
    IsNote(i) => truncated /\ \A j \in DOMAIN recorded : IsNote(j) => i = j

\* Recording no other note keeps that.
LEMMA NotesStep == OutputInductive /\ NotesFit /\ [OutputNext]_outputVars => NotesFit'
<1> SUFFICES ASSUME OutputInductive, NotesFit, [OutputNext]_outputVars PROVE NotesFit'
  OBVIOUS
<1>1. /\ recorded \in Seq(OutEvents) /\ OutputTyped /\ Len(recorded) \in Nat
      /\ DOMAIN recorded = 1..Len(recorded)
  BY DEF OutputInductive, OutputTyped
<1>2. ASSUME NEW events \in Seq(OutEvents), recorded' = recorded \o events, truncated => truncated',
             \A i \in DOMAIN events : events[i].kind = "note" /\ events[i].by \in Pumps =>
               i = Len(events) /\ truncated' /\ ~truncated
      PROVE  NotesFit'
  <2>1. /\ \A i \in DOMAIN recorded : recorded'[i] = recorded[i]
        /\ \A i \in DOMAIN recorded' : i \in DOMAIN recorded
             \/ (i - Len(recorded) \in DOMAIN events /\ recorded'[i] = events[i - Len(recorded)])
        /\ recorded' \in Seq(OutEvents)
    BY <1>1, <1>2, Joined
  <2>2. ASSUME NEW i \in DOMAIN recorded', i \notin DOMAIN recorded, IsNote(i)'
        PROVE  i = Len(recorded) + Len(events) /\ truncated' /\ ~truncated
    <3>1. i - Len(recorded) = Len(events) /\ truncated' /\ ~truncated
      BY <1>2, <2>1, <2>2 DEF IsNote
    <3>2. i \in Nat
      BY <2>1
    <3> QED BY <1>1, <3>1, <3>2
  <2>3. ASSUME NEW i \in DOMAIN recorded, IsNote(i)'
        PROVE  IsNote(i) /\ truncated
    BY <2>1, <2>3 DEF IsNote, NotesFit
  <2>4. ASSUME NEW i \in DOMAIN recorded', IsNote(i)', NEW j \in DOMAIN recorded', IsNote(j)'
        PROVE  i = j /\ truncated'
    <3>1. CASE i \in DOMAIN recorded /\ j \in DOMAIN recorded
      BY <1>2, <2>3, <2>4, <3>1 DEF NotesFit
    <3>2. CASE i \notin DOMAIN recorded /\ j \notin DOMAIN recorded
      BY <2>2, <2>4, <3>2
    <3>3. CASE i \in DOMAIN recorded /\ j \notin DOMAIN recorded
      BY <2>2, <2>3, <2>4, <3>3
    <3>4. CASE i \notin DOMAIN recorded /\ j \in DOMAIN recorded
      BY <2>2, <2>3, <2>4, <3>4
    <3> QED BY <3>1, <3>2, <3>3, <3>4
  <2> QED BY <2>4 DEF NotesFit, IsNote
<1>3. CASE UNCHANGED <<recorded, truncated>>
  BY <1>3 DEF NotesFit, IsNote
<1>4. ASSUME NEW p \in Pumps, Pump(p) PROVE NotesFit'
  <2>1. PICK size \in Chunks : /\ Record(p, Bounded(p, size))
                               /\ truncated' = (truncated \/ size > Left)
    BY <1>4 DEF Pump
  <2>2. PICK events : events = Bounded(p, size)
    OBVIOUS
  <2>3. size \in Nat
    BY OutputAssumption
  <2>4. /\ events \in Seq(OutEvents)
        /\ \A i \in DOMAIN events :
             events[i].kind = "note" => i = Len(events) /\ size > Left /\ ~truncated
    <3>1. OutputTyped /\ p \in Pumps /\ size \in Nat
      BY <1>1, <2>3
    <3>2. FromChunk(p, size, events)
      BY <2>2, <3>1, BoundedEvents
    <3> QED BY <3>2 DEF FromChunk
  <2>5. recorded' = recorded \o events
    BY <2>1, <2>2 DEF Record
  <2> QED BY <1>2, <2>1, <2>4, <2>5
<1>5. ASSUME NEW k \in Killers, Announces(k) PROVE NotesFit'
  <2>1. PICK x : x = Event("note", k, 0, Len(recorded) + 1)
    OBVIOUS
  <2>2. PICK events : events = <<x>>
    OBVIOUS
  <2>3. x \in OutEvents /\ x.by \notin Pumps
    BY <1>1, <2>1, OutputAssumption DEF Event, OutEvents, Emitters
  <2>4. events \in Seq(OutEvents) /\ \A i \in DOMAIN events : events[i].by \notin Pumps
    BY <2>2, <2>3
  <2>5. recorded' = recorded \o events /\ UNCHANGED truncated
    BY <1>5, <2>1, <2>2 DEF Announces, Record
  <2> QED BY <1>2, <2>4, <2>5
<1>6. CASE WaitForExit
  <2>1. PICK x : x = Exit(Len(recorded) + 1)
    OBVIOUS
  <2>2. PICK events : events = <<x>>
    OBVIOUS
  <2>3. x \in OutEvents /\ x.kind = "exit"
    BY <1>1, <2>1 DEF Exit, Event, OutEvents, Emitters
  <2>4. events \in Seq(OutEvents) /\ \A i \in DOMAIN events : events[i].kind # "note"
    BY <2>2, <2>3
  <2>5. recorded' = recorded \o events /\ UNCHANGED truncated
    BY <1>6, <2>1, <2>2 DEF WaitForExit, Finishes, Record
  <2> QED BY <1>2, <2>4, <2>5
<1>7. UNCHANGED <<recorded, truncated>> \/ (\E p \in Pumps : Pump(p))
      \/ (\E k \in Killers : Announces(k)) \/ WaitForExit
  BY DEF OutputNext, PumpEnds, Put, DropOldest, PutAgain, Decides, Kills, Dies, Subscribe, TakeEvent,
         Disconnect, outputVars, session
<1> QED BY <1>3, <1>4, <1>5, <1>6, <1>7

\* The pumps say once, whichever of them it is, that output was left out.
THEOREM TruncationIsToldOnce == OutputSpec => []ToldOnce
<1>1. OutputInit => NotesFit
  BY DEF OutputInit, NotesFit
<1>2. NotesFit => ToldOnce
  <2> SUFFICES ASSUME NotesFit PROVE ToldOnce
    OBVIOUS
  <2>1. PICK notes : notes = {i \in DOMAIN recorded : IsNote(i)}
    OBVIOUS
  <2>2. \A i, j \in notes : i = j
    BY <2>1 DEF NotesFit
  <2>3. notes = {} \/ \E i \in notes : notes = {i}
    BY <2>2
  <2>4. Cardinality(notes) <= 1
    <3>1. CASE notes = {}
      BY <3>1, FS_EmptySet
    <3>2. CASE \E i \in notes : notes = {i}
      <4>1. PICK i : notes = {i}
        BY <3>2
      <4>2. Cardinality(notes) = 1
        BY <4>1, FS_Singleton
      <4> QED BY <4>2
    <3> QED BY <2>3, <3>1, <3>2
  <2> QED BY <2>1, <2>4 DEF ToldOnce, IsNote
<1> QED BY OutputInvariant, NotesStep, <1>1, <1>2, PTL DEF OutputSpec

\* Of what a client got from the history, from its queue and while it subscribed no
\* event came twice, and its queue holds no event that it has.
THEOREM NothingComesTwice == OutputSpec => []OnceEach
<1>1. OutputInductive => OnceEach
  <2> SUFFICES ASSUME OutputInductive, NEW s \in Streams
               PROVE  IsInjective(received[s] \o queue[s])
    BY DEF OnceEach
  <2>1. /\ received[s] \in Seq(OutEvents) /\ queue[s] \in Seq(OutEvents) /\ StreamFits(s)
    BY DEF OutputInductive, OutputTyped
  <2> QED BY <2>1, Joined DEF StreamFits
<1> QED BY OutputInvariant, <1>1, PTL

\* A stream that the exit event ended, from whose queue nothing was dropped and whose
\* session's pumps were done, got all the output since it began.
THEOREM EndedStreamsHaveAll == OutputSpec => []EndedHasAll
<1>1. OutputInductive => EndedHasAll
  <2> SUFFICES ASSUME OutputInductive, NEW s \in Streams,
                      stream[s] = "exit", s \notin overflown, joined,
                      NEW i \in DOMAIN recorded,
                      recorded[i].by \in Pumps, recorded[i].n >= received[s][1].n
               PROVE  recorded[i] \in ToSet(received[s])
    BY DEF EndedHasAll
  <2>1. Ended(s) /\ recorded[i].n = i
    BY DEF OutputInductive, OutputTyped
  <2>2. Has(received[s], recorded[i])
    BY <2>1 DEF Ended, Since
  <2> QED BY <2>2 DEF Has, ToSet
<1> QED BY OutputInvariant, <1>1, PTL

-----------------------------------------------------------------------------
(* The budget. *)

\* The sizes of events are numbers.
LEMMA EventSizes ==
  ASSUME NEW r \in Seq(OutEvents) PROVE SizeSum(r) \in Nat
<1>1. \A x \in OutEvents : x.size \in Nat
  BY DEF OutEvents
<1>2. \A i \in DOMAIN r : r[i] \in OutEvents
  OBVIOUS
<1>3. \A i \in DOMAIN r : r[i].size \in Nat
  BY <1>1, <1>2
<1> QED BY <1>3, SizesNumber

\* A chunk adds what is kept of it, and the note that there was more adds nothing.
LEMMA ChunkSizes ==
  ASSUME OutputTyped, NEW p \in Pumps, NEW size \in Nat
  PROVE  SizeSum(recorded \o Bounded(p, size))
           = SizeSum(recorded) + (IF size <= Left THEN size ELSE Left)
<1>1. Left \in Nat /\ Len(recorded) \in Nat /\ p \in Emitters /\ recorded \in Seq(OutEvents)
  BY OutputAssumption DEF OutputTyped, Left, Emitters
<1>2. PICK kept : kept = IF size <= Left THEN size ELSE Left
  OBVIOUS
<1>3. PICK part : part = IF kept > 0 THEN <<Event("output", p, kept, Len(recorded) + 1)>> ELSE <<>>
  OBVIOUS
<1>4. PICK note : note = IF size > Left /\ ~truncated
                           THEN <<Event("note", p, 0, Len(recorded) + Len(part) + 1)>> ELSE <<>>
  OBVIOUS
<1>5. Bounded(p, size) = part \o note
  BY <1>2, <1>3, <1>4 DEF Bounded
<1>6. kept \in Nat
  BY <1>1, <1>2
<1>7. PICK first : first = recorded \o part
  OBVIOUS
<1>8. first \in Seq(OutEvents) /\ SizeSum(first) = SizeSum(recorded) + kept /\ Len(part) \in Nat
  <2>1. SizeSum(recorded) \in Nat
    BY <1>1, EventSizes
  <2>2. CASE kept > 0
    <3>1. PICK x : x = Event("output", p, kept, Len(recorded) + 1)
      OBVIOUS
    <3>2. x \in OutEvents /\ x.size = kept
      BY <1>1, <1>6, <3>1 DEF Event, OutEvents
    <3>3. part = <<x>>
      BY <1>3, <2>2, <3>1
    <3>4. first = Append(recorded, x)
      BY <1>1, <1>7, <3>2, <3>3
    <3>5. SizeSum(Append(recorded, x)) = SizeSum(recorded) + x.size
      BY <1>1, <3>2, SizesAdd
    <3> QED BY <1>1, <3>2, <3>3, <3>4, <3>5
  <2>3. CASE ~(kept > 0)
    <3>1. part = <<>> /\ kept = 0
      BY <1>3, <1>6, <2>3
    <3>2. first = recorded
      BY <1>1, <1>7, <3>1
    <3> QED BY <1>1, <2>1, <3>1, <3>2
  <2> QED BY <2>2, <2>3
<1>9. part \in Seq(OutEvents) /\ note \in Seq(OutEvents)
      /\ SizeSum(first \o note) = SizeSum(first)
  <2>1. SizeSum(first) \in Nat
    BY <1>8, EventSizes
  <2>2. part \in Seq(OutEvents)
    <3>1. \A n \in Nat : Event("output", p, kept, n) \in OutEvents
      BY <1>1, <1>6 DEF Event, OutEvents
    <3> QED BY <1>1, <1>3, <3>1
  <2>3. CASE size > Left /\ ~truncated
    <3>1. PICK x : x = Event("note", p, 0, Len(recorded) + Len(part) + 1)
      OBVIOUS
    <3>2. x \in OutEvents /\ x.size = 0
      BY <1>1, <1>8, <3>1 DEF Event, OutEvents
    <3>3. note = <<x>>
      BY <1>4, <2>3, <3>1
    <3>4. first \o note = Append(first, x)
      BY <1>8, <3>2, <3>3
    <3>5. SizeSum(Append(first, x)) = SizeSum(first) + x.size
      BY <1>8, <3>2, SizesAdd
    <3>6. SizeSum(first \o note) = SizeSum(first)
      BY <2>1, <3>2, <3>4, <3>5
    <3>7. note \in Seq(OutEvents)
      BY <3>2, <3>3
    <3> QED BY <2>2, <3>6, <3>7
  <2>4. CASE ~(size > Left /\ ~truncated)
    <3>1. note = <<>>
      BY <1>4, <2>4
    <3> QED BY <1>8, <2>2, <3>1
  <2> QED BY <2>3, <2>4
<1>10. recorded \o (part \o note) = first \o note
  <2>1. recorded \in Seq(OutEvents) /\ part \in Seq(OutEvents) /\ note \in Seq(OutEvents)
    BY <1>1, <1>9
  <2>2. (recorded \o part) \o note = recorded \o (part \o note)
    BY <2>1, SMTT(30)
  <2> QED BY <1>7, <2>2
<1> QED BY <1>2, <1>5, <1>8, <1>9, <1>10

\* What was recorded of the program's output is what was counted.
Counted == SizeSum(recorded) = bytes

\* Only the chunks of pumps have a size.
LEMMA CountedStep == OutputInductive /\ Counted /\ [OutputNext]_outputVars => Counted'
<1> SUFFICES ASSUME OutputInductive, Counted, [OutputNext]_outputVars PROVE Counted'
  OBVIOUS
<1>1. recorded \in Seq(OutEvents) /\ OutputTyped /\ Len(recorded) \in Nat /\ bytes \in 0..MaxBytes
  BY DEF OutputInductive, OutputTyped
<1>2. CASE UNCHANGED <<recorded, bytes>>
  BY <1>2 DEF Counted
<1>3. ASSUME NEW p \in Pumps, Pump(p) PROVE Counted'
  <2>1. PICK size \in Chunks : /\ Record(p, Bounded(p, size))
                               /\ bytes' = IF size <= Left THEN bytes + size ELSE MaxBytes
    BY <1>3 DEF Pump
  <2>2. size \in Nat /\ MaxBytes \in Nat
    BY OutputAssumption
  <2>3. recorded' = recorded \o Bounded(p, size)
    BY <2>1 DEF Record
  <2>4. SizeSum(recorded') = SizeSum(recorded) + (IF size <= Left THEN size ELSE Left)
    BY <1>1, <2>2, <2>3, ChunkSizes
  <2> QED BY <1>1, <2>1, <2>2, <2>4 DEF Counted, Left
<1>4. ASSUME NEW x \in OutEvents, x.size = 0, recorded' = recorded \o <<x>>, UNCHANGED bytes
      PROVE  Counted'
  <2>1. recorded' = Append(recorded, x)
    BY <1>1, <1>4
  <2>2. SizeSum(Append(recorded, x)) = SizeSum(recorded) + x.size
    BY <1>1, SizesAdd
  <2>3. SizeSum(recorded') = SizeSum(recorded) + x.size
    BY <2>1, <2>2
  <2> QED BY <1>1, <1>4, <2>3 DEF Counted
<1>5. ASSUME NEW k \in Killers, Announces(k) PROVE Counted'
  <2>1. PICK x : x = Event("note", k, 0, Len(recorded) + 1)
    OBVIOUS
  <2>2. x \in OutEvents /\ x.size = 0
    BY <1>1, <2>1 DEF Event, OutEvents, Emitters
  <2>3. recorded' = recorded \o <<x>> /\ UNCHANGED bytes
    BY <1>5, <2>1 DEF Announces, Record
  <2> QED BY <1>4, <2>2, <2>3
<1>6. CASE WaitForExit
  <2>1. PICK x : x = Exit(Len(recorded) + 1)
    OBVIOUS
  <2>2. x \in OutEvents /\ x.size = 0
    BY <1>1, <2>1 DEF Exit, Event, OutEvents, Emitters
  <2>3. recorded' = recorded \o <<x>> /\ UNCHANGED bytes
    BY <1>6, <2>1 DEF WaitForExit, Finishes, Record
  <2> QED BY <1>4, <2>2, <2>3
<1>7. UNCHANGED <<recorded, bytes>> \/ (\E p \in Pumps : Pump(p))
      \/ (\E k \in Killers : Announces(k)) \/ WaitForExit
  BY DEF OutputNext, PumpEnds, Put, DropOldest, PutAgain, Decides, Kills, Dies, Subscribe, TakeEvent,
         Disconnect, outputVars, session
<1> QED BY <1>2, <1>3, <1>5, <1>6, <1>7

\* All that is recorded of a session keeps its bounds and reaches a client once: the
\* pumps never emit more than MaxBytes together, whatever arrives in which order.
THEOREM LogStaysSound == OutputSpec => []LogIsSound
<1>1. OutputInit => Counted
  <2> SUFFICES ASSUME OutputInit PROVE Counted
    OBVIOUS
  <2>1. recorded = <<>> /\ bytes = 0
    BY DEF OutputInit
  <2> QED BY <2>1, SizesOfNone DEF Counted
<1>2. OutputInductive /\ Counted => BudgetKept
  <2> SUFFICES ASSUME OutputInductive, Counted PROVE BudgetKept
    OBVIOUS
  <2>1. recorded \in Seq(OutEvents) /\ bytes <= MaxBytes
    BY DEF OutputInductive, OutputTyped
  <2>2. FoldLeft(+, 0, SizesOf(recorded)) = SizeSum(recorded)
    BY <2>1, FoldOfSizes
  <2> QED BY <2>1, <2>2 DEF Counted, BudgetKept, SizesOf
<1>3. OutputSpec => []Counted
  BY OutputInvariant, CountedStep, <1>1, PTL DEF OutputSpec
<1>4. OutputTypeOK /\ BudgetKept /\ ToldOnce /\ OnceEach => LogIsSound
  BY DEF LogIsSound
<1> QED BY <1>2, <1>3, <1>4, OutputInvariant, OutputTypes, TruncationIsToldOnce, NothingComesTwice, PTL

=============================================================================
