----------------------------- MODULE CodeRunner -----------------------------
(***************************************************************************)
(* The sessions of the code runner: each runs one program in a Docker      *)
(* container, through a `docker run` process (the client).  A session is   *)
(* started by a request thread, watched by a thread that waits for its     *)
(* exit and one that enforces its timeout, stopped by other requests, and  *)
(* ended by the shutdown of the backend; every start first cleans up what  *)
(* earlier sessions and dead backends left in Docker.                      *)
(*                                                                         *)
(* An action is one critical section of the runner's lock, one call of the *)
(* docker command, one operation on the process or its folder, or a step   *)
(* of Docker itself.  A session stands for its run id, container and       *)
(* network names; the events it emits are in RunnerOutput.                 *)
(***************************************************************************)
EXTENDS RunnerPlan, Integers, SequencesExt, FiniteSetsExt

CONSTANTS
  Sessions,       \* runs that are requested, each once
  MaxConcurrent,  \* _max_concurrent
  Configured,     \* ATLAS_RUNNER_NETWORK
  Request,        \* the program of each
  OldNames,       \* containers and networks of backends that are dead
  OtherNames,     \* and of backends that are alive
  DockerFails     \* whether a docker command may fail or time out

ASSUME RunnerAssumption ==
  /\ MaxConcurrent \in Nat \ {0}
  /\ IsFiniteSet(Sessions)
  /\ Configured \in {"none", "bridge"}
  /\ Request \in [Sessions -> Programs]
  /\ Sessions \cap (OldNames \cup OtherNames) = {}
  /\ OldNames \cap OtherNames = {}
  /\ DockerFails \in BOOLEAN
  /\ "shutdown" \notin Sessions

VARIABLES
  runs,          \* _runs
  starting,      \* _starting_names
  shuttingDown,  \* _shutting_down
  ended,         \* the sessions whose runner.finished is set
  phase,         \* where the start of each session, and the shutdown, is
  seen,          \* the active names a cleanup copied under the lock
  listed,        \* the stale names it still has to look at
  todo,          \* what each thread that tears a session down still has to do: its own
                 \* (which started it, or waits for its exit), a stop, its timeout
  waiting,       \* the sessions whose exit a thread waits for
  armed,         \* the sessions whose timeout is still to come
  preview,       \* the sessions with a network of their own
  client,        \* the docker run process of each session
  containers, networks,  \* what exists in Docker
  folders        \* the sessions whose work_dir exists

registry == <<runs, starting, shuttingDown, ended>>
cleanup  == <<seen, listed>>
threads  == <<phase, todo, waiting, armed>>
outside  == <<client, containers, networks, folders>>
vars     == <<registry, cleanup, threads, preview, outside>>

Closer   == "shutdown"
Starters == Sessions \cup {Closer}
Threads  == (Sessions \X {"own", "stop", "timeout"}) \cup {<<Closer, "stop">>}
Names    == Sessions \cup OldNames \cup OtherNames

Init ==
  /\ runs = {}
  /\ starting = {}
  /\ shuttingDown = FALSE
  /\ ended = {}
  /\ phase = [s \in Starters |-> "idle"]
  /\ seen = [s \in Starters |-> {}]
  /\ listed = [s \in Starters |-> {}]
  /\ todo = [t \in Threads |-> <<>>]
  /\ waiting = {}
  /\ armed = {}
  /\ preview = {}
  /\ client = [s \in Sessions |-> "none"]
  /\ containers = OldNames \cup OtherNames
  /\ networks = OldNames \cup OtherNames
  /\ folders = {}

Running == runs \ ended
Active  == starting \cup Running

Enter(s, next) == phase' = [phase EXCEPT ![s] = next]
At(s, here)    == phase[s] = here

-----------------------------------------------------------------------------
(* Reserving a slot                                                        *)

Takes(s) ==
  /\ starting' = starting \cup {s}
  /\ Enter(s, "seeContainers")

Refused(s) == Enter(s, "refused") /\ UNCHANGED starting

\* Faulty variant: the sessions that are being started are not counted.
ReserveUncounted(s) ==
  IF ~shuttingDown /\ Cardinality(Running) < MaxConcurrent THEN Takes(s) ELSE Refused(s)

\* _reserve_start.
Reserve(s) ==
  IF ~shuttingDown /\ Cardinality(Active) < MaxConcurrent THEN Takes(s) ELSE Refused(s)

\* A request: the checks, _cleanup_finished_runs and the reservation.  Nothing
\* but the registry, without the runs that are over, changes before the last.
Reserves(s) ==
  /\ At(s, "idle")
  /\ runs' = runs \ ended
  /\ LET plan == Plan(Request[s]) IN
       \/ /\ ~plan.unsupported
          /\ preview' = IF Network(Configured, plan) = "internal"
                          THEN preview \cup {s} ELSE preview
          /\ Reserve(s)
       \/ /\ plan.unsupported \/ plan.gui   \* or its image is not ready
          /\ Refused(s)
          /\ UNCHANGED preview
  /\ UNCHANGED <<shuttingDown, ended, seen, listed, todo, waiting, armed, outside>>

-----------------------------------------------------------------------------
(* Cleaning up: first containers, then networks                            *)

Kinds == {"containers", "networks"}
Seeing(kind)   == IF kind = "containers" THEN "seeContainers" ELSE "seeNetworks"
Listing(kind)  == IF kind = "containers" THEN "listContainers" ELSE "listNetworks"
Removing(kind) == IF kind = "containers" THEN "removeContainers" ELSE "removeNetworks"

\* Where the thread goes when a cleanup is over.
After(s, kind) ==
  IF kind = "containers" THEN "seeNetworks" ELSE IF s = Closer THEN "closed" ELSE "prepare"

\* The names that are preserved: those of sessions started and running (among
\* the networks, of previews; the names of sessions being started all count).
Preserved(s, kind) ==
  IF s = Closer THEN {}
  ELSE starting \cup {r \in Running : kind = "containers" \/ r \in preview}

CopyNames(s, kind) ==
  /\ At(s, Seeing(kind))
  /\ seen' = [seen EXCEPT ![s] = Preserved(s, kind)]
  /\ Enter(s, Listing(kind))
  /\ UNCHANGED <<registry, listed, todo, waiting, armed, preview, outside>>

LooksAt(s, kind, names) ==
  /\ listed' = [listed EXCEPT ![s] = names]
  /\ Enter(s, IF names = {} THEN After(s, kind) ELSE Removing(kind))

\* By its labels a name is this runner's, or its backend is dead.
Removable(name) == name \in Sessions \cup OldNames

\* docker ps, docker network ls; the labels of a name never change.
ListStale(s, kind) ==
  /\ At(s, Listing(kind))
  /\ \/ LET names == (IF kind = "containers" THEN containers ELSE networks) \ seen[s] IN
        LooksAt(s, kind, {name \in names : Removable(name)})
     \/ DockerFails /\ LooksAt(s, kind, {})
  /\ seen' = [seen EXCEPT ![s] = {}]
  /\ UNCHANGED <<registry, todo, waiting, armed, preview, outside>>

\* docker rm -f.
RemoveContainer(name) ==
  /\ \/ containers' = containers \ {name}
     \/ DockerFails /\ UNCHANGED containers
  /\ UNCHANGED networks

\* docker network rm, which fails while a container is attached.
RemoveNetwork(name) ==
  /\ \/ networks' = IF name \in containers THEN networks ELSE networks \ {name}
     \/ DockerFails /\ UNCHANGED networks
  /\ UNCHANGED containers

\* One stale name.
RemoveStale(s, kind) ==
  /\ At(s, Removing(kind))
  /\ \E name \in listed[s] :
       /\ LooksAt(s, kind, listed[s] \ {name})
       /\ IF kind = "containers" THEN RemoveContainer(name) ELSE RemoveNetwork(name)
  /\ UNCHANGED <<registry, seen, todo, waiting, armed, preview, client, folders>>

CleanUp(s) ==
  \E kind \in Kinds : CopyNames(s, kind) \/ ListStale(s, kind) \/ RemoveStale(s, kind)

-----------------------------------------------------------------------------
(* Tearing down: what a thread has to do for a session, one after another  *)

\* Removing the folder is done with the step beside it.
Stop     == <<"container", "client">>
Failure  == <<"container", "clientAndFolder", "network">>
Ending   == <<"folderAndNetwork">>
Sweeping == <<"container", "network", "clientAndFolder">>

For(s, work) == [i \in DOMAIN work |-> <<work[i], s>>]

KillClient(s)   == client' = [client EXCEPT ![s] = IF @ = "none" THEN "none" ELSE "dead"]
RemoveFolder(s) == folders' = folders \ {s}
RemoveOwnNetwork(s) ==
  IF s \in preview THEN RemoveNetwork(s) ELSE UNCHANGED <<containers, networks>>

\* The next thing that a thread does.
Work(t) ==
  /\ todo[t] # <<>>
  /\ todo' = [todo EXCEPT ![t] = Tail(@)]
  /\ LET what == Head(todo[t])[1]
         s    == Head(todo[t])[2] IN
     \/ what = "container" /\ RemoveContainer(s) /\ UNCHANGED <<client, folders>>
     \/ what = "network" /\ RemoveOwnNetwork(s) /\ UNCHANGED <<client, folders>>
     \/ what = "client" /\ KillClient(s) /\ UNCHANGED <<folders, containers, networks>>
     \/ /\ what = "clientAndFolder" /\ KillClient(s) /\ RemoveFolder(s)
        /\ UNCHANGED <<containers, networks>>
     \/ /\ what = "folderAndNetwork" /\ RemoveFolder(s) /\ RemoveOwnNetwork(s)
        /\ UNCHANGED client
  /\ UNCHANGED <<registry, cleanup, phase, waiting, armed, preview>>

-----------------------------------------------------------------------------
(* Starting                                                                *)

\* Faulty variant: a start that fails keeps its slot.
AbandonHolding(s, work) ==
  /\ Enter(s, "failed")
  /\ todo' = [todo EXCEPT ![<<s, "own">>] = For(s, work)]
  /\ UNCHANGED starting

\* The finally clause: the slot is given back first.
Abandon(s, work) ==
  /\ starting' = starting \ {s}
  /\ Enter(s, "failed")
  /\ todo' = [todo EXCEPT ![<<s, "own">>] = For(s, work)]

\* _ensure_internal_network.
Prepare(s) ==
  /\ At(s, "prepare")
  /\ \/ /\ networks' = IF s \in preview THEN networks \cup {s} ELSE networks
        /\ Enter(s, "launch")
        /\ UNCHANGED <<starting, todo>>
     \/ DockerFails /\ Abandon(s, <<>>) /\ UNCHANGED networks
  /\ UNCHANGED <<runs, shuttingDown, ended, cleanup, waiting, armed, preview,
                 client, containers, folders>>

\* The folder with the source file, and Popen.
Launch(s) ==
  /\ At(s, "launch")
  /\ folders' = folders \cup {s}
  /\ \/ /\ client' = [client EXCEPT ![s] = "launched"]
        /\ Enter(s, "register")
        /\ UNCHANGED <<starting, todo>>
     \/ DockerFails /\ Abandon(s, Ending) /\ UNCHANGED client
  /\ UNCHANGED <<runs, shuttingDown, ended, cleanup, waiting, armed, preview,
                 containers, networks>>

\* The threads are started as soon as the session is registered.
Registers(s) ==
  /\ runs' = runs \cup {s}
  /\ starting' = starting \ {s}
  /\ Enter(s, "started")
  /\ waiting' = waiting \cup {s}
  /\ armed' = armed \cup {s}
  /\ UNCHANGED todo

\* Faulty variant: a shutdown that began in the meantime goes unnoticed.
RegisterAnyway(s) ==
  /\ At(s, "register")
  /\ Registers(s)
  /\ UNCHANGED <<shuttingDown, ended, cleanup, preview, outside>>

Register(s) ==
  /\ At(s, "register")
  /\ \/ ~shuttingDown /\ Registers(s)
     \/ shuttingDown /\ Abandon(s, Failure) /\ UNCHANGED <<runs, waiting, armed>>
  /\ UNCHANGED <<shuttingDown, ended, cleanup, preview, outside>>

Start(s) == Prepare(s) \/ Launch(s) \/ Register(s)

-----------------------------------------------------------------------------
(* Docker                                                                  *)

\* The client has its container created; a preview needs its network.
CreateContainer(s) ==
  /\ client[s] = "launched"
  /\ IF s \in preview /\ s \notin networks
       THEN client' = [client EXCEPT ![s] = "dead"] /\ UNCHANGED containers
       ELSE /\ client' = [client EXCEPT ![s] = "attached"]
            /\ containers' = containers \cup {s}
  /\ UNCHANGED <<registry, cleanup, threads, preview, networks, folders>>

\* The program ends and Docker removes its container (--rm), or the container
\* is gone already: the client ends.
ProgramEnds(s) ==
  /\ client[s] = "attached"
  /\ client' = [client EXCEPT ![s] = "dead"]
  /\ containers' = containers \ {s}
  /\ UNCHANGED <<registry, cleanup, threads, preview, networks, folders>>

-----------------------------------------------------------------------------
(* Ending                                                                  *)

\* stop, as often as it is requested.
RequestStop(s) ==
  /\ s \in runs
  /\ todo[<<s, "stop">>] = <<>>
  /\ todo' = [todo EXCEPT ![<<s, "stop">>] = For(s, Stop)]
  /\ UNCHANGED <<registry, cleanup, phase, waiting, armed, preview, outside>>

\* _enforce_timeout: its time may be over at any moment.
TimesOut(s) ==
  /\ s \in armed
  /\ armed' = armed \ {s}
  /\ todo' = [todo EXCEPT ![<<s, "timeout">>] = For(s, Stop)]
  /\ UNCHANGED <<registry, cleanup, phase, waiting, preview, outside>>

\* _wait_for_exit; a timeout that is not over by then returns.
Exits(s) ==
  /\ s \in waiting
  /\ client[s] = "dead"
  /\ ended' = ended \cup {s}
  /\ waiting' = waiting \ {s}
  /\ armed' = armed \ {s}
  /\ todo' = [todo EXCEPT ![<<s, "own">>] = For(s, Ending)]
  /\ UNCHANGED <<runs, starting, shuttingDown, cleanup, phase, preview, outside>>

\* The same work for one session after another.
InTurn(order, work) ==
  [k \in 1..Len(order) * Len(work) |->
     <<work[((k - 1) % Len(work)) + 1], order[((k - 1) \div Len(work)) + 1]>>]

\* shutdown takes all sessions, in the order of the registry, which is left open, ...
BeginShutdown ==
  /\ ~shuttingDown
  /\ shuttingDown' = TRUE
  /\ runs' = {}
  /\ \E order \in SetToSeqs(runs) :
       todo' = [todo EXCEPT ![<<Closer, "stop">>] = InTurn(order, Sweeping)]
  /\ Enter(Closer, "sweep")
  /\ UNCHANGED <<starting, ended, cleanup, waiting, armed, preview, outside>>

\* ... ends them one by one, and then cleans up.
Swept ==
  /\ At(Closer, "sweep")
  /\ todo[<<Closer, "stop">>] = <<>>
  /\ Enter(Closer, "seeContainers")
  /\ UNCHANGED <<registry, cleanup, todo, waiting, armed, preview, outside>>

-----------------------------------------------------------------------------
Next ==
  \/ \E s \in Sessions :
       \/ Reserves(s) \/ Start(s) \/ CreateContainer(s) \/ ProgramEnds(s)
       \/ RequestStop(s) \/ TimesOut(s) \/ Exits(s)
  \/ \E s \in Starters : CleanUp(s)
  \/ \E t \in Threads : Work(t)
  \/ BeginShutdown \/ Swept

\* Threads go on, commands return and time passes.  A program need not end, and
\* nobody has to request a stop or a shutdown.
Fairness ==
  /\ \A s \in Sessions :
       /\ WF_vars(Start(s))
       /\ WF_vars(TimesOut(s))
       /\ WF_vars(Exits(s))
  /\ \A s \in Starters : WF_vars(CleanUp(s))
  /\ \A t \in Threads : WF_vars(Work(t))

Spec == Init /\ [][Next]_vars /\ Fairness

-----------------------------------------------------------------------------
(* Properties                                                              *)

Phases == {"idle", "refused", "seeContainers", "listContainers", "removeContainers",
           "seeNetworks", "listNetworks", "removeNetworks", "prepare", "launch",
           "register", "started", "failed", "sweep", "closed"}
Chores == {"container", "network", "client", "clientAndFolder", "folderAndNetwork"}

\* The types of the variables; a session is in starting exactly while its start
\* is under way.
TypeOK ==
  /\ runs \subseteq Sessions
  /\ starting = {s \in Sessions : phase[s] \notin {"idle", "refused", "started", "failed"}}
  /\ shuttingDown \in BOOLEAN
  /\ ended \subseteq Sessions
  /\ phase \in [Starters -> Phases]
  /\ seen \in [Starters -> SUBSET Sessions]
  /\ listed \in [Starters -> SUBSET Names]
  /\ todo \in [Threads -> Seq(Chores \X Sessions)]
  /\ waiting \subseteq Sessions
  /\ armed \subseteq waiting
  /\ preview \subseteq Sessions
  /\ client \in [Sessions -> {"none", "launched", "attached", "dead"}]
  /\ containers \subseteq Names
  /\ networks \subseteq Names
  /\ folders \subseteq Sessions

Alive(s) == client[s] \in {"launched", "attached"}

Pending(chores, s) ==
  \E t \in Threads : \E i \in DOMAIN todo[t] : todo[t][i][2] = s /\ todo[t][i][1] \in chores

\* A live docker process and a work folder belong to a session that holds a slot,
\* or somebody is about to end the process and to remove the folder, however
\* starts, stops, exits and a shutdown overlap; a shutdown leaves no session in
\* the registry.
NothingStray ==
  /\ shuttingDown => runs = {}
  /\ \A s \in Sessions \ Active :
       /\ Alive(s) => Pending({"client", "clientAndFolder"}, s)
       /\ s \in folders => \/ s \in waiting
                           \/ Pending({"clientAndFolder", "folderAndNetwork"}, s)

\* The registry is what the sessions are doing, and nothing runs beside it.
SessionsAreSound == TypeOK /\ NothingStray

Pool == INSTANCE SlotPool WITH held <- Active, closed <- shuttingDown

\* The slots are a pool: never more than MaxConcurrent are held, and none is
\* taken after the shutdown began.
PoolSpec == Pool!Spec

\* A session that holds a slot gives it back, and in the end its process is dead
\* and its folder is gone.
SlotsComeBack ==
  \A s \in Sessions :
    s \in starting ~> s \notin Active /\ ~Alive(s) /\ s \notin folders

\* docs/releases/v1.2.0.md:35, "Containers carry Atlas ownership labels and are
\* removed on stop, failed startup, stale-owner cleanup, and backend shutdown": the
\* containers and networks that a start is about to remove are stale, none is of a
\* session that is being started or runs.
OnlyStaleIsRemoved == \A a \in Sessions : listed[a] \cap Active = {}

=============================================================================
