----------------------------- MODULE GuiRuntime -----------------------------
(***************************************************************************)
(* The image that windowed Python programs run in, and who builds it       *)
(* (PythonGuiRuntimeManager in code_runner.py): requests ask for its       *)
(* status or for its preparation, a thread runs docker build, and the      *)
(* shutdown kills the build it knows of.                                   *)
(*                                                                         *)
(* An action is one critical section of the manager's lock, or one docker  *)
(* command outside of it.                                                  *)
(***************************************************************************)
EXTENDS Integers, FiniteSets

CONSTANTS
  Asks,       \* requests, each made at most once
  NoAsk       \* not a request

ASSUME AsksAssumption == NoAsk \notin Asks

VARIABLES
  runtime,    \* _state
  image,      \* docker has the image with the labels of this version
  ask,        \* what each request is doing and for what
  seen,       \* what each request's, or its build's, last inspection found
  build,      \* the build that a request started
  building,   \* the docker build processes that run
  process,    \* _process: whose build the shutdown would kill
  halted      \* shutdown was called

buildVars == <<runtime, image, ask, seen, build, building, process, halted>>

BuildInit ==
  /\ runtime = "missing"
  /\ image \in BOOLEAN
  /\ ask = [a \in Asks |-> "idle"]
  /\ seen = [a \in Asks |-> FALSE]
  /\ build = [a \in Asks |-> "none"]
  /\ building = {} /\ process = NoAsk /\ halted = FALSE

AskGoes(a, pc) == ask' = [ask EXCEPT ![a] = pc]
BuildGoes(a, pc) == build' = [build EXCEPT ![a] = pc]
UnderWay == {a \in Asks : build[a] \notin {"none", "done"}}

-----------------------------------------------------------------------------
(* Requests: status, and prepare, which begins with a status. *)

\* While a build is prepared nobody inspects the image.
LookUp(a) ==
  /\ ask[a] = "idle"
  /\ \/ runtime = "preparing" /\ (AskGoes(a, "answered") \/ AskGoes(a, "claim"))
     \/ runtime # "preparing" /\ (AskGoes(a, "inspect_status") \/ AskGoes(a, "inspect_prepare"))
  /\ UNCHANGED <<runtime, image, seen, build, building, process, halted>>

\* _inspect_python_gui_runtime, without the lock; a docker that does not answer
\* counts as no image.
Inspected(a) == \E found \in {FALSE, image} : seen' = [seen EXCEPT ![a] = found]
Inspect(a) ==
  /\ \/ ask[a] = "inspect_status" /\ AskGoes(a, "settle_status")
     \/ ask[a] = "inspect_prepare" /\ AskGoes(a, "settle_prepare")
  /\ Inspected(a)
  /\ UNCHANGED <<runtime, image, build, building, process, halted>>

\* The state follows the inspection, unless a build failed. It may have become
\* "preparing" since: that is not looked at again.
Settle(a) ==
  /\ ask[a] \in {"settle_status", "settle_prepare"}
  /\ runtime' = IF seen[a] THEN "ready" ELSE IF runtime = "failed" THEN runtime ELSE "missing"
  /\ AskGoes(a, IF ask[a] = "settle_prepare" /\ runtime' # "ready" THEN "claim" ELSE "answered")
  /\ UNCHANGED <<image, seen, build, building, process, halted>>

\* A request that finds no build under way, as far as the state says, starts one.
StartBuild(a) ==
  /\ ask[a] = "claim"
  /\ AskGoes(a, "answered")
  /\ runtime' = "preparing" /\ BuildGoes(a, "spawn")
  /\ UNCHANGED <<image, seen, building, process, halted>>
FindsBuild(a) ==
  /\ ask[a] = "claim" /\ runtime = "preparing"
  /\ AskGoes(a, "answered")
  /\ UNCHANGED <<runtime, image, seen, build, building, process, halted>>
Claim(a) == (runtime # "preparing" /\ StartBuild(a)) \/ FindsBuild(a)

-----------------------------------------------------------------------------
(* The thread of a build: _build *)

\* docker build is started, or cannot be. The files of the build context, whose
\* hash is taken before that, are assumed to be readable.
Spawn(a) ==
  /\ build[a] = "spawn"
  /\ \/ BuildGoes(a, "record") /\ building' = building \cup {a}
     \/ BuildGoes(a, "refused") /\ UNCHANGED building
  /\ UNCHANGED <<runtime, image, ask, seen, process, halted>>

RecordProcess(a) ==
  /\ build[a] = "record"
  /\ BuildGoes(a, "wait")
  /\ process' = a
  /\ UNCHANGED <<runtime, image, ask, seen, building, halted>>

\* docker build ends by itself; when it succeeds the image may be there.
BuildRuns(a) ==
  /\ a \in building
  /\ building' = building \ {a}
  /\ image' \in {image, TRUE}
  /\ UNCHANGED <<runtime, ask, seen, build, process, halted>>

\* process.wait returns, and the image is inspected.
BuildReturns(a) ==
  /\ build[a] = "wait" /\ a \notin building
  /\ BuildGoes(a, "conclude")
  /\ Inspected(a)
  /\ UNCHANGED <<runtime, image, ask, building, process, halted>>

\* The exit code and the inspection decide. (ConcludeByCode trusts the code,
\* ConcludeQuietly forgets the failure to start.)
Concluded(a, outcomes) ==
  /\ build[a] \in {"conclude", "refused"}
  /\ BuildGoes(a, "done")
  /\ runtime' \in outcomes
  /\ process' = NoAsk
  /\ UNCHANGED <<image, ask, seen, building, halted>>
Outcomes(a) == IF build[a] = "conclude" /\ seen[a] THEN {"ready", "failed"} ELSE {"failed"}
ConcludeByCode(a) ==
  Concluded(a, IF build[a] = "conclude" THEN {"ready", "failed"} ELSE {"failed"})
ConcludeQuietly(a) == Concluded(a, IF build[a] = "refused" THEN {runtime} ELSE Outcomes(a))
Conclude(a) == Concluded(a, Outcomes(a))

\* shutdown kills the recorded process.
Halt ==
  /\ ~halted /\ halted' = TRUE
  /\ building' = building \ {process}
  /\ UNCHANGED <<runtime, image, ask, seen, build, process>>

Answering(a) == Inspect(a) \/ Settle(a) \/ Claim(a)
Building(a) == Spawn(a) \/ RecordProcess(a) \/ BuildReturns(a) \/ Conclude(a)

BuildNext ==
  \/ \E a \in Asks : LookUp(a) \/ Answering(a) \/ Building(a) \/ BuildRuns(a)
  \/ Halt

\* Requests and threads go on; docker build ends (nothing bounds its time: this
\* is assumed of docker).
BuildFairness ==
  \A a \in Asks : WF_buildVars(Answering(a)) /\ WF_buildVars(Building(a) \/ BuildRuns(a))

BuildSpec == BuildInit /\ [][BuildNext]_buildVars /\ BuildFairness

-----------------------------------------------------------------------------
(* Properties *)

\* The types; the process that a shutdown would kill belongs to a build that is
\* not over.
BuildTypeOK ==
  /\ runtime \in {"missing", "preparing", "ready", "failed"}
  /\ {image, halted} \subseteq BOOLEAN
  /\ \A a \in Asks :
       /\ ask[a] \in {"idle", "inspect_status", "inspect_prepare", "settle_status",
                      "settle_prepare", "claim", "answered"}
       /\ build[a] \in {"none", "spawn", "record", "wait", "refused", "conclude", "done"}
       /\ build[a] # "none" => ask[a] = "answered"
       /\ seen[a] \in BOOLEAN
  /\ building \subseteq UnderWay
  /\ process \in {NoAsk} \cup UnderWay

\* The window says that the runtime is being prepared only while a build is under
\* way, however it ends and whoever asks in between.
PreparingIsReal == runtime = "preparing" => UnderWay # {}

\* What is called ready can be run: no request and no build reports an image that
\* was not there (nobody removes images here).
ReadyIsThere == runtime = "ready" => image

\* Preparation comes to an end, so that it can be asked for again.
PreparationEnds == runtime = "preparing" ~> runtime # "preparing"

=============================================================================
