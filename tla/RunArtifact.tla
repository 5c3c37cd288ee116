---------------------------- MODULE RunArtifact ----------------------------
(***************************************************************************)
(* The durable record of one run (runs/<id>.json) and the operations of    *)
(* RunStore that rewrite it.  Each operator is what one method of RunStore *)
(* makes of the artifact while it holds the store lock; the file itself    *)
(* and the index beside it are left to the module about recovery.          *)
(*                                                                         *)
(* An error is its cause.  Of the events, "progress" stands for a block of *)
(* consecutive ones that only report how far the run is (queued, started,  *)
(* tokens, traces, stages).                                                *)
(***************************************************************************)
EXTENDS Naturals, Sequences

LiveStatuses     == {"queued", "running", "cancelling"}
TerminalStatuses == {"completed", "failed"}
Statuses         == LiveStatuses \union TerminalStatuses \union {"absent"}

TerminalKinds == {"run_completed", "run_failed"}
EventKinds    == {"progress"} \union TerminalKinds

\* Why a run failed: the user stopped it, Atlas shut down, it raised, or a
\* restart found it interrupted.
Errors == {"none", "stopped", "shutdown", "raised", "interrupted"}

Artifact == [status : Statuses, error : Errors, events : Seq(EventKinds)]

Absent  == [status |-> "absent", error |-> "none", events |-> <<>>]
Created == [status |-> "queued", error |-> "none", events |-> <<>>]

IsTerminal(a) == a.status \in TerminalStatuses
IsLive(a)     == a.status \in LiveStatuses

Has(a, kinds) == \E i \in DOMAIN a.events : a.events[i] \in kinds

WithProgress(a) ==
  IF a.events # <<>> /\ a.events[Len(a.events)] = "progress" THEN a
  ELSE [a EXCEPT !.events = Append(@, "progress")]

\* mark_run_running overwrites whatever status it finds.
MarkRunning(a) == [a EXCEPT !.status = "running"]

MarkCancellingAlways(a) == [a EXCEPT !.status = "cancelling"]  \* faulty

MarkCancelling(a) ==
  IF IsTerminal(a) THEN a ELSE [a EXCEPT !.status = "cancelling"]

\* The claim of a cancellation and its stage "stopping" are one write.
MarkCancellingWithEvent(a) ==
  IF IsTerminal(a) THEN a ELSE WithProgress(MarkCancelling(a))

EndedAs(a, status, error) ==
  [a EXCEPT !.status = status,
            !.error  = IF status = "failed" THEN error ELSE @,
            !.events = Append(@, IF status = "completed" THEN "run_completed"
                                                         ELSE "run_failed")]

(* Faulty variants of the operators below: slips the store could have.     *)
FinishAgain(a, status, error)     == EndedAs(a, status, error)
FinishUnclaimed(a, status, error) ==
  IF Has(a, TerminalKinds) THEN a ELSE EndedAs(a, status, error)

\* The first terminal event wins; a claimed cancellation turns a completion
\* into a stop.
Finish(a, status, error) ==
  IF Has(a, TerminalKinds) THEN a
  ELSE IF IsTerminal(a)
       THEN EndedAs(a, a.status, IF status = "failed" THEN error ELSE a.error)
  ELSE IF a.status = "cancelling" /\ status = "completed"
       THEN EndedAs(a, "failed", "stopped")
  ELSE EndedAs(a, status, error)

\* The artifact has no terminal event while the run is live and exactly one
\* once it is over, the one its status says.
SingleOutcome(a) ==
  /\ a.status = "completed" <=> Has(a, {"run_completed"})
  /\ a.status = "failed" <=> Has(a, {"run_failed"})
  /\ \A i, j \in DOMAIN a.events :
       a.events[i] \in TerminalKinds /\ a.events[j] \in TerminalKinds => i = j

=============================================================================
