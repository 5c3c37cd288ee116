------------------------------ MODULE SlotPool ------------------------------
(***************************************************************************)
(* What the code runner promises about its slots: at most MaxConcurrent    *)
(* sessions hold one, a slot that was given back can be taken again, and   *)
(* after the pool is closed no slot is taken any more.                     *)
(***************************************************************************)
EXTENDS FiniteSets, Integers

CONSTANTS Sessions, MaxConcurrent

VARIABLES held, closed

Init == held = {} /\ closed = FALSE

Take(s) ==
  /\ ~closed
  /\ s \notin held
  /\ Cardinality(held) < MaxConcurrent
  /\ held' = held \cup {s}
  /\ UNCHANGED closed

Give(s) ==
  /\ s \in held
  /\ held' = held \ {s}
  /\ UNCHANGED closed

\* Closing takes the slots of the sessions that run; those still being started
\* give theirs back themselves.
Close ==
  /\ ~closed
  /\ closed' = TRUE
  /\ held' \in SUBSET held

Next == (\E s \in Sessions : Take(s) \/ Give(s)) \/ Close

Spec == Init /\ [][Next]_<<held, closed>>

=============================================================================
