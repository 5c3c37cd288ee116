--------------------------- MODULE MCRunRecovery ---------------------------
(* Instances of RunRecovery for TLC. *)
EXTENDS RunRecovery

CONSTANTS r1, r2, r3, open, locked

\* One run of a passwordless profile, and two of a protected one.
ThreeRuns == {r1, r2, r3}
TwoProfiles == {open, locked}
OneLocked == {locked}
FirstIsOpen == [r \in Runs |-> IF r = r1 THEN open ELSE locked]

=============================================================================
