---------------------------- MODULE MCProfileRuns ----------------------------
(* Instances of ProfileRuns for TLC: every run belongs to the profile shut. *)
EXTENDS ProfileRuns

CONSTANTS r1, r2, c1, t1, shut

OneRun    == {r1}
TwoRuns   == {r1, r2}
NoRuns    == {}
OneClient == {c1}
OneThread == {t1}
OneProfile == {shut}
AllShut    == [r \in Runs |-> shut]

=============================================================================
