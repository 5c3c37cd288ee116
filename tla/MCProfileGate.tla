---------------------------- MODULE MCProfileGate ----------------------------
(* Instances of ProfileGate for TLC. *)
EXTENDS ProfileGate, TLC

CONSTANTS open, shut, t1, t2, t3

TwoProfiles  == {open, shut}
OneProfile   == {shut}
WithPassword == {shut}
TwoThreads   == {t1, t2}
ThreeThreads == {t1, t2, t3}

SameThreads == Permutations(Threads)

=============================================================================
