--------------------------- MODULE MCRunnerOutput ---------------------------
(* Instances of RunnerOutput for TLC. *)
EXTENDS RunnerOutput

CONSTANTS out, err, s1

TwoPumps    == {out, err}
TimeoutOnly == {"timeout"}
OneStream   == {s1}
TwoBytes    == {2}

=============================================================================
