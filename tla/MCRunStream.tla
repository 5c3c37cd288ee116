---------------------------- MODULE MCRunStream ----------------------------
(* Instances of RunStream for TLC. *)
EXTENDS RunStream

CONSTANTS w, a, s1, s2

WorkerOnly  == {w}
TwoThreads  == {w, a}
OneStream   == {s1}
TwoStreams  == {s1, s2}
NoStream    == {}

=============================================================================
