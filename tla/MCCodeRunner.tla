---------------------------- MODULE MCCodeRunner ----------------------------
(* Instances of CodeRunner for TLC. *)
EXTENDS CodeRunner

CONSTANTS s1, s2, old, other

TwoSessions == {s1, s2}
OldOne      == {old}
OtherOne    == {other}
NoName      == {}

Program == [python |-> TRUE, web |-> FALSE, terminal |-> FALSE, window |-> FALSE,
            packages |-> "none", system |-> FALSE, dynamic |-> FALSE, online |-> FALSE]

Window == [Program EXCEPT !.window = TRUE, !.packages = "bundled"]

\* A plain program, and one that opens a window.
PlainAndWindow == [s \in Sessions |-> IF s = s1 THEN Program ELSE Window]

=============================================================================
