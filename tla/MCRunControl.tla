---------------------------- MODULE MCRunControl ----------------------------
(* Instances of RunControl for TLC: the .cfg files choose how many runs,   *)
(* which of them are compactions, and how many clients cancel.             *)
EXTENDS RunControl

CONSTANTS r1, r2, c1, c2

OneRun    == {r1}
TwoRuns   == {r1, r2}
NoRuns    == {}
NoClients  == {}
OneClient  == {c1}
TwoClients == {c1, c2}

\* Sound where no property is a liveness property and Compacts is empty.
Permuted == Permutations(Clients) \union Permutations(Runs)

=============================================================================
