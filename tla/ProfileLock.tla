----------------------------- MODULE ProfileLock -----------------------------
(***************************************************************************)
(* What the profile gate promises, without its counters and flags: a lock  *)
(* over sets of profiles that operations and runs share and a mutation, or *)
(* a reset of all profiles, holds alone.                                   *)
(***************************************************************************)
CONSTANTS Holders, Profiles

VARIABLE held   \* what each holder has

Modes  == {"shared", "alone"}
Grants == [mode : Modes, scope : SUBSET Profiles]
Free   == [mode |-> "shared", scope |-> {}]

Compatible(g, h) == \/ g.scope \intersect h.scope = {}
                    \/ g.mode = "shared" /\ h.mode = "shared"

Init == held = [h \in Holders |-> Free]

Acquire(h) ==
  /\ held[h] = Free
  /\ \E g \in Grants :
       /\ \A o \in Holders \ {h} : Compatible(g, held[o])
       /\ held' = [held EXCEPT ![h] = g]

\* Several holders may let go at once.
Release(H) ==
  held' = [h \in Holders |-> IF h \in H THEN Free ELSE held[h]]

Next == \/ \E h \in Holders : Acquire(h)
        \/ \E H \in SUBSET Holders : Release(H)

Spec == Init /\ [][Next]_held

\* No two holders are in each other's way.
Exclusion == \A g, h \in Holders : g # h => Compatible(held[g], held[h])

=============================================================================
