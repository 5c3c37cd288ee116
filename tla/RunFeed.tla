------------------------------ MODULE RunFeed ------------------------------
(***************************************************************************)
(* What the event stream of a run promises: whoever follows the run gets   *)
(* its events from the first one on, in the order they were produced, each *)
(* once, and is dismissed only behind the event that ends the run.         *)
(***************************************************************************)
EXTENDS Naturals, Sequences

CONSTANTS Followers, Kinds, Terminal

VARIABLES
  produced,   \* the kind of each event, in order
  received,   \* the events each follower got: their places in produced
  dismissed   \* the followers whose stream has ended

UpTo(n) == [i \in 1 .. n |-> i]

Init == /\ produced = <<>>
        /\ received = [f \in Followers |-> <<>>]
        /\ dismissed = {}

Produce == /\ \E kind \in Kinds : produced' = Append(produced, kind)
           /\ UNCHANGED <<received, dismissed>>

\* f catches up with some more events, and may go once it knows the outcome.
Deliver(f) ==
  /\ f \notin dismissed
  /\ \E n \in Len(received[f]) .. Len(produced) :
       /\ received' = [received EXCEPT ![f] = UpTo(n)]
       /\ \/ UNCHANGED dismissed
          \/ /\ \E i \in 1 .. n : produced[i] = Terminal
             /\ dismissed' = dismissed \union {f}
  /\ UNCHANGED produced

Next == Produce \/ \E f \in Followers : Deliver(f)

Spec == Init /\ [][Next]_<<produced, received, dismissed>>

=============================================================================
