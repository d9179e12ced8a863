------------------------------ MODULE OnceEach ------------------------------
(***************************************************************************)
(* What the scheduler promises of a reminder: an item is taken once, if it *)
(* is not withdrawn before; then it is handed over at most once for every  *)
(* guest; and it is settled once, as failed only if it is known of nobody  *)
(* that it arrived. An item that is deleted while it is taken may still be *)
(* handed over, for each guest once.                                       *)
(***************************************************************************)
EXTENDS Naturals

CONSTANTS Items, People

VARIABLES
    state,   \* item -> what has become of it
    got,     \* item, person -> copies handed over
    known    \* the items known to have served somebody

vars == <<state, got, known>>

Init ==
    /\ state = [i \in Items |-> "none"]
    /\ got = [i \in Items |-> [g \in People |-> 0]]
    /\ known = {}

Move(i, from, to) ==
    /\ state[i] = from
    /\ state' = [state EXCEPT ![i] = to]
    /\ UNCHANGED <<got, known>>

Schedule(i) == Move(i, "none", "scheduled")
Withdraw(i) == Move(i, "scheduled", "cancelled")
Take(i)     == Move(i, "scheduled", "processing")
Succeed(i)  == Move(i, "processing", "sent")
GiveUp(i)   == Move(i, "processing", "failed") /\ i \notin known

Taken(i) == state[i] \in {"processing", "deleted"}
Learn(i) == known' = known \cup {i}

\* The outcome of a delivery may stay unknown.
Deliver(i, g) ==
    /\ Taken(i)
    /\ got[i][g] = 0
    /\ got' = [got EXCEPT ![i][g] = 1]
    /\ known' = known \/ Learn(i)
    /\ state' = state

\* A guest without an address counts as served without a delivery.
Pass(i) ==
    /\ Taken(i)
    /\ Learn(i)
    /\ UNCHANGED <<state, got>>

\* All items belong to one event.
DeleteAll ==
    /\ state' = [i \in Items |-> IF state[i] = "none" THEN "none" ELSE "deleted"]
    /\ UNCHANGED <<got, known>>

Next ==
    \/ \E i \in Items : Schedule(i) \/ Withdraw(i) \/ Take(i) \/ Succeed(i) \/ GiveUp(i)
    \/ \E i \in Items, g \in People : Deliver(i, g) \/ Pass(i)
    \/ DeleteAll

Spec == Init /\ [][Next]_vars

=============================================================================
