--------------------------- MODULE SeatAllocator ---------------------------
(***************************************************************************)
(* What the RSVP service promises about the seats of an event with a       *)
(* waitlist, one party at a time: a party is seated if it fits, and waits  *)
(* only if it does not. When a seat is given back the line may be served:  *)
(* until that is over nothing else happens, and the first in line is       *)
(* seated as long as it fits. A place is older than those with a higher    *)
(* number.                                                                 *)
(***************************************************************************)
EXTENDS Integers, FiniteSets

CONSTANTS Places, Largest, Capacity

VARIABLES
    seats,    \* place -> seats its party has
    wants,    \* place -> seats its party waits for
    serving   \* the line is being served

vars == <<seats, wants, serving>>

\* The seats taken, one by one.
Taken(s) == {c \in Places \X (0 .. Largest - 1) : c[2] < s[c[1]]}
Total(s) == Cardinality(Taken(s))

Waiting  == {i \in Places : wants[i] > 0}
First(i) == i \in Waiting /\ \A j \in Waiting : i <= j

Init ==
    /\ seats \in [Places -> 0 .. Largest] /\ wants \in [Places -> 0 .. Largest]
    /\ Total(seats) <= Capacity
    /\ serving = FALSE

\* The party at place i has n seats and waits for w.
Put(i, n, w) ==
    /\ seats' = [seats EXCEPT ![i] = n]
    /\ wants' = [wants EXCEPT ![i] = w]

Seat(i, n) ==
    /\ ~serving /\ UNCHANGED serving
    /\ Put(i, n, 0) /\ Total(seats') <= Capacity

Queue(i, n) ==
    /\ ~serving /\ UNCHANGED serving
    /\ Put(i, 0, n) /\ Total(seats) - seats[i] + n > Capacity

\* The party at place i gives up what it has or waits for.
Leave(i) ==
    /\ ~serving /\ serving' \in {FALSE, seats[i] > 0}
    /\ Put(i, 0, 0)

ServeFirst(i) ==
    /\ serving /\ UNCHANGED serving
    /\ First(i)
    /\ Put(i, wants[i], 0) /\ Total(seats') <= Capacity

StopServing ==
    /\ serving /\ serving' = FALSE
    /\ UNCHANGED <<seats, wants>>

Next ==
    \/ \E i \in Places, n \in 1 .. Largest : Seat(i, n) \/ Queue(i, n)
    \/ \E i \in Places : Leave(i) \/ ServeFirst(i)
    \/ StopServing

Spec == Init /\ [][Next]_vars

=============================================================================
