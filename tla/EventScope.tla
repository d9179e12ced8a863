----------------------------- MODULE EventScope -----------------------------
(***************************************************************************)
(* What the handlers around one event share (comments, messages, questions *)
(* of its guests; co-hosts and invite card of its hosts): the event row,   *)
(* its attendees, the clock, the request goroutines and the sliding-window *)
(* limiter in front of the routes (internal/security).                     *)
(*                                                                         *)
(* A request is admitted and its first statement run in one action; every  *)
(* later action is one statement. All the limiter and the request          *)
(* goroutines know is in memory: a restart loses it.                       *)
(***************************************************************************)
EXTENDS Integers, FiniteSets, Sequences

CONSTANTS
    Procs,        \* request goroutines
    Attendees,    \* attendees of the event
    Organizer,    \* its organizer
    RateLimit,    \* group of handlers -> requests its limiter admits ...
    RateWindow,   \* ... in this time
    MaxTime,      \* bound: the last instant
    LastTick,     \* bound: group of handlers -> the last instant it is looked at
    MaxRequests,  \* bound: requests admitted ...
    MaxWork,      \* ... of which only the first do more than one statement
    MaxRestarts   \* bound: restarts of the process

Actors == Attendees \cup {Organizer}

\* Comments and messages, questions and answers, co-hosts, invite cards: what one of
\* the four groups reads and writes the handlers of the others do not touch. In one
\* behaviour only one group gets requests, or, at the "front", requests of which only
\* their admission is looked at.
Desks == {"guestbook", "questions", "cohosts", "cards", "front"}

ASSUME ScopeAssumption ==
    /\ IsFiniteSet(Procs) /\ Procs # {}
    /\ Organizer \notin Attendees
    /\ RateLimit \in [Desks -> Nat] /\ RateWindow \in Nat
    /\ MaxTime \in Nat /\ LastTick \in [Desks -> 0 .. MaxTime]
    /\ MaxRequests \in Nat /\ MaxRestarts \in Nat
    /\ MaxWork \in [Desks -> Nat]

VARIABLES
    now,          \* the clock, in the resolution of the stored times
    desk,         \* which group of handlers this behaviour is about
    eventStatus,  \* "published", "closed" or "deleted"
    present,      \* attendees whose row exists
    pc, client,   \* what each goroutine does, and for whom
    hits,         \* client -> entries of the limiter
    admitted,     \* history: client -> all its entries, this process
    served, restarts

requestVars == <<pc, client, hits, admitted, served>>
worldVars   == <<now, desk, eventStatus, present, restarts>>
scopeVars   == <<requestVars, worldVars>>

ScopeInit ==
    /\ now = 0 /\ desk \in Desks /\ eventStatus = "published" /\ present = Attendees
    /\ pc = [p \in Procs |-> "idle"] /\ client = [p \in Procs |-> Organizer]
    /\ hits = [k \in Actors |-> {}] /\ admitted = [k \in Actors |-> {}]
    /\ served = 0 /\ restarts = 0

-----------------------------------------------------------------------------
(* RateLimiter. An entry is a time; as two may be equal it has a number.   *)

Within(es, from, to) == {e \in es : from <= e.at /\ e.at <= to}

\* Variant: an entry is forgotten one instant too early.
PruneEntriesEarly(es) == {e \in es : e.at > now - RateWindow}

\* pruneEntries: what is not before the cutoff stays.
PruneEntries(es) == {e \in es : e.at >= now - RateWindow}

\* Each group of routes has a limiter with a limit of its own.
Allow(k) == Cardinality(PruneEntries(hits[k])) < RateLimit[desk]

NewEntry(k) == [at |-> now, no |-> Cardinality(admitted[k])]

\* A request of client k is admitted.
Hit(k) ==
    /\ served < MaxRequests /\ served' = served + 1
    /\ Allow(k)
    /\ hits' = [hits EXCEPT ![k] = PruneEntries(@) \cup {NewEntry(k)}]
    /\ admitted' = [admitted EXCEPT ![k] = @ \cup {NewEntry(k)}]

\* It is admitted and goroutine p goes on with it.
Admit(p, k, label) ==
    /\ pc[p] = "idle" /\ served < MaxWork[desk] /\ Hit(k)
    /\ pc' = [pc EXCEPT ![p] = label]
    /\ client' = [client EXCEPT ![p] = k]
    /\ UNCHANGED worldVars

\* It is admitted and ends at once.
AdmitOnce(k) == Hit(k) /\ UNCHANGED <<pc, client, worldVars>>

\* 429 Too Many Requests.
Refuse(k) ==
    /\ ~Allow(k)
    /\ hits' = [hits EXCEPT ![k] = PruneEntries(@)]
    /\ UNCHANGED <<pc, client, admitted, served, worldVars>>

\* Cleanup, on its own ticker; a client without entries is forgotten.
CleanupLimiter ==
    /\ hits' = [k \in Actors |-> PruneEntries(hits[k])]
    /\ UNCHANGED <<pc, client, admitted, served, worldVars>>

-----------------------------------------------------------------------------
\* Goroutine p goes on, or returns and forgets whom it served.
Goto(p, label) ==
    /\ pc' = [pc EXCEPT ![p] = label]
    /\ client' = [client EXCEPT ![p] = IF label = "idle" THEN Organizer ELSE @]
    /\ UNCHANGED <<hits, admitted, served, worldVars>>

Tick ==
    /\ now < LastTick[desk] /\ now' = now + 1
    /\ UNCHANGED <<requestVars, desk, eventStatus, present, restarts>>

\* The organizer cancels the event.
CloseEvent ==
    /\ eventStatus = "published" /\ eventStatus' = "closed"
    /\ UNCHANGED <<requestVars, now, desk, present, restarts>>

\* The scope's part of RemoveAttendee and of the deletion of the event.
LoseAttendee(a) ==
    /\ a \in present /\ present' = present \ {a}
    /\ UNCHANGED <<requestVars, now, desk, eventStatus, restarts>>
LoseEvent ==
    /\ eventStatus # "deleted" /\ eventStatus' = "deleted" /\ present' = {}
    /\ UNCHANGED <<requestVars, now, desk, restarts>>

\* The scope's part of a restart.
LoseMemory ==
    /\ restarts < MaxRestarts /\ restarts' = restarts + 1
    /\ pc' = [p \in Procs |-> "idle"] /\ client' = [p \in Procs |-> Organizer]
    /\ hits' = [k \in Actors |-> {}] /\ admitted' = [k \in Actors |-> {}]
    /\ UNCHANGED <<served, now, desk, eventStatus, present>>

-----------------------------------------------------------------------------
ScopeTypeOK ==
    /\ now \in 0 .. MaxTime /\ desk \in Desks /\ eventStatus \in {"published", "closed", "deleted"}
    /\ present \subseteq Attendees
    /\ client \in [Procs -> Actors]
    /\ \A k \in Actors : /\ hits[k] \subseteq admitted[k]
                           /\ admitted[k] \subseteq [at : 0 .. now, no : Nat]
    /\ served \in 0 .. MaxRequests /\ restarts \in 0 .. MaxRestarts

\* In no window of time, wherever it begins, has the limiter admitted more requests of
\* one client than its limit, though entries age, and it forgets them and cleans up.
AdmissionBounded ==
    \A k \in Actors, t \in 0 .. now :
        Cardinality(Within(admitted[k], t, t + RateWindow)) <= RateLimit[desk]

=============================================================================
