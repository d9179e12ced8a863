------------------------------- MODULE MCRsvp -------------------------------
(* Small instances of Rsvp. Each run picks the requests, the event rows and *)
(* the starting tables that make its question interesting.                  *)
EXTENDS Rsvp, TLC

CONSTANTS g1, g2, g3, g4

ProcSymmetry == Permutations(Procs)

GuestOf == <<g1, g2, g3, g4>>

\* An event row that stays published and open.
Published(cap, waitlist) ==
    [status |-> "published", open |-> TRUE, cap |-> cap, waitlist |-> waitlist]

\* Tables whose first MaxInit rows have the given statuses and any party size.
Party(i, s) == {[guest |-> GuestOf[i], status |-> s, plus |-> n] :
                    n \in IF s = "declined" THEN {0} ELSE Plus}
TablesOf(allowed) ==
    {[i \in Ids |-> IF i <= MaxInit THEN f[i] ELSE NoRow] :
        f \in {h \in [1 .. MaxInit -> UNION {Party(i, s) : i \in 1 .. MaxInit, s \in Statuses}] :
                 \A i \in 1 .. MaxInit : h[i] \in UNION {Party(i, s) : s \in allowed[i]}}}

\* Requests, by handler.
Submit(gs, ss) ==
    {[NoJob EXCEPT !.op = "submit", !.guest = g, !.status = s, !.plus = n] :
        g \in gs, s \in ss \ {"declined"}, n \in Plus}
    \cup {[NoJob EXCEPT !.op = "submit", !.guest = g, !.status = s, !.plus = 0] :
        g \in gs, s \in ss \cap {"declined"}}
Update(is, ss, ns, vs) ==
    {[NoJob EXCEPT !.op = "update", !.id = i, !.status = s, !.plus = n, !.valid = v] :
        i \in is, s \in ss, n \in ns, v \in vs}
Organizer(is, ss, ns, gs) ==
    {[NoJob EXCEPT !.op = "organizer", !.id = i, !.status = s, !.plus = n, !.guest = g] :
        i \in is, s \in ss, n \in ns, g \in gs}
Remove(is)  == {[NoJob EXCEPT !.op = "remove", !.id = i] : i \in is}
Promote(is) == {[NoJob EXCEPT !.op = "promote", !.id = i] : i \in is}
Import(bs)  == {[NoJob EXCEPT !.op = "import", !.batch = b, !.plus = n] :
                    b \in bs, n \in ImportPlus}

-----------------------------------------------------------------------------
\* rsvp_all: every handler, on an event that gains and loses its capacity and
\* its waitlist while requests are in flight and calls fail. The import carries
\* parties that take a seat off the headcount; the organizer seats one.
BelowZero == {-2}
AllEvents == {Published(1, TRUE), Published(Unlimited, FALSE)}
AllRequests ==
    Submit({g1, g3}, {"attending"})
    \cup Update({1}, {Keep}, {1}, {TRUE}) \cup Update({1}, {"declined"}, {1}, BOOLEAN)
    \cup Organizer({2}, {"declined"}, {KeepPlus}, {g3, NoGuest})
    \cup Organizer({3}, {"attending"}, {KeepPlus}, {NoGuest})
    \cup Remove({1})
    \cup Promote({2})
    \cup Import({{g1, g3}})
AllTables == TablesOf(<<{"attending", "maybe"}, {"waitlisted", "pending"}>>)

-----------------------------------------------------------------------------
\* rsvp_capacity: the handlers that read the attendee under the mutex, and
\* imports. The organizer moves guest 1 in every direction, guest 2 joins with
\* the largest party, guest 3 waits, guest 4 is new: imported with the largest
\* party, submitted, or seated by the organizer. The event may be cancelled and
\* its deadline may pass.
OpenWaitlist ==
    {Published(2, TRUE),
     [Published(2, TRUE) EXCEPT !.status = "cancelled", !.open = FALSE]}
CapacityRequests ==
    Organizer({1}, {"attending", "maybe", "declined"}, {KeepPlus}, {NoGuest})
    \cup Organizer({4}, {"attending"}, {KeepPlus}, {NoGuest})
    \cup Remove({1, 2})
    \cup Submit({g4}, {"attending"})
    \cup {r \in Submit({g2}, {"attending"}) : r.plus = MaxPlus}
    \cup Import({{g4}})
DrainedTables ==
    {rs \in TablesOf(<<Statuses \ {"waitlisted"}, Statuses \ {"waitlisted"},
                       {"waitlisted"}>>) :
        /\ rs[2].status = "attending" => rs[2].plus = MaxPlus
        /\ \A i \in Ids : FirstOf(rs, i) => ~Fits(rs, i, 2)}

-----------------------------------------------------------------------------
\* rsvp_stale_update: one guest's two self-service updates, a full event.
FullTable == TablesOf(<<{"attending"}, {"attending"}, {"waitlisted"}>>)
SelfUpdates == Update({1}, {Keep, "declined"}, {KeepPlus}, {TRUE})

=============================================================================
