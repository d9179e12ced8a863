-------------------------------- MODULE Rsvp --------------------------------
(***************************************************************************)
(* The RSVP service of one event (internal/rsvp): the attendee table, the  *)
(* event row it reads, the event's capacity mutex, and the request         *)
(* goroutines that run SubmitRSVP, UpdateByToken, RemoveAttendee,          *)
(* UpdateAttendeeAsOrganizer, PromoteAttendee and ExecuteCSVImport.        *)
(*                                                                         *)
(* One action is one database statement (or the mutex acquisition) of a    *)
(* handler together with the decisions the handler takes on its result, so *)
(* every interleaving of statements the database allows is a behaviour.    *)
(* The mutex is released with the last statement of the handler.           *)
(*                                                                         *)
(* A definition marked "Variant" is a plausible mistake in the definition  *)
(* that follows it; it takes no part in the specification and is there to  *)
(* show that a property notices the mistake.                               *)
(***************************************************************************)
EXTENDS Integers, FiniteSets

CONSTANTS
    Procs,        \* request goroutines
    NoProc,       \* the holder of a free mutex
    Guests,       \* contact identities (the email or phone of a guest)
    NoGuest,      \* no contact
    MaxRows,      \* bound: attendee rows ever created
    MaxInit,      \* bound: attendee rows that exist initially
    MaxPlus,      \* bound: plus-ones of one attendee
    ImportPlus,   \* the plus-ones the rows of an import may carry
    MaxRequests,  \* bound: requests accepted in a behaviour
    Events,       \* the values the event row may take
    Requests,     \* the requests clients and organizers may send
    Population,   \* the attendee tables a behaviour may start from
    Faults        \* whether a database call may fail

Keep      == "keep"   \* a status field the request leaves out
KeepPlus  == MaxPlus + 1  \* a plusOnes field the request leaves out
Unlimited == -1       \* MaxCapacity is nil

Ids      == 1 .. MaxRows
Plus     == 0 .. MaxPlus        \* what the forms accept
PlusOnes == Plus \cup ImportPlus \* what a row may hold
Statuses == {"pending", "attending", "maybe", "declined", "waitlisted"}
Ops      == {"submit", "update", "organizer", "remove", "promote", "import"}

\* The columns of an attendee row that the handlers branch on.
Attendee == [guest : Guests, status : Statuses, plus : PlusOnes]
NoRow    == [guest |-> NoGuest, status |-> "none", plus |-> 0]
Row      == Attendee \cup {NoRow}

\* The columns of the event row that the RSVP service reads; open is false
\* once the RSVP deadline has passed.
Event == [status : {"draft", "published", "cancelled", "archived"},
          open : BOOLEAN, cap : Nat \cup {Unlimited}, waitlist : BOOLEAN]

\* A request: guest and batch are contacts (submit, organizer edit, import),
\* id the attendee addressed, valid whether its question answers validate.
Request == [op : Ops, guest : Guests \cup {NoGuest}, id : Ids \cup {0},
            status : Statuses \cup {Keep}, plus : PlusOnes \cup {KeepPlus},
            valid : BOOLEAN, batch : SUBSET Guests]

NoJob  == [op |-> "none", guest |-> NoGuest, id |-> 0, status |-> Keep,
           plus |-> KeepPlus, valid |-> TRUE, batch |-> {}]

-----------------------------------------------------------------------------
(* The attendee table, as the queries of store.go see it.                  *)

\* COUNT( * ) + SUM(plus_ones) over the attending rows: the seats taken, one
\* per row and one per plus-one of it, less what a row with fewer than -1
\* plus-ones (only an import writes one) takes off the sum.
Seats(rs) == {s \in Ids \X Plus : /\ rs[s[1]].status = "attending"
                                  /\ s[2] <= rs[s[1]].plus}
Owed(rs)  == {s \in Ids \X Plus : /\ rs[s[1]].status = "attending"
                                  /\ s[2] + rs[s[1]].plus < -1}
Headcount(rs) == Cardinality(Seats(rs)) - Cardinality(Owed(rs))

\* What one row adds to the attending headcount.
Contribution(r) == IF r.status = "attending" THEN 1 + r.plus ELSE 0

Taken(rs, g) == \E i \in Ids : rs[i].guest = g
RowOf(rs, g) == IF Taken(rs, g) THEN CHOOSE i \in Ids : rs[i].guest = g ELSE 0

\* ORDER BY created_at, id: row ids are allocated in creation order.
Waitlist(rs) == {i \in Ids : rs[i].status = "waitlisted"}
FirstOf(rs, i) == i \in Waitlist(rs) /\ \A j \in Waitlist(rs) : i <= j

\* The unique indexes on (event_id, email) and (event_id, phone).
Conflict(rs, i, r) == \E j \in Ids \ {i} : rs[j].guest = r.guest

\* Variant: an upsert that recreates a row deleted meanwhile.
UpdatedUpsert(rs, i, r) == IF Conflict(rs, i, r) THEN rs ELSE [rs EXCEPT ![i] = r]

\* UPDATE ... WHERE id: no row, no effect; a unique-index violation fails.
UpdateFails(rs, i, r) == rs[i] # NoRow /\ Conflict(rs, i, r)
Updated(rs, i, r) ==
    IF rs[i] = NoRow \/ Conflict(rs, i, r) THEN rs ELSE [rs EXCEPT ![i] = r]

Limited(e) == e.cap # Unlimited
Fits(rs, i, cap) == Headcount(rs) + 1 + rs[i].plus <= cap

\* Every contact occurs at most once, and a declined guest brings nobody.
UniqueIn(rs) == \A i, j \in Ids :
                    rs[i] # NoRow /\ rs[i].guest = rs[j].guest => i = j
DeclinedAloneIn(rs) == \A i \in Ids : rs[i].status = "declined" => rs[i].plus = 0

ASSUME ConstantsAssumption ==
    /\ NoProc \notin Procs
    /\ NoGuest \notin Guests
    /\ MaxRows \in Nat /\ MaxPlus \in Nat /\ MaxRequests \in Nat
    /\ MaxInit \in 0 .. MaxRows
    /\ ImportPlus \subseteq -(MaxPlus + 1) .. MaxPlus
    /\ Events \subseteq Event /\ Events # {}
    /\ \A r \in Requests : r \in Request
    /\ Faults \in BOOLEAN

\* A submission carries a contact and a public status, and plus-ones that
\* SubmitRSVP has already reset for a declined guest; a self-service update
\* has a public status or none; submissions and updates with negative plus-ones
\* are refused. The rows of an import are pending and carry any number:
\* PreviewCSVImport refuses a negative one, ExecuteCSVImport does not look.
ASSUME RequestsAssumption ==
    \A r \in Requests :
        /\ r.op = "submit" => /\ r.guest \in Guests
                              /\ r.status \in {"attending", "maybe", "declined"}
                              /\ r.plus \in Plus
                              /\ r.status = "declined" => r.plus = 0
        /\ r.op = "update" => r.status \in {Keep, "attending", "maybe", "declined"}
        /\ r.op = "import" => r.plus \in ImportPlus
        /\ r.op \in {"update", "organizer"} => r.plus \in Plus \cup {KeepPlus}
        /\ r.op \in {"update", "organizer", "remove", "promote"} => r.id \in Ids

\* A starting table is one that a sequence of requests can produce.
ASSUME PopulationAssumption ==
    \A rs \in Population :
        /\ rs \in [Ids -> Row]
        /\ \A i \in Ids : i > MaxInit => rs[i] = NoRow
        /\ UniqueIn(rs) /\ DeclinedAloneIn(rs)

-----------------------------------------------------------------------------
VARIABLES
    ev,      \* the event row
    rows,    \* the attendee table
    nextId,  \* the id the next created row gets
    mu,      \* who holds the event's capacity mutex
    pc,      \* where each request goroutine is
    job,     \* the request it serves
    view,    \* what it has read so far
    served   \* requests accepted so far

vars == <<ev, rows, nextId, mu, pc, job, view, served>>

\* Local variables of a handler: the event row and the attendee row it has
\* read, the headcount of its last GetStats, the contacts left to import.
NoView == [ev |-> CHOOSE e \in Events : TRUE, id |-> 0, row |-> NoRow,
           count |-> 0, todo |-> {}]
View   == [ev : Events, id : Ids \cup {0}, row : Row, count : Int,
           todo : SUBSET Guests]

Labels == {"idle", "event", "lock", "find", "check", "write",
           "loopEvent", "loopStats", "loopHead", "loopWrite"}

Init ==
    /\ ev \in Events
    /\ rows \in Population
    /\ Limited(ev) => Headcount(rows) <= ev.cap
    /\ nextId = MaxInit + 1
    /\ mu = NoProc
    /\ pc = [p \in Procs |-> "idle"]
    /\ job = [p \in Procs |-> NoJob]
    /\ view = [p \in Procs |-> NoView]
    /\ served = 0

-----------------------------------------------------------------------------
(* Control flow shared by the handlers.                                    *)

At(p, op, label) == pc[p] = label /\ job[p].op = op

\* A handler accepts request r, having read v, and continues at label.
Accept(p, r, v, label) ==
    /\ pc[p] = "idle"
    /\ served < MaxRequests
    /\ served' = served + 1
    /\ job' = [job EXCEPT ![p] = r]
    /\ view' = [view EXCEPT ![p] = v]
    /\ pc' = [pc EXCEPT ![p] = label]
    /\ UNCHANGED <<ev, rows, nextId, mu>>

\* The capacity mutex is taken only if the event row read has a capacity.
LockOr(e, label) == IF Limited(e) THEN "lock" ELSE label

\* The handler goes on at label with locals v.
Goto(p, v, label) ==
    /\ view' = [view EXCEPT ![p] = v]
    /\ pc' = [pc EXCEPT ![p] = label]
    /\ UNCHANGED <<job, mu, ev, served>>

\* Variant: an early return that forgets the Unlock.
ReturnLocked(p) ==
    /\ pc' = [pc EXCEPT ![p] = "idle"]
    /\ job' = [job EXCEPT ![p] = NoJob]
    /\ view' = [view EXCEPT ![p] = NoView]
    /\ UNCHANGED <<ev, served, mu>>

\* The handler returns; its deferred Unlock runs.
Return(p) ==
    /\ pc' = [pc EXCEPT ![p] = "idle"]
    /\ job' = [job EXCEPT ![p] = NoJob]
    /\ view' = [view EXCEPT ![p] = NoView]
    /\ mu' = IF mu = p THEN NoProc ELSE mu
    /\ UNCHANGED <<ev, served>>

\* Variant: the critical section is entered without waiting.
LockNoWait(p) ==
    /\ pc[p] = "lock"
    /\ mu' = p
    /\ pc' = [pc EXCEPT ![p] = IF job[p].op = "update" THEN "check" ELSE "find"]
    /\ UNCHANGED <<ev, rows, nextId, job, view, served>>

Lock(p) ==
    /\ pc[p] = "lock"
    /\ mu = NoProc
    /\ mu' = p
    /\ pc' = [pc EXCEPT ![p] = IF job[p].op = "update" THEN "check" ELSE "find"]
    /\ UNCHANGED <<ev, rows, nextId, job, view, served>>

\* A database call fails (or the request context is cancelled): a handler
\* returns at once, except that the import goes on with its next row.
Fail(p) ==
    /\ Faults
    /\ pc[p] \notin {"idle", "lock"}
    /\ ~At(p, "import", "write")
    /\ Return(p)
    /\ UNCHANGED <<rows, nextId>>

-----------------------------------------------------------------------------
(* SubmitRSVP                                                              *)

\* Validation, GetByShareToken, the published and deadline checks.
SubmitBegin(p, r) ==
    /\ r.op = "submit"
    /\ ev.status = "published" /\ ev.open
    /\ Accept(p, r, [NoView EXCEPT !.ev = ev], LockOr(ev, "find"))

\* FindByEventAndEmail / FindByEventAndPhone.
SubmitFind(p) ==
    /\ At(p, "submit", "find")
    /\ LET i == RowOf(rows, job[p].guest)
           v == [view[p] EXCEPT !.id = i,
                                !.row = IF i = 0 THEN NoRow ELSE rows[i]]
       IN  Goto(p, v, IF job[p].status = "attending" /\ Limited(view[p].ev)
                      THEN "check" ELSE "write")
    /\ UNCHANGED <<rows, nextId>>

\* GetStats, and the capacity decision of either branch. A new attendee's
\* current contribution is that of no row.
SubmitCheck(p) ==
    /\ At(p, "submit", "check")
    /\ LET over == Headcount(rows) - Contribution(view[p].row)
                      + 1 + job[p].plus > view[p].ev.cap
       IN  \/ /\ ~over
              /\ Goto(p, view[p], "write")
           \/ /\ over /\ view[p].ev.waitlist
              /\ job' = [job EXCEPT ![p].status = "waitlisted"]
              /\ pc' = [pc EXCEPT ![p] = "write"]
              /\ UNCHANGED <<ev, mu, view, served>>
           \/ /\ over /\ ~view[p].ev.waitlist
              /\ Return(p)
    /\ UNCHANGED <<rows, nextId>>

\* Update of the existing attendee, with every column the request carries.
SubmitUpdate(p) ==
    /\ At(p, "submit", "write") /\ view[p].id # 0
    /\ rows' = Updated(rows, view[p].id,
                       [guest |-> job[p].guest, status |-> job[p].status,
                        plus |-> job[p].plus])
    /\ Return(p)
    /\ UNCHANGED nextId

\* Variant: no unique index stops a second row for a contact.
CreateUnindexed(g, s, n) ==
    /\ nextId \in Ids
    /\ rows' = [rows EXCEPT ![nextId] = [guest |-> g, status |-> s, plus |-> n]]
    /\ nextId' = nextId + 1

\* Create inserts the row; a contact taken meanwhile makes it fail.
Create(g, s, n) ==
    IF Taken(rows, g)
    THEN UNCHANGED <<rows, nextId>>
    ELSE /\ nextId \in Ids
         /\ rows' = [rows EXCEPT ![nextId] = [guest |-> g, status |-> s, plus |-> n]]
         /\ nextId' = nextId + 1

SubmitCreate(p) ==
    /\ At(p, "submit", "write") /\ view[p].id = 0
    /\ Create(job[p].guest, job[p].status, job[p].plus)
    /\ Return(p)

-----------------------------------------------------------------------------
(* UpdateByToken, UpdateAttendeeAsOrganizer, RemoveAttendee                *)

\* Variants: the omitted plusOnes field is written as it is; declining keeps the
\* plus-ones.
EditedUnchecked(r, a) ==
    [guest |-> a.guest, status |-> IF r.status = Keep THEN a.status ELSE r.status,
     plus |-> r.plus]
EditedNoReset(r, a) ==
    [guest |-> a.guest, status |-> IF r.status = Keep THEN a.status ELSE r.status,
     plus |-> IF r.plus = KeepPlus THEN a.plus ELSE r.plus]

\* The attendee after a partial update; declining resets the plus-ones.
Edited(r, a) ==
    LET s == IF r.status = Keep THEN a.status ELSE r.status
    IN  [guest  |-> IF r.op = "organizer" /\ r.guest # NoGuest
                    THEN r.guest ELSE a.guest,
         status |-> s,
         plus   |-> IF s = "declined" THEN 0
                    ELSE IF r.plus = KeepPlus THEN a.plus ELSE r.plus]

\* The additional seats that each handler checks against the capacity, from
\* the attendee as it was read.
JoinSeats(r, a) ==
    1 + (IF r.plus = KeepPlus THEN a.plus ELSE r.plus)
UpdateSeats(r, a) ==
    IF r.status = "attending" /\ a.status # "attending" THEN JoinSeats(r, a)
    ELSE IF a.status = "attending" /\ r.plus # KeepPlus /\ r.plus > a.plus
         THEN r.plus - a.plus
    ELSE 0
OrganizerSeats(r, a) ==
    IF r.status = "attending" /\ a.status # "attending" THEN JoinSeats(r, a) ELSE 0

\* FindByRSVPToken: the attendee is read before the mutex is taken.
UpdateBegin(p, r) ==
    /\ r.op = "update"
    /\ rows[r.id] # NoRow
    /\ Accept(p, r, [NoView EXCEPT !.id = r.id, !.row = rows[r.id]], "event")

\* GetByID of the event, the deadline, and the waitlisted guest's early return.
UpdateEvent(p) ==
    /\ At(p, "update", "event")
    /\ IF ev.open /\ ~(view[p].row.status = "waitlisted"
                       /\ job[p].status = "attending")
       THEN Goto(p, [view[p] EXCEPT !.ev = ev], LockOr(ev, "check"))
       ELSE Return(p)
    /\ UNCHANGED <<rows, nextId>>

\* GetByID of the event; the attendee is read later, under the mutex.
OrganizerBegin(p, r) ==
    /\ r.op \in {"organizer", "remove"}
    /\ Accept(p, r, [NoView EXCEPT !.ev = ev], LockOr(ev, "find"))

\* FindByID.
AttendeeFind(p) ==
    /\ pc[p] = "find" /\ job[p].op \in {"organizer", "remove"}
    /\ IF rows[job[p].id] = NoRow
       THEN Return(p)
       ELSE Goto(p, [view[p] EXCEPT !.id = job[p].id, !.row = rows[job[p].id]],
                 IF job[p].op = "remove" THEN "write" ELSE "check")
    /\ UNCHANGED <<rows, nextId>>

\* GetStats and the capacity checks of both kinds of update.
EditCheck(p) ==
    /\ pc[p] = "check" /\ job[p].op \in {"update", "organizer"}
    /\ LET need == IF job[p].op = "update" THEN UpdateSeats(job[p], view[p].row)
                                           ELSE OrganizerSeats(job[p], view[p].row)
       IN  IF Limited(view[p].ev) /\ need > 0
                 /\ Headcount(rows) + need > view[p].ev.cap
           THEN Return(p)
           ELSE Goto(p, view[p], "write")
    /\ UNCHANGED <<rows, nextId>>

\* A handler that may have freed a seat starts the promotion loop.
PromoteOrReturn(p, freed) ==
    IF freed THEN Goto(p, view[p], "loopEvent") ELSE Return(p)

\* The whole row is written from the attendee read earlier. Answers that do
\* not validate make the handler return after the row has been written.
UpdateWrite(p) ==
    /\ At(p, "update", "write")
    /\ LET a == view[p].row
           b == Edited(job[p], a)
       IN  /\ rows' = Updated(rows, view[p].id, b)
           /\ PromoteOrReturn(p, /\ ~UpdateFails(rows, view[p].id, b)
                                 /\ job[p].valid
                                 /\ a.status = "attending"
                                 /\ b.status \in {"declined", "maybe"})
    /\ UNCHANGED nextId

OrganizerWrite(p) ==
    /\ At(p, "organizer", "write")
    /\ LET a == view[p].row
           b == Edited(job[p], a)
       IN  /\ rows' = Updated(rows, view[p].id, b)
           /\ PromoteOrReturn(p, /\ ~UpdateFails(rows, view[p].id, b)
                                 /\ a.status = "attending"
                                 /\ b.status # "attending")
    /\ UNCHANGED nextId

RemoveWrite(p) ==
    /\ At(p, "remove", "write")
    /\ rows' = [rows EXCEPT ![view[p].id] = NoRow]
    /\ PromoteOrReturn(p, view[p].row.status = "attending")
    /\ UNCHANGED nextId

-----------------------------------------------------------------------------
(* PromoteAttendee: no mutex and no capacity check.                        *)

PromoteBegin(p, r) ==
    /\ r.op = "promote"
    /\ rows[r.id].status = "waitlisted"
    /\ Accept(p, r, [NoView EXCEPT !.id = r.id, !.row = rows[r.id]], "write")

Promoted(a) == [a EXCEPT !.status = "attending"]

PromoteWrite(p) ==
    /\ At(p, "promote", "write")
    /\ rows' = Updated(rows, view[p].id, Promoted(view[p].row))
    /\ Return(p)
    /\ UNCHANGED nextId

-----------------------------------------------------------------------------
(* ExecuteCSVImport: no mutex; the contacts present are read once.         *)

ImportBegin(p, r) ==
    /\ r.op = "import"
    /\ ev.status = "published"
    /\ Accept(p, r, [NoView EXCEPT !.ev = ev], "find")

ImportFind(p) ==
    /\ At(p, "import", "find")
    /\ LET todo == {g \in job[p].batch : ~Taken(rows, g)}
       IN  IF todo = {} THEN Return(p)
           ELSE Goto(p, [view[p] EXCEPT !.todo = todo], "write")
    /\ UNCHANGED <<rows, nextId>>

\* One row of the batch; a failed insert is counted and skipped.
ImportWrite(p) ==
    /\ At(p, "import", "write")
    /\ \E g \in view[p].todo :
          /\ \/ Create(g, "pending", job[p].plus)
             \/ Faults /\ UNCHANGED <<rows, nextId>>
          /\ IF view[p].todo = {g} THEN Return(p)
             ELSE Goto(p, [view[p] EXCEPT !.todo = @ \ {g}], "write")

-----------------------------------------------------------------------------
(* promoteWaitlistLoop: one round of promoteFromWaitlist is four           *)
(* statements; the loop ends with the first round that promotes nobody.    *)

LoopEvent(p) ==
    /\ pc[p] = "loopEvent"
    /\ IF Limited(ev) /\ ev.waitlist
       THEN Goto(p, [view[p] EXCEPT !.ev = ev], "loopStats")
       ELSE Return(p)
    /\ UNCHANGED <<rows, nextId>>

LoopStats(p) ==
    /\ pc[p] = "loopStats"
    /\ IF Headcount(rows) >= view[p].ev.cap THEN Return(p)
       ELSE Goto(p, [view[p] EXCEPT !.count = Headcount(rows)], "loopHead")
    /\ UNCHANGED <<rows, nextId>>

\* Variant: the newest waitlisted attendee is taken first.
LoopHeadNewest(p) ==
    /\ pc[p] = "loopHead"
    /\ \/ /\ Waitlist(rows) = {}
          /\ Return(p)
       \/ \E i \in Waitlist(rows) :
             /\ \A j \in Waitlist(rows) : j <= i
             /\ IF view[p].count + 1 + rows[i].plus > view[p].ev.cap
                THEN Return(p)
                ELSE Goto(p, [view[p] EXCEPT !.id = i, !.row = rows[i]], "loopWrite")
    /\ UNCHANGED <<rows, nextId>>

\* FindFirstWaitlisted; a head whose party is too large ends the loop.
LoopHead(p) ==
    /\ pc[p] = "loopHead"
    /\ \/ /\ Waitlist(rows) = {}
          /\ Return(p)
       \/ \E i \in Ids :
             /\ FirstOf(rows, i)
             /\ IF view[p].count + 1 + rows[i].plus > view[p].ev.cap
                THEN Return(p)
                ELSE Goto(p, [view[p] EXCEPT !.id = i, !.row = rows[i]], "loopWrite")
    /\ UNCHANGED <<rows, nextId>>

\* Variant: one promotion per freed attendee instead of a loop.
LoopWriteOnce(p) ==
    /\ pc[p] = "loopWrite"
    /\ rows' = Updated(rows, view[p].id, Promoted(view[p].row))
    /\ Return(p)
    /\ UNCHANGED nextId

LoopWrite(p) ==
    /\ pc[p] = "loopWrite"
    /\ LET b == Promoted(view[p].row)
       IN  /\ rows' = Updated(rows, view[p].id, b)
           /\ IF UpdateFails(rows, view[p].id, b) THEN Return(p)
              ELSE Goto(p, view[p], "loopEvent")
    /\ UNCHANGED nextId

-----------------------------------------------------------------------------
\* Another component writes the event row: an organizer edits, publishes,
\* cancels or archives it, or the RSVP deadline passes.
EditEvent ==
    /\ ev' \in Events
    /\ UNCHANGED <<rows, nextId, mu, pc, job, view, served>>

\* Every accepted request has been answered and the bound is used up.
Done ==
    /\ served = MaxRequests
    /\ \A p \in Procs : pc[p] = "idle"
    /\ UNCHANGED vars

Begin(p) == \E r \in Requests :
    \/ SubmitBegin(p, r) \/ UpdateBegin(p, r) \/ OrganizerBegin(p, r)
    \/ PromoteBegin(p, r) \/ ImportBegin(p, r)

\* One step of a request goroutine that has accepted a request.
Step(p) ==
    \/ Lock(p)
    \/ SubmitFind(p) \/ SubmitCheck(p) \/ SubmitUpdate(p) \/ SubmitCreate(p)
    \/ UpdateEvent(p) \/ AttendeeFind(p) \/ EditCheck(p)
    \/ UpdateWrite(p) \/ OrganizerWrite(p) \/ RemoveWrite(p)
    \/ PromoteWrite(p) \/ ImportFind(p) \/ ImportWrite(p)
    \/ LoopEvent(p) \/ LoopStats(p) \/ LoopHead(p) \/ LoopWrite(p)

Next ==
    \/ \E p \in Procs : Begin(p) \/ Step(p) \/ Fail(p)
    \/ EditEvent
    \/ Done

Spec == Init /\ [][Next]_vars

\* The Go scheduler runs every goroutine that can run, and sync.Mutex hands
\* the lock to a waiter that has starved.
Fairness == \A p \in Procs : WF_vars(Step(p)) /\ SF_vars(Lock(p))

FairSpec == Spec /\ Fairness

-----------------------------------------------------------------------------
(* Properties                                                              *)

\* Type correctness of the tables, the mutex and the handlers' locals.
TypeOK ==
    /\ ev \in Events
    /\ rows \in [Ids -> Row]
    /\ nextId \in 1 .. MaxRows + 1
    /\ mu \in Procs \cup {NoProc}
    /\ pc \in [Procs -> Labels]
    /\ job \in [Procs -> Request \cup {NoJob}]
    /\ view \in [Procs -> View]
    /\ served \in 0 .. MaxRequests

\* The attending headcount never exceeds the event's capacity: what the
\* capacity mutex is for (getEventMutex and its comment). It needs imports whose
\* plus-ones the preview accepts (ImportPlus within Plus): a party of -2 takes a
\* seat off the headcount, which is back when the party leaves.
CapacityRespected == Limited(ev) => Headcount(rows) <= ev.cap

\* Two submissions of one contact, an import racing a submission, or an
\* organizer's edit of a contact never leave two rows with the same contact.
UniqueContacts == UniqueIn(rows)

\* A declined attendee holds no plus-ones, whichever handler wrote the row and
\* however stale the copy it wrote was.
DeclinedBringNobody == DeclinedAloneIn(rows)

\* What every reader of the attendee table relies on: both hold between any two
\* statements of handlers and imports.
AttendeesSound == UniqueContacts /\ DeclinedBringNobody

\* A removed attendee stays removed: no handler that read the row before
\* RemoveAttendee deleted it brings it back.
RemovedStaysRemoved ==
    [][\A i \in Ids : i < nextId /\ rows[i] = NoRow => rows'[i] = NoRow]_vars

\* The promotion loop serves the waitlist in order of creation, and only a
\* party that fits at the moment its row is written.
PromotionInOrder ==
    [][\A p \in Procs, i \in Ids :
          pc[p] = "loopWrite" /\ rows[i].status = "waitlisted"
                              /\ rows'[i].status = "attending"
                              /\ pc'[p] # pc[p]
            => FirstOf(rows, i) /\ Fits(rows, i, ev.cap)]_vars

\* Whenever nobody holds the mutex, the first waitlisted party does not fit:
\* a seat that was freed has been offered before the handler returned (again with
\* imports whose plus-ones the preview accepts).
WaitlistDrained ==
    mu = NoProc /\ Limited(ev) /\ ev.waitlist
        => \A i \in Ids : FirstOf(rows, i) => ~Fits(rows, i, ev.cap)

\* The service as an allocator of seats: the capacity of the (first) event row,
\* the seats each row has or waits for, and whether a promotion loop is under way.
Cap           == (CHOOSE e \in Events : TRUE).cap
Looping(l)    == l \in {"loopEvent", "loopStats", "loopHead", "loopWrite"}
InLoop        == \E p \in Procs : Looping(pc[p])
WaitsFor(r)   == IF r.status = "waitlisted" THEN 1 + r.plus ELSE 0
SeatsOf(rs)   == [i \in Ids |-> Contribution(rs[i])]
WantsOf(rs)   == [i \in Ids |-> WaitsFor(rs[i])]

Allocator == INSTANCE SeatAllocator WITH
    Places <- Ids, Largest <- MaxPlus + 1, Capacity <- Cap,
    seats <- SeatsOf(rows), wants <- WantsOf(rows), serving <- InLoop

\* Seen from outside the service seats one party at a time and serves the
\* waitlist in order, although every handler reads, decides and writes in separate
\* statements and the promotion loop takes four of them per party (with imports
\* whose plus-ones the preview accepts: a negative party takes no number of seats).
AllocatesSeats == Allocator!Spec

\* Every accepted request is answered: no handler waits for the mutex for
\* ever, none returns without releasing it, and the promotion loop ends.
RequestsAnswered == \A p \in Procs : []<>(pc[p] = "idle")

=============================================================================
