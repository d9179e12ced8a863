--------------------------- MODULE EventLifecycle ---------------------------
(***************************************************************************)
(* One event from creation to deletion: the requests of its owner and      *)
(* co-hosts (internal/event: Create, Update, Publish, Cancel, Reopen,      *)
(* Delete, co-hosts), the hooks they call (server.go: default reminders,   *)
(* cancellation notices) and the hourly cleanup job that warns of and      *)
(* carries out the retention policy (internal/scheduler/cleanup.go).       *)
(*                                                                         *)
(* Every request reads the row, checks it and writes the whole row back:   *)
(* three steps here. The date, the RSVP deadline and the retention are     *)
(* days; the other columns travel with them and are left out.              *)
(***************************************************************************)
EXTENDS Integers, FiniteSets

CONSTANTS
    Procs,        \* request goroutines
    Owner, People,   \* the organizer, and possible co-hosts
    MaxCoHosts,
    Offsets,      \* how long before the event the default reminders are
    WarnWindow,   \* how long before deletion the organizer is warned
    Dates, Retentions, DefaultRetention,
    Requests,     \* the requests that may be sent
    MaxRequests,  \* bound: requests served
    MaxTime,      \* bound: the last day
    MaxRestarts,  \* bound: restarts of the server
    MaxFaults     \* bound: failures of the cleanup job's calls

None  == -1   \* no deadline; a field that a request leaves out
Clear == -2   \* an update that removes the deadline

Statuses == {"draft", "published", "cancelled", "archived"}
Ops      == {"update", "publish", "cancel", "reopen", "delete"}
Event    == [status : Statuses, date : Dates, deadline : Dates \cup {None},
             retention : Retentions]
NoEvent  == [status |-> "none", date |-> 0, deadline |-> None, retention |-> 0]
Request  == [op : Ops, by : People \cup {Owner}, date : Dates \cup {None},
             deadline : Dates \cup {None, Clear}, retention : Retentions \cup {None}]
NoRequest == [op |-> "none", by |-> Owner, date |-> None, deadline |-> None,
              retention |-> None]

ASSUME ConstantsAssumption ==
    /\ Owner \notin People
    /\ MaxCoHosts \in Nat /\ WarnWindow \in Nat
    /\ Offsets \subseteq Nat /\ Dates \subseteq Nat /\ Retentions \subseteq Nat
    /\ DefaultRetention \in Retentions
    /\ \A r \in Requests : r \in Request
    /\ MaxRequests \in Nat /\ MaxTime \in Nat
    /\ MaxRestarts \in Nat /\ MaxFaults \in Nat

VARIABLES
    now,
    row,        \* the event row
    created,    \* the event has been created
    cohosts,    \* its co-hosts
    reminders,  \* offset -> default reminders created
    notices,    \* rounds of cancellation notices
    files,      \* the uploaded files of the event are there
    pc, job, copy,  \* the requests: where they are, what they ask, the row read
    cleanup,    \* where the cleanup job is
    warned,     \* warnedEvents holds the event (memory of the process)
    warnings,   \* retention warnings sent
    served, reopens, restarts, faults

requests == <<pc, job, copy, served>>
job_     == <<cleanup, warned, warnings, restarts, faults>>
rest     == <<created, cohosts, reminders, notices, files, reopens>>
vars     == <<now, row, created, cohosts, reminders, notices, files, pc, job, copy,
              cleanup, warned, warnings, served, reopens, restarts, faults>>

Init ==
    /\ now = 0
    /\ row = NoEvent /\ created = FALSE
    /\ cohosts = {}
    /\ reminders = [o \in Offsets |-> 0]
    /\ notices = 0 /\ files = FALSE
    /\ pc = [p \in Procs |-> "idle"]
    /\ job = [p \in Procs |-> NoRequest]
    /\ copy = [p \in Procs |-> NoEvent]
    /\ cleanup = "idle" /\ warned = FALSE /\ warnings = 0
    /\ served = 0 /\ reopens = 0 /\ restarts = 0 /\ faults = 0

-----------------------------------------------------------------------------
(* Requests of the organizer and the co-hosts.                             *)

\* Create; a retention that is not positive is replaced by the default.
CreateEvent(d, dl, n) ==
    /\ ~created
    /\ dl # None => dl <= d
    /\ created' = TRUE
    /\ row' = [status |-> "draft", date |-> d, deadline |-> dl,
               retention |-> IF n > 0 THEN n ELSE DefaultRetention]
    /\ files' = TRUE
    /\ UNCHANGED <<now, cohosts, reminders, notices, reopens, requests, job_>>

\* FindByID. Delete knows from the row that its caller is the owner; the
\* others ask CanManageEvent.
Begin(p, r) ==
    /\ pc[p] = "idle" /\ served < MaxRequests
    /\ row # NoEvent
    /\ r.op = "delete" => r.by = Owner
    /\ served' = served + 1
    /\ job' = [job EXCEPT ![p] = r]
    /\ copy' = [copy EXCEPT ![p] = row]
    /\ pc' = [pc EXCEPT ![p] = IF r.op = "delete" THEN "write" ELSE "manage"]
    /\ UNCHANGED <<now, row, rest, job_>>

Return(p) ==
    /\ pc' = [pc EXCEPT ![p] = "idle"]
    /\ job' = [job EXCEPT ![p] = NoRequest]
    /\ copy' = [copy EXCEPT ![p] = NoEvent]
    /\ UNCHANGED served

CanManageEvent(a) == row # NoEvent /\ (a = Owner \/ a \in cohosts)

\* Variant: a transition is allowed from any status but archived.
AllowedAnyStatus(r, e) == r.op # "update" => e.status # "archived"

\* The checks that each handler makes on the row it has read: the status of a
\* transition, and a new deadline against the date.
Allowed(r, e) ==
    /\ r.op = "publish" => e.status = "draft"
    /\ r.op = "cancel" => e.status = "published"
    /\ r.op = "reopen" => e.status = "cancelled"
    /\ r.op = "update" /\ r.deadline \in Dates
          => r.deadline <= (IF r.date = None THEN e.date ELSE r.date)

\* Variant: a time that the request leaves out is written all the same.
EditedUnchecked(r, e) == [e EXCEPT !.date = r.date, !.retention = r.retention]

\* The row as the handler will write it.
Edited(r, e) ==
    [status    |-> CASE r.op = "publish" -> "published"
                     [] r.op = "cancel"  -> "cancelled"
                     [] r.op = "reopen"  -> "draft"
                     [] r.op = "delete"  -> "archived"
                     [] OTHER            -> e.status,
     date      |-> IF r.date = None THEN e.date ELSE r.date,
     deadline  |-> CASE r.deadline = None  -> e.deadline
                     [] r.deadline = Clear -> None
                     [] OTHER              -> r.deadline,
     retention |-> IF r.retention = None THEN e.retention ELSE r.retention]

\* CanManageEvent reads the event again; the checks use the row read first.
Manage(p) ==
    /\ pc[p] = "manage"
    /\ IF CanManageEvent(job[p].by) /\ Allowed(job[p], copy[p])
       THEN pc' = [pc EXCEPT ![p] = "write"] /\ UNCHANGED <<job, copy, served>>
       ELSE Return(p)
    /\ UNCHANGED <<now, row, rest, job_>>

\* Variant: an upsert, which creates the row if it is missing.
UpdatedUpsert(e) == row' = e

\* UPDATE ... WHERE id: no effect on a deleted event.
Updated(e) == row' = IF row = NoEvent THEN row ELSE e

Write(p) ==
    /\ pc[p] = "write"
    /\ Updated(Edited(job[p], copy[p]))
    /\ reopens' = IF job[p].op = "reopen" THEN reopens + 1 ELSE reopens
    /\ IF job[p].op \in {"publish", "cancel"}
       THEN pc' = [pc EXCEPT ![p] = "hook"] /\ UNCHANGED <<job, copy, served>>
       ELSE Return(p)
    /\ UNCHANGED <<now, created, cohosts, reminders, notices, files, job_>>

\* onPublish: a reminder per offset whose time is not past. Its foreign key
\* makes the insert fail for a deleted event.
OnPublish(p) ==
    /\ pc[p] = "hook" /\ job[p].op = "publish"
    /\ reminders' = [o \in Offsets |->
                        IF row # NoEvent /\ copy[p].date - o >= now
                        THEN reminders[o] + 1 ELSE reminders[o]]
    /\ Return(p)
    /\ UNCHANGED <<now, row, created, cohosts, notices, files, reopens, job_>>

\* onCancel, if the organizer asked for it.
OnCancel(p) ==
    /\ pc[p] = "hook" /\ job[p].op = "cancel"
    /\ notices' \in {notices, notices + 1}
    /\ Return(p)
    /\ UNCHANGED <<now, row, created, cohosts, reminders, files, reopens, job_>>

\* handleAddCoHost: the check and the insert run under a mutex per event.
AddCoHost(q) ==
    /\ row # NoEvent
    /\ q \notin cohosts
    /\ Cardinality(cohosts) < MaxCoHosts
    /\ cohosts' = cohosts \cup {q}
    /\ UNCHANGED <<now, row, created, reminders, notices, files, reopens, requests, job_>>

\* handleRemoveCoHost, by the owner or by the co-host.
RemoveCoHost(q) ==
    /\ q \in cohosts
    /\ cohosts' = cohosts \ {q}
    /\ UNCHANGED <<now, row, created, reminders, notices, files, reopens, requests, job_>>

-----------------------------------------------------------------------------
(* The cleanup job: each hourly Run warns, then deletes.                   *)

Expiry(e) == e.date + e.retention

\* Variant: warnedEvents is not kept.
WarnForgetful == warned' = FALSE

\* The event is remembered for the life of the process.
RememberWarned == warned' = TRUE

\* A call of the cleanup job fails.
Fault == faults < MaxFaults /\ faults' = faults + 1

\* The warning counts as given even if the email could not be sent.
Warn ==
    /\ RememberWarned
    /\ \/ warnings' = warnings + 1 /\ UNCHANGED faults
       \/ Fault /\ UNCHANGED warnings

WarnExpiring ==
    /\ cleanup = "idle"
    /\ IF /\ row # NoEvent /\ row.status # "archived"
          /\ Expiry(row) > now /\ Expiry(row) - now <= WarnWindow
          /\ ~warned
       THEN Warn
       ELSE UNCHANGED <<warnings, warned, faults>>
    /\ cleanup' = "scan"
    /\ UNCHANGED <<now, row, rest, requests, restarts>>

\* Variant: the retention period is not added.
ExpiredAtDate(e) == e.status # "archived" /\ now > e.date

\* What the query and the loop of deleteExpired select.
Expired(e) == e.status # "archived" /\ now > Expiry(e)

\* Variant: an event whose files an earlier attempt removed is passed over.
ScanExpiredWithFiles ==
    /\ cleanup = "scan"
    /\ cleanup' = IF row # NoEvent /\ Expired(row) /\ files THEN "delete" ELSE "idle"
    /\ UNCHANGED <<now, row, rest, requests, warned, warnings, restarts, faults>>

\* deleteExpired up to its transaction: the ids of the expired events.
ScanExpired ==
    /\ cleanup = "scan"
    /\ cleanup' = IF row # NoEvent /\ Expired(row) THEN "delete" ELSE "idle"
    /\ UNCHANGED <<now, row, rest, requests, warned, warnings, restarts, faults>>

\* onDeleteEvent removes the files, then the row goes by id, with its children.
DeleteExpired ==
    /\ cleanup = "delete"
    /\ cleanup' = "idle"
    /\ files' = FALSE
    /\ row' = NoEvent
    /\ cohosts' = {}
    /\ reminders' = [o \in Offsets |-> 0]
    /\ UNCHANGED <<now, created, notices, reopens, requests, warned, warnings,
                   restarts, faults>>

\* The transaction fails, perhaps after the files were removed.
DeleteFails ==
    /\ cleanup = "delete" /\ Fault
    /\ cleanup' = "idle"
    /\ files' \in {files, FALSE}
    /\ UNCHANGED <<now, row, created, cohosts, reminders, notices, reopens, requests,
                   warned, warnings, restarts>>

\* The owner deletes the account, and with it every event; files stay.
DeleteAccount ==
    /\ row # NoEvent
    /\ row' = NoEvent
    /\ cohosts' = {}
    /\ reminders' = [o \in Offsets |-> 0]
    /\ UNCHANGED <<now, created, notices, files, reopens, requests, job_>>

\* The server restarts: the requests in flight and warnedEvents are lost.
Restart ==
    /\ restarts < MaxRestarts
    /\ restarts' = restarts + 1
    /\ pc' = [p \in Procs |-> "idle"]
    /\ job' = [p \in Procs |-> NoRequest]
    /\ copy' = [p \in Procs |-> NoEvent]
    /\ cleanup' = "idle" /\ warned' = FALSE
    /\ UNCHANGED <<now, row, rest, served, warnings, faults>>

Tick ==
    /\ now < MaxTime
    /\ now' = now + 1
    /\ UNCHANGED <<row, rest, requests, job_>>

Cleanup == WarnExpiring \/ ScanExpired \/ DeleteExpired

Next ==
    \/ \E d \in Dates, dl \in Dates \cup {None}, n \in Retentions \cup {0} :
          CreateEvent(d, dl, n)
    \/ \E p \in Procs : \/ \E r \in Requests : Begin(p, r)
                        \/ Manage(p) \/ Write(p) \/ OnPublish(p) \/ OnCancel(p)
    \/ \E q \in People : AddCoHost(q) \/ RemoveCoHost(q)
    \/ Cleanup \/ DeleteFails \/ DeleteAccount \/ Restart \/ Tick

Spec == Init /\ [][Next]_vars

\* The ticker keeps running the job; the clock need not advance.
FairSpec == Spec /\ WF_vars(Cleanup)

-----------------------------------------------------------------------------
(* Properties                                                              *)

\* Type correctness.
TypeOK ==
    /\ now \in 0 .. MaxTime
    /\ row \in Event \cup {NoEvent}
    /\ created \in BOOLEAN /\ files \in BOOLEAN /\ warned \in BOOLEAN
    /\ cohosts \subseteq People
    /\ reminders \in [Offsets -> Nat]
    /\ notices \in Nat /\ warnings \in Nat /\ reopens \in Nat
    /\ pc \in [Procs -> {"idle", "manage", "write", "hook"}]
    /\ job \in [Procs -> Request \cup {NoRequest}]
    /\ copy \in [Procs -> Event \cup {NoEvent}]
    /\ cleanup \in {"idle", "scan", "delete"}
    /\ served \in 0 .. MaxRequests
    /\ restarts \in 0 .. MaxRestarts /\ faults \in 0 .. MaxFaults

\* Each publication schedules the default reminders once.
RemindersPerPublication == \A o \in Offsets : reminders[o] <= 1 + reopens

\* No request that read the event before it was deleted brings it back.
DeletedStaysDeleted == [][created /\ row = NoEvent => row' = NoEvent]_vars

\* deleteExpired "finds and deletes events where event_date + retention_days <
\* now": the retention period of what it deletes is over when it is deleted.
DeletedOnlyExpired ==
    [][cleanup = "delete" /\ row # NoEvent /\ row' = NoEvent /\ cleanup' # cleanup
         => now > Expiry(row)]_vars

\* The organizer is warned once in the life of a server process.
WarnedOnce == warnings <= 1 + restarts

\* However requests, hooks, restarts and failing deletions interleave, reminders
\* are not scheduled and warnings not given a second time.
NothingTwice == RemindersPerPublication /\ WarnedOnce

\* The data of an event whose retention period is over is deleted.
ExpiredIsDeleted == []<>~(row # NoEvent /\ Expired(row))

\* SPEC.md: "Soft delete for retention window; hard delete by cleanup job".
ArchivedIsDeleted == (row.status = "archived" /\ now > Expiry(row)) ~> row = NoEvent

=============================================================================
