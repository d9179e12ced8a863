----------------------------- MODULE Reminders -----------------------------
(***************************************************************************)
(* Scheduled reminders (internal/scheduler): the reminders table of one    *)
(* event, the reminder job that every server process runs on its ticker,   *)
(* and the organizer's create, update and cancel requests.                 *)
(*                                                                         *)
(* One action is one database statement or one call of the notification    *)
(* service, whose error does not say that nothing was delivered: what one  *)
(* call does, its attempts included, is in Notification. A worker is the   *)
(* job goroutine of one server process; several processes may share one    *)
(* PostgreSQL database. Cancelling a worker's context (Stop) makes all *)
(* its later database calls fail; a crash or a recovered panic loses its   *)
(* place in the iteration.                                                 *)
(***************************************************************************)
EXTENDS Integers, FiniteSets

CONSTANTS
    Workers,     \* reminder jobs, one per server process
    Rem,         \* reminder ids
    NoRem,       \* no reminder
    Editable,    \* the reminders that organizers update
    Guests,      \* attendees
    Reachable,   \* attendees with an email or a phone
    Groups,      \* reminder id -> the sets of attendees its target group may consist of
    MaxTime,     \* bound: the last instant
    MaxEdits,    \* bound: updates by organizers
    MaxMishaps,  \* bound: mishaps in a behaviour
    Mishaps      \* their kinds: "error" (database), "crash", "stop" (shutdown)

ASSUME ConstantsAssumption ==
    /\ NoRem \notin Rem
    /\ Editable \subseteq Rem
    /\ Reachable \subseteq Guests
    /\ Groups \in [Rem -> SUBSET (SUBSET Guests \ {{}})]
    /\ MaxTime \in Nat /\ MaxEdits \in Nat /\ MaxMishaps \in Nat
    /\ Mishaps \subseteq {"error", "crash", "stop"}

Times    == 0 .. MaxTime
Keep     == -1       \* an update that leaves remindAt out
NoEdit   == -2       \* no update in flight
Statuses == {"none", "scheduled", "processing", "sent", "failed",
             "cancelled", "deleted"}
Settled  == {"sent", "failed", "cancelled"}
Labels   == {"idle", "claim", "targets", "event", "send", "settle"}

VARIABLES
    now,        \* the clock
    status,     \* reminder id -> its status ("none": not created yet)
    at,         \* reminder id -> remind_at
    gone,       \* the event has been deleted
    edit,       \* reminder id -> remind_at that an update is about to write
    sent,       \* reminder id, attendee -> notifications handed over
    earliest,   \* reminder id -> the earliest remind_at it has had
    acked,      \* the reminders some notification of which returned no error
    pc,         \* where each worker is
    live,       \* whether a worker's context is not cancelled
    due,        \* the list FindDue returned, less what has been processed
    cur,        \* the reminder being processed
    todo,       \* the attendees still to be notified
    verdict,    \* the status the worker will set
    edits, mishaps  \* how much of the bounds is used

table   == <<status, at, earliest, gone>>
local   == <<pc, due, cur, todo, verdict>>
outside == <<now, gone, edit, edits>>
mail    == <<sent, acked>>
vars    == <<now, status, at, earliest, gone, edit, sent, acked, pc, live,
             due, cur, todo, verdict, edits, mishaps>>

Init ==
    /\ now = 0
    /\ status = [r \in Rem |-> "none"]
    /\ at = [r \in Rem |-> 0]
    /\ gone = FALSE
    /\ edit = [r \in Rem |-> NoEdit]
    /\ sent = [r \in Rem |-> [g \in Guests |-> 0]]
    /\ earliest = [r \in Rem |-> 0]
    /\ acked = {}
    /\ pc = [w \in Workers |-> "idle"]
    /\ live = [w \in Workers |-> TRUE]
    /\ due = [w \in Workers |-> {}]
    /\ cur = [w \in Workers |-> NoRem]
    /\ todo = [w \in Workers |-> {}]
    /\ verdict = [w \in Workers |-> "failed"]
    /\ edits = 0
    /\ mishaps = 0

-----------------------------------------------------------------------------
(* The organizer's requests, and the rest of the system.                   *)

\* handleCreate, and the default reminders of a publish: remindAt is not past.
CreateReminder(r, t) ==
    /\ status[r] = "none" /\ ~gone
    /\ t >= now
    /\ status' = [status EXCEPT ![r] = "scheduled"]
    /\ at' = [at EXCEPT ![r] = t]
    /\ earliest' = [earliest EXCEPT ![r] = t]
    /\ UNCHANGED <<outside, mail, local, live, mishaps>>

\* Variant: an omitted remindAt is taken for a value.
UpdateReadUnchecked(r, t) ==
    /\ r \in Editable
    /\ edits < MaxEdits
    /\ edit[r] = NoEdit
    /\ status[r] = "scheduled"
    /\ edit' = [edit EXCEPT ![r] = t]
    /\ edits' = edits + 1
    /\ UNCHANGED <<now, table, mail, local, live, mishaps>>

\* handleUpdate up to its checks: FindByID, and a new remindAt that is not past.
UpdateRead(r, t) ==
    /\ r \in Editable
    /\ edits < MaxEdits
    /\ edit[r] = NoEdit
    /\ status[r] = "scheduled"
    /\ t = Keep \/ t >= now
    /\ edit' = [edit EXCEPT ![r] = IF t = Keep THEN at[r] ELSE t]
    /\ edits' = edits + 1
    /\ UNCHANGED <<now, table, mail, local, live, mishaps>>

\* Update writes the whole row, with the status that FindByID returned.
UpdateWrite(r) ==
    /\ edit[r] # NoEdit
    /\ edit' = [edit EXCEPT ![r] = NoEdit]
    /\ IF status[r] = "deleted"
       THEN UNCHANGED <<status, at, earliest>>
       ELSE /\ status' = [status EXCEPT ![r] = "scheduled"]
            /\ at' = [at EXCEPT ![r] = edit[r]]
            /\ earliest' = [earliest EXCEPT ![r] = IF edit[r] < @ THEN edit[r] ELSE @]
    /\ UNCHANGED <<now, gone, edits, mail, local, live, mishaps>>

\* Variant: the UPDATE does not look at the status.
CancelAlways(r) ==
    /\ status[r] \notin {"none", "deleted", "cancelled"}
    /\ status' = [status EXCEPT ![r] = "cancelled"]
    /\ UNCHANGED <<at, earliest, outside, mail, local, live, mishaps>>

\* handleCancel: UPDATE ... WHERE status = 'scheduled'.
Cancel(r) ==
    /\ status[r] = "scheduled"
    /\ status' = [status EXCEPT ![r] = "cancelled"]
    /\ UNCHANGED <<at, earliest, outside, mail, local, live, mishaps>>

Tick ==
    /\ now < MaxTime
    /\ now' = now + 1
    /\ UNCHANGED <<table, edit, edits, mail, local, live, mishaps>>

\* The cleanup job deletes the event; its reminders and attendees go with it.
DeleteEvent ==
    /\ ~gone
    /\ gone' = TRUE
    /\ status' = [r \in Rem |-> IF status[r] = "none" THEN "none" ELSE "deleted"]
    /\ UNCHANGED <<now, at, earliest, edit, edits, mail, local, live, mishaps>>

-----------------------------------------------------------------------------
(* The reminder job.                                                       *)

Due(r) == status[r] = "scheduled" /\ at[r] <= now

\* Something of this kind goes wrong.
Mishap(kind) ==
    /\ kind \in Mishaps
    /\ mishaps < MaxMishaps
    /\ mishaps' = mishaps + 1

\* A database call of w succeeds, or fails: a cancelled context fails it.
Works(w) == live[w] /\ UNCHANGED mishaps
Fails(w) == \/ ~live[w] /\ UNCHANGED mishaps
            \/ live[w] /\ Mishap("error")

\* On to the next reminder of the list, or to the end of Run.
Proceed(w, rest) ==
    /\ due' = [due EXCEPT ![w] = rest]
    /\ pc' = [pc EXCEPT ![w] = IF rest = {} THEN "idle" ELSE "claim"]
    /\ cur' = [cur EXCEPT ![w] = NoRem]
    /\ verdict' = [verdict EXCEPT ![w] = "failed"]
    /\ UNCHANGED todo

\* processReminder will end by setting status s.
Settle(w, s) ==
    /\ verdict' = [verdict EXCEPT ![w] = s]
    /\ todo' = [todo EXCEPT ![w] = {}]
    /\ pc' = [pc EXCEPT ![w] = "settle"]
    /\ UNCHANGED <<due, cur>>

\* Variant: every scheduled reminder is taken for due.
FindDueAny(w) ==
    /\ pc[w] = "idle" /\ Works(w)
    /\ \E r \in Rem : status[r] = "scheduled"
    /\ Proceed(w, {r \in Rem : status[r] = "scheduled"})
    /\ UNCHANGED <<status, at, earliest, outside, mail, live>>

\* Variant: an iteration only looks for the reminders of its own moment.
FindDueNow(w) ==
    /\ pc[w] = "idle" /\ Works(w)
    /\ \E r \in Rem : Due(r) /\ at[r] = now
    /\ Proceed(w, {r \in Rem : Due(r) /\ at[r] = now})
    /\ UNCHANGED <<status, at, earliest, outside, mail, live>>

\* FindDue: an iteration that finds nothing changes nothing.
FindDue(w) ==
    /\ pc[w] = "idle" /\ Works(w)
    /\ \E r \in Rem : Due(r)
    /\ Proceed(w, {r \in Rem : Due(r)})
    /\ UNCHANGED <<status, at, earliest, outside, mail, live>>

\* Variant: the claim does not look at the status.
ClaimAlways(w, r) ==
    /\ Works(w)
    /\ status' = [status EXCEPT ![r] = "processing"]
    /\ cur' = [cur EXCEPT ![w] = r]
    /\ pc' = [pc EXCEPT ![w] = "targets"]
    /\ due' = [due EXCEPT ![w] = @ \ {r}]
    /\ UNCHANGED <<todo, verdict>>

\* ClaimForProcessing: UPDATE ... WHERE status = 'scheduled'; a reminder that
\* is not claimed is skipped, and so is one whose claim fails.
ClaimForProcessing(w, r) ==
    \/ /\ Works(w) /\ status[r] = "scheduled"
       /\ status' = [status EXCEPT ![r] = "processing"]
       /\ cur' = [cur EXCEPT ![w] = r]
       /\ pc' = [pc EXCEPT ![w] = "targets"]
       /\ due' = [due EXCEPT ![w] = @ \ {r}]
       /\ UNCHANGED <<todo, verdict>>
    \/ /\ (Works(w) /\ status[r] # "scheduled") \/ Fails(w)
       /\ Proceed(w, due[w] \ {r})
       /\ UNCHANGED status

\* The order of the list does not matter to what follows: any is taken.
Claim(w) ==
    /\ pc[w] = "claim"
    /\ \E r \in due[w] : ClaimForProcessing(w, r)
    /\ UNCHANGED <<at, earliest, outside, mail, live>>

\* The RSVP component decides who is in the target group when it is queried:
\* nobody, or one of its Groups. The attendees of a deleted event are gone with it.
FindTargetAttendees(w) ==
    /\ pc[w] = "targets"
    /\ \/ Fails(w) /\ Settle(w, "failed")
       \/ Works(w) /\ Settle(w, "sent")
       \/ /\ Works(w) /\ ~gone
          /\ \E group \in Groups[cur[w]] : todo' = [todo EXCEPT ![w] = group]
          /\ verdict' = [verdict EXCEPT ![w] = "failed"]
          /\ pc' = [pc EXCEPT ![w] = "event"]
          /\ UNCHANGED <<due, cur>>
    /\ UNCHANGED <<status, at, earliest, outside, mail, live>>

LookupEvent(w) ==
    /\ pc[w] = "event"
    /\ \/ Fails(w) /\ Settle(w, "failed")
       \/ Works(w) /\ gone /\ Settle(w, "failed")
       \/ /\ Works(w) /\ ~gone
          /\ pc' = [pc EXCEPT ![w] = "send"]
          /\ UNCHANGED <<due, cur, todo, verdict>>
    /\ UNCHANGED <<status, at, earliest, outside, mail, live>>

\* Variant: one failed notification makes the reminder failed.
VerdictStrict(v, ok) == IF ok THEN v ELSE "failed"

\* The reminder counts as failed only if every notification returned an error.
VerdictAfter(v, ok) == IF ok THEN "sent" ELSE v

\* sendToAttendee hands the notification to the service, which may report an
\* error for one that arrived; an attendee without email and phone is no error.
SendToAttendee(w) ==
    /\ pc[w] = "send"
    /\ \E g \in todo[w], ok \in BOOLEAN :
          /\ g \notin Reachable => ok
          /\ sent' = IF g \in Reachable
                     THEN [sent EXCEPT ![cur[w]][g] = @ + 1] ELSE sent
          /\ acked' = IF ok THEN acked \cup {cur[w]} ELSE acked
          /\ verdict' = [verdict EXCEPT ![w] = VerdictAfter(@, ok)]
          /\ todo' = [todo EXCEPT ![w] = @ \ {g}]
          /\ pc' = [pc EXCEPT ![w] = IF todo[w] = {g} THEN "settle" ELSE "send"]
    /\ UNCHANGED <<status, at, earliest, outside, live, due, cur, mishaps>>

\* SetStatus looks only at the id; if it fails the row stays as it is.
SetStatus(w) ==
    /\ pc[w] = "settle"
    /\ \/ /\ Works(w)
          /\ status' = IF status[cur[w]] = "deleted" THEN status
                       ELSE [status EXCEPT ![cur[w]] = verdict[w]]
       \/ Fails(w) /\ UNCHANGED status
    /\ Proceed(w, due[w])
    /\ UNCHANGED <<at, earliest, outside, mail, live>>

\* The worker forgets its iteration; the row it had claimed stays as it is.
Forget(w) ==
    /\ pc' = [pc EXCEPT ![w] = "idle"]
    /\ due' = [due EXCEPT ![w] = {}]
    /\ cur' = [cur EXCEPT ![w] = NoRem]
    /\ todo' = [todo EXCEPT ![w] = {}]
    /\ verdict' = [verdict EXCEPT ![w] = "failed"]
    /\ UNCHANGED <<status, at, earliest, outside, mail>>

\* The process crashes, or executeJob recovers from a panic of Run.
Crash(w) ==
    /\ pc[w] # "idle"
    /\ Mishap("crash")
    /\ Forget(w)
    /\ UNCHANGED live

\* Scheduler.Stop cancels the context of the job and waits for it.
Stop(w) ==
    /\ live[w]
    /\ Mishap("stop")
    /\ live' = [live EXCEPT ![w] = FALSE]
    /\ UNCHANGED <<table, now, edit, edits, mail, local>>

\* Scheduler.Start in the process that replaces a stopped one.
Restart(w) ==
    /\ ~live[w] /\ pc[w] = "idle"
    /\ live' = [live EXCEPT ![w] = TRUE]
    /\ UNCHANGED <<table, now, edit, edits, mail, local, mishaps>>

Work(w) ==
    \/ FindDue(w) \/ Claim(w) \/ FindTargetAttendees(w) \/ LookupEvent(w)
    \/ SendToAttendee(w) \/ SetStatus(w) \/ Restart(w)

Next ==
    \/ \E r \in Rem, t \in Times : CreateReminder(r, t)
    \/ \E r \in Rem, t \in Times \cup {Keep} : UpdateRead(r, t)
    \/ \E r \in Rem : UpdateWrite(r) \/ Cancel(r)
    \/ Tick \/ DeleteEvent
    \/ \E w \in Workers : Work(w) \/ Crash(w) \/ Stop(w)

Spec == Init /\ [][Next]_vars

\* The ticker of runJob keeps starting iterations and the process is started
\* again after a shutdown, of one process at least; nothing forces an organizer
\* or the clock.
FairSpec == Spec /\ WF_vars(\E w \in Workers : Work(w))

-----------------------------------------------------------------------------
(* Properties. An update by the organizer writes back a status it read      *)
(* earlier; what it can undo is stated for the reminders that nobody edits. *)

\* Type correctness of the table and of the workers' locals.
TypeOK ==
    /\ now \in Times
    /\ status \in [Rem -> Statuses]
    /\ at \in [Rem -> Times]
    /\ gone \in BOOLEAN
    /\ edit \in [Rem -> Times \cup {NoEdit}]
    /\ sent \in [Rem -> [Guests -> Nat]]
    /\ earliest \in [Rem -> Times]
    /\ acked \subseteq Rem
    /\ pc \in [Workers -> Labels]
    /\ live \in [Workers -> BOOLEAN]
    /\ due \in [Workers -> SUBSET Rem]
    /\ cur \in [Workers -> Rem \cup {NoRem}]
    /\ todo \in [Workers -> SUBSET Guests]
    /\ verdict \in [Workers -> {"sent", "failed"}]
    /\ edits \in 0 .. MaxEdits
    /\ mishaps \in 0 .. MaxMishaps
    /\ \A w \in Workers : pc[w] \in Labels \ {"idle", "claim"} => cur[w] \in Rem

\* No attendee's notification of a reminder is handed over twice, whatever
\* crashes, restarts and other workers there are (ClaimForProcessing: "to prevent
\* duplicate sends"); an attempt that the service repeats is LogHonest's subject.
SentAtMostOnce(rs) == \A r \in rs, g \in Guests : sent[r][g] <= 1
NoDuplicateSends   == SentAtMostOnce(Rem \ Editable)

\* The same for the reminders that organizers edit while the job runs.
NoDuplicateSendsEver == SentAtMostOnce(Rem)

\* A reminder that the organizer was told is cancelled has been handed over for
\* nobody, whether or not a worker had it on its list of due reminders.
CancelledReachedNobody ==
    \A r \in Rem \ Editable, g \in Guests : status[r] = "cancelled" => sent[r][g] = 0

\* A reminder is marked failed only if every notification returned an error: one
\* that did not is enough for 'sent', in whatever order the others fail. (What
\* returned an error may have arrived all the same.)
FailedOnlyIfAllFailed ==
    \A r \in Rem \ Editable : status[r] = "failed" => r \notin acked

\* Nobody is notified before a time the reminder was set to. It need not be the
\* last one: a reminder put off after FindDue has listed it still goes out.
NotBeforeTime ==
    \A r \in Rem, g \in Guests : sent[r][g] > 0 => earliest[r] <= now

\* Whatever races the job: a cancelled reminder has gone to nobody, a failed one
\* was acknowledged for nobody, and none went out before its earliest time.
SendsWarranted == CancelledReachedNobody /\ FailedOnlyIfAllFailed /\ NotBeforeTime

\* Sent, failed and cancelled are final: no late SetStatus of a worker that
\* was overtaken changes them.
SettledForGood ==
    [][\A r \in Rem \ Editable : status[r] \in Settled
          => status'[r] \in {status[r], "deleted"}]_vars

\* The job, with its claims, crashes and restarts, keeps the promise of OnceEach
\* for the reminders that nobody edits: every step of the tables is one of its.
Fixed == Rem \ Editable
Promise == INSTANCE OnceEach WITH
    Items <- Fixed, People <- Guests,
    state <- [r \in Fixed |-> status[r]], got <- [r \in Fixed |-> sent[r]],
    known <- acked \cap Fixed
KeepsPromise == Promise!Spec

\* No due reminder stays scheduled, whatever failed once: time and again none is due.
DueIsTaken == []<>(\A r \in Rem : ~Due(r))

=============================================================================
