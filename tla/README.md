# A TLA+ verification project for OpenRSVP

OpenRSVP is a self-hosted RSVP server written in Go. Organizers sign in by magic
link, create and publish events and manage guests; guests answer through a share
link or a personal RSVP link. Background jobs send reminders, keep recurring series
filled and delete events whose retention period is over. All state is in one SQLite
or PostgreSQL database; a little of it (mutexes, rate limits, cooldowns, the set of
warned events) lives in the memory of the process.

The hard part of this program is not any single handler but what happens when
handlers, jobs, failures and restarts interleave. A handler is typically *read a
row, check it, write the whole row back*, over several SQL statements without a
transaction. That is the granularity of the modules here: **one action is one SQL
statement (or transaction) with the decisions the code takes on its result**, one
call of a provider, one file operation, or one acquisition of a mutex.

Properties are checked with TLC on small instances. Every safety property of a passing
run is also proved with TLAPS for every value of the constants, some under the
hypotheses that section 4 names.

## 1. Inventory

| Component | State | Operations | Hard behaviour | What makes it correct |
|---|---|---|---|---|
| RSVP service (`internal/rsvp`) | attendee table with unique contact indexes, event row (read), capacity mutex per event | `SubmitRSVP`, `UpdateByToken`, `UpdateAttendeeAsOrganizer`, `RemoveAttendee`, `PromoteAttendee`, `promoteWaitlistLoop`, `ExecuteCSVImport` | check-then-write over several statements; copies read before the mutex; handlers that take no mutex; the loop under the mutex | headcount within the capacity; waitlist served in order and completely; one row per contact; removal is final; every request returns |
| Reminders (`internal/scheduler`: `reminder*.go`, `handler.go`, `scheduler.go`) | reminders table, each worker's list and place | create, update, cancel; `FindDue`, `ClaimForProcessing`, send, `SetStatus`; start, stop, panic | several workers; crash between claim and status; update racing the job; partial failures | no duplicate sends; a cancelled reminder reaches nobody; final statuses are final; a due reminder is taken |
| Authentication (`internal/auth`) | organizers, magic links, sessions, `ADMIN_EMAILS` | `RequestMagicLink`, `VerifyMagicLink`, `ValidateSession`, `Logout`, account deletion | overlapping verifications; deletion racing sign-in; reconfiguration | a used link is refused to later verifications; one account per address; nothing outlives an account; admin flag as configured |
| Event lifecycle (`internal/event`, hooks in `internal/server/server.go`) | event row, default reminders | `Create`, `Update`, `Publish`, `Cancel`, `Reopen`, `Delete`, `Duplicate` | overlapping whole-row writes; restart between a write and its hook | reminders once per publication; a deleted event stays deleted |
| Co-hosts (`internal/event/cohost_*.go`, `handler.go`) | co-host rows, mutex, limiter and throttle in memory | add, remove, invitation | counted limit under a mutex; restart forgets the throttle | limit kept; the mutex is always released; one invitation an hour |
| Retention cleanup (`internal/scheduler/cleanup.go`) | event row, files, `warnedEvents` (memory) | warn, scan, delete | the scan is stale when the deletion runs; files go before the commit; restart forgets the warnings | only expired events are deleted; every expired event is deleted in the end |
| Event series (`internal/event/series_*.go`, `scheduler/series_job.go`) | series row, occurrences | create, update, stop, delete, generator job | job racing requests; inserts that fail half way; occurrence limit; months of different length | window refilled; no date twice; limit kept; a stop and an update reach every upcoming occurrence |
| Notifications (`internal/notification`) | log rows, delivery status | `Send` with three attempts, open pixel, delivery events | late, duplicate, reordered reports; a send that succeeded but was reported as failed; crash | `sent` only for what arrived; bounded copies; the highest report wins |
| Suppression (`internal/suppression`) | suppression rows, tokens | unsubscribe, gate of `Send` | unsubscribe racing sends, failing inserts, deletion of the event | who was told "unsubscribed" gets nothing more |
| Questions (`internal/question`) | questions, answers | create, update, delete, save answers | updates of a row read earlier; answers saved one by one | limit kept; accepted forms leave no required question unanswered; deletion final |
| Comments (`internal/comment`) | comments | post, delete, paged list | two limits counted before the insert; a cursor of one second | limits kept; pages neither repeat nor lose |
| Messages (`internal/message`) | messages, cooldowns (memory) | send | cooldown read before and recorded after | cooldown kept |
| Invite cards (`internal/invite`) | picture files, card rows | upload, save, copy | files removed before the row is written | a save on its own keeps its picture; pictures do not pile up |
| Rate limiter (`internal/security`) | sliding windows (memory) | allow, cleanup | pruning by requests and cleanup | limit kept in every window |
| Providers and templates, calendar files, statistics, feedback, configuration, database setup, frontend | - | I/O, text, read-only queries | little control | - |

How they interact. The event row is the shared state: the RSVP service reads
status, deadline, capacity and waitlist flag from it, the lifecycle and the
cleanup job write it, the generator job inserts occurrences. `Publish` calls a hook
that creates reminders; the reminder job and the messages go through `Send`;
`Send` asks the suppression list. The cleanup job's deletion cascades to attendees,
reminders, co-hosts, questions, comments, messages, log rows and suppressions.
Components meet in the database only, apart from the hooks and what the process
keeps in memory.

`PROJECT.json` lists every component with its status, and the hazards at their
lines.

## 2. Modules and how they correspond to the code

| Module | Contents |
|---|---|
| `Rsvp`, `RsvpProofs` | the RSVP service of one event |
| `SeatAllocator` | what its handlers that read under the mutex promise, without handlers, locks and loop rounds |
| `Reminders`, `RemindersProofs` | the reminders of one event, the reminder jobs of several processes |
| `OnceEach` | what the reminder job promises, without workers, claims and crashes |
| `Auth`, `AuthProofs` | organizers, links, sessions |
| `EventLifecycle`, `LifecycleProofs` | one event row from creation to deletion, with the cleanup job |
| `Series`, `SeriesProofs` | one series, its generator job and its occurrences |
| `Notification`, `NotificationProofs` | `Send`, the log, tracking, the suppression list |
| `EventScope` | what the handlers around one event share: event row, attendees, clock, goroutines, rate limiter |
| `Comments`, `Messages`, `Questions`, `CoHosts`, `InviteCards` | one component each, over `EventScope` |
| `EventContent`, `ContentProofs`, `GuestProofs` | their composition: shared requests, removals, the event's deletion, restarts; the theorems about what hosts do and about what guests do |
| `MC*` | the instances TLC checks |

A definition whose comment says *Variant* is a plausible mistake in the
definition after it. Variants are not part of any specification; they serve to
show that a property notices the mistake (`mutants` in `PROJECT.json`).

### Rsvp and SeatAllocator

`rows` is the attendee table (a function from ids, allocated in creation order,
to rows or `NoRow`), `ev` the event row, `mu` the capacity mutex of the event.
Each request goroutine `p` has a program counter `pc[p]`, the request `job[p]`
and its Go locals `view[p]`: the event row and attendee row it read, the headcount
of its last `GetStats`, and the contacts left to import. Labels name the
statement about to run: `event` (GetByID), `lock`, `find` (lookup of the attendee),
`check` (GetStats and the capacity decision), `write`, and the four statements of
one round of `promoteFromWaitlist`. Early returns are `Return`, which also runs the
deferred unlock; a failing database call is `Fail`, from any statement. `Updated`
is `UPDATE ... WHERE id`: no effect on a missing row, a failure if a unique index
is violated. `EditEvent` stands for everything other components do to the event row.

Noteworthy details that are kept: `UpdateByToken` reads the attendee *before* the mutex,
the organizer's handlers *under* it; the mutex is taken only if the event row read has a
capacity; `UpdateByToken` promotes only for declined or maybe, the organizer's update
for anything but attending; invalid answers make `UpdateByToken` return after the row is
written; the organizer's update does not check added plus-ones of an attending guest;
`PromoteAttendee` and the import take no mutex; the import continues after a failed row
and writes whatever plus-ones its request carries; the promotion loop stops at a head
that does not fit.

Abstractions: email and phone are one contact identity (a guest without either has an
identity of its own); the headcount, `COUNT(*) + SUM(plus_ones)`, is the number of seats
taken (`Seats`), less what rows with fewer than -1 plus-ones take off the sum (`Owed`);
names, notes, tokens and notifications are left out. The mutex is that of one process,
as the TODO comment beside it says. Deleting the event is not an action here.

**Negative plus-ones.** The forms refuse them, and so does the preview of an import
(`internal/rsvp/import.go:206`); the execute step (`import.go:262`) does not look, and
the table has no CHECK. `ImportPlus` is what the rows of an import may carry, negative
numbers included. The type invariant, the unique contacts, removal and termination are
checked with parties of -2 (`rsvp_all`), the first three also proved for any
`ImportPlus`. What is said about seats is not true of such imports: a party of -2 that
attends takes a seat off the headcount, others are given it, and when it leaves the
event is over its capacity without any handler having erred. `rsvp_capacity` and the
theorems about seats therefore take plus-ones that the preview accepts (hypothesis
`Previewed`).

`SeatAllocator` states the promise with three variables: `seats` and `wants` give the
size of the party that has, or waits for, each place, and `serving` says that the line
is being served. In one step a party is seated if it fits, queued only if it does not,
or leaves; leaving may start serving, and until that stops the only other step is to
seat the first in line, if it fits. The mapping hides the handlers: a waitlisted row
wants what an attending row has, and `serving` is "some handler is in the promotion
loop". Locks, lookups, capacity checks, imports (their rows are pending), edits of the
event and failing calls are stuttering steps or `StopServing`. The promise is not kept
by every request: manual promotion seats without looking at the capacity, and the
stale self-service update of finding 1 does so by accident.

### Reminders and OnceEach

`status`, `at` are the table; `edit[r]` is an update between its read and its
write. A worker goes through `claim`, `targets`, `event`, `send`, `settle`. `Stop`
cancels the worker's context: from then on its database calls fail but its code
goes on, as `Scheduler.Stop` does. `Crash` is a process crash or a panic that
`executeJob` recovers. `Groups` says of which attendees the target group of a reminder
may consist when it is looked up. `SendToAttendee` hands one notification to the
service, which answers with or without an error, independently of what arrives: `sent`
counts what was handed over, `acked` holds the reminders of which some notification
returned no error (an attendee without contact counts as such, as in the code).
Recipients on the suppression list and the retries inside the notification service are
what `Notification` is about.

`SendsWarranted` says three things: a cancelled reminder was handed over for nobody; one
marked failed was acknowledged for nobody (`FailedOnlyIfAllFailed`; a provider that
delivered and then reported an error may have reached somebody all the same); and
none is handed over before `earliest`, the earliest `remind_at` it has had. The third
is about all reminders: one that is put off after `FindDue` has listed it still goes
out at its old time, since `ClaimForProcessing` looks at the status only.

`OnceEach` states the promise with three variables: an item is scheduled, withdrawn or
taken once; then it is handed over at most once for every guest; it is settled once, as
failed only if it is not known to have served anybody. The mapping hides the workers:
`state` is `status`, `got` is `sent`, `known` is `acked`, all restricted to the
reminders nobody edits. Claiming is `Take`; a notification is `Deliver` or, without
an address, `Pass`; finding due reminders, looking up targets, crashes, restarts and
failing calls are stuttering steps.

### Auth

One action per statement; the transaction of `VerifyMagicLink` and the cascade of
account deletion are one action each. Foreign keys and the unique index on the address
are conditions of the inserts. `Reconfigure` is a restart with another `ADMIN_EMAILS`:
the column may then differ from the configuration for any organizer. A request that goes
on after a failed `SetAdminStatus` is at `unsynced`, one that has an up-to-date flag at
`authed`. Tokens stand for their rows. `used_at` is checked outside the transaction that
sets it (`internal/auth/service.go:134`), so of verifications that overlap all may sign
in, and `SPEC.md:116` ("single-use") holds only for those that do not. `NoReplay` is
that part: `spent` records the links that a verification has signed in with, `late`
whether a request began when its link was, and no session comes from a late one,
whatever has become since of the first session, the link or the account.

### EventLifecycle

A request is `Begin` (read the row), `Manage` (`CanManageEvent` and the checks on
the row read first), `Write` (the whole row) and, for publish and cancel, the hook.
The cleanup job is `WarnExpiring`, `ScanExpired`, `DeleteExpired` or `DeleteFails`;
`Restart` loses the requests in flight and `warnedEvents`. Dates are days.
Retention values that are not positive are replaced by the default on creation;
an update with such a value is not among the requests. Columns with no influence
on control are left out.

### Series

`series` is the row, `occs` the rows of the occurrences with date, status and the
version of the template they show. The generator job is `JobRead` (the list of
active series), `JobWindow` (the two counts) and one `JobTurn` per insert; a request
is `CreateSeries` with one `InitialTurn` per insert, or a read, `SaveSeries` (the whole
row), `FindRows` and one `RowTurn` per occurrence; a stop cancels what it has read as
published through the event service, which reads again and writes (`CancelFind`,
`CancelWrite`). Dates are days of a calendar given by the first days of its months, so
that a day that a month does not have becomes its last day; `AddOccurrence` records in
`late` what is added after a stop. `disturbed` marks behaviours in which job and request
overlapped or a row was skipped: the code has no protection there, and the properties
claim nothing for them except `LateBounded`.

The event handlers work on single occurrences beside all this: `EditRead` is the read
and the checks of any of them (`EditsOf`: Update with the template's columns or the
date, Publish, Cancel, Reopen, Delete), `EditWrite` the write of the whole row, any time
later. Such a write puts back the status and the template of its read, also after a stop
or an update of the series; nothing in the code prevents it. `touched` therefore
records, for stop and update, the occurrences written since the last of them looked for
its occurrences, and `own` all that were ever written; `ChangesReachAll` is about
announced upcoming occurrences not in the former, `NoDoubleBooking` about those not in
the latter (an organizer who moves or reopens an occurrence may choose a date twice).
What an event request wrote before the stop or update looked is covered.

Kept as in the code: the limit counts the rows that exist, so deleted occurrences make
room for others; the initial loop counts its turns; a limit cannot be removed; the
monthly rule continues from the last date, so a series of the 31st drifts
(`internal/event/series_service.go:212`). No code sets `series_override`, so no
occurrence is passed over as overridden. The comment of `StopSeries` speaks of
unpublished occurrences, its code cancels the published ones as well.

### Notification

A `Send` is `SendBegin` (provider and gate), `Footer` (the unsubscribe token),
`InsertLog`, one `Attempt` per call of the provider and `UpdateLog`. A provider may
deliver and still report an error; `got` counts what arrived. `Crash` loses the sends,
requests and reports in flight; the log row of a lost `Send` stays `pending`, as no
code takes it up again. A delivery event is `HookRead` and `HookWrite`; an open is one
conditional `UPDATE`. The unsubscribe request is `UnsubFind`, `UnsubExists`,
`UnsubInsert` and `UnsubRecheck`.

Worth knowing: no route calls `ProcessDeliveryEvent` yet, and it is modelled as its
tests use it; the SMTP provider returns no message id, so no report finds such a row;
every message has an event, so the code creates no suppression for the whole instance
(`Global` occurs only among the initial rows). The comment at
`internal/notification/tracking.go:41` (the status never goes backward) holds except
where a row changes under a report in progress and for a bounce after a complaint;
`StatusIsHighest` says exactly that. `SendBatch` has no caller and no gate.

### EventScope and its components

`EventScope` has the requests: `Admit` (limiter and first statement, for a goroutine
that goes on) and `AdmitOnce` (a request of one statement). `hits` is what the limiter
remembers, `admitted` the history it is measured against; both are sets of entries with
the time and a number that keeps two entries of one time apart. `desk` chooses for each
behaviour which handlers get the requests: those of comments and messages, of questions
and answers, of co-hosts, or of invite cards; at the `front` only admission is looked
at, by a clock long enough for windows to overlap, slide and be pruned. What one of
these groups reads and writes the others do not touch; what they share (event,
attendees, limiter, restart) is in every behaviour.

- `Comments`: `PostFind`, `PostCount` (limit of the event), `PostWindow` (hourly
  limit), `PostInsert`; `reader` is one visitor who reads page after page. The hourly
  limit counts existing rows, so deleting comments frees quota.
- `Messages`: `SendCheck` (cooldown), `SendCreate`, `SendRecord`.
- `Questions`: create, update and delete as read and write; `AnswerFind` reads the
  questions, then each answer is validated and saved (`AnswerNext`, `AnswerInsert` or
  `AnswerUpdate`) before the next; an invalid answer leaves the earlier ones saved.
  A required question only demands a string that is not blank: `[]`, a checkbox with
  nothing chosen, is accepted (`internal/question/service.go:225`). Of a required
  question whose form was accepted, `RequiredIsAnswered` says that an answer is stored,
  and that it is not blank unless another submission wrote it that had read the question
  as not required.
- `CoHosts`: `AddBegin` (limiter), `AddLock`, `AddCount`, `AddInsert`, `AddNotify`
  under the mutex; removal as find and delete by row id. The invitation passes the
  organizer's id as attendee (`internal/server/server.go:455`), so the foreign key
  refuses its log row; it is sent all the same.
- `InviteCards`: an upload removes the old pictures before it writes the new one; a
  save removes the old picture before `Upsert` finds and writes the row. A copied event
  names the picture file of its source (`internal/server/server.go:677`). A card holds a
  URL, relative or absolute; `cleanupOldImage` compares URLs and removes the file that the
  last segment of the old one names (`internal/invite/service.go:218`), so a save that
  only rewrites the URL of the picture it keeps removes that picture. `KeptPictureStays`
  is about saves that overlap nothing and do not do this; the others, and the card of the
  copied event, can lose their picture, and the model has these behaviours.
- `EventContent` adds what concerns all of them: `Fail` (any statement), removal of an
  attendee, deletion of the event with its cascades, `Restart`.

## 3. Runs

| Run | Checks | Shows |
|---|---|---|
| `rsvp_capacity` | CapacityRespected, WaitlistDrained, AllocatesSeats | with two handlers at a time that read under the mutex, and imports whose plus-ones the preview accepts, on a full event of capacity 2: no over-subscription, no party that fits is left at the head of the waitlist, and the handlers implement `SeatAllocator`: a party waits only if it does not fit, promotions are in order, fit when written, and nothing else happens between them |
| `rsvp_all` | TypeOK, AttendeesSound, RemovedStaysRemoved, RequestsAnswered | every handler against every other, failing calls, an imported party of -2, an event that gains and loses its capacity; every accepted request returns |
| `rsvp_stale_update` | CapacityRespected, **violated** | finding 1 |
| `reminders_job` | TypeOK, NoDuplicateSends, SendsWarranted, KeepsPromise, DueIsTaken | two workers with crash, shutdown and errors and two guests, of whom one may be reached and the other not, beside edits and cancellations: what the claim protects; the job implements `OnceEach`; time and again no reminder is due |
| `reminders_edited` | NoDuplicateSendsEver, **violated** | finding 2 |
| `auth_races` | TypeOK, AccountsSound, NoReplay, AdminAsConfigured | two requests at a time, account deletion and reconfiguration included: among others that no session comes from a verification begun after its link had signed somebody in |
| `event_sequential` | NothingTwice, ExpiredIsDeleted | one request at a time beside the cleanup job, restarts and failures |
| `event_races` | TypeOK, DeletedStaysDeleted, DeletedOnlyExpired | two requests that leave the times alone race the cleanup job |
| `cleanup_archived` | ArchivedIsDeleted, **violated** | finding 3 |
| `series_window` | TypeOK, NoDoubleBooking, LimitRespected, ChangesReachAll, LateBounded, WindowRefilled | the generator job with failing inserts, two requests on the series, a request on a single occurrence that reads and writes at any times, the retention cleanup |
| `delivery` | TypeOK, SuppressionKept, LogHonest, StatusIsHighest | two sends against an unsubscribe, a crash or failing call, opens, delivery events and the event's deletion |
| `content` | TypeOK, AdmissionBounded, LimitsKept, PausesKept, MutexReleased, PagesComplete, FormsSound, PicturesKept, DeletedQuestionsStay | the handlers around one event with two goroutines, the limiter, a restart, removals and the event's deletion |

**Bounds and why they are enough.** Two goroutines or workers: each of the races above
needs one handler between two statements of another. Two to four requests per behaviour:
one to read, one or two to overtake it, one to observe; four for publish, cancel,
reopen, publish. In `rsvp_*`, capacity 2 with parties of one or two: a party that fits,
one that does not, and an exact fit all occur; up to six rows make room for rows created
again after removal. One crash, restart or failure per behaviour can fall between any
two statements. In `reminders_job` the reminder that nobody edits goes to two guests,
the edited one to one, and the clock makes one tick: before its time, and due. In
`series_window` months have one or two days, so that the last day of a month is met at
once, and the window is 2: a window that is full, short by one, and empty. The series is
created, on the second day, with or without a limit of one more than the window, and
gets one more request (update, stop or deletion); the clock makes one tick, which turns
an upcoming occurrence into one that is not. `MaxUpsets` is one request on a single
occurrence or one failing call, since a second multiplies the states (there are a
million as it is) and is covered by the proofs, which need no bound on time, requests or
edits. In `delivery` two messages go to one recipient, of the same event or of two, with
two attempts each: an attempt that is tried again and a last one. In `content` limits
and cooldowns are one or two; comments and questions start one below the limit or at it;
`MaxWork` is two requests of several statements for guests and three for hosts (`desk`
chooses which of the four groups of handlers gets them), `MaxRequests` all requests
together; the clock makes one tick, and the initial rows are of earlier times so that
windows and cooldowns end. At the front there are three ticks for a window of one and up
to three admissions: an entry is still inside a window, ages out of it and is pruned (by
a request or by the cleanup), and windows that begin at different instants overlap.
Symmetry is used only for goroutines, and only in runs without liveness. Deadlock is
checked except in `series_window`, `reminders_*`, `delivery` and `content`, where every
bounded supply may be used up and a deleted event leaves nothing to do.

**What the passing runs leave out on purpose.** `rsvp_capacity` leaves out
`UpdateByToken` (finding 1), manual promotion and plus-ones added by the organizer (both
bypass the limit by design), capacity changes (an organizer may lower it below the
headcount), and form submissions by which an attending guest gives up a seat:
`SubmitRSVP` does not run the promotion loop, so the seat stays empty until another
handler does. The code runs no loop either when the head of the waitlist leaves
otherwise than by promotion, say by removal. The run has such removals, but its tables
are too small for the party behind to fit; in larger ones it may, and
`WaitlistIsDrained` excludes such steps. Nor are there imports with negative plus-ones
(`ImportPlus`, see section 2). Calls do not fail in it, since a failed promotion leaves
a seat empty; the capacity with failing calls is covered by the proof. The safety
properties of `reminders_job` are about reminders that no organizer edits (finding 2),
except that nothing goes out before the earliest time a reminder had, which is about
all. `event_sequential` has one request at a time: two that overlap write back rows read
earlier, so an archived event may become a draft again. `event_races` leaves the times
alone: a retention period extended between the scan and the deletion is not seen by the
deletion. The properties of `series_window` except `LateBounded` are about behaviours in
which job and requests do not overlap: a series that is created while the job runs can
get dates twice. Those about announced occurrences leave out the ones that an event
request wrote too late (`touched`, `own`, section 2). `Series` has one request of the
organizer at a time; of two, a stale update could undo a stop. `LimitsKept` allows the
limits of comments and questions, which no lock protects, to be exceeded by the requests
in flight, and not more. `PicturesKept` assumes that the upload directory can be read
and its files removed, and speaks of saves that overlap no other request and do not only
rewrite a URL.

**Fairness.** `rsvp_all`: weak fairness of every goroutine's step (the Go scheduler runs
what can run; a database call returns) and strong fairness of the lock (`sync.Mutex` in
starvation mode hands the lock to the longest waiter). Nothing forces requests to arrive
or calls to succeed. `reminders_job`: weak fairness of the workers' work taken together,
restart included (the ticker fires again and a stopped process is replaced, of one
process at least). `series_window`: weak fairness of the generator job; requests may
stop half way. `event_sequential`, `cleanup_archived`: weak fairness of the cleanup job.
The clock need not advance and organizers need not act.

### Findings

1. `UpdateByToken` (`internal/rsvp/service.go:649`) decides on an attendee read
   before it waits for the capacity mutex, so a second update of the same guest can
   write `attending` back after the seat was given to the waitlist.
2. `handleUpdate` (`internal/scheduler/handler.go:201`) writes back the status it
   read; overlapping the job, it makes a sent reminder scheduled again.
3. The cleanup scan (`internal/scheduler/cleanup.go:178`) passes over archived
   events, which are therefore never deleted.

## 4. Proofs

No theorem assumes more than the constants' assumptions in the modules (TLC evaluates
them in the runs of the same module) and what the statement itself names.

| Theorem | Statement |
|---|---|
| `RsvpProofs!TypeCorrect` | `Spec => []TypeOK` |
| `RsvpProofs!ContactsUnique`, `DeclinedAlone`, `SoundAlways` | `Spec => []AttendeesSound` and its two parts |
| `RsvpProofs!RemovalIsFinal` | `Spec => RemovedStaysRemoved` |
| `RsvpProofs!CapacitySafe`, `PromotedInOrder` | `FixedCapacity`, `Previewed` and `Disciplined` imply `Spec => []CapacityRespected`, `Spec => PromotionInOrder` |
| `RsvpProofs!SeatsAreAllocated` | with `Unparked` and a capacity also `Spec => AllocatesSeats`: the handlers implement `SeatAllocator` |
| `RsvpProofs!WaitlistIsDrained` | with `Tended` also `Spec /\ [][Orderly]_vars => []WaitlistDrained` |
| `RemindersProofs!RemindersTypeCorrect` | `Spec => []TypeOK` |
| `RemindersProofs!SentOnce` | `Spec => []NoDuplicateSends` |
| `RemindersProofs!CancelIsInTime`, `FailedMeansAllFailed`, `NoneIsEarly`, `OnlyWarrantedSends` | `Spec => []SendsWarranted` and its three parts |
| `RemindersProofs!FinalIsFinal` | `Spec => SettledForGood` |
| `RemindersProofs!JobKeepsPromise` | `Spec => KeepsPromise`: the job implements `OnceEach` |
| `SeriesProofs!StopIsBounded` | `Spec => []LateBounded` |
| `SeriesProofs!TypeIsCorrect`, `NoDateTwice`, `EveryChangeArrives` | `EndlessCalendar` implies `Spec => []TypeOK`, `[]NoDoubleBooking`, `[]ChangesReachAll` |
| `SeriesProofs!LimitHolds` | with `LimitsGrow` also `Spec => []LimitRespected` |
| `AuthProofs!AuthTypeCorrect`, `AccountsAlwaysSound`, `AdminAlwaysConfigured`, `NeverReplayed` | `Spec => []TypeOK`, `[]AccountsSound`, `[]AdminAsConfigured`, `[]NoReplay` |
| `LifecycleProofs!LifecycleTypeCorrect`, `DeletionIsFinal` | `Spec => []TypeOK`, `Spec => DeletedStaysDeleted` |
| `LifecycleProofs!OnlyExpiredDeleted` | `TimesKept` implies `Spec => DeletedOnlyExpired` |
| `LifecycleProofs!WarnedOncePerProcess` | `Spec => []WarnedOnce` |
| `LifecycleProofs!NothingIsTwice` | `OneAtATime` implies `Spec => []NothingTwice` |
| `NotificationProofs!NotificationTypeCorrect`, `SuppressionAlwaysKept`, `LogAlwaysHonest`, `StatusAlwaysHighest` | `Spec => []TypeOK`, `[]SuppressionKept`, `[]LogHonest`, `[]StatusIsHighest` |
| `ContentProofs!CoHostsNeverExceeded`, `MutexAlwaysReleased` | `Spec => []CoHostsBounded`, `[]MutexReleased` |
| `ContentProofs!WindowsAreKept`, `InvitedOnce`, `PicturesAreKept` | `Spec => []AdmissionBounded`, `[]InvitedOnceAnHour`, `[]PicturesKept` |
| `GuestProofs!PagesAreComplete`, `PausesAreKept`, `LimitsAreKept`, `FormsAreSound` | `Spec => []PagesComplete`, `[]PausesKept`, `[]LimitsKept`, `[]FormsSound` |
| `GuestProofs!DeletedStay`, `TypeIsCorrect` | `Spec => DeletedQuestionsStay`, `Spec => []TypeOK` |

**Rsvp.** The assumptions are `ConstantsAssumption`, `RequestsAssumption` (what request
validation guarantees; of an import's plus-ones it guarantees nothing) and
`PopulationAssumption` (the initial table is one that requests can produce). All
theorems rest on the inductive invariant `RsvpInv`, the first five on nothing else.
`UniqueContacts` and `DeclinedBringNobody` are not inductive: handlers write rows
computed from copies read earlier. `TablesOK` adds that no row lies beyond the last id
allocated, and `LocalsOK` that every copy a handler is about to use is a sound attendee
row and that the accepted request kept what validation gave it. There is one lemma per
group of actions (begin, reads of each handler, writes, import, lock).

`CapacitySafe` needs a second invariant, `CapInv`: a handler past its `Lock` holds the
mutex, the row it has read is still the row in the table, and the row it is about to
write fits (`Ready`). `FixedCapacity` says that the capacity is not changed; `Previewed`
that imports carry plus-ones the preview accepts (`ImportPlus` within `Plus`), without
which the statement is false; `Disciplined` that the requests are submissions, removals,
imports and organizer updates that do not add plus-ones to an attending guest. The
import runs without the mutex and is harmless because its rows are pending and in new
ids (`OthersReady`). The arithmetic is in `HeadcountType`, `HeadcountSplit` and
`HeadcountExcept` (writing a row changes the headcount by the difference of the two
parties). Without `Disciplined` the statement is false: `rsvp_stale_update`.

`PromotedInOrder` adds `HeadInv`: the attendee a loop is about to promote is still the
first that waits. The only one who writes beside a loop is the import, whose rows do not
wait (`WaitlistKept`); two loops exclude each other (`HeadAlone`). `PromotionInOrder` is
what a single step of the loop may do; the runs check the stronger `AllocatesSeats`.

`SeatsAreAllocated` is the refinement. It rests on `RsvpInv`, `CapInv`, `HeadInv` and
`QueueInv`: a submission that is about to put its party on the waitlist still finds
that it does not fit, since nobody else changes the headcount before it writes.
`Unparked` says that the organizer's update puts nobody on the waitlist (it may, without
looking at the capacity, and such a party could fit). Every write under the mutex
happens while no loop is under way (`NoLoopBeside`), so it is `Seat`, `Queue` or `Leave`
of one place (`SubmitAllocates`, `EditAllocates`, by `WriteAllocates`); the loop's write
is `ServeFirst` (`LoopAllocates`); everything else is a stutter or, when a handler leaves
its loop, `StopServing` (`PassAllocates`). `TotalIs` shows that the allocator counts the
seats the queries count. The theorem, unlike `WaitlistIsDrained`, does not exclude failing
calls: a loop that a failing call ends has stopped serving.

`WaitlistIsDrained` adds `TendInv`: unless a loop is under way the waitlist is drained,
and a submission that is about to be put on it does not fit. A loop ends only when the
first party does not fit (`LoopDrains`) and goes on after every promotion
(`LoopWriteTends`); a submission that joins the waitlist was too large under the mutex
(`CheckTends`, `SubmitTends`); an organizer's write that starts no loop frees no seat
(`EditTends`). The theorem is about behaviours in which the waitlist loses nobody but by
promotion and no submission gives up a seat (`Orderly`), on an event that always keeps a
waitlist, starts with a drained one, where the organizer puts nobody on it and no call
fails (`Tended`): where one of these conditions fails, the code runs no loop.
`rsvp_capacity` meets the hypotheses about constants and most of its steps are
orderly; with submissions by guests who have a seat, TLC finds a waiting party that would
fit as soon as `Orderly` is dropped, and none with it.

**Reminders.** The theorems but `RemindersTypeCorrect` and `NoneIsEarly` are about the
reminders outside `Editable`. None of the properties is inductive: whether a send is the
second one depends on who else may be sending. `ClaimInv` says who may: a reminder
between its claim and its final status has exactly one owner and is `processing` (or
deleted with its event); one that is scheduled or cancelled has been handed over for
nobody, and of one that is failed every notification returned an error; an owner's
remaining attendees have not been notified, and a verdict of `failed` means that no
notification was acknowledged (`Progress`). The key step is `ClaimClaim`: the
conditional `UPDATE` finds the reminder scheduled, so nobody owned it. `FinalIsFinal`
then follows although `SetStatus` looks only at the id, and `JobKeepsPromise` maps every
action, under `ClaimInv`, to one of `OnceEach` or to a stutter. For a reminder that an
organizer edits these statements are false: `reminders_edited`. `NoneIsEarly` is about
all: what is on a worker's list was due when it was listed, so its `earliest` time has
passed, and an edit can only make that earlier.

**Series.** `LateBounded` is not inductive: a job may be anywhere in its iteration when
the series is stopped. `Owed` says what it may still add: nothing before it has looked
at the window, then what is left of at most one window, and together with what it has
added since the stop no more than the window. `Carried` says that the row a request is
about to write does not make a stopped series active again.

The other theorems rest on `SeriesInv`: the types, what a request carries from step to
step (`CarriedOn`), and four conditions for undisturbed behaviours. `Apart`: the job and
a request are not both under way, and the row the job has read is the row as it is.
`Booked`: the dates still to come lie behind all those of published rows that no event
request wrote (`Booking`). `Reached`: an announced occurrence that does not yet show a
stop or an update is one the request is still going to write, or an event request has
written it since the request looked (`touched`). `TurnKeeps` is the lemma about the
turns of a stop or an update: each leaves its occurrence unpublished or with the new
version, although it writes back a copy read earlier. `Numbered`: the loops have counted
no fewer occurrences than there are. That the dates of a rule grow follows from
`EndlessCalendar`: months begin one after the other for ever and every day lies in one
(the run's calendar is the beginning of one). `LimitsGrow` (an update does not set a
limit on a series without one, nor a lower one) is needed because `UpdateSeries` does
not compare the new limit with the rows that exist
(`internal/event/series_service.go:301`).

**Auth.** `AuthInv` is `TypeOK`, `Counted` (the rows still to be inserted by requests in
flight, together with those inserted, are covered by the requests accepted, so no id is
missing), `Locals` (what a request holds was given out) and `AccountsSound`. `AdminInv`
adds that an organizer whom a request serves is in sync; the interesting steps are
another request's creation, deletion or update of the same account. `ReplayInv` says that
a link somebody signed in with is gone or marked as used for ever, so that no verification
in flight and no session is a late one.

**EventLifecycle.** `LifeInv` adds that a request in flight holds an event row. `TimesInv`
adds that every copy has the times of the row and that what the job is about to delete
is over; it needs `TimesKept`, without which a request may extend the retention period
after the scan. `WarnInv` counts a warning for each process that has warned. `PublishInv`
counts reminders: those created and the one whose hook is still to run are no more than
the times the event has left the draft status. It needs `OneAtATime`, because two
overlapping publications both read a draft and both run their hook.

**Notification.** Four invariants over `Types`. `OptedOut`: whoever was told that he left
is on the list until the event is deleted, so that a later `Send` is withheld before its
first attempt. `OnRequest`: an unsubscribe request in progress has asked, so the list has
nobody who did not. `Attempted`: copies do not exceed attempts, success means arrival.
`Followed`: a delivery event in progress that is alone with its row carries the status
the row must get (`GoodKept`, `OpenedKept`).

**EventContent.** The composition has some thirty actions and ten parts to its state, so
each property has an invariant of its own over the variables of its component, and a
frame lemma says which steps leave these alone: `Moves(L)` is a step of one goroutine
between labels of `L`, and by `MovesElsewhere` it keeps every goroutine at the labels of
another component where it is (`Still`).

- `HostInv`: exactly the request between lock and answer holds the mutex, and at its insert
  the count is still below the limit. `OutsideStep` deals with all steps that move a
  goroutine outside the mutex; `Leaving`, `Going` and `Inserting` with the others.
- `ScopeInv` with `LimiterInv`: what still counts in some window from now on is among the
  entries that the limiter has kept, and no window holds more than the limit. Without the
  first part pruning could forget an entry that counts.
- `InviteInv`: an invitation of the last hour is remembered, or a later one of its host.
- `CardsInv`: a save that nothing overlaps and that names another file than the card, or the
  same URL, keeps its picture (`Undisturbed`); `Room` says
  that whichever subset of the uploads under way removes what it has listed, there is room
  for what they and the others write. The bound itself is not inductive: which uploads
  have listed which files decides how many stay.
- `CommentsInv`, `QuestionsInv`: the rows together with the requests past their count
  exceed the limit by the other goroutines at most.
- `ReaderInv`: the comments older than the cursor are those the visitor has not seen, and
  a comment that was there at the start is seen, still ahead, or tied with a cursor.
- `MessagesInv`: a send that was answered is remembered, or a later one of its sender; one
  that has been checked keeps its distance from those.
- `AnswersInv`: a required question of a form in progress is still to be stored or has its
  answer (`FormKept`); stored answers stay while their attendee does (`Kept`); one stored as
  the answer to a required question is not blank.
- `LocalsInv`, `RowsInv`: what is left of the types.

**Only model-checked.** Every liveness property (RequestsAnswered, DueIsTaken,
ExpiredIsDeleted, WindowRefilled): fairness and `ENABLED` are out of the prover's reach.
The three properties that runs show violated are false and have no theorem.

## 5. Not modelled

- Text: templates, calendar files, CSV parsing, sanitising, CSRF tokens, link tokens.
- Network providers, beyond what `Send` sees of them; routing; configuration parsing.
- Read-only queries, statistics, profile fields and the data export: no other operation
  decides on what they do.
- Code without callers: `SendBatch`, `DeleteExpiredSessions`, `DeleteExpiredMagicLinks`,
  `CleanupStaleLimits` of the messages.
- `sort_order` of questions and their reordering: a question's order is the count at its
  creation, so orders can tie after deletions, but no decision reads it.
- Account deletion removes rows only; the picture files of the account's events stay.
- Drivers and migrations; the unique indexes, foreign keys and cascades that handlers
  rely on are conditions of the actions that meet them.
- The Svelte frontend.

## 6. Plan

Done: all modules above. What is left, in order of value:

1. `Reminders` composed with `EventLifecycle`: reminders of cancelled and archived events,
   the default reminders after a crash between publication and hook.
2. Overlapping requests on one series.
