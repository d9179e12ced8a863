------------------------------- MODULE Series -------------------------------
(***************************************************************************)
(* One recurring event series (internal/event/series_*.go): the requests   *)
(* of its organizer, the hourly generator job that keeps a rolling window  *)
(* of upcoming occurrences (internal/scheduler/series_job.go), and what    *)
(* the other components do to the occurrences.                             *)
(*                                                                         *)
(* One action is one database statement, or one turn of a loop over        *)
(* occurrences. One request about the series runs at a time; the job and   *)
(* any number of requests about single occurrences run beside it, each of  *)
(* them a read and, later, a write of the whole row. Dates are day numbers *)
(* of a calendar given by the first days of its months; the columns of the *)
(* template are one version number.                                        *)
(***************************************************************************)
EXTENDS Integers, FiniteSets, Sequences, FiniteSetsExt

CONSTANTS
    Window,       \* upcoming occurrences kept (4 in the code)
    Week,         \* days of a week
    MonthStart,   \* the first day of each month
    Rules, Starts, Limits, Ends,  \* what CreateSeries may be asked for
    NewLimits, NewEnds,           \* what UpdateSeries may be asked for
    NewDates,     \* where an event's Update may move one occurrence
    MaxRequests,  \* bound: requests served
    MaxTime,      \* bound: the last day
    MaxUpsets     \* bound: edits of single occurrences and failing database calls

None   == 0       \* a limit or an end that is not set
Keep   == -1      \* an end that an update leaves as it is
Custom == -1      \* an occurrence whose template columns were edited alone

ASSUME ConstantsAssumption ==
    /\ Window \in Nat \ {0} /\ Week \in Nat \ {0}
    /\ \A m \in DOMAIN MonthStart :
          m + 1 \in DOMAIN MonthStart => MonthStart[m] < MonthStart[m + 1]
    /\ Rules \subseteq {"weekly", "biweekly", "monthly"}
    /\ Starts \subseteq Nat \ {0} /\ Limits \subseteq Nat /\ Ends \subseteq Nat
    /\ NewLimits \subseteq Nat /\ NewEnds \subseteq Nat \cup {Keep} /\ NewDates \subseteq Nat
    /\ MaxRequests \in Nat /\ MaxTime \in Nat /\ MaxUpsets \in Nat

NoSeries == [status |-> "none", rule |-> "weekly", limit |-> None, end |-> None, version |-> 0]
NoJob    == [pc |-> "idle", copy |-> NoSeries, left |-> 0, total |-> 0, last |-> 0, day |-> 0]
NoReq    == [pc |-> "idle", op |-> "none", copy |-> NoSeries, rows |-> {},
             held |-> {}, turn |-> 0, date |-> 0, day |-> 0]

VARIABLES
    now,        \* today
    series,     \* the event_series row
    occs,       \* the events rows that belong to it
    made,       \* ids given to occurrences so far
    job,        \* locals of the generator job
    req,        \* locals of the organizer's request
    disturbed,  \* history: job and request overlapped, or a row was skipped
    late,       \* history: occurrences generated after the series was stopped
    pending,    \* rows that requests about one occurrence are about to write
    own,        \* history: ids of the occurrences that such a request wrote
    touched,    \* history: those of them written since the last stop and since
                \* the last update of the series looked for its occurrences
    served, edits, faults

editing == <<edits, pending, own, touched>>
bounds  == <<served, editing>>
vars    == <<now, series, occs, made, job, req, disturbed, late, bounds, faults>>

Init ==
    /\ now = 0
    /\ series = NoSeries /\ occs = {} /\ made = 0
    /\ job = NoJob /\ req = NoReq
    /\ disturbed = FALSE /\ late = 0
    /\ pending = {} /\ own = {} /\ touched = [op \in {"stop", "update"} |-> {}]
    /\ served = 0 /\ edits = 0 /\ faults = 0

-----------------------------------------------------------------------------
(* Dates and occurrences.                                                  *)

MonthOf(d)  == CHOOSE m \in DOMAIN MonthStart :
                  /\ m + 1 \in DOMAIN MonthStart
                  /\ MonthStart[m] <= d /\ d < MonthStart[m + 1]
DayOf(d)    == d - MonthStart[MonthOf(d)] + 1
DaysIn(m)   == MonthStart[m + 1] - MonthStart[m]

\* calculateNextOccurrence: a day that the next month does not have becomes
\* its last day.
NextDate(d, rule, day) ==
    CASE rule = "weekly"   -> d + Week
      [] rule = "biweekly" -> d + 2 * Week
      [] rule = "monthly"  -> LET m == MonthOf(d) + 1
                              IN  MonthStart[m] + Min({day, DaysIn(m)}) - 1

\* FindFutureBySeriesID.
IsFuture(o) == o.date > now /\ o.status \notin {"cancelled", "archived"}
Future      == {o \in occs : IsFuture(o)}
LastOf(os)  == Max({o.date : o \in os})

Upsettable == edits + faults < MaxUpsets

\* A call to the database fails.
Fault == Upsettable /\ faults' = faults + 1

\* CreateFromSeries with buildOccurrenceFromSeries: a published event from the
\* template that the caller read. (onCreateOccurrence then copies an invite
\* card of another occurrence; no step here depends on cards.)
AddOccurrence(es, d) ==
    /\ made' = made + 1
    /\ occs' = occs \cup {[id |-> made + 1, date |-> d, status |-> "published",
                           version |-> es.version]}
    /\ late' = IF series.status = "stopped" THEN late + 1 ELSE late

\* Variant: the limit is compared one too late.
ExhaustedLate(es, n, d) ==
    \/ es.limit # None /\ n > es.limit
    \/ es.end # None /\ d > es.end

\* Neither the limit nor the end of the series allows an occurrence on d.
Exhausted(es, n, d) ==
    \/ es.limit # None /\ n >= es.limit
    \/ es.end # None /\ d > es.end

-----------------------------------------------------------------------------
(* The generator job.                                                      *)

\* Variant: a series that the organizer stopped is worked on as well.
JobReadAnyStatus ==
    /\ job.pc = "idle"
    /\ series.status \in {"active", "stopped"}
    /\ job' = [NoJob EXCEPT !.pc = "window", !.copy = series]
    /\ disturbed' = (disturbed \/ req.pc # "idle")
    /\ UNCHANGED <<now, series, occs, made, req, late, bounds, faults>>

\* GenerateOccurrencesForAll and the first read of GenerateOccurrences: only
\* an active series is worked on.
JobRead ==
    /\ job.pc = "idle"
    /\ series.status = "active"
    /\ job' = [NoJob EXCEPT !.pc = "window", !.copy = series]
    /\ disturbed' = (disturbed \/ req.pc # "idle")
    /\ UNCHANGED <<now, series, occs, made, req, late, bounds, faults>>

\* Variant: the window is taken for full one occurrence too early.
NeededShort == Window - 1 - Cardinality(Future)

\* Variant: one occurrence more than the window.
NeededLong == Window + 1 - Cardinality(Future)

\* How many occurrences are missing.
Needed == Window - Cardinality(Future)

\* Variant: the new dates continue from today.
LastDateToday == now

\* The date from which to go on: the last upcoming occurrence, else the last
\* one there is, else today.
LastDate ==
    CASE Future # {} -> LastOf(Future)
      [] Future = {} /\ occs # {} -> LastOf(occs)
      [] OTHER -> now

\* FindFutureBySeriesID and CountBySeriesID; a deleted series has no
\* occurrences any more.
JobWindow ==
    /\ job.pc = "window"
    /\ \/ /\ UNCHANGED faults
          /\ job' = IF Needed <= 0 THEN NoJob
                    ELSE [job EXCEPT !.pc = "loop", !.left = Needed, !.total = Cardinality(occs),
                                     !.last = LastDate, !.day = DayOf(LastDate)]
       \/ Fault /\ job' = NoJob
    /\ UNCHANGED <<now, series, occs, made, req, disturbed, late, bounds>>

\* One turn of the loop. The foreign key makes the insert fail once the series
\* is deleted; a failed insert ends the iteration.
JobTurn ==
    /\ job.pc = "loop"
    /\ LET next == NextDate(job.last, job.copy.rule, job.day) IN
       \/ /\ job.left = 0 \/ Exhausted(job.copy, job.total, next)
          /\ job' = NoJob
          /\ UNCHANGED <<occs, made, late, faults>>
       \/ /\ job.left > 0 /\ ~Exhausted(job.copy, job.total, next)
          /\ series # NoSeries
          /\ AddOccurrence(job.copy, next)
          /\ job' = [job EXCEPT !.left = @ - 1, !.total = @ + 1, !.last = next]
          /\ UNCHANGED faults
       \/ /\ job.left > 0 /\ ~Exhausted(job.copy, job.total, next)
          /\ (series = NoSeries /\ UNCHANGED faults) \/ Fault
          /\ job' = NoJob
          /\ UNCHANGED <<occs, made, late>>
    /\ UNCHANGED <<now, series, req, disturbed, bounds>>

-----------------------------------------------------------------------------
(* The organizer's requests.                                               *)

\* A request starts: the job may be in the middle of an iteration.
Begin(r) ==
    /\ req.pc = "idle" /\ served < MaxRequests
    /\ served' = served + 1
    /\ req' = r
    /\ disturbed' = (disturbed \/ job.pc # "idle")

\* CreateSeries up to seriesStore.Create.
CreateSeries(rule, d, n, e) ==
    /\ made = 0 /\ served = 0
    /\ LET es == [status |-> "active", rule |-> rule, limit |-> n, end |-> e, version |-> 0] IN
       /\ series' = es
       /\ Begin([NoReq EXCEPT !.pc = "initial", !.copy = es, !.date = d, !.day = DayOf(d)])
    /\ UNCHANGED <<now, occs, made, job, late, editing, faults>>

\* One turn of the loop of generateInitialOccurrences, which counts its turns
\* and not the rows.
InitialTurn ==
    /\ req.pc = "initial"
    /\ LET over == req.turn = Window \/ Exhausted(req.copy, req.turn, req.date) IN
       \/ over /\ req' = NoReq /\ UNCHANGED <<occs, made, late, faults>>
       \/ /\ ~over
          /\ AddOccurrence(req.copy, req.date)
          /\ req' = [req EXCEPT !.turn = @ + 1,
                        !.date = NextDate(req.date, req.copy.rule, req.day)]
          /\ UNCHANGED faults
       \/ ~over /\ Fault /\ req' = NoReq /\ UNCHANGED <<occs, made, late>>
    /\ UNCHANGED <<now, series, job, disturbed, bounds>>

\* The fields that UpdateSeries applies to the row it has read. An omitted
\* limit is kept and no limit can be removed; the end can be kept or removed.
Edited(es, n, e) ==
    [es EXCEPT !.limit = IF n = None THEN @ ELSE n, !.end = IF e = Keep THEN @ ELSE e,
               !.version = @ + 1]

\* FindByID of the three requests; the organizer owns the series.
Found == series # NoSeries

UpdateSeries(n, e) ==
    /\ Found
    /\ Begin([NoReq EXCEPT !.pc = "save", !.op = "update",
                              !.copy = Edited(series, n, e)])
    /\ UNCHANGED <<now, series, occs, made, job, late, editing, faults>>

\* The row that StopSeries is about to write: no new occurrences from now on.
Stopped(es) == [es EXCEPT !.status = "stopped"]

StopSeries ==
    /\ Found
    /\ Begin([NoReq EXCEPT !.pc = "save", !.op = "stop", !.copy = Stopped(series)])
    /\ UNCHANGED <<now, series, occs, made, job, late, editing, faults>>

\* DeleteSeries; ON DELETE SET NULL turns the occurrences into single events.
DeleteSeries ==
    /\ Found
    /\ Begin(NoReq)
    /\ series' = NoSeries /\ occs' = {}
    /\ UNCHANGED <<now, made, job, late, editing, faults>>

\* seriesStore.Update writes the whole row.
SaveSeries ==
    /\ req.pc = "save"
    /\ \/ series' = req.copy /\ req' = [req EXCEPT !.pc = "find"] /\ UNCHANGED faults
       \/ Fault /\ req' = NoReq /\ UNCHANGED series
    /\ UNCHANGED <<now, occs, made, job, disturbed, late, bounds>>

\* FindFutureBySeriesID of updateFutureOccurrences and of StopSeries. No code
\* sets series_override, so no occurrence is passed over as overridden. If the
\* query fails the occurrences stay as they are.
FindRows ==
    /\ req.pc = "find"
    /\ \/ /\ req' = IF Future = {} THEN NoReq ELSE [req EXCEPT !.pc = "rows", !.rows = Future]
          /\ touched' = [touched EXCEPT ![req.op] = {}]
          /\ UNCHANGED <<disturbed, faults>>
       \/ Fault /\ req' = NoReq /\ disturbed' = TRUE /\ UNCHANGED touched
    /\ UNCHANGED <<now, series, occs, made, job, late, served, edits, pending, own>>

\* Store.Update writes the whole row, if it still exists.
Write(new) == occs' = {IF c.id = new.id THEN new ELSE c : c \in occs}

\* The requests to the series go on with the occurrences that are left.
GoOn(rows) ==
    req' = IF rows = {} THEN NoReq ELSE [req EXCEPT !.pc = "rows", !.rows = rows, !.held = {}]

\* A failed call for one occurrence is logged and the loop goes on.
Skipped == Fault /\ disturbed' = TRUE /\ UNCHANGED occs

\* Variant: an update passes over the occurrences that are published.
AppliedUnpublished(o) ==
    CASE req.op = "update" /\ o.status # "published" -> [o EXCEPT !.version = req.copy.version]
      [] req.op = "update" /\ o.status = "published" -> o
      [] OTHER -> [o EXCEPT !.status = "cancelled"]

\* The copy of an occurrence as the loop writes it back.
Applied(o) ==
    CASE req.op = "update" -> [o EXCEPT !.version = req.copy.version]
      [] OTHER             -> [o EXCEPT !.status = "cancelled"]

\* A stop cancels an occurrence that it has read as published through the event
\* service.
ThroughCancel(o) == req.op = "stop" /\ o.status = "published"

\* One turn of the loop over the occurrences read; no effect on one that the
\* cleanup has deleted since.
RowTurn ==
    /\ req.pc = "rows"
    /\ \E o \in req.rows :
          /\ ~ThroughCancel(o)
          /\ GoOn(req.rows \ {o})
          /\ \/ Write(Applied(o)) /\ UNCHANGED <<disturbed, faults>>
             \/ Skipped
    /\ UNCHANGED <<now, series, made, job, late, bounds>>

\* Variant: the loop ends where Cancel refuses an occurrence.
CancelFindGivesUp ==
    /\ req.pc = "rows"
    /\ \E o \in req.rows :
          /\ ThroughCancel(o)
          /\ \/ \E c \in occs :
                   /\ c.id = o.id /\ c.status = "published"
                   /\ req' = [req EXCEPT !.pc = "cancel", !.rows = @ \ {o},
                                         !.held = {[c EXCEPT !.status = "cancelled"]}]
             \/ (\A c \in occs : c.id = o.id => c.status # "published") /\ req' = NoReq
    /\ UNCHANGED <<now, series, occs, made, job, late, disturbed, bounds, faults>>

\* Cancel reads the occurrence again and refuses one that is gone or no longer
\* published.
CancelFind ==
    /\ req.pc = "rows"
    /\ \E o \in req.rows :
          /\ ThroughCancel(o)
          /\ \/ /\ \E c \in occs :
                      /\ c.id = o.id /\ c.status = "published"
                      /\ req' = [req EXCEPT !.pc = "cancel", !.rows = @ \ {o},
                                            !.held = {[c EXCEPT !.status = "cancelled"]}]
                /\ UNCHANGED <<occs, disturbed, faults>>
             \/ /\ \A c \in occs : c.id = o.id => c.status # "published"
                /\ GoOn(req.rows \ {o})
                /\ UNCHANGED <<occs, disturbed, faults>>
             \/ GoOn(req.rows \ {o}) /\ Skipped
    /\ UNCHANGED <<now, series, made, job, late, bounds>>

\* Cancel writes the row that it has read.
CancelWrite ==
    /\ req.pc = "cancel"
    /\ GoOn(req.rows)
    /\ \/ (\E new \in req.held : Write(new)) /\ UNCHANGED <<disturbed, faults>>
       \/ Skipped
    /\ UNCHANGED <<now, series, made, job, late, bounds>>

-----------------------------------------------------------------------------
(* The other components.                                                   *)

\* What an event request makes of the row it has read: Update edits the columns
\* and may move the date, in any status; Publish, Cancel, Reopen and Delete set
\* the status.
EditsOf(o) ==
    {[o EXCEPT !.version = Custom]} \cup {[o EXCEPT !.date = d] : d \in NewDates}
    \cup {[o EXCEPT !.status = "archived"]}
    \cup (IF o.status = "draft" THEN {[o EXCEPT !.status = "published"]} ELSE {})
    \cup (IF o.status = "published" THEN {[o EXCEPT !.status = "cancelled"]} ELSE {})
    \cup (IF o.status = "cancelled" THEN {[o EXCEPT !.status = "draft"]} ELSE {})

\* FindByID and the checks of an event request.
EditRead ==
    /\ Upsettable /\ edits' = edits + 1
    /\ \E o \in occs : \E new \in EditsOf(o) :
          pending' = pending \cup {[request |-> edits, row |-> new]}
    /\ UNCHANGED <<now, series, occs, made, job, req, disturbed, late, own, touched, served, faults>>

\* Its write of the whole row; a request whose write fails never takes this step.
EditWrite ==
    /\ \E p \in pending :
          /\ pending' = pending \ {p}
          /\ Write(p.row)
          /\ own' = own \cup {p.row.id}
          /\ touched' = [op \in {"stop", "update"} |-> touched[op] \cup {p.row.id}]
    /\ UNCHANGED <<now, series, made, job, req, disturbed, late, served, edits, faults>>

\* The retention cleanup deletes the occurrences that are over.
Over(o) == o.date < now /\ o.status # "archived"
Cleanup ==
    /\ \E o \in occs : Over(o)
    /\ occs' = {o \in occs : ~Over(o)}
    /\ UNCHANGED <<now, series, made, job, req, disturbed, late, bounds, faults>>

Tick ==
    /\ now < MaxTime /\ now' = now + 1
    /\ UNCHANGED <<series, occs, made, job, req, disturbed, late, bounds, faults>>

Generate == JobRead \/ JobWindow \/ JobTurn
Serve    == InitialTurn \/ SaveSeries \/ FindRows \/ RowTurn \/ CancelFind \/ CancelWrite

Next ==
    \/ Generate \/ Serve
    \/ \E rule \in Rules, d \in Starts, n \in Limits, e \in Ends : CreateSeries(rule, d, n, e)
    \/ \E n \in NewLimits, e \in NewEnds : UpdateSeries(n, e)
    \/ StopSeries \/ DeleteSeries
    \/ EditRead \/ EditWrite \/ Cleanup \/ Tick

Spec == Init /\ [][Next]_vars

\* The job's ticker fires again after every iteration; nothing forces the
\* organizer, the rest of a request, or the clock.
FairSpec == Spec /\ WF_vars(Generate)

-----------------------------------------------------------------------------
(* Properties. Where the job overlaps a request it works with the row it   *)
(* read before; what that can break is stated for the undisturbed case.    *)

Statuses  == {"draft", "published", "cancelled", "archived"}
\* The upcoming occurrences that are announced, but for those that requests about
\* single occurrences wrote.
Announced(written) == {o \in Future : o.status = "published" /\ o.id \notin written}
Settled == req.pc = "idle" /\ ~disturbed

\* Type correctness of the rows and of the locals.
TypeOK ==
    /\ now \in 0 .. MaxTime /\ made \in Nat /\ late \in Nat /\ disturbed \in BOOLEAN
    /\ series = NoSeries \/ series.status \in {"active", "stopped"}
    /\ \A o \in occs : /\ o.id \in 1 .. made /\ o.date \in Nat
                       /\ o.status \in Statuses
    /\ \A o1, o2 \in occs : o1.id = o2.id => o1 = o2
    /\ job.pc \in {"idle", "window", "loop"} /\ job.left \in 0 .. Window
    /\ req.pc \in {"idle", "initial", "save", "find", "rows", "cancel"} /\ req.turn \in 0 .. Window

\* The job and the creation of the series never announce one date twice, however
\* occurrences are cancelled, reopened, moved and deleted in between; an
\* occurrence that an event request wrote is its organizer's own.
NoDoubleBooking ==
    ~disturbed => \A o1, o2 \in Announced(own) : o1.date = o2.date => o1 = o2

\* maxOccurrences holds for the rows that exist, also when insertions fail
\* half way and the next iteration goes on.
LimitRespected ==
    ~disturbed /\ series.limit # None => Cardinality(occs) <= series.limit

\* After StopSeries no upcoming occurrence is still announced, but for those that
\* an event request wrote after the stop had looked for them: such a write puts
\* back the whole row that the request had read, its status included.
StopCancelsFuture == Settled /\ series.status = "stopped" => Announced(touched["stop"]) = {}

\* After UpdateSeries every announced upcoming occurrence shows the new template,
\* those that were edited alone before it included, with the same exception.
TemplateApplied ==
    Settled /\ series # NoSeries =>
        \A o \in Announced(touched["update"]) : o.version = series.version

\* A stop and an update reach every upcoming occurrence, although they visit one
\* after the other and event requests write them before, between and after.
ChangesReachAll == StopCancelsFuture /\ TemplateApplied

\* A job that read the series before it was stopped adds no more than one
\* window of occurrences to it; later iterations add nothing.
LateBounded == late <= Window

\* An active series without limit and end does not stay short of its window,
\* after any number of failed insertions and however long the job did not run.
Short == series.status = "active" /\ series.limit = None /\ series.end = None
            /\ Cardinality(Future) < Window
WindowRefilled == []<>~Short

=============================================================================
