--------------------------- MODULE LifecycleProofs ---------------------------
(* Theorems about EventLifecycle, for every number of request goroutines,    *)
(* dates, retention periods, restarts and failures.                          *)
EXTENDS EventLifecycle, TLAPS

\* A request in progress has read a row and is one of those that may be sent.
Working ==
    \A p \in Procs : pc[p] # "idle" => copy[p] \in Event /\ job[p] \in Requests

\* An event that is not created yet has no row and no requests.
Uncreated == ~created => row = NoEvent /\ cleanup # "delete" /\ \A p \in Procs : pc[p] = "idle"

LifeInv == TypeOK /\ Working /\ Uncreated

-----------------------------------------------------------------------------
(* Types                                                                   *)

\* The records of the model.
LEMMA Shapes ==
    /\ NoEvent \notin Event
    /\ \A e \in Event : /\ e.status \in Statuses /\ e.date \in Dates
                        /\ e.deadline \in Dates \cup {None} /\ e.retention \in Retentions
    /\ \A r \in Requests : /\ r \in Request
                           /\ r.op \in Ops /\ r.date \in Dates \cup {None}
                           /\ r.deadline \in Dates \cup {None, Clear}
                           /\ r.retention \in Retentions \cup {None}
  BY ConstantsAssumption DEF Event, NoEvent, Request, Statuses

\* What a handler writes is an event row.
LEMMA EditedIsEvent ==
    ASSUME NEW r \in Requests, NEW e \in Event
    PROVE  /\ Edited(r, e) \in Event
           /\ Edited(r, e).date = IF r.date = None THEN e.date ELSE r.date
           /\ Edited(r, e).retention = IF r.retention = None THEN e.retention ELSE r.retention
  BY Shapes DEF Edited, Event, Statuses

\* The steps of a request goroutine.
LEMMA RequestStep ==
    ASSUME LifeInv, NEW p \in Procs,
           \/ \E r \in Requests : Begin(p, r)
           \/ Manage(p) \/ Write(p) \/ OnPublish(p) \/ OnCancel(p)
    PROVE  LifeInv'
  <1> USE DEF LifeInv
  <1>0. created
    BY Shapes DEF Begin, Manage, Write, OnPublish, OnCancel, Uncreated
  <1>1. ASSUME NEW r \in Requests, Begin(p, r)
        PROVE  LifeInv'
    <2>1. row \in Event
      BY <1>1 DEF TypeOK, Begin
    <2>2. TypeOK'
      BY <1>1, <2>1, Shapes, ConstantsAssumption DEF TypeOK, Begin, rest, job_
    <2>3. Working'
      BY <1>1, <2>1 DEF TypeOK, Begin, Working
    <2>4. QED
      BY <1>0, <1>1, <2>2, <2>3 DEF Uncreated, Begin, rest
  <1>2. ASSUME Return(p), UNCHANGED <<created, cleanup, warned, warnings, restarts, faults>>,
               row' \in Event \cup {NoEvent}, cohosts' \subseteq People,
               reminders' \in [Offsets -> Nat], notices' \in Nat, reopens' \in Nat,
               UNCHANGED <<now, files>>
        PROVE  LifeInv'
    <2>1. TypeOK'
      BY <1>2 DEF TypeOK, Return
    <2>2. Working'
      BY <1>2 DEF TypeOK, Return, Working
    <2>3. QED
      BY <1>0, <1>2, <2>1, <2>2 DEF Uncreated
  <1>3. ASSUME NEW a \in {"write", "hook"}, pc' = [pc EXCEPT ![p] = a], pc[p] # "idle",
               UNCHANGED <<job, copy, served, created, cohosts, reminders, notices, files, now, job_>>,
               row' \in Event \cup {NoEvent}, reopens' \in Nat
        PROVE  LifeInv'
    <2>1. TypeOK'
      BY <1>3 DEF TypeOK, job_
    <2>2. Working'
      BY <1>3 DEF TypeOK, Working
    <2>3. QED
      BY <1>0, <1>3, <2>1, <2>2 DEF Uncreated
  <1>4. CASE Manage(p)
    BY <1>2, <1>3, <1>4 DEF Manage, rest, job_, TypeOK
  <1>5. CASE Write(p)
    <2>1. copy[p] \in Event /\ job[p] \in Requests
      BY <1>5 DEF Write, Working
    <2>2. row' \in Event \cup {NoEvent} /\ reopens' \in Nat
      BY <1>5, <2>1, EditedIsEvent DEF Write, Updated, TypeOK
    <2>3. QED
      BY <1>2, <1>3, <1>5, <2>2 DEF Write, job_, TypeOK
  <1>6. CASE OnPublish(p) \/ OnCancel(p)
    BY <1>2, <1>6 DEF OnPublish, OnCancel, job_, TypeOK
  <1>7. QED
    BY <1>1, <1>4, <1>5, <1>6

\* The steps of the rest of the system.
LEMMA WorldStep ==
    ASSUME LifeInv,
           \/ \E d \in Dates, dl \in Dates \cup {None}, n \in Retentions \cup {0} :
                 CreateEvent(d, dl, n)
           \/ \E q \in People : AddCoHost(q) \/ RemoveCoHost(q)
           \/ Cleanup \/ DeleteFails \/ DeleteAccount \/ Restart \/ Tick
    PROVE  LifeInv'
  <1> USE DEF LifeInv
  <1>0. /\ MaxTime \in Nat /\ MaxRestarts \in Nat /\ MaxFaults \in Nat
        /\ Fault => faults' \in 0 .. MaxFaults
    BY ConstantsAssumption DEF Fault, TypeOK
  <1>1. ASSUME NEW d \in Dates, NEW dl \in Dates \cup {None}, NEW n \in Retentions \cup {0},
               CreateEvent(d, dl, n)
        PROVE  LifeInv'
    <2>1. row' \in Event
      BY <1>1, ConstantsAssumption DEF CreateEvent, Event, Statuses
    <2>2. TypeOK'
      BY <1>1, <2>1 DEF CreateEvent, TypeOK, requests, job_
    <2>3. QED
      BY <1>1, <2>2 DEF CreateEvent, Working, Uncreated, requests, job_
  <1>2. ASSUME NEW q \in People, AddCoHost(q) \/ RemoveCoHost(q)
        PROVE  LifeInv'
    BY <1>2 DEF AddCoHost, RemoveCoHost, TypeOK, Working, Uncreated, requests, job_
  <1>3. CASE Cleanup
    <2>1. CASE WarnExpiring
      <3>1. TypeOK'
        <4>1. warned' \in BOOLEAN /\ warnings' \in Nat /\ faults' \in 0 .. MaxFaults
          <5>1. /\ warned' \in {TRUE, warned}
                /\ \/ warnings' = warnings + 1 /\ faults' = faults
                   \/ warnings' = warnings /\ (Fault \/ faults' = faults)
            BY <2>1 DEF WarnExpiring, Warn, RememberWarned
          <5>2. warned \in BOOLEAN /\ warnings \in Nat /\ faults \in 0 .. MaxFaults
            BY DEF TypeOK
          <5>3. warned' \in BOOLEAN
            BY <5>1, <5>2, Zenon
          <5>4. warnings' \in Nat /\ faults' \in 0 .. MaxFaults
            BY <1>0, <5>1, <5>2
          <5>5. QED
            BY <5>3, <5>4
        <4>2. QED
          BY <2>1, <4>1 DEF WarnExpiring, TypeOK, requests, rest
      <3>2. Working'
        BY <2>1 DEF WarnExpiring, Warn, RememberWarned, Fault, TypeOK, Working, requests, rest
      <3>3. Uncreated'
        BY <2>1 DEF WarnExpiring, Warn, RememberWarned, Fault, Uncreated, requests, rest
      <3>4. QED
        BY <3>1, <3>2, <3>3
    <2>2. CASE ScanExpired
      <3>1. TypeOK'
        BY <2>2 DEF ScanExpired, TypeOK, requests, rest
      <3>2. Working'
        BY <2>2 DEF ScanExpired, TypeOK, Working, requests, rest
      <3>3. Uncreated'
        BY <2>2 DEF ScanExpired, Uncreated, requests, rest
      <3>4. QED
        BY <3>1, <3>2, <3>3
    <2>3. CASE DeleteExpired
      BY <2>3 DEF DeleteExpired, TypeOK, Working, Uncreated, requests
    <2>4. QED
      BY <1>3, <2>1, <2>2, <2>3 DEF Cleanup
  <1>4. CASE DeleteFails
    <2>1. TypeOK'
      BY <1>0, <1>4 DEF DeleteFails, TypeOK, requests
    <2>2. Working'
      BY <1>4 DEF DeleteFails, Fault, TypeOK, Working, requests
    <2>3. Uncreated'
      BY <1>4 DEF DeleteFails, Fault, Uncreated, requests
    <2>4. QED
      BY <2>1, <2>2, <2>3
  <1>5. CASE DeleteAccount
    <2>1. TypeOK'
      BY <1>5 DEF DeleteAccount, TypeOK, requests, job_
    <2>2. Working'
      BY <1>5 DEF DeleteAccount, TypeOK, Working, requests, job_
    <2>3. Uncreated'
      BY <1>5 DEF DeleteAccount, Uncreated, requests, job_
    <2>4. QED
      BY <2>1, <2>2, <2>3
  <1>6. CASE Restart
    <2>1. TypeOK'
      <3>1. restarts' \in 0 .. MaxRestarts
        BY <1>0, <1>6 DEF Restart, TypeOK
      <3>2. QED
        BY <1>6, <3>1 DEF Restart, TypeOK, rest
    <2>2. Working'
      BY <1>6 DEF Restart, TypeOK, Working, rest
    <2>3. Uncreated'
      BY <1>6 DEF Restart, Uncreated, rest
    <2>4. QED
      BY <2>1, <2>2, <2>3
  <1>7. CASE Tick
    BY <1>7, ConstantsAssumption DEF Tick, TypeOK, Working, Uncreated, requests, rest, job_
  <1>8. QED
    BY <1>1, <1>2, <1>3, <1>4, <1>5, <1>6, <1>7

\* The invariant holds at the start, and every step keeps it.
LEMMA LifeInvariant == Spec => []LifeInv
  <1>1. Init => LifeInv
    <2> SUFFICES ASSUME Init PROVE LifeInv
      OBVIOUS
    <2>0. 0 \in 0 .. MaxTime /\ 0 \in 0 .. MaxRequests /\ 0 \in 0 .. MaxRestarts /\ 0 \in 0 .. MaxFaults
      BY ConstantsAssumption
    <2>1. TypeOK
      BY <2>0 DEF Init, TypeOK
    <2>2. QED
      BY <2>1 DEF Init, LifeInv, Working, Uncreated
  <1>2. LifeInv /\ [Next]_vars => LifeInv'
    <2>1. LifeInv /\ UNCHANGED vars => LifeInv'
      BY DEF LifeInv, TypeOK, Working, Uncreated, vars
    <2>2. LifeInv /\ Next => LifeInv'
      BY RequestStep, WorldStep DEF Next
    <2>3. QED
      BY <2>1, <2>2
  <1>3. QED
    BY <1>1, <1>2, PTL DEF Spec

\* The row, the requests' locals and the job's state keep their types.
THEOREM LifecycleTypeCorrect == Spec => []TypeOK
  BY LifeInvariant, PTL DEF LifeInv

-----------------------------------------------------------------------------
(* Deletion                                                                *)

\* A request that read the event before it was deleted does not bring it back,
\* however many requests are in flight.
THEOREM DeletionIsFinal == Spec => DeletedStaysDeleted
  <1>1. LifeInv /\ [Next]_vars => [created /\ row = NoEvent => row' = NoEvent]_vars
    <2> SUFFICES ASSUME LifeInv, Next, created, row = NoEvent PROVE row' = NoEvent
      BY DEF vars
    <2>1. ASSUME NEW p \in Procs, \/ \E r \in Requests : Begin(p, r)
                                 \/ Manage(p) \/ OnPublish(p) \/ OnCancel(p)
          PROVE  row' = row
      BY <2>1 DEF Begin, Manage, OnPublish, OnCancel
    <2>2. ASSUME NEW p \in Procs, Write(p)
          PROVE  row' = row
      BY <2>2 DEF Write, Updated
    <2>3. CASE Cleanup \/ DeleteFails \/ DeleteAccount \/ Restart \/ Tick
      BY <2>3 DEF Cleanup, WarnExpiring, ScanExpired, DeleteExpired, DeleteFails, DeleteAccount,
                  Restart, Tick, rest
    <2>4. ASSUME NEW q \in People, AddCoHost(q) \/ RemoveCoHost(q)
          PROVE  row' = row
      BY <2>4 DEF AddCoHost, RemoveCoHost
    <2>5. QED
      BY <2>1, <2>2, <2>3, <2>4 DEF Next, CreateEvent
  <1>2. QED
    BY <1>1, LifeInvariant, PTL DEF Spec, DeletedStaysDeleted

\* No request changes the date or the retention period.
TimesKept == \A r \in Requests : r.date = None /\ r.retention = None

\* Every copy of the row that a request holds has its times, and what the job is
\* about to delete is over.
TimesInv ==
    /\ row # NoEvent => \A p \in Procs :
          pc[p] # "idle" => copy[p].date = row.date /\ copy[p].retention = row.retention
    /\ cleanup = "delete" /\ row # NoEvent => now > Expiry(row)

LEMMA TimesStep ==
    ASSUME TimesKept, LifeInv, TimesInv, [Next]_vars
    PROVE  TimesInv'
  <1> USE DEF LifeInv
  <1>0. /\ pc \in [Procs -> {"idle", "manage", "write", "hook"}]
        /\ copy \in [Procs -> Event \cup {NoEvent}]
        /\ now \in Int /\ (row # NoEvent => Expiry(row) \in Int)
    <2>1. row # NoEvent => row.date \in Int /\ row.retention \in Int
      <3>1. Dates \subseteq Int /\ Retentions \subseteq Int
        BY ConstantsAssumption
      <3>2. row # NoEvent => row \in Event
        BY DEF TypeOK
      <3>3. QED
        BY <3>1, <3>2 DEF Event
    <2>2. now \in Int
      BY ConstantsAssumption DEF TypeOK
    <2>3. QED
      BY <2>1, <2>2 DEF TypeOK, Expiry
  <1>1. CASE UNCHANGED vars
    BY <1>1 DEF TimesInv, Expiry, vars
  <1>2. ASSUME NEW p \in Procs, NEW r \in Requests, Begin(p, r)
        PROVE  TimesInv'
    BY <1>0, <1>2 DEF Begin, TimesInv, Expiry, job_
  <1>3. ASSUME NEW p \in Procs, Manage(p) \/ OnPublish(p) \/ OnCancel(p)
        PROVE  TimesInv'
    <2>1. UNCHANGED <<row, now, cleanup>>
      BY <1>3 DEF Manage, OnPublish, OnCancel, job_
    <2>2. \A q \in Procs : pc'[q] # "idle" => pc[q] # "idle" /\ copy'[q] = copy[q]
      BY <1>0, <1>3 DEF Manage, OnPublish, OnCancel, Return
    <2>3. QED
      BY <2>1, <2>2 DEF TimesInv, Expiry
  <1>4. ASSUME NEW p \in Procs, Write(p)
        PROVE  TimesInv'
    <2>1. UNCHANGED <<now, cleanup>> /\ row' = IF row = NoEvent THEN row ELSE Edited(job[p], copy[p])
      BY <1>4 DEF Write, Updated, job_
    <2>2. row # NoEvent => row'.date = row.date /\ row'.retention = row.retention
      BY <1>4, <2>1, EditedIsEvent DEF Write, Working, TimesKept, TimesInv
    <2>3. \A q \in Procs : pc'[q] # "idle" => pc[q] # "idle" /\ copy'[q] = copy[q]
      BY <1>0, <1>4 DEF Write, Return
    <2>4. row' # NoEvent => row # NoEvent
      BY <2>1
    <2>5. QED
      BY <2>1, <2>2, <2>3, <2>4 DEF TimesInv, Expiry
  <1>5. ASSUME NEW d \in Dates, NEW dl \in Dates \cup {None}, NEW n \in Retentions \cup {0},
               CreateEvent(d, dl, n)
        PROVE  TimesInv'
    BY <1>5 DEF CreateEvent, Uncreated, TimesInv, requests, job_
  <1>6. ASSUME NEW q \in People, AddCoHost(q) \/ RemoveCoHost(q)
        PROVE  TimesInv'
    BY <1>6 DEF AddCoHost, RemoveCoHost, TimesInv, Expiry, requests, job_
  <1>7. CASE WarnExpiring \/ DeleteFails \/ Restart
    BY <1>7 DEF WarnExpiring, DeleteFails, Restart, TimesInv, Expiry, requests, rest
  <1>8. CASE ScanExpired
    BY <1>8 DEF ScanExpired, Expired, TimesInv, Expiry, requests
  <1>9. CASE DeleteExpired \/ DeleteAccount
    BY <1>9 DEF DeleteExpired, DeleteAccount, TimesInv
  <1>10. CASE Tick
    BY <1>0, <1>10 DEF Tick, TimesInv, Expiry, requests, job_
  <1>11. QED
    BY <1>1, <1>2, <1>3, <1>4, <1>5, <1>6, <1>7, <1>8, <1>9, <1>10 DEF Next, Cleanup

\* If requests leave the times alone, the cleanup job deletes an event only when
\* its retention period is over, although it acts on a scan made before.
THEOREM OnlyExpiredDeleted ==
    ASSUME TimesKept
    PROVE  Spec => DeletedOnlyExpired
  <1>1. Init => TimesInv
    BY DEF Init, TimesInv
  <1>2. LifeInv /\ TimesInv /\ [Next]_vars => TimesInv'
    BY TimesStep
  <1>3. TimesInv /\ [Next]_vars =>
           [cleanup = "delete" /\ row # NoEvent /\ row' = NoEvent /\ cleanup' # cleanup
              => now > Expiry(row)]_vars
    BY DEF TimesInv
  <1>4. QED
    BY <1>1, <1>2, <1>3, LifeInvariant, PTL DEF Spec, DeletedOnlyExpired

-----------------------------------------------------------------------------
(* Once                                                                    *)

\* Every warning was given in a server process of its own.
WarnInv == warnings <= restarts + (IF warned THEN 1 ELSE 0)

LEMMA WarnStep ==
    ASSUME LifeInv, WarnInv, [Next]_vars
    PROVE  WarnInv'
  <1>0. warnings \in Nat /\ restarts \in Nat /\ warned \in BOOLEAN
    BY ConstantsAssumption DEF LifeInv, TypeOK
  <1>1. CASE UNCHANGED <<warnings, restarts, warned>>
    BY <1>1 DEF WarnInv
  <1>2. CASE WarnExpiring /\ ~UNCHANGED <<warnings, restarts, warned>>
    <2>1. /\ ~warned /\ warned' = TRUE /\ restarts' = restarts
          /\ warnings' \in {warnings, warnings + 1}
      BY <1>2, Zenon DEF WarnExpiring, Warn, RememberWarned
    <2>2. warnings <= restarts
      <3>1. (IF warned THEN 1 ELSE 0) = 0
        BY <2>1
      <3>2. QED
        BY <1>0, <3>1 DEF WarnInv
    <2>3. warnings' <= restarts' + 1
      BY <1>0, <2>1, <2>2
    <2>4. QED
      BY <2>1, <2>3 DEF WarnInv
  <1>3. CASE Restart
    <2>1. warnings' = warnings /\ restarts' = restarts + 1 /\ warned' = FALSE
      BY <1>3 DEF Restart
    <2>2. warnings <= restarts + 1
      BY <1>0 DEF WarnInv
    <2>3. QED
      BY <1>0, <2>1, <2>2 DEF WarnInv
  <1>4. Next /\ ~WarnExpiring /\ ~Restart => UNCHANGED <<warnings, restarts, warned>>
    BY DEF Next, Cleanup, CreateEvent, Begin, Manage, Write, OnPublish, OnCancel, AddCoHost,
           RemoveCoHost, ScanExpired, DeleteExpired, DeleteFails, DeleteAccount, Tick, job_
  <1>5. UNCHANGED vars => UNCHANGED <<warnings, restarts, warned>>
    BY DEF vars
  <1>6. QED
    BY <1>1, <1>2, <1>3, <1>4, <1>5

\* One server process gives one warning, whatever requests, restarts and failing
\* calls of the cleanup job come in between.
THEOREM WarnedOncePerProcess == Spec => []WarnedOnce
  <1>1. Init => WarnInv
    BY DEF Init, WarnInv
  <1>2. LifeInv /\ WarnInv /\ [Next]_vars => WarnInv'
    BY WarnStep
  <1>3. LifeInv /\ WarnInv => WarnedOnce
    BY ConstantsAssumption DEF LifeInv, TypeOK, WarnInv, WarnedOnce
  <1>4. QED
    BY <1>1, <1>2, <1>3, LifeInvariant, PTL DEF Spec

\* The server handles one request for the event at a time.
OneAtATime == \A p, q \in Procs : p = q

\* A handler whose onPublish hook is still to run.
Publishing == \E p \in Procs : pc[p] = "hook" /\ job[p].op = "publish"

\* The reminders of a row and of the hook that is to run, against the times that
\* the event was in draft and left it; the copy of the request is the row.
PublishInv ==
    /\ row = NoEvent => \A o \in Offsets : reminders[o] = 0
    /\ row # NoEvent => \A o \in Offsets :
          reminders[o] + (IF Publishing THEN 1 ELSE 0)
             <= reopens + (IF row.status = "draft" THEN 0 ELSE 1)
    /\ \A p \in Procs : /\ row # NoEvent /\ pc[p] \in {"manage", "write"} => copy[p] = row
                        /\ pc[p] = "write" => Allowed(job[p], copy[p])

\* A step that leaves the row and its reminders alone and reopens nothing.
LEMMA PublishStay ==
    ASSUME LifeInv, PublishInv, UNCHANGED <<row, reminders, reopens>>,
           Publishing' => Publishing,
           \A p \in Procs : /\ row # NoEvent /\ pc'[p] \in {"manage", "write"} => copy'[p] = row
                            /\ pc'[p] = "write" => Allowed(job'[p], copy'[p])
    PROVE  PublishInv'
  <1>1. row # NoEvent => \A o \in Offsets :
           reminders[o] + (IF Publishing' THEN 1 ELSE 0)
              <= reopens + (IF row.status = "draft" THEN 0 ELSE 1)
    <2> SUFFICES ASSUME row # NoEvent, NEW o \in Offsets
                 PROVE  reminders[o] + (IF Publishing' THEN 1 ELSE 0)
                           <= reopens + (IF row.status = "draft" THEN 0 ELSE 1)
      OBVIOUS
    <2>1. reminders[o] \in Nat /\ reopens \in Nat
      BY DEF LifeInv, TypeOK
    <2>2. reminders[o] + (IF Publishing THEN 1 ELSE 0)
            <= reopens + (IF row.status = "draft" THEN 0 ELSE 1)
      BY DEF PublishInv
    <2>3. QED
      BY <2>1, <2>2
  <1>2. QED
    BY <1>1 DEF PublishInv

\* A step that ends with the event gone.
LEMMA PublishGone ==
    ASSUME LifeInv, PublishInv, row' = NoEvent, \A o \in Offsets : reminders'[o] = 0,
           \A p \in Procs : pc'[p] = "write" => Allowed(job'[p], copy'[p])
    PROVE  PublishInv'
  BY DEF PublishInv

LEMMA PublishStep ==
    ASSUME OneAtATime, LifeInv, PublishInv, [Next]_vars
    PROVE  PublishInv'
  <1>0. /\ pc \in [Procs -> {"idle", "manage", "write", "hook"}]
        /\ copy \in [Procs -> Event \cup {NoEvent}]
        /\ job \in [Procs -> Request \cup {NoRequest}]
        /\ reminders \in [Offsets -> Nat] /\ reopens \in Nat
    BY DEF LifeInv, TypeOK
  <1>1. CASE UNCHANGED <<row, reminders, reopens, pc, job, copy>>
    BY <1>1, PublishStay DEF PublishInv, Publishing
  <1>2. ASSUME NEW p \in Procs, NEW r \in Requests, Begin(p, r)
        PROVE  PublishInv'
    <2>1. /\ UNCHANGED <<row, reminders, reopens>> /\ copy'[p] = row /\ job'[p] = r
          /\ pc'[p] = IF r.op = "delete" THEN "write" ELSE "manage"
      BY <1>0, <1>2 DEF Begin, rest
    <2>2. \A q \in Procs : q = p
      BY DEF OneAtATime
    <2>3. pc'[p] = "write" => Allowed(r, row)
      BY <2>1, ConstantsAssumption DEF Allowed
    <2>4. QED
      BY <2>1, <2>2, <2>3, PublishStay DEF Publishing
  <1>3. ASSUME NEW p \in Procs, Manage(p)
        PROVE  PublishInv'
    <2>1. UNCHANGED <<row, reminders, reopens>>
      BY <1>3 DEF Manage, rest
    <2>2. \A q \in Procs : q = p
      BY DEF OneAtATime
    <2>3. CASE Return(p)
      BY <1>0, <2>1, <2>2, <2>3, PublishStay DEF Return, Publishing
    <2>4. CASE ~Return(p)
      <3>1. pc'[p] = "write" /\ UNCHANGED <<job, copy>> /\ Allowed(job[p], copy[p])
        BY <1>0, <1>3, <2>4 DEF Manage
      <3>2. row # NoEvent => copy[p] = row
        BY <1>3 DEF Manage, PublishInv
      <3>3. QED
        BY <2>1, <2>2, <3>1, <3>2, PublishStay DEF Publishing
    <2>5. QED
      BY <2>3, <2>4
  <1>4. ASSUME NEW p \in Procs, Write(p)
        PROVE  PublishInv'
    <2>1. /\ pc[p] = "write" /\ copy[p] \in Event /\ job[p] \in Requests /\ job[p].op \in Ops
          /\ Allowed(job[p], copy[p]) /\ UNCHANGED reminders
          /\ pc'[p] \in {"idle", "hook"}
          /\ job[p].op \notin {"publish", "cancel"} => pc'[p] = "idle"
          /\ pc'[p] = "hook" => job'[p] = job[p]
      BY <1>0, <1>4, Shapes DEF Write, Return, LifeInv, Working, PublishInv
    <2>2. \A q \in Procs : q = p
      BY DEF OneAtATime
    <2>3. CASE row = NoEvent
      <3>1. row' = NoEvent
        BY <1>4, <2>3 DEF Write, Updated
      <3>2. QED
        BY <2>1, <2>2, <2>3, <3>1, PublishGone DEF PublishInv
    <2>4. CASE row # NoEvent
      <3>1. copy[p] = row /\ row' = Edited(job[p], row)
        BY <1>4, <2>1, <2>4 DEF Write, Updated, PublishInv
      <3>2. row' \in Event /\ row' # NoEvent
        BY <2>1, <3>1, EditedIsEvent, Shapes
      <3>3. ~Publishing
        BY <2>1, <2>2 DEF Publishing
      <3>4. Publishing' => job[p].op = "publish"
        BY <2>1, <2>2 DEF Publishing
      <3>5. ASSUME NEW o \in Offsets
            PROVE  reminders'[o] + (IF Publishing' THEN 1 ELSE 0)
                     <= reopens' + (IF row'.status = "draft" THEN 0 ELSE 1)
        <4>0. reminders[o] \in Nat /\ reopens \in Nat
          BY <1>0
        <4>1. reminders[o] <= reopens + (IF row.status = "draft" THEN 0 ELSE 1)
          BY <1>0, <2>4, <3>3 DEF PublishInv
        <4>2. reopens' = IF job[p].op = "reopen" THEN reopens + 1 ELSE reopens
          BY <1>4 DEF Write
        <4>3. CASE job[p].op = "publish"
          <5>1. row.status = "draft" /\ row'.status = "published"
            BY <2>1, <3>1, <4>3 DEF Allowed, Edited
          <5>2. QED
            BY <2>1, <4>0, <4>1, <4>2, <4>3, <5>1
        <4>4. CASE job[p].op # "publish"
          <5>1. /\ ~Publishing'
                /\ row'.status = "draft" => row.status = "draft" \/ job[p].op = "reopen"
            BY <2>1, <3>1, <3>4, <4>4 DEF Edited, Ops
          <5>2. QED
            BY <2>1, <4>0, <4>1, <4>2, <5>1
        <4>5. QED
          BY <4>3, <4>4
      <3>6. QED
        BY <2>1, <2>2, <3>2, <3>5 DEF PublishInv
    <2>5. QED
      BY <2>3, <2>4
  <1>5. ASSUME NEW p \in Procs, OnPublish(p) \/ OnCancel(p)
        PROVE  PublishInv'
    <2>1. UNCHANGED <<row, reopens>> /\ pc'[p] = "idle" /\ pc[p] = "hook"
      BY <1>0, <1>5 DEF OnPublish, OnCancel, Return
    <2>2. \A q \in Procs : q = p
      BY DEF OneAtATime
    <2>3. ~Publishing'
      BY <2>1, <2>2 DEF Publishing
    <2>4. CASE OnCancel(p)
      <3>1. UNCHANGED reminders
        BY <2>4 DEF OnCancel
      <3>2. QED
        BY <2>1, <2>2, <2>3, <3>1, PublishStay
    <2>5. CASE OnPublish(p)
      <3>1. Publishing
        BY <2>5 DEF OnPublish, Publishing
      <3>2. \A o \in Offsets : IF row = NoEvent THEN reminders'[o] = reminders[o]
                               ELSE reminders'[o] \in {reminders[o], reminders[o] + 1}
        BY <2>5 DEF OnPublish
      <3>3. ASSUME row # NoEvent, NEW o \in Offsets
            PROVE  reminders'[o] + 0 <= reopens + (IF row.status = "draft" THEN 0 ELSE 1)
        <4>1. reminders[o] \in Nat /\ reopens \in Nat
          BY <1>0
        <4>2. reminders[o] + 1 <= reopens + (IF row.status = "draft" THEN 0 ELSE 1)
          BY <3>1, <3>3 DEF PublishInv
        <4>3. QED
          BY <3>2, <3>3, <4>1, <4>2
      <3>4. QED
        BY <2>1, <2>2, <2>3, <3>2, <3>3 DEF PublishInv
    <2>6. QED
      BY <1>5, <2>4, <2>5
  <1>6. ASSUME NEW d \in Dates, NEW dl \in Dates \cup {None}, NEW n \in Retentions \cup {0},
               CreateEvent(d, dl, n)
        PROVE  PublishInv'
    <2>1. /\ row = NoEvent /\ \A p \in Procs : pc[p] = "idle"
          /\ UNCHANGED <<reminders, reopens, pc, job>>
      BY <1>6 DEF CreateEvent, LifeInv, Uncreated, requests
    <2>2. \A o \in Offsets : reminders[o] = 0
      BY <2>1 DEF PublishInv
    <2>3. ~Publishing'
      BY <2>1 DEF Publishing
    <2>4. \A o \in Offsets : reminders'[o] + (IF Publishing' THEN 1 ELSE 0) <= reopens'
      BY <1>0, <2>1, <2>2, <2>3
    <2>5. row'.status = "draft"
      BY <1>6 DEF CreateEvent
    <2>6. QED
      BY <1>0, <2>1, <2>2, <2>4, <2>5 DEF PublishInv
  <1>7. CASE DeleteExpired \/ DeleteAccount
    BY <1>7, PublishGone DEF DeleteExpired, DeleteAccount, PublishInv, requests
  <1>8. CASE Restart
    BY <1>8, PublishStay DEF Restart, Publishing, rest
  <1>9. ASSUME NEW q \in People, AddCoHost(q) \/ RemoveCoHost(q)
        PROVE  PublishInv'
    BY <1>1, <1>9 DEF AddCoHost, RemoveCoHost, requests
  <1>10. CASE WarnExpiring \/ ScanExpired \/ DeleteFails \/ Tick
    BY <1>1, <1>10 DEF WarnExpiring, ScanExpired, DeleteFails, Tick, requests, rest
  <1>11. CASE UNCHANGED vars
    BY <1>1, <1>11 DEF vars
  <1>12. QED
    BY <1>2, <1>3, <1>4, <1>5, <1>6, <1>7, <1>8, <1>9, <1>10, <1>11 DEF Next, Cleanup

\* While requests do not overlap, an event has its default reminders once for
\* every time that it left the draft, whatever is deleted, fails or restarts
\* between the write of a publication and its hook; and one server process warns
\* of its deletion once.
THEOREM NothingIsTwice ==
    ASSUME OneAtATime
    PROVE  Spec => []NothingTwice
  <1>1. Init => PublishInv
    <2>1. Init => ~Publishing
      BY DEF Init, Publishing
    <2>2. QED
      BY <2>1 DEF Init, PublishInv
  <1>2. LifeInv /\ PublishInv /\ [Next]_vars => PublishInv'
    BY PublishStep
  <1>3. LifeInv /\ PublishInv => RemindersPerPublication
    <2> SUFFICES ASSUME LifeInv, PublishInv, NEW o \in Offsets
                 PROVE  reminders[o] <= 1 + reopens
      BY DEF RemindersPerPublication
    <2>1. reminders[o] \in Nat /\ reopens \in Nat
      BY DEF LifeInv, TypeOK
    <2>2. CASE row = NoEvent
      BY <2>1, <2>2 DEF PublishInv
    <2>3. CASE row # NoEvent
      <3>1. reminders[o] + (IF Publishing THEN 1 ELSE 0)
              <= reopens + (IF row.status = "draft" THEN 0 ELSE 1)
        BY <2>3 DEF PublishInv
      <3>2. QED
        BY <2>1, <3>1
    <2>4. QED
      BY <2>2, <2>3
  <1>4. QED
    BY <1>1, <1>2, <1>3, LifeInvariant, WarnedOncePerProcess, PTL DEF Spec, NothingTwice
=============================================================================
