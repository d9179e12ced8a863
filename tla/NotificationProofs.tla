------------------------- MODULE NotificationProofs -------------------------
(* Theorems about Notification, for every number of messages, recipients,    *)
(* events, delivery events and faults.                                       *)
EXTENDS Notification, TLAPS

Before == {"new", "footer", "insert"}

\* The attempts that are left, and what a delivery event in progress is about.
Tracked ==
    /\ hook = [h \in Hooks |-> hook[h]]
    /\ \A h \in Hooks : hook[h].pc = "write" => hook[h].msg \in Msgs /\ hook[h].type \in Reports
    /\ heard \in [Msgs -> SUBSET Reports] /\ overlap \in [Msgs -> BOOLEAN]

Bounded ==
    \A m \in Msgs : /\ pc[m] \in Before => tries[m] = 0
                    /\ pc[m] = "attempt" => tries[m] < MaxAttempts

Types == TypeOK /\ Bounded /\ Tracked

\* Who was told that he left is on the list until the event is deleted; a Send that
\* begins after that is withheld at once.
OptedOut ==
    /\ \A s \in acked : s \in suppressed \/ s[2] \in gone
    /\ \A m \in Msgs : /\ pc[m] \in Before => got[m] = 0
                       /\ late[m] => pc[m] = "skipped" /\ got[m] = 0

\* Nobody is on the list who did not ask.
OnRequest ==
    /\ suppressed \subseteq asked
    /\ \A m \in Msgs : unsub[m] # "idle" => Scope(m) \in asked
    /\ SkippedOnlyIfAsked

\* What arrived was an attempt, and what succeeded arrived.
Attempted ==
    \A m \in Msgs :
        /\ pc[m] \in InFlight \cup {"new"} => got[m] <= tries[m]
        /\ ok[m] => got[m] > 0
        /\ log[m].status = "sent" => got[m] > 0
        /\ got[m] <= MaxAttempts

\* The row is as high as what was heard, and after the write in progress it will be.
Good(d, S) == d \in Highest(S) \/ (Override \subseteq S /\ d \in Override)

Followed ==
    \A m \in Msgs :
        /\ pc[m] \in Before => heard[m] = {} /\ log[m] = NoRow
        /\ ~overlap[m] => \A h \in Hooks :
              hook[h].pc = "write" /\ hook[h].msg = m =>
                 /\ Good(hook[h].type, heard[m])
                 /\ \A g \in Hooks : hook[g].pc = "write" /\ hook[g].msg = m => g = h
        /\ log[m] # NoRow /\ ~overlap[m] /\ ~Pending(m) => Good(log[m].delivery, heard[m])

-----------------------------------------------------------------------------
Columns == [status : {"none", "pending", "sent", "failed"},
            delivery : Reports \cup {"unknown"}, mid : BOOLEAN]

LEMMA NoRowTyped == NoRow \in Columns /\ [NoRow EXCEPT !.status = "pending"] \in Columns
  BY DEF NoRow, Columns

LEMMA InitTypes == Init => Types
  <1> SUFFICES ASSUME Init PROVE Types
    OBVIOUS
  <1>1. to \in [Msgs -> Emails] /\ event \in [Msgs -> Events]
    <2>1. PICK f \in Addressed : to = [m \in Msgs |-> f[m][1]] /\ event = [m \in Msgs |-> f[m][2]]
      BY DEF Init
    <2>2. f \in [Msgs -> Emails \X Events]
      BY ConstantsAssumption
    <2>3. QED
      BY <2>1, <2>2
  <1>2. log \in [Msgs -> Columns]
    BY NoRowTyped DEF Init
  <1>3. TypeOK
    BY <1>1, <1>2, ConstantsAssumption DEF Init, TypeOK, Columns
  <1>4. Bounded
    BY ConstantsAssumption DEF Init, Bounded, Before
  <1>5. Tracked
    BY DEF Init, Tracked, NoHook
  <1>6. QED
    BY <1>3, <1>4, <1>5 DEF Types

LEMMA InitRest == Init => OptedOut /\ OnRequest /\ Attempted /\ Followed
  <1> SUFFICES ASSUME Init PROVE OptedOut /\ OnRequest /\ Attempted /\ Followed
    OBVIOUS
  <1>1. OptedOut
    BY DEF Init, OptedOut, Before
  <1>2. OnRequest
    BY DEF Init, OnRequest, SkippedOnlyIfAsked
  <1>3. Attempted
    BY ConstantsAssumption DEF Init, Attempted, NoRow
  <1>4. Followed
    BY DEF Init, Followed, Before, NoRow, NoHook
  <1>5. QED
    BY <1>1, <1>2, <1>3, <1>4

LEMMA TrackedStep == Types /\ [Next]_vars => Tracked'
  <1> SUFFICES ASSUME Types, [Next]_vars PROVE Tracked'
    OBVIOUS
  <1> USE DEF Types, Tracked
  <1>1. CASE UNCHANGED <<hook, heard, overlap>>
    BY <1>1
  <1>2. ASSUME NEW m \in Msgs,
               \/ \E ch \in {"email", "sms"} : SendBegin(m, ch)
               \/ Footer(m) \/ InsertLog(m) \/ Attempt(m) \/ UpdateLog(m) \/ TrackOpen(m)
        PROVE  Tracked'
    BY <1>1, <1>2 DEF SendBegin, Footer, InsertLog, Attempt, UpdateLog, TrackOpen, track
  <1>3. ASSUME NEW m \in Msgs, RecordOpen(m) PROVE Tracked'
    <2>1. hook' = hook /\ heard' \in [Msgs -> SUBSET Reports]
      BY <1>3 DEF RecordOpen, Reports
    <2>2. overlap' \in [Msgs -> BOOLEAN]
      BY <1>3 DEF RecordOpen
    <2>3. QED
      BY <2>1, <2>2
  <1>4. ASSUME NEW m \in Msgs, NEW h \in Hooks, NEW t \in Reports, HookRead(h, m, t) PROVE Tracked'
    <2>1. heard' \in [Msgs -> SUBSET Reports]
      BY <1>4 DEF HookRead
    <2>2. overlap' \in [Msgs -> BOOLEAN]
      BY <1>4 DEF HookRead
    <2>3. hook' = hook \/ hook' = [hook EXCEPT ![h] = [pc |-> "write", msg |-> m, type |-> t]]
      BY <1>4 DEF HookRead
    <2>4. QED
      BY <2>1, <2>2, <2>3
  <1>5. ASSUME NEW h \in Hooks, HookWrite(h) PROVE Tracked'
    <2>1. hook' = [hook EXCEPT ![h] = NoHook] /\ heard' = heard
      BY <1>5 DEF HookWrite
    <2>2. overlap' \in [Msgs -> BOOLEAN]
      BY <1>5 DEF HookWrite
    <2>3. QED
      BY <2>1, <2>2 DEF NoHook
  <1>6. ASSUME NEW m \in Msgs, UnsubFind(m) \/ UnsubExists(m) \/ UnsubInsert(m) \/ UnsubRecheck(m)
        PROVE  Tracked'
    BY <1>1, <1>6 DEF UnsubFind, UnsubExists, UnsubInsert, UnsubRecheck, track
  <1>7. ASSUME NEW e \in Events, DeleteEvent(e) PROVE Tracked'
    BY <1>1, <1>7 DEF DeleteEvent, track
  <1>8. CASE Crash
    <2>1. overlap' \in [Msgs -> BOOLEAN]
      BY <1>8 DEF Crash
    <2>2. QED
      BY <1>8, <2>1 DEF Crash, NoHook
  <1>9. CASE UNCHANGED vars
    BY <1>1, <1>9 DEF vars, track
  <1>10. QED
    BY <1>2, <1>3, <1>4, <1>5, <1>6, <1>7, <1>8, <1>9 DEF Next

LEMMA LogStep == Types /\ [Next]_vars => log' \in [Msgs -> Columns]
  <1> SUFFICES ASSUME Types, [Next]_vars PROVE log' \in [Msgs -> Columns]
    OBVIOUS
  <1>1. log \in [Msgs -> Columns]
    BY DEF Types, TypeOK, Columns
  <1>2. ASSUME NEW m \in Msgs, NEW d \in Reports, log' = [log EXCEPT ![m].delivery = d]
        PROVE  log' \in [Msgs -> Columns]
    <2>1. [log[m] EXCEPT !.delivery = d] \in Columns
      BY <1>1 DEF Columns
    <2>2. QED
      BY <1>1, <1>2, <2>1
  <1>3. ASSUME NEW m \in Msgs, UpdateLog(m)
        PROVE  log' \in [Msgs -> Columns]
    <2>1. CASE log' = log
      BY <1>1, <2>1
    <2>2. ASSUME NEW b \in BOOLEAN, log' = [log EXCEPT ![m].status = Outcome(m), ![m].mid = b]
          PROVE  log' \in [Msgs -> Columns]
      <3>1. [log[m] EXCEPT !.status = Outcome(m), !.mid = b] \in Columns
        BY <1>1 DEF Columns, Outcome
      <3>2. QED
        BY <1>1, <2>2, <3>1
    <2>3. (ok[m] /\ TRUE) \in BOOLEAN /\ (ok[m] /\ FALSE) \in BOOLEAN
      OBVIOUS
    <2>4. QED
      BY <1>3, <2>1, <2>2, <2>3 DEF UpdateLog
  <1>4. ASSUME NEW m \in Msgs, InsertLog(m) \/ RecordOpen(m)
        PROVE  log' \in [Msgs -> Columns]
    BY <1>1, <1>2, <1>4, NoRowTyped DEF InsertLog, RecordOpen, Reports
  <1>5. ASSUME NEW h \in Hooks, HookWrite(h)
        PROVE  log' \in [Msgs -> Columns]
    BY <1>1, <1>2, <1>5 DEF HookWrite, Types, Tracked
  <1>6. ASSUME NEW e \in Events, DeleteEvent(e)
        PROVE  log' \in [Msgs -> Columns]
    BY <1>1, <1>6, NoRowTyped DEF DeleteEvent
  <1>7. ASSUME NEW m \in Msgs,
               \/ \E ch \in {"email", "sms"} : SendBegin(m, ch)
               \/ Footer(m) \/ Attempt(m) \/ TrackOpen(m)
               \/ \E h \in Hooks, t \in Reports : HookRead(h, m, t)
               \/ UnsubFind(m) \/ UnsubExists(m) \/ UnsubInsert(m) \/ UnsubRecheck(m)
        PROVE  log' = log
    BY <1>7 DEF SendBegin, Footer, Attempt, TrackOpen, HookRead, UnsubFind, UnsubExists,
                UnsubInsert, UnsubRecheck
  <1>8. CASE Crash \/ UNCHANGED vars
    BY <1>1, <1>8 DEF Crash, vars
  <1>9. QED
    BY <1>1, <1>3, <1>4, <1>5, <1>6, <1>7, <1>8 DEF Next

LEMMA TypesStep == Types /\ [Next]_vars => TypeOK' /\ Bounded'
  <1> SUFFICES ASSUME Types, [Next]_vars PROVE TypeOK' /\ Bounded'
    OBVIOUS
  <1>0. log' \in [Msgs -> [status : {"none", "pending", "sent", "failed"},
                           delivery : Reports \cup {"unknown"}, mid : BOOLEAN]]
    BY LogStep DEF Columns
  <1> USE <1>0, ConstantsAssumption DEF Types, TypeOK, Bounded, Before, InFlight
  <1>1. ASSUME NEW m \in Msgs, NEW ch \in {"email", "sms"}, SendBegin(m, ch)
        PROVE  TypeOK' /\ Bounded'
    <2>1. /\ channel' = [channel EXCEPT ![m] = ch] /\ pc[m] = "new"
          /\ UNCHANGED <<to, event, tries, ok, got, log, optout, gone>>
      BY ONLY <1>1 DEF SendBegin
    <2>2. \E l \in {"insert", "error", "skipped", "footer"} : pc' = [pc EXCEPT ![m] = l]
      BY ONLY <1>1 DEF SendBegin, Goto
    <2>3. pc' \in [Msgs -> {"new", "skipped", "error", "sent", "failed", "lost"} \cup InFlight]
      BY <2>2
    <2>4. late' = late \/ \E b \in BOOLEAN : late' = [late EXCEPT ![m] = b]
      BY ONLY <1>1 DEF SendBegin
    <2>5. late' \in [Msgs -> BOOLEAN]
      BY <2>4
    <2>6. Bounded'
      BY <2>1, <2>2
    <2>7. TypeOK'
      BY <2>1, <2>3, <2>5 DEF optout
    <2>8. QED
      BY <2>6, <2>7
  <1>2. ASSUME NEW m \in Msgs, Footer(m) PROVE TypeOK' /\ Bounded'
    BY <1>2 DEF Footer, Goto, Works, Fault, dest, track
  <1>3. ASSUME NEW m \in Msgs, InsertLog(m) PROVE TypeOK' /\ Bounded'
    BY <1>3 DEF InsertLog, Goto, Works, Fault, dest, optout, track
  <1>4. ASSUME NEW m \in Msgs, Attempt(m) PROVE TypeOK' /\ Bounded'
    <2>1. UNCHANGED <<dest, late, optout, log, gone>>
      BY ONLY <1>4 DEF Attempt
    <2>2. pc[m] = "attempt" /\ tries[m] < MaxAttempts /\ tries' = [tries EXCEPT ![m] = @ + 1]
      BY <1>4 DEF Attempt
    <2>3. \E s, d \in BOOLEAN : /\ ok' = [ok EXCEPT ![m] = s]
                                /\ got' = [got EXCEPT ![m] = IF d THEN @ + 1 ELSE @]
      BY ONLY <1>4 DEF Attempt
    <2>4. ok' \in [Msgs -> BOOLEAN] /\ got' \in [Msgs -> Nat]
      BY <2>3
    <2>5. \/ pc' = [pc EXCEPT ![m] = "record"]
          \/ pc' = [pc EXCEPT ![m] = "attempt"] /\ tries[m] + 1 < MaxAttempts
      <3>1. \/ pc' = [pc EXCEPT ![m] = "record"]
            \/ pc' = [pc EXCEPT ![m] = "attempt"] /\ ~(tries[m] + 1 >= MaxAttempts)
        BY ONLY <1>4 DEF Attempt, Goto, Exhausted
      <3>2. QED
        BY <3>1
    <2>6. Bounded'
      BY <2>2, <2>5
    <2>7. tries' \in [Msgs -> 0 .. MaxAttempts]
      <3>1. tries[m] + 1 \in 0 .. MaxAttempts
        BY <2>2
      <3>2. QED
        BY <2>2, <3>1
    <2>8. pc' \in [Msgs -> {"new", "skipped", "error", "sent", "failed", "lost"} \cup InFlight]
      BY <2>5
    <2>9. TypeOK'
      BY <2>1, <2>4, <2>7, <2>8 DEF dest, optout
    <2>10. QED
      BY <2>6, <2>9
  <1>5. ASSUME NEW m \in Msgs, UpdateLog(m) PROVE TypeOK' /\ Bounded'
    BY <1>5 DEF UpdateLog, Goto, Works, Fault, dest, optout, track, Outcome
  <1>6. ASSUME UNCHANGED <<send, optout, gone>> PROVE TypeOK' /\ Bounded'
    BY <1>6 DEF send, dest, optout
  <1>7. ASSUME NEW m \in Msgs,
               \/ TrackOpen(m) \/ RecordOpen(m)
               \/ \E h \in Hooks, t \in Reports : HookRead(h, m, t)
        PROVE  TypeOK' /\ Bounded'
    BY <1>6, <1>7 DEF TrackOpen, RecordOpen, HookRead
  <1>8. ASSUME NEW h \in Hooks, HookWrite(h) PROVE TypeOK' /\ Bounded'
    BY <1>6, <1>8 DEF HookWrite
  <1>10. ASSUME NEW m \in Msgs, UnsubFind(m) \/ UnsubExists(m) \/ UnsubInsert(m) \/ UnsubRecheck(m)
         PROVE  TypeOK' /\ Bounded'
    <2>1. suppressed' \subseteq suppressed \cup {Scope(m)} /\ Scope(m) \in Emails \X Events
      BY <1>10 DEF UnsubFind, UnsubExists, UnsubInsert, UnsubRecheck, Answer, Scope
    <2>2. unsub' \in [Msgs -> {"idle", "exists", "insert", "recheck"}]
      <3>1. \E l \in {"idle", "exists", "insert", "recheck"} : unsub' = [unsub EXCEPT ![m] = l]
        BY ONLY <1>10 DEF UnsubFind, UnsubExists, UnsubInsert, UnsubRecheck, Answer, Step
      <3>2. QED
        BY <3>1
    <2>3. UNCHANGED <<send, tokens, log, gone>>
      BY <1>10 DEF UnsubFind, UnsubExists, UnsubInsert, UnsubRecheck
    <2>4. suppressed' \subseteq Emails \X (Events \cup {Global})
      BY <2>1
    <2>5. QED
      BY <2>2, <2>3, <2>4 DEF send, dest
  <1>11. ASSUME NEW e \in Events, DeleteEvent(e) PROVE TypeOK' /\ Bounded'
    BY <1>11 DEF DeleteEvent, send, dest, track, NoRow
  <1>12. CASE Crash
    <2>1. pc' \in [Msgs -> {"new", "skipped", "error", "sent", "failed", "lost"}]
          /\ \A m \in Msgs : pc'[m] = "new" => pc[m] = "new"
      BY <1>12 DEF Crash
    <2>2. QED
      BY <1>12, <2>1 DEF Crash, dest
  <1>13. CASE UNCHANGED vars
    BY <1>13 DEF vars, send, dest, optout
  <1>14. QED
    BY <1>1, <1>2, <1>3, <1>4, <1>5, <1>7, <1>8, <1>10, <1>11, <1>12, <1>13 DEF Next

-----------------------------------------------------------------------------
LEMMA OptedOutStep == Types /\ OptedOut /\ [Next]_vars => OptedOut'
  <1> SUFFICES ASSUME Types, OptedOut, [Next]_vars PROVE OptedOut'
    OBVIOUS
  <1> USE DEF OptedOut, Before
  <1>0. pc \in [Msgs -> {"new", "skipped", "error", "sent", "failed", "lost"} \cup InFlight]
        /\ got \in [Msgs -> Nat] /\ late \in [Msgs -> BOOLEAN]
    BY DEF Types, TypeOK
  <1>1. ASSUME NEW m \in Msgs, NEW ch \in {"email", "sms"}, SendBegin(m, ch)
        PROVE  OptedOut'
    <2>1. UNCHANGED <<acked, suppressed, gone, got>> /\ got[m] = 0
      BY <1>1 DEF SendBegin, optout
    <2>2. late' = late \/ (late' = [late EXCEPT ![m] = TRUE] /\ pc'[m] = "skipped")
          \/ late' = [late EXCEPT ![m] = FALSE]
      BY <1>0, <1>1 DEF SendBegin, Goto, IsSuppressed, Scope
    <2>3. ~late[m] /\ \A n \in Msgs \ {m} : pc'[n] = pc[n]
      <3>1. pc[m] = "new" /\ \E l : pc' = [pc EXCEPT ![m] = l]
        BY <1>1 DEF SendBegin, Goto
      <3>2. QED
        BY <1>0, <3>1
    <2>4. ASSUME NEW n \in Msgs
          PROVE  (pc'[n] \in Before => got'[n] = 0) /\ (late'[n] => pc'[n] = "skipped" /\ got'[n] = 0)
      <3>1. CASE n = m
        BY <1>0, <2>1, <2>2, <2>3, <3>1
      <3>2. CASE n # m
        BY <1>0, <2>1, <2>2, <2>3, <3>2
      <3>3. QED
        BY <3>1, <3>2
    <2>5. QED
      BY <2>1, <2>4
  <1>2. ASSUME NEW m \in Msgs, Footer(m) \/ InsertLog(m) \/ Attempt(m) \/ UpdateLog(m)
        PROVE  OptedOut'
    <2>1. UNCHANGED <<acked, suppressed, gone, late>>
      BY <1>2 DEF Footer, InsertLog, Attempt, UpdateLog, optout
    <2>2. /\ pc[m] # "skipped" /\ \E l : pc' = [pc EXCEPT ![m] = l]
          /\ \A n \in Msgs \ {m} : got'[n] = got[n]
          /\ pc'[m] \in Before => got'[m] = got[m] /\ pc[m] \in Before
      BY <1>0, <1>2 DEF Footer, InsertLog, Attempt, UpdateLog, Outcome, Goto
    <2>3. QED
      BY <1>0, <2>1, <2>2
  <1>3. ASSUME UNCHANGED <<pc, got, late, gone>>,
               \A s \in acked' : s \in acked /\ s \in suppressed => s \in suppressed',
               \A s \in acked' \ acked : s \in suppressed'
        PROVE  OptedOut'
    BY <1>3
  <1>4. ASSUME NEW m \in Msgs,
               \/ TrackOpen(m) \/ RecordOpen(m)
               \/ \E h \in Hooks, t \in Reports : HookRead(h, m, t)
        PROVE  OptedOut'
    BY <1>3, <1>4 DEF TrackOpen, RecordOpen, HookRead, send, optout
  <1>5. ASSUME NEW h \in Hooks, HookWrite(h) PROVE OptedOut'
    BY <1>3, <1>5 DEF HookWrite, send, optout
  <1>6. ASSUME NEW m \in Msgs, UnsubFind(m) \/ UnsubExists(m) \/ UnsubInsert(m) \/ UnsubRecheck(m)
        PROVE  OptedOut'
    <2>1. UNCHANGED <<pc, got, late, gone>>
      BY <1>6 DEF UnsubFind, UnsubExists, UnsubInsert, UnsubRecheck, send
    <2>2. suppressed \subseteq suppressed' /\ \A s \in acked' \ acked : s \in suppressed'
      BY <1>6 DEF UnsubFind, UnsubExists, UnsubInsert, UnsubRecheck, Answer
    <2>3. QED
      BY <1>3, <2>1, <2>2
  <1>7. ASSUME NEW e \in Events, DeleteEvent(e) PROVE OptedOut'
    BY <1>7 DEF DeleteEvent, send
  <1>8. CASE Crash
    BY <1>0, <1>8 DEF Crash, InFlight
  <1>9. CASE UNCHANGED vars
    BY <1>3, <1>9 DEF vars, send, optout
  <1>10. QED
    BY <1>1, <1>2, <1>4, <1>5, <1>6, <1>7, <1>8, <1>9 DEF Next

LEMMA OnRequestStep == Types /\ OnRequest /\ [Next]_vars => OnRequest'
  <1> SUFFICES ASSUME Types, OnRequest, [Next]_vars PROVE OnRequest'
    OBVIOUS
  <1> USE DEF OnRequest, SkippedOnlyIfAsked, Scope
  <1>0. pc \in [Msgs -> {"new", "skipped", "error", "sent", "failed", "lost"} \cup InFlight]
        /\ unsub \in [Msgs -> {"idle", "exists", "insert", "recheck"}]
    BY DEF Types, TypeOK
  <1>1. ASSUME UNCHANGED <<to, event, suppressed, asked>>,
               \A m \in Msgs : unsub'[m] # "idle" => unsub[m] # "idle",
               \A m \in Msgs : pc'[m] = "skipped" => pc[m] = "skipped" \/ IsSuppressed(m)
        PROVE  OnRequest'
    BY <1>1 DEF IsSuppressed
  <1>2. ASSUME NEW m \in Msgs,
               \/ \E ch \in {"email", "sms"} : SendBegin(m, ch)
               \/ Footer(m) \/ InsertLog(m) \/ Attempt(m) \/ UpdateLog(m)
        PROVE  OnRequest'
    <2>1. UNCHANGED <<to, event, suppressed, asked, unsub>>
      BY <1>2 DEF SendBegin, Footer, InsertLog, Attempt, UpdateLog, optout, dest
    <2>2. \E l : pc' = [pc EXCEPT ![m] = l] /\ (l = "skipped" => IsSuppressed(m))
      BY <1>2 DEF SendBegin, Footer, InsertLog, Attempt, UpdateLog, Goto, Outcome
    <2>3. QED
      BY <1>0, <1>1, <2>1, <2>2
  <1>3. ASSUME NEW m \in Msgs,
               \/ TrackOpen(m) \/ RecordOpen(m)
               \/ \E h \in Hooks, t \in Reports : HookRead(h, m, t)
        PROVE  OnRequest'
    BY <1>1, <1>3 DEF TrackOpen, RecordOpen, HookRead, send, dest, optout
  <1>4. ASSUME NEW h \in Hooks, HookWrite(h) PROVE OnRequest'
    BY <1>1, <1>4 DEF HookWrite, send, dest, optout
  <1>5. ASSUME NEW m \in Msgs, UnsubFind(m) \/ UnsubExists(m) \/ UnsubInsert(m) \/ UnsubRecheck(m)
        PROVE  OnRequest'
    <2>1. UNCHANGED <<pc, to, event>>
      BY <1>5 DEF UnsubFind, UnsubExists, UnsubInsert, UnsubRecheck, send, dest
    <2>2. /\ asked' \in {asked, asked \cup {Scope(m)}} /\ Scope(m) \in asked'
          /\ suppressed' \subseteq suppressed \cup {Scope(m)}
      BY <1>0, <1>5 DEF UnsubFind, UnsubExists, UnsubInsert, UnsubRecheck, Answer
    <2>3. \E l : unsub' = [unsub EXCEPT ![m] = l]
      BY <1>5 DEF UnsubFind, UnsubExists, UnsubInsert, UnsubRecheck, Answer, Step
    <2>4. QED
      BY <1>0, <2>1, <2>2, <2>3
  <1>6. ASSUME NEW e \in Events, DeleteEvent(e) PROVE OnRequest'
    BY <1>6 DEF DeleteEvent, send, dest
  <1>7. CASE Crash
    BY <1>0, <1>1, <1>7 DEF Crash, dest
  <1>8. CASE UNCHANGED vars
    BY <1>1, <1>8 DEF vars, send, dest, optout
  <1>9. QED
    BY <1>2, <1>3, <1>4, <1>5, <1>6, <1>7, <1>8 DEF Next

LEMMA AttemptedStep == Types /\ Attempted /\ [Next]_vars => Attempted'
  <1> SUFFICES ASSUME Types, Attempted, [Next]_vars PROVE Attempted'
    OBVIOUS
  <1> USE DEF Attempted
  <1>0. /\ pc \in [Msgs -> {"new", "skipped", "error", "sent", "failed", "lost"} \cup InFlight]
        /\ got \in [Msgs -> Nat] /\ tries \in [Msgs -> 0 .. MaxAttempts] /\ ok \in [Msgs -> BOOLEAN]
        /\ log \in [Msgs -> Columns] /\ MaxAttempts \in Nat
    BY ConstantsAssumption DEF Types, TypeOK, Columns
  <1>1. ASSUME UNCHANGED <<got, tries, ok>>,
               \A m \in Msgs : pc'[m] \in InFlight \cup {"new"} => pc[m] \in InFlight \cup {"new"},
               \A m \in Msgs : log'[m].status = "sent" => log[m].status = "sent"
        PROVE  Attempted'
    BY <1>1
  <1>2. ASSUME NEW m \in Msgs,
               (\E ch \in {"email", "sms"} : SendBegin(m, ch)) \/ Footer(m)
        PROVE  Attempted'
    <2>1. UNCHANGED <<got, tries, ok, log>>
      BY <1>2 DEF SendBegin, Footer
    <2>2. pc[m] \in InFlight \cup {"new"} /\ \E l : pc' = [pc EXCEPT ![m] = l]
      BY <1>2 DEF SendBegin, Footer, Goto, InFlight
    <2>3. QED
      BY <1>0, <1>1, <2>1, <2>2
  <1>3. ASSUME NEW m \in Msgs, InsertLog(m) PROVE Attempted'
    <2>1. \A n \in Msgs : log'[n].status = "sent" => log[n].status = "sent"
      BY <1>0, <1>3 DEF InsertLog, NoRow
    <2>2. QED
      BY <1>0, <1>1, <1>3, <2>1 DEF InsertLog, Goto, InFlight
  <1>4. ASSUME NEW m \in Msgs, Attempt(m) PROVE Attempted'
    <2>1. UNCHANGED log /\ tries[m] < MaxAttempts /\ got[m] <= tries[m]
      BY <1>4 DEF Attempt, Types, Bounded, InFlight
    <2>2. /\ \E l : pc' = [pc EXCEPT ![m] = l]
          /\ tries' = [tries EXCEPT ![m] = @ + 1]
      BY <1>4 DEF Attempt, Goto
    <2>3. \E s, d \in BOOLEAN : /\ s => d
                                /\ ok' = [ok EXCEPT ![m] = s]
                                /\ got' = [got EXCEPT ![m] = IF d THEN @ + 1 ELSE @]
      BY <1>4 DEF Attempt
    <2>4. got'[m] \in {got[m], got[m] + 1} /\ (ok'[m] => got'[m] = got[m] + 1)
      BY <1>0, <2>3
    <2>5. \A n \in Msgs \ {m} : got'[n] = got[n] /\ ok'[n] = ok[n]
      BY <1>0, <2>3
    <2>6. ASSUME NEW n \in Msgs
          PROVE  /\ pc'[n] \in InFlight \cup {"new"} => got'[n] <= tries'[n]
                 /\ ok'[n] => got'[n] > 0
                 /\ log'[n].status = "sent" => got'[n] > 0
                 /\ got'[n] <= MaxAttempts
      <3>1. CASE n = m
        BY <1>0, <2>1, <2>2, <2>4, <3>1
      <3>2. CASE n # m
        BY <1>0, <2>1, <2>2, <2>5, <3>2
      <3>3. QED
        BY <3>1, <3>2
    <2>7. QED
      BY <2>6
  <1>5. ASSUME NEW m \in Msgs, UpdateLog(m) PROVE Attempted'
    <2>1. /\ pc' = [pc EXCEPT ![m] = Outcome(m)] /\ UNCHANGED got
          /\ tries' = [tries EXCEPT ![m] = 0] /\ ok' = [ok EXCEPT ![m] = FALSE]
      BY <1>5 DEF UpdateLog, Goto
    <2>2. \A n \in Msgs : log'[n].status = "sent" => log[n].status = "sent" \/ (n = m /\ ok[m])
      <3>1. log' = log \/ \E b : log' = [log EXCEPT ![m] = [@ EXCEPT !.status = Outcome(m), !.mid = b]]
        BY <1>5 DEF UpdateLog
      <3>2. \A n \in Msgs \ {m} : log'[n] = log[n]
        BY <1>0, <3>1
      <3>3. log'[m].status = log[m].status \/ log'[m].status = Outcome(m)
        BY <1>0, <3>1 DEF Columns
      <3>4. Outcome(m) = "sent" => ok[m]
        BY DEF Outcome
      <3>5. ASSUME NEW n \in Msgs, log'[n].status = "sent"
            PROVE  log[n].status = "sent" \/ (n = m /\ ok[m])
        <4>1. CASE n = m
          BY <3>3, <3>4, <3>5, <4>1
        <4>2. CASE n # m
          BY <3>2, <3>5, <4>2
        <4>3. QED
          BY <4>1, <4>2
      <3>6. QED
        BY <3>5
    <2>3. pc'[m] \notin InFlight \cup {"new"}
      BY <1>0, <2>1 DEF Outcome, InFlight
    <2>4. QED
      BY <1>0, <2>1, <2>2, <2>3
  <1>6. ASSUME NEW m \in Msgs,
               \/ TrackOpen(m) \/ RecordOpen(m)
               \/ \E h \in Hooks, t \in Reports : HookRead(h, m, t)
               \/ UnsubFind(m) \/ UnsubExists(m) \/ UnsubInsert(m) \/ UnsubRecheck(m)
        PROVE  Attempted'
    <2>1. UNCHANGED <<pc, got, tries, ok>>
      BY <1>6 DEF TrackOpen, RecordOpen, HookRead, UnsubFind, UnsubExists, UnsubInsert,
                  UnsubRecheck, send
    <2>2. log' = log \/ log' = [log EXCEPT ![m].delivery = "opened"]
      BY <1>6 DEF TrackOpen, RecordOpen, HookRead, UnsubFind, UnsubExists, UnsubInsert, UnsubRecheck
    <2>3. \A n \in Msgs : log'[n].status = log[n].status
      BY <1>0, <2>2 DEF Columns
    <2>4. QED
      BY <1>1, <2>1, <2>3
  <1>7. ASSUME NEW h \in Hooks, HookWrite(h) PROVE Attempted'
    <2>1. UNCHANGED <<pc, got, tries, ok>>
      BY <1>7 DEF HookWrite, send
    <2>2. log' = log \/ \E n, t : log' = [log EXCEPT ![n].delivery = t]
      BY <1>7 DEF HookWrite
    <2>3. \A n \in Msgs : log'[n].status = log[n].status
      BY <1>0, <2>2 DEF Columns
    <2>4. QED
      BY <1>1, <2>1, <2>3
  <1>8. ASSUME NEW e \in Events, DeleteEvent(e) PROVE Attempted'
    BY <1>1, <1>8 DEF DeleteEvent, send, NoRow
  <1>9. CASE Crash
    <2>1. \A m \in Msgs : pc'[m] \notin InFlight /\ (pc'[m] = "new" => pc[m] = "new") /\ ~ok'[m]
      BY <1>0, <1>9 DEF Crash, InFlight
    <2>2. \A m \in Msgs : pc[m] = "new" => got[m] = 0
      BY <1>0 DEF Types, Bounded, Before
    <2>3. UNCHANGED <<got, log>> /\ \A m \in Msgs : tries'[m] = 0
      BY <1>9 DEF Crash
    <2>4. QED
      BY <1>0, <2>1, <2>2, <2>3
  <1>10. CASE UNCHANGED vars
    BY <1>1, <1>10 DEF vars, send
  <1>11. QED
    BY <1>2, <1>3, <1>4, <1>5, <1>6, <1>7, <1>8, <1>9, <1>10 DEF Next

-----------------------------------------------------------------------------
(* The status of a row                                                     *)

Statuses == Reports \cup {"unknown"}

\* A report that is not above the status changes nothing, one that may be written
\* is what the row must show: a bounce and a complaint always.
LEMMA GoodKept ==
    ASSUME NEW S \in SUBSET Reports, NEW d \in Statuses, Good(d, S), NEW t \in Reports
    PROVE  /\ StaleReport(t, d) => Good(d, S \cup {t})
           /\ ~StaleReport(t, d) => Good(t, S \cup {t})
  BY DEF Good, Highest, StaleReport, Rank, Override, Reports, Statuses

LEMMA OpenedKept ==
    ASSUME NEW S \in SUBSET Reports, NEW d \in Statuses, Good(d, S)
    PROVE  /\ d \in {"unknown", "delivered"} => Good("opened", S \cup {"opened"})
           /\ d \notin {"unknown", "delivered"} => Good(d, S \cup {"opened"})
  BY DEF Good, Highest, Rank, Override, Reports, Statuses

LEMMA UnknownGood == Good("unknown", {})
  <1>1. "unknown" \in Highest({})
    BY Zenon DEF Highest
  <1>2. QED
    BY <1>1 DEF Good

\* What Followed says of one row.
FollowedAt(m) ==
    /\ pc[m] \in Before => heard[m] = {} /\ log[m] = NoRow
    /\ ~overlap[m] => \A h \in Hooks :
          hook[h].pc = "write" /\ hook[h].msg = m =>
             /\ Good(hook[h].type, heard[m])
             /\ \A g \in Hooks : hook[g].pc = "write" /\ hook[g].msg = m => g = h
    /\ log[m] # NoRow /\ ~overlap[m] /\ ~Pending(m) => Good(log[m].delivery, heard[m])

\* The row and what was heard of it stay, or the row goes.
LEMMA FollowedFrame ==
    ASSUME Followed, NEW m \in Msgs,
           UNCHANGED <<hook, heard, overlap>>,
           pc'[m] \in Before => pc[m] \in Before,
           log'[m] = NoRow \/ (log[m] # NoRow /\ log'[m].delivery = log[m].delivery
                               /\ (pc'[m] \notin Before))
    PROVE  FollowedAt(m)'
  BY DEF Followed, FollowedAt, Pending

LEMMA FollowedStep == Types /\ Followed /\ [Next]_vars => Followed'
  <1> SUFFICES ASSUME Types, Followed, [Next]_vars, NEW m \in Msgs PROVE FollowedAt(m)'
    BY DEF Followed, FollowedAt
  <1>0. /\ pc \in [Msgs -> {"new", "skipped", "error", "sent", "failed", "lost"} \cup InFlight]
        /\ log \in [Msgs -> Columns] /\ heard \in [Msgs -> SUBSET Reports]
        /\ overlap \in [Msgs -> BOOLEAN] /\ hook = [h \in Hooks |-> hook[h]]
    BY DEF Types, TypeOK, Columns, Tracked
  <1>1. FollowedAt(m)
    BY DEF Followed, FollowedAt
  <1>2. log[m].delivery \in Statuses
    BY <1>0 DEF Columns, Statuses
  <1>3. log[m] # NoRow => pc[m] \notin Before
    BY <1>1 DEF FollowedAt
  <1>4. ASSUME UNCHANGED <<hook, heard, overlap, log>>, pc'[m] \in Before => pc[m] \in Before
        PROVE  FollowedAt(m)'
    BY <1>1, <1>3, <1>4 DEF FollowedAt, Pending
  <1>5. ASSUME NEW n \in Msgs,
               \/ \E ch \in {"email", "sms"} : SendBegin(n, ch)
               \/ Footer(n) \/ Attempt(n) \/ TrackOpen(n)
               \/ UnsubFind(n) \/ UnsubExists(n) \/ UnsubInsert(n) \/ UnsubRecheck(n)
        PROVE  FollowedAt(m)'
    <2>1. UNCHANGED <<hook, heard, overlap, log>>
      BY <1>5 DEF SendBegin, Footer, Attempt, TrackOpen, UnsubFind, UnsubExists, UnsubInsert,
                  UnsubRecheck, track
    <2>2. pc' = pc \/ \E l : pc' = [pc EXCEPT ![n] = l] /\ (l \in Before => pc[n] \in Before)
      BY <1>5 DEF SendBegin, Footer, Attempt, TrackOpen, UnsubFind, UnsubExists, UnsubInsert,
                  UnsubRecheck, send, Goto, Before
    <2>3. QED
      BY <1>0, <1>4, <2>1, <2>2
  <1>6. ASSUME NEW n \in Msgs, InsertLog(n) PROVE FollowedAt(m)'
    <2>1. UNCHANGED <<hook, heard, overlap>> /\ pc[n] = "insert" /\ pc' = [pc EXCEPT ![n] = "attempt"]
      BY <1>6 DEF InsertLog, Goto, track
    <2>2. CASE log' = log
      BY <1>0, <1>4, <2>1, <2>2 DEF Before
    <2>3. CASE log' = [log EXCEPT ![n] = [NoRow EXCEPT !.status = "pending"]]
      <3>1. CASE m = n
        <4>1. heard[m] = {} /\ log'[m].delivery = "unknown" /\ pc'[m] = "attempt"
          BY <1>0, <1>1, <2>1, <2>3, <3>1 DEF FollowedAt, Before, NoRow
        <4>2. QED
          BY <1>1, <2>1, <4>1, UnknownGood DEF FollowedAt, Before, Pending
      <3>2. CASE m # n
        <4>1. log'[m] = log[m] /\ pc'[m] = pc[m]
          BY <1>0, <2>1, <2>3, <3>2
        <4>2. QED
          BY <1>1, <2>1, <4>1 DEF FollowedAt, Pending
      <3>3. QED
        BY <3>1, <3>2
    <2>4. QED
      BY <1>6, <2>2, <2>3 DEF InsertLog
  <1>7. ASSUME NEW n \in Msgs, UpdateLog(n) PROVE FollowedAt(m)'
    <2>1. UNCHANGED <<hook, heard, overlap>> /\ pc' = [pc EXCEPT ![n] = Outcome(n)]
      BY <1>7 DEF UpdateLog, Goto, track
    <2>2. log' = log \/ /\ log[n] # NoRow
                        /\ \E b : log' = [log EXCEPT ![n] = [@ EXCEPT !.status = Outcome(n), !.mid = b]]
      BY <1>7 DEF UpdateLog
    <2>3. pc'[m] \in Before => pc[m] \in Before
      BY <1>0, <2>1 DEF Outcome, Before
    <2>4. CASE log'[m] = log[m]
      BY <1>1, <2>1, <2>3, <2>4 DEF FollowedAt, Pending
    <2>5. CASE log'[m] # log[m]
      <3>1. PICK b : log' = [log EXCEPT ![n] = [@ EXCEPT !.status = Outcome(n), !.mid = b]]
        BY <2>2, <2>5
      <3>2. n = m
        BY <1>0, <2>5, <3>1
      <3>3. log[m] # NoRow
        BY <2>2, <2>5, <3>2
      <3>4. log'[m].delivery = log[m].delivery
        BY <1>0, <3>1, <3>2 DEF Columns
      <3>5. QED
        BY <1>3, <2>1, <2>3, <3>3, <3>4, FollowedFrame
    <2>6. QED
      BY <2>4, <2>5
  <1>8. ASSUME NEW n \in Msgs, RecordOpen(n) PROVE FollowedAt(m)'
    <2>1. UNCHANGED <<pc, hook>>
      BY <1>8 DEF RecordOpen, send
    <2>2. CASE n # m \/ log[n] = NoRow \/ (UNCHANGED <<log, heard, overlap>>)
      <3>1. log'[m] = log[m] /\ heard'[m] = heard[m] /\ (overlap[m] => overlap'[m])
        BY <1>0, <1>8, <2>2 DEF RecordOpen, Openable
      <3>2. QED
        BY <1>1, <2>1, <3>1 DEF FollowedAt, Pending
    <2>3. CASE n = m /\ log[m] # NoRow /\ ~UNCHANGED <<log, heard, overlap>>
      <3>1. /\ heard'[m] = heard[m] \cup {"opened"}
            /\ overlap'[m] = (overlap[m] \/ Pending(m))
        BY <1>0, <1>8, <2>3 DEF RecordOpen
      <3>2. log'[m].delivery = IF log[m].delivery \in {"unknown", "delivered"}
                               THEN "opened" ELSE log[m].delivery
        BY <1>0, <1>8, <2>3 DEF RecordOpen, Openable, Columns
      <3>3. ~overlap'[m] => Good(log'[m].delivery, heard'[m])
        <4>1. SUFFICES ASSUME ~overlap'[m] PROVE Good(log'[m].delivery, heard'[m])
          OBVIOUS
        <4>2. Good(log[m].delivery, heard[m])
          BY <1>1, <2>3, <3>1, <4>1 DEF FollowedAt
        <4>3. heard[m] \in SUBSET Reports
          BY <1>0
        <4>4. QED
          BY <1>2, <3>1, <3>2, <4>2, <4>3, OpenedKept
      <3>4. QED
        BY <1>3, <2>1, <2>3, <3>1, <3>3 DEF FollowedAt, Pending
    <2>4. QED
      BY <2>2, <2>3
  <1>9. ASSUME NEW n \in Msgs, NEW h \in Hooks, NEW t \in Reports, HookRead(h, n, t)
        PROVE  FollowedAt(m)'
    <2>1. UNCHANGED <<pc, log>> /\ hook[h].pc = "idle" /\ log[n].mid
      BY <1>9 DEF HookRead, send
    <2>2. log[n] # NoRow
      BY <2>1 DEF NoRow
    <2>3. /\ heard' = [heard EXCEPT ![n] = @ \cup {t}]
          /\ overlap' = [overlap EXCEPT ![n] = @ \/ Pending(n)]
          /\ hook' = IF StaleReport(t, log[n].delivery) THEN hook
                     ELSE [hook EXCEPT ![h] = [pc |-> "write", msg |-> n, type |-> t]]
      BY <1>9 DEF HookRead
    <2>4. CASE n # m
      <3>1. heard'[m] = heard[m] /\ overlap'[m] = overlap[m]
        BY <1>0, <2>3, <2>4
      <3>2. \A g \in Hooks : /\ hook'[g].pc = "write" /\ hook'[g].msg = m
                                <=> hook[g].pc = "write" /\ hook[g].msg = m
                             /\ hook'[g].pc = "write" /\ hook'[g].msg = m => hook'[g] = hook[g]
        BY <1>0, <2>1, <2>3, <2>4
      <3>3. QED
        BY <1>1, <2>1, <3>1, <3>2 DEF FollowedAt, Pending
    <2>5. CASE n = m
      <3>1. heard'[m] = heard[m] \cup {t} /\ overlap'[m] = (overlap[m] \/ Pending(m))
        BY <1>0, <2>3, <2>5
      <3>2. pc'[m] \notin Before
        BY <1>3, <2>1, <2>2, <2>5
      <3>3. CASE overlap'[m]
        BY <3>2, <3>3 DEF FollowedAt
      <3>4. CASE ~overlap'[m]
        <4>1. ~Pending(m) /\ Good(log[m].delivery, heard[m])
          BY <1>1, <2>2, <2>5, <3>1, <3>4 DEF FollowedAt
        <4>2. CASE StaleReport(t, log[m].delivery)
          <5>1. hook' = hook /\ Good(log[m].delivery, heard[m] \cup {t})
            BY <1>0, <1>2, <2>3, <2>5, <4>1, <4>2, GoodKept
          <5>2. QED
            BY <2>1, <3>1, <3>2, <4>1, <5>1 DEF FollowedAt, Pending
        <4>3. CASE ~StaleReport(t, log[m].delivery)
          <5>1. Good(t, heard[m] \cup {t})
            BY <1>0, <1>2, <4>1, <4>3, GoodKept
          <5>2. /\ hook'[h] = [pc |-> "write", msg |-> m, type |-> t]
                /\ \A g \in Hooks \ {h} : ~(hook'[g].pc = "write" /\ hook'[g].msg = m)
            BY <1>0, <2>3, <2>5, <4>1, <4>3 DEF Pending
          <5>3. QED
            BY <3>1, <3>2, <5>1, <5>2 DEF FollowedAt, Pending
        <4>4. QED
          BY <4>2, <4>3
      <3>5. QED
        BY <3>3, <3>4
    <2>6. QED
      BY <2>4, <2>5
  <1>10. ASSUME NEW h \in Hooks, HookWrite(h) PROVE FollowedAt(m)'
    <2> DEFINE n == hook[h].msg
    <2>1. /\ UNCHANGED <<pc, heard>> /\ hook[h].pc = "write" /\ n \in Msgs
          /\ hook' = [hook EXCEPT ![h] = NoHook]
      BY <1>10 DEF HookWrite, send, Types, Tracked
    <2>2. CASE n # m
      <3>1. log'[m] = log[m] /\ overlap'[m] = overlap[m]
        BY <1>0, <1>10, <2>1, <2>2 DEF HookWrite
      <3>2. \A g \in Hooks : /\ hook'[g].pc = "write" /\ hook'[g].msg = m
                                <=> hook[g].pc = "write" /\ hook[g].msg = m
                             /\ hook'[g].pc = "write" /\ hook'[g].msg = m => hook'[g] = hook[g]
        BY <1>0, <2>1, <2>2 DEF NoHook
      <3>3. QED
        BY <1>1, <2>1, <3>1, <3>2 DEF FollowedAt, Pending
    <2>3. CASE n = m
      <3>1. pc[m] \in Before => log'[m] = NoRow
        BY <1>0, <1>3, <1>10, <2>1, <2>3 DEF HookWrite
      <3>2. CASE overlap'[m]
        BY <1>1, <2>1, <3>1, <3>2 DEF FollowedAt
      <3>3. CASE ~overlap'[m]
        <4>1. ~overlap[m] /\ ((log[m] = NoRow /\ log'[m] = NoRow) \/ log'[m].delivery = hook[h].type)
          BY <1>0, <1>10, <2>1, <2>3, <3>3 DEF HookWrite, Columns
        <4>2. /\ Good(hook[h].type, heard[m])
              /\ \A g \in Hooks \ {h} : ~(hook[g].pc = "write" /\ hook[g].msg = m)
          BY <1>1, <2>1, <2>3, <4>1 DEF FollowedAt
        <4>3. \A g \in Hooks : ~(hook'[g].pc = "write" /\ hook'[g].msg = m)
          BY <1>0, <2>1, <4>2 DEF NoHook
        <4>4. QED
          BY <1>1, <2>1, <3>1, <4>1, <4>2, <4>3 DEF FollowedAt, Pending
      <3>4. QED
        BY <3>2, <3>3
    <2>4. QED
      BY <2>2, <2>3
  <1>11. ASSUME NEW e \in Events, DeleteEvent(e) PROVE FollowedAt(m)'
    BY <1>1, <1>11 DEF DeleteEvent, send, track, FollowedAt, Pending
  <1>12. CASE Crash
    <2>1. /\ pc'[m] \in Before => pc[m] \in Before
          /\ log' = log /\ heard' = heard /\ overlap'[m] = (overlap[m] \/ Pending(m))
          /\ \A h \in Hooks : hook'[h].pc = "idle"
      BY <1>0, <1>12 DEF Crash, Before, NoHook, InFlight
    <2>2. QED
      BY <1>1, <2>1 DEF FollowedAt, Pending
  <1>13. CASE UNCHANGED vars
    BY <1>4, <1>13 DEF vars, send, track
  <1>14. QED
    BY <1>5, <1>6, <1>7, <1>8, <1>9, <1>10, <1>11, <1>12, <1>13 DEF Next

-----------------------------------------------------------------------------
\* The tables and the locals of Send keep their types, whatever overlaps and fails.
THEOREM NotificationTypeCorrect == Spec => []TypeOK
  <1>1. Types /\ [Next]_vars => Types'
    BY TypesStep, TrackedStep DEF Types
  <1>2. Types => TypeOK
    BY DEF Types
  <1>3. QED
    BY <1>1, <1>2, InitTypes, PTL DEF Spec

LEMMA AlwaysTypes == Spec => []Types
  <1>1. Types /\ [Next]_vars => Types'
    BY TypesStep, TrackedStep DEF Types
  <1>2. QED
    BY <1>1, InitTypes, PTL DEF Spec

\* After "unsubscribed" nothing of the event is sent by a Send that begins later, and
\* nothing is withheld from anybody who did not ask.
THEOREM SuppressionAlwaysKept == Spec => []SuppressionKept
  <1>1. OptedOut /\ OnRequest => SuppressionKept
    BY DEF OptedOut, OnRequest, SuppressionKept, OptOutHonoured
  <1>2. QED
    BY <1>1, AlwaysTypes, InitRest, OptedOutStep, OnRequestStep, PTL DEF Spec

\* "sent" is written only for what arrived, and no message is sent more often than
\* the retries allow, for any number of attempts, faults and crashes.
THEOREM LogAlwaysHonest == Spec => []LogHonest
  <1>1. Attempted => LogHonest
    BY DEF Attempted, LogHonest, SentArrived, CopiesBounded
  <1>2. QED
    BY <1>1, AlwaysTypes, InitRest, AttemptedStep, PTL DEF Spec

\* A row shows the highest status reported, in whatever order and however often the
\* reports come, unless it changed under a report in progress.
THEOREM StatusAlwaysHighest == Spec => []StatusIsHighest
  <1>1. Followed => StatusIsHighest
    BY DEF Followed, StatusIsHighest, Good
  <1>2. QED
    BY <1>1, AlwaysTypes, InitRest, FollowedStep, PTL DEF Spec
=============================================================================
