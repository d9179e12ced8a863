---------------------------- MODULE Notification ----------------------------
(***************************************************************************)
(* Delivery of notifications (internal/notification) and the suppression   *)
(* list (internal/suppression): Send with its gate, its retries and its    *)
(* log row; the tracking pixel and the provider's delivery events, which   *)
(* change the same row; the unsubscribe endpoint.                          *)
(*                                                                         *)
(* One action is one database statement or one call of a provider. Every   *)
(* notification is one call of Send, known by the id of its log row. No    *)
(* route of the server calls ProcessDeliveryEvent yet; it is modelled as   *)
(* its tests use it. The provider is external: it may deliver a message    *)
(* and still report an error.                                              *)
(***************************************************************************)
EXTENDS Naturals, FiniteSets

CONSTANTS
    Msgs,         \* notifications
    Emails,       \* recipients
    Events, Global,   \* scopes of a suppression
    Addressed,    \* the recipients and events notifications may have
    Trackable,    \* notifications that opens and delivery events are about
    Registered,   \* channels that have a provider
    Hooks,        \* delivery events processed at a time
    MaxAttempts,  \* 3 in the code
    MaxReports,   \* bound: opens and delivery events
    MaxFaults     \* bound: failing calls and crashes

ASSUME ConstantsAssumption ==
    /\ Global \notin Events
    /\ Addressed \subseteq [Msgs -> Emails \X Events] /\ Trackable \subseteq Msgs
    /\ Registered \subseteq {"email", "sms"}
    /\ MaxAttempts \in Nat \ {0} /\ MaxReports \in Nat /\ MaxFaults \in Nat

NoRow     == [status |-> "none", delivery |-> "unknown", mid |-> FALSE]
NoHook    == [pc |-> "idle", msg |-> 0, type |-> "unknown"]
InFlight  == {"footer", "insert", "attempt", "record"}
Override  == {"bounced", "complained"}
Rank(d)   == CASE d = "unknown" -> 0 [] d = "delivered" -> 1 [] d = "opened" -> 2
               [] d = "clicked" -> 3 [] d = "bounced" -> 4 [] d = "complained" -> 5
Reports   == {"delivered", "opened", "clicked"} \cup Override

VARIABLES
    pc,          \* where each Send is, or how it ended
    to, event,   \* its recipient and its event
    channel,     \* "email" or "sms" once it began
    tries,       \* attempts made
    ok,          \* whether the last attempt succeeded
    got,         \* external: copies the recipient got
    log,         \* the notification_log row
    tokens,      \* notifications whose unsubscribe link works
    suppressed,  \* email_suppressions: pairs of recipient and scope
    unsub,       \* where the unsubscribe request of each link is
    opens,       \* pixels fetched, not recorded yet
    hook,        \* delivery events in progress
    gone,        \* deleted events
    asked, acked,   \* history: scopes somebody asked to leave, and was told he left
    late,        \* history: Sends that began after that
    heard,       \* history: what was reported of each row
    overlap,     \* history: rows that changed under a delivery event in progress
    reports, faults

dest  == <<to, event, channel>>
send  == <<pc, dest, tries, ok, got, late>>
optout == <<tokens, suppressed, unsub, asked, acked>>
track == <<opens, hook, heard, overlap, reports>>
vars  == <<send, optout, track, log, gone, faults>>

Init ==
    /\ pc = [m \in Msgs |-> "new"]
    /\ \E f \in Addressed : /\ to = [m \in Msgs |-> f[m][1]]
                           /\ event = [m \in Msgs |-> f[m][2]]
    /\ channel = [m \in Msgs |-> "none"]
    /\ tries = [m \in Msgs |-> 0] /\ ok = [m \in Msgs |-> FALSE]
    /\ got = [m \in Msgs |-> 0]
    /\ log = [m \in Msgs |-> NoRow]
    /\ tokens = {} /\ unsub = [m \in Msgs |-> "idle"]
    /\ suppressed \in SUBSET (Emails \X {Global})
    /\ opens = {} /\ hook = [h \in Hooks |-> NoHook]
    /\ gone = {} /\ asked = suppressed /\ acked = {}
    /\ late = [m \in Msgs |-> FALSE]
    /\ heard = [m \in Msgs |-> {}] /\ overlap = [m \in Msgs |-> FALSE]
    /\ reports = 0 /\ faults = 0

Fault == faults < MaxFaults /\ faults' = faults + 1
Works == UNCHANGED faults

-----------------------------------------------------------------------------
(* Send.                                                                   *)

Scope(m) == <<to[m], event[m]>>

Goto(m, label) == pc' = [pc EXCEPT ![m] = label]

\* Variant: a suppression counts for every event.
IsSuppressedAny(m) == \E s \in suppressed : s[1] = to[m]

\* IsSuppressed: for the event, or for the whole instance.
IsSuppressed(m) == {Scope(m), <<to[m], Global>>} \cap suppressed # {}

\* registry.Get and the suppression gate, which lets pass when its query fails
\* and asks nothing about an SMS.
SendBegin(m, ch) ==
    /\ pc[m] = "new"
    /\ channel' = [channel EXCEPT ![m] = ch]
    /\ \/ /\ ch \notin Registered \cap {"email"} /\ Works
          /\ Goto(m, IF ch \in Registered THEN "insert" ELSE "error")
          /\ UNCHANGED late
       \/ /\ ch \in Registered /\ ch = "email" /\ Works
          /\ Goto(m, IF IsSuppressed(m) THEN "skipped" ELSE "footer")
          /\ late' = [late EXCEPT ![m] = Scope(m) \in acked /\ event[m] \notin gone]
       \/ ch \in Registered /\ ch = "email" /\ Fault /\ Goto(m, "footer") /\ UNCHANGED late
    /\ UNCHANGED <<to, event, tries, ok, got, log, optout, track, gone>>

\* applyUnsubscribeFooter: without a token the message goes out without a link.
\* The foreign key refuses tokens and log rows of a deleted event.
Footer(m) ==
    /\ pc[m] = "footer" /\ Goto(m, "insert")
    /\ \/ Works /\ event[m] \notin gone /\ tokens' = tokens \cup {m}
       \/ ((Works /\ event[m] \in gone) \/ Fault) /\ UNCHANGED tokens
    /\ UNCHANGED <<dest, tries, ok, got, late, suppressed, unsub, asked, acked,
                   track, log, gone>>

\* insertLog: the message is sent even if there is no row for it.
InsertLog(m) ==
    /\ pc[m] = "insert" /\ Goto(m, "attempt")
    /\ \/ Works /\ event[m] \notin gone
          /\ log' = [log EXCEPT ![m] = [NoRow EXCEPT !.status = "pending"]]
       \/ ((Works /\ event[m] \in gone) \/ Fault) /\ UNCHANGED log
    /\ UNCHANGED <<dest, tries, ok, got, late, optout, track, gone>>

\* Variant: one attempt more.
ExhaustedLate(m) == tries[m] + 1 > MaxAttempts

\* This was the last attempt.
Exhausted(m) == tries[m] + 1 >= MaxAttempts

\* One turn of the loop: the provider's answer, and what reached the recipient.
\* A cancelled context ends the retries.
Attempt(m) ==
    /\ pc[m] = "attempt"
    /\ tries' = [tries EXCEPT ![m] = @ + 1]
    /\ \E success, delivered \in BOOLEAN :
          /\ success => delivered
          /\ ok' = [ok EXCEPT ![m] = success]
          /\ got' = [got EXCEPT ![m] = IF delivered THEN @ + 1 ELSE @]
          /\ IF success \/ Exhausted(m) THEN Goto(m, "record") /\ Works
             ELSE (Goto(m, "attempt") /\ Works) \/ (Goto(m, "record") /\ Fault)
    /\ UNCHANGED <<dest, late, optout, track, log, gone>>

\* Variant: the outcome is not looked at.
OutcomeAlways(m) == "sent"

\* The status Send records.
Outcome(m) == IF ok[m] THEN "sent" ELSE "failed"

\* updateLog, and the return, which ends the locals. Only some providers give
\* a message id.
UpdateLog(m) ==
    /\ pc[m] = "record" /\ Goto(m, Outcome(m))
    /\ tries' = [tries EXCEPT ![m] = 0] /\ ok' = [ok EXCEPT ![m] = FALSE]
    /\ \/ /\ Works /\ \E id \in BOOLEAN :
             log' = IF log[m] = NoRow THEN log
                    ELSE [log EXCEPT ![m].status = Outcome(m), ![m].mid = ok[m] /\ id]
       \/ Fault /\ UNCHANGED log
    /\ UNCHANGED <<dest, got, late, optout, track, gone>>

-----------------------------------------------------------------------------
(* Tracking.                                                               *)

Report == reports < MaxReports /\ reports' = reports + 1

\* Somebody waits to write the row of m after having read it.
Pending(m) == \E h \in Hooks : hook[h].pc = "write" /\ hook[h].msg = m

\* handleTrackOpen: the pixel of an email that arrived is fetched.
TrackOpen(m) ==
    /\ m \in Trackable /\ channel[m] = "email" /\ got[m] > 0
    /\ m \notin opens /\ Report
    /\ opens' = opens \cup {m}
    /\ UNCHANGED <<send, optout, hook, heard, overlap, log, gone, faults>>

\* Variant: the UPDATE does not look at the status.
OpenableAlways(m) == log[m] # NoRow

\* The WHERE clause of RecordOpen.
Openable(m) == log[m] # NoRow /\ log[m].delivery \in {"unknown", "delivered"}

RecordOpen(m) ==
    /\ m \in opens /\ opens' = opens \ {m}
    /\ \/ /\ Works
          /\ log' = IF Openable(m) THEN [log EXCEPT ![m].delivery = "opened"] ELSE log
          /\ heard' = IF log[m] = NoRow THEN heard ELSE [heard EXCEPT ![m] = @ \cup {"opened"}]
          /\ overlap' = [overlap EXCEPT ![m] = @ \/ Pending(m)]
       \/ Fault /\ UNCHANGED <<log, heard, overlap>>
    /\ UNCHANGED <<send, optout, hook, reports, gone>>

\* The row is at this status or beyond.
StaleReport(t, d) == t \notin Override /\ Rank(t) <= Rank(d)

\* ProcessDeliveryEvent up to its check; a row without the message id is not
\* found and the event is lost.
HookRead(h, m, t) ==
    /\ hook[h].pc = "idle" /\ Report
    /\ m \in Trackable /\ log[m].mid
    /\ heard' = [heard EXCEPT ![m] = @ \cup {t}]
    /\ overlap' = [overlap EXCEPT ![m] = @ \/ Pending(m)]
    /\ hook' = IF StaleReport(t, log[m].delivery) THEN hook
               ELSE [hook EXCEPT ![h] = [pc |-> "write", msg |-> m, type |-> t]]
    /\ UNCHANGED <<send, optout, opens, log, gone, faults>>

\* The UPDATE of ProcessDeliveryEvent looks only at the id.
HookWrite(h) ==
    /\ hook[h].pc = "write"
    /\ hook' = [hook EXCEPT ![h] = NoHook]
    /\ LET m == hook[h].msg IN
       \/ /\ Works
          /\ log' = IF log[m] = NoRow THEN log ELSE [log EXCEPT ![m].delivery = hook[h].type]
          /\ UNCHANGED overlap
       \/ Fault /\ overlap' = [overlap EXCEPT ![m] = TRUE] /\ UNCHANGED log
    /\ UNCHANGED <<send, optout, opens, heard, reports, gone>>

-----------------------------------------------------------------------------
(* handleUnsubscribe, with the link of m.                                  *)

Step(m, label) == unsub' = [unsub EXCEPT ![m] = label]

\* 200 or an error.
Answer(m, success) ==
    /\ Step(m, "idle")
    /\ acked' = IF success THEN acked \cup {Scope(m)} ELSE acked
    /\ UNCHANGED suppressed

\* VerifyUnsubscribeToken; the recipient must have the message.
UnsubFind(m) ==
    /\ unsub[m] = "idle" /\ m \in tokens /\ got[m] > 0 /\ Scope(m) \notin acked
    /\ Step(m, "exists")
    /\ asked' = asked \cup {Scope(m)}
    /\ UNCHANGED <<send, tokens, suppressed, acked, track, log, gone, faults>>

\* existsExact.
UnsubExists(m) ==
    /\ unsub[m] = "exists"
    /\ \/ Works /\ Scope(m) \in suppressed /\ Answer(m, TRUE)
       \/ Works /\ Scope(m) \notin suppressed /\ Step(m, "insert") /\ UNCHANGED <<suppressed, acked>>
       \/ Fault /\ Answer(m, FALSE)
    /\ UNCHANGED <<send, tokens, asked, track, log, gone>>

\* INSERT; the unique index refuses a second row, the foreign key a deleted event.
UnsubInsert(m) ==
    /\ unsub[m] = "insert"
    /\ \/ /\ Works /\ Scope(m) \notin suppressed /\ event[m] \notin gone
          /\ suppressed' = suppressed \cup {Scope(m)}
          /\ acked' = acked \cup {Scope(m)} /\ Step(m, "idle")
       \/ /\ (Works /\ (Scope(m) \in suppressed \/ event[m] \in gone)) \/ Fault
          /\ Step(m, "recheck") /\ UNCHANGED <<suppressed, acked>>
    /\ UNCHANGED <<send, tokens, asked, track, log, gone>>

\* Variant: every failed insert is taken for a duplicate.
UnsubRecheckTrusting(m) ==
    /\ unsub[m] = "recheck"
    /\ Works /\ Answer(m, TRUE)
    /\ UNCHANGED <<send, tokens, asked, track, log, gone>>

\* existsExact again: another request may have inserted the row.
UnsubRecheck(m) ==
    /\ unsub[m] = "recheck"
    /\ (Works /\ Answer(m, Scope(m) \in suppressed)) \/ (Fault /\ Answer(m, FALSE))
    /\ UNCHANGED <<send, tokens, asked, track, log, gone>>

-----------------------------------------------------------------------------
(* The rest of the system.                                                 *)

\* The event is deleted; log rows, tokens and suppressions go with it.
DeleteEvent(e) ==
    /\ e \notin gone /\ gone' = gone \cup {e}
    /\ log' = [m \in Msgs |-> IF event[m] = e THEN NoRow ELSE log[m]]
    /\ tokens' = {m \in tokens : event[m] # e}
    /\ suppressed' = {s \in suppressed : s[2] # e}
    /\ UNCHANGED <<send, unsub, asked, acked, track, faults>>

\* The process dies with everything in flight.
Crash ==
    /\ Fault
    /\ \E m \in Msgs : pc[m] \in InFlight
    /\ pc' = [m \in Msgs |-> IF pc[m] \in InFlight THEN "lost" ELSE pc[m]]
    /\ tries' = [m \in Msgs |-> 0] /\ ok' = [m \in Msgs |-> FALSE]
    /\ unsub' = [m \in Msgs |-> "idle"]
    /\ opens' = {} /\ hook' = [h \in Hooks |-> NoHook]
    /\ overlap' = [m \in Msgs |-> overlap[m] \/ Pending(m)]
    /\ UNCHANGED <<dest, got, late, tokens, suppressed, asked, acked, heard,
                   reports, log, gone>>

Next ==
    \/ \E m \in Msgs :
          \/ \E ch \in {"email", "sms"} : SendBegin(m, ch)
          \/ Footer(m) \/ InsertLog(m) \/ Attempt(m) \/ UpdateLog(m)
          \/ TrackOpen(m) \/ RecordOpen(m)
          \/ \E h \in Hooks, t \in Reports : HookRead(h, m, t)
          \/ UnsubFind(m) \/ UnsubExists(m) \/ UnsubInsert(m) \/ UnsubRecheck(m)
    \/ \E h \in Hooks : HookWrite(h)
    \/ \E e \in Events : DeleteEvent(e)
    \/ Crash

Spec == Init /\ [][Next]_vars

-----------------------------------------------------------------------------
(* Properties.                                                             *)

\* Type correctness of the table, of the suppression list and of the locals.
TypeOK ==
    /\ pc \in [Msgs -> {"new", "skipped", "error", "sent", "failed", "lost"} \cup InFlight]
    /\ to \in [Msgs -> Emails] /\ event \in [Msgs -> Events]
    /\ channel \in [Msgs -> {"none", "email", "sms"}]
    /\ tries \in [Msgs -> 0 .. MaxAttempts] /\ got \in [Msgs -> Nat]
    /\ ok \in [Msgs -> BOOLEAN] /\ late \in [Msgs -> BOOLEAN]
    /\ log \in [Msgs -> [status : {"none", "pending", "sent", "failed"},
                         delivery : Reports \cup {"unknown"}, mid : BOOLEAN]]
    /\ tokens \subseteq Msgs /\ gone \subseteq Events
    /\ suppressed \subseteq Emails \X (Events \cup {Global})
    /\ unsub \in [Msgs -> {"idle", "exists", "insert", "recheck"}]

\* Whoever was told "unsubscribed" gets nothing more of that event from a Send
\* that starts later, though unsubscribe requests overlap and inserts fail; only
\* a gate whose own query failed lets a message pass.
OptOutHonoured == \A m \in Msgs : late[m] => got[m] = 0

\* A notification is withheld only from recipients who asked to leave this event
\* or are suppressed on the whole instance.
SkippedOnlyIfAsked ==
    \A m \in Msgs : pc[m] = "skipped" => {Scope(m), <<to[m], Global>>} \cap asked # {}

\* The suppression list withholds what it must, and nothing else.
SuppressionKept == OptOutHonoured /\ SkippedOnlyIfAsked

\* A row says "sent" only for a message that arrived, whatever failed before.
\* ("failed" does not say that nothing arrived.)
SentArrived == \A m \in Msgs : log[m].status = "sent" => got[m] > 0

\* A provider that delivers and reports errors sends at most MaxAttempts copies.
CopiesBounded == \A m \in Msgs : got[m] <= MaxAttempts

\* Retries are bounded, and what the log calls sent has arrived.
LogHonest == SentArrived /\ CopiesBounded

\* Reports that arrive late, twice or out of order, and pixels fetched at any
\* time, leave the row at the highest status reported, unless the row changed
\* under a report in progress. (Of a bounce and a complaint the last one wins.)
Highest(S) == {d \in S \cup {"unknown"} : \A e \in S : Rank(e) <= Rank(d)}
StatusIsHighest ==
    \A m \in Msgs : log[m] # NoRow /\ ~overlap[m] /\ ~Pending(m) =>
        \/ log[m].delivery \in Highest(heard[m])
        \/ Override \subseteq heard[m] /\ log[m].delivery \in Override

=============================================================================
