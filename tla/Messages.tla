------------------------------ MODULE Messages ------------------------------
(***************************************************************************)
(* Messages between an organizer and the attendees of an event             *)
(* (internal/message). A sender must wait between two messages; the time   *)
(* of the last one is kept in memory, is compared before the row is        *)
(* written and is renewed after it.                                        *)
(***************************************************************************)
EXTENDS EventScope

CONSTANTS
    OrganizerCooldown,   \* one minute in the code
    AttendeeCooldown     \* five minutes in the code

Cooldown(k) == IF k = Organizer THEN OrganizerCooldown ELSE AttendeeCooldown

Never == -1

ASSUME MessagesAssumption == OrganizerCooldown \in Nat /\ AttendeeCooldown \in Nat

VARIABLES
    messages,    \* the rows: id, sender, created_at; history: the sends that
                 \* had been answered when this one was checked
    sends,       \* ids given out
    lastSend,    \* organizerLastSend, attendeeLastSend
    answered,    \* history: sends answered 201, this process
    before,      \* history: answered, when goroutine p's send was checked
    row          \* the row goroutine p has written

messageVars == <<messages, sends, lastSend, answered, before, row>>

MessagesInit ==
    /\ messages = {} /\ sends = 0
    /\ lastSend = [k \in Actors |-> Never] /\ answered = {}
    /\ before = [p \in Procs |-> {}] /\ row = [p \in Procs |-> 0]

-----------------------------------------------------------------------------
\* Variant: the cooldown is one instant short.
CoolingDownShort(k) == lastSend[k] # Never /\ now - lastSend[k] + 1 < Cooldown(k)

\* checkOrganizerRate, checkAttendeeRate.
CoolingDown(k) == lastSend[k] # Never /\ now - lastSend[k] < Cooldown(k)

\* The organizer owns the event, the attendee's token is found.
MaySend(k) == IF k = Organizer THEN eventStatus # "deleted" ELSE k \in present

\* SendFromOrganizer, SendFromAttendee up to the check.
SendCheck(p, k) ==
    /\ MaySend(k) /\ ~CoolingDown(k)
    /\ Admit(p, k, "m_create")
    /\ before' = [before EXCEPT ![p] = answered]
    /\ UNCHANGED <<messages, sends, lastSend, answered, row>>

\* 429, from the service.
SendRefused(k) ==
    /\ MaySend(k) /\ CoolingDown(k)
    /\ AdmitOnce(k)
    /\ UNCHANGED messageVars

\* Create; the foreign key refuses a message of a deleted event.
SendCreate(p) ==
    /\ pc[p] = "m_create"
    /\ IF eventStatus = "deleted"
       THEN Goto(p, "idle") /\ UNCHANGED <<messages, sends, row>>
       ELSE /\ Goto(p, "m_record")
            /\ sends' = sends + 1
            /\ row' = [row EXCEPT ![p] = sends + 1]
            /\ messages' = messages \cup
                   {[id |-> sends + 1, by |-> client[p], at |-> now, after |-> before[p]]}
    /\ before' = [before EXCEPT ![p] = {}]
    /\ UNCHANGED <<lastSend, answered>>

\* recordOrganizerSend, recordAttendeeSend, and the answer.
SendRecord(p) ==
    /\ pc[p] = "m_record" /\ Goto(p, "idle")
    /\ lastSend' = [lastSend EXCEPT ![client[p]] = now]
    /\ answered' = answered \cup {row[p]} /\ row' = [row EXCEPT ![p] = 0]
    /\ UNCHANGED <<messages, sends, before>>

-----------------------------------------------------------------------------
\* ON DELETE CASCADE: of the event only; the sender is not a foreign key.
MessagesLoseEvent == messages' = {} /\ UNCHANGED <<sends, lastSend, answered, before, row>>

\* Goroutines that end early forget what they were about to do.
MessagesForget(ps) ==
    /\ before' = [p \in Procs |-> IF p \in ps THEN {} ELSE before[p]]
    /\ row' = [p \in Procs |-> IF p \in ps THEN 0 ELSE row[p]]
    /\ UNCHANGED <<messages, sends>>

\* A restart forgets who sent when.
MessagesLoseMemory ==
    /\ lastSend' = [k \in Actors |-> Never] /\ answered' = {}
    /\ MessagesForget(Procs)

MessageLabels == {"m_create", "m_record"}

MessagesNext ==
    \/ \E p \in Procs :
          \/ \E k \in Actors : SendCheck(p, k)
          \/ SendCreate(p) \/ SendRecord(p)
    \/ \E k \in Actors : SendRefused(k)

-----------------------------------------------------------------------------
MessagesTypeOK ==
    /\ sends \in Nat
    /\ messages \subseteq [id : 1 .. sends, by : Actors, at : 0 .. MaxTime, after : SUBSET (1 .. sends)]
    /\ lastSend \in [Actors -> {Never} \cup 0 .. MaxTime]
    /\ answered \subseteq 1 .. sends
    /\ before \in [Procs -> SUBSET (1 .. sends)] /\ row \in [Procs -> 0 .. sends]

\* A message that was checked after an earlier one of the same sender had been
\* answered is at least the cooldown younger: though check, insert and record
\* are three steps, only sends that overlap escape the limit.
CooldownKept ==
    \A m, n \in messages : m.by = n.by /\ m.id \in n.after => n.at >= m.at + Cooldown(m.by)

=============================================================================
