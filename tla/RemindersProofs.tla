-------------------------- MODULE RemindersProofs --------------------------
(* Theorems about Reminders, for every number of workers, reminders,       *)
(* attendees, mishaps and edits.                                           *)
EXTENDS Reminders, TLAPS

-----------------------------------------------------------------------------
(* The inductive invariant. The reminders that organizers edit are left    *)
(* out: an update puts a claimed reminder back to 'scheduled'.             *)

\* Reminder r has been handed over for nobody.
Untouched(r) == r \notin acked /\ \A g \in Guests : sent[r][g] = 0

\* Worker w is between its claim of r and its SetStatus.
Owns(w, r) == pc[w] \notin {"idle", "claim"} /\ cur[w] = r

\* How far an owner has come: who is still to be notified has not been, and a
\* verdict of failed means that every notification returned an error.
Progress(w, r) ==
    /\ pc[w] \in {"targets", "event"} => Untouched(r)
    /\ pc[w] = "send" => \A g \in todo[w] : sent[r][g] = 0
    /\ pc[w] \in {"send", "settle"} /\ verdict[w] = "failed" => r \notin acked

\* A reminder whose claim is still to come, or that was withdrawn before it, is
\* untouched; one that failed was acknowledged for nobody.
TableInv ==
    /\ \A r \in Fixed : edit[r] = NoEdit
    /\ \A r \in Fixed : status[r] \in {"none", "scheduled", "cancelled"} => Untouched(r)
    /\ \A r \in Fixed : status[r] = "failed" => r \notin acked
    /\ \A r \in Fixed, g \in Guests : sent[r][g] <= 1

\* A claimed reminder has one owner.
OwnerInv ==
    /\ \A w \in Workers, r \in Fixed :
          Owns(w, r) => status[r] \in {"processing", "deleted"} /\ Progress(w, r)
    /\ \A w, v \in Workers, r \in Fixed : Owns(w, r) /\ Owns(v, r) => w = v

ClaimInv == TypeOK /\ TableInv /\ OwnerInv

-----------------------------------------------------------------------------
(* Types                                                                   *)

\* The initial tables and locals have their types.
LEMMA InitType == Init => TypeOK
  <1> SUFFICES ASSUME Init PROVE TypeOK
    OBVIOUS
  <1>1. now \in Times /\ edits \in 0 .. MaxEdits /\ mishaps \in 0 .. MaxMishaps
    BY ConstantsAssumption DEF Init, Times
  <1>2. /\ status \in [Rem -> Statuses] /\ at \in [Rem -> Times]
        /\ edit \in [Rem -> Times \cup {NoEdit}] /\ earliest \in [Rem -> Times]
    BY ConstantsAssumption DEF Init, Times, Statuses
  <1>3. sent \in [Rem -> [Guests -> Nat]] /\ acked \subseteq Rem
    BY DEF Init
  <1>4. /\ pc \in [Workers -> Labels] /\ live \in [Workers -> BOOLEAN]
        /\ \A w \in Workers : pc[w] = "idle"
    BY DEF Init, Labels
  <1>5. /\ due \in [Workers -> SUBSET Rem] /\ todo \in [Workers -> SUBSET Guests]
        /\ cur \in [Workers -> Rem \cup {NoRem}]
        /\ verdict \in [Workers -> {"sent", "failed"}]
    BY DEF Init
  <1>6. gone \in BOOLEAN
    BY DEF Init
  <1>7. QED
    BY <1>1, <1>2, <1>3, <1>4, <1>5, <1>6 DEF TypeOK

\* The types of the table's rows and of the request in flight.
TableType ==
    /\ now \in Times /\ status \in [Rem -> Statuses] /\ at \in [Rem -> Times]
    /\ earliest \in [Rem -> Times] /\ gone \in BOOLEAN
    /\ edit \in [Rem -> Times \cup {NoEdit}] /\ edits \in 0 .. MaxEdits

\* A step that leaves the workers alone needs only to keep the table's types.
LEMMA Unmoved ==
    ASSUME TypeOK, TableType', UNCHANGED <<mail, local, live, mishaps>>
    PROVE  TypeOK'
  BY DEF TypeOK, TableType, local, mail

\* Organizers' requests, the clock and the other components keep the types.
LEMMA OutsideType ==
    ASSUME TypeOK,
           \/ \E r \in Rem, t \in Times : CreateReminder(r, t)
           \/ \E r \in Rem, t \in Times \cup {Keep} : UpdateRead(r, t)
           \/ \E r \in Rem : UpdateWrite(r) \/ Cancel(r)
           \/ Tick \/ DeleteEvent
    PROVE  TypeOK'
  <1> USE ConstantsAssumption DEF TypeOK, Times, Statuses, Labels, NoEdit, Keep,
                                  table, local, outside
  <1>1. CASE \E r \in Rem, t \in Times : CreateReminder(r, t)
    <2> PICK r \in Rem, t \in Times : CreateReminder(r, t)
      BY <1>1
    <2>1. /\ status' \in [Rem -> Statuses] /\ at' \in [Rem -> Times]
          /\ earliest' \in [Rem -> Times]
      BY DEF CreateReminder
    <2>2. QED
      BY <2>1, Unmoved DEF TableType, CreateReminder
  <1>2. CASE \E r \in Rem, t \in Times \cup {Keep} : UpdateRead(r, t)
    <2> PICK r \in Rem, t \in Times \cup {Keep} : UpdateRead(r, t)
      BY <1>2
    <2>1. (IF t = Keep THEN at[r] ELSE t) \in Times
      OBVIOUS
    <2>2. edit' \in [Rem -> Times \cup {NoEdit}] /\ edits' \in 0 .. MaxEdits
      BY <2>1 DEF UpdateRead
    <2>3. QED
      BY <2>2, Unmoved DEF TableType, UpdateRead
  <1>3. CASE \E r \in Rem : UpdateWrite(r)
    <2> PICK r \in Rem : UpdateWrite(r)
      BY <1>3
    <2>1. edit[r] \in Times
      BY DEF UpdateWrite
    <2>2. edit' \in [Rem -> Times \cup {NoEdit}]
      BY DEF UpdateWrite
    <2>3. status' \in [Rem -> Statuses]
      BY DEF UpdateWrite
    <2>4. at' \in [Rem -> Times] /\ earliest' \in [Rem -> Times]
      BY <2>1 DEF UpdateWrite
    <2>5. QED
      BY <2>2, <2>3, <2>4, Unmoved DEF TableType, UpdateWrite
  <1>4. CASE \E r \in Rem : Cancel(r)
    <2> PICK r \in Rem : Cancel(r)
      BY <1>4
    <2>1. status' \in [Rem -> Statuses]
      BY DEF Cancel
    <2>2. QED
      BY <2>1, Unmoved DEF TableType, Cancel
  <1>5. CASE Tick
    <2>1. now' \in Times
      BY <1>5 DEF Tick
    <2>2. QED
      BY <1>5, <2>1, Unmoved DEF TableType, Tick
  <1>6. CASE DeleteEvent
    <2>1. status' \in [Rem -> Statuses] /\ gone' \in BOOLEAN
      BY <1>6 DEF DeleteEvent
    <2>2. QED
      BY <1>6, <2>1, Unmoved DEF TableType, DeleteEvent
  <1>7. QED
    BY <1>1, <1>2, <1>3, <1>4, <1>5, <1>6

\* So do the steps of a worker and its mishaps.
LEMMA WorkerType ==
    ASSUME TypeOK, NEW w \in Workers, Work(w) \/ Crash(w) \/ Stop(w)
    PROVE  TypeOK'
  <1> USE ConstantsAssumption DEF TypeOK, Times, Statuses, Labels, Works, Fails, Mishap,
                                  table, local, outside, mail
  <1>1. CASE FindDue(w)
    BY <1>1 DEF FindDue, Proceed
  <1>2. CASE Claim(w)
    <2>1. mishaps' \in 0 .. MaxMishaps
      BY <1>2 DEF Claim, ClaimForProcessing
    <2> PICK r \in due[w] : ClaimForProcessing(w, r)
      BY <1>2 DEF Claim
    <2>2. r \in Rem
      OBVIOUS
    <2>3. CASE /\ status' = [status EXCEPT ![r] = "processing"]
               /\ cur' = [cur EXCEPT ![w] = r]
               /\ pc' = [pc EXCEPT ![w] = "targets"]
               /\ due' = [due EXCEPT ![w] = @ \ {r}]
               /\ UNCHANGED <<todo, verdict>>
      BY <1>2, <2>1, <2>2, <2>3 DEF Claim
    <2>4. CASE Proceed(w, due[w] \ {r}) /\ UNCHANGED status
      BY <1>2, <2>1, <2>4 DEF Claim, Proceed
    <2>5. QED
      BY <2>3, <2>4 DEF ClaimForProcessing
  <1>3. CASE FindTargetAttendees(w)
    <2>1. mishaps' \in 0 .. MaxMishaps
      BY <1>3 DEF FindTargetAttendees
    <2>2. cur[w] \in Rem
      BY <1>3 DEF FindTargetAttendees
    <2>3. CASE \E s \in {"sent", "failed"} : Settle(w, s)
      BY <1>3, <2>1, <2>2, <2>3 DEF FindTargetAttendees, Settle
    <2>4. CASE /\ \E group \in Groups[cur[w]] : todo' = [todo EXCEPT ![w] = group]
               /\ verdict' = [verdict EXCEPT ![w] = "failed"]
               /\ pc' = [pc EXCEPT ![w] = "event"]
               /\ UNCHANGED <<due, cur>>
      <3> PICK group \in Groups[cur[w]] : todo' = [todo EXCEPT ![w] = group]
        BY <2>4
      <3>1. todo' \in [Workers -> SUBSET Guests]
        BY <2>2
      <3>2. QED
        BY <1>3, <2>1, <2>2, <2>4, <3>1 DEF FindTargetAttendees
    <2>5. QED
      BY <1>3, <2>3, <2>4 DEF FindTargetAttendees
  <1>4. CASE LookupEvent(w)
    <2>1. mishaps' \in 0 .. MaxMishaps
      BY <1>4 DEF LookupEvent
    <2>2. cur[w] \in Rem
      BY <1>4 DEF LookupEvent
    <2>3. CASE Settle(w, "failed")
      BY <1>4, <2>1, <2>2, <2>3, SMTT(30) DEF LookupEvent, Settle
    <2>4. CASE /\ pc' = [pc EXCEPT ![w] = "send"]
               /\ UNCHANGED <<due, cur, todo, verdict>>
      BY <1>4, <2>1, <2>2, <2>4, SMTT(30) DEF LookupEvent
    <2>5. QED
      BY <1>4, <2>3, <2>4 DEF LookupEvent
  <1>5. CASE SendToAttendee(w)
    <2> PICK g \in todo[w], ok \in BOOLEAN :
          /\ sent' = IF g \in Reachable
                     THEN [sent EXCEPT ![cur[w]][g] = @ + 1] ELSE sent
          /\ acked' = IF ok THEN acked \cup {cur[w]} ELSE acked
          /\ verdict' = [verdict EXCEPT ![w] = VerdictAfter(@, ok)]
          /\ todo' = [todo EXCEPT ![w] = @ \ {g}]
          /\ pc' = [pc EXCEPT ![w] = IF todo[w] = {g} THEN "settle" ELSE "send"]
      BY <1>5 DEF SendToAttendee
    <2>1. cur[w] \in Rem /\ UNCHANGED <<now, status, at, earliest, gone, edit, edits, live, due, cur, mishaps>>
      BY <1>5 DEF SendToAttendee
    <2>2. sent' \in [Rem -> [Guests -> Nat]] /\ acked' \subseteq Rem
      BY <2>1
    <2>3. verdict' \in [Workers -> {"sent", "failed"}]
      BY DEF VerdictAfter
    <2>4. todo' \in [Workers -> SUBSET Guests] /\ pc' \in [Workers -> Labels]
      OBVIOUS
    <2>5. QED
      BY <2>1, <2>2, <2>3, <2>4
  <1>6. CASE SetStatus(w)
    BY <1>6, SMTT(30) DEF SetStatus, Proceed
  <1>7. CASE Restart(w)
    BY <1>7 DEF Restart
  <1>8. CASE Crash(w)
    BY <1>8 DEF Crash, Forget
  <1>9. CASE Stop(w)
    BY <1>9 DEF Stop
  <1>10. QED
    BY <1>1, <1>2, <1>3, <1>4, <1>5, <1>6, <1>7, <1>8, <1>9 DEF Work

\* Every step keeps the types.
LEMMA NextType == TypeOK /\ [Next]_vars => TypeOK'
  <1> SUFFICES ASSUME TypeOK, [Next]_vars PROVE TypeOK'
    OBVIOUS
  <1>1. CASE UNCHANGED vars
    BY <1>1 DEF vars, TypeOK
  <1>2. CASE Next
    BY <1>2, OutsideType, WorkerType DEF Next
  <1>3. QED
    BY <1>1, <1>2

\* The table and the workers' locals keep their types.
THEOREM RemindersTypeCorrect == Spec => []TypeOK
  BY InitType, NextType, PTL DEF Spec

-----------------------------------------------------------------------------
(* The claim                                                               *)

\* Before the first request nothing is claimed and nothing sent.
LEMMA InitClaim == Init => TableInv /\ OwnerInv
  BY ConstantsAssumption
  DEF Init, TableInv, OwnerInv, Fixed, Untouched, Owns

\* A step that touches neither locals nor notifications: owners stay owners.
LEMMA SameOwners ==
    ASSUME UNCHANGED <<pc, cur, todo, verdict, sent, acked>>, NEW w \in Workers, NEW r \in Rem
    PROVE  /\ Owns(w, r)' <=> Owns(w, r)
           /\ Progress(w, r)' <=> Progress(w, r)
           /\ Untouched(r)' <=> Untouched(r)
  BY DEF Owns, Progress, Untouched

\* What organizers, the clock and the other components do respects the claim.
LEMMA OutsideClaim ==
    ASSUME TypeOK, TableInv, OwnerInv,
           \/ \E r \in Rem, t \in Times : CreateReminder(r, t)
           \/ \E r \in Rem, t \in Times \cup {Keep} : UpdateRead(r, t)
           \/ \E r \in Rem : UpdateWrite(r) \/ Cancel(r)
           \/ Tick \/ DeleteEvent
    PROVE  TableInv' /\ OwnerInv'
  <1>a. /\ status \in [Rem -> Statuses] /\ at \in [Rem -> Times]
        /\ edit \in [Rem -> Times \cup {NoEdit}] /\ now \in Times /\ Times \subseteq Nat
        /\ Fixed \subseteq Rem
    BY ConstantsAssumption DEF TypeOK, Times, Fixed
  <1>b. UNCHANGED <<pc, cur, todo, verdict, sent, acked>>
    BY DEF CreateReminder, UpdateRead, UpdateWrite, Cancel, Tick, DeleteEvent,
           local, mail
  <1>c. \A w \in Workers, r \in Fixed : /\ Owns(w, r)' <=> Owns(w, r)
                                        /\ Progress(w, r)' <=> Progress(w, r)
                                        /\ Untouched(r)' <=> Untouched(r)
    BY <1>a, <1>b, SameOwners
  <1>d. \A r \in Fixed : Untouched(r)' <=> Untouched(r)
    BY <1>b DEF Untouched
  <1>1. CASE \E r \in Rem, t \in Times : CreateReminder(r, t)
    <2> PICK q \in Rem, t \in Times : CreateReminder(q, t)
      BY <1>1
    <2>1. /\ status[q] = "none"
          /\ status' = [status EXCEPT ![q] = "scheduled"]
          /\ edit' = edit
      BY DEF CreateReminder, outside
    <2>2. TableInv'
      BY <1>a, <1>b, <1>d, <2>1 DEF TableInv
    <2>3. OwnerInv'
      BY <1>a, <1>b, <1>c, <2>1 DEF OwnerInv
    <2>4. QED
      BY <2>2, <2>3
  <1>2. CASE \E r \in Rem, t \in Times \cup {Keep} : UpdateRead(r, t)
    <2>1. status' = status /\ \A r \in Fixed : edit'[r] = edit[r]
      BY <1>2, <1>a DEF UpdateRead, table, Fixed
    <2>2. QED
      BY <1>a, <1>b, <1>c, <1>d, <2>1 DEF TableInv, OwnerInv
  <1>3. CASE \E r \in Rem : UpdateWrite(r)
    <2> PICK q \in Rem : UpdateWrite(q)
      BY <1>3
    <2>1. q \notin Fixed
      BY DEF UpdateWrite, TableInv
    <2>2. \A r \in Fixed : status'[r] = status[r] /\ edit'[r] = edit[r]
      BY <1>a, <2>1 DEF UpdateWrite
    <2>3. QED
      BY <1>a, <1>b, <1>c, <1>d, <2>2 DEF TableInv, OwnerInv
  <1>4. CASE \E r \in Rem : Cancel(r)
    <2> PICK q \in Rem : Cancel(q)
      BY <1>4
    <2>1. /\ status[q] = "scheduled"
          /\ status' = [status EXCEPT ![q] = "cancelled"]
          /\ edit' = edit
      BY DEF Cancel, outside
    <2>2. QED
      BY <1>a, <1>b, <1>c, <1>d, <2>1 DEF TableInv, OwnerInv
  <1>5. CASE Tick
    <2>1. UNCHANGED <<status, edit>>
      BY <1>5 DEF Tick, table
    <2>2. QED
      BY <1>a, <1>b, <1>c, <1>d, <2>1 DEF TableInv, OwnerInv
  <1>6. CASE DeleteEvent
    <2>1. /\ \A r \in Fixed : status'[r] = IF status[r] = "none" THEN "none" ELSE "deleted"
          /\ edit' = edit
      BY <1>6, <1>a DEF DeleteEvent
    <2>2. QED
      BY <1>a, <1>b, <1>c, <1>d, <2>1 DEF TableInv, OwnerInv
  <1>7. QED
    BY <1>1, <1>2, <1>3, <1>4, <1>5, <1>6

-----------------------------------------------------------------------------
(* The steps of a worker                                                   *)

\* What a step of w leaves alone of the rest.
Alone(w) ==
    /\ UNCHANGED <<at, earliest, now, edit>>
    /\ \A v \in Workers \ {w} : /\ pc'[v] = pc[v] /\ cur'[v] = cur[v]
                                /\ todo'[v] = todo[v] /\ verdict'[v] = verdict[v]
                                /\ due'[v] = due[v]

\* A worker writes no times, and no locals of another worker.
LEMMA WorkerAlone ==
    ASSUME TypeOK, NEW w \in Workers, Work(w) \/ Crash(w) \/ Stop(w)
    PROVE  Alone(w)
  <1> USE DEF TypeOK, Alone, outside, local, table, mail
  <1>1. CASE FindDue(w)
    BY <1>1 DEF FindDue, Proceed
  <1>2. CASE Claim(w)
    BY <1>2 DEF Claim, ClaimForProcessing, Proceed
  <1>3. CASE FindTargetAttendees(w)
    BY <1>3 DEF FindTargetAttendees, Settle
  <1>4. CASE LookupEvent(w)
    BY <1>4 DEF LookupEvent, Settle
  <1>5. CASE SendToAttendee(w)
    BY <1>5 DEF SendToAttendee
  <1>6. CASE SetStatus(w)
    BY <1>6, SMTT(30) DEF SetStatus, Proceed
  <1>7. CASE Restart(w)
    BY <1>7 DEF Restart
  <1>8. CASE Crash(w)
    BY <1>8 DEF Crash, Forget
  <1>9. CASE Stop(w)
    BY <1>9 DEF Stop
  <1>10. QED
    BY <1>1, <1>2, <1>3, <1>4, <1>5, <1>6, <1>7, <1>8, <1>9 DEF Work

\* A step of w that sends nothing and leaves w where it was, or without a
\* reminder, or with the reminder it had and the promises of Progress kept.
LEMMA QuietStep ==
    ASSUME TypeOK, TableInv, OwnerInv, NEW w \in Workers, Alone(w),
           UNCHANGED <<status, sent, acked>>,
           \A r \in Fixed : Owns(w, r)' => Owns(w, r) /\ Progress(w, r)'
    PROVE  TableInv' /\ OwnerInv'
  <1>1. TableInv'
    BY DEF TableInv, Alone, Untouched
  <1>2. \A v \in Workers \ {w}, r \in Fixed :
            (Owns(v, r)' <=> Owns(v, r)) /\ (Progress(v, r)' <=> Progress(v, r))
    BY DEF Owns, Progress, Alone, Untouched
  <1>3. QED
    BY <1>1, <1>2 DEF OwnerInv, Alone

\* The steps of a worker that do not write the table and send nothing.
LEMMA QuietClaim ==
    ASSUME TypeOK, TableInv, OwnerInv, NEW w \in Workers,
           \/ FindDue(w) \/ FindTargetAttendees(w) \/ LookupEvent(w) \/ Restart(w)
           \/ Crash(w) \/ Stop(w)
    PROVE  TableInv' /\ OwnerInv'
  <1>a. Alone(w)
    BY WorkerAlone DEF Work
  <1>b. UNCHANGED <<status, sent, acked>>
    BY DEF FindDue, FindTargetAttendees, LookupEvent, Restart, Crash, Forget, Stop,
           table, mail
  <1>c. /\ pc \in [Workers -> Labels] /\ due \in [Workers -> SUBSET Rem]
        /\ todo \in [Workers -> SUBSET Guests]
        /\ verdict \in [Workers -> {"sent", "failed"}]
    BY DEF TypeOK
  <1>1. CASE FindDue(w)
    <2>1. pc'[w] \in {"idle", "claim"}
      BY <1>1, <1>c DEF FindDue, Proceed
    <2>2. QED
      BY <1>a, <1>b, <2>1, QuietStep DEF Owns
  <1>2. CASE FindTargetAttendees(w) \/ LookupEvent(w)
    <2>1. pc[w] \in {"targets", "event"} /\ cur' = cur
      BY <1>2 DEF FindTargetAttendees, LookupEvent, Settle
    <2>2. \A r \in Fixed : Owns(w, r)' => Owns(w, r) /\ Untouched(r)
      BY <2>1 DEF OwnerInv, Owns, Progress
    <2>3. todo'[w] \subseteq Guests
      BY <1>2, WorkerType DEF Work, TypeOK
    <2>4. \A r \in Fixed : Owns(w, r)' => Owns(w, r) /\ Progress(w, r)'
      BY <1>b, <2>2, <2>3 DEF Progress, Untouched
    <2>5. QED
      BY <1>a, <1>b, <2>4, QuietStep
  <1>3. CASE Restart(w) \/ Stop(w)
    <2>1. UNCHANGED <<pc, cur, todo, verdict>>
      BY <1>3 DEF Restart, Stop, local
    <2>2. \A r \in Fixed : Owns(w, r)' => Owns(w, r) /\ Progress(w, r)'
      BY <1>b, <2>1 DEF OwnerInv, Owns, Progress, Untouched
    <2>3. QED
      BY <1>a, <1>b, <2>2, QuietStep
  <1>4. CASE Crash(w)
    <2>1. pc'[w] = "idle"
      BY <1>4, <1>c DEF Crash, Forget
    <2>2. QED
      BY <1>a, <1>b, <2>1, QuietStep DEF Owns
  <1>5. QED
    BY <1>1, <1>2, <1>3, <1>4

\* The conditional update: a reminder that is claimed was scheduled, so nobody
\* owned it and it had reached nobody.
LEMMA ClaimClaim ==
    ASSUME TypeOK, TableInv, OwnerInv, NEW w \in Workers, Claim(w)
    PROVE  TableInv' /\ OwnerInv'
  <1>a. Alone(w) /\ UNCHANGED <<sent, acked>>
    BY WorkerAlone DEF Work, Claim, mail
  <1>b. /\ pc \in [Workers -> Labels] /\ cur \in [Workers -> Rem \cup {NoRem}]
        /\ due \in [Workers -> SUBSET Rem] /\ status \in [Rem -> Statuses]
    BY DEF TypeOK
  <1> PICK q \in due[w] : ClaimForProcessing(w, q)
    BY DEF Claim
  <1>1. CASE Proceed(w, due[w] \ {q}) /\ UNCHANGED status
    <2>1. pc'[w] \in {"idle", "claim"}
      BY <1>1, <1>b DEF Proceed
    <2>2. QED
      BY <1>1, <1>a, <2>1, QuietStep DEF Owns
  <1>2. CASE /\ status[q] = "scheduled"
             /\ status' = [status EXCEPT ![q] = "processing"]
             /\ cur' = [cur EXCEPT ![w] = q]
             /\ pc' = [pc EXCEPT ![w] = "targets"]
    <2>1. /\ status'[q] = "processing"
          /\ \A r \in Rem \ {q} : status'[r] = status[r]
          /\ cur'[w] = q /\ pc'[w] = "targets"
          /\ q \in Rem
      BY <1>2, <1>b
    <2>2. \A r \in Fixed : Untouched(r)' <=> Untouched(r)
      BY <1>a DEF Untouched
    <2>3. TableInv'
      BY <1>a, <2>1, <2>2 DEF TableInv, Alone, Fixed
    <2>4. \A v \in Workers \ {w}, r \in Fixed :
              (Owns(v, r)' <=> Owns(v, r)) /\ (Progress(v, r)' <=> Progress(v, r))
      BY <1>a DEF Owns, Progress, Alone, Untouched
    <2>5. \A r \in Fixed : Owns(w, r)' => r = q
      BY <2>1 DEF Owns
    <2>6. q \in Fixed => Untouched(q) /\ \A v \in Workers : ~Owns(v, q)
      BY <1>2 DEF OwnerInv, TableInv
    <2>7. q \in Fixed => Progress(w, q)'
      BY <2>1, <2>2, <2>6 DEF Progress
    <2>8. \A v \in Workers, r \in Fixed :
              Owns(v, r)' => status'[r] \in {"processing", "deleted"} /\ Progress(v, r)'
      BY <1>a, <2>1, <2>4, <2>5, <2>6, <2>7 DEF OwnerInv, Alone, Fixed
    <2>9. \A v, u \in Workers, r \in Fixed : Owns(v, r)' /\ Owns(u, r)' => v = u
      BY <2>4, <2>5, <2>6 DEF OwnerInv
    <2>10. QED
      BY <2>3, <2>8, <2>9 DEF OwnerInv
  <1>3. QED
    BY <1>1, <1>2 DEF ClaimForProcessing

\* A notification: the owner is the only one that can send this reminder, and
\* sends it only to those it has not reached.
LEMMA SendClaim ==
    ASSUME TypeOK, TableInv, OwnerInv, NEW w \in Workers, SendToAttendee(w)
    PROVE  TableInv' /\ OwnerInv'
  <1>a. Alone(w)
    BY WorkerAlone DEF Work
  <1>b. /\ pc \in [Workers -> Labels] /\ todo \in [Workers -> SUBSET Guests]
        /\ verdict \in [Workers -> {"sent", "failed"}]
        /\ sent \in [Rem -> [Guests -> Nat]] /\ pc[w] = "send" /\ cur[w] \in Rem
        /\ UNCHANGED <<status, cur>>
    BY DEF TypeOK, SendToAttendee, Labels
  <1> DEFINE q == cur[w]
  <1> PICK h \in todo[w], ok \in BOOLEAN :
          /\ h \notin Reachable => ok
          /\ sent' = IF h \in Reachable
                     THEN [sent EXCEPT ![cur[w]][h] = @ + 1] ELSE sent
          /\ acked' = IF ok THEN acked \cup {cur[w]} ELSE acked
          /\ verdict' = [verdict EXCEPT ![w] = VerdictAfter(@, ok)]
          /\ todo' = [todo EXCEPT ![w] = @ \ {h}]
          /\ pc' = [pc EXCEPT ![w] = IF todo[w] = {h} THEN "settle" ELSE "send"]
    BY DEF SendToAttendee
  <1>1. /\ h \in Guests
        /\ pc'[w] \in {"send", "settle"} /\ todo'[w] = todo[w] \ {h}
        /\ verdict'[w] = VerdictAfter(verdict[w], ok)
    BY <1>b
  <1>2. /\ \A r \in Rem \ {q} : sent'[r] = sent[r]
        /\ \A g \in Guests \ {h} : sent'[q][g] = sent[q][g]
        /\ sent'[q][h] = sent[q][h] \/ sent'[q][h] = sent[q][h] + 1
        /\ \A r \in Rem \ {q} : r \in acked' <=> r \in acked
        /\ ~ok => acked' = acked
    BY <1>b, <1>1
  <1>3. q \in Fixed => /\ status[q] \in {"processing", "deleted"}
                       /\ \A g \in todo[w] : sent[q][g] = 0
                       /\ verdict[w] = "failed" => q \notin acked
                       /\ \A v \in Workers : Owns(v, q) => v = w
    BY <1>b DEF OwnerInv, Owns, Progress
  <1>4. q \in Fixed => sent'[q][h] \in {0, 1}
    BY <1>2, <1>3
  <1>5. \A r \in Fixed \ {q} : Untouched(r)' <=> Untouched(r)
    BY <1>2 DEF Untouched, Fixed
  <1>6. TableInv'
    <2>1. \A r \in Fixed : edit'[r] = NoEdit
      BY <1>a DEF TableInv, Alone
    <2>2. \A r \in Fixed : status'[r] \in {"none", "scheduled", "cancelled"}
                             => Untouched(r)'
      BY <1>b, <1>3, <1>5 DEF TableInv
    <2>3. \A r \in Fixed : status'[r] = "failed" => r \notin acked'
      BY <1>b, <1>2, <1>3 DEF TableInv, Fixed
    <2>4. \A r \in Fixed, g \in Guests : sent'[r][g] <= 1
      BY <1>2, <1>4 DEF TableInv, Fixed
    <2>5. QED
      BY <2>1, <2>2, <2>3, <2>4 DEF TableInv
  <1>7. q \in Fixed => Progress(w, q)'
    <2> SUFFICES ASSUME q \in Fixed PROVE Progress(w, q)'
      OBVIOUS
    <2>1. \A g \in todo'[w] : sent'[q][g] = 0
      BY <1>1, <1>2, <1>3, <1>b
    <2>2. verdict'[w] = "failed" => ~ok /\ verdict[w] = "failed"
      BY <1>1 DEF VerdictAfter
    <2>3. verdict'[w] = "failed" => q \notin acked'
      BY <1>2, <1>3, <2>2
    <2>4. QED
      BY <1>1, <1>b, <2>1, <2>3 DEF Progress
  <1>8. \A v \in Workers, r \in Fixed : Owns(v, r)' <=> Owns(v, r)
    BY <1>a, <1>b, <1>1 DEF Owns, Alone
  <1>9. \A v \in Workers \ {w}, r \in Fixed :
            Owns(v, r) => r # q /\ (Progress(v, r)' <=> Progress(v, r))
    <2> TAKE v \in Workers \ {w}, r \in Fixed
    <2> HAVE Owns(v, r)
    <2>1. r # q
      BY <1>3
    <2>2. /\ sent'[r] = sent[r] /\ (r \in acked' <=> r \in acked)
          /\ Untouched(r)' <=> Untouched(r)
      BY <1>2, <1>5, <2>1 DEF Fixed
    <2>3. QED
      BY <1>a, <2>1, <2>2 DEF Progress, Alone
  <1>10. \A v \in Workers, r \in Fixed : Owns(v, r) => Progress(v, r)'
    BY <1>b, <1>7, <1>9 DEF OwnerInv, Owns
  <1>11. QED
    BY <1>b, <1>6, <1>8, <1>10 DEF OwnerInv

\* SetStatus looks only at the id, but only the owner calls it.
LEMMA SettleClaim ==
    ASSUME TypeOK, TableInv, OwnerInv, NEW w \in Workers, SetStatus(w)
    PROVE  TableInv' /\ OwnerInv'
  <1>a. Alone(w) /\ UNCHANGED <<sent, acked>>
    BY WorkerAlone DEF Work, SetStatus, mail
  <1>b. /\ pc \in [Workers -> Labels] /\ pc[w] = "settle" /\ cur[w] \in Rem
        /\ status \in [Rem -> Statuses]
        /\ verdict[w] \in {"sent", "failed"}
    BY DEF TypeOK, SetStatus, Labels
  <1> DEFINE q == cur[w]
  <1>1. pc'[w] \in {"idle", "claim"}
    BY <1>b DEF SetStatus, Proceed
  <1>2. /\ \A r \in Rem \ {q} : status'[r] = status[r]
        /\ status'[q] = status[q] \/ status'[q] = verdict[w]
    BY <1>b DEF SetStatus
  <1>3. q \in Fixed => /\ status[q] \in {"processing", "deleted"}
                       /\ verdict[w] = "failed" => q \notin acked
                       /\ \A v \in Workers : Owns(v, q) => v = w
    BY <1>b DEF OwnerInv, Owns, Progress
  <1>4. \A r \in Fixed : Untouched(r)' <=> Untouched(r)
    BY <1>a DEF Untouched
  <1>5. TableInv'
    BY <1>a, <1>b, <1>2, <1>3, <1>4 DEF TableInv, Alone, Fixed
  <1>6. \A v \in Workers \ {w}, r \in Fixed :
            (Owns(v, r)' <=> Owns(v, r)) /\ (Progress(v, r)' <=> Progress(v, r))
    BY <1>a DEF Owns, Progress, Alone, Untouched
  <1>7. \A r \in Fixed : ~Owns(w, r)'
    BY <1>1 DEF Owns
  <1>8. \A v \in Workers, r \in Fixed :
            Owns(v, r)' => r # q /\ v # w
    BY <1>3, <1>6, <1>7
  <1>9. \A v \in Workers, r \in Fixed :
            Owns(v, r)' => status'[r] \in {"processing", "deleted"} /\ Progress(v, r)'
    BY <1>2, <1>6, <1>8 DEF OwnerInv, Fixed
  <1>10. \A v, u \in Workers, r \in Fixed : Owns(v, r)' /\ Owns(u, r)' => v = u
    BY <1>6, <1>7 DEF OwnerInv
  <1>11. QED
    BY <1>5, <1>9, <1>10 DEF OwnerInv

\* Every step of the system preserves the invariant of the claim.
LEMMA NextClaim == ClaimInv /\ [Next]_vars => ClaimInv'
  <1> SUFFICES ASSUME TypeOK, TableInv, OwnerInv, [Next]_vars
               PROVE  TableInv' /\ OwnerInv'
    BY NextType DEF ClaimInv
  <1>1. CASE UNCHANGED vars
    BY <1>1 DEF vars, TableInv, OwnerInv, Owns, Progress, Untouched
  <1>2. CASE Next
    BY <1>2, OutsideClaim, QuietClaim, ClaimClaim, SendClaim, SettleClaim
    DEF Next, Work
  <1>3. QED
    BY <1>1, <1>2

\* The claim's invariant holds in every reachable state.
THEOREM ClaimInvariant == Spec => []ClaimInv
  <1>1. Init => ClaimInv
    BY InitType, InitClaim DEF ClaimInv
  <1>2. QED
    BY <1>1, NextClaim, PTL DEF Spec

\* No attendee gets a reminder twice, for any number of workers, crashes,
\* restarts and failing calls: what ClaimForProcessing is for.
THEOREM SentOnce == Spec => []NoDuplicateSends
  <1>1. ClaimInv => NoDuplicateSends
    BY DEF ClaimInv, TableInv, NoDuplicateSends, SentAtMostOnce, Fixed
  <1>2. QED
    BY <1>1, ClaimInvariant, PTL

\* A reminder that handleCancel reported as cancelled has reached nobody.
THEOREM CancelIsInTime == Spec => []CancelledReachedNobody
  <1>1. ClaimInv => CancelledReachedNobody
    BY DEF ClaimInv, TableInv, CancelledReachedNobody, Fixed, Untouched
  <1>2. QED
    BY <1>1, ClaimInvariant, PTL

\* A reminder that processReminder marked failed: every call of the notification
\* service for it returned an error.
THEOREM FailedMeansAllFailed == Spec => []FailedOnlyIfAllFailed
  <1>1. ClaimInv => FailedOnlyIfAllFailed
    BY DEF ClaimInv, TableInv, FailedOnlyIfAllFailed, Fixed
  <1>2. QED
    BY <1>1, ClaimInvariant, PTL

-----------------------------------------------------------------------------
(* The time of a reminder, for the edited ones too: an update can only move *)
(* a reminder that is listed, so its earliest time has come and stays come. *)

\* What is on a worker's list, is owned or has been handed over was due once.
TimeInv ==
    /\ \A r \in Rem : status[r] # "none" => earliest[r] <= at[r]
    /\ \A w \in Workers, r \in Rem :
          r \in due[w] \/ Owns(w, r) => status[r] # "none" /\ earliest[r] <= now
    /\ \A r \in Rem, g \in Guests :
          sent[r][g] > 0 => status[r] # "none" /\ earliest[r] <= now

\* Time goes on and the earliest time of a reminder that exists only sinks.
TimeGoesOn ==
    /\ now <= now'
    /\ \A r \in Rem : status[r] # "none" => status'[r] # "none" /\ earliest'[r] <= earliest[r]
    /\ \A r \in Rem : status'[r] # "none" => earliest'[r] <= at'[r]

\* Organizers' requests, the clock and the other components.
LEMMA OutsideTime ==
    ASSUME TypeOK, TimeInv,
           \/ \E r \in Rem, t \in Times : CreateReminder(r, t)
           \/ \E r \in Rem, t \in Times \cup {Keep} : UpdateRead(r, t)
           \/ \E r \in Rem : UpdateWrite(r) \/ Cancel(r)
           \/ Tick \/ DeleteEvent
    PROVE  TimeGoesOn
  <1>a. /\ status \in [Rem -> Statuses] /\ at \in [Rem -> Times]
        /\ earliest \in [Rem -> Times] /\ edit \in [Rem -> Times \cup {NoEdit}]
        /\ now \in Times /\ Times \subseteq Nat
    BY ConstantsAssumption DEF TypeOK, Times
  <1>b. \A r \in Rem : status[r] # "none" => earliest[r] <= at[r]
    BY DEF TimeInv
  <1>c. now \in Nat /\ \A r \in Rem : earliest[r] \in Nat /\ at[r] \in Nat
    BY <1>a
  <1>1. CASE \E r \in Rem, t \in Times : CreateReminder(r, t)
    <2> PICK q \in Rem, t \in Times : CreateReminder(q, t)
      BY <1>1
    <2>1. /\ status[q] = "none" /\ now' = now
          /\ status' = [status EXCEPT ![q] = "scheduled"]
          /\ at' = [at EXCEPT ![q] = t] /\ earliest' = [earliest EXCEPT ![q] = t]
      BY DEF CreateReminder, outside
    <2>2. QED
      BY <1>a, <1>b, <1>c, <2>1 DEF TimeGoesOn
  <1>2. CASE \E r \in Rem : UpdateWrite(r)
    <2> PICK q \in Rem : UpdateWrite(q)
      BY <1>2
    <2>1. now' = now /\ edit[q] \in Nat
      BY <1>a DEF UpdateWrite
    <2>2. CASE status[q] = "deleted"
      BY <1>b, <1>c, <2>1, <2>2 DEF UpdateWrite, TimeGoesOn
    <2>3. CASE status[q] # "deleted"
      <3>1. /\ status' = [status EXCEPT ![q] = "scheduled"]
            /\ at' = [at EXCEPT ![q] = edit[q]]
            /\ earliest' = [earliest EXCEPT
                              ![q] = IF edit[q] < earliest[q] THEN edit[q] ELSE earliest[q]]
        BY <2>3 DEF UpdateWrite
      <3>2. earliest'[q] <= earliest[q] /\ earliest'[q] <= edit[q] /\ at'[q] = edit[q]
        BY <1>a, <1>c, <2>1, <3>1
      <3>3. \A r \in Rem \ {q} : /\ earliest'[r] = earliest[r] /\ at'[r] = at[r]
                                 /\ status'[r] = status[r]
        BY <1>a, <3>1
      <3>4. status'[q] = "scheduled"
        BY <1>a, <3>1
      <3>5. QED
        BY <1>b, <1>c, <2>1, <3>2, <3>3, <3>4 DEF TimeGoesOn
    <2>4. QED
      BY <2>2, <2>3
  <1>3. CASE \E r \in Rem : Cancel(r)
    BY <1>3, <1>a, <1>b, <1>c DEF Cancel, outside, TimeGoesOn
  <1>4. CASE Tick \/ DeleteEvent \/ \E r \in Rem, t \in Times \cup {Keep} : UpdateRead(r, t)
    <2>1. UNCHANGED <<at, earliest>> /\ (now' = now \/ now' = now + 1)
      BY <1>4 DEF Tick, DeleteEvent, UpdateRead, table
    <2>2. \A r \in Rem : status'[r] # "none" <=> status[r] # "none"
      BY <1>4 DEF Tick, DeleteEvent, UpdateRead, table
    <2>3. QED
      BY <1>b, <1>c, <2>1, <2>2 DEF TimeGoesOn
  <1>5. QED
    BY <1>1, <1>2, <1>3, <1>4

\* The steps of a worker: they write no times, and what they list is due.
LEMMA WorkerTime ==
    ASSUME TypeOK, TimeInv, NEW w \in Workers, Work(w) \/ Crash(w) \/ Stop(w)
    PROVE  TimeInv'
  <1>a. Alone(w)
    BY WorkerAlone
  <1>b. /\ pc \in [Workers -> Labels] /\ due \in [Workers -> SUBSET Rem]
        /\ cur \in [Workers -> Rem \cup {NoRem}] /\ status \in [Rem -> Statuses]
        /\ sent \in [Rem -> [Guests -> Nat]] /\ todo \in [Workers -> SUBSET Guests]
    BY DEF TypeOK
  <1>c. \A r \in Rem : status'[r] # "none" <=> status[r] # "none"
    <2>1. CASE SetStatus(w)
      <3>1. cur[w] \in Rem /\ verdict[w] \in {"sent", "failed"}
        BY <2>1 DEF TypeOK, SetStatus, Labels
      <3>2. status[cur[w]] # "none"
        BY <2>1, <3>1 DEF TimeInv, Owns, SetStatus
      <3>3. QED
        BY <2>1, <1>b, <3>1, <3>2 DEF SetStatus
    <2>2. CASE Claim(w)
      BY <2>2, <1>b DEF Claim, ClaimForProcessing
    <2>3. CASE UNCHANGED status
      BY <2>3
    <2>4. QED
      BY <2>1, <2>2, <2>3
      DEF Work, FindDue, FindTargetAttendees, LookupEvent, SendToAttendee, Restart,
          Crash, Forget, Stop, table
  <1>d. \A r \in Rem : status[r] # "none" => earliest[r] <= at[r]
    BY DEF TimeInv
  <1>1. \A r \in Rem : r \in due'[w] \/ Owns(w, r)' =>
            status[r] # "none" /\ earliest[r] <= now
    <2>1. CASE FindDue(w)
      <3>1. /\ pc'[w] \in {"idle", "claim"} /\ due'[w] = {r \in Rem : Due(r)}
        BY <2>1, <1>b DEF FindDue, Proceed
      <3>2. \A r \in Rem : Due(r) => status[r] # "none" /\ earliest[r] <= now
        <4>1. now \in Nat /\ \A r \in Rem : earliest[r] \in Nat /\ at[r] \in Nat
          BY ConstantsAssumption DEF TypeOK, Times
        <4>2. QED
          BY <1>d, <4>1 DEF Due
      <3>3. QED
        BY <3>1, <3>2 DEF Owns
    <2>2. CASE \A r \in Rem : r \in due'[w] \/ Owns(w, r)' => r \in due[w] \/ Owns(w, r)
      BY <2>2 DEF TimeInv
    <2>3. CASE Claim(w)
      BY <2>2, <2>3, <1>b DEF Claim, ClaimForProcessing, Proceed, Owns
    <2>4. CASE FindTargetAttendees(w) \/ LookupEvent(w)
      BY <2>2, <2>4, <1>b DEF FindTargetAttendees, LookupEvent, Settle, Owns
    <2>5. CASE SendToAttendee(w)
      BY <2>2, <2>5 DEF SendToAttendee, Owns
    <2>6. CASE SetStatus(w)
      BY <2>2, <2>6, <1>b DEF SetStatus, Proceed, Owns
    <2>7. CASE Restart(w) \/ Stop(w)
      BY <2>2, <2>7 DEF Restart, Stop, local, Owns
    <2>8. CASE Crash(w)
      BY <2>2, <2>8, <1>b DEF Crash, Forget, Owns
    <2>9. QED
      BY <2>1, <2>3, <2>4, <2>5, <2>6, <2>7, <2>8 DEF Work
  <1>2. \A v \in Workers \ {w}, r \in Rem :
            r \in due'[v] \/ Owns(v, r)' => r \in due[v] \/ Owns(v, r)
    BY <1>a DEF Alone, Owns
  <1>3. \A r \in Rem, g \in Guests :
            sent'[r][g] > 0 => status[r] # "none" /\ earliest[r] <= now
    <2>1. CASE SendToAttendee(w)
      <3>1. /\ cur[w] \in Rem /\ Owns(w, cur[w])
            /\ \A r \in Rem \ {cur[w]} : sent'[r] = sent[r]
        BY <2>1, <1>b DEF TypeOK, SendToAttendee, Labels, Owns
      <3>2. QED
        BY <3>1 DEF TimeInv
    <2>2. CASE UNCHANGED sent
      BY <2>2 DEF TimeInv
    <2>3. QED
      BY <2>1, <2>2
      DEF Work, FindDue, Claim, FindTargetAttendees, LookupEvent, SetStatus, Restart,
          Crash, Forget, Stop, mail
  <1>4. QED
    BY <1>a, <1>c, <1>1, <1>2, <1>3 DEF TimeInv, Alone

\* Every step keeps the times.
LEMMA NextTime == TypeOK /\ TimeInv /\ [Next]_vars => TimeInv'
  <1> SUFFICES ASSUME TypeOK, TimeInv, [Next]_vars PROVE TimeInv'
    OBVIOUS
  <1>1. CASE UNCHANGED vars
    BY <1>1 DEF vars, TimeInv, Owns
  <1>2. CASE \E w \in Workers : Work(w) \/ Crash(w) \/ Stop(w)
    BY <1>2, WorkerTime
  <1>3. CASE \/ \E r \in Rem, t \in Times : CreateReminder(r, t)
             \/ \E r \in Rem, t \in Times \cup {Keep} : UpdateRead(r, t)
             \/ \E r \in Rem : UpdateWrite(r) \/ Cancel(r)
             \/ Tick \/ DeleteEvent
    <2>1. TimeGoesOn
      BY <1>3, OutsideTime
    <2>2. UNCHANGED <<pc, due, cur, sent>>
      BY <1>3 DEF CreateReminder, UpdateRead, UpdateWrite, Cancel, Tick, DeleteEvent,
                  local, mail
    <2>3. \A w \in Workers, r \in Rem : Owns(w, r)' <=> Owns(w, r)
      BY <2>2 DEF Owns
    <2>4. /\ now \in Int /\ now' \in Int
          /\ \A r \in Rem : earliest[r] \in Int /\ earliest'[r] \in Int
      BY <1>3, OutsideType, ConstantsAssumption DEF TypeOK, Times
    <2>5. \A r \in Rem : status[r] # "none" /\ earliest[r] <= now
                           => status'[r] # "none" /\ earliest'[r] <= now'
      BY <2>1, <2>4 DEF TimeGoesOn
    <2>6. QED
      BY <2>1, <2>2, <2>3, <2>5 DEF TimeInv, TimeGoesOn
  <1>4. QED
    BY <1>1, <1>2, <1>3 DEF Next

\* No notification of a reminder is handed over before the earliest time it has
\* been set to, edited or not: FindDue compares remind_at with the clock, and what
\* is put off after it has been listed was due when it was listed.
THEOREM NoneIsEarly == Spec => []NotBeforeTime
  <1>1. Init => TimeInv
    BY DEF Init, TimeInv, Owns
  <1>2. TimeInv => NotBeforeTime
    BY DEF TimeInv, NotBeforeTime
  <1>3. QED
    BY <1>1, <1>2, NextTime, RemindersTypeCorrect, PTL DEF Spec

\* What races the job: cancelled reminders were handed over for nobody, failed
\* ones acknowledged for nobody, and none went out before its earliest time.
THEOREM OnlyWarrantedSends == Spec => []SendsWarranted
  BY CancelIsInTime, FailedMeansAllFailed, NoneIsEarly, PTL DEF SendsWarranted

-----------------------------------------------------------------------------
\* Sent, failed and cancelled are final, though SetStatus does not look at the
\* status it overwrites.
THEOREM FinalIsFinal == Spec => SettledForGood
  <1> DEFINE Keeps == \A r \in Rem \ Editable :
                         status[r] \in Settled => status'[r] \in {status[r], "deleted"}
  <1>1. ClaimInv /\ [Next]_vars => Keeps
    <2> SUFFICES ASSUME TypeOK, TableInv, OwnerInv, [Next]_vars,
                        NEW r \in Rem \ Editable, status[r] \in Settled
                 PROVE  status'[r] \in {status[r], "deleted"}
      BY DEF ClaimInv
    <2>a. status \in [Rem -> Statuses] /\ r \in Fixed
      BY DEF TypeOK, Fixed
    <2>b. status[r] \notin {"none", "scheduled", "processing"}
      BY DEF Settled
    <2>1. CASE \E q \in Rem, t \in Times : CreateReminder(q, t)
      BY <2>1, <2>a, <2>b DEF CreateReminder
    <2>2. CASE \E q \in Rem : UpdateWrite(q)
      BY <2>2, <2>a DEF UpdateWrite, TableInv
    <2>3. CASE \E q \in Rem : Cancel(q)
      BY <2>3, <2>a, <2>b DEF Cancel
    <2>4. CASE DeleteEvent
      BY <2>4, <2>a, <2>b DEF DeleteEvent
    <2>5. CASE \E w \in Workers : Claim(w)
      BY <2>5, <2>a, <2>b DEF Claim, ClaimForProcessing
    <2>6. CASE \E w \in Workers : SetStatus(w)
      <3> PICK w \in Workers : SetStatus(w)
        BY <2>6
      <3>1. cur[w] = r => Owns(w, r)
        BY DEF SetStatus, Owns
      <3>2. cur[w] = r => status[r] = "deleted"
        BY <2>a, <2>b, <3>1 DEF OwnerInv
      <3>3. QED
        BY <2>a, <3>2 DEF SetStatus
    <2>7. CASE UNCHANGED status
      BY <2>7
    <2>8. QED
      BY <2>1, <2>2, <2>3, <2>4, <2>5, <2>6, <2>7
      DEF Next, vars, UpdateRead, Tick, Work, FindDue,
          FindTargetAttendees, LookupEvent, SendToAttendee, Restart, Crash, Forget,
          Stop, table
  <1>2. QED
    BY <1>1, ClaimInvariant, PTL DEF Spec, SettledForGood

-----------------------------------------------------------------------------
(* The refinement of OnceEach.                                             *)

\* The tables of the fixed reminders, as OnceEach sees them.
States == [r \in Fixed |-> status[r]]
Copies == [r \in Fixed |-> sent[r]]
Acked  == acked \cap Fixed

\* A step that writes one status moves one item, or none.
LEMMA OneStatus ==
    ASSUME TypeOK, NEW q \in Rem, NEW s, UNCHANGED mail,
           status' = [status EXCEPT ![q] = s]
    PROVE  /\ UNCHANGED <<Copies, Acked>>
           /\ q \notin Fixed => States' = States
           /\ q \in Fixed => States' = [States EXCEPT ![q] = s] /\ States[q] = status[q]
  <1>1. UNCHANGED <<Copies, Acked>>
    BY DEF Copies, Acked, Fixed, mail
  <1>2. status \in [Rem -> Statuses] /\ Fixed \subseteq Rem
    BY DEF TypeOK, Fixed
  <1>3. ASSUME q \notin Fixed PROVE States' = States
    BY <1>2, <1>3 DEF States
  <1>4. ASSUME q \in Fixed PROVE States' = [States EXCEPT ![q] = s] /\ States[q] = status[q]
    BY <1>2, <1>4 DEF States
  <1>5. QED
    BY <1>1, <1>3, <1>4

\* A step that changes neither table is no step of OnceEach.
LEMMA NoTable ==
    ASSUME status' = status, UNCHANGED mail
    PROVE  UNCHANGED <<States, Copies, Acked>>
  BY DEF States, Copies, Acked, Fixed, mail

\* Every step is a step of OnceEach on the fixed reminders, or none.
LEMMA StepPromised ==
    ASSUME ClaimInv, [Next]_vars
    PROVE  Promise!Next \/ (UNCHANGED <<States, Copies, Acked>>)
  <1> USE DEF ClaimInv
  <1> DEFINE Goal == Promise!Next \/ (UNCHANGED <<States, Copies, Acked>>)
  <1>a. ASSUME NEW i \in Fixed, NEW from, NEW to, States[i] = from,
               States' = [States EXCEPT ![i] = to], UNCHANGED <<Copies, Acked>>
        PROVE  Promise!Move(i, from, to)
    BY <1>a DEF Promise!Move, States, Copies, Acked
  <1>b. status \in [Rem -> Statuses] /\ sent \in [Rem -> [Guests -> Nat]] /\ Fixed \subseteq Rem
    BY DEF TypeOK, Fixed
  <1>1. CASE \E q \in Rem, t \in Times : CreateReminder(q, t)
    <2> PICK q \in Rem, t \in Times : CreateReminder(q, t)
      BY <1>1
    <2>1. status[q] = "none" /\ UNCHANGED mail /\ status' = [status EXCEPT ![q] = "scheduled"]
      BY DEF CreateReminder
    <2>2. q \in Fixed => Promise!Schedule(q)
      BY <1>a, <2>1, OneStatus DEF Promise!Schedule
    <2>3. QED
      BY <2>1, <2>2, OneStatus DEF Promise!Next
  <1>2. CASE \E q \in Rem : UpdateWrite(q)
    <2> PICK q \in Rem : UpdateWrite(q)
      BY <1>2
    <2>1. q \notin Fixed /\ UNCHANGED mail
      BY DEF UpdateWrite, TableInv
    <2>2. CASE status' = status
      BY <2>1, <2>2, NoTable
    <2>3. CASE status' = [status EXCEPT ![q] = "scheduled"]
      BY <2>1, <2>3, OneStatus
    <2>4. QED
      BY <2>2, <2>3 DEF UpdateWrite
  <1>3. CASE \E q \in Rem : Cancel(q)
    <2> PICK q \in Rem : Cancel(q)
      BY <1>3
    <2>1. status[q] = "scheduled" /\ UNCHANGED mail /\ status' = [status EXCEPT ![q] = "cancelled"]
      BY DEF Cancel
    <2>2. q \in Fixed => Promise!Withdraw(q)
      BY <1>a, <2>1, OneStatus DEF Promise!Withdraw
    <2>3. QED
      BY <2>1, <2>2, OneStatus DEF Promise!Next
  <1>4. CASE DeleteEvent
    <2>1. UNCHANGED mail /\ status' = [r \in Rem |-> IF status[r] = "none" THEN "none" ELSE "deleted"]
      BY <1>4 DEF DeleteEvent
    <2>2. UNCHANGED <<Copies, Acked>>
      BY <2>1 DEF Copies, Acked, Fixed, mail
    <2>3. States' = [r \in Fixed |-> IF States[r] = "none" THEN "none" ELSE "deleted"]
      BY <1>b, <2>1 DEF States
    <2>4. Promise!DeleteAll
      BY <2>2, <2>3 DEF Promise!DeleteAll, States, Copies, Acked
    <2>5. QED
      BY <2>4 DEF Promise!Next
  <1>5. CASE \E w \in Workers : Claim(w)
    <2> PICK w \in Workers : Claim(w)
      BY <1>5
    <2> PICK q \in due[w] : ClaimForProcessing(w, q)
      BY DEF Claim
    <2>1. q \in Rem /\ UNCHANGED mail
      BY DEF TypeOK, Claim
    <2>2. CASE status' = status
      BY <2>1, <2>2, NoTable
    <2>3. CASE status[q] = "scheduled" /\ status' = [status EXCEPT ![q] = "processing"]
      <3>1. q \in Fixed => Promise!Take(q)
        BY <1>a, <2>1, <2>3, OneStatus DEF Promise!Take
      <3>2. QED
        BY <2>1, <2>3, <3>1, OneStatus DEF Promise!Next
    <2>4. QED
      BY <2>2, <2>3 DEF ClaimForProcessing
  <1>6. CASE \E w \in Workers : SetStatus(w)
    <2> PICK w \in Workers : SetStatus(w)
      BY <1>6
    <2> PICK q \in Rem : q = cur[w]
      BY DEF TypeOK, SetStatus, Labels
    <2>1. UNCHANGED mail /\ Owns(w, q) /\ pc[w] = "settle"
      BY DEF TypeOK, SetStatus, Labels, Owns
    <2>2. CASE status' = status
      BY <2>1, <2>2, NoTable
    <2>3. CASE status[q] # "deleted" /\ status' = [status EXCEPT ![q] = verdict[w]]
      <3>1. ASSUME q \in Fixed PROVE Promise!Succeed(q) \/ Promise!GiveUp(q)
        <4>1. status[q] = "processing" /\ Progress(w, q)
          BY <2>1, <2>3, <3>1 DEF OwnerInv
        <4>2. CASE verdict[w] = "sent"
          BY <1>a, <2>1, <2>3, <3>1, <4>1, <4>2, OneStatus DEF Promise!Succeed
        <4>3. CASE verdict[w] = "failed"
          <5>1. q \notin acked
            BY <2>1, <4>1, <4>3 DEF Progress
          <5>2. Promise!Move(q, "processing", "failed")
            BY <1>a, <2>1, <2>3, <3>1, <4>1, <4>3, OneStatus
          <5>3. QED
            BY <5>1, <5>2 DEF Promise!GiveUp
        <4>4. QED
          BY <4>2, <4>3 DEF TypeOK
      <3>2. q \notin Fixed => UNCHANGED <<States, Copies, Acked>>
        BY <2>1, <2>3, OneStatus
      <3>3. QED
        BY <3>1, <3>2 DEF Promise!Next
    <2>4. QED
      BY <2>2, <2>3 DEF SetStatus
  <1>7. CASE \E w \in Workers : SendToAttendee(w)
    <2> PICK w \in Workers : SendToAttendee(w)
      BY <1>7
    <2> PICK q \in Rem : q = cur[w]
      BY DEF TypeOK, SendToAttendee, Labels
    <2>1. status' = status /\ Owns(w, q) /\ pc[w] = "send"
      BY DEF TypeOK, SendToAttendee, Labels, Owns
    <2>2. States' = States
      BY <2>1 DEF States
    <2> PICK g \in todo[w], ok \in BOOLEAN :
            /\ sent' = IF g \in Reachable
                       THEN [sent EXCEPT ![cur[w]][g] = @ + 1] ELSE sent
            /\ acked' = IF ok THEN acked \cup {cur[w]} ELSE acked
            /\ g \notin Reachable => ok
      BY DEF SendToAttendee
    <2>3. g \in Guests
      BY DEF TypeOK
    <2>4. ASSUME q \notin Fixed PROVE UNCHANGED <<Copies, Acked>>
      BY <1>b, <2>4 DEF Copies, Acked, Fixed
    <2>5. ASSUME q \in Fixed PROVE Acked' = Acked \/ Promise!Learn(q)
      BY <2>5 DEF Acked, Fixed, Promise!Learn
    <2>6. ASSUME q \in Fixed, g \in Reachable PROVE Promise!Deliver(q, g)
      <3>1. status[q] \in {"processing", "deleted"} /\ sent[q][g] = 0
        BY <2>1, <2>6 DEF OwnerInv, Progress
      <3>2. Copies' = [Copies EXCEPT ![q][g] = 1]
        <4>1. sent'[q] = [sent[q] EXCEPT ![g] = 1]
          BY <1>b, <2>3, <2>6, <3>1
        <4>2. \A r \in Fixed \ {q} : sent'[r] = sent[r]
          BY <1>b
        <4>3. QED
          BY <2>6, <4>1, <4>2 DEF Copies
      <3>3. QED
        BY <2>2, <2>5, <2>6, <3>1, <3>2 DEF Promise!Deliver, Promise!Taken, States, Copies, Acked
    <2>7. ASSUME q \in Fixed, g \notin Reachable PROVE Promise!Pass(q)
      <3>1. status[q] \in {"processing", "deleted"}
        BY <2>1, <2>7 DEF OwnerInv
      <3>2. Copies' = Copies
        BY <2>7 DEF Copies
      <3>3. Promise!Learn(q)
        BY <2>7 DEF Promise!Learn, Fixed
      <3>4. QED
        BY <2>2, <2>7, <3>1, <3>2, <3>3 DEF Promise!Pass, Promise!Taken, States, Copies
    <2>8. QED
      BY <2>2, <2>3, <2>4, <2>6, <2>7 DEF Promise!Next
  <1>8. CASE status' = status /\ UNCHANGED mail
    BY <1>8, NoTable
  <1>9. QED
    BY <1>1, <1>2, <1>3, <1>4, <1>5, <1>6, <1>7, <1>8
    DEF Next, vars, UpdateRead, Tick, Work, FindDue,
        FindTargetAttendees, LookupEvent, Restart, Crash, Forget, Stop, table, local, mail

\* The job implements OnceEach on the reminders that nobody edits, for any
\* number of workers: what processReminder and its claim are meant to do.
THEOREM JobKeepsPromise == Spec => KeepsPromise
  <1>1. Init => Promise!Init
    BY DEF Init, Promise!Init, Fixed
  <1>2. ClaimInv /\ [Next]_vars => [Promise!Next]_(Promise!vars)
    BY StepPromised DEF Promise!vars, States, Copies, Acked
  <1>3. QED
    BY <1>1, <1>2, ClaimInvariant, PTL DEF Spec, KeepsPromise, Promise!Spec

=============================================================================
