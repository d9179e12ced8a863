----------------------------- MODULE RsvpProofs -----------------------------
(* Theorems about Rsvp, for every value of its constants.                  *)
EXTENDS Rsvp, FiniteSetTheorems, TLAPS

-----------------------------------------------------------------------------
(* The attending headcount                                                 *)

\* The pairs of S that are not of row i.
But(S, i) == {s \in S : s[1] # i}

\* The seats that a row adds to the sum, and those it takes off.
Adds(r)  == IF r.status = "attending" /\ r.plus >= 0 THEN 1 + r.plus ELSE 0
Takes(r) == IF r.status = "attending" /\ r.plus < 0 THEN -(1 + r.plus) ELSE 0

\* Every number of plus-ones is an integer that the sums below can count.
LEMMA PlusOnesType ==
    ASSUME NEW r \in Row
    PROVE  r.plus \in -(MaxPlus + 1) .. MaxPlus /\ Contribution(r) \in Int
  <1>1. r.plus \in PlusOnes \cup {0}
    BY DEF Row, Attendee, NoRow
  <1>2. r.plus \in -(MaxPlus + 1) .. MaxPlus
    <2>1. MaxPlus \in Nat /\ 0 \in -(MaxPlus + 1) .. MaxPlus
      BY ConstantsAssumption
    <2>2. ImportPlus \subseteq -(MaxPlus + 1) .. MaxPlus
      BY ConstantsAssumption
    <2>3. Plus \subseteq -(MaxPlus + 1) .. MaxPlus
      BY <2>1 DEF Plus
    <2>4. QED
      BY <1>1, <2>1, <2>2, <2>3 DEF PlusOnes
  <1>3. QED
    BY <1>2, ConstantsAssumption DEF Contribution

\* GetStats sums finitely many numbers.
LEMMA HeadcountType ==
    ASSUME NEW rs \in [Ids -> Row]
    PROVE  IsFiniteSet(Seats(rs)) /\ IsFiniteSet(Owed(rs)) /\ Headcount(rs) \in Int
  <1>1. IsFiniteSet(Ids) /\ IsFiniteSet(Plus)
    BY FS_Interval, ConstantsAssumption DEF Ids, Plus
  <1>2. IsFiniteSet(Ids \X Plus)
    BY <1>1, FS_Product
  <1>3. Seats(rs) \in SUBSET (Ids \X Plus) /\ Owed(rs) \in SUBSET (Ids \X Plus)
    BY DEF Seats, Owed
  <1>4. IsFiniteSet(Seats(rs)) /\ IsFiniteSet(Owed(rs))
    BY <1>2, <1>3, FS_Subset
  <1>5. Cardinality(Seats(rs)) \in Nat /\ Cardinality(Owed(rs)) \in Nat
    BY <1>4, FS_CardinalityType
  <1>6. QED
    BY <1>4, <1>5 DEF Headcount

\* A set of pairs of which n are row i's.
LEMMA PairsSplit ==
    ASSUME NEW S, IsFiniteSet(S), NEW i, NEW n \in Nat,
           S = But(S, i) \cup ({i} \X (0 .. n - 1))
    PROVE  /\ Cardinality(But(S, i)) \in Nat
           /\ Cardinality(S) = Cardinality(But(S, i)) + n
  <1> DEFINE party == {i} \X (0 .. n - 1)
  <1>1. But(S, i) \cap party = {}
    BY DEF But
  <1>2. IsFiniteSet(But(S, i)) /\ Cardinality(But(S, i)) \in Nat
    <2>1. But(S, i) \in SUBSET S
      BY DEF But
    <2>2. QED
      BY <2>1, FS_Subset, FS_CardinalityType
  <1>3. IsFiniteSet(party) /\ Cardinality(party) = n
    <2>1. IsFiniteSet(0 .. n - 1) /\ Cardinality(0 .. n - 1) = n
      BY FS_Interval, SMTT(30)
    <2>2. IsFiniteSet({i}) /\ Cardinality({i}) = 1
      BY FS_Singleton
    <2>3. QED
      BY <2>1, <2>2, FS_Product
  <1>4. Cardinality(But(S, i) \cap party) = 0
    BY <1>1, FS_EmptySet
  <1>5. Cardinality(But(S, i) \cup party)
          = Cardinality(But(S, i)) + Cardinality(party) - Cardinality(But(S, i) \cap party)
    BY <1>2, <1>3, FS_Union
  <1>6. QED
    BY <1>2, <1>3, <1>4, <1>5

\* A row contributes to the headcount the seats of its own party.
LEMMA HeadcountSplit ==
    ASSUME NEW rs \in [Ids -> Row], NEW i \in Ids
    PROVE  /\ Cardinality(But(Seats(rs), i)) \in Nat
           /\ Cardinality(But(Owed(rs), i)) \in Nat
           /\ Contribution(rs[i]) \in Int
           /\ Headcount(rs) = Cardinality(But(Seats(rs), i)) - Cardinality(But(Owed(rs), i))
                                  + Contribution(rs[i])
  <1> DEFINE n == Adds(rs[i])
             m == Takes(rs[i])
  <1>1. rs[i].plus \in -(MaxPlus + 1) .. MaxPlus /\ Contribution(rs[i]) \in Int
    BY PlusOnesType
  <1>2. n \in Nat /\ m \in Nat /\ Contribution(rs[i]) = n - m
    BY <1>1, ConstantsAssumption DEF Adds, Takes, Contribution
  <1>3. Seats(rs) = But(Seats(rs), i) \cup ({i} \X (0 .. n - 1))
    BY <1>1, ConstantsAssumption DEF Seats, But, Adds, Plus
  <1>4. Owed(rs) = But(Owed(rs), i) \cup ({i} \X (0 .. m - 1))
    BY <1>1, ConstantsAssumption DEF Owed, But, Takes, Plus
  <1>5. IsFiniteSet(Seats(rs)) /\ IsFiniteSet(Owed(rs))
    BY HeadcountType
  <1> HIDE DEF n, m
  <1>6. /\ Cardinality(But(Seats(rs), i)) \in Nat
        /\ Cardinality(Seats(rs)) = Cardinality(But(Seats(rs), i)) + n
    BY <1>2, <1>3, <1>5, PairsSplit
  <1>7. /\ Cardinality(But(Owed(rs), i)) \in Nat
        /\ Cardinality(Owed(rs)) = Cardinality(But(Owed(rs), i)) + m
    BY <1>2, <1>4, <1>5, PairsSplit
  <1>8. QED
    BY <1>1, <1>2, <1>6, <1>7 DEF Headcount

\* Writing row i changes the headcount by the difference of the two parties.
LEMMA HeadcountExcept ==
    ASSUME NEW rs \in [Ids -> Row], NEW i \in Ids, NEW r \in Row
    PROVE  /\ [rs EXCEPT ![i] = r] \in [Ids -> Row]
           /\ Headcount([rs EXCEPT ![i] = r])
                = Headcount(rs) - Contribution(rs[i]) + Contribution(r)
  <1> DEFINE rt == [rs EXCEPT ![i] = r]
  <1>1. rt \in [Ids -> Row] /\ rt[i] = r
    OBVIOUS
  <1>2. But(Seats(rt), i) = But(Seats(rs), i) /\ But(Owed(rt), i) = But(Owed(rs), i)
    BY DEF But, Seats, Owed
  <1> DEFINE others == Cardinality(But(Seats(rs), i)) - Cardinality(But(Owed(rs), i))
  <1>3. others \in Int /\ Contribution(r) \in Int /\ Headcount(rt) = others + Contribution(r)
    <2> HIDE DEF rt
    <2>1. /\ Cardinality(But(Seats(rt), i)) \in Nat /\ Cardinality(But(Owed(rt), i)) \in Nat
          /\ Contribution(rt[i]) \in Int
          /\ Headcount(rt) = Cardinality(But(Seats(rt), i)) - Cardinality(But(Owed(rt), i))
                                + Contribution(rt[i])
      BY <1>1, HeadcountSplit
    <2> QED  BY <1>1, <1>2, <2>1
  <1>4. Contribution(rs[i]) \in Int /\ Headcount(rs) = others + Contribution(rs[i])
    BY HeadcountSplit
  <1>5. QED
    BY <1>1, <1>3, <1>4

\* The imports carry plus-ones that PreviewCSVImport accepts, as the execute
\* request of the organizer's page does: then no party is negative.
Previewed == ImportPlus \subseteq Plus

\* The plus-ones of every row are then within the forms' range.
LEMMA RowPlus ==
    ASSUME Previewed, NEW r \in Row
    PROVE  r.plus \in 0 .. MaxPlus
  <1>1. r.plus \in PlusOnes \cup {0}
    BY DEF Row, Attendee, NoRow
  <1>2. 0 \in Plus
    BY ConstantsAssumption DEF Plus
  <1>3. QED
    BY <1>1, <1>2 DEF Previewed, PlusOnes, Plus

\* And what a row adds to the headcount is a natural number.
LEMMA ContributionType ==
    ASSUME Previewed, NEW r \in Row
    PROVE  Contribution(r) \in Nat /\ r.plus \in Nat
  BY RowPlus, ConstantsAssumption DEF Contribution

-----------------------------------------------------------------------------
(* The inductive invariant of the tables and of the handlers' locals       *)

\* What the tables satisfy between any two statements: types, no row beyond
\* the last id allocated, unique contacts, declined guests without plus-ones.
TablesOK ==
    /\ ev \in Events
    /\ rows \in [Ids -> Row]
    /\ nextId \in 1 .. MaxRows + 1
    /\ \A i \in Ids : i >= nextId => rows[i] = NoRow
    /\ UniqueIn(rows)
    /\ DeclinedAloneIn(rows)

\* An attendee row a handler may write back.
Sound(r) == r \in Attendee /\ (r.status = "declined" => r.plus = 0)

\* What a request guarantees once its handler has accepted it.
GoodJob(j) ==
    /\ j \in Request
    /\ j.op = "submit" => /\ j.guest \in Guests
                          /\ j.status \in Statuses
                          /\ j.plus \in Plus
                          /\ j.status = "declined" => j.plus = 0
    /\ j.op = "import" => j.plus \in ImportPlus
    /\ j.op \in {"update", "organizer"} => j.plus \in Plus \cup {KeepPlus}
    /\ j.op \in {"update", "organizer", "remove", "promote"} => j.id \in Ids

\* Where a handler that serves j is about to use the row it has read.
UsesRow(l, j) ==
    \/ j.op \in {"update", "promote"}
    \/ j.op \in {"organizer", "remove"} /\ l \in {"check", "write"}
    \/ l = "loopWrite"

\* A handler at label l with request j and locals v.
Good(l, j, v) ==
    /\ l \in Labels
    /\ v \in View
    /\ l = "idle" => j = NoJob
    /\ l # "idle" => GoodJob(j)
    /\ l # "idle" /\ UsesRow(l, j) => v.id \in Ids /\ Sound(v.row)
    /\ l \in {"loopEvent", "loopStats", "loopHead", "loopWrite"} =>
          j.op \in {"update", "organizer", "remove"}

LocalsOK ==
    /\ mu \in Procs \cup {NoProc}
    /\ served \in 0 .. MaxRequests
    /\ pc \in [Procs -> Labels]
    /\ job \in [Procs -> Request \cup {NoJob}]
    /\ view \in [Procs -> View]
    /\ \A p \in Procs : Good(pc[p], job[p], view[p])

RsvpInv == TablesOK /\ LocalsOK

-----------------------------------------------------------------------------
(* The building blocks preserve the invariant                              *)

\* The locals of a handler that has read nothing are well typed.
LEMMA NoViewType == NoView \in View
  <1>1. (CHOOSE e \in Events : TRUE) \in Events
    BY ConstantsAssumption
  <1>2. QED
    BY <1>1 DEF NoView, View, Row

\* A handler that goes on with good locals leaves all locals good.
LEMMA GotoGood ==
    ASSUME LocalsOK, NEW p \in Procs, NEW v, NEW l,
           Goto(p, v, l), Good(l, job[p], v)
    PROVE  LocalsOK'
  BY DEF LocalsOK, Goto, Good

\* A handler that returns leaves all locals good.
LEMMA ReturnGood ==
    ASSUME LocalsOK, NEW p \in Procs, Return(p)
    PROVE  LocalsOK'
  BY NoViewType DEF LocalsOK, Return, Good, Labels

\* Accepting a request leaves all locals good.
LEMMA AcceptGood ==
    ASSUME TablesOK, LocalsOK, NEW p \in Procs, NEW r \in Requests, NEW v, NEW l,
           Accept(p, r, v, l), Good(l, r, v)
    PROVE  TablesOK' /\ LocalsOK'
  <1>1. TablesOK'
    BY DEF Accept, TablesOK, UniqueIn, DeclinedAloneIn
  <1>2. r \in Request
    BY ConstantsAssumption
  <1>3. served' \in 0 .. MaxRequests
    BY ConstantsAssumption DEF Accept, LocalsOK
  <1>4. QED
    BY <1>1, <1>2, <1>3 DEF LocalsOK, Accept, Good

\* A request the handlers accept is well formed.
LEMMA AcceptedJob ==
    ASSUME NEW r \in Requests
    PROVE  GoodJob(r)
  BY ConstantsAssumption, RequestsAssumption DEF GoodJob, Statuses

\* A step that writes no table keeps what the tables satisfy.
LEMMA TablesUnchanged ==
    ASSUME TablesOK, UNCHANGED <<ev, rows, nextId>>
    PROVE  TablesOK'
  BY DEF TablesOK, UniqueIn, DeclinedAloneIn

\* UPDATE ... WHERE id keeps the table sound.
LEMMA UpdateTables ==
    ASSUME TablesOK, NEW i \in Ids, NEW r, Sound(r),
           rows' = Updated(rows, i, r), UNCHANGED <<ev, nextId>>
    PROVE  TablesOK'
  <1>1. r \in Row /\ r.guest # NoGuest
    BY ConstantsAssumption DEF Sound, Row, Attendee
  <1>2. CASE rows' = rows
    BY <1>2, TablesUnchanged
  <1>3. CASE rows[i] # NoRow /\ ~Conflict(rows, i, r) /\ rows' = [rows EXCEPT ![i] = r]
    <2>1. rows' \in [Ids -> Row] /\ \A j \in Ids : j >= nextId => rows'[j] = NoRow
      BY <1>1, <1>3 DEF TablesOK
    <2>2. UniqueIn(rows)'
      BY <1>1, <1>3 DEF TablesOK, UniqueIn, Conflict
    <2>3. DeclinedAloneIn(rows)'
      BY <1>1, <1>3 DEF TablesOK, DeclinedAloneIn, Sound
    <2>4. QED
      BY <2>1, <2>2, <2>3 DEF TablesOK
  <1>4. QED
    BY <1>2, <1>3 DEF Updated

\* INSERT keeps the table sound.
LEMMA CreateTables ==
    ASSUME TablesOK, NEW g \in Guests, NEW s \in Statuses, NEW n \in PlusOnes,
           s = "declined" => n = 0,
           Create(g, s, n), UNCHANGED ev
    PROVE  TablesOK'
  <1> DEFINE r == [guest |-> g, status |-> s, plus |-> n]
  <1>1. CASE UNCHANGED <<rows, nextId>>
    BY <1>1, TablesUnchanged
  <1>2. CASE /\ ~Taken(rows, g) /\ nextId \in Ids
             /\ rows' = [rows EXCEPT ![nextId] = r]
             /\ nextId' = nextId + 1
    <2>1. r \in Row /\ g # NoGuest
      BY ConstantsAssumption DEF Row, Attendee
    <2>2. rows' \in [Ids -> Row] /\ nextId' \in 1 .. MaxRows + 1
      BY <1>2, <2>1, ConstantsAssumption DEF TablesOK, Ids
    <2>3. \A j \in Ids : j >= nextId' => rows'[j] = NoRow
      BY <1>2, ConstantsAssumption DEF TablesOK, Ids
    <2>4. UniqueIn(rows)'
      BY <1>2, <2>1 DEF TablesOK, UniqueIn, Taken
    <2>5. DeclinedAloneIn(rows)'
      BY <1>2, <2>1 DEF TablesOK, DeclinedAloneIn
    <2>6. QED
      BY <2>2, <2>3, <2>4, <2>5 DEF TablesOK
  <1>3. QED
    BY <1>1, <1>2 DEF Create

\* DELETE keeps the table sound.
LEMMA DeleteTables ==
    ASSUME TablesOK, NEW i \in Ids,
           rows' = [rows EXCEPT ![i] = NoRow], UNCHANGED <<ev, nextId>>
    PROVE  TablesOK'
  <1>1. rows' \in [Ids -> Row] /\ \A j \in Ids : j >= nextId => rows'[j] = NoRow
    BY DEF TablesOK, Row
  <1>2. \A r \in Row : r # NoRow => r.guest # NoGuest
    BY ConstantsAssumption DEF Row, Attendee
  <1>3. UniqueIn(rows)'
    BY <1>2 DEF TablesOK, UniqueIn, NoRow
  <1>4. DeclinedAloneIn(rows)'
    BY DEF TablesOK, DeclinedAloneIn, NoRow
  <1>5. QED
    BY <1>1, <1>3, <1>4 DEF TablesOK

-----------------------------------------------------------------------------
(* Every action preserves the invariant                                    *)

\* A row that is present is sound to write back.
LEMMA RowSound ==
    ASSUME TablesOK, NEW i \in Ids, rows[i] # NoRow
    PROVE  Sound(rows[i])
  BY DEF TablesOK, DeclinedAloneIn, Sound, Row

\* The first statement of every handler preserves the invariant.
LEMMA BeginInv ==
    ASSUME RsvpInv, NEW p \in Procs, Begin(p)
    PROVE  RsvpInv'
  <1> PICK r \in Requests : \/ SubmitBegin(p, r) \/ UpdateBegin(p, r)
                            \/ OrganizerBegin(p, r) \/ PromoteBegin(p, r)
                            \/ ImportBegin(p, r)
    BY DEF Begin
  <1>0. GoodJob(r)
    BY AcceptedJob
  <1>e. [NoView EXCEPT !.ev = ev] \in View
    BY NoViewType DEF RsvpInv, TablesOK, View, NoView
  <1>l. LockOr(ev, "find") \in {"lock", "find"}
    BY DEF LockOr
  <1>r. ASSUME r.id \in Ids, rows[r.id] # NoRow
        PROVE  /\ [NoView EXCEPT !.id = r.id, !.row = rows[r.id]] \in View
               /\ Sound(rows[r.id])
    BY <1>r, NoViewType, RowSound DEF RsvpInv, TablesOK, View, NoView
  <1>1. CASE SubmitBegin(p, r) \/ OrganizerBegin(p, r)
    <2>1. Good(LockOr(ev, "find"), r, [NoView EXCEPT !.ev = ev])
      BY <1>0, <1>e, <1>l, <1>1
         DEF Good, UsesRow, Labels, SubmitBegin, OrganizerBegin
    <2>2. QED
      BY <1>1, <2>1, AcceptGood DEF SubmitBegin, OrganizerBegin, RsvpInv
  <1>2. CASE UpdateBegin(p, r)
    <2>1. r.id \in Ids
      BY <1>0, <1>2 DEF GoodJob, UpdateBegin
    <2>2. Good("event", r, [NoView EXCEPT !.id = r.id, !.row = rows[r.id]])
      BY <1>0, <1>2, <1>r, <2>1 DEF Good, Labels, UpdateBegin, NoView
    <2>3. QED
      BY <1>2, <2>2, AcceptGood DEF UpdateBegin, RsvpInv
  <1>3. CASE PromoteBegin(p, r)
    <2>1. r.id \in Ids /\ rows[r.id] # NoRow
      BY <1>0, <1>3 DEF GoodJob, PromoteBegin, NoRow
    <2>2. Good("write", r, [NoView EXCEPT !.id = r.id, !.row = rows[r.id]])
      BY <1>0, <1>3, <1>r, <2>1 DEF Good, Labels, NoView
    <2>3. QED
      BY <1>3, <2>2, AcceptGood DEF PromoteBegin, RsvpInv
  <1>4. CASE ImportBegin(p, r)
    <2>1. Good("find", r, [NoView EXCEPT !.ev = ev])
      BY <1>0, <1>e, <1>4 DEF Good, UsesRow, Labels, ImportBegin
    <2>2. QED
      BY <1>4, <2>1, AcceptGood DEF ImportBegin, RsvpInv
  <1>5. QED
    BY <1>1, <1>2, <1>3, <1>4

\* Statements that only read: the tables are unchanged.
LEMMA SubmitReadsInv ==
    ASSUME RsvpInv, NEW p \in Procs, SubmitFind(p) \/ SubmitCheck(p)
    PROVE  RsvpInv'
  <1> USE DEF RsvpInv
  <1>0. Good(pc[p], job[p], view[p]) /\ view[p] \in View
    BY DEF LocalsOK
  <1>1. CASE SubmitFind(p)
    <2> DEFINE i == RowOf(rows, job[p].guest)
               v == [view[p] EXCEPT !.id = i,
                                    !.row = IF i = 0 THEN NoRow ELSE rows[i]]
               l == IF job[p].status = "attending" /\ Limited(view[p].ev)
                    THEN "check" ELSE "write"
    <2>1. i \in Ids \cup {0}
      BY DEF RowOf, Taken
    <2>2. v \in View
      BY <1>0, <2>1 DEF TablesOK, View, Row
    <2>3. Good(l, job[p], v)
      BY <1>0, <1>1, <2>2 DEF Good, UsesRow, Labels, SubmitFind, At
    <2>4. Goto(p, v, l)
      BY <1>1 DEF SubmitFind
    <2> HIDE DEF v, l
    <2>5. LocalsOK'
      BY <2>3, <2>4, GotoGood
    <2>6. QED
      BY <1>1, <2>4, <2>5, TablesUnchanged DEF SubmitFind, Goto
  <1>2. CASE SubmitCheck(p)
    <2>1. UNCHANGED <<ev, rows, nextId>>
      BY <1>2 DEF SubmitCheck, Goto, Return
    <2>2. CASE Goto(p, view[p], "write")
      <3>1. Good("write", job[p], view[p])
        BY <1>0, <1>2 DEF Good, UsesRow, Labels, SubmitCheck, At
      <3>2. QED
        BY <2>1, <2>2, <3>1, GotoGood, TablesUnchanged
    <2>3. CASE Return(p)
      BY <2>1, <2>3, ReturnGood, TablesUnchanged
    <2>4. CASE /\ job' = [job EXCEPT ![p].status = "waitlisted"]
               /\ pc' = [pc EXCEPT ![p] = "write"]
               /\ UNCHANGED <<ev, mu, view, served>>
      <3> DEFINE j == [job[p] EXCEPT !.status = "waitlisted"]
      <3>1. job[p].op = "submit" /\ pc[p] = "check" /\ GoodJob(job[p])
        BY <1>0, <1>2 DEF SubmitCheck, At, Good
      <3>2. GoodJob(j)
        BY <3>1 DEF GoodJob, Request, Statuses
      <3>3. Good("write", j, view[p])
        BY <1>0, <3>1, <3>2 DEF Good, UsesRow, Labels, GoodJob, Request
      <3>4. job' = [job EXCEPT ![p] = j]
        BY <2>4 DEF LocalsOK
      <3> HIDE DEF j
      <3>5. LocalsOK'
        BY <2>4, <3>2, <3>3, <3>4 DEF LocalsOK, GoodJob, Labels
      <3>6. QED
        BY <2>1, <3>5, TablesUnchanged
    <2>5. QED
      BY <1>2, <2>2, <2>3, <2>4 DEF SubmitCheck
  <1>3. QED
    BY <1>1, <1>2

\* So do the reads and checks of the updates and the removal.
LEMMA EditReadsInv ==
    ASSUME RsvpInv, NEW p \in Procs,
           UpdateEvent(p) \/ AttendeeFind(p) \/ EditCheck(p)
    PROVE  RsvpInv'
  <1> USE DEF RsvpInv
  <1>0. Good(pc[p], job[p], view[p]) /\ view[p] \in View
    BY DEF LocalsOK
  <1>1. UNCHANGED <<ev, rows, nextId>>
    BY DEF UpdateEvent, AttendeeFind, EditCheck, Goto, Return
  <1>2. TablesOK'
    BY <1>1, TablesUnchanged
  <1>3. CASE Return(p)
    BY <1>2, <1>3, ReturnGood
  <1>4. CASE UpdateEvent(p) /\ ~Return(p)
    <2> DEFINE v == [view[p] EXCEPT !.ev = ev]
               l == LockOr(ev, "check")
    <2>1. v \in View /\ v.id = view[p].id /\ v.row = view[p].row
      BY <1>0 DEF TablesOK, View
    <2>2. Good(l, job[p], v)
      BY <1>0, <1>4, <2>1 DEF Good, UsesRow, Labels, UpdateEvent, At, LockOr
    <2>3. Goto(p, v, l)
      BY <1>4 DEF UpdateEvent
    <2>4. QED
      BY <1>2, <2>2, <2>3, GotoGood
  <1>5. CASE AttendeeFind(p) /\ ~Return(p)
    <2> DEFINE v == [view[p] EXCEPT !.id = job[p].id, !.row = rows[job[p].id]]
               l == IF job[p].op = "remove" THEN "write" ELSE "check"
    <2>1. GoodJob(job[p]) /\ job[p].id \in Ids /\ rows[job[p].id] # NoRow
      BY <1>0, <1>5 DEF Good, GoodJob, AttendeeFind
    <2>2. v \in View /\ v.id = job[p].id /\ Sound(v.row)
      BY <1>0, <2>1, RowSound DEF TablesOK, View
    <2>3. Good(l, job[p], v)
      BY <2>1, <2>2 DEF Good, Labels
    <2>4. Goto(p, v, l)
      BY <1>5 DEF AttendeeFind
    <2>5. QED
      BY <1>2, <2>3, <2>4, GotoGood
  <1>6. CASE EditCheck(p) /\ ~Return(p)
    <2>1. Good("write", job[p], view[p])
      BY <1>0, <1>6 DEF Good, UsesRow, Labels, EditCheck
    <2>2. Goto(p, view[p], "write")
      BY <1>6 DEF EditCheck
    <2>3. QED
      BY <1>2, <2>1, <2>2, GotoGood
  <1>7. QED
    BY <1>3, <1>4, <1>5, <1>6

\* So do the reads of the promotion loop.
LEMMA LoopReadsInv ==
    ASSUME RsvpInv, NEW p \in Procs, LoopEvent(p) \/ LoopStats(p) \/ LoopHead(p)
    PROVE  RsvpInv'
  <1> USE DEF RsvpInv
  <1>0. Good(pc[p], job[p], view[p]) /\ view[p] \in View
    BY DEF LocalsOK
  <1>1. UNCHANGED <<ev, rows, nextId>>
    BY DEF LoopEvent, LoopStats, LoopHead, Goto, Return
  <1>2. TablesOK'
    BY <1>1, TablesUnchanged
  <1>3. CASE Return(p)
    BY <1>2, <1>3, ReturnGood
  <1>4. CASE LoopEvent(p) /\ ~Return(p)
    <2> DEFINE v == [view[p] EXCEPT !.ev = ev]
    <2>1. v \in View /\ v.id = view[p].id /\ v.row = view[p].row
      BY <1>0 DEF TablesOK, View
    <2>2. Good("loopStats", job[p], v)
      BY <1>0, <1>4, <2>1 DEF Good, UsesRow, Labels, LoopEvent
    <2>3. Goto(p, v, "loopStats")
      BY <1>4 DEF LoopEvent
    <2>4. QED
      BY <1>2, <2>2, <2>3, GotoGood
  <1>5. CASE LoopStats(p) /\ ~Return(p)
    <2> DEFINE v == [view[p] EXCEPT !.count = Headcount(rows)]
    <2>1. Headcount(rows) \in Int
      BY HeadcountType DEF TablesOK
    <2>2. v \in View /\ v.id = view[p].id /\ v.row = view[p].row
      BY <1>0, <2>1 DEF View
    <2>3. Good("loopHead", job[p], v)
      BY <1>0, <1>5, <2>2 DEF Good, UsesRow, Labels, LoopStats
    <2>4. Goto(p, v, "loopHead")
      BY <1>5 DEF LoopStats
    <2>5. QED
      BY <1>2, <2>3, <2>4, GotoGood
  <1>6. CASE LoopHead(p) /\ ~Return(p)
    <2>1. PICK i \in Ids :
            /\ FirstOf(rows, i)
            /\ Goto(p, [view[p] EXCEPT !.id = i, !.row = rows[i]], "loopWrite")
      BY <1>6 DEF LoopHead
    <2> DEFINE v == [view[p] EXCEPT !.id = i, !.row = rows[i]]
    <2>2. rows[i] # NoRow
      BY <2>1 DEF FirstOf, Waitlist, NoRow
    <2>3. v \in View /\ v.id = i /\ Sound(v.row)
      BY <1>0, <2>2, RowSound DEF TablesOK, View
    <2>4. Good("loopWrite", job[p], v)
      BY <1>0, <1>6, <2>3 DEF Good, Labels, LoopHead
    <2>5. QED
      BY <1>2, <2>1, <2>4, GotoGood
  <1>7. QED
    BY <1>3, <1>4, <1>5, <1>6

\* The rows the handlers write are sound.
LEMMA EditedSound ==
    ASSUME NEW j, GoodJob(j), j.op \in {"update", "organizer"}, NEW a, Sound(a)
    PROVE  Sound(Edited(j, a))
  <1>1. j \in Request /\ a \in Attendee
    BY DEF GoodJob, Sound
  <1>2. /\ Edited(j, a).guest \in Guests
        /\ Edited(j, a).status \in Statuses
    BY <1>1 DEF Edited, Request, Attendee
  <1>3. /\ Edited(j, a).plus \in PlusOnes
        /\ Edited(j, a).status = "declined" => Edited(j, a).plus = 0
    BY <1>1, ConstantsAssumption DEF Edited, GoodJob, Attendee, Plus, PlusOnes
  <1>4. QED
    BY <1>2, <1>3 DEF Sound, Attendee, Edited

\* So do the writes of every handler, from copies read earlier.
LEMMA WritesInv ==
    ASSUME RsvpInv, NEW p \in Procs,
           \/ SubmitUpdate(p) \/ SubmitCreate(p) \/ UpdateWrite(p)
           \/ OrganizerWrite(p) \/ RemoveWrite(p) \/ PromoteWrite(p)
           \/ LoopWrite(p)
    PROVE  RsvpInv'
  <1> USE DEF RsvpInv
  <1>0. Good(pc[p], job[p], view[p]) /\ view[p] \in View
    BY DEF LocalsOK
  <1>1. CASE SubmitUpdate(p)
    <2> DEFINE b == [guest |-> job[p].guest, status |-> job[p].status,
                     plus |-> job[p].plus]
    <2>1. view[p].id \in Ids /\ Sound(b)
      BY <1>0, <1>1 DEF Good, GoodJob, SubmitUpdate, At, Sound, Attendee, View, PlusOnes
    <2>2. TablesOK'
      BY <1>1, <2>1, UpdateTables DEF SubmitUpdate, Return
    <2>3. QED
      BY <1>1, <2>2, ReturnGood DEF SubmitUpdate
  <1>2. CASE SubmitCreate(p)
    <2>1. GoodJob(job[p]) /\ job[p].op = "submit"
      BY <1>0, <1>2 DEF Good, SubmitCreate, At
    <2>2. TablesOK'
      BY <1>2, <2>1, CreateTables DEF SubmitCreate, Return, GoodJob, PlusOnes
    <2>3. QED
      BY <1>2, <2>2, ReturnGood DEF SubmitCreate
  <1>3. CASE UpdateWrite(p) \/ OrganizerWrite(p)
    <2> DEFINE b == Edited(job[p], view[p].row)
    <2>1. /\ GoodJob(job[p]) /\ job[p].op \in {"update", "organizer"}
          /\ view[p].id \in Ids /\ Sound(view[p].row)
      BY <1>0, <1>3 DEF Good, UsesRow, UpdateWrite, OrganizerWrite, At
    <2>2. Sound(b)
      BY <2>1, EditedSound
    <2>3. rows' = Updated(rows, view[p].id, b) /\ UNCHANGED <<ev, nextId>>
      BY <1>3 DEF UpdateWrite, OrganizerWrite, PromoteOrReturn, Goto, Return
    <2>4. TablesOK'
      BY <2>1, <2>2, <2>3, UpdateTables
    <2>5. Good("loopEvent", job[p], view[p])
      BY <1>0, <2>1 DEF Good, Labels
    <2>6. Return(p) \/ Goto(p, view[p], "loopEvent")
      BY <1>3 DEF UpdateWrite, OrganizerWrite, PromoteOrReturn
    <2>7. QED
      BY <2>4, <2>5, <2>6, GotoGood, ReturnGood
  <1>4. CASE RemoveWrite(p)
    <2>1. /\ view[p].id \in Ids /\ GoodJob(job[p]) /\ Sound(view[p].row)
          /\ job[p].op = "remove"
      BY <1>0, <1>4 DEF Good, UsesRow, RemoveWrite, At
    <2>2. TablesOK'
      BY <1>4, <2>1, DeleteTables DEF RemoveWrite, PromoteOrReturn, Goto, Return
    <2>3. Good("loopEvent", job[p], view[p])
      BY <1>0, <2>1 DEF Good, Labels
    <2>4. Return(p) \/ Goto(p, view[p], "loopEvent")
      BY <1>4 DEF RemoveWrite, PromoteOrReturn
    <2>5. QED
      BY <2>2, <2>3, <2>4, GotoGood, ReturnGood
  <1>5. CASE PromoteWrite(p) \/ LoopWrite(p)
    <2>1. view[p].id \in Ids /\ Sound(view[p].row) /\ GoodJob(job[p])
      BY <1>0, <1>5 DEF Good, UsesRow, PromoteWrite, LoopWrite, At
    <2>2. Sound(Promoted(view[p].row))
      BY <2>1 DEF Sound, Promoted, Attendee, Statuses
    <2>3. /\ rows' = Updated(rows, view[p].id, Promoted(view[p].row))
          /\ UNCHANGED <<ev, nextId>>
      BY <1>5 DEF PromoteWrite, LoopWrite, Goto, Return
    <2>4. TablesOK'
      BY <2>1, <2>2, <2>3, UpdateTables
    <2>5. LoopWrite(p) => Good("loopEvent", job[p], view[p])
      BY <1>0, <2>1 DEF Good, Labels, LoopWrite
    <2>6. Return(p) \/ (LoopWrite(p) /\ Goto(p, view[p], "loopEvent"))
      BY <1>5 DEF PromoteWrite, LoopWrite
    <2>7. QED
      BY <2>4, <2>5, <2>6, GotoGood, ReturnGood
  <1>6. QED
    BY <1>1, <1>2, <1>3, <1>4, <1>5

\* So does the import, row by row.
LEMMA ImportInv ==
    ASSUME RsvpInv, NEW p \in Procs, ImportFind(p) \/ ImportWrite(p)
    PROVE  RsvpInv'
  <1> USE DEF RsvpInv
  <1>0. /\ Good(pc[p], job[p], view[p]) /\ view[p] \in View
        /\ job[p].op = "import" /\ GoodJob(job[p])
    BY DEF LocalsOK, Good, ImportFind, ImportWrite, At
  <1>1. \A T \in SUBSET Guests : Good("write", job[p], [view[p] EXCEPT !.todo = T])
    BY <1>0 DEF Good, UsesRow, Labels, View
  <1>2. CASE ImportFind(p)
    <2> DEFINE T == {g \in job[p].batch : ~Taken(rows, g)}
    <2>1. T \in SUBSET Guests
      BY <1>0 DEF GoodJob, Request
    <2>2. Good("write", job[p], [view[p] EXCEPT !.todo = T])
      BY <1>1, <2>1
    <2>3. Return(p) \/ Goto(p, [view[p] EXCEPT !.todo = T], "write")
      BY <1>2 DEF ImportFind
    <2>4. UNCHANGED <<ev, rows, nextId>>
      BY <1>2, <2>3 DEF ImportFind, Goto, Return
    <2>5. QED
      BY <2>2, <2>3, <2>4, GotoGood, ReturnGood, TablesUnchanged
  <1>3. CASE ImportWrite(p)
    <2>1. PICK g \in view[p].todo :
            /\ Create(g, "pending", job[p].plus) \/ UNCHANGED <<rows, nextId>>
            /\ Return(p) \/ Goto(p, [view[p] EXCEPT !.todo = @ \ {g}], "write")
      BY <1>3 DEF ImportWrite
    <2>2. g \in Guests /\ view[p].todo \ {g} \in SUBSET Guests
      BY <1>0 DEF View
    <2>3. TablesOK'
      BY <1>0, <2>1, <2>2, CreateTables, TablesUnchanged
      DEF GoodJob, Statuses, Goto, Return, PlusOnes
    <2>4. Good("write", job[p], [view[p] EXCEPT !.todo = @ \ {g}])
      BY <1>1, <2>2
    <2>5. QED
      BY <2>1, <2>3, <2>4, GotoGood, ReturnGood
  <1>4. QED
    BY <1>2, <1>3

\* So does taking the mutex.
LEMMA LockInv ==
    ASSUME RsvpInv, NEW p \in Procs, Lock(p)
    PROVE  RsvpInv'
  <1> DEFINE l == IF job[p].op = "update" THEN "check" ELSE "find"
  <1>1. Good(pc[p], job[p], view[p]) /\ pc[p] = "lock"
    BY DEF RsvpInv, LocalsOK, Lock
  <1>2. Good(l, job[p], view[p])
    BY <1>1 DEF Good, UsesRow, Labels
  <1>3. LocalsOK'
    BY <1>2 DEF RsvpInv, LocalsOK, Lock, Labels
  <1>4. QED
    BY <1>3, TablesUnchanged DEF RsvpInv, Lock

\* Every starting table satisfies the invariant.
LEMMA InitInv == Init => RsvpInv
  <1> SUFFICES ASSUME Init PROVE RsvpInv
    OBVIOUS
  <1>1. TablesOK
    BY PopulationAssumption, ConstantsAssumption DEF Init, TablesOK, Ids
  <1>2. Good("idle", NoJob, NoView)
    BY NoViewType DEF Good, Labels
  <1>3. LocalsOK
    BY <1>2, NoViewType, ConstantsAssumption DEF Init, LocalsOK, Labels
  <1>4. QED
    BY <1>1, <1>3 DEF RsvpInv

\* Every step preserves it: one case per kind of action.
LEMMA NextInv == RsvpInv /\ [Next]_vars => RsvpInv'
  <1> SUFFICES ASSUME RsvpInv, [Next]_vars PROVE RsvpInv'
    OBVIOUS
  <1>1. ASSUME NEW p \in Procs, Begin(p) PROVE RsvpInv'
    BY <1>1, BeginInv
  <1>2. ASSUME NEW p \in Procs, Step(p) PROVE RsvpInv'
    BY <1>2, LockInv, SubmitReadsInv, EditReadsInv, LoopReadsInv, WritesInv,
       ImportInv DEF Step
  <1>3. ASSUME NEW p \in Procs, Fail(p) PROVE RsvpInv'
    BY <1>3, ReturnGood, TablesUnchanged DEF Fail, RsvpInv, Return
  <1>4. CASE EditEvent
    BY <1>4 DEF EditEvent, RsvpInv, TablesOK, LocalsOK, UniqueIn, DeclinedAloneIn
  <1>5. CASE UNCHANGED vars
    BY <1>5 DEF vars, RsvpInv, TablesOK, LocalsOK, UniqueIn, DeclinedAloneIn
  <1>6. QED
    BY <1>1, <1>2, <1>3, <1>4, <1>5 DEF Next, Done

\* The invariant of the tables and locals holds in every reachable state.
THEOREM RsvpInvariant == Spec => []RsvpInv
  BY InitInv, NextInv, PTL DEF Spec

\* The tables, the mutex and the locals of every handler keep their types,
\* for any number of goroutines, guests, rows and requests; plus-ones are
\* negative only as far as imports carry negative numbers.
THEOREM TypeCorrect == Spec => []TypeOK
  <1>1. RsvpInv => TypeOK
    BY DEF RsvpInv, TablesOK, LocalsOK, TypeOK
  <1>2. QED
    BY <1>1, RsvpInvariant, PTL

\* No interleaving of submissions, imports and contact edits, with or without
\* the mutex, leaves two rows with one contact.
THEOREM ContactsUnique == Spec => []UniqueContacts
  <1>1. RsvpInv => UniqueContacts
    BY DEF RsvpInv, TablesOK, UniqueContacts
  <1>2. QED
    BY <1>1, RsvpInvariant, PTL

\* No handler, however stale the row it writes back, leaves a declined guest
\* with plus-ones.
THEOREM DeclinedAlone == Spec => []DeclinedBringNobody
  <1>1. RsvpInv => DeclinedBringNobody
    BY DEF RsvpInv, TablesOK, DeclinedBringNobody
  <1>2. QED
    BY <1>1, RsvpInvariant, PTL

\* Contacts are unique and declined guests alone, between any two statements.
THEOREM SoundAlways == Spec => []AttendeesSound
  BY ContactsUnique, DeclinedAlone, PTL DEF AttendeesSound

\* A step never brings back a row that has been deleted.
LEMMA UpdatedKeepsAbsent ==
    ASSUME NEW rs \in [Ids -> Row], NEW i \in Ids, NEW r, NEW j \in Ids,
           rs[j] = NoRow
    PROVE  Updated(rs, i, r)[j] = NoRow
  BY DEF Updated

\* RemoveAttendee is final: a handler that read the row before it was deleted
\* and writes it back afterwards has no effect on the table.
THEOREM RemovalIsFinal == Spec => RemovedStaysRemoved
  <1> DEFINE A == \A i \in Ids : i < nextId /\ rows[i] = NoRow => rows'[i] = NoRow
  <1>1. ASSUME RsvpInv, [Next]_vars
        PROVE  [A]_vars
    <2> SUFFICES ASSUME NEW i \in Ids, i < nextId, rows[i] = NoRow,
                        rows' # rows
                 PROVE  rows'[i] = NoRow
      BY <1>1
    <2> USE <1>1
    <2>0. rows \in [Ids -> Row] /\ nextId \in 1 .. MaxRows + 1
      BY DEF RsvpInv, TablesOK
    <2>1. PICK p \in Procs :
            \/ SubmitUpdate(p) \/ SubmitCreate(p) \/ UpdateWrite(p)
            \/ OrganizerWrite(p) \/ RemoveWrite(p) \/ PromoteWrite(p)
            \/ LoopWrite(p) \/ ImportWrite(p)
      BY ZenonT(60)
         DEF Next, vars, Done, EditEvent, Fail, Begin, Step, SubmitBegin,
             UpdateBegin, OrganizerBegin, PromoteBegin, ImportBegin, Accept,
             Lock, SubmitFind, SubmitCheck, UpdateEvent, AttendeeFind,
             EditCheck, ImportFind, LoopEvent, LoopStats, LoopHead
    <2>2. Good(pc[p], job[p], view[p]) /\ view[p] \in View
      BY DEF RsvpInv, LocalsOK
    <2>3. CASE SubmitCreate(p) \/ ImportWrite(p)
      <3>1. \A k \in Ids : k # nextId => rows'[k] = rows[k]
        BY <2>0, <2>3 DEF SubmitCreate, ImportWrite, Create
      <3>2. i # nextId
        BY <2>0, ConstantsAssumption DEF Ids
      <3>3. QED
        BY <3>1, <3>2
    <2>4. CASE RemoveWrite(p)
      BY <2>0, <2>4 DEF RemoveWrite
    <2>5. CASE SubmitUpdate(p)
      <3>1. view[p].id \in Ids
        BY <2>2, <2>5 DEF SubmitUpdate, View
      <3>2. QED
        BY <2>0, <2>5, <3>1, UpdatedKeepsAbsent DEF SubmitUpdate
    <2>6. CASE \/ UpdateWrite(p) \/ OrganizerWrite(p) \/ PromoteWrite(p)
               \/ LoopWrite(p)
      <3>1. view[p].id \in Ids
        BY <2>2, <2>6 DEF Good, UsesRow, At, UpdateWrite, OrganizerWrite,
                          PromoteWrite, LoopWrite
      <3>2. PICK b : rows' = Updated(rows, view[p].id, b)
        BY <2>6 DEF UpdateWrite, OrganizerWrite, PromoteWrite, LoopWrite
      <3>3. QED
        BY <2>0, <3>1, <3>2, UpdatedKeepsAbsent
    <2>7. QED
      BY <2>1, <2>3, <2>4, <2>5, <2>6
  <1>2. QED
    BY <1>1, RsvpInvariant, PTL DEF Spec, RemovedStaysRemoved

-----------------------------------------------------------------------------
(* Capacity                                                                *)
(*                                                                         *)
(* The capacity mutex keeps the headcount within the capacity for the      *)
(* handlers that read the attendee under it, as long as the organizer      *)
(* neither overrides the limit nor changes it, and no import carries       *)
(* negative plus-ones.                                                     *)

\* Every value the event row takes has the same capacity.
FixedCapacity == \A e \in Events : e.cap = Cap

\* No self-service update (it reads the attendee before the mutex), no manual
\* promotion and no organizer edit of the plus-ones of an attending guest
\* (both bypass the limit).
DisciplinedJob(r) ==
    /\ r.op \in {"submit", "organizer", "remove", "import"}
    /\ r.op = "organizer" /\ r.plus # KeepPlus => r.status \notin {Keep, "attending"}
Disciplined == \A r \in Requests : DisciplinedJob(r)

\* A handler past its Lock call.
UnderLock(l, j) == l \notin {"idle", "event", "lock"} /\ j.op # "import"

\* The result of SubmitRSVP's duplicate lookup is still what the table says.
Found(rs, v) == IF v.id = 0 THEN v.row = NoRow
                ELSE v.row = rs[v.id] /\ v.row # NoRow

\* What a handler under the mutex may rely on: the attendee it has read is the
\* one in the table, and a row it is about to write fits.
Ready(rs, l, j, v) ==
    /\ j.op = "submit" /\ l \in {"check", "write"} => Found(rs, v)
    /\ j.op = "submit" /\ l = "write" /\ j.status = "attending" =>
          Headcount(rs) - Contribution(v.row) + 1 + j.plus <= Cap
    /\ j.op \in {"organizer", "remove"} /\ l \in {"check", "write"} =>
          v.row = rs[v.id]
    /\ j.op = "organizer" /\ l = "write" =>
          Headcount(rs) - Contribution(v.row) + Contribution(Edited(j, v.row)) <= Cap
    /\ l = "loopHead" => v.count = Headcount(rs)
    /\ l = "loopWrite" => /\ v.row = rs[v.id]
                          /\ v.row.status = "waitlisted"
                          /\ Headcount(rs) + 1 + v.row.plus <= Cap

CapInv ==
    /\ Headcount(rows) <= Cap
    /\ \A p \in Procs : pc[p] # "idle" => DisciplinedJob(job[p])
    /\ \A p \in Procs : UnderLock(pc[p], job[p]) =>
                            mu = p /\ Ready(rows, pc[p], job[p], view[p])

\* A step of p that leaves the locals of the other goroutines alone.
Frame(p) == \A q \in Procs \ {p} :
                pc'[q] = pc[q] /\ job'[q] = job[q] /\ view'[q] = view[q]

\* Of the tables, a step writes only while p holds the mutex, and of the mutex
\* it changes only what p may change.
LEMMA OthersReady ==
    ASSUME RsvpInv, CapInv, NEW p \in Procs, Frame(p),
           rows' = rows \/ mu = p,
           \/ mu' = mu
           \/ mu = p /\ mu' = NoProc
           \/ mu = NoProc /\ mu' = p,
           NEW q \in Procs \ {p}, UnderLock(pc'[q], job'[q])
    PROVE  mu' = q /\ Ready(rows', pc'[q], job'[q], view'[q])
  <1>1. mu = q /\ Ready(rows, pc[q], job[q], view[q])
    BY DEF CapInv, Frame
  <1>2. rows' = rows /\ mu' = q
    BY <1>1, ConstantsAssumption
  <1>3. QED
    BY <1>1, <1>2 DEF Frame

\* The obligations that are left for a step of p.
LEMMA CapStep ==
    ASSUME RsvpInv, CapInv, NEW p \in Procs, Frame(p),
           rows' = rows \/ mu = p,
           \/ mu' = mu
           \/ mu = p /\ mu' = NoProc
           \/ mu = NoProc /\ mu' = p,
           Headcount(rows') <= Cap,
           pc'[p] # "idle" => DisciplinedJob(job'[p]),
           UnderLock(pc'[p], job'[p]) =>
               mu' = p /\ Ready(rows', pc'[p], job'[p], view'[p])
    PROVE  CapInv'
  <1>1. \A q \in Procs : pc'[q] # "idle" => DisciplinedJob(job'[q])
    BY DEF CapInv, Frame
  <1>2. \A q \in Procs : UnderLock(pc'[q], job'[q]) =>
                             mu' = q /\ Ready(rows', pc'[q], job'[q], view'[q])
    BY OthersReady
  <1>3. QED
    BY <1>1, <1>2 DEF CapInv

\* Returning needs nothing but the headcount.
LEMMA CapReturn ==
    ASSUME RsvpInv, CapInv, NEW p \in Procs, Return(p),
           rows' = rows \/ mu = p, Headcount(rows') <= Cap
    PROVE  CapInv'
  <1>1. Frame(p) /\ pc'[p] = "idle"
    BY DEF Return, Frame, RsvpInv, LocalsOK
  <1>2. mu' = mu \/ (mu = p /\ mu' = NoProc)
    BY DEF Return
  <1>3. QED
    BY <1>1, <1>2, CapStep DEF UnderLock

\* Going on at label l needs what the handler may rely on there.
LEMMA CapGoto ==
    ASSUME RsvpInv, CapInv, NEW p \in Procs, NEW v, NEW l,
           pc[p] \notin {"idle", "event", "lock"}, job[p].op # "import",
           Goto(p, v, l), Headcount(rows') <= Cap,
           Ready(rows', l, job[p], v)
    PROVE  CapInv'
  <1>1. Frame(p) /\ pc'[p] = l /\ view'[p] = v /\ job'[p] = job[p] /\ mu' = mu
    BY DEF Goto, Frame, RsvpInv, LocalsOK
  <1>2. mu = p /\ DisciplinedJob(job[p])
    BY DEF CapInv, UnderLock
  <1>3. QED
    BY <1>1, <1>2, CapStep

\* The statements that write, seen from the headcount.
LEMMA UpdatedHeadcount ==
    ASSUME NEW rs \in [Ids -> Row], NEW i \in Ids, NEW r \in Row,
           Headcount(rs) <= Cap,
           Headcount(rs) - Contribution(rs[i]) + Contribution(r) <= Cap
    PROVE  Headcount(Updated(rs, i, r)) <= Cap
  <1>1. Headcount([rs EXCEPT ![i] = r])
          = Headcount(rs) - Contribution(rs[i]) + Contribution(r)
    BY HeadcountExcept
  <1>2. QED
    BY <1>1 DEF Updated

\* Every event row a handler has read has the fixed capacity.
LEMMA CapFacts ==
    ASSUME RsvpInv, FixedCapacity, Previewed, Cap # Unlimited
    PROVE  /\ Cap \in Nat /\ ev.cap = Cap /\ Limited(ev)
           /\ \A p \in Procs : view[p].ev.cap = Cap /\ Limited(view[p].ev)
           /\ rows \in [Ids -> Row] /\ Headcount(rows) \in Int
  <1>1. ev \in Events /\ \A p \in Procs : view[p].ev \in Events
    BY DEF RsvpInv, TablesOK, LocalsOK, View
  <1>2. ev.cap = Cap /\ \A p \in Procs : view[p].ev.cap = Cap
    BY <1>1 DEF FixedCapacity
  <1>3. ev \in Event
    BY <1>1, ConstantsAssumption
  <1>4. Cap \in Nat
    BY <1>2, <1>3 DEF Event
  <1>5. rows \in [Ids -> Row] /\ Headcount(rows) \in Int
    BY HeadcountType DEF RsvpInv, TablesOK
  <1>6. QED
    BY <1>2, <1>4, <1>5 DEF Limited

\* Accepting a request preserves the capacity invariant.
LEMMA CapBegin ==
    ASSUME RsvpInv, CapInv, FixedCapacity, Previewed, Cap # Unlimited, Disciplined,
           NEW p \in Procs, Begin(p)
    PROVE  CapInv'
  <1>1. PICK r \in Requests : \/ SubmitBegin(p, r) \/ OrganizerBegin(p, r)
                              \/ ImportBegin(p, r)
    BY DEF Begin, Disciplined, DisciplinedJob, UpdateBegin, PromoteBegin
  <1>2. DisciplinedJob(r)
    BY DEF Disciplined
  <1>3. PICK v, l : /\ Accept(p, r, v, l)
                    /\ l = "lock" \/ r.op = "import"
    BY <1>1, CapFacts DEF SubmitBegin, OrganizerBegin, ImportBegin, LockOr
  <1>4. /\ Frame(p) /\ UNCHANGED <<rows, mu>>
        /\ pc'[p] = l /\ job'[p] = r
    BY <1>3 DEF Accept, Frame, RsvpInv, LocalsOK
  <1>5. ~UnderLock(pc'[p], job'[p])
    BY <1>3, <1>4 DEF UnderLock
  <1>6. Headcount(rows') <= Cap
    BY <1>4 DEF CapInv
  <1>7. QED
    BY <1>2, <1>4, <1>5, <1>6, CapStep

\* So does taking the mutex: nobody else is under it.
LEMMA CapLock ==
    ASSUME RsvpInv, CapInv, NEW p \in Procs, Lock(p)
    PROVE  CapInv'
  <1>1. DisciplinedJob(job[p])
    BY DEF CapInv, Lock
  <1>2. /\ Frame(p) /\ rows' = rows /\ mu = NoProc /\ mu' = p
        /\ pc'[p] = "find" /\ job'[p] = job[p]
    BY <1>1 DEF Lock, Frame, RsvpInv, LocalsOK, DisciplinedJob
  <1>3. Ready(rows', pc'[p], job'[p], view'[p])
    BY <1>2 DEF Ready
  <1>4. Headcount(rows') <= Cap
    BY <1>2 DEF CapInv
  <1>5. QED
    BY <1>1, <1>2, <1>3, <1>4, CapStep

\* So do the lookup and the capacity check of SubmitRSVP.
LEMMA CapSubmitReads ==
    ASSUME RsvpInv, CapInv, FixedCapacity, Previewed, Cap # Unlimited,
           NEW p \in Procs, SubmitFind(p) \/ SubmitCheck(p)
    PROVE  CapInv'
  <1>0. /\ pc[p] \in {"find", "check"} /\ job[p].op = "submit"
        /\ rows' = rows /\ Headcount(rows') <= Cap
    BY DEF CapInv, SubmitFind, SubmitCheck, At
  <1>1. CASE Return(p)
    BY <1>0, <1>1, CapReturn
  <1>2. CASE SubmitFind(p)
    <2> DEFINE i == RowOf(rows, job[p].guest)
               v == [view[p] EXCEPT !.id = i,
                                    !.row = IF i = 0 THEN NoRow ELSE rows[i]]
               l == IF job[p].status = "attending" /\ Limited(view[p].ev)
                    THEN "check" ELSE "write"
    <2>1. Goto(p, v, l)
      BY <1>2 DEF SubmitFind
    <2>2. Found(rows, v)
      <3>1. v.id = i /\ v.row = IF i = 0 THEN NoRow ELSE rows[i]
        BY DEF RsvpInv, LocalsOK, View
      <3>2. job[p].guest \in Guests
        BY <1>0 DEF RsvpInv, LocalsOK, Good, GoodJob
      <3>3. i # 0 => rows[i].guest = job[p].guest
        BY DEF RowOf, Taken
      <3>4. i # 0 => rows[i] # NoRow
        BY <3>2, <3>3, ConstantsAssumption DEF NoRow
      <3>5. QED
        BY <3>1, <3>4 DEF Found
    <2>3. l = "write" => job[p].status # "attending"
      BY CapFacts
    <2>4. l \in {"check", "write"}
      OBVIOUS
    <2> HIDE DEF v, l
    <2>5. Ready(rows', l, job[p], v)
      BY <1>0, <2>2, <2>3, <2>4 DEF Ready
    <2>6. QED
      BY <1>0, <2>1, <2>5, CapGoto
  <1>3. CASE SubmitCheck(p) /\ ~Return(p)
    <2>1. mu = p /\ Ready(rows, pc[p], job[p], view[p]) /\ DisciplinedJob(job[p])
      BY <1>0 DEF CapInv, UnderLock
    <2>2. Found(rows, view[p])
      BY <1>0, <1>3, <2>1 DEF Ready, SubmitCheck, At
    <2>3. CASE Goto(p, view[p], "write")
               /\ ~(Headcount(rows) - Contribution(view[p].row)
                        + 1 + job[p].plus > view[p].ev.cap)
      <3>1. /\ view[p].row \in Row /\ job[p].plus \in Nat
        <4>1. Good(pc[p], job[p], view[p])
          BY DEF RsvpInv, LocalsOK
        <4>2. QED
          BY <1>0, <4>1, ConstantsAssumption DEF Good, GoodJob, View, Plus
      <3>2. Headcount(rows) - Contribution(view[p].row) + 1 + job[p].plus <= Cap
        BY <2>3, <3>1, CapFacts, ContributionType
      <3>3. Ready(rows', "write", job[p], view[p])
        BY <1>0, <2>2, <3>2 DEF Ready
      <3>4. QED
        BY <1>0, <2>3, <3>3, CapGoto
    <2>4. CASE /\ job' = [job EXCEPT ![p].status = "waitlisted"]
               /\ pc' = [pc EXCEPT ![p] = "write"]
               /\ UNCHANGED <<ev, mu, view, served>>
      <3>1. /\ Frame(p) /\ pc'[p] = "write" /\ view'[p] = view[p]
            /\ job'[p] = [job[p] EXCEPT !.status = "waitlisted"]
        BY <2>4 DEF Frame, RsvpInv, LocalsOK
      <3>2. job[p] \in Request
        <4>1. Good(pc[p], job[p], view[p])
          BY DEF RsvpInv, LocalsOK
        <4>2. QED
          BY <1>0, <4>1 DEF Good, GoodJob
      <3>3. job'[p].op = "submit" /\ job'[p].status = "waitlisted"
        BY <1>0, <3>1, <3>2 DEF Request
      <3>4. Ready(rows', pc'[p], job'[p], view'[p])
        BY <1>0, <2>2, <3>1, <3>3 DEF Ready
      <3>5. DisciplinedJob(job'[p])
        BY <3>3 DEF DisciplinedJob
      <3>6. QED
        BY <1>0, <2>1, <2>4, <3>1, <3>4, <3>5, CapStep
    <2>5. QED
      BY <1>3, <2>3, <2>4 DEF SubmitCheck
  <1>4. QED
    BY <1>1, <1>2, <1>3

\* So do the lookups and checks of the organizer's handlers.
LEMMA CapEditReads ==
    ASSUME RsvpInv, CapInv, FixedCapacity, Previewed, Cap # Unlimited,
           NEW p \in Procs, AttendeeFind(p) \/ EditCheck(p)
    PROVE  CapInv'
  <1>0. /\ pc[p] \in {"find", "check"} /\ DisciplinedJob(job[p])
        /\ job[p].op \in {"organizer", "remove"}
        /\ rows' = rows /\ Headcount(rows') <= Cap
    BY DEF CapInv, AttendeeFind, EditCheck, DisciplinedJob
  <1>1. Good(pc[p], job[p], view[p]) /\ view[p] \in View
    BY DEF RsvpInv, LocalsOK
  <1>2. CASE Return(p)
    BY <1>0, <1>2, CapReturn
  <1>3. CASE AttendeeFind(p) /\ ~Return(p)
    <2> DEFINE v == [view[p] EXCEPT !.id = job[p].id, !.row = rows[job[p].id]]
               l == IF job[p].op = "remove" THEN "write" ELSE "check"
    <2>1. Goto(p, v, l)
      BY <1>3 DEF AttendeeFind
    <2>2. v.row = rows[v.id]
      BY <1>1 DEF View
    <2>3. Ready(rows', l, job[p], v)
      BY <1>0, <2>2 DEF Ready
    <2>4. QED
      BY <1>0, <2>1, <2>3, CapGoto
  <1>4. CASE EditCheck(p) /\ ~Return(p)
    <2> DEFINE a == view[p].row
               b == Edited(job[p], a)
    <2>1. Goto(p, view[p], "write") /\ job[p].op = "organizer" /\ pc[p] = "check"
      BY <1>0, <1>4 DEF EditCheck
    <2>2. a = rows[view[p].id]
      BY <1>0, <2>1 DEF CapInv, UnderLock, Ready
    <2>3. Sound(a) /\ GoodJob(job[p])
      BY <1>1, <2>1 DEF Good, UsesRow
    <2>4. a \in Row /\ Sound(b) /\ b \in Row
      BY <2>1, <2>3, EditedSound DEF Sound, Row
    <2>5. /\ Headcount(rows) \in Int /\ Cap \in Nat /\ view[p].ev.cap = Cap
          /\ Limited(view[p].ev) /\ Headcount(rows) <= Cap
      BY CapFacts DEF CapInv
    <2>6. /\ Contribution(a) \in Nat /\ Contribution(b) \in Nat
          /\ a.plus \in Nat /\ b.plus \in Nat
      BY <2>4, ContributionType
    <2>7. Headcount(rows) - Contribution(a) + Contribution(b) <= Cap
      <3>1. CASE b.status # "attending"
        BY <2>5, <2>6, <3>1 DEF Contribution
      <3>2. CASE b.status = "attending" /\ a.status = "attending"
        <4>1. job[p].plus = KeepPlus
          BY <1>0, <2>1, <3>2 DEF DisciplinedJob, Edited
        <4>2. b.plus = a.plus
          BY <3>2, <4>1 DEF Edited
        <4>3. QED
          BY <2>5, <2>6, <3>2, <4>2 DEF Contribution
      <3>3. CASE b.status = "attending" /\ a.status # "attending"
        <4>1. job[p].status = "attending"
          BY <3>3 DEF Edited
        <4>2. b.plus = IF job[p].plus = KeepPlus THEN a.plus ELSE job[p].plus
          BY <3>3, <4>1 DEF Edited
        <4>3. OrganizerSeats(job[p], a) = Contribution(b) /\ Contribution(a) = 0
          BY <3>3, <4>1, <4>2 DEF OrganizerSeats, JoinSeats, Contribution
        <4>4. Contribution(b) > 0
          BY <2>6, <3>3 DEF Contribution
        <4>5. ~(Headcount(rows) + Contribution(b) > Cap)
          BY <1>4, <2>1, <2>5, <4>3, <4>4 DEF EditCheck
        <4>6. QED
          BY <2>5, <2>6, <4>3, <4>5
      <3>4. QED
        BY <3>1, <3>2, <3>3
    <2>8. Ready(rows', "write", job[p], view[p])
      BY <1>0, <2>1, <2>2, <2>7 DEF Ready
    <2>9. QED
      BY <1>0, <2>1, <2>8, CapGoto
  <1>5. QED
    BY <1>2, <1>3, <1>4

\* So do the reads of the promotion loop.
LEMMA CapLoopReads ==
    ASSUME RsvpInv, CapInv, FixedCapacity, Previewed, Cap # Unlimited,
           NEW p \in Procs, job[p].op # "import",
           LoopEvent(p) \/ LoopStats(p) \/ LoopHead(p)
    PROVE  CapInv'
  <1>0. /\ pc[p] \in {"loopEvent", "loopStats", "loopHead"}
        /\ rows' = rows /\ Headcount(rows') <= Cap
    BY DEF CapInv, LoopEvent, LoopStats, LoopHead
  <1>1. view[p] \in View /\ Ready(rows, pc[p], job[p], view[p])
    BY <1>0 DEF RsvpInv, LocalsOK, CapInv, UnderLock
  <1>2. CASE Return(p)
    BY <1>0, <1>2, CapReturn
  <1>3. CASE LoopEvent(p) /\ ~Return(p)
    <2>1. Goto(p, [view[p] EXCEPT !.ev = ev], "loopStats")
      BY <1>3 DEF LoopEvent
    <2>2. Ready(rows', "loopStats", job[p], [view[p] EXCEPT !.ev = ev])
      BY DEF Ready
    <2>3. QED
      BY <1>0, <2>1, <2>2, CapGoto
  <1>4. CASE LoopStats(p) /\ ~Return(p)
    <2> DEFINE v == [view[p] EXCEPT !.count = Headcount(rows)]
    <2>1. Goto(p, v, "loopHead")
      BY <1>4 DEF LoopStats
    <2>2. v.count = Headcount(rows)
      BY <1>1 DEF View
    <2>3. Ready(rows', "loopHead", job[p], v)
      BY <1>0, <2>2 DEF Ready
    <2>4. QED
      BY <1>0, <2>1, <2>3, CapGoto
  <1>5. CASE LoopHead(p) /\ ~Return(p)
    <2>1. PICK i \in Ids :
            /\ FirstOf(rows, i)
            /\ ~(view[p].count + 1 + rows[i].plus > view[p].ev.cap)
            /\ Goto(p, [view[p] EXCEPT !.id = i, !.row = rows[i]], "loopWrite")
      BY <1>5 DEF LoopHead
    <2> DEFINE v == [view[p] EXCEPT !.id = i, !.row = rows[i]]
    <2>2. v.id = i /\ v.row = rows[i] /\ v.row.status = "waitlisted"
      BY <1>1, <2>1 DEF View, FirstOf, Waitlist
    <2>3. view[p].count = Headcount(rows)
      BY <1>1, <1>5 DEF Ready, LoopHead
    <2>4. Headcount(rows) + 1 + rows[i].plus <= Cap
      <3>1. rows[i] \in Row
        BY CapFacts
      <3>2. QED
        BY <2>1, <2>3, <3>1, CapFacts, ContributionType
    <2>5. Ready(rows', "loopWrite", job[p], v)
      BY <1>0, <2>2, <2>4 DEF Ready
    <2>6. QED
      BY <1>0, <2>1, <2>5, CapGoto
  <1>6. QED
    BY <1>2, <1>3, <1>4, <1>5

\* So do the writes under the mutex: what is written was checked to fit.
LEMMA CapWrites ==
    ASSUME RsvpInv, CapInv, FixedCapacity, Previewed, Cap # Unlimited, NEW p \in Procs,
           job[p].op # "import",
           \/ SubmitUpdate(p) \/ SubmitCreate(p) \/ OrganizerWrite(p)
           \/ RemoveWrite(p) \/ LoopWrite(p)
    PROVE  CapInv'
  <1>0. pc[p] \in {"write", "loopWrite"}
    BY DEF SubmitUpdate, SubmitCreate, OrganizerWrite, RemoveWrite, LoopWrite, At
  <1>1. /\ mu = p /\ Ready(rows, pc[p], job[p], view[p])
        /\ Good(pc[p], job[p], view[p])
    BY <1>0 DEF CapInv, UnderLock, RsvpInv, LocalsOK
  <1>2. /\ rows \in [Ids -> Row] /\ Headcount(rows) \in Int /\ Cap \in Nat
        /\ Headcount(rows) <= Cap
    BY CapFacts DEF CapInv
  <1>3. ASSUME Headcount(rows') <= Cap,
               Return(p) \/ Goto(p, view[p], "loopEvent")
        PROVE  CapInv'
    <2>1. CASE Return(p)
      BY <1>1, <1>3, <2>1, CapReturn
    <2>2. CASE Goto(p, view[p], "loopEvent")
      <3>1. Ready(rows', "loopEvent", job[p], view[p])
        BY DEF Ready
      <3>2. QED
        BY <1>0, <1>3, <2>2, <3>1, CapGoto
    <2>3. QED
      BY <1>3, <2>1, <2>2
  <1>4. CASE SubmitUpdate(p)
    <2> DEFINE b == [guest |-> job[p].guest, status |-> job[p].status,
                     plus |-> job[p].plus]
    <2>1. /\ view[p].id \in Ids /\ b \in Row /\ rows[view[p].id] \in Row
          /\ job[p].op = "submit" /\ pc[p] = "write"
      BY <1>1, <1>2, <1>4
         DEF SubmitUpdate, At, Good, GoodJob, View, Row, Attendee, PlusOnes
    <2>2. view[p].row = rows[view[p].id]
      BY <1>1, <1>4, <2>1 DEF Ready, Found, SubmitUpdate
    <2>3. Headcount(rows) - Contribution(rows[view[p].id]) + Contribution(b) <= Cap
      <3>1. CASE job[p].status = "attending"
        <4>1. Headcount(rows) - Contribution(rows[view[p].id]) + 1 + job[p].plus <= Cap
          BY <1>1, <2>1, <2>2, <3>1 DEF Ready
        <4>2. Contribution(b) = 1 + job[p].plus /\ b.plus \in Nat /\ b.plus = job[p].plus
          BY <2>1, <3>1, ContributionType DEF Contribution
        <4>3. Contribution(rows[view[p].id]) \in Nat
          BY <2>1, ContributionType
        <4>4. QED
          BY <1>2, <4>1, <4>2, <4>3
      <3>2. CASE job[p].status # "attending"
        BY <1>2, <2>1, <3>2, ContributionType DEF Contribution
      <3>3. QED
        BY <3>1, <3>2
    <2>4. Headcount(Updated(rows, view[p].id, b)) <= Cap
      BY <1>2, <2>1, <2>3, UpdatedHeadcount
    <2>5. QED
      BY <1>3, <1>4, <2>4 DEF SubmitUpdate
  <1>5. CASE SubmitCreate(p)
    <2> DEFINE b == [guest |-> job[p].guest, status |-> job[p].status,
                     plus |-> job[p].plus]
    <2>1. CASE rows' = rows
      BY <1>2, <1>3, <1>5, <2>1 DEF SubmitCreate
    <2>2. CASE nextId \in Ids /\ rows' = [rows EXCEPT ![nextId] = b]
      <3>1. /\ b \in Row /\ job[p].op = "submit" /\ pc[p] = "write"
            /\ view[p].id = 0
        BY <1>1, <1>5 DEF SubmitCreate, At, Good, GoodJob, Row, Attendee, PlusOnes
      <3>2. rows[nextId] = NoRow
        BY <2>2, ConstantsAssumption DEF RsvpInv, TablesOK, Ids
      <3>3. Contribution(NoRow) = 0 /\ view[p].row = NoRow
        BY <1>1, <3>1 DEF Ready, Found, Contribution, NoRow
      <3>4. Headcount(rows') = Headcount(rows) - 0 + Contribution(b)
        <4>1. Headcount(rows') = Headcount(rows) - Contribution(rows[nextId])
                                     + Contribution(b)
          <5> HIDE DEF b
          <5> QED  BY <1>2, <2>2, <3>1, HeadcountExcept
        <4>2. QED
          BY <3>2, <3>3, <4>1
      <3>5. Headcount(rows') <= Cap
        <4>1. CASE job[p].status = "attending"
          <5>1. Headcount(rows) - 0 + 1 + job[p].plus <= Cap
            BY <1>1, <3>1, <3>3, <4>1 DEF Ready
          <5>2. Contribution(b) = 1 + job[p].plus /\ b.plus \in Nat /\ b.plus = job[p].plus
            BY <3>1, <4>1, ContributionType DEF Contribution
          <5>3. QED
            BY <1>2, <3>4, <5>1, <5>2
        <4>2. CASE job[p].status # "attending"
          BY <1>2, <3>4, <4>2 DEF Contribution
        <4>3. QED
          BY <4>1, <4>2
      <3>6. QED
        BY <1>3, <1>5, <3>5 DEF SubmitCreate
    <2>3. QED
      BY <1>5, <2>1, <2>2 DEF SubmitCreate, Create
  <1>6. CASE OrganizerWrite(p)
    <2> DEFINE b == Edited(job[p], view[p].row)
    <2>1. /\ job[p].op = "organizer" /\ pc[p] = "write" /\ GoodJob(job[p])
          /\ view[p].id \in Ids /\ Sound(view[p].row)
      BY <1>1, <1>6 DEF OrganizerWrite, At, Good, UsesRow
    <2>2. b \in Row
      BY <2>1, EditedSound DEF Sound, Row
    <2>3. Headcount(rows) - Contribution(rows[view[p].id]) + Contribution(b) <= Cap
      BY <1>1, <2>1 DEF Ready
    <2>4. Headcount(Updated(rows, view[p].id, b)) <= Cap
      BY <1>2, <2>1, <2>2, <2>3, UpdatedHeadcount
    <2>5. rows' = Updated(rows, view[p].id, b)
      BY <1>6 DEF OrganizerWrite
    <2>6. Return(p) \/ Goto(p, view[p], "loopEvent")
      BY <1>6 DEF OrganizerWrite, PromoteOrReturn
    <2>7. QED
      BY <1>3, <2>4, <2>5, <2>6
  <1>7. CASE RemoveWrite(p)
    <2>1. view[p].id \in Ids
      BY <1>1, <1>7 DEF RemoveWrite, At, Good, UsesRow
    <2>2. Headcount(rows') = Headcount(rows) - Contribution(rows[view[p].id])
                                 + Contribution(NoRow)
      BY <1>2, <1>7, <2>1, HeadcountExcept DEF RemoveWrite, Row
    <2>3. Contribution(NoRow) = 0 /\ Contribution(rows[view[p].id]) \in Nat
      BY <1>2, <2>1, ContributionType DEF Contribution, NoRow
    <2>4. Headcount(rows') <= Cap
      BY <1>2, <2>2, <2>3
    <2>5. QED
      BY <1>3, <1>7, <2>4 DEF RemoveWrite, PromoteOrReturn
  <1>8. CASE LoopWrite(p)
    <2> DEFINE a == view[p].row
               b == Promoted(a)
    <2>1. /\ view[p].id \in Ids /\ Sound(a) /\ a = rows[view[p].id]
          /\ a.status = "waitlisted" /\ Headcount(rows) + 1 + a.plus <= Cap
      BY <1>1, <1>8 DEF LoopWrite, Good, UsesRow, Ready
    <2>2. b \in Row /\ b.status = "attending" /\ b.plus = a.plus
      BY <2>1 DEF Promoted, Sound, Row, Attendee, Statuses
    <2>3. Contribution(a) = 0 /\ Contribution(b) = 1 + a.plus /\ a.plus \in Nat
      BY <2>1, <2>2, ContributionType DEF Contribution, Sound, Row
    <2>4. Headcount(Updated(rows, view[p].id, b)) <= Cap
      <3>1. Headcount(rows) - Contribution(rows[view[p].id]) + Contribution(b) <= Cap
        BY <1>2, <2>1, <2>3
      <3>2. QED
        BY <1>2, <2>1, <2>2, <3>1, UpdatedHeadcount
    <2>5. rows' = Updated(rows, view[p].id, b)
      BY <1>8 DEF LoopWrite
    <2>6. Return(p) \/ Goto(p, view[p], "loopEvent")
      BY <1>8 DEF LoopWrite
    <2>7. QED
      BY <1>3, <2>4, <2>5, <2>6
  <1>9. QED
    BY <1>4, <1>5, <1>6, <1>7, <1>8

\* An import runs outside the mutex, but the rows it creates are pending: the
\* handler under the mutex still sees the attendee it has read and the same
\* headcount.
LEMMA CapImport ==
    ASSUME RsvpInv, CapInv, FixedCapacity, Previewed, Cap # Unlimited, NEW p \in Procs,
           ImportFind(p) \/ ImportWrite(p)
    PROVE  CapInv'
  <1>0. /\ job[p].op = "import" /\ pc[p] \in {"find", "write"}
        /\ Good(pc[p], job[p], view[p]) /\ view[p] \in View
    BY DEF ImportFind, ImportWrite, At, RsvpInv, LocalsOK
  <1>1. /\ mu' = mu \/ (mu = p /\ mu' = NoProc)
        /\ pc'[p] # "idle" => job'[p] = job[p]
    BY DEF ImportFind, ImportWrite, Goto, Return, Frame, RsvpInv, LocalsOK
  <1>2. Frame(p)
    BY DEF ImportFind, ImportWrite, Goto, Return, Frame, RsvpInv, LocalsOK
  <1>3. ~UnderLock(pc'[p], job'[p]) /\ (pc'[p] # "idle" => DisciplinedJob(job'[p]))
    BY <1>0, <1>1 DEF UnderLock, CapInv
  <1>4. CASE rows' = rows
    <2>1. Headcount(rows') <= Cap
      BY <1>4 DEF CapInv
    <2>2. QED
      BY <1>1, <1>2, <1>3, <1>4, <2>1, CapStep
  <1>5. CASE rows' # rows
    <2>1. PICK g \in Guests :
            /\ nextId \in Ids
            /\ rows' = [rows EXCEPT ![nextId] =
                          [guest |-> g, status |-> "pending", plus |-> job[p].plus]]
      BY <1>0, <1>5 DEF ImportFind, ImportWrite, Create, View
    <2> DEFINE b == [guest |-> g, status |-> "pending", plus |-> job[p].plus]
    <2>2. b \in Row /\ rows \in [Ids -> Row]
      BY <1>0, CapFacts DEF Good, GoodJob, Row, Attendee, Statuses, PlusOnes
    <2>3. rows[nextId] = NoRow
      BY <2>1, ConstantsAssumption DEF RsvpInv, TablesOK, Ids
    <2>4. Contribution(b) = 0 /\ Contribution(NoRow) = 0
      BY DEF Contribution, NoRow
    <2>5. Headcount(rows') = Headcount(rows)
      <3>1. Headcount(rows') = Headcount(rows) - Contribution(rows[nextId])
                                   + Contribution(b)
        <4>1. rows' = [rows EXCEPT ![nextId] = b]
          BY <2>1
        <4>2. b \in Row /\ rows \in [Ids -> Row] /\ nextId \in Ids
          BY <2>1, <2>2
        <4> HIDE DEF b
        <4>3. QED  BY <4>1, <4>2, HeadcountExcept
      <3>2. Headcount(rows) \in Int
        BY CapFacts
      <3>3. QED
        BY <2>3, <2>4, <3>1, <3>2
    <2>6. \A i \in Ids : rows[i] # NoRow => rows'[i] = rows[i]
      BY <2>1, <2>2, <2>3
    <2>7. ASSUME NEW q \in Procs \ {p}, UnderLock(pc'[q], job'[q])
          PROVE  mu' = q /\ Ready(rows', pc'[q], job'[q], view'[q])
      <3>1. mu = q /\ Ready(rows, pc[q], job[q], view[q])
        BY <1>2, <2>7 DEF CapInv, Frame
      <3>2. mu' = q
        BY <1>1, <3>1, <2>7
      <3>3. Good(pc[q], job[q], view[q]) /\ view[q] \in View
        BY DEF RsvpInv, LocalsOK
      <3>4. ASSUME \/ job[q].op \in {"organizer", "remove"} /\ pc[q] \in {"check", "write"}
                   \/ pc[q] = "loopWrite"
            PROVE  rows'[view[q].id] = rows[view[q].id]
        <4>1. view[q].id \in Ids /\ Sound(view[q].row)
          BY <1>2, <2>7, <3>3, <3>4 DEF Good, UsesRow, UnderLock, Frame
        <4>2. view[q].row # NoRow
          BY <4>1 DEF Sound, Attendee, NoRow, Statuses
        <4>3. view[q].row = rows[view[q].id]
          BY <3>1, <3>4 DEF Ready
        <4>4. QED
          BY <2>6, <4>1, <4>2, <4>3
      <3>5. ASSUME job[q].op = "submit", pc[q] \in {"check", "write"}
            PROVE  Found(rows', view[q])
        <4>1. Found(rows, view[q])
          BY <3>1, <3>5 DEF Ready
        <4>2. QED
          BY <2>6, <3>3, <4>1 DEF Found, View
      <3>6. Ready(rows', pc[q], job[q], view[q])
        BY <2>5, <3>1, <3>4, <3>5 DEF Ready
      <3>7. QED
        BY <1>2, <3>2, <3>6 DEF Frame
    <2>8. QED
      BY <1>2, <1>3, <2>5, <2>7 DEF CapInv, Frame
  <1>6. QED
    BY <1>4, <1>5

\* Every step preserves the capacity invariant.
LEMMA CapNext ==
    ASSUME FixedCapacity, Previewed, Cap # Unlimited, Disciplined
    PROVE  RsvpInv /\ CapInv /\ [Next]_vars => CapInv'
  <1> SUFFICES ASSUME RsvpInv, CapInv, [Next]_vars PROVE CapInv'
    OBVIOUS
  <1>1. ASSUME NEW p \in Procs, Begin(p) PROVE CapInv'
    BY <1>1, CapBegin
  <1>2. ASSUME NEW p \in Procs, Step(p) PROVE CapInv'
    <2>1. CASE pc[p] # "idle"
      <3>1. DisciplinedJob(job[p])
        BY <2>1 DEF CapInv
      <3>2. ~UpdateEvent(p) /\ ~UpdateWrite(p) /\ ~PromoteWrite(p)
        BY <3>1 DEF DisciplinedJob, UpdateEvent, UpdateWrite, PromoteWrite, At
      <3>3. LoopEvent(p) \/ LoopStats(p) \/ LoopHead(p) \/ LoopWrite(p)
              => job[p].op # "import"
        BY DEF RsvpInv, LocalsOK, Good, LoopEvent, LoopStats, LoopHead, LoopWrite
      <3>4. CASE Lock(p)
        BY <3>4, CapLock
      <3>5. CASE SubmitFind(p) \/ SubmitCheck(p)
        BY <3>5, CapSubmitReads
      <3>6. CASE AttendeeFind(p) \/ EditCheck(p)
        BY <3>6, CapEditReads
      <3>7. CASE LoopEvent(p) \/ LoopStats(p) \/ LoopHead(p)
        BY <3>3, <3>7, CapLoopReads
      <3>8. CASE \/ SubmitUpdate(p) \/ SubmitCreate(p) \/ OrganizerWrite(p)
                 \/ RemoveWrite(p) \/ LoopWrite(p)
        <4>1. job[p].op # "import"
          BY <3>3, <3>8 DEF SubmitUpdate, SubmitCreate, OrganizerWrite, RemoveWrite, At
        <4>2. QED
          BY <3>8, <4>1, CapWrites
      <3>9. CASE ImportFind(p) \/ ImportWrite(p)
        BY <3>9, CapImport
      <3>10. QED
        BY <1>2, <3>2, <3>4, <3>5, <3>6, <3>7, <3>8, <3>9 DEF Step
    <2>2. CASE pc[p] = "idle"
      BY <1>2, <2>2 DEF Step, Lock, SubmitFind, SubmitCheck, SubmitUpdate,
             SubmitCreate, UpdateEvent, AttendeeFind, EditCheck, UpdateWrite,
             OrganizerWrite, RemoveWrite, PromoteWrite, ImportFind, ImportWrite,
             LoopEvent, LoopStats, LoopHead, LoopWrite, At
    <2>3. QED
      BY <2>1, <2>2
  <1>3. ASSUME NEW p \in Procs, Fail(p) PROVE CapInv'
    BY <1>3, CapReturn DEF Fail, CapInv
  <1>4. CASE EditEvent
    BY <1>4 DEF EditEvent, CapInv
  <1>5. CASE UNCHANGED vars
    BY <1>5 DEF vars, CapInv
  <1>6. QED
    BY <1>1, <1>2, <1>3, <1>4, <1>5 DEF Next, Done

\* The attending headcount never exceeds the capacity of an event whose
\* capacity is not changed, for any number of concurrent submissions, organizer
\* edits, removals, promotion loops and imports, failures included. Previewed is
\* needed: ExecuteCSVImport does not refuse negative plus-ones, and a seat given
\* for a negative party is one too many when that party leaves.
THEOREM CapacitySafe ==
    ASSUME FixedCapacity, Previewed, Disciplined
    PROVE  Spec => []CapacityRespected
  <1>1. CASE Cap = Unlimited
    <2>1. RsvpInv => CapacityRespected
      BY <1>1 DEF RsvpInv, TablesOK, FixedCapacity, CapacityRespected, Limited
    <2>2. QED
      BY <2>1, RsvpInvariant, PTL
  <1>2. CASE Cap # Unlimited
    <2>1. Init => CapInv
      <3> SUFFICES ASSUME Init PROVE CapInv
        OBVIOUS
      <3>1. Headcount(rows) <= Cap
        BY <1>2 DEF Init, FixedCapacity, Limited
      <3>2. QED
        BY <3>1 DEF Init, CapInv, UnderLock
    <2>2. RsvpInv /\ CapInv /\ [Next]_vars => CapInv'
      BY <1>2, CapNext
    <2>3. RsvpInv /\ CapInv => CapacityRespected
      BY DEF RsvpInv, TablesOK, CapInv, FixedCapacity, CapacityRespected
    <2>4. QED
      BY <2>1, <2>2, <2>3, RsvpInvariant, PTL DEF Spec
  <1>3. QED
    BY <1>1, <1>2

-----------------------------------------------------------------------------
(* The order of promotion                                                  *)

\* The attendee whom a loop is about to promote is the first that waits; only an
\* event with a capacity gets that far.
HeadInv ==
    \A p \in Procs : pc[p] = "loopWrite" => Cap # Unlimited /\ FirstOf(rows, view[p].id)

\* Whoever else writes while a loop is about to, adds rows that do not wait.
LEMMA WaitlistKept ==
    ASSUME RsvpInv, NEW g, NEW n, Create(g, "pending", n), NEW i, FirstOf(rows, i)
    PROVE  FirstOf(rows', i)
  <1>1. rows \in [Ids -> Row]
    BY DEF RsvpInv, TablesOK
  <1>2. CASE rows' = rows
    BY <1>2
  <1>3. CASE nextId \in Ids /\ rows' = [rows EXCEPT ![nextId] =
                                        [guest |-> g, status |-> "pending", plus |-> n]]
    <2>1. rows[nextId] = NoRow
      BY <1>3, ConstantsAssumption DEF RsvpInv, TablesOK, Ids
    <2>2. Waitlist(rows') = Waitlist(rows)
      BY <1>1, <1>3, <2>1 DEF Waitlist, NoRow
    <2>3. QED
      BY <2>2 DEF FirstOf
  <1>4. QED
    BY <1>2, <1>3 DEF Create

\* A step of p that leaves the table alone and does not go to the write.
LEMMA HeadStep ==
    ASSUME RsvpInv, HeadInv, NEW p \in Procs, UNCHANGED rows, Frame(p), pc'[p] # "loopWrite"
    PROVE  HeadInv'
  BY DEF HeadInv, Frame

\* No two requests are at the write: both would hold the mutex.
LEMMA HeadAlone ==
    ASSUME RsvpInv, CapInv, NEW p \in Procs, UnderLock(pc[p], job[p]), NEW q \in Procs \ {p}
    PROVE  pc[q] # "loopWrite"
  <1>1. SUFFICES ASSUME pc[q] = "loopWrite" PROVE FALSE
    OBVIOUS
  <1>2. job[q].op # "import"
    BY <1>1 DEF RsvpInv, LocalsOK, Good
  <1>3. UnderLock(pc[q], job[q])
    BY <1>1, <1>2 DEF UnderLock
  <1>4. QED
    BY <1>3 DEF CapInv

LEMMA HeadNext ==
    ASSUME FixedCapacity, Previewed, Cap # Unlimited, Disciplined
    PROVE  RsvpInv /\ CapInv /\ HeadInv /\ [Next]_vars => HeadInv'
  <1> SUFFICES ASSUME RsvpInv, CapInv, HeadInv, [Next]_vars PROVE HeadInv'
    OBVIOUS
  <1>0. pc \in [Procs -> Labels] /\ job \in [Procs -> Request \cup {NoJob}]
        /\ view \in [Procs -> View]
    BY DEF RsvpInv, LocalsOK
  <1>1. ASSUME NEW p \in Procs, Begin(p) \/ Lock(p) \/ SubmitFind(p) \/ SubmitCheck(p)
                 \/ AttendeeFind(p) \/ EditCheck(p) \/ UpdateEvent(p) \/ ImportFind(p)
                 \/ LoopEvent(p) \/ LoopStats(p) \/ Fail(p)
        PROVE  HeadInv'
    <2>1. CASE Begin(p)
      <3>1. PICK r \in Requests : \/ SubmitBegin(p, r) \/ UpdateBegin(p, r) \/ OrganizerBegin(p, r)
                                  \/ PromoteBegin(p, r) \/ ImportBegin(p, r)
        BY <2>1 DEF Begin
      <3>2. UNCHANGED rows /\ Frame(p) /\ pc'[p] # "loopWrite"
        BY <1>0, <3>1 DEF SubmitBegin, UpdateBegin, OrganizerBegin, PromoteBegin, ImportBegin,
               Accept, LockOr, Frame
      <3>3. QED
        BY <3>2, HeadStep
    <2>2. CASE Lock(p) \/ LoopEvent(p) \/ LoopStats(p) \/ Fail(p)
      <3>1. UNCHANGED rows /\ Frame(p) /\ pc'[p] # "loopWrite"
        BY <1>0, <2>2 DEF Lock, LoopEvent, LoopStats, Fail, Goto, Return, Frame
      <3>2. QED
        BY <3>1, HeadStep
    <2>3. CASE SubmitFind(p) \/ SubmitCheck(p)
      <3>1. UNCHANGED rows /\ Frame(p) /\ pc'[p] # "loopWrite"
        BY <1>0, <2>3 DEF SubmitFind, SubmitCheck, Goto, Return, Frame
      <3>2. QED
        BY <3>1, HeadStep
    <2>4. CASE AttendeeFind(p) \/ EditCheck(p) \/ UpdateEvent(p) \/ ImportFind(p)
      <3>1. UNCHANGED rows /\ Frame(p) /\ pc'[p] # "loopWrite"
        BY <1>0, <2>4 DEF AttendeeFind, EditCheck, UpdateEvent, ImportFind, LockOr, Goto, Return, Frame
      <3>2. QED
        BY <3>1, HeadStep
    <2>5. QED
      BY <1>1, <2>1, <2>2, <2>3, <2>4
  <1>2. ASSUME NEW p \in Procs, LoopHead(p)
        PROVE  HeadInv'
    <2>1. UNCHANGED rows /\ Frame(p)
      BY <1>0, <1>2 DEF LoopHead, Goto, Return, Frame
    <2>2. CASE Return(p)
      BY <1>0, <2>1, <2>2, HeadStep DEF Return
    <2>3. CASE ~Return(p)
      <3>1. PICK i \in Ids : FirstOf(rows, i)
                             /\ Goto(p, [view[p] EXCEPT !.id = i, !.row = rows[i]], "loopWrite")
        BY <1>2, <2>3 DEF LoopHead
      <3>2. view'[p].id = i
        BY <1>0, <3>1 DEF Goto, View
      <3>3. QED
        BY <2>1, <3>1, <3>2 DEF HeadInv, Frame
    <2>4. QED
      BY <2>2, <2>3
  <1>3. ASSUME NEW p \in Procs,
               \/ SubmitUpdate(p) \/ SubmitCreate(p) \/ OrganizerWrite(p) \/ RemoveWrite(p)
               \/ LoopWrite(p) \/ UpdateWrite(p) \/ PromoteWrite(p)
        PROVE  HeadInv'
    <2>1. pc[p] # "idle" /\ DisciplinedJob(job[p])
      BY <1>3 DEF CapInv, At, SubmitUpdate, SubmitCreate, OrganizerWrite, RemoveWrite, LoopWrite,
                  UpdateWrite, PromoteWrite
    <2>2. ~UpdateWrite(p) /\ ~PromoteWrite(p)
      BY <2>1 DEF DisciplinedJob, UpdateWrite, PromoteWrite, At
    <2>3. UnderLock(pc[p], job[p])
      BY <1>3, <2>2 DEF UnderLock, At, SubmitUpdate, SubmitCreate, OrganizerWrite, RemoveWrite, LoopWrite,
             RsvpInv, LocalsOK, Good
    <2>4. Frame(p) /\ pc'[p] # "loopWrite"
      BY <1>0, <1>3, <2>2 DEF SubmitUpdate, SubmitCreate, OrganizerWrite, RemoveWrite, LoopWrite,
             PromoteOrReturn, Goto, Return, Frame
    <2>5. \A q \in Procs : pc'[q] # "loopWrite"
      BY <2>3, <2>4, HeadAlone DEF Frame
    <2>6. QED
      BY <2>5 DEF HeadInv
  <1>4. ASSUME NEW p \in Procs, ImportWrite(p)
        PROVE  HeadInv'
    <2>1. Frame(p) /\ pc'[p] # "loopWrite"
      BY <1>0, <1>4 DEF ImportWrite, Goto, Return, Frame
    <2>2. ASSUME NEW q \in Procs, pc'[q] = "loopWrite"
          PROVE  Cap # Unlimited /\ FirstOf(rows', view'[q].id)
      <3>1. q # p /\ pc[q] = "loopWrite" /\ view'[q] = view[q]
        BY <2>1, <2>2 DEF Frame
      <3>2. FirstOf(rows, view[q].id)
        BY <3>1 DEF HeadInv
      <3>3. CASE rows' = rows
        BY <3>1, <3>2, <3>3
      <3>4. CASE \E g \in view[p].todo : Create(g, "pending", job[p].plus)
        BY <3>1, <3>2, <3>4, WaitlistKept
      <3>5. QED
        BY <1>4, <3>3, <3>4 DEF ImportWrite
    <2>3. QED
      BY <2>2 DEF HeadInv
  <1>5. CASE EditEvent \/ UNCHANGED vars
    BY <1>5 DEF EditEvent, vars, HeadInv
  <1>6. QED
    BY <1>1, <1>2, <1>3, <1>4, <1>5 DEF Next, Done, Step

\* Without a capacity no loop reads the waitlist.
LoopIdle == \A p \in Procs : pc[p] \notin {"loopStats", "loopHead", "loopWrite"}

LEMMA LoopIdleNext ==
    ASSUME FixedCapacity, Previewed, Cap = Unlimited
    PROVE  RsvpInv /\ LoopIdle /\ [Next]_vars => LoopIdle'
  <1> SUFFICES ASSUME RsvpInv, LoopIdle, [Next]_vars PROVE LoopIdle'
    OBVIOUS
  <1>0. pc \in [Procs -> Labels] /\ ~Limited(ev)
    BY DEF RsvpInv, LocalsOK, TablesOK, FixedCapacity, Limited
  <1>1. ASSUME NEW p \in Procs, NEW l,
               l \notin {"loopStats", "loopHead", "loopWrite"}, pc' = [pc EXCEPT ![p] = l]
        PROVE  LoopIdle'
    BY <1>0, <1>1 DEF LoopIdle
  <1>2. ASSUME NEW p \in Procs, Begin(p)
        PROVE  LoopIdle'
    BY <1>1, <1>2 DEF Begin, SubmitBegin, UpdateBegin, OrganizerBegin, PromoteBegin, ImportBegin,
           Accept, LockOr
  <1>3. ASSUME NEW p \in Procs,
               \/ Lock(p) \/ SubmitFind(p) \/ SubmitCheck(p) \/ SubmitUpdate(p) \/ SubmitCreate(p)
               \/ UpdateEvent(p) \/ AttendeeFind(p) \/ EditCheck(p)
        PROVE  LoopIdle'
    BY <1>1, <1>3 DEF Lock, SubmitFind, SubmitCheck, SubmitUpdate, SubmitCreate, UpdateEvent,
           AttendeeFind, EditCheck, LockOr, Goto, Return
  <1>4. ASSUME NEW p \in Procs,
               \/ UpdateWrite(p) \/ OrganizerWrite(p) \/ RemoveWrite(p) \/ PromoteWrite(p)
               \/ ImportFind(p) \/ ImportWrite(p) \/ LoopEvent(p) \/ Fail(p)
        PROVE  LoopIdle'
    BY <1>0, <1>1, <1>4 DEF UpdateWrite, OrganizerWrite, RemoveWrite, PromoteWrite, PromoteOrReturn,
           ImportFind, ImportWrite, LoopEvent, Fail, Goto, Return
  <1>5. \A p \in Procs : ~LoopStats(p) /\ ~LoopHead(p) /\ ~LoopWrite(p)
    BY DEF LoopIdle, LoopStats, LoopHead, LoopWrite
  <1>6. CASE EditEvent \/ UNCHANGED vars
    BY <1>6 DEF EditEvent, vars, LoopIdle
  <1>7. QED
    BY <1>2, <1>3, <1>4, <1>5, <1>6 DEF Next, Done, Step

\* A row that waits and then attends is written by the loop only if it is the
\* one the loop has read.
LEMMA LoopWrites ==
    ASSUME RsvpInv, [Next]_vars, NEW p \in Procs, NEW i \in Ids,
           pc[p] = "loopWrite", pc'[p] # pc[p],
           rows[i].status = "waitlisted", rows'[i].status = "attending"
    PROVE  i = view[p].id
  <1>0. pc \in [Procs -> Labels] /\ rows \in [Ids -> Row]
    BY DEF RsvpInv, LocalsOK, TablesOK
  <1>1. ASSUME NEW q \in Procs, Begin(q) PROVE q # p /\ rows' = rows
    BY <1>1 DEF Begin, SubmitBegin, UpdateBegin, OrganizerBegin, PromoteBegin, ImportBegin, Accept
  <1>2. ASSUME NEW q \in Procs, Step(q) \/ Fail(q)
        PROVE  \/ q = p
               \/ pc'[p] = pc[p]
    BY <1>0, <1>2 DEF Step, Fail, Lock, SubmitFind, SubmitCheck, SubmitUpdate,
             SubmitCreate, UpdateEvent, AttendeeFind, EditCheck, UpdateWrite,
             OrganizerWrite, RemoveWrite, PromoteWrite, PromoteOrReturn, ImportFind, ImportWrite,
             LoopEvent, LoopStats, LoopHead, LoopWrite, Goto, Return
  <1>3. Step(p) \/ rows' = rows
    BY <1>1, <1>2 DEF Next, Fail, EditEvent, Done, vars
  <1>4. rows' # rows
    BY <1>0
  <1>5. LoopWrite(p)
    BY <1>3, <1>4 DEF Step, Lock, SubmitFind, SubmitCheck, SubmitUpdate, SubmitCreate, UpdateEvent,
             AttendeeFind, EditCheck, UpdateWrite, OrganizerWrite, RemoveWrite, PromoteWrite,
             ImportFind, ImportWrite, LoopEvent, LoopStats, LoopHead, At
  <1>6. rows' = Updated(rows, view[p].id, Promoted(view[p].row))
    BY <1>5 DEF LoopWrite
  <1>7. QED
    BY <1>0, <1>6 DEF Updated

\* The promotion loop serves the waitlist in order, and only parties that fit,
\* whatever other requests do between its read of the head and its write, with
\* imports whose plus-ones the preview accepts.
THEOREM PromotedInOrder ==
    ASSUME FixedCapacity, Previewed, Disciplined
    PROVE  Spec => PromotionInOrder
  <1> DEFINE A == \A p \in Procs, i \in Ids :
                    pc[p] = "loopWrite" /\ rows[i].status = "waitlisted"
                                        /\ rows'[i].status = "attending"
                                        /\ pc'[p] # pc[p]
                      => FirstOf(rows, i) /\ Fits(rows, i, ev.cap)
  <1>1. CASE Cap = Unlimited
    <2>1. Init => LoopIdle
      BY DEF Init, LoopIdle
    <2>2. LoopIdle => A
      BY DEF LoopIdle
    <2>3. RsvpInv /\ LoopIdle /\ [Next]_vars => LoopIdle'
      BY <1>1, LoopIdleNext
    <2>4. QED
      BY <2>1, <2>2, <2>3, RsvpInvariant, PTL DEF Spec, PromotionInOrder
  <1>2. CASE Cap # Unlimited
    <2>1. Init => CapInv /\ HeadInv
      <3> SUFFICES ASSUME Init PROVE CapInv /\ HeadInv
        OBVIOUS
      <3>1. Headcount(rows) <= Cap
        BY <1>2 DEF Init, FixedCapacity, Limited
      <3>2. QED
        BY <3>1 DEF Init, CapInv, HeadInv, UnderLock
    <2>2. RsvpInv /\ CapInv /\ [Next]_vars => CapInv'
      BY <1>2, CapNext
    <2>3. RsvpInv /\ CapInv /\ HeadInv /\ [Next]_vars => HeadInv'
      BY <1>2, HeadNext
    <2>4. RsvpInv /\ CapInv /\ HeadInv /\ [Next]_vars => A
      <3> SUFFICES ASSUME RsvpInv, CapInv, HeadInv, [Next]_vars,
                          NEW p \in Procs, NEW i \in Ids,
                          pc[p] = "loopWrite", rows[i].status = "waitlisted",
                          rows'[i].status = "attending", pc'[p] # pc[p]
                   PROVE  FirstOf(rows, i) /\ Fits(rows, i, ev.cap)
        OBVIOUS
      <3>1. i = view[p].id
        BY LoopWrites
      <3>2. FirstOf(rows, i)
        BY <3>1 DEF HeadInv
      <3>3. job[p].op # "import"
        BY DEF RsvpInv, LocalsOK, Good
      <3>4. Ready(rows, pc[p], job[p], view[p])
        BY <3>3 DEF CapInv, UnderLock
      <3>5. Headcount(rows) + 1 + rows[i].plus <= Cap
        BY <3>1, <3>4 DEF Ready
      <3>6. QED
        BY <1>2, <3>2, <3>5, CapFacts DEF Fits
    <2>5. QED
      BY <2>1, <2>2, <2>3, <2>4, RsvpInvariant, PTL DEF Spec, PromotionInOrder
  <1>3. QED
    BY <1>1, <1>2

-----------------------------------------------------------------------------
(* The waitlist is drained                                                 *)
(*                                                                         *)
(* Only the promotion loop offers a seat, and it runs after organizer      *)
(* updates and removals of attending guests. So the waitlist is drained as *)
(* long as nothing else frees a seat or changes who is the first to wait.  *)

Drained(rs) == \A i \in Ids : FirstOf(rs, i) => ~Fits(rs, i, Cap)

\* The event keeps a waitlist that is drained at first; the organizer puts nobody
\* on it; no call fails.
Tended ==
    /\ ~Faults
    /\ \A e \in Events : e.waitlist
    /\ \A rs \in Population : Drained(rs)
    /\ \A r \in Requests : r.op = "organizer" => r.status # "waitlisted"

\* A step by which nobody leaves the waitlist but by promotion, and no submission
\* gives up a seat: after neither does the code run the loop.
Orderly ==
    /\ (\A p \in Procs : pc[p] = "loopWrite" => pc'[p] = "loopWrite")
          => Waitlist(rows) \subseteq Waitlist(rows')
    /\ \A p \in Procs : At(p, "submit", "write") /\ pc'[p] # "write"
          => Headcount(rows) <= Headcount(rows')

\* Who is put on the waitlist by a submission does not fit.
Put(rs, j, l, v) ==
    /\ j.op = "organizer" => j.status # "waitlisted"
    /\ j.op = "submit" /\ j.status = "waitlisted" =>
          l = "write" /\ Headcount(rs) - Contribution(v.row) + 1 + j.plus > Cap

\* Unless a loop is under way, the waitlist is drained.
TendInv ==
    /\ (\A p \in Procs : ~Looping(pc[p])) => Drained(rows)
    /\ \A p \in Procs : pc[p] # "idle" => Put(rows, job[p], pc[p], view[p])

\* A step of p that leaves the table alone.
LEMMA TendRead ==
    ASSUME TendInv, NEW p \in Procs, Frame(p), UNCHANGED rows,
           Looping(pc[p]) => Looping(pc'[p]) \/ Drained(rows),
           pc'[p] # "idle" => Put(rows', job'[p], pc'[p], view'[p])
    PROVE  TendInv'
  <1>1. (\A q \in Procs : ~Looping(pc'[q])) => Drained(rows)
    BY DEF TendInv, Frame
  <1>2. \A q \in Procs : pc'[q] # "idle" => Put(rows', job'[q], pc'[q], view'[q])
    BY DEF TendInv, Frame
  <1>3. QED
    BY <1>1, <1>2 DEF TendInv, Put

\* A step of p that writes under the mutex: nobody else is there.
LEMMA TendWrite ==
    ASSUME RsvpInv, CapInv, TendInv, NEW p \in Procs, UnderLock(pc[p], job[p]), Frame(p),
           job[p].op # "submit" \/ pc'[p] = "idle",
           \/ pc'[p] = "idle" /\ Drained(rows')
           \/ pc'[p] = "loopEvent" /\ job'[p] = job[p]
    PROVE  TendInv'
  <1>1. pc[p] # "idle"
    BY DEF UnderLock
  <1>2. (\A q \in Procs : ~Looping(pc'[q])) => Drained(rows')
    BY DEF Looping
  <1>3. ASSUME NEW q \in Procs, pc'[q] # "idle"
        PROVE  Put(rows', job'[q], pc'[q], view'[q])
    <2>1. CASE q = p
      BY <1>1, <1>3, <2>1 DEF TendInv, Put
    <2>2. CASE q # p
      <3>1. ~UnderLock(pc[q], job[q])
        BY <2>2 DEF CapInv
      <3>2. pc'[q] = pc[q] /\ job'[q] = job[q] /\ pc[q] # "idle"
        BY <1>3, <2>2 DEF Frame
      <3>3. Put(rows, job[q], pc[q], view[q])
        BY <3>2 DEF TendInv
      <3>4. ~(job[q].op = "submit" /\ job[q].status = "waitlisted")
        BY <3>1, <3>3 DEF Put, UnderLock
      <3>5. QED
        BY <3>2, <3>3, <3>4 DEF Put
    <2>3. QED
      BY <2>1, <2>2
  <1>4. QED
    BY <1>2, <1>3 DEF TendInv, Put

\* The waitlist stays drained when seats get no more and whoever comes first
\* has not come to fit.
LEMMA DrainedStays ==
    ASSUME Previewed, NEW rs \in [Ids -> Row], NEW rt \in [Ids -> Row], Cap \in Nat,
           Drained(rs), Headcount(rs) <= Headcount(rt), Waitlist(rs) \subseteq Waitlist(rt),
           \A i \in Waitlist(rt) : \/ i \in Waitlist(rs) /\ rt[i].plus = rs[i].plus
                                   \/ Headcount(rt) + 1 + rt[i].plus > Cap
    PROVE  Drained(rt)
  <1> SUFFICES ASSUME NEW i \in Ids, FirstOf(rt, i)
               PROVE  ~Fits(rt, i, Cap)
    BY DEF Drained
  <1>1. Headcount(rs) \in Int /\ Headcount(rt) \in Int /\ rs[i].plus \in Nat /\ rt[i].plus \in Nat
    BY HeadcountType, ContributionType
  <1>2. CASE i \in Waitlist(rs) /\ rt[i].plus = rs[i].plus
    <2>1. FirstOf(rs, i)
      BY <1>2 DEF FirstOf
    <2>2. ~(Headcount(rs) + 1 + rs[i].plus <= Cap)
      BY <2>1 DEF Drained, Fits
    <2>3. QED
      BY <1>1, <1>2, <2>2 DEF Fits
  <1>3. CASE Headcount(rt) + 1 + rt[i].plus > Cap
    BY <1>1, <1>3 DEF Fits
  <1>4. QED
    BY <1>2, <1>3 DEF FirstOf

\* The promotion loop ends when the first party that waits does not fit.
LEMMA LoopDrains ==
    ASSUME RsvpInv, CapInv, FixedCapacity, Previewed, Cap # Unlimited, Tended, NEW p \in Procs,
           LoopEvent(p) \/ LoopStats(p) \/ LoopHead(p)
    PROVE  \/ Looping(pc'[p]) /\ job' = job
           \/ pc'[p] = "idle" /\ Drained(rows)
  <1>1. pc \in [Procs -> Labels] /\ job[p].op # "import" /\ ev \in Events /\ pc[p] # "idle"
        /\ pc[p] \in {"loopEvent", "loopStats", "loopHead"}
    BY DEF RsvpInv, LocalsOK, TablesOK, Good, LoopEvent, LoopStats, LoopHead
  <1>2. Ready(rows, pc[p], job[p], view[p])
    BY <1>1 DEF CapInv, UnderLock
  <1>3. Cap \in Nat /\ view[p].ev.cap = Cap /\ Limited(ev) /\ ev.waitlist
        /\ rows \in [Ids -> Row] /\ Headcount(rows) \in Int
    BY <1>1, CapFacts DEF Tended
  <1>4. CASE LoopEvent(p)
    BY <1>1, <1>3, <1>4 DEF LoopEvent, Goto, Looping
  <1>5. CASE LoopStats(p)
    <2>1. CASE Headcount(rows) >= Cap
      <3>1. Drained(rows)
        BY <1>3, <2>1, ContributionType DEF Drained, Fits
      <3>2. QED
        BY <1>1, <1>3, <1>5, <2>1, <3>1 DEF LoopStats, Return
    <2>2. CASE ~(Headcount(rows) >= Cap)
      BY <1>1, <1>3, <1>5, <2>2 DEF LoopStats, Goto, Looping
    <2>3. QED
      BY <2>1, <2>2
  <1>6. CASE LoopHead(p)
    <2>1. view[p].count = Headcount(rows)
      BY <1>2, <1>6 DEF Ready, LoopHead
    <2>2. CASE Waitlist(rows) = {}
      <3>1. Drained(rows)
        BY <2>2 DEF Drained, FirstOf
      <3>2. Return(p)
        BY <1>6, <2>2 DEF LoopHead, FirstOf
      <3>3. QED
        BY <1>1, <3>1, <3>2 DEF Return
    <2>3. ASSUME NEW i \in Ids, FirstOf(rows, i), Headcount(rows) + 1 + rows[i].plus > Cap, Return(p)
          PROVE  pc'[p] = "idle" /\ Drained(rows)
      <3>1. \A j \in Ids : FirstOf(rows, j) => j = i
        BY <2>3 DEF FirstOf, Waitlist, Ids
      <3>2. rows[i].plus \in Nat
        BY <1>3, ContributionType
      <3>3. Drained(rows)
        BY <1>3, <2>3, <3>1, <3>2 DEF Drained, Fits
      <3>4. QED
        BY <1>1, <2>3, <3>3 DEF Return
    <2>4. ASSUME NEW i \in Ids, Goto(p, [view[p] EXCEPT !.id = i, !.row = rows[i]], "loopWrite")
          PROVE  Looping(pc'[p]) /\ job' = job
      BY <1>1, <2>4 DEF Goto, Looping
    <2>5. QED
      BY <1>3, <1>6, <2>1, <2>2, <2>3, <2>4 DEF LoopHead
  <1>7. QED
    BY <1>4, <1>5, <1>6

LEMMA LoopWriteTends ==
    ASSUME RsvpInv, CapInv, NEW p \in Procs, LoopWrite(p)
    PROVE  pc'[p] = "loopEvent" /\ UNCHANGED job
  <1>1. pc[p] = "loopWrite" /\ job[p].op # "import" /\ pc \in [Procs -> Labels]
        /\ Good(pc[p], job[p], view[p])
    BY DEF RsvpInv, LocalsOK, Good, LoopWrite
  <1>2. view[p].row = rows[view[p].id] /\ view[p].id \in Ids /\ Sound(view[p].row)
    BY <1>1 DEF CapInv, UnderLock, Ready, Good, UsesRow
  <1>3. Promoted(view[p].row).guest = rows[view[p].id].guest /\ rows[view[p].id] # NoRow
    BY <1>2, ConstantsAssumption DEF Promoted, Sound, Attendee, NoRow
  <1>4. ~Conflict(rows, view[p].id, Promoted(view[p].row))
    BY <1>2, <1>3 DEF Conflict, RsvpInv, TablesOK, UniqueIn
  <1>5. ~UpdateFails(rows, view[p].id, Promoted(view[p].row))
    BY <1>4 DEF UpdateFails
  <1>6. QED
    BY <1>1, <1>5 DEF LoopWrite, Goto

\* A larger party takes no fewer seats.
LEMMA HeadcountGrows ==
    ASSUME Previewed, NEW rs \in [Ids -> Row], NEW i \in Ids, NEW r \in Row,
           Contribution(rs[i]) <= Contribution(r)
    PROVE  Headcount(rs) <= Headcount([rs EXCEPT ![i] = r])
  <1>1. Headcount([rs EXCEPT ![i] = r]) = Headcount(rs) - Contribution(rs[i]) + Contribution(r)
    BY HeadcountExcept
  <1>2. Contribution(rs[i]) \in Nat /\ Contribution(r) \in Nat /\ Headcount(rs) \in Int
    BY RowPlus, HeadcountType DEF Contribution
  <1>3. QED
    BY <1>1, <1>2

\* A submission writes its row: a seat it does not give up, or a place on the
\* waitlist for a party that does not fit.
LEMMA SubmitTends ==
    ASSUME RsvpInv, CapInv, FixedCapacity, Previewed, Cap # Unlimited, TendInv, NEW p \in Procs,
           SubmitUpdate(p) \/ SubmitCreate(p),
           Headcount(rows) <= Headcount(rows'), Waitlist(rows) \subseteq Waitlist(rows'),
           rows' \in [Ids -> Row]
    PROVE  TendInv'
  <1> DEFINE b == [guest |-> job[p].guest, status |-> job[p].status, plus |-> job[p].plus]
  <1>1. /\ pc[p] = "write" /\ job[p].op = "submit" /\ Return(p)
        /\ GoodJob(job[p]) /\ pc \in [Procs -> Labels] /\ view[p].row \in Row
    BY DEF SubmitUpdate, SubmitCreate, At, RsvpInv, LocalsOK, Good, View
  <1>2. UnderLock(pc[p], job[p]) /\ pc'[p] = "idle" /\ Frame(p)
    BY <1>1 DEF UnderLock, Return, Frame
  <1>3. rows \in [Ids -> Row] /\ Cap \in Nat /\ Headcount(rows) \in Int /\ Headcount(rows') \in Int
    BY CapFacts, HeadcountType
  <1>4. ASSUME NEW q \in Procs PROVE ~Looping(pc[q])
    <2>1. CASE q = p
      BY <1>1, <2>1 DEF Looping
    <2>2. CASE q # p
      <3>1. ~UnderLock(pc[q], job[q])
        BY <1>2, <2>2 DEF CapInv
      <3>2. QED
        BY <3>1 DEF UnderLock, Looping, RsvpInv, LocalsOK, Good
    <2>3. QED
      BY <2>1, <2>2
  <1>5. Drained(rows)
    BY <1>4 DEF TendInv
  <1>6. \/ rows' = rows
        \/ \E k \in Ids : rows' = [rows EXCEPT ![k] = b]
    <2>1. CASE SubmitUpdate(p)
      <3>1. rows' = Updated(rows, view[p].id, b)
        BY <2>1 DEF SubmitUpdate
      <3>2. CASE view[p].id \in Ids
        BY <3>1, <3>2 DEF Updated
      <3>3. CASE view[p].id \notin Ids
        BY <1>3, <3>1, <3>3 DEF Updated
      <3>4. QED
        BY <3>2, <3>3
    <2>2. CASE SubmitCreate(p)
      BY <2>2 DEF SubmitCreate, Create
    <2>3. QED
      BY <2>1, <2>2
  <1>7. job[p].status = "waitlisted" =>
            Headcount(rows) - Contribution(view[p].row) + 1 + job[p].plus > Cap
    BY <1>1 DEF TendInv, Put
  <1>8. ASSUME NEW i \in Waitlist(rows')
        PROVE  \/ i \in Waitlist(rows) /\ rows'[i].plus = rows[i].plus
               \/ Headcount(rows') + 1 + rows'[i].plus > Cap
    <2>1. i \in Ids /\ rows'[i].status = "waitlisted"
      BY <1>8 DEF Waitlist
    <2>2. CASE rows'[i] = rows[i]
      BY <2>1, <2>2 DEF Waitlist
    <2>3. CASE rows'[i] # rows[i]
      <3>1. rows'[i] = b
        BY <1>3, <1>6, <2>1, <2>3
      <3>2. job[p].status = "waitlisted" /\ rows'[i].plus = job[p].plus
        BY <2>1, <3>1
      <3>3. job[p].plus \in Nat /\ Contribution(view[p].row) \in Nat
        BY <1>1, ContributionType, ConstantsAssumption DEF GoodJob, Plus
      <3>4. QED
        BY <1>3, <1>7, <3>2, <3>3
    <2>4. QED
      BY <2>2, <2>3
  <1>9. Drained(rows')
    BY <1>3, <1>5, <1>8, DrainedStays
  <1>10. QED
    BY <1>2, <1>9, TendWrite

\* The organizer's update or removal frees no seat, or starts the loop.
LEMMA EditTends ==
    ASSUME RsvpInv, CapInv, FixedCapacity, Previewed, Cap # Unlimited, TendInv, NEW p \in Procs,
           OrganizerWrite(p) \/ RemoveWrite(p), Waitlist(rows) \subseteq Waitlist(rows'),
           rows' \in [Ids -> Row]
    PROVE  TendInv'
  <1> DEFINE a == view[p].row
             k == view[p].id
  <1>1. /\ pc[p] = "write" /\ job[p].op \in {"organizer", "remove"}
        /\ GoodJob(job[p]) /\ k \in Ids /\ Sound(a) /\ pc \in [Procs -> Labels]
        /\ DisciplinedJob(job[p])
        /\ (job[p].status # "waitlisted" \/ job[p].op = "remove")
    BY DEF OrganizerWrite, RemoveWrite, At, RsvpInv, LocalsOK, Good, UsesRow, CapInv, TendInv, Put
  <1>2. UnderLock(pc[p], job[p])
    BY <1>1 DEF UnderLock
  <1>3. a = rows[k]
    BY <1>1, <1>2 DEF CapInv, Ready
  <1>4. Return(p) \/ Goto(p, view[p], "loopEvent")
    BY DEF OrganizerWrite, RemoveWrite, PromoteOrReturn
  <1>5. CASE Goto(p, view[p], "loopEvent")
    <2>1. Frame(p) /\ pc'[p] = "loopEvent" /\ job'[p] = job[p]
      BY <1>1, <1>5 DEF Goto, Frame, RsvpInv, LocalsOK
    <2>2. QED
      BY <1>1, <1>2, <2>1, TendWrite
  <1>6. CASE Return(p)
    <2>1. Frame(p) /\ pc'[p] = "idle"
      BY <1>1, <1>6 DEF Return, Frame, RsvpInv, LocalsOK
    <2>2. rows \in [Ids -> Row] /\ Cap \in Nat /\ Headcount(rows) \in Int
      BY CapFacts
    <2>3. ASSUME NEW q \in Procs PROVE ~Looping(pc[q])
      <3>1. CASE q = p
        BY <1>1, <3>1 DEF Looping
      <3>2. CASE q # p
        <4>1. ~UnderLock(pc[q], job[q])
          BY <1>2, <3>2 DEF CapInv
        <4>2. QED
          BY <4>1 DEF UnderLock, Looping, RsvpInv, LocalsOK, Good
      <3>3. QED
        BY <3>1, <3>2
    <2>4. Drained(rows)
      BY <2>3 DEF TendInv
    <2>5. PICK b \in Row : /\ rows' = rows \/ rows' = [rows EXCEPT ![k] = b]
                           /\ rows' # rows => Contribution(a) <= Contribution(b)
                           /\ b.status = "waitlisted" => a.status = "waitlisted" /\ b.plus = a.plus
      <3>1. CASE OrganizerWrite(p)
        <4> DEFINE b == Edited(job[p], a)
        <4>1. job[p].op = "organizer" /\ job[p].status # "waitlisted" /\ job[p] \in Request
          BY <1>1, <3>1 DEF OrganizerWrite, At, GoodJob
        <4>2. b \in Row
          BY <1>1, <4>1, EditedSound DEF Sound, Row
        <4>3. rows' = rows \/ rows' = [rows EXCEPT ![k] = b]
          BY <3>1 DEF OrganizerWrite, Updated
        <4>4. UpdateFails(rows, k, b) \/ ~(a.status = "attending" /\ b.status # "attending")
          <5>1. CASE UpdateFails(rows, k, b)
            BY <5>1
          <5>2. CASE ~UpdateFails(rows, k, b) /\ a.status = "attending" /\ b.status # "attending"
            <6>1. Goto(p, view[p], "loopEvent")
              BY <3>1, <5>2 DEF OrganizerWrite, PromoteOrReturn
            <6>2. QED
              BY <1>1, <2>1, <6>1 DEF Goto
          <5>3. QED
            BY <5>1, <5>2
        <4>5. UpdateFails(rows, k, b) => rows' = rows
          BY <3>1 DEF OrganizerWrite, Updated, UpdateFails
        <4>6. b.status = IF job[p].status = Keep THEN a.status ELSE job[p].status
          BY DEF Edited
        <4>7. b.status = "attending" => a.status = "attending" \/ job[p].status = "attending"
          BY <4>6
        <4>8. b.status = "attending" => job[p].status \in {Keep, "attending"}
          BY <4>6
        <4>9. job[p].status \in {Keep, "attending"} => job[p].plus = KeepPlus
          BY <1>1, <4>1 DEF DisciplinedJob
        <4>10. b.status # "declined" /\ job[p].plus = KeepPlus => b.plus = a.plus
          BY <4>6 DEF Edited
        <4>11. b.status = "waitlisted" => job[p].status = Keep /\ a.status = "waitlisted"
          BY <4>1, <4>6
        <4>12. a.plus \in Nat /\ b.plus \in Nat
          BY <1>1, <4>2, RowPlus DEF Sound, Row
        <4>13. rows' # rows => Contribution(a) <= Contribution(b)
          BY <4>4, <4>5, <4>8, <4>9, <4>10, <4>12 DEF Contribution
        <4>14. b.status = "waitlisted" => a.status = "waitlisted" /\ b.plus = a.plus
          BY <4>9, <4>10, <4>11
        <4> HIDE DEF b
        <4>15. QED
          BY <4>2, <4>3, <4>13, <4>14
      <3>2. CASE RemoveWrite(p)
        <4>1. rows' = [rows EXCEPT ![k] = NoRow]
          BY <3>2 DEF RemoveWrite
        <4>2. a.status # "attending"
          BY <1>1, <2>1, <3>2 DEF RemoveWrite, PromoteOrReturn, Goto
        <4>3. NoRow \in Row /\ NoRow.status = "none"
          BY DEF Row, NoRow
        <4>4. Contribution(a) = 0 /\ Contribution(NoRow) = 0
          BY <4>2, <4>3 DEF Contribution
        <4>5. Contribution(a) <= Contribution(NoRow)
          BY <4>4
        <4>6. NoRow.status # "waitlisted"
          BY <4>3
        <4> HIDE DEF a, k
        <4>7. QED
          BY <4>1, <4>3, <4>5, <4>6
      <3>3. QED
        BY <3>1, <3>2
    <2>6. Headcount(rows) <= Headcount(rows')
      <3>1. CASE rows' = rows
        BY <2>2, <3>1
      <3>2. CASE rows' = [rows EXCEPT ![k] = b] /\ rows' # rows
        <4>1. PICK i \in Ids : i = k
          BY <1>1
        <4>2. Contribution(rows[i]) <= Contribution(b)
          BY <1>3, <2>5, <3>2, <4>1
        <4>3. rows' = [rows EXCEPT ![i] = b]
          BY <3>2, <4>1
        <4>4. QED
          BY <2>2, <4>2, <4>3, HeadcountGrows
      <3>3. QED
        BY <2>5, <3>1, <3>2
    <2>7. ASSUME NEW i \in Waitlist(rows')
          PROVE  i \in Waitlist(rows) /\ rows'[i].plus = rows[i].plus
      <3>1. i \in Ids /\ rows'[i].status = "waitlisted"
        BY <2>7 DEF Waitlist
      <3>2. CASE rows'[i] = rows[i]
        BY <3>1, <3>2 DEF Waitlist
      <3>3. CASE rows'[i] # rows[i]
        <4>1. i = k /\ rows'[i] = b
          BY <2>2, <2>5, <3>1, <3>3
        <4>2. QED
          BY <1>3, <2>5, <3>1, <4>1 DEF Waitlist
      <3>4. QED
        BY <3>2, <3>3
    <2>8. Drained(rows')
      BY <2>2, <2>4, <2>6, <2>7, DrainedStays
    <2>9. QED
      BY <1>1, <1>2, <2>1, <2>8, TendWrite
  <1>7. QED
    BY <1>4, <1>5, <1>6

\* A step of p that neither writes nor ends a loop, with the request it had.
LEMMA TendPass ==
    ASSUME RsvpInv, TendInv, NEW p \in Procs, Frame(p), UNCHANGED rows,
           ~Looping(pc[p]), pc[p] \notin {"idle", "write"},
           pc'[p] # "idle" => job'[p] = job[p]
    PROVE  TendInv'
  <1>1. Put(rows, job[p], pc[p], view[p])
    BY DEF TendInv
  <1>2. pc'[p] # "idle" => Put(rows', job'[p], pc'[p], view'[p])
    BY <1>1 DEF Put
  <1>3. QED
    BY <1>2, TendRead

\* An import adds a row that neither attends nor waits.
LEMMA CreateTends ==
    ASSUME Previewed, RsvpInv, NEW g \in Guests, NEW n \in Plus, Create(g, "pending", n)
    PROVE  Headcount(rows') = Headcount(rows) /\ (Drained(rows) => Drained(rows'))
  <1>1. rows \in [Ids -> Row] /\ Headcount(rows) \in Int
    BY HeadcountType DEF RsvpInv, TablesOK
  <1>2. CASE rows' = rows
    BY <1>2 DEF Drained, FirstOf, Fits, Waitlist
  <1>3. CASE /\ nextId \in Ids
             /\ rows' = [rows EXCEPT ![nextId] =
                            [guest |-> g, status |-> "pending", plus |-> n]]
    <2> DEFINE b == [guest |-> g, status |-> "pending", plus |-> n]
    <2>1. rows[nextId] = NoRow
      BY <1>3, ConstantsAssumption DEF RsvpInv, TablesOK, Ids
    <2>2. b \in Row
      BY DEF Row, Attendee, Statuses, PlusOnes
    <2>3. Contribution(b) = 0 /\ Contribution(rows[nextId]) = 0
      BY <2>1 DEF Contribution, NoRow
    <2>4. Headcount(rows') = Headcount(rows)
      <3>1. rows' = [rows EXCEPT ![nextId] = b]
        BY <1>3
      <3>2. PICK i \in Ids, r \in Row : i = nextId /\ r = b
        BY <1>3, <2>2
      <3>3. Headcount(rows') = Headcount(rows) - Contribution(rows[i]) + Contribution(r)
        <4>1. rows' = [rows EXCEPT ![i] = r]
          BY <3>1, <3>2
        <4>2. QED
          BY <1>1, <4>1, HeadcountExcept
      <3>4. QED
        BY <1>1, <2>3, <3>2, <3>3
    <2>5. Waitlist(rows') = Waitlist(rows) /\ \A i \in Waitlist(rows) : rows'[i] = rows[i]
      BY <1>1, <1>3, <2>1 DEF Waitlist, NoRow
    <2>6. QED
      BY <2>4, <2>5 DEF Drained, FirstOf, Fits
  <1>4. QED
    BY <1>2, <1>3 DEF Create

\* A new request has no status that puts somebody on the waitlist.
LEMMA BeginTends ==
    ASSUME RsvpInv, TendInv, FixedCapacity, Previewed, Cap # Unlimited, Disciplined, Tended,
           NEW p \in Procs, Begin(p)
    PROVE  TendInv'
  <1>1. PICK r \in Requests : \/ SubmitBegin(p, r) \/ OrganizerBegin(p, r) \/ ImportBegin(p, r)
    BY DEF Begin, Disciplined, DisciplinedJob, UpdateBegin, PromoteBegin
  <1>2. PICK v, l : Accept(p, r, v, l)
    BY <1>1 DEF SubmitBegin, OrganizerBegin, ImportBegin
  <1>3. /\ Frame(p) /\ UNCHANGED rows /\ pc[p] = "idle"
        /\ pc'[p] = l /\ job'[p] = r /\ view'[p] = v
    BY <1>2 DEF Accept, Frame, RsvpInv, LocalsOK
  <1>4. Put(rows', r, l, v)
    <2>1. r.op = "submit" => r.status # "waitlisted"
      BY RequestsAssumption
    <2>2. r.op = "organizer" => r.status # "waitlisted"
      BY DEF Tended
    <2>3. QED
      BY <2>1, <2>2 DEF Put
  <1>5. ~Looping(pc[p])
    BY <1>3 DEF Looping
  <1>6. QED
    BY <1>3, <1>4, <1>5, TendRead

\* The capacity decision puts a party on the waitlist that does not fit.
LEMMA CheckTends ==
    ASSUME RsvpInv, TendInv, FixedCapacity, Previewed, Cap # Unlimited, NEW p \in Procs, SubmitCheck(p)
    PROVE  TendInv'
  <1>1. /\ pc[p] = "check" /\ job[p].op = "submit" /\ UNCHANGED rows
        /\ pc \in [Procs -> Labels] /\ job[p] \in Request
        /\ job \in [Procs -> Request \cup {NoJob}]
    BY DEF SubmitCheck, At, RsvpInv, LocalsOK, Good, GoodJob
  <1>2. ~Looping(pc[p])
    BY <1>1 DEF Looping
  <1>3. CASE Return(p) \/ Goto(p, view[p], "write")
    <2>1. Frame(p) /\ (pc'[p] # "idle" => job'[p] = job[p])
      BY <1>1, <1>3 DEF Return, Goto, Frame, RsvpInv, LocalsOK
    <2>2. QED
      BY <1>1, <1>2, <2>1, TendPass
  <1>4. CASE /\ job' = [job EXCEPT ![p].status = "waitlisted"]
             /\ pc' = [pc EXCEPT ![p] = "write"]
             /\ UNCHANGED <<ev, mu, view, served>>
             /\ Headcount(rows) - Contribution(view[p].row) + 1 + job[p].plus > view[p].ev.cap
    <2>1. /\ Frame(p) /\ pc'[p] = "write" /\ view'[p] = view[p]
          /\ job'[p] = [job[p] EXCEPT !.status = "waitlisted"]
      BY <1>1, <1>4 DEF Frame
    <2>2. job'[p].op = "submit" /\ job'[p].plus = job[p].plus
      BY <1>1, <2>1 DEF Request
    <2>3. view[p].ev.cap = Cap
      BY CapFacts
    <2>4. Put(rows', job'[p], pc'[p], view'[p])
      BY <1>1, <1>4, <2>1, <2>2, <2>3 DEF Put
    <2>5. QED
      BY <1>1, <1>2, <2>1, <2>4, TendRead
  <1>5. QED
    BY <1>3, <1>4 DEF SubmitCheck

\* Every orderly step preserves the invariant.
LEMMA TendNext ==
    ASSUME FixedCapacity, Previewed, Cap # Unlimited, Disciplined, Tended
    PROVE  RsvpInv /\ CapInv /\ TendInv /\ [Next]_vars /\ [Orderly]_vars => TendInv'
  <1> SUFFICES ASSUME RsvpInv, CapInv, TendInv, [Next]_vars, [Orderly]_vars PROVE TendInv'
    OBVIOUS
  <1>0. /\ pc \in [Procs -> Labels] /\ job \in [Procs -> Request \cup {NoJob}]
        /\ view \in [Procs -> View] /\ rows' \in [Ids -> Row]
    <2>1. RsvpInv'
      BY NextInv
    <2>2. QED
      BY <2>1 DEF RsvpInv, LocalsOK, TablesOK
  <1>1. ASSUME NEW p \in Procs,
               Lock(p) \/ SubmitFind(p) \/ AttendeeFind(p) \/ EditCheck(p) \/ ImportFind(p)
        PROVE  TendInv'
    <2>1. UNCHANGED rows /\ ~Looping(pc[p]) /\ pc[p] \notin {"idle", "write"}
      BY <1>1 DEF Lock, SubmitFind, AttendeeFind, EditCheck, ImportFind, At, Looping
    <2>2. Frame(p) /\ (pc'[p] # "idle" => job'[p] = job[p])
      BY <1>0, <1>1 DEF Lock, SubmitFind, AttendeeFind, EditCheck, ImportFind, Goto, Return, Frame
    <2>3. QED
      BY <2>1, <2>2, TendPass
  <1>2. ASSUME NEW p \in Procs, LoopEvent(p) \/ LoopStats(p) \/ LoopHead(p)
        PROVE  TendInv'
    <2>1. /\ pc[p] # "idle" /\ job[p].op # "submit" /\ UNCHANGED rows
      BY <1>2 DEF LoopEvent, LoopStats, LoopHead, RsvpInv, LocalsOK, Good
    <2>2. Frame(p)
      BY <1>0, <1>2 DEF LoopEvent, LoopStats, LoopHead, Goto, Return, Frame
    <2>3. \/ Looping(pc'[p]) /\ job' = job
          \/ pc'[p] = "idle" /\ Drained(rows)
      BY <1>2, LoopDrains
    <2>4. pc'[p] # "idle" => Put(rows', job'[p], pc'[p], view'[p])
      BY <2>1, <2>3 DEF TendInv, Put
    <2>5. QED
      BY <2>1, <2>2, <2>3, <2>4, TendRead
  <1>3. ASSUME NEW p \in Procs, LoopWrite(p)
        PROVE  TendInv'
    <2>1. pc'[p] = "loopEvent" /\ job' = job
      BY <1>3, LoopWriteTends
    <2>2. /\ UnderLock(pc[p], job[p]) /\ job[p].op # "submit"
      BY <1>3 DEF LoopWrite, UnderLock, RsvpInv, LocalsOK, Good
    <2>3. Frame(p)
      BY <1>0, <1>3 DEF LoopWrite, Goto, Return, Frame
    <2>4. QED
      BY <2>1, <2>2, <2>3, TendWrite
  <1>4. ASSUME NEW p \in Procs,
               SubmitUpdate(p) \/ SubmitCreate(p) \/ OrganizerWrite(p) \/ RemoveWrite(p)
        PROVE  TendInv'
    <2>1. pc[p] = "write" /\ job[p].op \in {"submit", "organizer", "remove"} /\ UnderLock(pc[p], job[p])
      BY <1>4 DEF SubmitUpdate, SubmitCreate, OrganizerWrite, RemoveWrite, At, UnderLock
    <2>2. pc'[p] # "write"
      BY <1>0, <1>4 DEF SubmitUpdate, SubmitCreate, OrganizerWrite, RemoveWrite, PromoteOrReturn,
             Return, Goto
    <2>3. Orderly
      BY <2>1, <2>2 DEF vars
    <2>4. \A q \in Procs : pc[q] # "loopWrite"
      BY <2>1, HeadAlone
    <2>5. Waitlist(rows) \subseteq Waitlist(rows')
      BY <2>3, <2>4 DEF Orderly
    <2>6. job[p].op = "submit" => Headcount(rows) <= Headcount(rows')
      BY <2>1, <2>2, <2>3 DEF Orderly, At
    <2>7. CASE SubmitUpdate(p) \/ SubmitCreate(p)
      <3>1. job[p].op = "submit"
        BY <2>7 DEF SubmitUpdate, SubmitCreate, At
      <3>2. QED
        BY <1>0, <2>5, <2>6, <2>7, <3>1, SubmitTends
    <2>8. CASE OrganizerWrite(p) \/ RemoveWrite(p)
      BY <1>0, <2>5, <2>8, EditTends
    <2>9. QED
      BY <1>4, <2>7, <2>8
  <1>5. ASSUME NEW p \in Procs, ImportWrite(p)
        PROVE  TendInv'
    <2>1. /\ job[p].op = "import" /\ pc[p] = "write" /\ Good(pc[p], job[p], view[p])
      BY <1>5 DEF ImportWrite, At, RsvpInv, LocalsOK
    <2>2. Frame(p) /\ (pc'[p] # "idle" => job'[p] = job[p]) /\ ~Looping(pc'[p])
      BY <1>0, <1>5 DEF ImportWrite, Goto, Return, Frame, Looping
    <2>3. job[p].plus \in Plus /\ view[p].todo \subseteq Guests
      BY <2>1 DEF Good, GoodJob, View, Previewed
    <2>4. PICK g \in view[p].todo : Create(g, "pending", job[p].plus)
      BY <1>5 DEF ImportWrite, Tended
    <2>5. Headcount(rows') = Headcount(rows) /\ (Drained(rows) => Drained(rows'))
      BY <2>3, <2>4, CreateTends
    <2>6. (\A q \in Procs : ~Looping(pc'[q])) => Drained(rows')
      <3>1. ~Looping(pc[p])
        BY <2>1 DEF Looping
      <3>2. QED
        BY <2>2, <2>5, <3>1 DEF TendInv, Frame
    <2>7. ASSUME NEW q \in Procs, pc'[q] # "idle"
          PROVE  Put(rows', job'[q], pc'[q], view'[q])
      <3>1. CASE q = p
        BY <2>1, <2>2, <2>7, <3>1 DEF Put
      <3>2. CASE q # p
        <4>1. Put(rows, job[q], pc[q], view[q])
          BY <2>2, <2>7, <3>2 DEF TendInv, Frame
        <4>2. QED
          BY <2>2, <2>5, <3>2, <4>1 DEF Put, Frame
      <3>3. QED
        BY <3>1, <3>2
    <2>8. QED
      BY <2>6, <2>7 DEF TendInv, Put
  <1>6. CASE EditEvent \/ UNCHANGED vars
    BY <1>6 DEF EditEvent, vars, TendInv, Drained, Put, FirstOf, Fits, Waitlist
  <1>7. ASSUME NEW p \in Procs, pc[p] # "idle"
        PROVE  ~UpdateEvent(p) /\ ~UpdateWrite(p) /\ ~PromoteWrite(p) /\ ~Fail(p)
    <2>1. DisciplinedJob(job[p])
      BY <1>7 DEF CapInv
    <2>2. QED
      BY <2>1 DEF DisciplinedJob, UpdateEvent, UpdateWrite, PromoteWrite, At, Fail, Tended
  <1>8. ASSUME NEW p \in Procs, pc[p] = "idle"
        PROVE  ~UpdateEvent(p) /\ ~UpdateWrite(p) /\ ~PromoteWrite(p) /\ ~Fail(p)
    BY <1>8 DEF UpdateEvent, UpdateWrite, PromoteWrite, At, Fail
  <1>9. QED
    BY <1>1, <1>2, <1>3, <1>4, <1>5, <1>6, <1>7, <1>8, BeginTends, CheckTends DEF Next, Done, Step

\* Whenever the mutex is free the waitlist is drained, whatever submissions,
\* organizer updates, removals and imports are under way: the loop that follows a
\* freed seat does not stop early. The hypotheses say where the code runs no loop;
\* an import with negative plus-ones is a case of it, excluded by Previewed.
THEOREM WaitlistIsDrained ==
    ASSUME FixedCapacity, Previewed, Disciplined, Tended
    PROVE  Spec /\ [][Orderly]_vars => []WaitlistDrained
  <1>1. CASE Cap = Unlimited
    <2>1. RsvpInv => WaitlistDrained
      BY <1>1 DEF RsvpInv, TablesOK, FixedCapacity, WaitlistDrained, Limited
    <2>2. QED
      BY <2>1, RsvpInvariant, PTL
  <1>2. CASE Cap # Unlimited
    <2>1. Init => CapInv /\ TendInv
      <3> SUFFICES ASSUME Init PROVE CapInv /\ TendInv
        OBVIOUS
      <3>1. Headcount(rows) <= Cap
        BY <1>2 DEF Init, FixedCapacity, Limited
      <3>2. CapInv
        BY <3>1 DEF Init, CapInv, UnderLock
      <3>3. TendInv
        BY DEF Init, Tended, TendInv
      <3>4. QED
        BY <3>2, <3>3
    <2>2. RsvpInv /\ CapInv /\ [Next]_vars => CapInv'
      BY <1>2, CapNext
    <2>3. RsvpInv /\ CapInv /\ TendInv /\ [Next]_vars /\ [Orderly]_vars => TendInv'
      BY <1>2, TendNext
    <2>4. RsvpInv /\ CapInv /\ TendInv => WaitlistDrained
      <3> SUFFICES ASSUME RsvpInv, CapInv, TendInv, mu = NoProc
                   PROVE  \A i \in Ids : FirstOf(rows, i) => ~Fits(rows, i, ev.cap)
        BY DEF WaitlistDrained
      <3>1. \A p \in Procs : ~UnderLock(pc[p], job[p])
        BY ConstantsAssumption DEF CapInv
      <3>2. \A p \in Procs : ~Looping(pc[p])
        BY <3>1 DEF UnderLock, Looping, RsvpInv, LocalsOK, Good
      <3>3. ev.cap = Cap
        BY <1>2, CapFacts
      <3>4. QED
        BY <3>2, <3>3 DEF TendInv, Drained
    <2>5. QED
      BY <2>1, <2>2, <2>3, <2>4, RsvpInvariant, PTL DEF Spec
  <1>3. QED
    BY <1>1, <1>2

-----------------------------------------------------------------------------
(* The handlers allocate seats                                             *)
(*                                                                         *)
(* Every step of the handlers is a step of SeatAllocator or none: a write  *)
(* under the mutex seats, queues or removes one party, the loop serves     *)
(* the line, and nothing else is seen from outside.                        *)

\* The organizer puts nobody on the waitlist.
Unparked == \A r \in Requests : r.op = "organizer" => r.status # "waitlisted"

\* Who is about to be put on the waitlist does not fit.
QueueInv == \A p \in Procs : pc[p] # "idle" => Put(rows, job[p], pc[p], view[p])

\* A step of p that writes nothing and keeps its request.
LEMMA QueuePass ==
    ASSUME RsvpInv, QueueInv, NEW p \in Procs, Frame(p), UNCHANGED rows,
           pc'[p] # "idle" => /\ job'[p] = job[p] /\ pc[p] # "idle"
                              /\ pc[p] = "write" => job[p].op # "submit"
    PROVE  QueueInv'
  <1>1. pc'[p] # "idle" => Put(rows', job'[p], pc'[p], view'[p])
    BY DEF QueueInv, Put
  <1>2. \A q \in Procs : pc'[q] # "idle" => Put(rows', job'[q], pc'[q], view'[q])
    BY <1>1 DEF QueueInv, Frame
  <1>3. QED
    BY <1>2 DEF QueueInv, Put

\* A step of p that writes under the mutex.
LEMMA QueueWrite ==
    ASSUME RsvpInv, CapInv, QueueInv, NEW p \in Procs, UnderLock(pc[p], job[p]), Frame(p),
           pc'[p] = "idle" \/ (job[p].op # "submit" /\ job'[p] = job[p])
    PROVE  QueueInv'
  <1>1. pc[p] # "idle"
    BY DEF UnderLock
  <1>2. ASSUME NEW q \in Procs, pc'[q] # "idle"
        PROVE  Put(rows', job'[q], pc'[q], view'[q])
    <2>1. CASE q = p
      BY <1>1, <1>2, <2>1 DEF QueueInv, Put
    <2>2. CASE q # p
      <3>1. ~UnderLock(pc[q], job[q])
        BY <2>2 DEF CapInv
      <3>2. pc'[q] = pc[q] /\ job'[q] = job[q] /\ pc[q] # "idle"
        BY <1>2, <2>2 DEF Frame
      <3>3. Put(rows, job[q], pc[q], view[q])
        BY <3>2 DEF QueueInv
      <3>4. ~(job[q].op = "submit" /\ job[q].status = "waitlisted")
        BY <3>1, <3>3 DEF Put, UnderLock
      <3>5. QED
        BY <3>2, <3>3, <3>4 DEF Put
    <2>3. QED
      BY <2>1, <2>2
  <1>3. QED
    BY <1>2 DEF QueueInv, Put

\* A new request puts nobody on the waitlist.
LEMMA QueueBegin ==
    ASSUME RsvpInv, QueueInv, Disciplined, Unparked, NEW p \in Procs, Begin(p)
    PROVE  QueueInv'
  <1>1. PICK r \in Requests : \/ SubmitBegin(p, r) \/ OrganizerBegin(p, r) \/ ImportBegin(p, r)
    BY DEF Begin, Disciplined, DisciplinedJob, UpdateBegin, PromoteBegin
  <1>2. PICK v, l : Accept(p, r, v, l)
    BY <1>1 DEF SubmitBegin, OrganizerBegin, ImportBegin
  <1>3. /\ Frame(p) /\ UNCHANGED rows
        /\ pc'[p] = l /\ job'[p] = r /\ view'[p] = v
    BY <1>2 DEF Accept, Frame, RsvpInv, LocalsOK
  <1>4. Put(rows', r, l, v)
    BY RequestsAssumption DEF Put, Unparked
  <1>5. \A q \in Procs : pc'[q] # "idle" => Put(rows', job'[q], pc'[q], view'[q])
    BY <1>3, <1>4 DEF QueueInv, Frame
  <1>6. QED
    BY <1>5 DEF QueueInv, Put

\* The capacity decision of a submission.
LEMMA QueueCheck ==
    ASSUME RsvpInv, QueueInv, FixedCapacity, Previewed, Cap # Unlimited, NEW p \in Procs, SubmitCheck(p)
    PROVE  QueueInv'
  <1>1. /\ pc[p] = "check" /\ job[p].op = "submit" /\ UNCHANGED rows
        /\ pc \in [Procs -> Labels] /\ job[p] \in Request
        /\ job \in [Procs -> Request \cup {NoJob}]
    BY DEF SubmitCheck, At, RsvpInv, LocalsOK, Good, GoodJob
  <1>2. CASE Return(p) \/ Goto(p, view[p], "write")
    <2>1. Frame(p) /\ (pc'[p] # "idle" => job'[p] = job[p])
      BY <1>1, <1>2 DEF Return, Goto, Frame, RsvpInv, LocalsOK
    <2>2. QED
      BY <1>1, <2>1, QueuePass
  <1>3. CASE /\ job' = [job EXCEPT ![p].status = "waitlisted"]
             /\ pc' = [pc EXCEPT ![p] = "write"]
             /\ UNCHANGED <<ev, mu, view, served>>
             /\ Headcount(rows) - Contribution(view[p].row) + 1 + job[p].plus > view[p].ev.cap
    <2>1. /\ Frame(p) /\ pc'[p] = "write" /\ view'[p] = view[p]
          /\ job'[p] = [job[p] EXCEPT !.status = "waitlisted"]
      BY <1>1, <1>3 DEF Frame
    <2>2. job'[p].op = "submit" /\ job'[p].plus = job[p].plus
      BY <1>1, <2>1 DEF Request
    <2>3. view[p].ev.cap = Cap
      BY CapFacts
    <2>4. Put(rows', job'[p], pc'[p], view'[p])
      BY <1>1, <1>3, <2>1, <2>2, <2>3 DEF Put
    <2>5. \A q \in Procs : pc'[q] # "idle" => Put(rows', job'[q], pc'[q], view'[q])
      BY <1>1, <2>1, <2>4 DEF QueueInv, Frame
    <2>6. QED
      BY <2>5 DEF QueueInv, Put
  <1>4. QED
    BY <1>2, <1>3 DEF SubmitCheck

\* What a step of p that reads does: the table stays, and it starts no loop.
Reads(p) == \/ Lock(p) \/ SubmitFind(p) \/ AttendeeFind(p) \/ EditCheck(p) \/ ImportFind(p)
            \/ LoopEvent(p) \/ LoopStats(p) \/ LoopHead(p) \/ Fail(p)

LEMMA ReadsOnly ==
    ASSUME RsvpInv, NEW p \in Procs, Reads(p)
    PROVE  /\ Frame(p) /\ UNCHANGED rows
           /\ pc'[p] # "idle" => job'[p] = job[p] /\ pc[p] \notin {"idle", "write"}
           /\ Looping(pc'[p]) => Looping(pc[p])
  <1>0. pc \in [Procs -> Labels] /\ job \in [Procs -> Request \cup {NoJob}]
        /\ view \in [Procs -> View]
    BY DEF RsvpInv, LocalsOK
  <1>1. CASE Lock(p) \/ Fail(p)
    BY <1>0, <1>1 DEF Lock, Fail, Return, Frame, Looping
  <1>2. CASE SubmitFind(p) \/ AttendeeFind(p)
    BY <1>0, <1>2 DEF SubmitFind, AttendeeFind, At, Goto, Return, Frame, Looping
  <1>3. CASE EditCheck(p) \/ ImportFind(p)
    BY <1>0, <1>3 DEF EditCheck, ImportFind, At, Goto, Return, Frame, Looping
  <1>4. CASE LoopEvent(p) \/ LoopStats(p) \/ LoopHead(p)
    BY <1>0, <1>4 DEF LoopEvent, LoopStats, LoopHead, Goto, Return, Frame, Looping
  <1>5. QED
    BY <1>1, <1>2, <1>3, <1>4 DEF Reads

\* The handlers' writes under the mutex.
Writes(p) == SubmitUpdate(p) \/ SubmitCreate(p) \/ OrganizerWrite(p) \/ RemoveWrite(p)

LEMMA WritesLocked ==
    ASSUME RsvpInv, NEW p \in Procs, Writes(p) \/ LoopWrite(p)
    PROVE  /\ UnderLock(pc[p], job[p]) /\ Frame(p)
           /\ pc'[p] = "idle" \/ (job[p].op # "submit" /\ job'[p] = job[p])
           /\ Writes(p) => pc[p] = "write"
           /\ LoopWrite(p) => pc[p] = "loopWrite"
  <1>0. pc \in [Procs -> Labels] /\ job \in [Procs -> Request \cup {NoJob}]
        /\ view \in [Procs -> View]
    BY DEF RsvpInv, LocalsOK
  <1>1. CASE SubmitUpdate(p) \/ SubmitCreate(p)
    BY <1>0, <1>1 DEF SubmitUpdate, SubmitCreate, At, Return, Frame, UnderLock, LoopWrite
  <1>2. CASE OrganizerWrite(p) \/ RemoveWrite(p)
    BY <1>0, <1>2 DEF OrganizerWrite, RemoveWrite, At, PromoteOrReturn, Goto, Return, Frame,
             UnderLock, LoopWrite
  <1>3. CASE LoopWrite(p)
    BY <1>0, <1>3 DEF LoopWrite, Goto, Return, Frame, UnderLock, RsvpInv, LocalsOK, Good,
             Writes, SubmitUpdate, SubmitCreate, OrganizerWrite, RemoveWrite, At
  <1>4. QED
    BY <1>1, <1>2, <1>3 DEF Writes

\* Which steps there are under the discipline.
LEMMA StepsOf ==
    ASSUME RsvpInv, CapInv, [Next]_vars
    PROVE  \/ \E p \in Procs : \/ Begin(p) \/ Reads(p) \/ SubmitCheck(p) \/ Writes(p)
                               \/ LoopWrite(p) \/ ImportWrite(p)
           \/ EditEvent \/ UNCHANGED vars
  <1>1. ASSUME NEW p \in Procs
        PROVE  ~UpdateEvent(p) /\ ~UpdateWrite(p) /\ ~PromoteWrite(p)
    <2>1. CASE pc[p] # "idle"
      <3>1. DisciplinedJob(job[p])
        BY <2>1 DEF CapInv
      <3>2. QED
        BY <3>1 DEF DisciplinedJob, UpdateEvent, UpdateWrite, PromoteWrite, At
    <2>2. CASE pc[p] = "idle"
      BY <2>2 DEF UpdateEvent, UpdateWrite, PromoteWrite, At
    <2>3. QED
      BY <2>1, <2>2
  <1>2. QED
    BY <1>1 DEF Next, Done, Step, Reads, Writes

LEMMA QueueNext ==
    ASSUME FixedCapacity, Previewed, Cap # Unlimited, Disciplined, Unparked
    PROVE  RsvpInv /\ CapInv /\ QueueInv /\ [Next]_vars => QueueInv'
  <1> SUFFICES ASSUME RsvpInv, CapInv, QueueInv, [Next]_vars PROVE QueueInv'
    OBVIOUS
  <1>1. ASSUME NEW p \in Procs, Reads(p)
        PROVE  QueueInv'
    BY <1>1, ReadsOnly, QueuePass
  <1>2. ASSUME NEW p \in Procs, Writes(p) \/ LoopWrite(p)
        PROVE  QueueInv'
    BY <1>2, WritesLocked, QueueWrite
  <1>3. ASSUME NEW p \in Procs, ImportWrite(p)
        PROVE  QueueInv'
    <2>0. pc \in [Procs -> Labels] /\ job \in [Procs -> Request \cup {NoJob}]
          /\ view \in [Procs -> View]
      BY DEF RsvpInv, LocalsOK
    <2>1. /\ job[p].op = "import" /\ pc[p] = "write" /\ Good(pc[p], job[p], view[p])
      BY <1>3 DEF ImportWrite, At, RsvpInv, LocalsOK
    <2>2. Frame(p) /\ (pc'[p] # "idle" => job'[p] = job[p])
      BY <1>3, <2>0 DEF ImportWrite, Goto, Return, Frame
    <2>3. Headcount(rows') = Headcount(rows)
      <3>1. job[p].plus \in Plus /\ view[p].todo \subseteq Guests
        BY <2>1 DEF Good, GoodJob, View, Previewed
      <3>2. CASE UNCHANGED rows
        BY <3>2
      <3>3. CASE \E g \in view[p].todo : Create(g, "pending", job[p].plus)
        BY <3>1, <3>3, CreateTends
      <3>4. QED
        BY <1>3, <3>2, <3>3 DEF ImportWrite
    <2>4. ASSUME NEW q \in Procs, pc'[q] # "idle"
          PROVE  Put(rows', job'[q], pc'[q], view'[q])
      <3>1. CASE q = p
        BY <2>1, <2>2, <2>4, <3>1 DEF Put
      <3>2. CASE q # p
        <4>1. Put(rows, job[q], pc[q], view[q])
          BY <2>2, <2>4, <3>2 DEF QueueInv, Frame
        <4>2. QED
          BY <2>2, <2>3, <3>2, <4>1 DEF Put, Frame
      <3>3. QED
        BY <3>1, <3>2
    <2>5. QED
      BY <2>4 DEF QueueInv, Put
  <1>4. CASE EditEvent \/ UNCHANGED vars
    BY <1>4 DEF EditEvent, vars, QueueInv, Put
  <1>5. QED
    BY <1>1, <1>2, <1>3, <1>4, StepsOf, QueueBegin, QueueCheck

\* The headcount is the number of seats taken.
LEMMA TotalIs ==
    ASSUME Previewed, NEW rs \in [Ids -> Row]
    PROVE  Allocator!Total(SeatsOf(rs)) = Headcount(rs)
  <1>1. 0 .. (MaxPlus + 1) - 1 = Plus
    BY ConstantsAssumption DEF Plus
  <1>2. ASSUME NEW c \in Ids \X Plus
        PROVE  c[2] < SeatsOf(rs)[c[1]] <=> rs[c[1]].status = "attending" /\ c[2] <= rs[c[1]].plus
    <2>1. c[1] \in Ids /\ c[2] \in Nat /\ rs[c[1]].plus \in Nat
      BY RowPlus, ConstantsAssumption DEF Plus
    <2>2. SeatsOf(rs)[c[1]] = Contribution(rs[c[1]])
      BY <2>1 DEF SeatsOf
    <2>3. QED
      BY <2>1, <2>2 DEF Contribution
  <1>3. Allocator!Taken(SeatsOf(rs)) = Seats(rs)
    BY <1>1, <1>2 DEF Allocator!Taken, Seats
  <1>4. Cardinality(Owed(rs)) = 0 /\ Cardinality(Seats(rs)) \in Nat
    <2>1. Owed(rs) = {}
      BY RowPlus, ConstantsAssumption DEF Owed, Plus
    <2>2. QED
      BY <2>1, FS_EmptySet, HeadcountType, FS_CardinalityType
  <1>5. Headcount(rs) = Cardinality(Seats(rs))
    BY <1>4 DEF Headcount
  <1>6. QED
    BY <1>3, <1>5 DEF Allocator!Total, Cardinality, Allocator!Cardinality

\* Writing one row puts one party.
LEMMA PutRow ==
    ASSUME NEW rs \in [Ids -> Row], NEW i \in Ids, NEW r
    PROVE  /\ SeatsOf([rs EXCEPT ![i] = r]) = [SeatsOf(rs) EXCEPT ![i] = Contribution(r)]
           /\ WantsOf([rs EXCEPT ![i] = r]) = [WantsOf(rs) EXCEPT ![i] = WaitsFor(r)]
  BY DEF SeatsOf, WantsOf

\* The sizes of the parties.
LEMMA PartySizes ==
    ASSUME Previewed, NEW r \in Row
    PROVE  /\ Contribution(r) \in 0 .. MaxPlus + 1 /\ WaitsFor(r) \in 0 .. MaxPlus + 1
           /\ r.status = "attending" => Contribution(r) \in 1 .. MaxPlus + 1 /\ WaitsFor(r) = 0
           /\ r.status = "waitlisted" => WaitsFor(r) \in 1 .. MaxPlus + 1 /\ Contribution(r) = 0
           /\ r.status \notin {"attending", "waitlisted"} => Contribution(r) = 0 /\ WaitsFor(r) = 0
  <1>1. r.plus \in 0 .. MaxPlus
    BY RowPlus
  <1>2. QED
    BY <1>1, ConstantsAssumption DEF Contribution, WaitsFor

\* A step of the allocator or none.
Allocates == [Allocator!Next]_(Allocator!vars)

\* The row of one party is written while the line is not served.
LEMMA WriteAllocates ==
    ASSUME Previewed, NEW i \in Ids, NEW r \in Row, rows \in [Ids -> Row], rows' = [rows EXCEPT ![i] = r],
           Headcount(rows') <= Cap, ~InLoop,
           \/ r.status = "attending" /\ ~InLoop'
           \/ /\ r.status = "waitlisted" /\ ~InLoop'
              /\ Headcount(rows) - Contribution(rows[i]) + 1 + r.plus > Cap
           \/ /\ r.status \notin {"attending", "waitlisted"}
              /\ InLoop' => rows[i].status = "attending"
    PROVE  Allocates
  <1>1. /\ SeatsOf(rows') = [SeatsOf(rows) EXCEPT ![i] = Contribution(r)]
        /\ WantsOf(rows') = [WantsOf(rows) EXCEPT ![i] = WaitsFor(r)]
    BY DEF SeatsOf, WantsOf
  <1>2. rows' \in [Ids -> Row] /\ rows[i] \in Row
    OBVIOUS
  <1>3. Allocator!Total(SeatsOf(rows')) <= Cap /\ Allocator!Total(SeatsOf(rows)) = Headcount(rows)
    BY <1>2, TotalIs
  <1>4. SeatsOf(rows)[i] = Contribution(rows[i])
    BY DEF SeatsOf
  <1>5. CASE r.status = "attending" /\ ~InLoop'
    <2>1. Contribution(r) \in 1 .. MaxPlus + 1 /\ WaitsFor(r) = 0
      BY <1>5, PartySizes
    <2>2. InLoop' = InLoop
      BY <1>5 DEF InLoop
    <2>3. Allocator!Seat(i, Contribution(r))
      BY <1>1, <1>3, <2>1, <2>2 DEF Allocator!Seat, Allocator!Put
    <2>4. QED
      BY <2>1, <2>3 DEF Allocates, Allocator!Next
  <1>6. CASE /\ r.status = "waitlisted" /\ ~InLoop'
             /\ Headcount(rows) - Contribution(rows[i]) + 1 + r.plus > Cap
    <2>1. WaitsFor(r) \in 1 .. MaxPlus + 1 /\ Contribution(r) = 0 /\ WaitsFor(r) = 1 + r.plus
      BY <1>6, PartySizes DEF WaitsFor
    <2>2. InLoop' = InLoop
      BY <1>6 DEF InLoop
    <2>3. Headcount(rows) - Contribution(rows[i]) + WaitsFor(r) > Cap
      <3>1. Headcount(rows) \in Int /\ Contribution(rows[i]) \in Nat /\ r.plus \in Nat
        BY <1>2, HeadcountType, ContributionType
      <3>2. QED
        BY <1>6, <2>1, <3>1
    <2>4. Allocator!Queue(i, WaitsFor(r))
      BY <1>1, <1>3, <1>4, <2>1, <2>2, <2>3 DEF Allocator!Queue, Allocator!Put
    <2>5. QED
      BY <2>1, <2>4 DEF Allocates, Allocator!Next
  <1>7. CASE /\ r.status \notin {"attending", "waitlisted"}
             /\ InLoop' => rows[i].status = "attending"
    <2>1. Contribution(r) = 0 /\ WaitsFor(r) = 0
      BY <1>7, PartySizes
    <2>2. InLoop' \in {FALSE, SeatsOf(rows)[i] > 0}
      <3>1. CASE InLoop'
        <4>1. Contribution(rows[i]) \in 1 .. MaxPlus + 1
          BY <1>2, <1>7, <3>1, PartySizes
        <4>2. SeatsOf(rows)[i] > 0
          BY <1>4, <4>1, ConstantsAssumption
        <4>3. QED
          BY <3>1, <4>2
      <3>2. CASE ~InLoop'
        BY <3>2 DEF InLoop
      <3>3. QED
        BY <3>1, <3>2
    <2>3. Allocator!Leave(i)
      BY <1>1, <2>1, <2>2 DEF Allocator!Leave, Allocator!Put
    <2>4. QED
      BY <2>3 DEF Allocates, Allocator!Next
  <1>8. QED
    BY <1>5, <1>6, <1>7

\* Nobody is seated, queued or removed.
LEMMA PassAllocates ==
    ASSUME SeatsOf(rows') = SeatsOf(rows), WantsOf(rows') = WantsOf(rows), InLoop' => InLoop
    PROVE  Allocates
  <1>1. CASE InLoop' = InLoop
    BY <1>1 DEF Allocates, Allocator!vars
  <1>2. CASE InLoop /\ ~InLoop'
    <2>1. InLoop' = FALSE
      BY <1>2
    <2>2. Allocator!StopServing
      BY <1>2, <2>1 DEF Allocator!StopServing
    <2>3. QED
      BY <2>2 DEF Allocates, Allocator!Next
  <1>3. QED
    BY <1>1, <1>2 DEF InLoop

\* A step of p alone starts a loop only at p.
LEMMA LoopFrame ==
    ASSUME NEW p \in Procs, Frame(p), Looping(pc'[p]) => Looping(pc[p])
    PROVE  InLoop' => InLoop
  BY DEF InLoop, Frame

\* A handler that writes under the mutex does so while no loop is under way.
LEMMA NoLoopBeside ==
    ASSUME RsvpInv, CapInv, NEW p \in Procs, UnderLock(pc[p], job[p]), pc[p] = "write"
    PROVE  ~InLoop
  <1> SUFFICES ASSUME NEW q \in Procs, Looping(pc[q]) PROVE FALSE
    BY DEF InLoop
  <1>1. UnderLock(pc[q], job[q])
    BY DEF Looping, UnderLock, RsvpInv, LocalsOK, Good
  <1>2. q = p
    BY <1>1 DEF CapInv
  <1>3. QED
    BY <1>2 DEF Looping


\* A submission's write: the party is seated, queued because it does not fit, or
\* gives up what it had.
LEMMA SubmitAllocates ==
    ASSUME RsvpInv, CapInv, QueueInv, CapInv', FixedCapacity, Previewed, Cap # Unlimited,
           NEW p \in Procs, SubmitUpdate(p) \/ SubmitCreate(p)
    PROVE  Allocates
  <1> DEFINE b == [guest |-> job[p].guest, status |-> job[p].status, plus |-> job[p].plus]
  <1>1. /\ pc[p] = "write" /\ job[p].op = "submit" /\ Return(p)
        /\ GoodJob(job[p]) /\ pc \in [Procs -> Labels] /\ view[p] \in View
        /\ rows \in [Ids -> Row]
    BY DEF SubmitUpdate, SubmitCreate, At, RsvpInv, LocalsOK, Good, TablesOK
  <1>2. UnderLock(pc[p], job[p]) /\ pc'[p] = "idle" /\ Frame(p)
    BY <1>1 DEF UnderLock, Return, Frame
  <1>3. ~InLoop /\ ~InLoop'
    <2>1. ~InLoop
      BY <1>1, <1>2, NoLoopBeside
    <2>2. InLoop' => InLoop
      BY <1>2, LoopFrame DEF Looping
    <2>3. QED
      BY <2>1, <2>2
  <1>4. PICK r \in Row : r = b
    BY <1>1 DEF GoodJob, Row, Attendee, PlusOnes
  <1>5. r.status = "waitlisted" => Headcount(rows) - Contribution(view[p].row) + 1 + r.plus > Cap
    BY <1>1, <1>4 DEF QueueInv, Put
  <1>6. Found(rows, view[p])
    BY <1>1, <1>2 DEF CapInv, Ready
  <1>7. \/ rows' = rows
        \/ \E k \in Ids : rows' = [rows EXCEPT ![k] = r] /\ Contribution(rows[k]) = Contribution(view[p].row)
    <2>1. CASE SubmitUpdate(p)
      <3>1. rows' = Updated(rows, view[p].id, r) /\ view[p].id \in Ids
        BY <1>1, <1>4, <2>1 DEF SubmitUpdate, View
      <3>2. view[p].row = rows[view[p].id]
        BY <1>6, <2>1 DEF Found, SubmitUpdate
      <3>3. QED
        BY <3>1, <3>2 DEF Updated
    <2>2. CASE SubmitCreate(p)
      <3>1. rows' = rows \/ (nextId \in Ids /\ rows' = [rows EXCEPT ![nextId] = r])
        BY <1>4, <2>2 DEF SubmitCreate, Create
      <3>2. nextId \in Ids => rows[nextId] = NoRow
        BY ConstantsAssumption DEF RsvpInv, TablesOK, Ids
      <3>3. view[p].row = NoRow
        BY <1>6, <2>2 DEF Found, SubmitCreate
      <3>4. QED
        BY <3>1, <3>2, <3>3
    <2>3. QED
      BY <2>1, <2>2
  <1>8. CASE rows' = rows
    BY <1>3, <1>8, PassAllocates
  <1>9. CASE rows' # rows
    <2>1. PICK k \in Ids : rows' = [rows EXCEPT ![k] = r] /\ Contribution(rows[k]) = Contribution(view[p].row)
      BY <1>7, <1>9
    <2>2. Headcount(rows') <= Cap
      BY DEF CapInv
    <2>3. r.status = "waitlisted" => Headcount(rows) - Contribution(rows[k]) + 1 + r.plus > Cap
      BY <1>5, <2>1
    <2>4. QED
      BY <1>1, <1>3, <2>1, <2>2, <2>3, WriteAllocates
  <1>10. QED
    BY <1>8, <1>9

\* The organizer's write: the party is seated, keeps waiting, or leaves, and only
\* then may the loop start.
LEMMA EditAllocates ==
    ASSUME Previewed, RsvpInv, CapInv, QueueInv, CapInv', NEW p \in Procs, OrganizerWrite(p) \/ RemoveWrite(p)
    PROVE  Allocates
  <1>1. /\ pc[p] = "write" /\ job[p].op \in {"organizer", "remove"}
        /\ GoodJob(job[p]) /\ view[p].id \in Ids /\ Sound(view[p].row) /\ pc \in [Procs -> Labels]
        /\ rows \in [Ids -> Row] /\ DisciplinedJob(job[p])
        /\ (job[p].op = "organizer" => job[p].status # "waitlisted")
    BY DEF OrganizerWrite, RemoveWrite, At, RsvpInv, LocalsOK, Good, UsesRow, CapInv, QueueInv, Put,
           TablesOK
  <1>2. UnderLock(pc[p], job[p])
    BY <1>1 DEF UnderLock
  <1>3. ~InLoop
    BY <1>1, <1>2, NoLoopBeside
  <1>4. PICK i \in Ids : i = view[p].id /\ view[p].row = rows[i]
    BY <1>1, <1>2 DEF CapInv, Ready
  <1>5. PICK freed \in BOOLEAN : PromoteOrReturn(p, freed) /\ (freed => rows[i].status = "attending")
    BY <1>4 DEF OrganizerWrite, RemoveWrite
  <1>6. Frame(p) /\ (~freed => pc'[p] = "idle")
    BY <1>1, <1>5 DEF PromoteOrReturn, Goto, Return, Frame, RsvpInv, LocalsOK
  <1>7. ~freed => ~InLoop'
    BY <1>3, <1>6, LoopFrame DEF Looping
  <1>8. Headcount(rows') <= Cap
    BY DEF CapInv
  <1>9. CASE RemoveWrite(p)
    <2>1. rows' = [rows EXCEPT ![i] = NoRow]
      BY <1>4, <1>9 DEF RemoveWrite
    <2>2. NoRow \in Row /\ NoRow.status = "none"
      BY DEF Row, NoRow
    <2>3. QED
      BY <1>1, <1>3, <1>5, <1>7, <1>8, <2>1, <2>2, WriteAllocates
  <1>10. CASE OrganizerWrite(p)
    <2>1. PICK b \in Row : b = Edited(job[p], rows[i])
      <3>1. Edited(job[p], view[p].row) \in Attendee
        BY <1>1, <1>10, EditedSound DEF OrganizerWrite, At, GoodJob, Sound
      <3>2. QED
        BY <1>4, <3>1 DEF Row
    <2>2. /\ rows' = Updated(rows, i, b)
          /\ PromoteOrReturn(p, ~UpdateFails(rows, i, b) /\ rows[i].status = "attending"
                                                         /\ b.status # "attending")
      BY <1>4, <1>10, <2>1 DEF OrganizerWrite
    <2>3. ~(~UpdateFails(rows, i, b) /\ rows[i].status = "attending" /\ b.status # "attending")
             => ~InLoop'
      <3>1. ASSUME ~(~UpdateFails(rows, i, b) /\ rows[i].status = "attending"
                                              /\ b.status # "attending")
            PROVE  pc'[p] = "idle"
        BY <1>1, <2>2, <3>1 DEF PromoteOrReturn, Return
      <3>2. QED
        BY <1>3, <1>6, <3>1, LoopFrame DEF Looping
    <2>4. b.status = "waitlisted" => rows[i].status = "waitlisted" /\ b.plus = rows[i].plus
      <3>1. b.status = IF job[p].status = Keep THEN rows[i].status ELSE job[p].status
        BY <2>1 DEF Edited
      <3>2. b.status = "waitlisted" => job[p].status = Keep
        BY <1>1, <1>10, <3>1 DEF OrganizerWrite, At
      <3>3. job[p].status = Keep => job[p].plus = KeepPlus
        BY <1>1, <1>10 DEF DisciplinedJob, OrganizerWrite, At
      <3>4. QED
        BY <2>1, <3>1, <3>2, <3>3 DEF Edited
    <2>5. CASE rows' = rows
      <3>1. ~InLoop'
        <4>1. CASE UpdateFails(rows, i, b)
          BY <2>3, <4>1
        <4>2. CASE ~UpdateFails(rows, i, b)
          <5>1. rows[i] = b \/ rows[i] = NoRow
            BY <1>1, <2>2, <2>5, <4>2 DEF Updated, UpdateFails
          <5>2. QED
            BY <2>3, <5>1 DEF NoRow
        <4>3. QED
          BY <4>1, <4>2
      <3>2. QED
        BY <2>5, <3>1, PassAllocates
    <2>6. CASE rows' = [rows EXCEPT ![i] = b] /\ b.status = "waitlisted"
      <3>1. WaitsFor(b) = WaitsFor(rows[i]) /\ Contribution(b) = Contribution(rows[i])
        BY <2>4, <2>6 DEF WaitsFor, Contribution
      <3>2. SeatsOf(rows') = SeatsOf(rows) /\ WantsOf(rows') = WantsOf(rows)
        BY <1>1, <2>6, <3>1 DEF SeatsOf, WantsOf
      <3>3. ~InLoop'
        BY <2>3, <2>4, <2>6
      <3>4. QED
        BY <3>2, <3>3, PassAllocates
    <2>7. CASE rows' = [rows EXCEPT ![i] = b] /\ b.status # "waitlisted"
      <3>1. b.status = "attending" => ~InLoop'
        BY <2>3
      <3>2. InLoop' => rows[i].status = "attending"
        BY <2>3
      <3>3. QED
        BY <1>1, <1>3, <1>8, <2>7, <3>1, <3>2, WriteAllocates
    <2>8. QED
      BY <2>2, <2>5, <2>6, <2>7 DEF Updated
  <1>11. QED
    BY <1>9, <1>10

\* The loop's write seats the first in line.
LEMMA LoopAllocates ==
    ASSUME Previewed, RsvpInv, CapInv, HeadInv, CapInv', NEW p \in Procs, LoopWrite(p)
    PROVE  Allocates
  <1>1. /\ pc[p] = "loopWrite" /\ pc \in [Procs -> Labels] /\ rows \in [Ids -> Row]
        /\ UnderLock(pc[p], job[p]) /\ Good(pc[p], job[p], view[p])
    BY DEF LoopWrite, UnderLock, RsvpInv, LocalsOK, Good, TablesOK
  <1>2. PICK i \in Ids : i = view[p].id /\ view[p].row = rows[i] /\ FirstOf(rows, i)
    BY <1>1 DEF Good, UsesRow, CapInv, Ready, HeadInv
  <1>3. PICK b \in Row : b = Promoted(rows[i])
    BY <1>1, <1>2 DEF Good, UsesRow, Sound, Promoted, Row, Attendee, Statuses
  <1>4. rows[i].status = "waitlisted" /\ b.status = "attending" /\ b.plus = rows[i].plus
    <2>1. rows[i].status = "waitlisted" /\ rows[i] \in Attendee
      BY <1>1, <1>2 DEF FirstOf, Waitlist, Good, UsesRow, Sound
    <2>2. QED
      BY <1>3, <2>1 DEF Promoted, Attendee
  <1>5. rows' = [rows EXCEPT ![i] = b]
    <2>1. b.guest = rows[i].guest /\ rows[i] # NoRow
      <3>1. rows[i] \in Attendee
        BY <1>1, <1>2 DEF Good, UsesRow, Sound
      <3>2. QED
        BY <1>3, <3>1, ConstantsAssumption DEF Promoted, Attendee, NoRow
    <2>2. ~Conflict(rows, i, b)
      BY <2>1 DEF Conflict, RsvpInv, TablesOK, UniqueIn
    <2>3. rows' = Updated(rows, i, b)
      BY <1>2, <1>3 DEF LoopWrite
    <2>4. QED
      BY <2>1, <2>2, <2>3 DEF Updated
  <1>6. InLoop /\ InLoop'
    <2>1. pc'[p] = "loopEvent"
      BY LoopWriteTends
    <2>2. QED
      BY <1>1, <2>1 DEF InLoop, Looping
  <1>7. Allocator!First(i)
    <2>1. \A j \in Ids : WantsOf(rows)[j] > 0 <=> rows[j].status = "waitlisted"
      <3>1. ASSUME NEW j \in Ids PROVE WantsOf(rows)[j] > 0 <=> rows[j].status = "waitlisted"
        <4>1. rows[j].plus \in Nat
          BY <1>1, RowPlus
        <4>2. WantsOf(rows)[j] = WaitsFor(rows[j])
          BY DEF WantsOf
        <4>3. QED
          BY <4>1, <4>2 DEF WaitsFor
      <3>2. QED
        BY <3>1
    <2>2. Allocator!Waiting = Waitlist(rows)
      BY <2>1 DEF Allocator!Waiting, Waitlist
    <2>3. QED
      BY <1>2, <2>2 DEF Allocator!First, FirstOf
  <1>8. Contribution(b) = WantsOf(rows)[i] /\ WaitsFor(b) = 0
    BY <1>4 DEF WantsOf, WaitsFor, Contribution
  <1>9. /\ SeatsOf(rows') = [SeatsOf(rows) EXCEPT ![i] = WantsOf(rows)[i]]
        /\ WantsOf(rows') = [WantsOf(rows) EXCEPT ![i] = 0]
    <2>1. /\ SeatsOf(rows') = [SeatsOf(rows) EXCEPT ![i] = Contribution(b)]
          /\ WantsOf(rows') = [WantsOf(rows) EXCEPT ![i] = WaitsFor(b)]
      BY <1>1, <1>5 DEF SeatsOf, WantsOf
    <2>2. QED
      BY <1>8, <2>1
  <1>10. Allocator!Total(SeatsOf(rows')) <= Cap
    <2>1. rows' \in [Ids -> Row]
      BY <1>1, <1>5
    <2>2. QED
      BY <2>1, TotalIs DEF CapInv
  <1>11. InLoop' = InLoop
    BY <1>6 DEF InLoop
  <1>12. Allocator!ServeFirst(i)
    BY <1>6, <1>7, <1>9, <1>10, <1>11 DEF Allocator!ServeFirst, Allocator!Put
  <1>13. QED
    BY <1>12 DEF Allocates, Allocator!Next


\* An import adds a pending row: no party is seated or queued.
LEMMA ImportAllocates ==
    ASSUME Previewed, RsvpInv, NEW p \in Procs, ImportWrite(p)
    PROVE  Allocates
  <1>1. /\ pc \in [Procs -> Labels] /\ job \in [Procs -> Request \cup {NoJob}]
        /\ view \in [Procs -> View] /\ rows \in [Ids -> Row]
    BY DEF RsvpInv, LocalsOK, TablesOK
  <1>2. Frame(p) /\ ~Looping(pc'[p])
    BY <1>1 DEF ImportWrite, At, Goto, Return, Frame, Looping
  <1>3. InLoop' => InLoop
    BY <1>2, LoopFrame
  <1>4. SeatsOf(rows') = SeatsOf(rows) /\ WantsOf(rows') = WantsOf(rows)
    <2>1. CASE rows' = rows
      BY <2>1
    <2>2. CASE rows' # rows
      <3>1. PICK g : Create(g, "pending", job[p].plus)
        BY <2>2 DEF ImportWrite
      <3>2. PICK r : nextId \in Ids /\ rows' = [rows EXCEPT ![nextId] = r] /\ r.status = "pending"
        <4>1. nextId \in Ids /\ rows' = [rows EXCEPT ![nextId] =
                                          [guest |-> g, status |-> "pending", plus |-> job[p].plus]]
          BY <2>2, <3>1 DEF Create
        <4>2. [guest |-> g, status |-> "pending", plus |-> job[p].plus].status = "pending"
          OBVIOUS
        <4>3. QED
          BY <4>1, <4>2
      <3>3. rows[nextId] = NoRow
        BY <3>2, ConstantsAssumption DEF RsvpInv, TablesOK, Ids
      <3>4. Contribution(r) = Contribution(rows[nextId]) /\ WaitsFor(r) = WaitsFor(rows[nextId])
        BY <3>2, <3>3 DEF Contribution, WaitsFor, NoRow
      <3>5. QED
        BY <1>1, <3>2, <3>4 DEF SeatsOf, WantsOf
    <2>3. QED
      BY <2>1, <2>2
  <1>5. QED
    BY <1>3, <1>4, PassAllocates

\* Accepting a request and deciding on it is not seen.
LEMMA OpeningAllocates ==
    ASSUME RsvpInv, Disciplined, NEW p \in Procs, Begin(p) \/ SubmitCheck(p)
    PROVE  Allocates
  <1>1. pc \in [Procs -> Labels] /\ job \in [Procs -> Request \cup {NoJob}]
        /\ view \in [Procs -> View]
    BY DEF RsvpInv, LocalsOK
  <1>2. UNCHANGED rows /\ Frame(p) /\ ~Looping(pc'[p])
    <2>1. CASE Begin(p)
      <3>1. PICK r, v, l : Accept(p, r, v, l) /\ l \in {"lock", "find"}
        BY <2>1 DEF Begin, Disciplined, DisciplinedJob, UpdateBegin, PromoteBegin,
                 SubmitBegin, OrganizerBegin, ImportBegin, LockOr
      <3>2. QED
        BY <1>1, <3>1 DEF Accept, Frame, Looping
    <2>2. CASE SubmitCheck(p)
      BY <1>1, <2>2 DEF SubmitCheck, Goto, Return, Frame, Looping
    <2>3. QED
      BY <2>1, <2>2
  <1>3. InLoop' => InLoop
    BY <1>2, LoopFrame
  <1>4. QED
    BY <1>2, <1>3, PassAllocates

\* Every step of the handlers is a step of the allocator or none.
LEMMA StepAllocates ==
    ASSUME FixedCapacity, Previewed, Cap # Unlimited, Disciplined, Unparked
    PROVE  RsvpInv /\ CapInv /\ HeadInv /\ QueueInv /\ [Next]_vars => Allocates
  <1> SUFFICES ASSUME RsvpInv, CapInv, HeadInv, QueueInv, [Next]_vars PROVE Allocates
    OBVIOUS
  <1>1. CapInv'
    BY CapNext
  <1>2. ASSUME NEW p \in Procs, Reads(p) PROVE Allocates
    <2>1. UNCHANGED rows /\ (InLoop' => InLoop)
      BY <1>2, ReadsOnly, LoopFrame
    <2>2. QED
      BY <2>1, PassAllocates
  <1>3. ASSUME NEW p \in Procs, Writes(p) PROVE Allocates
    BY <1>1, <1>3, SubmitAllocates, EditAllocates DEF Writes
  <1>4. ASSUME NEW p \in Procs, LoopWrite(p) PROVE Allocates
    BY <1>1, <1>4, LoopAllocates
  <1>5. ASSUME NEW p \in Procs, Begin(p) \/ SubmitCheck(p) PROVE Allocates
    BY <1>5, OpeningAllocates
  <1>6. ASSUME NEW p \in Procs, ImportWrite(p) PROVE Allocates
    BY <1>6, ImportAllocates
  <1>7. CASE EditEvent \/ UNCHANGED vars
    <2>1. UNCHANGED rows /\ (InLoop' => InLoop)
      BY <1>7 DEF EditEvent, vars, InLoop
    <2>2. QED
      BY <2>1, PassAllocates
  <1>8. QED
    BY <1>2, <1>3, <1>4, <1>5, <1>6, <1>7, StepsOf

\* The tables a behaviour starts from.
LEMMA InitAllocates ==
    ASSUME FixedCapacity, Previewed, Cap # Unlimited
    PROVE  Init => Allocator!Init
  <1> SUFFICES ASSUME Init PROVE Allocator!Init
    OBVIOUS
  <1>1. rows \in [Ids -> Row] /\ RsvpInv
    BY InitInv DEF RsvpInv, TablesOK
  <1>2. \A i \in Ids : Contribution(rows[i]) \in 0 .. MaxPlus + 1 /\ WaitsFor(rows[i]) \in 0 .. MaxPlus + 1
    BY <1>1, PartySizes
  <1>3. SeatsOf(rows) \in [Ids -> 0 .. MaxPlus + 1] /\ WantsOf(rows) \in [Ids -> 0 .. MaxPlus + 1]
    BY <1>2 DEF SeatsOf, WantsOf
  <1>4. Headcount(rows) <= Cap
    BY CapFacts, <1>1 DEF Init
  <1>5. Allocator!Total(SeatsOf(rows)) <= Cap
    BY <1>1, <1>4, TotalIs
  <1>6. InLoop = FALSE
    BY DEF Init, InLoop, Looping
  <1>7. QED
    BY <1>3, <1>5, <1>6 DEF Allocator!Init

\* The handlers, the imports with plus-ones the preview accepts and the promotion
\* loop, interleaved in any way, allocate the seats one party at a time and serve
\* the line in order.
THEOREM SeatsAreAllocated ==
    ASSUME FixedCapacity, Previewed, Cap # Unlimited, Disciplined, Unparked
    PROVE  Spec => AllocatesSeats
  <1>1. Init => CapInv /\ HeadInv /\ QueueInv
    <2> SUFFICES ASSUME Init PROVE CapInv /\ HeadInv /\ QueueInv
      OBVIOUS
    <2>1. Headcount(rows) <= Cap
      BY InitInv, CapFacts DEF Init
    <2>2. QED
      BY <2>1 DEF Init, CapInv, HeadInv, QueueInv, UnderLock
  <1>2. RsvpInv /\ CapInv /\ [Next]_vars => CapInv'
    BY CapNext
  <1>3. RsvpInv /\ CapInv /\ HeadInv /\ [Next]_vars => HeadInv'
    BY HeadNext
  <1>4. RsvpInv /\ CapInv /\ QueueInv /\ [Next]_vars => QueueInv'
    BY QueueNext
  <1>5. RsvpInv /\ CapInv /\ HeadInv /\ QueueInv /\ [Next]_vars
           => [Allocator!Next]_(Allocator!vars)
    BY StepAllocates DEF Allocates
  <1>6. Init => Allocator!Init
    BY InitAllocates
  <1>7. QED
    BY <1>1, <1>2, <1>3, <1>4, <1>5, <1>6, RsvpInvariant, PTL DEF Spec, AllocatesSeats, Allocator!Spec

=============================================================================
