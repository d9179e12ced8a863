---------------------------- MODULE SeriesProofs ----------------------------
(* Theorems about Series, for every window, calendar and number of          *)
(* requests.                                                                *)
EXTENDS Series, FiniteSetTheorems, TLAPS

IsRow(es) ==
    es = [status |-> es.status, rule |-> es.rule, limit |-> es.limit, end |-> es.end,
          version |-> es.version]

\* The locals of the job and of the request are records of these fields.
Shapes ==
    /\ job = [pc |-> job.pc, copy |-> job.copy, left |-> job.left, total |-> job.total,
              last |-> job.last, day |-> job.day]
    /\ req = [pc |-> req.pc, op |-> req.op, copy |-> req.copy, rows |-> req.rows,
              held |-> req.held, turn |-> req.turn, date |-> req.date, day |-> req.day]
    /\ IsFiniteSet(occs) /\ late \in Nat /\ served \in Nat
    /\ job.pc \in {"idle", "window", "loop"}
    /\ IsRow(series)

\* A request about a series that exists carries its status; the first request
\* creates it.
Carried ==
    /\ req.pc = "initial" => series.status = "active"
    /\ req.pc = "save" => /\ req.copy.status \in {"stopped", series.status}
                          /\ IsRow(req.copy)
    /\ served = 0 => late = 0 /\ job = NoJob /\ series = NoSeries /\ req = NoReq

\* What the job may still add after a stop: nothing before it has looked at the
\* window, then no more than it found missing.
Owed ==
    /\ job.pc = "loop" => job.left \in Int /\ job.left <= Window
    /\ series.status = "active" => late = 0
    /\ series.status # "active" /\ job.pc = "window" => late = 0
    /\ series.status # "active" /\ job.pc = "loop" => late + job.left <= Window
    /\ late <= Window

StopInv == Shapes /\ Carried /\ Owed

-----------------------------------------------------------------------------
(* Finite tables                                                           *)

\* Rewriting the rows of a finite table leaves it finite.
LEMMA RewriteFinite ==
    ASSUME NEW S, IsFiniteSet(S), NEW f, DOMAIN f = S
    PROVE  IsFiniteSet({f[c] : c \in S})
  <1> DEFINE T == {f[c] : c \in S}
  <1>1. [c \in S |-> f[c]] \in Surjection(S, T)
    BY DEF Surjection
  <1>2. QED
    BY <1>1, FS_Surjection

\* Every step keeps the table of occurrences finite.
LEMMA OccsFinite ==
    ASSUME IsFiniteSet(occs), Next
    PROVE  IsFiniteSet(occs')
  <1>1. CASE UNCHANGED occs
    BY <1>1
  <1>2. CASE \E es, d : AddOccurrence(es, d)
    <2> PICK es, d : AddOccurrence(es, d)
      BY <1>2
    <2>1. QED
      BY FS_AddElement DEF AddOccurrence
  <1>3. CASE \E new : Write(new)
    <2> PICK new : Write(new)
      BY <1>3
    <2> DEFINE f == [c \in occs |-> IF c.id = new.id THEN new ELSE c]
    <2>1. occs' = {f[c] : c \in occs}
      BY DEF Write
    <2>2. DOMAIN f = occs
      OBVIOUS
    <2> HIDE DEF f
    <2>3. QED
      BY <2>1, <2>2, RewriteFinite
  <1>5. CASE occs' \subseteq occs
    BY <1>5, FS_Subset
  <1>6. QED
    <2>1. CASE JobTurn
      BY <1>1, <1>2, <2>1 DEF JobTurn
    <2>2. CASE InitialTurn
      BY <1>1, <1>2, <2>2 DEF InitialTurn
    <2>3. CASE DeleteSeries \/ Cleanup
      BY <1>5, <2>3 DEF DeleteSeries, Found, Cleanup
    <2>4. CASE RowTurn \/ CancelFind \/ CancelWrite
      BY <1>1, <1>3, <2>4 DEF RowTurn, CancelFind, CancelWrite, Skipped
    <2>5. CASE EditWrite
      BY <1>3, <2>5 DEF EditWrite
    <2>6. QED
      BY <1>1, <2>1, <2>2, <2>3, <2>4, <2>5
      DEF Next, Generate, Serve, JobRead, JobWindow, SaveSeries, FindRows, CreateSeries,
          UpdateSeries, StopSeries, Stopped, Found, EditRead, Tick

\* The number of missing occurrences is no more than the window.
LEMMA NeededBounded ==
    ASSUME IsFiniteSet(occs)
    PROVE  Needed \in Int /\ Needed <= Window
  <1>1. IsFiniteSet(Future)
    BY FS_Subset DEF Future
  <1>2. Cardinality(Future) \in Nat
    BY <1>1, FS_CardinalityType
  <1>3. QED
    BY <1>2, ConstantsAssumption DEF Needed

-----------------------------------------------------------------------------
(* The stop                                                                *)

\* The job's steps keep the bound on what it owes.
LEMMA JobStop ==
    ASSUME StopInv, Generate
    PROVE  StopInv'
  <1> USE DEF StopInv
  <1>0. IsFiniteSet(occs')
    BY OccsFinite DEF Next, Shapes, IsRow
  <1>1. CASE JobRead
    <2>1. UNCHANGED <<series, req, late, served>> /\ series.status = "active"
          /\ job' = [pc |-> "window", copy |-> series, left |-> 0, total |-> 0, last |-> 0, day |-> 0]
      BY <1>1 DEF JobRead, NoJob, bounds
    <2>2. served # 0
      BY <2>1 DEF Carried, NoSeries
    <2>3. Shapes'
      BY <1>0, <2>1 DEF Shapes, IsRow
    <2>4. Carried'
      BY <2>1, <2>2 DEF Carried, IsRow
    <2>5. Owed'
      BY <2>1 DEF Owed
    <2>6. QED
      BY <2>3, <2>4, <2>5
  <1>2. CASE JobWindow
    <2>1. Needed \in Int /\ Needed <= Window
      BY NeededBounded DEF Shapes, IsRow
    <2>2. \/ job' = NoJob
          \/ \E t, l, d : job' = [pc |-> "loop", copy |-> job.copy, left |-> Needed,
                                  total |-> t, last |-> l, day |-> d]
      BY <1>2 DEF JobWindow, Shapes, IsRow
    <2>3. UNCHANGED <<series, occs, req, late, served>> /\ job.pc = "window"
      BY <1>2 DEF JobWindow, bounds
    <2>4. Shapes'
      BY <2>2, <2>3 DEF Shapes, IsRow, NoJob
    <2>5. Carried'
      BY <2>3 DEF Carried, NoJob
    <2>6. Owed'
      BY <2>1, <2>2, <2>3, ConstantsAssumption DEF Owed, Shapes, IsRow, NoJob
    <2>7. QED
      BY <2>4, <2>5, <2>6
  <1>3. CASE JobTurn
    <2>1. UNCHANGED <<series, req, served>> /\ job.pc = "loop"
      BY <1>3 DEF JobTurn, bounds
    <2>2. served # 0
      BY <2>1 DEF Carried, NoJob
    <2>3. CASE job' = NoJob /\ late' = late
      BY <1>0, <2>1, <2>3, ConstantsAssumption DEF Shapes, IsRow, Carried, Owed, NoJob
    <2>4. CASE \E next : AddOccurrence(job.copy, next) /\ job.left > 0
                    /\ job' = [job EXCEPT !.left = @ - 1, !.total = @ + 1, !.last = next]
      <3>1. job'.pc = "loop" /\ job'.left = job.left - 1 /\ job.left > 0
        BY <2>1, <2>4 DEF Shapes, IsRow
      <3>2. job' = [pc |-> job'.pc, copy |-> job'.copy, left |-> job'.left, total |-> job'.total,
                    last |-> job'.last, day |-> job'.day]
        BY <2>4 DEF Shapes, IsRow
      <3>3. late' = IF series.status = "stopped" THEN late + 1 ELSE late
        BY <2>4 DEF AddOccurrence
      <3>4. Shapes'
        BY <1>0, <2>1, <3>1, <3>2, <3>3 DEF Shapes, IsRow
      <3>5. Carried'
        BY <2>1, <2>2 DEF Carried
      <3>6. Owed'
        BY <2>1, <3>1, <3>3, ConstantsAssumption DEF Owed, Shapes, IsRow
      <3>7. QED
        BY <3>4, <3>5, <3>6
    <2>5. QED
      BY <1>3, <2>3, <2>4 DEF JobTurn
  <1>4. QED
    BY <1>1, <1>2, <1>3 DEF Generate

\* A request in progress keeps it: the series is stopped in one statement.
LEMMA RequestStop ==
    ASSUME StopInv, Serve
    PROVE  StopInv'
  <1> USE DEF StopInv
  <1>0. IsFiniteSet(occs')
    BY OccsFinite DEF Next, Shapes, IsRow
  <1>1. CASE InitialTurn
    <2>1. UNCHANGED <<series, job, served>> /\ req.pc = "initial"
      BY <1>1 DEF InitialTurn, bounds
    <2>2. late' = late
      BY <1>1, <2>1 DEF InitialTurn, AddOccurrence, Carried
    <2>3. \/ req' = NoReq
          \/ \E d : req' = [req EXCEPT !.turn = @ + 1, !.date = d]
      BY <1>1 DEF InitialTurn
    <2>4. Shapes'
      BY <1>0, <2>1, <2>2, <2>3 DEF Shapes, IsRow, NoReq
    <2>5. Carried'
      <3>1. served # 0
        BY <2>1 DEF Carried, NoReq
      <3>2. req'.pc \in {"idle", "initial"}
        <4>1. CASE req' = NoReq
          BY <4>1 DEF NoReq
        <4>2. ASSUME NEW d, req' = [req EXCEPT !.turn = @ + 1, !.date = d]
              PROVE  req'.pc = req.pc
          BY <4>2 DEF Shapes
        <4>3. QED
          BY <2>1, <2>3, <4>1, <4>2
      <3>3. QED
        BY <2>1, <3>1, <3>2 DEF Carried
    <2>6. QED
      BY <2>1, <2>2, <2>4, <2>5 DEF Owed
  <1>2. CASE SaveSeries
    <2>0. CASE req' = NoReq /\ UNCHANGED <<series, job, late, served>>
      <3>1. served # 0
        BY <1>2 DEF SaveSeries, Carried, NoReq
      <3>2. QED
        BY <1>0, <2>0, <3>1 DEF Shapes, IsRow, Carried, Owed, NoReq
    <2> SUFFICES ASSUME series' = req.copy, req' = [req EXCEPT !.pc = "find"]
                 PROVE  StopInv'
      BY <1>2, <2>0 DEF SaveSeries, bounds
    <2>1. UNCHANGED <<job, late, served>> /\ req.pc = "save" /\ series' = req.copy
          /\ req' = [req EXCEPT !.pc = "find"]
      BY <1>2 DEF SaveSeries, bounds
    <2>2. served # 0
      BY <2>1 DEF Carried, NoReq
    <2>3. Shapes' /\ req'.pc = "find"
      <3>1. IsRow(series')
        BY <2>1 DEF Carried
      <3>2. QED
        BY <1>0, <2>1, <3>1 DEF Shapes, IsRow
    <2>4. Carried'
      BY <2>1, <2>2, <2>3 DEF Carried
    <2>5. Owed'
      BY <2>1, ConstantsAssumption DEF Owed, Carried, Shapes, IsRow
    <2>6. QED
      BY <2>3, <2>4, <2>5
  <1>3. CASE FindRows \/ RowTurn \/ CancelFind \/ CancelWrite
    <2>1. UNCHANGED <<series, job, late, served>>
      BY <1>3 DEF FindRows, RowTurn, CancelFind, CancelWrite, bounds
    <2>2. req.pc \in {"find", "rows", "cancel"}
      BY <1>3 DEF FindRows, RowTurn, CancelFind, CancelWrite
    <2>3. \/ req' = NoReq
          \/ \E pc \in {"rows", "cancel"} : \E rs, hs :
                req' = [req EXCEPT !.pc = pc, !.rows = rs, !.held = hs]
      <3>1. CASE FindRows
        <4>1. CASE req' = [req EXCEPT !.pc = "rows", !.rows = Future]
          <5> HIDE DEF Future
          <5> DEFINE F == Future
          <5> HIDE DEF F
          <5>1. req' = [req EXCEPT !.pc = "rows", !.rows = F, !.held = req.held]
            BY <4>1 DEF Shapes, F
          <5>2. QED
            BY <5>1
        <4>2. QED
          BY <3>1, <4>1 DEF FindRows
      <3>2. ASSUME NEW rs, GoOn(rs)
            PROVE  \/ req' = NoReq
                   \/ req' = [req EXCEPT !.pc = "rows", !.rows = rs, !.held = {}]
        BY <3>2 DEF GoOn
      <3>3. CASE \E rs : GoOn(rs)
        <4> PICK rs : GoOn(rs)
          BY <3>3
        <4>1. CASE req' = NoReq
          BY <4>1
        <4>2. CASE req' = [req EXCEPT !.pc = "rows", !.rows = rs, !.held = {}]
          <5>1. \E hs : req' = [req EXCEPT !.pc = "rows", !.rows = rs, !.held = hs]
            BY <4>2
          <5>2. \E xs, hs : req' = [req EXCEPT !.pc = "rows", !.rows = xs, !.held = hs]
            BY <5>1
          <5>3. QED
            BY <5>2
        <4>3. QED
          BY <3>2, <4>1, <4>2
      <3>4. CASE RowTurn \/ CancelWrite
        BY <3>3, <3>4 DEF RowTurn, CancelWrite
      <3>5. CASE CancelFind
        <4>1. PICK o \in req.rows :
                 /\ ThroughCancel(o)
                 /\ \/ /\ \E c \in occs :
                             /\ c.id = o.id /\ c.status = "published"
                             /\ req' = [req EXCEPT !.pc = "cancel", !.rows = @ \ {o},
                                                   !.held = {[c EXCEPT !.status = "cancelled"]}]
                       /\ UNCHANGED <<occs, disturbed, faults>>
                    \/ /\ \A c \in occs : c.id = o.id => c.status # "published"
                       /\ GoOn(req.rows \ {o})
                       /\ UNCHANGED <<occs, disturbed, faults>>
                    \/ GoOn(req.rows \ {o}) /\ Skipped
          BY <3>5 DEF CancelFind
        <4>2. CASE \E c \in occs :
                      /\ c.id = o.id /\ c.status = "published"
                      /\ req' = [req EXCEPT !.pc = "cancel", !.rows = @ \ {o},
                                            !.held = {[c EXCEPT !.status = "cancelled"]}]
          <5> PICK c \in occs :
                 req' = [req EXCEPT !.pc = "cancel", !.rows = @ \ {o},
                                    !.held = {[c EXCEPT !.status = "cancelled"]}]
            BY <4>2
          <5>1. QED
            OBVIOUS
        <4>3. CASE GoOn(req.rows \ {o})
          BY <3>3, <4>3
        <4>4. QED
          BY <4>1, <4>2, <4>3
      <3>6. QED
        BY <1>3, <3>1, <3>4, <3>5
    <2>4. Shapes' /\ req'.pc \in {"idle", "rows", "cancel"}
      <3>1. CASE req' = NoReq
        BY <1>0, <2>1, <3>1 DEF Shapes, IsRow, NoReq
      <3>2. ASSUME NEW rs, NEW hs, NEW pc \in {"rows", "cancel"},
                   req' = [req EXCEPT !.pc = pc, !.rows = rs, !.held = hs]
            PROVE  Shapes' /\ req'.pc = pc
        <4>1. req' = [pc |-> pc, op |-> req.op, copy |-> req.copy, rows |-> rs, held |-> hs,
                      turn |-> req.turn, date |-> req.date, day |-> req.day]
          BY <3>2 DEF Shapes
        <4>2. QED
          BY <1>0, <2>1, <4>1 DEF Shapes, IsRow
      <3>3. QED
        BY <2>3, <3>1, <3>2
    <2>5. served # 0
      BY <2>2 DEF Carried, NoReq
    <2>6. QED
      BY <2>1, <2>4, <2>5 DEF Carried, Owed
  <1>4. QED
    BY <1>1, <1>2, <1>3 DEF Serve

\* The start of a request, and what the other components do, keep it.
LEMMA OtherStop ==
    ASSUME StopInv,
           \/ \E rule \in Rules, d \in Starts, n \in Limits, e \in Ends : CreateSeries(rule, d, n, e)
           \/ \E n \in NewLimits, e \in NewEnds : UpdateSeries(n, e)
           \/ StopSeries \/ DeleteSeries \/ EditRead \/ EditWrite \/ Cleanup \/ Tick
    PROVE  StopInv'
  <1> USE DEF StopInv
  <1>0. IsFiniteSet(occs')
    BY OccsFinite DEF Next, Shapes, IsRow
  <1>1. CASE \E rule \in Rules, d \in Starts, n \in Limits, e \in Ends : CreateSeries(rule, d, n, e)
    <2> PICK rule \in Rules, d \in Starts, n \in Limits, e \in Ends : CreateSeries(rule, d, n, e)
      BY <1>1
    <2>1. UNCHANGED <<job, late>> /\ served = 0 /\ served' = served + 1
          /\ series' = [status |-> "active", rule |-> rule, limit |-> n, end |-> e, version |-> 0]
      BY DEF CreateSeries, Begin
    <2>2. \E c, y : req' = [pc |-> "initial", op |-> "none", copy |-> c, rows |-> {},
                           held |-> {}, turn |-> 0, date |-> d, day |-> y]
      BY DEF CreateSeries, Begin, NoReq
    <2>3. late = 0 /\ job = NoJob
      BY <2>1 DEF Carried
    <2>4. Shapes'
      BY <1>0, <2>1, <2>2 DEF Shapes, IsRow
    <2>5. Carried'
      BY <2>1, <2>2 DEF Carried
    <2>6. Owed'
      BY <2>1, <2>3, ConstantsAssumption DEF Owed, NoJob
    <2>7. QED
      BY <2>4, <2>5, <2>6
  <1>2. CASE \E n \in NewLimits, e \in NewEnds : UpdateSeries(n, e)
    <2> PICK n \in NewLimits, e \in NewEnds : UpdateSeries(n, e)
      BY <1>2
    <2>1. UNCHANGED <<series, job, late>> /\ served' = served + 1 /\ series # NoSeries
      BY DEF UpdateSeries, Found, Begin
    <2>2. req' = [pc |-> "save", op |-> "update", copy |-> Edited(series, n, e), rows |-> {},
                  held |-> {}, turn |-> 0, date |-> 0, day |-> 0]
      BY DEF UpdateSeries, Found, Begin, NoReq
    <2>3. Edited(series, n, e).status = series.status /\ IsRow(Edited(series, n, e))
      <3> DEFINE l == IF n = None THEN series.limit ELSE n
                 u == IF e = Keep THEN series.end ELSE e
      <3>1. Edited(series, n, e) = [series EXCEPT !.limit = l, !.end = u, !.version = series.version + 1]
        BY DEF Edited
      <3> HIDE DEF l, u
      <3>2. Edited(series, n, e) = [status |-> series.status, rule |-> series.rule, limit |-> l,
                                    end |-> u, version |-> series.version + 1]
        BY <3>1 DEF Shapes, IsRow
      <3>3. QED
        BY <3>2 DEF IsRow
    <2>4. QED
      BY <1>0, <2>1, <2>2, <2>3 DEF Shapes, IsRow, Carried, Owed
  <1>3. CASE StopSeries
    <2>1. UNCHANGED <<series, job, late>> /\ served' = served + 1 /\ series # NoSeries
      BY <1>3 DEF StopSeries, Stopped, Found, Begin
    <2>2. req' = [pc |-> "save", op |-> "stop", copy |-> [series EXCEPT !.status = "stopped"],
                  rows |-> {}, held |-> {}, turn |-> 0, date |-> 0, day |-> 0]
      BY <1>3 DEF StopSeries, Stopped, Found, Begin, NoReq
    <2>3. QED
      BY <1>0, <2>1, <2>2 DEF Shapes, IsRow, Carried, Owed
  <1>4. CASE DeleteSeries
    BY <1>0, <1>4, ConstantsAssumption
    DEF DeleteSeries, Found, Begin, Shapes, IsRow, Carried, Owed, NoReq, NoSeries
  <1>5. CASE EditRead \/ EditWrite \/ Cleanup \/ Tick
    BY <1>0, <1>5 DEF EditRead, EditWrite, Cleanup, Tick, bounds, Shapes, IsRow, Carried, Owed
  <1>6. QED
    BY <1>1, <1>2, <1>3, <1>4, <1>5

\* A job that had read the series before StopSeries adds at most one window of
\* occurrences to it, whatever window, calendar, edits and failures there are.
THEOREM StopIsBounded == Spec => []LateBounded
  <1>1. Init => StopInv
    BY FS_EmptySet, ConstantsAssumption
    DEF Init, StopInv, Shapes, IsRow, Carried, Owed, NoJob, NoReq, NoSeries
  <1>2. StopInv /\ [Next]_vars => StopInv'
    <2>1. CASE UNCHANGED vars
      BY <2>1 DEF vars, bounds, StopInv, Shapes, IsRow, Carried, Owed
    <2>2. CASE Next
      BY <2>2, JobStop, RequestStop, OtherStop DEF Next
    <2>3. QED
      BY <2>1, <2>2
  <1>3. StopInv => LateBounded
    BY DEF StopInv, Owed, LateBounded
  <1>4. QED
    BY <1>1, <1>2, <1>3, PTL DEF Spec

-----------------------------------------------------------------------------
(* Types                                                                   *)

SeriesRow == [status : {"active", "stopped"}, rule : Rules, limit : Nat, end : Nat,
              version : Nat]
Row  == SeriesRow \cup {NoSeries}
Occ  == [id : Nat, date : Nat, status : Statuses, version : Nat \cup {Custom}]
Job  == [pc : {"idle", "window", "loop"}, copy : Row, left : 0 .. Window, total : Nat,
         last : Nat, day : Int]
Req  == [pc : {"idle", "initial", "save", "find", "rows", "cancel"},
         op : {"none", "update", "stop"}, copy : Row, rows : SUBSET Occ, held : SUBSET Occ,
         turn : 0 .. Window, date : Nat, day : Int]

\* The rows of occurrences: ids are given in order and identify them.
TableTyped ==
    /\ now \in 0 .. MaxTime /\ made \in Nat /\ late \in Nat /\ disturbed \in BOOLEAN
    /\ occs \subseteq Occ /\ IsFiniteSet(occs)
    /\ \A o \in occs : o.id \in 1 .. made
    /\ \A o1, o2 \in occs : o1.id = o2.id => o1 = o2

\* The locals: a step that works with a series has read one.
LocalsTyped ==
    /\ job \in Job /\ req \in Req /\ series \in Row
    /\ job.pc = "loop" => job.copy \in SeriesRow /\ job.day \in Nat \ {0}
    /\ job.pc = "window" => job.copy \in SeriesRow
    /\ req.pc # "idle" => req.copy \in SeriesRow
    /\ req.pc = "initial" => req.day \in Nat \ {0}
    /\ req.pc \notin {"rows", "cancel"} => req.rows = {}
    /\ req.pc # "cancel" => req.held = {}
    /\ \A r \in req.held : r.status = "cancelled" /\ req.held = {r}

\* The rows that event requests are about to write.
EditsTyped ==
    /\ \A p \in pending : p.row \in Occ
    /\ touched = [op \in {"stop", "update"} |-> touched[op]]

Typed == TableTyped /\ LocalsTyped /\ EditsTyped

\* What a request carries from one of its steps to the next: no other request
\* changes the series meanwhile.
CarriedOn ==
    /\ req.pc \in {"initial", "find", "rows", "cancel"} => req.copy = series
    /\ req.pc = "initial" => series.status = "active"
    /\ req.pc \in {"save", "find", "rows", "cancel"} =>
          req.op \in {"update", "stop"} /\ series # NoSeries
    /\ req.pc = "save" /\ req.op = "stop" => req.copy = Stopped(series)
    /\ req.pc = "save" /\ req.op = "update" =>
          \E n \in NewLimits, e \in NewEnds : req.copy = Edited(series, n, e)
    /\ req.pc = "cancel" => req.op = "stop"
    /\ series # NoSeries => series.limit \in Limits \cup NewLimits

\* While they do not overlap, the job has read the row as it is.
Apart ==
    /\ job.pc = "idle" \/ req.pc = "idle"
    /\ job.pc # "idle" => job.copy = series /\ series.status = "active"

-----------------------------------------------------------------------------
(* What keeps the properties                                               *)

\* A published occurrence that no event request has written.
Booking(o) == o.status = "published" /\ o.id \notin own

\* One that no event request has written since the last stop or update of the
\* series looked for its occurrences.
Open(o, op) == o.status = "published" /\ o.id \notin touched[op]

\* The dates that are still to come lie behind those announced. The rows that a
\* request has read count as well: it may write them back.
Booked ==
    /\ \A o1, o2 \in occs \cup req.rows :
          Booking(o1) /\ Booking(o2) /\ o1.date = o2.date => o1.id = o2.id
    /\ \A o \in occs : Booking(o) /\ job.pc = "loop" => o.date <= job.last
    /\ \A o \in occs : Booking(o) /\ req.pc = "initial" => o.date < req.date

\* The two loops count no fewer occurrences than there are.
Numbered ==
    /\ series.limit # None => Cardinality(occs) <= series.limit
    /\ job.pc = "loop" => Cardinality(occs) <= job.total
    /\ req.pc = "initial" => Cardinality(occs) <= req.turn

\* A request is about to reach the occurrence.
Awaits(o, op) ==
    /\ req.op = op
    /\ req.pc # "find" => /\ req.pc \in {"rows", "cancel"}
                          /\ \E r \in req.rows \cup req.held : r.id = o.id

Reached ==
    /\ series.status = "stopped" =>
          \A o \in Announced(touched["stop"]) : Awaits(o, "stop")
    /\ series.status = "stopped" /\ req.op = "update" =>
          \A r \in req.rows : r.date > now => ~Open(r, "stop")
    /\ series # NoSeries =>
          \A o \in Announced(touched["update"]) :
             o.version = series.version \/ Awaits(o, "update")

\* An update may raise the limit of a series and not lower it.
LimitsGrow == \A n \in NewLimits : n # None => \A m \in Limits \cup NewLimits : m # None /\ m <= n

Undisturbed == Apart /\ Booked /\ Reached /\ (LimitsGrow => Numbered)
SeriesInv   == Typed /\ CarriedOn /\ (~disturbed => Undisturbed)

-----------------------------------------------------------------------------
(* Dates                                                                   *)

\* Months begin one after the other for ever, and every day lies in one.
EndlessCalendar ==
    /\ MonthStart \in [Nat -> Nat]
    /\ \A d \in Nat : \E m \in Nat : MonthStart[m] <= d /\ d < MonthStart[m + 1]

\* A finite set of numbers that is not empty has a greatest element.
LEMMA MaxExists ==
    ASSUME NEW S, IsFiniteSet(S), S \subseteq Nat, S # {}
    PROVE  Max(S) \in S /\ \A y \in S : y <= Max(S)
  <1> DEFINE Top(T, x) == x \in T /\ \A y \in T : x >= y
             Bad == {T \in SUBSET S : T # {} /\ ~\E x \in S : Top(T, x)}
  <1>1. ASSUME Bad # {} PROVE FALSE
    <2>1. IsWellFoundedOn(StrictSubsetOrdering(S), FiniteSubsetsOf(S))
      BY FS_StrictSubsetOrderingWellFounded
    <2>2. Bad \subseteq FiniteSubsetsOf(S)
      BY FS_Subset DEF FiniteSubsetsOf
    <2>3. \E T \in Bad : \A U \in Bad : <<U, T>> \notin StrictSubsetOrdering(S)
      <3> HIDE DEF Bad
      <3>1. QED
        BY <1>1, <2>1, <2>2, WFMin
    <2>4. PICK T \in Bad : \A U \in Bad : <<U, T>> \notin StrictSubsetOrdering(S)
      BY <2>3
    <2>5. T \subseteq S /\ T # {} /\ ~\E x \in S : Top(T, x)
      OBVIOUS
    <2>6. PICK t \in T : TRUE
      BY <2>5
    <2> DEFINE U == T \ {t}
    <2>7. <<U, T>> \in StrictSubsetOrdering(S)
      BY <2>5 DEF StrictSubsetOrdering
    <2>8. U = {} \/ \E x \in S : Top(U, x)
      BY <2>4, <2>5, <2>7
    <2>9. CASE U = {}
      <3>1. Top(T, t)
        BY <2>5, <2>9
      <3>2. QED
        BY <2>5, <3>1
    <2>10. CASE \E x \in S : Top(U, x)
      <3> PICK x \in S : Top(U, x)
        BY <2>10
      <3>1. Top(T, x) \/ Top(T, t)
        BY <2>5
      <3>2. QED
        BY <2>5, <3>1
    <2>11. QED
      BY <2>8, <2>9, <2>10
  <1>2. \E x \in S : Top(S, x)
    BY <1>1
  <1>3. PICK x \in S : \A y \in S : x >= y
    BY <1>2
  <1>4. QED
    BY <1>3 DEF Max

\* The smaller of two numbers.
LEMMA MinOfTwo ==
    ASSUME NEW a \in Nat, NEW b \in Nat
    PROVE  Min({a, b}) \in {a, b} /\ Min({a, b}) <= a /\ Min({a, b}) <= b
  <1>1. \E x \in {a, b} : \A y \in {a, b} : x =< y
    OBVIOUS
  <1>2. QED
    BY <1>1 DEF Min

\* Every day lies in its month.
LEMMA DayInMonth ==
    ASSUME EndlessCalendar, NEW d \in Nat
    PROVE  /\ MonthOf(d) \in Nat /\ DayOf(d) \in Nat \ {0}
           /\ d < MonthStart[MonthOf(d) + 1]
  <1> DEFINE P(m) == /\ m + 1 \in DOMAIN MonthStart
                     /\ MonthStart[m] <= d /\ d < MonthStart[m + 1]
  <1>1. \E m \in DOMAIN MonthStart : P(m)
    BY DEF EndlessCalendar
  <1>2. MonthOf(d) \in DOMAIN MonthStart /\ P(MonthOf(d))
    BY <1>1 DEF MonthOf
  <1>3. MonthOf(d) \in Nat /\ MonthStart[MonthOf(d)] \in Nat
    BY <1>2 DEF EndlessCalendar
  <1>4. QED
    BY <1>2, <1>3 DEF DayOf

\* The next date of a series lies behind the last one, in a short month too.
LEMMA NextIsLater ==
    ASSUME EndlessCalendar, NEW d \in Nat, NEW rule \in Rules, NEW day \in Nat \ {0}
    PROVE  NextDate(d, rule, day) \in Nat /\ NextDate(d, rule, day) > d
  <1>1. rule \in {"weekly", "biweekly", "monthly"} /\ Week \in Nat \ {0}
    BY ConstantsAssumption
  <1>2. CASE rule = "monthly"
    <2> DEFINE m == MonthOf(d) + 1
    <2>8. m \in Nat /\ d < MonthStart[m]
      BY DayInMonth
    <2>7. MonthStart \in [Nat -> Nat]
      BY DEF EndlessCalendar
    <2>1. m \in Nat /\ d < MonthStart[m] /\ MonthStart[m] \in Nat /\ MonthStart[m + 1] \in Nat
      <3> HIDE DEF m
      <3>1. QED
        BY <2>7, <2>8
    <2>2. MonthStart[m] < MonthStart[m + 1]
      <3> HIDE DEF m
      <3>1. m \in DOMAIN MonthStart /\ m + 1 \in DOMAIN MonthStart
        BY <2>7, <2>8
      <3>2. QED
        BY <3>1, ConstantsAssumption
    <2>3. DaysIn(m) \in Nat \ {0}
      BY <2>1, <2>2 DEF DaysIn
    <2>4. Min({day, DaysIn(m)}) \in Nat \ {0}
      BY <2>3, MinOfTwo
    <2>5. NextDate(d, rule, day) = MonthStart[m] + Min({day, DaysIn(m)}) - 1
      BY <1>2 DEF NextDate
    <2> HIDE DEF m
    <2>6. QED
      BY <2>1, <2>4, <2>5
  <1>3. CASE rule \in {"weekly", "biweekly"}
    BY <1>1, <1>3 DEF NextDate
  <1>4. QED
    BY <1>1, <1>2, <1>3

\* The job goes on from a day, and no row that is announced lies behind it.
LEMMA LastIsLast ==
    ASSUME TableTyped
    PROVE  LastDate \in Nat /\ \A o \in occs : Booking(o) => o.date <= LastDate
  <1>1. ASSUME NEW S \in SUBSET occs, S # {}
        PROVE  LastOf(S) \in Nat /\ \A o \in S : o.date <= LastOf(S)
    <2> DEFINE f == [o \in S |-> o.date]
               D == {o.date : o \in S}
    <2>1. f \in Surjection(S, D)
      BY DEF Surjection
    <2>2. IsFiniteSet(S)
      BY FS_Subset DEF TableTyped
    <2>3. IsFiniteSet(D)
      <3> HIDE DEF f, D
      <3>1. QED
        BY <2>1, <2>2, FS_Surjection
    <2>4. D \subseteq Nat /\ D # {}
      BY <1>1 DEF TableTyped, Occ
    <2>5. Max(D) \in D /\ \A y \in D : y <= Max(D)
      <3> HIDE DEF D
      <3>1. QED
        BY <2>3, <2>4, MaxExists
    <2>6. QED
      BY <2>4, <2>5 DEF LastOf
  <1>2. now \in Nat /\ \A o \in occs : o.date \in Nat
    BY ConstantsAssumption DEF TableTyped, Occ
  <1>3. Future \subseteq occs
    BY DEF Future
  <1>4. CASE Future # {}
    <2>1. LastDate = LastOf(Future)
      BY <1>4 DEF LastDate
    <2>2. LastOf(Future) \in Nat /\ \A o \in Future : o.date <= LastOf(Future)
      BY <1>1, <1>3, <1>4
    <2>3. PICK p \in Future : TRUE
      BY <1>4
    <2>4. p.date > now /\ p.date \in Nat
      BY <1>2, <1>3 DEF Future, IsFuture
    <2>5. ASSUME NEW o \in occs, Booking(o), o \notin Future
          PROVE  o.date <= now
      BY <1>2, <2>5 DEF Booking, Future, IsFuture
    <2>6. QED
      BY <1>2, <2>1, <2>2, <2>3, <2>4, <2>5
  <1>5. CASE Future = {} /\ occs # {}
    BY <1>1, <1>5 DEF LastDate
  <1>6. CASE Future = {} /\ occs = {}
    BY <1>2, <1>6 DEF LastDate
  <1>7. QED
    BY <1>4, <1>5, <1>6

\* A request leaves a row that is a row of the same occurrence, and announces none
\* that it did not read as published.
LEMMA AppliedIsRow ==
    ASSUME Typed, req.pc = "rows", NEW o \in req.rows
    PROVE  /\ Applied(o) \in Occ /\ Applied(o).id = o.id
           /\ Applied(o).status = "published" =>
                 /\ req.op = "update" /\ o.status = "published"
                 /\ Applied(o).date = o.date /\ Applied(o).version = req.copy.version
  <1>1. o \in Occ /\ req.copy.version \in Nat
    BY DEF Typed, LocalsTyped, Req, SeriesRow
  <1>2. CASE req.op = "update"
    <2>1. Applied(o) = [o EXCEPT !.version = req.copy.version]
      BY <1>2 DEF Applied
    <2>2. QED
      BY <1>1, <1>2, <2>1 DEF Occ
  <1>3. CASE req.op # "update"
    <2>1. Applied(o) = [o EXCEPT !.status = "cancelled"]
      BY <1>3 DEF Applied
    <2>2. QED
      BY <1>1, <1>3, <2>1 DEF Occ, Statuses
  <1>4. QED
    BY <1>2, <1>3

\* A new occurrence has an id of its own.
LEMMA Adding ==
    ASSUME TableTyped, NEW es \in SeriesRow, NEW d \in Nat, AddOccurrence(es, d),
           UNCHANGED <<now, disturbed>>
    PROVE  TableTyped' /\ made' = made + 1
  <1> DEFINE new == [id |-> made + 1, date |-> d, status |-> "published", version |-> es.version]
  <1>1. new \in Occ /\ new.id = made + 1 /\ occs' = occs \cup {new} /\ made' = made + 1
        /\ late' \in Nat
    BY DEF AddOccurrence, Occ, Statuses, SeriesRow, TableTyped
  <1>2. IsFiniteSet(occs')
    BY <1>1, FS_AddElement DEF TableTyped
  <1> HIDE DEF new
  <1>3. \A o \in occs : o.id \in 1 .. made'
    BY <1>1 DEF TableTyped
  <1>4. \A o1, o2 \in occs' : o1.id = o2.id => o1 = o2
    BY <1>1 DEF TableTyped
  <1>5. \A o \in occs' : o.id \in 1 .. made'
    BY <1>1, <1>3 DEF TableTyped
  <1>6. QED
    BY <1>1, <1>2, <1>4, <1>5 DEF TableTyped

\* The two loops add rows of the series they have read.
LEMMA LoopsTyped ==
    ASSUME EndlessCalendar, Typed, JobTurn \/ InitialTurn
    PROVE  Typed'
  <1>1. CASE JobTurn
    <2>0. EditsTyped'
      BY <1>1 DEF JobTurn, bounds, editing, Typed, EditsTyped
    <2>1. UNCHANGED <<now, disturbed, series, req>> /\ job.pc = "loop" /\ job \in Job
      BY <1>1 DEF JobTurn, Typed, LocalsTyped
    <2>2. job.copy \in SeriesRow /\ job.day \in Nat \ {0}
      BY <2>1 DEF Typed, LocalsTyped
    <2>3. CASE job' = NoJob /\ UNCHANGED <<occs, made, late>>
      BY <2>0, <2>1, <2>3, ConstantsAssumption
      DEF Typed, TableTyped, LocalsTyped, Job, Row, NoJob
    <2> DEFINE next == NextDate(job.last, job.copy.rule, job.day)
    <2>4. CASE AddOccurrence(job.copy, next) /\ job.left > 0
               /\ job' = [job EXCEPT !.left = @ - 1, !.total = @ + 1, !.last = next]
      <3>1. next \in Nat
        BY <2>1, <2>2, NextIsLater DEF Job, SeriesRow
      <3> HIDE DEF next
      <3>2. TableTyped' /\ made' = made + 1
        BY <2>1, <2>2, <2>4, <3>1, Adding DEF Typed
      <3>3. job' \in Job /\ job'.pc = "loop" /\ job'.copy = job.copy /\ job'.day = job.day
        <4>1. job.left - 1 \in 0 .. Window /\ job.total + 1 \in Nat
          BY <2>1, <2>4, ConstantsAssumption DEF Job
        <4>2. QED
          BY <2>1, <2>4, <3>1, <4>1 DEF Job
      <3>4. LocalsTyped'
        BY <2>1, <2>2, <3>3 DEF Typed, LocalsTyped
      <3>5. QED
        BY <2>0, <3>2, <3>4 DEF Typed
    <2>5. QED
      BY <1>1, <2>3, <2>4 DEF JobTurn
  <1>2. CASE InitialTurn
    <2>0. EditsTyped'
      BY <1>2 DEF InitialTurn, bounds, editing, Typed, EditsTyped
    <2>1. UNCHANGED <<now, disturbed, series, job>> /\ req.pc = "initial" /\ req \in Req
          /\ req.rows = {} /\ req.held = {}
      BY <1>2 DEF InitialTurn, Typed, LocalsTyped
    <2>2. req.copy \in SeriesRow /\ req.day \in Nat \ {0}
      BY <2>1 DEF Typed, LocalsTyped
    <2>3. CASE req' = NoReq /\ UNCHANGED <<occs, made, late>>
      BY <2>0, <2>1, <2>3, ConstantsAssumption
      DEF Typed, TableTyped, LocalsTyped, Req, Row, NoReq
    <2> DEFINE next == NextDate(req.date, req.copy.rule, req.day)
    <2>4. CASE AddOccurrence(req.copy, req.date) /\ req.turn # Window
               /\ req' = [req EXCEPT !.turn = @ + 1, !.date = next]
      <3>1. next \in Nat /\ req.date \in Nat
        BY <2>1, <2>2, NextIsLater DEF Req, SeriesRow
      <3> HIDE DEF next
      <3>2. TableTyped' /\ made' = made + 1
        BY <2>1, <2>2, <2>4, <3>1, Adding DEF Typed
      <3>3. /\ req' \in Req /\ req'.pc = "initial" /\ req'.copy = req.copy
            /\ req'.day = req.day /\ req'.rows = {} /\ req'.held = {}
        <4>1. req.turn + 1 \in 0 .. Window
          BY <2>1, <2>4, ConstantsAssumption DEF Req
        <4>2. QED
          BY <2>1, <2>4, <3>1, <4>1 DEF Req
      <3>4. LocalsTyped'
        BY <2>1, <2>2, <3>3 DEF Typed, LocalsTyped
      <3>5. QED
        BY <2>0, <3>2, <3>4 DEF Typed
    <2>5. QED
      BY <1>2, <2>3, <2>4 DEF InitialTurn
  <1>3. QED
    BY <1>1, <1>2

\* The job's reads.
LEMMA JobReadsTyped ==
    ASSUME EndlessCalendar, Typed, JobRead \/ JobWindow
    PROVE  Typed'
  <1>0. EditsTyped'
    BY DEF JobRead, JobWindow, bounds, editing, Typed, EditsTyped
  <1>1. CASE JobRead
    <2>0. disturbed' = (disturbed \/ req.pc # "idle")
      BY <1>1 DEF JobRead
    <2>4. disturbed' \in BOOLEAN
      BY <2>0
    <2>1. UNCHANGED <<now, series, occs, made, req, late>> /\ series \in SeriesRow
          /\ job' = [pc |-> "window", copy |-> series, left |-> 0, total |-> 0, last |-> 0, day |-> 0]
      <3>1. series.status = "active" /\ series \in Row
        BY <1>1 DEF JobRead, Typed, LocalsTyped
      <3>2. series \in SeriesRow
        BY <3>1 DEF Row, NoSeries
      <3>3. QED
        BY <1>1, <3>2 DEF JobRead, NoJob
    <2>2. job' \in Job
      BY <2>1, ConstantsAssumption DEF Job, Row
    <2>3. QED
      BY <1>0, <2>1, <2>2, <2>4 DEF Typed, TableTyped, LocalsTyped
  <1>2. CASE JobWindow
    <2>1. UNCHANGED <<now, series, occs, made, req, late, disturbed>> /\ job.pc = "window"
      BY <1>2 DEF JobWindow
    <2>2. Needed \in Int /\ Needed <= Window
      BY NeededBounded DEF Typed, TableTyped
    <2>3. LastDate \in Nat
      BY LastIsLast DEF Typed
    <2>4. DayOf(LastDate) \in Nat \ {0}
      BY <2>3, DayInMonth
    <2>5. Cardinality(occs) \in Nat
      BY FS_CardinalityType DEF Typed, TableTyped
    <2>6. CASE job' = NoJob
      BY <1>0, <2>1, <2>6, ConstantsAssumption DEF Typed, TableTyped, LocalsTyped, Job, Row, NoJob
    <2>7. CASE Needed > 0 /\ job' = [job EXCEPT !.pc = "loop", !.left = Needed,
                   !.total = Cardinality(occs), !.last = LastDate, !.day = DayOf(LastDate)]
      <3>1. job' \in Job /\ job'.pc = "loop" /\ job'.copy = job.copy /\ job'.day = DayOf(LastDate)
        <4>1. Needed \in 0 .. Window
          BY <2>2, <2>7, ConstantsAssumption
        <4>2. job \in Job
          BY DEF Typed, LocalsTyped
        <4>3. \E n \in 0 .. Window, t \in Nat, l \in Nat, d \in Nat \ {0} :
                 d = DayOf(LastDate) /\ job' = [job EXCEPT !.pc = "loop", !.left = n, !.total = t,
                                                         !.last = l, !.day = d]
          BY <2>3, <2>4, <2>5, <2>7, <4>1
        <4>4. PICK n \in 0 .. Window, t \in Nat, l \in Nat, d \in Nat \ {0} :
                 d = DayOf(LastDate) /\ job' = [job EXCEPT !.pc = "loop", !.left = n, !.total = t,
                                                         !.last = l, !.day = d]
          BY <4>3
        <4>5. job' = [pc |-> "loop", copy |-> job.copy, left |-> n, total |-> t, last |-> l, day |-> d]
          BY <4>2, <4>4 DEF Job
        <4>6. job.copy \in Row /\ d \in Int
          BY <4>2 DEF Job
        <4>7. QED
          BY <4>4, <4>5, <4>6 DEF Job
      <3>2. QED
        BY <1>0, <2>1, <2>4, <3>1 DEF Typed, TableTyped, LocalsTyped
    <2>8. QED
      BY <1>2, <2>2, <2>6, <2>7 DEF JobWindow
  <1>3. QED
    BY <1>1, <1>2

\* The table keeps its types when rows disappear, and when each row is put in
\* place of one with the same id.
LEMMA Shrinking ==
    ASSUME TableTyped, occs' \subseteq occs, UNCHANGED <<now, made, late>>, disturbed' \in BOOLEAN
    PROVE  TableTyped'
  <1>1. IsFiniteSet(occs')
    BY FS_Subset DEF TableTyped
  <1>2. QED
    BY <1>1 DEF TableTyped

LEMMA Rewriting ==
    ASSUME TableTyped, IsFiniteSet(occs'), UNCHANGED <<now, made, late>>, disturbed' \in BOOLEAN,
           NEW f \in [occs -> Occ], \A c \in occs : f[c].id = c.id, occs' = {f[c] : c \in occs}
    PROVE  TableTyped'
  <1>1. \A o \in occs' : o \in Occ /\ o.id \in 1 .. made
    BY DEF TableTyped
  <1>2. ASSUME NEW o1 \in occs', NEW o2 \in occs', o1.id = o2.id PROVE o1 = o2
    <2>1. PICK c1 \in occs : o1 = f[c1]
      OBVIOUS
    <2>2. PICK c2 \in occs : o2 = f[c2]
      OBVIOUS
    <2>3. c1 = c2
      BY <1>2, <2>1, <2>2 DEF TableTyped
    <2>4. QED
      BY <2>1, <2>2, <2>3
  <1>3. QED
    BY <1>1, <1>2 DEF TableTyped

\* A row is written in place of one with its id, if there is one.
LEMMA WriteTyped ==
    ASSUME TableTyped, NEW new \in Occ, Write(new), UNCHANGED <<now, made, late>>,
           disturbed' \in BOOLEAN
    PROVE  /\ TableTyped' /\ Cardinality(occs') <= Cardinality(occs)
           /\ \A x \in occs' : (x.id # new.id /\ x \in occs) \/ x = new
  <1> DEFINE f == [c \in occs |-> IF c.id = new.id THEN new ELSE c]
  <1>1. occs' = {f[c] : c \in occs}
    BY DEF Write
  <1>2. f \in [occs -> Occ] /\ \A c \in occs : f[c].id = c.id
    BY DEF TableTyped
  <1>3. \A x \in occs' : (x.id # new.id /\ x \in occs) \/ x = new
    BY <1>1
  <1>4. f \in Surjection(occs, occs')
    BY <1>1 DEF Surjection
  <1> HIDE DEF f
  <1>5. IsFiniteSet(occs') /\ Cardinality(occs') <= Cardinality(occs)
    BY <1>4, FS_Surjection DEF TableTyped
  <1>6. QED
    BY <1>1, <1>2, <1>3, <1>5, Rewriting

\* The loop over the occurrences goes on with fewer of them.
LEMMA GoesOn ==
    ASSUME Typed, req.copy \in SeriesRow, NEW rows \in SUBSET req.rows, GoOn(rows)
    PROVE  /\ \/ req' = NoReq /\ rows = {}
              \/ /\ req'.pc = "rows" /\ req'.rows = rows /\ req'.held = {}
                 /\ req'.op = req.op /\ req'.copy = req.copy
           /\ UNCHANGED <<job, series>> => LocalsTyped'
  <1>1. req \in Req
    BY DEF Typed, LocalsTyped
  <1>2. CASE req' = NoReq /\ rows = {}
    BY <1>1, <1>2, ConstantsAssumption DEF Typed, LocalsTyped, Req, Row, NoReq
  <1>3. CASE req' = [req EXCEPT !.pc = "rows", !.rows = rows, !.held = {}]
    <2>1. req' = [pc |-> "rows", op |-> req.op, copy |-> req.copy, rows |-> rows, held |-> {},
                  turn |-> req.turn, date |-> req.date, day |-> req.day]
      BY <1>1, <1>3 DEF Req
    <2>2. rows \in SUBSET Occ
      BY <1>1 DEF Req
    <2>3. req' \in Req
      BY <1>1, <2>1, <2>2 DEF Req
    <2>4. QED
      BY <2>1, <2>3 DEF Typed, LocalsTyped
  <1>4. QED
    BY <1>2, <1>3 DEF GoOn

\* The rows of a series that the requests are about to write.
LEMMA CopiesTyped ==
    ASSUME series \in SeriesRow
    PROVE  /\ Stopped(series) \in SeriesRow
           /\ \A n \in NewLimits, e \in NewEnds : Edited(series, n, e) \in SeriesRow
  <1>1. Stopped(series) \in SeriesRow
    BY DEF Stopped, SeriesRow
  <1>2. ASSUME NEW n \in NewLimits, NEW e \in NewEnds PROVE Edited(series, n, e) \in SeriesRow
    <2> DEFINE l == IF n = None THEN series.limit ELSE n
               u == IF e = Keep THEN series.end ELSE e
    <2>1. l \in Nat /\ u \in Nat /\ series.version + 1 \in Nat
      BY ConstantsAssumption DEF SeriesRow
    <2>2. Edited(series, n, e) = [series EXCEPT !.limit = l, !.end = u, !.version = series.version + 1]
      BY DEF Edited
    <2> HIDE DEF l, u
    <2>3. QED
      BY <2>1, <2>2 DEF SeriesRow
  <1>3. QED
    BY <1>1, <1>2

\* The steps of a request on the rows.
LEMMA RequestTyped ==
    ASSUME Typed, SaveSeries \/ FindRows \/ RowTurn \/ CancelFind \/ CancelWrite
    PROVE  Typed'
  <1>0. EditsTyped'
    BY DEF SaveSeries, FindRows, RowTurn, CancelFind, CancelWrite, bounds, editing, Typed, EditsTyped
  <1>1. CASE SaveSeries
    <2>1. UNCHANGED <<now, occs, made, job, late, disturbed>> /\ req.pc = "save" /\ req \in Req
          /\ req.copy \in SeriesRow /\ req.rows = {} /\ req.held = {}
      BY <1>1 DEF SaveSeries, Typed, LocalsTyped
    <2>2. CASE series' = series /\ req' = NoReq
      BY <1>0, <2>1, <2>2, ConstantsAssumption DEF Typed, TableTyped, LocalsTyped, Req, Row, NoReq
    <2>3. CASE series' = req.copy /\ req' = [req EXCEPT !.pc = "find"]
      <3>1. req' \in Req /\ req'.pc = "find" /\ req'.copy = req.copy /\ req'.rows = {}
            /\ req'.held = {}
        BY <2>1, <2>3 DEF Req
      <3>2. QED
        BY <1>0, <2>1, <2>3, <3>1 DEF Typed, TableTyped, LocalsTyped, Row
    <2>4. QED
      BY <1>1, <2>2, <2>3 DEF SaveSeries
  <1>2. CASE FindRows
    <2>1. UNCHANGED <<now, series, occs, made, job, late>> /\ req.pc = "find" /\ req \in Req
          /\ req.copy \in SeriesRow /\ disturbed' \in BOOLEAN /\ req.held = {}
      BY <1>2 DEF FindRows, Typed, TableTyped, LocalsTyped
    <2>2. CASE req' = NoReq
      BY <1>0, <2>1, <2>2, ConstantsAssumption DEF Typed, TableTyped, LocalsTyped, Req, Row, NoReq
    <2>3. CASE req' = [req EXCEPT !.pc = "rows", !.rows = Future]
      <3>1. Future \subseteq occs
        BY DEF Future
      <3>2. Future \in SUBSET Occ
        BY <3>1 DEF Typed, TableTyped
      <3> HIDE DEF Future
      <3>3. req' \in Req /\ req'.pc = "rows" /\ req'.copy = req.copy /\ req'.held = {}
        BY <2>1, <2>3, <3>2 DEF Req
      <3>4. QED
        BY <1>0, <2>1, <3>3 DEF Typed, TableTyped, LocalsTyped
    <2>4. QED
      BY <1>2, <2>2, <2>3 DEF FindRows
  <1> SUFFICES ASSUME RowTurn \/ CancelFind \/ CancelWrite
               PROVE  Typed'
    BY <1>1, <1>2
  <1>3. UNCHANGED <<now, series, made, job, late>> /\ req.pc \in {"rows", "cancel"} /\ req \in Req
        /\ req.copy \in SeriesRow /\ TableTyped
    BY DEF RowTurn, CancelFind, CancelWrite, Typed, LocalsTyped
  <1>4. ASSUME NEW rows \in SUBSET req.rows, GoOn(rows) PROVE LocalsTyped'
    BY <1>3, <1>4, GoesOn
  <1>5. ASSUME occs' = occs, disturbed' \in BOOLEAN PROVE TableTyped'
    BY <1>3, <1>5 DEF TableTyped
  <1>6. disturbed \in BOOLEAN
    BY DEF Typed, TableTyped
  <1>7. CASE RowTurn
    <2>1. PICK o \in req.rows : ~ThroughCancel(o) /\ GoOn(req.rows \ {o})
                                /\ ((Write(Applied(o)) /\ UNCHANGED disturbed) \/ Skipped)
      BY <1>7 DEF RowTurn
    <2>2. LocalsTyped'
      BY <1>4, <2>1
    <2>3. Applied(o) \in Occ
      BY <1>3, <1>7, <2>1, AppliedIsRow DEF RowTurn
    <2>4. TableTyped'
      BY <1>3, <1>5, <1>6, <2>1, <2>3, WriteTyped DEF Skipped
    <2>5. QED
      BY <1>0, <2>2, <2>4 DEF Typed
  <1>8. CASE CancelFind
    <2>1. TableTyped'
      BY <1>5, <1>6, <1>8 DEF CancelFind, Skipped
    <2>2. ASSUME NEW o \in req.rows, NEW c \in occs,
                 req' = [req EXCEPT !.pc = "cancel", !.rows = @ \ {o},
                                    !.held = {[c EXCEPT !.status = "cancelled"]}]
          PROVE  LocalsTyped'
      <3> DEFINE h == [c EXCEPT !.status = "cancelled"]
      <3>1. h \in Occ /\ h.status = "cancelled"
        BY <1>3 DEF TableTyped, Occ, Statuses
      <3> HIDE DEF h
      <3>2. req' = [pc |-> "cancel", op |-> req.op, copy |-> req.copy, rows |-> req.rows \ {o},
                    held |-> {h}, turn |-> req.turn, date |-> req.date, day |-> req.day]
        BY <1>3, <2>2 DEF Req, h
      <3>3. req' \in Req
        BY <1>3, <3>1, <3>2 DEF Req
      <3>4. QED
        BY <1>3, <3>1, <3>2, <3>3 DEF Typed, LocalsTyped
    <2>3. LocalsTyped'
      BY <1>4, <1>8, <2>2 DEF CancelFind
    <2>4. QED
      BY <1>0, <2>1, <2>3 DEF Typed
  <1>9. CASE CancelWrite
    <2>1. LocalsTyped'
      BY <1>4, <1>9 DEF CancelWrite
    <2>2. \A new \in req.held : new \in Occ
      BY <1>3 DEF Req
    <2>3. TableTyped'
      BY <1>3, <1>5, <1>6, <1>9, <2>2, WriteTyped DEF CancelWrite, Skipped
    <2>4. QED
      BY <1>0, <2>1, <2>3 DEF Typed
  <1>10. QED
    BY <1>7, <1>8, <1>9

\* A request begins with what it has read or was asked for.
LEMMA BeginTyped ==
    ASSUME EndlessCalendar, Typed,
           \/ \E rule \in Rules, d \in Starts, n \in Limits, e \in Ends : CreateSeries(rule, d, n, e)
           \/ \E n \in NewLimits, e \in NewEnds : UpdateSeries(n, e)
           \/ StopSeries \/ DeleteSeries
    PROVE  Typed'
  <1>0. EditsTyped'
    BY DEF CreateSeries, UpdateSeries, StopSeries, DeleteSeries, editing, Typed, EditsTyped
  <1>1. ASSUME NEW r, Begin(r) PROVE disturbed' \in BOOLEAN /\ req' = r
    BY <1>1 DEF Begin
  <1>2. CASE \E rule \in Rules, d \in Starts, n \in Limits, e \in Ends : CreateSeries(rule, d, n, e)
    <2> PICK rule \in Rules, d \in Starts, n \in Limits, e \in Ends : CreateSeries(rule, d, n, e)
      BY <1>2
    <2> DEFINE es == [status |-> "active", rule |-> rule, limit |-> n, end |-> e, version |-> 0]
    <2>1. UNCHANGED <<now, occs, made, job, late>> /\ series' = es
          /\ Begin([NoReq EXCEPT !.pc = "initial", !.copy = es, !.date = d, !.day = DayOf(d)])
      BY DEF CreateSeries
    <2>2. d \in Nat /\ DayOf(d) \in Nat \ {0}
      BY DayInMonth, ConstantsAssumption
    <2>3. es \in SeriesRow
      BY ConstantsAssumption DEF SeriesRow
    <2> HIDE DEF es
    <2>4. disturbed' \in BOOLEAN
          /\ req' = [pc |-> "initial", op |-> "none", copy |-> es, rows |-> {}, held |-> {}, turn |-> 0,
                     date |-> d, day |-> DayOf(d)]
      <3>1. disturbed' \in BOOLEAN
            /\ req' = [NoReq EXCEPT !.pc = "initial", !.copy = es, !.date = d, !.day = DayOf(d)]
        BY <1>1, <2>1
      <3>2. QED
        BY <3>1 DEF NoReq
    <2>5. req' \in Req
      BY <2>2, <2>3, <2>4, ConstantsAssumption DEF Req, Row
    <2>6. TableTyped'
      BY <2>1, <2>4 DEF Typed, TableTyped
    <2>7. LocalsTyped'
      BY <2>1, <2>2, <2>3, <2>4, <2>5 DEF Typed, LocalsTyped, Row
    <2>8. QED
      BY <1>0, <2>6, <2>7 DEF Typed
  <1>3. ASSUME NEW op \in {"update", "stop"}, NEW es \in SeriesRow,
               Begin([NoReq EXCEPT !.pc = "save", !.op = op, !.copy = es]),
               UNCHANGED <<now, series, occs, made, job, late>>
        PROVE  Typed'
    <2>1. disturbed' \in BOOLEAN
          /\ req' = [pc |-> "save", op |-> op, copy |-> es, rows |-> {}, held |-> {}, turn |-> 0,
                     date |-> 0, day |-> 0]
      <3>1. disturbed' \in BOOLEAN /\ req' = [NoReq EXCEPT !.pc = "save", !.op = op, !.copy = es]
        BY <1>1, <1>3
      <3>2. QED
        BY <3>1 DEF NoReq
    <2>2. req' \in Req
      BY <2>1, ConstantsAssumption DEF Req, Row
    <2>3. QED
      BY <1>0, <1>3, <2>1, <2>2 DEF Typed, TableTyped, LocalsTyped
  <1>4. Found => series \in SeriesRow
    BY DEF Found, Typed, LocalsTyped, Row
  <1>5. CASE \E n \in NewLimits, e \in NewEnds : UpdateSeries(n, e)
    BY <1>3, <1>4, <1>5, CopiesTyped DEF UpdateSeries
  <1>6. CASE StopSeries
    BY <1>3, <1>4, <1>6, CopiesTyped DEF StopSeries
  <1>7. CASE DeleteSeries
    <2>1. UNCHANGED <<now, made, job, late>> /\ series' = NoSeries /\ occs' = {}
          /\ disturbed' \in BOOLEAN /\ req' = NoReq
      BY <1>1, <1>7 DEF DeleteSeries
    <2>2. TableTyped'
      BY <2>1, Shrinking DEF Typed
    <2>3. NoReq \in Req
      BY ConstantsAssumption DEF NoReq, Req, Row
    <2>4. LocalsTyped'
      BY <2>1, <2>3 DEF Typed, LocalsTyped, Row, NoReq
    <2>5. QED
      BY <1>0, <2>2, <2>4 DEF Typed
  <1>8. QED
    BY <1>2, <1>5, <1>6, <1>7

\* The other components.
LEMMA OthersTyped ==
    ASSUME Typed, EditRead \/ EditWrite \/ Cleanup \/ Tick
    PROVE  Typed'
  <1>1. UNCHANGED <<series, made, job, req, late, disturbed>>
    BY DEF EditRead, EditWrite, Cleanup, Tick
  <1>2. LocalsTyped'
    BY <1>1 DEF Typed, LocalsTyped
  <1>3. CASE Tick
    BY <1>1, <1>2, <1>3, ConstantsAssumption
    DEF Tick, Typed, TableTyped, EditsTyped, bounds, editing
  <1>4. CASE Cleanup
    <2>1. TableTyped'
      BY <1>1, <1>4, Shrinking DEF Cleanup, Typed, TableTyped
    <2>2. EditsTyped'
      BY <1>4 DEF Cleanup, Typed, EditsTyped, bounds, editing
    <2>3. QED
      BY <1>2, <2>1, <2>2 DEF Typed
  <1>5. CASE EditRead
    <2>1. PICK o \in occs : \E new \in EditsOf(o) :
             pending' = pending \cup {[request |-> edits, row |-> new]}
      BY <1>5 DEF EditRead
    <2>2. PICK new \in EditsOf(o) : pending' = pending \cup {[request |-> edits, row |-> new]}
      BY <2>1
    <2>3. new \in Occ
      BY <2>2, ConstantsAssumption DEF EditsOf, Typed, TableTyped, Occ, Statuses
    <2>4. EditsTyped'
      BY <1>5, <2>2, <2>3 DEF EditRead, Typed, EditsTyped
    <2>5. TableTyped'
      BY <1>5 DEF EditRead, Typed, TableTyped
    <2>6. QED
      BY <1>2, <2>4, <2>5 DEF Typed
  <1>6. CASE EditWrite
    <2>1. PICK p \in pending :
             /\ Write(p.row) /\ pending' = pending \ {p} /\ now' = now
             /\ touched' = [op \in {"stop", "update"} |-> touched[op] \cup {p.row.id}]
      BY <1>6 DEF EditWrite
    <2>2. p.row \in Occ
      BY DEF Typed, EditsTyped
    <2>3. TableTyped'
      BY <1>1, <2>1, <2>2, WriteTyped DEF Typed, TableTyped
    <2>4. EditsTyped'
      BY <2>1 DEF Typed, EditsTyped
    <2>5. QED
      BY <1>2, <2>3, <2>4 DEF Typed
  <1>7. QED
    BY <1>3, <1>4, <1>5, <1>6

LEMMA TypedStep ==
    ASSUME EndlessCalendar, Typed, [Next]_vars
    PROVE  Typed'
  <1>1. CASE UNCHANGED vars
    BY <1>1 DEF vars, bounds, editing, Typed, TableTyped, LocalsTyped, EditsTyped
  <1>2. CASE Next
    BY <1>2, LoopsTyped, JobReadsTyped, RequestTyped, BeginTyped, OthersTyped
    DEF Next, Generate, Serve
  <1>3. QED
    BY <1>1, <1>2

LEMMA TypedInit == Init => Typed
  <1> SUFFICES ASSUME Init PROVE Typed
    OBVIOUS
  <1>1. NoJob \in Job /\ NoReq \in Req /\ NoSeries \in Row
    BY ConstantsAssumption DEF Job, Req, Row, NoJob, NoReq
  <1>2. NoJob.pc = "idle" /\ NoReq.pc = "idle" /\ NoReq.rows = {} /\ NoReq.held = {}
    BY DEF NoJob, NoReq
  <1>3. TableTyped
    <2>1. IsFiniteSet({}) /\ 0 \in 0 .. MaxTime
      BY FS_EmptySet, ConstantsAssumption
    <2>2. occs = {} /\ now = 0 /\ made = 0 /\ late = 0
      BY DEF Init
    <2>3. disturbed \in BOOLEAN
      BY DEF Init
    <2>4. QED
      BY <2>1, <2>2, <2>3 DEF TableTyped
  <1>4. LocalsTyped
    BY <1>1, <1>2 DEF Init, LocalsTyped
  <1>5. EditsTyped
    BY DEF Init, EditsTyped
  <1>6. QED
    BY <1>3, <1>4, <1>5 DEF Typed

\* Whatever the job, the requests and the other components do in any order, the
\* rows of the occurrences have distinct ids, and the counters and dates that the
\* loops work with stay in their ranges.
THEOREM TypeIsCorrect ==
    ASSUME EndlessCalendar
    PROVE  Spec => []TypeOK
  <1>1. Typed /\ [Next]_vars => Typed'
    BY TypedStep
  <1>2. Typed => TypeOK
    BY DEF Typed, TableTyped, LocalsTyped, TypeOK, Occ, Job, Req, Row, SeriesRow
  <1>3. QED
    BY TypedInit, <1>1, <1>2, PTL DEF Spec

\* One row more is at most one more in number.
LEMMA AddedOne ==
    ASSUME NEW S, IsFiniteSet(S), NEW x
    PROVE  /\ Cardinality(S) \in Nat /\ Cardinality(S \cup {x}) \in Nat
           /\ Cardinality(S \cup {x}) <= Cardinality(S) + 1
  <1>1. Cardinality(S) \in Nat
    BY FS_CardinalityType
  <1>2. Cardinality(S \cup {x}) = IF x \in S THEN Cardinality(S) ELSE Cardinality(S) + 1
    BY FS_AddElement
  <1>3. QED
    BY <1>1, <1>2

-----------------------------------------------------------------------------
(* The steps of the job                                                    *)

\* What a request carries stays while the series and its locals do.
LEMMA CarriedStays ==
    ASSUME SeriesInv, UNCHANGED <<series, req>>
    PROVE  CarriedOn'
  <1>1. Stopped(series)' = Stopped(series)
    BY DEF Stopped
  <1>2. \A n, e : Edited(series, n, e)' = Edited(series, n, e)
    BY DEF Edited
  <1>3. CarriedOn
    BY DEF SeriesInv
  <1>4. QED
    BY <1>1, <1>2, <1>3 DEF CarriedOn

\* The requests still reach what they must, when every occurrence that is announced
\* after a step was so before it.
LEMMA ReachedStays ==
    ASSUME SeriesInv, Reached, UNCHANGED <<series, req>>,
           now' \in Int, now' >= now,
           \A op \in {"stop", "update"} : touched[op] \subseteq touched'[op],
           \A op \in {"stop", "update"} : \A x \in occs' :
              x.status = "published" /\ x.id \notin touched'[op] => x \in occs
    PROVE  Reached'
  <1>1. now \in Int /\ (\A x \in occs : x.date \in Int) /\ (\A r \in req.rows : r.date \in Int)
    BY ConstantsAssumption DEF SeriesInv, Typed, TableTyped, LocalsTyped, Req, Occ
  <1>2. ASSUME NEW op \in {"stop", "update"}, NEW x \in Announced(touched[op])'
        PROVE  x \in Announced(touched[op])
    <2>1. x \in occs' /\ x.status = "published" /\ x.id \notin touched'[op] /\ x.date > now'
      BY <1>2 DEF Announced, Future, IsFuture
    <2>2. x \in occs /\ x.date > now
      BY <1>1, <2>1
    <2>3. QED
      BY <2>1, <2>2 DEF Announced, Future, IsFuture
  <1>3. \A o, op : Awaits(o, op)' <=> Awaits(o, op)
    BY DEF Awaits
  <1>4. series.status = "stopped" /\ req.op = "update" =>
           \A r \in req.rows : r.date > now' => ~Open(r, "stop")'
    BY <1>1 DEF Reached, Open
  <1>5. QED
    BY <1>2, <1>3, <1>4 DEF Reached

LEMMA JobReadKeeps ==
    ASSUME SeriesInv, JobRead
    PROVE  CarriedOn' /\ (~disturbed' => Undisturbed')
  <1>1. UNCHANGED <<now, series, occs, made, req, own, touched>> /\ series.status = "active"
        /\ job' = [pc |-> "window", copy |-> series, left |-> 0, total |-> 0, last |-> 0, day |-> 0]
        /\ disturbed' = (disturbed \/ req.pc # "idle")
    BY DEF JobRead, NoJob, bounds, editing
  <1>2. CarriedOn'
    BY <1>1, CarriedStays
  <1>3. ASSUME ~disturbed' PROVE Undisturbed'
    <2>1. Undisturbed /\ req.pc = "idle"
      BY <1>1, <1>3 DEF SeriesInv
    <2>2. Apart'
      BY <1>1, <2>1 DEF Apart
    <2>3. Booked'
      BY <1>1, <2>1 DEF Undisturbed, Booked, Booking
    <2>4. Reached'
      BY <1>1, <2>1 DEF Undisturbed, Reached, Open, Awaits, Announced, Future, IsFuture
    <2>5. LimitsGrow => Numbered'
      BY <1>1, <2>1 DEF Undisturbed, Numbered
    <2>6. QED
      BY <2>2, <2>3, <2>4, <2>5 DEF Undisturbed
  <1>4. QED
    BY <1>2, <1>3

LEMMA JobWindowKeeps ==
    ASSUME SeriesInv, JobWindow
    PROVE  CarriedOn' /\ (~disturbed' => Undisturbed')
  <1>1. UNCHANGED <<now, series, occs, made, req, own, touched, disturbed>> /\ job.pc = "window"
    BY DEF JobWindow, bounds, editing
  <1>2. CarriedOn'
    BY <1>1, CarriedStays
  <1>3. ASSUME ~disturbed' PROVE Undisturbed'
    <2>1. Undisturbed /\ req.pc = "idle" /\ job.copy = series /\ series.status = "active"
      BY <1>1, <1>3 DEF SeriesInv, Undisturbed, Apart
    <2>2. CASE job' = NoJob
      <3>1. job'.pc = "idle"
        BY <2>2 DEF NoJob
      <3>2. Apart' /\ Booked'
        BY <1>1, <2>1, <3>1 DEF Undisturbed, Apart, Booked, Booking
      <3>3. Reached'
        BY <1>1, <2>1 DEF Undisturbed, Reached, Open, Awaits, Announced, Future, IsFuture
      <3>4. LimitsGrow => Numbered'
        BY <1>1, <2>1, <3>1 DEF Undisturbed, Numbered
      <3>5. QED
        BY <3>2, <3>3, <3>4 DEF Undisturbed
    <2>3. CASE job' = [job EXCEPT !.pc = "loop", !.left = Needed, !.total = Cardinality(occs),
                                  !.last = LastDate, !.day = DayOf(LastDate)]
      <3>1. job \in Job
        BY DEF SeriesInv, Typed, LocalsTyped
      <3>2. /\ job'.pc = "loop" /\ job'.copy = job.copy
            /\ job'.total = Cardinality(occs) /\ job'.last = LastDate
        <4> HIDE DEF Needed, LastDate, DayOf
        <4>1. QED
          BY <2>3, <3>1 DEF Job
      <3>3. \A o \in occs : Booking(o) => o.date <= LastDate
        BY LastIsLast DEF SeriesInv, Typed
      <3>4. Apart'
        BY <1>1, <2>1, <3>2 DEF Apart
      <3>5. Booked'
        BY <1>1, <2>1, <3>2, <3>3 DEF Undisturbed, Booked, Booking
      <3>6. Reached'
        BY <1>1, <2>1 DEF Undisturbed, Reached, Open, Awaits, Announced, Future, IsFuture
      <3>7. LimitsGrow => Numbered'
        <4>1. Cardinality(occs) \in Nat
          BY FS_CardinalityType DEF SeriesInv, Typed, TableTyped
        <4>2. QED
          BY <1>1, <2>1, <3>2, <4>1 DEF Undisturbed, Numbered
      <3>8. QED
        BY <3>4, <3>5, <3>6, <3>7 DEF Undisturbed
    <2>4. QED
      BY <2>2, <2>3 DEF JobWindow
  <1>4. QED
    BY <1>2, <1>3

LEMMA JobTurnKeeps ==
    ASSUME EndlessCalendar, SeriesInv, JobTurn
    PROVE  CarriedOn' /\ (~disturbed' => Undisturbed')
  <1>1. UNCHANGED <<now, series, req, own, touched, disturbed>> /\ job.pc = "loop"
        /\ job.copy \in SeriesRow /\ job.day \in Nat \ {0} /\ job \in Job
    BY DEF JobTurn, bounds, editing, SeriesInv, Typed, LocalsTyped
  <1> DEFINE next == NextDate(job.last, job.copy.rule, job.day)
  <1>2. next \in Nat /\ next > job.last
    BY <1>1, NextIsLater DEF Job, SeriesRow
  <1>3. CASE job' = NoJob /\ occs' = occs
    <2>1. CarriedOn'
      BY <1>1, <1>3, CarriedStays
    <2>2. ASSUME ~disturbed' PROVE Undisturbed'
      <3>1. job'.pc = "idle" /\ Undisturbed
        BY <1>1, <1>3, <2>2 DEF NoJob, SeriesInv
      <3>2. Apart' /\ Booked'
        BY <1>1, <1>3, <3>1 DEF Undisturbed, Apart, Booked, Booking
      <3>3. Reached'
        BY <1>1, <1>3, <3>1 DEF Undisturbed, Reached, Open, Awaits, Announced, Future, IsFuture
      <3>4. LimitsGrow => Numbered'
        BY <1>1, <1>3, <3>1 DEF Undisturbed, Numbered
      <3>5. QED
        BY <3>2, <3>3, <3>4 DEF Undisturbed
    <2>3. QED
      BY <2>1, <2>2
  <1>4. CASE /\ AddOccurrence(job.copy, next) /\ ~Exhausted(job.copy, job.total, next)
             /\ job' = [job EXCEPT !.left = @ - 1, !.total = @ + 1, !.last = next]
    <2> HIDE DEF next
    <2> DEFINE new == [id |-> made + 1, date |-> next, status |-> "published",
                       version |-> job.copy.version]
    <2>1. occs' = occs \cup {new} /\ new.date = next /\ new.status = "published"
          /\ new.version = job.copy.version /\ new.id = made + 1
      BY <1>4 DEF AddOccurrence
    <2> HIDE DEF new
    <2>2. CarriedOn'
      BY <1>1, CarriedStays
    <2>3. ASSUME ~disturbed' PROVE Undisturbed'
      <3>1. Undisturbed /\ req.pc = "idle" /\ job.copy = series /\ series.status = "active"
            /\ req.rows = {}
        BY <1>1, <2>3 DEF SeriesInv, Undisturbed, Apart, Typed, LocalsTyped
      <3>2. /\ job'.pc = "loop" /\ job'.copy = series /\ job'.last = next
            /\ job'.total = job.total + 1 /\ job.total \in Nat /\ job.last \in Nat
        BY <1>1, <1>4, <3>1 DEF Job
      <3>3. Apart'
        BY <1>1, <3>1, <3>2 DEF Apart
      <3>4. Booked'
        <4>1. \A o \in occs : Booking(o) => o.date < next /\ o.date \in Nat
          BY <1>1, <1>2, <3>1, <3>2 DEF Undisturbed, Booked, SeriesInv, Typed, TableTyped, Occ
        <4>2. \A o \in occs' : Booking(o)' => o.date <= next
          BY <1>1, <1>2, <2>1, <4>1 DEF Booking
        <4>3. ASSUME NEW o1 \in occs', NEW o2 \in occs', Booking(o1)', Booking(o2)', o1.date = o2.date
              PROVE  o1.id = o2.id
          <5>1. Booking(o1) /\ Booking(o2)
            BY <1>1, <4>3 DEF Booking
          <5>2. CASE o1 \in occs /\ o2 \in occs
            BY <3>1, <4>3, <5>1, <5>2 DEF Undisturbed, Booked
          <5>3. CASE o1 = new \/ o2 = new
            BY <1>2, <2>1, <4>1, <4>3, <5>1, <5>3
          <5>4. QED
            BY <2>1, <5>2, <5>3
        <4>4. QED
          BY <1>1, <3>1, <3>2, <4>2, <4>3 DEF Booked
      <3>5. Reached'
        <4>1. \A o \in Announced(touched["update"])' : o \in Announced(touched["update"]) \/ o = new
          BY <1>1, <2>1 DEF Announced, Future, IsFuture
        <4>2. \A o \in Announced(touched["update"]) : o.version = series.version \/ Awaits(o, "update")
          BY <3>1 DEF Undisturbed, Reached, NoSeries
        <4>3. QED
          BY <1>1, <2>1, <3>1, <4>1, <4>2 DEF Reached, Awaits
      <3>6. ASSUME LimitsGrow PROVE Numbered'
        <4>1. Numbered
          BY <3>1, <3>6 DEF Undisturbed
        <4>2. IsFiniteSet(occs)
          BY DEF SeriesInv, Typed, TableTyped
        <4>3. Cardinality(occs) \in Nat /\ Cardinality(occs') \in Nat
              /\ Cardinality(occs') <= Cardinality(occs) + 1
          BY <2>1, <4>2, AddedOne
        <4>4. series.limit = None \/ job.total < series.limit
          BY <1>1, <1>4, <3>1, <3>2 DEF Exhausted, SeriesRow, None
        <4>5. series.limit \in Nat
          BY <1>1, <3>1 DEF SeriesRow
        <4>6. QED
          BY <1>1, <3>1, <3>2, <4>1, <4>3, <4>4, <4>5 DEF Numbered
      <3>7. QED
        BY <3>3, <3>4, <3>5, <3>6 DEF Undisturbed
    <2>4. QED
      BY <2>2, <2>3
  <1>5. QED
    BY <1>3, <1>4 DEF JobTurn

-----------------------------------------------------------------------------
(* The steps of a request                                                  *)

LEMMA InitialTurnKeeps ==
    ASSUME EndlessCalendar, SeriesInv, InitialTurn
    PROVE  CarriedOn' /\ (~disturbed' => Undisturbed')
  <1>1. UNCHANGED <<now, series, job, own, touched, disturbed>> /\ req.pc = "initial"
        /\ req.copy \in SeriesRow /\ req.day \in Nat \ {0} /\ req \in Req /\ req.rows = {} /\ req.held = {}
        /\ req.copy = series /\ series.status = "active"
    BY DEF InitialTurn, bounds, editing, SeriesInv, Typed, LocalsTyped, CarriedOn
  <1> DEFINE next == NextDate(req.date, req.copy.rule, req.day)
  <1>2. next \in Nat /\ next > req.date
    BY <1>1, NextIsLater DEF Req, SeriesRow
  <1>3. CASE req' = NoReq /\ occs' = occs
    <2>0. req'.pc = "idle" /\ req'.rows = {} /\ req'.op = "none"
      BY <1>3 DEF NoReq
    <2>1. CarriedOn'
      BY <1>1, <1>3, <2>0 DEF SeriesInv, CarriedOn, Stopped, Edited
    <2>2. ASSUME ~disturbed' PROVE Undisturbed'
      <3>1. Undisturbed
        BY <1>1, <2>2 DEF SeriesInv
      <3>2. Apart' /\ Booked'
        BY <1>1, <1>3, <2>0, <3>1 DEF Undisturbed, Apart, Booked, Booking
      <3>3. Reached'
        BY <1>1, <1>3, <2>0, <3>1
        DEF Undisturbed, Reached, Open, Awaits, Announced, Future, IsFuture
      <3>4. LimitsGrow => Numbered'
        BY <1>1, <1>3, <2>0, <3>1 DEF Undisturbed, Numbered
      <3>5. QED
        BY <3>2, <3>3, <3>4 DEF Undisturbed
    <2>3. QED
      BY <2>1, <2>2
  <1>4. CASE /\ AddOccurrence(req.copy, req.date) /\ ~Exhausted(req.copy, req.turn, req.date)
             /\ req' = [req EXCEPT !.turn = @ + 1, !.date = next]
    <2> HIDE DEF next
    <2> DEFINE new == [id |-> made + 1, date |-> req.date, status |-> "published",
                       version |-> req.copy.version]
    <2>1. occs' = occs \cup {new} /\ new.date = req.date /\ new.status = "published"
          /\ new.version = req.copy.version /\ new.id = made + 1
      BY <1>4 DEF AddOccurrence
    <2> HIDE DEF new
    <2>0. /\ req'.pc = "initial" /\ req'.rows = {} /\ req'.copy = req.copy /\ req'.op = req.op
          /\ req'.turn = req.turn + 1 /\ req'.date = next /\ req.turn \in Nat /\ req.date \in Nat
      BY <1>1, <1>4 DEF Req
    <2>2. CarriedOn'
      BY <1>1, <2>0 DEF SeriesInv, CarriedOn
    <2>3. ASSUME ~disturbed' PROVE Undisturbed'
      <3>1. Undisturbed /\ job.pc = "idle"
        BY <1>1, <2>3 DEF SeriesInv, Undisturbed, Apart
      <3>3. Apart'
        BY <1>1, <3>1 DEF Apart
      <3>4. Booked'
        <4>1. \A o \in occs : Booking(o) => o.date < req.date /\ o.date \in Nat
          BY <1>1, <3>1 DEF Undisturbed, Booked, SeriesInv, Typed, TableTyped, Occ
        <4>2. \A o \in occs' : Booking(o)' => o.date < next
          BY <1>1, <1>2, <2>0, <2>1, <4>1 DEF Booking
        <4>3. ASSUME NEW o1 \in occs', NEW o2 \in occs', Booking(o1)', Booking(o2)', o1.date = o2.date
              PROVE  o1.id = o2.id
          <5>1. Booking(o1) /\ Booking(o2)
            BY <1>1, <4>3 DEF Booking
          <5>2. CASE o1 \in occs /\ o2 \in occs
            BY <3>1, <4>3, <5>1, <5>2 DEF Undisturbed, Booked
          <5>3. CASE o1 = new \/ o2 = new
            BY <2>0, <2>1, <4>1, <4>3, <5>1, <5>3
          <5>4. QED
            BY <2>1, <5>2, <5>3
        <4>4. QED
          BY <1>1, <2>0, <3>1, <4>2, <4>3 DEF Booked
      <3>5. Reached'
        <4>1. \A o \in Announced(touched["update"])' : o \in Announced(touched["update"]) \/ o = new
          BY <1>1, <2>1 DEF Announced, Future, IsFuture
        <4>2. \A o \in Announced(touched["update"]) : o.version = series.version \/ Awaits(o, "update")
          BY <1>1, <3>1 DEF Undisturbed, Reached, NoSeries
        <4>3. \A o \in Announced(touched["update"]) : o.version = series.version
          BY <1>1, <4>2 DEF Awaits
        <4>4. QED
          BY <1>1, <2>0, <2>1, <4>1, <4>3 DEF Reached
      <3>6. ASSUME LimitsGrow PROVE Numbered'
        <4>1. Numbered
          BY <3>1, <3>6 DEF Undisturbed
        <4>2. IsFiniteSet(occs)
          BY DEF SeriesInv, Typed, TableTyped
        <4>3. Cardinality(occs) \in Nat /\ Cardinality(occs') \in Nat
              /\ Cardinality(occs') <= Cardinality(occs) + 1
          BY <2>1, <4>2, AddedOne
        <4>4. series.limit = None \/ req.turn < series.limit
          BY <1>1, <1>4, <2>0 DEF Exhausted, SeriesRow, None
        <4>5. series.limit \in Nat
          BY <1>1 DEF SeriesRow
        <4>6. QED
          BY <1>1, <2>0, <3>1, <4>1, <4>3, <4>4, <4>5 DEF Numbered
      <3>7. QED
        BY <3>3, <3>4, <3>5, <3>6 DEF Undisturbed
    <2>4. QED
      BY <2>2, <2>3
  <1>5. QED
    BY <1>3, <1>4 DEF InitialTurn

\* The fields of the two copies that a request may write.
LEMMA CopyFields ==
    ASSUME SeriesInv, req.pc = "save"
    PROVE  /\ req.op = "stop" => /\ req.copy.status = "stopped"
                                 /\ req.copy.version = series.version
                                 /\ req.copy.limit = series.limit
           /\ req.op = "update" => /\ req.copy.status = series.status
                                   /\ req.copy.limit \in NewLimits \cup {series.limit}
                                   /\ req.copy.limit # series.limit => req.copy.limit # None
           /\ req.op \in {"stop", "update"} /\ series \in SeriesRow
  <1>1. req.op \in {"stop", "update"} /\ series \in SeriesRow
    BY DEF SeriesInv, CarriedOn, Typed, LocalsTyped, Row
  <1>2. CASE req.op = "stop"
    <2>1. req.copy = [series EXCEPT !.status = "stopped"]
      BY <1>2 DEF SeriesInv, CarriedOn, Stopped
    <2>2. QED
      BY <1>1, <1>2, <2>1 DEF SeriesRow
  <1>3. CASE req.op = "update"
    <2>1. PICK n \in NewLimits, e \in NewEnds : req.copy = Edited(series, n, e)
      BY <1>3 DEF SeriesInv, CarriedOn
    <2> DEFINE l == IF n = None THEN series.limit ELSE n
               u == IF e = Keep THEN series.end ELSE e
    <2>2. l \in NewLimits \cup {series.limit} /\ (l # series.limit => l # None)
      OBVIOUS
    <2>3. req.copy = [series EXCEPT !.limit = l, !.end = u, !.version = series.version + 1]
      BY <2>1 DEF Edited
    <2> HIDE DEF l, u
    <2>4. req.copy.status = series.status /\ req.copy.limit = l
      BY <1>1, <2>3 DEF SeriesRow
    <2>5. QED
      BY <1>1, <1>3, <2>2, <2>4
  <1>4. QED
    BY <1>1, <1>2, <1>3

LEMMA SaveSeriesKeeps ==
    ASSUME SeriesInv, SaveSeries
    PROVE  CarriedOn' /\ (~disturbed' => Undisturbed')
  <1>1. UNCHANGED <<now, occs, job, own, touched, disturbed>> /\ req.pc = "save"
        /\ req.copy \in SeriesRow /\ req \in Req /\ req.rows = {} /\ req.held = {} /\ series # NoSeries
        /\ series.limit \in Limits \cup NewLimits
    BY DEF SaveSeries, bounds, editing, SeriesInv, Typed, LocalsTyped, CarriedOn
  <1>2. CASE req' = NoReq /\ series' = series
    <2>1. req'.pc = "idle" /\ req'.rows = {} /\ req'.op = "none"
      BY <1>2 DEF NoReq
    <2>2. CarriedOn'
      BY <1>1, <1>2, <2>1 DEF SeriesInv, CarriedOn
    <2>3. ASSUME ~disturbed' PROVE Undisturbed'
      <3>1. Undisturbed
        BY <1>1, <2>3 DEF SeriesInv
      <3>2. Apart' /\ Booked'
        BY <1>1, <1>2, <2>1, <3>1 DEF Undisturbed, Apart, Booked, Booking
      <3>3. Reached'
        BY <1>1, <1>2, <2>1, <3>1
        DEF Undisturbed, Reached, Open, Awaits, Announced, Future, IsFuture
      <3>4. LimitsGrow => Numbered'
        BY <1>1, <1>2, <2>1, <3>1 DEF Undisturbed, Numbered
      <3>5. QED
        BY <3>2, <3>3, <3>4 DEF Undisturbed
    <2>4. QED
      BY <2>2, <2>3
  <1>3. CASE req' = [req EXCEPT !.pc = "find"] /\ series' = req.copy
    <2>1. /\ req'.pc = "find" /\ req'.rows = {} /\ req'.op = req.op /\ req'.copy = req.copy
          /\ req.copy # NoSeries
      BY <1>1, <1>3 DEF Req, SeriesRow, NoSeries
    <2>2. CarriedOn'
      BY <1>1, <1>3, <2>1, CopyFields DEF SeriesInv, CarriedOn
    <2>3. ASSUME ~disturbed' PROVE Undisturbed'
      <3>1. Undisturbed /\ job.pc = "idle"
        BY <1>1, <2>3 DEF SeriesInv, Undisturbed, Apart
      <3>2. Apart' /\ Booked'
        BY <1>1, <1>3, <2>1, <3>1 DEF Undisturbed, Apart, Booked, Booking
      <3>3. Reached'
        <4>1. \A op : Announced(touched[op])' = Announced(touched[op])
          BY <1>1 DEF Announced, Future, IsFuture
        <4>2. \A o : Awaits(o, req.op)'
          BY <2>1 DEF Awaits
        <4>3. CASE req.op = "stop"
          BY <1>1, <1>3, <2>1, <3>1, <4>1, <4>2, <4>3, CopyFields
          DEF Undisturbed, Reached, Awaits
        <4>4. CASE req.op = "update"
          BY <1>1, <1>3, <2>1, <3>1, <4>1, <4>2, <4>4, CopyFields
          DEF Undisturbed, Reached, Awaits
        <4>5. QED
          BY <1>1, <4>3, <4>4, CopyFields
      <3>4. ASSUME LimitsGrow PROVE Numbered'
        <4>1. Numbered
          BY <3>1, <3>4 DEF Undisturbed
        <4>2. Cardinality(occs) \in Nat
          BY FS_CardinalityType DEF SeriesInv, Typed, TableTyped
        <4>3. req.copy.limit # series.limit =>
                 series.limit # None /\ series.limit <= req.copy.limit
          BY <1>1, <3>4, CopyFields DEF LimitsGrow
        <4>4. series.limit \in Nat /\ req.copy.limit \in Nat
          BY <1>1, CopyFields DEF SeriesRow
        <4>5. QED
          BY <1>1, <1>3, <2>1, <3>1, <4>1, <4>2, <4>3, <4>4 DEF Numbered
      <3>5. QED
        BY <3>2, <3>3, <3>4 DEF Undisturbed
    <2>4. QED
      BY <2>2, <2>3
  <1>4. QED
    BY <1>2, <1>3 DEF SaveSeries

LEMMA FindRowsKeeps ==
    ASSUME SeriesInv, FindRows
    PROVE  CarriedOn' /\ (~disturbed' => Undisturbed')
  <1>1. UNCHANGED <<now, series, occs, job, own>> /\ req.pc = "find"
        /\ req.copy \in SeriesRow /\ req \in Req /\ req.rows = {} /\ series # NoSeries
        /\ req.op \in {"update", "stop"} /\ req.copy = series
    BY DEF FindRows, SeriesInv, Typed, LocalsTyped, CarriedOn
  <1>2. /\ \A op : Announced(touched[op]) \subseteq Future
        /\ \A op : Announced(touched[op])' \subseteq Future
        /\ Future \subseteq occs
    BY <1>1 DEF Announced, Future, IsFuture
  <1>3. ASSUME req' = NoReq
        PROVE  req'.pc = "idle" /\ req'.rows = {} /\ req'.op = "none" /\ CarriedOn'
    <2>1. req'.pc = "idle" /\ req'.rows = {} /\ req'.op = "none"
      BY <1>3 DEF NoReq
    <2>2. CarriedOn'
      BY <1>1, <2>1 DEF SeriesInv, CarriedOn
    <2>3. QED
      BY <2>1, <2>2
  <1>4. CASE req' = NoReq /\ disturbed' = disturbed /\ Future = {}
    <2>1. req'.pc = "idle" /\ req'.rows = {} /\ req'.op = "none" /\ CarriedOn'
      BY <1>3, <1>4
    <2>2. ASSUME ~disturbed' PROVE Undisturbed'
      <3>1. Undisturbed /\ job.pc = "idle"
        BY <1>1, <1>4, <2>2 DEF SeriesInv, Undisturbed, Apart
      <3>2. Apart' /\ Booked'
        BY <1>1, <2>1, <3>1 DEF Undisturbed, Apart, Booked, Booking
      <3>3. \A op : Announced(touched[op])' = {}
        BY <1>2, <1>4
      <3>4. Reached'
        BY <2>1, <3>3 DEF Reached
      <3>5. LimitsGrow => Numbered'
        BY <1>1, <2>1, <3>1 DEF Undisturbed, Numbered
      <3>6. QED
        BY <3>2, <3>4, <3>5 DEF Undisturbed
    <2>3. QED
      BY <2>1, <2>2
  <1>5. CASE /\ req' = [req EXCEPT !.pc = "rows", !.rows = Future] /\ disturbed' = disturbed
             /\ touched' = [touched EXCEPT ![req.op] = {}]
    <2>1. /\ req'.pc = "rows" /\ req'.rows = Future /\ req'.op = req.op /\ req'.copy = req.copy
      <3> HIDE DEF Future
      <3>1. QED
        BY <1>1, <1>5 DEF Req
    <2>2. CarriedOn'
      BY <1>1, <2>1 DEF SeriesInv, CarriedOn
    <2>3. ASSUME ~disturbed' PROVE Undisturbed'
      <3>1. Undisturbed /\ job.pc = "idle"
        BY <1>1, <1>5, <2>3 DEF SeriesInv, Undisturbed, Apart
      <3>2. Apart'
        BY <1>1, <3>1 DEF Apart
      <3>3. Booked'
        BY <1>1, <1>2, <2>1, <3>1 DEF Undisturbed, Booked, Booking
      <3>4. Reached'
        <4>1. \A o \in Announced(touched[req.op])' : Awaits(o, req.op)'
          BY <1>1, <1>2, <2>1 DEF Awaits
        <4>2. \A op \in {"stop", "update"} : op # req.op => touched'[op] = touched[op]
          BY <1>5 DEF SeriesInv, Typed, EditsTyped
        <4>3. \A op \in {"stop", "update"} :
                 op # req.op => Announced(touched[op])' = Announced(touched[op])
          BY <1>1, <4>2 DEF Announced, Future, IsFuture
        <4>4. CASE req.op = "stop"
          <5>1. \A o \in Announced(touched["update"]) : o.version = series.version
            BY <1>1, <3>1, <4>4 DEF Undisturbed, Reached, Awaits
          <5>2. QED
            BY <1>1, <2>1, <4>1, <4>3, <4>4, <5>1 DEF Reached
        <4>5. CASE req.op = "update"
          <5>1. series.status = "stopped" => Announced(touched["stop"]) = {}
            BY <3>1, <4>5 DEF Undisturbed, Reached, Awaits
          <5>2. series.status = "stopped" => \A r \in Future : ~Open(r, "stop")
            BY <5>1 DEF Announced, Open
          <5>3. \A r : Open(r, "stop")' = Open(r, "stop")
            BY <4>2, <4>5 DEF Open
          <5>4. QED
            BY <1>1, <2>1, <4>1, <4>3, <4>5, <5>1, <5>2, <5>3 DEF Reached
        <4>6. QED
          BY <1>1, <4>4, <4>5
      <3>5. LimitsGrow => Numbered'
        BY <1>1, <2>1, <3>1 DEF Undisturbed, Numbered
      <3>6. QED
        BY <3>2, <3>3, <3>4, <3>5 DEF Undisturbed
    <2>4. QED
      BY <2>2, <2>3
  <1>6. CASE req' = NoReq /\ disturbed'
    BY <1>3, <1>6
  <1>7. QED
    <2>1. \/ /\ req' = (IF Future = {} THEN NoReq ELSE [req EXCEPT !.pc = "rows", !.rows = Future])
             /\ disturbed' = disturbed /\ touched' = [touched EXCEPT ![req.op] = {}]
          \/ req' = NoReq /\ disturbed'
      BY DEF FindRows
    <2> HIDE DEF Future
    <2>2. QED
      BY <1>4, <1>5, <1>6, <2>1

\* A turn of the loop over the occurrences keeps the invariant, when it leaves the
\* occurrence that it goes on from unpublished, or an update writes back its row
\* with the new version.
LEMMA TurnKeeps ==
    ASSUME SeriesInv, req.pc \in {"rows", "cancel"}, NEW id,
           NEW rows \in SUBSET req.rows, GoOn(rows),
           UNCHANGED <<now, series, job, own, touched, disturbed>>,
           Cardinality(occs') <= Cardinality(occs), IsFiniteSet(occs'),
           \A r \in (req.rows \cup req.held) \ rows : r.id = id,
           \A x \in occs' : x.status = "published" =>
              \/ x \in occs /\ x.id # id
              \/ /\ req.op = "update" /\ x.version = series.version
                 /\ \E r \in req.rows : r.status = "published" /\ r.id = x.id /\ r.date = x.date
    PROVE  CarriedOn' /\ (~disturbed' => Undisturbed')
  <1>1. /\ req.copy \in SeriesRow /\ series # NoSeries
        /\ req.op \in {"update", "stop"} /\ req.copy = series
    BY DEF SeriesInv, Typed, LocalsTyped, CarriedOn
  <1>2. \/ req'.pc = "idle" /\ req'.rows = {} /\ req'.op = "none" /\ rows = {}
        \/ /\ req'.pc = "rows" /\ req'.rows = rows /\ req'.held = {}
           /\ req'.op = req.op /\ req'.copy = req.copy
    <2>1. \/ req' = NoReq /\ rows = {}
          \/ /\ req'.pc = "rows" /\ req'.rows = rows /\ req'.held = {}
             /\ req'.op = req.op /\ req'.copy = req.copy
      BY <1>1, GoesOn DEF SeriesInv
    <2>2. NoReq.pc = "idle" /\ NoReq.rows = {} /\ NoReq.op = "none"
      BY DEF NoReq
    <2>3. QED
      BY <2>1, <2>2
  <1>3. CarriedOn'
    BY <1>1, <1>2 DEF SeriesInv, CarriedOn
  <1>4. ASSUME ~disturbed' PROVE Undisturbed'
    <2>1. Undisturbed /\ job.pc = "idle"
      BY <1>4 DEF SeriesInv, Undisturbed, Apart
    <2>2. Apart'
      BY <2>1 DEF Apart
    <2>3. \A x : Booking(x)' = Booking(x)
      BY DEF Booking
    <2>4. Booked'
      <3>1. ASSUME NEW x \in occs' \cup req'.rows, Booking(x)
            PROVE  \E y \in occs \cup req.rows : Booking(y) /\ y.date = x.date /\ y.id = x.id
        BY <1>2, <3>1 DEF Booking
      <3>2. QED
        BY <1>2, <2>1, <2>3, <3>1 DEF Undisturbed, Booked
    <2>5. Reached'
      <3>1. ASSUME NEW op \in {"stop", "update"}, NEW x \in Announced(touched[op])'
            PROVE  /\ x \in occs' /\ x.status = "published" /\ x.date > now /\ x.id \notin touched[op]
                   /\ x \in occs => x \in Announced(touched[op])
        BY <3>1 DEF Announced, Future, IsFuture
      <3>2. ASSUME NEW x, x.id # id, NEW op, Awaits(x, op) PROVE Awaits(x, op)'
        BY <1>2, <3>2 DEF Awaits
      <3>3. ASSUME series.status = "stopped", NEW x \in Announced(touched["stop"])'
            PROVE  Awaits(x, "stop")'
        <4>1. CASE x \in occs /\ x.id # id
          <5>1. Awaits(x, "stop") /\ req.op = "stop"
            BY <2>1, <3>1, <3>3, <4>1 DEF Undisturbed, Reached, Awaits
          <5>2. QED
            BY <3>2, <4>1, <5>1
        <4>2. ASSUME req.op = "update", NEW r \in req.rows, r.status = "published",
                     r.id = x.id, r.date = x.date
              PROVE  FALSE
          <5>1. Open(r, "stop") /\ r.date > now
            BY <3>1, <4>2 DEF Open
          <5>2. QED
            BY <2>1, <3>3, <4>2, <5>1 DEF Undisturbed, Reached
        <4>3. QED
          BY <3>1, <4>1, <4>2
      <3>4. ASSUME NEW x \in Announced(touched["update"])'
            PROVE  x.version = series.version \/ Awaits(x, "update")'
        <4>1. CASE x \in occs /\ x.id # id
          <5>1. x.version = series.version \/ (Awaits(x, "update") /\ req.op = "update")
            BY <1>1, <2>1, <3>1, <4>1 DEF Undisturbed, Reached, Awaits
          <5>2. QED
            BY <3>2, <4>1, <5>1
        <4>2. QED
          BY <3>1, <4>1
      <3>5. series.status = "stopped" /\ req'.op = "update" =>
               \A r \in req'.rows : r.date > now => ~Open(r, "stop")
        BY <1>2, <2>1 DEF Undisturbed, Reached
      <3>6. \A r : Open(r, "stop")' = Open(r, "stop")
        BY DEF Open
      <3>7. QED
        BY <3>3, <3>4, <3>5, <3>6 DEF Reached
    <2>6. ASSUME LimitsGrow PROVE Numbered'
      <3>1. Cardinality(occs') \in Nat /\ Cardinality(occs) \in Nat
        BY FS_CardinalityType DEF SeriesInv, Typed, TableTyped
      <3>2. series.limit \in Nat
        BY <1>1 DEF SeriesRow
      <3>3. Numbered
        BY <2>1, <2>6 DEF Undisturbed
      <3>4. QED
        BY <1>2, <2>1, <3>1, <3>2, <3>3 DEF Numbered
    <2>7. QED
      BY <2>2, <2>4, <2>5, <2>6 DEF Undisturbed
  <1>5. QED
    BY <1>3, <1>4

\* A turn that fails leaves what the request carries.
LEMMA LoopCarries ==
    ASSUME SeriesInv, req.pc \in {"rows", "cancel"}, NEW rows \in SUBSET req.rows, GoOn(rows),
           UNCHANGED series, disturbed'
    PROVE  CarriedOn' /\ (~disturbed' => Undisturbed')
  <1>1. /\ req.copy \in SeriesRow /\ series # NoSeries /\ req.copy = series
        /\ req.op \in {"update", "stop"}
    BY DEF SeriesInv, Typed, LocalsTyped, CarriedOn
  <1>2. \/ req' = NoReq
        \/ req'.pc = "rows" /\ req'.op = req.op /\ req'.copy = req.copy
    BY <1>1, GoesOn DEF SeriesInv
  <1>3. NoReq.pc = "idle"
    BY DEF NoReq
  <1>4. QED
    BY <1>1, <1>2, <1>3 DEF SeriesInv, CarriedOn

LEMMA RowTurnKeeps ==
    ASSUME SeriesInv, RowTurn
    PROVE  CarriedOn' /\ (~disturbed' => Undisturbed')
  <1>1. /\ UNCHANGED <<now, series, job, own, touched>> /\ req.pc = "rows" /\ req.held = {}
        /\ req.op \in {"update", "stop"} /\ req.copy = series /\ Typed /\ TableTyped
    BY DEF RowTurn, bounds, editing, SeriesInv, Typed, LocalsTyped, CarriedOn
  <1>2. PICK o \in req.rows : ~ThroughCancel(o) /\ GoOn(req.rows \ {o})
                              /\ ((Write(Applied(o)) /\ UNCHANGED disturbed) \/ Skipped)
    BY DEF RowTurn
  <1>3. /\ Applied(o) \in Occ /\ Applied(o).id = o.id
        /\ Applied(o).status = "published" =>
              /\ req.op = "update" /\ o.status = "published"
              /\ Applied(o).date = o.date /\ Applied(o).version = series.version
    BY <1>1, AppliedIsRow
  <1>4. CASE Skipped
    BY <1>1, <1>2, <1>4, LoopCarries DEF Skipped
  <1>5. CASE Write(Applied(o)) /\ UNCHANGED disturbed
    <2>1. /\ TableTyped' /\ Cardinality(occs') <= Cardinality(occs)
          /\ \A x \in occs' : (x.id # o.id /\ x \in occs) \/ x = Applied(o)
      <3>1. UNCHANGED <<now, made, late>> /\ disturbed' \in BOOLEAN
        BY <1>1, <1>5 DEF RowTurn, TableTyped
      <3>2. QED
        BY <1>1, <1>3, <1>5, <3>1, WriteTyped
    <2>2. \A x \in occs' : x.status = "published" =>
             \/ x \in occs /\ x.id # o.id
             \/ /\ req.op = "update" /\ x.version = series.version
                /\ \E r \in req.rows : r.status = "published" /\ r.id = x.id /\ r.date = x.date
      BY <1>3, <2>1
    <2>3. IsFiniteSet(occs')
      BY <2>1 DEF TableTyped
    <2>4. \A r \in (req.rows \cup req.held) \ (req.rows \ {o}) : r.id = o.id
      BY <1>1
    <2>5. QED
      BY <1>1, <1>2, <1>5, <2>1, <2>2, <2>3, <2>4, TurnKeeps
  <1>6. QED
    BY <1>2, <1>4, <1>5

LEMMA CancelFindKeeps ==
    ASSUME SeriesInv, CancelFind
    PROVE  CarriedOn' /\ (~disturbed' => Undisturbed')
  <1>1. /\ UNCHANGED <<now, series, job, own, touched>> /\ req.pc = "rows" /\ req.held = {}
        /\ req.op \in {"update", "stop"} /\ req.copy = series /\ req \in Req
        /\ IsFiniteSet(occs)
    BY DEF CancelFind, bounds, editing, SeriesInv, Typed, LocalsTyped, TableTyped, CarriedOn
  <1>2. PICK o \in req.rows :
           /\ ThroughCancel(o)
           /\ \/ /\ \E c \in occs :
                       /\ c.id = o.id
                       /\ req' = [req EXCEPT !.pc = "cancel", !.rows = @ \ {o},
                                             !.held = {[c EXCEPT !.status = "cancelled"]}]
                 /\ UNCHANGED <<occs, disturbed>>
              \/ /\ \A c \in occs : c.id = o.id => c.status # "published"
                 /\ GoOn(req.rows \ {o})
                 /\ UNCHANGED <<occs, disturbed>>
              \/ GoOn(req.rows \ {o}) /\ Skipped
    BY DEF CancelFind
  <1>3. CASE GoOn(req.rows \ {o}) /\ Skipped
    BY <1>1, <1>3, LoopCarries DEF Skipped
  <1>4. CASE /\ \A c \in occs : c.id = o.id => c.status # "published"
             /\ GoOn(req.rows \ {o}) /\ UNCHANGED <<occs, disturbed>>
    <2>1. \A r \in (req.rows \cup req.held) \ (req.rows \ {o}) : r.id = o.id
      BY <1>1
    <2>2. Cardinality(occs') <= Cardinality(occs)
      BY <1>1, <1>4, FS_CardinalityType
    <2>3. QED
      BY <1>1, <1>4, <2>1, <2>2, TurnKeeps
  <1>5. ASSUME NEW c \in occs, c.id = o.id, UNCHANGED <<occs, disturbed>>,
               req' = [req EXCEPT !.pc = "cancel", !.rows = @ \ {o},
                                  !.held = {[c EXCEPT !.status = "cancelled"]}]
        PROVE  CarriedOn' /\ (~disturbed' => Undisturbed')
    <2> DEFINE h == [c EXCEPT !.status = "cancelled"]
    <2>1. h.id = o.id
      BY <1>5 DEF SeriesInv, Typed, TableTyped, Occ
    <2>2. /\ req'.pc = "cancel" /\ req'.rows = req.rows \ {o} /\ req'.held = {h}
          /\ req'.op = req.op /\ req'.copy = req.copy
      BY <1>1, <1>5 DEF Req
    <2> HIDE DEF h
    <2>3. req.op = "stop"
      BY <1>2 DEF ThroughCancel
    <2>4. CarriedOn'
      BY <1>1, <2>2, <2>3 DEF SeriesInv, CarriedOn
    <2>5. ASSUME ~disturbed' PROVE Undisturbed'
      <3>1. Undisturbed /\ job.pc = "idle"
        BY <1>1, <1>5, <2>5 DEF SeriesInv, Undisturbed, Apart
      <3>2. Apart' /\ Booked'
        BY <1>1, <1>5, <2>2, <3>1 DEF Undisturbed, Apart, Booked, Booking
      <3>3. ASSUME NEW x, NEW op, Awaits(x, op) PROVE Awaits(x, op)'
        BY <1>1, <2>1, <2>2, <3>3 DEF Awaits
      <3>4. \A op : Announced(touched[op])' = Announced(touched[op])
        BY <1>1, <1>5 DEF Announced, Future, IsFuture
      <3>5. Reached'
        BY <1>1, <2>2, <2>3, <3>1, <3>3, <3>4 DEF Undisturbed, Reached
      <3>6. LimitsGrow => Numbered'
        BY <1>1, <1>5, <2>2, <3>1 DEF Undisturbed, Numbered
      <3>7. QED
        BY <3>2, <3>5, <3>6 DEF Undisturbed
    <2>6. QED
      BY <2>4, <2>5
  <1>6. QED
    BY <1>2, <1>3, <1>4, <1>5

LEMMA CancelWriteKeeps ==
    ASSUME SeriesInv, CancelWrite
    PROVE  CarriedOn' /\ (~disturbed' => Undisturbed')
  <1>1. /\ UNCHANGED <<now, series, job, own, touched>> /\ req.pc = "cancel" /\ req \in Req
        /\ GoOn(req.rows) /\ TableTyped
        /\ (((\E new \in req.held : Write(new)) /\ UNCHANGED disturbed) \/ Skipped)
    BY DEF CancelWrite, bounds, editing, SeriesInv, Typed, LocalsTyped
  <1>2. CASE Skipped
    BY <1>1, <1>2, LoopCarries DEF Skipped
  <1>3. ASSUME NEW new \in req.held, Write(new), UNCHANGED disturbed
        PROVE  CarriedOn' /\ (~disturbed' => Undisturbed')
    <2>1. new \in Occ /\ new.status = "cancelled"
      BY <1>1 DEF SeriesInv, Typed, LocalsTyped, Req
    <2>2. /\ TableTyped' /\ Cardinality(occs') <= Cardinality(occs)
          /\ \A x \in occs' : (x.id # new.id /\ x \in occs) \/ x = new
      <3>1. UNCHANGED <<now, made, late>> /\ disturbed' \in BOOLEAN
        BY <1>1, <1>3 DEF CancelWrite, TableTyped
      <3>2. QED
        BY <1>1, <1>3, <2>1, <3>1, WriteTyped
    <2>3. \A x \in occs' : x.status = "published" => x \in occs /\ x.id # new.id
      BY <2>1, <2>2
    <2>4. IsFiniteSet(occs')
      BY <2>2 DEF TableTyped
    <2>5. \A r \in (req.rows \cup req.held) \ req.rows : r.id = new.id
      BY <1>1, <1>3 DEF SeriesInv, Typed, LocalsTyped
    <2>6. QED
      BY <1>1, <1>3, <2>2, <2>3, <2>4, <2>5, TurnKeeps
  <1>4. QED
    BY <1>1, <1>2, <1>3

-----------------------------------------------------------------------------
(* The start of a request, and the other components                        *)

LEMMA BeginKeeps ==
    ASSUME SeriesInv,
           \/ \E rule \in Rules, d \in Starts, n \in Limits, e \in Ends : CreateSeries(rule, d, n, e)
           \/ \E n \in NewLimits, e \in NewEnds : UpdateSeries(n, e)
           \/ StopSeries \/ DeleteSeries
    PROVE  CarriedOn' /\ (~disturbed' => Undisturbed')
  <1>1. ASSUME NEW r, Begin(r)
        PROVE  /\ req.pc = "idle" /\ req.rows = {} /\ req' = r
               /\ ~disturbed' => ~disturbed /\ job.pc = "idle"
    BY <1>1 DEF Begin, SeriesInv, Typed, LocalsTyped
  <1>2. CASE \E rule \in Rules, d \in Starts, n \in Limits, e \in Ends : CreateSeries(rule, d, n, e)
    <2> PICK rule \in Rules, d \in Starts, n \in Limits, e \in Ends : CreateSeries(rule, d, n, e)
      BY <1>2
    <2> DEFINE es == [status |-> "active", rule |-> rule, limit |-> n, end |-> e, version |-> 0]
    <2>1. UNCHANGED <<now, occs, job, own, touched>> /\ made = 0 /\ series' = es
          /\ Begin([NoReq EXCEPT !.pc = "initial", !.copy = es, !.date = d, !.day = DayOf(d)])
      BY DEF CreateSeries, editing
    <2>2. es.status = "active" /\ es.limit = n
      OBVIOUS
    <2> HIDE DEF es
    <2>3. /\ req' = [NoReq EXCEPT !.pc = "initial", !.copy = es, !.date = d, !.day = DayOf(d)]
          /\ ~disturbed' => job.pc = "idle"
      BY <1>1, <2>1
    <2>4. req'.pc = "initial" /\ req'.rows = {} /\ req'.copy = es /\ req'.turn = 0 /\ req'.op = "none"
      BY <2>3 DEF NoReq
    <2>5. occs = {}
      BY <2>1 DEF SeriesInv, Typed, TableTyped
    <2>6. CarriedOn'
      BY <2>1, <2>2, <2>4, <2>5 DEF CarriedOn
    <2>7. ASSUME ~disturbed' PROVE Undisturbed'
      <3>1. job'.pc = "idle"
        BY <2>1, <2>3, <2>7
      <3>2. Apart' /\ Booked'
        BY <2>1, <2>4, <2>5, <3>1 DEF Apart, Booked
      <3>3. \A w : Announced(touched[w])' = {}
        BY <2>1, <2>5 DEF Announced, Future
      <3>4. Reached'
        BY <2>4, <3>3 DEF Reached
      <3>5. Cardinality(occs') = 0
        BY <2>1, <2>5, FS_EmptySet
      <3>6. Numbered'
        BY <2>1, <2>2, <2>4, <3>1, <3>5, ConstantsAssumption DEF Numbered
      <3>7. QED
        BY <3>2, <3>4, <3>6 DEF Undisturbed
    <2>8. QED
      BY <2>6, <2>7
  <1>3. ASSUME NEW op \in {"update", "stop"}, NEW es, Found,
               Begin([NoReq EXCEPT !.pc = "save", !.op = op, !.copy = es]),
               op = "stop" => es = Stopped(series),
               op = "update" => \E n \in NewLimits, e \in NewEnds : es = Edited(series, n, e),
               UNCHANGED <<now, series, occs, job, own, touched>>
        PROVE  CarriedOn' /\ (~disturbed' => Undisturbed')
    <2>1. /\ req.pc = "idle" /\ req.rows = {}
          /\ req' = [NoReq EXCEPT !.pc = "save", !.op = op, !.copy = es]
          /\ ~disturbed' => ~disturbed /\ job.pc = "idle"
      BY <1>1, <1>3
    <2>2. req'.pc = "save" /\ req'.op = op /\ req'.copy = es /\ req'.rows = {}
      BY <2>1 DEF NoReq
    <2>3. CarriedOn'
      <3>1. series # NoSeries /\ series.limit \in Limits \cup NewLimits
        BY <1>3 DEF Found, SeriesInv, CarriedOn
      <3>2. op = "stop" => es = Stopped(series')
        BY <1>3
      <3>3. op = "update" => \E n \in NewLimits, e \in NewEnds : es = Edited(series', n, e)
        BY <1>3
      <3>4. Stopped(series') = Stopped(series)' /\ \A n, e : Edited(series', n, e) = Edited(series, n, e)'
        BY DEF Stopped, Edited
      <3>5. QED
        BY <1>3, <2>2, <3>1, <3>2, <3>3, <3>4 DEF CarriedOn
    <2>4. ASSUME ~disturbed' PROVE Undisturbed'
      <3>1. job.pc = "idle" /\ Undisturbed
        BY <2>1, <2>4 DEF SeriesInv
      <3>2. Apart' /\ Booked'
        BY <1>3, <2>1, <2>2, <3>1 DEF Apart, Undisturbed, Booked, Booking
      <3>3. \A w : Announced(touched[w])' = Announced(touched[w])
        BY <1>3 DEF Announced, Future, IsFuture
      <3>4. \A o, x : ~Awaits(o, x)
        BY <2>1 DEF Awaits
      <3>5. Reached'
        BY <1>3, <2>1, <2>2, <3>1, <3>3, <3>4 DEF Undisturbed, Reached
      <3>6. LimitsGrow => Numbered'
        BY <1>3, <2>2, <3>1 DEF Undisturbed, Numbered
      <3>7. QED
        BY <3>2, <3>5, <3>6 DEF Undisturbed
    <2>5. QED
      BY <2>3, <2>4
  <1>4. CASE \E n \in NewLimits, e \in NewEnds : UpdateSeries(n, e)
    <2> PICK n \in NewLimits, e \in NewEnds : UpdateSeries(n, e)
      BY <1>4
    <2>1. Found /\ UNCHANGED <<now, series, occs, job, own, touched>>
          /\ Begin([NoReq EXCEPT !.pc = "save", !.op = "update", !.copy = Edited(series, n, e)])
      BY DEF UpdateSeries, editing
    <2>2. QED
      BY <1>3, <2>1
  <1>5. CASE StopSeries
    <2>1. Found /\ UNCHANGED <<now, series, occs, job, own, touched>>
          /\ Begin([NoReq EXCEPT !.pc = "save", !.op = "stop", !.copy = Stopped(series)])
      BY <1>5 DEF StopSeries, editing
    <2>2. QED
      BY <1>3, <2>1
  <1>6. CASE DeleteSeries
    <2>1. UNCHANGED <<now, job>> /\ series' = NoSeries /\ occs' = {} /\ req' = NoReq
          /\ (~disturbed' => job.pc = "idle")
      BY <1>1, <1>6 DEF DeleteSeries
    <2>2. req'.pc = "idle" /\ req'.rows = {} /\ series'.limit = None /\ series'.status = "none"
      BY <2>1 DEF NoReq, NoSeries
    <2>3. CarriedOn'
      BY <2>1, <2>2 DEF CarriedOn
    <2>4. ASSUME ~disturbed' PROVE Undisturbed'
      <3>1. job'.pc = "idle"
        BY <2>1, <2>4
      <3>2. Apart' /\ Booked' /\ Numbered'
        BY <2>1, <2>2, <3>1 DEF Apart, Booked, Numbered
      <3>3. \A w : Announced(touched[w])' = {}
        BY <2>1 DEF Announced, Future
      <3>4. Reached'
        BY <2>2, <3>3 DEF Reached
      <3>5. QED
        BY <3>2, <3>4 DEF Undisturbed
    <2>5. QED
      BY <2>3, <2>4
  <1>7. QED
    BY <1>2, <1>4, <1>5, <1>6

\* What the other components do announces nothing but what event requests write.
LEMMA OthersAnnounceNothing ==
    ASSUME SeriesInv, EditRead \/ EditWrite \/ Cleanup \/ Tick
    PROVE  /\ UNCHANGED <<series, job, req, disturbed>>
           /\ own \subseteq own' /\ \A x \in occs' : Booking(x)' => x \in occs
           /\ \A op \in {"stop", "update"} :
                 /\ touched[op] \subseteq touched'[op]
                 /\ \A x \in occs' :
                       x.status = "published" /\ x.id \notin touched'[op] => x \in occs
           /\ now' \in Int /\ now' >= now
           /\ Cardinality(occs') <= Cardinality(occs)
  <1>1. IsFiniteSet(occs) /\ now \in Int
    BY ConstantsAssumption DEF SeriesInv, Typed, TableTyped
  <1>2. Cardinality(occs) \in Nat
    BY <1>1, FS_CardinalityType
  <1>3. CASE Tick \/ EditRead
    BY <1>1, <1>2, <1>3 DEF Tick, EditRead, bounds, editing
  <1>4. CASE Cleanup
    <2>1. occs' \subseteq occs /\ UNCHANGED <<now, series, job, req, disturbed, own, touched>>
      BY <1>4 DEF Cleanup, bounds, editing
    <2>2. Cardinality(occs') <= Cardinality(occs)
      BY <1>1, <2>1, FS_Subset
    <2>3. QED
      BY <1>1, <2>1, <2>2
  <1>5. CASE EditWrite
    <2>1. PICK p \in pending :
             /\ Write(p.row) /\ own' = own \cup {p.row.id}
             /\ touched' = [op \in {"stop", "update"} |-> touched[op] \cup {p.row.id}]
      BY <1>5 DEF EditWrite
    <2>2. UNCHANGED <<now, series, made, job, req, disturbed, late>>
      BY <1>5 DEF EditWrite
    <2>3. p.row \in Occ /\ TableTyped
      BY DEF SeriesInv, Typed, EditsTyped
    <2>4. /\ Cardinality(occs') <= Cardinality(occs)
          /\ \A x \in occs' : (x.id # p.row.id /\ x \in occs) \/ x = p.row
      <3>1. disturbed' \in BOOLEAN
        BY <2>2, <2>3 DEF TableTyped
      <3>2. QED
        BY <2>1, <2>2, <2>3, <3>1, WriteTyped
    <2>5. \A op \in {"stop", "update"} : touched'[op] = touched[op] \cup {p.row.id}
      BY <2>1
    <2>6. QED
      BY <1>1, <2>1, <2>2, <2>4, <2>5 DEF Booking
  <1>6. QED
    BY <1>3, <1>4, <1>5

LEMMA OthersKeep ==
    ASSUME SeriesInv, EditRead \/ EditWrite \/ Cleanup \/ Tick
    PROVE  CarriedOn' /\ (~disturbed' => Undisturbed')
  <1>1. /\ UNCHANGED <<series, job, req, disturbed>>
        /\ own \subseteq own' /\ \A x \in occs' : Booking(x)' => x \in occs
        /\ \A op \in {"stop", "update"} :
              /\ touched[op] \subseteq touched'[op]
              /\ \A x \in occs' :
                    x.status = "published" /\ x.id \notin touched'[op] => x \in occs
        /\ now' \in Int /\ now' >= now
        /\ Cardinality(occs') <= Cardinality(occs)
    BY OthersAnnounceNothing
  <1>2. CarriedOn'
    BY <1>1, CarriedStays
  <1>3. ASSUME ~disturbed' PROVE Undisturbed'
    <2>1. Undisturbed
      BY <1>1, <1>3 DEF SeriesInv
    <2>2. \A x : Booking(x)' => Booking(x)
      BY <1>1 DEF Booking
    <2>3. Apart' /\ Booked'
      BY <1>1, <2>1, <2>2 DEF Undisturbed, Apart, Booked
    <2>4. Reached'
      BY <1>1, <2>1, ReachedStays DEF Undisturbed
    <2>5. ASSUME LimitsGrow PROVE Numbered'
      <3>1. Cardinality(occs) \in Nat /\ Cardinality(occs') \in Nat
        <4>1. IsFiniteSet(occs')
          BY OccsFinite DEF Next, SeriesInv, Typed, TableTyped
        <4>2. QED
          BY <4>1, FS_CardinalityType DEF SeriesInv, Typed, TableTyped
      <3>2. series.limit \in Nat /\ job.total \in Nat /\ req.turn \in Nat
        BY ConstantsAssumption DEF SeriesInv, Typed, LocalsTyped, Job, Req, Row, SeriesRow, NoSeries, None
      <3>3. Numbered
        BY <2>1, <2>5 DEF Undisturbed
      <3>4. QED
        BY <1>1, <3>1, <3>2, <3>3 DEF Numbered
    <2>6. QED
      BY <2>3, <2>4, <2>5 DEF Undisturbed
  <1>4. QED
    BY <1>2, <1>3

-----------------------------------------------------------------------------
(* The invariant                                                           *)

LEMMA SeriesInvInit == Init => SeriesInv
  <1> SUFFICES ASSUME Init PROVE SeriesInv
    OBVIOUS
  <1>1. Typed
    BY TypedInit
  <1>2. NoReq.pc = "idle" /\ NoReq.rows = {} /\ NoJob.pc = "idle" /\ NoSeries.limit = None
        /\ NoSeries.status = "none"
    BY DEF NoReq, NoJob, NoSeries
  <1>3. occs = {} /\ req = NoReq /\ job = NoJob /\ series = NoSeries
    BY DEF Init
  <1>4. CarriedOn
    BY <1>2, <1>3 DEF CarriedOn
  <1>5. Apart /\ Booked /\ Numbered
    BY <1>2, <1>3 DEF Apart, Booked, Numbered
  <1>6. \A op : Announced(touched[op]) = {}
    BY <1>3 DEF Announced, Future
  <1>7. Reached
    BY <1>2, <1>3, <1>6 DEF Reached
  <1>8. QED
    BY <1>1, <1>4, <1>5, <1>7 DEF SeriesInv, Undisturbed

LEMMA SeriesInvStep ==
    ASSUME EndlessCalendar, SeriesInv, [Next]_vars
    PROVE  SeriesInv'
  <1>1. Typed'
    BY TypedStep DEF SeriesInv
  <1>2. CASE UNCHANGED vars
    <2>1. CarriedOn'
      BY <1>2, CarriedStays DEF vars
    <2>2. ASSUME ~disturbed' PROVE Undisturbed'
      BY <1>2, <2>2
      DEF vars, bounds, editing, SeriesInv, Undisturbed, Apart, Booked, Reached, Numbered,
          Booking, Open, Awaits, Announced, Future, IsFuture
    <2>3. QED
      BY <1>1, <2>1, <2>2 DEF SeriesInv
  <1>3. CASE Next
    <2>1. CarriedOn' /\ (~disturbed' => Undisturbed')
      BY <1>3, JobReadKeeps, JobWindowKeeps, JobTurnKeeps, InitialTurnKeeps, SaveSeriesKeeps,
         FindRowsKeeps, RowTurnKeeps, CancelFindKeeps, CancelWriteKeeps, BeginKeeps, OthersKeep
      DEF Next, Generate, Serve
    <2>2. QED
      BY <1>1, <2>1 DEF SeriesInv
  <1>4. QED
    BY <1>2, <1>3

\* As long as the job does not overlap a request, no two upcoming occurrences
\* that the series announced, and that no event request wrote, have one date: the
\* job goes on behind the last one, in months of any length, and a request that
\* writes an old row back does not announce a second one.
THEOREM NoDateTwice ==
    ASSUME EndlessCalendar
    PROVE  Spec => []NoDoubleBooking
  <1>1. SeriesInv /\ [Next]_vars => SeriesInv'
    BY SeriesInvStep
  <1>2. SeriesInv => NoDoubleBooking
    BY DEF SeriesInv, Undisturbed, Booked, Booking, NoDoubleBooking, Announced, Future, Typed, TableTyped
  <1>3. QED
    BY SeriesInvInit, <1>1, <1>2, PTL DEF Spec

\* As long as the job does not overlap a request, a stop and an update have
\* reached every upcoming announced occurrence when they are over, save those that an
\* event request wrote after they had looked for them: it may have read the row, with
\* its status and template, before they changed it.
THEOREM EveryChangeArrives ==
    ASSUME EndlessCalendar
    PROVE  Spec => []ChangesReachAll
  <1>1. SeriesInv /\ [Next]_vars => SeriesInv'
    BY SeriesInvStep
  <1>2. SeriesInv => ChangesReachAll
    BY DEF SeriesInv, Undisturbed, Reached, Awaits, ChangesReachAll, StopCancelsFuture,
           TemplateApplied, Settled
  <1>3. QED
    BY SeriesInvInit, <1>1, <1>2, PTL DEF Spec

\* As long as the job does not overlap a request and no update lowers the limit,
\* the rows of a series are no more than its limit, also when insertions fail.
THEOREM LimitHolds ==
    ASSUME EndlessCalendar, LimitsGrow
    PROVE  Spec => []LimitRespected
  <1>1. SeriesInv /\ [Next]_vars => SeriesInv'
    BY SeriesInvStep
  <1>2. SeriesInv => LimitRespected
    BY DEF SeriesInv, Undisturbed, Numbered, LimitRespected
  <1>3. QED
    BY SeriesInvInit, <1>1, <1>2, PTL DEF Spec

=============================================================================
