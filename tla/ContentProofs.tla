---------------------------- MODULE ContentProofs ----------------------------
(* Theorems about EventContent, for every number of requests, hosts and      *)
(* restarts: the mutex of the co-hosts and the limit it protects, the        *)
(* windows of the limiter, the invitations and the pictures.                 *)
EXTENDS EventContent, FiniteSetTheorems, TLAPS

AllLabels == {"idle"} \cup CommentLabels \cup MessageLabels \cup QuestionLabels
                \cup CoHostLabels \cup CardLabels
Adding == {"h_lock"} \cup Holding

\* Exactly the request between the lock and its answer holds the mutex, and the
\* count that it checked is right until its insert.
HostInv ==
    /\ pc \in [Procs -> AllLabels]
    /\ cohosts = [h \in Hosts |-> cohosts[h]]
    /\ target \in [Procs -> Hosts \cup {NoHost}]
    /\ cohostMutex \in Procs \cup {NoProc}
    /\ \A p \in Procs : /\ pc[p] \in Adding => target[p] \in Hosts
                        /\ pc[p] \in Holding <=> cohostMutex = p
                        /\ pc[p] = "h_insert" => CountByEventID < MaxCoHosts
    /\ CoHostsBounded

-----------------------------------------------------------------------------
\* One element more: a cardinality higher by at most one.
LEMMA OneMore ==
    ASSUME NEW F, NEW G, NEW k, IsFiniteSet(F), G \subseteq F \cup {k}
    PROVE  Cardinality(G) <= Cardinality(F) + 1
  <1>1. IsFiniteSet(F \cup {k}) /\ Cardinality(F \cup {k}) \in Nat /\ Cardinality(F) \in Nat
    BY FS_AddElement, FS_CardinalityType
  <1>2. Cardinality(G) <= Cardinality(F \cup {k}) /\ Cardinality(G) \in Nat
    BY <1>1, FS_Subset, FS_CardinalityType
  <1>3. CASE k \in F
    <2>1. F \cup {k} = F
      BY <1>3
    <2>2. QED
      BY <1>1, <1>2, <2>1
  <1>4. CASE k \notin F
    <2>1. Cardinality(F \cup {k}) = Cardinality(F) + 1
      BY <1>4, FS_AddElement
    <2>2. QED
      BY <1>2, <2>1
  <1>5. QED
    BY <1>3, <1>4

Rows(f) == {h \in Hosts : f[h] # 0}

LEMMA RowsFinite ==
    ASSUME NEW f
    PROVE  IsFiniteSet(Rows(f)) /\ Cardinality(Rows(f)) \in Nat
  <1>1. IsFiniteSet(Hosts) /\ Rows(f) \subseteq Hosts
    BY CoHostsAssumption DEF Rows
  <1>2. QED
    BY <1>1, FS_Subset, FS_CardinalityType

\* A step that leaves the co-hosts alone and moves at most one goroutine, outside
\* the mutex.
Outside ==
    /\ UNCHANGED cohostVars
    /\ \/ pc' = pc
       \/ \E p \in Procs, a \in AllLabels \ Adding :
             pc[p] \notin Adding /\ pc' = [pc EXCEPT ![p] = a]

LEMMA OutsideStep ==
    ASSUME HostInv, Outside
    PROVE  HostInv'
  <1>1. UNCHANGED <<cohosts, cohostMutex, target>>
    BY DEF Outside, cohostVars
  <1>2. CountByEventID' = CountByEventID
    BY <1>1 DEF CountByEventID
  <1>3. CASE pc' = pc
    BY <1>1, <1>2, <1>3 DEF HostInv, CoHostsBounded
  <1>4. ASSUME NEW p \in Procs, NEW a \in AllLabels \ Adding,
               pc[p] \notin Adding, pc' = [pc EXCEPT ![p] = a]
        PROVE  HostInv'
    BY <1>1, <1>2, <1>4 DEF HostInv, CoHostsBounded, Adding, Holding
  <1>5. QED
    BY <1>3, <1>4 DEF Outside

-----------------------------------------------------------------------------
(* Which steps are outside                                                 *)

LEMMA CommentsOutside == HostInv /\ CommentsNext /\ UNCHANGED hostVars => Outside
  <1> SUFFICES ASSUME HostInv, CommentsNext, UNCHANGED hostVars PROVE Outside
    OBVIOUS
  <1>1. UNCHANGED cohostVars
    BY DEF hostVars
  <1>2. ASSUME NEW p \in Procs,
               (\E a \in Attendees : PostFind(p, a)) \/ PostCount(p) \/ PostWindow(p) \/ PostInsert(p)
        PROVE  Outside
    BY <1>1, <1>2 DEF PostFind, PostCount, PostWindow, PostInsert, Admit, Goto, Outside, AllLabels,
                      Adding, Holding, CommentLabels
  <1>3. CASE (\E c \in comments : DeleteComment(c)) \/ ListFirst \/ ListNext
    BY <1>1, <1>3 DEF DeleteComment, ListFirst, ListNext, AdmitOnce, Outside
  <1>4. QED
    BY <1>2, <1>3 DEF CommentsNext

LEMMA MessagesOutside == HostInv /\ MessagesNext /\ UNCHANGED hostVars => Outside
  <1> SUFFICES ASSUME HostInv, MessagesNext, UNCHANGED hostVars PROVE Outside
    OBVIOUS
  <1>1. UNCHANGED cohostVars
    BY DEF hostVars
  <1>2. ASSUME NEW p \in Procs, (\E k \in Actors : SendCheck(p, k)) \/ SendCreate(p) \/ SendRecord(p)
        PROVE  Outside
    BY <1>1, <1>2 DEF SendCheck, SendCreate, SendRecord, Admit, Goto, Outside, AllLabels,
                      Adding, Holding, MessageLabels
  <1>3. CASE \E k \in Actors : SendRefused(k)
    BY <1>1, <1>3 DEF SendRefused, AdmitOnce, Outside
  <1>4. QED
    BY <1>2, <1>3 DEF MessagesNext

LEMMA QuestionsOutside == HostInv /\ QuestionsNext /\ UNCHANGED hostVars => Outside
  <1> SUFFICES ASSUME HostInv, QuestionsNext, UNCHANGED hostVars PROVE Outside
    OBVIOUS
  <1>1. UNCHANGED cohostVars
    BY DEF hostVars
  <1>2. ASSUME NEW p \in Procs, NEW a \in QuestionLabels \cup {"idle"},
               pc[p] \in QuestionLabels \cup {"idle"}, pc' = [pc EXCEPT ![p] = a]
        PROVE  Outside
    BY <1>1, <1>2 DEF Outside, AllLabels, Adding, Holding, QuestionLabels
  <1>3. ASSUME NEW p \in Procs,
               \/ CreateCount(p) \/ CreateInsert(p) \/ UpdateWrite(p) \/ SoftDelete(p)
               \/ \E q \in DOMAIN questions : UpdateFind(p, q) \/ DeleteFind(p, q)
        PROVE  Outside
    BY <1>2, <1>3 DEF CreateCount, CreateInsert, UpdateWrite, SoftDelete, UpdateFind, DeleteFind,
                      Admit, Goto, QuestionLabels
  <1>4. ASSUME NEW p \in Procs,
               \/ \E a \in Attendees, f \in Forms : AnswerFind(p, a, f)
               \/ AnswerUpdate(p) \/ AnswerDone(p)
        PROVE  Outside
    BY <1>2, <1>4 DEF AnswerFind, AnswerUpdate, AnswerDone, Saved, Admit, Goto, QuestionLabels
  <1>5. ASSUME NEW p \in Procs, AnswerInsert(p)
        PROVE  Outside
    BY <1>2, <1>5 DEF AnswerInsert, Saved, Goto, QuestionLabels
  <1>6. ASSUME NEW p \in Procs, NEW q, AnswerNext(p, q)
        PROVE  Outside
    <2>1. pc[p] = "a_next" /\ \E a \in {"idle", "a_next", "a_insert", "a_update"} : Goto(p, a)
      BY <1>6 DEF AnswerNext, AfterMisfit
    <2>2. QED
      BY <1>2, <2>1 DEF Goto, QuestionLabels
  <1>7. QED
    BY <1>3, <1>4, <1>5, <1>6 DEF QuestionsNext

LEMMA CardsOutside == HostInv /\ CardsNext /\ UNCHANGED cohostVars => Outside
  <1> SUFFICES ASSUME HostInv, CardsNext, UNCHANGED cohostVars PROVE Outside
    OBVIOUS
  <1>1. ASSUME NEW p \in Procs, NEW a \in CardLabels \cup {"idle"},
               pc[p] \in CardLabels \cup {"idle"}, pc' = [pc EXCEPT ![p] = a]
        PROVE  Outside
    BY <1>1 DEF Outside, AllLabels, Adding, Holding, CardLabels
  <1>2. ASSUME NEW p \in Procs,
               \/ \E data \in Payloads : UploadList(p, data)
               \/ \E e \in Cards, link \in Links : Save(p, e, link)
               \/ Duplicate(p)
        PROVE  Outside
    BY <1>1, <1>2 DEF UploadList, Save, Duplicate, Admit, CardLabels
  <1>3. ASSUME NEW p \in Procs, RemoveFiles(p) \/ UploadWrite(p) \/ UpsertFind(p) \/ UpsertWrite(p)
        PROVE  Outside
    BY <1>1, <1>3 DEF RemoveFiles, UploadWrite, UpsertFind, UpsertWrite, Goto, CardLabels
  <1>4. CASE SweepImages
    BY <1>4 DEF SweepImages, scopeVars, requestVars, Outside
  <1>5. QED
    BY <1>2, <1>3, <1>4 DEF CardsNext

LEMMA ScopeOutside == Scope \/ (\E k \in Actors : Dismiss(k)) => Outside
  BY DEF Scope, Dismiss, Tick, CloseEvent, CleanupLimiter, Refuse, AdmitOnce, requestVars,
         hostVars, Outside

LEMMA RemoveOutside == ASSUME NEW a, RemoveAttendee(a) PROVE Outside
  BY DEF RemoveAttendee, LoseAttendee, requestVars, hostVars, Outside

-----------------------------------------------------------------------------
(* The steps that touch the co-hosts                                       *)

\* Goroutine p goes to a label where it neither holds the mutex nor counts; the rows
\* get no more, and a mutex that it held is released.
LEMMA Leaving ==
    ASSUME HostInv, NEW p \in Procs,
           NEW a \in AllLabels \ Adding, pc' = [pc EXCEPT ![p] = a],
           NEW t \in Hosts \cup {NoHost}, target' = [target EXCEPT ![p] = t],
           cohostMutex' = IF cohostMutex = p THEN NoProc ELSE cohostMutex,
           cohosts' = [h \in Hosts |-> cohosts'[h]],
           \A h \in Hosts : cohosts'[h] # 0 => cohosts[h] # 0
    PROVE  HostInv'
  <1>1. CountByEventID' <= CountByEventID
    <2>1. Rows(cohosts') \subseteq Rows(cohosts)
      BY DEF Rows
    <2>2. Cardinality(Rows(cohosts')) <= Cardinality(Rows(cohosts))
      BY <2>1, RowsFinite, FS_Subset
    <2>3. QED
      BY <2>2 DEF CountByEventID, Rows
  <1>2. CountByEventID \in Nat /\ CountByEventID' \in Nat /\ MaxCoHosts \in Nat
    BY RowsFinite, CoHostsAssumption DEF CountByEventID, Rows
  <1>3. CoHostsBounded' /\ (CountByEventID < MaxCoHosts => CountByEventID' < MaxCoHosts)
    BY <1>1, <1>2 DEF HostInv, CoHostsBounded
  <1>4. pc' \in [Procs -> AllLabels] /\ target' \in [Procs -> Hosts \cup {NoHost}]
        /\ cohostMutex' \in Procs \cup {NoProc}
    BY DEF HostInv
  <1>5. ASSUME NEW q \in Procs
        PROVE  /\ pc'[q] \in Adding => target'[q] \in Hosts
               /\ pc'[q] \in Holding <=> cohostMutex' = q
               /\ pc'[q] = "h_insert" => (CountByEventID < MaxCoHosts)'
    <2>1. CASE q = p
      BY <1>5, <2>1, CoHostsAssumption DEF HostInv, Adding, Holding
    <2>2. CASE q # p
      BY <1>3, <1>5, <2>2, CoHostsAssumption DEF HostInv, Adding, Holding
    <2>3. QED
      BY <2>1, <2>2
  <1>6. QED
    BY <1>3, <1>4, <1>5 DEF HostInv

\* Goroutine p goes on between the lock and its answer.
LEMMA Going ==
    ASSUME HostInv, NEW p \in Procs, NEW a \in Adding,
           pc' = [pc EXCEPT ![p] = a],
           target' \in [Procs -> Hosts \cup {NoHost}],
           target'[p] \in Hosts, \A q \in Procs \ {p} : target'[q] = target[q],
           cohostMutex' = IF a \in Holding THEN p ELSE cohostMutex,
           a \in Holding => cohostMutex \in {NoProc, p}, a \in Holding \/ pc[p] \notin Holding,
           UNCHANGED cohosts, a = "h_insert" => CountByEventID < MaxCoHosts
    PROVE  HostInv'
  <1>1. CountByEventID' = CountByEventID
    BY DEF CountByEventID
  <1>2. ASSUME NEW q \in Procs
        PROVE  /\ pc'[q] \in Adding => target'[q] \in Hosts
               /\ pc'[q] \in Holding <=> cohostMutex' = q
               /\ pc'[q] = "h_insert" => (CountByEventID < MaxCoHosts)'
    BY <1>1, <1>2, CoHostsAssumption DEF HostInv, Adding, Holding
  <1>3. pc' \in [Procs -> AllLabels]
    BY DEF HostInv, AllLabels, Adding, Holding, CoHostLabels
  <1>4. QED
    BY <1>1, <1>2, <1>3, CoHostsAssumption DEF HostInv, CoHostsBounded

\* The insert of goroutine p, which alone is between its count and its insert.
LEMMA Inserting ==
    ASSUME HostInv, NEW p \in Procs, AddInsert(p)
    PROVE  HostInv'
  <1>1. CASE eventStatus = "deleted" \/ cohosts[target[p]] # 0
    BY <1>1, Leaving, CoHostsAssumption DEF AddInsert, Leave, Goto, HostInv, AllLabels, Adding, Holding
  <1>2. CASE ~(eventStatus = "deleted" \/ cohosts[target[p]] # 0)
    <2>1. /\ pc[p] = "h_insert" /\ cohostMutex = p /\ target[p] \in Hosts
          /\ CountByEventID < MaxCoHosts
      BY DEF AddInsert, HostInv, Adding, Holding
    <2>2. /\ cohosts' = [cohosts EXCEPT ![target[p]] = served]
          /\ pc' = [pc EXCEPT ![p] = "h_notify"] /\ UNCHANGED <<cohostMutex, target>>
      BY <1>2 DEF AddInsert, Goto
    <2>3. Rows(cohosts') \subseteq Rows(cohosts) \cup {target[p]}
      BY <2>2 DEF Rows, HostInv
    <2>4. Cardinality(Rows(cohosts')) <= Cardinality(Rows(cohosts)) + 1
      BY <2>3, OneMore, RowsFinite
    <2>5. CountByEventID' <= MaxCoHosts
      <3>1. CountByEventID = Cardinality(Rows(cohosts)) /\ CountByEventID' = Cardinality(Rows(cohosts'))
        BY DEF CountByEventID, Rows
      <3>2. Cardinality(Rows(cohosts)) \in Nat /\ Cardinality(Rows(cohosts')) \in Nat
        BY RowsFinite
      <3>3. MaxCoHosts \in Nat
        BY CoHostsAssumption
      <3>4. QED
        BY <2>1, <2>4, <3>1, <3>2, <3>3
    <2>6. ASSUME NEW q \in Procs
          PROVE  /\ pc'[q] \in Adding => target'[q] \in Hosts
                 /\ pc'[q] \in Holding <=> cohostMutex' = q
                 /\ pc'[q] # "h_insert"
      BY <2>1, <2>2, <2>6 DEF HostInv, Adding, Holding
    <2>7. cohosts' = [h \in Hosts |-> cohosts'[h]]
      BY <2>2 DEF HostInv
    <2>8. pc' \in [Procs -> AllLabels]
      BY <2>2 DEF HostInv, AllLabels, CoHostLabels, Holding
    <2>9. QED
      BY <2>2, <2>5, <2>6, <2>7, <2>8 DEF HostInv, CoHostsBounded
  <1>3. QED
    BY <1>1, <1>2

LEMMA CoHostsStep == HostInv /\ CoHostsNext => HostInv'
  <1> SUFFICES ASSUME HostInv, CoHostsNext PROVE HostInv'
    OBVIOUS
  <1> USE DEF AllLabels, Adding, Holding, CoHostLabels
  <1>1. ASSUME NEW p \in Procs, NEW h \in Hosts, AddBegin(p, h)
        PROVE  HostInv'
    BY <1>1, Going, CoHostsAssumption DEF AddBegin, Admit, HostInv
  <1>2. ASSUME NEW p \in Procs, NEW h \in Hosts, RemoveCoHostFind(p, h)
        PROVE  HostInv'
    BY <1>2, Leaving, CoHostsAssumption DEF RemoveCoHostFind, Admit, HostInv
  <1>3. ASSUME NEW p \in Procs, AddLock(p)
        PROVE  HostInv'
    <2>1. CASE cohosts[target[p]] # 0
      BY <1>3, <2>1, Leaving, CoHostsAssumption DEF AddLock, MayLock, Leave, Goto, HostInv
    <2>2. CASE cohosts[target[p]] = 0
      BY <1>3, <2>2, Going, CoHostsAssumption DEF AddLock, MayLock, Goto, HostInv
    <2>3. QED
      BY <2>1, <2>2
  <1>4. ASSUME NEW p \in Procs, AddCount(p)
        PROVE  HostInv'
    <2>1. CASE CountByEventID >= MaxCoHosts
      BY <1>4, <2>1, Leaving, CoHostsAssumption DEF AddCount, Leave, Goto, HostInv
    <2>2. CASE ~(CountByEventID >= MaxCoHosts)
      <3>1. CountByEventID < MaxCoHosts
        BY <2>2, RowsFinite, CoHostsAssumption DEF CountByEventID, Rows
      <3>2. QED
        BY <1>4, <2>2, <3>1, Going, CoHostsAssumption DEF AddCount, Goto, HostInv
    <2>3. QED
      BY <2>1, <2>2
  <1>5. ASSUME NEW p \in Procs, AddInsert(p)
        PROVE  HostInv'
    BY <1>5, Inserting
  <1>6. ASSUME NEW p \in Procs, AddNotify(p)
        PROVE  HostInv'
    BY <1>6, Leaving, CoHostsAssumption DEF AddNotify, Leave, Goto, HostInv
  <1>7. ASSUME NEW p \in Procs, RemoveCoHost(p)
        PROVE  HostInv'
    BY <1>7, Leaving, CoHostsAssumption DEF RemoveCoHost, Goto, HostInv
  <1>8. CASE AddRefused \/ CleanupThrottle
    <2>1. UNCHANGED <<pc, cohosts, cohostMutex, target>>
      BY <1>8 DEF AddRefused, CleanupThrottle, AdmitOnce, scopeVars, requestVars
    <2>2. CountByEventID' = CountByEventID
      BY <2>1 DEF CountByEventID
    <2>3. QED
      BY <2>1, <2>2 DEF HostInv, CoHostsBounded
  <1>9. QED
    BY <1>1, <1>2, <1>3, <1>4, <1>5, <1>6, <1>7, <1>8 DEF CoHostsNext

LEMMA NoRows ==
    ASSUME NEW f, f = [h \in Hosts |-> 0]
    PROVE  Rows(f) = {} /\ Cardinality(Rows(f)) = 0
  BY FS_EmptySet DEF Rows

LEMMA DeleteStep == HostInv /\ DeleteEvent => HostInv'
  <1> SUFFICES ASSUME HostInv, DeleteEvent PROVE HostInv'
    OBVIOUS
  <1>1. cohosts' = [h \in Hosts |-> 0] /\ UNCHANGED <<pc, cohostMutex, target>>
    BY DEF DeleteEvent, CoHostsLoseEvent, LoseEvent, requestVars
  <1>2. CountByEventID' = 0
    BY <1>1, NoRows DEF CountByEventID, Rows
  <1>3. CountByEventID \in Nat /\ MaxCoHosts \in Nat
    BY RowsFinite, CoHostsAssumption DEF CountByEventID, Rows
  <1>4. CoHostsBounded' /\ (CountByEventID < MaxCoHosts => CountByEventID' < MaxCoHosts)
    BY <1>2, <1>3 DEF CoHostsBounded
  <1>5. QED
    BY <1>1, <1>4 DEF HostInv

LEMMA RestartStep == HostInv /\ Restart => HostInv'
  <1> SUFFICES ASSUME HostInv, Restart PROVE HostInv'
    OBVIOUS
  <1>1. /\ UNCHANGED cohosts /\ cohostMutex' = NoProc
        /\ pc' = [p \in Procs |-> "idle"] /\ target' = [p \in Procs |-> NoHost]
    BY DEF Restart, LoseMemory, CoHostsLoseMemory
  <1>2. CountByEventID' = CountByEventID
    BY <1>1 DEF CountByEventID
  <1>3. QED
    BY <1>1, <1>2, CoHostsAssumption DEF HostInv, CoHostsBounded, AllLabels, Adding, Holding

LEMMA FailStep == ASSUME HostInv, NEW p \in Procs, Fail(p) PROVE HostInv'
  BY Leaving DEF Fail, Goto, CoHostsForget, HostInv, AllLabels, Adding, Holding

-----------------------------------------------------------------------------
LEMMA HostInit == Init => HostInv
  <1> SUFFICES ASSUME Init PROVE HostInv
    OBVIOUS
  <1>1. /\ cohosts = [h \in Hosts |-> 0] /\ cohostMutex = NoProc
        /\ pc = [p \in Procs |-> "idle"] /\ target = [p \in Procs |-> NoHost]
    BY DEF Init, ScopeInit, CoHostsInit
  <1>2. CoHostsBounded
    BY <1>1, NoRows, CoHostsAssumption DEF CoHostsBounded, CountByEventID, Rows
  <1>3. QED
    BY <1>1, <1>2, CoHostsAssumption DEF HostInv, AllLabels, Adding, Holding

LEMMA HostStep == HostInv /\ [Next]_vars => HostInv'
  <1> SUFFICES ASSUME HostInv, [Next]_vars PROVE HostInv'
    OBVIOUS
  <1>1. CASE Guests
    BY <1>1, CommentsOutside, MessagesOutside, QuestionsOutside, OutsideStep DEF Guests
  <1>2. CASE HostsDesk
    BY <1>2, CoHostsStep, CardsOutside, OutsideStep DEF HostsDesk
  <1>3. CASE Scope \/ \E k \in Actors : Dismiss(k)
    BY <1>3, ScopeOutside, OutsideStep
  <1>4. CASE \E a \in Attendees : RemoveAttendee(a)
    BY <1>4, RemoveOutside, OutsideStep
  <1>5. CASE \E p \in Procs : Fail(p)
    BY <1>5, FailStep
  <1>6. CASE DeleteEvent \/ Restart
    BY <1>6, DeleteStep, RestartStep
  <1>7. CASE UNCHANGED vars
    BY <1>7, OutsideStep DEF vars, scopeVars, requestVars, hostVars, Outside
  <1>8. QED
    BY <1>1, <1>2, <1>3, <1>4, <1>5, <1>6, <1>7 DEF Next

THEOREM HostInvariant == Spec => []HostInv
  BY HostInit, HostStep, PTL DEF Spec

\* The event never has more co-hosts than configured, for any number of requests,
\* hosts and restarts and whatever fails: the count is still right at the insert,
\* because only the holder of the mutex is between them and removals only lower it.
THEOREM CoHostsNeverExceeded == Spec => []CoHostsBounded
  <1>1. HostInv => CoHostsBounded
    BY DEF HostInv
  <1>2. QED
    BY <1>1, HostInvariant, PTL

\* No path of the handler answers, fails or restarts and leaves the mutex locked.
THEOREM MutexAlwaysReleased == Spec => []MutexReleased
  <1>1. HostInv => MutexReleased
    BY DEF HostInv, MutexReleased
  <1>2. QED
    BY <1>1, HostInvariant, PTL

-----------------------------------------------------------------------------
(* The requests of one handler move one goroutine between its own labels.    *)

Placed == pc \in [Procs -> AllLabels] /\ client \in [Procs -> Actors]

\* A step of a handler with the labels L, seen from the scope: at most one
\* goroutine moves, between these labels, and at most one request is admitted.
Moves(L) ==
    /\ \/ UNCHANGED <<pc, client>>
       \/ \E p \in Procs, a \in L \cup {"idle"}, k \in Actors :
             /\ pc[p] \in L \cup {"idle"}
             /\ pc' = [pc EXCEPT ![p] = a] /\ client' = [client EXCEPT ![p] = k]
    /\ \/ \E k \in Actors : Hit(k)
       \/ UNCHANGED <<hits, admitted, served>>
    /\ UNCHANGED worldVars

LEMMA AdmitMoves ==
    ASSUME NEW L, NEW p \in Procs, NEW k \in Actors, NEW a \in L, Admit(p, k, a)
    PROVE  Moves(L)
  BY DEF Admit, Moves

LEMMA GotoMoves ==
    ASSUME Placed, NEW L, NEW p \in Procs, NEW a \in L \cup {"idle"}, pc[p] \in L \cup {"idle"}, Goto(p, a)
    PROVE  Moves(L)
  <1>1. (IF a = "idle" THEN Organizer ELSE client[p]) \in Actors
    BY DEF Placed, Actors
  <1>2. client' = [client EXCEPT ![p] = IF a = "idle" THEN Organizer ELSE client[p]]
    BY DEF Goto, Placed
  <1>3. QED
    BY <1>1, <1>2 DEF Goto, Moves

LEMMA OnceMoves ==
    ASSUME NEW L, NEW k \in Actors, AdmitOnce(k)
    PROVE  Moves(L)
  BY DEF AdmitOnce, Moves

LEMMA CommentsMove == ASSUME Placed, CommentsNext, present \subseteq Attendees PROVE Moves(CommentLabels)
  <1>1. ASSUME NEW p \in Procs, NEW a \in Attendees, PostFind(p, a) PROVE Moves(CommentLabels)
    BY <1>1, AdmitMoves DEF PostFind, CommentLabels, Actors
  <1>2. ASSUME NEW p \in Procs, PostCount(p) \/ PostWindow(p) \/ PostInsert(p) PROVE Moves(CommentLabels)
    <2>1. pc[p] \in CommentLabels /\ \E a \in CommentLabels \cup {"idle"} : Goto(p, a)
      BY <1>2 DEF PostCount, PostWindow, PostInsert, CommentLabels
    <2>2. QED
      BY <2>1, GotoMoves
  <1>3. ASSUME NEW c \in comments, DeleteComment(c) PROVE Moves(CommentLabels)
    <2>1. \E k \in Actors : AdmitOnce(k)
      BY <1>3 DEF DeleteComment, Actors
    <2>2. QED
      BY <2>1, OnceMoves
  <1>4. CASE ListFirst \/ ListNext
    BY <1>4, OnceMoves DEF ListFirst, ListNext, Actors
  <1>5. QED
    BY <1>1, <1>2, <1>3, <1>4 DEF CommentsNext

LEMMA MessagesMove == ASSUME Placed, MessagesNext PROVE Moves(MessageLabels)
  <1>1. ASSUME NEW p \in Procs, NEW k \in Actors, SendCheck(p, k) PROVE Moves(MessageLabels)
    BY <1>1, AdmitMoves DEF SendCheck, MessageLabels
  <1>2. ASSUME NEW p \in Procs, SendCreate(p) \/ SendRecord(p) PROVE Moves(MessageLabels)
    <2>1. pc[p] \in MessageLabels /\ \E a \in MessageLabels \cup {"idle"} : Goto(p, a)
      BY <1>2 DEF SendCreate, SendRecord, MessageLabels
    <2>2. QED
      BY <2>1, GotoMoves
  <1>3. ASSUME NEW k \in Actors, SendRefused(k) PROVE Moves(MessageLabels)
    BY <1>3, OnceMoves DEF SendRefused
  <1>4. QED
    BY <1>1, <1>2, <1>3 DEF MessagesNext

LEMMA QuestionsMove == ASSUME Placed, QuestionsNext PROVE Moves(QuestionLabels)
  <1>1. ASSUME NEW p \in Procs, CreateCount(p) \/ \E q \in DOMAIN questions : UpdateFind(p, q) \/ DeleteFind(p, q)
        PROVE  Moves(QuestionLabels)
    BY <1>1, AdmitMoves DEF CreateCount, UpdateFind, DeleteFind, QuestionLabels, Actors
  <1>2. ASSUME NEW p \in Procs, NEW a \in Attendees, NEW f, AnswerFind(p, a, f)
        PROVE  Moves(QuestionLabels)
    BY <1>2, AdmitMoves DEF AnswerFind, QuestionLabels, Actors
  <1>3. ASSUME NEW p \in Procs,
               \/ CreateInsert(p) \/ UpdateWrite(p) \/ SoftDelete(p)
               \/ AnswerInsert(p) \/ AnswerUpdate(p) \/ AnswerDone(p)
               \/ \E q \in DOMAIN form[p].left : AnswerNext(p, q)
        PROVE  Moves(QuestionLabels)
    <2>1. CASE CreateInsert(p) \/ UpdateWrite(p) \/ SoftDelete(p) \/ AnswerUpdate(p) \/ AnswerDone(p)
      <3>1. pc[p] \in QuestionLabels /\ \E a \in QuestionLabels \cup {"idle"} : Goto(p, a)
        BY <2>1 DEF CreateInsert, UpdateWrite, SoftDelete, AnswerUpdate, AnswerDone, Saved, QuestionLabels
      <3>2. QED
        BY <3>1, GotoMoves
    <2>2. CASE AnswerInsert(p)
      <3>1. pc[p] \in QuestionLabels /\ \E a \in QuestionLabels \cup {"idle"} : Goto(p, a)
        BY <2>2 DEF AnswerInsert, Saved, QuestionLabels
      <3>2. QED
        BY <3>1, GotoMoves
    <2>3. ASSUME NEW q \in DOMAIN form[p].left, AnswerNext(p, q) PROVE Moves(QuestionLabels)
      <3>1. pc[p] \in QuestionLabels /\ \E a \in QuestionLabels \cup {"idle"} : Goto(p, a)
        BY <2>3 DEF AnswerNext, AfterMisfit, QuestionLabels
      <3>2. QED
        BY <3>1, GotoMoves
    <2>4. QED
      BY <1>3, <2>1, <2>2, <2>3
  <1>4. QED
    BY <1>1, <1>2, <1>3 DEF QuestionsNext

LEMMA CoHostsMove == ASSUME Placed, CoHostsNext PROVE Moves(CoHostLabels)
  <1>1. ASSUME NEW p \in Procs, NEW h \in Hosts, AddBegin(p, h) \/ RemoveCoHostFind(p, h)
        PROVE  Moves(CoHostLabels)
    BY <1>1, AdmitMoves DEF AddBegin, RemoveCoHostFind, CoHostLabels, Actors
  <1>2. ASSUME NEW p \in Procs, AddLock(p) \/ AddCount(p) \/ AddInsert(p) \/ AddNotify(p) \/ RemoveCoHost(p)
        PROVE  Moves(CoHostLabels)
    <2>1. pc[p] \in CoHostLabels /\ \E a \in CoHostLabels \cup {"idle"} : Goto(p, a)
      BY <1>2 DEF AddLock, AddCount, AddInsert, AddNotify, RemoveCoHost, Leave, CoHostLabels, Holding
    <2>2. QED
      BY <2>1, GotoMoves
  <1>3. CASE AddRefused
    BY <1>3, OnceMoves DEF AddRefused, Actors
  <1>4. CASE CleanupThrottle
    BY <1>4 DEF CleanupThrottle, scopeVars, requestVars, Moves
  <1>5. QED
    BY <1>1, <1>2, <1>3, <1>4 DEF CoHostsNext

LEMMA CardsMove == ASSUME Placed, CardsNext PROVE Moves(CardLabels)
  <1>1. ASSUME NEW p \in Procs,
               \/ \E data \in Payloads : UploadList(p, data)
               \/ \E e \in Cards, link \in Links : Save(p, e, link)
               \/ Duplicate(p)
        PROVE  Moves(CardLabels)
    BY <1>1, AdmitMoves DEF UploadList, Save, Duplicate, CardLabels, Actors
  <1>2. ASSUME NEW p \in Procs, RemoveFiles(p) \/ UploadWrite(p) \/ UpsertFind(p) \/ UpsertWrite(p)
        PROVE  Moves(CardLabels)
    <2>1. pc[p] \in CardLabels /\ \E a \in CardLabels \cup {"idle"} : Goto(p, a)
      BY <1>2 DEF RemoveFiles, UploadWrite, UpsertFind, UpsertWrite, CardLabels
    <2>2. QED
      BY <2>1, GotoMoves
  <1>3. CASE SweepImages
    BY <1>3 DEF SweepImages, scopeVars, requestVars, Moves
  <1>4. QED
    BY <1>1, <1>2, <1>3 DEF CardsNext

-----------------------------------------------------------------------------
(* The scope: requests are placed, and the limiter admits no more than it may *)

\* Whatever still counts in some window from now on is among the entries that the
\* limiter has kept.
LimiterInv ==
    /\ hits \in [Actors -> SUBSET [at : 0 .. now, no : Nat]]
    /\ admitted \in [Actors -> SUBSET [at : 0 .. now, no : Nat]]
    /\ \A k \in Actors :
          /\ IsFiniteSet(admitted[k])
          /\ hits[k] \subseteq admitted[k]
          /\ \A e \in admitted[k] : /\ e.no < Cardinality(admitted[k])
                                    /\ e.at >= now - RateWindow => e \in hits[k]
          /\ \A t \in Nat : Cardinality(Within(admitted[k], t, t + RateWindow)) <= RateLimit[desk]

ScopeInv ==
    /\ Placed
    /\ now \in 0 .. MaxTime /\ desk \in Desks /\ eventStatus \in {"published", "closed", "deleted"}
    /\ present \subseteq Attendees /\ (eventStatus = "deleted" => present = {})
    /\ served \in 0 .. MaxRequests /\ restarts \in 0 .. MaxRestarts
    /\ LimiterInv

LEMMA WithinFinite ==
    ASSUME NEW S, IsFiniteSet(S), NEW a, NEW b
    PROVE  IsFiniteSet(Within(S, a, b)) /\ Cardinality(Within(S, a, b)) \in Nat
  <1>1. Within(S, a, b) \subseteq S
    BY DEF Within
  <1>2. QED
    BY <1>1, FS_Subset, FS_CardinalityType

\* An entry that is admitted is new, and it does not exceed the limit in any window.
LEMMA HitStep ==
    ASSUME LimiterInv, now \in Nat, desk \in Desks, NEW k \in Actors, Hit(k), UNCHANGED <<now, desk>>
    PROVE  LimiterInv'
  <1> DEFINE new == NewEntry(k)
             old == admitted[k]
             kept == PruneEntries(hits[k])
  <1>1. /\ hits' = [hits EXCEPT ![k] = kept \cup {new}]
        /\ admitted' = [admitted EXCEPT ![k] = old \cup {new}]
        /\ Cardinality(kept) < RateLimit[desk]
    BY DEF Hit, Allow, LimiterInv
  <1>2. /\ IsFiniteSet(old) /\ Cardinality(old) \in Nat
        /\ kept \subseteq hits[k] /\ hits[k] \subseteq old
        /\ old \subseteq [at : 0 .. now, no : Nat]
    BY FS_CardinalityType DEF LimiterInv, PruneEntries
  <1>3. new \in [at : 0 .. now, no : Nat] /\ new.at = now /\ new.no = Cardinality(old)
    BY <1>2 DEF NewEntry
  <1>4. new \notin old
    BY <1>2, <1>3 DEF LimiterInv
  <1>5. IsFiniteSet(old \cup {new}) /\ Cardinality(old \cup {new}) = Cardinality(old) + 1
    BY <1>2, <1>4, FS_AddElement
  <1>6. hits' \in [Actors -> SUBSET [at : 0 .. now, no : Nat]]
        /\ admitted' \in [Actors -> SUBSET [at : 0 .. now, no : Nat]]
    <2>1. kept \cup {new} \in SUBSET [at : 0 .. now, no : Nat] /\ old \cup {new} \in SUBSET [at : 0 .. now, no : Nat]
      BY <1>2, <1>3
    <2>2. QED
      BY <1>1, <2>1 DEF LimiterInv
  <1>7. kept \cup {new} \subseteq old \cup {new}
    BY <1>2
  <1>8. ASSUME NEW e \in old \cup {new}
        PROVE  /\ e.no < Cardinality(old \cup {new})
               /\ e.at >= now - RateWindow => e \in kept \cup {new}
    <2>1. CASE e = new
      BY <1>2, <1>3, <1>5, <2>1
    <2>2. CASE e \in old
      <3>1. e.no < Cardinality(old) /\ (e.at >= now - RateWindow => e \in hits[k]) /\ e.no \in Nat
        BY <1>2, <2>2 DEF LimiterInv
      <3>2. QED
        BY <1>2, <1>5, <3>1 DEF PruneEntries
    <2>3. QED
      BY <2>1, <2>2
  <1>9. ASSUME NEW t \in Nat
        PROVE  Cardinality(Within(old \cup {new}, t, t + RateWindow)) <= RateLimit[desk]
    <2> DEFINE W == Within(old \cup {new}, t, t + RateWindow)
    <2>1. RateWindow \in Nat /\ RateLimit[desk] \in Nat /\ now \in Nat
      BY ScopeAssumption
    <2>2. CASE t <= now /\ now <= t + RateWindow
      <3>1. W \subseteq kept \cup {new}
        BY <1>2, <2>1, <2>2 DEF Within, PruneEntries, LimiterInv
      <3>2. IsFiniteSet(kept) /\ Cardinality(kept) \in Nat
        BY <1>2, FS_Subset, FS_CardinalityType
      <3>3. Cardinality(W) <= Cardinality(kept) + 1
        BY <3>1, <3>2, OneMore
      <3>4. Cardinality(W) \in Nat
        BY <1>5, WithinFinite
      <3>5. QED
        BY <1>1, <2>1, <3>2, <3>3, <3>4
    <2>3. CASE ~(t <= now /\ now <= t + RateWindow)
      <3>1. W = Within(old, t, t + RateWindow)
        BY <1>3, <2>1, <2>3 DEF Within
      <3>2. QED
        BY <3>1 DEF LimiterInv
    <2>4. QED
      BY <2>2, <2>3
  <1>10. ASSUME NEW j \in Actors
        PROVE  /\ IsFiniteSet(admitted'[j])
               /\ hits'[j] \subseteq admitted'[j]
               /\ \A e \in admitted'[j] : /\ e.no < Cardinality(admitted'[j])
                                          /\ e.at >= now - RateWindow => e \in hits'[j]
               /\ \A t \in Nat : Cardinality(Within(admitted'[j], t, t + RateWindow)) <= RateLimit[desk]
    <2>1. CASE j = k
      <3>1. hits'[j] = kept \cup {new} /\ admitted'[j] = old \cup {new}
        BY <1>1, <2>1 DEF LimiterInv
      <3>2. QED
        BY <1>5, <1>7, <1>8, <1>9, <3>1
    <2>2. CASE j # k
      <3>1. hits'[j] = hits[j] /\ admitted'[j] = admitted[j]
        BY <1>1, <2>2 DEF LimiterInv
      <3>2. QED
        BY <3>1 DEF LimiterInv
    <2>3. QED
      BY <2>1, <2>2
  <1>11. QED
    BY <1>6, <1>10 DEF LimiterInv, Within

\* What is forgotten counts in no window that is still to come.
LEMMA PruneStep ==
    ASSUME LimiterInv, now \in Nat, UNCHANGED <<now, desk, admitted>>,
           hits' \in [Actors -> SUBSET [at : 0 .. now, no : Nat]],
           \A k \in Actors : hits'[k] = hits[k] \/ hits'[k] = PruneEntries(hits[k])
    PROVE  LimiterInv'
  <1>1. ASSUME NEW k \in Actors
        PROVE  /\ hits'[k] \subseteq admitted[k]
               /\ \A e \in admitted[k] : e.at >= now - RateWindow => e \in hits'[k]
    BY <1>1 DEF LimiterInv, PruneEntries
  <1>2. QED
    BY <1>1 DEF LimiterInv, Within

LEMMA TickStep ==
    ASSUME LimiterInv, now \in Nat, now' = now + 1, UNCHANGED <<desk, hits, admitted>>
    PROVE  LimiterInv'
  <1>1. (0 .. now) \subseteq (0 .. now')
    BY SMT
  <1>2. [at : 0 .. now, no : Nat] \subseteq [at : 0 .. now', no : Nat]
    BY <1>1
  <1>3. /\ hits' \in [Actors -> SUBSET [at : 0 .. now', no : Nat]]
        /\ admitted' \in [Actors -> SUBSET [at : 0 .. now', no : Nat]]
    BY <1>2 DEF LimiterInv
  <1>4. ASSUME NEW k \in Actors, NEW e \in admitted[k], e.at >= now' - RateWindow
        PROVE  e \in hits[k]
    <2>1. e.at \in Nat /\ RateWindow \in Nat
      BY <1>4, ScopeAssumption DEF LimiterInv
    <2>2. e.at >= now - RateWindow
      BY <1>4, <2>1
    <2>3. QED
      BY <1>4, <2>2 DEF LimiterInv
  <1>5. QED
    BY <1>3, <1>4 DEF LimiterInv, Within

LEMMA EmptyLimiter ==
    ASSUME now \in Nat, desk \in Desks, hits = [k \in Actors |-> {}], admitted = [k \in Actors |-> {}]
    PROVE  LimiterInv
  <1>1. \A t \in Nat : Within({}, t, t + RateWindow) = {}
    BY DEF Within
  <1>2. RateLimit[desk] \in Nat
    BY ScopeAssumption
  <1>3. QED
    BY <1>1, <1>2, FS_EmptySet DEF LimiterInv

LEMMA MovesScope ==
    ASSUME ScopeInv, NEW L, L \subseteq AllLabels, Moves(L)
    PROVE  ScopeInv'
  <1>1. UNCHANGED worldVars /\ now \in Nat /\ desk \in Desks
    BY DEF Moves, ScopeInv
  <1>2. Placed'
    BY DEF Moves, ScopeInv, Placed, AllLabels
  <1>3. LimiterInv' /\ served' \in 0 .. MaxRequests
    <2>1. ASSUME NEW k \in Actors, Hit(k) PROVE LimiterInv' /\ served' \in 0 .. MaxRequests
      <3>1. LimiterInv'
        BY <1>1, <2>1, HitStep DEF ScopeInv, worldVars
      <3>2. served' \in 0 .. MaxRequests
        BY <2>1, ScopeAssumption DEF Hit, ScopeInv
      <3>3. QED
        BY <3>1, <3>2
    <2>2. CASE UNCHANGED <<hits, admitted, served>>
      BY <1>1, <2>2 DEF ScopeInv, LimiterInv, worldVars, Within
    <2>3. QED
      BY <2>1, <2>2 DEF Moves
  <1>4. QED
    BY <1>1, <1>2, <1>3 DEF ScopeInv, worldVars

\* What a step of Next does to the scope.
LEMMA StepMoves ==
    ASSUME ScopeInv, Guests \/ HostsDesk
    PROVE  \/ CommentsNext /\ Moves(CommentLabels)
           \/ MessagesNext /\ Moves(MessageLabels)
           \/ QuestionsNext /\ Moves(QuestionLabels)
           \/ CoHostsNext /\ Moves(CoHostLabels)
           \/ CardsNext /\ Moves(CardLabels)
  BY CommentsMove, MessagesMove, QuestionsMove, CoHostsMove, CardsMove DEF Guests, HostsDesk, ScopeInv

LEMMA ScopeStep == ScopeInv /\ [Next]_vars => ScopeInv'
  <1> SUFFICES ASSUME ScopeInv, [Next]_vars PROVE ScopeInv'
    OBVIOUS
  <1>1. now \in Nat /\ MaxTime \in Nat /\ MaxRequests \in Nat /\ MaxRestarts \in Nat
    BY ScopeAssumption DEF ScopeInv
  <1>2. CASE Guests \/ HostsDesk
    BY <1>2, StepMoves, MovesScope DEF AllLabels
  <1>3. CASE Scope
    <2>1. CASE Tick
      <3>1. LimiterInv'
        BY <1>1, <2>1, TickStep DEF Tick, ScopeInv, requestVars
      <3>2. now' \in 0 .. MaxTime
        BY <1>1, <2>1, ScopeAssumption DEF Tick, ScopeInv
      <3>3. QED
        BY <2>1, <3>1, <3>2 DEF Tick, ScopeInv, Placed, requestVars
    <2>2. CASE CloseEvent
      BY <2>2 DEF CloseEvent, ScopeInv, Placed, LimiterInv, Within, requestVars
    <2>3. CASE CleanupLimiter \/ \E k \in Actors : Refuse(k)
      <3>1. /\ \A k \in Actors : hits'[k] = hits[k] \/ hits'[k] = PruneEntries(hits[k])
            /\ hits' \in [Actors -> SUBSET [at : 0 .. now, no : Nat]]
        <4>1. \A k \in Actors : PruneEntries(hits[k]) \in SUBSET [at : 0 .. now, no : Nat]
          BY DEF PruneEntries, ScopeInv, LimiterInv
        <4>2. QED
          BY <2>3, <4>1 DEF CleanupLimiter, Refuse, ScopeInv, LimiterInv
      <3>2. UNCHANGED <<pc, client, admitted, served, worldVars>>
        BY <2>3 DEF CleanupLimiter, Refuse
      <3>3. LimiterInv'
        BY <1>1, <3>1, <3>2, PruneStep DEF ScopeInv, worldVars
      <3>4. QED
        BY <3>2, <3>3 DEF ScopeInv, Placed, worldVars
    <2>4. QED
      BY <1>3, <2>1, <2>2, <2>3 DEF Scope
  <1>4. CASE \E k \in Actors : Dismiss(k)
    <2>1. Moves({})
      BY <1>4, OnceMoves DEF Dismiss
    <2>2. QED
      BY <2>1, MovesScope
  <1>5. ASSUME NEW p \in Procs, Fail(p) PROVE ScopeInv'
    <2>1. Moves(AllLabels)
      BY <1>5, GotoMoves DEF Fail, ScopeInv, Placed, AllLabels
    <2>2. QED
      BY <2>1, MovesScope
  <1>6. CASE (\E a \in Attendees : RemoveAttendee(a)) \/ DeleteEvent
    BY <1>6 DEF RemoveAttendee, LoseAttendee, DeleteEvent, LoseEvent, ScopeInv, Placed, LimiterInv,
                Within, requestVars
  <1>7. CASE Restart
    <2>1. /\ hits' = [k \in Actors |-> {}] /\ admitted' = [k \in Actors |-> {}]
          /\ UNCHANGED <<served, now, desk, eventStatus, present>>
          /\ pc' = [p \in Procs |-> "idle"] /\ client' = [p \in Procs |-> Organizer]
          /\ restarts' \in 0 .. MaxRestarts
      BY <1>1, <1>7 DEF Restart, LoseMemory, ScopeInv
    <2>2. LimiterInv'
      <3>1. \A t \in Nat : Within({}, t, t + RateWindow) = {}
        BY DEF Within
      <3>2. RateLimit[desk] \in Nat /\ desk' = desk
        BY <2>1, ScopeAssumption DEF ScopeInv
      <3>3. QED
        BY <2>1, <3>1, <3>2, FS_EmptySet DEF LimiterInv, Within
    <2>3. QED
      BY <2>1, <2>2 DEF ScopeInv, Placed, Actors, AllLabels
  <1>8. CASE UNCHANGED vars
    BY <1>8 DEF vars, scopeVars, requestVars, worldVars, ScopeInv, Placed, LimiterInv, Within
  <1>9. QED
    BY <1>2, <1>3, <1>4, <1>5, <1>6, <1>7, <1>8 DEF Next

LEMMA ScopeStart == Init => ScopeInv
  <1> SUFFICES ASSUME Init PROVE ScopeInv
    OBVIOUS
  <1>1. ScopeInit /\ now \in Nat
    BY DEF Init, ScopeInit
  <1>2. LimiterInv
    BY <1>1, EmptyLimiter DEF ScopeInit
  <1>3. QED
    BY <1>1, <1>2, ScopeAssumption DEF ScopeInit, ScopeInv, Placed, Actors, AllLabels

LEMMA ScopeInvariant == Spec => []ScopeInv
  BY ScopeStart, ScopeStep, PTL DEF Spec

\* In no window of time, wherever it begins, does the limiter admit more than
\* its limit of requests of one client: what it forgets counts in no window to come.
THEOREM WindowsAreKept == Spec => []AdmissionBounded
  <1>1. ScopeInv => AdmissionBounded
    BY DEF ScopeInv, LimiterInv, AdmissionBounded
  <1>2. QED
    BY <1>1, ScopeInvariant, PTL

-----------------------------------------------------------------------------
(* The throttle of the invitations                                         *)

\* An invitation of the last hour is remembered, or a later one of its host.
InviteInv ==
    /\ seen \in [Hosts -> {Unseen} \cup -1 .. now]
    /\ IsFiniteSet(invited)
    /\ invited \subseteq [host : Hosts, at : -1 .. now, no : Nat]
    /\ \A i \in invited : /\ i.no < Cardinality(invited)
                          /\ \/ seen[i.host] # Unseen /\ i.at <= seen[i.host]
                             \/ now - i.at >= NotifyHour
    /\ InvitedOnceAnHour

LEMMA InviteStart == Init => InviteInv
  <1> SUFFICES ASSUME Init PROVE InviteInv
    OBVIOUS
  <1> DEFINE First == {g \in Hosts : FirstSeen[g] # Unseen}
             letter(h) == [host |-> h, at |-> FirstSeen[h], no |-> 0]
  <1>1. now = 0 /\ seen = FirstSeen /\ invited = {letter(h) : h \in First}
    BY DEF Init, ScopeInit, CoHostsInit
  <1>2. IsFiniteSet(invited)
    <2>1. IsFiniteSet(First)
      BY CoHostsAssumption, FS_Subset
    <2>2. [h \in First |-> letter(h)] \in Surjection(First, invited)
      BY <1>1 DEF Surjection
    <2>3. QED
      BY <2>1, <2>2, FS_Surjection
  <1>3. \A h \in First : FirstSeen[h] = -1
    BY CoHostsAssumption
  <1>4. seen \in [Hosts -> {Unseen} \cup -1 .. now]
    BY <1>1, CoHostsAssumption
  <1>5. invited \subseteq [host : Hosts, at : -1 .. now, no : Nat]
    BY <1>1, <1>3
  <1>6. ASSUME NEW i \in invited
        PROVE  i.no < Cardinality(invited) /\ seen[i.host] # Unseen /\ i.at <= seen[i.host]
    <2>1. PICK h \in First : i = letter(h)
      BY <1>1
    <2>2. Cardinality(invited) # 0 /\ Cardinality(invited) \in Nat
      BY <1>2, <1>6, FS_EmptySet, FS_CardinalityType
    <2>3. QED
      BY <1>1, <1>3, <2>1, <2>2
  <1>7. InvitedOnceAnHour
    BY <1>1 DEF InvitedOnceAnHour
  <1>8. QED
    BY <1>2, <1>4, <1>5, <1>6, <1>7 DEF InviteInv

LEMMA NotifyStep ==
    ASSUME InviteInv, HostInv, now \in Nat, NEW p \in Procs, AddNotify(p)
    PROVE  InviteInv'
  <1> DEFINE h == target[p]
             new == [host |-> h, at |-> now, no |-> Cardinality(invited)]
  <1>1. h \in Hosts /\ UNCHANGED now /\ NotifyHour \in Nat
    BY CoHostsAssumption DEF AddNotify, Leave, Goto, HostInv, Adding, Holding, worldVars
  <1>2. CASE ~NotifyAllowed(h)
    <2>1. UNCHANGED <<seen, invited>>
      BY <1>2 DEF AddNotify
    <2>2. QED
      BY <1>1, <2>1 DEF InviteInv, InvitedOnceAnHour
  <1>3. CASE NotifyAllowed(h)
    <2>1. seen' = [seen EXCEPT ![h] = now] /\ invited' = invited \cup {new}
      BY <1>3 DEF AddNotify
    <2>2. IsFiniteSet(invited) /\ Cardinality(invited) \in Nat
      BY FS_CardinalityType DEF InviteInv
    <2>3. new \notin invited
      BY <2>2 DEF InviteInv
    <2>4. IsFiniteSet(invited') /\ Cardinality(invited') = Cardinality(invited) + 1
      BY <2>1, <2>2, <2>3, FS_AddElement
    <2>5. seen' \in [Hosts -> {Unseen} \cup -1 .. now]
      BY <1>1, <2>1 DEF InviteInv
    <2>6. new \in [host : Hosts, at : -1 .. now, no : Nat]
      BY <1>1, <2>2
    <2>7. ASSUME NEW i \in invited
          PROVE  /\ i.host \in Hosts /\ i.at \in Int /\ i.at <= now /\ i.no \in Nat
                 /\ i.host = h => now - i.at >= NotifyHour
      <3>1. i.host \in Hosts /\ i.at \in Int /\ i.at <= now /\ i.no \in Nat
        BY <2>7 DEF InviteInv
      <3>2. (seen[i.host] # Unseen /\ i.at <= seen[i.host]) \/ now - i.at >= NotifyHour
        BY <2>7 DEF InviteInv
      <3>3. seen[i.host] \in Int
        BY <3>1 DEF InviteInv, Unseen
      <3>4. i.host = h => seen[i.host] = Unseen \/ now - seen[i.host] >= NotifyHour
        BY <1>3 DEF NotifyAllowed
      <3>5. QED
        BY <1>1, <3>1, <3>2, <3>3, <3>4
    <2>8. ASSUME NEW i \in invited'
          PROVE  /\ i.no < Cardinality(invited')
                 /\ \/ seen'[i.host] # Unseen /\ i.at <= seen'[i.host]
                    \/ now - i.at >= NotifyHour
      <3>1. CASE i = new
        <4>1. seen'[h] = now /\ now # Unseen
          BY <1>1, <2>1 DEF InviteInv, Unseen
        <4>2. QED
          BY <2>2, <2>4, <3>1, <4>1
      <3>2. CASE i \in invited
        <4>1. i.no < Cardinality(invited) /\ i.no \in Nat
          BY <2>7, <3>2 DEF InviteInv
        <4>2. i.host # h => seen'[i.host] = seen[i.host]
          BY <2>1, <2>7, <3>2 DEF InviteInv
        <4>3. QED
          BY <2>2, <2>4, <2>7, <3>2, <4>1, <4>2 DEF InviteInv
      <3>3. QED
        BY <2>1, <3>1, <3>2
    <2>9. InvitedOnceAnHour'
      <3> SUFFICES ASSUME NEW i \in invited', NEW j \in invited', i # j, i.host = j.host
                   PROVE  i.at - j.at >= NotifyHour \/ j.at - i.at >= NotifyHour
        BY DEF InvitedOnceAnHour
      <3>1. CASE i \in invited /\ j \in invited
        BY <3>1 DEF InviteInv, InvitedOnceAnHour
      <3>2. CASE i = new /\ j \in invited
        BY <2>7, <3>2
      <3>3. CASE j = new /\ i \in invited
        BY <2>7, <3>3
      <3>4. QED
        BY <2>1, <3>1, <3>2, <3>3
    <2>10. invited' \subseteq [host : Hosts, at : -1 .. now, no : Nat]
      BY <2>1, <2>6 DEF InviteInv
    <2>11. QED
      BY <1>1, <2>4, <2>5, <2>8, <2>9, <2>10 DEF InviteInv
  <1>4. QED
    BY <1>2, <1>3

\* What is forgotten is older than the hour; time passes and keeps it so.
LEMMA ForgetStep ==
    ASSUME InviteInv, now \in Nat, now' \in Nat, now' >= now, UNCHANGED invited,
           \/ UNCHANGED seen
           \/ now' = now /\ seen' = [h \in Hosts |-> IF StaleEntry(h) THEN Unseen ELSE seen[h]]
    PROVE  InviteInv'
  <1>1. (-1 .. now) \subseteq (-1 .. now') /\ NotifyHour \in Nat
    BY CoHostsAssumption, SMT
  <1>2. [host : Hosts, at : -1 .. now, no : Nat] \subseteq [host : Hosts, at : -1 .. now', no : Nat]
    BY <1>1
  <1>3. seen' \in [Hosts -> {Unseen} \cup -1 .. now']
    BY <1>1 DEF InviteInv
  <1>4. ASSUME NEW i \in invited
        PROVE  \/ seen'[i.host] # Unseen /\ i.at <= seen'[i.host]
               \/ now' - i.at >= NotifyHour
    <2>1. i.host \in Hosts /\ i.at \in Int /\ i.at <= now /\ seen[i.host] \in Int
      BY <1>4 DEF InviteInv, Unseen
    <2>2. (seen[i.host] # Unseen /\ i.at <= seen[i.host]) \/ now - i.at >= NotifyHour
      BY <1>4 DEF InviteInv
    <2>3. seen'[i.host] = seen[i.host] \/ seen[i.host] < now - NotifyHour
      BY <2>1 DEF StaleEntry
    <2>4. QED
      BY <1>1, <2>1, <2>2, <2>3
  <1>5. QED
    BY <1>2, <1>3, <1>4 DEF InviteInv, InvitedOnceAnHour

LEMMA InviteStep == InviteInv /\ HostInv /\ ScopeInv /\ [Next]_vars => InviteInv'
  <1> SUFFICES ASSUME InviteInv, HostInv, ScopeInv, [Next]_vars PROVE InviteInv'
    OBVIOUS
  <1>1. now \in Nat
    BY DEF ScopeInv
  <1>2. CASE UNCHANGED <<seen, invited>> /\ now' \in Nat /\ now' >= now
    BY <1>1, <1>2, ForgetStep
  <1>3. CASE Guests \/ HostsDesk
    <2>1. UNCHANGED now
      BY <1>3, StepMoves DEF Moves, worldVars
    <2>2. CASE Guests \/ (HostsDesk /\ CardsNext /\ UNCHANGED cohostVars)
      BY <1>1, <1>2, <2>1, <2>2 DEF Guests, hostVars, cohostVars
    <2>3. CASE CoHostsNext
      <3>1. ASSUME NEW p \in Procs, AddNotify(p) PROVE InviteInv'
        BY <1>1, <3>1, NotifyStep
      <3>2. CASE CleanupThrottle
        BY <1>1, <2>1, <3>2, ForgetStep DEF CleanupThrottle
      <3>3. ASSUME NEW p \in Procs,
                   \/ \E h \in Hosts : AddBegin(p, h) \/ RemoveCoHostFind(p, h)
                   \/ AddLock(p) \/ AddCount(p) \/ AddInsert(p) \/ RemoveCoHost(p)
            PROVE  UNCHANGED <<seen, invited>>
        BY <3>3 DEF AddBegin, RemoveCoHostFind, AddLock, AddCount, AddInsert, RemoveCoHost
      <3>4. CASE AddRefused
        BY <1>1, <1>2, <2>1, <3>4 DEF AddRefused
      <3>5. QED
        BY <1>1, <1>2, <2>1, <2>3, <3>1, <3>2, <3>3, <3>4 DEF CoHostsNext
    <2>4. QED
      BY <1>3, <2>2, <2>3 DEF HostsDesk
  <1>4. CASE Scope \/ (\E k \in Actors : Dismiss(k)) \/ (\E a \in Attendees : RemoveAttendee(a))
    <2>1. UNCHANGED <<seen, invited>>
      BY <1>4 DEF Scope, Dismiss, RemoveAttendee, hostVars, cohostVars
    <2>2. now' = now \/ now' = now + 1
      BY <1>4 DEF Scope, Tick, CloseEvent, CleanupLimiter, Refuse, Dismiss, AdmitOnce, RemoveAttendee,
                  LoseAttendee, worldVars
    <2>3. QED
      BY <1>1, <1>2, <2>1, <2>2
  <1>5. CASE (\E p \in Procs : Fail(p)) \/ DeleteEvent
    <2>1. UNCHANGED <<seen, invited, now>>
      BY <1>5 DEF Fail, Goto, CoHostsForget, DeleteEvent, LoseEvent, CoHostsLoseEvent, worldVars
    <2>2. QED
      BY <1>1, <1>2, <2>1
  <1>6. CASE Restart
    <2>1. invited' = {} /\ seen' = [h \in Hosts |-> Unseen] /\ UNCHANGED now
      BY <1>6 DEF Restart, LoseMemory, CoHostsLoseMemory
    <2>2. QED
      BY <2>1, FS_EmptySet DEF InviteInv, InvitedOnceAnHour
  <1>7. CASE UNCHANGED vars
    BY <1>1, <1>2, <1>7 DEF vars, scopeVars, worldVars, hostVars, cohostVars
  <1>8. QED
    BY <1>3, <1>4, <1>5, <1>6, <1>7 DEF Next

LEMMA InviteInvariant == Spec => []InviteInv
  BY InviteStart, InviteStep, HostInvariant, ScopeInvariant, PTL DEF Spec

\* Within one run of the process no host gets two invitations in less than an hour,
\* whatever the cleanup forgets and however often the host is added and removed.
THEOREM InvitedOnce == Spec => []InvitedOnceAnHour
  <1>1. InviteInv => InvitedOnceAnHour
    BY DEF InviteInv
  <1>2. QED
    BY <1>1, InviteInvariant, PTL

\* The goroutines at the labels M neither come nor go.
Still(M) == \A p \in Procs : pc[p] \in M \/ pc'[p] \in M => pc'[p] = pc[p] /\ client'[p] = client[p]

LEMMA MovesElsewhere ==
    ASSUME ScopeInv, NEW L, Moves(L), NEW M, M \cap (L \cup {"idle"}) = {}
    PROVE  Still(M)
  BY DEF Moves, Still, ScopeInv, Placed

-----------------------------------------------------------------------------
(* The pictures                                                            *)

Uploaders == {p \in Procs : pc[p] = "k_remove" /\ chosen[p] \in Payloads}
Writers   == {p \in Procs : pc[p] = "k_upload"}
Doomed(S) == UNION {doomed[p] : p \in S}

\* Whichever of the uploads under way remove what they have listed, there is room
\* for what they and the others write.
Room ==
    \A S \in SUBSET Uploaders :
        Cardinality(files \ Doomed(S)) + Cardinality(Writers) + Cardinality(S) <= Cardinality(Procs)

CardsTyped ==
    /\ files \subseteq Pictures /\ IsFiniteSet(files)
    /\ card \in [Cards -> Urls \cup {NoPicture, NoCard}]
    /\ edited \in [Procs -> Cards]
    /\ chosen \in [Procs -> Urls \cup {NoPicture} \cup ImageTypes]
    /\ doomed \in [Procs -> SUBSET Pictures]
    /\ \A p \in Procs :
          /\ pc[p] = "k_upload" => chosen[p] \in ImageTypes
          /\ pc[p] \in {"k_lookup", "k_update", "k_insert"} => chosen[p] \in Urls \cup {NoPicture}

\* A save that nothing overlaps: its picture is there, and it does not remove it.
Undisturbed ==
    \A p \in alone : /\ Busy = {p}
                     /\ chosen[p] \in Urls \cup {NoPicture}
                     /\ chosen[p] = NoPicture \/ chosen[p].name \in files \ doomed[p]

CardsInv == CardsTyped /\ Undisturbed /\ Room

LEMMA ProcsFinite ==
    ASSUME NEW S, S \subseteq Procs
    PROVE  IsFiniteSet(S) /\ Cardinality(S) \in Nat
  BY ScopeAssumption, FS_Subset, FS_CardinalityType

LEMMA LeftFinite ==
    ASSUME NEW F, IsFiniteSet(F), NEW D
    PROVE  IsFiniteSet(F \ D) /\ Cardinality(F \ D) \in Nat
  <1>1. F \ D \subseteq F
    OBVIOUS
  <1>2. QED
    BY <1>1, FS_Subset, FS_CardinalityType

LEMMA SmallerIsLess ==
    ASSUME NEW S, NEW T, IsFiniteSet(T), S \subseteq T
    PROVE  /\ IsFiniteSet(S) /\ Cardinality(S) \in Nat /\ Cardinality(T) \in Nat
           /\ Cardinality(S) <= Cardinality(T)
  BY FS_Subset, FS_CardinalityType

\* No step that only takes away can exceed the room.
LEMMA RoomShrinks ==
    ASSUME CardsInv, files' \subseteq files, Writers' \subseteq Writers, Uploaders' \subseteq Uploaders,
           \A p \in Uploaders' : doomed'[p] = doomed[p]
    PROVE  Room'
  <1> SUFFICES ASSUME NEW S \in SUBSET Uploaders'
               PROVE  Cardinality(files' \ Doomed(S)') + Cardinality(Writers') + Cardinality(S) <= Cardinality(Procs)
    BY DEF Room
  <1>1. Doomed(S)' = Doomed(S)
    BY DEF Doomed
  <1>2. Cardinality(files \ Doomed(S)) + Cardinality(Writers) + Cardinality(S) <= Cardinality(Procs)
    BY DEF CardsInv, Room
  <1>3. Cardinality(files' \ Doomed(S)) <= Cardinality(files \ Doomed(S))
        /\ Cardinality(files' \ Doomed(S)) \in Nat /\ Cardinality(files \ Doomed(S)) \in Nat
    <2>1. IsFiniteSet(files \ Doomed(S)) /\ files' \ Doomed(S) \subseteq files \ Doomed(S)
      BY LeftFinite DEF CardsInv, CardsTyped
    <2>2. QED
      BY <2>1, SmallerIsLess
  <1>4. Cardinality(Writers') <= Cardinality(Writers)
        /\ Cardinality(Writers') \in Nat /\ Cardinality(Writers) \in Nat
    <2>1. IsFiniteSet(Writers)
      BY ProcsFinite DEF Writers
    <2>2. QED
      BY <2>1, SmallerIsLess
  <1>5. Cardinality(S) \in Nat /\ Cardinality(Procs) \in Nat
    BY ProcsFinite DEF Uploaders
  <1>6. QED
    BY <1>1, <1>2, <1>3, <1>4, <1>5

\* A new upload will remove all that there is.
LEMMA RoomListed ==
    ASSUME CardsInv, NEW p \in Procs, p \notin Uploaders, p \notin Writers, UNCHANGED <<files, Writers>>,
           Uploaders' = Uploaders \cup {p}, doomed' = [doomed EXCEPT ![p] = files]
    PROVE  Room'
  <1> SUFFICES ASSUME NEW S \in SUBSET Uploaders'
               PROVE  Cardinality(files \ Doomed(S)') + Cardinality(Writers) + Cardinality(S) <= Cardinality(Procs)
    BY DEF Room
  <1>1. CASE p \notin S
    <2>1. S \in SUBSET Uploaders /\ Doomed(S)' = Doomed(S)
      BY <1>1 DEF Doomed, CardsInv, CardsTyped
    <2>2. QED
      BY <2>1 DEF CardsInv, Room
  <1>2. CASE p \in S
    <2>1. files \ Doomed(S)' = {}
      BY <1>2 DEF Doomed, CardsInv, CardsTyped
    <2>2. /\ Writers \cap S = {} /\ Writers \cup S \subseteq Procs
          /\ IsFiniteSet(Writers) /\ IsFiniteSet(S)
      BY ProcsFinite DEF Writers, Uploaders
    <2>3. Cardinality(Writers \cup S) = Cardinality(Writers) + Cardinality(S)
          /\ Cardinality(Writers \cup S) <= Cardinality(Procs)
      <3>1. Cardinality(Writers \cup S) = Cardinality(Writers) + Cardinality(S) - 0
        BY <2>2, FS_Union, FS_EmptySet
      <3>2. Cardinality(Writers) \in Nat /\ Cardinality(S) \in Nat
        BY <2>2, FS_CardinalityType
      <3>3. Cardinality(Writers \cup S) <= Cardinality(Procs)
        BY <2>2, ScopeAssumption, FS_Subset
      <3>4. QED
        BY <3>1, <3>2, <3>3
    <2>4. Cardinality(files \ Doomed(S)') = 0
      BY <2>1, FS_EmptySet
    <2>5. Cardinality(Writers) \in Nat /\ Cardinality(S) \in Nat
      BY <2>2, FS_CardinalityType
    <2>6. QED
      BY <2>3, <2>4, <2>5
  <1>3. QED
    BY <1>1, <1>2

\* It removes them and becomes a writer.
LEMMA RoomRemoved ==
    ASSUME CardsInv, NEW p \in Uploaders, files' = files \ doomed[p], doomed' = [doomed EXCEPT ![p] = {}],
           Writers' = Writers \cup {p}, Uploaders' = Uploaders \ {p}
    PROVE  Room'
  <1> SUFFICES ASSUME NEW S \in SUBSET Uploaders'
               PROVE  Cardinality(files' \ Doomed(S)') + Cardinality(Writers') + Cardinality(S) <= Cardinality(Procs)
    BY DEF Room
  <1>1. S \cup {p} \in SUBSET Uploaders /\ p \notin S /\ p \notin Writers /\ p \in Procs
    BY DEF Uploaders, Writers
  <1>2. Cardinality(files \ Doomed(S \cup {p})) + Cardinality(Writers) + Cardinality(S \cup {p}) <= Cardinality(Procs)
    BY <1>1 DEF CardsInv, Room
  <1>3. files' \ Doomed(S)' = files \ Doomed(S \cup {p})
    <2>1. Doomed(S)' = Doomed(S)
      BY <1>1 DEF Doomed, CardsInv, CardsTyped
    <2>2. Doomed(S \cup {p}) = Doomed(S) \cup doomed[p]
      BY DEF Doomed
    <2>3. QED
      BY <2>1, <2>2
  <1>4. IsFiniteSet(S) /\ IsFiniteSet(Writers)
    BY <1>1, ProcsFinite DEF Writers, Uploaders
  <1>5. Cardinality(S \cup {p}) = Cardinality(S) + 1
    BY <1>1, <1>4, FS_AddElement
  <1>6. Cardinality(Writers') = Cardinality(Writers) + 1
    <2>1. Cardinality(Writers \cup {p}) = Cardinality(Writers) + 1
      BY <1>1, <1>4, FS_AddElement
    <2>2. QED
      BY <2>1
  <1>7. Cardinality(S) \in Nat /\ Cardinality(Writers) \in Nat /\ Cardinality(Procs) \in Nat
    BY <1>4, ProcsFinite, FS_CardinalityType
  <1>8. Cardinality(files \ Doomed(S \cup {p})) \in Nat
    BY LeftFinite DEF CardsInv, CardsTyped
  <1>9. Cardinality(files' \ Doomed(S)') = Cardinality(files \ Doomed(S \cup {p}))
    BY <1>3
  <1>10. QED
    BY <1>2, <1>5, <1>6, <1>7, <1>8, <1>9

\* It writes one picture.
LEMMA RoomWritten ==
    ASSUME CardsInv, NEW p \in Writers, NEW f, files' = files \cup {f},
           \A q \in Uploaders : doomed'[q] = doomed[q],
           Writers' = Writers \ {p}, Uploaders' = Uploaders
    PROVE  Room'
  <1> SUFFICES ASSUME NEW S \in SUBSET Uploaders
               PROVE  Cardinality(files' \ Doomed(S)') + Cardinality(Writers') + Cardinality(S) <= Cardinality(Procs)
    BY DEF Room
  <1>1. Cardinality(files \ Doomed(S)) + Cardinality(Writers) + Cardinality(S) <= Cardinality(Procs)
    BY DEF CardsInv, Room
  <1>2. Doomed(S)' = Doomed(S)
    BY DEF Doomed
  <1>3. IsFiniteSet(files \ Doomed(S)) /\ Cardinality(files \ Doomed(S)) \in Nat
    BY LeftFinite DEF CardsInv, CardsTyped
  <1>4. files' \ Doomed(S) \subseteq (files \ Doomed(S)) \cup {f}
    OBVIOUS
  <1>5. Cardinality(files' \ Doomed(S)) <= Cardinality(files \ Doomed(S)) + 1
    BY <1>3, <1>4, OneMore
  <1>6. Cardinality(files' \ Doomed(S)) \in Nat
    <2>1. IsFiniteSet(files')
      BY FS_AddElement DEF CardsInv, CardsTyped
    <2>2. QED
      BY <2>1, LeftFinite
  <1>7. IsFiniteSet(Writers) /\ Cardinality(Writers) \in Nat /\ Cardinality(S) \in Nat
    BY ProcsFinite DEF Writers, Uploaders
  <1>8. Cardinality(Writers') = Cardinality(Writers) - 1
    BY <1>7, FS_RemoveElement
  <1>9. Cardinality(Procs) \in Nat
    BY ProcsFinite
  <1>10. QED
    BY <1>1, <1>2, <1>3, <1>5, <1>6, <1>7, <1>8, <1>9

\* What a goroutine may be about to store at each label.
LEMMA WorkTyped ==
    ASSUME CardsTyped, NEW p \in Procs, \A q \in Procs : q # p => pc'[q] = pc[q],
           NEW e \in Cards, NEW x \in Urls \cup {NoPicture} \cup ImageTypes, NEW ds \in SUBSET Pictures,
           Work(p, e, x, ds),
           files' \subseteq Pictures, IsFiniteSet(files'), card' \in [Cards -> Urls \cup {NoPicture, NoCard}],
           pc'[p] = "k_upload" => x \in ImageTypes,
           pc'[p] \in {"k_lookup", "k_update", "k_insert"} => x \in Urls \cup {NoPicture}
    PROVE  CardsTyped'
  <1>1. /\ edited' \in [Procs -> Cards]
        /\ chosen' \in [Procs -> Urls \cup {NoPicture} \cup ImageTypes]
        /\ doomed' \in [Procs -> SUBSET Pictures]
    BY DEF Work, CardsTyped
  <1>2. ASSUME NEW q \in Procs
        PROVE  /\ pc'[q] = "k_upload" => chosen'[q] \in ImageTypes
               /\ pc'[q] \in {"k_lookup", "k_update", "k_insert"} => chosen'[q] \in Urls \cup {NoPicture}
    <2>1. CASE q = p
      BY <2>1 DEF Work, CardsTyped
    <2>2. CASE q # p
      BY <2>2 DEF Work, CardsTyped
    <2>3. QED
      BY <2>1, <2>2
  <1>3. QED
    BY <1>1, <1>2 DEF CardsTyped

\* The types of images are none of the URLs.
LEMMA TypesApart ==
    /\ \A x \in Urls \cup {NoPicture} : x \notin Payloads
    /\ \A x \in ImageTypes : x \in Payloads /\ x \notin Urls \cup {NoPicture}
  BY CardsAssumption

LEMMA CardsElsewhere ==
    ASSUME CardsInv, UNCHANGED cardVars,
           \A p \in Procs : pc[p] \in CardLabels \/ pc'[p] \in CardLabels => pc'[p] = pc[p]
    PROVE  CardsInv'
  <1>1. UNCHANGED <<Busy, Uploaders, Writers>>
    BY DEF Busy, Uploaders, Writers, CardLabels, cardVars
  <1>2. CardsTyped'
    BY DEF CardsInv, CardsTyped, CardLabels, cardVars
  <1>3. Undisturbed'
    BY <1>1 DEF CardsInv, Undisturbed, cardVars
  <1>4. Room'
    BY <1>1, RoomShrinks DEF cardVars
  <1>5. QED
    BY <1>2, <1>3, <1>4 DEF CardsInv

LEMMA UploadListStep ==
    ASSUME CardsInv, Placed, NEW p \in Procs, NEW data, UploadList(p, data)
    PROVE  CardsInv'
  <1>1. /\ pc[p] = "idle" /\ pc' = [pc EXCEPT ![p] = "k_remove"] /\ data \in ImageTypes
        /\ Work(p, "event", data, files) /\ alone' = {} /\ UNCHANGED <<files, card>>
    BY DEF UploadList, Admit, DetectImageType, CleanupEventImages
  <1>2. CardsTyped'
    <2>1. /\ CardsTyped /\ files \in SUBSET Pictures /\ files' \subseteq Pictures /\ IsFiniteSet(files')
          /\ card' \in [Cards -> Urls \cup {NoPicture, NoCard}] /\ "event" \in Cards
      BY <1>1 DEF CardsInv, CardsTyped, Cards
    <2>2. pc'[p] = "k_remove" /\ \A q \in Procs : q # p => pc'[q] = pc[q]
      BY <1>1 DEF Placed
    <2>3. data \in Urls \cup {NoPicture} \cup ImageTypes
      BY <1>1
    <2>4. QED
      BY <1>1, <2>1, <2>2, <2>3, WorkTyped
  <1>3. Undisturbed'
    BY <1>1 DEF Undisturbed
  <1>4. /\ p \notin Uploaders /\ p \notin Writers /\ Uploaders' = Uploaders \cup {p} /\ Writers' = Writers
        /\ doomed' = [doomed EXCEPT ![p] = files]
    BY <1>1, TypesApart DEF Uploaders, Writers, Work, Placed, CardsInv, CardsTyped
  <1>5. Room'
    BY <1>1, <1>4, RoomListed
  <1>6. QED
    BY <1>2, <1>3, <1>5 DEF CardsInv

\* A goroutine starts to save, or to give the copy its card: no upload.
LEMMA SaveStep ==
    ASSUME CardsInv, Placed, NEW p \in Procs,
           (\E e \in Cards, link \in Links : Save(p, e, link)) \/ Duplicate(p)
    PROVE  CardsInv'
  <1>1. PICK e \in Cards, x \in Urls \cup {NoPicture}, ds \in SUBSET Pictures, a \in {"k_remove", "k_lookup"} :
           /\ pc[p] = "idle" /\ pc' = [pc EXCEPT ![p] = a]
           /\ Work(p, e, x, ds) /\ UNCHANGED <<files, card>>
           /\ \/ alone' = {}
              \/ alone' = {p} /\ Busy = {} /\ (x = NoPicture \/ x.name \in files \ ds)
    <2>1. CASE Duplicate(p)
      <3>1. card["event"] \in Urls \cup {NoPicture}
        BY <2>1 DEF Duplicate, CardsInv, CardsTyped, Cards
      <3>2. QED
        BY <2>1, <3>1 DEF Duplicate, Admit, CopiedPicture, Cards
    <2>2. ASSUME NEW e \in Cards, NEW link \in Links, Save(p, e, link)
          PROVE  \E x \in Urls \cup {NoPicture}, ds \in SUBSET Pictures, a \in {"k_remove", "k_lookup"} :
                    /\ pc[p] = "idle" /\ pc' = [pc EXCEPT ![p] = a]
                    /\ Work(p, e, x, ds) /\ UNCHANGED <<files, card>>
                    /\ \/ alone' = {}
                       \/ alone' = {p} /\ Busy = {} /\ (x = NoPicture \/ x.name \in files \ ds)
      <3> DEFINE new == SanitizeCustomData(link)
      <3>1. new \in Urls \cup {NoPicture}
        BY DEF Links, SanitizeCustomData, CardsInv, CardsTyped
      <3>2. CleanupOldImage(e, new) \in SUBSET Pictures
        BY DEF CleanupOldImage, Urls, CardsInv, CardsTyped
      <3>3. pc[p] = "idle" /\ pc' = [pc EXCEPT ![p] = "k_remove"] /\ UNCHANGED <<files, card>>
        BY <2>2 DEF Save, Admit
      <3>4. PICK ds \in {CleanupOldImage(e, new), {}} : Work(p, e, new, ds)
        BY <2>2 DEF Save
      <3>5. alone' = IF Busy = {} /\ (new = NoPicture \/ new.name \in files) /\ ~SameFile(e, new)
                     THEN {p} ELSE {}
        BY <2>2 DEF Save
      <3>6. ~SameFile(e, new) /\ new # NoPicture => new.name \notin CleanupOldImage(e, new)
        BY <3>1, CardsAssumption DEF SameFile, CleanupOldImage
      <3> HIDE DEF new
      <3>7. alone' = {p} => Busy = {} /\ (new = NoPicture \/ new.name \in files \ ds)
        BY <3>4, <3>5, <3>6
      <3>8. alone' = {} \/ alone' = {p}
        BY <3>5
      <3>9. ds \in SUBSET Pictures
        BY <3>2, <3>4
      <3>10. QED
        BY <3>1, <3>3, <3>4, <3>7, <3>8, <3>9
    <2>3. QED
      BY <2>1, <2>2
  <1>2. CardsTyped'
    <2>1. /\ CardsTyped /\ IsFiniteSet(files') /\ files' \subseteq Pictures
          /\ card' \in [Cards -> Urls \cup {NoPicture, NoCard}]
      BY <1>1 DEF CardsInv, CardsTyped
    <2>2. pc'[p] = a /\ \A q \in Procs : q # p => pc'[q] = pc[q]
      BY <1>1 DEF Placed
    <2>3. QED
      BY <1>1, <2>1, <2>2, WorkTyped
  <1>3. Undisturbed'
    <2>1. CASE alone' = {}
      BY <2>1 DEF Undisturbed
    <2>2. CASE alone' = {p} /\ Busy = {} /\ (x = NoPicture \/ x.name \in files \ ds)
      <3>1. Busy' = {p}
        BY <1>1, <2>2 DEF Busy, CardLabels, Placed
      <3>2. chosen'[p] = x /\ doomed'[p] = ds
        BY <1>1 DEF Work, CardsInv, CardsTyped
      <3>3. QED
        BY <1>1, <2>2, <3>1, <3>2 DEF Undisturbed
    <2>3. QED
      BY <1>1, <2>1, <2>2
  <1>4. /\ Uploaders' = Uploaders /\ Writers' = Writers
        /\ \A q \in Uploaders : doomed'[q] = doomed[q]
    BY <1>1, TypesApart DEF Uploaders, Writers, Work, Placed, CardsInv, CardsTyped
  <1>5. Room'
    BY <1>1, <1>4, RoomShrinks
  <1>6. QED
    BY <1>2, <1>3, <1>5 DEF CardsInv

LEMMA RemoveFilesStep ==
    ASSUME CardsInv, Placed, NEW p \in Procs, RemoveFiles(p)
    PROVE  CardsInv'
  <1> DEFINE a == IF chosen[p] \in Payloads THEN "k_upload" ELSE "k_lookup"
  <1>1. /\ pc[p] = "k_remove" /\ pc' = [pc EXCEPT ![p] = a]
        /\ files' = files \ doomed[p] /\ doomed' = [doomed EXCEPT ![p] = {}]
        /\ UNCHANGED <<card, edited, chosen, alone>>
    BY DEF RemoveFiles, Goto
  <1>2. CardsTyped'
    <2>1. Work(p, edited[p], chosen[p], {})
      BY <1>1 DEF Work, CardsInv, CardsTyped
    <2>2. IsFiniteSet(files') /\ files' \subseteq Pictures
      BY <1>1, LeftFinite DEF CardsInv, CardsTyped
    <2>3. /\ edited[p] \in Cards /\ chosen[p] \in Urls \cup {NoPicture} \cup ImageTypes
          /\ card' \in [Cards -> Urls \cup {NoPicture, NoCard}]
      BY <1>1 DEF CardsInv, CardsTyped
    <2>4. /\ a = "k_upload" => chosen[p] \in ImageTypes
          /\ a \in {"k_lookup", "k_update", "k_insert"} => chosen[p] \in Urls \cup {NoPicture}
      BY <2>3, TypesApart
    <2>5. CardsTyped
      BY DEF CardsInv
    <2>6. pc'[p] = a /\ \A q \in Procs : q # p => pc'[q] = pc[q]
      BY <1>1 DEF Placed
    <2> HIDE DEF a
    <2>7. QED
      BY <2>1, <2>2, <2>3, <2>4, <2>5, <2>6, WorkTyped
  <1>3. Undisturbed'
    <2>1. Busy' = Busy /\ p \in Busy
      BY <1>1 DEF Busy, CardLabels, Placed
    <2>2. ASSUME NEW q \in alone
          PROVE  /\ Busy' = {q} /\ chosen'[q] \in Urls \cup {NoPicture}
                 /\ chosen'[q] = NoPicture \/ chosen'[q].name \in files' \ doomed'[q]
      BY <1>1, <2>1, <2>2 DEF CardsInv, CardsTyped, Undisturbed
    <2>3. QED
      BY <1>1, <2>2 DEF Undisturbed
  <1>4. Room'
    <2>1. CASE p \in Uploaders
      <3>1. Writers' = Writers \cup {p} /\ Uploaders' = Uploaders \ {p}
        BY <1>1, <2>1 DEF Uploaders, Writers, Placed
      <3>2. QED
        BY <1>1, <2>1, <3>1, RoomRemoved
    <2>2. CASE p \notin Uploaders
      <3>1. Writers' = Writers /\ Uploaders' = Uploaders
        BY <1>1, <2>2 DEF Uploaders, Writers, Placed
      <3>2. \A q \in Uploaders : doomed'[q] = doomed[q]
        BY <1>1, <2>2 DEF Uploaders, CardsInv, CardsTyped
      <3>3. QED
        BY <1>1, <3>1, <3>2, RoomShrinks
    <2>3. QED
      BY <2>1, <2>2
  <1>5. QED
    BY <1>2, <1>3, <1>4 DEF CardsInv

LEMMA UploadWriteStep ==
    ASSUME CardsInv, ScopeInv, NEW p \in Procs, UploadWrite(p)
    PROVE  CardsInv'
  <1> DEFINE f == [at |-> now, ext |-> chosen[p]]
  <1>1. /\ pc[p] = "k_upload" /\ pc' = [pc EXCEPT ![p] = "idle"]
        /\ files' = files \cup {f} /\ Work(p, "event", NoPicture, {}) /\ UNCHANGED <<card, alone>>
    BY DEF UploadWrite, Goto
  <1>2. f \in Pictures
    <2>1. chosen[p] \in ImageTypes /\ now \in -1 .. MaxTime
      BY <1>1, ScopeAssumption DEF CardsInv, CardsTyped, ScopeInv
    <2>2. QED
      BY <2>1 DEF Pictures
  <1>3. CardsTyped'
    <2>1. IsFiniteSet(files) /\ files \subseteq Pictures
      BY DEF CardsInv, CardsTyped
    <2>2. IsFiniteSet(files \cup {f})
      BY <2>1, FS_AddElement
    <2>3. IsFiniteSet(files') /\ files' \subseteq Pictures
      BY <1>1, <1>2, <2>1, <2>2
    <2>4. /\ CardsTyped /\ Placed /\ "event" \in Cards
          /\ card' \in [Cards -> Urls \cup {NoPicture, NoCard}]
          /\ Work(p, "event", NoPicture, {})
      BY <1>1 DEF CardsInv, CardsTyped, Cards, ScopeInv
    <2>5. pc'[p] = "idle" /\ \A q \in Procs : q # p => pc'[q] = pc[q]
      BY <1>1, <2>4 DEF Placed
    <2>6. QED
      BY <2>3, <2>4, <2>5, WorkTyped
  <1>4. alone = {}
    BY <1>1, TypesApart DEF CardsInv, CardsTyped, Undisturbed, Busy, CardLabels
  <1>5. Undisturbed'
    BY <1>1, <1>4 DEF Undisturbed
  <1>6. /\ p \in Writers /\ Writers' = Writers \ {p} /\ Uploaders' = Uploaders
        /\ \A q \in Uploaders : doomed'[q] = doomed[q]
    BY <1>1 DEF Writers, Uploaders, Work, ScopeInv, Placed, CardsInv, CardsTyped
  <1>7. Room'
    BY <1>1, <1>6, RoomWritten
  <1>8. QED
    BY <1>3, <1>5, <1>7 DEF CardsInv

LEMMA UpsertFindStep ==
    ASSUME CardsInv, Placed, NEW p \in Procs, UpsertFind(p)
    PROVE  CardsInv'
  <1>1. PICK a \in {"k_insert", "k_update"} : pc[p] = "k_lookup" /\ pc' = [pc EXCEPT ![p] = a]
    BY DEF UpsertFind, Goto
  <1>2. UNCHANGED cardVars
    BY DEF UpsertFind
  <1>3. UNCHANGED <<Busy, Uploaders, Writers>>
    BY <1>1, <1>2 DEF Busy, Uploaders, Writers, CardLabels, cardVars, Placed
  <1>4. CardsTyped'
    BY <1>1, <1>2 DEF CardsInv, CardsTyped, cardVars, Placed
  <1>5. Undisturbed' /\ Room'
    BY <1>2, <1>3, RoomShrinks DEF CardsInv, Undisturbed, cardVars
  <1>6. QED
    BY <1>4, <1>5 DEF CardsInv

\* A goroutine ends: it has written the row, or fails.
LEMMA CardsLeave ==
    ASSUME CardsInv, Placed, NEW p \in Procs, pc' = [pc EXCEPT ![p] = "idle"],
           Work(p, "event", NoPicture, {}), alone' = alone \ {p}, UNCHANGED files,
           card' \in [Cards -> Urls \cup {NoPicture, NoCard}]
    PROVE  CardsInv'
  <1>1. CardsTyped'
    <2>1. /\ CardsTyped /\ IsFiniteSet(files') /\ files' \subseteq Pictures /\ "event" \in Cards
      BY DEF CardsInv, CardsTyped, Cards
    <2>2. pc'[p] = "idle" /\ \A q \in Procs : q # p => pc'[q] = pc[q]
      BY DEF Placed
    <2>3. QED
      BY <2>1, <2>2, WorkTyped
  <1>2. Busy' = Busy \ {p}
    BY DEF Busy, CardLabels, Placed
  <1>3. Undisturbed'
    BY <1>2 DEF CardsInv, CardsTyped, Undisturbed, Work
  <1>4. /\ Writers' \subseteq Writers /\ Uploaders' \subseteq Uploaders
        /\ \A q \in Uploaders' : doomed'[q] = doomed[q]
    BY DEF Writers, Uploaders, Work, Placed, CardsInv, CardsTyped
  <1>5. Room'
    BY <1>4, RoomShrinks
  <1>6. QED
    BY <1>1, <1>3, <1>5 DEF CardsInv

LEMMA UpsertWriteStep ==
    ASSUME CardsInv, Placed, NEW p \in Procs, UpsertWrite(p)
    PROVE  CardsInv'
  <1>1. /\ pc[p] \in {"k_update", "k_insert"} /\ pc' = [pc EXCEPT ![p] = "idle"]
        /\ Work(p, "event", NoPicture, {}) /\ alone' = alone \ {p} /\ UNCHANGED files
    BY DEF UpsertWrite, Goto
  <1>2. card' \in [Cards -> Urls \cup {NoPicture, NoCard}]
    BY <1>1 DEF UpsertWrite, CardsInv, CardsTyped
  <1>3. QED
    BY <1>1, <1>2, CardsLeave

\* The files go, of the event that is deleted or is not.
LEMMA CardsSwept ==
    ASSUME CardsInv, files' = {}, alone' = {}, UNCHANGED <<pc, edited, chosen, doomed>>,
           card' \in [Cards -> Urls \cup {NoPicture, NoCard}]
    PROVE  CardsInv'
  <1>1. CardsTyped'
    BY FS_EmptySet DEF CardsInv, CardsTyped
  <1>2. Undisturbed'
    BY DEF Undisturbed
  <1>3. UNCHANGED <<Uploaders, Writers>>
    BY DEF Uploaders, Writers
  <1>4. Room'
    BY <1>3, RoomShrinks
  <1>5. QED
    BY <1>1, <1>2, <1>4 DEF CardsInv
LEMMA CardsStep == CardsInv /\ ScopeInv /\ [Next]_vars => CardsInv'
  <1> SUFFICES ASSUME CardsInv, ScopeInv, [Next]_vars PROVE CardsInv'
    OBVIOUS
  <1>1. Placed
    BY DEF ScopeInv
  <1>2. ASSUME NEW L, Moves(L), CardLabels \cap (L \cup {"idle"}) = {}, UNCHANGED cardVars
        PROVE  CardsInv'
    <2>1. Still(CardLabels)
      BY <1>2, MovesElsewhere
    <2>2. QED
      BY <1>2, <2>1, CardsElsewhere DEF Still
  <1>3. CASE Guests
    <2>1. UNCHANGED cardVars
      BY <1>3 DEF Guests, hostVars
    <2>2. Moves(CommentLabels) \/ Moves(MessageLabels) \/ Moves(QuestionLabels)
      BY <1>1, <1>3, CommentsMove, MessagesMove, QuestionsMove DEF Guests, ScopeInv
    <2>3. QED
      BY <1>2, <2>1, <2>2 DEF CommentLabels, MessageLabels, QuestionLabels, CardLabels
  <1>4. CASE HostsDesk
    <2>1. CASE CoHostsNext /\ UNCHANGED cardVars
      <3>1. Moves(CoHostLabels)
        BY <1>1, <2>1, CoHostsMove
      <3>2. QED
        BY <1>2, <2>1, <3>1 DEF CoHostLabels, Holding, CardLabels
    <2>2. CASE CardsNext
      <3>1. CASE SweepImages
        <4>1. card' \in [Cards -> Urls \cup {NoPicture, NoCard}]
          BY <3>1 DEF SweepImages, CardsInv, CardsTyped
        <4>2. QED
          BY <3>1, <4>1, CardsSwept DEF SweepImages, scopeVars, requestVars
      <3>2. QED
        BY <1>1, <2>2, <3>1, UploadListStep, SaveStep, RemoveFilesStep, UploadWriteStep, UpsertFindStep,
           UpsertWriteStep DEF CardsNext
    <2>3. QED
      BY <1>4, <2>1, <2>2 DEF HostsDesk
  <1>5. CASE Scope \/ (\E k \in Actors : Dismiss(k)) \/ (\E a \in Attendees : RemoveAttendee(a))
    <2>1. UNCHANGED <<pc, cardVars>>
      BY <1>5 DEF Scope, Tick, CloseEvent, CleanupLimiter, Refuse, Dismiss, AdmitOnce, RemoveAttendee,
                  LoseAttendee, hostVars, requestVars
    <2>2. QED
      BY <2>1, CardsElsewhere
  <1>6. ASSUME NEW p \in Procs, Fail(p) PROVE CardsInv'
    <2>1. Work(p, "event", NoPicture, {})
      BY <1>6 DEF Fail, CardsForget, Work, CardsInv, CardsTyped
    <2>2. card' \in [Cards -> Urls \cup {NoPicture, NoCard}]
      BY <1>6 DEF Fail, CardsForget, CardsInv, CardsTyped
    <2>3. pc' = [pc EXCEPT ![p] = "idle"] /\ alone' = alone \ {p} /\ UNCHANGED files
      BY <1>6 DEF Fail, Goto, CardsForget
    <2>4. QED
      BY <1>1, <2>1, <2>2, <2>3, CardsLeave
  <1>7. CASE DeleteEvent
    <2>1. card' \in [Cards -> Urls \cup {NoPicture, NoCard}]
      BY <1>7 DEF DeleteEvent, CardsLoseEvent, CardsInv, CardsTyped
    <2>2. QED
      BY <1>7, <2>1, CardsSwept DEF DeleteEvent, CardsLoseEvent, LoseEvent, requestVars
  <1>8. CASE Restart
    <2>1. /\ pc' = [p \in Procs |-> "idle"] /\ edited' = [p \in Procs |-> "event"]
          /\ chosen' = [p \in Procs |-> NoPicture] /\ doomed' = [p \in Procs |-> {}]
          /\ alone' = alone \ Procs /\ UNCHANGED <<files, card>>
      BY <1>8 DEF Restart, LoseMemory, CardsForget
    <2>2. CardsTyped'
      BY <2>1 DEF CardsInv, CardsTyped, Cards
    <2>3. Undisturbed'
      BY <2>1 DEF CardsInv, Undisturbed, Busy
    <2>4. Writers' = {} /\ Uploaders' = {}
      BY <2>1 DEF Writers, Uploaders
    <2>5. Room'
      BY <2>1, <2>4, RoomShrinks
    <2>6. QED
      BY <2>2, <2>3, <2>5 DEF CardsInv
  <1>9. CASE UNCHANGED vars
    BY <1>9, CardsElsewhere DEF vars, scopeVars, requestVars, hostVars
  <1>10. QED
    BY <1>3, <1>4, <1>5, <1>6, <1>7, <1>8, <1>9 DEF Next

LEMMA CardsStart == Init => CardsInv
  <1> SUFFICES ASSUME Init PROVE CardsInv
    OBVIOUS
  <1>1. CardsInit /\ pc = [p \in Procs |-> "idle"]
    BY DEF Init, ScopeInit
  <1>2. FirstPicture \in Pictures
    <2>1. (CHOOSE x \in ImageTypes : TRUE) \in ImageTypes
      BY CardsAssumption
    <2>2. -1 \in -1 .. MaxTime
      BY ScopeAssumption
    <2>3. QED
      BY <2>1, <2>2 DEF FirstPicture, Pictures
  <1>3. CardsTyped
    <2>1. [name |-> FirstPicture, form |-> "path"] \in Urls
      BY <1>2 DEF Urls
    <2>2. card \in [Cards -> Urls \cup {NoPicture, NoCard}]
      BY <1>1, <2>1 DEF CardsInit
    <2>3. QED
      BY <1>1, <1>2, <2>2, FS_Singleton DEF CardsInit, CardsTyped, Cards
  <1>4. Undisturbed
    BY <1>1 DEF CardsInit, Undisturbed
  <1>5. Room
    <2>1. Uploaders = {} /\ Writers = {} /\ files = {FirstPicture}
      BY <1>1 DEF CardsInit, Uploaders, Writers
    <2>2. SUFFICES Cardinality(files \ Doomed({})) + Cardinality(Writers) + Cardinality({}) <= Cardinality(Procs)
      BY <2>1 DEF Room
    <2>3. files \ Doomed({}) = {FirstPicture}
      BY <2>1 DEF Doomed
    <2>4. Cardinality({FirstPicture}) = 1 /\ Cardinality({}) = 0
      BY FS_Singleton, FS_EmptySet
    <2>5. Cardinality(Procs) \in Nat /\ Cardinality(Procs) # 0
      BY ScopeAssumption, FS_EmptySet, FS_CardinalityType
    <2>6. QED
      BY <2>1, <2>3, <2>4, <2>5
  <1>6. QED
    BY <1>3, <1>4, <1>5 DEF CardsInv

LEMMA CardsInvariant == Spec => []CardsInv
  BY CardsStart, CardsStep, ScopeInvariant, PTL DEF Spec

\* A save that no other request on the cards overlaps, and that does not merely write the
\* URL of the card's file in another form, finds the picture whose URL it stores until it
\* has stored it; and however uploads overlap and fail, an event has at
\* most one picture for every request that the server handles at a time.
THEOREM PicturesAreKept == Spec => []PicturesKept
  <1>1. CardsInv => PicturesKept
    <2> SUFFICES ASSUME CardsInv PROVE PicturesKept
      OBVIOUS
    <2>1. KeptPictureStays
      BY DEF CardsInv, Undisturbed, KeptPictureStays
    <2>2. Cardinality(files \ Doomed({})) + Cardinality(Writers) + Cardinality({}) <= Cardinality(Procs)
      BY DEF CardsInv, Room
    <2>3. files \ Doomed({}) = files
      BY DEF Doomed
    <2>4. /\ Cardinality(files) \in Nat /\ Cardinality(Procs) \in Nat
          /\ Cardinality(Writers) \in Nat /\ Cardinality({}) = 0
      BY ProcsFinite, FS_EmptySet, FS_CardinalityType DEF CardsInv, CardsTyped, Writers
    <2>5. PicturesBounded
      BY <2>2, <2>3, <2>4 DEF PicturesBounded
    <2>6. QED
      BY <2>1, <2>5 DEF PicturesKept
  <1>2. QED
    BY <1>1, CardsInvariant, PTL

=============================================================================
