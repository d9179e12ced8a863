---------------------------- MODULE GuestProofs -----------------------------
(* Theorems about EventContent, for every number of requests, attendees and  *)
(* restarts: the comments, the messages, the questions with their answers,   *)
(* and the types of all.                                                     *)
EXTENDS ContentProofs

-----------------------------------------------------------------------------
(* The guestbook                                                           *)

Posting == {p \in Procs : pc[p] \in {"c_window", "c_insert"}}

\* The requests that have been let pass by the count have their place.
CommentsInv ==
    /\ posted \in Nat /\ IsFiniteSet(comments)
    /\ comments \subseteq [id : 1 .. posted, by : present, at : Int]
    /\ \A c, d \in comments : c.id = d.id => c = d
    /\ \A p \in Procs : pc[p] \in CommentLabels => client[p] \in Attendees
    /\ Cardinality(comments) + Cardinality(Posting) <= MaxComments + Cardinality(Procs) - 1

\* What the visitor has before him, or may miss: the comments that are older than
\* his cursor are those he has not seen.
ReaderInv ==
    /\ reader.pc \in {"idle", "more", "done"}
    /\ reader.pc = "idle" => reader = NoReader
    /\ reader.shown \subseteq 1 .. posted /\ reader.start \subseteq 1 .. posted
    /\ reader.pc = "more" => reader.cursor \in Int
    /\ reader.count = Cardinality(reader.shown)
    /\ \A c \in comments :
          /\ reader.pc = "more" /\ BeforeCursor(c) => c.id \notin reader.shown
          /\ c.id \in reader.start => \/ c.id \in reader.shown
                                      \/ c.at \in reader.cursors
                                      \/ reader.pc = "more" /\ BeforeCursor(c)

LEMMA CountsAreNumbers ==
    ASSUME CommentsInv
    PROVE  /\ Cardinality(comments) \in Nat /\ Cardinality(Posting) \in Nat
           /\ Cardinality(Procs) \in Nat /\ MaxComments \in Nat
           /\ IsFiniteSet(Posting)
  BY ProcsFinite, FS_CardinalityType, CommentsAssumption DEF CommentsInv, Posting

\* Comments go, with their authors or without; requests end or go on to the insert.
LEMMA CommentsShrink ==
    ASSUME CommentsInv, UNCHANGED posted, comments' \subseteq comments, Posting' \subseteq Posting,
           \A c \in comments' : c.by \in present',
           \A p \in Procs : pc'[p] \in CommentLabels => client'[p] \in Attendees
    PROVE  CommentsInv'
  <1>1. IsFiniteSet(comments') /\ Cardinality(comments') <= Cardinality(comments)
        /\ Cardinality(comments') \in Nat
    BY FS_Subset, FS_CardinalityType DEF CommentsInv
  <1>2. Cardinality(Posting') <= Cardinality(Posting) /\ Cardinality(Posting') \in Nat
    BY CountsAreNumbers, SmallerIsLess
  <1>3. Cardinality(comments') + Cardinality(Posting') <= MaxComments + Cardinality(Procs) - 1
    BY <1>1, <1>2, CountsAreNumbers DEF CommentsInv
  <1>4. comments' \subseteq [id : 1 .. posted, by : present', at : Int]
    BY DEF CommentsInv
  <1>5. QED
    BY <1>1, <1>3, <1>4 DEF CommentsInv

LEMMA ReaderShrinks ==
    ASSUME ReaderInv, UNCHANGED <<posted, reader>>, comments' \subseteq comments
    PROVE  ReaderInv'
  BY DEF ReaderInv, BeforeCursor

LEMMA CommentsElsewhere ==
    ASSUME CommentsInv, ReaderInv, UNCHANGED <<commentVars, present>>, Still(CommentLabels)
    PROVE  CommentsInv' /\ ReaderInv'
  <1>1. Posting' \subseteq Posting
    BY DEF Posting, Still, CommentLabels
  <1>2. \A p \in Procs : pc'[p] \in CommentLabels => client'[p] \in Attendees
    BY DEF CommentsInv, Still
  <1>3. \A c \in comments' : c.by \in present'
    BY DEF CommentsInv, commentVars
  <1>4. QED
    BY <1>1, <1>2, <1>3, CommentsShrink, ReaderShrinks DEF commentVars

\* The count lets a request pass when there is a place for it, whoever else has passed.
LEMMA PostCountStep ==
    ASSUME CommentsInv, ReaderInv, Placed, NEW p \in Procs, PostCount(p)
    PROVE  CommentsInv' /\ ReaderInv'
  <1>1. /\ pc[p] = "c_count" /\ UNCHANGED <<commentVars, present>>
        /\ pc' = [pc EXCEPT ![p] = IF TooMany THEN "idle" ELSE "c_window"]
        /\ client' = [client EXCEPT ![p] = IF TooMany THEN Organizer ELSE client[p]]
    BY DEF PostCount, Goto, worldVars, Placed
  <1>2. ReaderInv'
    BY <1>1, ReaderShrinks DEF commentVars
  <1>3. \A q \in Procs : pc'[q] \in CommentLabels => client'[q] \in Attendees
    BY <1>1 DEF CommentsInv, CommentLabels, Placed
  <1>4. CASE TooMany
    <2>1. Posting' \subseteq Posting
      BY <1>1, <1>4 DEF Posting, Placed
    <2>2. QED
      BY <1>1, <1>2, <1>3, <2>1, CommentsShrink DEF commentVars, CommentsInv
  <1>5. CASE ~TooMany
    <2>1. Cardinality(comments) <= MaxComments - 1
      BY <1>5, CountsAreNumbers DEF TooMany
    <2>2. Cardinality(Posting') <= Cardinality(Procs) /\ Cardinality(Posting') \in Nat
      <3>1. Posting' \subseteq Procs
        BY DEF Posting
      <3>2. QED
        BY <3>1, ScopeAssumption, SmallerIsLess
    <2>3. Cardinality(comments) + Cardinality(Posting') <= MaxComments + Cardinality(Procs) - 1
      BY <2>1, <2>2, CountsAreNumbers
    <2>4. QED
      BY <1>1, <1>2, <1>3, <2>3 DEF CommentsInv, commentVars
  <1>6. QED
    BY <1>4, <1>5

LEMMA PostInsertStep ==
    ASSUME CommentsInv, ReaderInv, Placed, now \in Nat, NEW p \in Procs, PostInsert(p)
    PROVE  CommentsInv' /\ ReaderInv'
  <1>1. /\ pc[p] = "c_insert" /\ pc' = [pc EXCEPT ![p] = "idle"]
        /\ client' = [client EXCEPT ![p] = Organizer] /\ UNCHANGED <<present, reader>>
    BY DEF PostInsert, Goto, worldVars
  <1>2. \A q \in Procs : pc'[q] \in CommentLabels => client'[q] \in Attendees
    BY <1>1 DEF CommentsInv, CommentLabels, Placed
  <1>3. p \in Posting /\ Posting' = Posting \ {p}
    BY <1>1 DEF Posting, Placed
  <1>4. CASE client[p] \notin present
    <2>1. UNCHANGED <<comments, posted>>
      BY <1>4 DEF PostInsert
    <2>2. \A c \in comments' : c.by \in present'
      BY <1>1, <2>1 DEF CommentsInv
    <2>3. QED
      BY <1>1, <1>2, <1>3, <2>1, <2>2, CommentsShrink, ReaderShrinks
  <1>5. CASE client[p] \in present
    <2> DEFINE new == [id |-> posted + 1, by |-> client[p], at |-> now]
    <2>1. comments' = comments \cup {new} /\ posted' = posted + 1
      BY <1>5 DEF PostInsert
    <2>2. posted \in Nat /\ (1 .. posted) \subseteq (1 .. posted') /\ posted' \in 1 .. posted'
          /\ posted' \notin 1 .. posted
      BY <2>1 DEF CommentsInv
    <2>3. new \notin comments /\ \A c \in comments : c.id # new.id
      BY <2>1, <2>2 DEF CommentsInv
    <2>4. IsFiniteSet(comments') /\ Cardinality(comments') = Cardinality(comments) + 1
      <3>1. IsFiniteSet(comments)
        BY DEF CommentsInv
      <3>2. IsFiniteSet(comments \cup {new}) /\ Cardinality(comments \cup {new}) = Cardinality(comments) + 1
        BY <2>3, <3>1, FS_AddElement
      <3>3. QED
        BY <2>1, <3>2
    <2>5. Cardinality(Posting') = Cardinality(Posting) - 1
      BY <1>3, CountsAreNumbers, FS_RemoveElement
    <2>6. Cardinality(comments') + Cardinality(Posting') <= MaxComments + Cardinality(Procs) - 1
      BY <2>4, <2>5, CountsAreNumbers DEF CommentsInv
    <2>7. comments' \subseteq [id : 1 .. posted', by : present', at : Int]
      <3>1. new \in [id : 1 .. posted', by : present', at : Int]
        BY <1>1, <1>5, <2>1, <2>2
      <3>2. [id : 1 .. posted, by : present, at : Int] \subseteq [id : 1 .. posted', by : present', at : Int]
        BY <1>1, <2>2
      <3>3. QED
        BY <2>1, <3>1, <3>2 DEF CommentsInv
    <2>8. \A c, d \in comments' : c.id = d.id => c = d
      BY <2>1, <2>3 DEF CommentsInv
    <2>9. CommentsInv'
      BY <1>2, <2>1, <2>2, <2>4, <2>6, <2>7, <2>8 DEF CommentsInv
    <2>10. new.id \notin reader.shown /\ new.id \notin reader.start
      BY <2>1, <2>2 DEF ReaderInv
    <2>11. ReaderInv'
      BY <1>1, <2>1, <2>2, <2>10 DEF ReaderInv, BeforeCursor
    <2>12. QED
      BY <2>9, <2>11
  <1>6. QED
    BY <1>4, <1>5

\* A page that is not empty has an earliest comment.
LEMMA EarliestExists ==
    ASSUME NEW S, IsFiniteSet(S), S # {}, \A c \in S : c.at \in Int
    PROVE  \E c \in S : \A d \in S : c.at <= d.at
  <1> DEFINE First(T, c) == c \in T /\ \A d \in T : c.at <= d.at
             Bad == {T \in SUBSET S : T # {} /\ ~\E c \in S : First(T, c)}
  <1>1. ASSUME Bad # {} PROVE FALSE
    <2>1. IsWellFoundedOn(StrictSubsetOrdering(S), FiniteSubsetsOf(S))
      BY FS_StrictSubsetOrderingWellFounded
    <2>2. Bad \subseteq FiniteSubsetsOf(S)
      BY FS_Subset DEF FiniteSubsetsOf
    <2>3. \E T \in Bad : \A U \in Bad : <<U, T>> \notin StrictSubsetOrdering(S)
      <3> HIDE DEF Bad
      <3>1. QED
        BY <1>1, <2>1, <2>2, WFMin
    <2>4. PICK T \in Bad : \A U \in Bad : <<U, T>> \notin StrictSubsetOrdering(S)
      BY <2>3
    <2>5. T \subseteq S /\ T # {} /\ ~\E c \in S : First(T, c)
      OBVIOUS
    <2>6. PICK t \in T : TRUE
      BY <2>5
    <2> DEFINE U == T \ {t}
    <2>7. <<U, T>> \in StrictSubsetOrdering(S)
      BY <2>5 DEF StrictSubsetOrdering
    <2>8. U = {} \/ \E c \in S : First(U, c)
      BY <2>4, <2>5, <2>7
    <2>9. CASE U = {}
      <3>1. First(T, t)
        BY <2>5, <2>9
      <3>2. QED
        BY <2>5, <3>1
    <2>10. CASE \E c \in S : First(U, c)
      <3> PICK c \in S : First(U, c)
        BY <2>10
      <3>1. First(T, c) \/ First(T, t)
        BY <2>5
      <3>2. QED
        BY <2>5, <3>1
    <2>11. QED
      BY <2>8, <2>9, <2>10
  <1>2. QED
    BY <1>1

\* As many ids as comments.
LEMMA IdsOfPage ==
    ASSUME CommentsInv, NEW page, page \subseteq comments
    PROVE  /\ IsFiniteSet(page) /\ IsFiniteSet(Ids(page))
           /\ Cardinality(Ids(page)) = Cardinality(page)
           /\ Cardinality(page) \in Nat
  <1>1. IsFiniteSet(page) /\ Cardinality(page) \in Nat
    BY FS_Subset, FS_CardinalityType DEF CommentsInv
  <1>2. [c \in page |-> c.id] \in Bijection(page, Ids(page))
    BY DEF CommentsInv, Ids, Bijection, Injection, Surjection, IsInjective
  <1>3. ExistsBijection(page, Ids(page))
    BY <1>2 DEF ExistsBijection
  <1>4. QED
    BY <1>1, <1>3, FS_Bijection

\* A page: the newest of rows that reach back to the beginning and that the visitor
\* has not seen.
LEMMA PageShown ==
    ASSUME CommentsInv, ReaderInv, UNCHANGED <<comments, posted>>,
           NEW rows, NEW start, ShowPage(rows, start),
           rows \subseteq comments, start \subseteq 1 .. posted,
           \A c \in rows : c.id \notin reader.shown,
           \A c \in comments, r \in rows : c.at < r.at => c \in rows,
           \A c \in comments : c.id \in start => c.id \in reader.shown \/ c.at \in reader.cursors \/ c \in rows
    PROVE  ReaderInv'
  <1>1. PICK page \in SUBSET rows :
           /\ IsPage(page, rows)
           /\ LET more == Cardinality(rows) > PageSize
                  last == CHOOSE t \in {c.at : c \in page} : \A c \in page : t <= c.at
              IN reader' = [pc |-> IF more THEN "more" ELSE "done",
                            cursor |-> IF more THEN last ELSE 0,
                            cursors |-> reader.cursors \cup (IF more THEN {last} ELSE {}),
                            start |-> start,
                            shown |-> reader.shown \cup Ids(page),
                            count |-> reader.count + Cardinality(page)]
    BY DEF ShowPage
  <1> DEFINE more == Cardinality(rows) > PageSize
             last == CHOOSE t \in {c.at : c \in page} : \A c \in page : t <= c.at
  <1>2. /\ reader'.pc = IF more THEN "more" ELSE "done"
        /\ more => reader'.cursor = last /\ last \in reader'.cursors
        /\ reader.cursors \subseteq reader'.cursors
        /\ reader'.start = start /\ reader'.shown = reader.shown \cup Ids(page)
        /\ reader'.count = reader.count + Cardinality(page)
    BY <1>1
  <1>3. /\ page \subseteq rows /\ page \subseteq comments
        /\ \A c \in comments : c.at \in Int /\ c.id \in 1 .. posted
    BY DEF CommentsInv
  <1>4. /\ IsFiniteSet(page) /\ IsFiniteSet(Ids(page)) /\ Cardinality(Ids(page)) = Cardinality(page)
        /\ Cardinality(page) \in Nat
    BY <1>3, IdsOfPage
  <1>5. /\ IsFiniteSet(rows) /\ Cardinality(rows) \in Nat /\ PageSize \in Nat \ {0}
    BY IdsOfPage, CommentsAssumption
  <1>6. reader'.count = Cardinality(reader'.shown)
    <2>1. Ids(page) \cap reader.shown = {}
      BY <1>3 DEF Ids
    <2>2. IsFiniteSet(reader.shown) /\ Cardinality(reader.shown) \in Nat
      <3>1. IsFiniteSet(1 .. posted)
        BY FS_Interval DEF CommentsInv
      <3>2. QED
        BY <3>1, FS_Subset, FS_CardinalityType DEF ReaderInv
    <2>3. Cardinality(reader.shown \cup Ids(page)) = Cardinality(reader.shown) + Cardinality(Ids(page)) - 0
      BY <1>4, <2>1, <2>2, FS_Union, FS_EmptySet
    <2>4. QED
      BY <1>2, <1>4, <2>2, <2>3 DEF ReaderInv
  <1>7. more => /\ last \in {c.at : c \in page}
                /\ \A c \in page : last <= c.at
    <2> SUFFICES ASSUME more
                 PROVE  last \in {c.at : c \in page} /\ \A c \in page : last <= c.at
      OBVIOUS
    <2>1. Cardinality(page) = PageSize
      BY <1>1, <1>5 DEF IsPage
    <2>2. page # {}
      BY <1>5, <2>1, FS_EmptySet
    <2>3. \E c \in page : \A d \in page : c.at <= d.at
      BY <1>3, <1>4, <2>2, EarliestExists
    <2>4. \E t \in {c.at : c \in page} : \A c \in page : t <= c.at
      BY <2>3
    <2>5. QED
      BY <2>4
  <1>8. more => last \in Int
    BY <1>3, <1>7
  <1>9. ~more => page = rows
    <2> SUFFICES ASSUME ~more PROVE page = rows
      OBVIOUS
    <2>1. Cardinality(page) = Cardinality(rows)
      BY <1>1, <1>5 DEF IsPage
    <2>2. QED
      BY <1>3, <1>5, <2>1, FS_Subset
  <1> HIDE DEF more, last
  <1>10. ASSUME NEW c \in comments, more, c.at < last
         PROVE  c \in rows /\ c \notin page /\ c.id \notin reader.shown \cup Ids(page)
    <2>1. PICK r \in page : last = r.at
      BY <1>7, <1>10
    <2>2. c \in rows
      BY <1>3, <1>10, <2>1
    <2>3. c \notin page
      BY <1>3, <1>7, <1>8, <1>10
    <2>4. \A d \in page : d.id # c.id
      BY <1>3, <2>3 DEF CommentsInv
    <2>5. QED
      BY <2>2, <2>3, <2>4 DEF Ids
  <1>11. ASSUME NEW c \in comments, c.id \in start
         PROVE  \/ c.id \in reader'.shown \/ c.at \in reader'.cursors
                \/ more /\ c.at < last
    <2>1. CASE c.id \in reader.shown \/ c.at \in reader.cursors
      BY <1>2, <2>1
    <2>2. CASE c \in page
      BY <1>2, <2>2 DEF Ids
    <2>3. CASE c \in rows /\ c \notin page
      <3>1. more
        BY <1>9, <2>3
      <3>2. PICK r \in page : last = r.at
        BY <1>7, <3>1
      <3>3. c.at <= last
        BY <1>1, <2>3, <3>2 DEF IsPage
      <3>4. QED
        BY <1>2, <1>3, <1>8, <3>1, <3>3
    <2>4. QED
      BY <1>11, <2>1, <2>2, <2>3
  <1>12. reader'.pc \in {"more", "done"} /\ (reader'.pc = "more" <=> more)
    BY <1>2
  <1>13. reader'.shown \subseteq 1 .. posted /\ reader'.start \subseteq 1 .. posted
    BY <1>2, <1>3 DEF ReaderInv, Ids
  <1>14. QED
    BY <1>2, <1>6, <1>8, <1>10, <1>11, <1>12, <1>13 DEF ReaderInv, BeforeCursor

LEMMA ListStep ==
    ASSUME CommentsInv, ReaderInv, ListFirst \/ ListNext
    PROVE  ReaderInv'
  <1>1. UNCHANGED <<comments, posted>>
    BY DEF ListFirst, ListNext
  <1>2. \A c \in comments : c.at \in Int /\ c.id \in 1 .. posted
    BY DEF CommentsInv
  <1>3. CASE ListFirst
    <2>1. reader = NoReader /\ ShowPage(comments, Ids(comments))
      BY <1>3 DEF ListFirst, ReaderInv
    <2>2. reader.shown = {} /\ Ids(comments) \subseteq 1 .. posted
      BY <1>2, <2>1 DEF NoReader, Ids
    <2>3. QED
      BY <1>1, <2>1, <2>2, PageShown
  <1>4. CASE ListNext
    <2> DEFINE rows == {c \in comments : BeforeCursor(c)}
    <2>1. reader.pc = "more" /\ ShowPage(rows, reader.start) /\ reader.cursor \in Int
      BY <1>4 DEF ListNext, ReaderInv
    <2>2. /\ rows \subseteq comments /\ reader.start \subseteq 1 .. posted
          /\ \A c \in rows : c.id \notin reader.shown
      BY <2>1 DEF ReaderInv
    <2>3. \A c \in comments, r \in rows : c.at < r.at => c \in rows
      BY <1>2, <2>1 DEF BeforeCursor
    <2>4. \A c \in comments : c.id \in reader.start =>
             c.id \in reader.shown \/ c.at \in reader.cursors \/ c \in rows
      BY <2>1 DEF ReaderInv
    <2> HIDE DEF rows
    <2>5. QED
      BY <1>1, <2>1, <2>2, <2>3, <2>4, PageShown
  <1>5. QED
    BY <1>3, <1>4

LEMMA CommentsStep == CommentsInv /\ ReaderInv /\ ScopeInv /\ [Next]_vars => CommentsInv' /\ ReaderInv'
  <1> SUFFICES ASSUME CommentsInv, ReaderInv, ScopeInv, [Next]_vars PROVE CommentsInv' /\ ReaderInv'
    OBVIOUS
  <1>1. Placed /\ now \in Nat /\ present \subseteq Attendees
    BY DEF ScopeInv
  <1>2. ASSUME NEW L, Moves(L), CommentLabels \cap (L \cup {"idle"}) = {}, UNCHANGED commentVars
        PROVE  CommentsInv' /\ ReaderInv'
    <2>1. Still(CommentLabels) /\ UNCHANGED present
      BY <1>2, MovesElsewhere DEF Moves, worldVars
    <2>2. QED
      BY <1>2, <2>1, CommentsElsewhere
  <1>3. CASE Guests
    <2>1. CASE CommentsNext
      <3>1. ASSUME NEW p \in Procs, NEW a \in Attendees, PostFind(p, a)
            PROVE  CommentsInv' /\ ReaderInv'
        <4>1. /\ pc[p] = "idle" /\ pc' = [pc EXCEPT ![p] = "c_count"] /\ client' = [client EXCEPT ![p] = a]
              /\ UNCHANGED <<commentVars, present>>
          BY <3>1 DEF PostFind, Admit, worldVars
        <4>2. Posting' \subseteq Posting
          BY <1>1, <4>1 DEF Posting, Placed
        <4>3. \A q \in Procs : pc'[q] \in CommentLabels => client'[q] \in Attendees
          BY <1>1, <4>1 DEF CommentsInv, Placed
        <4>4. QED
          BY <4>1, <4>2, <4>3, CommentsShrink, ReaderShrinks DEF commentVars, CommentsInv
      <3>2. ASSUME NEW p \in Procs, PostWindow(p)
            PROVE  CommentsInv' /\ ReaderInv'
        <4>1. PICK a \in {"idle", "c_insert"} :
                 /\ pc[p] = "c_window" /\ pc' = [pc EXCEPT ![p] = a]
                 /\ client' = [client EXCEPT ![p] = IF a = "idle" THEN Organizer ELSE client[p]]
                 /\ UNCHANGED <<commentVars, present>>
          BY <1>1, <3>2 DEF PostWindow, Goto, worldVars, Placed
        <4>2. Posting' \subseteq Posting
          BY <1>1, <4>1 DEF Posting, Placed
        <4>3. \A q \in Procs : pc'[q] \in CommentLabels => client'[q] \in Attendees
          BY <1>1, <4>1 DEF CommentsInv, CommentLabels, Placed
        <4>4. QED
          BY <4>1, <4>2, <4>3, CommentsShrink, ReaderShrinks DEF commentVars, CommentsInv
      <3>3. ASSUME NEW c \in comments, DeleteComment(c)
            PROVE  CommentsInv' /\ ReaderInv'
        <4>1. /\ comments' = comments \ {c} /\ UNCHANGED <<posted, reader, present, pc, client>>
          BY <3>3 DEF DeleteComment, AdmitOnce, worldVars
        <4>2. Posting' = Posting /\ \A d \in comments' : d.by \in present'
          BY <4>1 DEF Posting, CommentsInv
        <4>3. QED
          BY <4>1, <4>2, CommentsShrink, ReaderShrinks DEF CommentsInv
      <3>4. CASE ListFirst \/ ListNext
        <4>1. UNCHANGED <<comments, posted, present, pc, client>>
          BY <3>4 DEF ListFirst, ListNext, AdmitOnce, worldVars
        <4>2. CommentsInv'
          BY <4>1 DEF CommentsInv, Posting
        <4>3. QED
          BY <3>4, <4>2, ListStep
      <3>5. QED
        BY <1>1, <2>1, <3>1, <3>2, <3>3, <3>4, PostCountStep, PostInsertStep DEF CommentsNext
    <2>2. CASE MessagesNext /\ UNCHANGED commentVars
      BY <1>1, <1>2, <2>2, MessagesMove DEF MessageLabels, CommentLabels
    <2>3. CASE QuestionsNext /\ UNCHANGED commentVars
      BY <1>1, <1>2, <2>3, QuestionsMove DEF QuestionLabels, CommentLabels
    <2>4. QED
      BY <1>3, <2>1, <2>2, <2>3 DEF Guests
  <1>4. CASE HostsDesk
    <2>1. UNCHANGED commentVars
      BY <1>4 DEF HostsDesk, guestVars
    <2>2. Moves(CoHostLabels) \/ Moves(CardLabels)
      BY <1>1, <1>4, CoHostsMove, CardsMove DEF HostsDesk
    <2>3. QED
      BY <1>2, <2>1, <2>2 DEF CoHostLabels, Holding, CardLabels, CommentLabels
  <1>5. CASE Scope \/ (\E k \in Actors : Dismiss(k)) \/ UNCHANGED vars
    <2>1. UNCHANGED <<pc, client, present, commentVars>>
      BY <1>5 DEF Scope, Tick, CloseEvent, CleanupLimiter, Refuse, Dismiss, AdmitOnce, guestVars,
                  requestVars, worldVars, vars, scopeVars
    <2>2. QED
      BY <2>1, CommentsElsewhere DEF Still
  <1>6. ASSUME NEW p \in Procs, Fail(p) PROVE CommentsInv' /\ ReaderInv'
    <2>1. /\ pc' = [pc EXCEPT ![p] = "idle"] /\ client' = [client EXCEPT ![p] = Organizer]
          /\ UNCHANGED <<commentVars, present>>
      BY <1>6 DEF Fail, Goto, worldVars
    <2>2. Posting' \subseteq Posting
      BY <1>1, <2>1 DEF Posting, Placed
    <2>3. \A q \in Procs : pc'[q] \in CommentLabels => client'[q] \in Attendees
      BY <1>1, <2>1 DEF CommentsInv, CommentLabels, Placed
    <2>4. QED
      BY <2>1, <2>2, <2>3, CommentsShrink, ReaderShrinks DEF commentVars, CommentsInv
  <1>7. CASE (\E a \in Attendees : RemoveAttendee(a)) \/ DeleteEvent
    <2>1. /\ UNCHANGED <<posted, reader, pc, client>> /\ comments' \subseteq comments
          /\ \A c \in comments' : c.by \in present'
      BY <1>7 DEF RemoveAttendee, LoseAttendee, CommentsLoseAttendee, DeleteEvent, LoseEvent,
                  CommentsLoseEvent, requestVars, CommentsInv
    <2>2. Posting' = Posting
      BY <2>1 DEF Posting
    <2>3. QED
      BY <2>1, <2>2, CommentsShrink, ReaderShrinks DEF CommentsInv
  <1>8. CASE Restart
    <2>1. pc' = [p \in Procs |-> "idle"] /\ UNCHANGED <<commentVars, present>>
      BY <1>8 DEF Restart, LoseMemory
    <2>2. Posting' \subseteq Posting /\ \A q \in Procs : pc'[q] \notin CommentLabels
      BY <2>1 DEF Posting, CommentLabels
    <2>3. QED
      BY <2>1, <2>2, CommentsShrink, ReaderShrinks DEF commentVars, CommentsInv
  <1>9. QED
    BY <1>3, <1>4, <1>5, <1>6, <1>7, <1>8 DEF Next

LEMMA CommentsStart == Init => CommentsInv /\ ReaderInv
  <1> SUFFICES ASSUME Init PROVE CommentsInv /\ ReaderInv
    OBVIOUS
  <1>1. /\ comments \in Existing /\ posted = Cardinality(comments) /\ reader = NoReader
        /\ pc = [p \in Procs |-> "idle"] /\ present = Attendees
    BY DEF Init, CommentsInit, ScopeInit
  <1>2. /\ IsFiniteSet(comments) /\ Cardinality(comments) <= MaxComments
        /\ comments \subseteq [id : 1 .. posted, by : Attendees, at : Int]
        /\ \A c, d \in comments : c.id = d.id => c = d
    BY <1>1, CommentsAssumption
  <1>3. Posting = {} /\ \A p \in Procs : pc[p] \notin CommentLabels
    BY <1>1 DEF Posting, CommentLabels
  <1>4. Cardinality(comments) + Cardinality(Posting) <= MaxComments + Cardinality(Procs) - 1
    <2>1. Cardinality(Posting) = 0 /\ Cardinality(comments) \in Nat /\ MaxComments \in Nat
      BY <1>2, <1>3, FS_EmptySet, FS_CardinalityType, CommentsAssumption
    <2>2. Cardinality(Procs) \in Nat /\ Cardinality(Procs) # 0
      BY ScopeAssumption, FS_EmptySet, FS_CardinalityType
    <2>3. QED
      BY <1>2, <2>1, <2>2
  <1>5. CommentsInv
    BY <1>1, <1>2, <1>3, <1>4, FS_CardinalityType DEF CommentsInv
  <1>6. ReaderInv
    BY <1>1, FS_EmptySet DEF ReaderInv, NoReader
  <1>7. QED
    BY <1>5, <1>6

LEMMA CommentsInvariant == Spec => [](CommentsInv /\ ReaderInv)
  BY CommentsStart, CommentsStep, ScopeInvariant, PTL DEF Spec

\* Whatever is posted and deleted between two pages, no comment is shown twice, and who
\* reads to the end has seen every comment that was there all the time, except such
\* as share the second of the last comment of a page.
THEOREM PagesAreComplete == Spec => []PagesComplete
  <1>1. ReaderInv => PagesComplete
    BY DEF ReaderInv, PagesComplete, NothingShownTwice, MissingOnlyTies
  <1>2. QED
    BY <1>1, CommentsInvariant, PTL

-----------------------------------------------------------------------------
(* The messages                                                            *)

Message == [id : 1 .. sends, by : Actors, at : 0 .. now, after : SUBSET (1 .. sends)]

\* A send that has been answered is remembered, or a later one of its sender; a send
\* that has been checked keeps its distance from those.
MessagesInv ==
    /\ sends \in Nat
    /\ messages \subseteq Message
    /\ lastSend \in [Actors -> {Never} \cup 0 .. now]
    /\ answered \subseteq 1 .. sends
    /\ before \in [Procs -> SUBSET (1 .. sends)]
    /\ row \in [Procs -> 0 .. sends]
    /\ \A m \in messages :
          /\ m.id \in answered => lastSend[m.by] # Never /\ m.at <= lastSend[m.by]
          /\ \A n \in messages : m.by = n.by /\ m.id \in n.after => n.at >= m.at + Cooldown(m.by)
    /\ \A p \in Procs :
          /\ before[p] \subseteq answered
          /\ pc[p] = "m_record" => row[p] # 0
          /\ \A m \in messages :
                /\ pc[p] = "m_create" /\ m.id \in before[p] /\ m.by = client[p]
                       => now >= m.at + Cooldown(m.by)
                /\ pc[p] = "m_record" /\ m.id = row[p] => m.by = client[p]

LEMMA CooldownIsNumber == \A k : Cooldown(k) \in Nat
  BY MessagesAssumption DEF Cooldown

LEMMA MessageFields ==
    ASSUME MessagesInv, now \in Nat, NEW m \in messages
    PROVE  /\ m.id \in 1 .. sends /\ m.id \in Nat /\ m.by \in Actors
           /\ m.at \in Nat /\ m.at <= now /\ m.after \subseteq 1 .. sends
  BY DEF MessagesInv, Message

\* Time passes; the row of a message only goes with its event.
LEMMA MessagesElsewhere ==
    ASSUME MessagesInv, now \in Nat, now' \in Nat, now' >= now,
           UNCHANGED <<sends, lastSend, answered, before, row>>, messages' \subseteq messages,
           Still(MessageLabels)
    PROVE  MessagesInv'
  <1>1. (0 .. now) \subseteq (0 .. now')
    BY SMT
  <1>2. messages' \subseteq Message'
    BY <1>1 DEF MessagesInv, Message
  <1>3. lastSend' \in [Actors -> {Never} \cup 0 .. now']
    BY <1>1 DEF MessagesInv
  <1>4. ASSUME NEW p \in Procs, NEW m \in messages'
        PROVE  /\ pc'[p] = "m_create" /\ m.id \in before[p] /\ m.by = client'[p]
                      => now' >= m.at + Cooldown(m.by)
               /\ pc'[p] = "m_record" /\ m.id = row[p] => m.by = client'[p]
    <2>1. CASE pc'[p] \notin MessageLabels
      BY <2>1 DEF MessageLabels
    <2>2. CASE pc'[p] \in MessageLabels
      <3>1. pc'[p] = pc[p] /\ client'[p] = client[p]
        BY <2>2 DEF Still
      <3>2. m.at \in Nat /\ Cooldown(m.by) \in Nat
        BY <1>4, MessageFields, CooldownIsNumber
      <3>3. QED
        BY <1>4, <3>1, <3>2 DEF MessagesInv
    <2>3. QED
      BY <2>1, <2>2
  <1>5. \A p \in Procs : pc'[p] = "m_record" => row[p] # 0
    BY DEF MessagesInv, Still, MessageLabels
  <1>6. QED
    BY <1>2, <1>3, <1>4, <1>5 DEF MessagesInv

LEMMA SendCheckStep ==
    ASSUME MessagesInv, Placed, now \in Nat, NEW p \in Procs, NEW k \in Actors, SendCheck(p, k)
    PROVE  MessagesInv'
  <1>1. /\ pc[p] = "idle" /\ pc' = [pc EXCEPT ![p] = "m_create"] /\ client' = [client EXCEPT ![p] = k]
        /\ ~CoolingDown(k) /\ before' = [before EXCEPT ![p] = answered]
        /\ UNCHANGED <<messages, sends, lastSend, answered, row, now>>
    BY DEF SendCheck, Admit, worldVars
  <1>2. messages' \subseteq Message'
    BY <1>1 DEF MessagesInv, Message
  <1>3. before' \in [Procs -> SUBSET (1 .. sends)]
    BY <1>1 DEF MessagesInv
  <1>4. ASSUME NEW m \in messages, m.id \in answered, m.by = k
        PROVE  now >= m.at + Cooldown(m.by)
    <2>1. m.at \in Nat /\ Cooldown(k) \in Nat /\ lastSend[k] # Never /\ m.at <= lastSend[k]
          /\ lastSend[k] \in Int
      BY <1>4, MessageFields, CooldownIsNumber DEF MessagesInv, Never
    <2>2. now - lastSend[k] >= Cooldown(k)
      BY <1>1, <2>1 DEF CoolingDown
    <2>3. QED
      BY <1>4, <2>1, <2>2
  <1>5. ASSUME NEW q \in Procs
        PROVE  /\ before'[q] \subseteq answered
               /\ pc'[q] = "m_record" => row[q] # 0
               /\ \A m \in messages :
                     /\ pc'[q] = "m_create" /\ m.id \in before'[q] /\ m.by = client'[q]
                            => now >= m.at + Cooldown(m.by)
                     /\ pc'[q] = "m_record" /\ m.id = row[q] => m.by = client'[q]
    <2>1. CASE q = p
      <3>1. before'[q] = answered /\ pc'[q] = "m_create" /\ client'[q] = k
        BY <1>1, <2>1 DEF MessagesInv, Placed
      <3>2. QED
        BY <1>4, <3>1
    <2>2. CASE q # p
      <3>1. before'[q] = before[q] /\ pc'[q] = pc[q] /\ client'[q] = client[q]
        BY <1>1, <2>2 DEF MessagesInv, Placed
      <3>2. QED
        BY <3>1 DEF MessagesInv
    <2>3. QED
      BY <2>1, <2>2
  <1>6. QED
    BY <1>1, <1>2, <1>3, <1>5 DEF MessagesInv

\* The new row has an id that nobody has heard of.
LEMMA SendCreateStep ==
    ASSUME MessagesInv, Placed, now \in Nat, NEW p \in Procs, SendCreate(p), eventStatus # "deleted"
    PROVE  MessagesInv'
  <1> DEFINE new == [id |-> sends + 1, by |-> client[p], at |-> now, after |-> before[p]]
  <1>1. /\ pc[p] = "m_create" /\ pc' = [pc EXCEPT ![p] = "m_record"] /\ UNCHANGED <<client, now>>
        /\ sends' = sends + 1 /\ row' = [row EXCEPT ![p] = sends + 1]
        /\ messages' = messages \cup {new} /\ before' = [before EXCEPT ![p] = {}]
        /\ UNCHANGED <<lastSend, answered>>
    BY DEF SendCreate, Goto, worldVars, Placed
  <1>2. /\ sends \in Nat /\ (1 .. sends) \subseteq (1 .. sends') /\ sends + 1 \in 1 .. sends'
        /\ (0 .. sends) \subseteq (0 .. sends') /\ sends + 1 \in 0 .. sends'
        /\ sends + 1 \notin 1 .. sends /\ sends + 1 \notin 0 .. sends /\ sends + 1 # 0
    BY <1>1 DEF MessagesInv
  <1>3. client[p] \in Actors /\ before[p] \subseteq 1 .. sends
    BY DEF Placed, MessagesInv
  <1>4. new \in Message' /\ Message \subseteq Message'
    BY <1>1, <1>2, <1>3 DEF Message
  <1>5. /\ messages' \subseteq Message' /\ lastSend' \in [Actors -> {Never} \cup 0 .. now']
        /\ answered' \subseteq 1 .. sends'
    BY <1>1, <1>2, <1>4 DEF MessagesInv
  <1>6. before' \in [Procs -> SUBSET (1 .. sends')] /\ row' \in [Procs -> 0 .. sends']
    BY <1>1, <1>2 DEF MessagesInv
  <1>7. ASSUME NEW m \in messages'
        PROVE  /\ m.id \in answered => lastSend[m.by] # Never /\ m.at <= lastSend[m.by]
               /\ \A n \in messages' : m.by = n.by /\ m.id \in n.after => n.at >= m.at + Cooldown(m.by)
    <2>1. CASE m = new
      <3>1. m.id = sends + 1 /\ m.id \notin answered
        BY <1>2, <2>1 DEF MessagesInv
      <3>2. \A n \in messages' : n.after \subseteq 1 .. sends
        BY <1>1, <1>3, MessageFields
      <3>3. QED
        BY <1>2, <3>1, <3>2
    <2>2. CASE m \in messages
      <3>1. m.by = client[p] /\ m.id \in before[p] => now >= m.at + Cooldown(m.by)
        BY <1>1, <2>2 DEF MessagesInv
      <3>2. QED
        BY <1>1, <2>2, <3>1 DEF MessagesInv
    <2>3. QED
      BY <1>1, <2>1, <2>2
  <1>8. ASSUME NEW q \in Procs
        PROVE  /\ before'[q] \subseteq answered
               /\ pc'[q] = "m_record" => row'[q] # 0
               /\ \A m \in messages' :
                     /\ pc'[q] = "m_create" /\ m.id \in before'[q] /\ m.by = client[q]
                            => now >= m.at + Cooldown(m.by)
                     /\ pc'[q] = "m_record" /\ m.id = row'[q] => m.by = client[q]
    <2>1. CASE q = p
      <3>1. before'[q] = {} /\ row'[q] = sends + 1 /\ pc'[q] = "m_record"
        BY <1>1, <2>1 DEF MessagesInv, Placed
      <3>2. \A m \in messages : m.id # sends + 1
        BY <1>2, MessageFields
      <3>3. QED
        BY <1>1, <1>2, <2>1, <3>1, <3>2
    <2>2. CASE q # p
      <3>1. before'[q] = before[q] /\ row'[q] = row[q] /\ pc'[q] = pc[q]
        BY <1>1, <2>2 DEF MessagesInv, Placed
      <3>2. new.id \notin before[q] /\ new.id # row[q]
        <4>1. before[q] \subseteq 1 .. sends /\ row[q] \in 0 .. sends
          BY DEF MessagesInv
        <4>2. QED
          BY <1>2, <4>1
      <3>3. QED
        BY <1>1, <3>1, <3>2 DEF MessagesInv
    <2>3. QED
      BY <2>1, <2>2
  <1>9. QED
    BY <1>1, <1>2, <1>5, <1>6, <1>7, <1>8 DEF MessagesInv

LEMMA SendRecordStep ==
    ASSUME MessagesInv, Placed, now \in Nat, NEW p \in Procs, SendRecord(p)
    PROVE  MessagesInv'
  <1>1. /\ pc[p] = "m_record" /\ pc' = [pc EXCEPT ![p] = "idle"]
        /\ client' = [client EXCEPT ![p] = Organizer]
        /\ lastSend' = [lastSend EXCEPT ![client[p]] = now]
        /\ answered' = answered \cup {row[p]} /\ row' = [row EXCEPT ![p] = 0]
        /\ UNCHANGED <<messages, sends, before, now>>
    BY DEF SendRecord, Goto, worldVars
  <1>2. client[p] \in Actors /\ row[p] \in 1 .. sends
    BY <1>1 DEF Placed, MessagesInv
  <1>3. /\ messages' \subseteq Message' /\ lastSend' \in [Actors -> {Never} \cup 0 .. now]
        /\ answered' \subseteq 1 .. sends /\ row' \in [Procs -> 0 .. sends]
    <2>1. messages' \subseteq Message' /\ answered' \subseteq 1 .. sends
      BY <1>1, <1>2 DEF MessagesInv, Message
    <2>2. now \in 0 .. now
      OBVIOUS
    <2>3. lastSend' \in [Actors -> {Never} \cup 0 .. now]
      BY <1>1, <1>2, <2>2 DEF MessagesInv
    <2>4. sends \in Nat /\ 0 \in 0 .. sends
      BY DEF MessagesInv
    <2>5. row' \in [Procs -> 0 .. sends]
      BY <1>1, <2>4 DEF MessagesInv
    <2>6. QED
      BY <2>1, <2>3, <2>5
  <1>4. ASSUME NEW m \in messages, m.id \in answered'
        PROVE  lastSend'[m.by] # Never /\ m.at <= lastSend'[m.by]
    <2>1. m.by \in Actors /\ m.at \in Nat /\ m.at <= now
      BY <1>4, MessageFields
    <2>2. CASE m.by = client[p]
      <3>1. lastSend'[m.by] = now /\ now # Never
        BY <1>1, <2>1, <2>2 DEF MessagesInv, Never
      <3>2. QED
        BY <2>1, <3>1
    <2>3. CASE m.by # client[p]
      <3>1. m.id # row[p]
        BY <1>1, <1>4, <2>3 DEF MessagesInv
      <3>2. lastSend'[m.by] = lastSend[m.by]
        BY <1>1, <2>1, <2>3 DEF MessagesInv
      <3>3. QED
        BY <1>1, <1>4, <3>1, <3>2 DEF MessagesInv
    <2>4. QED
      BY <2>2, <2>3
  <1>5. ASSUME NEW q \in Procs
        PROVE  /\ before[q] \subseteq answered'
               /\ pc'[q] = "m_record" => row'[q] # 0
               /\ \A m \in messages :
                     /\ pc'[q] = "m_create" /\ m.id \in before[q] /\ m.by = client'[q]
                            => now >= m.at + Cooldown(m.by)
                     /\ pc'[q] = "m_record" /\ m.id = row'[q] => m.by = client'[q]
    <2>1. CASE q = p
      <3>1. pc'[q] = "idle"
        BY <1>1, <2>1 DEF Placed
      <3>2. QED
        BY <1>1, <3>1 DEF MessagesInv
    <2>2. CASE q # p
      <3>1. row'[q] = row[q] /\ pc'[q] = pc[q] /\ client'[q] = client[q]
        BY <1>1, <2>2 DEF MessagesInv, Placed
      <3>2. QED
        BY <1>1, <3>1 DEF MessagesInv
    <2>3. QED
      BY <2>1, <2>2
  <1>6. QED
    BY <1>1, <1>3, <1>4, <1>5 DEF MessagesInv

\* Goroutines ps end without an answer; their messages, if written, remain.
LEMMA MessagesGone ==
    ASSUME MessagesInv, NEW ps, UNCHANGED <<now, messages, sends>>,
           \A q \in Procs : q \in ps => pc'[q] = "idle",
           \A q \in Procs \ ps : pc'[q] = pc[q] /\ client'[q] = client[q],
           before' = [q \in Procs |-> IF q \in ps THEN {} ELSE before[q]],
           row' = [q \in Procs |-> IF q \in ps THEN 0 ELSE row[q]],
           \/ UNCHANGED <<lastSend, answered>>
           \/ ps = Procs /\ answered' = {} /\ lastSend' = [k \in Actors |-> Never]
    PROVE  MessagesInv'
  <1>1. /\ messages' \subseteq Message' /\ sends' \in Nat
        /\ lastSend' \in [Actors -> {Never} \cup 0 .. now] /\ answered' \subseteq 1 .. sends
    BY DEF MessagesInv, Message
  <1>2. before' \in [Procs -> SUBSET (1 .. sends)] /\ row' \in [Procs -> 0 .. sends]
    BY DEF MessagesInv
  <1>3. ASSUME NEW m \in messages
        PROVE  /\ m.id \in answered' => lastSend'[m.by] # Never /\ m.at <= lastSend'[m.by]
               /\ \A n \in messages : m.by = n.by /\ m.id \in n.after => n.at >= m.at + Cooldown(m.by)
    BY DEF MessagesInv
  <1>4. ASSUME NEW q \in Procs
        PROVE  /\ before'[q] \subseteq answered'
               /\ pc'[q] = "m_record" => row'[q] # 0
               /\ \A m \in messages :
                     /\ pc'[q] = "m_create" /\ m.id \in before'[q] /\ m.by = client'[q]
                            => now >= m.at + Cooldown(m.by)
                     /\ pc'[q] = "m_record" /\ m.id = row'[q] => m.by = client'[q]
    <2>1. CASE q \in ps
      BY <2>1
    <2>2. CASE q \notin ps
      <3>1. /\ UNCHANGED answered /\ before'[q] = before[q] /\ row'[q] = row[q]
            /\ pc'[q] = pc[q] /\ client'[q] = client[q]
        BY <2>2
      <3>2. QED
        BY <3>1 DEF MessagesInv
    <2>3. QED
      BY <2>1, <2>2
  <1>5. QED
    BY <1>1, <1>2, <1>3, <1>4 DEF MessagesInv
LEMMA MessagesStep == MessagesInv /\ ScopeInv /\ [Next]_vars => MessagesInv'
  <1> SUFFICES ASSUME MessagesInv, ScopeInv, [Next]_vars PROVE MessagesInv'
    OBVIOUS
  <1>1. Placed /\ now \in Nat
    BY DEF ScopeInv
  <1>2. ASSUME NEW L, Moves(L), MessageLabels \cap (L \cup {"idle"}) = {}, UNCHANGED messageVars
        PROVE  MessagesInv'
    <2>1. Still(MessageLabels) /\ UNCHANGED now
      BY <1>2, MovesElsewhere DEF Moves, worldVars
    <2>2. QED
      BY <1>1, <1>2, <2>1, MessagesElsewhere DEF messageVars
  <1>3. ASSUME UNCHANGED <<pc, client, sends, lastSend, answered, before, row>>, messages' \subseteq messages,
               now' \in Nat, now' >= now
        PROVE  MessagesInv'
    BY <1>1, <1>3, MessagesElsewhere DEF Still
  <1>4. CASE Guests
    <2>1. CASE MessagesNext
      <3>1. ASSUME NEW p \in Procs, SendCreate(p) PROVE MessagesInv'
        <4>1. CASE eventStatus # "deleted"
          BY <1>1, <3>1, <4>1, SendCreateStep
        <4>2. CASE eventStatus = "deleted"
          <5>1. /\ pc' = [pc EXCEPT ![p] = "idle"] /\ client' = [client EXCEPT ![p] = Organizer]
                /\ before' = [before EXCEPT ![p] = {}]
                /\ UNCHANGED <<now, messages, sends, row, lastSend, answered>> /\ pc[p] = "m_create"
            BY <3>1, <4>2 DEF SendCreate, Goto, worldVars
          <5>2. before' \in [Procs -> SUBSET (1 .. sends)]
            BY <5>1 DEF MessagesInv
          <5>3. ASSUME NEW q \in Procs
                PROVE  /\ before'[q] \subseteq answered
                       /\ pc'[q] = "m_record" => row[q] # 0
                       /\ \A m \in messages :
                             /\ pc'[q] = "m_create" /\ m.id \in before'[q] /\ m.by = client'[q]
                                    => now >= m.at + Cooldown(m.by)
                             /\ pc'[q] = "m_record" /\ m.id = row[q] => m.by = client'[q]
            BY <1>1, <5>1 DEF MessagesInv, Placed
          <5>4. QED
            BY <5>1, <5>2, <5>3 DEF MessagesInv, Message
        <4>3. QED
          BY <4>1, <4>2
      <3>2. ASSUME NEW k \in Actors, SendRefused(k) PROVE MessagesInv'
        BY <1>1, <1>3, <3>2 DEF SendRefused, AdmitOnce, messageVars, worldVars
      <3>3. QED
        BY <1>1, <2>1, <3>1, <3>2, SendCheckStep, SendRecordStep DEF MessagesNext
    <2>2. CASE CommentsNext /\ UNCHANGED messageVars
      BY <1>1, <1>2, <2>2, CommentsMove DEF MessageLabels, CommentLabels, ScopeInv
    <2>3. CASE QuestionsNext /\ UNCHANGED messageVars
      BY <1>1, <1>2, <2>3, QuestionsMove DEF QuestionLabels, MessageLabels
    <2>4. QED
      BY <1>4, <2>1, <2>2, <2>3 DEF Guests
  <1>5. CASE HostsDesk
    <2>1. UNCHANGED messageVars
      BY <1>5 DEF HostsDesk, guestVars
    <2>2. Moves(CoHostLabels) \/ Moves(CardLabels)
      BY <1>1, <1>5, CoHostsMove, CardsMove DEF HostsDesk
    <2>3. QED
      BY <1>2, <2>1, <2>2 DEF CoHostLabels, Holding, CardLabels, MessageLabels
  <1>6. CASE Scope \/ (\E k \in Actors : Dismiss(k)) \/ UNCHANGED vars
    <2>1. UNCHANGED <<pc, client, messageVars>>
      BY <1>6 DEF Scope, Tick, CloseEvent, CleanupLimiter, Refuse, Dismiss, AdmitOnce, guestVars,
                  requestVars, vars, scopeVars
    <2>2. now' = now \/ now' = now + 1
      BY <1>6 DEF Scope, Tick, CloseEvent, CleanupLimiter, Refuse, Dismiss, AdmitOnce, vars, scopeVars,
                  worldVars
    <2>3. QED
      BY <1>1, <1>3, <2>1, <2>2 DEF messageVars
  <1>7. ASSUME NEW p \in Procs, Fail(p) PROVE MessagesInv'
    <2>1. /\ pc' = [pc EXCEPT ![p] = "idle"] /\ client' = [client EXCEPT ![p] = Organizer]
          /\ UNCHANGED <<now, lastSend, answered, messages, sends>>
          /\ before' = [q \in Procs |-> IF q \in {p} THEN {} ELSE before[q]]
          /\ row' = [q \in Procs |-> IF q \in {p} THEN 0 ELSE row[q]]
      BY <1>7 DEF Fail, Goto, MessagesForget, worldVars
    <2>2. /\ \A q \in Procs : q \in {p} => pc'[q] = "idle"
          /\ \A q \in Procs \ {p} : pc'[q] = pc[q] /\ client'[q] = client[q]
      BY <1>1, <2>1 DEF Placed
    <2>3. QED
      BY <2>1, <2>2, MessagesGone
  <1>8. CASE (\E a \in Attendees : RemoveAttendee(a)) \/ DeleteEvent
    <2>1. /\ UNCHANGED <<pc, client, now, sends, lastSend, answered, before, row>>
          /\ messages' \subseteq messages
      BY <1>8 DEF RemoveAttendee, LoseAttendee, DeleteEvent, LoseEvent, MessagesLoseEvent, messageVars,
                  requestVars
    <2>2. QED
      BY <1>1, <1>3, <2>1
  <1>9. CASE Restart
    <2>1. /\ pc' = [q \in Procs |-> "idle"] /\ UNCHANGED <<now, messages, sends>>
          /\ before' = [q \in Procs |-> IF q \in Procs THEN {} ELSE before[q]]
          /\ row' = [q \in Procs |-> IF q \in Procs THEN 0 ELSE row[q]]
          /\ answered' = {} /\ lastSend' = [k \in Actors |-> Never]
      BY <1>9 DEF Restart, LoseMemory, MessagesLoseMemory, MessagesForget
    <2>2. /\ \A q \in Procs : q \in Procs => pc'[q] = "idle"
          /\ \A q \in Procs \ Procs : pc'[q] = pc[q] /\ client'[q] = client[q]
      BY <2>1
    <2>3. QED
      BY <2>1, <2>2, MessagesGone
  <1>10. QED
    BY <1>4, <1>5, <1>6, <1>7, <1>8, <1>9 DEF Next

LEMMA MessagesStart == Init => MessagesInv
  <1> SUFFICES ASSUME Init PROVE MessagesInv
    OBVIOUS
  <1>1. MessagesInit /\ pc = [p \in Procs |-> "idle"]
    BY DEF Init, ScopeInit
  <1>2. QED
    BY <1>1 DEF MessagesInit, MessagesInv

LEMMA MessagesInvariant == Spec => []MessagesInv
  BY MessagesStart, MessagesStep, ScopeInvariant, PTL DEF Spec

\* The pauses that are kept in memory: who sends again after an answer waits the whole
\* cooldown, though check, insert and record are three steps; and no host is invited
\* twice in an hour.
THEOREM PausesAreKept == Spec => []PausesKept
  <1>1. MessagesInv /\ InviteInv => PausesKept
    BY DEF MessagesInv, InviteInv, PausesKept, CooldownKept
  <1>2. QED
    BY <1>1, MessagesInvariant, InviteInvariant, PTL

-----------------------------------------------------------------------------
(* The questions                                                           *)

Question == [type : Types, options : {d.options : d \in Drafts}, required : BOOLEAN, deleted : BOOLEAN]
Asking   == {p \in Procs : pc[p] = "q_insert"}

QuestionsInv ==
    /\ questions \in Seq(Question) /\ QuestionsWellFormed
    /\ eventStatus = "deleted" => questions = <<>>
    /\ \A p \in Procs : pc[p] = "q_update" => edit[p].write \in Drafts
    /\ Cardinality(Live) + Cardinality(Asking) <= MaxQuestions + Cardinality(Procs) - 1

LEMMA DraftsAreQuestions == Drafts \subseteq Question /\ \A d \in Drafts : ~d.deleted
  BY QuestionsAssumption DEF Question

LEMMA QuestionCounts ==
    ASSUME QuestionsInv
    PROVE  /\ DOMAIN questions = 1 .. Len(questions) /\ Len(questions) \in Nat
           /\ IsFiniteSet(Live) /\ Cardinality(Live) \in Nat
           /\ IsFiniteSet(Asking) /\ Cardinality(Asking) \in Nat
           /\ Cardinality(Procs) \in Nat /\ MaxQuestions \in Nat
  <1>1. DOMAIN questions = 1 .. Len(questions) /\ Len(questions) \in Nat
    BY DEF QuestionsInv
  <1>2. IsFiniteSet(DOMAIN questions)
    BY <1>1, FS_Interval
  <1>3. IsFiniteSet(Live) /\ Cardinality(Live) \in Nat
    BY <1>2, FS_Subset, FS_CardinalityType DEF Live
  <1>4. QED
    BY <1>1, <1>3, ProcsFinite, QuestionsAssumption DEF Asking

\* The rows stay; of the goroutines none comes to the insert.
LEMMA QuestionsSame ==
    ASSUME QuestionsInv, UNCHANGED questions, eventStatus' = "deleted" => eventStatus = "deleted",
           Asking' \subseteq Asking, \A p \in Procs : pc'[p] = "q_update" => edit'[p].write \in Drafts
    PROVE  QuestionsInv'
  <1>1. UNCHANGED Live
    BY DEF Live
  <1>2. Cardinality(Asking') <= Cardinality(Asking) /\ Cardinality(Asking') \in Nat
    BY QuestionCounts, SmallerIsLess
  <1>3. Cardinality(Live') + Cardinality(Asking') <= MaxQuestions + Cardinality(Procs) - 1
    BY <1>1, <1>2, QuestionCounts DEF QuestionsInv
  <1>4. QED
    BY <1>3 DEF QuestionsInv, QuestionsWellFormed

LEMMA QuestionsElsewhere ==
    ASSUME QuestionsInv, UNCHANGED <<questions, edit>>, Still(QuestionLabels),
           eventStatus' = "deleted" => eventStatus = "deleted"
    PROVE  QuestionsInv'
  <1>1. Asking' \subseteq Asking
    BY DEF Asking, Still, QuestionLabels
  <1>2. \A p \in Procs : pc'[p] = "q_update" => edit'[p].write \in Drafts
    BY DEF QuestionsInv, Still, QuestionLabels
  <1>3. QED
    BY <1>1, <1>2, QuestionsSame

LEMMA CreateCountStep ==
    ASSUME QuestionsInv, Placed, NEW p \in Procs, CreateCount(p)
    PROVE  QuestionsInv'
  <1>1. /\ pc[p] = "idle" /\ pc' = [pc EXCEPT ![p] = "q_insert"]
        /\ ~TooManyQuestions /\ UNCHANGED <<questions, edit, eventStatus>>
    BY DEF CreateCount, Admit, worldVars, questionVars
  <1>2. Cardinality(Live) <= MaxQuestions - 1
    BY <1>1, QuestionCounts DEF TooManyQuestions
  <1>3. Cardinality(Asking') <= Cardinality(Procs) /\ Cardinality(Asking') \in Nat
    <2>1. Asking' \subseteq Procs
      BY DEF Asking
    <2>2. QED
      BY <2>1, ScopeAssumption, SmallerIsLess
  <1>4. UNCHANGED Live
    BY <1>1 DEF Live
  <1>5. Cardinality(Live') + Cardinality(Asking') <= MaxQuestions + Cardinality(Procs) - 1
    BY <1>2, <1>3, <1>4, QuestionCounts
  <1>6. \A q \in Procs : pc'[q] = "q_update" => edit'[q].write \in Drafts
    BY <1>1 DEF QuestionsInv, Placed
  <1>7. QED
    BY <1>1, <1>5, <1>6 DEF QuestionsInv, QuestionsWellFormed

LEMMA CreateInsertStep ==
    ASSUME QuestionsInv, Placed, NEW p \in Procs, CreateInsert(p)
    PROVE  QuestionsInv'
  <1>1. /\ pc[p] = "q_insert" /\ pc' = [pc EXCEPT ![p] = "idle"] /\ UNCHANGED <<edit, eventStatus>>
    BY DEF CreateInsert, Goto, worldVars
  <1>2. p \in Asking /\ Asking' = Asking \ {p}
    BY <1>1 DEF Asking, Placed
  <1>3. \A q \in Procs : pc'[q] = "q_update" => edit'[q].write \in Drafts
    BY <1>1 DEF QuestionsInv, Placed
  <1>4. CASE UNCHANGED questions
    BY <1>1, <1>2, <1>3, <1>4, QuestionsSame
  <1>5. ASSUME NEW d \in Drafts, questions' = Append(questions, d), eventStatus # "deleted"
        PROVE  QuestionsInv'
    <2>1. /\ questions' \in Seq(Question) /\ Len(questions') = Len(questions) + 1
          /\ \A q \in DOMAIN questions : questions'[q] = questions[q]
          /\ questions'[Len(questions) + 1] = d
          /\ DOMAIN questions' = DOMAIN questions \cup {Len(questions) + 1}
      BY <1>5, DraftsAreQuestions DEF QuestionsInv
    <2>2. QuestionsWellFormed'
      BY <2>1, QuestionsAssumption DEF QuestionsInv, QuestionsWellFormed
    <2>3. Live' \subseteq Live \cup {Len(questions) + 1}
      BY <2>1 DEF Live
    <2>4. Cardinality(Live') <= Cardinality(Live) + 1
      BY <2>3, QuestionCounts, OneMore
    <2>5. Cardinality(Live') \in Nat
      <3>1. IsFiniteSet(Live \cup {Len(questions) + 1})
        BY QuestionCounts, FS_AddElement
      <3>2. QED
        BY <2>3, <3>1, SmallerIsLess
    <2>6. Cardinality(Asking') = Cardinality(Asking) - 1
      BY <1>2, QuestionCounts, FS_RemoveElement
    <2>7. Cardinality(Live') + Cardinality(Asking') <= MaxQuestions + Cardinality(Procs) - 1
      BY <2>4, <2>5, <2>6, QuestionCounts DEF QuestionsInv
    <2>8. QED
      BY <1>1, <1>3, <1>5, <2>1, <2>2, <2>7 DEF QuestionsInv
  <1>6. QED
    BY <1>4, <1>5 DEF CreateInsert

\* What an update writes is a draft, but for the mark of the deletion.
LEMMA UpdatedRowIs ==
    ASSUME NEW was \in Question, NEW e, e.write \in Drafts
    PROVE  /\ UpdatedRow(was, e) \in Question
           /\ UpdatedRow(was, e).deleted = was.deleted
           /\ WellFormed(UpdatedRow(was, e).type, UpdatedRow(was, e).options)
  <1>1. e.write \in Question /\ WellFormed(e.write.type, e.write.options)
    BY DraftsAreQuestions, QuestionsAssumption
  <1>2. was.deleted \in BOOLEAN
    BY DEF Question
  <1>3. /\ UpdatedRow(was, e) \in Question /\ UpdatedRow(was, e).deleted = was.deleted
        /\ UpdatedRow(was, e).type = e.write.type /\ UpdatedRow(was, e).options = e.write.options
    BY <1>1, <1>2 DEF UpdatedRow, Question
  <1>4. QED
    BY <1>1, <1>3

\* One row changes, its place and its mark not, or the mark is set.
LEMMA RowStep ==
    ASSUME QuestionsInv, Placed, NEW p \in Procs, NEW q, NEW r,
           pc' = [pc EXCEPT ![p] = "idle"], UNCHANGED eventStatus,
           edit' = [edit EXCEPT ![p] = NoEdit],
           q \in DOMAIN questions => r \in Question /\ WellFormed(r.type, r.options)
                                     /\ (questions[q].deleted => r.deleted),
           questions' = IF q \in DOMAIN questions THEN [questions EXCEPT ![q] = r] ELSE questions
    PROVE  QuestionsInv'
  <1>1. Asking' \subseteq Asking
    BY DEF Asking, Placed
  <1>2. \A o \in Procs : pc'[o] = "q_update" => edit'[o].write \in Drafts
    BY DEF QuestionsInv, Placed
  <1>3. CASE q \notin DOMAIN questions
    BY <1>1, <1>2, <1>3, QuestionsSame
  <1>4. CASE q \in DOMAIN questions
    <2>1. /\ questions' \in Seq(Question) /\ DOMAIN questions' = DOMAIN questions
          /\ questions'[q] = r /\ \A o \in DOMAIN questions : o # q => questions'[o] = questions[o]
      BY <1>4 DEF QuestionsInv
    <2>2. QuestionsWellFormed'
      BY <1>4, <2>1 DEF QuestionsInv, QuestionsWellFormed
    <2>3. Live' \subseteq Live
      BY <1>4, <2>1 DEF Live
    <2>4. Cardinality(Live') <= Cardinality(Live) /\ Cardinality(Live') \in Nat
      BY <2>3, QuestionCounts, SmallerIsLess
    <2>5. Cardinality(Asking') <= Cardinality(Asking) /\ Cardinality(Asking') \in Nat
      BY <1>1, QuestionCounts, SmallerIsLess
    <2>6. Cardinality(Live') + Cardinality(Asking') <= MaxQuestions + Cardinality(Procs) - 1
      BY <2>4, <2>5, QuestionCounts DEF QuestionsInv
    <2>7. eventStatus' = "deleted" => questions' = <<>>
      BY <1>4 DEF QuestionsInv
    <2>8. QED
      BY <1>2, <2>1, <2>2, <2>6, <2>7 DEF QuestionsInv
  <1>5. QED
    BY <1>3, <1>4

LEMMA UpdateWriteStep ==
    ASSUME QuestionsInv, Placed, NEW p \in Procs, UpdateWrite(p)
    PROVE  QuestionsInv'
  <1> DEFINE e == edit[p]
             r == UpdatedRow(questions[e.q], e)
  <1>1. /\ pc[p] = "q_update" /\ pc' = [pc EXCEPT ![p] = "idle"] /\ UNCHANGED eventStatus
        /\ edit' = [edit EXCEPT ![p] = NoEdit]
        /\ questions' = IF e.q \in DOMAIN questions THEN [questions EXCEPT ![e.q] = r] ELSE questions
    BY DEF UpdateWrite, Goto, worldVars
  <1>2. e.q \in DOMAIN questions => r \in Question /\ WellFormed(r.type, r.options)
                                    /\ (questions[e.q].deleted => r.deleted)
    BY <1>1, UpdatedRowIs DEF QuestionsInv
  <1> HIDE DEF r
  <1>3. QED
    BY <1>1, <1>2, RowStep

LEMMA SoftDeleteStep ==
    ASSUME QuestionsInv, Placed, NEW p \in Procs, SoftDelete(p)
    PROVE  QuestionsInv'
  <1> DEFINE q == edit[p].q
             r == [questions[q] EXCEPT !.deleted = TRUE]
  <1>1. /\ pc[p] = "q_delete" /\ pc' = [pc EXCEPT ![p] = "idle"] /\ UNCHANGED eventStatus
        /\ edit' = [edit EXCEPT ![p] = NoEdit]
        /\ questions' = IF q \in DOMAIN questions THEN [questions EXCEPT ![q].deleted = TRUE] ELSE questions
    BY DEF SoftDelete, Goto, worldVars
  <1>2. ASSUME q \in DOMAIN questions
        PROVE  /\ r \in Question /\ WellFormed(r.type, r.options) /\ r.deleted
               /\ questions' = [questions EXCEPT ![q] = r]
    <2>1. questions[q] \in Question /\ WellFormed(questions[q].type, questions[q].options)
      BY <1>2 DEF QuestionsInv, QuestionsWellFormed
    <2>2. r \in Question /\ r.type = questions[q].type /\ r.options = questions[q].options /\ r.deleted
      BY <2>1 DEF Question
    <2>3. questions' = [questions EXCEPT ![q] = r]
      BY <1>1, <1>2
    <2>4. QED
      BY <2>1, <2>2, <2>3
  <1> HIDE DEF r
  <1>3. QED
    BY <1>1, <1>2, RowStep

\* What each goroutine has read and is about to write.
LocalsInv == edit = [p \in Procs |-> edit[p]] /\ form = [p \in Procs |-> form[p]]

LEMMA LocalsStep == LocalsInv /\ [Next]_vars => LocalsInv'
  <1> SUFFICES ASSUME LocalsInv, [Next]_vars PROVE LocalsInv'
    OBVIOUS
  <1>1. CASE UNCHANGED <<edit, form>>
    BY <1>1 DEF LocalsInv
  <1>2. CASE QuestionsNext
    <2>1. ASSUME NEW p \in Procs, CreateCount(p) \/ CreateInsert(p) PROVE UNCHANGED <<edit, form>>
      BY <2>1 DEF CreateCount, CreateInsert, questionVars
    <2>2. ASSUME NEW p \in Procs, UpdateWrite(p) \/ SoftDelete(p) PROVE LocalsInv'
      BY <2>2 DEF UpdateWrite, SoftDelete, LocalsInv
    <2>3. ASSUME NEW p \in Procs, NEW q, UpdateFind(p, q) \/ DeleteFind(p, q) PROVE LocalsInv'
      BY <2>3 DEF UpdateFind, DeleteFind, LocalsInv
    <2>4. ASSUME NEW p \in Procs, NEW a, NEW f, AnswerFind(p, a, f) PROVE LocalsInv'
      BY <2>4 DEF AnswerFind, LocalsInv
    <2>5. ASSUME NEW p \in Procs, NEW q, AnswerNext(p, q) PROVE LocalsInv'
      BY <2>5 DEF AnswerNext, AfterMisfit, LocalsInv
    <2>6. ASSUME NEW p \in Procs, AnswerInsert(p) \/ AnswerUpdate(p) \/ AnswerDone(p) PROVE LocalsInv'
      BY <2>6 DEF AnswerInsert, AnswerUpdate, AnswerDone, Saved, LocalsInv
    <2>7. QED
      BY <1>1, <1>2, <2>1, <2>2, <2>3, <2>4, <2>5, <2>6 DEF QuestionsNext
  <1>3. CASE (\E p \in Procs : Fail(p)) \/ Restart
    BY <1>3 DEF Fail, Restart, QuestionsForget, LocalsInv
  <1>4. CASE (Guests /\ UNCHANGED questionVars) \/ HostsDesk \/ Scope \/ \E k \in Actors : Dismiss(k)
    BY <1>1, <1>4 DEF HostsDesk, Scope, Dismiss, guestVars, questionVars
  <1>5. CASE (\E a \in Attendees : RemoveAttendee(a)) \/ DeleteEvent \/ UNCHANGED vars
    BY <1>1, <1>5 DEF RemoveAttendee, QuestionsLoseAttendee, DeleteEvent, QuestionsLoseEvent,
                      vars, guestVars, questionVars
  <1>6. QED
    BY <1>2, <1>3, <1>4, <1>5 DEF Next, Guests

LEMMA QuestionsStep == QuestionsInv /\ LocalsInv /\ ScopeInv /\ [Next]_vars => QuestionsInv'
  <1> SUFFICES ASSUME QuestionsInv, LocalsInv, ScopeInv, [Next]_vars PROVE QuestionsInv'
    OBVIOUS
  <1>1. Placed
    BY DEF ScopeInv
  <1>2. ASSUME NEW L, Moves(L), QuestionLabels \cap (L \cup {"idle"}) = {}, UNCHANGED questionVars
        PROVE  QuestionsInv'
    <2>1. Still(QuestionLabels) /\ UNCHANGED eventStatus
      BY <1>2, MovesElsewhere DEF Moves, worldVars
    <2>2. QED
      BY <1>2, <2>1, QuestionsElsewhere DEF questionVars
  <1>3. ASSUME UNCHANGED <<questions, eventStatus>>, NEW p \in Procs, NEW a,
               pc' = [pc EXCEPT ![p] = a], a # "q_insert",
               a = "q_update" => edit'[p].write \in Drafts,
               \A q \in Procs : q # p => edit'[q] = edit[q]
        PROVE  QuestionsInv'
    <2>1. Asking' \subseteq Asking
      BY <1>1, <1>3 DEF Asking, Placed
    <2>2. \A q \in Procs : pc'[q] = "q_update" => edit'[q].write \in Drafts
      BY <1>1, <1>3 DEF QuestionsInv, Placed
    <2>3. QED
      BY <1>3, <2>1, <2>2, QuestionsSame
  <1>4. CASE Guests
    <2>1. CASE QuestionsNext
      <3>1. ASSUME NEW p \in Procs, NEW q \in DOMAIN questions, UpdateFind(p, q) PROVE QuestionsInv'
        <4>1. PICK d \in Drafts : edit' = [edit EXCEPT ![p] = [q |-> q, read |-> questions[q], write |-> d]]
          BY <3>1 DEF UpdateFind
        <4>2. edit'[p].write \in Drafts /\ \A o \in Procs : o # p => edit'[o] = edit[o]
          BY <4>1 DEF LocalsInv
        <4>3. pc' = [pc EXCEPT ![p] = "q_update"] /\ UNCHANGED <<questions, eventStatus>>
          BY <3>1 DEF UpdateFind, Admit, worldVars
        <4>4. QED
          BY <1>3, <4>2, <4>3
      <3>2. ASSUME NEW p \in Procs, NEW q, DeleteFind(p, q) PROVE QuestionsInv'
        BY <1>3, <3>2 DEF DeleteFind, Admit, worldVars, LocalsInv
      <3>3. ASSUME NEW p \in Procs, NEW a, NEW f, AnswerFind(p, a, f) PROVE QuestionsInv'
        BY <1>3, <3>3 DEF AnswerFind, Admit, worldVars
      <3>4. ASSUME NEW p \in Procs, NEW q, AnswerNext(p, q) PROVE QuestionsInv'
        <4>1. /\ \E a \in {"idle", "a_next", "a_insert", "a_update"} : pc' = [pc EXCEPT ![p] = a]
              /\ UNCHANGED <<questions, eventStatus>> /\ \A o \in Procs : o # p => edit'[o] = edit[o]
          BY <3>4 DEF AnswerNext, AfterMisfit, Goto, worldVars, LocalsInv
        <4>2. QED
          BY <1>3, <4>1
      <3>5. ASSUME NEW p \in Procs, AnswerInsert(p) \/ AnswerUpdate(p) \/ AnswerDone(p) PROVE QuestionsInv'
        <4>1. /\ \E a \in {"idle", "a_next"} : pc' = [pc EXCEPT ![p] = a]
              /\ UNCHANGED <<questions, eventStatus>> /\ \A o \in Procs : o # p => edit'[o] = edit[o]
          BY <3>5 DEF AnswerInsert, AnswerUpdate, AnswerDone, Saved, Goto, worldVars, LocalsInv
        <4>2. QED
          BY <1>3, <4>1
      <3>6. QED
        BY <1>1, <2>1, <3>1, <3>2, <3>3, <3>4, <3>5, CreateCountStep, CreateInsertStep, UpdateWriteStep,
           SoftDeleteStep DEF QuestionsNext
    <2>2. CASE CommentsNext /\ UNCHANGED questionVars
      BY <1>1, <1>2, <2>2, CommentsMove DEF QuestionLabels, CommentLabels, ScopeInv
    <2>3. CASE MessagesNext /\ UNCHANGED questionVars
      BY <1>1, <1>2, <2>3, MessagesMove DEF QuestionLabels, MessageLabels
    <2>4. QED
      BY <1>4, <2>1, <2>2, <2>3 DEF Guests
  <1>5. CASE HostsDesk
    <2>1. UNCHANGED questionVars
      BY <1>5 DEF HostsDesk, guestVars
    <2>2. Moves(CoHostLabels) \/ Moves(CardLabels)
      BY <1>1, <1>5, CoHostsMove, CardsMove DEF HostsDesk
    <2>3. QED
      BY <1>2, <2>1, <2>2 DEF CoHostLabels, Holding, CardLabels, QuestionLabels
  <1>6. CASE Scope \/ (\E k \in Actors : Dismiss(k)) \/ (\E a \in Attendees : RemoveAttendee(a)) \/ UNCHANGED vars
    <2>1. /\ UNCHANGED <<pc, client, questions, edit>>
          /\ eventStatus' = eventStatus \/ eventStatus' = "closed"
      BY <1>6 DEF Scope, Tick, CloseEvent, CleanupLimiter, Refuse, Dismiss, AdmitOnce, RemoveAttendee,
                  LoseAttendee, QuestionsLoseAttendee, guestVars, questionVars, requestVars, vars,
                  scopeVars, worldVars
    <2>2. QED
      BY <2>1, QuestionsElsewhere DEF Still
  <1>7. ASSUME NEW p \in Procs, Fail(p) PROVE QuestionsInv'
    <2>1. /\ pc' = [pc EXCEPT ![p] = "idle"] /\ UNCHANGED <<questions, eventStatus>>
          /\ \A q \in Procs : q # p => edit'[q] = edit[q]
      BY <1>7 DEF Fail, Goto, QuestionsForget, worldVars
    <2>2. QED
      BY <1>3, <2>1
  <1>8. CASE Restart
    <2>1. pc' = [p \in Procs |-> "idle"] /\ UNCHANGED <<questions, eventStatus>>
      BY <1>8 DEF Restart, LoseMemory, QuestionsForget
    <2>2. Asking' \subseteq Asking /\ \A p \in Procs : pc'[p] # "q_update"
      BY <2>1 DEF Asking
    <2>3. QED
      BY <2>1, <2>2, QuestionsSame
  <1>9. CASE DeleteEvent
    <2>1. questions' = <<>> /\ UNCHANGED <<pc, edit>>
      BY <1>9 DEF DeleteEvent, LoseEvent, QuestionsLoseEvent, requestVars
    <2>2. Live' = {} /\ Cardinality(Live') = 0 /\ UNCHANGED Asking
      BY <2>1, FS_EmptySet DEF Live, Asking
    <2>3. Cardinality(Live') + Cardinality(Asking') <= MaxQuestions + Cardinality(Procs) - 1
      BY <2>2, QuestionCounts DEF QuestionsInv
    <2>4. QED
      BY <2>1, <2>3 DEF QuestionsInv, QuestionsWellFormed
  <1>10. QED
    BY <1>4, <1>5, <1>6, <1>7, <1>8, <1>9 DEF Next

LEMMA QuestionsStart == Init => QuestionsInv /\ LocalsInv
  <1> SUFFICES ASSUME Init PROVE QuestionsInv /\ LocalsInv
    OBVIOUS
  <1>1. /\ questions \in FirstQuestions /\ pc = [p \in Procs |-> "idle"] /\ eventStatus = "published"
        /\ edit = [p \in Procs |-> NoEdit] /\ form = [p \in Procs |-> NoForm]
    BY DEF Init, QuestionsInit, ScopeInit
  <1>2. questions \in Seq(Drafts) /\ Len(questions) <= MaxQuestions
    BY <1>1, QuestionsAssumption
  <1>3. questions \in Seq(Question) /\ \A q \in DOMAIN questions : questions[q] \in Drafts
    <2>1. \A q \in DOMAIN questions : questions[q] \in Drafts
      BY <1>2
    <2>2. questions = [q \in 1 .. Len(questions) |-> questions[q]] /\ Len(questions) \in Nat
      BY <1>2
    <2>3. \A q \in 1 .. Len(questions) : questions[q] \in Question
      BY <2>1, <1>2, DraftsAreQuestions
    <2>4. QED
      BY <2>1, <2>2, <2>3
  <1>4. QuestionsWellFormed
    BY <1>3, QuestionsAssumption DEF QuestionsWellFormed
  <1>5. Cardinality(Live) <= MaxQuestions /\ Cardinality(Live) \in Nat
    <2>1. Len(questions) \in Nat /\ DOMAIN questions = 1 .. Len(questions)
      BY <1>2
    <2>2. IsFiniteSet(1 .. Len(questions)) /\ Cardinality(1 .. Len(questions)) = Len(questions)
      <3>1. /\ IsFiniteSet(1 .. Len(questions))
            /\ Cardinality(1 .. Len(questions)) = IF 1 > Len(questions) THEN 0 ELSE Len(questions) - 1 + 1
        BY <2>1, FS_Interval
      <3>2. QED
        BY <2>1, <3>1
    <2>3. Live \subseteq 1 .. Len(questions)
      BY <2>1 DEF Live
    <2>4. QED
      BY <1>2, <2>1, <2>2, <2>3, SmallerIsLess, QuestionsAssumption
  <1>6. Asking = {} /\ Cardinality(Asking) = 0
    BY <1>1, FS_EmptySet DEF Asking
  <1>7. Cardinality(Procs) \in Nat /\ Cardinality(Procs) # 0 /\ MaxQuestions \in Nat
    BY ScopeAssumption, QuestionsAssumption, FS_EmptySet, FS_CardinalityType
  <1>8. QED
    BY <1>1, <1>3, <1>4, <1>5, <1>6, <1>7 DEF QuestionsInv, LocalsInv

LEMMA QuestionsInvariant == Spec => [](QuestionsInv /\ LocalsInv)
  BY QuestionsStart, QuestionsStep, LocalsStep, ScopeInvariant, PTL DEF Spec

\* The limits that are counted before an insert: without a lock they are exceeded by no
\* more than the other requests in flight, with the mutex of the co-hosts not at all.
THEOREM LimitsAreKept == Spec => []LimitsKept
  <1>1. CommentsInv => CommentsBounded
    <2> SUFFICES ASSUME CommentsInv PROVE CommentsBounded
      OBVIOUS
    <2>1. QED
      BY CountsAreNumbers DEF CommentsInv, CommentsBounded
  <1>2. QuestionsInv => QuestionsBounded
    <2> SUFFICES ASSUME QuestionsInv PROVE QuestionsBounded
      OBVIOUS
    <2>1. QED
      BY QuestionCounts DEF QuestionsInv, QuestionsBounded
  <1>3. QED
    BY <1>1, <1>2, CommentsInvariant, QuestionsInvariant, CoHostsNeverExceeded, PTL DEF LimitsKept

\* The marks of the deletion stay in this step.
MarksStay == \A q \in DOMAIN questions \cap DOMAIN questions' : questions[q].deleted => questions'[q].deleted

LEMMA MarksStep == QuestionsInv /\ [Next]_vars => MarksStay
  <1> SUFFICES ASSUME QuestionsInv, [Next]_vars PROVE MarksStay
    OBVIOUS
  <1>1. questions \in Seq(Question)
    BY DEF QuestionsInv
  <1>2. CASE UNCHANGED questions
    BY <1>2 DEF MarksStay
  <1>3. CASE QuestionsNext
    <2>1. ASSUME NEW p \in Procs, CreateInsert(p) PROVE MarksStay
      <3>1. UNCHANGED questions \/ \E d : questions' = Append(questions, d)
        BY <2>1 DEF CreateInsert
      <3>2. QED
        BY <1>1, <1>2, <3>1 DEF MarksStay
    <2>2. ASSUME NEW p \in Procs, UpdateWrite(p) PROVE MarksStay
      <3> DEFINE e == edit[p]
                 r == UpdatedRow(questions[e.q], e)
      <3>1. /\ pc[p] = "q_update"
            /\ questions' = IF e.q \in DOMAIN questions THEN [questions EXCEPT ![e.q] = r] ELSE questions
        BY <2>2 DEF UpdateWrite
      <3>2. e.q \in DOMAIN questions => r.deleted = questions[e.q].deleted
        BY <1>1, <3>1, UpdatedRowIs DEF QuestionsInv
      <3> HIDE DEF r
      <3>3. QED
        BY <1>1, <3>1, <3>2 DEF MarksStay
    <2>3. ASSUME NEW p \in Procs, SoftDelete(p) PROVE MarksStay
      <3> DEFINE q == edit[p].q
      <3>1. questions' = IF q \in DOMAIN questions THEN [questions EXCEPT ![q].deleted = TRUE] ELSE questions
        BY <2>3 DEF SoftDelete
      <3>2. ASSUME NEW o \in DOMAIN questions, questions[o].deleted PROVE questions'[o].deleted
        <4>1. CASE o = q
          <5>1. questions[q] \in Question
            BY <1>1, <3>2, <4>1
          <5>2. questions'[q] = [questions[q] EXCEPT !.deleted = TRUE]
            BY <3>1, <3>2, <4>1
          <5>3. QED
            BY <4>1, <5>1, <5>2 DEF Question
        <4>2. CASE o # q
          BY <3>1, <3>2, <4>2
        <4>3. QED
          BY <4>1, <4>2
      <3>3. QED
        BY <3>2 DEF MarksStay
    <2>4. ASSUME NEW p \in Procs,
                 \/ CreateCount(p) \/ AnswerInsert(p) \/ AnswerUpdate(p) \/ AnswerDone(p)
                 \/ \E q : UpdateFind(p, q) \/ DeleteFind(p, q) \/ AnswerNext(p, q)
                 \/ \E a, f : AnswerFind(p, a, f)
          PROVE  MarksStay
      BY <1>2, <2>4 DEF CreateCount, AnswerInsert, AnswerUpdate, AnswerDone, UpdateFind, DeleteFind,
                        AnswerNext, AnswerFind, questionVars
    <2>5. QED
      BY <1>3, <2>1, <2>2, <2>3, <2>4 DEF QuestionsNext
  <1>4. CASE (Guests /\ UNCHANGED questionVars) \/ HostsDesk \/ Scope \/ (\E k \in Actors : Dismiss(k))
             \/ (\E p \in Procs : Fail(p)) \/ (\E a \in Attendees : RemoveAttendee(a)) \/ Restart
             \/ UNCHANGED vars
    BY <1>2, <1>4 DEF HostsDesk, Scope, Dismiss, Fail, RemoveAttendee, Restart, QuestionsForget,
                      QuestionsLoseAttendee, guestVars, questionVars, vars
  <1>5. CASE DeleteEvent
    BY <1>5 DEF DeleteEvent, QuestionsLoseEvent, MarksStay
  <1>6. QED
    BY <1>3, <1>4, <1>5 DEF Next, Guests

\* A question that is deleted stays so: an update that had read it before leaves
\* the mark of the deletion alone.
THEOREM DeletedStay == Spec => DeletedQuestionsStay
  <1>1. MarksStay => [MarksStay]_questions
    OBVIOUS
  <1>2. QED
    BY MarksStep, QuestionsInvariant, <1>1, PTL DEF Spec, DeletedQuestionsStay, MarksStay

-----------------------------------------------------------------------------
(* The answers                                                             *)

Answering == {"a_next", "a_insert", "a_update"}

\* There is an answer of a to question q, or a is no attendee any more.
Has(a, q) == a \notin present \/ Stored(a, q) # {}

\* No answer is blank whose submission had read the question as required.
AnswerRows ==
    /\ \A s \in answers : /\ s = [by |-> s.by, q |-> s.q, value |-> s.value, required |-> s.required]
                          /\ s.by \in present /\ s.q \in DOMAIN questions
                          /\ s.required => ~Blank(s.value)
    /\ \A s, t \in answers : s.by = t.by /\ s.q = t.q => s = t

\* What goroutine p has to store yet: of the required questions all that have no answer.
FormKept(p) ==
    /\ form[p] = [asked |-> form[p].asked, left |-> form[p].left, need |-> form[p].need]
    /\ pc[p] \in Answering =>
          /\ form[p].need \subseteq DOMAIN form[p].asked
          /\ \A q \in form[p].need : \/ q \in DOMAIN form[p].left /\ ~Blank(form[p].left[q])
                                     \/ q \notin DOMAIN form[p].left /\ Has(client[p], q)
    /\ pc[p] \in {"a_insert", "a_update"} => edit[p].q \in DOMAIN form[p].left
    /\ pc[p] = "a_update" => Has(client[p], edit[p].q)

AnswersInv ==
    /\ AnswerRows
    /\ \A p \in Procs : FormKept(p)
    /\ \A f \in accepted : \A q \in f.need : Has(f.by, q)

\* What is there stays there, while its attendee does.
Kept == \A a, q : Has(a, q) => Has(a, q)'

LEMMA SameKept == ASSUME UNCHANGED answers, present' \subseteq present PROVE Kept
  BY DEF Kept, Has, Stored

LEMMA FormStays ==
    ASSUME Kept, NEW p \in Procs, FormKept(p), form'[p] = form[p],
           pc'[p] \in Answering => pc'[p] = pc[p] /\ client'[p] = client[p] /\ edit'[p] = edit[p]
    PROVE  FormKept(p)'
  BY DEF Kept, FormKept, Answering

LEMMA AnswersStill ==
    ASSUME AnswersInv, UNCHANGED <<answers, questions, present, accepted, edit, form>>, Still(Answering)
    PROVE  AnswersInv'
  <1>1. Kept
    BY SameKept
  <1>2. \A p \in Procs : FormKept(p)'
    BY <1>1, FormStays DEF AnswersInv, Still
  <1>3. QED
    BY <1>1, <1>2 DEF AnswersInv, AnswerRows, Kept

\* A step of goroutine p.
LEMMA AnswersOf ==
    ASSUME AnswersInv, Kept, AnswerRows', NEW p \in Procs, FormKept(p)',
           \A o \in Procs : o # p => /\ pc'[o] = pc[o] /\ client'[o] = client[o]
                                     /\ form'[o] = form[o] /\ edit'[o] = edit[o],
           \A f \in accepted' : f \in accepted \/ \A q \in f.need : Has(f.by, q)'
    PROVE  AnswersInv'
  <1>1. \A o \in Procs : o # p => FormKept(o)'
    BY FormStays DEF AnswersInv
  <1>2. QED
    BY <1>1 DEF AnswersInv, Kept

\* The handlers of the organizer.
LEMMA RowsWritten ==
    ASSUME AnswersInv, Placed, NEW p \in Procs, NEW a, a \notin Answering,
           pc' = [pc EXCEPT ![p] = a], \A o \in Procs : o # p => client'[o] = client[o] /\ edit'[o] = edit[o],
           UNCHANGED <<answers, present, accepted, form>>, DOMAIN questions \subseteq DOMAIN questions'
    PROVE  AnswersInv'
  <1>1. Kept
    BY SameKept
  <1>2. AnswerRows'
    BY DEF AnswersInv, AnswerRows
  <1>3. pc'[p] = a /\ \A o \in Procs : o # p => pc'[o] = pc[o]
    BY DEF Placed
  <1>4. FormKept(p)'
    BY <1>3 DEF AnswersInv, FormKept, Answering
  <1>5. QED
    BY <1>1, <1>2, <1>3, <1>4, AnswersOf

LEMMA AnswerFindStep ==
    ASSUME AnswersInv, LocalsInv, Placed, NEW p \in Procs, NEW a, NEW f, AnswerFind(p, a, f)
    PROVE  AnswersInv'
  <1> DEFINE need == {q \in Live : questions[q].required}
  <1>1. /\ \A q \in need : q \in DOMAIN f /\ ~Blank(f[q])
        /\ pc' = [pc EXCEPT ![p] = "a_next"] /\ client' = [client EXCEPT ![p] = a]
        /\ form' = [form EXCEPT ![p] = [asked |-> [q \in Live |-> questions[q]], left |-> f, need |-> need]]
        /\ UNCHANGED <<questions, answers, edit, accepted, present>>
    BY DEF AnswerFind, Admit, worldVars
  <1>2. Kept
    BY <1>1, SameKept
  <1>3. AnswerRows'
    BY <1>1 DEF AnswersInv, AnswerRows
  <1>4. \A o \in Procs : o # p => pc'[o] = pc[o] /\ client'[o] = client[o] /\ form'[o] = form[o]
    BY <1>1 DEF Placed, LocalsInv
  <1>5. form'[p] = [asked |-> [q \in Live |-> questions[q]], left |-> f, need |-> need] /\ pc'[p] = "a_next"
    BY <1>1 DEF Placed, LocalsInv
  <1>6. FormKept(p)'
    <2>1. /\ form'[p].asked = [q \in Live |-> questions[q]] /\ form'[p].left = f /\ form'[p].need = need
          /\ form'[p] = [asked |-> form'[p].asked, left |-> form'[p].left, need |-> form'[p].need]
      BY <1>5
    <2>2. /\ form'[p].need \subseteq DOMAIN form'[p].asked
          /\ \A q \in form'[p].need : q \in DOMAIN form'[p].left /\ ~Blank(form'[p].left[q])
      BY <1>1, <2>1
    <2>3. QED
      BY <1>5, <2>1, <2>2 DEF FormKept, Blank, NoText, Text
  <1>7. QED
    BY <1>1, <1>2, <1>3, <1>4, <1>6, AnswersOf

\* The question is done with: it was not asked for, or it has its answer.
LEMMA Stepped ==
    ASSUME AnswersInv, LocalsInv, Placed, Kept, NEW p \in Procs, NEW a, a = client[p], NEW q,
           pc[p] \in Answering, Goto(p, "a_next"), form' = [form EXCEPT ![p].left = Drop(@, q)],
           q \in DOMAIN form[p].asked => Has(a, q)'
    PROVE  FormKept(p)'
  <1>1. pc'[p] = "a_next" /\ client'[p] = a
    BY DEF Goto, Placed
  <1>2. form'[p] = [form[p] EXCEPT !.left = Drop(form[p].left, q)]
    BY DEF LocalsInv
  <1>3. form[p] = [asked |-> form[p].asked, left |-> form[p].left, need |-> form[p].need]
    BY DEF AnswersInv, FormKept
  <1>4. form'[p] = [asked |-> form[p].asked, left |-> Drop(form[p].left, q), need |-> form[p].need]
    BY <1>2, <1>3
  <1>5. /\ DOMAIN Drop(form[p].left, q) = DOMAIN form[p].left \ {q}
        /\ \A r \in DOMAIN form[p].left \ {q} : Drop(form[p].left, q)[r] = form[p].left[r]
    BY DEF Drop
  <1>6. form[p].need \subseteq DOMAIN form[p].asked
    BY DEF AnswersInv, FormKept
  <1>7. ASSUME NEW r \in form[p].need
        PROVE  /\ r \in DOMAIN form[p].left => ~Blank(form[p].left[r])
               /\ r \notin DOMAIN form[p].left => Has(client[p], r)
    <2>1. FormKept(p)
      BY DEF AnswersInv
    <2>2. QED
      BY <1>7, <2>1 DEF FormKept
  <1>8. ASSUME NEW r \in form[p].need
        PROVE  \/ r \in DOMAIN form'[p].left /\ ~Blank(form'[p].left[r])
               \/ r \notin DOMAIN form'[p].left /\ Has(a, r)'
    <2>1. CASE r = q
      BY <1>4, <1>5, <1>6, <2>1
    <2>2. CASE r # q /\ r \in DOMAIN form[p].left
      BY <1>4, <1>5, <1>7, <2>2
    <2>3. CASE r # q /\ r \notin DOMAIN form[p].left
      <3>1. Has(a, r)'
        BY <1>7, <2>3 DEF Kept
      <3>2. QED
        BY <1>4, <1>5, <2>3, <3>1
    <2>4. QED
      BY <2>1, <2>2, <2>3
  <1>9. form'[p].need = form[p].need /\ form'[p].asked = form[p].asked
        /\ form'[p] = [asked |-> form'[p].asked, left |-> form'[p].left, need |-> form'[p].need]
    BY <1>4
  <1>10. ASSUME NEW r, Has(a, r)' PROVE Has(client[p], r)'
    BY <1>1, <1>10 DEF Has, Stored
  <1>11. \A r \in form'[p].need : \/ r \in DOMAIN form'[p].left /\ ~Blank(form'[p].left[r])
                                  \/ r \notin DOMAIN form'[p].left /\ Has(client[p], r)'
    BY <1>8, <1>9, <1>10
  <1>12. QED
    BY <1>1, <1>6, <1>9, <1>11 DEF FormKept

LEMMA AnswerNextStep ==
    ASSUME AnswersInv, LocalsInv, Placed, NEW p \in Procs, NEW q, AnswerNext(p, q)
    PROVE  AnswersInv'
  <1>1. /\ pc[p] = "a_next" /\ q \in DOMAIN form[p].left
        /\ UNCHANGED <<questions, answers, accepted, present>>
        /\ \A o \in Procs : o # p => /\ pc'[o] = pc[o] /\ client'[o] = client[o]
                                     /\ form'[o] = form[o] /\ edit'[o] = edit[o]
    BY DEF AnswerNext, AfterMisfit, Goto, worldVars, Placed, LocalsInv
  <1>2. Kept
    BY <1>1, SameKept
  <1>3. AnswerRows'
    BY <1>1 DEF AnswersInv, AnswerRows
  <1>4. CASE q \notin DOMAIN form[p].asked
    <2>1. Goto(p, "a_next") /\ form' = [form EXCEPT ![p].left = Drop(@, q)]
      BY <1>4 DEF AnswerNext
    <2>2. pc[p] \in Answering
      BY <1>1 DEF Answering
    <2>3. FormKept(p)'
      BY <1>2, <1>4, <2>1, <2>2, Stepped
    <2>4. QED
      BY <1>1, <1>2, <1>3, <2>3, AnswersOf
  <1>5. CASE q \in DOMAIN form[p].asked /\ ~Fits(form[p].asked[q], form[p].left[q])
    <2>1. Goto(p, "idle") /\ form' = [form EXCEPT ![p] = NoForm]
      BY <1>5 DEF AnswerNext, AfterMisfit
    <2>2. pc'[p] = "idle" /\ form'[p] = NoForm
      BY <2>1 DEF Goto, Placed, LocalsInv
    <2>3. FormKept(p)'
      BY <2>2 DEF FormKept, Answering, NoForm
    <2>4. QED
      BY <1>1, <1>2, <1>3, <2>3, AnswersOf
  <1>6. CASE q \in DOMAIN form[p].asked /\ Fits(form[p].asked[q], form[p].left[q])
    <2>1. /\ Goto(p, IF Stored(client[p], q) = {} THEN "a_insert" ELSE "a_update")
          /\ edit' = [edit EXCEPT ![p] = [q |-> q]] /\ UNCHANGED form
      BY <1>6 DEF AnswerNext
    <2>2. /\ client'[p] = client[p] /\ form'[p] = form[p] /\ edit'[p].q = q
          /\ pc'[p] = IF Stored(client[p], q) = {} THEN "a_insert" ELSE "a_update"
      BY <2>1 DEF Goto, Placed, LocalsInv
    <2>3. pc'[p] = "a_update" => Has(client[p], q)
      BY <2>2 DEF Has
    <2>4. UNCHANGED <<answers, present>>
      BY <1>1
    <2>5. FormKept(p)'
      BY <1>1, <2>2, <2>3, <2>4 DEF AnswersInv, FormKept, Answering, Has, Stored
    <2>6. QED
      BY <1>1, <1>2, <1>3, <2>5, AnswersOf
  <1>7. QED
    BY <1>4, <1>5, <1>6

LEMMA AnswerInsertStep ==
    ASSUME AnswersInv, LocalsInv, Placed, NEW p \in Procs, AnswerInsert(p)
    PROVE  AnswersInv'
  <1>1. PICK a, q, v, need, new :
            /\ a = client[p] /\ q = edit[p].q /\ v = form[p].left[q] /\ need = (q \in form[p].need)
            /\ new = [by |-> a, q |-> q, value |-> v, required |-> need]
    OBVIOUS
  <1>2. /\ pc[p] = "a_insert" /\ UNCHANGED <<questions, accepted, present>>
        /\ \A o \in Procs : o # p => /\ pc'[o] = pc[o] /\ client'[o] = client[o]
                                     /\ form'[o] = form[o] /\ edit'[o] = edit[o]
    BY DEF AnswerInsert, Saved, Goto, worldVars, Placed, LocalsInv
  <1>3. CASE Stored(a, q) # {} \/ a \notin present \/ q \notin DOMAIN questions
    <2>1. Goto(p, "idle") /\ UNCHANGED answers /\ form' = [form EXCEPT ![p] = NoForm]
      BY <1>1, <1>3 DEF AnswerInsert
    <2>2. pc'[p] = "idle" /\ form'[p] = NoForm
      BY <2>1 DEF Goto, Placed, LocalsInv
    <2>3. FormKept(p)'
      BY <2>2 DEF FormKept, Answering, NoForm
    <2>4. Kept /\ AnswerRows'
      BY <1>2, <2>1, SameKept DEF AnswersInv, AnswerRows
    <2>5. QED
      BY <1>2, <2>3, <2>4, AnswersOf
  <1>4. CASE Stored(a, q) = {} /\ a \in present /\ q \in DOMAIN questions
    <2>1. /\ answers' = answers \cup {new} /\ Goto(p, "a_next")
          /\ form' = [form EXCEPT ![p].left = Drop(@, q)]
      BY <1>1, <1>4 DEF AnswerInsert, Saved
    <2>2. /\ new.by = a /\ new.q = q
          /\ new = [by |-> new.by, q |-> new.q, value |-> new.value, required |-> new.required]
      BY <1>1
    <2>3. \A s \in answers : s.by # a \/ s.q # q
      BY <1>4 DEF Stored
    <2>4. new.required => ~Blank(new.value)
      <3>1. new.required = (q \in form[p].need) /\ new.value = form[p].left[q]
        BY <1>1
      <3>2. q \in form[p].need => q \in DOMAIN form[p].left /\ ~Blank(form[p].left[q])
        BY <1>1, <1>2, <1>4 DEF AnswersInv, FormKept, Answering, Has
      <3>3. QED
        BY <3>1, <3>2
    <2>5. AnswerRows'
      BY <1>2, <1>4, <2>1, <2>2, <2>3, <2>4 DEF AnswersInv, AnswerRows
    <2>6. Kept
      BY <1>2, <2>1 DEF Kept, Has, Stored
    <2>7. Has(a, q)'
      BY <2>1, <2>2 DEF Has, Stored
    <2>8. pc[p] \in Answering
      BY <1>2 DEF Answering
    <2>9. FormKept(p)'
      BY <1>1, <2>1, <2>6, <2>7, <2>8, Stepped
    <2>10. QED
      BY <1>2, <2>5, <2>6, <2>9, AnswersOf
  <1>5. QED
    BY <1>3, <1>4

LEMMA AnswerUpdateStep ==
    ASSUME AnswersInv, LocalsInv, Placed, NEW p \in Procs, AnswerUpdate(p)
    PROVE  AnswersInv'
  <1>1. PICK a, q, v, need : /\ a = client[p] /\ q = edit[p].q /\ v = form[p].left[q]
                             /\ need = (q \in form[p].need)
    OBVIOUS
  <1>2. /\ pc[p] = "a_update" /\ UNCHANGED <<questions, accepted, present>>
        /\ \A o \in Procs : o # p => /\ pc'[o] = pc[o] /\ client'[o] = client[o]
                                     /\ form'[o] = form[o] /\ edit'[o] = edit[o]
    BY DEF AnswerUpdate, Saved, Goto, worldVars, Placed, LocalsInv
  <1>3. /\ answers' = (answers \ Stored(a, q))
                      \cup {[s EXCEPT !.value = v, !.required = need] : s \in Stored(a, q)}
        /\ Goto(p, "a_next") /\ form' = [form EXCEPT ![p].left = Drop(@, q)]
    BY <1>1 DEF AnswerUpdate, Saved
  <1> DEFINE new(s) == [s EXCEPT !.value = v, !.required = need]
  <1>4. ASSUME NEW s \in answers
        PROVE  /\ new(s) = [by |-> s.by, q |-> s.q, value |-> v, required |-> need]
               /\ new(s).by = s.by /\ new(s).q = s.q
    <2>1. s = [by |-> s.by, q |-> s.q, value |-> s.value, required |-> s.required]
      BY DEF AnswersInv, AnswerRows
    <2>2. DOMAIN s = {"by", "q", "value", "required"}
      BY <2>1
    <2>3. new(s) = [k \in DOMAIN s |-> IF k = "required" THEN need ELSE IF k = "value" THEN v ELSE s[k]]
      OBVIOUS
    <2>4. QED
      BY <2>1, <2>2, <2>3
  <1>5. answers' = (answers \ Stored(a, q)) \cup {new(s) : s \in Stored(a, q)}
    BY <1>3
  <1> HIDE DEF new
  <1>6. Stored(a, q) \subseteq answers
    BY DEF Stored
  <1>7. \A t \in answers' : \E s \in answers : /\ t.by = s.by /\ t.q = s.q
                                              /\ t = IF s \in Stored(a, q) THEN new(s) ELSE s
    BY <1>4, <1>5, <1>6
  <1>8. \A t \in answers' : /\ t = [by |-> t.by, q |-> t.q, value |-> t.value, required |-> t.required]
                            /\ t.required => ~Blank(t.value)
    <2>1. TAKE t \in answers'
    <2>2. PICK s \in answers : t = IF s \in Stored(a, q) THEN new(s) ELSE s
      BY <1>7
    <2>3. need => ~Blank(v)
      BY <1>1, <1>2 DEF AnswersInv, FormKept, Answering
    <2>4. CASE t = new(s)
      <3>1. t.required = need /\ t.value = v
        BY <1>4, <2>4
      <3>2. QED
        BY <1>4, <2>3, <2>4, <3>1
    <2>5. CASE t = s
      BY <2>5 DEF AnswersInv, AnswerRows
    <2>6. QED
      BY <2>2, <2>4, <2>5
  <1>9. AnswerRows'
    BY <1>2, <1>7, <1>8 DEF AnswersInv, AnswerRows
  <1>10. \A s \in answers : \E t \in answers' : t.by = s.by /\ t.q = s.q
    BY <1>4, <1>5
  <1>11. Kept
    BY <1>2, <1>10 DEF Kept, Has, Stored
  <1>12. Has(a, q)'
    BY <1>1, <1>2, <1>11 DEF AnswersInv, FormKept, Kept
  <1>13. pc[p] \in Answering
    BY <1>2 DEF Answering
  <1>14. FormKept(p)'
    BY <1>1, <1>3, <1>11, <1>12, <1>13, Stepped
  <1>15. QED
    BY <1>2, <1>9, <1>11, <1>14, AnswersOf

LEMMA AnswerDoneStep ==
    ASSUME AnswersInv, LocalsInv, Placed, NEW p \in Procs, AnswerDone(p)
    PROVE  AnswersInv'
  <1> DEFINE f == [by |-> client[p], need |-> form[p].need]
  <1>1. /\ pc[p] = "a_next" /\ form[p].left = <<>> /\ accepted' = accepted \cup {f}
        /\ pc'[p] = "idle" /\ form'[p] = NoForm
        /\ UNCHANGED <<questions, answers, present>>
        /\ \A o \in Procs : o # p => /\ pc'[o] = pc[o] /\ client'[o] = client[o]
                                     /\ form'[o] = form[o] /\ edit'[o] = edit[o]
    BY DEF AnswerDone, Goto, worldVars, Placed, LocalsInv
  <1>2. Kept /\ AnswerRows'
    BY <1>1, SameKept DEF AnswersInv, AnswerRows
  <1>3. FormKept(p)'
    BY <1>1 DEF FormKept, Answering, NoForm
  <1>4. DOMAIN form[p].left = {}
    BY <1>1
  <1>5. \A q \in f.need : Has(f.by, q)
    BY <1>1, <1>4 DEF AnswersInv, FormKept, Answering
  <1>6. \A g \in accepted' : g \in accepted \/ \A q \in g.need : Has(g.by, q)'
    BY <1>1, <1>2, <1>5 DEF Kept
  <1>7. QED
    BY <1>1, <1>2, <1>3, <1>6, AnswersOf

\* Rows go with the attendee or the event.
LEMMA AnswersGone ==
    ASSUME AnswersInv, Kept, AnswerRows', UNCHANGED <<pc, client, edit, form, accepted>>
    PROVE  AnswersInv'
  <1>1. \A p \in Procs : FormKept(p)'
    BY FormStays DEF AnswersInv
  <1>2. QED
    BY <1>1 DEF AnswersInv, Kept

LEMMA OrganizerAnswers ==
    ASSUME AnswersInv, QuestionsInv, LocalsInv, Placed, NEW p \in Procs,
           \/ CreateCount(p) \/ CreateInsert(p) \/ UpdateWrite(p) \/ SoftDelete(p)
           \/ \E q \in DOMAIN questions : UpdateFind(p, q) \/ DeleteFind(p, q)
    PROVE  AnswersInv'
  <1>1. questions \in Seq(Question)
    BY DEF QuestionsInv
  <1>2. /\ \E a \in {"idle", "q_insert", "q_update", "q_delete"} : pc' = [pc EXCEPT ![p] = a]
        /\ UNCHANGED <<answers, present, accepted, form>>
    BY DEF CreateCount, CreateInsert, UpdateWrite, SoftDelete, UpdateFind, DeleteFind, Admit, Goto,
           worldVars, questionVars
  <1>3. \A o \in Procs : o # p => client'[o] = client[o] /\ edit'[o] = edit[o]
    BY DEF CreateCount, CreateInsert, UpdateWrite, SoftDelete, UpdateFind, DeleteFind, Admit, Goto,
           questionVars, Placed, LocalsInv
  <1>4. DOMAIN questions \subseteq DOMAIN questions'
    <2>1. CASE UNCHANGED questions
      BY <2>1
    <2>2. CASE \E d : questions' = Append(questions, d)
      BY <1>1, <2>2
    <2>3. CASE \E q, r : questions' = [questions EXCEPT ![q] = r]
      BY <2>3
    <2>4. CreateCount(p) \/ (\E q : UpdateFind(p, q) \/ DeleteFind(p, q)) => UNCHANGED questions
      BY DEF CreateCount, UpdateFind, DeleteFind, questionVars
    <2>5. CreateInsert(p) => UNCHANGED questions \/ \E d : questions' = Append(questions, d)
      BY DEF CreateInsert
    <2>6. UpdateWrite(p) => UNCHANGED questions \/ \E q, r : questions' = [questions EXCEPT ![q] = r]
      BY DEF UpdateWrite
    <2>7. SoftDelete(p) => DOMAIN questions' = DOMAIN questions
      BY DEF SoftDelete
    <2>8. QED
      BY <2>1, <2>2, <2>3, <2>4, <2>5, <2>6, <2>7
  <1>5. QED
    BY <1>2, <1>3, <1>4, RowsWritten DEF Answering

LEMMA AnswersStep ==
    AnswersInv /\ QuestionsInv /\ LocalsInv /\ ScopeInv /\ [Next]_vars => AnswersInv'
  <1> SUFFICES ASSUME AnswersInv, QuestionsInv, LocalsInv, ScopeInv, [Next]_vars PROVE AnswersInv'
    OBVIOUS
  <1>1. Placed
    BY DEF ScopeInv
  <1>2. ASSUME NEW L, Moves(L), Answering \cap (L \cup {"idle"}) = {}, UNCHANGED questionVars
        PROVE  AnswersInv'
    <2>1. Still(Answering) /\ UNCHANGED present
      BY <1>2, MovesElsewhere DEF Moves, worldVars
    <2>2. QED
      BY <1>2, <2>1, AnswersStill DEF questionVars
  <1>3. CASE Guests
    <2>1. CASE QuestionsNext
      BY <1>1, <2>1, OrganizerAnswers, AnswerFindStep, AnswerNextStep, AnswerInsertStep, AnswerUpdateStep,
         AnswerDoneStep DEF QuestionsNext
    <2>2. CASE CommentsNext /\ UNCHANGED questionVars
      BY <1>1, <1>2, <2>2, CommentsMove DEF Answering, CommentLabels, ScopeInv
    <2>3. CASE MessagesNext /\ UNCHANGED questionVars
      BY <1>1, <1>2, <2>3, MessagesMove DEF Answering, MessageLabels
    <2>4. QED
      BY <1>3, <2>1, <2>2, <2>3 DEF Guests
  <1>4. CASE HostsDesk
    <2>1. UNCHANGED questionVars
      BY <1>4 DEF HostsDesk, guestVars
    <2>2. Moves(CoHostLabels) \/ Moves(CardLabels)
      BY <1>1, <1>4, CoHostsMove, CardsMove DEF HostsDesk
    <2>3. QED
      BY <1>2, <2>1, <2>2 DEF CoHostLabels, Holding, CardLabels, Answering
  <1>5. CASE Scope \/ (\E k \in Actors : Dismiss(k)) \/ UNCHANGED vars
    <2>1. UNCHANGED <<pc, client, present, questions, answers, edit, form, accepted>>
      BY <1>5 DEF Scope, Tick, CloseEvent, CleanupLimiter, Refuse, Dismiss, AdmitOnce, guestVars,
                  questionVars, requestVars, vars, scopeVars, worldVars
    <2>2. QED
      BY <2>1, AnswersStill DEF Still
  <1>6. ASSUME NEW p \in Procs, Fail(p) PROVE AnswersInv'
    <2>1. /\ UNCHANGED <<questions, answers, accepted, present>> /\ pc'[p] = "idle" /\ form'[p] = NoForm
          /\ \A o \in Procs : o # p => /\ pc'[o] = pc[o] /\ client'[o] = client[o]
                                       /\ form'[o] = form[o] /\ edit'[o] = edit[o]
      BY <1>1, <1>6 DEF Fail, Goto, QuestionsForget, worldVars, Placed
    <2>2. Kept /\ AnswerRows'
      BY <2>1, SameKept DEF AnswersInv, AnswerRows
    <2>3. FormKept(p)'
      BY <2>1 DEF FormKept, Answering, NoForm
    <2>4. QED
      BY <2>1, <2>2, <2>3, AnswersOf
  <1>7. CASE Restart
    <2>1. /\ UNCHANGED <<questions, answers, accepted, present>>
          /\ \A p \in Procs : pc'[p] = "idle" /\ form'[p] = NoForm
      BY <1>7 DEF Restart, LoseMemory, QuestionsForget
    <2>2. Kept
      BY <2>1, SameKept
    <2>3. \A p \in Procs : FormKept(p)'
      BY <2>1 DEF FormKept, Answering, NoForm
    <2>4. QED
      BY <2>1, <2>2, <2>3 DEF AnswersInv, AnswerRows, Kept
  <1>8. ASSUME NEW a \in Attendees, RemoveAttendee(a) PROVE AnswersInv'
    <2>1. /\ answers' = {s \in answers : s.by # a} /\ present' = present \ {a}
          /\ UNCHANGED <<pc, client, questions, edit, form, accepted>>
      BY <1>8 DEF RemoveAttendee, LoseAttendee, QuestionsLoseAttendee, requestVars
    <2>2. Kept
      BY <2>1 DEF Kept, Has, Stored
    <2>3. AnswerRows'
      BY <2>1 DEF AnswersInv, AnswerRows
    <2>4. QED
      BY <2>1, <2>2, <2>3, AnswersGone
  <1>9. CASE DeleteEvent
    <2>1. /\ answers' = {} /\ present' = {} /\ UNCHANGED <<pc, client, edit, form, accepted>>
      BY <1>9 DEF DeleteEvent, LoseEvent, QuestionsLoseEvent, requestVars
    <2>2. Kept /\ AnswerRows'
      BY <2>1 DEF Kept, Has, AnswerRows
    <2>3. QED
      BY <2>1, <2>2, AnswersGone
  <1>10. QED
    BY <1>3, <1>4, <1>5, <1>6, <1>7, <1>8, <1>9 DEF Next

LEMMA AnswersStart == Init => AnswersInv
  <1> SUFFICES ASSUME Init PROVE AnswersInv
    OBVIOUS
  <1>1. /\ answers = {} /\ accepted = {} /\ \A p \in Procs : pc[p] = "idle" /\ form[p] = NoForm
    BY DEF Init, QuestionsInit, ScopeInit
  <1>2. \A p \in Procs : FormKept(p)
    BY <1>1 DEF FormKept, Answering, NoForm
  <1>3. QED
    BY <1>1, <1>2 DEF AnswersInv, AnswerRows

LEMMA AnswersInvariant == Spec => []AnswersInv
  BY AnswersStart, AnswersStep, QuestionsInvariant, ScopeInvariant, PTL DEF Spec

\* The questions can be answered, and of an attendee whose answers were accepted there
\* is an answer to every question that was required, whatever the attendee's other
\* submissions and the organizer did meanwhile: blank at most where a submission wrote
\* it to which the question was not required.
THEOREM FormsAreSound == Spec => []FormsSound
  <1>1. AnswersInv => RequiredIsAnswered
    BY DEF AnswersInv, AnswerRows, RequiredIsAnswered, Has, Stored
  <1>2. QuestionsInv => QuestionsWellFormed
    BY DEF QuestionsInv
  <1>3. QED
    BY <1>1, <1>2, AnswersInvariant, QuestionsInvariant, PTL DEF FormsSound

-----------------------------------------------------------------------------
(* The types                                                               *)

\* Of the co-hosts' state what neither the mutex nor the throttle needs.
RowsInv ==
    /\ cohosts \in [Hosts -> 0 .. MaxRequests] /\ targetRow \in [Procs -> 0 .. MaxRequests]
    /\ IsFiniteSet(addHits) /\ addHits \subseteq [at : 0 .. MaxTime, no : 0 .. MaxRequests]
    /\ Cardinality(addHits) <= AddLimit

LEMMA EntriesAdded ==
    ASSUME RowsInv, ScopeInv
    PROVE  /\ IsFiniteSet(Entries) /\ Entries \subseteq addHits /\ Cardinality(Entries) <= AddLimit
           /\ IsFiniteSet(Added) /\ Added \subseteq [at : 0 .. MaxTime, no : 0 .. MaxRequests]
           /\ AddAllowed => Cardinality(Added) <= AddLimit
  <1>1. Entries \subseteq addHits
    BY DEF Entries
  <1>2. IsFiniteSet(Entries) /\ Cardinality(Entries) \in Nat /\ AddLimit \in Nat
    BY <1>1, FS_Subset, FS_CardinalityType, CoHostsAssumption DEF RowsInv
  <1>3. Cardinality(Entries) <= Cardinality(addHits) /\ Cardinality(addHits) \in Nat
    BY <1>1, FS_Subset, FS_CardinalityType DEF RowsInv
  <1>4. IsFiniteSet(Added)
    BY <1>2, FS_AddElement DEF Added
  <1>5. [at |-> now, no |-> served] \in [at : 0 .. MaxTime, no : 0 .. MaxRequests]
    BY DEF ScopeInv
  <1>6. Added \subseteq [at : 0 .. MaxTime, no : 0 .. MaxRequests]
    BY <1>1, <1>5 DEF Added, RowsInv
  <1>7. Cardinality(Added) <= Cardinality(Entries) + 1 /\ Cardinality(Added) \in Nat
    BY <1>2, <1>4, OneMore, FS_CardinalityType DEF Added
  <1>8. QED
    BY <1>1, <1>2, <1>3, <1>4, <1>6, <1>7 DEF AddAllowed, RowsInv

LEMMA RowsStep == RowsInv /\ HostInv /\ ScopeInv /\ [Next]_vars => RowsInv'
  <1> SUFFICES ASSUME RowsInv, HostInv, ScopeInv, [Next]_vars PROVE RowsInv'
    OBVIOUS
  <1>1. CASE UNCHANGED <<cohosts, targetRow, addHits>>
    BY <1>1 DEF RowsInv
  <1>2. ASSUME UNCHANGED <<cohosts, targetRow>>,
               addHits' = Entries \/ (AddAllowed /\ addHits' = Added)
        PROVE  RowsInv'
    BY <1>2, EntriesAdded DEF RowsInv
  <1>3. served \in 0 .. MaxRequests /\ MaxRequests \in Nat
    BY ScopeAssumption DEF ScopeInv
  <1>4. CASE CoHostsNext
    <2>1. ASSUME NEW p \in Procs, NEW h \in Hosts, AddBegin(p, h) PROVE RowsInv'
      BY <1>2, <2>1 DEF AddBegin
    <2>2. CASE AddRefused
      BY <1>2, <2>2 DEF AddRefused
    <2>3. ASSUME NEW p \in Procs, AddInsert(p) PROVE RowsInv'
      BY <1>3, <2>3 DEF AddInsert, RowsInv
    <2>4. ASSUME NEW p \in Procs, NEW h \in Hosts, RemoveCoHostFind(p, h) PROVE RowsInv'
      BY <2>4 DEF RemoveCoHostFind, RowsInv
    <2>5. ASSUME NEW p \in Procs, RemoveCoHost(p) PROVE RowsInv'
      BY <1>3, <2>5 DEF RemoveCoHost, RowsInv
    <2>6. ASSUME NEW p \in Procs, AddLock(p) \/ AddCount(p) \/ AddNotify(p) PROVE RowsInv'
      BY <1>1, <2>6 DEF AddLock, AddCount, AddNotify
    <2>7. CASE CleanupThrottle
      BY <1>1, <2>7 DEF CleanupThrottle
    <2>8. QED
      BY <1>4, <2>1, <2>2, <2>3, <2>4, <2>5, <2>6, <2>7 DEF CoHostsNext
  <1>5. CASE Restart
    BY <1>3, <1>5, FS_EmptySet, CoHostsAssumption DEF Restart, CoHostsLoseMemory, RowsInv
  <1>6. CASE \E p \in Procs : Fail(p)
    BY <1>3, <1>6 DEF Fail, CoHostsForget, RowsInv
  <1>7. CASE DeleteEvent
    BY <1>3, <1>7 DEF DeleteEvent, CoHostsLoseEvent, RowsInv
  <1>8. CASE Guests \/ (HostsDesk /\ UNCHANGED cohostVars) \/ Scope \/ (\E k \in Actors : Dismiss(k))
             \/ (\E a \in Attendees : RemoveAttendee(a)) \/ UNCHANGED vars
    BY <1>1, <1>8 DEF Guests, Scope, Dismiss, RemoveAttendee, hostVars, cohostVars, vars
  <1>9. QED
    BY <1>4, <1>5, <1>6, <1>7, <1>8 DEF Next, HostsDesk

LEMMA RowsStart == Init => RowsInv
  BY FS_EmptySet, CoHostsAssumption, ScopeAssumption DEF Init, CoHostsInit, RowsInv

LEMMA RowsInvariant == Spec => []RowsInv
  BY RowsStart, RowsStep, HostInvariant, ScopeInvariant, PTL DEF Spec

\* Every variable of the event's surroundings has its type, and each row belongs to
\* rows that exist.
THEOREM TypeIsCorrect == Spec => []TypeOK
  <1>1. ScopeInv => ScopeTypeOK
    BY DEF ScopeInv, Placed, LimiterInv, ScopeTypeOK
  <1>2. CommentsInv /\ ReaderInv => CommentsTypeOK
    BY DEF CommentsInv, ReaderInv, CommentsTypeOK
  <1>3. MessagesInv /\ ScopeInv => MessagesTypeOK
    <2> SUFFICES ASSUME MessagesInv, ScopeInv PROVE MessagesTypeOK
      OBVIOUS
    <2>1. now \in 0 .. MaxTime /\ MaxTime \in Nat
      BY ScopeAssumption DEF ScopeInv
    <2>2. lastSend \in [Actors -> {Never} \cup 0 .. MaxTime]
      BY <2>1 DEF MessagesInv
    <2>3. 0 .. now \subseteq 0 .. MaxTime
      BY <2>1
    <2>4. messages \subseteq [id : 1 .. sends, by : Actors, at : 0 .. MaxTime, after : SUBSET (1 .. sends)]
      BY <2>3 DEF MessagesInv, Message
    <2>5. QED
      BY <2>2, <2>4 DEF MessagesInv, MessagesTypeOK
  <1>4. QuestionsInv /\ AnswersInv => QuestionsTypeOK
    <2> SUFFICES ASSUME QuestionsInv, AnswersInv PROVE QuestionsTypeOK
      OBVIOUS
    <2>1. \A q \in DOMAIN questions : questions[q] \in Question
      BY DEF QuestionsInv
    <2>2. \A q \in DOMAIN questions : DOMAIN questions[q] = {"type", "options", "required", "deleted"}
      BY <2>1 DEF Question
    <2>3. QED
      BY <2>2 DEF AnswersInv, AnswerRows, QuestionsTypeOK
  <1>5. RowsInv /\ HostInv /\ InviteInv /\ ScopeInv => CoHostsTypeOK
    <2> SUFFICES ASSUME RowsInv, HostInv, InviteInv, ScopeInv PROVE CoHostsTypeOK
      OBVIOUS
    <2>1. 0 .. now \subseteq 0 .. MaxTime /\ -1 .. now \subseteq -1 .. MaxTime
      BY ScopeAssumption DEF ScopeInv
    <2>2. seen \in [Hosts -> {Unseen} \cup -1 .. MaxTime]
      BY <2>1 DEF InviteInv
    <2>3. invited \subseteq [host : Hosts, at : -1 .. MaxTime, no : Nat]
      BY <2>1 DEF InviteInv
    <2>4. QED
      BY <2>2, <2>3 DEF RowsInv, HostInv, CoHostsTypeOK
  <1>6. CardsInv => CardsTypeOK
    <2> SUFFICES ASSUME CardsInv PROVE CardsTypeOK
      OBVIOUS
    <2>1. alone \subseteq Busy
      BY DEF CardsInv, Undisturbed
    <2>2. QED
      BY <2>1 DEF CardsInv, CardsTyped, CardsTypeOK
  <1>7. HostInv => pc \in [Procs -> {"idle"} \cup CommentLabels \cup MessageLabels \cup QuestionLabels
                                    \cup CoHostLabels \cup CardLabels]
    BY DEF HostInv, AllLabels
  <1>8. QED
    BY <1>1, <1>2, <1>3, <1>4, <1>5, <1>6, <1>7, ScopeInvariant, CommentsInvariant, MessagesInvariant,
       QuestionsInvariant, AnswersInvariant, HostInvariant, InviteInvariant, RowsInvariant, CardsInvariant,
       PTL DEF TypeOK

=============================================================================
