------------------------------ MODULE Comments ------------------------------
(***************************************************************************)
(* The guestbook of one event (internal/comment): posting under two limits *)
(* that are counted before the insert, deletion by the author and by the   *)
(* organizer, and a visitor who reads the list page by page.               *)
(***************************************************************************)
EXTENDS EventScope

CONSTANTS
    MaxComments,   \* comments of an event (500 in the code)
    MaxPerHour,    \* comments of an attendee in an hour (5 in the code)
    Hour,          \* that hour
    PageSize,      \* comments on a page
    Existing       \* the comments there may be at the start

ASSUME CommentsAssumption ==
    /\ MaxComments \in Nat /\ MaxPerHour \in Nat /\ Hour \in Nat /\ PageSize \in Nat \ {0}
    /\ \A cs \in Existing : /\ IsFiniteSet(cs) /\ Cardinality(cs) <= MaxComments
                            /\ cs \subseteq [id : 1 .. Cardinality(cs), by : Attendees, at : Int]
                            /\ \A c, d \in cs : c.id = d.id => c = d

VARIABLES
    comments,   \* the event_comments rows: id, author, created_at
    posted,     \* ids given out
    reader      \* the visitor: what he has seen and how he goes on

commentVars == <<comments, posted, reader>>

Ids(cs) == {c.id : c \in cs}
NoReader == [pc |-> "idle", cursor |-> 0, cursors |-> {}, start |-> {}, shown |-> {}, count |-> 0]

CommentsInit ==
    /\ comments \in Existing
    /\ posted = Cardinality(comments)
    /\ reader = NoReader

-----------------------------------------------------------------------------
(* CreateComment.                                                          *)

\* The event is published and the token is an attendee's.
PostFind(p, a) ==
    /\ eventStatus = "published" /\ a \in present
    /\ Admit(p, a, "c_count")
    /\ UNCHANGED commentVars

\* Variant: the count is compared one too late.
TooManyLate == Cardinality(comments) > MaxComments

\* CountByEvent against the limit.
TooMany == Cardinality(comments) >= MaxComments

PostCount(p) ==
    /\ pc[p] = "c_count"
    /\ Goto(p, IF TooMany THEN "idle" ELSE "c_window")
    /\ UNCHANGED commentVars

\* CountByAttendeeInWindow: the rows that still exist.
Recent(a) == {c \in comments : c.by = a /\ c.at >= now - Hour}

PostWindow(p) ==
    /\ pc[p] = "c_window"
    /\ Goto(p, IF Cardinality(Recent(client[p])) >= MaxPerHour THEN "idle" ELSE "c_insert")
    /\ UNCHANGED commentVars

\* Create; the foreign keys refuse a comment of a deleted attendee or event.
PostInsert(p) ==
    /\ pc[p] = "c_insert" /\ Goto(p, "idle")
    /\ IF client[p] \in present
       THEN /\ comments' = comments \cup {[id |-> posted + 1, by |-> client[p], at |-> now]}
            /\ posted' = posted + 1
       ELSE UNCHANGED <<comments, posted>>
    /\ UNCHANGED reader

\* DeleteComment by its author, DeleteAsOrganizer: rows do not change, so what
\* was read about them still holds when they are deleted.
DeleteComment(c) ==
    /\ c \in comments
    /\ (c.by \in present /\ AdmitOnce(c.by)) \/ AdmitOnce(Organizer)
    /\ comments' = comments \ {c}
    /\ UNCHANGED <<posted, reader>>

-----------------------------------------------------------------------------
(* ListPublic.                                                             *)

\* FindByEventID: the newest rows; rows of the same second come in any order.
IsPage(page, rows) ==
    /\ page \subseteq rows
    /\ Cardinality(page) = (IF Cardinality(rows) < PageSize THEN Cardinality(rows) ELSE PageSize)
    /\ \A c \in page, d \in rows \ page : d.at <= c.at

\* Variants: the cursor's own second is read again; a second is passed over.
BeforeCursorIncl(c) == c.at <= reader.cursor
BeforeCursorEarly(c) == c.at < reader.cursor - 1

\* WHERE created_at < cursor.
BeforeCursor(c) == c.at < reader.cursor

\* The visitor sees a page and remembers the cursor if there is more.
ShowPage(rows, start) ==
    \E page \in SUBSET rows :
        /\ IsPage(page, rows)
        /\ LET more == Cardinality(rows) > PageSize
               last == CHOOSE t \in {c.at : c \in page} : \A c \in page : t <= c.at
           IN reader' = [pc |-> IF more THEN "more" ELSE "done",
                         cursor |-> IF more THEN last ELSE 0,
                         cursors |-> reader.cursors \cup (IF more THEN {last} ELSE {}),
                         start |-> start,
                         shown |-> reader.shown \cup Ids(page),
                         count |-> reader.count + Cardinality(page)]

\* Whose address the visitor has does not matter to the list.
ListFirst ==
    /\ reader.pc = "idle" /\ eventStatus = "published"
    /\ AdmitOnce(Organizer) /\ ShowPage(comments, Ids(comments))
    /\ UNCHANGED <<comments, posted>>

ListNext ==
    /\ reader.pc = "more" /\ eventStatus = "published"
    /\ AdmitOnce(Organizer) /\ ShowPage({c \in comments : BeforeCursor(c)}, reader.start)
    /\ UNCHANGED <<comments, posted>>

-----------------------------------------------------------------------------
\* Variant: no cascade from the attendee.
CommentsLoseAttendeeKeep(a) == UNCHANGED commentVars

\* ON DELETE CASCADE.
CommentsLoseAttendee(a) ==
    comments' = {c \in comments : c.by # a} /\ UNCHANGED <<posted, reader>>
CommentsLoseEvent == comments' = {} /\ UNCHANGED <<posted, reader>>

CommentLabels == {"c_count", "c_window", "c_insert"}

CommentsNext ==
    \/ \E p \in Procs :
          \/ \E a \in Attendees : PostFind(p, a)
          \/ PostCount(p) \/ PostWindow(p) \/ PostInsert(p)
    \/ \E c \in comments : DeleteComment(c)
    \/ ListFirst \/ ListNext

-----------------------------------------------------------------------------
CommentsTypeOK ==
    /\ posted \in Nat
    /\ comments \subseteq [id : 1 .. posted, by : present, at : Int]
    /\ \A c, d \in comments : c.id = d.id => c = d
    /\ reader.pc \in {"idle", "more", "done"} /\ reader.shown \subseteq 1 .. posted

\* Requests that counted before each other's inserts exceed the limit of the
\* event by no more than the other goroutines.
CommentsBounded == Cardinality(comments) <= MaxComments + Cardinality(Procs) - 1

\* Whatever is posted and deleted between two pages, no comment is shown twice.
NothingShownTwice == reader.count = Cardinality(reader.shown)

\* A visitor who read to the end has seen every comment that was there all the
\* time, except such as share the second of the last comment of a page.
MissingOnlyTies ==
    reader.pc = "done" => \A c \in comments : c.id \in reader.start =>
        c.id \in reader.shown \/ c.at \in reader.cursors

\* The pages of the list, read while others post and delete.
PagesComplete == NothingShownTwice /\ MissingOnlyTies

=============================================================================
