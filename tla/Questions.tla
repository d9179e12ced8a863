----------------------------- MODULE Questions ------------------------------
(***************************************************************************)
(* The questions of an event and the answers to them (internal/question):  *)
(* the organizer creates, changes and deletes questions, every time with a *)
(* read before the write; an attendee's answers are checked against one    *)
(* reading of the questions and then stored one by one.                    *)
(*                                                                         *)
(* An answer is a string: a text, or the JSON list of what is chosen among *)
(* the options of a checkbox, which may be empty. sort_order, labels and   *)
(* lengths are left out.                                                   *)
(***************************************************************************)
EXTENDS EventScope

CONSTANTS
    MaxQuestions,   \* questions of an event (10 in the code)
    Drafts,         \* the questions an organizer may ask
    Forms,          \* the answers an attendee may give: question -> answer
    FirstQuestions  \* the questions there may be at the start

Types == {"text", "select", "checkbox"}
Values(list) == {list[i] : i \in DOMAIN list}

\* select and checkbox require at least 2 options.
WellFormed(type, options) == type = "text" \/ Len(options) >= 2

ASSUME QuestionsAssumption ==
    /\ MaxQuestions \in Nat
    /\ Drafts \subseteq [type : Types, options : {d.options : d \in Drafts},
                       required : BOOLEAN, deleted : {FALSE}]
    /\ \A d \in Drafts : WellFormed(d.type, d.options)
    /\ FirstQuestions \subseteq Seq(Drafts)
    /\ \A qs \in FirstQuestions : Len(qs) <= MaxQuestions

VARIABLES
    questions,   \* the event_questions rows; the id is the position
    answers,     \* the attendee_answers rows: by, q, value, and as history whether
                 \* the submission that wrote it had read the question as required
    edit,        \* what goroutine p is about to write to which question
    form,        \* what goroutine p has read and still has to store
    accepted     \* history: the forms that were answered without an error

questionVars == <<questions, answers, edit, form, accepted>>

NoEdit == [q |-> 0]
NoForm == [asked |-> <<>>, left |-> <<>>, need |-> {}]

QuestionsInit ==
    /\ questions \in FirstQuestions /\ answers = {}
    /\ edit = [p \in Procs |-> NoEdit] /\ form = [p \in Procs |-> NoForm]
    /\ accepted = {}

\* Questions that are not deleted.
Live == {q \in DOMAIN questions : ~questions[q].deleted}

-----------------------------------------------------------------------------
(* Create.                                                                 *)

\* Variant: the count is compared one too late.
TooManyQuestionsLate == Cardinality(Live) > MaxQuestions

TooManyQuestions == Cardinality(Live) >= MaxQuestions

\* The owner of the event gives a valid question; CountByEventID.
CreateCount(p) ==
    /\ eventStatus # "deleted" /\ ~TooManyQuestions
    /\ Admit(p, Organizer, "q_insert")
    /\ UNCHANGED questionVars

CreateInsert(p) ==
    /\ pc[p] = "q_insert" /\ Goto(p, "idle")
    /\ IF eventStatus = "deleted" THEN UNCHANGED questions
       ELSE \E d \in Drafts : questions' = Append(questions, d)
    /\ UNCHANGED <<answers, edit, form, accepted>>

-----------------------------------------------------------------------------
(* Update and Delete. The handler looks the question up before the service *)
(* does; nothing follows from the first look that the second does not say. *)

\* Update up to the validation: the columns the request names are replaced.
UpdateFind(p, q) ==
    /\ eventStatus # "deleted" /\ q \in Live
    /\ Admit(p, Organizer, "q_update")
    /\ \E d \in Drafts : edit' = [edit EXCEPT ![p] = [q |-> q, read |-> questions[q], write |-> d]]
    /\ UNCHANGED <<questions, answers, form, accepted>>

\* Variants: the row is written back as it was read, deleted included; only the
\* columns that change are written.
UpdatedRowWhole(was, e) == e.write
UpdatedRowChanged(was, e) ==
    [type |-> IF e.write.type = e.read.type THEN was.type ELSE e.write.type,
     options |-> IF e.write.options = e.read.options THEN was.options ELSE e.write.options,
     required |-> e.write.required, deleted |-> was.deleted]

\* UPDATE of all columns but deleted.
UpdatedRow(was, e) == [e.write EXCEPT !.deleted = was.deleted]

UpdateWrite(p) ==
    /\ pc[p] = "q_update" /\ Goto(p, "idle")
    /\ LET e == edit[p] IN
       questions' = IF e.q \in DOMAIN questions
                    THEN [questions EXCEPT ![e.q] = UpdatedRow(@, e)] ELSE questions
    /\ edit' = [edit EXCEPT ![p] = NoEdit]
    /\ UNCHANGED <<answers, form, accepted>>

DeleteFind(p, q) ==
    /\ eventStatus # "deleted" /\ q \in Live
    /\ Admit(p, Organizer, "q_delete")
    /\ edit' = [edit EXCEPT ![p] = [q |-> q]]
    /\ UNCHANGED <<questions, answers, form, accepted>>

SoftDelete(p) ==
    /\ pc[p] = "q_delete" /\ Goto(p, "idle")
    /\ LET q == edit[p].q IN
       questions' = IF q \in DOMAIN questions
                    THEN [questions EXCEPT ![q].deleted = TRUE] ELSE questions
    /\ edit' = [edit EXCEPT ![p] = NoEdit]
    /\ UNCHANGED <<answers, form, accepted>>

-----------------------------------------------------------------------------
(* ValidateAndSaveAnswers, called by the RSVP service.                     *)

\* A list has any number of values; a text has one, and the empty text none.
Text(v)   == [list |-> FALSE, values |-> {v}]
NoText    == [list |-> FALSE, values |-> {}]
Choice(S) == [list |-> TRUE, values |-> S]

\* TrimSpace leaves nothing. The empty list is not blank.
Blank(value) == value \in {NoText, Text(" ")}

\* An answer fits the question as it was read.
Fits(r, value) ==
    \/ r.type = "text"
    \/ value = NoText
    \/ r.type = "select" /\ \E o \in Values(r.options) : value = Text(o)
    \/ r.type = "checkbox" /\ value.list /\ value.values \subseteq Values(r.options)

\* FindByEventID and the check of the required questions.
AnswerFind(p, a, f) ==
    LET need == {q \in Live : questions[q].required} IN
    /\ a \in present
    /\ \A q \in need : q \in DOMAIN f /\ ~Blank(f[q])
    /\ Admit(p, a, "a_next")
    /\ form' = [form EXCEPT ![p] = [asked |-> [q \in Live |-> questions[q]], left |-> f, need |-> need]]
    /\ UNCHANGED <<questions, answers, edit, accepted>>

Drop(f, q) == [r \in DOMAIN f \ {q} |-> f[r]]
Stored(a, q) == {s \in answers : s.by = a /\ s.q = q}

\* Variant: an answer that does not fit is passed over.
AfterMisfitSkip(p, q) ==
    Goto(p, "a_next") /\ form' = [form EXCEPT ![p].left = Drop(@, q)]

\* An answer that does not fit ends the call with an error.
AfterMisfit(p, q) == Goto(p, "idle") /\ form' = [form EXCEPT ![p] = NoForm]

\* The next answer, in any order: unknown questions are passed over, what does
\* not fit is refused, for the rest the stored answer is looked up.
AnswerNext(p, q) ==
    LET f == form[p] IN
    /\ pc[p] = "a_next" /\ q \in DOMAIN f.left
    /\ IF q \notin DOMAIN f.asked
       THEN Goto(p, "a_next") /\ form' = [form EXCEPT ![p].left = Drop(@, q)] /\ UNCHANGED edit
       ELSE IF ~Fits(f.asked[q], f.left[q])
       THEN AfterMisfit(p, q) /\ UNCHANGED edit
       ELSE /\ Goto(p, IF Stored(client[p], q) = {} THEN "a_insert" ELSE "a_update")
            /\ edit' = [edit EXCEPT ![p] = [q |-> q]] /\ UNCHANGED form
    /\ UNCHANGED <<questions, answers, accepted>>

\* The answer is stored and the loop goes on.
Saved(p, q) ==
    /\ Goto(p, "a_next")
    /\ form' = [form EXCEPT ![p].left = Drop(@, q)]
    /\ edit' = [edit EXCEPT ![p] = NoEdit]

\* INSERT; the unique index refuses a second row, the foreign keys refuse one
\* of a deleted attendee or question.
AnswerInsert(p) ==
    LET a == client[p]
        q == edit[p].q
        new == [by |-> a, q |-> q, value |-> form[p].left[q], required |-> q \in form[p].need]
    IN
    /\ pc[p] = "a_insert"
    /\ IF Stored(a, q) # {} \/ a \notin present \/ q \notin DOMAIN questions
       THEN /\ Goto(p, "idle") /\ UNCHANGED answers
            /\ form' = [form EXCEPT ![p] = NoForm] /\ edit' = [edit EXCEPT ![p] = NoEdit]
       ELSE /\ answers' = answers \cup {new}
            /\ Saved(p, q)
    /\ UNCHANGED <<questions, accepted>>

\* UPDATE by the id that was read; it may be gone.
AnswerUpdate(p) ==
    LET a == client[p]
        q == edit[p].q
    IN
    /\ pc[p] = "a_update"
    /\ answers' = (answers \ Stored(a, q))
                  \cup {[s EXCEPT !.value = form[p].left[q], !.required = q \in form[p].need] :
                           s \in Stored(a, q)}
    /\ Saved(p, q)
    /\ UNCHANGED <<questions, accepted>>

\* The call returns nil.
AnswerDone(p) ==
    /\ pc[p] = "a_next" /\ form[p].left = <<>>
    /\ Goto(p, "idle")
    /\ accepted' = accepted \cup {[by |-> client[p], need |-> form[p].need]}
    /\ form' = [form EXCEPT ![p] = NoForm]
    /\ UNCHANGED <<questions, answers, edit>>

-----------------------------------------------------------------------------
\* ON DELETE CASCADE.
QuestionsLoseAttendee(a) ==
    answers' = {s \in answers : s.by # a} /\ UNCHANGED <<questions, edit, form, accepted>>
QuestionsLoseEvent ==
    questions' = <<>> /\ answers' = {} /\ UNCHANGED <<edit, form, accepted>>

\* A goroutine that ends early forgets what it had read.
QuestionsForget(ps) ==
    /\ edit' = [p \in Procs |-> IF p \in ps THEN NoEdit ELSE edit[p]]
    /\ form' = [p \in Procs |-> IF p \in ps THEN NoForm ELSE form[p]]
    /\ UNCHANGED <<questions, answers, accepted>>

QuestionLabels == {"q_insert", "q_update", "q_delete", "a_next", "a_insert", "a_update"}

QuestionsNext ==
    \E p \in Procs :
       \/ CreateCount(p) \/ CreateInsert(p) \/ UpdateWrite(p) \/ SoftDelete(p)
       \/ \E q \in DOMAIN questions : UpdateFind(p, q) \/ DeleteFind(p, q)
       \/ \E a \in Attendees, f \in Forms : AnswerFind(p, a, f)
       \/ \E q \in DOMAIN form[p].left : AnswerNext(p, q)
       \/ AnswerInsert(p) \/ AnswerUpdate(p) \/ AnswerDone(p)

-----------------------------------------------------------------------------
QuestionsTypeOK ==
    /\ \A q \in DOMAIN questions : DOMAIN questions[q] = {"type", "options", "required", "deleted"}
    /\ \A s \in answers : s.by \in present /\ s.q \in DOMAIN questions
    /\ \A s, t \in answers : s.by = t.by /\ s.q = t.q => s = t

\* Requests that counted before each other's inserts exceed the limit by no
\* more than the other goroutines.
QuestionsBounded == Cardinality(Live) <= MaxQuestions + Cardinality(Procs) - 1

\* Whichever updates overlap, a question with choices keeps two of them: what
\* is written is what was validated, all columns together.
QuestionsWellFormed == \A q \in DOMAIN questions : WellFormed(questions[q].type, questions[q].options)

\* A deleted question does not come back by an update that had read it before.
DeletedQuestionsStay ==
    [][\A q \in DOMAIN questions \cap DOMAIN questions' :
          questions[q].deleted => questions'[q].deleted]_questions

\* When answers were accepted, there is one to every question that was required,
\* whatever the attendee's other submissions did meanwhile; it is blank at most where
\* another submission wrote it, to which the question was not required. That a choice
\* was made is not said: the empty list is an answer to a required checkbox.
RequiredIsAnswered ==
    \A f \in accepted : f.by \in present =>
        \A q \in f.need : q \in DOMAIN questions =>
            \E s \in Stored(f.by, q) : s.required => ~Blank(s.value)

\* The questions can be answered, and an accepted submission leaves none of the
\* required ones without an answer.
FormsSound == QuestionsWellFormed /\ RequiredIsAnswered

=============================================================================
