---------------------------- MODULE EventContent ----------------------------
(***************************************************************************)
(* What surrounds one event: comments, messages and questions of its       *)
(* guests, co-hosts and invite card of its hosts. They share the limiter,  *)
(* the goroutines, the attendees and the event, whose deletion takes the   *)
(* rows of all, and the process, whose end takes what they keep in memory. *)
(***************************************************************************)
EXTENDS Comments, Messages, Questions, CoHosts, InviteCards

guestVars == <<commentVars, messageVars, questionVars>>
hostVars  == <<cohostVars, cardVars>>
vars      == <<scopeVars, guestVars, hostVars>>

Init ==
    /\ ScopeInit
    /\ CommentsInit /\ MessagesInit /\ QuestionsInit
    /\ CoHostsInit /\ CardsInit
    \* What the other handlers do not look at: one choice will do.
    /\ desk # "guestbook" => comments = CHOOSE c \in Existing : TRUE
    /\ desk # "questions" => questions = CHOOSE q \in FirstQuestions : TRUE

Guests ==
    /\ UNCHANGED hostVars
    /\ \/ desk = "guestbook" /\ CommentsNext /\ UNCHANGED <<messageVars, questionVars>>
       \/ desk = "guestbook" /\ MessagesNext /\ UNCHANGED <<commentVars, questionVars>>
       \/ desk = "questions" /\ QuestionsNext /\ UNCHANGED <<commentVars, messageVars>>

HostsDesk ==
    /\ UNCHANGED guestVars
    /\ \/ desk = "cohosts" /\ CoHostsNext /\ UNCHANGED cardVars
       \/ desk = "cards" /\ CardsNext /\ UNCHANGED cohostVars

\* What concerns none of them.
Scope ==
    /\ Tick \/ CloseEvent \/ CleanupLimiter \/ \E k \in Actors : Refuse(k)
    /\ UNCHANGED <<guestVars, hostVars>>

\* A request that is refused by a validation or finds nothing.
Dismiss(k) == AdmitOnce(k) /\ UNCHANGED <<guestVars, hostVars>>

\* A statement fails and the handler returns its error. Some steps are not
\* statements, or their errors are passed over.
Fail(p) ==
    /\ pc[p] \notin {"idle", "m_record", "h_notify", "k_remove"} /\ Goto(p, "idle")
    /\ QuestionsForget({p}) /\ MessagesForget({p}) /\ CoHostsForget(p) /\ CardsForget({p})
    /\ UNCHANGED <<commentVars, lastSend, answered>>

\* The organizer removes an attendee.
RemoveAttendee(a) ==
    /\ LoseAttendee(a) /\ CommentsLoseAttendee(a) /\ QuestionsLoseAttendee(a)
    /\ UNCHANGED <<messageVars, hostVars>>

\* The organizer or the cleanup job deletes the event.
DeleteEvent ==
    /\ LoseEvent
    /\ CommentsLoseEvent /\ MessagesLoseEvent /\ QuestionsLoseEvent
    /\ CoHostsLoseEvent /\ CardsLoseEvent

Restart ==
    /\ LoseMemory
    /\ MessagesLoseMemory /\ QuestionsForget(Procs)
    /\ CoHostsLoseMemory /\ CardsForget(Procs)
    /\ UNCHANGED commentVars

Next ==
    \/ Guests \/ HostsDesk \/ Scope
    \/ \E k \in Actors : Dismiss(k)
    \/ \E p \in Procs : Fail(p)
    \/ \E a \in Attendees : RemoveAttendee(a)
    \/ DeleteEvent \/ Restart

Spec == Init /\ [][Next]_vars

-----------------------------------------------------------------------------
TypeOK ==
    /\ pc \in [Procs -> {"idle"} \cup CommentLabels \cup MessageLabels \cup QuestionLabels
                                \cup CoHostLabels \cup CardLabels]
    /\ ScopeTypeOK /\ CommentsTypeOK /\ MessagesTypeOK /\ QuestionsTypeOK
    /\ CoHostsTypeOK /\ CardsTypeOK

\* The limits that are counted before an insert: without a lock they are exceeded
\* by the requests in flight, with the mutex not at all.
LimitsKept == CommentsBounded /\ QuestionsBounded /\ CoHostsBounded

\* The pauses that are kept in memory: between messages, and between invitations.
PausesKept == CooldownKept /\ InvitedOnceAnHour

=============================================================================
