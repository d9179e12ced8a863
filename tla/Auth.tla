-------------------------------- MODULE Auth --------------------------------
(***************************************************************************)
(* Sign-in (internal/auth): organizers, magic links and sessions, and the  *)
(* requests that read and write them: RequestMagicLink, VerifyMagicLink,   *)
(* ValidateSession (the middleware of every organizer request), Logout and *)
(* DeleteAccount. One action is one statement, or one transaction, of a    *)
(* request goroutine. A token stands for its row: hashing is injective     *)
(* for our purpose.                                                        *)
(***************************************************************************)
EXTENDS Integers, FiniteSets

CONSTANTS
    Procs,       \* request goroutines
    Emails, NoEmail,
    Admins,      \* the emails in ADMIN_EMAILS
    MaxLinks,    \* bound: magic links requested
    MaxSessions, \* bound: verifications begun
    MaxTime,     \* bound: the last instant
    LinkTTL, SessionTTL,
    Faults       \* whether SetAdminStatus may fail

ASSUME ConstantsAssumption ==
    /\ IsFiniteSet(Procs) /\ NoEmail \notin Emails /\ Admins \subseteq Emails
    /\ MaxLinks \in Nat /\ MaxSessions \in Nat
    /\ MaxTime \in Nat /\ LinkTTL \in Nat /\ SessionTTL \in Nat
    /\ Faults \in BOOLEAN

Orgs     == 1 .. MaxLinks   \* a request creates at most one organizer
Links    == 1 .. MaxLinks
Sessions == 1 .. MaxSessions

Link    == [org : Orgs, exp : Nat, used : BOOLEAN]
Session == [org : Orgs, exp : Nat, late : BOOLEAN]
NoLink    == [org |-> 0, exp |-> 0, used |-> FALSE]
NoSession == [org |-> 0, exp |-> 0, late |-> FALSE]

Labels == {"idle", "create", "reload", "link", "verify", "validate", "expire",
           "sync", "authed", "unsynced", "nilCreate", "nilValidate"}

VARIABLES
    now,
    email,    \* organizer id -> its email (NoEmail: no such row)
    admin,    \* organizer id -> its is_admin column
    links,    \* link id -> row
    sess,     \* session id -> row; late records that of its verification
    nextOrg, nextLink, nextSess,
    pc,       \* where each request is
    who,      \* the organizer it works for
    what,     \* the email, the link id or the session id it was sent with
    asked, tried, \* links requested and verifications begun
    spent,    \* history: the links that a verification has signed in with
    late      \* history: request -> whether its link was spent when it began

tables == <<email, admin, links, sess, nextOrg, nextLink, nextSess>>
history == <<spent, late>>
vars   == <<now, tables, pc, who, what, asked, tried, history>>

Init ==
    /\ now = 0
    /\ email = [o \in Orgs |-> NoEmail]
    /\ admin = [o \in Orgs |-> FALSE]
    /\ links = [l \in Links |-> NoLink]
    /\ sess = [s \in Sessions |-> NoSession]
    /\ nextOrg = 1 /\ nextLink = 1 /\ nextSess = 1
    /\ pc = [p \in Procs |-> "idle"]
    /\ who = [p \in Procs |-> 0]
    /\ what = [p \in Procs |-> 0]
    /\ asked = 0 /\ tried = 0
    /\ spent = {} /\ late = [p \in Procs |-> FALSE]

\* A query for organizer o finds a row.
Exists(o) == o # 0 /\ email[o] # NoEmail
FindOrganizerByEmail(e) == {o \in Orgs : email[o] = e}
FindMagicLinkByHash(l)  == links[l] # NoLink
FindSessionByHash(s)    == sess[s] # NoSession

\* The rows that are inserted.
NewLink(o)       == [org |-> o, exp |-> now + LinkTTL, used |-> FALSE]
NewSession(o, p) == [org |-> o, exp |-> now + SessionTTL, late |-> late[p]]

\* Request p goes on at label for organizer o.
Goto(p, label, o) ==
    /\ pc' = [pc EXCEPT ![p] = label]
    /\ who' = [who EXCEPT ![p] = o]

Return(p) == Goto(p, "idle", 0) /\ what' = [what EXCEPT ![p] = 0]

-----------------------------------------------------------------------------
(* RequestMagicLink                                                        *)

\* Variant: an unknown address gets a link without an account.
RequestFindNoCreate(p, e) ==
    /\ pc[p] = "idle"
    /\ asked < MaxLinks
    /\ asked' = asked + 1
    /\ \/ \E o \in FindOrganizerByEmail(e) : Goto(p, "link", o)
       \/ FindOrganizerByEmail(e) = {} /\ Goto(p, "link", 0)
    /\ what' = [what EXCEPT ![p] = e]
    /\ UNCHANGED <<now, tables, tried, history>>

\* FindOrganizerByEmail.
RequestFind(p, e) ==
    /\ pc[p] = "idle"
    /\ asked < MaxLinks
    /\ asked' = asked + 1
    /\ \/ \E o \in FindOrganizerByEmail(e) : Goto(p, "link", o)
       \/ FindOrganizerByEmail(e) = {} /\ Goto(p, "create", 0)
    /\ what' = [what EXCEPT ![p] = e]
    /\ UNCHANGED <<now, tables, tried, history>>

\* Variant: no unique index on organizers.email.
CreateOrganizerUnindexed(p) ==
    /\ pc[p] = "create"
    /\ email' = [email EXCEPT ![nextOrg] = what[p]]
    /\ admin' = [admin EXCEPT ![nextOrg] = FALSE]
    /\ nextOrg' = nextOrg + 1
    /\ Goto(p, "reload", nextOrg)
    /\ UNCHANGED <<now, links, sess, nextLink, nextSess, asked, tried, what, history>>

\* CreateOrganizer's INSERT fails if the email was taken meanwhile.
CreateOrganizer(p) ==
    /\ pc[p] = "create"
    /\ IF FindOrganizerByEmail(what[p]) # {}
       THEN Return(p) /\ UNCHANGED <<email, admin, nextOrg>>
       ELSE /\ email' = [email EXCEPT ![nextOrg] = what[p]]
            /\ admin' = [admin EXCEPT ![nextOrg] = FALSE]
            /\ nextOrg' = nextOrg + 1
            /\ Goto(p, "reload", nextOrg)
            /\ UNCHANGED what
    /\ UNCHANGED <<now, links, sess, nextLink, nextSess, asked, tried, history>>

\* CreateOrganizer's FindOrganizerByID; the caller uses the row it returns.
ReloadOrganizer(p) ==
    /\ pc[p] = "reload"
    /\ Goto(p, IF Exists(who[p]) THEN "link" ELSE "nilCreate", who[p])
    /\ UNCHANGED <<now, tables, what, asked, tried, history>>

\* Variant: no foreign key on organizer_id.
CreateMagicLinkUnchecked(p) ==
    /\ pc[p] = "link"
    /\ links' = [links EXCEPT ![nextLink] = NewLink(who[p])]
    /\ nextLink' = nextLink + 1
    /\ Return(p)
    /\ UNCHANGED <<now, email, admin, sess, nextOrg, nextSess, asked, tried, history>>

\* CreateMagicLink: the foreign key makes it fail for a deleted organizer.
CreateMagicLink(p) ==
    /\ pc[p] = "link"
    /\ IF Exists(who[p])
       THEN /\ links' = [links EXCEPT ![nextLink] = NewLink(who[p])]
            /\ nextLink' = nextLink + 1
       ELSE UNCHANGED <<links, nextLink>>
    /\ Return(p)
    /\ UNCHANGED <<now, email, admin, sess, nextOrg, nextSess, asked, tried, history>>

-----------------------------------------------------------------------------
(* VerifyMagicLink                                                         *)

\* FindMagicLinkByHash, not used, not expired.
VerifyFind(p, l) ==
    /\ pc[p] = "idle"
    /\ tried < MaxSessions
    /\ tried' = tried + 1
    /\ FindMagicLinkByHash(l) /\ ~links[l].used /\ now <= links[l].exp
    /\ Goto(p, "verify", links[l].org)
    /\ what' = [what EXCEPT ![p] = l]
    /\ late' = [late EXCEPT ![p] = l \in spent]
    /\ UNCHANGED <<now, tables, asked, spent>>

IsAdminEmail(e) == e \in Admins

\* Variant: an admin is never demoted.
NeedsSyncGrantOnly(o) == ~admin[o] /\ IsAdminEmail(email[o])

\* The is_admin column differs from the configuration.
NeedsSync(o) == admin[o] # IsAdminEmail(email[o])

\* Variant: the link is left unused.
MarkUsedNever(l) == links' = links

\* markMagicLinkUsed: UPDATE ... WHERE id, whatever used_at was.
MarkUsed(l) == links' = IF links[l] = NoLink THEN links
                        ELSE [links EXCEPT ![l].used = TRUE]

\* The transaction: mark the link used, create the session, read the
\* organizer. The session's foreign key rolls it back for a deleted one.
VerifyCommit(p) ==
    /\ pc[p] = "verify"
    /\ IF Exists(who[p])
       THEN /\ MarkUsed(what[p])
            /\ sess' = [sess EXCEPT ![nextSess] = NewSession(who[p], p)]
            /\ nextSess' = nextSess + 1
            /\ spent' = spent \cup {what[p]}
            /\ IF NeedsSync(who[p])
               THEN Goto(p, "sync", who[p]) /\ what' = [what EXCEPT ![p] = 0]
               ELSE Return(p)
       ELSE Return(p) /\ UNCHANGED <<links, sess, nextSess, spent>>
    /\ UNCHANGED <<now, email, admin, nextOrg, nextLink, asked, tried, late>>

\* SetAdminStatus, in VerifyMagicLink (what = 0) and in ValidateSession.
SetAdminStatus(p) ==
    /\ pc[p] = "sync"
    /\ admin' = IF Exists(who[p])
                THEN [admin EXCEPT ![who[p]] = IsAdminEmail(email[who[p]])] ELSE admin
    /\ IF what[p] = 0 THEN Return(p) ELSE Goto(p, "authed", who[p]) /\ UNCHANGED what
    /\ UNCHANGED <<now, email, links, sess, nextOrg, nextLink, nextSess, asked, tried, history>>

\* It fails: logged, and the request goes on with the flag it has read.
SetAdminFails(p) ==
    /\ Faults /\ pc[p] = "sync"
    /\ IF what[p] = 0 THEN Return(p) ELSE Goto(p, "unsynced", who[p]) /\ UNCHANGED what
    /\ UNCHANGED <<now, tables, asked, tried, history>>

-----------------------------------------------------------------------------
(* ValidateSession, Logout, DeleteAccount                                  *)

\* FindSessionByHash; an expired session is to be deleted.
ValidateFind(p, s) ==
    /\ pc[p] = "idle"
    /\ FindSessionByHash(s)
    /\ Goto(p, IF now > sess[s].exp THEN "expire" ELSE "validate", sess[s].org)
    /\ what' = [what EXCEPT ![p] = s]
    /\ UNCHANGED <<now, tables, asked, tried, history>>

ExpireSession(p) ==
    /\ pc[p] = "expire"
    /\ sess' = [sess EXCEPT ![what[p]] = NoSession]
    /\ Return(p)
    /\ UNCHANGED <<now, email, admin, links, nextOrg, nextLink, nextSess, asked, tried, history>>

\* FindOrganizerByID returns nil for a missing row; the code reads its email.
ValidateOrganizer(p) ==
    /\ pc[p] = "validate"
    /\ Goto(p, IF ~Exists(who[p]) THEN "nilValidate"
               ELSE IF NeedsSync(who[p]) THEN "sync" ELSE "authed", who[p])
    /\ UNCHANGED <<now, tables, what, asked, tried, history>>

\* The handler behind RequireAuth is done, or net/http recovers its panic.
Respond(p) ==
    /\ pc[p] \in {"authed", "unsynced", "nilCreate", "nilValidate"}
    /\ Return(p)
    /\ UNCHANGED <<now, tables, asked, tried, history>>

Logout(s) ==
    /\ FindSessionByHash(s)
    /\ sess' = [sess EXCEPT ![s] = NoSession]
    /\ UNCHANGED <<now, email, admin, links, nextOrg, nextLink, nextSess, pc, who, what, asked, tried, history>>

\* DeleteOrganizerCascade: one transaction.
DeleteAccount(p) ==
    /\ pc[p] \in {"authed", "unsynced"}
    /\ LET o == who[p]
       IN  /\ links' = [l \in Links |-> IF links[l].org = o THEN NoLink ELSE links[l]]
           /\ sess' = [s \in Sessions |-> IF sess[s].org = o THEN NoSession ELSE sess[s]]
           /\ email' = [email EXCEPT ![o] = NoEmail]
    /\ Return(p)
    /\ UNCHANGED <<now, admin, nextOrg, nextLink, nextSess, asked, tried, history>>

\* The server is restarted with another ADMIN_EMAILS: its requests are gone
\* and the column may differ from the configuration.
Reconfigure ==
    /\ \A p \in Procs : pc[p] = "idle"
    /\ admin' \in [Orgs -> BOOLEAN]
    /\ UNCHANGED <<now, email, links, sess, nextOrg, nextLink, nextSess, pc, who, what, asked, tried, history>>

Tick ==
    /\ now < MaxTime
    /\ now' = now + 1
    /\ UNCHANGED <<tables, pc, who, what, asked, tried, history>>

Next ==
    \/ \E p \in Procs :
          \/ \E e \in Emails : RequestFind(p, e)
          \/ CreateOrganizer(p) \/ ReloadOrganizer(p) \/ CreateMagicLink(p)
          \/ \E l \in Links : VerifyFind(p, l)
          \/ VerifyCommit(p) \/ SetAdminStatus(p) \/ SetAdminFails(p)
          \/ \E s \in Sessions : ValidateFind(p, s)
          \/ ExpireSession(p) \/ ValidateOrganizer(p) \/ Respond(p) \/ DeleteAccount(p)
    \/ \E s \in Sessions : Logout(s)
    \/ Reconfigure \/ Tick

Spec == Init /\ [][Next]_vars

-----------------------------------------------------------------------------
(* Properties                                                              *)

\* Type correctness.
TypeOK ==
    /\ now \in 0 .. MaxTime
    /\ email \in [Orgs -> Emails \cup {NoEmail}]
    /\ admin \in [Orgs -> BOOLEAN]
    /\ links \in [Links -> Link \cup {NoLink}]
    /\ sess \in [Sessions -> Session \cup {NoSession}]
    /\ nextOrg \in 1 .. MaxLinks + 1
    /\ nextLink \in 1 .. MaxLinks + 1
    /\ nextSess \in 1 .. MaxSessions + 1
    /\ pc \in [Procs -> Labels]
    /\ who \in [Procs -> Orgs \cup {0}]
    /\ \A p \in Procs : pc[p] \in {"reload", "link", "verify", "validate", "sync", "authed",
                                    "unsynced"} => who[p] \in Orgs
    /\ asked \in 0 .. MaxLinks /\ tried \in 0 .. MaxSessions
    /\ spent \subseteq Links /\ late \in [Procs -> BOOLEAN]

\* A sign-in or a link request that races the deletion of the account leaves
\* no link and no session of the deleted account behind.
NothingOutlivesAccount ==
    /\ \A l \in Links : links[l] # NoLink => Exists(links[l].org)
    /\ \A s \in Sessions : sess[s] # NoSession => Exists(sess[s].org)

\* Two first requests of one address make one account.
OneAccountPerEmail ==
    \A o1, o2 \in Orgs : Exists(o1) /\ email[o1] = email[o2] => o1 = o2

\* Sign-in, link requests and account deletion in any interleaving.
AccountsSound == NothingOutlivesAccount /\ OneAccountPerEmail

\* A verification that begins after another of the same link has signed in is
\* refused, whatever has become of that session, the link or the account since.
\* (Verifications that overlap may all sign in: used_at is checked before the
\* transaction that sets it.)
NoReplay == \A s \in Sessions : ~sess[s].late

\* Once a request is past RequireAuth, the admin flag is the configured one
\* unless its update failed, so a change of ADMIN_EMAILS takes effect "without
\* requiring re-login", whichever requests were in flight.
AdminAsConfigured ==
    \A p \in Procs : pc[p] = "authed" /\ Exists(who[p])
                      => (admin[who[p]] <=> email[who[p]] \in Admins)

=============================================================================
