----------------------------- MODULE AuthProofs -----------------------------
(* Theorems about Auth, for every number of request goroutines, addresses,   *)
(* links and sessions.                                                       *)
EXTENDS Auth, FiniteSetTheorems, TLAPS

\* Requests at one of the labels L.
At(f, L) == {p \in Procs : f[p] \in L}
Asking == {"create", "reload", "link"}

\* Every row still to be inserted is covered by a request that was counted.
Counted ==
    /\ nextOrg + Cardinality(At(pc, {"create"})) <= asked + 1
    /\ nextLink + Cardinality(At(pc, Asking)) <= asked + 1
    /\ nextSess + Cardinality(At(pc, {"verify"})) <= tried + 1

\* What the requests hold; ids of organizers are not given out twice.
Locals ==
    /\ what \in [Procs -> Emails \cup Nat]
    /\ \A p \in Procs : /\ pc[p] = "create" => what[p] \in Emails
                        /\ pc[p] = "verify" => what[p] \in Links /\ what[p] < nextLink
                        /\ who[p] < nextOrg
    /\ \A o \in Orgs : email[o] # NoEmail => o < nextOrg
    /\ \A l \in Links : links[l] # NoLink => l < nextLink
    /\ \A l \in spent : l < nextLink

AuthInv == TypeOK /\ Counted /\ Locals /\ AccountsSound

-----------------------------------------------------------------------------
(* Counting requests                                                       *)

\* The requests at some labels can be counted.
LEMMA AtFinite ==
    ASSUME NEW f, NEW L
    PROVE  IsFiniteSet(At(f, L)) /\ Cardinality(At(f, L)) \in Nat
  BY FS_Subset, FS_CardinalityType, ConstantsAssumption DEF At

\* A request that goes on changes the count by what it leaves and reaches.
LEMMA AtMoves ==
    ASSUME NEW f \in [Procs -> Labels], NEW L, NEW p \in Procs, NEW a
    PROVE  LET g == [f EXCEPT ![p] = a] IN
           /\ f[p] \notin L /\ a \in L => Cardinality(At(g, L)) = Cardinality(At(f, L)) + 1
           /\ f[p] \in L /\ a \notin L => /\ Cardinality(At(g, L)) = Cardinality(At(f, L)) - 1
           /\ f[p] \in L => Cardinality(At(f, L)) >= 1
           /\ (f[p] \in L <=> a \in L) => At(g, L) = At(f, L)
  <1> DEFINE g == [f EXCEPT ![p] = a]
  <1>1. ASSUME f[p] \notin L, a \in L
        PROVE  Cardinality(At(g, L)) = Cardinality(At(f, L)) + 1
    <2>1. At(g, L) = At(f, L) \cup {p} /\ p \notin At(f, L)
      BY <1>1 DEF At
    <2>2. QED
      BY <2>1, AtFinite, FS_AddElement
  <1>2. ASSUME f[p] \in L
        PROVE  /\ Cardinality(At(f, L)) >= 1
               /\ a \notin L => Cardinality(At(g, L)) = Cardinality(At(f, L)) - 1
    <2>1. p \in At(f, L)
      BY <1>2 DEF At
    <2>2. Cardinality(At(f, L) \ {p}) = Cardinality(At(f, L)) - 1
      BY <2>1, AtFinite, FS_RemoveElement
    <2>3. Cardinality(At(f, L) \ {p}) \in Nat
      BY AtFinite, FS_Subset, FS_CardinalityType
    <2>4. a \notin L => At(g, L) = At(f, L) \ {p}
      BY <1>2 DEF At
    <2>5. Cardinality(At(f, L)) \in Nat
      BY AtFinite
    <2>6. Cardinality(At(f, L)) >= 1
      BY <2>2, <2>3, <2>5
    <2> HIDE DEF g
    <2>7. QED
      BY <2>2, <2>4, <2>6
  <1>3. (f[p] \in L <=> a \in L) => At(g, L) = At(f, L)
    BY DEF At
  <1> HIDE DEF g
  <1>4. QED
    BY <1>1, <1>2, <1>3 DEF g

\* The counts of the three kinds of pending requests when p goes on at label a.
Tally(p, a) ==
    /\ pc \in [Procs -> Labels] /\ pc' = [pc EXCEPT ![p] = a]
    /\ \A L \in {{"create"}, Asking, {"verify"}} :
          /\ Cardinality(At(pc, L)) \in Nat /\ Cardinality(At(pc', L)) \in Nat
          /\ pc[p] \notin L /\ a \in L => Cardinality(At(pc', L)) = Cardinality(At(pc, L)) + 1
          /\ pc[p] \in L /\ a \notin L => Cardinality(At(pc', L)) = Cardinality(At(pc, L)) - 1
          /\ pc[p] \in L => Cardinality(At(pc, L)) >= 1
          /\ (pc[p] \in L <=> a \in L) => Cardinality(At(pc', L)) = Cardinality(At(pc, L))

\* A request that goes on changes the three counts as AtMoves says.
LEMMA GotoTally ==
    ASSUME TypeOK, NEW p \in Procs, NEW a, pc' = [pc EXCEPT ![p] = a]
    PROVE  Tally(p, a)
  <1>1. pc \in [Procs -> Labels]
    BY DEF TypeOK
  <1>2. ASSUME NEW L
        PROVE  Cardinality(At(pc, L)) \in Nat /\ Cardinality(At(pc', L)) \in Nat
    BY AtFinite
  <1>3. ASSUME NEW L
        PROVE  /\ pc[p] \notin L /\ a \in L => Cardinality(At(pc', L)) = Cardinality(At(pc, L)) + 1
               /\ pc[p] \in L /\ a \notin L => Cardinality(At(pc', L)) = Cardinality(At(pc, L)) - 1
               /\ pc[p] \in L => Cardinality(At(pc, L)) >= 1
               /\ (pc[p] \in L <=> a \in L) => At(pc', L) = At(pc, L)
    BY <1>1, AtMoves
  <1>4. QED
    BY <1>1, <1>2, <1>3 DEF Tally

\* Every step keeps the pending rows covered.
LEMMA CountedStep ==
    ASSUME AuthInv, [Next]_vars
    PROVE  Counted'
  <1> USE DEF AuthInv
  <1>0. /\ nextOrg \in Nat /\ nextLink \in Nat /\ nextSess \in Nat
        /\ asked \in Nat /\ tried \in Nat
    BY ConstantsAssumption DEF TypeOK
  <1>1. ASSUME UNCHANGED <<pc, nextOrg, nextLink, nextSess, asked, tried>>
        PROVE  Counted'
    BY <1>1 DEF Counted
  <1>2. ASSUME NEW p \in Procs, NEW a, NEW o, Goto(p, a, o)
        PROVE  Tally(p, a)
    BY <1>2, GotoTally DEF Goto
  <1>3. ASSUME NEW p \in Procs, NEW e \in Emails, RequestFind(p, e)
        PROVE  Counted'
    <2>1. PICK a \in {"link", "create"}, o \in Int : Goto(p, a, o)
      BY <1>3 DEF RequestFind, FindOrganizerByEmail, Orgs
    <2>2. QED
      BY <1>0, <1>2, <1>3, <2>1 DEF RequestFind, Tally, Counted, Asking, tables, history
  <1>4. ASSUME NEW p \in Procs, CreateOrganizer(p)
        PROVE  Counted'
    BY <1>0, <1>2, <1>4 DEF CreateOrganizer, Return, Tally, Counted, Asking
  <1>5. ASSUME NEW p \in Procs, ReloadOrganizer(p)
        PROVE  Counted'
    BY <1>0, <1>2, <1>5 DEF ReloadOrganizer, Tally, Counted, Asking, tables, history
  <1>6. ASSUME NEW p \in Procs, CreateMagicLink(p)
        PROVE  Counted'
    BY <1>0, <1>2, <1>6 DEF CreateMagicLink, Return, Tally, Counted, Asking
  <1>7. ASSUME NEW p \in Procs, NEW l \in Links, VerifyFind(p, l)
        PROVE  Counted'
    BY <1>0, <1>2, <1>7 DEF VerifyFind, Tally, Counted, Asking, tables, history
  <1>8. ASSUME NEW p \in Procs, VerifyCommit(p)
        PROVE  Counted'
    BY <1>0, <1>2, <1>8 DEF VerifyCommit, Return, Tally, Counted, Asking
  <1>9. ASSUME NEW p \in Procs,
               \/ SetAdminStatus(p) \/ SetAdminFails(p) \/ ExpireSession(p)
               \/ ValidateOrganizer(p) \/ Respond(p) \/ DeleteAccount(p)
               \/ \E s \in Sessions : ValidateFind(p, s)
        PROVE  Counted'
    <2>1. PICK a \in {"idle", "authed", "unsynced", "expire", "validate", "sync", "nilValidate"} :
             \E o : Goto(p, a, o)
      BY <1>9 DEF SetAdminStatus, SetAdminFails, ExpireSession, ValidateOrganizer, Respond,
                  DeleteAccount, ValidateFind, Return
    <2>2. /\ pc[p] \notin Asking \cup {"verify"}
          /\ UNCHANGED <<nextOrg, nextLink, nextSess, asked, tried>>
      BY <1>9 DEF SetAdminStatus, SetAdminFails, ExpireSession, ValidateOrganizer, Respond,
                  DeleteAccount, ValidateFind, tables, history, Asking
    <2>3. QED
      BY <1>0, <1>2, <2>1, <2>2 DEF Tally, Counted, Asking
  <1>10. QED
    BY <1>1, <1>3, <1>4, <1>5, <1>6, <1>7, <1>8, <1>9
    DEF Next, Logout, Reconfigure, Tick, vars, tables, history

-----------------------------------------------------------------------------
(* Types, and the accounts                                                 *)

\* A request that is to insert a row has an id for it.
LEMMA Room ==
    ASSUME AuthInv, NEW p \in Procs
    PROVE  /\ pc[p] = "create" => nextOrg \in Orgs
           /\ pc[p] = "link" => nextLink \in Links
           /\ pc[p] = "verify" => nextSess \in Sessions
  <1> USE DEF AuthInv
  <1>1. /\ nextOrg \in Nat \ {0} /\ nextLink \in Nat \ {0} /\ nextSess \in Nat \ {0}
        /\ asked \in 0 .. MaxLinks /\ tried \in 0 .. MaxSessions
    BY ConstantsAssumption DEF TypeOK
  <1>2. pc \in [Procs -> Labels]
    BY DEF TypeOK
  <1>3. ASSUME NEW L, pc[p] \in L
        PROVE  Cardinality(At(pc, L)) \in Nat /\ Cardinality(At(pc, L)) >= 1
    BY <1>2, <1>3, AtFinite, AtMoves
  <1>4. pc[p] = "create" => nextOrg \in Orgs
    BY <1>1, <1>3, ConstantsAssumption DEF Counted, Orgs
  <1>5. pc[p] = "link" => nextLink \in Links
    BY <1>1, <1>3, ConstantsAssumption DEF Counted, Links, Asking
  <1>6. pc[p] = "verify" => nextSess \in Sessions
    BY <1>1, <1>3, ConstantsAssumption DEF Counted, Sessions
  <1>7. QED
    BY <1>4, <1>5, <1>6

\* What holds of the rows and of the requests' locals.
Rows == TypeOK /\ Locals /\ AccountsSound

\* The first statement of a link request, and the reload of a new organizer.
LEMMA RequestStep ==
    ASSUME AuthInv, NEW p \in Procs,
           (\E e \in Emails : RequestFind(p, e)) \/ ReloadOrganizer(p)
    PROVE  Rows'
  <1> USE DEF AuthInv, Rows
  <1>1. ASSUME NEW e \in Emails, RequestFind(p, e)
        PROVE  Rows'
    <2>1. PICK a \in {"link", "create"}, o \in Orgs \cup {0} :
             Goto(p, a, o) /\ (o = 0 \/ email[o] = e) /\ (a = "link" => o \in Orgs)
      BY <1>1 DEF RequestFind, FindOrganizerByEmail, Orgs
    <2>2. o < nextOrg
      BY <2>1, ConstantsAssumption DEF TypeOK, Locals
    <2>3. TypeOK'
      BY <1>1, <2>1, ConstantsAssumption DEF RequestFind, TypeOK, Goto, Labels, tables, history
    <2>4. Locals'
      BY <1>1, <2>1, <2>2 DEF RequestFind, TypeOK, Locals, Goto, tables, history
    <2>5. AccountsSound'
      BY <1>1 DEF RequestFind, AccountsSound, NothingOutlivesAccount, OneAccountPerEmail, Exists, tables, history
    <2>6. QED
      BY <2>3, <2>4, <2>5
  <1>2. ASSUME ReloadOrganizer(p)
        PROVE  Rows'
    <2>1. TypeOK'
      BY <1>2 DEF ReloadOrganizer, TypeOK, Goto, Labels, tables, history
    <2>2. Locals'
      BY <1>2 DEF ReloadOrganizer, TypeOK, Locals, Goto, tables, history
    <2>3. AccountsSound'
      BY <1>2 DEF ReloadOrganizer, AccountsSound, NothingOutlivesAccount, OneAccountPerEmail, Exists, tables, history
    <2>4. QED
      BY <2>1, <2>2, <2>3
  <1>3. QED
    BY <1>1, <1>2

\* The insertion of an organizer: the unique index keeps addresses apart.
LEMMA CreateOrganizerStep ==
    ASSUME AuthInv, NEW p \in Procs, CreateOrganizer(p)
    PROVE  Rows'
  <1> USE DEF AuthInv, Rows
  <1>1. nextOrg \in Orgs /\ what[p] \in Emails /\ what[p] # NoEmail
    BY Room, ConstantsAssumption DEF CreateOrganizer, Locals
  <1>2. CASE FindOrganizerByEmail(what[p]) # {}
    <2>1. TypeOK'
      BY <1>2 DEF CreateOrganizer, TypeOK, Return, Goto, Labels, history
    <2>2. Locals'
      BY <1>2, ConstantsAssumption DEF CreateOrganizer, TypeOK, Locals, Return, Goto, history
    <2>3. AccountsSound'
      BY <1>2 DEF CreateOrganizer, AccountsSound, NothingOutlivesAccount, OneAccountPerEmail, Exists
    <2>4. QED
      BY <2>1, <2>2, <2>3
  <1>3. CASE FindOrganizerByEmail(what[p]) = {}
    <2>0. /\ email' = [email EXCEPT ![nextOrg] = what[p]]
          /\ admin' = [admin EXCEPT ![nextOrg] = FALSE]
          /\ nextOrg' = nextOrg + 1
          /\ pc' = [pc EXCEPT ![p] = "reload"] /\ who' = [who EXCEPT ![p] = nextOrg]
          /\ UNCHANGED <<what, now, links, sess, nextLink, nextSess, asked, tried, spent, late>>
      BY <1>3 DEF CreateOrganizer, Goto, history
    <2>1. TypeOK'
      <3>1. nextOrg' \in 1 .. MaxLinks + 1
        BY <1>1, <2>0, ConstantsAssumption DEF Orgs
      <3>2. QED
        BY <1>1, <2>0, <3>1 DEF TypeOK, Labels
    <2>2. Locals'
      <3>1. nextOrg' \in Nat /\ nextOrg < nextOrg' /\ nextOrg \in Nat
        BY <1>1, <2>0, ConstantsAssumption DEF Orgs
      <3>0. who \in [Procs -> Int] /\ \A q \in Procs : who[q] < nextOrg
        BY DEF TypeOK, Locals, Orgs
      <3>2. \A q \in Procs : who'[q] < nextOrg'
        BY <2>0, <3>0, <3>1
      <3>3. \A o \in Orgs : email'[o] # NoEmail => o < nextOrg'
        BY <2>0, <3>1, ConstantsAssumption DEF TypeOK, Locals, Orgs
      <3>4. QED
        BY <2>0, <3>2, <3>3 DEF TypeOK, Locals
    <2>3. \A o \in Orgs : email[o] # what[p]
      BY <1>3 DEF FindOrganizerByEmail
    <2>4. email \in [Orgs -> Emails \cup {NoEmail}] /\ email' = [email EXCEPT ![nextOrg] = what[p]]
      BY <1>3 DEF CreateOrganizer, TypeOK
    <2>5. OneAccountPerEmail'
      BY <1>1, <2>3, <2>4 DEF AccountsSound, OneAccountPerEmail, Exists
    <2>6. links' = links /\ sess' = sess
      BY DEF CreateOrganizer
    <2>7. \A o : Exists(o) /\ o \in Orgs => Exists(o)'
      BY <1>1, <2>4 DEF Exists
    <2>8. \A l \in Links : links[l] # NoLink => links[l].org \in Orgs
      BY DEF TypeOK, Link
    <2>9. \A t \in Sessions : sess[t] # NoSession => sess[t].org \in Orgs
      BY DEF TypeOK, Session
    <2>10. NothingOutlivesAccount'
      BY <2>6, <2>7, <2>8, <2>9 DEF AccountsSound, NothingOutlivesAccount
    <2>11. QED
      BY <2>1, <2>2, <2>5, <2>10 DEF AccountsSound
  <1>4. QED
    BY <1>2, <1>3

\* The insertion of a link: the foreign key asks for its organizer.
LEMMA CreateMagicLinkStep ==
    ASSUME AuthInv, NEW p \in Procs, CreateMagicLink(p)
    PROVE  Rows'
  <1> USE DEF AuthInv, Rows
  <1>1. nextLink \in Links /\ who[p] \in Orgs
    BY Room DEF CreateMagicLink, TypeOK
  <1>2. /\ pc' = [pc EXCEPT ![p] = "idle"] /\ who' = [who EXCEPT ![p] = 0]
        /\ what' = [what EXCEPT ![p] = 0]
        /\ UNCHANGED <<now, email, admin, sess, nextOrg, nextSess, asked, tried, spent, late>>
    BY DEF CreateMagicLink, Return, Goto, history
  <1>3. \/ UNCHANGED <<links, nextLink>>
        \/ /\ Exists(who[p])
           /\ links' = [links EXCEPT ![nextLink] = NewLink(who[p])]
           /\ nextLink' = nextLink + 1
    BY DEF CreateMagicLink
  <1>4. NewLink(who[p]) \in Link /\ NewLink(who[p]).org = who[p]
    BY <1>1, ConstantsAssumption DEF TypeOK, NewLink, Link
  <1>5. TypeOK'
    <2>1. nextLink' \in 1 .. MaxLinks + 1
      BY <1>1, <1>3, ConstantsAssumption DEF Links, TypeOK
    <2>2. links' \in [Links -> Link \cup {NoLink}]
      BY <1>3, <1>4 DEF TypeOK
    <2>3. QED
      BY <1>2, <2>1, <2>2 DEF TypeOK, Labels
  <1>6. Locals'
    <2>1. nextLink \in Nat /\ nextLink' \in Nat /\ nextLink <= nextLink'
      BY <1>1, <1>3, ConstantsAssumption DEF Links
    <2>2. \A l \in Links : links'[l] # NoLink => l < nextLink'
      <3>1. \A l \in Links : links'[l] # NoLink =>
               links[l] # NoLink \/ (l = nextLink /\ nextLink' = nextLink + 1)
        BY <1>3 DEF TypeOK
      <3>2. \A l \in Links : l \in Nat
        BY DEF Links
      <3>3. QED
        BY <2>1, <3>1, <3>2 DEF Locals
    <2>3. \A q \in Procs : pc'[q] = "verify" => what'[q] \in Links /\ what'[q] < nextLink'
      BY <1>2, <2>1, ConstantsAssumption DEF TypeOK, Locals, Links
    <2>4. \A l \in spent' : l < nextLink'
      <3>1. \A l \in spent : l \in Nat
        BY DEF TypeOK, Links
      <3>2. QED
        BY <1>2, <2>1, <3>1 DEF Locals
    <2>5. \A q \in Procs : who'[q] < nextOrg'
      BY <1>1, <1>2, ConstantsAssumption DEF TypeOK, Locals, Orgs
    <2>6. QED
      BY <1>2, <2>2, <2>3, <2>4, <2>5 DEF TypeOK, Locals
  <1>7. AccountsSound'
    <2>1. \A l \in Links : links'[l] # NoLink => Exists(links'[l].org)
      BY <1>1, <1>3, <1>4 DEF TypeOK, AccountsSound, NothingOutlivesAccount
    <2>2. QED
      BY <1>2, <2>1 DEF AccountsSound, NothingOutlivesAccount, OneAccountPerEmail, Exists
  <1>8. QED
    BY <1>5, <1>6, <1>7

\* The transaction of a verification: its session belongs to an account that
\* exists then.
LEMMA VerifyCommitStep ==
    ASSUME AuthInv, NEW p \in Procs, VerifyCommit(p)
    PROVE  Rows'
  <1> USE DEF AuthInv, Rows
  <1>1. /\ nextSess \in Sessions /\ who[p] \in Orgs
        /\ what[p] \in Links /\ what[p] < nextLink
    BY Room DEF VerifyCommit, TypeOK, Locals
  <1>2. PICK a \in {"idle", "sync"}, o \in {0, who[p]} :
           /\ pc' = [pc EXCEPT ![p] = a] /\ who' = [who EXCEPT ![p] = o]
           /\ what' = [what EXCEPT ![p] = 0]
           /\ a = "sync" => o = who[p]
    BY DEF VerifyCommit, Return, Goto
  <1>3. UNCHANGED <<now, email, admin, nextOrg, nextLink, asked, tried, late>>
    BY DEF VerifyCommit
  <1>4. \/ UNCHANGED <<links, sess, nextSess, spent>>
        \/ /\ Exists(who[p]) /\ MarkUsed(what[p])
           /\ sess' = [sess EXCEPT ![nextSess] = NewSession(who[p], p)]
           /\ nextSess' = nextSess + 1
           /\ spent' = spent \cup {what[p]}
    BY DEF VerifyCommit
  <1>5. /\ links' \in [Links -> Link \cup {NoLink}]
        /\ \A l \in Links : /\ links'[l] # NoLink => links[l] # NoLink
                            /\ links'[l].org = links[l].org
    <2> DEFINE row == [links[what[p]] EXCEPT !.used = TRUE]
    <2>1. links \in [Links -> Link \cup {NoLink}]
      BY DEF TypeOK
    <2>2. CASE links' = links
      BY <2>1, <2>2
    <2>3. CASE links[what[p]] # NoLink /\ links' = [links EXCEPT ![what[p]] = row]
      <3>1. row \in Link /\ row.org = links[what[p]].org
        BY <1>1, <2>1, <2>3 DEF Link
      <3> HIDE DEF row
      <3>2. QED
        BY <1>1, <2>1, <2>3, <3>1
    <2>4. QED
      BY <1>4, <2>2, <2>3 DEF MarkUsed
  <1>6. NewSession(who[p], p) \in Session /\ NewSession(who[p], p).org = who[p]
    BY <1>1, ConstantsAssumption DEF TypeOK, NewSession, Session
  <1>7. sess' \in [Sessions -> Session \cup {NoSession}]
    BY <1>4, <1>6 DEF TypeOK
  <1>8. TypeOK'
    <2>1. nextSess' \in 1 .. MaxSessions + 1 /\ spent' \subseteq Links
      BY <1>1, <1>4, ConstantsAssumption DEF Sessions, TypeOK
    <2>2. QED
      BY <1>1, <1>2, <1>3, <1>5, <1>7, <2>1 DEF TypeOK, Labels
  <1>9. Locals'
    <2>1. \A l \in spent' : l < nextLink'
      BY <1>1, <1>3, <1>4 DEF TypeOK, Locals
    <2>2. \A q \in Procs : who'[q] < nextOrg'
      BY <1>1, <1>2, <1>3, ConstantsAssumption DEF TypeOK, Locals, Orgs
    <2>3. \A l \in Links : links'[l] # NoLink => l < nextLink'
      BY <1>3, <1>5 DEF Locals
    <2>4. QED
      BY <1>2, <1>3, <2>1, <2>2, <2>3 DEF TypeOK, Locals
  <1>10. AccountsSound'
    <2>1. \A t \in Sessions : sess'[t] # NoSession => Exists(sess'[t].org)
      BY <1>1, <1>4, <1>6 DEF TypeOK, AccountsSound, NothingOutlivesAccount
    <2>2. \A l \in Links : links'[l] # NoLink => Exists(links'[l].org)
      BY <1>5 DEF AccountsSound, NothingOutlivesAccount
    <2>3. QED
      BY <1>3, <2>1, <2>2 DEF AccountsSound, NothingOutlivesAccount, OneAccountPerEmail, Exists
  <1>11. QED
    BY <1>8, <1>9, <1>10

\* Steps of a request that write no row, or only the admin column.
LEMMA ReadingStep ==
    ASSUME AuthInv, NEW p \in Procs,
           \/ \E l \in Links : VerifyFind(p, l)
           \/ \E s \in Sessions : ValidateFind(p, s)
           \/ SetAdminStatus(p) \/ SetAdminFails(p) \/ ValidateOrganizer(p) \/ Respond(p)
    PROVE  Rows'
  <1> USE DEF AuthInv, Rows
  <1>1. \A l \in Links : links[l] # NoLink => links[l].org \in Orgs /\ Exists(links[l].org)
    BY DEF TypeOK, Link, AccountsSound, NothingOutlivesAccount
  <1>2. \A s \in Sessions : sess[s] # NoSession => sess[s].org \in Orgs /\ Exists(sess[s].org)
    BY DEF TypeOK, Session, AccountsSound, NothingOutlivesAccount
  <1>3. PICK a \in Labels \ {"create", "reload", "link"}, o \in Orgs \cup {0}, x \in Emails \cup Nat :
           /\ pc' = [pc EXCEPT ![p] = a] /\ who' = [who EXCEPT ![p] = o]
           /\ what' = [what EXCEPT ![p] = x]
           /\ a \in {"verify", "validate", "sync", "authed", "unsynced"} => o \in Orgs
           /\ a = "verify" => x \in Links /\ x < nextLink
           /\ o < nextOrg
    <2>0. \A o \in Orgs : Exists(o) => o < nextOrg
      BY DEF Exists, Locals
    <2>1. what[p] \in Emails \cup Nat /\ what = [what EXCEPT ![p] = what[p]]
      BY DEF Locals
    <2>2. who[p] \in Orgs \cup {0} /\ who[p] < nextOrg /\ 0 < nextOrg
      BY ConstantsAssumption DEF TypeOK, Locals
    <2>3. CASE \E l \in Links : VerifyFind(p, l)
      <3>1. PICK l \in Links : VerifyFind(p, l)
        BY <2>3
      <3>2. l \in Emails \cup Nat /\ l < nextLink /\ links[l].org \in Orgs /\ links[l].org < nextOrg
        BY <1>1, <2>0, <3>1 DEF VerifyFind, FindMagicLinkByHash, Locals, Links
      <3>3. QED
        BY <3>1, <3>2 DEF VerifyFind, Goto, Labels
    <2>4. CASE \E s \in Sessions : ValidateFind(p, s)
      <3>1. PICK s \in Sessions : ValidateFind(p, s)
        BY <2>4
      <3>2. s \in Emails \cup Nat /\ sess[s].org \in Orgs /\ sess[s].org < nextOrg
        BY <1>2, <2>0, <3>1 DEF ValidateFind, FindSessionByHash, Sessions
      <3>3. QED
        BY <3>1, <3>2 DEF ValidateFind, Goto, Labels
    <2>5. CASE SetAdminStatus(p) \/ SetAdminFails(p)
      BY <2>1, <2>2, <2>5 DEF SetAdminStatus, SetAdminFails, Goto, Return, Labels, TypeOK
    <2>6. CASE ValidateOrganizer(p)
      BY <2>1, <2>2, <2>6 DEF ValidateOrganizer, Goto, Labels, TypeOK
    <2>7. CASE Respond(p)
      BY <2>2, <2>7 DEF Respond, Goto, Return, Labels
    <2>8. QED
      BY <2>3, <2>4, <2>5, <2>6, <2>7
  <1>4. /\ UNCHANGED <<now, email, links, sess, nextOrg, nextLink, nextSess>>
        /\ admin' \in [Orgs -> BOOLEAN]
        /\ asked' = asked /\ tried' \in 0 .. MaxSessions
        /\ spent' = spent /\ late' \in [Procs -> BOOLEAN]
    <2>1. CASE SetAdminStatus(p)
      BY <2>1 DEF SetAdminStatus, TypeOK, IsAdminEmail, history
    <2>2. CASE \E l \in Links : VerifyFind(p, l)
      BY <2>2, ConstantsAssumption DEF VerifyFind, tables, history, TypeOK
    <2>3. QED
      BY <2>1, <2>2 DEF ValidateFind, SetAdminFails, ValidateOrganizer, Respond, tables, history, TypeOK
  <1>5. TypeOK'
    BY <1>3, <1>4 DEF TypeOK
  <1>6. Locals'
    BY <1>3, <1>4 DEF TypeOK, Locals
  <1>7. AccountsSound'
    BY <1>4 DEF AccountsSound, NothingOutlivesAccount, OneAccountPerEmail, Exists
  <1>8. QED
    BY <1>5, <1>6, <1>7

\* Steps that delete rows: an account goes with all its links and sessions.
LEMMA DeletingStep ==
    ASSUME AuthInv,
           \/ \E p \in Procs : ExpireSession(p) \/ DeleteAccount(p)
           \/ \E s \in Sessions : Logout(s)
    PROVE  Rows'
  <1> USE DEF AuthInv, Rows
  <1>1. ASSUME NEW p \in Procs, ExpireSession(p) \/ DeleteAccount(p)
        PROVE  /\ pc' = [pc EXCEPT ![p] = "idle"] /\ who' = [who EXCEPT ![p] = 0]
               /\ what' = [what EXCEPT ![p] = 0]
    BY <1>1 DEF ExpireSession, DeleteAccount, Return, Goto
  <1>2. UNCHANGED <<now, admin, nextOrg, nextLink, nextSess, asked, tried, spent, late>>
    BY DEF ExpireSession, DeleteAccount, Logout, history
  <1>3. /\ pc' \in [Procs -> Labels] /\ who' \in [Procs -> Orgs \cup {0}]
        /\ \A p \in Procs : pc'[p] # "idle" =>
              pc'[p] = pc[p] /\ who'[p] = who[p] /\ what'[p] = what[p]
        /\ what' \in [Procs -> Emails \cup Nat] /\ \A p \in Procs : who'[p] < nextOrg
    <2>1. CASE UNCHANGED <<pc, who, what>>
      BY <1>2, <2>1 DEF TypeOK, Locals
    <2>2. CASE \E p \in Procs : /\ pc' = [pc EXCEPT ![p] = "idle"] /\ who' = [who EXCEPT ![p] = 0]
                               /\ what' = [what EXCEPT ![p] = 0]
      BY <2>2, ConstantsAssumption DEF TypeOK, Locals, Labels
    <2>3. QED
      BY <1>1, <2>1, <2>2 DEF Logout
  <1>4. \/ UNCHANGED <<email, links>> /\ \E s : sess' = [sess EXCEPT ![s] = NoSession]
        \/ \E o \in Orgs :
              /\ links' = [l \in Links |-> IF links[l].org = o THEN NoLink ELSE links[l]]
              /\ sess' = [s \in Sessions |-> IF sess[s].org = o THEN NoSession ELSE sess[s]]
              /\ email' = [email EXCEPT ![o] = NoEmail]
    BY DEF ExpireSession, DeleteAccount, Logout, TypeOK
  <1>5. /\ email' \in [Orgs -> Emails \cup {NoEmail}]
        /\ links' \in [Links -> Link \cup {NoLink}]
        /\ sess' \in [Sessions -> Session \cup {NoSession}]
    BY <1>4 DEF TypeOK
  <1>6. /\ \A o \in Orgs : email'[o] \in {email[o], NoEmail}
        /\ \A l \in Links : links'[l] \in {links[l], NoLink}
        /\ \A s \in Sessions : sess'[s] \in {sess[s], NoSession}
    BY <1>4 DEF TypeOK
  <1>7. TypeOK'
    BY <1>2, <1>3, <1>5 DEF TypeOK
  <1>8. Locals'
    BY <1>2, <1>3, <1>6 DEF Locals, TypeOK
  <1>9. AccountsSound'
    <2>1. \A l \in Links : links[l] # NoLink => links[l].org \in Orgs /\ Exists(links[l].org)
      BY DEF TypeOK, Link, AccountsSound, NothingOutlivesAccount
    <2>2. \A s \in Sessions : sess[s] # NoSession => sess[s].org \in Orgs /\ Exists(sess[s].org)
      BY DEF TypeOK, Session, AccountsSound, NothingOutlivesAccount
    <2>3. NothingOutlivesAccount'
      BY <1>4, <1>6, <2>1, <2>2 DEF NothingOutlivesAccount, TypeOK, Exists
    <2>4. OneAccountPerEmail'
      BY <1>6 DEF AccountsSound, OneAccountPerEmail, Exists
    <2>5. QED
      BY <2>3, <2>4 DEF AccountsSound
  <1>10. QED
    BY <1>7, <1>8, <1>9

\* The clock, and a restart with other administrators.
LEMMA WorldStep ==
    ASSUME AuthInv, Reconfigure \/ Tick
    PROVE  Rows'
  <1> USE DEF AuthInv, Rows
  <1>1. /\ UNCHANGED <<email, links, sess, nextOrg, nextLink, nextSess, pc, who, what, asked,
                      tried, spent, late>>
        /\ now' \in 0 .. MaxTime /\ admin' \in [Orgs -> BOOLEAN]
    BY ConstantsAssumption DEF Reconfigure, Tick, tables, history, TypeOK
  <1>2. TypeOK'
    BY <1>1 DEF TypeOK
  <1>3. Locals'
    BY <1>1 DEF Locals
  <1>4. AccountsSound'
    BY <1>1 DEF AccountsSound, NothingOutlivesAccount, OneAccountPerEmail, Exists
  <1>5. QED
    BY <1>2, <1>3, <1>4

-----------------------------------------------------------------------------
\* The invariant holds at the start, and every step keeps it.
LEMMA AuthInit == Init => AuthInv
  <1> SUFFICES ASSUME Init PROVE AuthInv
    OBVIOUS
  <1>1. TypeOK
    BY ConstantsAssumption DEF Init, TypeOK, Labels
  <1>2. Locals
    BY ConstantsAssumption DEF Init, Locals, NoSession
  <1>3. Counted
    <2>1. \A L \in {{"create"}, Asking, {"verify"}} : At(pc, L) = {}
      BY DEF Init, At, Asking
    <2>2. /\ nextOrg = 1 /\ nextLink = 1 /\ nextSess = 1 /\ asked = 0 /\ tried = 0
      BY DEF Init
    <2>3. QED
      BY <2>1, <2>2, FS_EmptySet DEF Counted
  <1>4. AccountsSound
    BY DEF Init, AccountsSound, NothingOutlivesAccount, OneAccountPerEmail, Exists
  <1>5. QED
    BY <1>1, <1>2, <1>3, <1>4 DEF AuthInv

LEMMA AuthStep == AuthInv /\ [Next]_vars => AuthInv'
  <1> SUFFICES ASSUME AuthInv, [Next]_vars PROVE AuthInv'
    OBVIOUS
  <1>1. Counted'
    BY CountedStep
  <1>2. CASE UNCHANGED vars
    <2>1. Rows'
      BY <1>2 DEF AuthInv, Rows, TypeOK, Locals, AccountsSound, NothingOutlivesAccount,
                  OneAccountPerEmail, Exists, vars, tables, history
    <2>2. QED
      BY <1>1, <2>1 DEF AuthInv, Rows
  <1>3. CASE Next
    <2>1. Rows'
      BY <1>3, RequestStep, CreateOrganizerStep, CreateMagicLinkStep, VerifyCommitStep,
         ReadingStep, DeletingStep, WorldStep
      DEF Next
    <2>2. QED
      BY <1>1, <2>1 DEF AuthInv, Rows
  <1>4. QED
    BY <1>2, <1>3

LEMMA AuthInvariant == Spec => []AuthInv
  BY AuthInit, AuthStep, PTL DEF Spec

\* The tables and the requests' locals keep their types.
THEOREM AuthTypeCorrect == Spec => []TypeOK
  BY AuthInvariant, PTL DEF AuthInv

\* No interleaving of sign-ins, link requests and account deletions leaves a link
\* or a session without its account, or two accounts of one address.
THEOREM AccountsAlwaysSound == Spec => []AccountsSound
  BY AuthInvariant, PTL DEF AuthInv

-----------------------------------------------------------------------------
(* The admin flag                                                          *)

\* The flag of organizer o is the configured one.
InSync(o) == admin[o] = IsAdminEmail(email[o])
AdminInv  == \A p \in Procs : pc[p] = "authed" /\ Exists(who[p]) => InSync(who[p])

\* Requests that are served stay so, whatever the others write.
LEMMA AdminStep == AuthInv /\ AdminInv /\ [Next]_vars => AdminInv'
  <1> SUFFICES ASSUME AuthInv, AdminInv, [Next]_vars PROVE AdminInv'
    OBVIOUS
  <1>0. /\ email \in [Orgs -> Emails \cup {NoEmail}] /\ admin \in [Orgs -> BOOLEAN]
        /\ pc \in [Procs -> Labels] /\ who \in [Procs -> Orgs \cup {0}]
        /\ \A q \in Procs : who[q] < nextOrg /\ who[q] \in Int
        /\ \A q \in Procs : pc[q] \in {"authed", "sync"} => who[q] \in Orgs
    BY DEF AuthInv, TypeOK, Locals, Orgs
  <1> SUFFICES ASSUME NEW q \in Procs, pc'[q] = "authed", Exists(who[q])' PROVE InSync(who[q])'
    BY DEF AdminInv
  \* The account is the same before and after, and so is its flag.
  <1>1. ASSUME pc[q] = "authed", UNCHANGED <<pc, who>>,
               UNCHANGED <<email, admin>>
        PROVE  InSync(who[q])'
    BY <1>1 DEF AdminInv, InSync, Exists
  <1>2. ASSUME NEW p \in Procs, NEW a, NEW o, Goto(p, a, o), a # "authed",
               UNCHANGED <<email, admin>>
        PROVE  InSync(who[q])'
    BY <1>0, <1>2 DEF AdminInv, InSync, Exists, Goto
  <1>3. ASSUME NEW p \in Procs, CreateOrganizer(p)
        PROVE  InSync(who[q])'
    <2>1. nextOrg \in Orgs
      BY <1>3, Room DEF CreateOrganizer
    <2>2. pc[q] = "authed" /\ who'[q] = who[q] /\ who[q] # nextOrg
      BY <1>0, <1>3, <2>1 DEF CreateOrganizer, Goto, Return, Orgs
    <2>3. email'[who[q]] = email[who[q]] /\ admin'[who[q]] = admin[who[q]]
      BY <1>0, <1>3, <2>2 DEF CreateOrganizer
    <2>4. QED
      BY <2>2, <2>3 DEF AdminInv, InSync, Exists
  <1>4. ASSUME NEW p \in Procs, SetAdminStatus(p)
        PROVE  InSync(who[q])'
    <2>1. /\ who[p] \in Orgs /\ email' = email
          /\ Exists(who[p]) => admin' = [admin EXCEPT ![who[p]] = IsAdminEmail(email[who[p]])]
          /\ ~Exists(who[p]) => admin' = admin
      BY <1>0, <1>4 DEF SetAdminStatus
    <2>2. q = p => who'[q] = who[q]
      BY <1>0, <1>4 DEF SetAdminStatus, Return, Goto
    <2>3. q # p => pc[q] = "authed" /\ who'[q] = who[q]
      BY <1>0, <1>4 DEF SetAdminStatus, Return, Goto
    <2>4. Exists(who[q])
      BY <2>1, <2>2, <2>3 DEF Exists
    <2>5. CASE who[q] = who[p]
      BY <1>0, <2>1, <2>2, <2>3, <2>4, <2>5 DEF InSync
    <2>6. CASE who[q] # who[p]
      <3>1. InSync(who[q])
        BY <2>3, <2>4, <2>6 DEF AdminInv
      <3>2. admin'[who[q]] = admin[who[q]]
        <4>1. who[q] \in Orgs
          BY <1>0, <2>2, <2>3, <2>6
        <4>2. QED
          BY <1>0, <2>1, <2>6, <4>1
      <3>3. QED
        BY <2>1, <2>3, <2>6, <3>1, <3>2 DEF InSync
    <2>7. QED
      BY <2>5, <2>6
  <1>5. ASSUME NEW p \in Procs, ValidateOrganizer(p)
        PROVE  InSync(who[q])'
    <2>1. UNCHANGED <<email, admin>> /\ who'[q] = who[q]
      BY <1>0, <1>5 DEF ValidateOrganizer, Goto, tables, history
    <2>2. CASE q = p
      BY <1>0, <1>5, <2>1, <2>2 DEF ValidateOrganizer, Goto, InSync, NeedsSync
    <2>3. CASE q # p
      BY <1>0, <1>5, <2>1, <2>3 DEF ValidateOrganizer, Goto, InSync, AdminInv, Exists
    <2>4. QED
      BY <2>2, <2>3
  <1>6. ASSUME NEW p \in Procs, DeleteAccount(p)
        PROVE  InSync(who[q])'
    <2>1. /\ who[p] \in Orgs \cup {0} /\ email' = [email EXCEPT ![who[p]] = NoEmail]
          /\ admin' = admin /\ Goto(p, "idle", 0)
      BY <1>0, <1>6 DEF DeleteAccount, Return
    <2>2. q # p /\ pc[q] = "authed" /\ who'[q] = who[q]
      BY <1>0, <2>1 DEF Goto
    <2>3. who[q] # who[p] /\ email'[who[q]] = email[who[q]]
      BY <1>0, <2>1, <2>2 DEF Exists
    <2>4. QED
      BY <2>1, <2>2, <2>3 DEF AdminInv, InSync, Exists
  <1>7. ASSUME Reconfigure
        PROVE  InSync(who[q])'
    BY <1>7 DEF Reconfigure
  <1>8. CASE UNCHANGED <<pc, who, email, admin>>
    BY <1>1, <1>8
  <1>9. ASSUME NEW p \in Procs,
               \/ \E e \in Emails : RequestFind(p, e)
               \/ ReloadOrganizer(p) \/ CreateMagicLink(p)
               \/ \E l \in Links : VerifyFind(p, l)
               \/ VerifyCommit(p) \/ SetAdminFails(p)
               \/ \E s \in Sessions : ValidateFind(p, s)
               \/ ExpireSession(p) \/ Respond(p)
        PROVE  InSync(who[q])'
    <2>1. UNCHANGED <<email, admin>>
      BY <1>9 DEF RequestFind, ReloadOrganizer, CreateMagicLink, VerifyFind, VerifyCommit,
                  SetAdminFails, ValidateFind, ExpireSession, Respond, tables, history
    <2>2. \E a, o : Goto(p, a, o) /\ a # "authed"
      BY <1>9 DEF RequestFind, ReloadOrganizer, CreateMagicLink, VerifyFind, VerifyCommit,
                  SetAdminFails, ValidateFind, ExpireSession, Respond, Return
    <2>3. QED
      BY <1>2, <2>1, <2>2
  <1>10. QED
    BY <1>3, <1>4, <1>5, <1>6, <1>7, <1>8, <1>9 DEF Next, Logout, Tick, vars, tables, history

\* A request past RequireAuth works with the configured admin flag, unless its
\* update failed, for any number of requests that sign in, are deleted or update
\* the flag at the same time.
THEOREM AdminAlwaysConfigured == Spec => []AdminAsConfigured
  <1>1. Init => AdminInv
    BY DEF Init, AdminInv
  <1>2. AuthInv /\ AdminInv => AdminAsConfigured
    BY DEF AdminInv, AdminAsConfigured, InSync, IsAdminEmail
  <1>3. QED
    BY <1>1, <1>2, AuthInvariant, AdminStep, PTL DEF Spec

-----------------------------------------------------------------------------
(* Replay                                                                  *)

\* A link that was spent is used or gone, so no verification of it begins; its id
\* is below nextLink (Locals), so that it is never given to a new link.
ReplayInv ==
    /\ \A l \in spent : links[l] = NoLink \/ links[l].used
    /\ \A p \in Procs : ~late[p]
    /\ \A s \in Sessions : ~sess[s].late

\* Every step keeps spent links unusable.
LEMMA ReplayStep == AuthInv /\ ReplayInv /\ [Next]_vars => ReplayInv'
  <1> SUFFICES ASSUME AuthInv, ReplayInv, [Next]_vars PROVE ReplayInv'
    OBVIOUS
  <1>0. /\ links \in [Links -> Link \cup {NoLink}] /\ sess \in [Sessions -> Session \cup {NoSession}]
        /\ late \in [Procs -> BOOLEAN] /\ spent \subseteq Links /\ ~NoSession.late
        /\ \A l \in spent : l < nextLink /\ l \in Nat
    BY DEF AuthInv, TypeOK, Locals, Links, NoSession
  <1>1. CASE /\ UNCHANGED <<late, spent>>
             /\ \A l \in Links : links'[l] = NoLink \/ links'[l] = links[l]
             /\ \A s \in Sessions : sess'[s] = NoSession \/ sess'[s] = sess[s]
    BY <1>0, <1>1 DEF ReplayInv
  <1>2. ASSUME NEW p \in Procs, CreateMagicLink(p)
        PROVE  ReplayInv'
    <2>1. UNCHANGED <<late, spent, sess>>
      BY <1>2 DEF CreateMagicLink, history
    <2>2. \A l \in spent : links'[l] = links[l]
      BY <1>0, <1>2 DEF CreateMagicLink
    <2>3. QED
      BY <2>1, <2>2 DEF ReplayInv
  <1>3. ASSUME NEW p \in Procs, NEW k \in Links, VerifyFind(p, k)
        PROVE  ReplayInv'
    <2>1. k \notin spent
      BY <1>3 DEF ReplayInv, VerifyFind, FindMagicLinkByHash
    <2>2. UNCHANGED <<links, sess, spent>> /\ late' = [late EXCEPT ![p] = k \in spent]
      BY <1>3 DEF VerifyFind, tables
    <2>3. \A q \in Procs : ~late'[q]
      BY <1>0, <2>1, <2>2 DEF ReplayInv
    <2>4. QED
      BY <2>2, <2>3 DEF ReplayInv
  <1>4. ASSUME NEW p \in Procs, VerifyCommit(p)
        PROVE  ReplayInv'
    <2>1. CASE UNCHANGED <<links, sess, spent>>
      BY <1>1, <1>4, <2>1 DEF VerifyCommit
    <2>2. CASE /\ MarkUsed(what[p])
               /\ sess' = [sess EXCEPT ![nextSess] = NewSession(who[p], p)]
               /\ spent' = spent \cup {what[p]}
      <3>1. late' = late /\ ~late[p] /\ what[p] \in Links
        BY <1>4 DEF VerifyCommit, ReplayInv, AuthInv, Locals
      <3>2. ~NewSession(who[p], p).late
        BY <3>1 DEF NewSession
      <3>3. \A s \in Sessions : ~sess'[s].late
        BY <1>0, <2>2, <3>2 DEF ReplayInv
      <3>4. links[what[p]] # NoLink => links'[what[p]].used
        BY <1>0, <2>2, <3>1 DEF MarkUsed, Link
      <3>5. \A l \in Links \ {what[p]} : links'[l] = links[l]
        BY <1>0, <2>2 DEF MarkUsed
      <3>6. links[what[p]] = NoLink => links'[what[p]] = NoLink
        BY <2>2 DEF MarkUsed
      <3>7. QED
        BY <1>0, <2>2, <3>1, <3>3, <3>4, <3>5, <3>6 DEF ReplayInv
    <2>3. QED
      BY <1>4, <2>1, <2>2 DEF VerifyCommit
  <1>5. ASSUME \/ \E p \in Procs : ExpireSession(p) \/ DeleteAccount(p)
               \/ \E s \in Sessions : Logout(s)
        PROVE  ReplayInv'
    <2>1. UNCHANGED <<late, spent>>
      BY <1>5 DEF ExpireSession, DeleteAccount, Logout, history
    <2>2. \A l \in Links : links'[l] = NoLink \/ links'[l] = links[l]
      BY <1>0, <1>5 DEF ExpireSession, DeleteAccount, Logout
    <2>3. \A s \in Sessions : sess'[s] = NoSession \/ sess'[s] = sess[s]
      BY <1>0, <1>5 DEF ExpireSession, DeleteAccount, Logout
    <2>4. QED
      BY <1>1, <2>1, <2>2, <2>3
  <1>6. CASE UNCHANGED <<links, sess, late, spent>>
    BY <1>1, <1>6
  <1>7. QED
    BY <1>2, <1>3, <1>4, <1>5, <1>6
    DEF Next, RequestFind, CreateOrganizer, ReloadOrganizer, SetAdminStatus, SetAdminFails,
        ValidateFind, ValidateOrganizer, Respond, Reconfigure, Tick, vars, tables, history

\* A verification that begins after another of the same link has signed in opens
\* no session, however many requests, links and account deletions there are.
THEOREM NeverReplayed == Spec => []NoReplay
  <1>1. Init => ReplayInv
    BY DEF Init, ReplayInv, NoSession
  <1>2. ReplayInv => NoReplay
    BY DEF ReplayInv, NoReplay
  <1>3. QED
    BY <1>1, <1>2, AuthInvariant, ReplayStep, PTL DEF Spec
=============================================================================
