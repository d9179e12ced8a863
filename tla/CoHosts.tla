------------------------------ MODULE CoHosts -------------------------------
(***************************************************************************)
(* The co-hosts of an event (internal/event/handler.go, cohost_store.go).  *)
(* An addition is counted against a limiter of its own, then checks and    *)
(* inserts under a mutex of the event, and sends an invitation unless the  *)
(* throttle remembers one. Mutex, limiter and throttle are in memory.      *)
(***************************************************************************)
EXTENDS EventScope

CONSTANTS
    Hosts, NoHost,       \* accounts the owner may add
    NoProc,
    MaxCoHosts,          \* MAX_COHOSTS_PER_EVENT
    AddLimit, AddWindow, \* the limiter: ten a minute in the code
    NotifyHour,          \* the throttle: one hour in the code
    FirstSeen            \* what the throttle knows at first: host -> time

Unseen == -2

ASSUME CoHostsAssumption ==
    /\ IsFiniteSet(Hosts) /\ NoHost \notin Hosts /\ NoProc \notin Procs
    /\ MaxCoHosts \in Nat /\ AddLimit \in Nat /\ AddWindow \in Nat /\ NotifyHour \in Nat
    /\ FirstSeen \in [Hosts -> {Unseen, -1}]

VARIABLES
    cohosts,    \* host -> id of its row, 0 without one
    cohostMutex,\* the goroutine that holds the event's mutex
    target,     \* goroutine -> the host its request is about ...
    targetRow,  \* ... and the row a removal has found
    addHits,    \* the limiter's entries of the owner's address
    seen,       \* the throttle's entries
    invited     \* history: invitations sent, this process

cohostVars == <<cohosts, cohostMutex, target, targetRow, addHits, seen, invited>>

CoHostsInit ==
    /\ cohosts = [h \in Hosts |-> 0] /\ cohostMutex = NoProc
    /\ target = [p \in Procs |-> NoHost] /\ targetRow = [p \in Procs |-> 0]
    /\ addHits = {} /\ seen = FirstSeen
    /\ invited = {[host |-> h, at |-> FirstSeen[h], no |-> 0] :
                     h \in {g \in Hosts : FirstSeen[g] # Unseen}}

-----------------------------------------------------------------------------
(* handleAddCoHost.                                                        *)

\* coHostRateLimiter.allow
Entries    == {e \in addHits : e.at >= now - AddWindow}
AddAllowed == Cardinality(Entries) < AddLimit
Added      == Entries \cup {[at |-> now, no |-> served]}

\* IsEventOwner: the caller is the owner of a row that exists.
IsEventOwner == eventStatus # "deleted"

AddBegin(p, h) ==
    /\ AddAllowed /\ IsEventOwner
    /\ Admit(p, Organizer, "h_lock")
    /\ addHits' = Added
    /\ target' = [target EXCEPT ![p] = h]
    /\ UNCHANGED <<cohosts, cohostMutex, targetRow, seen, invited>>

\* Too many additions, or no account of that address: the limiter has counted
\* the second.
AddRefused ==
    /\ AdmitOnce(Organizer)
    /\ addHits' = IF AddAllowed THEN Added ELSE Entries
    /\ UNCHANGED <<cohosts, cohostMutex, target, targetRow, seen, invited>>

\* The deferred Unlock and the answer.
Leave(p) ==
    /\ Goto(p, "idle")
    /\ cohostMutex' = NoProc
    /\ target' = [target EXCEPT ![p] = NoHost]

\* Variant: somebody else's lock does not stop it.
MayLockAlways == TRUE

MayLock == cohostMutex = NoProc

\* Lock, and FindByEventAndOrganizer.
AddLock(p) ==
    /\ pc[p] = "h_lock" /\ MayLock
    /\ IF cohosts[target[p]] # 0
       THEN Leave(p)
       ELSE Goto(p, "h_count") /\ cohostMutex' = p /\ UNCHANGED target
    /\ UNCHANGED <<cohosts, targetRow, addHits, seen, invited>>

CountByEventID == Cardinality({h \in Hosts : cohosts[h] # 0})

\* Variant: the early return keeps the lock.
AddCountLocked(p) ==
    /\ pc[p] = "h_count"
    /\ IF CountByEventID >= MaxCoHosts
       THEN Goto(p, "idle") /\ target' = [target EXCEPT ![p] = NoHost] /\ UNCHANGED cohostMutex
       ELSE Goto(p, "h_insert") /\ UNCHANGED <<cohostMutex, target>>
    /\ UNCHANGED <<cohosts, targetRow, addHits, seen, invited>>

AddCount(p) ==
    /\ pc[p] = "h_count"
    /\ IF CountByEventID >= MaxCoHosts
       THEN Leave(p)
       ELSE Goto(p, "h_insert") /\ UNCHANGED <<cohostMutex, target>>
    /\ UNCHANGED <<cohosts, targetRow, addHits, seen, invited>>

\* CoHostStore.Create: the foreign key and the unique index may refuse it.
AddInsert(p) ==
    /\ pc[p] = "h_insert"
    /\ IF eventStatus = "deleted" \/ cohosts[target[p]] # 0
       THEN Leave(p) /\ UNCHANGED cohosts
       ELSE /\ cohosts' = [cohosts EXCEPT ![target[p]] = served]
            /\ Goto(p, "h_notify") /\ UNCHANGED <<cohostMutex, target>>
    /\ UNCHANGED <<targetRow, addHits, seen, invited>>

\* coHostNotifyThrottle.allow
NotifyAllowed(h) == seen[h] = Unseen \/ now - seen[h] >= NotifyHour

AddNotify(p) ==
    LET h == target[p] IN
    /\ pc[p] = "h_notify" /\ Leave(p)
    /\ IF NotifyAllowed(h)
       THEN /\ seen' = [seen EXCEPT ![h] = now]
            /\ invited' = invited \cup {[host |-> h, at |-> now, no |-> Cardinality(invited)]}
       ELSE UNCHANGED <<seen, invited>>
    /\ UNCHANGED <<cohosts, targetRow, addHits>>

-----------------------------------------------------------------------------
\* Variant: forgets entries that still count.
StaleEntryEarly(h) == seen[h] < now

StaleEntry(h) == seen[h] < now - NotifyHour

\* coHostNotifyThrottle.cleanup, on its own ticker.
CleanupThrottle ==
    /\ seen' = [h \in Hosts |-> IF StaleEntry(h) THEN Unseen ELSE seen[h]]
    /\ UNCHANGED <<scopeVars, cohosts, cohostMutex, target, targetRow, addHits, invited>>

(* handleRemoveCoHost.                                                     *)
RemoveCoHostFind(p, h) ==
    /\ cohosts[h] # 0 /\ IsEventOwner
    /\ Admit(p, Organizer, "h_delete")
    /\ target' = [target EXCEPT ![p] = h]
    /\ targetRow' = [targetRow EXCEPT ![p] = cohosts[h]]
    /\ UNCHANGED <<cohosts, cohostMutex, addHits, seen, invited>>

\* Delete, by the id of the row that was found.
RemoveCoHost(p) ==
    /\ pc[p] = "h_delete" /\ Goto(p, "idle")
    /\ cohosts' = [h \in Hosts |-> IF cohosts[h] = targetRow[p] THEN 0 ELSE cohosts[h]]
    /\ target' = [target EXCEPT ![p] = NoHost] /\ targetRow' = [targetRow EXCEPT ![p] = 0]
    /\ UNCHANGED <<cohostMutex, addHits, seen, invited>>

-----------------------------------------------------------------------------
\* ON DELETE CASCADE.
CoHostsLoseEvent ==
    cohosts' = [h \in Hosts |-> 0]
    /\ UNCHANGED <<cohostMutex, target, targetRow, addHits, seen, invited>>

\* A goroutine ends early; the deferred Unlock runs.
CoHostsForget(p) ==
    /\ cohostMutex' = IF cohostMutex = p THEN NoProc ELSE cohostMutex
    /\ target' = [target EXCEPT ![p] = NoHost] /\ targetRow' = [targetRow EXCEPT ![p] = 0]
    /\ UNCHANGED <<cohosts, addHits, seen, invited>>

CoHostsLoseMemory ==
    /\ cohostMutex' = NoProc /\ addHits' = {} /\ invited' = {}
    /\ target' = [p \in Procs |-> NoHost] /\ targetRow' = [p \in Procs |-> 0]
    /\ seen' = [h \in Hosts |-> Unseen]
    /\ UNCHANGED cohosts

Holding == {"h_count", "h_insert", "h_notify"}
CoHostLabels == Holding \cup {"h_lock", "h_delete"}

CoHostsNext ==
    \/ \E p \in Procs :
          \/ \E h \in Hosts : AddBegin(p, h) \/ RemoveCoHostFind(p, h)
          \/ AddLock(p) \/ AddCount(p) \/ AddInsert(p) \/ AddNotify(p) \/ RemoveCoHost(p)
    \/ AddRefused \/ CleanupThrottle

-----------------------------------------------------------------------------
CoHostsTypeOK ==
    /\ cohosts \in [Hosts -> 0 .. MaxRequests]
    /\ cohostMutex \in Procs \cup {NoProc}
    /\ target \in [Procs -> Hosts \cup {NoHost}] /\ targetRow \in [Procs -> 0 .. MaxRequests]
    /\ addHits \subseteq [at : 0 .. MaxTime, no : 0 .. MaxRequests]
    /\ Cardinality(addHits) <= AddLimit
    /\ seen \in [Hosts -> {Unseen} \cup -1 .. MaxTime]
    /\ invited \subseteq [host : Hosts, at : -1 .. MaxTime, no : Nat]

\* The event never has more co-hosts than configured: the count that was checked
\* is still right at the insert, however additions, removals and failures
\* interleave.
CoHostsBounded == CountByEventID <= MaxCoHosts

\* The mutex belongs to a request that is still between the lock and its answer:
\* no path of the handler returns and leaves the event locked.
MutexReleased == cohostMutex # NoProc => pc[cohostMutex] \in Holding

\* Within one run of the process no host gets two invitations to the event in
\* less than an hour, however often it is added and removed and whatever the
\* cleanup of the throttle forgets.
InvitedOnceAnHour ==
    \A i, j \in invited :
        i # j /\ i.host = j.host => i.at - j.at >= NotifyHour \/ j.at - i.at >= NotifyHour

=============================================================================
