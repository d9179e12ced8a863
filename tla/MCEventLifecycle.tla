------------------------- MODULE MCEventLifecycle --------------------------
(* Small instances of EventLifecycle.                                       *)
EXTENDS EventLifecycle, TLC

CONSTANT alice

ProcSymmetry == Permutations(Procs)

Transition(op, who) == {[NoRequest EXCEPT !.op = op, !.by = a] : a \in who}
UpdateOf(ds, dls, ns, who) ==
    {[op |-> "update", by |-> a, date |-> d, deadline |-> dl, retention |-> n] :
        d \in ds, dl \in dls, n \in ns, a \in who}

\* Every status transition, and updates of columns other than the times.
StatusRequests ==
    UNION {Transition(op, {Owner, alice}) : op \in {"publish", "cancel", "update"}}
    \cup Transition("reopen", {Owner}) \cup Transition("delete", {Owner})

\* The same with every change of the times.
AllRequests ==
    StatusRequests \cup UpdateOf({2}, {None, Clear, 2}, {None}, {Owner})
    \cup UpdateOf({None}, {2}, {1}, {Owner})

\* The owner archives the event.
DeleteRequests == Transition("delete", {Owner})
=============================================================================
