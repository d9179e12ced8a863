--------------------------- MODULE MCNotification ---------------------------
(* A small instance of Notification: two messages to one recipient, of the  *)
(* same event or of two; the opens of the first are tracked.                *)
EXTENDS Notification

CONSTANTS m1, m2, a1, e1, e2
SameOrOther == {[m \in Msgs |-> <<a1, e1>>],
                [m \in Msgs |-> <<a1, IF m = m1 THEN e1 ELSE e2>>]}
=============================================================================
