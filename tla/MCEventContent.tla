--------------------------- MODULE MCEventContent ---------------------------
(* The content of one event, for TLC.                                      *)
EXTENDS EventContent, TLC

CONSTANTS p1, p2, a1, org, h1, h2

\* A guestbook with one place left, and a full one; two comments are of one second.
Entry(i, t) == [id |-> i, by |-> a1, at |-> t]
Guestbook == {{Entry(1, -2), Entry(2, -1)}, {Entry(1, -2), Entry(2, -2), Entry(3, -1)}}
Ask(type, options, required) ==
    [type |-> type, options |-> options, required |-> required, deleted |-> FALSE]
Plain == Ask("text", <<"x", "y">>, FALSE)
Select == Ask("select", <<"x", "y">>, TRUE)
Boxes == Ask("checkbox", <<"x", "y">>, TRUE)
DraftQuestions == {Plain, Select, Boxes, Ask("text", <<>>, FALSE)}
FirstLists == {<<Boxes>>, <<Select, Plain>>}
WorkBound == [guestbook |-> 2, questions |-> 3, cohosts |-> 3, cards |-> 3, front |-> 0]
\* Two instants for the handlers; at the front, windows that overlap and pass.
TickBound == [d \in Desks |-> IF d = "front" THEN 3 ELSE 1]
\* What the handlers do needs as many requests as are looked at; the front refuses.
Limits    == [d \in Desks |-> IF d \in {"cohosts", "cards"} THEN 3 ELSE 2]
Throttled == (h1 :> -1) @@ (h2 :> -2)
Swap == Permutations(Procs)
AnswerForms == {1 :> Text(" "), 1 :> Choice({}), (1 :> Text("y")) @@ (3 :> Choice({"x", "z"}))}

=============================================================================
