---------------------------- MODULE MCReminders ----------------------------
(* Small instances of Reminders: two server processes; a reminder to all    *)
(* attendees that nobody edits, and one to a single attendee that is edited *)
(* while the jobs run.                                                      *)
EXTENDS Reminders

AllOrOne == [r \in Rem |-> IF r \in Editable
                           THEN {{CHOOSE g \in Guests : TRUE}} ELSE {Guests}]
=============================================================================
