------------------------------- MODULE MCAuth -------------------------------
(* Small instances of Auth: one or two requests at a time.                  *)
EXTENDS Auth, TLC

ProcSymmetry == Permutations(Procs)
=============================================================================
