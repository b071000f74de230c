------------------------------- MODULE MCCsat -------------------------------
(* Finite instances of Csat for TLC. *)
EXTENDS Csat, TLC

\* Threads are interchangeable: every guard treats them alike.
ThreadSymmetry == Permutations(Thread)
=============================================================================
