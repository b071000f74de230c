------------------------------ MODULE MCTriage ------------------------------
(* Finite instances of Triage for TLC. *)
EXTENDS Triage, TLC

\* Threads are interchangeable: every guard treats them alike.
ThreadSymmetry == Permutations(Thread)
=============================================================================
