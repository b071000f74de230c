-------------------------------- MODULE MCBot --------------------------------
(* Finite instances of Bot for TLC. *)
EXTENDS Bot, TLC

\* Threads are interchangeable: every guard treats them alike.
ThreadSymmetry == Permutations(Thread)
=============================================================================
