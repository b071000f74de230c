----------------------------- MODULE MCDebouncer -----------------------------
(* Finite instances of Debouncer for TLC. *)
EXTENDS Debouncer, TLC
=============================================================================
