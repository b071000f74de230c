------------------------------- MODULE MCCalls -------------------------------
(* Finite instances of Calls for TLC. *)
EXTENDS Calls, SequencesExt

\* Two ratings beside each other, beside a digit that is none, or in another
\* script; lists with repetitions; braces around, inside and out of order.
MCSaid == BoundedSeq({"0", "1", "5", "x"}, 3) \union {<<"arabic 3", "1", "x">>}
MCLists == BoundedSeq(Label, 2)
MCContents == BoundedSeq({"{", "}", "x"}, 3)
==============================================================================
