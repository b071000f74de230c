------------------------------ MODULE Batching ------------------------------
(***************************************************************************)
(* What the debouncer promises, with no timer and no generation: messages  *)
(* of a conversation wait in an open window and are handed to triage all   *)
(* together, in order; a window that holds no message yields one greeting. *)
(* The buffer is in memory: a restart loses it.                            *)
(***************************************************************************)
EXTENDS Naturals, Sequences

CONSTANTS Conv, Msg

VARIABLES
    window,   \* the conversation has an open window
    waiting,  \* messages of the open window
    heard,    \* messages handed to triage
    greets    \* windows handed to triage as a greeting

vars == <<window, waiting, heard, greets>>

Init ==
    /\ window = [c \in Conv |-> FALSE]
    /\ waiting = [c \in Conv |-> <<>>]
    /\ heard = [c \in Conv |-> <<>>]
    /\ greets = [c \in Conv |-> 0]

Accept(c, m) ==
    /\ window' = [window EXCEPT ![c] = TRUE]
    /\ waiting' = [waiting EXCEPT ![c] = Append(@, m)]
    /\ UNCHANGED <<heard, greets>>

Greet(c) ==
    /\ window' = [window EXCEPT ![c] = TRUE]
    /\ UNCHANGED <<waiting, heard, greets>>

Deliver(c) ==
    /\ window[c]
    /\ window' = [window EXCEPT ![c] = FALSE]
    /\ waiting' = [waiting EXCEPT ![c] = <<>>]
    /\ heard' = [heard EXCEPT ![c] = @ \o waiting[c]]
    /\ greets' = [greets EXCEPT ![c] = IF waiting[c] = <<>> THEN @ + 1 ELSE @]

Lose ==
    /\ window' = [c \in Conv |-> FALSE]
    /\ waiting' = [c \in Conv |-> <<>>]
    /\ UNCHANGED <<heard, greets>>

Next ==
    \/ \E c \in Conv : (\E m \in Msg : Accept(c, m)) \/ Greet(c) \/ Deliver(c)
    \/ Lose

Spec == Init /\ [][Next]_vars

\* A window does not stay open for ever.
FairSpec == Spec /\ \A c \in Conv : WF_vars(Deliver(c))
=============================================================================
