------------------------------ MODULE Lifecycle ------------------------------
(***************************************************************************)
(* What the bot promises about the phases of a conversation, with every    *)
(* thread, mutex, snapshot and call of the code left out: the life of its  *)
(* conversation_state row.  The promise holds as long as no call failed: a *)
(* failed read is taken for an empty row.                                  *)
(***************************************************************************)
CONSTANT Conv

VARIABLES
    phase,     \* conversation_state.state
    resolved,  \* Chatwoot was told to resolve the conversation
    sound      \* no call has failed

vars == <<phase, resolved, sound>>

Ended == {"csat_done", "closed_timeout"}

Init ==
    /\ phase \in [Conv -> {"none", "triage", "routed"}]
    /\ resolved = [c \in Conv |-> FALSE]
    /\ sound = TRUE

Enter(c, p) == phase' = [phase EXCEPT ![c] = p] /\ UNCHANGED resolved

\* Triage goes on for as long as the conversation is not routed: only a
\* survey takes a conversation out of a queue.
Talk(c) == phase[c] # "routed" /\ Enter(c, "triage")
Route(c) == phase[c] # "routed" /\ Enter(c, "routed")

\* A survey is not started over while it waits or once it is answered.
Ask(c) ==
    /\ phase[c] \notin {"csat_pending", "csat_done"}
    /\ Enter(c, "csat_pending")

Resolve(c) ==
    /\ resolved' = [resolved EXCEPT ![c] = TRUE]
    /\ UNCHANGED phase

\* An answer may come in while the deadline is being closed.
Answer(c) ==
    /\ phase[c] \in {"csat_pending", "closed_timeout"} /\ resolved[c]
    /\ Enter(c, "csat_done")

Close(c) == resolved[c] /\ Enter(c, "closed_timeout")

Next == \E c \in Conv : \/ Talk(c) \/ Route(c) \/ Ask(c)
                        \/ Resolve(c) \/ Answer(c) \/ Close(c)

\* Once a call has failed nothing more is promised.
Promise == sound' => sound /\ Next

Spec == Init /\ [][Promise]_vars
=============================================================================
