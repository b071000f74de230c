------------------------------ MODULE RemoteCall ------------------------------
(***************************************************************************)
(* What a caller of the HTTP clients may rely on, whatever is retried, lost *)
(* or late underneath: a call that succeeds was carried out, a call that   *)
(* fails may have been, or may still be.                                   *)
(***************************************************************************)
CONSTANT Id        \* the calls, in the order they are made

VARIABLES
    outcome,   \* "none", "pending", "ok" or "error"
    carried    \* the other side carried the call out, at least once

vars == <<outcome, carried>>

Init ==
    /\ outcome = [i \in Id |-> "none"]
    /\ carried = [i \in Id |-> FALSE]

Become(i, res) == outcome' = [outcome EXCEPT ![i] = res] /\ UNCHANGED carried

\* One call at a time.
Ask(i) ==
    /\ outcome[i] = "none"
    /\ \A j \in Id : outcome[j] # "pending"
    /\ Become(i, "pending")

CarryOut(i) ==
    /\ outcome[i] # "none"
    /\ carried' = [carried EXCEPT ![i] = TRUE]
    /\ UNCHANGED outcome

Succeed(i) == outcome[i] = "pending" /\ carried[i] /\ Become(i, "ok")

Fail(i) == outcome[i] = "pending" /\ Become(i, "error")

Next == \E i \in Id : Ask(i) \/ CarryOut(i) \/ Succeed(i) \/ Fail(i)

Spec == Init /\ [][Next]_vars
=============================================================================
