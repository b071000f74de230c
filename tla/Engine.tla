------------------------------- MODULE Engine -------------------------------
(***************************************************************************)
(* What every handler of internal/engine runs on: the worker threads, the  *)
(* mutexes of lockConv, the context of a job, the conversation_state table *)
(* and the labels Chatwoot keeps.  Csat and Triage extend this module with *)
(* their handlers.  Each call a handler makes to the store, to Chatwoot or *)
(* to the model is a step of its own: another thread may run before it, it *)
(* may fail, and the context of the job may have expired.                  *)
(***************************************************************************)
EXTENDS Events, Naturals

CONSTANTS
    Conv,            \* conversation ids
    Thread,          \* the goroutines that run handlers
    ConvLockStripes, \* convLockStripes: number of mutexes
    None,            \* no job, no owner
    MaxEvents,       \* bound: jobs handed to the threads
    MaxLabelings,    \* bound: label changes made by agents
    MaxFaults,       \* bound: calls that fail
    MaxExpiries,     \* bound: job contexts that expire
    MaxCrashes       \* bound: restarts of the process

ASSUME ConvAssumption ==
    Conv \subseteq Nat /\ ConvLockStripes \in Nat \ {0}
ASSUME NoneAssumption == None \notin Thread /\ None \notin Conv

VARIABLES
    state,     \* conversation_state.state, "none" when there is no row
    lock,      \* Engine.convLocks: the thread that holds each mutex
    pc,        \* the next step of each thread
    job,       \* the event each thread handles
    live,      \* the context of the thread's job has not expired
    labels,    \* Chatwoot: the labels of each conversation
    past,      \* Chatwoot: <<before, after>> of its events so far
    used       \* how much of each bound is spent

workers == <<lock, pc, job, live>>
engine == <<state, workers, labels, past, used>>

CsatState == {"csat_pending", "csat_done", "closed_timeout"}
State == {"none", "triage", "routed"} \union CsatState

Bound == [events |-> MaxEvents, labelings |-> MaxLabelings,
          faults |-> MaxFaults, expiries |-> MaxExpiries,
          crashes |-> MaxCrashes]

Spend(resource) ==
    /\ used[resource] < Bound[resource]
    /\ used' = [used EXCEPT ![resource] = @ + 1]

\* Everything that can go wrong went right so far.
Smooth == used.faults + used.expiries + used.crashes = 0

EngineInit ==
    /\ lock = [s \in 0 .. ConvLockStripes - 1 |-> None]
    /\ pc = [t \in Thread |-> "idle"]
    /\ job = [t \in Thread |-> None]
    /\ live = [t \in Thread |-> TRUE]
    /\ past = [c \in Conv |-> {<<labels[c], labels[c]>>}]
    /\ used = [r \in DOMAIN Bound |-> 0]

-----------------------------------------------------------------------------
(* Calls.  ok says whether the call returned without error: with an expired *)
(* context it never does, otherwise each failure spends a fault.            *)

Call(t, ok) ==
    IF ok THEN live[t] /\ UNCHANGED used
    ELSE IF live[t] THEN Spend("faults") ELSE UNCHANGED used

\* Whether the other side carried the call out: a call that fails may still
\* have been, unless the context was gone before it was issued.
CarriedOut(t, ok) ==
    IF ok THEN {TRUE} ELSE IF live[t] THEN BOOLEAN ELSE {FALSE}

StripeOf(c) == c % ConvLockStripes

\* The handlers run without the mutex of the conversation.
NoLockConv(t, c) == lock' = [lock EXCEPT ![StripeOf(c)] = t]

LockConv(t, c) ==
    /\ lock[StripeOf(c)] = None
    /\ lock' = [lock EXCEPT ![StripeOf(c)] = t]

\* The early returns forget to unlock.
FinishLocked(t) ==
    /\ lock' = lock
    /\ pc' = [pc EXCEPT ![t] = "idle"]
    /\ job' = [job EXCEPT ![t] = None]
    /\ live' = [live EXCEPT ![t] = TRUE]

\* The deferred unlock and the end of the job.
Finish(t) ==
    /\ lock' = [s \in DOMAIN lock |-> IF lock[s] = t THEN None ELSE lock[s]]
    /\ pc' = [pc EXCEPT ![t] = "idle"]
    /\ job' = [job EXCEPT ![t] = None]
    /\ live' = [live EXCEPT ![t] = TRUE]

\* A handler that takes the mutex only to find nothing to do.
Return(t, c) == lock[StripeOf(c)] = None /\ Finish(t)

Goto(t, step) ==
    /\ pc' = [pc EXCEPT ![t] = step]
    /\ UNCHANGED <<lock, job, live>>

At(t, step, c) == pc[t] = step /\ c = job[t].conv

SaveState(c, s, ok) == state' = IF ok THEN [state EXCEPT ![c] = s] ELSE state

\* POST /labels replaces the whole set; Chatwoot emits an event on a change.
SetLabels(c, new) ==
    /\ labels' = [labels EXCEPT ![c] = new]
    /\ past' = IF new = labels[c] THEN past
               ELSE [past EXCEPT ![c] = @ \union {<<labels[c], new>>}]

\* A handler's call to SetLabels.
PostLabels(t, c, new, ok) ==
    \E applied \in CarriedOut(t, ok) :
        IF applied THEN SetLabels(c, new) ELSE UNCHANGED <<labels, past>>

-----------------------------------------------------------------------------
(* Events: any snapshot Chatwoot ever emitted, late, repeated, in any order. *)

\* A message_created that passes the edge filter (the others change nothing)
\* and enters flow with the labels ls.
CustomerMessage(c, ls, flow) ==
    /\ \E before \in LabelSet : <<before, ls>> \in past[c]
    /\ \E msg \in [incoming : BOOLEAN, contact : BOOLEAN, private : BOOLEAN] :
           FromCustomer(msg)
    /\ MessageFlow(ls) = flow

\* A conversation_updated that enters flow: the labels changed, or something
\* else did while the labels were ls.
ConversationUpdate(c, ls, flow) ==
    \E before \in LabelSet :
        /\ <<before, ls>> \in past[c]
        /\ \E previous \in {before, ls} :
               UpdateFlow([conv |-> c, labels |-> ls, previous |-> previous])
                 = flow

Dispatch(t, step, j) ==
    /\ pc[t] = "idle"
    /\ Spend("events")
    /\ pc' = [pc EXCEPT ![t] = step]
    /\ job' = [job EXCEPT ![t] = j]
    /\ UNCHANGED <<state, lock, live, labels, past>>

-----------------------------------------------------------------------------
(* The environment of the handlers: agents, job timeouts, crashes. *)

AgentLabels(c) ==
    /\ Spend("labelings")
    /\ \E new \in LabelSet \ {labels[c]} : SetLabels(c, new)
    /\ UNCHANGED <<state, workers>>

\* jobTimeout, or the shutdown of the process, cancels the job's context.
CtxExpire(t) ==
    /\ pc[t] # "idle" /\ live[t]
    /\ Spend("expiries")
    /\ live' = [live EXCEPT ![t] = FALSE]
    /\ UNCHANGED <<state, lock, pc, job, labels, past>>

\* The process dies and restarts: only SQLite and Chatwoot remember.
CrashEngine ==
    /\ Spend("crashes")
    /\ lock' = [s \in DOMAIN lock |-> None]
    /\ pc' = [t \in Thread |-> "idle"]
    /\ job' = [t \in Thread |-> None]
    /\ live' = [t \in Thread |-> TRUE]
    /\ UNCHANGED <<state, labels, past>>
=============================================================================
