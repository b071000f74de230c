------------------------------- MODULE Webhook -------------------------------
(***************************************************************************)
(* internal/webhook: ServeHTTP marks the delivery, queues the event and    *)
(* answers 200; a pool of workers takes the events and gives the engine    *)
(* those it can read.  The requests modelled passed the checks of method,  *)
(* token, signature and JSON envelope: the others are refused and change   *)
(* nothing.  Chatwoot may post an event more than once, under one delivery *)
(* id, or under none.                                                      *)
(***************************************************************************)
EXTENDS Naturals, Sequences, FiniteSets

CONSTANTS
    Event,      \* the events Chatwoot emits
    Identified, \* those that carry an X-Chatwoot-Delivery
    Readable,   \* those with a handler and a body that decodes for it
    Request,    \* HTTP requests served at a time
    Worker,     \* the goroutines of the pool
    QueueSize,  \* capacity of Server.jobs (256 in the code)
    None,       \* no event
    InEngine,   \* a worker whose event is in the engine's handler
    Gone,       \* a worker that returned
    MaxPosts,   \* bound: requests
    MaxFaults,  \* bound: calls to MarkProcessed that fail
    MaxRestarts \* bound: restarts of the process

ASSUME QueueAssumption ==
    /\ Identified \subseteq Event /\ Readable \subseteq Event
    /\ QueueSize \in Nat \ {0}
    /\ {None, InEngine, Gone} \intersect Event = {}
    /\ None # InEngine /\ None # Gone /\ InEngine # Gone
ASSUME PoolAssumption == IsFiniteSet(Request) /\ IsFiniteSet(Worker)

VARIABLES
    processed, \* table processed_events
    jobs,      \* Server.jobs
    serving,   \* the event each request is about to enqueue
    busy,      \* the event each worker took, or where the worker is
    stopping,  \* the context of main is cancelled
    answered,  \* history: events answered with 200
    dropped,   \* history: events that found the queue full
    handled,   \* history: how often the engine was given each event
    used       \* how much of each bound is spent

vars == <<processed, jobs, serving, busy, stopping, answered, dropped,
          handled, used>>

Bound == [posts |-> MaxPosts, faults |-> MaxFaults, restarts |-> MaxRestarts]

Spend(resources) ==
    /\ \A r \in resources : used[r] < Bound[r]
    /\ used' = [r \in DOMAIN Bound |->
                   IF r \in resources THEN used[r] + 1 ELSE used[r]]

Init ==
    /\ processed = {}
    /\ jobs = <<>>
    /\ serving = [r \in Request |-> None]
    /\ busy = [w \in Worker |-> None]
    /\ stopping = FALSE
    /\ answered = {}
    /\ dropped = {}
    /\ handled = [e \in Event |-> 0]
    /\ used = [r \in DOMAIN Bound |-> 0]

-----------------------------------------------------------------------------
(* ServeHTTP *)

Fresh(e) == e \notin processed

\* INSERT ... ON CONFLICT DO NOTHING: one statement tests and marks.
MarkProcessed(e) == processed' = processed \union {e}

Respond(r, e) ==
    /\ serving' = [serving EXCEPT ![r] = None]
    /\ answered' = answered \union {e}

Proceed(r, e) ==
    /\ serving' = [serving EXCEPT ![r] = e]
    /\ UNCHANGED answered

\* A delivery that cannot be checked is taken for a duplicate.
RefuseUnchecked(r, e) == Respond(r, e)

\* A delivery that cannot be checked is queued all the same.
AcceptUnchecked(r, e) == Proceed(r, e)

Receive(r, e) ==
    /\ serving[r] = None
    /\ \/ /\ e \notin Identified
          /\ Spend({"posts"})
          /\ Proceed(r, e)
          /\ UNCHANGED processed
       \/ /\ e \in Identified
          /\ Spend({"posts"})
          /\ MarkProcessed(e)
          /\ IF Fresh(e) THEN Proceed(r, e) ELSE Respond(r, e)
       \/ /\ e \in Identified
          /\ Spend({"posts", "faults"})
          /\ MarkProcessed(e) \/ UNCHANGED processed
          /\ AcceptUnchecked(r, e)
    /\ UNCHANGED <<jobs, busy, stopping, dropped, handled>>

\* Off by one.
RoomForOneMore == Len(jobs) <= QueueSize

HasRoom == Len(jobs) < QueueSize

Enqueue(r) ==
    LET e == serving[r]
    IN  /\ e # None
        /\ IF HasRoom
           THEN jobs' = Append(jobs, e) /\ UNCHANGED dropped
           ELSE dropped' = dropped \union {e} /\ UNCHANGED jobs
        /\ Respond(r, e)
        /\ UNCHANGED <<processed, busy, stopping, handled, used>>

-----------------------------------------------------------------------------
(* The workers *)

\* A worker that may leave can still take a job: select chooses at random.
Take(w) ==
    /\ busy[w] = None
    /\ jobs # <<>>
    /\ busy' = [busy EXCEPT ![w] = Head(jobs)]
    /\ jobs' = Tail(jobs)
    /\ UNCHANGED <<processed, serving, stopping, answered, dropped, handled,
                   used>>

\* process calls the handler of the engine.
Handle(w) ==
    /\ busy[w] \in Readable
    /\ busy' = [busy EXCEPT ![w] = InEngine]
    /\ handled' = [handled EXCEPT ![busy[w]] = @ + 1]
    /\ UNCHANGED <<processed, jobs, serving, stopping, answered, dropped,
                   used>>

\* process returns without the engine: the body does not decode into the
\* type of its event, or the event has no handler.
Discard(w) ==
    /\ busy[w] \in Event \ Readable
    /\ busy' = [busy EXCEPT ![w] = None]
    /\ UNCHANGED <<processed, jobs, serving, stopping, answered, dropped,
                   handled, used>>

\* The handler of the engine returns.
Return(w) ==
    /\ busy[w] = InEngine
    /\ busy' = [busy EXCEPT ![w] = None]
    /\ UNCHANGED <<processed, jobs, serving, stopping, answered, dropped,
                   handled, used>>

\* A panic takes the worker with it.
NoRecover(w) == busy' = [busy EXCEPT ![w] = Gone]

Recover(w) == busy' = [busy EXCEPT ![w] = None]

Panic(w) ==
    /\ busy[w] = InEngine
    /\ Recover(w)
    /\ UNCHANGED <<processed, jobs, serving, stopping, answered, dropped,
                   handled, used>>

Leave(w) ==
    /\ stopping
    /\ busy[w] = None
    /\ busy' = [busy EXCEPT ![w] = Gone]
    /\ UNCHANGED <<processed, jobs, serving, stopping, answered, dropped,
                   handled, used>>

-----------------------------------------------------------------------------
(* The process *)

\* SIGTERM or SIGINT: requests are still served until Shutdown returns.
Stop ==
    /\ ~stopping
    /\ stopping' = TRUE
    /\ UNCHANGED <<processed, jobs, serving, busy, answered, dropped, handled,
                   used>>

\* The deliveries already seen are remembered in memory only.
ForgetProcessed == processed' = {}

KeepProcessed == UNCHANGED processed

\* The process ends, after a Stop or in a crash, and starts again: main does
\* not wait for the workers.
Restart ==
    /\ Spend({"restarts"})
    /\ jobs' = <<>>
    /\ serving' = [r \in Request |-> None]
    /\ busy' = [w \in Worker |-> None]
    /\ stopping' = FALSE
    /\ KeepProcessed
    /\ UNCHANGED <<answered, dropped, handled>>

Next ==
    \/ \E r \in Request : Enqueue(r) \/ \E e \in Event : Receive(r, e)
    \/ \E w \in Worker :
           \/ Take(w) \/ Handle(w) \/ Discard(w)
           \/ Return(w) \/ Panic(w) \/ Leave(w)
    \/ Stop
    \/ Restart

Spec == Init /\ [][Next]_vars

\* Goroutines run, and every handler returns: its calls have timeouts.
FairSpec ==
    /\ Spec
    /\ \A r \in Request : WF_vars(Enqueue(r))
    /\ \A w \in Worker :
          /\ WF_vars(Take(w))
          /\ WF_vars(Handle(w) \/ Discard(w))
          /\ WF_vars(Return(w) \/ Panic(w))

-----------------------------------------------------------------------------
(* Properties *)

\* Every variable stays in its type, the queue within its capacity.
TypeOK ==
    /\ processed \subseteq Identified
    /\ jobs \in Seq(Event) /\ Len(jobs) <= QueueSize
    /\ serving \in [Request -> Event \union {None}]
    /\ busy \in [Worker -> Event \union {None, InEngine, Gone}]
    /\ stopping \in BOOLEAN
    /\ answered \subseteq Event
    /\ dropped \subseteq Event
    /\ handled \in [Event -> Nat]
    /\ used \in [DOMAIN Bound -> Nat]

\* An event with a delivery id reaches the engine once, however often and
\* however concurrently it is posted and the process restarts; each failure
\* of the dedup lets one more through.
AtMostOnce == \A e \in Identified : handled[e] <= 1 + used.faults

InHand(e) ==
    \/ \E r \in Request : serving[r] = e
    \/ \E i \in DOMAIN jobs : jobs[i] = e
    \/ \E w \in Worker : busy[w] = e
    \/ handled[e] > 0

\* While the process lives, a readable event answered with 200 was given to
\* the engine or will be, unless it met a full queue: neither a duplicate
\* posted meanwhile nor a failed dedup makes it disappear.
AnsweredIsKept ==
    used.restarts = 0 =>
        \A e \in answered \intersect Readable : InHand(e) \/ e \in dropped

\* Every event answered with 200 is given to the engine in the end, unless
\* its body cannot be read, it met a full queue or the process stopped.  An
\* event that cannot be read is dropped after the 200 and after its delivery
\* was marked: posting it again is answered as a duplicate.
AnsweredIsHandled ==
    \A e \in Readable :
        e \in answered ~>
            \/ handled[e] > 0
            \/ e \in dropped \/ stopping \/ used.restarts > 0
=============================================================================
