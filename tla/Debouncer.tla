------------------------------ MODULE Debouncer ------------------------------
(***************************************************************************)
(* The debouncer of internal/engine/debounce.go.  Each add restarts the    *)
(* silence window of its conversation: it stops the timer of the           *)
(* pendingConv and starts another.  time.AfterFunc runs fire in a          *)
(* goroutine of its own, so a timer that has elapsed can no longer be      *)
(* stopped and its fire may run much later; the generation tells a         *)
(* superseded timer.  Every operation runs under the debouncer's mutex and *)
(* is one step here.                                                       *)
(*                                                                         *)
(* The calls to add and addProactive of a conversation are numbered.  The  *)
(* number names the message, the snapshot of the conversation and the      *)
(* timer of that call.                                                     *)
(***************************************************************************)
EXTENDS Naturals, Sequences

CONSTANTS
    Conv,      \* conversation ids
    None,      \* no pendingConv
    MaxCalls,  \* bound: calls per conversation
    MaxCrashes \* bound: restarts of the process

ASSUME BoundAssumption == MaxCalls \in Nat /\ MaxCrashes \in Nat

Call == 1 .. MaxCalls

VARIABLES
    pending,  \* debouncer.pending
    armed,    \* timers that run
    firing,   \* timers that elapsed, their fire not yet under the mutex
    calls,    \* calls so far
    said,     \* history: the messages added
    heard,    \* history: the messages handed to flush
    greets,   \* history: flushes with proactive = true
    crashes   \* restarts so far

vars == <<pending, armed, firing, calls, said, heard, greets, crashes>>

\* contents, gen: as in the code.  call stands for conv and timer, which
\* every call replaces together.  born is the call that made the pendingConv.
PendingConv == [contents : Seq(Call), gen : Nat, call : Call, born : Call]
Timer == [conv : Conv, gen : Nat, call : Call, born : Call]

ASSUME NoneAssumption == None \notin PendingConv

Init ==
    /\ pending = [c \in Conv |-> None]
    /\ armed = {} /\ firing = {}
    /\ calls = [c \in Conv |-> 0]
    /\ said = [c \in Conv |-> <<>>]
    /\ heard = [c \in Conv |-> <<>>]
    /\ greets = [c \in Conv |-> 0]
    /\ crashes = 0

-----------------------------------------------------------------------------
\* The callback captures the generation before it is incremented.
TimerOfOldGen(c, p) ==
    [conv |-> c, gen |-> p.gen - 1, call |-> p.call, born |-> p.born]

\* The timer a call starts: its callback captures the generation.
TimerOf(c, p) ==
    [conv |-> c, gen |-> p.gen, call |-> p.call, born |-> p.born]

\* Only the first call of a pendingConv counts.
SameGen(gen) == IF gen = 0 THEN 1 ELSE gen

BumpGen(gen) == gen + 1

\* The buffered messages are replaced by the new one.
OnlyLast(contents, new) == new

AppendContents(contents, new) == contents \o new

\* new is the message of the call, or nothing.
Rearm(c, new) ==
    LET n == calls[c] + 1
        p == pending[c]
        q == IF p = None
             THEN [contents |-> AppendContents(<<>>, new),
                   gen |-> BumpGen(0), call |-> n, born |-> n]
             ELSE [contents |-> AppendContents(p.contents, new),
                   gen |-> BumpGen(p.gen), call |-> n, born |-> p.born]
        stopped == {tm \in armed : /\ p # None
                                   /\ tm.conv = c /\ tm.call = p.call}
    IN  /\ n <= MaxCalls
        /\ calls' = [calls EXCEPT ![c] = n]
        /\ pending' = [pending EXCEPT ![c] = q]
        /\ armed' = (armed \ stopped) \union {TimerOf(c, q)}
        /\ said' = [said EXCEPT ![c] = @ \o new]
        /\ UNCHANGED <<firing, heard, greets, crashes>>

Add(c) == Rearm(c, <<calls[c] + 1>>)

\* The greeting trigger is buffered as an empty message.
AddEmpty(c) == Rearm(c, <<0>>)

AddProactive(c) == Rearm(c, <<>>)

\* The window of a timer ends; its goroutine is started.
Elapse(tm) ==
    /\ tm \in armed
    /\ armed' = armed \ {tm}
    /\ firing' = firing \union {tm}
    /\ UNCHANGED <<pending, calls, said, heard, greets, crashes>>

Superseded(p, tm) == p = None \/ p.gen # tm.gen

Fire(tm) ==
    LET c == tm.conv
        p == pending[c]
    IN  /\ tm \in firing
        /\ firing' = firing \ {tm}
        /\ IF Superseded(p, tm)
           THEN UNCHANGED <<pending, heard, greets>>
           ELSE /\ pending' = [pending EXCEPT ![c] = None]
                /\ heard' = [heard EXCEPT ![c] = @ \o p.contents]
                /\ greets' = [greets EXCEPT ![c] =
                                 IF p.contents = <<>> THEN @ + 1 ELSE @]
        /\ UNCHANGED <<armed, calls, said, crashes>>

\* The buffer and the timers are in memory.
Crash ==
    /\ crashes < MaxCrashes
    /\ crashes' = crashes + 1
    /\ pending' = [c \in Conv |-> None]
    /\ armed' = {} /\ firing' = {}
    /\ UNCHANGED <<calls, said, heard, greets>>

Next ==
    \/ \E c \in Conv : Add(c) \/ AddProactive(c)
    \/ \E tm \in armed \union firing : Elapse(tm) \/ Fire(tm)
    \/ Crash

Spec == Init /\ [][Next]_vars

-----------------------------------------------------------------------------
(* Fairness: every timer elapses and the goroutine it starts is scheduled. *)

ElapseOf(c, n) == \E tm \in armed : tm.conv = c /\ tm.call = n /\ Elapse(tm)
FireOf(c, n) == \E tm \in firing : tm.conv = c /\ tm.call = n /\ Fire(tm)

FairSpec ==
    Spec /\ \A c \in Conv, n \in Call :
                WF_vars(ElapseOf(c, n)) /\ WF_vars(FireOf(c, n))

-----------------------------------------------------------------------------
(* Properties *)

\* Every variable stays in its type; a timer belongs to a past call.
TypeOK ==
    /\ pending \in [Conv -> PendingConv \union {None}]
    /\ armed \subseteq Timer
    /\ firing \subseteq Timer
    /\ calls \in [Conv -> 0 .. MaxCalls]
    /\ said \in [Conv -> Seq(Call)]
    /\ heard \in [Conv -> Seq(Call)]
    /\ greets \in [Conv -> Nat]
    /\ crashes \in Nat

\* The timer of the last call runs or waits for the mutex, and its generation
\* lets it flush.
NotStranded ==
    \A c \in Conv : pending[c] # None =>
        \E tm \in armed \union firing :
            /\ tm.conv = c /\ tm.call = pending[c].call
            /\ tm.gen = pending[c].gen

\* Of the timers that one pendingConv started no other can.
OnlyLastTimerFlushes ==
    \A tm \in armed \union firing :
        LET p == pending[tm.conv]
        IN  (p # None /\ tm.born = p.born /\ tm.gen = p.gen)
            => tm.call = p.call

\* However its timers were stopped, elapsed and replaced, a buffered
\* conversation is never stranded, and within one pendingConv the generation
\* leaves its flush to the timer of the last call.
FlushedByLastCall == NotStranded /\ OnlyLastTimerFlushes

\* Until a restart, the messages handed to triage followed by those buffered
\* are the messages received: none lost, repeated or reordered.
Waiting(c) == IF pending[c] = None THEN <<>> ELSE pending[c].contents
NothingLost ==
    crashes = 0 => \A c \in Conv : heard[c] \o Waiting(c) = said[c]

\* The debouncer implements Batching: every step is one of its steps.
Batches == INSTANCE Batching WITH
    Msg <- Call,
    window <- [c \in Conv |-> pending[c] # None],
    waiting <- [c \in Conv |-> Waiting(c)]
Implements == Batches!Spec

\* And it keeps its promise that every open window is delivered (or lost in a
\* restart), if timers elapse and their goroutines are scheduled.
ImplementsFairly == Batches!FairSpec

\* debounce.go:34 "geração: invalida disparos de timer superados por mensagens
\* novas": a window is closed by the timer of its last call.
FlushedByItsTimer ==
    [][\A c \in Conv :
        pending[c] # None /\ pending'[c] = None /\ crashes' = crashes =>
            \E tm \in firing \ firing' :
                tm.conv = c /\ tm.call = pending[c].call]_vars
=============================================================================
