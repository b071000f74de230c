--------------------------- MODULE DebouncerProofs ---------------------------
(* Theorems about Debouncer, proved with TLAPS for every value of its        *)
(* constants.                                                                *)
EXTENDS Debouncer, SequenceTheorems, TLAPS

\* One call on conversation c, with the message new or without.
Calling(c, new) ==
    /\ Rearm(c, new)
    /\ new = <<>> \/ new = <<calls[c] + 1>>

\* The pendingConv a call leaves behind.
Rearmed(c, new) ==
    LET p == pending[c]
        n == calls[c] + 1
    IN  IF p = None
        THEN [contents |-> new, gen |-> 1, call |-> n, born |-> n]
        ELSE [contents |-> p.contents \o new, gen |-> p.gen + 1,
              call |-> n, born |-> p.born]

-----------------------------------------------------------------------------
(* Type correctness *)

\* The effect of a call in terms of Rearmed, and its type.
LEMMA RearmEffect ==
    ASSUME TypeOK, NEW c \in Conv, NEW new, Calling(c, new)
    PROVE  LET n == calls[c] + 1
               q == Rearmed(c, new)
           IN  /\ n \in Call
               /\ new \in Seq(Call)
               /\ q \in PendingConv
               /\ q.call = n
               /\ TimerOf(c, q) \in Timer
               /\ pending' = [pending EXCEPT ![c] = q]
               /\ armed' = (armed \ {tm \in armed :
                                /\ pending[c] # None
                                /\ tm.conv = c /\ tm.call = pending[c].call})
                           \union {TimerOf(c, q)}
<1> DEFINE n == calls[c] + 1
<1> DEFINE q == Rearmed(c, new)
<1>1. n \in Call /\ new \in Seq(Call)
  <2>1. n <= MaxCalls
    BY DEF Calling, Rearm
  <2>2. calls[c] \in 0 .. MaxCalls
    BY DEF TypeOK
  <2>3. n \in Call
    BY <2>1, <2>2, BoundAssumption DEF Call
  <2>4. <<>> \in Seq(Call) /\ <<n>> \in Seq(Call)
    BY <2>3
  <2>5. new = <<>> \/ new = <<n>>
    BY DEF Calling
  <2> QED
    BY <2>3, <2>4, <2>5
<1>2. pending[c] \in PendingConv \union {None}
  BY DEF TypeOK
<1>3. q \in PendingConv /\ q.call = n
  <2>1. CASE pending[c] = None
    BY <1>1, <2>1 DEF Rearmed, PendingConv
  <2>2. CASE pending[c] # None
    <3>1. pending[c].contents \o new \in Seq(Call)
      BY <1>1, <1>2, <2>2, ConcatProperties DEF PendingConv
    <3> QED
      BY <1>1, <1>2, <2>2, <3>1 DEF Rearmed, PendingConv
  <2> QED
    BY <2>1, <2>2
<1>4. TimerOf(c, q) \in Timer
  BY <1>3 DEF TimerOf, Timer, PendingConv
<1>5. q = IF pending[c] = None
          THEN [contents |-> AppendContents(<<>>, new),
                gen |-> BumpGen(0), call |-> n, born |-> n]
          ELSE [contents |-> AppendContents(pending[c].contents, new),
                gen |-> BumpGen(pending[c].gen), call |-> n,
                born |-> pending[c].born]
  BY <1>1, ConcatEmptySeq
  DEF Rearmed, AppendContents, BumpGen
<1> QED
  BY <1>1, <1>3, <1>4, <1>5 DEF Calling, Rearm

\* The initial state is well typed.
LEMMA InitType == Init => TypeOK
BY BoundAssumption DEF Init, TypeOK

\* A call, the end of a window, a flush and a restart keep the types.
LEMMA StepType ==
    ASSUME TypeOK, [Next]_vars
    PROVE  TypeOK'
<1>1. ASSUME NEW c \in Conv, NEW new, Calling(c, new) PROVE TypeOK'
  <2> DEFINE n == calls[c] + 1
  <2>1. n \in 0 .. MaxCalls /\ said[c] \o new \in Seq(Call)
    BY <1>1, RearmEffect, ConcatProperties DEF TypeOK, Call
  <2>2. pending' \in [Conv -> PendingConv \union {None}]
        /\ armed' \subseteq Timer
    BY <1>1, RearmEffect DEF TypeOK
  <2> QED
    BY <1>1, <2>1, <2>2 DEF TypeOK, Calling, Rearm
<1>2. ASSUME NEW tm \in armed, Elapse(tm) PROVE TypeOK'
  BY <1>2 DEF TypeOK, Elapse
<1>3. ASSUME NEW tm \in firing, Fire(tm) PROVE TypeOK'
  <2> DEFINE c == tm.conv
  <2>1. c \in Conv
    BY <1>3 DEF TypeOK, Timer
  <2>2. CASE Superseded(pending[c], tm)
    BY <1>3, <2>1, <2>2 DEF TypeOK, Fire
  <2>3. CASE ~Superseded(pending[c], tm)
    <3>1. pending[c] \in PendingConv
      BY <2>1, <2>3 DEF Superseded, TypeOK
    <3>2. heard[c] \o pending[c].contents \in Seq(Call)
      BY <2>1, <3>1, ConcatProperties DEF TypeOK, PendingConv
    <3>3. /\ pending' = [pending EXCEPT ![c] = None]
          /\ heard' = [heard EXCEPT ![c] = @ \o pending[c].contents]
          /\ greets' = [greets EXCEPT ![c] =
                           IF pending[c].contents = <<>> THEN @ + 1 ELSE @]
          /\ firing' \subseteq firing
          /\ UNCHANGED <<armed, calls, said, crashes>>
      BY <1>3, <2>3 DEF Fire
    <3>4. /\ pending' \in [Conv -> PendingConv \union {None}]
          /\ greets' \in [Conv -> Nat]
      BY <2>1, <3>3 DEF TypeOK
    <3>5. heard' \in [Conv -> Seq(Call)]
      BY <2>1, <3>2, <3>3 DEF TypeOK
    <3> QED
      BY <3>3, <3>4, <3>5 DEF TypeOK
  <2> QED
    BY <2>2, <2>3
<1>4. CASE Crash
  BY <1>4 DEF TypeOK, Crash
<1>5. CASE UNCHANGED vars
  BY <1>5 DEF TypeOK, vars
<1> QED
  BY <1>1, <1>2, <1>3, <1>4, <1>5
  DEF Next, Add, AddProactive, Calling, Elapse, Fire

\* Every variable stays in its type, for any number of conversations, calls
\* and restarts.
THEOREM TypeCorrect == Spec => []TypeOK
BY InitType, StepType, PTL DEF Spec

-----------------------------------------------------------------------------
(* No conversation is stranded *)

\* A buffered conversation keeps the timer of its last call.
THEOREM NeverStranded == Spec => []NotStranded
<1>1. Init => NotStranded
  BY DEF Init, NotStranded
<1>2. TypeOK /\ NotStranded /\ [Next]_vars => NotStranded'
  <2> SUFFICES ASSUME TypeOK, NotStranded, [Next]_vars PROVE NotStranded'
    OBVIOUS
  <2>1. ASSUME NEW c \in Conv, NEW new, Calling(c, new) PROVE NotStranded'
    <3> DEFINE q == Rearmed(c, new)
    <3>1. /\ pending' = [pending EXCEPT ![c] = q]
          /\ TimerOf(c, q) \in armed'
          /\ \A tm \in armed : tm.conv # c => tm \in armed'
      BY <2>1, RearmEffect
    <3>2. firing' = firing
      BY <2>1 DEF Calling, Rearm
    <3>3. ASSUME NEW d \in Conv, pending'[d] # None
          PROVE  \E tm \in armed' \union firing' :
                     /\ tm.conv = d /\ tm.call = pending'[d].call
                     /\ tm.gen = pending'[d].gen
      <4>1. CASE d = c
        <5>1. pending'[d] = q
          BY <3>1, <4>1 DEF TypeOK
        <5>2. /\ TimerOf(c, q).conv = c /\ TimerOf(c, q).call = q.call
              /\ TimerOf(c, q).gen = q.gen
          BY DEF TimerOf
        <5> QED
          BY <3>1, <4>1, <5>1, <5>2
      <4>2. CASE d # c
        <5>1. pending'[d] = pending[d]
          BY <3>1, <4>2
        <5> QED
          BY <3>1, <3>2, <3>3, <4>2, <5>1 DEF NotStranded
      <4> QED
        BY <4>1, <4>2
    <3> QED
      BY <3>3 DEF NotStranded
  <2>2. ASSUME NEW tm \in armed, Elapse(tm) PROVE NotStranded'
    BY <2>2 DEF NotStranded, Elapse
  <2>3. ASSUME NEW tm \in firing, Fire(tm) PROVE NotStranded'
    <3>1. CASE Superseded(pending[tm.conv], tm)
      <4>1. /\ pending' = pending
            /\ armed' = armed /\ firing' = firing \ {tm}
        BY <2>3, <3>1 DEF Fire
      <4>2. ASSUME NEW d \in Conv, pending[d] # None
            PROVE  \E w \in armed' \union firing' :
                       /\ w.conv = d /\ w.call = pending[d].call
                       /\ w.gen = pending[d].gen
        <5>1. PICK w \in armed \union firing :
                  /\ w.conv = d /\ w.call = pending[d].call
                  /\ w.gen = pending[d].gen
          BY <4>2 DEF NotStranded
        <5>2. w # tm
          BY <3>1, <4>2, <5>1 DEF Superseded
        <5> QED
          BY <4>1, <5>1, <5>2
      <4> QED
        BY <4>1, <4>2 DEF NotStranded
    <3>2. CASE ~Superseded(pending[tm.conv], tm)
      <4>1. /\ pending' = [pending EXCEPT ![tm.conv] = None]
            /\ armed' = armed /\ firing' = firing \ {tm}
        BY <2>3, <3>2 DEF Fire
      <4>2. \A d \in Conv : pending'[d] # None =>
                d # tm.conv /\ pending'[d] = pending[d]
        BY <4>1 DEF TypeOK
      <4> QED
        BY <4>1, <4>2 DEF NotStranded
    <3> QED
      BY <3>1, <3>2
  <2>4. CASE Crash
    BY <2>4 DEF NotStranded, Crash
  <2>5. CASE UNCHANGED vars
    BY <2>5 DEF NotStranded, vars
  <2> QED
    BY <2>1, <2>2, <2>3, <2>4, <2>5
    DEF Next, Add, AddProactive, Calling, Elapse, Fire
<1> QED
  BY <1>1, <1>2, TypeCorrect, PTL DEF Spec

-----------------------------------------------------------------------------
(* The generation tells the timers of one pendingConv apart *)

\* Timers and pendingConvs come from past calls; within a pendingConv no
\* timer is ahead of the generation.
TimersPast ==
    \A tm \in armed \union firing :
        tm.call <= calls[tm.conv] /\ tm.born <= calls[tm.conv]
PendingPast ==
    \A c \in Conv : pending[c] # None => pending[c].born <= calls[c]
GenBound ==
    \A tm \in armed \union firing :
        LET p == pending[tm.conv]
        IN  p # None /\ tm.born = p.born => tm.gen <= p.gen
GenInv == /\ TypeOK /\ TimersPast /\ PendingPast /\ GenBound
          /\ OnlyLastTimerFlushes

\* A call keeps the invariant: its timer is the only one of its generation.
LEMMA CallGen ==
    ASSUME GenInv, NEW c \in Conv, NEW new, Calling(c, new)
    PROVE  TimersPast' /\ PendingPast' /\ GenBound' /\ OnlyLastTimerFlushes'
<1> DEFINE n == calls[c] + 1
<1> DEFINE q == Rearmed(c, new)
<1> DEFINE t == TimerOf(c, q)
<1>1. /\ calls \in [Conv -> 0 .. MaxCalls] /\ calls[c] \in Nat
      /\ armed \subseteq Timer /\ firing \subseteq Timer
      /\ pending \in [Conv -> PendingConv \union {None}]
  BY DEF GenInv, TypeOK
<1>2. /\ calls' = [calls EXCEPT ![c] = n]
      /\ firing' = firing
  BY DEF Calling, Rearm
<1>3. /\ n \in Call /\ q \in PendingConv /\ q.call = n
      /\ pending' = [pending EXCEPT ![c] = q]
      /\ armed' \subseteq armed \union {t}
  BY RearmEffect DEF GenInv
<1>4. /\ t.conv = c /\ t.call = n /\ t.gen = q.gen /\ t.born = q.born
      /\ q.born <= n
  <2>1. q.born <= n
    BY <1>1, <1>3 DEF Rearmed, GenInv, PendingPast, PendingConv, Call
  <2> QED
    BY <1>3, <2>1 DEF TimerOf
<1>5. ASSUME NEW tm \in armed' \union firing'
      PROVE  /\ tm.call <= calls'[tm.conv] /\ tm.born <= calls'[tm.conv]
             /\ LET p == pending'[tm.conv]
                IN  p # None /\ tm.born = p.born =>
                      /\ tm.gen <= p.gen
                      /\ tm.gen = p.gen => tm.call = p.call
  <2>1. CASE tm = t
    BY <1>1, <1>2, <1>3, <1>4, <2>1 DEF PendingConv, Call
  <2>2. CASE tm # t
    <3>1. tm \in armed \union firing /\ tm \in Timer
      BY <1>1, <1>2, <1>3, <2>2
    <3>2. /\ tm.call <= calls[tm.conv] /\ tm.born <= calls[tm.conv]
          /\ tm.conv \in Conv /\ tm.call \in Nat /\ tm.born \in Nat
          /\ tm.gen \in Nat
      BY <3>1 DEF GenInv, TimersPast, Timer, Call
    <3>3. CASE tm.conv # c
      BY <1>1, <1>2, <1>3, <3>1, <3>2, <3>3
      DEF GenInv, GenBound, OnlyLastTimerFlushes
    <3>4. CASE tm.conv = c
      <4>1. calls'[c] = n /\ pending'[c] = q
        BY <1>1, <1>2, <1>3
      <4>2. tm.born = q.born => tm.gen < q.gen
        BY <1>1, <3>1, <3>2, <3>4
        DEF Rearmed, GenInv, GenBound, PendingConv
      <4> QED
        BY <1>1, <1>3, <3>2, <3>4, <4>1, <4>2 DEF PendingConv
    <3> QED
      BY <3>3, <3>4
  <2> QED
    BY <2>1, <2>2
<1>6. PendingPast'
  BY <1>1, <1>2, <1>3, <1>4 DEF GenInv, PendingPast
<1> QED
  BY <1>5, <1>6 DEF TimersPast, GenBound, OnlyLastTimerFlushes

\* Within one pendingConv only the timer of the last call can flush: what the
\* generation is for.
THEOREM OnlyLastTimer == Spec => []OnlyLastTimerFlushes
<1>1. Init => GenInv
  BY InitType
  DEF Init, GenInv, TimersPast, PendingPast, GenBound, OnlyLastTimerFlushes
<1>2. GenInv /\ [Next]_vars => GenInv'
  <2> SUFFICES ASSUME GenInv, [Next]_vars PROVE GenInv'
    OBVIOUS
  <2>1. TypeOK'
    BY StepType DEF GenInv
  <2>2. ASSUME /\ UNCHANGED calls
               /\ armed' \union firing' \subseteq armed \union firing
               /\ \A d \in Conv : pending'[d] = None \/ pending'[d] = pending[d]
        PROVE  TimersPast' /\ PendingPast' /\ GenBound' /\ OnlyLastTimerFlushes'
    <3>1. \A tm \in armed' \union firing' :
              tm \in armed \union firing /\ tm.conv \in Conv
      BY <2>2 DEF GenInv, TypeOK, Timer
    <3> QED
      BY <2>2, <3>1
      DEF GenInv, TimersPast, PendingPast, GenBound, OnlyLastTimerFlushes
  <2>3. ASSUME NEW tm \in armed, Elapse(tm) PROVE GenInv'
    BY <2>1, <2>2, <2>3 DEF Elapse, GenInv
  <2>4. ASSUME NEW tm \in firing, Fire(tm) PROVE GenInv'
    <3>1. UNCHANGED calls /\ armed' \union firing' \subseteq armed \union firing
      BY <2>4 DEF Fire
    <3>2. \A d \in Conv : pending'[d] = None \/ pending'[d] = pending[d]
      BY <2>4 DEF Fire, GenInv, TypeOK
    <3> QED
      BY <2>1, <2>2, <3>1, <3>2 DEF GenInv
  <2>5. CASE Crash
    BY <2>1, <2>2, <2>5 DEF Crash, GenInv
  <2>6. CASE UNCHANGED vars
    BY <2>1, <2>2, <2>6 DEF vars, GenInv
  <2>7. ASSUME NEW c \in Conv, NEW new, Calling(c, new) PROVE GenInv'
    BY <2>1, <2>7, CallGen DEF GenInv
  <2> QED
    BY <2>3, <2>4, <2>5, <2>6, <2>7
    DEF Next, Add, AddProactive, Calling, Elapse, Fire
<1>3. GenInv => OnlyLastTimerFlushes
  BY DEF GenInv
<1> QED
  BY <1>1, <1>2, <1>3, PTL DEF Spec

\* The two together: no interleaving of calls and timers takes the flush of a
\* buffered conversation from its last call's timer.
THEOREM LastCallFlushes == Spec => []FlushedByLastCall
<1>1. NotStranded /\ OnlyLastTimerFlushes => FlushedByLastCall
  BY DEF FlushedByLastCall
<1> QED
  BY <1>1, NeverStranded, OnlyLastTimer, PTL

-----------------------------------------------------------------------------
(* No message is lost, repeated or reordered *)

\* A call appends its message to what waits.
LEMMA CallWaiting ==
    ASSUME TypeOK, NEW c \in Conv, NEW new, Calling(c, new)
    PROVE  /\ new \in Seq(Call) /\ Waiting(c) \in Seq(Call)
           /\ Waiting(c)' = Waiting(c) \o new
           /\ pending'[c] # None
           /\ \A d \in Conv \ {c} : pending'[d] = pending[d]
<1> DEFINE q == Rearmed(c, new)
<1>1. /\ new \in Seq(Call) /\ q \in PendingConv
      /\ pending' = [pending EXCEPT ![c] = q]
  BY RearmEffect
<1>2. pending \in [Conv -> PendingConv \union {None}]
  BY DEF TypeOK
<1>3. pending'[c] = q /\ q # None
  BY <1>1, <1>2, NoneAssumption
<1>4. Waiting(c)' = q.contents
  BY <1>3 DEF Waiting
<1>5. Waiting(c) \in Seq(Call) /\ q.contents = Waiting(c) \o new
  <2>1. CASE pending[c] = None
    BY <1>1, <2>1, ConcatEmptySeq DEF Waiting, Rearmed
  <2>2. CASE pending[c] # None
    BY <1>2, <2>2 DEF Waiting, Rearmed, PendingConv
  <2> QED
    BY <2>1, <2>2
<1> QED
  BY <1>1, <1>2, <1>3, <1>4, <1>5

\* A flush takes all that waits and closes the window.
LEMMA FlushEffect ==
    ASSUME TypeOK, NEW tm \in firing, Fire(tm),
           ~Superseded(pending[tm.conv], tm)
    PROVE  LET c == tm.conv
           IN  /\ c \in Conv /\ pending[c] # None /\ pending'[c] = None
               /\ Waiting(c) \in Seq(Call)
               /\ heard' = [heard EXCEPT ![c] = @ \o Waiting(c)]
               /\ greets' = [greets EXCEPT ![c] =
                                IF Waiting(c) = <<>> THEN @ + 1 ELSE @]
               /\ \A d \in Conv \ {c} : pending'[d] = pending[d]
               /\ UNCHANGED <<said, crashes>>
<1> DEFINE c == tm.conv
<1>1. /\ c \in Conv
      /\ pending \in [Conv -> PendingConv \union {None}]
  BY DEF TypeOK, Timer
<1>2. pending[c] # None
  BY DEF Superseded
<1>3. Waiting(c) = pending[c].contents /\ Waiting(c) \in Seq(Call)
  BY <1>1, <1>2 DEF Waiting, PendingConv
<1>4. /\ pending' = [pending EXCEPT ![c] = None]
      /\ heard' = [heard EXCEPT ![c] = @ \o pending[c].contents]
      /\ greets' = [greets EXCEPT ![c] =
                       IF pending[c].contents = <<>> THEN @ + 1 ELSE @]
      /\ UNCHANGED <<said, crashes>>
  BY DEF Fire
<1> QED
  BY <1>1, <1>2, <1>3, <1>4

\* Concatenation of messages is associative.
LEMMA ConcatTwice ==
    \A x, y, z \in Seq(Call) : x \o (y \o z) = (x \o y) \o z
<1> SUFFICES ASSUME NEW x \in Seq(Call), NEW y \in Seq(Call),
                    NEW z \in Seq(Call)
             PROVE  x \o (y \o z) = (x \o y) \o z
  OBVIOUS
<1>1. (x \o y) \o z = x \o (y \o z)
  BY ConcatAssociative
<1> QED
  BY <1>1

\* Until a restart, heard and waiting messages are exactly those received.
THEOREM Conserved == Spec => []NothingLost
<1>1. Init => NothingLost
  <2>1. <<>> \in Seq(Call) /\ <<>> \o <<>> = <<>>
    BY ConcatEmptySeq
  <2> QED
    BY <2>1 DEF Init, NothingLost, Waiting
<1>2. TypeOK /\ NothingLost /\ [Next]_vars => NothingLost'
  <2> SUFFICES ASSUME TypeOK, NothingLost, [Next]_vars, crashes' = 0
               PROVE  \A c \in Conv : (heard[c] \o Waiting(c) = said[c])'
    BY DEF NothingLost
  <2>1. ASSUME NEW c \in Conv, NEW new, Calling(c, new), NEW d \in Conv
        PROVE  (heard[d] \o Waiting(d) = said[d])'
    <3>1. /\ heard' = heard /\ crashes = 0
          /\ said' = [said EXCEPT ![c] = @ \o new]
      BY <2>1 DEF Calling, Rearm
    <3>2. heard[d] \o Waiting(d) = said[d] /\ heard[d] \in Seq(Call)
      BY <3>1 DEF NothingLost, TypeOK
    <3>3. CASE d = c
      <4>1. said'[d] = said[d] \o new
        BY <3>1, <3>3 DEF TypeOK
      <4>2. Waiting(d)' = Waiting(d) \o new
        BY <2>1, <3>3, CallWaiting
      <4>3. new \in Seq(Call) /\ Waiting(d) \in Seq(Call)
        BY <2>1, <3>3, CallWaiting
      <4>4. heard[d] \o (Waiting(d) \o new) = (heard[d] \o Waiting(d)) \o new
        BY <3>2, <4>3, ConcatTwice, Zenon
      <4> QED
        BY <3>1, <3>2, <4>1, <4>2, <4>4
    <3>4. CASE d # c
      <4>1. pending'[d] = pending[d]
        BY <2>1, <3>4, CallWaiting
      <4>2. Waiting(d)' = Waiting(d)
        BY <4>1 DEF Waiting
      <4>3. said'[d] = said[d]
        BY <3>1, <3>4 DEF TypeOK
      <4> QED
        BY <3>1, <3>2, <4>2, <4>3
    <3> QED
      BY <3>3, <3>4
  <2>2. ASSUME UNCHANGED <<pending, heard, said, crashes>>
        PROVE  \A c \in Conv : (heard[c] \o Waiting(c) = said[c])'
    BY <2>2 DEF NothingLost, Waiting
  <2>3. ASSUME NEW tm \in firing, Fire(tm), NEW d \in Conv
        PROVE  (heard[d] \o Waiting(d) = said[d])'
    <3>1. CASE Superseded(pending[tm.conv], tm)
      BY <2>2, <2>3, <3>1 DEF Fire
    <3>2. CASE ~Superseded(pending[tm.conv], tm)
      <4>1. /\ pending'[tm.conv] = None /\ tm.conv \in Conv
            /\ heard' = [heard EXCEPT ![tm.conv] = @ \o Waiting(tm.conv)]
            /\ \A e \in Conv \ {tm.conv} : pending'[e] = pending[e]
            /\ said' = said /\ crashes = 0
        BY <2>3, <3>2, FlushEffect
      <4>2. heard[d] \o Waiting(d) = said[d] /\ said[d] \in Seq(Call)
        BY <4>1 DEF NothingLost, TypeOK
      <4>3. CASE d = tm.conv
        <5>1. heard'[d] = said[d] /\ Waiting(d)' = <<>>
          BY <4>1, <4>2, <4>3 DEF TypeOK, Waiting
        <5> QED
          BY <4>1, <4>2, <5>1, ConcatEmptySeq
      <4>4. CASE d # tm.conv
        BY <4>1, <4>2, <4>4 DEF Waiting, TypeOK
      <4> QED
        BY <4>3, <4>4
    <3> QED
      BY <3>1, <3>2
  <2>4. ~Crash
    BY DEF Crash, TypeOK
  <2> QED
    BY <2>1, <2>2, <2>3, <2>4
    DEF Next, Add, AddProactive, Calling, Elapse, Fire, vars
<1> QED
  BY <1>1, <1>2, TypeCorrect, PTL DEF Spec

-----------------------------------------------------------------------------
(* The debouncer implements Batching *)

\* Every behaviour of the debouncer is one of Batching, timers and
\* generations hidden.
THEOREM Refinement == Spec => Implements
<1> DEFINE Window == [c \in Conv |-> pending[c] # None]
<1> DEFINE Queue == [c \in Conv |-> Waiting(c)]
<1>1. Init => Batches!Init
  BY DEF Init, Batches!Init, Waiting
<1>2. TypeOK /\ [Next]_vars => [Batches!Next]_(Batches!vars)
  <2> SUFFICES ASSUME TypeOK, [Next]_vars
               PROVE  [Batches!Next]_(Batches!vars)
    OBVIOUS
  <2>1. ASSUME NEW c \in Conv, NEW new, Calling(c, new)
        PROVE  Batches!Next
    <3>1. /\ Window' = [Window EXCEPT ![c] = TRUE]
          /\ Queue' = [Queue EXCEPT ![c] = @ \o new]
      BY <2>1, CallWaiting DEF Waiting
    <3>2. UNCHANGED <<heard, greets>>
      BY <2>1 DEF Calling, Rearm
    <3>3. Waiting(c) \in Seq(Call) /\ calls[c] + 1 \in Call
      BY <2>1, CallWaiting, RearmEffect
    <3>4. CASE new = <<>>
      <4>1. Queue' = Queue
        BY <3>1, <3>3, <3>4, ConcatEmptySeq
      <4>2. Batches!Greet(c)
        BY <3>1, <3>2, <4>1 DEF Batches!Greet
      <4> QED
        BY <4>2 DEF Batches!Next
    <3>5. ASSUME NEW m \in Call, new = <<m>> PROVE Batches!Next
      <4>1. Queue[c] = Waiting(c) /\ Waiting(c) \o new = Append(Waiting(c), m)
        BY <3>3, <3>5, AppendIsConcat
      <4>2. Queue' = [Queue EXCEPT ![c] = Append(@, m)]
        BY <3>1, <4>1
      <4>3. Batches!Accept(c, m)
        BY <3>1, <3>2, <4>2 DEF Batches!Accept
      <4> QED
        BY <4>3 DEF Batches!Next
    <3> QED
      BY <2>1, <3>3, <3>4, <3>5 DEF Calling
  <2>2. ASSUME UNCHANGED <<pending, heard, greets>>
        PROVE  UNCHANGED Batches!vars
    BY <2>2 DEF Batches!vars, Waiting
  <2>3. ASSUME NEW tm \in firing, Fire(tm)
        PROVE  [Batches!Next]_(Batches!vars)
    <3>1. CASE Superseded(pending[tm.conv], tm)
      BY <2>2, <2>3, <3>1 DEF Fire
    <3>2. CASE ~Superseded(pending[tm.conv], tm)
      <4> DEFINE c == tm.conv
      <4>1. /\ Window[c]
            /\ Window' = [Window EXCEPT ![c] = FALSE]
            /\ Queue' = [Queue EXCEPT ![c] = <<>>]
        BY <2>3, <3>2, FlushEffect DEF Waiting
      <4>2. /\ heard' = [heard EXCEPT ![c] = @ \o Queue[c]]
            /\ greets' = [greets EXCEPT ![c] =
                             IF Queue[c] = <<>> THEN @ + 1 ELSE @]
        BY <2>3, <3>2, FlushEffect
      <4>3. Batches!Deliver(c) /\ c \in Conv
        BY <2>3, <3>2, <4>1, <4>2, FlushEffect DEF Batches!Deliver
      <4> QED
        BY <4>3 DEF Batches!Next
    <3> QED
      BY <3>1, <3>2
  <2>4. CASE Crash
    <3>1. Batches!Lose
      BY <2>4 DEF Crash, Batches!Lose, Waiting
    <3> QED
      BY <3>1 DEF Batches!Next
  <2> QED
    BY <2>1, <2>2, <2>3, <2>4
    DEF Next, Add, AddProactive, Calling, Elapse, Fire, vars
<1> QED
  BY <1>1, <1>2, TypeCorrect, PTL DEF Spec, Implements, Batches!Spec
=============================================================================
