---------------------------- MODULE WebhookProofs ----------------------------
(* Theorems about Webhook, proved with TLAPS for every value of its          *)
(* constants: any events, requests, workers and queue, any number of posts,  *)
(* failures and restarts.                                                    *)
EXTENDS Webhook, Integers, FiniteSetTheorems, SequenceTheorems, TLAPS

-----------------------------------------------------------------------------
(* Type correctness *)

Resource == {"posts", "faults", "restarts"}

LEMMA BoundDomain == DOMAIN Bound = Resource
BY DEF Bound, Resource

LEMMA SpendEffect ==
    ASSUME NEW rs \in SUBSET Resource, Spend(rs), TypeOK
    PROVE  /\ used' \in [Resource -> Nat]
           /\ \A r \in Resource :
                  used'[r] = IF r \in rs THEN used[r] + 1 ELSE used[r]
<1>1. used \in [Resource -> Nat]
  BY BoundDomain DEF TypeOK
<1>2. used' = [r \in Resource |-> IF r \in rs THEN used[r] + 1 ELSE used[r]]
  BY BoundDomain DEF Spend
<1> QED
  BY <1>1, <1>2

LEMMA InitType == Init => TypeOK
<1>1. SUFFICES ASSUME Init
               PROVE  TypeOK
  OBVIOUS
<1>2. jobs \in Seq(Event) /\ Len(jobs) <= QueueSize
  <2>1. jobs = <<>>
    BY <1>1 DEF Init
  <2>2. jobs \in Seq(Event) /\ Len(jobs) = 0
    BY <2>1, EmptySeq
  <2> QED
    BY <2>2, QueueAssumption
<1>3. used \in [DOMAIN Bound -> Nat]
  BY <1>1 DEF Init
<1> QED
  BY <1>1, <1>2, <1>3 DEF Init, TypeOK

LEMMA NextType == TypeOK /\ [Next]_vars => TypeOK'
<1> SUFFICES ASSUME TypeOK, [Next]_vars
             PROVE  TypeOK'
  OBVIOUS
<1> USE QueueAssumption
<1>1. ASSUME NEW r \in Request, NEW e \in Event, Receive(r, e)
      PROVE  TypeOK'
  <2>1. used' \in [Resource -> Nat]
    BY <1>1, SpendEffect DEF Receive, Resource
  <2>2. processed' \subseteq Identified
    BY <1>1 DEF Receive, MarkProcessed, TypeOK
  <2>3. /\ serving' \in [Request -> Event \union {None}]
        /\ answered' \subseteq Event
    BY <1>1 DEF Receive, AcceptUnchecked, Proceed, Respond, TypeOK
  <2> QED
    BY <1>1, <2>1, <2>2, <2>3, BoundDomain DEF Receive, TypeOK
<1>2. ASSUME NEW r \in Request, Enqueue(r)
      PROVE  TypeOK'
  <2>1. serving[r] \in Event
    BY <1>2 DEF Enqueue, TypeOK
  <2>2. /\ jobs' \in Seq(Event) /\ Len(jobs') <= QueueSize
        /\ dropped' \subseteq Event
    <3>1. CASE HasRoom
      <4>1. jobs' = Append(jobs, serving[r]) /\ dropped' = dropped
        BY <1>2, <3>1 DEF Enqueue
      <4>2. Len(jobs) \in Nat /\ Len(jobs) < QueueSize
        BY <3>1 DEF HasRoom, TypeOK
      <4> QED
        BY <4>1, <4>2, <2>1, AppendProperties DEF TypeOK
    <3>2. CASE ~HasRoom
      BY <1>2, <3>2, <2>1 DEF Enqueue, TypeOK
    <3> QED
      BY <3>1, <3>2
  <2>3. /\ serving' \in [Request -> Event \union {None}]
        /\ answered' \subseteq Event
    BY <1>2, <2>1 DEF Enqueue, Respond, TypeOK
  <2> QED
    BY <1>2, <2>2, <2>3 DEF Enqueue, TypeOK
<1>3. ASSUME NEW w \in Worker, Take(w)
      PROVE  TypeOK'
  <2>1. jobs \in Seq(Event) /\ jobs # <<>>
    BY <1>3 DEF Take, TypeOK
  <2>2. /\ Head(jobs) \in Event
        /\ Tail(jobs) \in Seq(Event) /\ Len(Tail(jobs)) = Len(jobs) - 1
    BY <2>1, HeadTailProperties
  <2>3. Len(jobs) \in Nat /\ Len(jobs) <= QueueSize
    BY <2>1 DEF TypeOK
  <2> QED
    BY <1>3, <2>2, <2>3 DEF Take, TypeOK
<1>4. ASSUME NEW w \in Worker, Discard(w) \/ Return(w) \/ Panic(w) \/ Leave(w)
      PROVE  TypeOK'
  BY <1>4 DEF Discard, Return, Panic, Recover, Leave, TypeOK
<1>8. ASSUME NEW w \in Worker, Handle(w)
      PROVE  TypeOK'
  <2>1. handled' \in [Event -> Nat]
    BY <1>8 DEF Handle, TypeOK
  <2> QED
    BY <1>8, <2>1 DEF Handle, TypeOK
<1>5. CASE Stop
  BY <1>5 DEF Stop, TypeOK
<1>6. CASE Restart
  <2>1. used' \in [Resource -> Nat]
    BY <1>6, SpendEffect DEF Restart, Resource
  <2>2. jobs' \in Seq(Event) /\ Len(jobs') <= QueueSize
    <3>1. jobs' = <<>>
      BY <1>6 DEF Restart
    <3>2. jobs' \in Seq(Event) /\ Len(jobs') = 0
      BY <3>1, EmptySeq
    <3> QED
      BY <3>2
  <2>3. used' \in [DOMAIN Bound -> Nat]
    BY <2>1, BoundDomain
  <2> QED
    BY <1>6, <2>2, <2>3 DEF Restart, KeepProcessed, TypeOK
<1>7. CASE UNCHANGED vars
  BY <1>7 DEF vars, TypeOK
<1> QED
  BY <1>1, <1>2, <1>3, <1>4, <1>5, <1>6, <1>7, <1>8 DEF Next

\* Every variable stays in its type and the queue within its capacity,
\* whatever arrives, fails or restarts.
THEOREM TypeCorrect == Spec => []TypeOK
<1>1. Init => TypeOK
  BY InitType
<1>2. TypeOK /\ [Next]_vars => TypeOK'
  BY NextType
<1> QED
  BY <1>1, <1>2, PTL DEF Spec

-----------------------------------------------------------------------------
(* At most once: the tokens of an event are the requests about to queue it,  *)
(* its places in the queue, the workers that took it and the times it was    *)
(* handled.                                                                  *)

Holding(S, s, e) == {r \in S : s[r] = e}
Serving(s, e) == Holding(Request, s, e)
Taken(b, e) == Holding(Worker, b, e)
Queued(q, e) == {i \in DOMAIN q : q[i] = e}
Tokens(e) ==
    Cardinality(Serving(serving, e)) + Cardinality(Queued(jobs, e))
      + Cardinality(Taken(busy, e)) + handled[e]

\* A failed dedup lets one token in; otherwise only the first delivery does.
OnceInv ==
    \A e \in Identified :
        Tokens(e) <= used["faults"] + (IF e \in processed THEN 1 ELSE 0)

LEMMA HoldingFinite ==
    ASSUME NEW S, IsFiniteSet(S), NEW s, NEW e
    PROVE  /\ IsFiniteSet(Holding(S, s, e))
           /\ Cardinality(Holding(S, s, e)) \in Nat
<1>1. Holding(S, s, e) \subseteq S
  BY DEF Holding
<1> QED
  BY <1>1, FS_Subset, FS_CardinalityType

LEMMA ServingFinite ==
    ASSUME NEW s, NEW e
    PROVE  Cardinality(Serving(s, e)) \in Nat
BY HoldingFinite, PoolAssumption DEF Serving

LEMMA TakenFinite ==
    ASSUME NEW b, NEW e
    PROVE  Cardinality(Taken(b, e)) \in Nat
BY HoldingFinite, PoolAssumption DEF Taken

LEMMA QueuedFinite ==
    ASSUME NEW q \in Seq(Event), NEW e
    PROVE  IsFiniteSet(Queued(q, e)) /\ Cardinality(Queued(q, e)) \in Nat
<1>1. DOMAIN q = 1 .. Len(q) /\ Len(q) \in Nat
  BY LenProperties
<1>2. IsFiniteSet(1 .. Len(q))
  BY <1>1, FS_Interval
<1>3. Queued(q, e) \subseteq 1 .. Len(q)
  BY <1>1 DEF Queued
<1> QED
  BY <1>2, <1>3, FS_Subset, FS_CardinalityType

\* A request takes an event up, or lets go of it.
LEMMA ServingChanged ==
    ASSUME NEW r \in Request, NEW f \in Event \union {None}, NEW e \in Event,
           TypeOK, serving[r] # f, serving' = [serving EXCEPT ![r] = f]
    PROVE  Cardinality(Serving(serving', e)) =
               IF e = f THEN Cardinality(Serving(serving, e)) + 1
               ELSE IF e = serving[r] THEN Cardinality(Serving(serving, e)) - 1
               ELSE Cardinality(Serving(serving, e))
<1> DEFINE before == Serving(serving, e)
           after == Serving(serving', e)
<1>0. IsFiniteSet(before)
  BY HoldingFinite, PoolAssumption DEF Serving
<1>t. serving \in [Request -> Event \union {None}]
  BY DEF TypeOK
<1>1. CASE e = f
  <2>1. after = before \union {r} /\ r \notin before
    BY <1>t, <1>1 DEF Serving, Holding
  <2> QED
    BY <1>0, <1>1, <2>1, FS_AddElement
<1>2. CASE e = serving[r]
  <2>1. after = before \ {r} /\ r \in before
    BY <1>t, <1>2 DEF Serving, Holding
  <2> QED
    BY <1>0, <1>2, <2>1, FS_RemoveElement
<1>3. CASE e # serving[r] /\ e # f
  <2>1. after = before
    BY <1>t, <1>3 DEF Serving, Holding
  <2> QED
    BY <1>3, <2>1
<1> QED
  BY <1>1, <1>2, <1>3

\* A worker takes an event, or gives it away.
LEMMA TakenChanged ==
    ASSUME NEW w \in Worker, NEW f \in Event \union {None, InEngine, Gone}, NEW e \in Event,
           TypeOK, busy[w] # f, busy' = [busy EXCEPT ![w] = f]
    PROVE  Cardinality(Taken(busy', e)) =
               IF e = f THEN Cardinality(Taken(busy, e)) + 1
               ELSE IF e = busy[w] THEN Cardinality(Taken(busy, e)) - 1
               ELSE Cardinality(Taken(busy, e))
<1> DEFINE before == Taken(busy, e)
           after == Taken(busy', e)
<1>0. IsFiniteSet(before)
  BY HoldingFinite, PoolAssumption DEF Taken
<1>t. busy \in [Worker -> Event \union {None, InEngine, Gone}]
  BY DEF TypeOK
<1>1. CASE e = f
  <2>1. after = before \union {w} /\ w \notin before
    BY <1>t, <1>1 DEF Taken, Holding
  <2> QED
    BY <1>0, <1>1, <2>1, FS_AddElement
<1>2. CASE e = busy[w]
  <2>1. after = before \ {w} /\ w \in before
    BY <1>t, <1>2 DEF Taken, Holding
  <2> QED
    BY <1>0, <1>2, <2>1, FS_RemoveElement
<1>3. CASE e # busy[w] /\ e # f
  <2>1. after = before
    BY <1>t, <1>3 DEF Taken, Holding
  <2> QED
    BY <1>3, <2>1
<1> QED
  BY <1>1, <1>2, <1>3

LEMMA QueuedAppend ==
    ASSUME NEW q \in Seq(Event), NEW f \in Event, NEW e
    PROVE  Cardinality(Queued(Append(q, f), e)) =
               IF e = f THEN Cardinality(Queued(q, e)) + 1
               ELSE Cardinality(Queued(q, e))
<1> DEFINE n == Len(q) + 1
<1>1. /\ DOMAIN q = 1 .. Len(q) /\ Len(q) \in Nat
      /\ DOMAIN Append(q, f) = 1 .. n
      /\ \A i \in 1 .. Len(q) : Append(q, f)[i] = q[i]
      /\ Append(q, f)[n] = f
  BY AppendProperties, LenProperties
<1>2. IsFiniteSet(Queued(q, e)) /\ n \notin Queued(q, e)
  <2>1. n \notin DOMAIN q
    BY <1>1
  <2> QED
    BY <2>1, QueuedFinite DEF Queued
<1>3. CASE e = f
  <2>1. Queued(Append(q, f), e) = Queued(q, e) \union {n}
    BY <1>1, <1>3 DEF Queued
  <2> QED
    BY <1>2, <1>3, <2>1, FS_AddElement
<1>4. CASE e # f
  <2>1. Queued(Append(q, f), e) = Queued(q, e)
    BY <1>1, <1>4 DEF Queued
  <2> QED
    BY <1>4, <2>1
<1> QED
  BY <1>3, <1>4

LEMMA QueuedTail ==
    ASSUME NEW q \in Seq(Event), q # <<>>, NEW e
    PROVE  Cardinality(Queued(q, e)) =
               IF e = Head(q) THEN Cardinality(Queued(Tail(q), e)) + 1
               ELSE Cardinality(Queued(Tail(q), e))
<1> DEFINE rest == Queued(Tail(q), e)
           moved == {i \in 2 .. Len(q) : q[i] = e}
<1>1. /\ DOMAIN q = 1 .. Len(q) /\ Len(q) \in Nat \ {0}
      /\ Head(q) = q[1]
      /\ Tail(q) \in Seq(Event)
      /\ DOMAIN Tail(q) = 1 .. Len(q) - 1
      /\ \A i \in 1 .. Len(q) - 1 : Tail(q)[i] = q[i + 1]
  BY HeadTailProperties, LenProperties, EmptySeq
<1>2. IsFiniteSet(rest) /\ IsFiniteSet(Queued(q, e))
  BY <1>1, QueuedFinite
<1>3. Cardinality(moved) = Cardinality(rest) /\ IsFiniteSet(moved)
  <2> DEFINE shift == [i \in rest |-> i + 1]
  <2>1. shift \in [rest -> moved]
    BY <1>1 DEF Queued
  <2>2. shift \in Injection(rest, moved)
    BY <1>1, <2>1 DEF Queued, Injection, IsInjective
  <2>3. shift \in Surjection(rest, moved)
    <3>1. ASSUME NEW j \in moved
          PROVE  \E i \in rest : shift[i] = j
      <4>1. j - 1 \in rest
        BY <1>1, <3>1 DEF Queued
      <4>2. shift[j - 1] = j
        BY <4>1, <3>1
      <4> QED
        BY <4>1, <4>2
    <3> QED
      BY <2>1, <3>1 DEF Surjection
  <2>4. shift \in Bijection(rest, moved)
    BY <2>2, <2>3 DEF Bijection
  <2> QED
    BY <1>2, <2>4, FS_Bijection DEF ExistsBijection
<1>4. 1 \notin moved
  OBVIOUS
<1>5. CASE e = Head(q)
  <2>1. Queued(q, e) = moved \union {1}
    BY <1>1, <1>5 DEF Queued
  <2> QED
    BY <1>3, <1>4, <1>5, <2>1, FS_AddElement
<1>6. CASE e # Head(q)
  <2>1. Queued(q, e) = moved
    BY <1>1, <1>6 DEF Queued
  <2> QED
    BY <1>3, <1>6, <2>1
<1> QED
  BY <1>5, <1>6

LEMMA OnceInit == Init => OnceInv
<1> SUFFICES ASSUME Init, NEW e \in Identified
             PROVE  Tokens(e) <= used["faults"]
                        + (IF e \in processed THEN 1 ELSE 0)
  BY DEF OnceInv
<1>1. e \in Event /\ e # None
  BY QueueAssumption
<1>2. Serving(serving, e) = {} /\ Taken(busy, e) = {}
  BY <1>1 DEF Init, Serving, Taken, Holding
<1>3. Queued(jobs, e) = {}
  <2>1. jobs = <<>>
    BY DEF Init
  <2>2. DOMAIN jobs = {}
    BY <2>1
  <2> QED
    BY <2>2 DEF Queued
<1>4. Tokens(e) = 0
  <2>1. handled[e] = 0
    BY <1>1 DEF Init
  <2>2. Cardinality({}) = 0
    BY FS_EmptySet
  <2> QED
    BY <1>2, <1>3, <2>1, <2>2 DEF Tokens
<1>5. used["faults"] = 0
  BY BoundDomain DEF Init, Resource
<1> QED
  BY <1>4, <1>5 DEF Init

LEMMA OnceNext == TypeOK /\ OnceInv /\ [Next]_vars => OnceInv'
<1> SUFFICES ASSUME TypeOK, OnceInv, [Next]_vars, NEW e \in Identified
             PROVE  Tokens(e)' <= used'["faults"]
                        + (IF e \in processed' THEN 1 ELSE 0)
  BY DEF OnceInv
<1> DEFINE s == Cardinality(Serving(serving, e))
           q == Cardinality(Queued(jobs, e))
           b == Cardinality(Taken(busy, e))
           h == handled[e]
           limit == used["faults"] + (IF e \in processed THEN 1 ELSE 0)
<1>e. e \in Event /\ e \notin {None, InEngine, Gone}
  BY QueueAssumption
<1>n. /\ s \in Nat /\ q \in Nat /\ b \in Nat /\ h \in Nat
      /\ used["faults"] \in Nat
  BY <1>e, ServingFinite, QueuedFinite, TakenFinite, BoundDomain
     DEF TypeOK, Resource
<1>i. s + q + b + h <= limit
  BY DEF OnceInv, Tokens
<1>t. Tokens(e)' = Cardinality(Serving(serving', e))
                     + Cardinality(Queued(jobs', e))
                     + Cardinality(Taken(busy', e)) + handled'[e]
  BY DEF Tokens, Serving, Queued, Taken, Holding
<1> HIDE DEF s, q, b, h
<1>1. ASSUME NEW r \in Request, NEW f \in Event, Receive(r, f)
      PROVE  Tokens(e)' <= used'["faults"]
                 + (IF e \in processed' THEN 1 ELSE 0)
  <2>1. /\ Cardinality(Queued(jobs', e)) = q /\ handled'[e] = h
        /\ Cardinality(Taken(busy', e)) = b
        /\ serving[r] = None
    BY <1>1 DEF Receive, q, b, h
  <2>2. ASSUME serving' = [serving EXCEPT ![r] = f]
        PROVE  Cardinality(Serving(serving', e)) = IF e = f THEN s + 1 ELSE s
    <3>1. serving \in [Request -> Event \union {None}] /\ f # None
      BY QueueAssumption DEF TypeOK
    <3>2. serving[r] # f
      BY <2>1, <3>1
    <3> QED
      BY <1>e, <2>1, <2>2, <3>1, <3>2, ServingChanged DEF s
  <2>3. CASE f \notin Identified /\ Spend({"posts"}) /\ Proceed(r, f)
             /\ UNCHANGED processed
    <3>1. used'["faults"] = used["faults"]
      BY <2>3, SpendEffect DEF Resource
    <3>2. Cardinality(Serving(serving', e)) = s
      BY <2>2, <2>3 DEF Proceed
    <3> QED
      BY <1>i, <1>t, <2>1, <2>3, <3>1, <3>2
  <2>4. CASE Spend({"posts"}) /\ MarkProcessed(f)
             /\ IF Fresh(f) THEN Proceed(r, f) ELSE Respond(r, f)
    <3>1. used'["faults"] = used["faults"]
      BY <2>4, SpendEffect DEF Resource
    <3>2. CASE Fresh(f)
      <4>1. Cardinality(Serving(serving', e)) = IF e = f THEN s + 1 ELSE s
        BY <2>2, <2>4, <3>2 DEF Proceed
      <4>2. /\ e = f => e \notin processed /\ e \in processed'
            /\ e # f => (e \in processed' <=> e \in processed)
        BY <2>4, <3>2 DEF Fresh, MarkProcessed
      <4> QED
        BY <1>i, <1>n, <1>t, <2>1, <3>1, <4>1, <4>2
    <3>3. CASE ~Fresh(f)
      <4>1. serving' = serving /\ processed' = processed
        <5>1. serving' = [serving EXCEPT ![r] = None]
          BY <2>4, <3>3 DEF Respond
        <5>2. serving' = serving
          BY <2>1, <5>1 DEF TypeOK
        <5> QED
          BY <2>4, <3>3, <5>2 DEF MarkProcessed, Fresh
      <4> QED
        BY <1>i, <1>t, <2>1, <3>1, <4>1 DEF s
    <3> QED
      BY <3>2, <3>3
  <2>5. CASE /\ Spend({"posts", "faults"})
             /\ MarkProcessed(f) \/ UNCHANGED processed
             /\ AcceptUnchecked(r, f)
    <3>1. used'["faults"] = used["faults"] + 1
      BY <2>5, SpendEffect DEF Resource
    <3>2. Cardinality(Serving(serving', e)) = IF e = f THEN s + 1 ELSE s
      BY <2>2, <2>5 DEF AcceptUnchecked, Proceed
    <3>3. e \in processed => e \in processed'
      BY <2>5 DEF MarkProcessed
    <3> QED
      BY <1>i, <1>n, <1>t, <2>1, <3>1, <3>2, <3>3
  <2> QED
    BY <1>1, <2>3, <2>4, <2>5 DEF Receive
<1>2. ASSUME NEW r \in Request, Enqueue(r)
      PROVE  Tokens(e)' <= used'["faults"]
                 + (IF e \in processed' THEN 1 ELSE 0)
  <2> DEFINE f == serving[r]
  <2>1. /\ f \in Event /\ f # None
        /\ serving' = [serving EXCEPT ![r] = None]
        /\ used' = used /\ processed' = processed /\ handled'[e] = h
        /\ Cardinality(Taken(busy', e)) = b
    BY <1>2 DEF Enqueue, Respond, TypeOK, b, h
  <2>2. Cardinality(Serving(serving', e)) = IF e = f THEN s - 1 ELSE s
    <3>1. serving \in [Request -> Event \union {None}] /\ serving[r] # None
      BY <2>1 DEF TypeOK
    <3> QED
      BY <1>e, <2>1, <3>1, ServingChanged DEF s
  <2>3. Cardinality(Queued(jobs', e)) \in {q, IF e = f THEN q + 1 ELSE q}
    <3>1. jobs \in Seq(Event)
      BY DEF TypeOK
    <3>2. jobs' = jobs \/ jobs' = Append(jobs, f)
      BY <1>2 DEF Enqueue
    <3>3. Cardinality(Queued(Append(jobs, f), e)) =
            IF e = f THEN Cardinality(Queued(jobs, e)) + 1
            ELSE Cardinality(Queued(jobs, e))
      BY <2>1, <3>1, QueuedAppend
    <3> QED
      BY <3>2, <3>3 DEF q
  <2> QED
    BY <1>i, <1>n, <1>t, <2>1, <2>2, <2>3
<1>3. ASSUME NEW w \in Worker, Take(w)
      PROVE  Tokens(e)' <= used'["faults"]
                 + (IF e \in processed' THEN 1 ELSE 0)
  <2>1. /\ jobs \in Seq(Event) /\ jobs # <<>> /\ jobs' = Tail(jobs)
        /\ busy[w] = None /\ busy' = [busy EXCEPT ![w] = Head(jobs)]
        /\ UNCHANGED <<processed, serving, handled, used>>
    BY <1>3 DEF Take, TypeOK
  <2>2. q = IF e = Head(jobs) THEN Cardinality(Queued(jobs', e)) + 1
            ELSE Cardinality(Queued(jobs', e))
    BY <2>1, QueuedTail DEF q
  <2>3. jobs' \in Seq(Event) /\ Head(jobs) \in Event
    BY <2>1, HeadTailProperties
  <2>4. Cardinality(Queued(jobs', e)) \in Nat
    BY <2>3, QueuedFinite
  <2>5. Cardinality(Taken(busy', e)) = IF e = Head(jobs) THEN b + 1 ELSE b
    <3>1. busy[w] # Head(jobs)
      BY <2>1, <2>3, QueueAssumption
    <3> QED
      BY <1>e, <2>1, <2>3, <3>1, TakenChanged DEF b
  <2>6. Cardinality(Serving(serving', e)) = s /\ handled'[e] = h
    BY <2>1 DEF s, h
  <2> QED
    BY <1>i, <1>n, <1>t, <2>1, <2>2, <2>4, <2>5, <2>6
<1>4. ASSUME NEW w \in Worker,
             \/ Handle(w) \/ Discard(w) \/ Return(w) \/ Panic(w) \/ Leave(w)
      PROVE  Tokens(e)' <= used'["faults"]
                 + (IF e \in processed' THEN 1 ELSE 0)
  <2> DEFINE f == busy'[w]
  <2>1. /\ UNCHANGED <<processed, jobs, serving, used>>
        /\ f \in {None, InEngine, Gone} /\ busy[w] # f
        /\ busy' = [busy EXCEPT ![w] = f]
    BY <1>4, QueueAssumption
       DEF Handle, Discard, Return, Panic, Recover, Leave, TypeOK
  <2>2. Cardinality(Taken(busy', e)) = IF e = busy[w] THEN b - 1 ELSE b
    BY <1>e, <2>1, TakenChanged DEF b
  <2>3. handled'[e] \in {h, IF e = busy[w] THEN h + 1 ELSE h}
    BY <1>4, <1>e
       DEF Handle, Discard, Return, Panic, Recover, Leave, TypeOK, h
  <2>4. /\ Cardinality(Serving(serving', e)) = s
        /\ Cardinality(Queued(jobs', e)) = q
    BY <2>1 DEF s, q
  <2> QED
    BY <1>i, <1>n, <1>t, <2>1, <2>2, <2>3, <2>4
<1>6. CASE Stop \/ UNCHANGED vars
  <2>1. UNCHANGED <<processed, jobs, serving, busy, handled, used>>
    BY <1>6 DEF Stop, vars
  <2> QED
    BY <1>i, <1>t, <2>1 DEF s, q, b, h
<1>5. CASE Restart
  <2>1. processed' = processed /\ handled' = handled
    BY <1>5 DEF Restart, KeepProcessed
  <2>2. Serving(serving', e) = {} /\ Taken(busy', e) = {}
    BY <1>5, <1>e DEF Restart, Serving, Taken, Holding
  <2>3. Queued(jobs', e) = {}
    <3>1. jobs' = <<>>
      BY <1>5 DEF Restart
    <3>2. DOMAIN jobs' = {}
      BY <3>1
    <3> QED
      BY <3>2 DEF Queued
  <2>4. used'["faults"] = used["faults"]
    BY <1>5, SpendEffect DEF Restart, Resource
  <2>5. Tokens(e)' = h
    <3>1. handled'[e] = h
      BY <2>1 DEF h
    <3> QED
      BY <1>n, <1>t, <2>2, <2>3, <3>1, FS_EmptySet
  <2> QED
    BY <1>i, <1>n, <2>1, <2>4, <2>5
<1> QED
  BY <1>1, <1>2, <1>3, <1>4, <1>5, <1>6 DEF Next

\* However often and however concurrently an event with a delivery id is
\* posted, and through restarts, the engine is given it once, plus once for
\* each failure of the dedup.
THEOREM HandledOnce == Spec => []AtMostOnce
<1>1. TypeOK /\ OnceInv => AtMostOnce
  <2> SUFFICES ASSUME TypeOK, OnceInv, NEW e \in Identified
               PROVE  handled[e] <= 1 + used.faults
    BY DEF AtMostOnce
  <2>1. e \in Event
    BY QueueAssumption
  <2>2. /\ Cardinality(Serving(serving, e)) \in Nat
        /\ Cardinality(Queued(jobs, e)) \in Nat
        /\ Cardinality(Taken(busy, e)) \in Nat
        /\ handled[e] \in Nat /\ used["faults"] \in Nat
    BY <2>1, ServingFinite, QueuedFinite, TakenFinite, BoundDomain
       DEF TypeOK, Resource
  <2>3. Tokens(e) <= used["faults"] + 1
    <3>1. Tokens(e) <= used["faults"] + (IF e \in processed THEN 1 ELSE 0)
      BY DEF OnceInv
    <3>2. Tokens(e) \in Nat
      BY <2>2 DEF Tokens
    <3> QED
      BY <2>2, <3>1, <3>2
  <2> QED
    BY <2>2, <2>3 DEF Tokens
<1>2. Init => OnceInv
  BY OnceInit
<1>3. TypeOK /\ OnceInv /\ [Next]_vars => OnceInv'
  BY OnceNext
<1> QED
  BY <1>1, <1>2, <1>3, TypeCorrect, PTL DEF Spec

-----------------------------------------------------------------------------
(* Accepted events are kept: those marked or answered are still somewhere. *)

Kept(e) == InHand(e) \/ e \in dropped

KeptInv ==
    used["restarts"] = 0 =>
        \A e \in (processed \union answered) \intersect Readable : Kept(e)

LEMMA KeptInit == Init => KeptInv
BY DEF Init, KeptInv

LEMMA KeptNext == TypeOK /\ KeptInv /\ [Next]_vars => KeptInv'
<1> SUFFICES ASSUME TypeOK, KeptInv, [Next]_vars, used'["restarts"] = 0,
                    NEW e \in (processed \union answered)', e \in Readable
             PROVE  Kept(e)'
  BY DEF KeptInv
<1> USE QueueAssumption
<1>1. ASSUME NEW r \in Request, NEW f \in Event, Receive(r, f)
      PROVE  Kept(e)'
  <2>1. used["restarts"] = 0
    BY <1>1, SpendEffect DEF Receive, Resource
  <2>2. jobs' = jobs /\ dropped' = dropped /\ handled' = handled
    BY <1>1 DEF Receive
  <2>9. busy' = busy
    BY <1>1 DEF Receive
  <2>3. e = f \/ e \in processed \union answered
    BY <1>1 DEF Receive, MarkProcessed, Respond, Proceed, AcceptUnchecked
  <2>4. serving[r] = None
    BY <1>1 DEF Receive
  <2>5. \A q \in Request : q # r => serving'[q] = serving[q]
    BY <1>1 DEF Receive, Respond, Proceed, AcceptUnchecked, TypeOK
  <2>6. e \in processed \union answered => Kept(e)
    BY <2>1 DEF KeptInv
  <2>7. Kept(e) => Kept(e)'
    <3>1. e \in Event
      BY <1>1, <2>3 DEF TypeOK
    <3> QED
      BY <2>2, <2>4, <2>5, <2>9, <3>1 DEF Kept, InHand
  <2>8. serving'[r] = f \/ f \in processed
    BY <1>1 DEF Receive, Fresh, Proceed, AcceptUnchecked, TypeOK
  <2> QED
    BY <2>3, <2>6, <2>7, <2>8 DEF Kept, InHand
<1>2. ASSUME NEW r \in Request, Enqueue(r)
      PROVE  Kept(e)'
  <2> DEFINE f == serving[r]
  <2>1. /\ f \in Event
        /\ used' = used /\ handled' = handled /\ processed' = processed
        /\ busy' = busy
    BY <1>2 DEF Enqueue, TypeOK
  <2>2. e = f \/ e \in processed \union answered
    BY <1>2, <2>1 DEF Enqueue, Respond
  <2>3. Kept(e)
    BY <2>1, <2>2 DEF KeptInv, Kept, InHand
  <2>4. \A q \in Request : q # r => serving'[q] = serving[q]
    BY <1>2 DEF Enqueue, Respond, TypeOK
  <2>5. CASE HasRoom
    <3>1. jobs' = Append(jobs, f) /\ dropped' = dropped
      BY <1>2, <2>5 DEF Enqueue
    <3>2. jobs \in Seq(Event)
      BY DEF TypeOK
    <3>3. /\ \A i \in DOMAIN jobs : i \in DOMAIN jobs' /\ jobs'[i] = jobs[i]
          /\ \E i \in DOMAIN jobs' : jobs'[i] = f
      <4>1. /\ DOMAIN jobs = 1 .. Len(jobs)
            /\ DOMAIN jobs' = 1 .. Len(jobs) + 1
            /\ Len(jobs) \in Nat
        BY <3>1, <3>2, <2>1, AppendProperties, LenProperties
      <4>2. /\ \A i \in 1 .. Len(jobs) : jobs'[i] = jobs[i]
            /\ jobs'[Len(jobs) + 1] = f
        BY <3>1, <3>2, <2>1, AppendProperties
      <4> QED
        BY <4>1, <4>2
    <3> QED
      BY <2>1, <2>3, <2>4, <3>1, <3>3 DEF Kept, InHand
  <2>6. CASE ~HasRoom
    BY <1>2, <2>1, <2>3, <2>4, <2>6 DEF Enqueue, Kept, InHand
  <2> QED
    BY <2>5, <2>6
<1>3. ASSUME NEW w \in Worker, Take(w)
      PROVE  Kept(e)'
  <2>1. jobs \in Seq(Event) /\ jobs # <<>>
    BY <1>3 DEF Take, TypeOK
  <2>2. /\ Head(jobs) \in Event /\ Head(jobs) = jobs[1]
        /\ Tail(jobs) \in Seq(Event) /\ Len(Tail(jobs)) = Len(jobs) - 1
        /\ \A i \in 1 .. Len(Tail(jobs)) : Tail(jobs)[i] = jobs[i + 1]
    BY <2>1, HeadTailProperties
  <2>3. Kept(e) /\ e \in Event
    BY <1>3 DEF Take, KeptInv, TypeOK
  <2>4. /\ busy'[w] = Head(jobs) /\ busy[w] = None
        /\ \A x \in Worker \ {w} : busy'[x] = busy[x]
    BY <1>3 DEF Take, TypeOK
  <2>5. (\E i \in DOMAIN jobs : jobs[i] = e) =>
            e = Head(jobs) \/ \E i \in DOMAIN jobs' : jobs'[i] = e
    <3>1. SUFFICES ASSUME NEW i \in DOMAIN jobs, jobs[i] = e, e # Head(jobs)
                   PROVE  \E j \in DOMAIN jobs' : jobs'[j] = e
      OBVIOUS
    <3>2. jobs' = Tail(jobs)
      BY <1>3 DEF Take
    <3>3. i \in 1 .. Len(jobs) /\ i # 1 /\ Len(jobs) \in Nat
      BY <2>1, <2>2, <3>1, LenProperties
    <3>4. i - 1 \in 1 .. Len(Tail(jobs))
      BY <2>2, <3>3
    <3>5. i - 1 \in DOMAIN jobs' /\ jobs'[i - 1] = jobs[i]
      BY <2>2, <3>2, <3>3, <3>4, LenProperties
    <3> QED
      BY <3>1, <3>5
  <2> QED
    BY <1>3, <2>3, <2>4, <2>5 DEF Take, Kept, InHand
<1>4. ASSUME NEW w \in Worker,
             \/ Handle(w) \/ Discard(w) \/ Return(w) \/ Panic(w) \/ Leave(w)
      PROVE  Kept(e)'
  <2>1. /\ UNCHANGED <<processed, jobs, serving, answered, dropped, used>>
        /\ \A x \in Worker \ {w} : busy'[x] = busy[x]
    BY <1>4 DEF Handle, Discard, Return, Panic, Recover, Leave, TypeOK
  <2>2. Kept(e) /\ e \in Event
    BY <2>1 DEF KeptInv, TypeOK
  <2>3. handled[e] > 0 => handled'[e] > 0
    BY <1>4, <2>2 DEF Handle, Discard, Return, Panic, Leave, TypeOK
  <2>4. busy[w] = e => handled'[e] > 0
    BY <1>4, <2>2 DEF Handle, Discard, Return, Panic, Leave, TypeOK
  <2> QED
    BY <2>1, <2>2, <2>3, <2>4 DEF Kept, InHand
<1>5. CASE Stop
  BY <1>5 DEF Stop, KeptInv, Kept, InHand
<1>6. CASE Restart
  <2>1. used'["restarts"] = used["restarts"] + 1 /\ used["restarts"] \in Nat
    BY <1>6, SpendEffect, BoundDomain DEF Restart, Resource, TypeOK
  <2> QED
    BY <2>1
<1>7. CASE UNCHANGED vars
  BY <1>7 DEF vars, KeptInv, Kept, InHand
<1> QED
  BY <1>1, <1>2, <1>3, <1>4, <1>5, <1>6, <1>7 DEF Next

\* An event answered with 200 that the engine can be given does not disappear
\* while the process lives: it is in hand or met a full queue.  It is inductive only together with the
\* same fact about the deliveries marked in the store, since a second post of
\* a marked one is answered at once.
THEOREM AcceptedIsKept == Spec => []AnsweredIsKept
<1>1. KeptInv => AnsweredIsKept
  BY DEF KeptInv, AnsweredIsKept, Kept
<1>2. Init => KeptInv
  BY KeptInit
<1>3. TypeOK /\ KeptInv /\ [Next]_vars => KeptInv'
  BY KeptNext
<1> QED
  BY <1>1, <1>2, <1>3, TypeCorrect, PTL DEF Spec
=============================================================================
