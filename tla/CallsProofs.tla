----------------------------- MODULE CallsProofs -----------------------------
(* Theorems about Calls, proved with TLAPS for every number of calls,        *)
(* attempts and failures and for every text, list and reply.                 *)
EXTENDS Calls, TextsProofs

Request == {"unsent", "flying", "done", "gone"}
Answer == {"none", "2xx", "4xx"} \union Transient

-----------------------------------------------------------------------------
(* The effect of the parts of an attempt *)

LEMMA FateEffect ==
    ASSUME TypeOK, call \in Id, NEW f \in Request, Fate(f)
    PROVE  /\ request' \in [Id -> [Attempt -> Request]]
           /\ request'[call][attempt] = f
           /\ \A i \in Id, a \in Attempt :
                  i # call \/ a # attempt => request'[i][a] = request[i][a]
<1>1. request \in [Id -> [Attempt -> Request]] /\ attempt \in Attempt
  BY DEF TypeOK, Request
<1>2. request' = [request EXCEPT ![call] =
                      [request[call] EXCEPT ![attempt] = f]]
  BY DEF Fate
<1>3. [request[call] EXCEPT ![attempt] = f] \in [Attempt -> Request]
  BY <1>1
<1> QED
  BY <1>1, <1>2, <1>3

LEMMA SeeEffect ==
    ASSUME TypeOK, call \in Id, NEW s \in Answer, See(s)
    PROVE  /\ answer' \in [Id -> [Attempt -> Answer]]
           /\ answer'[call][attempt] = s
           /\ \A i \in Id, a \in Attempt :
                  i # call \/ a # attempt => answer'[i][a] = answer[i][a]
<1>1. answer \in [Id -> [Attempt -> Answer]] /\ attempt \in Attempt
  BY DEF TypeOK, Answer
<1>2. answer' = [answer EXCEPT ![call] =
                      [answer[call] EXCEPT ![attempt] = s]]
  BY DEF See
<1>3. [answer[call] EXCEPT ![attempt] = s] \in [Attempt -> Answer]
  BY <1>1
<1> QED
  BY <1>1, <1>2, <1>3

Ended(res) ==
    /\ outcome' = [outcome EXCEPT ![call] = res]
    /\ step' = "idle"
    /\ UNCHANGED <<style, kind, call, attempt>>

Waiting ==
    /\ kind[call] \in Posts
    /\ attempt + 1 \in Attempt
    /\ step' = "wait"
    /\ attempt' = attempt + 1
    /\ UNCHANGED progress

LEMMA GiveUpEffect == GiveUp => Ended("error") /\ UNCHANGED <<spent, usage>>
BY DEF GiveUp, Return, Ended

LEMMA AgainEffect ==
    ASSUME TypeOK, Again
    PROVE  Waiting \/ (Ended("error") /\ UNCHANGED <<spent, usage>>)
<1>1. CASE AttemptsLeft
  <2>1. attempt \in 0 .. MaxRetry /\ attempt < Retries(kind[call])
    BY <1>1 DEF AttemptsLeft, TypeOK, Attempt
  <2>2. kind[call] \in Posts /\ attempt < MaxRetry
    BY <2>1 DEF Retries
  <2>3. attempt + 1 \in Attempt
    BY <2>1, <2>2, RetryAssumption DEF Attempt
  <2> QED
    BY <1>1, <2>2, <2>3 DEF Again, Waiting
<1>2. CASE ~AttemptsLeft
  BY <1>2, GiveUpEffect DEF Again
<1> QED
  BY <1>1, <1>2

-----------------------------------------------------------------------------
(* Type correctness *)

\* What TypeOK says of the variables that Waiting and Ended change.
ProgressOK ==
    /\ style \in {"off", "openai", "openrouter"}
    /\ kind \in [Id -> Kind \union {None}]
    /\ outcome \in [Id -> {"none", "pending", "ok", "error"}]
    /\ call \in 0 .. MaxCalls
    /\ step \in {"idle", "send", "await", "decode", "wait"}
    /\ step # "idle" => call \in Id /\ outcome[call] = "pending"
    /\ attempt \in Attempt

RequestsOK ==
    /\ request \in [Id -> [Attempt -> Request]]
    /\ answer \in [Id -> [Attempt -> Answer]]

Data == {None} \union Rated \union Relabelled \union Replies

RestOK ==
    /\ live \in BOOLEAN
    /\ data \in Data
    /\ spent \in [calls : Nat, total : Nat]
    /\ usage \in [Id -> {0, 1}]
    /\ faults \in Nat

LEMMA TypeParts == TypeOK <=> ProgressOK /\ RequestsOK /\ RestOK
BY DEF TypeOK, ProgressOK, RequestsOK, RestOK, Request, Answer, Data

LEMMA WaitingType ==
    ASSUME TypeOK, Waiting, step # "idle"
    PROVE  ProgressOK' /\ UNCHANGED <<spent, usage>>
BY DEF TypeOK, ProgressOK, Waiting, progress

LEMMA EndedType ==
    ASSUME TypeOK, NEW res \in {"ok", "error"}, Ended(res)
    PROVE  ProgressOK'
BY DEF TypeOK, ProgressOK, Ended

LEMMA InitType == Init => TypeOK
<1> SUFFICES ASSUME Init PROVE TypeOK
  OBVIOUS
<1>1. data = None
  BY DEF Init
<1> QED
  BY <1>1, RetryAssumption DEF Init, TypeOK, Attempt, Id

LEMMA BeginType ==
    ASSUME TypeOK, NEW k \in Kind, NEW given \in Data, Begin(k, given)
    PROVE  TypeOK'
<1>1. call \in 0 .. MaxCalls /\ call < MaxCalls /\ call' = call + 1
  BY DEF Begin, TypeOK
<1>2. call' \in Id /\ call' \in 0 .. MaxCalls
  BY <1>1, RetryAssumption DEF Id
<1>3. /\ kind' = [kind EXCEPT ![call'] = k]
      /\ outcome' = [outcome EXCEPT ![call'] = "pending"]
      /\ step' = "send" /\ attempt' = 0 /\ live' \in {live, TRUE}
      /\ data' = given
      /\ UNCHANGED <<style, request, answer, spent, usage, faults>>
  BY DEF Begin
<1>4. 0 \in Attempt
  BY RetryAssumption DEF Attempt
<1>5. ProgressOK'
  BY <1>2, <1>3, <1>4 DEF TypeOK, ProgressOK
<1>6. RequestsOK' /\ RestOK'
  BY <1>3 DEF TypeOK, RequestsOK, RestOK, Request, Answer
<1> QED
  BY <1>5, <1>6, TypeParts DEF TypeOK, ProgressOK, RequestsOK, RestOK,
                               Request, Answer, Data

LEMMA StartKind ==
    ASSUME Start
    PROVE  \E k \in Kind : \E given \in Data : Begin(k, given)
BY DEF Start, SetRating, SetLabels, Send, DownloadAttachment, Classify,
       OpenAITranscribe, OpenRouterTranscribe, Data, Kind, Posts, Transcriptions

\* What a step of the client does to the last call: the attempt goes on, the
\* next one is prepared, or the call returns.
Going ==
    /\ step' \in {"await", "decode", "send"}
    /\ UNCHANGED <<progress, attempt>>

LEMMA ClientProgress ==
    ASSUME TypeOK, Client
    PROVE  /\ step # "idle"
           /\ \/ Going
              \/ Waiting
              \/ Ended("error") /\ UNCHANGED <<spent, usage>>
              \/ Ended("ok") /\ Answered
              \/ Downloaded /\ \E res \in {"ok", "error"} : Ended(res)
              \/ Decode /\ \E res \in {"ok", "error"} : Ended(res)
<1>1. CASE Issue
  BY <1>1, AgainEffect DEF Issue, Going
<1>2. CASE LoseAnswer
  BY <1>2, AgainEffect DEF LoseAnswer
<1>3. CASE ServerError
  BY <1>3, AgainEffect, GiveUpEffect DEF ServerError
<1>4. CASE Refused
  BY <1>4, GiveUpEffect DEF Refused
<1>5. CASE Answered
  BY <1>5 DEF Answered, Return, Ended
<1>6. CASE Downloaded
  BY <1>6 DEF Downloaded, Return, Ended
<1>7. CASE Reply
  BY <1>7 DEF Reply, Going
<1>8. CASE Decode
  BY <1>8 DEF Decode, Return, Ended
<1>9. CASE Pause
  BY <1>9, GiveUpEffect DEF Pause, Going
<1> QED
  BY <1>1, <1>2, <1>3, <1>4, <1>5, <1>6, <1>7, <1>8, <1>9 DEF Client

\* What it does to the request and the answer of the current attempt.
LEMMA ClientRequests ==
    ASSUME TypeOK, Client
    PROVE  /\ RequestsOK'
           /\ \A i \in Id, a \in Attempt : i # call \/ a # attempt =>
                  /\ request'[i][a] = request[i][a]
                  /\ answer'[i][a] = answer[i][a]
<1>0. step # "idle" /\ call \in Id /\ attempt \in Attempt
  BY ClientProgress DEF TypeOK
<1>1. \/ UNCHANGED request
      \/ \E f \in Request : Fate(f)
  BY DEF Client, Issue, LoseAnswer, ServerError, Refused, Answered,
         Downloaded, Reply, Decode, Pause, Request
<1>2. \/ UNCHANGED answer
      \/ \E s \in Answer : See(s)
  BY DEF Client, Issue, LoseAnswer, ServerError, Refused, Answered,
         Downloaded, Reply, Decode, Pause, Answer, Transient
<1>3. /\ request' \in [Id -> [Attempt -> Request]]
      /\ \A i \in Id, a \in Attempt : i # call \/ a # attempt =>
             request'[i][a] = request[i][a]
  <2>1. CASE UNCHANGED request
    BY <2>1 DEF TypeOK, Request
  <2>2. CASE \E f \in Request : Fate(f)
    BY <1>0, <2>2, FateEffect
  <2> QED
    BY <1>1, <2>1, <2>2
<1>4. /\ answer' \in [Id -> [Attempt -> Answer]]
      /\ \A i \in Id, a \in Attempt : i # call \/ a # attempt =>
             answer'[i][a] = answer[i][a]
  <2>1. CASE UNCHANGED answer
    BY <2>1 DEF TypeOK, Answer
  <2>2. CASE \E s \in Answer : See(s)
    BY <1>0, <2>2, SeeEffect
  <2> QED
    BY <1>2, <2>1, <2>2
<1> QED
  BY <1>3, <1>4 DEF RequestsOK

LEMMA SpentType ==
    ASSUME TypeOK, Client
    PROVE  /\ spent' \in [calls : Nat, total : Nat]
           /\ usage' \in [Id -> {0, 1}]
<1>1. /\ spent \in [calls : Nat, total : Nat]
      /\ usage \in [Id -> {0, 1}]
  BY DEF TypeOK
<1>2. CASE Decode
  <2>1. PICK usd \in {0, 1} : UNCHANGED spent \/ AddCost(usd)
    BY <1>2 DEF Decode, CountSuccess
  <2>4. usage' \in [Id -> {0, 1}]
    BY <1>1, <1>2 DEF Decode
  <2>2. CASE UNCHANGED spent
    BY <1>1, <2>2, <2>4
  <2>3. CASE AddCost(usd)
    <3>1. /\ spent.calls + 1 \in Nat
          /\ (IF usd > 0 THEN spent.total + usd ELSE spent.total) \in Nat
      BY <1>1
    <3> QED
      BY <2>3, <2>4, <3>1 DEF AddCost
  <2> QED
    BY <2>1, <2>2, <2>3
<1>3. CASE ~Decode
  <2>1. UNCHANGED <<spent, usage>>
    BY <1>3, ClientProgress DEF Going, Waiting, progress, Answered, Downloaded
  <2> QED
    BY <1>1, <2>1
<1> QED
  BY <1>2, <1>3

LEMMA ClientType ==
    ASSUME TypeOK, Client
    PROVE  TypeOK'
<1>1. ProgressOK'
  <2>1. CASE Going
    BY <2>1, ClientProgress DEF Going, progress, TypeOK, ProgressOK
  <2>2. CASE Waiting
    BY <2>2, ClientProgress, WaitingType
  <2>3. CASE \E res \in {"ok", "error"} : Ended(res)
    BY <2>3, EndedType
  <2> QED
    BY <2>1, <2>2, <2>3, ClientProgress
<1>2. RequestsOK'
  BY ClientRequests
<1>3. RestOK'
  <2>1. live' = live /\ faults' \in Nat
    BY DEF Client, Issue, LoseAnswer, ServerError, Refused, Answered,
           Downloaded, Reply, Decode, Pause, TypeOK
  <2>2. data' \in Data
    <3>1. data' \in {data, None} \union Replies
      BY DEF Client, Issue, LoseAnswer, ServerError, Refused, Answered,
             Downloaded, Reply, Decode, Pause
    <3> QED
      BY <3>1 DEF TypeOK, Data
  <2> QED
    BY <2>1, <2>2, SpentType DEF RestOK, TypeOK
<1> QED
  BY <1>1, <1>2, <1>3, TypeParts DEF TypeOK, ProgressOK, RequestsOK, RestOK,
                                     Request, Answer, Data

LEMMA CarryOutType ==
    ASSUME TypeOK, NEW i \in Id, NEW a \in Attempt, CarryOut(i, a)
    PROVE  /\ TypeOK'
           /\ request'[i][a] = "done"
           /\ \A j \in Id, b \in Attempt :
                  j # i \/ b # a => request'[j][b] = request[j][b]
<1>1. request \in [Id -> [Attempt -> Request]]
  BY DEF TypeOK, Request
<1>2. request' = [request EXCEPT ![i] = [request[i] EXCEPT ![a] = "done"]]
  BY DEF CarryOut
<1>3. [request[i] EXCEPT ![a] = "done"] \in [Attempt -> Request]
  BY <1>1 DEF Request
<1>4. request' \in [Id -> [Attempt -> Request]]
  BY <1>1, <1>2, <1>3
<1>5. TypeOK'
  BY <1>4 DEF CarryOut, progress, TypeOK, Request
<1> QED
  BY <1>1, <1>2, <1>3, <1>5

LEMMA NextType == TypeOK /\ [Next]_vars => TypeOK'
<1> SUFFICES ASSUME TypeOK, [Next]_vars
             PROVE  TypeOK'
  OBVIOUS
<1>1. CASE Start
  BY <1>1, StartKind, BeginType
<1>2. CASE Client
  BY <1>2, ClientType
<1>3. CASE \E i \in Id, a \in Attempt : CarryOut(i, a)
  BY <1>3, CarryOutType
<1>4. CASE CtxExpire
  BY <1>4 DEF CtxExpire, progress, TypeOK
<1>5. CASE UNCHANGED vars
  BY <1>5 DEF vars, progress, TypeOK
<1> QED
  BY <1>1, <1>2, <1>3, <1>4, <1>5 DEF Next

\* Every variable stays in its type: in particular no attempt follows the
\* last, and whatever is not idle belongs to a call that has not returned.
THEOREM TypeCorrect == Spec => []TypeOK
<1>1. Init => TypeOK
  BY InitType
<1>2. TypeOK /\ [Next]_vars => TypeOK'
  BY NextType
<1> QED
  BY <1>1, <1>2, PTL DEF Spec

-----------------------------------------------------------------------------
(* No needless repetition *)

Prepared == step \in {"send", "wait"}

\* Attempts to come have not been sent; one that is about to be sent is the
\* first of its call, or follows one that failed and may be mended.
SentInv ==
    /\ \A i \in Id, a \in Attempt :
           i > call \/ (i = call /\ step # "idle" /\ a > attempt) =>
               request[i][a] = "unsent"
    /\ Prepared => request[call][attempt] = "unsent"
    /\ step = "await" => request[call][attempt] # "unsent"
    /\ Prepared /\ attempt > 0 =>
           answer[call][attempt - 1] \in Transient /\ kind[call] \in Posts

RepeatInv == SentInv /\ NoNeedlessRepeat

LEMMA RepeatInit == Init => RepeatInv
BY DEF Init, RepeatInv, SentInv, Prepared, NoNeedlessRepeat, Id, Attempt

LEMMA StartRepeat ==
    ASSUME TypeOK, RepeatInv, Start
    PROVE  RepeatInv'
<1>1. PICK k \in Kind : \E given \in Data : Begin(k, given)
  BY StartKind
<1>2. /\ call \in 0 .. MaxCalls /\ call < MaxCalls /\ call' = call + 1
      /\ kind' = [kind EXCEPT ![call'] = k]
      /\ step' = "send" /\ attempt' = 0
      /\ UNCHANGED <<request, answer>>
  BY <1>1 DEF Begin, TypeOK
<1>3. call' \in Id /\ 0 \in Attempt
  BY <1>2, RetryAssumption DEF Id, Attempt
<1>4. \A i \in Id, a \in Attempt : i > call => request[i][a] = "unsent"
  BY DEF RepeatInv, SentInv
<1>5. SentInv'
  <2>1. ASSUME NEW i \in Id, NEW a \in Attempt, i >= call'
        PROVE  request'[i][a] = "unsent"
    BY <1>2, <1>4, <2>1 DEF Id
  <2> QED
    BY <1>2, <1>3, <2>1 DEF SentInv, Prepared, Id
<1>6. NoNeedlessRepeat'
  <2>1. SUFFICES ASSUME NEW i \in Id, NEW a \in Attempt,
                        request[i][a] # "unsent", a > 0
                 PROVE  answer[i][a - 1] \in Transient /\ kind'[i] \in Posts
    BY <1>2 DEF NoNeedlessRepeat
  <2>2. ~(i > call)
    BY <1>4, <2>1
  <2>3. i # call'
    BY <1>2, <2>2 DEF Id
  <2>4. kind'[i] = kind[i]
    BY <1>2, <2>3 DEF TypeOK
  <2> QED
    BY <2>1, <2>4 DEF RepeatInv, NoNeedlessRepeat
<1> QED
  BY <1>5, <1>6 DEF RepeatInv

\* A step of the client sends an attempt only if it was prepared; while it
\* waits for the answer the attempt stays sent, and it prepares another only
\* when this one failed and may be mended.
LEMMA ClientAttempt ==
    ASSUME TypeOK, RepeatInv, Client
    PROVE  /\ request'[call][attempt] # "unsent" =>
                  request[call][attempt] # "unsent" \/ Prepared
           /\ step' = "await" => request'[call][attempt] # "unsent"
           /\ Waiting => answer'[call][attempt] \in Transient
           /\ step' = "send" => step = "wait" /\ UNCHANGED <<request, answer>>
<1>0. step # "idle" /\ call \in Id /\ attempt \in Attempt
  BY ClientProgress DEF TypeOK
<1>1. step = "await" => request[call][attempt] # "unsent"
  BY DEF RepeatInv, SentInv
<1>2. Prepared => request[call][attempt] = "unsent"
  BY DEF RepeatInv, SentInv
<1>3. CASE Issue
  <2>1. CASE live
    <3>1. Fate("flying") /\ step' = "await" /\ step = "send"
      BY <1>3, <2>1 DEF Issue
    <3>2. request'[call][attempt] = "flying"
      BY <1>0, <3>1, FateEffect DEF Request
    <3> QED
      BY <1>2, <3>1, <3>2 DEF Prepared, Waiting
  <2>2. CASE ~live
    <3>1. See("lost") /\ UNCHANGED request /\ step = "send"
      BY <1>3, <2>2 DEF Issue
    <3>2. answer'[call][attempt] = "lost"
      BY <1>0, <3>1, SeeEffect DEF Answer, Transient
    <3>3. step' # "await" /\ step' # "send"
      BY <1>3, <2>2, AgainEffect DEF Issue, Waiting, Ended
    <3> QED
      BY <1>2, <3>1, <3>2, <3>3 DEF Prepared, Transient
  <2> QED
    BY <2>1, <2>2
<1>4. CASE LoseAnswer \/ ServerError
  <2>1. \/ Waiting
        \/ Ended("error")
    BY <1>4, AgainEffect, GiveUpEffect DEF LoseAnswer, ServerError
  <2>2. step' # "await" /\ step' # "send"
    BY <2>1 DEF Waiting, Ended
  <2>3. See("lost") \/ See("5xx")
    BY <1>4 DEF LoseAnswer, ServerError
  <2>4. answer'[call][attempt] \in Transient
    BY <1>0, <2>3, SeeEffect DEF Answer, Transient
  <2>5. step = "await"
    BY <1>4 DEF LoseAnswer, ServerError
  <2> QED
    BY <1>1, <2>1, <2>2, <2>4, <2>5 DEF Prepared, Ended
<1>5. CASE Refused \/ Answered \/ Downloaded
  <2>1. step = "await" /\ step' = "idle"
    BY <1>5, GiveUpEffect DEF Refused, Answered, Downloaded, Return, Ended
  <2> QED
    BY <1>1, <2>1 DEF Prepared, Waiting
<1>6. CASE Reply \/ Decode
  <2>1. /\ step' \in {"decode", "idle"}
        /\ UNCHANGED request
    BY <1>6 DEF Reply, Decode, Return
  <2> QED
    BY <2>1 DEF Prepared, Waiting
<1>7. CASE Pause
  <2>1. /\ step = "wait" /\ step' \in {"send", "idle"}
        /\ UNCHANGED <<request, answer>>
    BY <1>7, GiveUpEffect DEF Pause, Ended
  <2> QED
    BY <1>2, <2>1 DEF Prepared, Waiting
<1> QED
  BY <1>3, <1>4, <1>5, <1>6, <1>7 DEF Client

LEMMA ClientRepeat ==
    ASSUME TypeOK, RepeatInv, Client
    PROVE  RepeatInv'
<1>0. step # "idle" /\ call \in Id /\ attempt \in Attempt
  BY ClientProgress DEF TypeOK
<1>1. call' = call /\ kind' = kind
  BY ClientProgress DEF Going, Waiting, Ended, progress
<1>2. /\ step' = "idle" \/ attempt' = attempt \/ Waiting
      /\ Waiting => attempt' = attempt + 1 /\ step' = "wait"
      /\ step' = "wait" => Waiting
  BY ClientProgress DEF Going, Waiting, Ended
<1>3. \A i \in Id, a \in Attempt : i # call \/ a # attempt =>
          request'[i][a] = request[i][a] /\ answer'[i][a] = answer[i][a]
  BY ClientRequests
<1>4. \A i \in Id, a \in Attempt :
          i > call \/ (i = call /\ a > attempt) => request[i][a] = "unsent"
  BY <1>0 DEF RepeatInv, SentInv
<1>5. SentInv'
  <2>1. ASSUME NEW i \in Id, NEW a \in Attempt,
               i > call \/ (i = call /\ a > attempt)
        PROVE  request'[i][a] = "unsent"
    <3>1. i # call \/ a # attempt
      BY <1>0, <2>1 DEF Id, Attempt
    <3> QED
      BY <1>3, <1>4, <2>1, <3>1
  <2>2. ASSUME NEW i \in Id, NEW a \in Attempt,
               i > call' \/ (i = call' /\ step' # "idle" /\ a > attempt')
        PROVE  request'[i][a] = "unsent"
    BY <1>0, <1>1, <1>2, <2>1, <2>2 DEF Attempt
  <2>3. CASE Waiting
    <3>1. /\ attempt + 1 \in Attempt /\ attempt' = attempt + 1
          /\ step' = "wait" /\ kind[call] \in Posts
      BY <2>3 DEF Waiting
    <3>2. request'[call][attempt'] = "unsent"
      BY <1>0, <2>1, <3>1 DEF Attempt
    <3>3. answer'[call][attempt' - 1] \in Transient
      BY <1>0, <2>3, <3>1, ClientAttempt DEF Attempt
    <3> QED
      BY <1>1, <2>2, <3>1, <3>2, <3>3 DEF SentInv, Prepared
  <2>4. CASE ~Waiting /\ step' = "send"
    <3>1. step = "wait" /\ UNCHANGED <<request, answer>>
      BY <2>4, ClientAttempt
    <3>2. attempt' = attempt
      BY <1>2, <2>4
    <3> QED
      BY <1>1, <2>2, <2>4, <3>1, <3>2 DEF RepeatInv, SentInv, Prepared
  <2>5. CASE ~Waiting /\ step' # "send"
    <3>1. step' # "wait"
      BY <1>2, <2>5
    <3>2. step' = "await" => request'[call'][attempt'] # "unsent"
      BY <1>1, <1>2, <2>5, ClientAttempt
    <3> QED
      BY <2>2, <2>5, <3>1, <3>2 DEF SentInv, Prepared
  <2> QED
    BY <2>3, <2>4, <2>5
<1>6. NoNeedlessRepeat'
  <2>1. SUFFICES ASSUME NEW i \in Id, NEW a \in Attempt,
                        request'[i][a] # "unsent", a > 0
                 PROVE  answer'[i][a - 1] \in Transient /\ kind[i] \in Posts
    BY <1>1 DEF NoNeedlessRepeat
  <2>2. a - 1 \in Attempt
    BY <2>1, RetryAssumption DEF Attempt
  <2>3. CASE i = call /\ a = attempt
    <3>1. answer'[i][a - 1] = answer[i][a - 1]
      BY <1>3, <2>2, <2>3 DEF Attempt
    <3>2. request[call][attempt] # "unsent" \/ Prepared
      BY <2>1, <2>3, ClientAttempt
    <3> QED
      BY <1>0, <2>1, <2>3, <3>1, <3>2
         DEF RepeatInv, SentInv, NoNeedlessRepeat
  <2>4. CASE i # call \/ a # attempt
    <3>1. request[i][a] # "unsent"
      BY <1>3, <2>1, <2>4
    <3>2. ~(i = call /\ a > attempt)
      BY <1>4, <3>1
    <3>3. i # call \/ a - 1 # attempt
      BY <1>0, <2>4, <3>2 DEF Attempt
    <3>4. answer'[i][a - 1] = answer[i][a - 1]
      BY <1>3, <2>2, <3>3
    <3> QED
      BY <2>1, <3>1, <3>4 DEF RepeatInv, NoNeedlessRepeat
  <2> QED
    BY <2>3, <2>4
<1> QED
  BY <1>5, <1>6 DEF RepeatInv

LEMMA NextRepeat == TypeOK /\ RepeatInv /\ [Next]_vars => RepeatInv'
<1> SUFFICES ASSUME TypeOK, RepeatInv, [Next]_vars
             PROVE  RepeatInv'
  OBVIOUS
<1>1. CASE Start
  BY <1>1, StartRepeat
<1>2. CASE Client
  BY <1>2, ClientRepeat
<1>3. ASSUME NEW i \in Id, NEW a \in Attempt, CarryOut(i, a)
      PROVE  RepeatInv'
  <2>1. /\ UNCHANGED <<kind, call, answer, step, attempt>>
        /\ request[i][a] = "flying"
    BY <1>3 DEF CarryOut, progress
  <2>2. \A j \in Id, b \in Attempt :
            request'[j][b] = "unsent" <=> request[j][b] = "unsent"
    BY <1>3, <2>1, CarryOutType
  <2>3. step # "idle" => call \in Id /\ attempt \in Attempt
    BY DEF TypeOK
  <2>4. SentInv'
    BY <2>1, <2>2, <2>3 DEF RepeatInv, SentInv, Prepared
  <2>5. NoNeedlessRepeat'
    BY <2>1, <2>2 DEF RepeatInv, NoNeedlessRepeat
  <2> QED
    BY <2>4, <2>5 DEF RepeatInv
<1>4. CASE CtxExpire \/ UNCHANGED vars
  BY <1>4 DEF CtxExpire, vars, progress, RepeatInv, SentInv, Prepared,
              NoNeedlessRepeat
<1> QED
  BY <1>1, <1>2, <1>3, <1>4 DEF Next

\* A request is sent again only by Client.do, and only after a failure that
\* another attempt may mend.  The property needs to know what was sent so far
\* and why the attempt that is about to be sent was prepared.
THEOREM RepeatedForAReason == Spec => []NoNeedlessRepeat
<1>1. Init => RepeatInv
  BY RepeatInit
<1>2. TypeOK /\ RepeatInv /\ [Next]_vars => RepeatInv'
  BY NextRepeat
<1>3. RepeatInv => NoNeedlessRepeat
  BY DEF RepeatInv
<1> QED
  BY <1>1, <1>2, <1>3, TypeCorrect, PTL DEF Spec

-----------------------------------------------------------------------------
(* Refinement: RemoteCall *)

carried == [i \in Id |-> \E a \in Attempt : request[i][a] = "done"]

\* Calls are made one after another, and an answer that is looked at is the
\* answer to a request that was carried out.
CallsInv ==
    /\ \A i \in Id : i > call <=> outcome[i] = "none"
    /\ \A i \in Id : outcome[i] = "pending" => i = call /\ step # "idle"
    /\ \A i \in Id, a \in Attempt : i > call => request[i][a] = "unsent"
    /\ step = "send" => request[call][attempt] = "unsent"
    /\ step = "decode" =>
           request[call][attempt] = "done" /\ kind[call] \in Billed

LEMMA CallsInit == Init => CallsInv
BY DEF Init, CallsInv, Id

LEMMA StartCalls ==
    ASSUME TypeOK, CallsInv, Start
    PROVE  CallsInv' /\ \E i \in Id : Remote!Ask(i)
<1>1. PICK k \in Kind : \E given \in Data : Begin(k, given)
  BY StartKind
<1>2. /\ call \in 0 .. MaxCalls /\ call < MaxCalls /\ call' = call + 1
      /\ outcome' = [outcome EXCEPT ![call'] = "pending"]
      /\ step = "idle" /\ step' = "send" /\ attempt' = 0
      /\ request' = request
  BY <1>1 DEF Begin, TypeOK
<1>3. call' \in Id /\ 0 \in Attempt
  BY <1>2, RetryAssumption DEF Id, Attempt
<1>4. outcome[call'] = "none"
  BY <1>2, <1>3 DEF CallsInv
<1>5. CallsInv'
  <2>1. \A i \in Id : i > call' <=> outcome'[i] = "none"
    BY <1>2, <1>3 DEF CallsInv, TypeOK, Id
  <2>2. \A i \in Id : outcome'[i] = "pending" => i = call' /\ step' # "idle"
    BY <1>2, <1>3 DEF CallsInv, TypeOK
  <2>3. \A i \in Id, a \in Attempt : i >= call' => request'[i][a] = "unsent"
    BY <1>2 DEF CallsInv, Id
  <2> QED
    BY <1>2, <1>3, <2>1, <2>2, <2>3 DEF CallsInv, Id
<1>6. Remote!Ask(call')
  BY <1>2, <1>3, <1>4 DEF Remote!Ask, Remote!Become, CallsInv
<1> QED
  BY <1>3, <1>5, <1>6

\* No step of the client carries a call out or undoes it.
LEMMA ClientCarried ==
    ASSUME TypeOK, CallsInv, Client
    PROVE  /\ UNCHANGED carried
           /\ step' = "send" => step = "wait" /\ UNCHANGED request
           /\ step' = "decode" =>
                  /\ request'[call][attempt] = "done"
                  /\ kind[call] \in Billed
<1>0. step # "idle" /\ call \in Id /\ attempt \in Attempt
  BY ClientProgress DEF TypeOK
<1>1. request'[call][attempt] = "done" <=> request[call][attempt] = "done"
  <2>1. CASE Issue
    BY <1>0, <2>1, FateEffect DEF Issue, Request, CallsInv
  <2>2. CASE LoseAnswer
    BY <1>0, <2>2, FateEffect DEF LoseAnswer, Request, Current
  <2>3. CASE ServerError
    BY <1>0, <2>3, FateEffect DEF ServerError, Request, Current
  <2>4. CASE Refused
    BY <1>0, <2>4, FateEffect DEF Refused, Request, Current
  <2>5. CASE Answered \/ Downloaded \/ Reply \/ Decode \/ Pause
    BY <2>5 DEF Answered, Downloaded, Reply, Decode, Pause
  <2> QED
    BY <2>1, <2>2, <2>3, <2>4, <2>5 DEF Client
<1>2. \A i \in Id, a \in Attempt :
          request'[i][a] = "done" <=> request[i][a] = "done"
  BY <1>1, ClientRequests
<1>3. UNCHANGED carried
  BY <1>2 DEF carried
<1>4. CASE Issue \/ LoseAnswer \/ ServerError \/ Refused
  <2>1. step' \notin {"send", "decode"}
    BY <1>4, AgainEffect, GiveUpEffect
       DEF Issue, LoseAnswer, ServerError, Refused, Waiting, Ended
  <2> QED
    BY <1>3, <2>1
<1>5. CASE Answered \/ Downloaded \/ Decode
  BY <1>3, <1>5 DEF Answered, Downloaded, Decode, Return
<1>6. CASE Reply
  BY <1>3, <1>6 DEF Reply, Current
<1>7. CASE Pause
  BY <1>3, <1>7, GiveUpEffect DEF Pause, Ended
<1> QED
  BY <1>4, <1>5, <1>6, <1>7 DEF Client

LEMMA ClientCalls ==
    ASSUME TypeOK, CallsInv, RepeatInv, Client
    PROVE  CallsInv'
<1>0. step # "idle" /\ call \in Id /\ attempt \in Attempt
  BY ClientProgress DEF TypeOK
<1>1. call' = call /\ kind' = kind /\ outcome[call] = "pending"
  BY <1>0, ClientProgress DEF Going, Waiting, Ended, progress, TypeOK
<1>2. \/ step' # "idle" /\ outcome' = outcome
      \/ /\ step' = "idle"
         /\ \E res \in {"ok", "error"} :
                outcome' = [outcome EXCEPT ![call] = res]
  BY ClientProgress DEF Going, Waiting, Ended, progress
<1>3. \A i \in Id : i > call <=> outcome'[i] = "none"
  BY <1>0, <1>1, <1>2 DEF CallsInv, TypeOK
<1>4. \A i \in Id : outcome'[i] = "pending" => i = call /\ step' # "idle"
  BY <1>0, <1>1, <1>2 DEF CallsInv, TypeOK
<1>5. \A i \in Id, a \in Attempt : i > call => request'[i][a] = "unsent"
  BY <1>0, ClientRequests DEF CallsInv, Id
<1>6. step' \in {"send", "decode"} => attempt' = attempt
  BY ClientProgress DEF Going, Waiting, Ended
<1>7. step' = "send" => request'[call][attempt] = "unsent"
  BY ClientCarried DEF RepeatInv, SentInv, Prepared
<1> QED
  BY <1>1, <1>3, <1>4, <1>5, <1>6, <1>7, ClientCarried DEF CallsInv

LEMMA ClientRemote ==
    ASSUME TypeOK, CallsInv, Client
    PROVE  Remote!Next \/ UNCHANGED <<outcome, carried>>
<1>0. step # "idle" /\ call \in Id /\ outcome[call] = "pending"
  BY ClientProgress DEF TypeOK
<1>1. UNCHANGED carried
  BY ClientCarried
<1>2. CASE UNCHANGED outcome
  BY <1>1, <1>2
<1>3. CASE Ended("error")
  <2>1. Remote!Fail(call)
    BY <1>0, <1>1, <1>3 DEF Remote!Fail, Remote!Become, Ended, carried
  <2> QED
    BY <1>0, <2>1 DEF Remote!Next
<1>4. CASE Ended("ok") /\ (Answered \/ Downloaded \/ Decode)
  <2>1. request[call][attempt] = "done" /\ attempt \in Attempt
    BY <1>4 DEF Answered, Downloaded, Decode, Current, CallsInv, TypeOK
  <2>2. carried[call]
    BY <1>0, <2>1 DEF carried
  <2>3. Remote!Succeed(call)
    BY <1>0, <1>1, <1>4, <2>2
       DEF Remote!Succeed, Remote!Become, Ended, carried
  <2> QED
    BY <1>0, <2>3 DEF Remote!Next
<1> QED
  BY <1>2, <1>3, <1>4, ClientProgress DEF Going, Waiting, progress

LEMMA CarryOutRemote ==
    ASSUME TypeOK, CallsInv, NEW i \in Id, NEW a \in Attempt, CarryOut(i, a)
    PROVE  CallsInv' /\ Remote!CarryOut(i)
<1>1. /\ UNCHANGED <<progress, step, attempt>>
      /\ request[i][a] = "flying"
  BY DEF CarryOut
<1>2. ~(i > call) /\ outcome[i] # "none"
  BY <1>1 DEF CallsInv
<1>3. /\ request'[i][a] = "done"
      /\ \A j \in Id, b \in Attempt :
             j # i \/ b # a => request'[j][b] = request[j][b]
  BY CarryOutType
<1>4. carried' = [carried EXCEPT ![i] = TRUE]
  <2>1. \A j \in Id \ {i} : carried'[j] = carried[j]
    BY <1>3 DEF carried
  <2>2. carried'[i] = TRUE
    BY <1>3 DEF carried
  <2> QED
    BY <2>1, <2>2 DEF carried
<1>5. CallsInv'
  <2>1. step # "idle" => call \in Id /\ attempt \in Attempt
    BY DEF TypeOK
  <2> QED
    BY <1>1, <1>2, <1>3, <2>1 DEF CallsInv, progress
<1> QED
  BY <1>1, <1>2, <1>4, <1>5 DEF Remote!CarryOut, progress, carried

LEMMA CallsNext ==
    ASSUME TypeOK, RepeatInv, CallsInv, [Next]_vars
    PROVE  /\ CallsInv'
           /\ Remote!Next \/ UNCHANGED <<outcome, carried>>
<1>1. CASE Start
  BY <1>1, StartCalls DEF Remote!Next
<1>2. CASE Client
  BY <1>2, ClientCalls, ClientRemote
<1>3. CASE \E i \in Id, a \in Attempt : CarryOut(i, a)
  BY <1>3, CarryOutRemote DEF Remote!Next
<1>4. CASE CtxExpire \/ UNCHANGED vars
  BY <1>4 DEF CtxExpire, vars, progress, CallsInv, carried
<1> QED
  BY <1>1, <1>2, <1>3, <1>4 DEF Next

LEMMA CallsAlways == Spec => [](RepeatInv /\ CallsInv)
<1>1. Init => RepeatInv /\ CallsInv
  BY RepeatInit, CallsInit
<1>2. TypeOK /\ RepeatInv /\ CallsInv /\ [Next]_vars =>
          (RepeatInv /\ CallsInv)'
  BY NextRepeat, CallsNext
<1> QED
  BY <1>1, <1>2, TypeCorrect, PTL DEF Spec

\* What the engine is promised is what the attempts amount to: every step of
\* Calls is a step of RemoteCall or invisible to it.
THEOREM Refinement == Spec => Implements
<1>1. Init => Remote!Init
  BY DEF Init, Remote!Init
<1>2. TypeOK /\ RepeatInv /\ CallsInv /\ [Next]_vars =>
          [Remote!Next]_(Remote!vars)
  BY CallsNext DEF Remote!vars, carried
<1> QED
  BY <1>1, <1>2, CallsAlways, TypeCorrect, PTL
     DEF Spec, Implements, Remote!Spec

-----------------------------------------------------------------------------
(* The cost *)

\* Those of the results whose answers reported a cost.
Costly == {i \in Results : usage[i] = 1}

LEMMA ResultsFinite == IsFiniteSet(Results) /\ IsFiniteSet(Costly)
<1>1. IsFiniteSet(Id)
  BY FS_Interval, RetryAssumption DEF Id
<1>2. Results \subseteq Id /\ Costly \subseteq Id
  BY DEF Results, Costly
<1> QED
  BY <1>1, <1>2, FS_Subset

\* A call that ends is a result if it is billed and did not fail, and was
\* none before; the cost of the other results stays what it was.
LEMMA EndedCounted ==
    ASSUME TypeOK, call \in Id, outcome[call] = "pending",
           NEW res \in {"ok", "error"}, Ended(res),
           \A i \in Id \ {call} : usage'[i] = usage[i]
    PROVE  /\ call \notin Results /\ call \notin Costly
           /\ Results' = IF res = "ok" /\ kind[call] \in Billed
                         THEN Results \union {call} ELSE Results
           /\ Costly' = IF /\ res = "ok" /\ kind[call] \in Billed
                           /\ usage'[call] = 1
                        THEN Costly \union {call} ELSE Costly
<1>1. outcome' = [outcome EXCEPT ![call] = res] /\ kind' = kind
  BY DEF Ended
<1>2. outcome'[call] = res /\ \A i \in Id \ {call} : outcome'[i] = outcome[i]
  BY <1>1 DEF TypeOK
<1> QED
  BY <1>1, <1>2 DEF Results, Costly

LEMMA StartCost ==
    ASSUME TypeOK, CallsInv, CostIsOfResults, Start
    PROVE  CostIsOfResults'
<1>1. PICK k \in Kind : \E given \in Data : Begin(k, given)
  BY StartKind
<1>2. /\ call \in 0 .. MaxCalls /\ call < MaxCalls /\ call' = call + 1
      /\ outcome' = [outcome EXCEPT ![call'] = "pending"]
      /\ kind' = [kind EXCEPT ![call'] = k]
      /\ spent' = spent /\ usage' = usage
  BY <1>1 DEF Begin, TypeOK
<1>3. PICK n \in Id : n = call'
  BY <1>2, RetryAssumption DEF Id
<1>4. outcome[n] = "none"
  BY <1>2, <1>3 DEF CallsInv
<1>5. /\ outcome'[n] = "pending"
      /\ \A i \in Id \ {n} : outcome'[i] = outcome[i] /\ kind'[i] = kind[i]
  BY <1>2, <1>3 DEF TypeOK
<1>6. Results' = Results /\ Costly' = Costly
  BY <1>2, <1>4, <1>5 DEF Results, Costly
<1> QED
  BY <1>2, <1>6 DEF CostIsOfResults, Costly

LEMMA ClientCost ==
    ASSUME TypeOK, CallsInv, CostIsOfResults, Client
    PROVE  CostIsOfResults'
<1>0. step # "idle" /\ call \in Id /\ outcome[call] = "pending"
  BY ClientProgress DEF TypeOK
<1>c. spent.calls = Cardinality(Results) /\ spent.total = Cardinality(Costly)
  BY DEF CostIsOfResults, Costly
<1>s. SUFFICES /\ spent'.calls = Cardinality(Results')
               /\ spent'.total = Cardinality(Costly')
  BY DEF CostIsOfResults, Costly
<1>1. CASE Going \/ Waiting
  <2>1. Results' = Results /\ Costly' = Costly /\ spent' = spent
    BY <1>1 DEF Going, Waiting, progress, Results, Costly
  <2> QED
    BY <1>c, <2>1
<1>2. CASE Ended("error") /\ UNCHANGED <<spent, usage>>
  <2>1. Results' = Results /\ Costly' = Costly
    BY <1>0, <1>2, EndedCounted
  <2> QED
    BY <1>c, <1>2, <2>1
<1>3. CASE (Answered \/ Downloaded)
           /\ \E res \in {"ok", "error"} : Ended(res)
  <2>1. PICK res \in {"ok", "error"} : Ended(res)
    BY <1>3
  <2>2. kind[call] \notin Billed /\ spent' = spent /\ usage' = usage
    BY <1>3 DEF Answered, Downloaded, Billed, Posts, Transcriptions
  <2>3. Results' = Results /\ Costly' = Costly
    BY <1>0, <2>1, <2>2, EndedCounted
  <2> QED
    BY <1>c, <2>2, <2>3
<1>4. CASE Decode
  <2>1. PICK good \in BOOLEAN, res \in {"ok", "error"}, usd \in {0, 1} :
            /\ res = "ok" => good
            /\ Return(res) /\ CountSuccess(res, usd)
            /\ usage' = [usage EXCEPT ![call] = IF good THEN usd ELSE 0]
    BY <1>4 DEF Decode
  <2>2. kind[call] \in Billed /\ Ended(res)
    BY <1>4, <2>1 DEF Decode, CallsInv, Return, Ended
  <2>3. /\ \A i \in Id \ {call} : usage'[i] = usage[i]
        /\ res = "ok" => usage'[call] = usd
    BY <1>0, <2>1 DEF TypeOK
  <2>4. CASE res = "error"
    <3>1. spent' = spent
      BY <2>1, <2>4 DEF CountSuccess
    <3>2. Results' = Results /\ Costly' = Costly
      BY <1>0, <2>2, <2>3, <2>4, EndedCounted
    <3> QED
      BY <1>c, <3>1, <3>2
  <2>5. CASE res = "ok"
    <3>1. /\ spent'.calls = spent.calls + 1
          /\ spent'.total = spent.total + usd
      BY <2>1, <2>5 DEF CountSuccess, AddCost, TypeOK
    <3>2. /\ call \notin Results /\ call \notin Costly
          /\ Results' = Results \union {call}
          /\ Costly' = IF usd = 1 THEN Costly \union {call} ELSE Costly
      BY <1>0, <2>2, <2>3, <2>5, EndedCounted
    <3>3. Cardinality(Results \union {call}) = Cardinality(Results) + 1
      BY <3>2, ResultsFinite, FS_AddElement
    <3>4. Cardinality(Costly \union {call}) = Cardinality(Costly) + 1
      BY <3>2, ResultsFinite, FS_AddElement
    <3>5. Cardinality(Costly) \in Nat
      BY ResultsFinite, FS_CardinalityType
    <3> QED
      BY <1>c, <3>1, <3>2, <3>3, <3>4, <3>5
  <2> QED
    BY <2>1, <2>4, <2>5
<1> QED
  BY <1>1, <1>2, <1>3, <1>4, ClientProgress

\* The tracker counts each paid call that gave a result, once, with the cost
\* its answer reported, however many calls there are and however they fail.
THEOREM CostCounted == Spec => []CostIsOfResults
<1>1. Init => CostIsOfResults
  <2>1. SUFFICES ASSUME Init PROVE CostIsOfResults
    OBVIOUS
  <2>2. Results = {} /\ Costly = {}
    BY <2>1 DEF Init, Results, Costly
  <2>3. spent.calls = 0 /\ spent.total = 0
    BY <2>1 DEF Init
  <2> QED
    BY <2>2, <2>3, FS_EmptySet DEF CostIsOfResults, Costly
<1>2. ASSUME TypeOK, CallsInv, CostIsOfResults, [Next]_vars
      PROVE  CostIsOfResults'
  <2>1. CASE Start
    BY <1>2, <2>1, StartCost
  <2>2. CASE Client
    BY <1>2, <2>2, ClientCost
  <2>3. CASE \/ \E i \in Id, a \in Attempt : CarryOut(i, a)
             \/ CtxExpire \/ UNCHANGED vars
    BY <1>2, <2>3
       DEF CarryOut, CtxExpire, vars, progress, CostIsOfResults, Results
  <2> QED
    BY <1>2, <2>1, <2>2, <2>3 DEF Next
<1> QED
  BY <1>1, <1>2, CallsAlways, TypeCorrect, PTL DEF Spec

-----------------------------------------------------------------------------
(* The reply of the model *)

\* What is decoded is a reply of the model.
DecodeInv ==
    step = "decode" /\ kind[call] = "classify" => data \in Replies

LEMMA DecodeNext ==
    ASSUME TypeOK, DecodeInv, [Next]_vars
    PROVE  DecodeInv'
<1>1. CASE Start
  BY <1>1, StartKind DEF Begin, DecodeInv
<1>2. CASE Client
  <2>0. UNCHANGED <<kind, call>>
    BY <1>2, ClientProgress DEF Going, Waiting, Ended, progress
  <2>1. CASE Reply
    BY <2>0, <2>1 DEF Reply, DecodeInv
  <2>2. CASE Issue \/ LoseAnswer \/ ServerError \/ Refused
    BY <2>2, AgainEffect, GiveUpEffect
       DEF Issue, LoseAnswer, ServerError, Refused, Waiting, Ended, DecodeInv
  <2>3. CASE Answered \/ Downloaded \/ Decode \/ Pause
    BY <2>3, GiveUpEffect
       DEF Answered, Downloaded, Decode, Pause, Return, Ended, DecodeInv
  <2> QED
    BY <1>2, <2>1, <2>2, <2>3 DEF Client
<1>3. CASE \/ \E i \in Id, a \in Attempt : CarryOut(i, a)
           \/ CtxExpire \/ UNCHANGED vars
  <2>1. UNCHANGED <<step, kind, call, data>>
    BY <1>3 DEF CarryOut, CtxExpire, vars, progress
  <2> QED
    BY <2>1 DEF DecodeInv, Replies
<1> QED
  BY <1>1, <1>2, <1>3 DEF Next

\* What is decoded of a reply with one outermost object is that object,
\* however long the reply is and whatever text stands around the braces.
THEOREM ObjectFound == Spec => []ObjectIsFound
<1>1. Init => DecodeInv
  BY DEF Init, DecodeInv
<1>2. TypeOK /\ DecodeInv /\ [Next]_vars => DecodeInv'
  BY DecodeNext
<1>3. DecodeInv => ObjectIsFound
  <2>1. SUFFICES ASSUME DecodeInv, step = "decode", kind[call] = "classify",
                        NEW i \in DOMAIN data.given,
                        NEW j \in DOMAIN data.given, OneObject(data.given, i, j)
                 PROVE  data.object = SubSeq(data.given, i, j)
    BY DEF ObjectIsFound
  <2>2. PICK content \in Contents :
            data = [given |-> content, object |-> ExtractJSON(content)]
    BY <2>1 DEF DecodeInv, Replies
  <2>3. content \in Seq(STRING)
    BY DataAssumption
  <2> QED
    BY <2>1, <2>2, <2>3, ObjectExtracted
<1> QED
  BY <1>1, <1>2, <1>3, TypeCorrect, PTL DEF Spec

-----------------------------------------------------------------------------
(* What is posted *)

\* What a call is about to post was made from what it was given.
PostInv ==
    data # None =>
        /\ kind[call] = "rate" => data \in Rated
        /\ kind[call] = "labels" => data \in Relabelled

LEMMA StartPost ==
    ASSUME TypeOK, Start
    PROVE  PostInv'
<1>1. PICK k \in Kind : \E given :
          /\ Begin(k, given)
          /\ k = "rate" => given \in Rated
          /\ k = "labels" => given \in Relabelled
  BY DEF Start, SetRating, SetLabels, Send, DownloadAttachment, Classify,
         OpenAITranscribe, OpenRouterTranscribe, Kind, Posts, Transcriptions
<1>2. PICK given :
          /\ Begin(k, given)
          /\ k = "rate" => given \in Rated
          /\ k = "labels" => given \in Relabelled
  BY <1>1
<1>3. call' \in Id /\ kind' = [kind EXCEPT ![call'] = k] /\ data' = given
  BY <1>2, RetryAssumption DEF Begin, TypeOK, Id
<1>4. kind'[call'] = k
  BY <1>3 DEF TypeOK
<1> HIDE DEF Rated, Relabelled
<1> QED
  BY <1>2, <1>3, <1>4 DEF PostInv, Rated, Relabelled

LEMMA ClientPost ==
    ASSUME TypeOK, PostInv, Client
    PROVE  PostInv'
<1>1. UNCHANGED <<kind, call>>
  BY ClientProgress DEF Going, Waiting, Ended, progress
<1>2. CASE Reply
  BY <1>1, <1>2 DEF Reply, Billed, Transcriptions, PostInv
<1>3. CASE Issue \/ Decode
  BY <1>3 DEF Issue, Decode, PostInv
<1>4. CASE LoseAnswer \/ ServerError \/ Refused \/ Answered \/ Downloaded \/ Pause
  <2>1. UNCHANGED data
    BY <1>4 DEF LoseAnswer, ServerError, Refused, Answered, Downloaded, Pause
  <2> QED
    BY <1>1, <2>1 DEF PostInv, Rated, Relabelled
<1> QED
  BY <1>2, <1>3, <1>4 DEF Client

LEMMA PostAlways == Spec => []PostInv
<1>1. Init => PostInv
  BY DEF Init, PostInv
<1>2. ASSUME TypeOK, PostInv, [Next]_vars PROVE PostInv'
  <2>1. CASE Start
    BY <1>2, <2>1, StartPost
  <2>2. CASE Client
    BY <1>2, <2>2, ClientPost
  <2>3. CASE \/ \E i \in Id, a \in Attempt : CarryOut(i, a)
             \/ CtxExpire \/ UNCHANGED vars
    <3>1. UNCHANGED <<kind, call, data>>
      BY <2>3 DEF CarryOut, CtxExpire, vars, progress
    <3> QED
      BY <1>2, <3>1 DEF PostInv, Rated, Relabelled
  <2> QED
    BY <1>2, <2>1, <2>2, <2>3 DEF Next
<1> QED
  BY <1>1, <1>2, TypeCorrect, PTL DEF Spec

\* The rating posted is the first of the customer's text that stands alone,
\* however long the text is and whatever else is in it.
THEOREM RatingFound == Spec => []RatingIsIsolated
<1>1. ASSUME PostInv, data # None, kind[call] = "rate"
      PROVE  \E i \in DOMAIN data.given :
                 /\ IsolatedAt(data.given, i) /\ data.posts = data.given[i]
                 /\ \A j \in 1 .. i - 1 : ~IsolatedAt(data.given, j)
  <2>1. PICK text \in Said :
            /\ ParseRating(text) # NoRating
            /\ data = [given |-> text, posts |-> ParseRating(text)]
    BY <1>1 DEF PostInv, Rated
  <2>2. text \in Seq(STRING)
    BY DataAssumption
  <2> QED
    BY <2>1, <2>2, RatingEffect
<1>2. PostInv => RatingIsIsolated
  BY <1>1 DEF RatingIsIsolated
<1> QED
  BY <1>2, PostAlways, PTL

\* A list that is posted is, as a set, the one the other modules take it for,
\* and no label is in it twice that was not, however long the list is.
THEOREM ListsReplaced == Spec => []ListsAreSets
<1>1. ASSUME PostInv, data # None, kind[call] = "labels"
      PROVE  /\ ElementsOf(data.posts) =
                    ReplaceLabel(ElementsOf(data.given), data.remove,
                                 {data.add} \ {NoLabel})
             /\ Len(data.posts) <= Len(data.given) + 1
             /\ \A l \in Label :
                    Cardinality(PlacesOf(data.posts, l)) <=
                      IF data.add = l /\ l \notin ElementsOf(data.given)
                      THEN 1 ELSE Cardinality(PlacesOf(data.given, l))
  <2>1. PICK list \in Lists, r \in Label, a \in Label \union {NoLabel} :
            data = [given |-> list, remove |-> r, add |-> a,
                    posts |-> ReplaceLabelList(list, r, a)]
    BY <1>1 DEF PostInv, Relabelled
  <2>2. list \in Seq(Label)
    BY DataAssumption
  <2>3. LET posts == ReplaceLabelList(list, r, a)
        IN  /\ ElementsOf(posts) = (ElementsOf(list) \ {r})
                                       \union ({a} \ {NoLabel})
            /\ Len(posts) <= Len(list) + 1
            /\ \A l : Count(posts, l) <= IF a = l /\ l \notin ElementsOf(list)
                                         THEN 1 ELSE Count(list, l)
    BY <2>2, ReplaceEffect
  <2> QED
    BY <2>1, <2>3 DEF Count, ReplaceLabel
<1>2. PostInv => ListsAreSets
  BY <1>1 DEF ListsAreSets
<1> QED
  BY <1>2, PostAlways, PTL
=============================================================================
