------------------------------ MODULE BotProofs ------------------------------
(* Theorems about Bot, proved with TLAPS for every value of its constants. *)
EXTENDS Bot, EngineProofs

-----------------------------------------------------------------------------
(* Type correctness *)

AnyStep == SurveyStep \union TriageStep \union {"idle"}
AnyJob == Survey!Job \union Triage!Job \union {None}

\* The threads, each with a job of the flow its step belongs to.
ThreadsOK ==
    /\ lock \in [0 .. ConvLockStripes - 1 -> Thread \union {None}]
    /\ pc \in [Thread -> AnyStep]
    /\ job \in [Thread -> AnyJob]
    /\ live \in [Thread -> BOOLEAN]
    /\ \A t \in Thread :
           /\ pc[t] \in SurveyStep => job[t] \in Survey!Job
           /\ pc[t] \in TriageStep => job[t] \in Triage!Job
           /\ pc[t] = "idle" => job[t] = None
    /\ used \in [DOMAIN Bound -> Nat]

\* The rows of the survey and the reaper.
SurveyOK ==
    /\ deadline \in [Conv -> Survey!Status]
    /\ batch \subseteq Conv
    /\ rpc \in {"claim", "resolve", "complete", "close"}
    /\ rpc \in {"complete", "close"} => rconv \in batch
    /\ resolved \in [Conv -> BOOLEAN]

\* What the triage keeps of a conversation.
TriageOK == turns \in [Conv -> Seq(Nat)] /\ told \in [Conv -> Nat]

TypeInv ==
    /\ state \in [Conv -> State]
    /\ ThreadsOK
    /\ SurveyOK
    /\ TriageOK
    /\ relapses \in [Conv -> Nat]

\* The calls of either flow are calls of the engine.
LEMMA SurveyCallType ==
    ASSUME used \in [DOMAIN Bound -> Nat],
           NEW t, NEW ok \in BOOLEAN, Survey!Call(t, ok)
    PROVE  Call(t, ok) /\ used' \in [DOMAIN Bound -> Nat]
<1>1. Call(t, ok)
  BY DEF Survey!Call, Survey!Spend, Survey!Bound, Call, Spend, Bound
<1> QED
  BY <1>1, CallType

LEMMA TriageCallType ==
    ASSUME used \in [DOMAIN Bound -> Nat],
           NEW t, NEW ok \in BOOLEAN, Triage!Call(t, ok)
    PROVE  Call(t, ok) /\ used' \in [DOMAIN Bound -> Nat]
<1>1. Call(t, ok)
  BY DEF Triage!Call, Triage!Spend, Triage!Bound, Call, Spend, Bound
<1> QED
  BY <1>1, CallType

\* A thread that takes up an event holds a job of the event's flow.
LEMMA DispatchType ==
    ASSUME ThreadsOK, NEW t \in Thread, NEW step, NEW j,
           Dispatch(t, step, j),
           \/ step \in {"ask.begin", "rate.begin"} /\ j \in Survey!Job
           \/ step \in {"begin", "transcribe"} /\ j \in Triage!Job
    PROVE  ThreadsOK' /\ state' = state
<1>1. step \in AnyStep /\ j \in AnyJob
  BY DEF AnyStep, AnyJob, SurveyStep, TriageStep
<1>2. used' \in [DOMAIN Bound -> Nat]
  BY SpendType DEF ThreadsOK, Dispatch, Bound
<1>3. /\ pc' = [pc EXCEPT ![t] = step] /\ job' = [job EXCEPT ![t] = j]
      /\ UNCHANGED <<state, lock, live>>
  BY DEF Dispatch
<1>4. step \in SurveyStep => j \in Survey!Job
  BY DEF SurveyStep, Survey!Locked, Survey!AskStep, Survey!RateStep
<1>5. step \in TriageStep => j \in Triage!Job
  BY DEF TriageStep, Triage!TriageStep
<1>6. step # "idle"
  OBVIOUS
<1> QED
  BY <1>1, <1>2, <1>3, <1>4, <1>5, <1>6 DEF ThreadsOK

\* The end of a job leaves the thread idle, its mutexes free.
LEMMA FinishType ==
    ASSUME ThreadsOK, used' \in [DOMAIN Bound -> Nat],
           NEW t \in Thread, Finish(t)
    PROVE  ThreadsOK'
<1>1. "idle" \in AnyStep /\ None \in AnyJob
  BY DEF AnyStep, AnyJob
<1>2. "idle" \notin SurveyStep /\ "idle" \notin TriageStep
  BY DEF SurveyStep, TriageStep, Survey!Locked, Survey!AskStep,
         Survey!RateStep, Triage!TriageStep
<1> QED
  BY <1>1, <1>2 DEF ThreadsOK, Finish

\* A thread goes on within its flow.
LEMMA GoOnType ==
    ASSUME ThreadsOK, used' \in [DOMAIN Bound -> Nat],
           NEW t \in Thread, NEW step, live' = live,
           lock' \in [0 .. ConvLockStripes - 1 -> Thread \union {None}],
           pc' = [pc EXCEPT ![t] = step],
           \A u \in Thread \ {t} : job'[u] = job[u],
           job' \in [Thread -> AnyJob],
           \/ step \in SurveyStep /\ job'[t] \in Survey!Job
           \/ step \in TriageStep /\ job'[t] \in Triage!Job
    PROVE  ThreadsOK'
<1>1. step \in AnyStep
  BY DEF AnyStep
<1>2. /\ step \in SurveyStep => job'[t] \in Survey!Job
      /\ step \in TriageStep => job'[t] \in Triage!Job
      /\ step # "idle"
  BY DEF SurveyStep, TriageStep, Survey!Locked, Survey!AskStep,
         Survey!RateStep, Triage!TriageStep
<1> QED
  BY <1>1, <1>2 DEF ThreadsOK

\* Taking a mutex keeps the array of mutexes.
LEMMA LockType ==
    ASSUME ThreadsOK, NEW t \in Thread, NEW c \in Conv, LockConv(t, c)
    PROVE  lock' \in [0 .. ConvLockStripes - 1 -> Thread \union {None}]
BY StripeInRange DEF ThreadsOK, LockConv

\* The steps of the survey keep the types of the threads and its own.
LEMMA SurveyStepType ==
    ASSUME state \in [Conv -> State], ThreadsOK, SurveyOK, NEW t \in Thread,
           Survey!Step(t)
    PROVE  state' \in [Conv -> State] /\ ThreadsOK' /\ SurveyOK'
<1>1. ASSUME NEW step \in SurveyStep, pc[t] \in SurveyStep,
             Survey!Goto(t, step), used' \in [DOMAIN Bound -> Nat]
      PROVE  ThreadsOK'
  <2>1. job' = job /\ live' = live /\ lock' = lock
    BY <1>1 DEF Survey!Goto
  <2>2. job[t] \in Survey!Job
    BY <1>1 DEF ThreadsOK
  <2>3. pc' = [pc EXCEPT ![t] = step]
    BY <1>1 DEF Survey!Goto
  <2> QED
    BY <1>1, <2>1, <2>2, <2>3, GoOnType DEF ThreadsOK
<1>2. ASSUME Survey!Finish(t), used' \in [DOMAIN Bound -> Nat]
      PROVE  ThreadsOK'
  BY <1>2, FinishType DEF Survey!Finish, Finish
<1>3. ASSUME NEW ok \in BOOLEAN, Survey!Call(t, ok)
      PROVE  used' \in [DOMAIN Bound -> Nat]
  BY <1>3, SurveyCallType DEF ThreadsOK
<1>4. ASSUME NEW c \in Conv, NEW s \in CsatState, NEW ok \in BOOLEAN,
             Survey!SaveState(c, s, ok)
      PROVE  state' \in [Conv -> State]
  BY <1>4 DEF Survey!SaveState, State
<1>5. /\ {"ask.save", "ask.prompt", "ask.deadline"} \subseteq SurveyStep
      /\ {"rate.record", "rate.unlabel", "rate.answered", "rate.resolve",
          "rate.done"} \subseteq SurveyStep
      /\ {"csat_pending", "csat_done"} \subseteq CsatState
  BY DEF SurveyStep, Survey!Locked, Survey!AskStep, Survey!RateStep, CsatState
<1>6. CASE Survey!AskSave(t)
  BY <1>1, <1>3, <1>4, <1>5, <1>6
  DEF Survey!AskSave, Survey!At, Survey!reaper, Survey!chatwoot, SurveyOK
<1>7. CASE Survey!AskPrompt(t)
  BY <1>1, <1>5, <1>7
  DEF Survey!AskPrompt, Survey!At, Survey!reaper, Survey!chatwoot, Survey!db,
      SurveyOK, ThreadsOK
<1>8. CASE Survey!AskDeadline(t)
  BY <1>2, <1>3, <1>8
  DEF Survey!AskDeadline, Survey!reaper, Survey!chatwoot, SurveyOK,
      Survey!Status
<1>9. CASE Survey!RateRecord(t)
  BY <1>1, <1>3, <1>5, <1>9
  DEF Survey!RateRecord, Survey!At, Survey!reaper, Survey!chatwoot, Survey!db,
      SurveyOK
<1>10. CASE Survey!RateUnlabel(t)
  BY <1>1, <1>3, <1>5, <1>10
  DEF Survey!RateUnlabel, Survey!At, Survey!reaper, Survey!db, SurveyOK
<1>11. CASE Survey!RateAnswered(t)
  <2>1. PICK c \in Conv, ok \in BOOLEAN : Survey!RateAnswered(t)!(c, ok)
    BY <1>11 DEF Survey!RateAnswered
  <2>2. deadline' \in [Conv -> Survey!Status]
    BY <2>1 DEF Survey!MarkDeadlineAnswered, Survey!Status, SurveyOK
  <2> QED
    BY <1>1, <1>3, <1>5, <2>1, <2>2
    DEF Survey!At, Survey!reaper, Survey!chatwoot, SurveyOK
<1>12. CASE Survey!RateResolve(t)
  <2>1. PICK c \in Conv, ok \in BOOLEAN : Survey!RateResolve(t)!(c, ok)
    BY <1>12 DEF Survey!RateResolve
  <2>2. resolved' \in [Conv -> BOOLEAN]
    BY <2>1 DEF Survey!Resolve, Survey!CarriedOut, SurveyOK
  <2> QED
    BY <1>1, <1>3, <1>5, <2>1, <2>2
    DEF Survey!At, Survey!reaper, Survey!db, SurveyOK
<1>13. CASE Survey!RateDone(t)
  BY <1>2, <1>3, <1>4, <1>5, <1>13
  DEF Survey!RateDone, Survey!reaper, Survey!chatwoot, SurveyOK
<1> QED
  BY <1>6, <1>7, <1>8, <1>9, <1>10, <1>11, <1>12, <1>13 DEF Survey!Step

\* So do its events and the steps that take the mutex.
LEMMA SurveyStartType ==
    ASSUME state \in [Conv -> State], ThreadsOK, SurveyOK, NEW t \in Thread,
           \/ Survey!HandleMessageCreated(t)
           \/ Survey!HandleConversationUpdated(t)
           \/ Survey!Start(t)
    PROVE  state' = state /\ ThreadsOK' /\ SurveyOK'
<1>1. CASE Survey!HandleMessageCreated(t)
  <2>1. PICK c \in Conv, ls \in LabelSet, rating \in BOOLEAN :
            Survey!HandleMessageCreated(t)!(c, ls, rating)
    BY <1>1 DEF Survey!HandleMessageCreated, Survey!LabelSet, LabelSet
  <2> DEFINE j == [conv |-> c, labels |-> ls, rating |-> rating]
  <2>2. j \in Survey!Job /\ Dispatch(t, "rate.begin", j)
    BY <2>1 DEF Survey!Job, Survey!LabelSet, LabelSet, Survey!Dispatch,
                Dispatch, Survey!Spend, Spend, Survey!Bound, Bound
  <2> QED
    BY <2>1, <2>2, DispatchType DEF SurveyOK, Survey!reaper
<1>2. CASE Survey!HandleConversationUpdated(t)
  <2>1. PICK c \in Conv, ls \in LabelSet :
            Survey!HandleConversationUpdated(t)!(c, ls)
    BY <1>2 DEF Survey!HandleConversationUpdated, Survey!LabelSet, LabelSet
  <2> DEFINE j == [conv |-> c, labels |-> ls, rating |-> FALSE]
  <2>2. j \in Survey!Job /\ Dispatch(t, "ask.begin", j)
    BY <2>1 DEF Survey!Job, Survey!LabelSet, LabelSet, Survey!Dispatch,
                Dispatch, Survey!Spend, Spend, Survey!Bound, Bound
  <2> QED
    BY <2>1, <2>2, DispatchType DEF SurveyOK, Survey!reaper
<1>3. ASSUME NEW c \in Conv, NEW ok \in BOOLEAN, Survey!Call(t, ok),
             NEW step \in {"ask.save", "rate.record"},
             pc[t] \in SurveyStep, Survey!LockConv(t, c),
             pc' = [pc EXCEPT ![t] = step], UNCHANGED <<job, live>>
      PROVE  ThreadsOK'
  <2>1. used' \in [DOMAIN Bound -> Nat]
    BY <1>3, SurveyCallType DEF ThreadsOK
  <2>2. lock' \in [0 .. ConvLockStripes - 1 -> Thread \union {None}]
    BY <1>3, LockType DEF Survey!LockConv, LockConv, Survey!StripeOf, StripeOf
  <2>3. step \in SurveyStep /\ job[t] \in Survey!Job
    BY <1>3 DEF ThreadsOK, SurveyStep, Survey!Locked, Survey!AskStep,
                Survey!RateStep
  <2> QED
    BY <1>3, <2>1, <2>2, <2>3, GoOnType DEF ThreadsOK
<1>4. ASSUME NEW c \in Conv, NEW ok \in BOOLEAN, Survey!Call(t, ok),
             Survey!Return(t, c)
      PROVE  ThreadsOK'
  BY <1>4, SurveyCallType, FinishType
  DEF Survey!Return, Survey!Finish, Finish, ThreadsOK
<1>5. CASE Survey!AskBegin(t)
  BY <1>3, <1>4, <1>5
  DEF Survey!AskBegin, Survey!At, SurveyStep, Survey!db, Survey!reaper,
      Survey!chatwoot, SurveyOK
<1>6. CASE Survey!RateBegin(t)
  BY <1>3, <1>4, <1>6
  DEF Survey!RateBegin, Survey!At, SurveyStep, Survey!KeepDeadline,
      Survey!reaper, Survey!chatwoot, SurveyOK
<1> QED
  BY <1>1, <1>2, <1>5, <1>6 DEF Survey!Start

\* The reaper touches no thread.
LEMMA ReaperType ==
    ASSUME state \in [Conv -> State], ThreadsOK, SurveyOK, Survey!Reaper
    PROVE  state' \in [Conv -> State] /\ ThreadsOK' /\ SurveyOK'
<1>1. used' \in [DOMAIN Bound -> Nat] /\ UNCHANGED workers
  <2>1. \E ok \in BOOLEAN : Survey!ReaperCall(ok)
    BY DEF Survey!Reaper, Survey!ReaperClaim, Survey!ReaperResolve,
           Survey!ReaperComplete, Survey!ReaperClose
  <2>2. UNCHANGED used \/ Spend("faults")
    BY <2>1 DEF Survey!ReaperCall, Survey!Spend, Spend, Survey!Bound, Bound
  <2>3. UNCHANGED workers
    BY DEF Survey!Reaper, Survey!ReaperClaim, Survey!ReaperResolve,
           Survey!ReaperComplete, Survey!ReaperClose, Survey!workers, workers
  <2> QED
    BY <2>2, <2>3, SpendType DEF ThreadsOK, Bound
<1>2. ThreadsOK'
  BY <1>1 DEF ThreadsOK, workers
<1>3. CASE Survey!ReaperClaim
  BY <1>2, <1>3
  DEF Survey!ReaperClaim, Survey!Expired, Survey!Open, Survey!Status,
      Survey!chatwoot, SurveyOK
<1>4. CASE Survey!ReaperResolve
  <2>1. PICK c \in batch, ok \in BOOLEAN :
          /\ Survey!Resolve(c, IF ok THEN {TRUE} ELSE BOOLEAN)
          /\ IF ok THEN rpc' = "complete" /\ rconv' = c /\ UNCHANGED batch
             ELSE Survey!LeaveClosing(c)
    BY <1>4 DEF Survey!ReaperResolve
  <2>2. resolved' \in [Conv -> BOOLEAN]
    BY <2>1 DEF Survey!Resolve, SurveyOK
  <2> QED
    BY <1>2, <1>4, <2>1, <2>2
    DEF Survey!ReaperResolve, Survey!LeaveClosing, Survey!NextInBatch,
        Survey!db, SurveyOK
<1>5. CASE Survey!ReaperComplete
  BY <1>2, <1>5
  DEF Survey!ReaperComplete, Survey!Status, Survey!chatwoot, SurveyOK
<1>6. CASE Survey!ReaperClose
  BY <1>2, <1>6
  DEF Survey!ReaperClose, Survey!SaveState, State, CsatState,
      Survey!NextInBatch, Survey!chatwoot, SurveyOK
<1> QED
  BY <1>3, <1>4, <1>5, <1>6 DEF Survey!Reaper

\* Nor do the clock and the agents; an expired context and a crash do.
LEMMA EnvironmentType ==
    ASSUME ThreadsOK, SurveyOK,
           \/ Survey!Environment \/ Survey!Crash
           \/ \E c \in Conv : Survey!Expire(c)
    PROVE  state' = state /\ ThreadsOK' /\ SurveyOK'
<1>1. CASE \E c \in Conv : Survey!Expire(c)
  BY <1>1 DEF Survey!Expire, Survey!workers, Survey!reaper, Survey!chatwoot,
              ThreadsOK, SurveyOK
<1>2. ASSUME NEW c \in Conv, Survey!AgentLabels(c), Survey!Environment
      PROVE  state' = state /\ ThreadsOK' /\ SurveyOK'
  <2>1. used' \in [DOMAIN Bound -> Nat]
    BY <1>2, SpendType
    DEF Survey!AgentLabels, Survey!Spend, Spend, Survey!Bound, Bound,
        ThreadsOK
  <2> QED
    BY <1>2, <2>1
    DEF Survey!AgentLabels, Survey!Environment, Survey!workers,
        Survey!reaper, ThreadsOK, SurveyOK
<1>3. ASSUME NEW t \in Thread, Survey!CtxExpire(t), Survey!Environment
      PROVE  state' = state /\ ThreadsOK' /\ SurveyOK'
  <2>1. used' \in [DOMAIN Bound -> Nat]
    BY <1>3, SpendType
    DEF Survey!CtxExpire, Survey!Spend, Spend, Survey!Bound, Bound, ThreadsOK
  <2> QED
    BY <1>3, <2>1
    DEF Survey!CtxExpire, Survey!Environment, Survey!reaper, ThreadsOK,
        SurveyOK
<1>4. CASE Survey!Crash
  <2>1. used' \in [DOMAIN Bound -> Nat]
    BY <1>4, SpendType
    DEF Survey!Crash, Survey!CrashEngine, Survey!Spend, Spend, Survey!Bound,
        Bound, ThreadsOK
  <2>2. "idle" \in AnyStep /\ None \in AnyJob
        /\ "idle" \notin SurveyStep /\ "idle" \notin TriageStep
    BY DEF AnyStep, AnyJob, SurveyStep, TriageStep, Survey!Locked,
           Survey!AskStep, Survey!RateStep, Triage!TriageStep
  <2> QED
    BY <1>4, <2>1, <2>2
    DEF Survey!Crash, Survey!CrashEngine, ThreadsOK, SurveyOK
<1> QED
  BY <1>1, <1>2, <1>3, <1>4 DEF Survey!Environment

\* A triage's job with another turn, or another label, is one.
LEMMA TriageJobType ==
    ASSUME NEW j \in Triage!Job, NEW ts \in Seq(Nat), NEW n \in Nat,
           NEW l \in Label \union {None}
    PROVE  /\ [j EXCEPT !.turns = ts] \in Triage!Job
           /\ [j EXCEPT !.customer = n] \in Triage!Job
           /\ [j EXCEPT !.label = l] \in Triage!Job
BY DEF Triage!Job

\* The events of the triage.
LEMMA TriageEventType ==
    ASSUME ThreadsOK, TriageOK, NEW t \in Thread,
           \/ Triage!HandleMessageCreated(t) \/ Triage!HandleAudio(t)
           \/ Triage!HandleConversationUpdated(t)
    PROVE  state' = state /\ ThreadsOK' /\ TriageOK'
<1>1. ASSUME NEW c \in Conv, NEW ls \in LabelSet, NEW n \in Nat,
             NEW step \in {"begin", "transcribe"},
             Triage!Dispatch(t, step, Triage!NewJob(c, ls, n))
      PROVE  state' = state /\ ThreadsOK'
  <2>1. Triage!NewJob(c, ls, n) \in Triage!Job
    <3>1. <<>> \in Seq(Nat)
      OBVIOUS
    <3> QED
      BY <3>1 DEF Triage!NewJob, Triage!Job, Triage!LabelSet, LabelSet
  <2>2. Dispatch(t, step, Triage!NewJob(c, ls, n))
    BY <1>1
    DEF Triage!Dispatch, Dispatch, Triage!Spend, Spend, Triage!Bound, Bound
  <2> QED
    BY <2>1, <2>2, DispatchType
<1>2. CASE Triage!HandleMessageCreated(t)
  <2>1. PICK c \in Conv, ls \in LabelSet :
            Triage!HandleMessageCreated(t)!(c, ls)
    BY <1>2 DEF Triage!HandleMessageCreated, Triage!LabelSet, LabelSet
  <2>2. told[c] + 1 \in Nat
    BY DEF TriageOK
  <2> QED
    BY <1>1, <2>1, <2>2 DEF TriageOK
<1>3. CASE Triage!HandleAudio(t)
  BY <1>1, <1>3
  DEF Triage!HandleAudio, Triage!Proactive, Triage!LabelSet, LabelSet,
      Triage!history, TriageOK
<1>4. CASE Triage!HandleConversationUpdated(t)
  BY <1>1, <1>4
  DEF Triage!HandleConversationUpdated, Triage!Proactive, Triage!LabelSet,
      LabelSet, Triage!history, TriageOK
<1> QED
  BY <1>2, <1>3, <1>4

\* handleTriage takes the mutex with the turns it read.
LEMMA TriageBeginType ==
    ASSUME ThreadsOK, TriageOK, NEW t \in Thread, Triage!Begin(t)
    PROVE  state' = state /\ ThreadsOK' /\ TriageOK'
<1>1. PICK c \in Conv, ok \in BOOLEAN : Triage!Begin(t)!(c, ok)
  BY DEF Triage!Begin
<1> DEFINE customer == job[t].customer
           td == IF ok THEN Triage!LoadTriage(turns[c]) ELSE <<>>
           ts == IF customer = Triage!Proactive THEN td
                 ELSE Append(td, customer)
<1>2. state' = state /\ TriageOK'
  BY <1>1 DEF TriageOK, Triage!history
<1>3. used' \in [DOMAIN Bound -> Nat] /\ pc[t] = "begin"
  BY <1>1, TriageCallType DEF ThreadsOK, Triage!At
<1>4. CASE Triage!Return(t, c)
  BY <1>2, <1>3, <1>4, FinishType DEF Triage!Return, Triage!Finish, Finish
<1>5. CASE /\ Triage!LockConv(t, c)
           /\ pc' = [pc EXCEPT ![t] = "classify"]
           /\ job' = [job EXCEPT ![t].turns = ts]
           /\ UNCHANGED live
  <2>1. job[t] \in Triage!Job
    BY <1>3 DEF ThreadsOK, TriageStep
  <2>2. ts \in Seq(Nat)
    <3>1. customer \in Nat
      BY <2>1 DEF Triage!Job
    <3>2. td \in Seq(Nat)
      BY DEF TriageOK, Triage!LoadTriage
    <3> QED
      BY <3>1, <3>2
  <2> HIDE DEF ts
  <2>3. [job[t] EXCEPT !.turns = ts] \in Triage!Job
    BY <2>1, <2>2, NoneAssumption, TriageJobType DEF Triage!Job
  <2>4. job' = [job EXCEPT ![t] = [job[t] EXCEPT !.turns = ts]]
    BY <1>5
  <2>5. job' \in [Thread -> AnyJob]
    BY <2>3, <2>4 DEF ThreadsOK, AnyJob
  <2>6. lock' \in [0 .. ConvLockStripes - 1 -> Thread \union {None}]
    BY <1>5, LockType DEF Triage!LockConv, LockConv, Triage!StripeOf, StripeOf
  <2>7. "classify" \in TriageStep /\ job'[t] \in Triage!Job
    BY <2>3, <2>4 DEF TriageStep, Triage!TriageStep, ThreadsOK
  <2>8. \A u \in Thread \ {t} : job'[u] = job[u]
    BY <2>4 DEF ThreadsOK
  <2> QED
    BY <1>2, <1>3, <1>5, <2>5, <2>6, <2>7, <2>8, GoOnType
<1> QED
  BY <1>1, <1>4, <1>5

\* The steps of the triage.
LEMMA TriageStepType ==
    ASSUME state \in [Conv -> State], ThreadsOK, TriageOK, NEW t \in Thread,
           Triage!Step(t)
    PROVE  state' \in [Conv -> State] /\ ThreadsOK' /\ TriageOK'
<1>1. ASSUME NEW step \in TriageStep, NEW j \in Triage!Job,
             pc[t] \in TriageStep,
             job' = [job EXCEPT ![t] = j], pc' = [pc EXCEPT ![t] = step],
             UNCHANGED <<lock, live>>, used' \in [DOMAIN Bound -> Nat]
      PROVE  ThreadsOK'
  <2>1. job' \in [Thread -> AnyJob] /\ job'[t] = j
    BY <1>1 DEF ThreadsOK, AnyJob
  <2>2. lock' \in [0 .. ConvLockStripes - 1 -> Thread \union {None}]
    BY <1>1 DEF ThreadsOK
  <2>3. \A u \in Thread \ {t} : job'[u] = job[u]
    BY <1>1 DEF ThreadsOK
  <2> QED
    BY <1>1, <2>1, <2>2, <2>3, GoOnType
<1>2. ASSUME NEW step \in TriageStep, pc[t] \in TriageStep,
             Triage!Goto(t, step), used' \in [DOMAIN Bound -> Nat]
      PROVE  ThreadsOK'
  BY <1>1, <1>2 DEF Triage!Goto, ThreadsOK
<1>3. ASSUME Triage!Finish(t), used' \in [DOMAIN Bound -> Nat]
      PROVE  ThreadsOK'
  BY <1>3, FinishType DEF Triage!Finish, Finish
<1>4. {"begin", "classify", "reply", "save", "route.labels", "route.save",
       "transcribe"} \subseteq TriageStep
  BY DEF TriageStep, Triage!TriageStep
<1>5. pc[t] \in TriageStep => job[t] \in Triage!Job
  BY DEF ThreadsOK
<1>6. used' = used => used' \in [DOMAIN Bound -> Nat]
  BY DEF ThreadsOK
<1>7. ASSUME NEW c \in Conv, NEW s \in {"triage", "routed"},
             NEW ts \in Seq(Nat), NEW ok \in BOOLEAN,
             Triage!SaveRow(c, s, ts, ok)
      PROVE  /\ state' \in [Conv -> State]
             /\ turns' \in [Conv -> Seq(Nat)]
  BY <1>7 DEF Triage!SaveRow, Triage!SaveState, State, TriageOK
<1>8. CASE Triage!Transcribe(t)
  <2>1. PICK c \in Conv, ok \in BOOLEAN : Triage!Transcribe(t)!(c, ok)
    BY <1>8 DEF Triage!Transcribe
  <2>2. told[c] + 1 \in Nat /\ pc[t] = "transcribe"
    BY <2>1 DEF TriageOK, Triage!At
  <2>3. CASE ok
    <3>1. [job[t] EXCEPT !.customer = told[c] + 1] \in Triage!Job
      BY <1>4, <1>5, <2>2 DEF Triage!Job
    <3>2. job' = [job EXCEPT ![t] = [job[t] EXCEPT !.customer = told[c] + 1]]
      BY <2>1, <2>3
    <3> QED
      BY <1>1, <1>4, <1>6, <2>1, <2>2, <2>3, <3>1, <3>2 DEF TriageOK
  <2>4. CASE ~ok
    BY <1>3, <1>6, <2>1, <2>4 DEF TriageOK
  <2> QED
    BY <2>3, <2>4
<1>9. CASE Triage!ClassifyFails(t)
  BY <1>2, <1>4, <1>6, <1>9 DEF Triage!ClassifyFails, Triage!At, TriageOK
<1>10. CASE Triage!ClassifyReply(t)
  BY <1>2, <1>4, <1>6, <1>10
  DEF Triage!ClassifyReply, Triage!history, TriageOK
<1>11. CASE Triage!ClassifyRoute(t)
  <2>1. PICK action \in {"reply", "route"}, sector \in Sectors \union {None} :
            job' = [job EXCEPT ![t].label = Triage!SectorLabel(sector)]
    BY <1>11 DEF Triage!ClassifyRoute
  <2>2. pc[t] = "classify"
    BY <1>11 DEF Triage!ClassifyRoute
  <2>3. Triage!SectorLabel(sector) \in Label \union {None}
    BY BotAssumption DEF Triage!SectorLabel
  <2>4. [job[t] EXCEPT !.label = Triage!SectorLabel(sector)] \in Triage!Job
    BY <1>4, <1>5, <2>2, <2>3 DEF Triage!Job
  <2>5. job' = [job EXCEPT ![t] =
                  [job[t] EXCEPT !.label = Triage!SectorLabel(sector)]]
    BY <2>1
  <2> QED
    BY <1>1, <1>4, <1>6, <1>11, <2>2, <2>4, <2>5
    DEF Triage!ClassifyRoute, Triage!history, TriageOK
<1>12. CASE Triage!Reply(t)
  <2>1. PICK c \in Conv : Triage!Reply(t)!(c)
    BY <1>12 DEF Triage!Reply
  <2> DEFINE ts == Append(job[t].turns, Triage!BotTurn)
  <2>2. pc[t] = "reply" /\ job' = [job EXCEPT ![t].turns = ts]
    BY <2>1 DEF Triage!At
  <2>3. ts \in Seq(Nat)
    BY <1>4, <1>5, <2>2 DEF Triage!Job, Triage!BotTurn
  <2> HIDE DEF ts
  <2>4. [job[t] EXCEPT !.turns = ts] \in Triage!Job
    BY <1>4, <1>5, <2>2, <2>3 DEF Triage!Job
  <2>5. job' = [job EXCEPT ![t] = [job[t] EXCEPT !.turns = ts]]
    BY <2>2
  <2> QED
    BY <1>1, <1>4, <1>6, <2>1, <2>2, <2>4, <2>5 DEF TriageOK
<1>13. CASE Triage!Save(t)
  <2>1. PICK c \in Conv, ok \in BOOLEAN : Triage!Save(t)!(c, ok)
    BY <1>13 DEF Triage!Save
  <2>2. job[t].turns \in Seq(Nat)
    BY <1>4, <1>5, <2>1 DEF Triage!Job, Triage!At
  <2> QED
    BY <1>3, <1>7, <2>1, <2>2, TriageCallType
    DEF ThreadsOK, Triage!history, TriageOK
<1>14. CASE Triage!RouteLabels(t)
  <2>1. PICK c \in Conv, ok \in BOOLEAN : Triage!RouteLabels(t)!(c, ok)
    BY <1>14 DEF Triage!RouteLabels
  <2>2. used' \in [DOMAIN Bound -> Nat] /\ pc[t] \in TriageStep
    BY <1>4, <2>1, TriageCallType DEF ThreadsOK, Triage!At
  <2> QED
    BY <1>2, <1>3, <1>4, <2>1, <2>2 DEF Triage!history, TriageOK
<1>15. CASE Triage!RouteSave(t)
  <2>1. PICK c \in Conv, ok \in BOOLEAN : Triage!RouteSave(t)!(c, ok)
    BY <1>15 DEF Triage!RouteSave
  <2>2. <<>> \in Seq(Nat)
    OBVIOUS
  <2> QED
    BY <1>3, <1>7, <2>1, <2>2, TriageCallType
    DEF ThreadsOK, Triage!history, TriageOK
<1> QED
  BY <1>8, <1>9, <1>10, <1>11, <1>12, <1>13, <1>14, <1>15 DEF Triage!Step

\* A survey clears the data of its row; writes of a triage are counted.
LEMMA RowDataType ==
    ASSUME TypeInv
    PROVE  /\ ClearData => turns' \in [Conv -> Seq(Nat)]
           /\ CountRelapses => relapses' \in [Conv -> Nat]
<1>1. <<>> \in Seq(Nat)
  OBVIOUS
<1>2. ASSUME ClearData PROVE turns' \in [Conv -> Seq(Nat)]
  BY <1>1, <1>2 DEF ClearData, TypeInv, TriageOK
<1>3. ASSUME CountRelapses PROVE relapses' \in [Conv -> Nat]
  BY <1>3 DEF CountRelapses, TypeInv
<1> QED
  BY <1>2, <1>3

LEMMA NextType == TypeInv /\ [Next]_vars => TypeInv'
<1> SUFFICES ASSUME TypeInv, [Next]_vars PROVE TypeInv'
  OBVIOUS
<1> USE DEF TypeInv
<1>1. ASSUME NEW t \in Thread,
             \/ Triaging(Triage!HandleMessageCreated(t))
             \/ Triaging(Triage!HandleAudio(t))
             \/ Triaging(Triage!HandleConversationUpdated(t))
             \/ Triaging(Triage!Begin(t)) \/ Triaging(Triage!Step(t))
      PROVE  TypeInv'
  <2>1. SurveyOK' /\ relapses' \in [Conv -> Nat]
    BY <1>1, RowDataType DEF Triaging, survey, SurveyOK
  <2>2. state' \in [Conv -> State] /\ ThreadsOK' /\ TriageOK'
    BY <1>1, TriageEventType, TriageBeginType, TriageStepType DEF Triaging
  <2> QED
    BY <2>1, <2>2
<1>2. ASSUME \/ Reap \/ Environment \/ Crash
             \/ \E t \in Thread :
                    \/ Surveying(Survey!HandleMessageCreated(t))
                    \/ Surveying(Survey!HandleConversationUpdated(t))
                    \/ Surveying(Survey!Start(t)) \/ Surveying(Survey!Step(t))
             \/ \E c \in Conv : Expire(c)
      PROVE  TypeInv'
  <2>1. TriageOK' /\ relapses' \in [Conv -> Nat]
    BY <1>2, RowDataType
    DEF Reap, Environment, Crash, Expire, Surveying, TriageOK
  <2>2. state' \in [Conv -> State] /\ ThreadsOK' /\ SurveyOK'
    BY <1>2, SurveyStartType, SurveyStepType, ReaperType, EnvironmentType
    DEF Reap, Environment, Crash, Expire, Surveying
  <2> QED
    BY <2>1, <2>2
<1>3. CASE UNCHANGED vars
  BY <1>3 DEF vars, engine, workers, survey, triage, ThreadsOK, SurveyOK,
              TriageOK
<1> QED
  BY <1>1, <1>2, <1>3 DEF Next, HandleEvent, Start, Step

LEMMA InitTypes == Init => TypeInv
<1>1. "idle" \in AnyStep /\ None \in AnyJob
      /\ "idle" \notin SurveyStep /\ "idle" \notin TriageStep
  BY DEF AnyStep, AnyJob, SurveyStep, TriageStep, Survey!Locked,
         Survey!AskStep, Survey!RateStep, Triage!TriageStep
<1>2. <<>> \in Seq(Nat)
  OBVIOUS
<1>3. ASSUME Init PROVE ThreadsOK
  BY <1>1, <1>3
  DEF Init, Survey!Init, Survey!EngineInit, Survey!Bound, Bound, ThreadsOK
<1>4. ASSUME Init PROVE SurveyOK
  BY <1>4 DEF Init, Survey!Init, Survey!Status, SurveyOK
<1>5. ASSUME Init PROVE TriageOK
  BY <1>2, <1>5 DEF Init, Triage!Init, TriageOK
<1> QED
  BY <1>3, <1>4, <1>5 DEF Init, TypeInv, State

\* Every variable stays in its type and every thread holds a job of the flow
\* its step belongs to, however the flows mix.
THEOREM TypeCorrect == Spec => []TypeOK
<1>1. Init => TypeInv
  BY InitTypes
<1>2. TypeInv => TypeOK
  BY DEF TypeInv, ThreadsOK, SurveyOK, TypeOK, AnyStep
<1> QED
  BY <1>1, <1>2, NextType, PTL DEF Spec

-----------------------------------------------------------------------------
(* One thread at a time in the critical sections of a conversation *)

Held == Survey!Locked \union Triage!TriageStep

\* A thread inside a handler holds the mutex of its conversation.
LockHeld ==
    \A t \in Thread : pc[t] \in Held => lock[StripeOf(job[t].conv)] = t

\* What a step of t does to the mutexes: it takes that of its conversation,
\* works on with what it has, or gives back all it has.
Acquire(t) ==
    /\ lock[StripeOf(job[t].conv)] = None
    /\ lock' = [lock EXCEPT ![StripeOf(job[t].conv)] = t]
    /\ job[t].conv \in Conv /\ job'[t].conv = job[t].conv

WorkOn(t) ==
    /\ lock' = lock
    /\ pc'[t] \in Held => pc[t] \in Held /\ job'[t].conv = job[t].conv

Release(t) ==
    /\ lock' = [s \in DOMAIN lock |-> IF lock[s] = t THEN None ELSE lock[s]]
    /\ pc'[t] = "idle"

Moves(t) ==
    /\ \A u \in Thread \ {t} :
           pc'[u] = pc[u] /\ job'[u] = job[u] /\ live'[u] = live[u]
    /\ Acquire(t) \/ WorkOn(t) \/ Release(t)

WorkerStep(t) == HandleEvent(t) \/ Start(t) \/ Step(t)

LEMMA IdleIsFree == "idle" \notin Held
BY DEF Held, Survey!Locked, Survey!AskStep, Survey!RateStep, Triage!TriageStep

\* Events and ends of jobs.
LEMMA EventMoves ==
    ASSUME TypeInv, NEW t \in Thread, NEW step, NEW j
    PROVE  /\ Dispatch(t, step, j)
              /\ step \in {"ask.begin", "rate.begin", "begin", "transcribe"}
                  => Moves(t)
           /\ Finish(t) => Moves(t)
<1>1. ASSUME Dispatch(t, step, j),
             step \in {"ask.begin", "rate.begin", "begin", "transcribe"}
      PROVE  Moves(t)
  <2>1. step \notin Held
    BY <1>1 DEF Held, Survey!Locked, Survey!AskStep, Survey!RateStep,
                Triage!TriageStep
  <2> QED
    BY <1>1, <2>1 DEF Dispatch, Moves, WorkOn, TypeInv, ThreadsOK
<1>2. ASSUME Finish(t) PROVE Moves(t)
  BY <1>2 DEF Finish, Moves, Release, TypeInv, ThreadsOK
<1> QED
  BY <1>1, <1>2

\* The steps of the survey.
LEMMA SurveyMoves ==
    ASSUME TypeInv, NEW t \in Thread,
           \/ Survey!HandleMessageCreated(t)
           \/ Survey!HandleConversationUpdated(t)
           \/ Survey!Start(t) \/ Survey!Step(t)
    PROVE  Moves(t)
<1>1. ASSUME NEW step, NEW j, Survey!Dispatch(t, step, j),
             step \in {"ask.begin", "rate.begin"}
      PROVE  Moves(t)
  BY <1>1, EventMoves
  DEF Survey!Dispatch, Dispatch, Survey!Spend, Spend, Survey!Bound, Bound
<1>2. ASSUME Survey!Finish(t) PROVE Moves(t)
  BY <1>2, EventMoves DEF Survey!Finish, Finish
<1>3. ASSUME NEW step, Survey!Goto(t, step), pc[t] \in Survey!Locked
      PROVE  Moves(t)
  BY <1>3 DEF Survey!Goto, Moves, WorkOn, Held, TypeInv, ThreadsOK
<1>4. ASSUME NEW c \in Conv, NEW step, c = job[t].conv,
             Survey!LockConv(t, c), pc' = [pc EXCEPT ![t] = step],
             UNCHANGED <<job, live>>
      PROVE  Moves(t)
  BY <1>4
  DEF Survey!LockConv, Survey!StripeOf, StripeOf, Moves, Acquire, TypeInv,
      ThreadsOK
<1>5. CASE \/ Survey!HandleMessageCreated(t)
           \/ Survey!HandleConversationUpdated(t)
  BY <1>1, <1>5
  DEF Survey!HandleMessageCreated, Survey!HandleConversationUpdated
<1>6. CASE Survey!Start(t)
  BY <1>2, <1>4, <1>6
  DEF Survey!Start, Survey!AskBegin, Survey!RateBegin, Survey!Return,
      Survey!At
<1>7. CASE Survey!Step(t)
  BY <1>2, <1>3, <1>7
  DEF Survey!Step, Survey!AskSave, Survey!AskPrompt, Survey!AskDeadline,
      Survey!RateRecord, Survey!RateUnlabel, Survey!RateAnswered,
      Survey!RateResolve, Survey!RateDone, Survey!At, Survey!Locked,
      Survey!AskStep, Survey!RateStep
<1> QED
  BY <1>5, <1>6, <1>7

\* The steps of the triage.
LEMMA TriageMoves ==
    ASSUME TypeInv, NEW t \in Thread,
           \/ Triage!HandleMessageCreated(t) \/ Triage!HandleAudio(t)
           \/ Triage!HandleConversationUpdated(t)
           \/ Triage!Begin(t) \/ Triage!Step(t)
    PROVE  Moves(t)
<1>1. ASSUME NEW step, NEW j, Triage!Dispatch(t, step, j),
             step \in {"begin", "transcribe"}
      PROVE  Moves(t)
  BY <1>1, EventMoves
  DEF Triage!Dispatch, Dispatch, Triage!Spend, Spend, Triage!Bound, Bound
<1>2. ASSUME Triage!Finish(t) PROVE Moves(t)
  BY <1>2, EventMoves DEF Triage!Finish, Finish
<1>3. ASSUME NEW step, Triage!Goto(t, step), pc[t] \in Triage!TriageStep
      PROVE  Moves(t)
  BY <1>3 DEF Triage!Goto, Moves, WorkOn, Held, TypeInv, ThreadsOK
<1>4. pc[t] \in TriageStep => job[t] \in Triage!Job
  BY DEF TypeInv, ThreadsOK
<1>5. ASSUME NEW step, NEW ts, pc[t] \in TriageStep,
             pc' = [pc EXCEPT ![t] = step],
             \/ job' = [job EXCEPT ![t].turns = ts]
             \/ job' = [job EXCEPT ![t].customer = ts]
             \/ job' = [job EXCEPT ![t].label = ts]
      PROVE  /\ job'[t].conv = job[t].conv /\ job[t].conv \in Conv
             /\ pc'[t] = step
             /\ \A u \in Thread \ {t} : pc'[u] = pc[u] /\ job'[u] = job[u]
  <2>1. job \in [Thread -> AnyJob] /\ job[t] \in Triage!Job
    BY <1>4, <1>5 DEF TypeInv, ThreadsOK
  <2> QED
    BY <1>5, <2>1 DEF TypeInv, ThreadsOK, Triage!Job
<1>6. {"begin", "transcribe", "classify", "reply"} \subseteq TriageStep
  BY DEF TriageStep, Triage!TriageStep
<1>7. CASE \/ Triage!HandleMessageCreated(t) \/ Triage!HandleAudio(t)
           \/ Triage!HandleConversationUpdated(t)
  BY <1>1, <1>7
  DEF Triage!HandleMessageCreated, Triage!HandleAudio,
      Triage!HandleConversationUpdated
<1>8. CASE Triage!Begin(t)
  <2>1. PICK c \in Conv, ok \in BOOLEAN : Triage!Begin(t)!(c, ok)
    BY <1>8 DEF Triage!Begin
  <2>2. pc[t] = "begin" /\ c = job[t].conv
    BY <2>1 DEF Triage!At
  <2>3. CASE Triage!Return(t, c)
    BY <1>2, <2>3 DEF Triage!Return
  <2>4. CASE ~ Triage!Return(t, c)
    <3>1. PICK ts : /\ Triage!LockConv(t, c)
                    /\ pc' = [pc EXCEPT ![t] = "classify"]
                    /\ job' = [job EXCEPT ![t].turns = ts]
                    /\ UNCHANGED live
      BY <2>1, <2>4
    <3>2. /\ job'[t].conv = job[t].conv /\ job[t].conv \in Conv
          /\ \A u \in Thread \ {t} : pc'[u] = pc[u] /\ job'[u] = job[u]
      BY <1>5, <1>6, <2>2, <3>1
    <3> QED
      BY <2>2, <3>1, <3>2
      DEF Triage!LockConv, Triage!StripeOf, StripeOf, Moves, Acquire
  <2> QED
    BY <2>3, <2>4
<1>9. CASE Triage!Transcribe(t)
  <2>1. PICK c \in Conv, ok \in BOOLEAN : Triage!Transcribe(t)!(c, ok)
    BY <1>9 DEF Triage!Transcribe
  <2>2. CASE ok
    <3>1. /\ pc'[t] = "begin" /\ UNCHANGED <<lock, live>>
          /\ \A u \in Thread \ {t} : pc'[u] = pc[u] /\ job'[u] = job[u]
      BY <1>5, <1>6, <2>1, <2>2 DEF Triage!At
    <3>2. "begin" \notin Held
      BY DEF Held, Survey!Locked, Survey!AskStep, Survey!RateStep,
             Triage!TriageStep
    <3> QED
      BY <3>1, <3>2 DEF Moves, WorkOn
  <2> QED
    BY <1>2, <2>1, <2>2
<1>10. CASE Triage!ClassifyRoute(t)
  <2>1. PICK action \in {"reply", "route"}, sector \in Sectors \union {None} :
            job' = [job EXCEPT ![t].label = Triage!SectorLabel(sector)]
    BY <1>10 DEF Triage!ClassifyRoute
  <2>2. /\ pc[t] = "classify" /\ pc' = [pc EXCEPT ![t] = "route.labels"]
        /\ UNCHANGED <<lock, live>>
    BY <1>10 DEF Triage!ClassifyRoute
  <2>3. /\ job'[t].conv = job[t].conv
        /\ \A u \in Thread \ {t} : pc'[u] = pc[u] /\ job'[u] = job[u]
    BY <1>5, <1>6, <2>1, <2>2
  <2> QED
    BY <2>2, <2>3 DEF Moves, WorkOn, Held, Triage!TriageStep
<1>11. CASE Triage!Reply(t)
  <2>1. PICK c \in Conv : Triage!Reply(t)!(c)
    BY <1>11 DEF Triage!Reply
  <2>2. /\ pc[t] = "reply" /\ pc' = [pc EXCEPT ![t] = "save"]
        /\ UNCHANGED <<lock, live>>
    BY <2>1 DEF Triage!At
  <2>3. \E ts : job' = [job EXCEPT ![t].turns = ts]
    BY <2>1
  <2>4. /\ job'[t].conv = job[t].conv
        /\ \A u \in Thread \ {t} : pc'[u] = pc[u] /\ job'[u] = job[u]
    BY <1>5, <1>6, <2>2, <2>3
  <2> QED
    BY <2>2, <2>4 DEF Moves, WorkOn, Held, Triage!TriageStep
<1>12. CASE \/ Triage!ClassifyFails(t) \/ Triage!ClassifyReply(t)
            \/ Triage!Save(t) \/ Triage!RouteLabels(t)
            \/ Triage!RouteSave(t)
  BY <1>2, <1>3, <1>12
  DEF Triage!ClassifyFails, Triage!ClassifyReply, Triage!Save,
      Triage!RouteLabels, Triage!RouteSave, Triage!At, Triage!TriageStep
<1> QED
  BY <1>7, <1>8, <1>9, <1>10, <1>11, <1>12 DEF Triage!Step

LEMMA WorkerMoves ==
    ASSUME TypeInv, NEW t \in Thread, WorkerStep(t) PROVE Moves(t)
BY SurveyMoves, TriageMoves
DEF WorkerStep, HandleEvent, Start, Step, Surveying, Triaging

\* The other steps leave the threads and mutexes alone, expire a context or
\* start from nothing.
Quiet ==
    \/ UNCHANGED <<lock, pc, job>> /\ \A t \in Thread : live'[t] => live[t]
    \/ \A t \in Thread : pc'[t] = "idle"

OtherStep ==
    Reap \/ (\E c \in Conv : Expire(c)) \/ Environment \/ Crash
    \/ UNCHANGED vars

LEMMA OthersAreQuiet ==
    ASSUME TypeInv, OtherStep PROVE Quiet
<1>1. CASE UNCHANGED workers
  BY <1>1 DEF workers, Quiet
<1>2. CASE Environment
  BY <1>2 DEF Environment, Surveying, Survey!Environment, Survey!AgentLabels,
              Survey!CtxExpire, Survey!workers, Quiet, TypeInv, ThreadsOK
<1>3. CASE Crash
  BY <1>3 DEF Crash, Surveying, Survey!Crash, Survey!CrashEngine, Quiet
<1>4. CASE Reap \/ (\E c \in Conv : Expire(c)) \/ UNCHANGED vars
  <2>1. UNCHANGED workers
    BY <1>4
    DEF Reap, Expire, Surveying, Survey!Reaper, Survey!ReaperClaim,
        Survey!ReaperResolve, Survey!ReaperComplete, Survey!ReaperClose,
        Survey!Expire, Survey!workers, workers, vars, engine
  <2> QED
    BY <1>1, <2>1
<1> QED
  BY <1>2, <1>3, <1>4 DEF OtherStep

\* Mutual exclusion per stripe.
LEMMA NextHeld ==
    ASSUME TypeInv, TypeInv', LockHeld, [Next]_vars PROVE LockHeld'
<1> USE NoneAssumption DEF TypeInv, ThreadsOK
<1>1. ASSUME NEW t \in Thread, pc[t] \in Held PROVE job[t].conv \in Conv
  BY <1>1 DEF Held, SurveyStep, TriageStep, Survey!Job, Triage!Job
<1>2. ASSUME NEW t \in Thread, WorkerStep(t) PROVE LockHeld'
  <2>1. Moves(t)
    BY <1>2, WorkerMoves
  <2>2. CASE Acquire(t)
    <3>1. \A u \in Thread \ {t} : pc[u] \in Held =>
              StripeOf(job[u].conv) # StripeOf(job[t].conv)
      BY <2>2 DEF Acquire, LockHeld
    <3>2. StripeOf(job[t].conv) \in DOMAIN lock
      BY <2>2, StripeInRange DEF Acquire
    <3>3. ASSUME NEW u \in Thread, pc'[u] \in Held
          PROVE  lock'[StripeOf(job'[u].conv)] = u
      <4>1. CASE u = t
        BY <2>2, <3>2, <4>1 DEF Acquire
      <4>2. CASE u # t
        <5>1. pc[u] \in Held /\ job'[u] = job[u]
          BY <2>1, <3>3, <4>2 DEF Moves
        <5>2. lock[StripeOf(job[u].conv)] = u
          BY <5>1 DEF LockHeld
        <5>3. StripeOf(job[u].conv) # StripeOf(job[t].conv)
          BY <3>1, <4>2, <5>1
        <5> QED
          BY <2>2, <5>1, <5>2, <5>3 DEF Acquire
      <4> QED
        BY <4>1, <4>2
    <3> QED
      BY <3>3 DEF LockHeld
  <2>3. CASE WorkOn(t)
    <3>1. ASSUME NEW u \in Thread, pc'[u] \in Held
          PROVE  pc[u] \in Held /\ job'[u].conv = job[u].conv
      BY <2>1, <2>3, <3>1 DEF Moves, WorkOn
    <3>2. ASSUME NEW u \in Thread, pc'[u] \in Held
          PROVE  lock'[StripeOf(job'[u].conv)] = u
      <4>1. lock[StripeOf(job[u].conv)] = u
        BY <3>1, <3>2 DEF LockHeld
      <4> QED
        BY <2>3, <3>1, <3>2, <4>1 DEF WorkOn
    <3> QED
      BY <3>2 DEF LockHeld
  <2>4. CASE Release(t)
    <3>1. ASSUME NEW u \in Thread, pc'[u] \in Held
          PROVE  lock'[StripeOf(job'[u].conv)] = u
      <4>1. u # t
        BY <2>4, <3>1, IdleIsFree DEF Release
      <4>2. pc[u] \in Held /\ job'[u] = job[u]
        BY <2>1, <3>1, <4>1 DEF Moves
      <4>3. lock[StripeOf(job[u].conv)] = u
        BY <4>2 DEF LockHeld
      <4>4. StripeOf(job[u].conv) \in DOMAIN lock
        BY <1>1, <4>2, StripeInRange
      <4> QED
        BY <2>4, <4>1, <4>2, <4>3, <4>4 DEF Release
    <3> QED
      BY <3>1 DEF LockHeld
  <2> QED
    BY <2>1, <2>2, <2>3, <2>4 DEF Moves
<1>3. ASSUME OtherStep PROVE LockHeld'
  BY <1>3, OthersAreQuiet, IdleIsFree DEF Quiet, LockHeld
<1> QED
  BY <1>2, <1>3 DEF Next, WorkerStep, OtherStep

-----------------------------------------------------------------------------
(* The row follows its life cycle *)

\* What a thread in a critical section knows of the row, while its context
\* lives and no call has failed; the reaper may close a survey meanwhile.
Knows(t) ==
    /\ pc[t] \in Triage!TriageStep => state[job[t].conv] # "routed"
    /\ pc[t] = "ask.save" =>
           state[job[t].conv] \notin {"csat_pending", "csat_done"}
    /\ pc[t] \in Survey!RateStep =>
           state[job[t].conv] \in {"csat_pending", "closed_timeout"}
    /\ pc[t] = "rate.done" => resolved[job[t].conv]

PhaseInv ==
    used.faults = 0 => \A t \in Thread : live[t] => Knows(t)

\* The reaper closes what it resolved.
ReaperInv == rpc \in {"complete", "close"} => resolved[rconv]

BotInv == TypeInv /\ LockHeld /\ PhaseInv /\ ReaperInv

\* What a step of a thread or of the reaper writes.
Write(t, step, s) ==
    /\ pc[t] = step /\ live[t] /\ job[t].conv \in Conv
    /\ state' = [state EXCEPT ![job[t].conv] = s]
    /\ resolved' = resolved

Writes(t) ==
    \/ Write(t, "ask.save", "csat_pending") /\ pc'[t] = "ask.prompt"
    \/ Write(t, "rate.done", "csat_done") /\ pc'[t] = "idle"
    \/ Write(t, "save", "triage") /\ pc'[t] = "idle"
    \/ Write(t, "route.save", "routed") /\ pc'[t] = "idle"

Resolves ==
    /\ state' = state
    /\ \/ resolved' = resolved
       \/ \E c \in Conv : resolved' = [resolved EXCEPT ![c] = TRUE]

ReaperCloses ==
    /\ rpc = "close" /\ rconv \in Conv
    /\ state' = [state EXCEPT ![rconv] = "closed_timeout"]
    /\ resolved' = resolved

\* The calls to Chatwoot that resolve a conversation.
LEMMA ResolveResolves ==
    ASSUME TypeInv, NEW c \in Conv, NEW outcomes \in SUBSET BOOLEAN,
           Survey!Resolve(c, outcomes), state' = state
    PROVE  Resolves
<1>1. PICK applied \in BOOLEAN :
          resolved' = [resolved EXCEPT ![c] = @ \/ applied]
  BY DEF Survey!Resolve
<1>2. resolved \in [Conv -> BOOLEAN]
  BY DEF TypeInv, SurveyOK
<1>3. CASE resolved[c] \/ applied
  <2>1. resolved' = [resolved EXCEPT ![c] = TRUE]
    BY <1>1, <1>2, <1>3
  <2> QED
    BY <2>1 DEF Resolves
<1>4. CASE ~(resolved[c] \/ applied)
  <2>1. resolved' = resolved
    BY <1>1, <1>2, <1>4
  <2> QED
    BY <2>1 DEF Resolves
<1> QED
  BY <1>3, <1>4

LEMMA SurveyWrites ==
    ASSUME TypeInv, NEW t \in Thread,
           \/ Survey!HandleMessageCreated(t)
           \/ Survey!HandleConversationUpdated(t)
           \/ Survey!Start(t) \/ Survey!Step(t)
    PROVE  Writes(t) \/ Resolves
<1>1. ASSUME NEW ok \in BOOLEAN, ok, Survey!Call(t, ok) PROVE live[t]
  BY <1>1 DEF Survey!Call
<1>2. CASE Survey!AskSave(t)
  <2>1. PICK c \in Conv, ok \in BOOLEAN : Survey!AskSave(t)!(c, ok)
    BY <1>2 DEF Survey!AskSave
  <2>2. pc'[t] = "ask.prompt" /\ resolved' = resolved
    BY <2>1 DEF Survey!Goto, Survey!chatwoot, TypeInv, ThreadsOK
  <2> QED
    BY <1>1, <2>1, <2>2
    DEF Survey!At, Survey!SaveState, Writes, Write, Resolves
<1>3. CASE Survey!RateDone(t)
  <2>1. PICK c \in Conv, ok \in BOOLEAN : Survey!RateDone(t)!(c, ok)
    BY <1>3 DEF Survey!RateDone
  <2>2. pc'[t] = "idle" /\ resolved' = resolved
    BY <2>1 DEF Survey!Finish, Survey!chatwoot, TypeInv, ThreadsOK
  <2> QED
    BY <1>1, <2>1, <2>2
    DEF Survey!At, Survey!SaveState, Writes, Write, Resolves
<1>4. CASE Survey!RateResolve(t)
  <2>1. PICK c \in Conv, ok \in BOOLEAN : Survey!RateResolve(t)!(c, ok)
    BY <1>4 DEF Survey!RateResolve
  <2>2. Survey!CarriedOut(t, ok) \in SUBSET BOOLEAN
    BY DEF Survey!CarriedOut
  <2> QED
    BY <2>1, <2>2, ResolveResolves DEF Survey!db
<1>5. CASE UNCHANGED <<state, resolved>>
  BY <1>5 DEF Resolves
<1> QED
  BY <1>2, <1>3, <1>4, <1>5
  DEF Survey!Start, Survey!Step, Survey!HandleMessageCreated,
      Survey!HandleConversationUpdated, Survey!Dispatch, Survey!AskBegin,
      Survey!RateBegin, Survey!AskPrompt, Survey!AskDeadline,
      Survey!RateRecord, Survey!RateUnlabel, Survey!RateAnswered, Survey!db,
      Survey!chatwoot

LEMMA TriageWrites ==
    ASSUME TypeInv, NEW t \in Thread, resolved' = resolved,
           \/ Triage!HandleMessageCreated(t) \/ Triage!HandleAudio(t)
           \/ Triage!HandleConversationUpdated(t)
           \/ Triage!Begin(t) \/ Triage!Step(t)
    PROVE  Writes(t) \/ Resolves
<1>1. ASSUME NEW ok \in BOOLEAN, ok, Triage!Call(t, ok) PROVE live[t]
  BY <1>1 DEF Triage!Call
<1>2. CASE Triage!Save(t)
  <2>1. PICK c \in Conv, ok \in BOOLEAN : Triage!Save(t)!(c, ok)
    BY <1>2 DEF Triage!Save
  <2>2. pc'[t] = "idle"
    BY <2>1 DEF Triage!Finish, TypeInv, ThreadsOK
  <2> QED
    BY <1>1, <2>1, <2>2
    DEF Triage!At, Triage!SaveRow, Triage!SaveState, Writes, Write, Resolves
<1>3. CASE Triage!RouteSave(t)
  <2>1. PICK c \in Conv, ok \in BOOLEAN : Triage!RouteSave(t)!(c, ok)
    BY <1>3 DEF Triage!RouteSave
  <2>2. pc'[t] = "idle"
    BY <2>1 DEF Triage!Finish, TypeInv, ThreadsOK
  <2> QED
    BY <1>1, <2>1, <2>2
    DEF Triage!At, Triage!SaveRow, Triage!SaveState, Writes, Write, Resolves
<1>4. CASE state' = state
  BY <1>4 DEF Resolves
<1> QED
  BY <1>2, <1>3, <1>4
  DEF Triage!Step, Triage!HandleMessageCreated, Triage!HandleAudio,
      Triage!HandleConversationUpdated, Triage!Dispatch, Triage!Begin,
      Triage!Transcribe, Triage!ClassifyFails, Triage!ClassifyReply,
      Triage!ClassifyRoute, Triage!Reply, Triage!RouteLabels

LEMMA WorkerWrites ==
    ASSUME TypeInv, NEW t \in Thread, WorkerStep(t)
    PROVE  Writes(t) \/ Resolves
BY SurveyWrites, TriageWrites
DEF WorkerStep, HandleEvent, Start, Step, Surveying, Triaging, survey

LEMMA OtherWrites ==
    ASSUME TypeInv, OtherStep PROVE ReaperCloses \/ Resolves
<1>1. CASE Survey!ReaperClose
  BY <1>1
  DEF Survey!ReaperClose, Survey!SaveState, Survey!chatwoot, ReaperCloses,
      Resolves, TypeInv, SurveyOK
<1>2. CASE Survey!ReaperResolve
  <2>1. PICK c \in batch, ok \in BOOLEAN :
            Survey!Resolve(c, IF ok THEN {TRUE} ELSE BOOLEAN)
    BY <1>2 DEF Survey!ReaperResolve
  <2>2. state' = state /\ c \in Conv
    BY <1>2 DEF Survey!ReaperResolve, Survey!db, TypeInv, SurveyOK
  <2> QED
    BY <2>1, <2>2, ResolveResolves
<1>3. CASE UNCHANGED <<state, resolved>>
  BY <1>3 DEF Resolves
<1> QED
  BY <1>1, <1>2, <1>3
  DEF OtherStep, Reap, Expire, Environment, Crash, Surveying, Survey!Reaper,
      Survey!ReaperClaim, Survey!ReaperComplete, Survey!Expire,
      Survey!Environment, Survey!AgentLabels, Survey!CtxExpire, Survey!Crash,
      Survey!CrashEngine, Survey!chatwoot, vars, engine, survey

\* A step spends from one bound at most.
SpendsOnce == UNCHANGED used \/ \E r \in DOMAIN Bound : Spend(r)

LEMMA StepSpends == [Next]_vars => SpendsOnce
<1> SUFFICES ASSUME [Next]_vars PROVE SpendsOnce
  OBVIOUS
<1>1. ASSUME NEW r \in DOMAIN Bound, Survey!Spend(r) \/ Triage!Spend(r)
      PROVE  SpendsOnce
  BY <1>1
  DEF Survey!Spend, Triage!Spend, Spend, Survey!Bound, Triage!Bound, Bound,
      SpendsOnce
<1>2. ASSUME \/ \E t \in Thread, ok \in BOOLEAN :
                   Survey!Call(t, ok) \/ Triage!Call(t, ok)
             \/ \E ok \in BOOLEAN : Survey!ReaperCall(ok)
      PROVE  SpendsOnce
  BY <1>1, <1>2
  DEF Survey!Call, Triage!Call, Survey!ReaperCall, SpendsOnce, Bound
<1>3. ASSUME UNCHANGED used PROVE SpendsOnce
  BY <1>3 DEF SpendsOnce
<1>4. ASSUME NEW t \in Thread,
             \/ Survey!HandleMessageCreated(t)
             \/ Survey!HandleConversationUpdated(t)
             \/ Survey!Start(t) \/ Survey!Step(t)
      PROVE  SpendsOnce
  <2>1. CASE \/ Survey!HandleMessageCreated(t)
             \/ Survey!HandleConversationUpdated(t)
    BY <1>1, <2>1
    DEF Survey!HandleMessageCreated, Survey!HandleConversationUpdated,
        Survey!Dispatch, Bound
  <2>2. CASE Survey!AskPrompt(t)
    BY <1>3, <2>2 DEF Survey!AskPrompt
  <2> QED
    BY <1>2, <1>4, <2>1, <2>2
    DEF Survey!Start, Survey!Step, Survey!AskBegin, Survey!RateBegin,
        Survey!AskSave, Survey!AskDeadline, Survey!RateRecord,
        Survey!RateUnlabel, Survey!RateAnswered, Survey!RateResolve,
        Survey!RateDone
<1>5. ASSUME NEW t \in Thread,
             \/ Triage!HandleMessageCreated(t) \/ Triage!HandleAudio(t)
             \/ Triage!HandleConversationUpdated(t)
             \/ Triage!Begin(t) \/ Triage!Step(t)
      PROVE  SpendsOnce
  <2>1. CASE \/ Triage!HandleMessageCreated(t) \/ Triage!HandleAudio(t)
             \/ Triage!HandleConversationUpdated(t)
    BY <1>1, <2>1
    DEF Triage!HandleMessageCreated, Triage!HandleAudio,
        Triage!HandleConversationUpdated, Triage!Dispatch, Bound
  <2> QED
    BY <1>2, <1>3, <1>5, <2>1
    DEF Triage!Begin, Triage!Step, Triage!Transcribe, Triage!ClassifyFails,
        Triage!ClassifyReply, Triage!ClassifyRoute, Triage!Reply,
        Triage!Save, Triage!RouteLabels, Triage!RouteSave
<1>6. ASSUME Survey!Reaper PROVE SpendsOnce
  BY <1>2, <1>6
  DEF Survey!Reaper, Survey!ReaperClaim, Survey!ReaperResolve,
      Survey!ReaperComplete, Survey!ReaperClose
<1>7. ASSUME Survey!Environment \/ Survey!Crash PROVE SpendsOnce
  BY <1>1, <1>7
  DEF Survey!Environment, Survey!AgentLabels, Survey!CtxExpire,
      Survey!Crash, Survey!CrashEngine, Bound
<1>8. ASSUME (\E c \in Conv : Survey!Expire(c)) \/ UNCHANGED vars
      PROVE  SpendsOnce
  BY <1>3, <1>8 DEF Survey!Expire, vars, engine
<1> QED
  BY <1>4, <1>5, <1>6, <1>7, <1>8
  DEF Next, HandleEvent, Start, Step, Reap, Expire, Environment, Crash,
      Surveying, Triaging

\* Nothing that was spent is taken back.
LEMMA UsedGrows ==
    ASSUME TypeInv, [Next]_vars
    PROVE  \A r \in DOMAIN Bound :
               used[r] \in Nat /\ used'[r] \in Nat /\ used'[r] >= used[r]
<1>1. used \in [DOMAIN Bound -> Nat]
  BY DEF TypeInv, ThreadsOK
<1> QED
  BY <1>1, StepSpends, SpendOne DEF SpendsOnce

\* Nothing takes back a fault or a resolved conversation.
LEMMA Grows ==
    ASSUME TypeInv, [Next]_vars
    PROVE  /\ used["faults"] \in Nat /\ used'["faults"] \in Nat
           /\ used'["faults"] >= used["faults"]
           /\ \A c \in Conv : resolved[c] => resolved'[c]
<1>1. used["faults"] \in Nat /\ used'["faults"] \in Nat
  BY UsedGrows DEF Bound
<1>2. used'["faults"] >= used["faults"]
  BY UsedGrows DEF Bound
<1>3. \A c \in Conv : resolved[c] => resolved'[c]
  <2>1. (\E t \in Thread : Writes(t)) \/ ReaperCloses \/ Resolves
    BY WorkerWrites, OtherWrites DEF Next, WorkerStep, OtherStep
  <2> QED
    BY <2>1 DEF Writes, Write, ReaperCloses, Resolves, TypeInv, SurveyOK
<1> QED
  BY <1>1, <1>2, <1>3

\* A thread that stays in its critical section, while its row and what it
\* resolved stay, knows what it knew.
LEMMA KeepsKnowing ==
    ASSUME NEW t \in Thread, Knows(t), job'[t].conv = job[t].conv,
           state'[job[t].conv] = state[job[t].conv],
           resolved[job[t].conv] => resolved'[job[t].conv],
           pc'[t] \in Triage!TriageStep => pc[t] \in Triage!TriageStep,
           pc'[t] \in Survey!RateStep => pc[t] \in Survey!RateStep,
           pc'[t] = "ask.save" => pc[t] = "ask.save",
           pc'[t] = "rate.done" => pc[t] = "rate.done"
    PROVE  Knows(t)'
BY DEF Knows

\* The steps of the survey, and what of them is known.
LEMMA Apart ==
    /\ \A step \in Survey!RateStep \union {"ask.save", "ask.prompt", "idle",
            "ask.deadline", "ask.begin", "rate.begin", "begin", "transcribe"} :
           step \notin Triage!TriageStep
    /\ \A step \in {"ask.save", "ask.prompt", "idle", "ask.deadline",
            "ask.begin", "rate.begin", "begin", "transcribe"} :
           step \notin Survey!RateStep
    /\ {"rate.record", "rate.unlabel", "rate.answered", "rate.resolve",
        "rate.done"} = Survey!RateStep
    /\ {"classify", "reply", "save", "route.labels", "route.save"} =
           Triage!TriageStep
BY DEF Survey!RateStep, Triage!TriageStep

\* A thread of the survey reads the row under the mutex of its conversation.
LEMMA SurveyKnows ==
    ASSUME BotInv, NEW t \in Thread, used["faults"] = 0, used'["faults"] = 0,
           \A c \in Conv : resolved[c] => resolved'[c], live'[t],
           \/ Survey!HandleMessageCreated(t)
           \/ Survey!HandleConversationUpdated(t)
           \/ Survey!Start(t) \/ Survey!Step(t)
    PROVE  Knows(t)'
<1> USE DEF BotInv, TypeInv, ThreadsOK
<1>1. ASSUME NEW ok \in BOOLEAN, Survey!Call(t, ok), live[t] PROVE ok
  BY <1>1, SurveyCallType, CallType
<1>2. live[t] => Knows(t)
  BY DEF PhaseInv
<1>3. ASSUME pc'[t] \in {"idle", "ask.begin", "rate.begin", "ask.prompt",
                         "ask.deadline"}
      PROVE  Knows(t)'
  BY <1>3, Apart DEF Knows
<1>4. CASE \/ Survey!HandleMessageCreated(t)
           \/ Survey!HandleConversationUpdated(t)
  <2>1. pc'[t] \in {"ask.begin", "rate.begin"}
    BY <1>4
    DEF Survey!HandleMessageCreated, Survey!HandleConversationUpdated,
        Survey!Dispatch
  <2> QED
    BY <1>3, <2>1
<1>5. CASE Survey!AskBegin(t)
  <2>1. PICK c \in Conv, ok \in BOOLEAN : Survey!AskBegin(t)!(c, ok)
    BY <1>5 DEF Survey!AskBegin
  <2>2. CASE Survey!Return(t, c)
    BY <1>3, <2>2 DEF Survey!Return, Survey!Finish
  <2>3. CASE ~ Survey!Return(t, c)
    <3>1. /\ ~(ok /\ Survey!AlreadyStarted(state[c])) /\ UNCHANGED <<job, live>>
          /\ pc'[t] = "ask.save" /\ state' = state
      BY <2>1, <2>3 DEF Survey!db
    <3>2. state[c] \notin {"csat_pending", "csat_done"}
      BY <1>1, <2>1, <3>1
      DEF Survey!AlreadyStarted, Survey!CsatState
    <3> QED
      BY <2>1, <3>1, <3>2, Apart DEF Knows, Survey!At
  <2> QED
    BY <2>2, <2>3
<1>6. CASE Survey!RateBegin(t)
  <2>1. PICK c \in Conv, ok \in BOOLEAN : Survey!RateBegin(t)!(c, ok)
    BY <1>6 DEF Survey!RateBegin
  <2>2. CASE Survey!Return(t, c)
    BY <1>3, <2>2 DEF Survey!Return, Survey!Finish
  <2>3. CASE ~ Survey!Return(t, c)
    <3>1. /\ Survey!AwaitsRating(state[c]) /\ UNCHANGED job
          /\ pc'[t] = "rate.record" /\ state' = state
      BY <2>1, <2>3
    <3> QED
      BY <2>1, <3>1, Apart DEF Knows, Survey!At, Survey!AwaitsRating
  <2> QED
    BY <2>2, <2>3
<1>7. CASE \/ Survey!AskSave(t) \/ Survey!AskPrompt(t)
           \/ Survey!AskDeadline(t) \/ Survey!RateDone(t)
  <2>1. pc'[t] \in {"idle", "ask.prompt", "ask.deadline"}
    BY <1>7
    DEF Survey!AskSave, Survey!AskPrompt, Survey!AskDeadline,
        Survey!RateDone, Survey!Goto, Survey!Finish
  <2> QED
    BY <1>3, <2>1
<1>8. CASE Survey!RateRecord(t) \/ Survey!RateUnlabel(t)
           \/ Survey!RateAnswered(t)
  <2>1. /\ pc[t] \in Survey!RateStep /\ job' = job /\ live' = live
        /\ pc'[t] \in {"rate.unlabel", "rate.answered", "rate.resolve"}
        /\ state' = state /\ job[t].conv \in Conv
    BY <1>8, Apart
    DEF Survey!RateRecord, Survey!RateUnlabel, Survey!RateAnswered,
        Survey!At, Survey!Goto, Survey!db
  <2> QED
    BY <1>2, <2>1, Apart, KeepsKnowing
<1>9. CASE Survey!RateResolve(t)
  <2>1. PICK c \in Conv, ok \in BOOLEAN : Survey!RateResolve(t)!(c, ok)
    BY <1>9 DEF Survey!RateResolve
  <2>2. /\ pc[t] = "rate.resolve" /\ c = job[t].conv /\ job' = job
        /\ live' = live /\ pc'[t] = "rate.done" /\ state' = state
    BY <2>1 DEF Survey!At, Survey!Goto, Survey!db
  <2>3. resolved'[c]
    <3>1. ok
      BY <1>1, <2>1, <2>2
    <3>2. PICK applied \in Survey!CarriedOut(t, ok) :
              resolved' = [resolved EXCEPT ![c] = @ \/ applied]
      BY <2>1 DEF Survey!Resolve
    <3> QED
      BY <3>1, <3>2 DEF Survey!CarriedOut, SurveyOK
  <2> QED
    BY <1>2, <2>2, <2>3, Apart DEF Knows
<1> QED
  BY <1>4, <1>5, <1>6, <1>7, <1>8, <1>9 DEF Survey!Start, Survey!Step

\* So does a thread of the triage.
LEMMA TriageKnows ==
    ASSUME BotInv, NEW t \in Thread, used["faults"] = 0, used'["faults"] = 0,
           \A c \in Conv : resolved[c] => resolved'[c], live'[t],
           \/ Triage!HandleMessageCreated(t) \/ Triage!HandleAudio(t)
           \/ Triage!HandleConversationUpdated(t)
           \/ Triage!Begin(t) \/ Triage!Step(t)
    PROVE  Knows(t)'
<1> USE DEF BotInv, TypeInv, ThreadsOK
<1>1. live[t] => Knows(t)
  BY DEF PhaseInv
<1>2. ASSUME pc'[t] \in {"idle", "begin", "transcribe"}
      PROVE  Knows(t)'
  BY <1>2, Apart DEF Knows
<1>3. Moves(t)
  BY TriageMoves
<1>4. CASE \/ Triage!HandleMessageCreated(t) \/ Triage!HandleAudio(t)
           \/ Triage!HandleConversationUpdated(t)
  <2>1. pc'[t] \in {"begin", "transcribe"}
    BY <1>4
    DEF Triage!HandleMessageCreated, Triage!HandleAudio,
        Triage!HandleConversationUpdated, Triage!Dispatch
  <2> QED
    BY <1>2, <2>1
<1>5. CASE Triage!Begin(t)
  <2>1. PICK c \in Conv, ok \in BOOLEAN : Triage!Begin(t)!(c, ok)
    BY <1>5 DEF Triage!Begin
  <2>2. CASE Triage!Return(t, c)
    BY <1>2, <2>2 DEF Triage!Return, Triage!Finish
  <2>3. CASE ~ Triage!Return(t, c)
    <3>1. /\ ~ Triage!AlreadyRouted(IF ok THEN state[c] ELSE "none")
          /\ pc'[t] = "classify" /\ live' = live /\ state' = state
      BY <2>1, <2>3
    <3>2. ok
      BY <2>1, <3>1, TriageCallType, CallType
    <3>3. job'[t].conv = job[t].conv
      <4>1. "classify" \in Held /\ pc[t] \notin Held
        BY <2>1, Apart DEF Held, Survey!Locked, Survey!AskStep, Triage!At
      <4> QED
        BY <1>3, <3>1, <4>1 DEF Moves, Acquire, WorkOn, Release
    <3> QED
      BY <2>1, <3>1, <3>2, <3>3, Apart
      DEF Knows, Triage!At, Triage!AlreadyRouted
  <2> QED
    BY <2>2, <2>3
<1>6. ASSUME pc[t] \in {"classify", "reply", "route.labels"}, live' = live,
             pc'[t] \in {"reply", "save", "route.labels", "route.save"},
             state' = state
      PROVE  Knows(t)'
  <2>1. job'[t].conv = job[t].conv
    <3>1. pc'[t] \in Held
      BY <1>6, Apart DEF Held
    <3> QED
      BY <1>3, <1>6, <3>1 DEF Moves, Acquire, WorkOn, Release
  <2>2. job[t].conv \in Conv
    BY <1>6, Apart DEF TriageStep, Triage!Job
  <2> QED
    BY <1>1, <1>6, <2>1, <2>2, Apart, KeepsKnowing
<1>7. CASE Triage!ClassifyFails(t) \/ Triage!ClassifyReply(t)
           \/ Triage!ClassifyRoute(t) \/ Triage!Reply(t)
  <2>1. /\ pc[t] \in {"classify", "reply"} /\ live' = live /\ state' = state
        /\ pc'[t] \in {"reply", "save", "route.labels"}
    BY <1>7
    DEF Triage!ClassifyFails, Triage!ClassifyReply, Triage!ClassifyRoute,
        Triage!Reply, Triage!At, Triage!Goto
  <2> QED
    BY <1>6, <2>1
<1>8. CASE Triage!RouteLabels(t)
  <2>1. \/ pc'[t] = "idle"
        \/ /\ pc[t] = "route.labels" /\ live' = live /\ state' = state
           /\ pc'[t] = "route.save"
    BY <1>8
    DEF Triage!RouteLabels, Triage!At, Triage!Goto, Triage!Finish
  <2> QED
    BY <1>2, <1>6, <2>1
<1>9. CASE Triage!Transcribe(t) \/ Triage!Save(t) \/ Triage!RouteSave(t)
  <2>1. pc'[t] \in {"idle", "begin"}
    BY <1>9
    DEF Triage!Transcribe, Triage!Save, Triage!RouteSave, Triage!Finish
  <2> QED
    BY <1>2, <2>1
<1> QED
  BY <1>4, <1>5, <1>7, <1>8, <1>9 DEF Triage!Step

\* The others in a critical section have another conversation, and the reaper
\* takes nothing from what a thread knows.
LEMMA OthersKnow ==
    ASSUME BotInv, [Next]_vars, NEW t \in Thread, WorkerStep(t),
           used["faults"] = 0, NEW u \in Thread \ {t}, live'[u]
    PROVE  Knows(u)'
<1> USE DEF BotInv
<1>1. Moves(t) /\ (Writes(t) \/ Resolves)
  BY WorkerMoves, WorkerWrites
<1>2. pc'[u] = pc[u] /\ job'[u] = job[u] /\ live[u]
  BY <1>1 DEF Moves
<1>3. Knows(u)
  BY <1>2 DEF PhaseInv
<1>4. CASE pc[u] \notin Held
  BY <1>2, <1>4 DEF Held, Survey!Locked, Survey!AskStep, Survey!RateStep, Knows
<1>5. CASE pc[u] \in Held
  <2>1. job[u].conv \in Conv
    BY <1>5 DEF TypeInv, ThreadsOK, Held, SurveyStep, TriageStep, Survey!Job,
                Triage!Job
  <2>2. state'[job[u].conv] = state[job[u].conv]
    <3>1. CASE Writes(t)
      <4>1. pc[t] \in Held
        BY <3>1, Apart
        DEF Writes, Write, Held, Survey!Locked, Survey!AskStep
      <4>2. job[t].conv # job[u].conv
        BY <1>5, <4>1 DEF LockHeld
      <4> QED
        BY <2>1, <3>1, <4>2 DEF Writes, Write, TypeInv
    <3> QED
      BY <1>1, <3>1 DEF Resolves
  <2> QED
    BY <1>2, <1>3, <2>1, <2>2, Grows, KeepsKnowing
<1> QED
  BY <1>4, <1>5

LEMMA NextPhase ==
    ASSUME BotInv, [Next]_vars PROVE PhaseInv'
<1> SUFFICES ASSUME used'["faults"] = 0, NEW u \in Thread, live'[u]
             PROVE  Knows(u)'
  BY DEF PhaseInv
<1>1. used["faults"] = 0 /\ \A c \in Conv : resolved[c] => resolved'[c]
  BY Grows DEF BotInv
<1>2. ASSUME NEW t \in Thread, WorkerStep(t) PROVE Knows(u)'
  <2>1. CASE u = t
    BY <1>1, <1>2, <2>1, SurveyKnows, TriageKnows
    DEF WorkerStep, HandleEvent, Start, Step, Surveying, Triaging
  <2>2. CASE u # t
    BY <1>1, <1>2, <2>2, OthersKnow
  <2> QED
    BY <2>1, <2>2
<1>3. ASSUME OtherStep PROVE Knows(u)'
  <2>1. Quiet /\ (ReaperCloses \/ Resolves)
    BY <1>3, OthersAreQuiet, OtherWrites DEF BotInv
  <2>2. CASE pc'[u] = "idle"
    BY <2>2, Apart DEF Knows
  <2>3. CASE UNCHANGED <<lock, pc, job>> /\ live[u]
    <3>1. Knows(u)
      BY <1>1, <2>3 DEF BotInv, PhaseInv
    <3>2. CASE pc[u] \notin Held
      BY <2>3, <3>2
      DEF Held, Survey!Locked, Survey!AskStep, Survey!RateStep, Knows
    <3>3. CASE pc[u] \in Held
      <4> DEFINE c == job[u].conv
      <4>1. c \in Conv
        BY <3>3 DEF BotInv, TypeInv, ThreadsOK, Held, SurveyStep, TriageStep,
                    Survey!Job, Triage!Job
      <4>2. state'[c] \in {state[c], "closed_timeout"}
        BY <2>1, <4>1 DEF ReaperCloses, Resolves, BotInv, TypeInv
      <4>3. resolved[c] => resolved'[c]
        BY <1>1, <4>1
      <4> QED
        BY <2>3, <3>1, <4>2, <4>3 DEF Knows
    <3> QED
      BY <3>2, <3>3
  <2> QED
    BY <1>3, <2>1, <2>2, <2>3 DEF Quiet
<1> QED
  BY <1>2, <1>3 DEF Next, WorkerStep, OtherStep

LEMMA NextReaper ==
    ASSUME BotInv, [Next]_vars PROVE ReaperInv'
<1> USE DEF BotInv
<1>1. ASSUME Survey!ReaperResolve PROVE ReaperInv'
  <2>1. PICK c \in batch, ok \in BOOLEAN :
          /\ Survey!Resolve(c, IF ok THEN {TRUE} ELSE BOOLEAN)
          /\ IF ok THEN rpc' = "complete" /\ rconv' = c /\ UNCHANGED batch
             ELSE Survey!LeaveClosing(c)
    BY <1>1 DEF Survey!ReaperResolve
  <2>2. CASE ok
    BY <2>1, <2>2 DEF Survey!Resolve, ReaperInv, TypeInv, SurveyOK
  <2>3. CASE ~ok
    BY <2>1, <2>3 DEF Survey!LeaveClosing, Survey!NextInBatch, ReaperInv
  <2> QED
    BY <2>2, <2>3
<1>2. ASSUME rpc' \in {"complete", "close"} =>
                 rpc \in {"complete", "close"} /\ rconv' = rconv
      PROVE  ReaperInv'
  <2>1. rpc \in {"complete", "close"} => rconv \in Conv
    BY DEF TypeInv, SurveyOK
  <2> QED
    BY <1>2, <2>1, Grows DEF ReaperInv
<1>3. ASSUME NEW t \in Thread, WorkerStep(t) PROVE UNCHANGED <<rpc, rconv>>
  BY <1>3
  DEF WorkerStep, HandleEvent, Start, Step, Surveying, Triaging, survey,
      Survey!HandleMessageCreated, Survey!HandleConversationUpdated,
      Survey!Start, Survey!Step, Survey!AskBegin, Survey!RateBegin,
      Survey!AskSave, Survey!AskPrompt, Survey!AskDeadline,
      Survey!RateRecord, Survey!RateUnlabel, Survey!RateAnswered,
      Survey!RateResolve, Survey!RateDone, Survey!reaper
<1>4. ASSUME OtherStep, ~ Survey!ReaperResolve
      PROVE  rpc' \in {"complete", "close"} =>
                 rpc \in {"complete", "close"} /\ rconv' = rconv
  BY <1>4
  DEF OtherStep, Reap, Expire, Environment, Crash, Surveying, Survey!Reaper,
      Survey!ReaperClaim, Survey!ReaperComplete, Survey!ReaperClose,
      Survey!NextInBatch, Survey!Expire, Survey!Environment, Survey!Crash,
      Survey!reaper, vars, survey
<1> QED
  BY <1>1, <1>2, <1>3, <1>4 DEF Next, WorkerStep, OtherStep

\* Every step of the bot is one of the life cycle, or one after a failure.
LEMMA LifeStep ==
    ASSUME BotInv, [Next]_vars PROVE [Life!Promise]_(Life!vars)
<1> USE DEF BotInv, TypeInv
<1>1. (\E t \in Thread : Writes(t)) \/ ReaperCloses \/ Resolves
  BY WorkerWrites, OtherWrites DEF Next, WorkerStep, OtherStep
<1> SUFFICES ASSUME used'["faults"] = 0
             PROVE  /\ used["faults"] = 0
                    /\ Life!Next \/ UNCHANGED <<state, resolved>>
  BY DEF Life!Promise, Life!vars
<1>2. used["faults"] = 0
  BY Grows
<1>3. ASSUME NEW t \in Thread, Writes(t) PROVE Life!Next
  <2> DEFINE c == job[t].conv
  <2>1. Knows(t) /\ c \in Conv
    BY <1>2, <1>3 DEF PhaseInv, Writes, Write
  <2>2. CASE Write(t, "ask.save", "csat_pending")
    <3>1. Life!Ask(c)
      BY <2>1, <2>2 DEF Write, Knows, Life!Ask, Life!Enter
    <3> QED
      BY <2>1, <3>1 DEF Life!Next
  <2>3. CASE Write(t, "rate.done", "csat_done")
    <3>1. Life!Answer(c)
      BY <2>1, <2>3, Apart DEF Write, Knows, Life!Answer, Life!Enter
    <3> QED
      BY <2>1, <3>1 DEF Life!Next
  <2>4. CASE Write(t, "save", "triage")
    <3>1. Life!Talk(c)
      BY <2>1, <2>4, Apart DEF Write, Knows, Life!Talk, Life!Enter
    <3> QED
      BY <2>1, <3>1 DEF Life!Next
  <2>5. CASE Write(t, "route.save", "routed")
    <3>1. Life!Route(c)
      BY <2>1, <2>5, Apart DEF Write, Knows, Life!Route, Life!Enter
    <3> QED
      BY <2>1, <3>1 DEF Life!Next
  <2> QED
    BY <1>3, <2>2, <2>3, <2>4, <2>5 DEF Writes
<1>4. ASSUME ReaperCloses PROVE Life!Next
  <2>1. Life!Close(rconv) /\ rconv \in Conv
    BY <1>4 DEF ReaperCloses, ReaperInv, Life!Close, Life!Enter
  <2> QED
    BY <2>1 DEF Life!Next
<1>5. ASSUME Resolves
      PROVE  Life!Next \/ UNCHANGED <<state, resolved>>
  <2>1. ASSUME NEW c \in Conv, resolved' = [resolved EXCEPT ![c] = TRUE]
        PROVE  Life!Next
    <3>1. Life!Resolve(c)
      BY <1>5, <2>1 DEF Resolves, Life!Resolve
    <3> QED
      BY <3>1 DEF Life!Next
  <2> QED
    BY <1>5, <2>1 DEF Resolves
<1> QED
  BY <1>1, <1>2, <1>3, <1>4, <1>5

\* Whatever threads, snapshots and crashes move it, the row of a conversation
\* follows the life cycle: a routed conversation leaves its queue only for a
\* survey, a survey is asked once, and it ends only once it was resolved.
THEOREM Refinement == Spec => Implements
<1>1. Init => BotInv /\ Life!Init
  <2>1. Init => TypeInv
    BY InitTypes
  <2>2. Init => LockHeld /\ PhaseInv /\ ReaperInv
    BY IdleIsFree, Apart
    DEF Init, Survey!Init, Survey!EngineInit, LockHeld, PhaseInv, ReaperInv,
        Knows
  <2>3. Init => Life!Init
    BY DEF Init, Survey!Init, Survey!EngineInit, Survey!Bound,
           Survey!State, Survey!CsatState, Triage!Init, Life!Init
  <2> QED
    BY <2>1, <2>2, <2>3 DEF BotInv
<1>2. BotInv /\ [Next]_vars => BotInv'
  BY NextType, NextHeld, NextPhase, NextReaper DEF BotInv
<1>3. BotInv /\ [Next]_vars => [Life!Promise]_(Life!vars)
  BY LifeStep
<1> QED
  BY <1>1, <1>2, <1>3, PTL DEF Spec, Implements, Life!Spec

-----------------------------------------------------------------------------
(* A customer is asked once per survey *)

\* What lets the bot ask again: a triage that overwrote the survey, a call
\* that failed.
Excuses(c) == relapses[c] + used.faults

\* A conversation whose survey is not in the store owes each prompt already
\* sent to an excuse.
Unstarted ==
    \A c \in Conv : state[c] \notin CsatState => prompted[c] <= Excuses(c)

\* A thread about to prompt, with a live context, found the survey not
\* started, or failed to read it.
OwesAPrompt(t) ==
    LET c == job[t].conv
    IN  /\ pc[t] \in {"ask.save", "ask.prompt"} => prompted[c] <= Excuses(c)
        /\ pc[t] = "ask.prompt" /\ state[c] \notin CsatState =>
               prompted[c] + 1 <= Excuses(c)

Prompts ==
    /\ prompted \in [Conv -> Nat]
    /\ OnePromptPerSurvey
    /\ Unstarted
    /\ \A t \in Thread : live[t] => OwesAPrompt(t)

AskInv == TypeInv /\ LockHeld /\ Prompts

\* Excuses add up, and a survey that was overwritten is one.
LEMMA ExcusesGrow ==
    ASSUME TypeInv, [Next]_vars, NEW c \in Conv
    PROVE  /\ Excuses(c) \in Nat /\ Excuses(c)' \in Nat
           /\ Excuses(c)' >= Excuses(c)
           /\ state[c] \in CsatState /\ state'[c] \notin CsatState =>
                  Excuses(c)' >= Excuses(c) + 1
<1>1. CountRelapses \/ UNCHANGED <<relapses, state>>
  BY DEF Next, HandleEvent, Start, Step, Reap, Expire, Environment, Crash,
         Surveying, Triaging, vars, engine
<1>2. /\ relapses[c] \in Nat /\ relapses'[c] \in Nat
      /\ relapses'[c] >= relapses[c]
      /\ state[c] \in CsatState /\ state'[c] \notin CsatState =>
             relapses'[c] = relapses[c] + 1
  BY <1>1 DEF CountRelapses, Relapsed, TypeInv
<1> QED
  BY <1>2, Grows DEF Excuses

\* The survey threads in the section that asks have a conversation.
LEMMA AskingConv ==
    ASSUME TypeInv, NEW t \in Thread, pc[t] \in {"ask.save", "ask.prompt"}
    PROVE  job[t].conv \in Conv
BY DEF TypeInv, ThreadsOK, SurveyStep, Survey!Locked, Survey!AskStep,
       Survey!Job

\* A step that sends no prompt and brings no thread to one.
LEMMA NoPrompt ==
    ASSUME AskInv, [Next]_vars, prompted' = prompted, NEW T \in SUBSET Thread,
           \A u \in T :
               pc'[u] \in {"ask.save", "ask.prompt"} /\ live'[u] =>
                   pc'[u] = pc[u] /\ job'[u] = job[u] /\ live[u]
    PROVE  /\ prompted' \in [Conv -> Nat]
           /\ OnePromptPerSurvey' /\ Unstarted'
           /\ \A u \in T : live'[u] => OwesAPrompt(u)'
<1> USE DEF AskInv, Prompts
<1>1. ASSUME NEW c \in Conv
      PROVE  /\ prompted[c] \in Nat
             /\ prompted'[c] <= 1 + Excuses(c)'
             /\ state'[c] \notin CsatState => prompted'[c] <= Excuses(c)'
  <2>1. prompted[c] \in Nat /\ prompted[c] <= 1 + Excuses(c)
    <3>1. prompted[c] <= 1 + relapses[c] + used["faults"]
      BY DEF OnePromptPerSurvey
    <3>2. relapses[c] \in Nat /\ used["faults"] \in Nat
      BY Grows DEF TypeInv
    <3> QED
      BY <3>1, <3>2 DEF Excuses
  <2>2. state[c] \notin CsatState => prompted[c] <= Excuses(c)
    BY DEF Unstarted
  <2> QED
    BY <2>1, <2>2, ExcusesGrow
<1>2. OnePromptPerSurvey'
  <2>1. ASSUME NEW c \in Conv
        PROVE  prompted'[c] <= 1 + relapses'[c] + used'["faults"]
    <3>1. relapses'[c] \in Nat /\ used'["faults"] \in Nat
      BY Grows, NextType DEF TypeInv
    <3> QED
      BY <1>1, <3>1 DEF Excuses
  <2> QED
    BY <2>1 DEF OnePromptPerSurvey
<1>3. Unstarted'
  BY <1>1 DEF Unstarted
<1>4. ASSUME NEW u \in T, live'[u] PROVE OwesAPrompt(u)'
  <2>1. CASE pc'[u] \notin {"ask.save", "ask.prompt"}
    BY <2>1 DEF OwesAPrompt
  <2>2. CASE pc'[u] \in {"ask.save", "ask.prompt"}
    <3>1. pc'[u] = pc[u] /\ job'[u] = job[u] /\ live[u]
      BY <1>4, <2>2
    <3>2. PICK c \in Conv : c = job[u].conv
      BY <2>2, <3>1, AskingConv
    <3>3. OwesAPrompt(u)
      BY <3>1
    <3>4. /\ prompted[c] <= Excuses(c)
          /\ pc[u] = "ask.prompt" /\ state[c] \notin CsatState =>
                 prompted[c] + 1 <= Excuses(c)
      BY <2>2, <3>1, <3>2, <3>3 DEF OwesAPrompt
    <3>5. /\ prompted'[c] <= Excuses(c)'
          /\ pc[u] = "ask.prompt" /\ state'[c] \notin CsatState =>
                 prompted'[c] + 1 <= Excuses(c)'
      BY <1>1, <3>4, ExcusesGrow
    <3> QED
      BY <3>1, <3>2, <3>5 DEF OwesAPrompt, Excuses
  <2> QED
    BY <2>1, <2>2
<1> QED
  BY <1>2, <1>3, <1>4

\* A thread enters the section that asks only for a survey not started.
LEMMA AskBeginPrompts ==
    ASSUME AskInv, [Next]_vars, NEW t \in Thread, Survey!AskBegin(t),
           live'[t]
    PROVE  OwesAPrompt(t)'
<1> USE DEF AskInv, Prompts
<1>1. PICK c \in Conv, ok \in BOOLEAN : Survey!AskBegin(t)!(c, ok)
  BY DEF Survey!AskBegin
<1>2. state' = state /\ prompted' = prompted
  BY <1>1 DEF Survey!db, Survey!history
<1>3. CASE Survey!Return(t, c)
  BY <1>3 DEF Survey!Return, Survey!Finish, OwesAPrompt, TypeInv, ThreadsOK
<1>4. CASE ~ Survey!Return(t, c)
  <2>1. /\ ~(ok /\ Survey!AlreadyStarted(state[c])) /\ job' = job
        /\ live' = live /\ pc'[t] = "ask.save" /\ c = job[t].conv
    BY <1>1, <1>4 DEF Survey!At, TypeInv, ThreadsOK
  <2>2. ok \/ used'["faults"] = used["faults"] + 1
    BY <1>1, <2>1, SurveyCallType, CallType DEF TypeInv, ThreadsOK
  <2>3. prompted[c] \in Nat /\ prompted[c] <= 1 + relapses[c] + used["faults"]
    BY DEF OnePromptPerSurvey
  <2>4. ok => prompted[c] <= relapses[c] + used["faults"]
    BY <2>1 DEF Unstarted, Survey!AlreadyStarted, Survey!CsatState, CsatState,
                Excuses
  <2>5. /\ relapses[c] \in Nat /\ relapses'[c] = relapses[c]
        /\ used["faults"] \in Nat /\ used'["faults"] \in Nat
        /\ used'["faults"] >= used["faults"]
    <3>1. CountRelapses \/ UNCHANGED relapses
      BY DEF Next, HandleEvent, Start, Step, Reap, Expire, Environment,
             Crash, Surveying, Triaging, vars
    <3>2. relapses'[c] = relapses[c]
      BY <1>2, <3>1 DEF CountRelapses, Relapsed
    <3> QED
      BY <3>2, Grows DEF TypeInv
  <2>6. prompted'[c] <= relapses'[c] + used'["faults"]
    BY <1>2, <2>2, <2>3, <2>4, <2>5
  <2> QED
    BY <2>1, <2>6 DEF OwesAPrompt, Excuses
<1> QED
  BY <1>3, <1>4

\* A failed save is the excuse of the prompt that follows.
LEMMA AskSavePrompts ==
    ASSUME AskInv, [Next]_vars, NEW t \in Thread, Survey!AskSave(t),
           live'[t]
    PROVE  OwesAPrompt(t)'
<1> USE DEF AskInv, Prompts
<1>1. PICK c \in Conv, ok \in BOOLEAN : Survey!AskSave(t)!(c, ok)
  BY DEF Survey!AskSave
<1>2. /\ job' = job /\ live' = live /\ prompted' = prompted
      /\ pc[t] = "ask.save" /\ pc'[t] = "ask.prompt" /\ c = job[t].conv
  BY <1>1 DEF Survey!Goto, Survey!At, Survey!history, TypeInv, ThreadsOK
<1>3. prompted[c] \in Nat /\ prompted[c] <= Excuses(c)
  BY <1>2 DEF OwesAPrompt
<1>4. CASE ok
  <2>1. state'[c] \in CsatState
    BY <1>1, <1>4 DEF Survey!SaveState, CsatState, TypeInv
  <2>2. prompted'[c] <= Excuses(c)'
    BY <1>2, <1>3, ExcusesGrow
  <2> QED
    BY <1>2, <2>1, <2>2 DEF OwesAPrompt, Excuses
<1>5. CASE ~ok
  <2>1. used'["faults"] = used["faults"] + 1
    BY <1>1, <1>2, <1>5, SurveyCallType, CallType DEF TypeInv, ThreadsOK
  <2>2. relapses[c] \in Nat /\ relapses'[c] = relapses[c]
    <3>1. CountRelapses \/ UNCHANGED relapses
      BY DEF Next, HandleEvent, Start, Step, Reap, Expire, Environment,
             Crash, Surveying, Triaging, vars
    <3>2. state' = state
      BY <1>1, <1>5 DEF Survey!SaveState
    <3> QED
      BY <3>1, <3>2 DEF CountRelapses, Relapsed, TypeInv
  <2>3. prompted'[c] + 1 <= relapses'[c] + used'["faults"]
    BY <1>2, <1>3, <2>1, <2>2, Grows DEF Excuses
  <2>4. prompted'[c] <= relapses'[c] + used'["faults"]
    BY <1>2, <1>3, <2>3, <2>1, <2>2, Grows
  <2> QED
    BY <1>2, <2>3, <2>4 DEF OwesAPrompt, Excuses
<1> QED
  BY <1>4, <1>5

\* The prompt itself: the mutex keeps every other thread away from it.
LEMMA AskPromptPrompts ==
    ASSUME AskInv, [Next]_vars, NEW t \in Thread, Survey!AskPrompt(t)
    PROVE  Prompts'
<1> USE DEF AskInv, Prompts
<1>1. PICK c \in Conv : Survey!AskPrompt(t)!(c)
  BY DEF Survey!AskPrompt
<1>2. /\ state' = state /\ job' = job /\ live' = live
      /\ used' = used
      /\ pc' = [pc EXCEPT ![t] = "ask.deadline"]
      /\ pc[t] = "ask.prompt" /\ c = job[t].conv
  BY <1>1 DEF Survey!Goto, Survey!At, Survey!db
<1>3. relapses' = relapses
  <2>1. CountRelapses \/ UNCHANGED relapses
    BY DEF Next, HandleEvent, Start, Step, Reap, Expire, Environment, Crash,
           Surveying, Triaging, vars
  <2>2. ASSUME CountRelapses PROVE relapses' = [d \in Conv |-> relapses[d]]
    BY <1>2, <2>2 DEF CountRelapses, Relapsed
  <2> QED
    BY <2>1, <2>2 DEF TypeInv
<1>4. prompted' = [prompted EXCEPT ![c] = IF live[t] THEN @ + 1 ELSE @]
  BY <1>1
<1>5. \A d \in Conv : Excuses(d) \in Nat /\ Excuses(d)' = Excuses(d)
  BY <1>2, <1>3, Grows DEF Excuses, TypeInv
<1>6. live[t] => /\ prompted[c] <= Excuses(c)
                 /\ state[c] \notin CsatState => prompted[c] + 1 <= Excuses(c)
  BY <1>2 DEF OwesAPrompt
<1>7. ASSUME NEW d \in Conv
      PROVE  /\ prompted'[d] \in Nat
             /\ prompted'[d] <= 1 + Excuses(d)
             /\ state[d] \notin CsatState => prompted'[d] <= Excuses(d)
             /\ d # c => prompted'[d] = prompted[d]
  <2>1. prompted[d] \in Nat
    OBVIOUS
  <2>2. prompted[d] <= 1 + Excuses(d)
    <3>1. prompted[d] <= 1 + relapses[d] + used["faults"]
      BY DEF OnePromptPerSurvey
    <3> QED
      BY <3>1, Grows DEF Excuses, TypeInv
  <2>3. state[d] \notin CsatState => prompted[d] <= Excuses(d)
    BY DEF Unstarted
  <2>4. prompted'[d] = IF d = c /\ live[t] THEN prompted[d] + 1 ELSE prompted[d]
    BY <1>4
  <2> QED
    BY <1>5, <1>6, <2>1, <2>2, <2>3, <2>4
<1>8. prompted' \in [Conv -> Nat]
  BY <1>4, <1>7
<1>9. OnePromptPerSurvey' /\ Unstarted'
  <2>1. ASSUME NEW d \in Conv
        PROVE  prompted'[d] <= 1 + relapses'[d] + used'["faults"]
    BY <1>2, <1>3, <1>7, Grows DEF Excuses, TypeInv
  <2> QED
    BY <1>2, <1>5, <1>7, <2>1 DEF OnePromptPerSurvey, Unstarted
<1>10. ASSUME NEW u \in Thread, live'[u] PROVE OwesAPrompt(u)'
  <2>1. CASE pc'[u] \notin {"ask.save", "ask.prompt"}
    BY <2>1 DEF OwesAPrompt
  <2>2. CASE pc'[u] \in {"ask.save", "ask.prompt"}
    <3>1. u # t /\ pc'[u] = pc[u]
      BY <1>2, <2>2 DEF TypeInv, ThreadsOK
    <3>2. PICK d \in Conv : d = job[u].conv
      BY <2>2, <3>1, AskingConv
    <3>3. d # c
      <4>1. pc[u] \in Held /\ pc[t] \in Held
        BY <1>2, <2>2, <3>1 DEF Held, Survey!Locked, Survey!AskStep
      <4> QED
        BY <1>2, <3>1, <3>2, <4>1 DEF LockHeld
    <3>4. OwesAPrompt(u)
      BY <1>2, <1>10
    <3>5. /\ prompted'[d] <= Excuses(d)
          /\ pc[u] = "ask.prompt" /\ state[d] \notin CsatState =>
                 prompted'[d] + 1 <= Excuses(d)
      BY <1>7, <2>2, <3>1, <3>2, <3>3, <3>4 DEF OwesAPrompt
    <3>6. relapses'[d] + used'["faults"] = Excuses(d)
      BY <1>2, <1>3 DEF Excuses
    <3> QED
      BY <1>2, <3>1, <3>2, <3>5, <3>6 DEF OwesAPrompt, Excuses
  <2> QED
    BY <2>1, <2>2
<1> QED
  BY <1>8, <1>9, <1>10

\* What the steps of t do to a prompt when they send none.
LEMMA OtherPrompts ==
    ASSUME AskInv, [Next]_vars, NEW t \in Thread, WorkerStep(t),
           ~ Survey!AskPrompt(t)
    PROVE  Prompts'
<1> USE DEF AskInv, TypeInv, ThreadsOK
<1>1. prompted' = prompted
  BY DEF WorkerStep, HandleEvent, Start, Step, Surveying, Triaging, survey,
         Survey!HandleMessageCreated, Survey!HandleConversationUpdated,
         Survey!Start, Survey!Step, Survey!AskBegin, Survey!RateBegin,
         Survey!AskSave, Survey!AskDeadline, Survey!RateRecord,
         Survey!RateUnlabel, Survey!RateAnswered, Survey!RateResolve,
         Survey!RateDone, Survey!history
<1>2. \A u \in Thread \ {t} :
          pc'[u] = pc[u] /\ job'[u] = job[u] /\ live'[u] = live[u]
  BY WorkerMoves DEF Moves
<1>3. /\ prompted' \in [Conv -> Nat]
      /\ OnePromptPerSurvey' /\ Unstarted'
      /\ \A u \in Thread \ {t} : live'[u] => OwesAPrompt(u)'
  BY <1>1, <1>2, NoPrompt
<1>4. ASSUME live'[t] PROVE OwesAPrompt(t)'
  <2>1. CASE Survey!AskBegin(t) \/ Survey!AskSave(t)
    BY <1>4, <2>1, AskBeginPrompts, AskSavePrompts
  <2>2. CASE pc'[t] \notin {"ask.save", "ask.prompt"}
    BY <2>2 DEF OwesAPrompt
  <2>3. \/ Survey!AskBegin(t) \/ Survey!AskSave(t)
        \/ pc'[t] \notin {"ask.save", "ask.prompt"}
    <3>1. ASSUME \/ Survey!HandleMessageCreated(t)
                 \/ Survey!HandleConversationUpdated(t)
                 \/ Survey!AskDeadline(t) \/ Survey!RateBegin(t)
                 \/ Survey!RateRecord(t) \/ Survey!RateUnlabel(t)
                 \/ Survey!RateAnswered(t) \/ Survey!RateResolve(t)
                 \/ Survey!RateDone(t)
          PROVE  pc'[t] \notin {"ask.save", "ask.prompt"}
      BY <3>1
      DEF Survey!HandleMessageCreated, Survey!HandleConversationUpdated,
          Survey!Dispatch, Survey!AskDeadline, Survey!RateBegin,
          Survey!RateRecord, Survey!RateUnlabel, Survey!RateAnswered,
          Survey!RateResolve, Survey!RateDone, Survey!Return,
          Survey!Finish, Survey!Goto
    <3>2. ASSUME \/ Triage!HandleMessageCreated(t) \/ Triage!HandleAudio(t)
                 \/ Triage!HandleConversationUpdated(t)
                 \/ Triage!Begin(t) \/ Triage!Step(t)
          PROVE  pc'[t] \notin {"ask.save", "ask.prompt"}
      BY <3>2
      DEF Triage!HandleMessageCreated, Triage!HandleAudio,
          Triage!HandleConversationUpdated, Triage!Dispatch, Triage!Begin,
          Triage!Step, Triage!Transcribe, Triage!ClassifyFails,
          Triage!ClassifyReply, Triage!ClassifyRoute, Triage!Reply,
          Triage!Save, Triage!RouteLabels, Triage!RouteSave,
          Triage!Return, Triage!Finish, Triage!Goto
    <3> QED
      BY <3>1, <3>2
      DEF WorkerStep, HandleEvent, Start, Step, Surveying, Triaging,
          Survey!Start, Survey!Step
  <2> QED
    BY <2>1, <2>2, <2>3
<1> QED
  BY <1>3, <1>4 DEF Prompts

\* The customer is asked once per survey, plus once for each triage that
\* overwrote a survey and each call that failed, however triages, surveys,
\* their late webhooks, expired jobs and crashes mix.
THEOREM AskedOnce == Spec => []OnePromptPerSurvey
<1>1. Init => AskInv
  <2>1. Init => TypeInv
    BY InitTypes
  <2>2. Init => LockHeld
    BY IdleIsFree DEF Init, Survey!Init, Survey!EngineInit, LockHeld
  <2>3. Init => Prompts
    BY DEF Init, Survey!Init, Survey!EngineInit, Survey!Bound, Prompts,
           OnePromptPerSurvey, Unstarted, OwesAPrompt, Excuses
  <2> QED
    BY <2>1, <2>2, <2>3 DEF AskInv
<1>2. ASSUME AskInv, [Next]_vars PROVE AskInv'
  <2>1. TypeInv' /\ LockHeld'
    BY <1>2, NextType, NextHeld DEF AskInv
  <2>2. ASSUME NEW t \in Thread, WorkerStep(t) PROVE Prompts'
    BY <1>2, <2>2, AskPromptPrompts, OtherPrompts
  <2>3. ASSUME OtherStep PROVE Prompts'
    <3>1. Quiet
      BY <1>2, <2>3, OthersAreQuiet DEF AskInv
    <3>2. prompted' = prompted
      BY <2>3
      DEF OtherStep, Reap, Expire, Environment, Crash, Surveying,
          Survey!Reaper, Survey!ReaperClaim, Survey!ReaperResolve,
          Survey!ReaperComplete, Survey!ReaperClose, Survey!Expire,
          Survey!Environment, Survey!Crash, Survey!history, vars, survey
    <3>3. \A u \in Thread :
              pc'[u] \in {"ask.save", "ask.prompt"} /\ live'[u] =>
                  pc'[u] = pc[u] /\ job'[u] = job[u] /\ live[u]
      BY <3>1 DEF Quiet
    <3> QED
      BY <1>2, <3>2, <3>3, NoPrompt DEF Prompts
  <2> QED
    BY <1>2, <2>1, <2>2, <2>3 DEF AskInv, Next, WorkerStep, OtherStep
<1>3. AskInv => OnePromptPerSurvey
  BY DEF AskInv, Prompts
<1> QED
  BY <1>1, <1>2, <1>3, PTL DEF Spec

-----------------------------------------------------------------------------
(* While nothing goes wrong *)

\* As long as no context expired every thread can still make its calls.
AllLive == used.expiries = 0 => \A t \in Thread : live[t]

LEMMA LiveStep ==
    ASSUME TypeInv, AllLive, [Next]_vars PROVE AllLive'
<1>1. used'["expiries"] = 0 => used["expiries"] = 0
  BY UsedGrows DEF Bound
<1>2. ASSUME NEW t \in Thread, WorkerStep(t)
      PROVE  \A u \in Thread : live[u] => live'[u]
  <2>1. live[t] => live'[t]
    BY <1>2
    DEF WorkerStep, HandleEvent, Start, Step, Surveying, Triaging,
        Survey!HandleMessageCreated, Survey!HandleConversationUpdated,
        Survey!Dispatch, Survey!Start, Survey!Step, Survey!AskBegin,
        Survey!RateBegin, Survey!AskSave, Survey!AskPrompt,
        Survey!AskDeadline, Survey!RateRecord, Survey!RateUnlabel,
        Survey!RateAnswered, Survey!RateResolve, Survey!RateDone,
        Survey!Return, Survey!Finish, Survey!Goto,
        Triage!HandleMessageCreated, Triage!HandleAudio,
        Triage!HandleConversationUpdated, Triage!Dispatch, Triage!Begin,
        Triage!Step, Triage!Transcribe, Triage!ClassifyFails,
        Triage!ClassifyReply, Triage!ClassifyRoute, Triage!Reply,
        Triage!Save, Triage!RouteLabels, Triage!RouteSave,
        Triage!Return, Triage!Finish, Triage!Goto, TypeInv, ThreadsOK
  <2> QED
    BY <1>2, <2>1, WorkerMoves DEF Moves
<1>3. ASSUME NEW t \in Thread, Survey!CtxExpire(t) PROVE AllLive'
  <2>1. Spend("expiries")
    BY <1>3 DEF Survey!CtxExpire, Survey!Spend, Spend, Survey!Bound, Bound
  <2>2. used'["expiries"] = used["expiries"] + 1
    BY <2>1, SpendOne DEF TypeInv, ThreadsOK, Bound
  <2> QED
    BY <2>2, UsedGrows DEF AllLive, Bound
<1>4. ASSUME OtherStep, ~ \E t \in Thread : Survey!CtxExpire(t)
      PROVE  \A u \in Thread : live[u] => live'[u]
  <2>1. CASE Survey!Crash
    <3>1. live' = [t \in Thread |-> TRUE]
      BY <2>1 DEF Survey!Crash, Survey!CrashEngine
    <3> QED
      BY <3>1
  <2>2. CASE ~ Survey!Crash
    <3>1. UNCHANGED live
      BY <1>4, <2>2
      DEF OtherStep, Reap, Expire, Environment, Crash, Surveying,
          Survey!Reaper, Survey!ReaperClaim, Survey!ReaperResolve,
          Survey!ReaperComplete, Survey!ReaperClose, Survey!Expire,
          Survey!Environment, Survey!AgentLabels, Survey!workers, vars,
          engine, workers
    <3> QED
      BY <3>1
  <2> QED
    BY <2>1, <2>2
<1> QED
  BY <1>1, <1>2, <1>3, <1>4 DEF AllLive, Next, WorkerStep, OtherStep

\* While nothing fails, nothing had failed before and every call returns
\* without error.
LEMMA SmoothStep ==
    ASSUME TypeInv, AllLive, [Next]_vars, Smooth'
    PROVE  /\ Smooth
           /\ \A t \in Thread : live[t]
           /\ \A t \in Thread, ok \in BOOLEAN : Survey!Call(t, ok) => ok
           /\ \A ok \in BOOLEAN : Survey!ReaperCall(ok) => ok
           /\ ~ Survey!Crash
<1>1. \A r \in {"faults", "expiries", "crashes"} :
          used[r] \in Nat /\ used'[r] \in Nat /\ used'[r] >= used[r]
  BY UsedGrows DEF Bound
<1>2. /\ used["faults"] = 0 /\ used'["faults"] = 0
      /\ used["expiries"] = 0 /\ used'["expiries"] = 0
      /\ used["crashes"] = 0 /\ used'["crashes"] = 0
  <2>1. /\ used'["faults"] \in Nat /\ used'["expiries"] \in Nat
        /\ used'["crashes"] \in Nat
    BY <1>1
  <2>2. used'["faults"] + used'["expiries"] + used'["crashes"] = 0
    BY DEF Smooth
  <2>3. /\ used'["faults"] = 0 /\ used'["expiries"] = 0
        /\ used'["crashes"] = 0
    BY <2>1, <2>2
  <2> QED
    BY <1>1, <2>3
<1>3. ~ Spend("faults") /\ ~ Spend("crashes")
  BY <1>2, SpendOne DEF Bound, TypeInv, ThreadsOK
<1>4. Smooth /\ \A t \in Thread : live[t]
  BY <1>2 DEF Smooth, AllLive
<1> QED
  BY <1>3, <1>4
  DEF Survey!Call, Survey!ReaperCall, Survey!Crash, Survey!CrashEngine,
      Survey!Spend, Spend, Survey!Bound, Bound

\* The steps of a thread at which it closes, or opens, the survey it handles.
ClosingStep == {"ask.prompt", "ask.deadline", "rate.resolve", "rate.done"}

\* Steps at which the survey of a conversation is asked, rated or settled.
ThreadTurns(t) ==
    \/ Survey!AskSave(t) \/ Survey!AskPrompt(t) \/ Survey!AskDeadline(t)
    \/ Survey!RateBegin(t) \/ Survey!RateRecord(t)
    \/ Survey!RateAnswered(t) \/ Survey!RateDone(t)

Turns ==
    \/ Survey!ReaperComplete \/ Survey!ReaperClose
    \/ \E t \in Thread : ThreadTurns(t)

\* The other steps of the survey that t takes.
LEMMA SurveyGoesOn ==
    ASSUME TypeInv, NEW t \in Thread, ~ThreadTurns(t),
           \/ Survey!HandleMessageCreated(t)
           \/ Survey!HandleConversationUpdated(t)
           \/ Survey!Start(t) \/ Survey!Step(t)
    PROVE  /\ UNCHANGED <<state, deadline, rpc, rconv, prompted, rated>>
           /\ pc[t] # "ask.prompt"
           /\ pc[t] \in ClosingStep =>
                  pc'[t] \in ClosingStep /\ job'[t] = job[t]
           /\ pc'[t] \in Survey!RateStep =>
                  pc[t] \in Survey!RateStep /\ job'[t] = job[t]
<1> USE DEF TypeInv, ThreadsOK, ClosingStep, Survey!RateStep
<1>1. CASE \/ Survey!HandleMessageCreated(t)
           \/ Survey!HandleConversationUpdated(t)
  BY <1>1
  DEF Survey!HandleMessageCreated, Survey!HandleConversationUpdated,
      Survey!Dispatch, Survey!reaper, Survey!history
<1>2. CASE Survey!AskBegin(t)
  BY <1>2
  DEF Survey!AskBegin, Survey!At, Survey!Return, Survey!Finish, Survey!db,
      Survey!reaper, Survey!history
<1>3. CASE Survey!RateUnlabel(t)
  BY <1>3
  DEF Survey!RateUnlabel, Survey!At, Survey!Goto, Survey!db, Survey!reaper,
      Survey!history
<1>4. CASE Survey!RateResolve(t)
  <2>1. /\ UNCHANGED <<state, deadline, rpc, rconv, prompted, rated, job>>
        /\ pc[t] = "rate.resolve" /\ pc' = [pc EXCEPT ![t] = "rate.done"]
    BY <1>4
    DEF Survey!RateResolve, Survey!At, Survey!Goto, Survey!db, Survey!reaper,
        Survey!history
  <2> QED
    BY <2>1
<1> QED
  BY <1>1, <1>2, <1>3, <1>4 DEF ThreadTurns, Survey!Start, Survey!Step

\* The steps of the triage only take a survey away.
LEMMA TriageGoesOn ==
    ASSUME TypeInv, NEW t \in Thread, UNCHANGED survey,
           \/ Triage!HandleMessageCreated(t) \/ Triage!HandleAudio(t)
           \/ Triage!HandleConversationUpdated(t)
           \/ Triage!Begin(t) \/ Triage!Step(t)
    PROVE  /\ UNCHANGED <<deadline, rpc, rconv, prompted, rated>>
           /\ \A c \in Conv :
                  state'[c] = "csat_pending" => state[c] = "csat_pending"
           /\ pc[t] \notin ClosingStep
           /\ pc'[t] \notin Survey!RateStep
<1>1. /\ pc[t] \notin ClosingStep \union {"ask.save"}
      /\ pc'[t] \notin Survey!RateStep
  BY DEF Triage!HandleMessageCreated, Triage!HandleAudio,
         Triage!HandleConversationUpdated, Triage!Dispatch, Triage!Begin,
         Triage!Step, Triage!Transcribe, Triage!ClassifyFails,
         Triage!ClassifyReply, Triage!ClassifyRoute, Triage!Reply,
         Triage!Save, Triage!RouteLabels, Triage!RouteSave, Triage!At,
         Triage!Return, Triage!Finish, Triage!Goto, ClosingStep,
         Survey!RateStep, TypeInv, ThreadsOK
<1>2. Writes(t) \/ Resolves
  BY TriageWrites DEF survey
<1>3. \A c \in Conv :
          state'[c] = "csat_pending" => state[c] = "csat_pending"
  BY <1>1, <1>2 DEF Writes, Write, Resolves, TypeInv
<1> QED
  BY <1>1, <1>3 DEF survey

\* The steps of nobody's job, a crash aside.
LEMMA RestGoesOn ==
    ASSUME TypeInv, OtherStep, ~Turns, ~Survey!Crash
    PROVE  /\ UNCHANGED <<state, pc, job, prompted, rated>>
           /\ \A c \in Conv :
                  deadline[c] \in Survey!Open => deadline'[c] \in Survey!Open
           /\ rpc = "close" => rpc' = "close" /\ rconv' = rconv
<1>1. CASE Survey!ReaperClaim
  BY <1>1
  DEF Survey!ReaperClaim, Survey!Expired, Survey!Open, Survey!workers,
      Survey!history, TypeInv, SurveyOK
<1>2. CASE Survey!ReaperResolve
  BY <1>2
  DEF Survey!ReaperResolve, Survey!db, Survey!workers, Survey!history
<1>3. CASE \/ \E c \in Conv : Survey!Expire(c)
           \/ Survey!Environment \/ UNCHANGED vars
  <2>1. UNCHANGED <<state, deadline, pc, job, rpc, rconv, prompted, rated>>
    BY <1>3
    DEF Survey!Expire, Survey!Environment, Survey!AgentLabels,
        Survey!CtxExpire, Survey!workers, Survey!reaper, Survey!history, vars,
        engine, workers, survey
  <2> QED
    BY <2>1
<1> QED
  BY <1>1, <1>2, <1>3
  DEF OtherStep, Reap, Expire, Environment, Crash, Surveying, Survey!Reaper,
      Turns

\* All the steps that ask, rate and settle nothing.
LEMMA GoesOn ==
    ASSUME TypeInv, [Next]_vars, ~Turns, ~Survey!Crash
    PROVE  /\ UNCHANGED <<prompted, rated>>
           /\ \A c \in Conv :
                  /\ state'[c] = "csat_pending" => state[c] = "csat_pending"
                  /\ deadline[c] \in Survey!Open => deadline'[c] \in Survey!Open
           /\ rpc = "close" => rpc' = "close" /\ rconv' = rconv
           /\ \A t \in Thread :
                  /\ pc[t] = "ask.prompt" =>
                         pc'[t] = "ask.prompt" /\ job'[t] = job[t]
                  /\ pc[t] \in ClosingStep =>
                         pc'[t] \in ClosingStep /\ job'[t] = job[t]
                  /\ pc'[t] \in Survey!RateStep =>
                         pc[t] \in Survey!RateStep /\ job'[t] = job[t]
<1>1. ASSUME NEW t \in Thread, WorkerStep(t)
      PROVE  /\ UNCHANGED <<deadline, rpc, rconv, prompted, rated>>
             /\ \A c \in Conv :
                    state'[c] = "csat_pending" => state[c] = "csat_pending"
             /\ pc[t] # "ask.prompt"
             /\ pc[t] \in ClosingStep =>
                    pc'[t] \in ClosingStep /\ job'[t] = job[t]
             /\ pc'[t] \in Survey!RateStep =>
                    pc[t] \in Survey!RateStep /\ job'[t] = job[t]
             /\ \A u \in Thread \ {t} : pc'[u] = pc[u] /\ job'[u] = job[u]
  <2>1. \A u \in Thread \ {t} : pc'[u] = pc[u] /\ job'[u] = job[u]
    BY <1>1, WorkerMoves DEF Moves
  <2>2. ~ThreadTurns(t)
    BY DEF Turns
  <2>3. "ask.prompt" \in ClosingStep
    BY DEF ClosingStep
  <2> QED
    BY <1>1, <2>1, <2>2, <2>3, SurveyGoesOn, TriageGoesOn
    DEF WorkerStep, HandleEvent, Start, Step, Surveying, Triaging
<1>2. ASSUME NEW t \in Thread, WorkerStep(t), NEW u \in Thread
      PROVE  /\ pc[u] = "ask.prompt" =>
                    pc'[u] = "ask.prompt" /\ job'[u] = job[u]
             /\ pc[u] \in ClosingStep =>
                    pc'[u] \in ClosingStep /\ job'[u] = job[u]
             /\ pc'[u] \in Survey!RateStep =>
                    pc[u] \in Survey!RateStep /\ job'[u] = job[u]
  BY <1>1, <1>2
<1>3. CASE \E t \in Thread : WorkerStep(t)
  BY <1>1, <1>2, <1>3
<1>4. CASE OtherStep
  BY <1>4, RestGoesOn
<1> QED
  BY <1>3, <1>4 DEF Next, WorkerStep, OtherStep

-----------------------------------------------------------------------------
(* The timeout is durable *)

\* A survey that waits has an open deadline, or somebody about to settle it.
Covered(c) ==
    state[c] = "csat_pending" =>
        deadline[c] \in Survey!Open \/ Survey!Closing(c)

DurableInv ==
    /\ TypeInv /\ AllLive
    /\ Smooth => \A c \in Conv : Covered(c)

\* A step that starts no survey of c, settles no deadline of it and stops no
\* one who is about to end or to open it.
LEMMA CoveredFrame ==
    ASSUME NEW c \in Conv, Covered(c),
           state'[c] = "csat_pending" => state[c] = "csat_pending",
           deadline[c] \in Survey!Open => deadline'[c] \in Survey!Open,
           \A t \in Thread : pc[t] \in ClosingStep /\ job[t].conv = c =>
               pc'[t] \in ClosingStep /\ job'[t] = job[t],
           rpc = "close" /\ rconv = c => rpc' = "close" /\ rconv' = rconv
    PROVE  Covered(c)'
BY DEF Covered, Survey!Closing, ClosingStep

\* The steps of startCSAT and of handleCSATAnswer.
LEMMA ThreadCovers ==
    ASSUME DurableInv, [Next]_vars, Smooth', NEW t \in Thread, ThreadTurns(t),
           NEW d \in Conv
    PROVE  Covered(d)'
<1>1. /\ TypeInv /\ Covered(d)
      /\ \A ok \in BOOLEAN : Survey!Call(t, ok) => ok
  BY SmoothStep DEF DurableInv
<1>2. \A u \in Thread \ {t} : pc'[u] = pc[u] /\ job'[u] = job[u]
  <2>1. Survey!Start(t) \/ Survey!Step(t)
    BY DEF ThreadTurns, Survey!Start, Survey!Step
  <2> QED
    BY <1>1, <2>1, SurveyMoves DEF Moves
<1>3. UNCHANGED <<rpc, rconv>>
  BY DEF ThreadTurns, Survey!AskSave, Survey!AskPrompt, Survey!AskDeadline,
         Survey!RateBegin, Survey!RateRecord, Survey!RateAnswered,
         Survey!RateDone, Survey!reaper
<1>4. CASE Survey!RateBegin(t) \/ Survey!RateRecord(t)
  <2>1. /\ UNCHANGED <<state, deadline>>
        /\ pc[t] \notin ClosingStep
    BY <1>4
    DEF Survey!RateBegin, Survey!RateRecord, Survey!KeepDeadline, Survey!At,
        Survey!db, ClosingStep
  <2> QED
    BY <1>1, <1>2, <1>3, <2>1, CoveredFrame
<1>5. CASE Survey!AskPrompt(t)
  <2>1. /\ UNCHANGED <<state, deadline, job>>
        /\ pc'[t] = "ask.deadline"
    BY <1>1, <1>5
    DEF Survey!AskPrompt, Survey!Goto, Survey!db, TypeInv, ThreadsOK
  <2> QED
    BY <1>1, <1>2, <1>3, <2>1, CoveredFrame DEF ClosingStep
<1>6. CASE Survey!AskSave(t)
  <2>1. PICK c \in Conv : /\ pc[t] = "ask.save" /\ c = job[t].conv
                          /\ Survey!SaveState(c, "csat_pending", TRUE)
                          /\ Survey!Goto(t, "ask.prompt")
                          /\ UNCHANGED deadline
    BY <1>1, <1>6 DEF Survey!AskSave, Survey!At
  <2>2. CASE d = c
    <3>1. pc'[t] = "ask.prompt" /\ job'[t].conv = d
      BY <1>1, <2>1, <2>2 DEF Survey!Goto, TypeInv, ThreadsOK
    <3> QED
      BY <3>1 DEF Covered, Survey!Closing
  <2>3. CASE d # c
    <3>1. state'[d] = state[d]
      BY <1>1, <2>1, <2>3 DEF Survey!SaveState, TypeInv
    <3> QED
      BY <1>1, <1>2, <1>3, <2>1, <2>3, <3>1, CoveredFrame
  <2> QED
    BY <2>2, <2>3
<1>7. CASE Survey!AskDeadline(t)
  <2>1. PICK c \in Conv : /\ c = job[t].conv /\ UNCHANGED state
                          /\ deadline' = [deadline EXCEPT ![c] = "pending"]
    BY <1>1, <1>7 DEF Survey!AskDeadline, Survey!At
  <2>2. CASE d = c
    <3>1. deadline'[d] = "pending"
      BY <1>1, <2>1, <2>2 DEF TypeInv, SurveyOK
    <3> QED
      BY <3>1 DEF Covered, Survey!Open
  <2>3. CASE d # c
    <3>1. deadline'[d] = deadline[d]
      BY <1>1, <2>1, <2>3 DEF TypeInv, SurveyOK
    <3> QED
      BY <1>1, <1>2, <1>3, <2>1, <2>3, <3>1, CoveredFrame
  <2> QED
    BY <2>2, <2>3
<1>8. CASE Survey!RateAnswered(t)
  <2>1. PICK c \in Conv : /\ c = job[t].conv /\ UNCHANGED state
                          /\ Survey!MarkDeadlineAnswered(c)
                          /\ Survey!Goto(t, "rate.resolve")
    BY <1>1, <1>8 DEF Survey!RateAnswered, Survey!At
  <2>2. CASE d = c
    <3>1. pc'[t] = "rate.resolve" /\ job'[t].conv = d
      BY <1>1, <2>1, <2>2 DEF Survey!Goto, TypeInv, ThreadsOK
    <3> QED
      BY <3>1 DEF Covered, Survey!Closing
  <2>3. CASE d # c
    <3>1. deadline'[d] = deadline[d]
      BY <1>1, <2>1, <2>3 DEF Survey!MarkDeadlineAnswered, TypeInv, SurveyOK
    <3> QED
      BY <1>1, <1>2, <1>3, <2>1, <2>3, <3>1, CoveredFrame
  <2> QED
    BY <2>2, <2>3
<1>9. CASE Survey!RateDone(t)
  <2>1. PICK c \in Conv : /\ c = job[t].conv /\ UNCHANGED deadline
                          /\ Survey!SaveState(c, "csat_done", TRUE)
    BY <1>1, <1>9 DEF Survey!RateDone, Survey!At
  <2>2. CASE d = c
    <3>1. state'[d] = "csat_done"
      BY <1>1, <2>1, <2>2 DEF Survey!SaveState, TypeInv
    <3> QED
      BY <3>1 DEF Covered
  <2>3. CASE d # c
    <3>1. state'[d] = state[d]
      BY <1>1, <2>1, <2>3 DEF Survey!SaveState, TypeInv
    <3> QED
      BY <1>1, <1>2, <1>3, <2>1, <2>3, <3>1, CoveredFrame
  <2> QED
    BY <2>2, <2>3
<1> QED
  BY <1>4, <1>5, <1>6, <1>7, <1>8, <1>9 DEF ThreadTurns

\* The reaper completes a deadline only on its way to closing the survey.
LEMMA ReaperCovers ==
    ASSUME DurableInv, [Next]_vars, Smooth',
           Survey!ReaperComplete \/ Survey!ReaperClose,
           NEW d \in Conv
    PROVE  Covered(d)'
<1>1. /\ TypeInv /\ Covered(d)
      /\ \A ok \in BOOLEAN : Survey!ReaperCall(ok) => ok
  BY SmoothStep DEF DurableInv
<1>2. UNCHANGED <<pc, job>> /\ rconv \in Conv
  BY <1>1
  DEF Survey!ReaperComplete, Survey!ReaperClose, Survey!workers, TypeInv,
      SurveyOK
<1>3. CASE Survey!ReaperComplete
  <2>1. /\ UNCHANGED <<state, rconv>> /\ rpc' = "close"
        /\ deadline' = [deadline EXCEPT ![rconv] = "done"]
    BY <1>1, <1>3 DEF Survey!ReaperComplete
  <2>2. CASE d = rconv
    BY <2>1, <2>2 DEF Covered, Survey!Closing
  <2>3. CASE d # rconv
    <3>1. deadline'[d] = deadline[d]
      BY <1>1, <2>1, <2>3 DEF TypeInv, SurveyOK
    <3> QED
      BY <1>1, <1>2, <2>1, <2>3, <3>1, CoveredFrame
  <2> QED
    BY <2>2, <2>3
<1>4. CASE Survey!ReaperClose
  <2>1. UNCHANGED deadline /\ Survey!SaveState(rconv, "closed_timeout", TRUE)
    BY <1>1, <1>4 DEF Survey!ReaperClose
  <2>2. state' = [state EXCEPT ![rconv] = "closed_timeout"]
    BY <2>1 DEF Survey!SaveState
  <2>3. CASE d = rconv
    BY <1>1, <1>2, <2>2, <2>3 DEF Covered, TypeInv
  <2>4. CASE d # rconv
    <3>1. state'[d] = state[d]
      BY <1>1, <2>2, <2>4 DEF TypeInv
    <3> QED
      BY <1>1, <1>2, <2>1, <2>4, <3>1, CoveredFrame
  <2> QED
    BY <2>3, <2>4
<1> QED
  BY <1>3, <1>4

\* As long as nothing fails, a survey that waits for its rating is covered by
\* an open deadline, or by a handler about to end it or to store the deadline,
\* although triages overwrite the row and the reaper closes it meanwhile.
THEOREM TimeoutIsDurable == Spec => []DurableTimeout
<1>1. Init => DurableInv
  <2> SUFFICES ASSUME Init PROVE DurableInv
    OBVIOUS
  <2>1. \A t \in Thread : live[t]
    BY DEF Init, Survey!Init, Survey!EngineInit
  <2>2. \A c \in Conv : state[c] = "none"
    BY DEF Init
  <2> QED
    BY <2>1, <2>2, InitTypes DEF DurableInv, AllLive, Covered
<1>2. DurableInv /\ [Next]_vars => DurableInv'
  <2> SUFFICES ASSUME DurableInv, [Next]_vars PROVE DurableInv'
    OBVIOUS
  <2>1. TypeInv' /\ AllLive'
    BY NextType, LiveStep DEF DurableInv
  <2>2. ASSUME Smooth', NEW c \in Conv PROVE Covered(c)'
    <3>1. TypeInv /\ Covered(c) /\ ~ Survey!Crash
      BY <2>2, SmoothStep DEF DurableInv
    <3>2. CASE Turns
      BY <2>2, <3>2, ThreadCovers, ReaperCovers DEF Turns
    <3>3. CASE ~ Turns
      BY <3>1, <3>3, GoesOn, CoveredFrame
    <3> QED
      BY <3>2, <3>3
  <2> QED
    BY <2>1, <2>2 DEF DurableInv
<1>3. DurableInv => DurableTimeout
  BY DEF DurableInv, DurableTimeout, Survey!DurableTimeout, Covered, Smooth,
         Survey!Smooth
<1> QED
  BY <1>1, <1>2, <1>3, PTL DEF Spec

-----------------------------------------------------------------------------
(* Nobody is rated unasked *)

\* A thread is about to ask the customer of c.
Prompting(c) ==
    \E t \in Thread : pc[t] = "ask.prompt" /\ job[t].conv = c

\* A survey that waits was asked, or is about to be; a rating is taken up,
\* and recorded, only of a survey that was asked.
Asked(c) ==
    /\ state[c] = "csat_pending" => prompted[c] > 0 \/ Prompting(c)
    /\ rated[c] > 0 => prompted[c] > 0

RatesAsked(t) == pc[t] \in Survey!RateStep => prompted[job[t].conv] > 0

AskedInv ==
    /\ TypeInv /\ LockHeld /\ AllLive
    /\ prompted \in [Conv -> Nat] /\ rated \in [Conv -> Nat]
    /\ Smooth => /\ \A c \in Conv : Asked(c)
                 /\ \A t \in Thread : RatesAsked(t)

\* Threads that rate a survey have a conversation.
LEMMA RatingConv ==
    ASSUME TypeInv, NEW t \in Thread, pc[t] \in Survey!RateStep
    PROVE  job[t].conv \in Conv
BY DEF TypeInv, ThreadsOK, SurveyStep, Survey!Locked, Survey!Job

\* Prompts and ratings are counted.
LEMMA CountsGrow ==
    ASSUME TypeInv, prompted \in [Conv -> Nat], rated \in [Conv -> Nat],
           [Next]_vars
    PROVE  /\ prompted' \in [Conv -> Nat] /\ rated' \in [Conv -> Nat]
           /\ \A c \in Conv : prompted'[c] >= prompted[c]
<1>1. ASSUME NEW t \in Thread, ThreadTurns(t)
      PROVE  /\ prompted' \in [Conv -> Nat] /\ rated' \in [Conv -> Nat]
             /\ \A c \in Conv : prompted'[c] >= prompted[c]
  <2>1. CASE Survey!AskPrompt(t)
    BY <2>1 DEF Survey!AskPrompt
  <2>2. CASE Survey!RateRecord(t)
    <3>1. PICK c \in Conv, applied \in BOOLEAN :
              rated' = [rated EXCEPT ![c] = IF applied THEN @ + 1 ELSE @]
      BY <2>2 DEF Survey!RateRecord
    <3>2. prompted' = prompted
      BY <2>2 DEF Survey!RateRecord
    <3> QED
      BY <3>1, <3>2
  <2>3. CASE UNCHANGED <<prompted, rated>>
    BY <2>3
  <2> QED
    BY <1>1, <2>1, <2>2, <2>3
    DEF ThreadTurns, Survey!AskSave, Survey!AskDeadline, Survey!RateBegin,
        Survey!RateAnswered, Survey!RateDone, Survey!history
<1>2. ASSUME \/ Survey!ReaperComplete \/ Survey!ReaperClose \/ Survey!Crash
      PROVE  UNCHANGED <<prompted, rated>>
  BY <1>2
  DEF Survey!ReaperComplete, Survey!ReaperClose, Survey!Crash, Survey!history
<1>3. ASSUME ~Turns, ~Survey!Crash PROVE UNCHANGED <<prompted, rated>>
  BY <1>3, GoesOn
<1>4. CASE UNCHANGED <<prompted, rated>>
  BY <1>4
<1> QED
  BY <1>1, <1>2, <1>3, <1>4 DEF Turns

\* A step that starts no survey, rates none and stops nobody about to ask.
LEMMA AskedFrame ==
    ASSUME TypeInv, prompted \in [Conv -> Nat], rated \in [Conv -> Nat],
           [Next]_vars, NEW c \in Conv, Asked(c),
           state'[c] = "csat_pending" => state[c] = "csat_pending",
           rated'[c] = rated[c],
           Prompting(c) => Prompting(c)' \/ prompted'[c] > 0
    PROVE  Asked(c)'
<1>1. /\ prompted[c] \in Nat /\ prompted'[c] \in Nat
      /\ prompted'[c] >= prompted[c]
  BY CountsGrow
<1> QED
  BY <1>1 DEF Asked

LEMMA RatesFrame ==
    ASSUME TypeInv, prompted \in [Conv -> Nat], rated \in [Conv -> Nat],
           [Next]_vars, NEW t \in Thread, RatesAsked(t),
           pc'[t] \in Survey!RateStep =>
               pc[t] \in Survey!RateStep /\ job'[t] = job[t]
    PROVE  RatesAsked(t)'
<1> SUFFICES ASSUME pc'[t] \in Survey!RateStep
             PROVE  prompted'[job'[t].conv] > 0
  BY DEF RatesAsked
<1>1. job[t].conv \in Conv /\ prompted[job[t].conv] > 0
  BY RatingConv DEF RatesAsked
<1>2. prompted[job[t].conv] \in Nat /\ prompted'[job[t].conv] \in Nat
      /\ prompted'[job[t].conv] >= prompted[job[t].conv]
  BY <1>1, CountsGrow
<1> QED
  BY <1>1, <1>2

\* The steps of startCSAT and handleCSATAnswer.
LEMMA ThreadAsks ==
    ASSUME AskedInv, [Next]_vars, Smooth', NEW t \in Thread, ThreadTurns(t)
    PROVE  /\ \A c \in Conv : Asked(c)'
           /\ \A u \in Thread : RatesAsked(u)'
<1>1. /\ TypeInv /\ prompted \in [Conv -> Nat] /\ rated \in [Conv -> Nat]
      /\ \A c \in Conv : Asked(c)
      /\ \A u \in Thread : RatesAsked(u) /\ live[u]
      /\ \A ok \in BOOLEAN : Survey!Call(t, ok) => ok
  BY SmoothStep DEF AskedInv
<1>2. \A u \in Thread \ {t} : pc'[u] = pc[u] /\ job'[u] = job[u]
  <2>1. Survey!Start(t) \/ Survey!Step(t)
    BY DEF ThreadTurns, Survey!Start, Survey!Step
  <2> QED
    BY <1>1, <2>1, SurveyMoves DEF Moves
<1>3. \A u \in Thread \ {t} : RatesAsked(u)'
  BY <1>1, <1>2, RatesFrame
<1>4. ASSUME NEW c \in Conv, Prompting(c),
             pc[t] # "ask.prompt" \/ job[t].conv # c
      PROVE  Prompting(c)'
  BY <1>2, <1>4 DEF Prompting
<1>5. CASE \/ Survey!AskDeadline(t) \/ Survey!RateAnswered(t)
           \/ Survey!RateDone(t)
  <2>1. /\ UNCHANGED <<prompted, rated>> /\ pc[t] # "ask.prompt"
        /\ \A c \in Conv :
               state'[c] = "csat_pending" => state[c] = "csat_pending"
    BY <1>1, <1>5
    DEF Survey!AskDeadline, Survey!RateAnswered, Survey!RateDone, Survey!At,
        Survey!SaveState, Survey!history, TypeInv
  <2>2. pc'[t] \in Survey!RateStep =>
            pc[t] \in Survey!RateStep /\ job'[t] = job[t]
    BY <1>1, <1>5
    DEF Survey!AskDeadline, Survey!RateAnswered, Survey!RateDone, Survey!At,
        Survey!Finish, Survey!Goto, Survey!RateStep, TypeInv, ThreadsOK
  <2>3. RatesAsked(t)'
    BY <1>1, <2>2, RatesFrame
  <2> QED
    BY <1>1, <1>3, <1>4, <2>1, <2>3, AskedFrame
<1>6. CASE Survey!AskSave(t)
  <2>1. PICK c \in Conv : /\ pc[t] = "ask.save" /\ c = job[t].conv
                          /\ Survey!SaveState(c, "csat_pending", TRUE)
                          /\ Survey!Goto(t, "ask.prompt")
                          /\ UNCHANGED <<prompted, rated>>
    BY <1>1, <1>6 DEF Survey!AskSave, Survey!At, Survey!history
  <2>2. pc'[t] = "ask.prompt" /\ job'[t].conv = c
    BY <1>1, <2>1 DEF Survey!Goto, TypeInv, ThreadsOK
  <2>3. Prompting(c)'
    BY <2>2 DEF Prompting
  <2>4. Asked(c)'
    BY <1>1, <2>1, <2>3 DEF Asked
  <2>5. \A d \in Conv \ {c} : state'[d] = state[d]
    BY <1>1, <2>1 DEF Survey!SaveState, TypeInv
  <2>6. \A d \in Conv \ {c} : Asked(d)'
    BY <1>1, <1>4, <2>1, <2>5, AskedFrame
  <2>7. RatesAsked(t)'
    BY <2>2 DEF RatesAsked, Survey!RateStep
  <2> QED
    BY <1>3, <2>4, <2>6, <2>7
<1>7. CASE Survey!AskPrompt(t)
  <2>1. PICK c \in Conv : Survey!AskPrompt(t)!(c)
    BY <1>7 DEF Survey!AskPrompt
  <2>2. /\ UNCHANGED <<state, rated>> /\ c = job[t].conv
        /\ pc'[t] = "ask.deadline"
        /\ prompted' = [prompted EXCEPT ![c] = @ + 1]
    BY <1>1, <2>1
    DEF Survey!At, Survey!Goto, Survey!db, TypeInv, ThreadsOK
  <2>3. prompted'[c] > 0
    BY <1>1, <2>2
  <2>4. RatesAsked(t)'
    BY <2>2 DEF RatesAsked, Survey!RateStep
  <2> QED
    BY <1>1, <1>3, <1>4, <2>2, <2>3, <2>4, AskedFrame
<1>8. CASE Survey!RateBegin(t)
  <2>1. PICK c \in Conv, ok \in BOOLEAN : Survey!RateBegin(t)!(c, ok)
    BY <1>8 DEF Survey!RateBegin
  <2>2. /\ UNCHANGED <<state, prompted, rated>> /\ c = job[t].conv
        /\ pc[t] = "rate.begin"
    BY <2>1 DEF Survey!At, Survey!history
  <2>3. RatesAsked(t)'
    <3>1. CASE Survey!Return(t, c)
      BY <1>1, <3>1
      DEF Survey!Return, Survey!Finish, RatesAsked, Survey!RateStep, TypeInv,
          ThreadsOK
    <3>2. CASE ~Survey!Return(t, c)
      <4>1. /\ Survey!AwaitsRating(state[c]) /\ Survey!LockConv(t, c)
            /\ job' = job
        BY <2>1, <3>2
      <4>2. ~Prompting(c)
        <5>1. lock[StripeOf(c)] = None
          BY <4>1 DEF Survey!LockConv, Survey!StripeOf, StripeOf
        <5>2. "ask.prompt" \in Held
          BY DEF Held, Survey!Locked, Survey!AskStep
        <5> QED
          BY <5>1, <5>2, NoneAssumption
          DEF Prompting, AskedInv, LockHeld
      <4>3. prompted[c] > 0
        BY <1>1, <4>1, <4>2 DEF Asked, Survey!AwaitsRating
      <4> QED
        BY <2>2, <4>1, <4>3 DEF RatesAsked
    <3> QED
      BY <3>1, <3>2
  <2> QED
    BY <1>1, <1>3, <1>4, <2>2, <2>3, AskedFrame
<1>9. CASE Survey!RateRecord(t)
  <2>1. PICK c \in Conv, applied \in BOOLEAN :
            /\ pc[t] = "rate.record" /\ c = job[t].conv
            /\ rated' = [rated EXCEPT ![c] = IF applied THEN @ + 1 ELSE @]
            /\ UNCHANGED <<state, prompted>> /\ job' = job
    BY <1>9 DEF Survey!RateRecord, Survey!At, Survey!db, Survey!Goto
  <2>2. pc[t] \in Survey!RateStep
    BY <2>1 DEF Survey!RateStep
  <2>3. prompted[c] > 0 /\ prompted'[c] > 0
    BY <1>1, <2>1, <2>2 DEF RatesAsked
  <2>4. Asked(c)'
    BY <2>3 DEF Asked
  <2>5. \A d \in Conv \ {c} : Asked(d)'
    BY <1>1, <1>4, <2>1, AskedFrame
  <2>6. RatesAsked(t)'
    BY <2>1, <2>3 DEF RatesAsked
  <2> QED
    BY <1>3, <2>4, <2>5, <2>6
<1> QED
  BY <1>5, <1>6, <1>7, <1>8, <1>9 DEF ThreadTurns

\* The reaper asks and rates nobody.
LEMMA ReaperAsks ==
    ASSUME AskedInv, [Next]_vars, Smooth',
           Survey!ReaperComplete \/ Survey!ReaperClose
    PROVE  /\ \A c \in Conv : Asked(c)'
           /\ \A u \in Thread : RatesAsked(u)'
<1>1. /\ TypeInv /\ prompted \in [Conv -> Nat] /\ rated \in [Conv -> Nat]
      /\ \A c \in Conv : Asked(c)
      /\ \A u \in Thread : RatesAsked(u)
  BY SmoothStep DEF AskedInv
<1>2. /\ UNCHANGED <<pc, job, rated>>
      /\ \A c \in Conv :
             state'[c] = "csat_pending" => state[c] = "csat_pending"
  BY <1>1
  DEF Survey!ReaperComplete, Survey!ReaperClose, Survey!SaveState,
      Survey!workers, Survey!history, TypeInv
<1>3. \A c \in Conv : Prompting(c) => Prompting(c)'
  BY <1>2 DEF Prompting
<1> QED
  BY <1>1, <1>2, <1>3, AskedFrame, RatesFrame

\* As long as nothing fails, no rating is recorded of a customer who was not
\* asked: an answer that arrives while the survey starts waits for the prompt.
THEOREM RatedAfterAsked == Spec => []AskedBeforeRated
<1>1. Init => AskedInv
  <2> SUFFICES ASSUME Init PROVE AskedInv
    OBVIOUS
  <2>1. \A t \in Thread : live[t] /\ pc[t] = "idle"
    BY DEF Init, Survey!Init, Survey!EngineInit
  <2>2. /\ \A c \in Conv : state[c] = "none"
        /\ prompted = [c \in Conv |-> 0] /\ rated = [c \in Conv |-> 0]
    BY DEF Init, Survey!Init
  <2>3. LockHeld
    BY <2>1, IdleIsFree DEF LockHeld
  <2> QED
    BY <2>1, <2>2, <2>3, InitTypes
    DEF AskedInv, AllLive, Asked, RatesAsked, Survey!RateStep
<1>2. AskedInv /\ [Next]_vars => AskedInv'
  <2> SUFFICES ASSUME AskedInv, [Next]_vars PROVE AskedInv'
    OBVIOUS
  <2>1. TypeInv' /\ LockHeld' /\ AllLive'
    BY NextType, NextHeld, LiveStep DEF AskedInv
  <2>2. prompted' \in [Conv -> Nat] /\ rated' \in [Conv -> Nat]
    BY CountsGrow DEF AskedInv
  <2>3. ASSUME Smooth'
        PROVE  /\ \A c \in Conv : Asked(c)'
               /\ \A t \in Thread : RatesAsked(t)'
    <3>1. CASE Turns
      BY <2>3, <3>1, ThreadAsks, ReaperAsks DEF Turns
    <3>2. CASE ~ Turns
      <4>1. /\ TypeInv /\ ~ Survey!Crash
            /\ prompted \in [Conv -> Nat] /\ rated \in [Conv -> Nat]
            /\ \A c \in Conv : Asked(c)
            /\ \A t \in Thread : RatesAsked(t)
        BY <2>3, SmoothStep DEF AskedInv
      <4>2. \A c \in Conv : Prompting(c) => Prompting(c)'
        BY <3>2, <4>1, GoesOn DEF Prompting
      <4> QED
        BY <3>2, <4>1, <4>2, GoesOn, AskedFrame, RatesFrame
    <3> QED
      BY <3>1, <3>2
  <2> QED
    BY <2>1, <2>2, <2>3 DEF AskedInv
<1>3. AskedInv => AskedBeforeRated
  BY DEF AskedInv, AskedBeforeRated, Asked
<1> QED
  BY <1>1, <1>2, <1>3, PTL DEF Spec
-----------------------------------------------------------------------------
(* A survey is not closed before its deadline *)

\* A thread about to store the deadline of the survey it has just asked.
Storing(t) == pc[t] = "ask.deadline" /\ live[t]

\* A deadline is that of a survey that was asked; moving one takes a second
\* prompt, and what the reaper holds is due or such a one.
AskedFor(c) == deadline[c] # "none" => prompted[c] > 0
AskedAgain(t) ==
    Storing(t) =>
        LET c == job[t].conv
        IN  prompted[c] > 0 /\ (deadline[c] # "none" => prompted[c] > 1)
HeldIsDue(c) ==
    c \in batch => deadline[c] # "none" /\ (due[c] \/ prompted[c] > 1)

DueInv ==
    /\ TypeInv /\ LockHeld
    /\ due \in [Conv -> BOOLEAN]
    /\ prompted \in [Conv -> Nat] /\ rated \in [Conv -> Nat]
    /\ \A c \in Conv : AskedFor(c) /\ HeldIsDue(c)
    /\ \A t \in Thread : AskedAgain(t)

\* The step that stores a deadline, and what the other steps do to the rows.
Stores(t) ==
    /\ Storing(t) /\ pc'[t] = "idle" /\ job[t].conv \in Conv
    /\ deadline' = [deadline EXCEPT ![job[t].conv] = "pending"]
    /\ due' = [due EXCEPT ![job[t].conv] = FALSE]

RowKept(c) ==
    /\ deadline'[c] = "none" <=> deadline[c] = "none"
    /\ due[c] => due'[c]

LEMMA ThreadStores ==
    ASSUME DueInv, NEW t \in Thread, WorkerStep(t)
    PROVE  batch' = batch /\ (Stores(t) \/ \A c \in Conv : RowKept(c))
<1> USE DEF DueInv, TypeInv, ThreadsOK, SurveyOK
<1>1. CASE Survey!AskDeadline(t)
  <2>1. PICK c \in Conv, ok \in BOOLEAN : Survey!AskDeadline(t)!(c, ok)
    BY <1>1 DEF Survey!AskDeadline
  <2>2. batch' = batch /\ pc'[t] = "idle"
    BY <2>1 DEF Survey!reaper, Survey!Finish
  <2>3. CASE ok
    <3>1. live[t] /\ pc[t] = "ask.deadline" /\ c = job[t].conv
      BY <2>1, <2>3 DEF Survey!Call, Survey!At
    <3> QED
      BY <2>1, <2>2, <2>3, <3>1 DEF Stores, Storing
  <2>4. CASE ~ok
    BY <2>1, <2>2, <2>4 DEF RowKept
  <2> QED
    BY <2>3, <2>4
<1>2. CASE Survey!RateAnswered(t)
  <2>1. PICK c \in Conv, ok \in BOOLEAN : Survey!RateAnswered(t)!(c, ok)
    BY <1>2 DEF Survey!RateAnswered
  <2> QED
    BY <2>1 DEF Survey!MarkDeadlineAnswered, Survey!reaper, RowKept
<1>3. CASE UNCHANGED <<deadline, due, batch>>
  BY <1>3 DEF RowKept
<1> QED
  BY <1>1, <1>2, <1>3
  DEF WorkerStep, HandleEvent, Start, Step, Surveying, Triaging, survey,
      Survey!HandleMessageCreated, Survey!HandleConversationUpdated,
      Survey!Start, Survey!Step, Survey!AskBegin, Survey!RateBegin,
      Survey!AskSave, Survey!AskPrompt, Survey!RateRecord,
      Survey!RateUnlabel, Survey!RateResolve, Survey!RateDone,
      Survey!KeepDeadline, Survey!db, Survey!reaper

\* The reaper claims what is due and never takes a row away; a deadline that
\* is over stays over.
LEMMA RestStores ==
    ASSUME DueInv, OtherStep, NEW c \in Conv
    PROVE  /\ RowKept(c)
           /\ c \in batch' => c \in batch \/ (deadline[c] # "none" /\ due[c])
<1> USE DEF RowKept
<1>1. CASE Survey!ReaperClaim
  <2>1. /\ due' = due
        /\ c \in batch' => Survey!Expired(c)
        /\ deadline'[c] \in {deadline[c], "closing"}
        /\ deadline'[c] # deadline[c] => Survey!Expired(c)
    BY <1>1 DEF Survey!ReaperClaim, DueInv, TypeInv, SurveyOK
  <2> QED
    BY <2>1 DEF Survey!Expired, Survey!Open
<1>2. CASE Survey!ReaperComplete
  <2>1. rconv \in batch /\ rconv \in Conv /\ deadline[rconv] # "none"
    BY <1>2 DEF Survey!ReaperComplete, HeldIsDue, DueInv, TypeInv, SurveyOK
  <2>2. /\ due' = due /\ batch' = batch
        /\ \/ deadline' = [deadline EXCEPT ![rconv] = "done"]
           \/ deadline' = deadline
    BY <1>2 DEF Survey!ReaperComplete
  <2>3. deadline'[c] = "none" <=> deadline[c] = "none"
    BY <2>1, <2>2 DEF DueInv, TypeInv, SurveyOK
  <2> QED
    BY <2>2, <2>3
<1>3. CASE \E d \in Conv : Survey!Expire(d)
  <2>1. PICK d \in Conv : due' = [due EXCEPT ![d] = TRUE]
    BY <1>3 DEF Survey!Expire
  <2>2. deadline' = deadline /\ batch' = batch
    BY <1>3 DEF Survey!Expire, Survey!reaper
  <2>3. due[c] => due'[c]
    BY <2>1 DEF DueInv
  <2> QED
    BY <2>2, <2>3
<1>4. CASE deadline' = deadline /\ due' = due /\ batch' \subseteq batch
  BY <1>4
<1> QED
  BY <1>1, <1>2, <1>3, <1>4
  DEF OtherStep, Reap, Expire, Environment, Crash, Surveying, Survey!Reaper,
      Survey!ReaperResolve, Survey!ReaperClose, Survey!LeaveClosing,
      Survey!NextInBatch, Survey!Environment, Survey!Crash, Survey!db,
      Survey!reaper, vars, survey

\* A thread gets to store a deadline by asking the customer.
LEMMA StoringMoves ==
    ASSUME DueInv, [Next]_vars, NEW t \in Thread, Storing(t)'
    PROVE  \/ Storing(t) /\ job'[t] = job[t]
           \/ /\ job'[t] = job[t] /\ job[t].conv \in Conv
              /\ deadline' = deadline
              /\ prompted'[job[t].conv] = prompted[job[t].conv] + 1
<1> USE DEF DueInv, TypeInv, ThreadsOK, Storing
<1>1. CASE Survey!AskPrompt(t)
  <2>1. PICK c \in Conv : Survey!AskPrompt(t)!(c)
    BY <1>1 DEF Survey!AskPrompt
  <2>2. c = job[t].conv /\ job' = job /\ live' = live /\ deadline' = deadline
    BY <2>1 DEF Survey!At, Survey!Goto, Survey!db
  <2> QED
    BY <2>1, <2>2
<1>2. CASE WorkerStep(t) /\ ~Survey!AskPrompt(t)
  <2>1. pc'[t] # "ask.deadline"
    <3>1. ASSUME \/ Survey!HandleMessageCreated(t)
                 \/ Survey!HandleConversationUpdated(t)
                 \/ Survey!Start(t)
                 \/ Survey!Step(t) /\ ~Survey!AskPrompt(t)
          PROVE  pc'[t] # "ask.deadline"
      BY <3>1
      DEF Survey!HandleMessageCreated, Survey!HandleConversationUpdated,
          Survey!Dispatch, Survey!Start, Survey!Step, Survey!AskBegin,
          Survey!AskSave, Survey!AskDeadline, Survey!RateBegin,
          Survey!RateRecord, Survey!RateUnlabel, Survey!RateAnswered,
          Survey!RateResolve, Survey!RateDone, Survey!Return,
          Survey!Finish, Survey!Goto
    <3>2. ASSUME \/ Triage!HandleMessageCreated(t) \/ Triage!HandleAudio(t)
                 \/ Triage!HandleConversationUpdated(t)
                 \/ Triage!Begin(t) \/ Triage!Step(t)
          PROVE  pc'[t] # "ask.deadline"
      BY <3>2
      DEF Triage!HandleMessageCreated, Triage!HandleAudio,
          Triage!HandleConversationUpdated, Triage!Dispatch, Triage!Begin,
          Triage!Step, Triage!Transcribe, Triage!ClassifyFails,
          Triage!ClassifyReply, Triage!ClassifyRoute, Triage!Reply,
          Triage!Save, Triage!RouteLabels, Triage!RouteSave,
          Triage!Return, Triage!Finish, Triage!Goto
    <3> QED
      BY <1>2, <3>1, <3>2
      DEF WorkerStep, HandleEvent, Start, Step, Surveying, Triaging
  <2> QED
    BY <2>1
<1>3. CASE \E u \in Thread \ {t} : WorkerStep(u)
  BY <1>3, WorkerMoves DEF Moves
<1>4. CASE OtherStep
  BY <1>4, OthersAreQuiet DEF Quiet
<1> QED
  BY <1>1, <1>2, <1>3, <1>4 DEF Next, WorkerStep, OtherStep

LEMMA StoringConv ==
    ASSUME TypeInv, NEW t \in Thread, pc[t] = "ask.deadline"
    PROVE  job[t].conv \in Conv /\ pc[t] \in Held
BY DEF TypeInv, ThreadsOK, SurveyStep, Survey!Locked, Survey!AskStep,
       Survey!Job, Held

\* The invariant, one conversation and one thread at a time.
LEMMA RowsStayDue ==
    ASSUME DueInv, [Next]_vars, NEW c \in Conv
    PROVE  AskedFor(c)' /\ HeldIsDue(c)'
<1>1. /\ prompted[c] \in Nat /\ prompted'[c] \in Nat
      /\ prompted'[c] >= prompted[c]
      /\ AskedFor(c) /\ HeldIsDue(c)
  BY CountsGrow DEF DueInv
<1>2. CASE \E t \in Thread : WorkerStep(t)
  <2>1. PICK t \in Thread : WorkerStep(t)
    BY <1>2
  <2>2. batch' = batch /\ (Stores(t) \/ RowKept(c))
    BY <2>1, ThreadStores
  <2>3. CASE Stores(t) /\ job[t].conv = c
    <3>1. prompted[c] > 0 /\ (deadline[c] # "none" => prompted[c] > 1)
      BY <2>3 DEF DueInv, Stores, AskedAgain
    <3>2. deadline'[c] = "pending"
      BY <2>3 DEF Stores, DueInv, TypeInv, SurveyOK
    <3> QED
      BY <1>1, <2>2, <3>1, <3>2 DEF AskedFor, HeldIsDue
  <2>4. CASE Stores(t) /\ job[t].conv # c
    <3>1. deadline'[c] = deadline[c] /\ due'[c] = due[c]
      BY <2>4 DEF Stores, DueInv, TypeInv, SurveyOK
    <3> QED
      BY <1>1, <2>2, <3>1 DEF AskedFor, HeldIsDue
  <2>5. CASE RowKept(c)
    BY <1>1, <2>2, <2>5 DEF RowKept, AskedFor, HeldIsDue
  <2> QED
    BY <2>2, <2>3, <2>4, <2>5
<1>3. CASE OtherStep
  BY <1>1, <1>3, RestStores DEF RowKept, AskedFor, HeldIsDue
<1> QED
  BY <1>2, <1>3 DEF Next, WorkerStep, OtherStep

\* The mutex keeps a second thread from storing the same deadline meanwhile.
LEMMA ThreadsAskAgain ==
    ASSUME DueInv, [Next]_vars, NEW t \in Thread
    PROVE  AskedAgain(t)'
<1> SUFFICES ASSUME Storing(t)'
             PROVE  LET c == job'[t].conv
                    IN  /\ prompted'[c] > 0
                        /\ deadline'[c] # "none" => prompted'[c] > 1
  BY DEF AskedAgain
<1>1. CASE Storing(t) /\ job'[t] = job[t]
  <2>1. PICK c \in Conv : c = job[t].conv
    BY <1>1, StoringConv DEF Storing, DueInv
  <2>2. /\ prompted[c] \in Nat /\ prompted'[c] \in Nat
        /\ prompted'[c] >= prompted[c]
        /\ prompted[c] > 0 /\ (deadline[c] # "none" => prompted[c] > 1)
    BY <1>1, <2>1, CountsGrow DEF DueInv, AskedAgain
  <2>3. ASSUME NEW u \in Thread, Stores(u), job[u].conv = c PROVE FALSE
    <3>1. pc[u] \in Held /\ pc[t] \in Held
      BY <1>1, <2>3, StoringConv DEF Storing, Stores, DueInv
    <3>2. u = t
      BY <2>1, <2>3, <3>1 DEF DueInv, LockHeld
    <3> QED
      BY <2>3, <3>2 DEF Storing, Stores
  <2>4. ASSUME NEW u \in Thread, WorkerStep(u)
        PROVE  deadline'[c] = "none" <=> deadline[c] = "none"
    <3>1. CASE Stores(u)
      <4>1. job[u].conv # c
        BY <2>3, <3>1
      <4> QED
        BY <3>1, <4>1 DEF Stores, DueInv, TypeInv, SurveyOK
    <3>2. CASE RowKept(c)
      BY <3>2 DEF RowKept
    <3> QED
      BY <2>4, <3>1, <3>2, ThreadStores
  <2>5. deadline'[c] = "none" <=> deadline[c] = "none"
    BY <2>4, RestStores DEF RowKept, Next, WorkerStep, OtherStep
  <2> QED
    BY <1>1, <2>1, <2>2, <2>5
<1>2. CASE /\ job'[t] = job[t] /\ job[t].conv \in Conv
           /\ deadline' = deadline
           /\ prompted'[job[t].conv] = prompted[job[t].conv] + 1
  <2>1. PICK c \in Conv : c = job[t].conv
    BY <1>2
  <2>2. prompted[c] \in Nat /\ AskedFor(c)
    BY DEF DueInv
  <2> QED
    BY <1>2, <2>1, <2>2 DEF AskedFor
<1> QED
  BY <1>1, <1>2, StoringMoves

\* A deadline is over or is not.
LEMMA DueType ==
    ASSUME DueInv, [Next]_vars PROVE due' \in [Conv -> BOOLEAN]
<1>1. ASSUME \/ \E t \in Thread : Survey!AskDeadline(t)
             \/ \E c \in Conv : Survey!Expire(c)
      PROVE  due' \in [Conv -> BOOLEAN]
  BY <1>1 DEF Survey!AskDeadline, Survey!Expire, DueInv
<1>2. CASE due' = due
  BY <1>2 DEF DueInv
<1> QED
  BY <1>1, <1>2
  DEF Next, HandleEvent, Start, Step, Reap, Expire, Environment, Crash,
      Surveying, Triaging, survey, vars, Survey!HandleMessageCreated,
      Survey!HandleConversationUpdated, Survey!Start, Survey!Step,
      Survey!AskBegin, Survey!RateBegin, Survey!AskSave, Survey!AskPrompt,
      Survey!RateRecord, Survey!RateUnlabel, Survey!RateAnswered,
      Survey!RateResolve, Survey!RateDone, Survey!db, Survey!Reaper,
      Survey!ReaperClaim, Survey!ReaperResolve, Survey!ReaperComplete,
      Survey!ReaperClose, Survey!Environment, Survey!Crash

\* Through late triages, repeated labels, failed calls, expired jobs and
\* crashes, the reaper closes a survey whose deadline is over, or one whose
\* customer was asked more than once.
THEOREM ClosedInTime == Spec => NoEarlyClose
<1>1. Init => DueInv
  <2> SUFFICES ASSUME Init PROVE DueInv
    OBVIOUS
  <2>1. /\ \A t \in Thread : pc[t] = "idle"
        /\ batch = {} /\ due = [c \in Conv |-> FALSE]
        /\ deadline = [c \in Conv |-> "none"]
        /\ prompted = [c \in Conv |-> 0] /\ rated = [c \in Conv |-> 0]
    BY DEF Init, Survey!Init, Survey!EngineInit
  <2>2. LockHeld
    BY <2>1, IdleIsFree DEF LockHeld
  <2> QED
    BY <2>1, <2>2, InitTypes
    DEF DueInv, AskedFor, AskedAgain, Storing, HeldIsDue
<1>2. DueInv /\ [Next]_vars => DueInv'
  <2> SUFFICES ASSUME DueInv, [Next]_vars PROVE DueInv'
    OBVIOUS
  <2>1. TypeInv' /\ LockHeld'
    BY NextType, NextHeld DEF DueInv
  <2>2. /\ due' \in [Conv -> BOOLEAN]
        /\ prompted' \in [Conv -> Nat] /\ rated' \in [Conv -> Nat]
    BY DueType, CountsGrow DEF DueInv
  <2> QED
    BY <2>1, <2>2, RowsStayDue, ThreadsAskAgain DEF DueInv
<1>3. DueInv /\ [Next]_vars =>
          [\A c \in Conv : Closes(c) => due[c] \/ prompted[c] > 1]_vars
  <2> SUFFICES ASSUME DueInv, Next, NEW c \in Conv, Closes(c)
               PROVE  due[c] \/ prompted[c] > 1
    OBVIOUS
  <2>1. (\E t \in Thread : Writes(t)) \/ ReaperCloses \/ Resolves
    BY WorkerWrites, OtherWrites DEF DueInv, Next, WorkerStep, OtherStep
  <2>2. rpc = "close" /\ c = rconv
    BY <2>1
    DEF Closes, Writes, Write, ReaperCloses, Resolves, DueInv, TypeInv
  <2>3. HeldIsDue(c) /\ c \in batch
    BY <2>2 DEF DueInv, TypeInv, SurveyOK
  <2> QED
    BY <2>3 DEF HeldIsDue
<1> QED
  BY <1>1, <1>2, <1>3, PTL DEF Spec, NoEarlyClose

-----------------------------------------------------------------------------
(* A survey is rated once *)

AfterRecord == Survey!RateStep \ {"rate.record"}

\* A thread has recorded a rating of c and is on its way to end the survey.
Recorded(c) ==
    \E t \in Thread :
        pc[t] \in AfterRecord /\ live[t] /\ job[t].conv = c

\* Unless a rating is on its way to end the survey, the ratings of a survey
\* that has not started, or waits for one, are owed to a reason; so are those
\* of a survey that a thread is about to start over, or to rate.
RatingsOwed(c) ==
    /\ rated[c] <= 1 + Reasons(c)
    /\ state[c] \notin CsatState => rated[c] <= Reasons(c)
    /\ state[c] = "csat_pending" => rated[c] <= Reasons(c) \/ Recorded(c)
    /\ \A t \in Thread : job[t].conv = c =>
           /\ pc[t] = "ask.save" /\ live[t] => rated[c] <= Reasons(c)
           /\ pc[t] = "rate.record" => rated[c] <= Reasons(c)
           /\ pc[t] \in Survey!RateStep => state[c] \in CsatState

RatingInv ==
    /\ TypeInv /\ LockHeld
    /\ rated \in [Conv -> Nat]
    /\ \A c \in Conv : RatingsOwed(c)

\* Reasons add up, and a survey that was overwritten is one.
LEMMA ReasonsGrow ==
    ASSUME TypeInv, [Next]_vars, NEW c \in Conv
    PROVE  /\ Reasons(c) \in Nat /\ Reasons(c)' \in Nat
           /\ Reasons(c)' >= Reasons(c)
           /\ state[c] \in CsatState /\ state'[c] \notin CsatState =>
                  Reasons(c)' > Reasons(c)
<1>1. \A r \in {"faults", "expiries", "crashes"} :
          used[r] \in Nat /\ used'[r] \in Nat /\ used'[r] >= used[r]
  BY UsedGrows DEF Bound
<1>2. CountRelapses \/ UNCHANGED <<relapses, state>>
  BY DEF Next, HandleEvent, Start, Step, Reap, Expire, Environment, Crash,
         Surveying, Triaging, vars, engine
<1>3. /\ relapses[c] \in Nat /\ relapses'[c] \in Nat
      /\ relapses'[c] >= relapses[c]
      /\ state[c] \in CsatState /\ state'[c] \notin CsatState =>
             relapses'[c] = relapses[c] + 1
  BY <1>2 DEF CountRelapses, Relapsed, TypeInv
<1> QED
  BY <1>1, <1>3 DEF Reasons

\* So is everything that goes wrong.
LEMMA FailureIsReason ==
    ASSUME TypeInv, [Next]_vars, NEW c \in Conv,
           NEW r \in {"faults", "expiries", "crashes"},
           used'[r] = used[r] + 1
    PROVE  Reasons(c)' > Reasons(c)
<1>1. \A q \in {"faults", "expiries", "crashes"} :
          used[q] \in Nat /\ used'[q] \in Nat /\ used'[q] >= used[q]
  BY UsedGrows DEF Bound
<1>2. CountRelapses \/ UNCHANGED <<relapses, state>>
  BY DEF Next, HandleEvent, Start, Step, Reap, Expire, Environment, Crash,
         Surveying, Triaging, vars, engine
<1>3. /\ relapses[c] \in Nat /\ relapses'[c] \in Nat
      /\ relapses'[c] >= relapses[c]
  BY <1>2 DEF CountRelapses, Relapsed, TypeInv
<1> QED
  BY <1>1, <1>3 DEF Reasons

LEMMA CallReason ==
    ASSUME TypeInv, [Next]_vars, NEW c \in Conv, NEW t \in Thread,
           NEW ok \in BOOLEAN, Survey!Call(t, ok) \/ Triage!Call(t, ok),
           live[t], ~ok
    PROVE  Reasons(c)' > Reasons(c)
<1>1. used'["faults"] = used["faults"] + 1
  BY SurveyCallType, TriageCallType, CallType DEF TypeInv, ThreadsOK
<1> QED
  BY <1>1, FailureIsReason

\* With a reason more every rating so far is owed to one.
LEMMA OwedAfter ==
    ASSUME RatingInv, [Next]_vars, NEW c \in Conv,
           Reasons(c)' > Reasons(c), rated'[c] = rated[c],
           \A t \in Thread :
               pc'[t] \in Survey!RateStep /\ job'[t].conv = c =>
                   state'[c] \in CsatState
    PROVE  RatingsOwed(c)'
<1>1. rated[c] \in Nat /\ rated[c] <= 1 + Reasons(c)
  BY DEF RatingInv, RatingsOwed
<1>2. Reasons(c) \in Nat /\ Reasons(c)' \in Nat
  BY ReasonsGrow DEF RatingInv
<1>3. rated'[c] <= Reasons(c)' /\ rated'[c] <= 1 + Reasons(c)'
  BY <1>1, <1>2
<1> QED
  BY <1>3 DEF RatingsOwed

\* A step that records no rating of c, starts no survey of it and takes no one
\* away from the end of one.
LEMMA OwedFrame ==
    ASSUME RatingInv, [Next]_vars, NEW c \in Conv, rated'[c] = rated[c],
           state'[c] = "csat_pending" => state[c] = "csat_pending",
           state[c] \in CsatState => state'[c] \in CsatState,
           \A t \in Thread : job'[t].conv = c =>
               /\ pc'[t] = "ask.save" /\ live'[t] =>
                      pc[t] = "ask.save" /\ live[t] /\ job'[t] = job[t]
               /\ pc'[t] = "rate.record" =>
                      pc[t] = "rate.record" /\ job'[t] = job[t]
               /\ pc'[t] \in Survey!RateStep =>
                      pc[t] \in Survey!RateStep /\ job'[t] = job[t],
           Recorded(c) => Recorded(c)'
    PROVE  RatingsOwed(c)'
<1>1. RatingsOwed(c) /\ rated[c] \in Nat
  BY DEF RatingInv
<1>2. /\ Reasons(c) \in Nat /\ Reasons(c)' \in Nat
      /\ Reasons(c)' >= Reasons(c)
  BY ReasonsGrow DEF RatingInv
<1>3. rated[c] <= Reasons(c) => rated'[c] <= Reasons(c)'
  BY <1>1, <1>2
<1>4. rated'[c] <= 1 + Reasons(c)'
  BY <1>1, <1>2 DEF RatingsOwed
<1>5. /\ state'[c] \notin CsatState => rated'[c] <= Reasons(c)'
      /\ state'[c] = "csat_pending" => rated'[c] <= Reasons(c)' \/ Recorded(c)'
  BY <1>1, <1>3 DEF RatingsOwed
<1>6. ASSUME NEW t \in Thread, job'[t].conv = c
      PROVE  /\ pc'[t] = "ask.save" /\ live'[t] => rated'[c] <= Reasons(c)'
             /\ pc'[t] = "rate.record" => rated'[c] <= Reasons(c)'
             /\ pc'[t] \in Survey!RateStep => state'[c] \in CsatState
  BY <1>1, <1>3, <1>6 DEF RatingsOwed
<1> QED
  BY <1>4, <1>5, <1>6 DEF RatingsOwed

\* The conversations that a step of t is not about.
LEMMA OwedElsewhere ==
    ASSUME RatingInv, [Next]_vars, NEW t \in Thread, WorkerStep(t),
           NEW c, NEW d \in Conv, d # c,
           pc[t] \in AfterRecord => job[t].conv = c,
           pc'[t] \in Survey!RateStep \union {"ask.save"} => job'[t].conv = c,
           state'[d] = state[d], rated'[d] = rated[d]
    PROVE  RatingsOwed(d)'
<1>1. \A u \in Thread \ {t} :
          pc'[u] = pc[u] /\ job'[u] = job[u] /\ live'[u] = live[u]
  BY WorkerMoves DEF RatingInv, Moves
<1>2. Recorded(d) => Recorded(d)'
  BY <1>1 DEF Recorded
<1>3. ASSUME NEW u \in Thread, job'[u].conv = d
      PROVE  /\ pc'[u] = "ask.save" /\ live'[u] =>
                    pc[u] = "ask.save" /\ live[u] /\ job'[u] = job[u]
             /\ pc'[u] = "rate.record" =>
                    pc[u] = "rate.record" /\ job'[u] = job[u]
             /\ pc'[u] \in Survey!RateStep =>
                    pc[u] \in Survey!RateStep /\ job'[u] = job[u]
  BY <1>1, <1>3 DEF Survey!RateStep
<1> QED
  BY <1>2, <1>3, OwedFrame

\* Steps that neither rate nor start a survey.
LEMMA OwedAside ==
    ASSUME RatingInv, [Next]_vars, NEW t \in Thread, WorkerStep(t),
           UNCHANGED <<state, rated>>, pc[t] \notin AfterRecord,
           pc'[t] \notin Survey!RateStep \union {"ask.save"},
           NEW d \in Conv
    PROVE  RatingsOwed(d)'
<1>1. PICK c : c # d
  <2>1. \E c : c # d
    BY NoneAssumption
  <2> QED
    BY <2>1
<1> QED
  BY <1>1, OwedElsewhere

\* Steps on the way to the end of a survey.
LEMMA OwedOnTheWay ==
    ASSUME RatingInv, [Next]_vars, NEW t \in Thread, WorkerStep(t),
           UNCHANGED <<state, rated, job, live>>, pc[t] \in AfterRecord,
           pc'[t] \in AfterRecord, NEW d \in Conv
    PROVE  RatingsOwed(d)'
<1>1. \A u \in Thread \ {t} : pc'[u] = pc[u]
  BY WorkerMoves DEF RatingInv, Moves
<1>2. Recorded(d) => Recorded(d)'
  BY <1>1 DEF Recorded
<1>3. ASSUME NEW u \in Thread
      PROVE  /\ pc'[u] = "ask.save" => pc[u] = "ask.save"
             /\ pc'[u] = "rate.record" => pc[u] = "rate.record"
             /\ pc'[u] \in Survey!RateStep => pc[u] \in Survey!RateStep
  BY <1>1 DEF AfterRecord, Survey!RateStep
<1> QED
  BY <1>2, <1>3, OwedFrame

\* A triage that stores its row: the survey it overwrites, if there is one,
\* is a reason.
LEMMA TriageOwes ==
    ASSUME RatingInv, [Next]_vars, NEW t \in Thread, WorkerStep(t),
           NEW s \in State \ CsatState, NEW step \in {"save", "route.save"},
           Write(t, step, s), pc'[t] = "idle", rated' = rated, NEW d \in Conv
    PROVE  RatingsOwed(d)'
<1>1. PICK c \in Conv : c = job[t].conv
  BY DEF Write
<1>2. /\ pc[t] = step /\ \A e \in Conv \ {c} : state'[e] = state[e]
      /\ state'[c] = s
  BY <1>1 DEF Write, RatingInv, TypeInv
<1>3. pc[t] \notin AfterRecord /\ pc'[t] \notin Survey!RateStep \union {"ask.save"}
  BY <1>2 DEF AfterRecord, Survey!RateStep
<1>4. CASE d # c
  BY <1>2, <1>3, <1>4, OwedElsewhere
<1>5. CASE d = c /\ state[c] \in CsatState
  <2>1. Reasons(c)' > Reasons(c)
    BY <1>2, <1>5, ReasonsGrow DEF RatingInv
  <2>2. \A u \in Thread \ {t} : pc'[u] = pc[u] /\ job'[u] = job[u]
    BY WorkerMoves DEF RatingInv, Moves
  <2>3. ASSUME NEW u \in Thread, pc'[u] \in Survey!RateStep, job'[u].conv = c
        PROVE  FALSE
    <3>1. u # t /\ pc[u] \in Survey!RateStep /\ job[u].conv = c
      BY <1>3, <2>2, <2>3
    <3>2. pc[u] \in Held /\ pc[t] \in Held
      BY <1>2, <3>1 DEF Held, Survey!Locked, Triage!TriageStep
    <3> QED
      BY <1>1, <3>1, <3>2 DEF RatingInv, LockHeld
  <2> QED
    BY <1>5, <2>1, <2>3, OwedAfter
<1>6. CASE d = c /\ state[c] \notin CsatState
  <2>1. \A u \in Thread \ {t} :
            pc'[u] = pc[u] /\ job'[u] = job[u] /\ live'[u] = live[u]
    BY WorkerMoves DEF RatingInv, Moves
  <2>2. Recorded(d) => Recorded(d)'
    BY <1>3, <2>1 DEF Recorded
  <2>3. state'[d] # "csat_pending"
    BY <1>2, <1>6 DEF CsatState
  <2>4. ASSUME NEW u \in Thread, job'[u].conv = d
        PROVE  /\ pc'[u] = "ask.save" /\ live'[u] =>
                      pc[u] = "ask.save" /\ live[u] /\ job'[u] = job[u]
               /\ pc'[u] = "rate.record" =>
                      pc[u] = "rate.record" /\ job'[u] = job[u]
               /\ pc'[u] \in Survey!RateStep =>
                      pc[u] \in Survey!RateStep /\ job'[u] = job[u]
    BY <1>3, <2>1 DEF Survey!RateStep
  <2> QED
    BY <1>6, <2>2, <2>3, <2>4, OwedFrame
<1> QED
  BY <1>4, <1>5, <1>6

\* The steps of the triage.
LEMMA TriageRates ==
    ASSUME RatingInv, [Next]_vars, NEW t \in Thread, WorkerStep(t),
           UNCHANGED survey,
           \/ Triage!HandleMessageCreated(t) \/ Triage!HandleAudio(t)
           \/ Triage!HandleConversationUpdated(t)
           \/ Triage!Begin(t) \/ Triage!Step(t),
           NEW d \in Conv
    PROVE  RatingsOwed(d)'
<1> USE DEF RatingInv
<1>1. /\ pc[t] \notin Survey!Locked
      /\ pc'[t] \notin Survey!RateStep \union {"ask.save"}
  BY DEF Triage!HandleMessageCreated, Triage!HandleAudio,
         Triage!HandleConversationUpdated, Triage!Dispatch, Triage!Begin,
         Triage!Step, Triage!Transcribe, Triage!ClassifyFails,
         Triage!ClassifyReply, Triage!ClassifyRoute, Triage!Reply,
         Triage!Save, Triage!RouteLabels, Triage!RouteSave, Triage!At,
         Triage!Return, Triage!Finish, Triage!Goto, Survey!Locked,
         Survey!AskStep, Survey!RateStep, TypeInv, ThreadsOK
<1>2. pc[t] \notin AfterRecord /\ pc[t] # "ask.save" /\ pc[t] # "rate.done"
  BY <1>1 DEF AfterRecord, Survey!Locked, Survey!AskStep, Survey!RateStep
<1>3. rated' = rated
  BY DEF survey
<1>4. Writes(t) \/ Resolves
  BY TriageWrites DEF survey
<1>5. CASE Resolves
  BY <1>1, <1>2, <1>3, <1>5, OwedAside DEF Resolves
<1>6. CASE Writes(t)
  <2>1. \/ Write(t, "save", "triage") /\ pc'[t] = "idle"
        \/ Write(t, "route.save", "routed") /\ pc'[t] = "idle"
    BY <1>2, <1>6 DEF Writes, Write
  <2>2. {"triage", "routed"} \subseteq State \ CsatState
    BY DEF State, CsatState
  <2> QED
    BY <1>3, <2>1, <2>2, TriageOwes
<1> QED
  BY <1>4, <1>5, <1>6

\* startCSAT starts a survey over only when it failed to read that there is
\* one.
LEMMA AskBeginRates ==
    ASSUME RatingInv, [Next]_vars, NEW t \in Thread, WorkerStep(t),
           Survey!AskBegin(t), NEW d \in Conv
    PROVE  RatingsOwed(d)'
<1> USE DEF RatingInv, TypeInv, ThreadsOK
<1>1. PICK c \in Conv, ok \in BOOLEAN : Survey!AskBegin(t)!(c, ok)
  BY DEF Survey!AskBegin
<1>2. state' = state /\ rated' = rated
  BY <1>1 DEF Survey!history, Survey!db
<1>3. /\ pc[t] = "ask.begin" /\ job[t].conv = c
      /\ pc[t] \notin AfterRecord
  BY <1>1 DEF Survey!At, AfterRecord, Survey!RateStep
<1>4. CASE Survey!Finish(t)
  <2>1. pc'[t] = "idle"
    BY <1>4 DEF Survey!Finish
  <2>2. pc'[t] \notin Survey!RateStep \union {"ask.save"}
    BY <2>1 DEF Survey!RateStep
  <2> QED
    BY <1>2, <1>3, <2>2, OwedAside
<1>5. CASE /\ ~ (ok /\ Survey!AlreadyStarted(state[c]))
           /\ pc' = [pc EXCEPT ![t] = "ask.save"]
           /\ UNCHANGED <<job, live>>
  <2>1. pc'[t] = "ask.save" /\ \A u \in Thread \ {t} : pc'[u] = pc[u]
    BY <1>5
  <2>2. CASE d # c
    BY <1>2, <1>3, <1>5, <2>2, OwedElsewhere
  <2>3. CASE d = c
    <3>1. /\ Reasons(c) \in Nat /\ Reasons(c)' \in Nat
          /\ Reasons(c)' >= Reasons(c)
          /\ rated[c] \in Nat /\ RatingsOwed(c)
      BY ReasonsGrow
    <3>2. live[t] => rated[c] <= Reasons(c)'
      <4>1. CASE ok
        BY <1>5, <3>1, <4>1
        DEF RatingsOwed, Survey!AlreadyStarted, Survey!CsatState, CsatState
      <4>2. CASE ~ok /\ live[t]
        <5>1. Reasons(c)' > Reasons(c)
          BY <1>1, <4>2, CallReason
        <5> QED
          BY <3>1, <5>1 DEF RatingsOwed
      <4> QED
        BY <4>1, <4>2
    <3>3. Recorded(c) => Recorded(c)'
      BY <1>3, <1>5, <2>1 DEF Recorded
    <3>4. rated'[c] <= 1 + Reasons(c)'
      BY <1>2, <3>1 DEF RatingsOwed
    <3>5. /\ state'[c] \notin CsatState => rated'[c] <= Reasons(c)'
          /\ state'[c] = "csat_pending" =>
                 rated'[c] <= Reasons(c)' \/ Recorded(c)'
      BY <1>2, <3>1, <3>3 DEF RatingsOwed
    <3>6. ASSUME NEW u \in Thread, job'[u].conv = c
          PROVE  /\ pc'[u] = "ask.save" /\ live'[u] =>
                        rated'[c] <= Reasons(c)'
                 /\ pc'[u] = "rate.record" => rated'[c] <= Reasons(c)'
                 /\ pc'[u] \in Survey!RateStep => state'[c] \in CsatState
      <4>1. CASE u = t
        BY <1>2, <1>5, <2>1, <3>2, <4>1 DEF Survey!RateStep
      <4>2. CASE u # t
        BY <1>2, <1>5, <2>1, <3>1, <3>6, <4>2 DEF RatingsOwed
      <4> QED
        BY <4>1, <4>2
    <3> QED
      BY <2>3, <3>4, <3>5, <3>6 DEF RatingsOwed
  <2> QED
    BY <2>2, <2>3
<1> QED
  BY <1>1, <1>4, <1>5 DEF Survey!Return

\* A survey starts over with the ratings it has so far excused.
LEMMA AskSaveRates ==
    ASSUME RatingInv, [Next]_vars, NEW t \in Thread, WorkerStep(t),
           Survey!AskSave(t), NEW d \in Conv
    PROVE  RatingsOwed(d)'
<1> USE DEF RatingInv, TypeInv, ThreadsOK
<1>1. PICK c \in Conv, ok \in BOOLEAN : Survey!AskSave(t)!(c, ok)
  BY DEF Survey!AskSave
<1>2. /\ pc[t] = "ask.save" /\ job[t].conv = c
      /\ UNCHANGED <<rated, job, live>>
      /\ pc'[t] = "ask.prompt"
      /\ \A u \in Thread \ {t} : pc'[u] = pc[u]
  BY <1>1 DEF Survey!At, Survey!Goto, Survey!history
<1>3. /\ \A e \in Conv \ {c} : state'[e] = state[e]
      /\ state'[c] = state[c] \/ (live[t] /\ state'[c] = "csat_pending")
  BY <1>1 DEF Survey!SaveState, Survey!Call
<1>4. /\ pc[t] \notin AfterRecord
      /\ pc'[t] \notin Survey!RateStep \union {"ask.save"}
  BY <1>2 DEF AfterRecord, Survey!RateStep
<1>5. CASE d # c
  BY <1>2, <1>3, <1>4, <1>5, OwedElsewhere
<1>6. CASE d = c
  <2>1. /\ Reasons(c) \in Nat /\ Reasons(c)' \in Nat
        /\ Reasons(c)' >= Reasons(c)
        /\ rated[c] \in Nat /\ RatingsOwed(c)
    BY ReasonsGrow
  <2>2. live[t] => rated[c] <= Reasons(c)
    BY <1>2, <2>1 DEF RatingsOwed
  <2>3. Recorded(c) => Recorded(c)'
    BY <1>2, <1>4 DEF Recorded
  <2>4. rated'[c] <= 1 + Reasons(c)'
    BY <1>2, <2>1 DEF RatingsOwed
  <2>5. "csat_pending" \in CsatState
    BY DEF CsatState
  <2>6. /\ state'[c] \notin CsatState => rated'[c] <= Reasons(c)'
        /\ state'[c] = "csat_pending" =>
               rated'[c] <= Reasons(c)' \/ Recorded(c)'
    BY <1>2, <1>3, <2>1, <2>2, <2>3, <2>5 DEF RatingsOwed
  <2>7. ASSUME NEW u \in Thread, job'[u].conv = c
        PROVE  /\ pc'[u] = "ask.save" /\ live'[u] => rated'[c] <= Reasons(c)'
               /\ pc'[u] = "rate.record" => rated'[c] <= Reasons(c)'
               /\ pc'[u] \in Survey!RateStep => state'[c] \in CsatState
    <3>1. CASE u = t
      BY <1>2, <1>4, <3>1
    <3>2. CASE u # t
      BY <1>2, <1>3, <2>1, <2>5, <2>7, <3>2 DEF RatingsOwed
    <3> QED
      BY <3>1, <3>2
  <2> QED
    BY <1>6, <2>4, <2>6, <2>7 DEF RatingsOwed
<1> QED
  BY <1>5, <1>6

\* handleCSATAnswer takes a rating only while the survey waits for one, and
\* with the mutex nobody else is ending it.
LEMMA RateBeginRates ==
    ASSUME RatingInv, [Next]_vars, NEW t \in Thread, WorkerStep(t),
           Survey!RateBegin(t), NEW d \in Conv
    PROVE  RatingsOwed(d)'
<1> USE DEF RatingInv, TypeInv, ThreadsOK
<1>1. PICK c \in Conv, ok \in BOOLEAN : Survey!RateBegin(t)!(c, ok)
  BY DEF Survey!RateBegin
<1>2. state' = state /\ rated' = rated
  BY <1>1 DEF Survey!history
<1>3. /\ pc[t] = "rate.begin" /\ job[t].conv = c
      /\ pc[t] \notin AfterRecord
  BY <1>1 DEF Survey!At, AfterRecord, Survey!RateStep
<1>4. CASE Survey!Finish(t)
  <2>1. pc'[t] = "idle"
    BY <1>4 DEF Survey!Finish
  <2>2. pc'[t] \notin Survey!RateStep \union {"ask.save"}
    BY <2>1 DEF Survey!RateStep
  <2> QED
    BY <1>2, <1>3, <2>2, OwedAside
<1>5. CASE /\ ok /\ Survey!AwaitsRating(state[c]) /\ Survey!LockConv(t, c)
           /\ pc' = [pc EXCEPT ![t] = "rate.record"]
           /\ UNCHANGED <<deadline, job, live>>
  <2>1. pc'[t] = "rate.record" /\ \A u \in Thread \ {t} : pc'[u] = pc[u]
    BY <1>5
  <2>2. CASE d # c
    BY <1>2, <1>3, <1>5, <2>2, OwedElsewhere
  <2>3. CASE d = c
    <3>1. /\ Reasons(c) \in Nat /\ Reasons(c)' \in Nat
          /\ Reasons(c)' >= Reasons(c)
          /\ rated[c] \in Nat /\ RatingsOwed(c)
      BY ReasonsGrow
    <3>2. ~Recorded(c)
      <4>1. lock[StripeOf(c)] = None
        BY <1>5 DEF Survey!LockConv, Survey!StripeOf, StripeOf
      <4>2. ASSUME NEW u \in Thread, pc[u] \in AfterRecord, job[u].conv = c
            PROVE  FALSE
        BY <4>1, <4>2, NoneAssumption
        DEF LockHeld, Held, Survey!Locked, AfterRecord
      <4> QED
        BY <4>2 DEF Recorded
    <3>3. rated[c] <= Reasons(c) /\ state[c] \in CsatState
      BY <1>5, <3>1, <3>2 DEF RatingsOwed, Survey!AwaitsRating, CsatState
    <3>4. rated'[c] <= Reasons(c)' /\ rated'[c] <= 1 + Reasons(c)'
      BY <1>2, <3>1, <3>3
    <3> QED
      BY <1>2, <2>3, <3>3, <3>4 DEF RatingsOwed
  <2> QED
    BY <2>2, <2>3
<1> QED
  BY <1>1, <1>4, <1>5 DEF Survey!Return

\* Recording a rating uses up the excuse of one.
LEMMA RateRecordRates ==
    ASSUME RatingInv, [Next]_vars, NEW t \in Thread, WorkerStep(t),
           Survey!RateRecord(t)
    PROVE  rated' \in [Conv -> Nat] /\ \A d \in Conv : RatingsOwed(d)'
<1> USE DEF RatingInv, TypeInv, ThreadsOK
<1>1. PICK c \in Conv, ok \in BOOLEAN : Survey!RateRecord(t)!(c, ok)
  BY DEF Survey!RateRecord
<1>2. /\ pc[t] = "rate.record" /\ job[t].conv = c
      /\ UNCHANGED <<state, job, live>>
      /\ pc'[t] = "rate.unlabel"
      /\ \A u \in Thread \ {t} : pc'[u] = pc[u]
  BY <1>1 DEF Survey!At, Survey!Goto, Survey!db
<1>3. PICK applied \in BOOLEAN :
          /\ applied => live[t]
          /\ rated' = [rated EXCEPT ![c] = IF applied THEN @ + 1 ELSE @]
  BY <1>1 DEF Survey!CarriedOut, Survey!Call
<1>4. /\ rated' \in [Conv -> Nat]
      /\ \A e \in Conv \ {c} : rated'[e] = rated[e]
      /\ rated'[c] = rated[c] \/ (live[t] /\ rated'[c] = rated[c] + 1)
  BY <1>3
<1>5. /\ Reasons(c) \in Nat /\ Reasons(c)' \in Nat
      /\ Reasons(c)' >= Reasons(c)
      /\ rated[c] \in Nat /\ RatingsOwed(c)
  BY ReasonsGrow
<1>6. rated[c] <= Reasons(c) /\ state[c] \in CsatState
  BY <1>2, <1>5 DEF RatingsOwed, Survey!RateStep
<1>7. pc[t] \notin AfterRecord /\ pc'[t] \in AfterRecord
  BY <1>2 DEF AfterRecord, Survey!RateStep
<1>8. ASSUME NEW d \in Conv, d # c PROVE RatingsOwed(d)'
  BY <1>2, <1>4, <1>8, OwedElsewhere
<1>9. RatingsOwed(c)'
  <2>1. rated'[c] <= 1 + Reasons(c)'
    BY <1>4, <1>5, <1>6
  <2>2. rated'[c] <= Reasons(c)' \/ Recorded(c)'
    <3>1. CASE rated'[c] = rated[c]
      BY <1>5, <1>6, <3>1
    <3>2. CASE live[t]
      <4>1. Recorded(c)'
        BY <1>2, <1>7, <3>2 DEF Recorded
      <4> QED
        BY <4>1
    <3> QED
      BY <1>4, <3>1, <3>2
  <2>3. ASSUME NEW u \in Thread, job'[u].conv = c
        PROVE  /\ pc'[u] # "ask.save" /\ pc'[u] # "rate.record"
               /\ state'[c] \in CsatState
    <3>1. CASE u = t
      BY <1>2, <1>6, <3>1
    <3>2. CASE u # t
      <4>1. pc[u] \notin Held
        <5>1. pc[t] \in Held /\ job[u].conv = job[t].conv
          BY <1>2, <2>3 DEF Held, Survey!Locked, Survey!RateStep
        <5> QED
          BY <3>2, <5>1 DEF LockHeld
      <4>2. pc[u] # "ask.save" /\ pc[u] # "rate.record"
        BY <4>1 DEF Held, Survey!Locked, Survey!AskStep, Survey!RateStep
      <4> QED
        BY <1>2, <1>6, <3>2, <4>2
    <3> QED
      BY <3>1, <3>2
  <2> QED
    BY <1>2, <1>6, <2>1, <2>2, <2>3 DEF RatingsOwed
<1> QED
  BY <1>4, <1>8, <1>9

\* The end of a survey is stored, or fails to be for a reason.
LEMMA RateDoneRates ==
    ASSUME RatingInv, [Next]_vars, NEW t \in Thread, WorkerStep(t),
           Survey!RateDone(t), NEW d \in Conv
    PROVE  RatingsOwed(d)'
<1> USE DEF RatingInv, TypeInv, ThreadsOK
<1>1. PICK c \in Conv, ok \in BOOLEAN : Survey!RateDone(t)!(c, ok)
  BY DEF Survey!RateDone
<1>2. /\ pc[t] = "rate.done" /\ job[t].conv = c
      /\ rated' = rated /\ pc'[t] = "idle"
  BY <1>1 DEF Survey!At, Survey!Finish, Survey!history
<1>3. \A u \in Thread \ {t} :
          pc'[u] = pc[u] /\ job'[u] = job[u] /\ live'[u] = live[u]
  BY WorkerMoves DEF Moves
<1>4. /\ \A e \in Conv \ {c} : state'[e] = state[e]
      /\ state'[c] = IF ok THEN "csat_done" ELSE state[c]
  BY <1>1 DEF Survey!SaveState
<1>5. pc'[t] \notin Survey!RateStep \union {"ask.save"}
  BY <1>2 DEF Survey!RateStep
<1>6. CASE d # c
  BY <1>2, <1>4, <1>5, <1>6, OwedElsewhere
<1>7. CASE d = c
  <2>1. /\ Reasons(c) \in Nat /\ Reasons(c)' \in Nat
        /\ Reasons(c)' >= Reasons(c)
        /\ rated[c] \in Nat /\ RatingsOwed(c)
    BY ReasonsGrow
  <2>2. state[c] \in CsatState /\ state'[c] \in CsatState
    BY <1>2, <1>4, <2>1 DEF RatingsOwed, Survey!RateStep, CsatState
  <2>3. CASE ~ok /\ live[t]
    <3>1. Reasons(c)' > Reasons(c)
      BY <1>1, <2>3, CallReason
    <3> QED
      BY <1>2, <1>7, <2>2, <3>1, OwedAfter
  <2>4. ASSUME NEW u \in Thread, job'[u].conv = c
        PROVE  /\ pc'[u] = "ask.save" /\ live'[u] =>
                      pc[u] = "ask.save" /\ live[u] /\ job'[u] = job[u]
               /\ pc'[u] = "rate.record" =>
                      pc[u] = "rate.record" /\ job'[u] = job[u]
               /\ pc'[u] \in Survey!RateStep =>
                      pc[u] \in Survey!RateStep /\ job'[u] = job[u]
    BY <1>3, <1>5 DEF Survey!RateStep
  <2>5. CASE ok
    <3>1. state'[c] = "csat_done"
      BY <1>4, <2>5
    <3>2. rated'[c] <= 1 + Reasons(c)'
      BY <1>2, <2>1 DEF RatingsOwed
    <3>3. ASSUME NEW u \in Thread, job'[u].conv = c
          PROVE  /\ pc'[u] = "ask.save" /\ live'[u] =>
                        rated'[c] <= Reasons(c)'
                 /\ pc'[u] = "rate.record" => rated'[c] <= Reasons(c)'
                 /\ pc'[u] \in Survey!RateStep => state'[c] \in CsatState
      <4>1. rated[c] <= Reasons(c) => rated'[c] <= Reasons(c)'
        BY <1>2, <2>1
      <4> QED
        BY <2>1, <2>2, <2>4, <3>3, <4>1 DEF RatingsOwed
    <3> QED
      BY <1>7, <2>2, <3>1, <3>2, <3>3 DEF RatingsOwed
  <2>6. CASE ~ok /\ ~live[t]
    <3>1. state'[c] = state[c]
      BY <1>4, <2>6
    <3>2. Recorded(c) => Recorded(c)'
      BY <1>3, <2>6 DEF Recorded
    <3> QED
      BY <1>2, <1>7, <2>4, <3>1, <3>2, OwedFrame
  <2> QED
    BY <2>3, <2>5, <2>6
<1> QED
  BY <1>6, <1>7

\* The other steps of a survey.
LEMMA OtherSurveyRates ==
    ASSUME RatingInv, [Next]_vars, NEW t \in Thread, WorkerStep(t),
           \/ Survey!HandleMessageCreated(t)
           \/ Survey!HandleConversationUpdated(t)
           \/ Survey!AskPrompt(t) \/ Survey!AskDeadline(t)
           \/ Survey!RateUnlabel(t) \/ Survey!RateAnswered(t)
           \/ Survey!RateResolve(t),
           NEW d \in Conv
    PROVE  RatingsOwed(d)'
<1> USE DEF RatingInv, TypeInv, ThreadsOK
<1>1. CASE \/ Survey!HandleMessageCreated(t)
           \/ Survey!HandleConversationUpdated(t)
           \/ Survey!AskPrompt(t) \/ Survey!AskDeadline(t)
  <2>1. UNCHANGED <<state, rated>>
    BY <1>1
    DEF Survey!HandleMessageCreated, Survey!HandleConversationUpdated,
        Survey!Dispatch, Survey!AskPrompt, Survey!AskDeadline, Survey!history,
        Survey!db
  <2>2. /\ pc[t] \in {"idle", "ask.prompt", "ask.deadline"}
        /\ pc'[t] \in {"rate.begin", "ask.begin", "ask.deadline", "idle"}
    BY <1>1
    DEF Survey!HandleMessageCreated, Survey!HandleConversationUpdated,
        Survey!Dispatch, Survey!AskPrompt, Survey!AskDeadline, Survey!At,
        Survey!Goto, Survey!Finish
  <2>3. /\ pc[t] \notin AfterRecord
        /\ pc'[t] \notin Survey!RateStep \union {"ask.save"}
    BY <2>2 DEF AfterRecord, Survey!RateStep
  <2> QED
    BY <2>1, <2>3, OwedAside
<1>2. CASE \/ Survey!RateUnlabel(t) \/ Survey!RateAnswered(t)
           \/ Survey!RateResolve(t)
  <2>1. UNCHANGED <<state, rated, job, live>>
    BY <1>2
    DEF Survey!RateUnlabel, Survey!RateAnswered, Survey!RateResolve,
        Survey!Goto, Survey!history, Survey!db
  <2>2. /\ pc[t] \in {"rate.unlabel", "rate.answered", "rate.resolve"}
        /\ pc'[t] \in {"rate.answered", "rate.resolve", "rate.done"}
    BY <1>2
    DEF Survey!RateUnlabel, Survey!RateAnswered, Survey!RateResolve,
        Survey!At, Survey!Goto
  <2>3. pc[t] \in AfterRecord /\ pc'[t] \in AfterRecord
    BY <2>2 DEF AfterRecord, Survey!RateStep
  <2> QED
    BY <2>1, <2>3, OwedOnTheWay
<1> QED
  BY <1>1, <1>2

\* The reaper and the environment record nothing; an expired job or a crash
\* on the way to the end of a survey is a reason.
LEMMA RestRates ==
    ASSUME RatingInv, [Next]_vars, OtherStep, NEW d \in Conv
    PROVE  RatingsOwed(d)'
<1> USE DEF RatingInv, TypeInv, ThreadsOK
<1>1. rated' = rated
  BY DEF OtherStep, Reap, Expire, Environment, Crash, Surveying,
         Survey!Reaper, Survey!ReaperClaim, Survey!ReaperResolve,
         Survey!ReaperComplete, Survey!ReaperClose, Survey!Expire,
         Survey!Environment, Survey!Crash, Survey!history, vars, survey
<1>2. \/ state' = state
      \/ rconv \in Conv /\ state' = [state EXCEPT ![rconv] = "closed_timeout"]
  BY OtherWrites DEF Resolves, ReaperCloses
<1>3. /\ state'[d] = "csat_pending" => state[d] = "csat_pending"
      /\ state[d] \in CsatState => state'[d] \in CsatState
  BY <1>2 DEF CsatState
<1>4. CASE UNCHANGED <<pc, job, live>>
  <2>1. Recorded(d) => Recorded(d)'
    BY <1>4 DEF Recorded
  <2> QED
    BY <1>1, <1>3, <1>4, <2>1, OwedFrame
<1>5. ASSUME NEW r \in {"expiries", "crashes"}, Survey!Spend(r)
      PROVE  RatingsOwed(d)'
  <2>1. used'[r] = used[r] + 1
    <3>1. Spend(r)
      BY <1>5 DEF Survey!Spend, Spend, Survey!Bound, Bound
    <3> QED
      BY <3>1, SpendOne DEF Bound
  <2>2. Reasons(d)' > Reasons(d)
    BY <2>1, FailureIsReason
  <2>3. \A u \in Thread : pc'[u] \in Survey!RateStep =>
            pc[u] \in Survey!RateStep /\ job'[u] = job[u]
    BY OthersAreQuiet DEF Quiet, Survey!RateStep
  <2>4. \A u \in Thread : pc'[u] \in Survey!RateStep /\ job'[u].conv = d =>
            state'[d] \in CsatState
    BY <1>3, <2>3 DEF RatingsOwed
  <2> QED
    BY <1>1, <2>2, <2>4, OwedAfter
<1>6. ASSUME (\E t \in Thread : Survey!CtxExpire(t)) \/ Survey!Crash
      PROVE  \E r \in {"expiries", "crashes"} : Survey!Spend(r)
  BY <1>6 DEF Survey!CtxExpire, Survey!Crash, Survey!CrashEngine
<1>7. ASSUME ~ ((\E t \in Thread : Survey!CtxExpire(t)) \/ Survey!Crash)
      PROVE  UNCHANGED <<pc, job, live>>
  BY <1>7
  DEF OtherStep, Reap, Expire, Environment, Crash, Surveying,
      Survey!Reaper, Survey!ReaperClaim, Survey!ReaperResolve,
      Survey!ReaperComplete, Survey!ReaperClose, Survey!Expire,
      Survey!Environment, Survey!AgentLabels, Survey!workers, vars,
      engine, workers
<1> QED
  BY <1>4, <1>5, <1>6, <1>7

\* A survey ends with one rating recorded, however the answers, the reaper
\* and late triages interleave: each further one takes a triage that overwrote
\* the survey, a call that failed, a job that expired or a crash.
THEOREM RatedOnce == Spec => []OneRatingPerSurvey
<1>1. Init => RatingInv
  <2> SUFFICES ASSUME Init PROVE RatingInv
    OBVIOUS
  <2>1. /\ \A t \in Thread : pc[t] = "idle"
        /\ \A c \in Conv : state[c] = "none"
        /\ rated = [c \in Conv |-> 0]
    BY DEF Init, Survey!Init, Survey!EngineInit
  <2>2. \A c \in Conv : Reasons(c) = 0
    BY DEF Init, Survey!Init, Survey!EngineInit, Survey!Bound, Reasons
  <2>3. LockHeld
    BY <2>1, IdleIsFree DEF LockHeld
  <2>4. \A c \in Conv : RatingsOwed(c)
    BY <2>1, <2>2 DEF RatingsOwed, Survey!RateStep
  <2> QED
    BY <2>1, <2>3, <2>4, InitTypes DEF RatingInv
<1>2. RatingInv /\ [Next]_vars => RatingInv'
  <2> SUFFICES ASSUME RatingInv, [Next]_vars PROVE RatingInv'
    OBVIOUS
  <2>1. TypeInv' /\ LockHeld'
    BY NextType, NextHeld DEF RatingInv
  <2>2. ASSUME NEW t \in Thread, WorkerStep(t)
        PROVE  rated' \in [Conv -> Nat] /\ \A d \in Conv : RatingsOwed(d)'
    <3>1. CASE Survey!RateRecord(t)
      BY <2>2, <3>1, RateRecordRates
    <3>2. CASE /\ UNCHANGED survey
               /\ \/ Triage!HandleMessageCreated(t)
                  \/ Triage!HandleAudio(t)
                  \/ Triage!HandleConversationUpdated(t)
                  \/ Triage!Begin(t) \/ Triage!Step(t)
      BY <2>2, <3>2, TriageRates DEF survey, RatingInv
    <3>3. CASE \/ Survey!HandleMessageCreated(t)
               \/ Survey!HandleConversationUpdated(t)
               \/ Survey!Start(t)
               \/ Survey!Step(t) /\ ~ Survey!RateRecord(t)
      <4>1. rated' = rated
        BY <3>3
        DEF Survey!HandleMessageCreated, Survey!HandleConversationUpdated,
            Survey!Start, Survey!Step, Survey!AskBegin, Survey!RateBegin,
            Survey!AskSave, Survey!AskPrompt, Survey!AskDeadline,
            Survey!RateUnlabel, Survey!RateAnswered, Survey!RateResolve,
            Survey!RateDone, Survey!history
      <4>2. \A d \in Conv : RatingsOwed(d)'
        BY <2>2, <3>3, AskBeginRates, AskSaveRates, RateBeginRates,
           RateDoneRates, OtherSurveyRates DEF Survey!Start, Survey!Step
      <4> QED
        BY <4>1, <4>2 DEF RatingInv
    <3> QED
      BY <2>2, <3>1, <3>2, <3>3
      DEF WorkerStep, HandleEvent, Start, Step, Surveying, Triaging,
          Survey!Step
  <2>3. ASSUME OtherStep
        PROVE  rated' \in [Conv -> Nat] /\ \A d \in Conv : RatingsOwed(d)'
    <3>1. rated' = rated
      BY <2>3
      DEF OtherStep, Reap, Expire, Environment, Crash, Surveying,
          Survey!Reaper, Survey!ReaperClaim, Survey!ReaperResolve,
          Survey!ReaperComplete, Survey!ReaperClose, Survey!Expire,
          Survey!Environment, Survey!Crash, Survey!history, vars, survey
    <3> QED
      BY <2>3, <3>1, RestRates DEF RatingInv
  <2> QED
    BY <2>1, <2>2, <2>3 DEF RatingInv, Next, WorkerStep, OtherStep
<1>3. RatingInv => OneRatingPerSurvey
  BY DEF RatingInv, RatingsOwed, OneRatingPerSurvey
<1> QED
  BY <1>1, <1>2, <1>3, PTL DEF Spec

-----------------------------------------------------------------------------
(* A triage opens a conversation once *)

\* The bot has spoken in the turns ts.
Spoken(ts) == Holds(ts, Triage!BotTurn)

\* A thread is about to save that the bot spoke to the customer.
Speaking(c) ==
    \E t \in Thread : /\ pc[t] = "save" /\ live[t]
                      /\ job[t].conv = c /\ Spoken(job[t].turns)

\* A thread in a triage of c that the bot has not spoken in.
Silent(t, c) ==
    /\ pc[t] \in Triage!TriageStep /\ live[t]
    /\ job[t].conv = c /\ ~Spoken(job[t].turns)

\* Where the store does not show that the bot spoke, every opening but the one
\* being saved is owed to a reason; so is every one where a thread is about to
\* greet.  In a survey one more is owed to the triage that will overwrite it.
OpeningsOwed(c) ==
    /\ \/ opened[c] <= 1 + Reasons(c)
       \/ opened[c] <= 2 + Reasons(c) /\ state[c] \in CsatState /\ Speaking(c)
    /\ state[c] \notin CsatState \union {"routed"} /\ ~Spoken(turns[c]) =>
           opened[c] <= Reasons(c) \/ Speaking(c)
    /\ \A t \in Thread : Silent(t, c) =>
           \/ opened[c] <= Reasons(c)
           \/ opened[c] <= 1 + Reasons(c) /\ state[c] \in CsatState

OpeningInv ==
    /\ TypeInv /\ LockHeld
    /\ opened \in [Conv -> Nat]
    /\ \A c \in Conv : OpeningsOwed(c)

\* A reason more takes the place of a triage that would have overwritten the
\* survey.
LEMMA OpeningAfter ==
    ASSUME OpeningInv, [Next]_vars, NEW c \in Conv,
           Reasons(c)' > Reasons(c), opened'[c] = opened[c],
           \/ opened[c] <= 1 + Reasons(c)
           \/ state'[c] \in CsatState
           \/ Spoken(turns'[c]) /\ \A t \in Thread : ~Silent(t, c)'
    PROVE  OpeningsOwed(c)'
<1>1. opened[c] \in Nat /\ opened[c] <= 2 + Reasons(c)
  <2>1. OpeningsOwed(c) /\ opened[c] \in Nat /\ Reasons(c) \in Nat
    BY ReasonsGrow DEF OpeningInv
  <2> QED
    BY <2>1 DEF OpeningsOwed
<1>2. Reasons(c) \in Nat /\ Reasons(c)' \in Nat
  BY ReasonsGrow DEF OpeningInv
<1>3. opened'[c] <= 1 + Reasons(c)'
  BY <1>1, <1>2
<1>4. opened[c] <= 1 + Reasons(c) => opened'[c] <= Reasons(c)'
  BY <1>1, <1>2
<1> QED
  BY <1>3, <1>4 DEF OpeningsOwed

\* A step that opens nothing, forgets no word of the bot and sends no one off
\* to greet.
LEMMA OpeningFrame ==
    ASSUME OpeningInv, [Next]_vars, NEW c \in Conv, opened'[c] = opened[c],
           state[c] \in CsatState => state'[c] \in CsatState,
           state'[c] \notin CsatState \union {"routed"}
               /\ ~Spoken(turns'[c]) =>
               state[c] \notin CsatState \union {"routed"} /\ ~Spoken(turns[c]),
           Speaking(c) => Speaking(c)',
           \A t \in Thread : Silent(t, c)' => Silent(t, c)
    PROVE  OpeningsOwed(c)'
<1>1. OpeningsOwed(c) /\ opened[c] \in Nat
  BY DEF OpeningInv
<1>2. /\ Reasons(c) \in Nat /\ Reasons(c)' \in Nat
      /\ Reasons(c)' >= Reasons(c)
  BY ReasonsGrow DEF OpeningInv
<1>3. /\ opened[c] <= Reasons(c) => opened'[c] <= Reasons(c)'
      /\ opened[c] <= 1 + Reasons(c) => opened'[c] <= 1 + Reasons(c)'
      /\ opened[c] <= 2 + Reasons(c) => opened'[c] <= 2 + Reasons(c)'
  BY <1>1, <1>2
<1>4. \/ opened'[c] <= 1 + Reasons(c)'
      \/ /\ opened'[c] <= 2 + Reasons(c)'
         /\ state'[c] \in CsatState /\ Speaking(c)'
  BY <1>1, <1>3 DEF OpeningsOwed
<1>5. state'[c] \notin CsatState \union {"routed"} /\ ~Spoken(turns'[c]) =>
          opened'[c] <= Reasons(c)' \/ Speaking(c)'
  BY <1>1, <1>3 DEF OpeningsOwed
<1>6. ASSUME NEW t \in Thread, Silent(t, c)'
      PROVE  \/ opened'[c] <= Reasons(c)'
             \/ opened'[c] <= 1 + Reasons(c)' /\ state'[c] \in CsatState
  BY <1>1, <1>3, <1>6 DEF OpeningsOwed
<1> QED
  BY <1>4, <1>5, <1>6 DEF OpeningsOwed

\* Steps outside the triage's critical section: a row turns to a survey's at
\* most, and the survey clears its data.
LEMMA OpeningOutside ==
    ASSUME OpeningInv, [Next]_vars, opened' = opened, NEW c \in Conv,
           \/ state'[c] = state[c] /\ turns'[c] = turns[c]
           \/ state'[c] \in CsatState,
           \A u \in Thread :
               {pc[u], pc'[u]} \intersect Triage!TriageStep # {} =>
                   UNCHANGED <<pc[u], job[u], live[u]>>
    PROVE  OpeningsOwed(c)'
<1>1. Speaking(c) => Speaking(c)'
  <2>1. ASSUME NEW u \in Thread, pc[u] = "save"
        PROVE  UNCHANGED <<pc[u], job[u], live[u]>>
    BY <2>1 DEF Triage!TriageStep
  <2> QED
    BY <2>1 DEF Speaking
<1>2. \A t \in Thread : Silent(t, c)' => Silent(t, c)
  BY DEF Silent
<1> QED
  BY <1>1, <1>2, OpeningFrame

\* The conversations that a step of the triage is not about.
LEMMA OpeningElsewhere ==
    ASSUME OpeningInv, [Next]_vars, NEW t \in Thread, WorkerStep(t),
           NEW d \in Conv, UNCHANGED <<state[d], turns[d], opened[d]>>,
           pc[t] = "save" => job[t].conv # d,
           Silent(t, d)' => Silent(t, d)
    PROVE  OpeningsOwed(d)'
<1>1. \A u \in Thread \ {t} :
          pc'[u] = pc[u] /\ job'[u] = job[u] /\ live'[u] = live[u]
  BY WorkerMoves DEF OpeningInv, Moves
<1>2. Speaking(d) => Speaking(d)'
  BY <1>1 DEF Speaking
<1>3. \A u \in Thread : Silent(u, d)' => Silent(u, d)
  BY <1>1 DEF Silent
<1> QED
  BY <1>2, <1>3, OpeningFrame

\* Two threads are never in a triage of one conversation.
LEMMA OneTriage ==
    ASSUME LockHeld, NEW t \in Thread, NEW u \in Thread \ {t},
           pc[t] \in Triage!TriageStep, pc[u] \in Triage!TriageStep
    PROVE  job[u].conv # job[t].conv
BY DEF LockHeld, Held

\* A thread in a triage has a conversation and turns.
LEMMA TriageJob ==
    ASSUME TypeInv, NEW t \in Thread, pc[t] \in TriageStep
    PROVE  /\ job[t] \in Triage!Job /\ job[t].conv \in Conv
           /\ job[t].turns \in Seq(Nat) /\ job[t].customer \in Nat
BY DEF TypeInv, ThreadsOK, Triage!Job

\* Events, and steps that pass on the turns they have.
LEMMA TurnsPassOn ==
    ASSUME OpeningInv, [Next]_vars, NEW t \in Thread, WorkerStep(t),
           \/ Triage!HandleMessageCreated(t) \/ Triage!HandleAudio(t)
           \/ Triage!HandleConversationUpdated(t) \/ Triage!Transcribe(t)
           \/ Triage!ClassifyFails(t) \/ Triage!ClassifyReply(t)
           \/ Triage!ClassifyRoute(t) \/ Triage!RouteLabels(t),
           NEW d \in Conv
    PROVE  OpeningsOwed(d)'
<1> USE DEF OpeningInv, TypeInv, ThreadsOK
<1>1. UNCHANGED <<state, turns, opened>> /\ pc[t] # "save"
  BY DEF Triage!HandleMessageCreated, Triage!HandleAudio,
         Triage!HandleConversationUpdated, Triage!Dispatch,
         Triage!Transcribe, Triage!ClassifyFails, Triage!ClassifyReply,
         Triage!ClassifyRoute, Triage!RouteLabels, Triage!At, Triage!history
<1>2. CASE \/ Triage!HandleMessageCreated(t) \/ Triage!HandleAudio(t)
           \/ Triage!HandleConversationUpdated(t) \/ Triage!Transcribe(t)
  <2>1. pc'[t] \in {"begin", "transcribe", "idle"}
    BY <1>2
    DEF Triage!HandleMessageCreated, Triage!HandleAudio,
        Triage!HandleConversationUpdated, Triage!Dispatch,
        Triage!Transcribe, Triage!Finish
  <2>2. ~Silent(t, d)'
    BY <2>1 DEF Silent, Triage!TriageStep
  <2> QED
    BY <1>1, <2>2, OpeningElsewhere
<1>3. CASE \/ Triage!ClassifyFails(t) \/ Triage!ClassifyReply(t)
           \/ Triage!ClassifyRoute(t) \/ Triage!RouteLabels(t)
  <2>1. pc[t] \in Triage!TriageStep
    BY <1>3
    DEF Triage!ClassifyFails, Triage!ClassifyReply, Triage!ClassifyRoute,
        Triage!RouteLabels, Triage!At, Triage!TriageStep
  <2>2. \/ pc'[t] = "idle"
        \/ /\ live'[t] = live[t] /\ job'[t].conv = job[t].conv
           /\ job'[t].turns = job[t].turns
    <3>1. CASE Triage!ClassifyRoute(t)
      <4>1. PICK label : job' = [job EXCEPT ![t].label = label]
        BY <3>1 DEF Triage!ClassifyRoute
      <4>2. job[t] \in Triage!Job
        BY <2>1, TriageJob DEF TriageStep
      <4> QED
        BY <3>1, <4>1, <4>2 DEF Triage!ClassifyRoute, Triage!Job
    <3>2. CASE Triage!ClassifyFails(t) \/ Triage!ClassifyReply(t)
               \/ Triage!RouteLabels(t)
      BY <3>2
      DEF Triage!ClassifyFails, Triage!ClassifyReply, Triage!RouteLabels,
          Triage!Goto, Triage!Finish
    <3> QED
      BY <1>3, <3>1, <3>2
  <2>3. Silent(t, d)' => Silent(t, d)
    BY <2>1, <2>2 DEF Silent, Triage!TriageStep
  <2> QED
    BY <1>1, <2>3, OpeningElsewhere
<1> QED
  BY <1>2, <1>3

\* handleTriage greets under the mutex, and only if it found no word of its
\* own in the row.
LEMMA BeginOpens ==
    ASSUME OpeningInv, [Next]_vars, NEW t \in Thread, WorkerStep(t),
           Triage!Begin(t), NEW d \in Conv
    PROVE  OpeningsOwed(d)'
<1> USE DEF OpeningInv, TypeInv, ThreadsOK
<1>1. PICK c \in Conv, ok \in BOOLEAN : Triage!Begin(t)!(c, ok)
  BY DEF Triage!Begin
<1> DEFINE customer == job[t].customer
           td == IF ok THEN Triage!LoadTriage(turns[c]) ELSE <<>>
           ts == IF customer = Triage!Proactive THEN td
                 ELSE Append(td, customer)
<1>2. /\ UNCHANGED <<state, turns, opened>> /\ Triage!Call(t, ok)
      /\ pc[t] = "begin" /\ job[t].conv = c
  BY <1>1 DEF Triage!history, Triage!At
<1>3. job[t] \in Triage!Job /\ customer \in Nat
  BY <1>2, TriageJob DEF TriageStep
<1>4. CASE Triage!Finish(t)
  <2>1. pc'[t] = "idle"
    BY <1>4 DEF Triage!Finish
  <2>2. ~Silent(t, d)'
    BY <2>1 DEF Silent, Triage!TriageStep
  <2> QED
    BY <1>2, <2>2, OpeningElsewhere
<1>5. CASE /\ ok => state[c] # "routed"
           /\ Triage!LockConv(t, c)
           /\ pc' = [pc EXCEPT ![t] = "classify"]
           /\ job' = [job EXCEPT ![t].turns = ts]
           /\ UNCHANGED live
  <2>1. td \in Seq(Nat) /\ (ok => td = turns[c])
    BY DEF TriageOK, Triage!LoadTriage
  <2>2. Spoken(td) => Spoken(ts)
    BY <1>3, <2>1, HoldsAppend DEF Spoken
  <2> HIDE DEF td, ts
  <2>3. job'[t].conv = c /\ job'[t].turns = ts
    BY <1>2, <1>3, <1>5 DEF Triage!Job
  <2>4. CASE d # c
    <3>1. ~Silent(t, d)'
      BY <2>3, <2>4 DEF Silent
    <3> QED
      BY <1>2, <3>1, OpeningElsewhere
  <2>5. CASE d = c /\ live[t] /\ ~ok
    <3>1. Reasons(c)' > Reasons(c)
      BY <1>2, <2>5, CallReason
    <3>2. opened[c] <= 1 + Reasons(c) \/ state'[c] \in CsatState
      BY <1>2 DEF OpeningsOwed
    <3> QED
      BY <1>2, <2>5, <3>1, <3>2, OpeningAfter
  <2>6. CASE d = c /\ (live[t] => ok)
    <3>1. lock[StripeOf(c)] = None
      BY <1>5 DEF Triage!LockConv, Triage!StripeOf, StripeOf
    <3>2. ASSUME NEW u \in Thread, pc[u] \in Triage!TriageStep,
                 job[u].conv = c
          PROVE  FALSE
      BY <3>1, <3>2, NoneAssumption DEF LockHeld, Held
    <3>3. ~Speaking(c)
      BY <3>2 DEF Speaking, Triage!TriageStep
    <3>4. /\ Reasons(c) \in Nat /\ Reasons(c)' \in Nat
          /\ Reasons(c)' >= Reasons(c)
          /\ opened[c] \in Nat /\ OpeningsOwed(c)
      BY ReasonsGrow
    <3>5. /\ opened[c] <= Reasons(c) => opened'[c] <= Reasons(c)'
          /\ opened'[c] <= 1 + Reasons(c)'
      BY <1>2, <3>3, <3>4 DEF OpeningsOwed
    <3>6. state'[c] \notin CsatState \union {"routed"}
              /\ ~Spoken(turns'[c]) => opened'[c] <= Reasons(c)'
      BY <1>2, <3>3, <3>4, <3>5 DEF OpeningsOwed
    <3>7. ASSUME NEW u \in Thread, Silent(u, c)'
          PROVE  \/ opened'[c] <= Reasons(c)'
                 \/ opened'[c] <= 1 + Reasons(c)' /\ state'[c] \in CsatState
      <4>1. CASE u = t
        <5>1. live[t] /\ ~Spoken(ts)
          BY <1>5, <2>3, <3>7, <4>1 DEF Silent
        <5>2. state[c] # "routed" /\ ~Spoken(turns[c])
          BY <1>5, <2>1, <2>2, <2>6, <5>1
        <5> QED
          BY <1>2, <3>5, <3>6, <5>2
      <4>2. CASE u # t
        <5>1. pc[u] \in Triage!TriageStep /\ job[u].conv = c
          BY <1>5, <3>7, <4>2 DEF Silent
        <5> QED
          BY <3>2, <5>1
      <4> QED
        BY <4>1, <4>2
    <3> QED
      BY <2>6, <3>5, <3>6, <3>7 DEF OpeningsOwed
  <2> QED
    BY <2>4, <2>5, <2>6
<1> QED
  BY <1>1, <1>4, <1>5 DEF Triage!Return, Triage!AlreadyRouted

\* A greeting is a turn of the bot, saved before the mutex is given back.
LEMMA ReplyOpens ==
    ASSUME OpeningInv, [Next]_vars, NEW t \in Thread, WorkerStep(t),
           Triage!Reply(t)
    PROVE  opened' \in [Conv -> Nat] /\ \A d \in Conv : OpeningsOwed(d)'
<1> USE DEF OpeningInv, TypeInv, ThreadsOK
<1>1. PICK c \in Conv : Triage!Reply(t)!(c)
  BY DEF Triage!Reply
<1> DEFINE ts == job[t].turns
<1>2. /\ UNCHANGED <<state, turns, live>>
      /\ pc[t] = "reply" /\ job[t].conv = c
      /\ pc' = [pc EXCEPT ![t] = "save"]
  BY <1>1 DEF Triage!At
<1>3. job[t] \in Triage!Job /\ ts \in Seq(Nat)
  BY <1>2, TriageJob DEF TriageStep, Triage!TriageStep
<1>4. /\ job'[t].conv = c /\ job'[t].turns = Append(ts, Triage!BotTurn)
      /\ \A u \in Thread \ {t} : job'[u] = job[u]
  BY <1>1, <1>2, <1>3 DEF Triage!Job
<1>5. Spoken(job'[t].turns)
  BY <1>3, <1>4, HoldsAppend DEF Spoken, Triage!BotTurn
<1>6. \A d \in Conv : ~Silent(t, d)'
  BY <1>5 DEF Silent
<1>7. opened' = [opened EXCEPT ![c] = IF live[t] /\ ~Spoken(ts) THEN @ + 1
                                      ELSE @]
  BY <1>1 DEF Spoken, Holds
<1>8. opened' \in [Conv -> Nat]
  BY <1>7
<1>9. ASSUME NEW d \in Conv, opened'[d] = opened[d] PROVE OpeningsOwed(d)'
  BY <1>2, <1>6, <1>9, OpeningElsewhere
<1>10. CASE live[t] /\ ~Spoken(ts)
  <2>1. \A d \in Conv \ {c} : opened'[d] = opened[d]
    BY <1>7
  <2>2. opened'[c] = opened[c] + 1 /\ opened[c] \in Nat
    BY <1>7, <1>10
  <2>3. /\ Reasons(c) \in Nat /\ Reasons(c)' \in Nat
        /\ Reasons(c)' >= Reasons(c)
    BY ReasonsGrow
  <2>4. \/ opened[c] <= Reasons(c)
        \/ opened[c] <= 1 + Reasons(c) /\ state[c] \in CsatState
    <3>1. Silent(t, c)
      BY <1>2, <1>10 DEF Silent, Triage!TriageStep
    <3> QED
      BY <3>1 DEF OpeningsOwed
  <2>5. Speaking(c)'
    BY <1>2, <1>4, <1>5, <1>10 DEF Speaking
  <2>6. \/ opened'[c] <= 1 + Reasons(c)'
        \/ opened'[c] <= 2 + Reasons(c)' /\ state'[c] \in CsatState
    BY <1>2, <2>2, <2>3, <2>4
  <2>7. ASSUME NEW u \in Thread PROVE ~Silent(u, c)'
    <3>1. CASE u = t
      BY <1>6, <3>1
    <3>2. CASE u # t /\ Silent(u, c)'
      <4>1. pc[u] \in Triage!TriageStep /\ job[u].conv = c
        BY <1>2, <1>4, <3>2 DEF Silent
      <4>2. pc[t] \in Triage!TriageStep
        BY <1>2 DEF Triage!TriageStep
      <4> QED
        BY <1>2, <3>2, <4>1, <4>2, OneTriage
    <3> QED
      BY <3>1, <3>2
  <2>8. OpeningsOwed(c)'
    BY <2>5, <2>6, <2>7 DEF OpeningsOwed
  <2> QED
    BY <1>8, <1>9, <2>1, <2>8
<1>11. CASE ~(live[t] /\ ~Spoken(ts))
  BY <1>7, <1>8, <1>9, <1>11
<1> QED
  BY <1>10, <1>11

\* Once the mutex is given back the row shows what the bot said, or a survey
\* was overwritten, or the write failed.
LEMMA SaveOpens ==
    ASSUME OpeningInv, [Next]_vars, NEW t \in Thread, WorkerStep(t),
           Triage!Save(t) \/ Triage!RouteSave(t), NEW d \in Conv
    PROVE  OpeningsOwed(d)'
<1> USE DEF OpeningInv, TypeInv, ThreadsOK, TriageOK
<1>1. PICK c \in Conv, ok \in BOOLEAN :
          /\ job[t].conv = c /\ Triage!Call(t, ok)
          /\ \/ /\ pc[t] = "save"
                /\ Triage!SaveRow(c, "triage", job[t].turns, ok)
             \/ /\ pc[t] = "route.save"
                /\ Triage!SaveRow(c, "routed", <<>>, ok)
          /\ Triage!Finish(t) /\ opened' = opened
  BY DEF Triage!Save, Triage!RouteSave, Triage!At, Triage!history
<1>2. pc'[t] = "idle" /\ pc[t] \in Triage!TriageStep
  BY <1>1 DEF Triage!Finish, Triage!TriageStep
<1>3. \A u \in Thread \ {t} :
          pc'[u] = pc[u] /\ job'[u] = job[u] /\ live'[u] = live[u]
  BY WorkerMoves DEF Moves
<1>4. ~Silent(t, d)'
  BY <1>2 DEF Silent, Triage!TriageStep
<1>5. /\ \A e \in Conv \ {c} : state'[e] = state[e] /\ turns'[e] = turns[e]
      /\ ~ok => state' = state /\ turns' = turns
  BY <1>1 DEF Triage!SaveRow, Triage!SaveState
<1>6. CASE d # c
  BY <1>1, <1>4, <1>5, <1>6, OpeningElsewhere
<1>7. CASE d = c /\ ~ok /\ live[t]
  <2>1. Reasons(c)' > Reasons(c)
    BY <1>1, <1>7, CallReason
  <2>2. opened[c] <= 1 + Reasons(c) \/ state'[c] \in CsatState
    BY <1>5, <1>7 DEF OpeningsOwed
  <2> QED
    BY <1>1, <1>7, <2>1, <2>2, OpeningAfter
<1>8. CASE d = c /\ ~ok /\ ~live[t]
  <2>1. Speaking(c) => Speaking(c)'
    BY <1>3, <1>8 DEF Speaking
  <2>2. \A u \in Thread : Silent(u, c)' => Silent(u, c)
    BY <1>3, <1>4, <1>8 DEF Silent
  <2> QED
    BY <1>1, <1>5, <1>8, <2>1, <2>2, OpeningFrame
<1>9. CASE d = c /\ ok
  <2>1. ASSUME NEW u \in Thread \ {t}, pc[u] \in Triage!TriageStep
        PROVE  job[u].conv # c
    BY <1>1, <1>2, <2>1, OneTriage
  <2>2. \A u \in Thread : ~Silent(u, c)'
    BY <1>3, <1>4, <1>9, <2>1 DEF Silent
  <2>3. /\ Reasons(c) \in Nat /\ Reasons(c)' \in Nat
        /\ Reasons(c)' >= Reasons(c)
        /\ opened[c] \in Nat /\ OpeningsOwed(c)
    BY ReasonsGrow
  <2>4. /\ live[t] /\ state'[c] \notin CsatState
        /\ \/ state'[c] = "routed" /\ pc[t] = "route.save"
           \/ turns'[c] = job[t].turns /\ pc[t] = "save"
    BY <1>1, <1>9
    DEF Triage!SaveRow, Triage!SaveState, Triage!Call, CsatState
  <2>5. Speaking(c) => pc[t] = "save" /\ Spoken(job[t].turns)
    <3>1. ASSUME NEW u \in Thread, pc[u] = "save", job[u].conv = c
          PROVE  u = t
      BY <2>1, <3>1 DEF Triage!TriageStep
    <3> QED
      BY <3>1 DEF Speaking
  <2>6. Speaking(c) => pc[t] = "save" /\ Spoken(turns'[c])
    BY <2>4, <2>5
  <2>7. CASE state[c] \in CsatState
    <3>1. Reasons(c)' > Reasons(c)
      BY <2>4, <2>7, ReasonsGrow
    <3>2. opened[c] <= 1 + Reasons(c) \/ Spoken(turns'[c])
      BY <2>3, <2>6 DEF OpeningsOwed
    <3> QED
      BY <1>1, <1>9, <2>2, <3>1, <3>2, OpeningAfter
  <2>8. CASE state[c] \notin CsatState
    <3>1. opened'[c] <= 1 + Reasons(c)'
      BY <1>1, <2>3, <2>8 DEF OpeningsOwed
    <3>2. ASSUME state'[c] # "routed", ~Spoken(turns'[c])
          PROVE  opened'[c] <= Reasons(c)'
      <4>1. Silent(t, c)
        BY <1>1, <1>2, <2>4, <3>2 DEF Silent
      <4>2. opened[c] <= Reasons(c)
        BY <2>3, <2>8, <4>1 DEF OpeningsOwed
      <4> QED
        BY <1>1, <2>3, <4>2
    <3> QED
      BY <1>9, <2>2, <3>1, <3>2 DEF OpeningsOwed
  <2> QED
    BY <2>7, <2>8
<1> QED
  BY <1>6, <1>7, <1>8, <1>9

\* The survey's steps open nothing.
LEMMA SurveyOpens ==
    ASSUME OpeningInv, [Next]_vars, NEW t \in Thread, opened' = opened,
           ClearData,
           \/ Survey!HandleMessageCreated(t)
           \/ Survey!HandleConversationUpdated(t)
           \/ Survey!Start(t) \/ Survey!Step(t),
           WorkerStep(t), NEW d \in Conv
    PROVE  OpeningsOwed(d)'
<1> USE DEF OpeningInv
<1>1. /\ pc[t] \in {"idle", "ask.begin", "rate.begin"} \union Survey!Locked
      /\ pc'[t] \in {"idle", "ask.begin", "rate.begin"} \union Survey!Locked
  BY DEF Survey!HandleMessageCreated, Survey!HandleConversationUpdated,
         Survey!Dispatch, Survey!Start, Survey!Step, Survey!AskBegin,
         Survey!RateBegin, Survey!AskSave, Survey!AskPrompt,
         Survey!AskDeadline, Survey!RateRecord, Survey!RateUnlabel,
         Survey!RateAnswered, Survey!RateResolve, Survey!RateDone,
         Survey!At, Survey!Goto, Survey!Finish, Survey!Return,
         Survey!Locked, Survey!AskStep, Survey!RateStep, TypeInv, ThreadsOK
<1>2. {pc[t], pc'[t]} \intersect Triage!TriageStep = {}
  BY <1>1 DEF Survey!Locked, Survey!AskStep, Survey!RateStep,
              Triage!TriageStep
<1>3. \A u \in Thread :
          {pc[u], pc'[u]} \intersect Triage!TriageStep # {} =>
              UNCHANGED <<pc[u], job[u], live[u]>>
  BY <1>2, WorkerMoves DEF Moves
<1>4. state'[d] = state[d] \/ state'[d] \in CsatState
  <2>1. pc[t] \notin {"save", "route.save"}
    BY <1>2 DEF Triage!TriageStep
  <2> QED
    BY <2>1, SurveyWrites DEF Writes, Write, Resolves, CsatState, TypeInv
<1>5. state'[d] \notin CsatState => turns'[d] = turns[d]
  BY DEF ClearData
<1> QED
  BY <1>3, <1>4, <1>5, OpeningOutside

\* Nor do the reaper and the environment; an expired job or a crash between
\* the greeting and its save is a reason.
LEMMA RestOpens ==
    ASSUME OpeningInv, [Next]_vars, OtherStep, NEW d \in Conv
    PROVE  OpeningsOwed(d)'
<1> USE DEF OpeningInv, TypeInv, ThreadsOK
<1>1. opened' = opened /\ (ClearData \/ UNCHANGED <<state, turns>>)
  BY DEF OtherStep, Reap, Expire, Environment, Crash, Surveying, vars, engine,
         triage
<1>2. CASE (\E t \in Thread : Survey!CtxExpire(t)) \/ Survey!Crash
  <2>1. PICK r \in {"expiries", "crashes"} : Survey!Spend(r)
    BY <1>2 DEF Survey!CtxExpire, Survey!Crash, Survey!CrashEngine
  <2>2. used'[r] = used[r] + 1
    <3>1. Spend(r)
      BY <2>1 DEF Survey!Spend, Spend, Survey!Bound, Bound
    <3> QED
      BY <3>1, SpendOne DEF Bound
  <2>3. Reasons(d)' > Reasons(d)
    BY <2>2, FailureIsReason
  <2>4. state' = state
    BY <1>2 DEF Survey!CtxExpire, Survey!Crash, Survey!CrashEngine
  <2>5. opened[d] <= 1 + Reasons(d) \/ state'[d] \in CsatState
    BY <2>4 DEF OpeningsOwed
  <2> QED
    BY <1>1, <2>3, <2>5, OpeningAfter
<1>3. CASE ~ ((\E t \in Thread : Survey!CtxExpire(t)) \/ Survey!Crash)
  <2>1. UNCHANGED <<pc, job, live>>
    BY <1>3
    DEF OtherStep, Reap, Expire, Environment, Crash, Surveying,
        Survey!Reaper, Survey!ReaperClaim, Survey!ReaperResolve,
        Survey!ReaperComplete, Survey!ReaperClose, Survey!Expire,
        Survey!Environment, Survey!AgentLabels, Survey!workers, vars,
        engine, workers
  <2>2. state'[d] = state[d] \/ state'[d] \in CsatState
    BY OtherWrites DEF ReaperCloses, Resolves, CsatState
  <2>3. state'[d] \notin CsatState => turns'[d] = turns[d]
    BY <1>1, <2>2 DEF ClearData
  <2> QED
    BY <1>1, <2>1, <2>2, <2>3, OpeningOutside
<1> QED
  BY <1>2, <1>3

\* However old the webhooks that a triage begins with, the bot greets once per
\* triage: each further opening has its own reason, or is that of a triage
\* about to overwrite the survey.
THEOREM OpenedOnce == Spec => []OneOpeningPerTriage
<1>1. Init => OpeningInv
  <2> SUFFICES ASSUME Init PROVE OpeningInv
    OBVIOUS
  <2>1. \A t \in Thread : pc[t] = "idle"
    BY DEF Init, Survey!Init, Survey!EngineInit
  <2>2. opened = [c \in Conv |-> 0]
    BY DEF Init, Triage!Init
  <2>3. \A c \in Conv : Reasons(c) = 0
    BY DEF Init, Survey!Init, Survey!EngineInit, Survey!Bound, Reasons
  <2>4. LockHeld
    BY <2>1, IdleIsFree DEF LockHeld
  <2>5. \A c \in Conv : OpeningsOwed(c)
    BY <2>1, <2>2, <2>3 DEF OpeningsOwed, Silent, Triage!TriageStep
  <2> QED
    BY <2>2, <2>4, <2>5, InitTypes DEF OpeningInv
<1>2. OpeningInv /\ [Next]_vars => OpeningInv'
  <2> SUFFICES ASSUME OpeningInv, [Next]_vars PROVE OpeningInv'
    OBVIOUS
  <2>1. TypeInv' /\ LockHeld'
    BY NextType, NextHeld DEF OpeningInv
  <2>2. ASSUME NEW t \in Thread, WorkerStep(t)
        PROVE  opened' \in [Conv -> Nat] /\ \A d \in Conv : OpeningsOwed(d)'
    <3>1. CASE Triage!Reply(t)
      BY <2>2, <3>1, ReplyOpens
    <3>2. CASE \/ Triage!HandleMessageCreated(t) \/ Triage!HandleAudio(t)
               \/ Triage!HandleConversationUpdated(t) \/ Triage!Begin(t)
               \/ Triage!Step(t) /\ ~ Triage!Reply(t)
      <4>1. opened' = opened
        BY <3>2
        DEF Triage!HandleMessageCreated, Triage!HandleAudio,
            Triage!HandleConversationUpdated, Triage!Begin, Triage!Step,
            Triage!Transcribe, Triage!ClassifyFails, Triage!ClassifyReply,
            Triage!ClassifyRoute, Triage!Save, Triage!RouteLabels,
            Triage!RouteSave, Triage!history
      <4>2. \A d \in Conv : OpeningsOwed(d)'
        BY <2>2, <3>2, TurnsPassOn, BeginOpens, SaveOpens DEF Triage!Step
      <4> QED
        BY <4>1, <4>2 DEF OpeningInv
    <3>3. CASE /\ opened' = opened /\ ClearData
               /\ \/ Survey!HandleMessageCreated(t)
                  \/ Survey!HandleConversationUpdated(t)
                  \/ Survey!Start(t) \/ Survey!Step(t)
      BY <2>2, <3>3, SurveyOpens DEF OpeningInv
    <3> QED
      BY <2>2, <3>1, <3>2, <3>3
      DEF WorkerStep, HandleEvent, Start, Step, Surveying, Triaging
  <2>3. ASSUME OtherStep
        PROVE  opened' \in [Conv -> Nat] /\ \A d \in Conv : OpeningsOwed(d)'
    <3>1. opened' = opened
      BY <2>3 DEF OtherStep, Reap, Expire, Environment, Crash, Surveying,
                  vars, triage
    <3> QED
      BY <2>3, <3>1, RestOpens DEF OpeningInv
  <2> QED
    BY <2>1, <2>2, <2>3 DEF OpeningInv, Next, WorkerStep, OtherStep
<1>3. OpeningInv => OneOpeningPerTriage
  <2> SUFFICES ASSUME OpeningInv, NEW c \in Conv
               PROVE  opened[c] <= 1 + Reasons(c)
                                     + (IF Overwritten(c) THEN 1 ELSE 0)
    BY DEF OneOpeningPerTriage
  <2>1. opened[c] \in Nat /\ OpeningsOwed(c)
    BY DEF OpeningInv
  <2>2. Reasons(c) \in Nat
    BY DEF OpeningInv, TypeInv, ThreadsOK, Reasons, Bound
  <2>3. state[c] \in CsatState /\ Speaking(c) => Overwritten(c)
    BY DEF Speaking, Overwritten
  <2> QED
    BY <2>1, <2>2, <2>3 DEF OpeningsOwed
<1> QED
  BY <1>1, <1>2, <1>3, PTL DEF Spec
=============================================================================
