----------------------------- MODULE CsatProofs -----------------------------
(* Theorems about Csat, proved with TLAPS for every value of its constants. *)
EXTENDS Csat, EngineProofs

\* A call of the reaper spends at most one fault.
LEMMA ReaperCallType ==
    ASSUME used \in [DOMAIN Bound -> Nat],
           NEW ok \in BOOLEAN, ReaperCall(ok)
    PROVE  /\ used' \in [DOMAIN Bound -> Nat]
           /\ used'["faults"] >= used["faults"]
BY SpendType DEF ReaperCall, Bound

-----------------------------------------------------------------------------
(* Type correctness *)

\* The initial states are well typed.
LEMMA InitType == Init => TypeOK
BY NoneAssumption
   DEF Init, EngineInit, TypeOK, State, CsatState, Status, Locked, AskStep,
       RateStep, LabelSet, Bound

\* The deferred unlock leaves the thread idle, its locks free.
LEMMA FinishType ==
    ASSUME TypeOK, NEW t \in Thread, Finish(t)
    PROVE  /\ lock' \in [0 .. ConvLockStripes - 1 -> Thread \union {None}]
           /\ pc' \in [Thread -> Locked \union {"idle", "ask.begin",
                                                "rate.begin"}]
           /\ job' \in [Thread -> Job \union {None}]
           /\ \A u \in Thread : pc'[u] # "idle" => job'[u] \in Job
           /\ live' \in [Thread -> BOOLEAN]
BY DEF TypeOK, Finish

\* Taking a mutex keeps the array of mutexes.
LEMMA LockType ==
    ASSUME TypeOK, NEW t \in Thread, NEW c \in Conv, LockConv(t, c)
    PROVE  lock' \in [0 .. ConvLockStripes - 1 -> Thread \union {None}]
BY StripeInRange DEF TypeOK, LockConv

\* Replacing a conversation's labels records a well-formed event.
LEMMA SetLabelsType ==
    ASSUME TypeOK, NEW c \in Conv, NEW new \in LabelSet, SetLabels(c, new)
    PROVE  /\ labels' \in [Conv -> LabelSet]
           /\ past' \in [Conv -> SUBSET (LabelSet \X LabelSet)]
<1>1. <<labels[c], new>> \in LabelSet \X LabelSet
  BY DEF TypeOK
<1> QED
  BY <1>1 DEF TypeOK, SetLabels

\* saveState stores a state of the machine or leaves the row as it was.
LEMMA SaveStateType ==
    ASSUME TypeOK, NEW c \in Conv, NEW s \in State, NEW ok \in BOOLEAN,
           SaveState(c, s, ok)
    PROVE  state' \in [Conv -> State]
BY DEF TypeOK, SaveState

\* So does a handler's call to SetLabels, whatever comes of it.
LEMMA PostLabelsType ==
    ASSUME TypeOK, NEW t, NEW ok, NEW c \in Conv, NEW new \in LabelSet,
           PostLabels(t, c, new, ok)
    PROVE  /\ labels' \in [Conv -> LabelSet]
           /\ past' \in [Conv -> SUBSET (LabelSet \X LabelSet)]
<1>1. CASE SetLabels(c, new)
  BY <1>1, SetLabelsType
<1>2. CASE UNCHANGED <<labels, past>>
  BY <1>2 DEF TypeOK
<1> QED
  BY <1>1, <1>2 DEF PostLabels

\* Chatwoot's flag stays a Boolean whatever comes of the call.
LEMMA ResolveType ==
    ASSUME TypeOK, NEW c \in Conv, NEW outcomes \in SUBSET BOOLEAN,
           Resolve(c, outcomes)
    PROVE  resolved' \in [Conv -> BOOLEAN]
BY DEF TypeOK, Resolve

\* Every worker step keeps the types.
LEMMA WorkerType ==
    ASSUME TypeOK, NEW t \in Thread,
           \/ HandleMessageCreated(t) \/ HandleConversationUpdated(t)
           \/ Start(t) \/ Step(t)
    PROVE  TypeOK'
<1> USE DEF TypeOK
<1>1. CASE HandleMessageCreated(t) \/ HandleConversationUpdated(t)
  <2>1. PICK j \in Job, step \in {"rate.begin", "ask.begin"} :
             /\ Dispatch(t, step, j)
             /\ UNCHANGED <<deadline, due, reaper, resolved, history>>
    BY <1>1 DEF HandleMessageCreated, HandleConversationUpdated, Job
  <2> QED
    BY <2>1, SpendType DEF Dispatch, reaper, history, Bound, Locked
<1>3. CASE AskBegin(t)
  <2>1. PICK c \in Conv, ok \in BOOLEAN : AskBegin(t)!(c, ok)
    BY <1>3 DEF AskBegin
  <2>2. CASE Finish(t)
    BY <2>1, <2>2, CallType, FinishType DEF db, reaper, chatwoot, history
  <2>3. CASE /\ LockConv(t, c)
             /\ pc' = [pc EXCEPT ![t] = "ask.save"]
             /\ UNCHANGED <<job, live>>
    BY <2>1, <2>3, CallType, LockType
    DEF At, Locked, AskStep, db, reaper, chatwoot, history
  <2> QED
    BY <2>1, <2>2, <2>3 DEF Return
<1>4. CASE RateBegin(t)
  <2>1. PICK c \in Conv, ok \in BOOLEAN : RateBegin(t)!(c, ok)
    BY <1>4 DEF RateBegin
  <2>2. CASE KeepDeadline(c) /\ Finish(t)
    BY <2>1, <2>2, CallType, FinishType
    DEF KeepDeadline, reaper, chatwoot, history
  <2>3. CASE /\ LockConv(t, c)
             /\ pc' = [pc EXCEPT ![t] = "rate.record"]
             /\ UNCHANGED <<deadline, job, live>>
    BY <2>1, <2>3, CallType, LockType
    DEF At, Locked, RateStep, reaper, chatwoot, history
  <2> QED
    BY <2>1, <2>2, <2>3 DEF Return
<1>5. CASE AskSave(t)
  <2>1. PICK c \in Conv, ok \in BOOLEAN : AskSave(t)!(c, ok)
    BY <1>5 DEF AskSave
  <2> QED
    BY <2>1, CallType
    DEF At, Job, SaveState, State, CsatState, Goto, Locked, AskStep, reaper, chatwoot, history
<1>6. CASE AskPrompt(t)
  BY <1>6, StripeInRange
  DEF AskPrompt, At, Job, Goto, Locked, AskStep, db, reaper, chatwoot
<1>7. CASE AskDeadline(t)
  <2>1. PICK c \in Conv, ok \in BOOLEAN : AskDeadline(t)!(c, ok)
    BY <1>7 DEF AskDeadline
  <2> QED
    BY <2>1, CallType, FinishType
    DEF At, Job, Status, reaper, chatwoot, history
<1>8. CASE RateRecord(t)
  <2>1. PICK c \in Conv, ok \in BOOLEAN : RateRecord(t)!(c, ok)
    BY <1>8 DEF RateRecord
  <2>2. rated' \in [Conv -> Nat]
    BY <2>1
  <2>3. /\ At(t, "rate.record", c) /\ Call(t, ok) /\ Goto(t, "rate.unlabel")
        /\ UNCHANGED <<db, reaper, chatwoot, prompted>>
    BY <2>1
  <2> QED
    BY <2>2, <2>3, CallType
    DEF At, Job, Goto, Locked, RateStep, db, reaper, chatwoot
<1>9. CASE RateUnlabel(t)
  <2>1. PICK c \in Conv, ok \in BOOLEAN : RateUnlabel(t)!(c, ok)
    BY <1>9 DEF RateUnlabel
  <2> QED
    <3>1. ReplaceLabel(job[t].labels, LabelCSAT, {}) \in LabelSet
      BY <2>1 DEF At, Job, ReplaceLabel, LabelSet
    <3> QED
      BY <2>1, <3>1, CallType, PostLabelsType
      DEF At, Job, Goto, Locked, RateStep, db, reaper, history
<1>10. CASE RateAnswered(t)
  <2>1. PICK c \in Conv, ok \in BOOLEAN : RateAnswered(t)!(c, ok)
    BY <1>10 DEF RateAnswered
  <2>2. deadline' \in [Conv -> Status]
    BY <2>1 DEF MarkDeadlineAnswered, Status
  <2>3. /\ At(t, "rate.answered", c) /\ Call(t, ok) /\ Goto(t, "rate.resolve")
        /\ UNCHANGED <<state, due, reaper, chatwoot, history>>
    BY <2>1
  <2> QED
    BY <2>2, <2>3, CallType
    DEF At, Job, Goto, Locked, RateStep, reaper, chatwoot, history
<1>11. CASE RateResolve(t)
  <2>1. PICK c \in Conv, ok \in BOOLEAN : RateResolve(t)!(c, ok)
    BY <1>11 DEF RateResolve
  <2> QED
    BY <2>1, CallType, CarriedOutType, ResolveType
    DEF At, Job, Goto, Locked, RateStep, db, reaper, history
<1>12. CASE RateDone(t)
  <2>1. PICK c \in Conv, ok \in BOOLEAN : RateDone(t)!(c, ok)
    BY <1>12 DEF RateDone
  <2> QED
    <3>1. state' \in [Conv -> State]
      BY <2>1, SaveStateType DEF State, CsatState
    <3> QED
      BY <2>1, <3>1, CallType, FinishType DEF reaper, chatwoot, history
<1> QED
  BY <1>1, <1>3, <1>4, <1>5, <1>6, <1>7, <1>8, <1>9, <1>10, <1>11,
     <1>12 DEF Start, Step

\* Every step of the reaper and of the environment keeps the types.
LEMMA OtherType ==
    ASSUME TypeOK,
           \/ Reaper \/ Environment \/ Crash \/ UNCHANGED vars
           \/ \E c \in Conv : Expire(c)
    PROVE  TypeOK'
<1> USE DEF TypeOK
<1>1. CASE ReaperClaim
  BY <1>1, ReaperCallType
  DEF ReaperClaim, Expired, Open, Status, workers, chatwoot, history
<1>2. CASE ReaperResolve
  <2>1. PICK c \in batch, ok \in BOOLEAN :
          /\ ReaperCall(ok)
          /\ Resolve(c, IF ok THEN {TRUE} ELSE BOOLEAN)
          /\ IF ok THEN rpc' = "complete" /\ rconv' = c /\ UNCHANGED batch
             ELSE LeaveClosing(c)
    BY <1>2 DEF ReaperResolve
  <2> QED
    BY <1>2, <2>1, ReaperCallType
    DEF ReaperResolve, Resolve, LeaveClosing, NextInBatch, db, workers,
        history
<1>3. CASE ReaperComplete
  BY <1>3, ReaperCallType
  DEF ReaperComplete, Status, workers, chatwoot, history
<1>4. CASE ReaperClose
  BY <1>4, ReaperCallType
  DEF ReaperClose, SaveState, State, CsatState, NextInBatch, workers,
      chatwoot, history
<1>5. CASE Crash
  BY <1>5, SpendType
  DEF Crash, CrashEngine, Locked, Bound, history
<1>6. CASE Environment
  <2>1. ASSUME NEW c \in Conv, AgentLabels(c) PROVE TypeOK'
    BY <1>6, <2>1, SpendType, SetLabelsType
    DEF Environment, AgentLabels, Bound, workers, reaper, history
  <2>2. ASSUME NEW t \in Thread, CtxExpire(t) PROVE TypeOK'
    BY <1>6, <2>2, SpendType
    DEF Environment, CtxExpire, Bound, reaper, history
  <2> QED
    BY <1>6, <2>1, <2>2 DEF Environment
<1>7. ASSUME NEW c \in Conv, Expire(c) PROVE TypeOK'
  BY <1>7 DEF Expire, workers, reaper, chatwoot, history
<1>8. CASE UNCHANGED vars
  BY <1>8 DEF vars, db, workers, reaper, chatwoot, history
<1> QED
  BY <1>1, <1>2, <1>3, <1>4, <1>5, <1>6, <1>7, <1>8 DEF Reaper

\* Every variable stays in its type, for any number of conversations,
\* workers, mutexes and failures.
THEOREM TypeCorrect == Spec => []TypeOK
<1>1. TypeOK /\ [Next]_vars => TypeOK'
  BY WorkerType, OtherType DEF Next
<1> QED
  BY InitType, <1>1, PTL DEF Spec

-----------------------------------------------------------------------------
(* The customer is asked once *)

\* A thread inside a handler holds the mutex of its conversation.
LockHeld ==
    \A t \in Thread : pc[t] \in Locked => lock[StripeOf(job[t].conv)] = t

\* A conversation whose survey has not started in the store owes each prompt
\* already sent to a failed call.
Unstarted ==
    \A c \in Conv : state[c] \notin CsatState => prompted[c] <= used.faults

\* A thread about to prompt, with a live context, found the survey not
\* started, or failed to read it.
AboutToPrompt ==
    \A t \in Thread : live[t] =>
        LET c == job[t].conv
        IN  /\ pc[t] \in {"ask.save", "ask.prompt"} =>
                    prompted[c] <= used.faults
            /\ pc[t] = "ask.prompt" /\ state[c] \notin CsatState =>
                    prompted[c] + 1 <= used.faults

PromptInv == TypeOK /\ LockHeld /\ OnePrompt /\ Unstarted /\ AboutToPrompt

\* The initial states are in the invariant.
LEMMA InitPrompt == Init => PromptInv
BY InitType
   DEF Init, EngineInit, PromptInv, LockHeld, OnePrompt, Unstarted, AboutToPrompt,
       Locked, AskStep, RateStep, Bound

\* A worker's step leaves the other holders of a mutex alone.
LEMMA LockHeldWorker ==
    ASSUME TypeOK, LockHeld, NEW t \in Thread, TypeOK',
           \/ HandleMessageCreated(t) \/ HandleConversationUpdated(t)
           \/ Start(t) \/ Step(t)
    PROVE  LockHeld'
<1> USE NoneAssumption DEF TypeOK, LockHeld
<1>1. ASSUME NEW j, NEW step \in {"ask.begin", "rate.begin"},
             Dispatch(t, step, j)
      PROVE  LockHeld'
  BY <1>1 DEF Dispatch, Locked, AskStep, RateStep
<1>2. ASSUME NEW step, Goto(t, step), pc[t] \in Locked PROVE LockHeld'
  BY <1>2 DEF Goto
<1>3. ASSUME Finish(t) PROVE LockHeld'
  BY <1>3, StripeInRange DEF Finish, Locked, AskStep, RateStep, Job
<1>4. ASSUME NEW c \in Conv, NEW step, At(t, "ask.begin", c) \/ At(t, "rate.begin", c),
             LockConv(t, c), pc' = [pc EXCEPT ![t] = step], job' = job
      PROVE  LockHeld'
  BY <1>4, StripeInRange DEF At, LockConv, Locked, AskStep, RateStep, Job
<1>6. CASE Start(t)
  BY <1>3, <1>4, <1>6 DEF Start, AskBegin, RateBegin, Return
<1>7. CASE Step(t)
  BY <1>2, <1>3, <1>7
  DEF Step, AskSave, AskPrompt, AskDeadline, RateRecord, RateUnlabel,
      RateAnswered, RateResolve, RateDone, At, Locked, AskStep, RateStep
<1>8. CASE HandleMessageCreated(t) \/ HandleConversationUpdated(t)
  BY <1>1, <1>8 DEF HandleMessageCreated, HandleConversationUpdated
<1> QED
  BY <1>6, <1>7, <1>8

\* The reaper and the environment take no mutex; a crash frees them all.
LEMMA LockHeldOther ==
    ASSUME TypeOK, LockHeld,
           \/ Reaper \/ Environment \/ Crash \/ UNCHANGED vars
           \/ \E c \in Conv : Expire(c)
    PROVE  LockHeld'
<1>1. CASE UNCHANGED workers
  BY <1>1 DEF LockHeld, workers
<1>2. CASE Crash
  BY <1>2 DEF Crash, CrashEngine, LockHeld, Locked, AskStep, RateStep
<1>3. CASE Environment
  BY <1>3 DEF Environment, AgentLabels, CtxExpire, workers, LockHeld
<1> QED
  BY <1>1, <1>2, <1>3
  DEF Reaper, ReaperClaim, ReaperResolve, ReaperComplete, ReaperClose,
      Expire, vars

\* A step that sends no prompt, forgets no survey and brings no thread to a
\* prompt keeps the account.
LEMMA NoPrompt ==
    ASSUME PromptInv, TypeOK',
           prompted' = prompted,
           used'["faults"] >= used["faults"],
           \A c \in Conv : state[c] \in CsatState => state'[c] \in CsatState,
           \A u \in Thread :
               pc'[u] \in {"ask.save", "ask.prompt"} /\ live'[u] =>
                   pc'[u] = pc[u] /\ job'[u] = job[u] /\ live[u]
    PROVE  OnePrompt' /\ Unstarted' /\ AboutToPrompt'
<1> DEFINE f == used["faults"]
<1> USE DEF PromptInv, TypeOK
<1>1. f \in Nat /\ f' \in Nat /\ f' >= f
  BY DEF Bound
<1>2. OnePrompt'
  BY <1>1 DEF OnePrompt
<1>3. Unstarted'
  BY <1>1 DEF Unstarted
<1>4. AboutToPrompt'
  BY <1>1 DEF AboutToPrompt, Job
<1> QED
  BY <1>2, <1>3, <1>4

\* startCSAT enters its critical section only for a survey not started.
LEMMA AskBeginPrompt ==
    ASSUME PromptInv, TypeOK', NEW t \in Thread, AskBegin(t)
    PROVE  OnePrompt' /\ Unstarted' /\ AboutToPrompt'
<1> DEFINE f == used["faults"]
<1> USE DEF PromptInv
<1>1. PICK c \in Conv, ok \in BOOLEAN : AskBegin(t)!(c, ok)
  BY DEF AskBegin
<1>2. /\ f \in Nat /\ f' \in Nat /\ f' >= f
      /\ live[t] /\ ~ok => f' = f + 1
  BY <1>1, CallType DEF TypeOK, Bound
<1>3. state' = state /\ prompted' = prompted
  BY <1>1 DEF db, history
<1>4. CASE Finish(t)
  BY <1>2, <1>3, <1>4, NoPrompt DEF Finish, TypeOK
<1>5. CASE /\ ~(ok /\ AlreadyStarted(state[c]))
           /\ pc' = [pc EXCEPT ![t] = "ask.save"]
           /\ UNCHANGED <<job, live>>
  <2>1. OnePrompt' /\ Unstarted'
    <3>1. \A d \in Conv : prompted[d] \in Nat
      BY DEF TypeOK
    <3>2. OnePrompt'
      BY <1>2, <1>3, <3>1 DEF OnePrompt
    <3>3. Unstarted'
      BY <1>2, <1>3, <3>1 DEF Unstarted
    <3> QED
      BY <3>2, <3>3
  <2>2. live[t] => prompted[c] <= f'
    BY <1>1, <1>2, <1>5 DEF OnePrompt, Unstarted, AlreadyStarted, TypeOK
  <2>3. ASSUME NEW u \in Thread, live'[u] PROVE AboutToPrompt!(u)'
    BY <1>1, <1>2, <1>3, <1>5, <2>2, <2>3 DEF AboutToPrompt, TypeOK, At, Job
  <2> QED
    BY <2>1, <2>3 DEF AboutToPrompt
<1> QED
  BY <1>1, <1>4, <1>5 DEF Return

\* A failed save owes the prompt that follows to a fault.
LEMMA AskSavePrompt ==
    ASSUME PromptInv, TypeOK', NEW t \in Thread, AskSave(t)
    PROVE  OnePrompt' /\ Unstarted' /\ AboutToPrompt'
<1> DEFINE f == used["faults"]
<1> USE DEF PromptInv
<1>1. PICK c \in Conv, ok \in BOOLEAN : AskSave(t)!(c, ok)
  BY DEF AskSave
<1>2. /\ f \in Nat /\ f' \in Nat /\ f' >= f
      /\ live[t] /\ ~ok => f' = f + 1
  BY <1>1, CallType DEF TypeOK, Bound
<1>3. /\ prompted' = prompted
      /\ \A d \in Conv : state[d] \in CsatState => state'[d] \in CsatState
      /\ ok => state'[c] \in CsatState
  <2>1. prompted' = prompted
    BY <1>1 DEF history
  <2>2. "csat_pending" \in CsatState
    BY DEF CsatState
  <2>3. \/ ok /\ state' = [state EXCEPT ![c] = "csat_pending"]
        \/ ~ok /\ state' = state
    BY <1>1 DEF SaveState
  <2>4. DOMAIN state = Conv
    BY DEF TypeOK
  <2>5. \A d \in Conv : state[d] \in CsatState => state'[d] \in CsatState
    BY <2>2, <2>3, <2>4
  <2>6. ok => state'[c] \in CsatState
    BY <2>2, <2>3, <2>4
  <2> QED
    BY <2>1, <2>5, <2>6
<1>4. OnePrompt' /\ Unstarted'
  <2>1. \A d \in Conv : prompted[d] \in Nat
    BY DEF TypeOK
  <2>2. OnePrompt'
    BY <1>2, <1>3, <2>1 DEF OnePrompt
  <2>3. Unstarted'
    BY <1>2, <1>3, <2>1 DEF Unstarted
  <2> QED
    BY <2>2, <2>3
<1>5. live[t] => prompted[c] <= f
  BY <1>1 DEF AboutToPrompt, At
<1>6. ASSUME NEW u \in Thread, live'[u] PROVE AboutToPrompt!(u)'
  <2>1. job' = job /\ live' = live
    BY <1>1 DEF Goto
  <2>2. CASE u = t
    <3>1. pc'[u] = "ask.prompt" /\ job[u].conv = c
      BY <1>1, <2>2 DEF Goto, At, TypeOK
    <3>2. ok \/ f' = f + 1
      BY <1>2, <1>6, <2>1, <2>2
    <3>3. prompted[c] \in Nat /\ prompted[c] <= f
      BY <1>1, <1>5, <1>6, <2>1, <2>2 DEF TypeOK
    <3> QED
      BY <1>2, <1>3, <2>1, <3>1, <3>2, <3>3
  <2>3. CASE u # t
    <3>1. pc'[u] = pc[u]
      BY <1>1, <2>3 DEF Goto, TypeOK
    <3>2. AboutToPrompt!(u)
      BY <1>6, <2>1 DEF AboutToPrompt
    <3>3. pc[u] # "idle" => job[u].conv \in Conv
      BY DEF TypeOK, Job
    <3>4. pc[u] # "idle" => prompted[job[u].conv] \in Nat
      BY <3>3 DEF TypeOK
    <3> QED
      BY <1>2, <1>3, <1>6, <2>1, <3>1, <3>2, <3>3, <3>4
  <2> QED
    BY <2>2, <2>3
<1> QED
  BY <1>4, <1>6 DEF AboutToPrompt

\* The mutex keeps every other thread away from this conversation's prompt.
LEMMA AskPromptPrompt ==
    ASSUME PromptInv, TypeOK', NEW t \in Thread, AskPrompt(t)
    PROVE  OnePrompt' /\ Unstarted' /\ AboutToPrompt'
<1> DEFINE f == used["faults"]
<1> USE DEF PromptInv
<1>1. PICK c \in Conv : AskPrompt(t)!(c)
  BY DEF AskPrompt
<1>2. f \in Nat /\ f' = f
  BY <1>1 DEF TypeOK, Bound
<1>3. state' = state
  BY <1>1 DEF db
<1>4. /\ prompted[c] \in Nat
      /\ live[t] => prompted[c] <= f
      /\ live[t] /\ state[c] \notin CsatState => prompted[c] + 1 <= f
      /\ prompted' = [prompted EXCEPT ![c] = IF live[t] THEN @ + 1 ELSE @]
  BY <1>1 DEF AboutToPrompt, At, TypeOK
<1>5. OnePrompt' /\ Unstarted'
  BY <1>2, <1>3, <1>4 DEF OnePrompt, Unstarted, TypeOK
<1>6. ASSUME NEW u \in Thread, live'[u] PROVE AboutToPrompt!(u)'
  <2>1. CASE u = t
    BY <1>1, <2>1 DEF Goto, TypeOK
  <2>2. CASE u # t /\ pc[u] \in {"ask.save", "ask.prompt"}
    <3>1. job[u].conv # c
      BY <1>1, <2>2, NoneAssumption
      DEF LockHeld, At, Locked, AskStep
    <3> QED
      BY <1>1, <1>2, <1>3, <1>4, <1>6, <2>2, <3>1
      DEF AboutToPrompt, Goto, TypeOK, Job
  <2>3. CASE u # t /\ pc[u] \notin {"ask.save", "ask.prompt"}
    BY <1>1, <2>3 DEF Goto, TypeOK
  <2> QED
    BY <2>1, <2>2, <2>3
<1> QED
  BY <1>5, <1>6 DEF AboutToPrompt

\* Every other worker step is covered by NoPrompt.
LEMMA OtherWorkerPrompt ==
    ASSUME PromptInv, TypeOK', NEW t \in Thread,
           \/ HandleMessageCreated(t) \/ HandleConversationUpdated(t)
           \/ AskDeadline(t) \/ RateBegin(t) \/ RateRecord(t)
           \/ RateUnlabel(t) \/ RateAnswered(t) \/ RateResolve(t)
           \/ RateDone(t)
    PROVE  OnePrompt' /\ Unstarted' /\ AboutToPrompt'
<1> USE DEF PromptInv, TypeOK
<1>1. ASSUME NEW j, NEW step \in {"ask.begin", "rate.begin"},
             Dispatch(t, step, j)
      PROVE  /\ used'["faults"] >= used["faults"]
             /\ state' = state
             /\ \A u \in Thread : pc'[u] \in {"ask.save", "ask.prompt"} =>
                   pc'[u] = pc[u] /\ job'[u] = job[u] /\ live'[u] = live[u]
  BY <1>1, SpendType DEF Dispatch, Bound
<1>2. ASSUME NEW ok \in BOOLEAN, Call(t, ok)
      PROVE  used'["faults"] >= used["faults"]
  BY <1>2, CallType
<1>3. CASE AskDeadline(t) \/ RateBegin(t)
  <2>1. \E ok \in BOOLEAN : Call(t, ok)
    BY <1>3 DEF AskDeadline, RateBegin
  <2>2. UNCHANGED <<state, history>>
    BY <1>3 DEF AskDeadline, RateBegin
  <2>3. \A u \in Thread : pc'[u] \in {"ask.save", "ask.prompt"} =>
              pc'[u] = pc[u] /\ job'[u] = job[u] /\ live'[u] = live[u]
    BY <1>3 DEF AskDeadline, RateBegin, Return, Finish
  <2> QED
    BY <1>2, <2>1, <2>2, <2>3, NoPrompt DEF history
<1>4. CASE \/ RateRecord(t) \/ RateUnlabel(t)
           \/ RateAnswered(t) \/ RateResolve(t)
  <2>1. \E ok \in BOOLEAN : Call(t, ok)
    BY <1>4 DEF RateRecord, RateUnlabel, RateAnswered, RateResolve
  <2>2. /\ UNCHANGED <<state, prompted>>
        /\ \E step \in RateStep : Goto(t, step)
    BY <1>4
    DEF RateRecord, RateUnlabel, RateAnswered, RateResolve, RateStep, db,
        history
  <2>3. \A u \in Thread : pc'[u] \in {"ask.save", "ask.prompt"} =>
              pc'[u] = pc[u] /\ job'[u] = job[u] /\ live'[u] = live[u]
    BY <2>2 DEF Goto, RateStep
  <2> QED
    BY <1>2, <2>1, <2>2, <2>3, NoPrompt
<1>5. CASE RateDone(t)
  <2>1. PICK c \in Conv, ok \in BOOLEAN : RateDone(t)!(c, ok)
    BY <1>5 DEF RateDone
  <2>2. prompted' = prompted
    BY <2>1 DEF history
  <2>3. \A d \in Conv : state[d] \in CsatState => state'[d] \in CsatState
    BY <2>1 DEF SaveState, CsatState
  <2>4. \A u \in Thread : pc'[u] \in {"ask.save", "ask.prompt"} =>
              pc'[u] = pc[u] /\ job'[u] = job[u] /\ live'[u] = live[u]
    BY <2>1 DEF Finish
  <2> QED
    BY <1>2, <2>1, <2>2, <2>3, <2>4, NoPrompt
<1>7. CASE HandleMessageCreated(t) \/ HandleConversationUpdated(t)
  <2>1. prompted' = prompted
    BY <1>7
    DEF HandleMessageCreated, HandleConversationUpdated, history
  <2>2. CASE HandleMessageCreated(t)
    <3>1. PICK c \in Conv, ls \in LabelSet, rating \in BOOLEAN :
              HandleMessageCreated(t)!(c, ls, rating)
      BY <2>2 DEF HandleMessageCreated
    <3> QED
      BY <1>1, <2>1, <3>1, NoPrompt
  <2>3. CASE HandleConversationUpdated(t)
    <3>1. PICK c \in Conv, ls \in LabelSet :
              HandleConversationUpdated(t)!(c, ls)
      BY <2>3 DEF HandleConversationUpdated
    <3> QED
      BY <1>1, <2>1, <3>1, NoPrompt
  <2> QED
    BY <1>7, <2>2, <2>3
<1> QED
  BY <1>3, <1>4, <1>5, <1>7

\* The reaper and the environment send no prompt; the reaper writes only
\* states of the survey, and a crash leaves every thread idle.
LEMMA OtherPrompt ==
    ASSUME PromptInv, TypeOK',
           \/ Reaper \/ Environment \/ Crash \/ UNCHANGED vars
           \/ \E c \in Conv : Expire(c)
    PROVE  OnePrompt' /\ Unstarted' /\ AboutToPrompt'
<1> USE DEF PromptInv, TypeOK
<1>1. used'["faults"] >= used["faults"]
  <2>1. CASE Reaper
    <3>1. PICK ok \in BOOLEAN : ReaperCall(ok)
      BY <2>1
      DEF Reaper, ReaperClaim, ReaperResolve, ReaperComplete, ReaperClose
    <3> QED
      BY <3>1, ReaperCallType
  <2>2. CASE Crash \/ Environment
    BY <2>2, SpendType
    DEF Crash, CrashEngine, Environment, AgentLabels, CtxExpire, Bound
  <2>3. CASE UNCHANGED used
    BY <2>3 DEF Bound
  <2> QED
    BY <2>1, <2>2, <2>3 DEF Expire, vars
<1>2. prompted' = prompted
  BY DEF Reaper, ReaperClaim, ReaperResolve, ReaperComplete, ReaperClose,
         Crash, Environment, Expire, vars, history
<1>3. \A c \in Conv : state[c] \in CsatState => state'[c] \in CsatState
  BY DEF Reaper, ReaperClaim, ReaperResolve, ReaperComplete, ReaperClose,
         Crash, CrashEngine, Environment, AgentLabels, CtxExpire, Expire, vars,
         db, SaveState, CsatState
<1>4. \/ UNCHANGED <<pc, job>> /\ \A u \in Thread : live'[u] => live[u]
      \/ \A u \in Thread : pc'[u] = "idle"
  BY DEF Reaper, ReaperClaim, ReaperResolve, ReaperComplete, ReaperClose,
         Crash, CrashEngine, Environment, AgentLabels, CtxExpire, Expire,
         vars, workers
<1> QED
  BY <1>1, <1>2, <1>3, <1>4, NoPrompt

\* The customer is asked for a rating once, plus once per failed call:
\* repeated, late and concurrent webhooks, expired jobs and crashes never
\* make the bot ask again.
THEOREM AskedOnce == Spec => []OnePrompt
<1>1. PromptInv /\ [Next]_vars => PromptInv'
  <2> SUFFICES ASSUME PromptInv, [Next]_vars PROVE PromptInv'
    OBVIOUS
  <2>1. TypeOK'
    BY WorkerType, OtherType DEF Next, PromptInv
  <2>2. LockHeld'
    BY <2>1, LockHeldWorker, LockHeldOther DEF Next, PromptInv
  <2>3. OnePrompt' /\ Unstarted' /\ AboutToPrompt'
    BY <2>1, AskBeginPrompt, AskSavePrompt, AskPromptPrompt,
       OtherWorkerPrompt, OtherPrompt
    DEF Next, Start, Step
  <2> QED
    BY <2>1, <2>2, <2>3 DEF PromptInv
<1>2. PromptInv => OnePrompt
  BY DEF PromptInv
<1> QED
  BY InitPrompt, <1>1, <1>2, PTL DEF Spec

-----------------------------------------------------------------------------
(* A survey that is over was resolved *)

\* A survey about to be stored as over: the answer's thread or the reaper has
\* told Chatwoot, unless the thread's call failed.
AboutToEnd ==
    /\ \A t \in Thread : pc[t] = "rate.done" /\ live[t] =>
           resolved[job[t].conv] \/ used.faults > 0
    /\ rpc \in {"complete", "close"} => resolved[rconv]

ResolvedInv == TypeOK /\ EndedMeansResolved /\ AboutToEnd

\* The reaper and the environment take back no fault.
LEMMA OtherFaults ==
    ASSUME used \in [DOMAIN Bound -> Nat], Reaper \/ Environment \/ Crash
    PROVE  used'["faults"] >= used["faults"]
<1>1. CASE Reaper
  <2>1. \E ok \in BOOLEAN : ReaperCall(ok)
    BY <1>1
    DEF Reaper, ReaperClaim, ReaperResolve, ReaperComplete, ReaperClose
  <2> QED
    BY <2>1, ReaperCallType
<1>2. CASE Environment \/ Crash
  <2>1. \E r \in {"labelings", "expiries", "crashes"} : Spend(r)
    BY <1>2 DEF Environment, AgentLabels, CtxExpire, Crash, CrashEngine
  <2> QED
    BY <2>1, SpendType DEF Bound
<1> QED
  BY <1>1, <1>2

\* No step takes back a fault, nor what Chatwoot was told.
LEMMA Grows ==
    ASSUME TypeOK, [Next]_vars
    PROVE  /\ used["faults"] \in Nat /\ used'["faults"] \in Nat
           /\ used'["faults"] >= used["faults"]
           /\ \A c \in Conv : resolved[c] => resolved'[c]
<1> USE DEF TypeOK
<1>1. used' \in [DOMAIN Bound -> Nat]
  BY WorkerType, OtherType DEF Next
<1>2. used["faults"] \in Nat /\ used'["faults"] \in Nat
  BY <1>1 DEF Bound
<1>3. ASSUME NEW t \in Thread, NEW ok \in BOOLEAN, Call(t, ok)
      PROVE  used'["faults"] >= used["faults"]
  BY <1>3, CallType
<1>5. ASSUME NEW r \in DOMAIN Bound, Spend(r)
      PROVE  used'["faults"] >= used["faults"]
  BY <1>5, SpendType
<1>6. ASSUME NEW t \in Thread,
             \/ HandleMessageCreated(t) \/ HandleConversationUpdated(t)
             \/ Start(t) \/ Step(t)
      PROVE  used'["faults"] >= used["faults"]
  <2>1. CASE HandleMessageCreated(t) \/ HandleConversationUpdated(t)
    BY <1>5, <2>1
    DEF HandleMessageCreated, HandleConversationUpdated, Dispatch, Bound
  <2>2. CASE AskPrompt(t)
    BY <1>2, <2>2 DEF AskPrompt
  <2>3. CASE \E ok \in BOOLEAN : Call(t, ok)
    BY <1>3, <2>3
  <2> QED
    BY <1>6, <2>1, <2>2, <2>3
    DEF Start, Step, AskBegin, RateBegin, AskSave, AskDeadline, RateRecord,
        RateUnlabel, RateAnswered, RateResolve, RateDone
<1>10. used'["faults"] >= used["faults"]
  <2>1. CASE UNCHANGED used
    BY <1>2, <2>1
  <2> QED
    BY <1>6, <2>1, OtherFaults DEF Next, Expire, vars
<1>11. \A c \in Conv : resolved[c] => resolved'[c]
  <2>1. ASSUME NEW c \in Conv, NEW outcomes \in SUBSET BOOLEAN,
               Resolve(c, outcomes)
        PROVE  \A d \in Conv : resolved[d] => resolved'[d]
    BY <2>1 DEF Resolve
  <2>2. ASSUME NEW t \in Thread, RateResolve(t)
        PROVE  \A c \in Conv : resolved[c] => resolved'[c]
    <3>1. PICK c \in Conv, ok \in BOOLEAN : RateResolve(t)!(c, ok)
      BY <2>2 DEF RateResolve
    <3> QED
      BY <2>1, <3>1, CarriedOutType
  <2>3. CASE ReaperResolve
    BY <2>1, <2>3 DEF ReaperResolve
  <2> QED
    BY <2>2, <2>3
    DEF Next, Start, Step, Reaper, HandleMessageCreated,
        HandleConversationUpdated, AskBegin, RateBegin, AskSave, AskPrompt,
        AskDeadline, RateRecord, RateUnlabel, RateAnswered, RateDone,
        ReaperClaim, ReaperComplete, ReaperClose, Expire, Environment, Crash,
        vars, chatwoot
<1> QED
  BY <1>2, <1>10, <1>11

\* A step that ends no survey and brings no one to the end of one.
LEMMA NoEnd ==
    ASSUME ResolvedInv, TypeOK', [Next]_vars,
           \A c \in Conv : state'[c] \in Ended => state'[c] = state[c],
           \A t \in Thread : pc'[t] = "rate.done" /\ live'[t] =>
               pc[t] = "rate.done" /\ live[t] /\ job'[t] = job[t],
           rpc' \in {"complete", "close"} =>
               rpc \in {"complete", "close"} /\ rconv' = rconv
    PROVE  EndedMeansResolved' /\ AboutToEnd'
<1> USE DEF ResolvedInv
<1>1. EndedMeansResolved'
  BY Grows DEF EndedMeansResolved, Ended
<1>2. ASSUME NEW t \in Thread, pc'[t] = "rate.done", live'[t]
      PROVE  resolved'[job'[t].conv] \/ used'["faults"] > 0
  <2>1. job[t].conv \in Conv /\ job'[t] = job[t]
    BY <1>2 DEF TypeOK, Job
  <2>2. resolved[job[t].conv] \/ used["faults"] > 0
    BY <1>2 DEF AboutToEnd
  <2> QED
    BY <2>1, <2>2, Grows
<1>3. ASSUME rpc' \in {"complete", "close"} PROVE resolved'[rconv']
  BY <1>3, Grows DEF AboutToEnd, TypeOK
<1> QED
  BY <1>1, <1>2, <1>3 DEF AboutToEnd

\* The thread of the answer resolves before it saves, or a call failed.
LEMMA AnswerEnds ==
    ASSUME ResolvedInv, TypeOK', NEW t \in Thread,
           RateResolve(t) \/ RateDone(t), [Next]_vars
    PROVE  EndedMeansResolved' /\ AboutToEnd'
<1> USE DEF ResolvedInv
<1>1. CASE RateResolve(t)
  <2>1. PICK c \in Conv, ok \in BOOLEAN : RateResolve(t)!(c, ok)
    BY <1>1 DEF RateResolve
  <2>2. live[t] => resolved'[c] \/ used'["faults"] > 0
    <3>1. CASE ok
      BY <2>1, <3>1 DEF CarriedOut, Resolve, TypeOK
    <3>2. CASE ~ok
      <4>1. Call(t, ok)
        BY <2>1
      <4>2. live[t] => used'["faults"] = used["faults"] + 1
        BY <3>2, <4>1, CallType DEF TypeOK
      <4> QED
        BY <4>2, Grows
    <3> QED
      BY <3>1, <3>2
  <2>3. state' = state /\ UNCHANGED reaper
    BY <2>1 DEF db
  <2>4. EndedMeansResolved'
    BY <2>3, Grows DEF EndedMeansResolved
  <2>5. ASSUME NEW u \in Thread, pc'[u] = "rate.done", live'[u]
        PROVE  resolved'[job'[u].conv] \/ used'["faults"] > 0
    <3>1. job' = job /\ live' = live
      BY <2>1 DEF Goto
    <3>2. CASE u = t
      BY <2>1, <2>2, <2>5, <3>1, <3>2 DEF At
    <3>3. CASE u # t
      <4>1. pc[u] = "rate.done" /\ job[u].conv \in Conv
        BY <2>1, <2>5, <3>3 DEF Goto, TypeOK, Job
      <4> QED
        BY <2>5, <3>1, <4>1, Grows DEF AboutToEnd
    <3> QED
      BY <3>2, <3>3
  <2>6. ASSUME rpc' \in {"complete", "close"} PROVE resolved'[rconv']
    BY <2>3, <2>6, Grows DEF AboutToEnd, TypeOK, reaper
  <2> QED
    BY <2>4, <2>5, <2>6 DEF AboutToEnd
<1>2. CASE RateDone(t)
  <2>1. PICK c \in Conv, ok \in BOOLEAN : RateDone(t)!(c, ok)
    BY <1>2 DEF RateDone
  <2>2. ok => resolved[c] \/ used["faults"] > 0
    BY <2>1, CallType DEF AboutToEnd, At, TypeOK
  <2>3. EndedMeansResolved'
    <3>1. CASE ok
      <4>1. state' = [state EXCEPT ![c] = "csat_done"]
        BY <2>1, <3>1 DEF SaveState
      <4> QED
        BY <2>2, <3>1, <4>1, Grows DEF EndedMeansResolved, TypeOK
    <3>2. CASE ~ok
      <4>1. state' = state
        BY <2>1, <3>2 DEF SaveState
      <4> QED
        BY <4>1, Grows DEF EndedMeansResolved
    <3> QED
      BY <3>1, <3>2
  <2>4. \A u \in Thread : pc'[u] = "rate.done" =>
            pc[u] = "rate.done" /\ job'[u] = job[u] /\ live'[u] = live[u]
    BY <2>1 DEF Finish, TypeOK
  <2>5. ASSUME NEW u \in Thread, pc'[u] = "rate.done", live'[u]
        PROVE  resolved'[job'[u].conv] \/ used'["faults"] > 0
    <3>1. job[u].conv \in Conv
      BY <2>4, <2>5 DEF TypeOK, Job
    <3> QED
      BY <2>4, <2>5, <3>1, Grows DEF AboutToEnd
  <2>6. ASSUME rpc' \in {"complete", "close"} PROVE resolved'[rconv']
    BY <2>1, <2>6, Grows DEF AboutToEnd, TypeOK, reaper
  <2> QED
    BY <2>3, <2>5, <2>6 DEF AboutToEnd
<1> QED
  BY <1>1, <1>2

\* The reaper closes a conversation only after Chatwoot agreed to resolve it.
LEMMA ReaperEnds ==
    ASSUME ResolvedInv, TypeOK', ReaperResolve \/ ReaperClose, [Next]_vars
    PROVE  EndedMeansResolved' /\ AboutToEnd'
<1> USE DEF ResolvedInv
<1>1. UNCHANGED workers
  BY DEF ReaperResolve, ReaperClose
<1>2. ASSUME NEW t \in Thread, pc'[t] = "rate.done", live'[t]
      PROVE  resolved'[job'[t].conv] \/ used'["faults"] > 0
  <2>1. pc[t] = "rate.done" /\ live[t] /\ job'[t] = job[t]
    BY <1>1, <1>2 DEF workers
  <2>2. job[t].conv \in Conv
    BY <2>1 DEF TypeOK, Job
  <2> QED
    BY <2>1, <2>2, Grows DEF AboutToEnd
<1>3. CASE ReaperResolve
  <2>1. PICK c \in batch, ok \in BOOLEAN :
          /\ Resolve(c, IF ok THEN {TRUE} ELSE BOOLEAN)
          /\ IF ok THEN rpc' = "complete" /\ rconv' = c
             ELSE LeaveClosing(c)
    BY <1>3 DEF ReaperResolve
  <2>2. rpc' \in {"complete", "close"} => resolved'[rconv']
    BY <2>1 DEF Resolve, LeaveClosing, NextInBatch, TypeOK
  <2>3. EndedMeansResolved'
    BY <1>3, Grows DEF ReaperResolve, db, EndedMeansResolved
  <2> QED
    BY <1>2, <2>2, <2>3 DEF AboutToEnd
<1>4. CASE ReaperClose
  <2>1. rpc' \notin {"complete", "close"}
    BY <1>4 DEF ReaperClose, NextInBatch
  <2>2. rconv \in Conv /\ resolved[rconv]
    BY <1>4 DEF ReaperClose, AboutToEnd, TypeOK
  <2>3. \A c \in Conv :
            \/ state'[c] = state[c]
            \/ c = rconv /\ state'[c] = "closed_timeout"
    BY <1>4 DEF ReaperClose, SaveState, TypeOK
  <2>4. EndedMeansResolved'
    BY <2>2, <2>3, Grows DEF EndedMeansResolved
  <2> QED
    BY <1>2, <2>1, <2>4 DEF AboutToEnd
<1> QED
  BY <1>3, <1>4

\* The other steps end no survey.
LEMMA OthersEndNothing ==
    ASSUME ResolvedInv, TypeOK', [Next]_vars,
           ~ReaperResolve, ~ReaperClose,
           \A t \in Thread : ~RateResolve(t) /\ ~RateDone(t)
    PROVE  EndedMeansResolved' /\ AboutToEnd'
<1> USE DEF ResolvedInv, TypeOK
<1>1. ASSUME NEW t \in Thread,
             \/ HandleMessageCreated(t) \/ HandleConversationUpdated(t)
             \/ Start(t) \/ Step(t)
      PROVE  /\ UNCHANGED reaper
             /\ \A u \in Thread : pc'[u] = "rate.done" =>
                  pc[u] = "rate.done" /\ live'[u] = live[u] /\ job'[u] = job[u]
  BY <1>1
  DEF Start, Step, HandleMessageCreated, HandleConversationUpdated, Dispatch,
      AskBegin, AskSave, AskPrompt, AskDeadline, RateBegin, RateRecord,
      RateUnlabel, RateAnswered, LockConv, Return, Finish, Goto
<1>2. ASSUME \/ ReaperClaim \/ ReaperComplete \/ Environment \/ Crash
             \/ UNCHANGED vars \/ \E c \in Conv : Expire(c)
      PROVE  /\ \A u \in Thread : pc'[u] = "rate.done" /\ live'[u] =>
                    pc[u] = "rate.done" /\ live[u] /\ job'[u] = job[u]
             /\ rpc' \in {"complete", "close"} =>
                    rpc \in {"complete", "close"} /\ rconv' = rconv
  <2>1. CASE UNCHANGED workers /\ UNCHANGED reaper
    BY <2>1 DEF workers, reaper
  <2>2. CASE Crash
    BY <2>2 DEF Crash, CrashEngine
  <2>3. CASE ReaperClaim \/ ReaperComplete
    BY <2>3 DEF ReaperClaim, ReaperComplete, workers
  <2>4. CASE Environment
    BY <2>4 DEF Environment, AgentLabels, CtxExpire, workers, reaper
  <2> QED
    BY <1>2, <2>1, <2>2, <2>3, <2>4 DEF Expire, vars
<1>3. \A c \in Conv : state'[c] \in Ended => state'[c] = state[c]
  <2>1. ASSUME NEW t \in Thread, AskSave(t)
        PROVE  \A c \in Conv : state'[c] \in Ended => state'[c] = state[c]
    BY <2>1 DEF AskSave, SaveState, Ended
  <2>2. CASE state' = state
    BY <2>2
  <2> QED
    BY <2>1, <2>2
    DEF Next, Start, Step, Reaper, HandleMessageCreated,
        HandleConversationUpdated, Dispatch, AskBegin, RateBegin, AskPrompt,
        AskDeadline, RateRecord, RateUnlabel, RateAnswered, ReaperClaim,
        ReaperComplete, Expire, Environment, AgentLabels, CtxExpire, Crash,
        CrashEngine, vars, db
<1>4. /\ \A u \in Thread : pc'[u] = "rate.done" /\ live'[u] =>
             pc[u] = "rate.done" /\ live[u] /\ job'[u] = job[u]
      /\ rpc' \in {"complete", "close"} =>
             rpc \in {"complete", "close"} /\ rconv' = rconv
  BY <1>1, <1>2 DEF Next, Reaper, reaper
<1> QED
  BY <1>3, <1>4, NoEnd

\* A survey is stored as over only after Chatwoot was told to resolve the
\* conversation: always when the reaper closes it, and after an answer unless
\* a call failed, through expired jobs and crashes.
THEOREM EndedResolved == Spec => []EndedMeansResolved
<1>1. Init => ResolvedInv
  BY InitType
  DEF Init, EngineInit, ResolvedInv, EndedMeansResolved, AboutToEnd, CsatState
<1>2. ResolvedInv /\ [Next]_vars => ResolvedInv'
  <2> SUFFICES ASSUME ResolvedInv, [Next]_vars PROVE ResolvedInv'
    OBVIOUS
  <2>1. TypeOK'
    BY WorkerType, OtherType DEF Next, ResolvedInv
  <2>2. EndedMeansResolved' /\ AboutToEnd'
    BY <2>1, AnswerEnds, ReaperEnds, OthersEndNothing
  <2> QED
    BY <2>1, <2>2 DEF ResolvedInv
<1>3. ResolvedInv => EndedMeansResolved
  BY DEF ResolvedInv
<1> QED
  BY <1>1, <1>2, <1>3, PTL DEF Spec

-----------------------------------------------------------------------------
(* A survey that is over stays over *)

\* Deadlines are stored only for surveys that have started.
StartedByDeadline ==
    used.faults = 0 =>
        \A c \in Conv : deadline[c] # "none" => state[c] \in CsatState

\* A thread about to start a survey found none; after that there is one.
Asking ==
    used.faults = 0 =>
        \A t \in Thread : live[t] =>
            /\ pc[t] = "ask.save" => state[job[t].conv] \notin CsatState
            /\ pc[t] \in {"ask.prompt", "ask.deadline"} =>
                   state[job[t].conv] \in CsatState

\* The reaper holds conversations with a deadline.
BatchHasDeadline == \A c \in batch : deadline[c] # "none"

FinalInv ==
    TypeOK /\ LockHeld /\ StartedByDeadline /\ Asking /\ BatchHasDeadline

\* What one step of a thread or of the reaper does to the state.
StateMoves ==
    \/ state' = state
    \/ \E t \in Thread, c \in Conv :
           /\ pc[t] = "ask.save" /\ live[t] /\ c = job[t].conv
           /\ state' = [state EXCEPT ![c] = "csat_pending"]
    \/ \E t \in Thread, c \in Conv :
           /\ pc[t] = "rate.done" /\ c = job[t].conv
           /\ state' = [state EXCEPT ![c] = "csat_done"]
    \/ /\ rpc = "close"
       /\ state' = [state EXCEPT ![rconv] = "closed_timeout"]

LEMMA StepMoves ==
    ASSUME TypeOK, [Next]_vars PROVE StateMoves
<1>1. ASSUME NEW t \in Thread, AskSave(t) PROVE StateMoves
  BY <1>1, CallType DEF AskSave, SaveState, StateMoves, At, TypeOK
<1>2. ASSUME NEW t \in Thread, RateDone(t) PROVE StateMoves
  BY <1>2 DEF RateDone, SaveState, StateMoves, At
<1>3. CASE ReaperClose
  BY <1>3 DEF ReaperClose, SaveState, StateMoves
<1>4. CASE state' = state
  BY <1>4 DEF StateMoves
<1> QED
  BY <1>1, <1>2, <1>3, <1>4
  DEF Next, Start, Step, Reaper, HandleMessageCreated,
      HandleConversationUpdated, Dispatch, AskBegin, RateBegin, AskPrompt,
      AskDeadline, RateRecord, RateUnlabel, RateAnswered, RateResolve,
      ReaperClaim, ReaperResolve, ReaperComplete, Expire, Environment,
      AgentLabels, CtxExpire, Crash, CrashEngine, vars, db

\* Once started a survey stays one, whatever becomes of it.
LEMMA SurveyStays ==
    ASSUME TypeOK, [Next]_vars
    PROVE  \A c \in Conv : state[c] \in CsatState => state'[c] \in CsatState
<1>1. StateMoves
  BY StepMoves
<1> QED
  BY <1>1 DEF StateMoves, TypeOK, CsatState

\* While nothing failed, a step that writes the row of a survey that is over
\* ends it again.
LEMMA FinalStep ==
    ASSUME FinalInv, [Next]_vars, used'["faults"] = 0, NEW c \in Conv,
           state[c] \in Ended
    PROVE  state'[c] \in Ended
<1> USE DEF FinalInv
<1>1. used["faults"] = 0
  BY Grows
<1>2. StateMoves
  BY StepMoves
<1>3. ASSUME NEW t \in Thread, pc[t] = "ask.save", live[t]
      PROVE  job[t].conv # c
  BY <1>1, <1>3 DEF Asking, Ended, CsatState
<1> QED
  BY <1>2, <1>3 DEF StateMoves, TypeOK, Ended

\* Only a claim adds to what the reaper holds.
LEMMA BatchMoves ==
    ASSUME [Next]_vars PROVE ReaperClaim \/ batch' \subseteq batch
<1>1. ASSUME ReaperResolve \/ ReaperClose PROVE batch' \subseteq batch
  BY <1>1 DEF ReaperResolve, ReaperClose, LeaveClosing, NextInBatch
<1>2. ASSUME NEW t \in Thread,
             \/ HandleMessageCreated(t) \/ HandleConversationUpdated(t)
             \/ Start(t) \/ Step(t)
      PROVE  batch' = batch
  BY <1>2
  DEF HandleMessageCreated, HandleConversationUpdated, Start, Step,
      AskBegin, RateBegin, AskSave, AskPrompt, AskDeadline, RateRecord,
      RateUnlabel, RateAnswered, RateResolve, RateDone, reaper
<1> QED
  BY <1>1, <1>2
  DEF Next, Reaper, ReaperComplete, Expire, Environment, Crash, vars, reaper

\* The reaper marks only rows there are.
LEMMA BatchStep ==
    ASSUME FinalInv, [Next]_vars PROVE BatchHasDeadline'
<1> USE DEF FinalInv, BatchHasDeadline, TypeOK
<1>1. \A c \in Conv : deadline[c] # "none" => deadline'[c] # "none"
  <2>1. ASSUME NEW t \in Thread, AskDeadline(t) \/ RateAnswered(t)
        PROVE  \A c \in Conv : deadline[c] # "none" => deadline'[c] # "none"
    BY <2>1 DEF AskDeadline, RateAnswered, MarkDeadlineAnswered
  <2>2. ASSUME NEW t \in Thread, RateBegin(t) PROVE deadline' = deadline
    BY <2>2 DEF RateBegin, KeepDeadline
  <2>3. CASE ReaperClaim
    BY <2>3 DEF ReaperClaim
  <2>4. CASE ReaperComplete
    BY <2>4 DEF ReaperComplete
  <2>5. CASE deadline' = deadline
    BY <2>5
  <2> QED
    BY <2>1, <2>2, <2>3, <2>4, <2>5
    DEF Next, Start, Step, Reaper, HandleMessageCreated,
        HandleConversationUpdated, AskBegin, AskSave, AskPrompt, RateRecord,
        RateUnlabel, RateResolve, RateDone, ReaperResolve, ReaperClose,
        Expire, Environment, Crash, vars, db
<1>2. CASE ReaperClaim
  <2>1. \A c \in batch' : c \in Conv /\ Expired(c)
    BY <1>2 DEF ReaperClaim
  <2> QED
    BY <1>1, <2>1 DEF Expired, Open
<1>3. CASE batch' \subseteq batch
  BY <1>1, <1>3
<1> QED
  BY <1>2, <1>3, BatchMoves

\* Only startCSAT stores a deadline where there was none.
LEMMA RowStored ==
    ASSUME TypeOK, BatchHasDeadline, [Next]_vars, NEW c \in Conv,
           deadline[c] = "none", deadline'[c] # "none"
    PROVE  \E t \in Thread : AskDeadline(t) /\ live[t] /\ job[t].conv = c
<1>1. PICK t \in Thread : AskDeadline(t)
  <2>1. ASSUME NEW t \in Thread, RateAnswered(t) \/ RateBegin(t)
        PROVE  deadline'[c] = "none"
    BY <2>1
    DEF RateAnswered, RateBegin, MarkDeadlineAnswered, KeepDeadline, TypeOK
  <2>2. ASSUME ReaperClaim PROVE deadline'[c] = "none"
    BY <2>2 DEF ReaperClaim, Expired, Open
  <2>3. ASSUME ReaperComplete PROVE deadline'[c] = "none"
    BY <2>3 DEF ReaperComplete, BatchHasDeadline, TypeOK
  <2> QED
    BY <2>1, <2>2, <2>3
    DEF Next, Start, Step, Reaper, HandleMessageCreated,
        HandleConversationUpdated, AskBegin, AskSave, AskPrompt,
        RateRecord, RateUnlabel, RateResolve, RateDone, ReaperResolve,
        ReaperClose, Expire, Environment, Crash, vars, db
<1> QED
  BY <1>1, CallType DEF AskDeadline, At, TypeOK

\* A deadline is stored by a thread that has stored the survey.
LEMMA StartedStep ==
    ASSUME FinalInv, [Next]_vars PROVE StartedByDeadline'
<1> USE DEF FinalInv
<1> SUFFICES ASSUME used'["faults"] = 0, NEW c \in Conv, deadline'[c] # "none"
             PROVE  state'[c] \in CsatState
  BY DEF StartedByDeadline
<1>1. used["faults"] = 0
  BY Grows
<1>2. CASE deadline[c] # "none"
  BY <1>1, <1>2, SurveyStays DEF StartedByDeadline
<1>3. CASE deadline[c] = "none"
  <2>2. PICK t \in Thread :
            AskDeadline(t) /\ live[t] /\ job[t].conv = c
    BY <1>3, RowStored
  <2>3. state[c] \in CsatState
    BY <1>1, <2>2 DEF Asking, AskDeadline, At
  <2> QED
    BY <2>3, SurveyStays
<1> QED
  BY <1>2, <1>3

\* How a live thread gets to a step of startCSAT, or stays there.
LEMMA AskMoves ==
    ASSUME TypeOK, [Next]_vars, NEW t \in Thread, live'[t],
           pc'[t] \in {"ask.save", "ask.prompt", "ask.deadline"}
    PROVE  \/ /\ live[t] /\ job'[t] = job[t]
              /\ \/ pc'[t] = pc[t]
                 \/ pc[t] = "ask.prompt" /\ pc'[t] = "ask.deadline"
           \/ AskBegin(t) /\ pc'[t] = "ask.save"
           \/ AskSave(t)
<1>1. ASSUME NEW u \in Thread,
             \/ HandleMessageCreated(u) \/ HandleConversationUpdated(u)
             \/ Start(u) \/ Step(u), u # t
      PROVE  live[t] /\ job'[t] = job[t] /\ pc'[t] = pc[t]
  BY <1>1
  DEF HandleMessageCreated, HandleConversationUpdated, Dispatch, Start, Step,
      AskBegin, AskSave, AskPrompt, AskDeadline, RateBegin, RateRecord,
      RateUnlabel, RateAnswered, RateResolve, RateDone, LockConv, Return,
      Finish, Goto, TypeOK
<1>2. CASE \/ HandleMessageCreated(t) \/ HandleConversationUpdated(t)
           \/ AskDeadline(t) \/ RateBegin(t) \/ RateRecord(t)
           \/ RateUnlabel(t) \/ RateAnswered(t) \/ RateResolve(t)
           \/ RateDone(t)
  <2>1. pc'[t] \notin {"ask.save", "ask.prompt", "ask.deadline"}
    BY <1>2
    DEF HandleMessageCreated, HandleConversationUpdated, Dispatch,
        AskDeadline, RateBegin, RateRecord, RateUnlabel, RateAnswered,
        RateResolve, RateDone, Return, Finish, Goto, TypeOK
  <2> QED
    BY <2>1
<1>3. CASE AskBegin(t)
  BY <1>3 DEF AskBegin, Return, Finish, TypeOK
<1>4. CASE AskPrompt(t)
  BY <1>4 DEF AskPrompt, At, Goto, TypeOK
<1>5. CASE \/ Reaper \/ Environment \/ Crash \/ UNCHANGED vars
           \/ \E c \in Conv : Expire(c)
  <2>1. \/ UNCHANGED <<pc, job>> /\ \A u \in Thread : live'[u] => live[u]
        \/ \A u \in Thread : pc'[u] = "idle"
    BY <1>5
    DEF Reaper, ReaperClaim, ReaperResolve, ReaperComplete, ReaperClose,
        Crash, CrashEngine, Environment, AgentLabels, CtxExpire, Expire,
        vars, workers, TypeOK
  <2> QED
    BY <2>1
<1> QED
  BY <1>1, <1>2, <1>3, <1>4, <1>5 DEF Next, Start, Step

\* The mutex of a conversation keeps the other writers of its row away from
\* the thread that starts its survey, the deadline keeps the reaper away.
LEMMA AskingStep ==
    ASSUME FinalInv, [Next]_vars PROVE Asking'
<1> USE DEF FinalInv
<1>1. ASSUME NEW t \in Thread, used'["faults"] = 0, live'[t],
             pc'[t] = "ask.save", pc[t] = "ask.save", job'[t] = job[t],
             live[t]
      PROVE  state'[job'[t].conv] \notin CsatState
  <2> DEFINE c == job[t].conv
  <2>1. c \in Conv /\ used["faults"] = 0
    BY <1>1, Grows DEF TypeOK, Job
  <2>2. state[c] \notin CsatState
    BY <1>1, <2>1 DEF Asking
  <2>3. ASSUME NEW u \in Thread, u # t, pc[u] \in Locked
        PROVE  job[u].conv # c
    BY <1>1, <2>3 DEF LockHeld, Locked, AskStep
  <2>4. ASSUME rpc = "close" PROVE rconv # c
    BY <2>1, <2>2, <2>4 DEF BatchHasDeadline, StartedByDeadline, TypeOK
  <2>5. ~ AskSave(t)
    BY <1>1 DEF AskSave, Goto, TypeOK
  <2>6. state'[c] = state[c]
    <3>1. ASSUME NEW u \in Thread, AskSave(u) \/ RateDone(u)
          PROVE  state'[c] = state[c]
      <4>1. u # t /\ pc[u] \in Locked
        BY <1>1, <2>5, <3>1
        DEF AskSave, RateDone, At, Locked, AskStep, RateStep
      <4> QED
        BY <2>1, <2>3, <3>1, <4>1 DEF AskSave, RateDone, SaveState, At, TypeOK
    <3>2. ASSUME ReaperClose PROVE state'[c] = state[c]
      BY <2>1, <2>4, <3>2 DEF ReaperClose, SaveState, TypeOK
    <3> QED
      BY <3>1, <3>2
      DEF Next, Start, Step, Reaper, HandleMessageCreated,
          HandleConversationUpdated, Dispatch, AskBegin, RateBegin,
          AskPrompt, AskDeadline, RateRecord, RateUnlabel, RateAnswered,
          RateResolve, ReaperClaim, ReaperResolve, ReaperComplete, Expire,
          Environment, AgentLabels, CtxExpire, Crash, CrashEngine, vars, db
  <2> QED
    BY <1>1, <2>2, <2>6
<1>2. ASSUME NEW t \in Thread, used'["faults"] = 0, live'[t],
             pc'[t] \in {"ask.prompt", "ask.deadline"},
             pc[t] \in {"ask.prompt", "ask.deadline"}, job'[t] = job[t],
             live[t]
      PROVE  state'[job'[t].conv] \in CsatState
  BY <1>2, Grows, SurveyStays DEF Asking, TypeOK, Job
<1>3. ASSUME NEW t \in Thread, used'["faults"] = 0, live'[t], AskBegin(t),
             pc'[t] = "ask.save"
      PROVE  state'[job'[t].conv] \notin CsatState
  <2>1. PICK c \in Conv, ok \in BOOLEAN : AskBegin(t)!(c, ok)
    BY <1>3 DEF AskBegin
  <2>2. ~ (ok /\ AlreadyStarted(state[c])) /\ UNCHANGED <<job, live>>
    BY <1>3, <2>1 DEF Return, Finish, TypeOK
  <2>3. ok
    BY <1>3, <2>1, <2>2, CallType, Grows DEF TypeOK
  <2> QED
    BY <2>1, <2>2, <2>3 DEF AlreadyStarted, db, At
<1>4. ASSUME NEW t \in Thread, used'["faults"] = 0, live'[t], AskSave(t)
      PROVE  /\ pc'[t] = "ask.prompt"
             /\ state'[job'[t].conv] \in CsatState
  <2>1. PICK c \in Conv, ok \in BOOLEAN : AskSave(t)!(c, ok)
    BY <1>4 DEF AskSave
  <2>2. ok
    BY <1>4, <2>1, CallType, Grows DEF TypeOK, Goto
  <2> QED
    BY <2>1, <2>2 DEF At, Goto, SaveState, CsatState, TypeOK
<1> QED
  BY <1>1, <1>2, <1>3, <1>4, AskMoves DEF Asking

LEMMA FinalInit == Init => FinalInv
BY InitType, InitPrompt
   DEF Init, EngineInit, FinalInv, PromptInv, StartedByDeadline, Asking,
       BatchHasDeadline

LEMMA FinalNext == FinalInv /\ [Next]_vars => FinalInv'
<1> SUFFICES ASSUME FinalInv, [Next]_vars PROVE FinalInv'
  OBVIOUS
<1>1. TypeOK'
  BY WorkerType, OtherType DEF Next, FinalInv
<1>2. LockHeld'
  BY <1>1, LockHeldWorker, LockHeldOther DEF Next, FinalInv
<1> QED
  BY <1>1, <1>2, BatchStep, StartedStep, AskingStep DEF FinalInv

\* Late and repeated webhooks, a second answer and the reaper never take a
\* survey back from its end; only a failed read can.
THEOREM OverForGood == Spec => EndedIsFinal
<1>1. FinalInv /\ [Next]_vars =>
          [used'.faults = 0 =>
              \A c \in Conv : state[c] \in Ended => state'[c] \in Ended]_vars
  BY FinalStep
<1> QED
  BY <1>1, FinalInit, FinalNext, PTL DEF Spec, EndedIsFinal

-----------------------------------------------------------------------------
(* The timeout is durable *)

\* How often something went wrong.
Failures == used.faults + used.expiries + used.crashes

\* A step spends from one bound at most.
SpendsOnce ==
    UNCHANGED used \/ \E r \in DOMAIN Bound : Spend(r)

LEMMA StepSpends == [Next]_vars => SpendsOnce
<1> SUFFICES ASSUME [Next]_vars PROVE SpendsOnce
  OBVIOUS
<1>1. /\ \A t \in Thread, ok \in BOOLEAN : Call(t, ok) => SpendsOnce
      /\ \A ok \in BOOLEAN : ReaperCall(ok) => SpendsOnce
  BY DEF Call, ReaperCall, SpendsOnce, Bound
<1>2. ASSUME NEW t \in Thread,
             \/ HandleMessageCreated(t) \/ HandleConversationUpdated(t)
             \/ Start(t) \/ Step(t)
      PROVE  SpendsOnce
  <2>1. CASE HandleMessageCreated(t) \/ HandleConversationUpdated(t)
    BY <2>1
    DEF HandleMessageCreated, HandleConversationUpdated, Dispatch, Bound,
        SpendsOnce
  <2>2. CASE AskPrompt(t)
    BY <2>2 DEF AskPrompt, SpendsOnce
  <2>3. CASE \E ok \in BOOLEAN : Call(t, ok)
    BY <1>1, <2>3
  <2> QED
    BY <1>2, <2>1, <2>2, <2>3
    DEF Start, Step, AskBegin, RateBegin, AskSave, AskDeadline, RateRecord,
        RateUnlabel, RateAnswered, RateResolve, RateDone
<1>3. CASE Reaper
  <2>1. \E ok \in BOOLEAN : ReaperCall(ok)
    BY <1>3
    DEF Reaper, ReaperClaim, ReaperResolve, ReaperComplete, ReaperClose
  <2> QED
    BY <1>1, <2>1
<1>4. CASE Environment \/ Crash
  BY <1>4
  DEF Environment, AgentLabels, CtxExpire, Crash, CrashEngine, SpendsOnce,
      Bound
<1> QED
  BY <1>2, <1>3, <1>4 DEF Next, Expire, vars, SpendsOnce

\* What went wrong is never taken back.
LEMMA FailuresGrow ==
    ASSUME TypeOK, [Next]_vars
    PROVE  /\ Failures \in Nat /\ Failures' \in Nat /\ Failures' >= Failures
           /\ \A r \in DOMAIN Bound :
                  used[r] \in Nat /\ used'[r] \in Nat /\ used'[r] >= used[r]
<1>1. SpendsOnce
  BY StepSpends
<1>2. \A r \in DOMAIN Bound :
          used[r] \in Nat /\ used'[r] \in Nat /\ used'[r] >= used[r]
  BY <1>1, SpendOne DEF SpendsOnce, TypeOK
<1> QED
  BY <1>2 DEF Failures, Bound

\* As long as no context expired every thread can still make its calls.
AllLive == used.expiries = 0 => \A t \in Thread : live[t]

LEMMA LiveStep ==
    ASSUME TypeOK, AllLive, [Next]_vars PROVE AllLive'
<1>1. CASE \E t \in Thread : CtxExpire(t)
  <2>1. used'["expiries"] = used["expiries"] + 1 /\ used["expiries"] \in Nat
    BY <1>1, SpendOne DEF CtxExpire, Bound, TypeOK
  <2> QED
    BY <2>1 DEF AllLive
<1>2. CASE ~ \E t \in Thread : CtxExpire(t)
  <2>1. ASSUME NEW t \in Thread,
               \/ HandleMessageCreated(t) \/ HandleConversationUpdated(t)
               \/ Start(t) \/ Step(t)
        PROVE  \A u \in Thread : live[u] => live'[u]
    BY <2>1
    DEF HandleMessageCreated, HandleConversationUpdated, Dispatch, Start, Step,
        AskBegin, AskSave, AskPrompt, AskDeadline, RateBegin, RateRecord,
        RateUnlabel, RateAnswered, RateResolve, RateDone, LockConv, Return,
        Finish, Goto, TypeOK
  <2>2. ASSUME ~ \E t \in Thread : \/ HandleMessageCreated(t)
                                   \/ HandleConversationUpdated(t)
                                   \/ Start(t) \/ Step(t)
        PROVE  \A u \in Thread : live[u] => live'[u]
    BY <1>2, <2>2
    DEF Next, Reaper, ReaperClaim, ReaperResolve, ReaperComplete, ReaperClose,
        Crash, CrashEngine, Environment, AgentLabels, Expire, vars, workers,
        TypeOK
  <2>3. used'["expiries"] = 0 => used["expiries"] = 0
    BY FailuresGrow DEF Bound
  <2> QED
    BY <2>1, <2>2, <2>3 DEF AllLive
<1> QED
  BY <1>1, <1>2

\* While nothing fails, nothing had failed before.
LEMMA SmoothBefore ==
    ASSUME TypeOK, [Next]_vars, Smooth'
    PROVE  /\ Smooth /\ Failures = 0 /\ Failures' = 0
           /\ \A r \in {"faults", "expiries", "crashes"} :
                  used[r] = 0 /\ used'[r] = 0
<1>1. \A r \in {"faults", "expiries", "crashes"} :
          used[r] \in Nat /\ used'[r] \in Nat /\ used'[r] >= used[r]
  BY FailuresGrow DEF Bound
<1> QED
  BY <1>1 DEF Smooth, Failures

\* While nothing fails a call returns without error.
LEMMA SmoothCall ==
    ASSUME TypeOK, AllLive, [Next]_vars, Smooth', NEW ok \in BOOLEAN
    PROVE  /\ \A t \in Thread : live[t] /\ (Call(t, ok) => ok)
           /\ ReaperCall(ok) => ok
<1>1. \A t \in Thread : live[t]
  BY SmoothBefore DEF AllLive
<1>2. ~ Spend("faults")
  BY SmoothBefore, SpendOne DEF Bound, TypeOK
<1> QED
  BY <1>1, <1>2 DEF Call, ReaperCall

\* The steps of a thread at which it closes, or opens, the survey it handles.
ClosingStep == {"ask.prompt", "ask.deadline", "rate.resolve", "rate.done"}

DurableInv == TypeOK /\ AllLive /\ DurableTimeout

\* A step that starts no survey, settles no deadline and stops no one who is
\* about to end or to open one.
LEMMA DurableFrame ==
    ASSUME DurableInv, Smooth,
           \A c \in Conv :
               state'[c] = "csat_pending" => state[c] = "csat_pending",
           \A c \in Conv : deadline[c] \in Open => deadline'[c] \in Open,
           \A t \in Thread : pc[t] \in ClosingStep =>
               pc'[t] \in ClosingStep /\ job'[t] = job[t],
           rpc = "close" => rpc' = "close" /\ rconv' = rconv
    PROVE  DurableTimeout'
<1>1. ASSUME NEW c \in Conv, Closing(c) PROVE Closing(c)'
  BY <1>1 DEF Closing, ClosingStep
<1>2. ASSUME NEW c \in Conv, state'[c] = "csat_pending"
      PROVE  deadline'[c] \in Open \/ Closing(c)'
  BY <1>1, <1>2 DEF DurableInv, DurableTimeout
<1> QED
  BY <1>2 DEF DurableTimeout

\* startCSAT is about to store the deadline as soon as the survey waits.
LEMMA DurableAsk ==
    ASSUME DurableInv, TypeOK', [Next]_vars, Smooth', NEW t \in Thread,
           AskSave(t) \/ AskDeadline(t)
    PROVE  DurableTimeout'
<1> USE DEF DurableInv
<1>1. PICK c \in Conv, ok \in BOOLEAN : \/ AskSave(t)!(c, ok)
                                        \/ AskDeadline(t)!(c, ok)
  BY DEF AskSave, AskDeadline
<1>2. Smooth /\ ok
  BY <1>1, SmoothBefore, SmoothCall
<1>3. /\ \A d \in Conv \ {c} : state'[d] = state[d] /\ deadline'[d] = deadline[d]
      /\ UNCHANGED <<rpc, rconv>>
  BY <1>1 DEF SaveState, reaper, TypeOK
<1>4. \A u \in Thread \ {t} : pc'[u] = pc[u] /\ job'[u] = job[u]
  BY <1>1 DEF Goto, Finish, TypeOK
<1>5. job[t].conv = c
  BY <1>1 DEF At
<1>6. ASSUME NEW d \in Conv, d # c, state'[d] = "csat_pending"
      PROVE  deadline'[d] \in Open \/ Closing(d)'
  <2>1. deadline[d] \in Open \/ Closing(d)
    BY <1>2, <1>3, <1>6 DEF DurableTimeout
  <2>2. Closing(d) => Closing(d)'
    BY <1>3, <1>4, <1>5, <1>6 DEF Closing
  <2> QED
    BY <1>3, <1>6, <2>1, <2>2
<1>7. deadline'[c] \in Open \/ Closing(c)'
  <2>1. CASE AskSave(t)!(c, ok)
    <3>1. pc'[t] = "ask.prompt" /\ job'[t].conv = c
      BY <1>5, <2>1 DEF Goto, TypeOK
    <3> QED
      BY <3>1 DEF Closing
  <2>2. CASE AskDeadline(t)!(c, ok)
    BY <1>2, <2>2 DEF Open, TypeOK
  <2> QED
    BY <1>1, <2>1, <2>2
<1> QED
  BY <1>6, <1>7 DEF DurableTimeout

\* handleCSATAnswer cancels the deadline only on its way to the end.
LEMMA DurableRate ==
    ASSUME DurableInv, TypeOK', [Next]_vars, Smooth', NEW t \in Thread,
           RateAnswered(t) \/ RateDone(t)
    PROVE  DurableTimeout'
<1> USE DEF DurableInv
<1>1. PICK c \in Conv, ok \in BOOLEAN : \/ RateAnswered(t)!(c, ok)
                                        \/ RateDone(t)!(c, ok)
  BY DEF RateAnswered, RateDone
<1>2. Smooth /\ ok
  BY <1>1, SmoothBefore, SmoothCall
<1>3. /\ \A d \in Conv \ {c} : state'[d] = state[d] /\ deadline'[d] = deadline[d]
      /\ UNCHANGED <<rpc, rconv>>
  BY <1>1 DEF SaveState, MarkDeadlineAnswered, reaper, TypeOK
<1>4. \A u \in Thread \ {t} : pc'[u] = pc[u] /\ job'[u] = job[u]
  BY <1>1 DEF Goto, Finish, TypeOK
<1>5. job[t].conv = c
  BY <1>1 DEF At
<1>6. ASSUME NEW d \in Conv, d # c, state'[d] = "csat_pending"
      PROVE  deadline'[d] \in Open \/ Closing(d)'
  <2>1. deadline[d] \in Open \/ Closing(d)
    BY <1>2, <1>3, <1>6 DEF DurableTimeout
  <2>2. Closing(d) => Closing(d)'
    BY <1>3, <1>4, <1>5, <1>6 DEF Closing
  <2> QED
    BY <1>3, <1>6, <2>1, <2>2
<1>7. state'[c] = "csat_pending" => Closing(c)'
  <2>1. CASE RateAnswered(t)!(c, ok)
    <3>1. pc'[t] = "rate.resolve" /\ job'[t].conv = c
      BY <1>5, <2>1 DEF Goto, TypeOK
    <3> QED
      BY <3>1 DEF Closing
  <2>2. CASE RateDone(t)!(c, ok)
    BY <1>2, <2>2 DEF SaveState, TypeOK
  <2> QED
    BY <1>1, <2>1, <2>2
<1> QED
  BY <1>6, <1>7 DEF DurableTimeout

\* The reaper completes a deadline only on its way to closing the survey.
LEMMA DurableReap ==
    ASSUME DurableInv, TypeOK', [Next]_vars, Smooth',
           ReaperComplete \/ ReaperClose
    PROVE  DurableTimeout'
<1> USE DEF DurableInv
<1>1. Smooth /\ rconv \in Conv
  BY SmoothBefore DEF ReaperComplete, ReaperClose, TypeOK
<1>2. UNCHANGED <<pc, job>>
  BY DEF ReaperComplete, ReaperClose, workers
<1>3. \A d \in Conv \ {rconv} :
          state'[d] = state[d] /\ deadline'[d] = deadline[d]
  BY DEF ReaperComplete, ReaperClose, SaveState, TypeOK
<1>4. rpc # "close" => rpc' = "close" /\ rconv' = rconv
  BY DEF ReaperComplete, ReaperClose
<1>5. rpc = "close" => state'[rconv] # "csat_pending"
  <2>1. ASSUME rpc = "close"
        PROVE  \E ok \in BOOLEAN : /\ ReaperCall(ok)
                                   /\ SaveState(rconv, "closed_timeout", ok)
    BY <2>1 DEF ReaperComplete, ReaperClose
  <2>2. ASSUME rpc = "close", SaveState(rconv, "closed_timeout", TRUE)
        PROVE  state'[rconv] = "closed_timeout"
    BY <1>1, <2>2 DEF SaveState, TypeOK
  <2>3. \A ok \in BOOLEAN : ReaperCall(ok) => ok
    BY SmoothCall
  <2> QED
    BY <2>1, <2>2, <2>3
<1>6. ASSUME NEW d \in Conv, state'[d] = "csat_pending"
      PROVE  deadline'[d] \in Open \/ Closing(d)'
  <2>1. CASE d = rconv
    BY <1>4, <1>5, <1>6, <2>1 DEF Closing
  <2>2. CASE d # rconv
    <3>1. deadline[d] \in Open \/ Closing(d)
      BY <1>1, <1>3, <1>6, <2>2 DEF DurableTimeout
    <3> QED
      BY <1>2, <1>3, <2>2, <3>1 DEF Closing
  <2> QED
    BY <2>1, <2>2
<1> QED
  BY <1>6 DEF DurableTimeout

\* The other steps leave the deadlines open and the surveys as they are.
LEMMA DurableOther ==
    ASSUME DurableInv, [Next]_vars, Smooth', Smooth,
           \A t \in Thread : /\ ~AskSave(t) /\ ~AskDeadline(t)
                             /\ ~RateAnswered(t) /\ ~RateDone(t),
           ~ReaperComplete, ~ReaperClose
    PROVE  DurableTimeout'
<1> USE DEF DurableInv, TypeOK
<1>1. ASSUME NEW t \in Thread,
             \/ HandleMessageCreated(t) \/ HandleConversationUpdated(t)
             \/ AskBegin(t) \/ RateBegin(t)
      PROVE  /\ UNCHANGED <<state, deadline, reaper>>
             /\ pc[t] \notin ClosingStep
             /\ \A u \in Thread \ {t} : pc'[u] = pc[u] /\ job'[u] = job[u]
  BY <1>1
  DEF HandleMessageCreated, HandleConversationUpdated, Dispatch, AskBegin,
      RateBegin, Return, Finish, KeepDeadline, At, db, ClosingStep
<1>2. ASSUME NEW t \in Thread,
             \/ AskPrompt(t) \/ RateRecord(t) \/ RateUnlabel(t)
             \/ RateResolve(t)
      PROVE  /\ UNCHANGED <<state, deadline, reaper, job>>
             /\ pc[t] \in ClosingStep => pc'[t] \in ClosingStep
             /\ \A u \in Thread \ {t} : pc'[u] = pc[u]
  BY <1>2
  DEF AskPrompt, RateRecord, RateUnlabel, RateResolve, Goto, At, db,
      ClosingStep
<1>3. ASSUME ReaperClaim \/ ReaperResolve
      PROVE  /\ UNCHANGED <<state, pc, job>> /\ rpc # "close"
             /\ \A c \in Conv : deadline[c] \in Open => deadline'[c] \in Open
  BY <1>3 DEF ReaperClaim, ReaperResolve, Open, workers, db
<1>4. ASSUME Environment \/ UNCHANGED vars \/ \E c \in Conv : Expire(c)
      PROVE  UNCHANGED <<state, deadline, reaper, pc, job>>
  BY <1>4
  DEF Environment, AgentLabels, CtxExpire, Expire, vars, db, workers
<1>5. ~Crash
  BY SmoothBefore, SpendOne DEF Crash, CrashEngine, Bound
<1> QED
  BY <1>1, <1>2, <1>3, <1>4, <1>5, DurableFrame
  DEF Next, Start, Step, Reaper, reaper

\* As long as nothing fails, a survey that waits for its rating is covered by
\* an open deadline, so that the reaper ends it if the customer does not, or
\* by a handler that is about to end it or to store the deadline.
THEOREM TimeoutIsDurable == Spec => []DurableTimeout
<1>1. Init => DurableInv
  BY InitType
  DEF Init, EngineInit, DurableInv, AllLive, DurableTimeout, CsatState
<1>2. DurableInv /\ [Next]_vars => DurableInv'
  <2> SUFFICES ASSUME DurableInv, [Next]_vars PROVE DurableInv'
    OBVIOUS
  <2>1. TypeOK'
    BY WorkerType, OtherType DEF Next, DurableInv
  <2>2. AllLive'
    BY LiveStep DEF DurableInv
  <2>3. CASE Smooth'
    <3>1. Smooth
      BY <2>3, SmoothBefore DEF DurableInv
    <3> QED
      BY <2>1, <2>2, <2>3, <3>1, DurableAsk, DurableRate, DurableReap,
         DurableOther
      DEF DurableInv
  <2>4. CASE ~Smooth'
    BY <2>1, <2>2, <2>4 DEF DurableInv, DurableTimeout
  <2> QED
    BY <2>3, <2>4
<1>3. DurableInv => DurableTimeout
  BY DEF DurableInv
<1> QED
  BY <1>1, <1>2, <1>3, PTL DEF Spec

-----------------------------------------------------------------------------
(* A rating is recorded once *)

AfterRecord == RateStep \ {"rate.record"}

\* A thread has recorded a rating of c and is on its way to end the survey.
Recorded(c) ==
    \E t \in Thread :
        pc[t] \in AfterRecord /\ live[t] /\ job[t].conv = c

\* Unless a rating is on its way to end the survey, the ratings of a survey
\* that has not started or waits for one are owed to something that failed.
RatingsExcused ==
    \A c \in Conv :
        /\ state[c] \notin CsatState => rated[c] <= Failures
        /\ state[c] = "csat_pending" => rated[c] <= Failures \/ Recorded(c)

\* So are those of a survey that a thread is about to start over, or to rate.
RaterExcused(t) ==
    LET c == job[t].conv
    IN  /\ pc[t] = "ask.save" /\ live[t] => rated[c] <= Failures
        /\ pc[t] = "rate.record" => rated[c] <= Failures
        /\ pc[t] \in RateStep => state[c] \in CsatState

RatingInv ==
    /\ TypeOK /\ LockHeld
    /\ \A c \in Conv : rated[c] <= 1 + Failures
    /\ RatingsExcused
    /\ \A t \in Thread : RaterExcused(t)

\* Two threads never hold the mutex of one conversation.
LEMMA OneHolder ==
    ASSUME TypeOK, LockHeld, NEW t \in Thread, NEW u \in Thread,
           pc[t] \in Locked, pc[u] \in Locked, job[t].conv = job[u].conv
    PROVE  t = u
BY DEF LockHeld

\* After a failure every rating so far is owed to one.
LEMMA RatingAfterFailure ==
    ASSUME RatingInv, TypeOK', LockHeld', [Next]_vars, Failures' > Failures,
           rated' = rated,
           \A t \in Thread : pc'[t] \in RateStep =>
               job'[t].conv \in Conv /\ state'[job'[t].conv] \in CsatState
    PROVE  RatingInv'
<1>1. /\ Failures \in Nat /\ Failures' \in Nat
      /\ \A c \in Conv : rated[c] \in Nat /\ rated[c] <= 1 + Failures
  BY FailuresGrow DEF RatingInv, TypeOK
<1>2. \A c \in Conv : rated'[c] <= Failures'
  BY <1>1
<1>3. \A c \in Conv : rated'[c] <= 1 + Failures'
  BY <1>1, <1>2
<1>4. RatingsExcused'
  BY <1>2 DEF RatingsExcused
<1>5. ASSUME NEW t \in Thread PROVE RaterExcused(t)'
  <2>1. pc'[t] = "ask.save" => job'[t].conv \in Conv
    BY DEF TypeOK, Job
  <2>2. pc'[t] = "rate.record" => job'[t].conv \in Conv
    BY DEF RateStep
  <2> QED
    BY <1>2, <2>1, <2>2 DEF RaterExcused
<1> QED
  BY <1>3, <1>4, <1>5 DEF RatingInv

\* A step that records no rating, starts no survey and takes no one away from
\* the end of one.
LEMMA RatingFrame ==
    ASSUME RatingInv, TypeOK', LockHeld', [Next]_vars, rated' = rated,
           \A c \in Conv :
               state'[c] = "csat_pending" => state[c] = "csat_pending",
           \A t \in Thread :
               /\ pc'[t] = "ask.save" /\ live'[t] =>
                      pc[t] = "ask.save" /\ live[t] /\ job'[t] = job[t]
               /\ pc'[t] = "rate.record" => pc[t] = "rate.record"
               /\ pc'[t] \in RateStep =>
                      pc[t] \in RateStep /\ job'[t] = job[t]
               /\ pc[t] \in AfterRecord /\ live[t] =>
                      /\ pc'[t] \in AfterRecord
                      /\ live'[t] /\ job'[t] = job[t]
    PROVE  RatingInv'
<1>1. /\ Failures \in Nat /\ Failures' \in Nat /\ Failures' >= Failures
      /\ \A c \in Conv : rated[c] \in Nat /\ rated[c] <= 1 + Failures
  BY FailuresGrow DEF RatingInv, TypeOK
<1>2. \A c \in Conv : rated'[c] <= 1 + Failures'
  BY <1>1
<1>3. \A c \in Conv : state[c] \in CsatState => state'[c] \in CsatState
  BY SurveyStays DEF RatingInv
<1>4. \A c \in Conv : Recorded(c) => Recorded(c)'
  BY DEF Recorded
<1>5. ASSUME NEW c \in Conv
      PROVE  /\ state'[c] \notin CsatState => rated'[c] <= Failures'
             /\ state'[c] = "csat_pending" =>
                    rated'[c] <= Failures' \/ Recorded(c)'
  <2>1. /\ state[c] \notin CsatState => rated[c] <= Failures
        /\ state[c] = "csat_pending" => rated[c] <= Failures \/ Recorded(c)
    BY DEF RatingInv, RatingsExcused
  <2> QED
    BY <1>1, <1>3, <1>4, <2>1
<1>6. ASSUME NEW t \in Thread PROVE RaterExcused(t)'
  <2>1. RaterExcused(t)
    BY DEF RatingInv
  <2>2. pc'[t] # "idle" => job'[t].conv \in Conv
    BY DEF TypeOK, Job
  <2>3. "ask.save" # "idle" /\ \A step \in RateStep : step # "idle"
    BY DEF RateStep
  <2> QED
    BY <1>1, <1>3, <2>1, <2>2, <2>3 DEF RaterExcused, RateStep
<1> QED
  BY <1>2, <1>5, <1>6 DEF RatingInv, RatingsExcused

\* A call that fails with a live context counts as a failure.
LEMMA CallFails ==
    ASSUME TypeOK, [Next]_vars,
           NEW t \in Thread, NEW ok \in BOOLEAN, Call(t, ok), live[t], ~ok
    PROVE  Failures' > Failures
<1>1. \A r \in {"faults", "expiries", "crashes"} :
          used[r] \in Nat /\ used'[r] \in Nat /\ used'[r] >= used[r]
  BY FailuresGrow DEF Bound
<1>2. used'["faults"] = used["faults"] + 1
  BY CallType DEF TypeOK
<1> QED
  BY <1>1, <1>2 DEF Failures

\* handleCSATAnswer takes a rating only while the survey waits for one, and
\* with the mutex nobody else is ending it.
LEMMA RateBeginRating ==
    ASSUME RatingInv, TypeOK', LockHeld', [Next]_vars,
           NEW t \in Thread, RateBegin(t)
    PROVE  RatingInv'
<1> USE DEF RatingInv
<1>1. PICK c \in Conv, ok \in BOOLEAN : RateBegin(t)!(c, ok)
  BY DEF RateBegin
<1>2. state' = state /\ rated' = rated
  BY <1>1 DEF history
<1>3. pc[t] = "rate.begin" /\ job[t].conv = c
  BY <1>1 DEF At
<1>4. CASE Finish(t)
  <2>1. \A u \in Thread : \/ pc'[u] = "idle" /\ u = t
                          \/ /\ pc'[u] = pc[u] /\ job'[u] = job[u]
                             /\ live'[u] = live[u] /\ u # t
    BY <1>4 DEF Finish, TypeOK
  <2> QED
    BY <1>2, <1>3, <2>1, RatingFrame DEF RateStep, AfterRecord
<1>5. CASE /\ ok /\ AwaitsRating(state[c]) /\ LockConv(t, c)
           /\ pc' = [pc EXCEPT ![t] = "rate.record"]
           /\ UNCHANGED <<deadline, job, live>>
  <2>1. /\ Failures \in Nat /\ Failures' \in Nat /\ Failures' >= Failures
        /\ \A d \in Conv : rated[d] \in Nat
    BY FailuresGrow DEF TypeOK
  <2>2. ~Recorded(c)
    BY <1>5, NoneAssumption
    DEF Recorded, AfterRecord, LockHeld, Locked, LockConv
  <2>3. rated[c] <= Failures /\ state[c] \in CsatState
    BY <1>5, <2>2 DEF RatingsExcused, AwaitsRating, CsatState
  <2>4. \A u \in Thread \ {t} : pc'[u] = pc[u]
    BY <1>5
  <2>5. pc'[t] = "rate.record"
    BY <1>5 DEF TypeOK
  <2>6. \A d \in Conv : Recorded(d) => Recorded(d)'
    BY <1>3, <1>5, <2>4 DEF Recorded, AfterRecord, RateStep
  <2>7. RatingsExcused'
    BY <1>2, <2>1, <2>6 DEF RatingsExcused
  <2>8. ASSUME NEW u \in Thread PROVE RaterExcused(u)'
    <3>1. CASE u = t
      BY <1>2, <1>3, <1>5, <2>1, <2>3, <2>5, <3>1 DEF RaterExcused
    <3>2. CASE u # t
      <4>1. RaterExcused(u)
        OBVIOUS
      <4>2. pc[u] \in RateStep \union {"ask.save"} => job[u].conv \in Conv
        BY DEF TypeOK, Job, RateStep
      <4> QED
        BY <1>2, <1>5, <2>1, <2>4, <3>2, <4>1, <4>2
        DEF RaterExcused, RateStep
    <3> QED
      BY <3>1, <3>2
  <2> QED
    BY <1>2, <2>1, <2>7, <2>8
<1> QED
  BY <1>1, <1>4, <1>5 DEF Return

\* Recording a rating uses up the excuse of one.
LEMMA RateRecordRating ==
    ASSUME RatingInv, TypeOK', LockHeld', [Next]_vars,
           NEW t \in Thread, RateRecord(t)
    PROVE  RatingInv'
<1> USE DEF RatingInv
<1>1. PICK c \in Conv, ok \in BOOLEAN : RateRecord(t)!(c, ok)
  BY DEF RateRecord
<1>2. /\ Failures \in Nat /\ Failures' \in Nat /\ Failures' >= Failures
      /\ \A d \in Conv : rated[d] \in Nat
  BY FailuresGrow DEF TypeOK
<1>3. /\ pc[t] = "rate.record" /\ job[t].conv = c
      /\ UNCHANGED <<state, job, live>>
      /\ pc'[t] = "rate.unlabel"
      /\ \A u \in Thread \ {t} : pc'[u] = pc[u]
  BY <1>1 DEF At, Goto, db, TypeOK
<1>4. rated[c] <= Failures /\ state[c] \in CsatState
  BY <1>3 DEF RaterExcused, RateStep
<1>5. /\ \A d \in Conv \ {c} : rated'[d] = rated[d]
      /\ \/ rated'[c] = rated[c]
         \/ live[t] /\ rated'[c] = rated[c] + 1
  <2>1. \A applied \in CarriedOut(t, ok) : applied => live[t]
    BY <1>1, CallType DEF CarriedOut, TypeOK
  <2> QED
    BY <1>1, <2>1 DEF TypeOK
<1>6. \A d \in Conv : rated'[d] <= 1 + Failures'
  BY <1>2, <1>4, <1>5
<1>7. live[t] => Recorded(c)'
  BY <1>3 DEF Recorded, AfterRecord, RateStep
<1>8. \A d \in Conv : Recorded(d) => Recorded(d)'
  BY <1>3 DEF Recorded, AfterRecord
<1>9. RatingsExcused'
  <2>1. ASSUME NEW d \in Conv
        PROVE  /\ state'[d] \notin CsatState => rated'[d] <= Failures'
               /\ state'[d] = "csat_pending" =>
                      rated'[d] <= Failures' \/ Recorded(d)'
    <3>1. CASE d = c
      BY <1>2, <1>3, <1>4, <1>5, <1>7, <3>1
    <3>2. CASE d # c
      BY <1>2, <1>3, <1>5, <1>8, <3>2 DEF RatingsExcused
    <3> QED
      BY <3>1, <3>2
  <2> QED
    BY <2>1 DEF RatingsExcused
<1>10. ASSUME NEW u \in Thread PROVE RaterExcused(u)'
  <2>1. CASE u = t
    BY <1>3, <1>4, <2>1 DEF RaterExcused, RateStep
  <2>2. CASE u # t /\ pc[u] \in RateStep \union {"ask.save"}
    <3>1. job[u].conv # c
      BY <1>3, <2>2, OneHolder DEF Locked, AskStep, RateStep
    <3>2. job[u].conv \in Conv
      BY <2>2 DEF TypeOK, Job, RateStep
    <3> QED
      BY <1>2, <1>3, <1>5, <2>2, <3>1, <3>2 DEF RaterExcused, RateStep
  <2>3. CASE u # t /\ pc[u] \notin RateStep \union {"ask.save"}
    BY <1>3, <2>3 DEF RaterExcused, RateStep
  <2> QED
    BY <2>1, <2>2, <2>3
<1> QED
  BY <1>6, <1>9, <1>10

\* startCSAT starts a survey over only when it failed to read that there is
\* one.
LEMMA AskBeginRating ==
    ASSUME RatingInv, TypeOK', LockHeld', [Next]_vars,
           NEW t \in Thread, AskBegin(t)
    PROVE  RatingInv'
<1> USE DEF RatingInv
<1>1. PICK c \in Conv, ok \in BOOLEAN : AskBegin(t)!(c, ok)
  BY DEF AskBegin
<1>2. state' = state /\ rated' = rated
  BY <1>1 DEF history, db
<1>3. pc[t] = "ask.begin" /\ job[t].conv = c
  BY <1>1 DEF At
<1>4. CASE Finish(t)
  <2>1. \A u \in Thread : \/ pc'[u] = "idle" /\ u = t
                          \/ /\ pc'[u] = pc[u] /\ job'[u] = job[u]
                             /\ live'[u] = live[u] /\ u # t
    BY <1>4 DEF Finish, TypeOK
  <2> QED
    BY <1>2, <1>3, <2>1, RatingFrame DEF RateStep, AfterRecord
<1>5. CASE /\ ~ (ok /\ AlreadyStarted(state[c]))
           /\ pc' = [pc EXCEPT ![t] = "ask.save"]
           /\ UNCHANGED <<job, live>>
  <2>1. /\ Failures \in Nat /\ Failures' \in Nat /\ Failures' >= Failures
        /\ \A d \in Conv : rated[d] \in Nat
    BY FailuresGrow DEF TypeOK
  <2>2. pc'[t] = "ask.save" /\ \A u \in Thread \ {t} : pc'[u] = pc[u]
    BY <1>5 DEF TypeOK
  <2>3. live[t] => rated[c] <= Failures'
    <3>1. CASE ok
      BY <1>5, <2>1, <3>1 DEF RatingsExcused, AlreadyStarted
    <3>2. CASE ~ok /\ live[t]
      <4>1. Failures' > Failures
        BY <1>1, <3>2, CallFails
      <4> QED
        BY <2>1, <4>1
    <3> QED
      BY <3>1, <3>2
  <2>4. \A d \in Conv : Recorded(d) => Recorded(d)'
    BY <1>3, <1>5, <2>2 DEF Recorded, AfterRecord, RateStep
  <2>5. RatingsExcused'
    BY <1>2, <2>1, <2>4 DEF RatingsExcused
  <2>6. ASSUME NEW u \in Thread PROVE RaterExcused(u)'
    <3>1. CASE u = t
      BY <1>2, <1>3, <1>5, <2>2, <2>3, <3>1 DEF RaterExcused, RateStep
    <3>2. CASE u # t
      <4>1. RaterExcused(u)
        OBVIOUS
      <4>2. pc[u] \in RateStep \union {"ask.save"} => job[u].conv \in Conv
        BY DEF TypeOK, Job, RateStep
      <4> QED
        BY <1>2, <1>5, <2>1, <2>2, <3>2, <4>1, <4>2
        DEF RaterExcused, RateStep
    <3> QED
      BY <3>1, <3>2
  <2> QED
    BY <1>2, <2>1, <2>5, <2>6
<1> QED
  BY <1>1, <1>4, <1>5 DEF Return

\* A survey starts over with the ratings it has so far excused.
LEMMA AskSaveRating ==
    ASSUME RatingInv, TypeOK', LockHeld', [Next]_vars,
           NEW t \in Thread, AskSave(t)
    PROVE  RatingInv'
<1> USE DEF RatingInv
<1>1. PICK c \in Conv, ok \in BOOLEAN : AskSave(t)!(c, ok)
  BY DEF AskSave
<1>2. /\ Failures \in Nat /\ Failures' \in Nat /\ Failures' >= Failures
      /\ \A d \in Conv : rated[d] \in Nat
  BY FailuresGrow DEF TypeOK
<1>3. /\ pc[t] = "ask.save" /\ job[t].conv = c
      /\ UNCHANGED <<rated, job, live>>
      /\ pc'[t] = "ask.prompt"
      /\ \A u \in Thread \ {t} : pc'[u] = pc[u]
  BY <1>1 DEF At, Goto, history, TypeOK
<1>4. live[t] => rated[c] <= Failures
  BY <1>3 DEF RaterExcused
<1>5. \A d \in Conv : state'[d] # state[d] => d = c /\ live[t]
  BY <1>1, CallType DEF SaveState, TypeOK
<1>6. \A d \in Conv : state[d] \in CsatState => state'[d] \in CsatState
  BY SurveyStays
<1>7. \A d \in Conv : Recorded(d) => Recorded(d)'
  BY <1>3 DEF Recorded, AfterRecord, RateStep
<1>8. RatingsExcused'
  BY <1>2, <1>3, <1>4, <1>5, <1>7 DEF RatingsExcused
<1>9. ASSUME NEW u \in Thread PROVE RaterExcused(u)'
  <2>1. RaterExcused(u)
    OBVIOUS
  <2>2. pc[u] \in RateStep \union {"ask.save"} => job[u].conv \in Conv
    BY DEF TypeOK, Job, RateStep
  <2> QED
    BY <1>2, <1>3, <1>6, <2>1, <2>2 DEF RaterExcused, RateStep
<1> QED
  BY <1>2, <1>3, <1>8, <1>9

\* The end of the survey is stored, or something failed.
LEMMA RateDoneRating ==
    ASSUME RatingInv, TypeOK', LockHeld', [Next]_vars,
           NEW t \in Thread, RateDone(t)
    PROVE  RatingInv'
<1> USE DEF RatingInv
<1>1. PICK c \in Conv, ok \in BOOLEAN : RateDone(t)!(c, ok)
  BY DEF RateDone
<1>2. /\ Failures \in Nat /\ Failures' \in Nat /\ Failures' >= Failures
      /\ \A d \in Conv : rated[d] \in Nat
  BY FailuresGrow DEF TypeOK
<1>3. /\ pc[t] = "rate.done" /\ job[t].conv = c /\ rated' = rated
      /\ pc'[t] = "idle"
      /\ \A u \in Thread \ {t} :
             pc'[u] = pc[u] /\ job'[u] = job[u] /\ live'[u] = live[u]
  BY <1>1 DEF At, Finish, history, TypeOK
<1>4. \A d \in Conv : state[d] \in CsatState => state'[d] \in CsatState
  BY SurveyStays
<1>5. \A u \in Thread : pc'[u] \in RateStep =>
          job'[u].conv \in Conv /\ state'[job'[u].conv] \in CsatState
  <2>1. \A u \in Thread : pc[u] \in RateStep =>
            job[u].conv \in Conv /\ state[job[u].conv] \in CsatState
    BY DEF RaterExcused, TypeOK, Job, RateStep
  <2> QED
    BY <1>3, <1>4, <2>1 DEF RateStep
<1>6. CASE Failures' > Failures
  BY <1>3, <1>5, <1>6, RatingAfterFailure
<1>7. CASE ~ (Failures' > Failures)
  <2>1. ok \/ ~live[t]
    BY <1>1, <1>7, CallFails
  <2>2. \A d \in Conv \ {c} : state'[d] = state[d]
    BY <1>1 DEF SaveState, TypeOK
  <2>3. \/ state'[c] = "csat_done"
        \/ state'[c] = state[c] /\ ~live[t]
    BY <1>1, <2>1 DEF SaveState, TypeOK
  <2>4. \A d \in Conv : Recorded(d) /\ (d # c \/ ~live[t]) => Recorded(d)'
    BY <1>3 DEF Recorded
  <2>5. RatingsExcused'
    <3>1. "csat_done" \in CsatState
      BY DEF CsatState
    <3> QED
      BY <1>2, <1>3, <2>2, <2>3, <2>4, <3>1 DEF RatingsExcused
  <2>6. ASSUME NEW u \in Thread PROVE RaterExcused(u)'
    <3>1. CASE u = t
      BY <1>3, <3>1 DEF RaterExcused, RateStep
    <3>2. CASE u # t
      <4>1. RaterExcused(u)
        OBVIOUS
      <4>2. pc[u] \in RateStep \union {"ask.save"} => job[u].conv \in Conv
        BY DEF TypeOK, Job, RateStep
      <4> QED
        BY <1>2, <1>3, <1>4, <3>2, <4>1, <4>2 DEF RaterExcused, RateStep
    <3> QED
      BY <3>1, <3>2
  <2> QED
    BY <1>2, <1>3, <2>5, <2>6
<1> QED
  BY <1>6, <1>7

\* The other steps of a thread record nothing and end no survey.
LEMMA OtherWorkerRating ==
    ASSUME RatingInv, TypeOK', LockHeld', [Next]_vars, NEW t \in Thread,
           \/ HandleMessageCreated(t) \/ HandleConversationUpdated(t)
           \/ AskPrompt(t) \/ AskDeadline(t) \/ RateUnlabel(t)
           \/ RateAnswered(t) \/ RateResolve(t)
    PROVE  RatingInv'
<1> USE DEF RatingInv, TypeOK
<1>1. UNCHANGED <<state, rated>>
  BY DEF HandleMessageCreated, HandleConversationUpdated, Dispatch, AskPrompt,
         AskDeadline, RateUnlabel, RateAnswered, RateResolve, db, history
<1>2. \A u \in Thread \ {t} :
          pc'[u] = pc[u] /\ job'[u] = job[u] /\ live'[u] = live[u]
  BY DEF HandleMessageCreated, HandleConversationUpdated, Dispatch, AskPrompt,
         AskDeadline, RateUnlabel, RateAnswered, RateResolve, Goto, Finish
<1>3. CASE \/ HandleMessageCreated(t) \/ HandleConversationUpdated(t)
           \/ AskPrompt(t) \/ AskDeadline(t)
  <2>1. /\ pc[t] \notin RateStep
        /\ pc'[t] \in {"idle", "ask.begin", "rate.begin", "ask.deadline"}
    BY <1>3
    DEF HandleMessageCreated, HandleConversationUpdated, Dispatch, AskPrompt,
        AskDeadline, Goto, Finish, At, RateStep
  <2> QED
    BY <1>1, <1>2, <2>1, RatingFrame DEF AfterRecord, RateStep
<1>4. CASE RateUnlabel(t) \/ RateAnswered(t) \/ RateResolve(t)
  <2>1. /\ pc[t] \in AfterRecord /\ pc'[t] \in AfterRecord
        /\ UNCHANGED <<job, live>>
    BY <1>4
    DEF RateUnlabel, RateAnswered, RateResolve, Goto, At, RateStep,
        AfterRecord
  <2> QED
    BY <1>1, <1>2, <2>1, RatingFrame DEF AfterRecord, RateStep
<1> QED
  BY <1>3, <1>4

\* The reaper and the environment record nothing; an expired job or a crash
\* on the way to the end of a survey excuses the next rating.
LEMMA OtherRating ==
    ASSUME RatingInv, TypeOK', LockHeld', [Next]_vars,
           \/ Reaper \/ Environment \/ Crash \/ UNCHANGED vars
           \/ \E c \in Conv : Expire(c)
    PROVE  RatingInv'
<1> USE DEF RatingInv, TypeOK
<1>1. rated' = rated
  BY DEF Reaper, ReaperClaim, ReaperResolve, ReaperComplete, ReaperClose,
         Environment, Crash, Expire, vars, history
<1>2. \A c \in Conv :
          state'[c] = "csat_pending" => state[c] = "csat_pending"
  BY DEF Reaper, ReaperClaim, ReaperResolve, ReaperComplete, ReaperClose,
         SaveState, Environment, AgentLabels, CtxExpire, Crash, CrashEngine,
         Expire, vars, db
<1>3. CASE UNCHANGED <<pc, job, live>>
  BY <1>1, <1>2, <1>3, RatingFrame DEF AfterRecord
<1>4. CASE (\E t \in Thread : CtxExpire(t)) \/ Crash
  <2>1. Failures' > Failures
    <3>1. \A r \in {"faults", "expiries", "crashes"} :
              used[r] \in Nat /\ used'[r] \in Nat /\ used'[r] >= used[r]
      BY FailuresGrow DEF Bound
    <3>2. PICK r \in {"expiries", "crashes"} : Spend(r)
      BY <1>4 DEF CtxExpire, Crash, CrashEngine
    <3>3. used'[r] = used[r] + 1
      BY <3>2, SpendOne DEF Bound
    <3> HIDE DEF RatingInv, TypeOK
    <3>4. CASE r = "expiries"
      BY <3>1, <3>3, <3>4 DEF Failures
    <3>5. CASE r = "crashes"
      BY <3>1, <3>3, <3>5 DEF Failures
    <3> QED
      BY <3>4, <3>5
  <2>2. \A u \in Thread : pc'[u] \in RateStep =>
            pc[u] \in RateStep /\ job'[u] = job[u]
    BY <1>4 DEF CtxExpire, Crash, CrashEngine, RateStep
  <2>3. \A u \in Thread : pc'[u] \in RateStep =>
            job'[u].conv \in Conv /\ state'[job'[u].conv] \in CsatState
    BY <2>2, SurveyStays DEF RaterExcused, Job, RateStep
  <2> QED
    BY <1>1, <2>1, <2>3, RatingAfterFailure
<1> QED
  BY <1>3, <1>4
  DEF Reaper, ReaperClaim, ReaperResolve, ReaperComplete, ReaperClose,
      Environment, AgentLabels, Expire, vars, workers

\* A customer's rating is recorded once: repeated answers, answers in
\* parallel and the reaper never let a second one in, and each further one
\* takes a call that failed, a job that expired or a crash between recording
\* the rating and storing the end of the survey.
THEOREM RatedOnce == Spec => []OneRating
<1>1. Init => RatingInv
  <2> SUFFICES ASSUME Init PROVE RatingInv
    OBVIOUS
  <2>1. TypeOK /\ LockHeld
    BY InitType, InitPrompt DEF PromptInv
  <2>2. /\ Failures = 0 /\ \A c \in Conv : rated[c] = 0
        /\ \A c \in Conv : state[c] \notin CsatState
        /\ \A t \in Thread : pc[t] = "idle"
    BY DEF Init, EngineInit, Failures, Bound
  <2> QED
    BY <2>1, <2>2
    DEF RatingInv, RatingsExcused, RaterExcused, RateStep, CsatState
<1>2. RatingInv /\ [Next]_vars => RatingInv'
  <2> SUFFICES ASSUME RatingInv, [Next]_vars PROVE RatingInv'
    OBVIOUS
  <2>1. TypeOK'
    BY WorkerType, OtherType DEF Next, RatingInv
  <2>2. LockHeld'
    BY <2>1, LockHeldWorker, LockHeldOther DEF Next, RatingInv
  <2> QED
    BY <2>1, <2>2, RateBeginRating, RateRecordRating, AskBeginRating,
       AskSaveRating, RateDoneRating, OtherWorkerRating, OtherRating
    DEF Next, Start, Step
<1>3. RatingInv => OneRating
  <2> SUFFICES ASSUME RatingInv PROVE OneRating
    OBVIOUS
  <2>1. /\ used["faults"] \in Nat /\ used["expiries"] \in Nat
        /\ used["crashes"] \in Nat /\ \A c \in Conv : rated[c] \in Nat
    BY DEF RatingInv, TypeOK, Bound
  <2> QED
    BY <2>1 DEF RatingInv, OneRating, Failures
<1> QED
  BY <1>1, <1>2, <1>3, PTL DEF Spec
=============================================================================
