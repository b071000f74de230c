---------------------------- MODULE TriageProofs ----------------------------
(* Theorems about Triage, proved with TLAPS for every value of its constants. *)
EXTENDS Triage, EngineProofs

ThreadStep == TriageStep \union {"idle", "begin", "transcribe"}

-----------------------------------------------------------------------------
(* Type correctness *)

\* The initial states are well typed.
LEMMA InitType == Init => TypeOK
<1> SUFFICES ASSUME Init PROVE TypeOK
  OBVIOUS
<1>1. labels \in [Conv -> LabelSet]
  BY LabelAssumption DEF Init, LabelSet
<1>2. past \in [Conv -> SUBSET (LabelSet \X LabelSet)]
  BY <1>1 DEF Init, EngineInit
<1>3. lock \in [0 .. ConvLockStripes - 1 -> Thread \union {None}]
  BY DEF Init, EngineInit
<1>4. used \in [DOMAIN Bound -> Nat]
  BY DEF Init, EngineInit, Bound
<1> QED
  BY <1>1, <1>2, <1>3, <1>4 DEF Init, EngineInit, TypeOK, State, TriageStep

\* A new job is well typed.
LEMMA NewJobType ==
    ASSUME NEW c \in Conv, NEW ls \in LabelSet, NEW n \in Nat
    PROVE  NewJob(c, ls, n) \in Job
BY DEF NewJob, Job

\* The deferred unlock leaves the thread idle.
LEMMA FinishType ==
    ASSUME TypeOK, NEW t \in Thread, Finish(t)
    PROVE  /\ lock' \in [0 .. ConvLockStripes - 1 -> Thread \union {None}]
           /\ pc' \in [Thread -> ThreadStep]
           /\ job' \in [Thread -> Job \union {None}]
           /\ \A u \in Thread : pc'[u] # "idle" => job'[u] \in Job
           /\ \A u \in Thread :
                  pc'[u] = "route.labels" => job'[u].label \in Queues
           /\ live' \in [Thread -> BOOLEAN]
BY DEF TypeOK, Finish, ThreadStep

\* Going to another step keeps the job.
LEMMA GotoType ==
    ASSUME TypeOK, NEW t \in Thread, pc[t] # "idle",
           NEW step \in ThreadStep \ {"route.labels"}, Goto(t, step)
    PROVE  /\ lock' \in [0 .. ConvLockStripes - 1 -> Thread \union {None}]
           /\ pc' \in [Thread -> ThreadStep]
           /\ job' \in [Thread -> Job \union {None}]
           /\ \A u \in Thread : pc'[u] # "idle" => job'[u] \in Job
           /\ \A u \in Thread :
                  pc'[u] = "route.labels" => job'[u].label \in Queues
           /\ live' \in [Thread -> BOOLEAN]
BY DEF TypeOK, Goto, ThreadStep

\* So does giving the thread a job that fits the step it goes to.
LEMMA NewStepType ==
    ASSUME TypeOK, NEW t \in Thread, NEW j \in Job, NEW step \in ThreadStep,
           step = "route.labels" => j.label \in Queues,
           job' = [job EXCEPT ![t] = j],
           pc' = [pc EXCEPT ![t] = step]
    PROVE  /\ pc' \in [Thread -> ThreadStep]
           /\ job' \in [Thread -> Job \union {None}]
           /\ \A u \in Thread : pc'[u] # "idle" => job'[u] \in Job
           /\ \A u \in Thread :
                  pc'[u] = "route.labels" => job'[u].label \in Queues
BY DEF TypeOK, ThreadStep

\* Taking a mutex keeps the array of mutexes.
LEMMA LockType ==
    ASSUME TypeOK, NEW t \in Thread, NEW c \in Conv, LockConv(t, c)
    PROVE  lock' \in [0 .. ConvLockStripes - 1 -> Thread \union {None}]
BY StripeInRange DEF TypeOK, LockConv

\* Replacing the labels records a well-formed event.
LEMMA SetLabelsType ==
    ASSUME TypeOK, NEW c \in Conv, NEW new \in LabelSet, SetLabels(c, new)
    PROVE  /\ labels' \in [Conv -> LabelSet]
           /\ past' \in [Conv -> SUBSET (LabelSet \X LabelSet)]
<1>1. <<labels[c], new>> \in LabelSet \X LabelSet
  BY DEF TypeOK
<1> QED
  BY <1>1 DEF TypeOK, SetLabels

\* So does a handler's call to SetLabels, whatever comes of it.
LEMMA PostLabelsType ==
    ASSUME TypeOK, NEW t, NEW ok, NEW c \in Conv, NEW new \in LabelSet,
           PostLabels(t, c, new, ok)
    PROVE  /\ labels' \in [Conv -> LabelSet]
           /\ past' \in [Conv -> SUBSET (LabelSet \X LabelSet)]
<1>1. CASE SetLabels(c, new)
  BY <1>1, SetLabelsType
<1>2. CASE UNCHANGED <<labels, past>>
  BY <1>2 DEF TypeOK
<1> QED
  BY <1>1, <1>2 DEF PostLabels

\* saveState stores a state and turns, or leaves the row as it was.
LEMMA SaveRowType ==
    ASSUME TypeOK, NEW c \in Conv, NEW s \in State, NEW ts \in Seq(Nat),
           NEW ok \in BOOLEAN, SaveRow(c, s, ts, ok)
    PROVE  state' \in [Conv -> State] /\ turns' \in [Conv -> Seq(Nat)]
BY DEF TypeOK, SaveRow, SaveState

\* The label a conversation is routed to is a queue's.
LEMMA SectorLabelType ==
    \A sector : SectorLabel(sector) \in Queues /\ SectorLabel(sector) \in Label
BY SectorAssumption DEF SectorLabel, Queues

\* Every event keeps the types.
LEMMA EventType ==
    ASSUME TypeOK, NEW t \in Thread,
           \/ HandleMessageCreated(t) \/ HandleAudio(t)
           \/ HandleConversationUpdated(t)
    PROVE  TypeOK'
<1>1. ASSUME NEW j \in Job, NEW step \in {"begin", "transcribe"},
             Dispatch(t, step, j)
      PROVE  /\ pc' \in [Thread -> ThreadStep]
             /\ job' \in [Thread -> Job \union {None}]
             /\ \A u \in Thread : pc'[u] # "idle" => job'[u] \in Job
             /\ \A u \in Thread :
                    pc'[u] = "route.labels" => job'[u].label \in Queues
             /\ used' \in [DOMAIN Bound -> Nat]
             /\ UNCHANGED <<state, lock, live, labels, past>>
  <2>1. used' \in [DOMAIN Bound -> Nat]
    BY <1>1, SpendType DEF Dispatch, TypeOK, Bound
  <2> QED
    BY <1>1, <2>1, NewStepType DEF Dispatch, ThreadStep
<1>2. CASE HandleMessageCreated(t)
  <2>1. PICK c \in Conv, ls \in LabelSet :
            HandleMessageCreated(t)!(c, ls)
    BY <1>2 DEF HandleMessageCreated
  <2>2. told[c] + 1 \in Nat
    BY DEF TypeOK
  <2>3. told' \in [Conv -> Nat]
    BY <2>1, <2>2 DEF TypeOK
  <2> QED
    BY <1>1, <2>1, <2>2, <2>3, NewJobType DEF TypeOK, ThreadStep
<1>3. CASE HandleAudio(t)
  <2>1. PICK c \in Conv, ls \in LabelSet : HandleAudio(t)!(c, ls)
    BY <1>3 DEF HandleAudio
  <2> QED
    BY <1>1, <2>1, NewJobType DEF TypeOK, ThreadStep, Proactive, history
<1>4. CASE HandleConversationUpdated(t)
  <2>1. PICK c \in Conv, ls \in LabelSet :
            HandleConversationUpdated(t)!(c, ls)
    BY <1>4 DEF HandleConversationUpdated
  <2> QED
    BY <1>1, <2>1, NewJobType DEF TypeOK, ThreadStep, Proactive, history
<1> QED
  BY <1>2, <1>3, <1>4

\* Every step of a job keeps the types.
LEMMA StepType ==
    ASSUME TypeOK, NEW t \in Thread, Begin(t) \/ Step(t)
    PROVE  TypeOK'
<1>1. CASE Begin(t)
  <2>1. PICK c \in Conv, ok \in BOOLEAN : Begin(t)!(c, ok)
    BY <1>1 DEF Begin
  <2>2. used' \in [DOMAIN Bound -> Nat]
    BY <2>1, CallType DEF TypeOK
  <2>3. CASE Finish(t)
    BY <2>1, <2>2, <2>3, FinishType DEF TypeOK, ThreadStep, history
  <2>4. CASE ~Finish(t)
    <3>1. job[t] \in Job
      BY <2>1 DEF At, TypeOK
    <3> DEFINE td == IF ok THEN LoadTriage(turns[c]) ELSE <<>>
               ts == IF job[t].customer = Proactive THEN td
                     ELSE Append(td, job[t].customer)
    <3>2. td \in Seq(Nat) /\ job[t].customer \in Nat
      BY <3>1 DEF LoadTriage, TypeOK, Job
    <3>3. ts \in Seq(Nat)
      BY <3>2
    <3>4. /\ LockConv(t, c)
          /\ pc' = [pc EXCEPT ![t] = "classify"]
          /\ job' = [job EXCEPT ![t].turns = ts]
          /\ UNCHANGED live
      BY <2>1, <2>4 DEF Return
    <3> HIDE DEF td, ts
    <3>5. [job[t] EXCEPT !.turns = ts] \in Job
      BY <3>1, <3>3 DEF Job
    <3>6. job' = [job EXCEPT ![t] = [job[t] EXCEPT !.turns = ts]]
      BY <3>4 DEF TypeOK
    <3>7. /\ pc' \in [Thread -> ThreadStep]
          /\ job' \in [Thread -> Job \union {None}]
          /\ \A u \in Thread : pc'[u] # "idle" => job'[u] \in Job
          /\ \A u \in Thread :
                 pc'[u] = "route.labels" => job'[u].label \in Queues
      BY <3>4, <3>5, <3>6, NewStepType DEF ThreadStep, TriageStep
    <3> QED
      BY <2>1, <2>2, <3>4, <3>7, LockType DEF TypeOK, ThreadStep, history
  <2> QED
    BY <2>3, <2>4
<1>2. CASE Transcribe(t)
  <2>1. PICK c \in Conv, ok \in BOOLEAN : Transcribe(t)!(c, ok)
    BY <1>2 DEF Transcribe
  <2>2. CASE ok
    <3>1. job[t] \in Job /\ told[c] + 1 \in Nat
      BY <2>1 DEF At, TypeOK
    <3>2. [job[t] EXCEPT !.customer = told[c] + 1] \in Job
      BY <3>1 DEF Job
    <3>3. job' = [job EXCEPT ![t] =
                     [job[t] EXCEPT !.customer = told[c] + 1]]
      BY <2>1, <2>2 DEF TypeOK
    <3>4. /\ pc' \in [Thread -> ThreadStep]
          /\ job' \in [Thread -> Job \union {None}]
          /\ \A u \in Thread : pc'[u] # "idle" => job'[u] \in Job
          /\ \A u \in Thread :
                 pc'[u] = "route.labels" => job'[u].label \in Queues
      BY <2>1, <2>2, <3>2, <3>3, NewStepType DEF ThreadStep
    <3>5. told' \in [Conv -> Nat]
      BY <2>1, <2>2, <3>1 DEF TypeOK
    <3> QED
      BY <2>1, <2>2, <3>4, <3>5 DEF TypeOK, ThreadStep
  <2>3. CASE ~ok
    BY <2>1, <2>3, FinishType DEF TypeOK, ThreadStep
  <2> QED
    BY <2>2, <2>3
<1>3. CASE ClassifyFails(t)
  <2>1. PICK c \in Conv : ClassifyFails(t)!(c)
    BY <1>3 DEF ClassifyFails
  <2>2. deaf' \in [Conv -> Nat]
    BY <2>1 DEF TypeOK
  <2>3. pc[t] # "idle" /\ "save" \in ThreadStep \ {"route.labels"}
    BY <2>1 DEF At, ThreadStep, TriageStep
  <2> QED
    BY <2>1, <2>2, <2>3, GotoType DEF TypeOK, ThreadStep
<1>4. CASE ClassifyReply(t)
  <2>1. pc[t] # "idle" /\ "reply" \in ThreadStep \ {"route.labels"}
    BY <1>4 DEF ClassifyReply, ThreadStep, TriageStep
  <2> QED
    BY <1>4, <2>1, GotoType DEF ClassifyReply, TypeOK, ThreadStep, history
<1>5. CASE ClassifyRoute(t)
  <2>1. PICK sector \in Sectors \union {None} :
            job' = [job EXCEPT ![t].label = SectorLabel(sector)]
    BY <1>5 DEF ClassifyRoute
  <2>2. job[t] \in Job
    BY <1>5 DEF ClassifyRoute, TypeOK
  <2>3. [job[t] EXCEPT !.label = SectorLabel(sector)] \in Job
    BY <2>2, SectorLabelType DEF Job
  <2>4. job' = [job EXCEPT ![t] =
            [job[t] EXCEPT !.label = SectorLabel(sector)]]
    BY <2>1 DEF TypeOK
  <2>5. [job[t] EXCEPT !.label = SectorLabel(sector)].label
            \in Queues
    BY <2>2, SectorLabelType DEF Job
  <2>6. /\ pc' \in [Thread -> ThreadStep]
        /\ job' \in [Thread -> Job \union {None}]
        /\ \A u \in Thread : pc'[u] # "idle" => job'[u] \in Job
        /\ \A u \in Thread :
               pc'[u] = "route.labels" => job'[u].label \in Queues
    BY <1>5, <2>3, <2>4, <2>5, NewStepType
    DEF ClassifyRoute, ThreadStep, TriageStep
  <2> QED
    BY <1>5, <2>6 DEF ClassifyRoute, TypeOK, ThreadStep, history
<1>6. CASE Reply(t)
  <2>1. PICK c \in Conv : Reply(t)!(c)
    BY <1>6 DEF Reply
  <2>2. job[t] \in Job
    BY <2>1 DEF At, TypeOK
  <2>3. Append(job[t].turns, BotTurn) \in Seq(Nat)
    BY <2>2 DEF Job, BotTurn
  <2>4. [job[t] EXCEPT !.turns = Append(job[t].turns, BotTurn)] \in Job
    BY <2>2, <2>3 DEF Job
  <2>5. job' = [job EXCEPT ![t] =
                   [job[t] EXCEPT !.turns = Append(job[t].turns, BotTurn)]]
    BY <2>1 DEF TypeOK
  <2>6. /\ pc' \in [Thread -> ThreadStep]
        /\ job' \in [Thread -> Job \union {None}]
        /\ \A u \in Thread : pc'[u] # "idle" => job'[u] \in Job
        /\ \A u \in Thread :
               pc'[u] = "route.labels" => job'[u].label \in Queues
    BY <2>1, <2>4, <2>5, NewStepType DEF ThreadStep, TriageStep
  <2>7. opened' \in [Conv -> Nat]
    BY <2>1 DEF TypeOK
  <2> QED
    BY <2>1, <2>6, <2>7 DEF TypeOK, ThreadStep
<1>7. CASE Save(t)
  <2>1. PICK c \in Conv, ok \in BOOLEAN : Save(t)!(c, ok)
    BY <1>7 DEF Save
  <2>2. used' \in [DOMAIN Bound -> Nat]
    BY <2>1, CallType DEF TypeOK
  <2>3. job[t].turns \in Seq(Nat) /\ "triage" \in State
    BY <2>1 DEF At, TypeOK, Job, State
  <2>4. state' \in [Conv -> State] /\ turns' \in [Conv -> Seq(Nat)]
    BY <2>1, <2>3, SaveRowType
  <2> QED
    BY <2>1, <2>2, <2>4, FinishType DEF TypeOK, ThreadStep, history
<1>8. CASE RouteLabels(t)
  <2>1. PICK c \in Conv, ok \in BOOLEAN : RouteLabels(t)!(c, ok)
    BY <1>8 DEF RouteLabels
  <2>2. used' \in [DOMAIN Bound -> Nat]
    BY <2>1, CallType DEF TypeOK
  <2>3. ReplaceLabel(job[t].labels, LabelBot, {job[t].label}) \in LabelSet
    BY <2>1, SectorAssumption
    DEF At, TypeOK, Job, ReplaceLabel, LabelSet, Queues
  <2>4. pc[t] # "idle" /\ "route.save" \in ThreadStep \ {"route.labels"}
    BY <2>1 DEF At, ThreadStep, TriageStep
  <2>5. /\ labels' \in [Conv -> LabelSet]
        /\ past' \in [Conv -> SUBSET (LabelSet \X LabelSet)]
    BY <2>1, <2>3, PostLabelsType
  <2>6. CASE Goto(t, "route.save")
    BY <2>1, <2>2, <2>4, <2>5, <2>6, GotoType DEF TypeOK, ThreadStep, history
  <2>7. CASE Finish(t)
    BY <2>1, <2>2, <2>5, <2>7, FinishType DEF TypeOK, ThreadStep, history
  <2> QED
    BY <2>1, <2>6, <2>7
<1>9. CASE RouteSave(t)
  <2>1. PICK c \in Conv, ok \in BOOLEAN : RouteSave(t)!(c, ok)
    BY <1>9 DEF RouteSave
  <2>2. used' \in [DOMAIN Bound -> Nat]
    BY <2>1, CallType DEF TypeOK
  <2>3. <<>> \in Seq(Nat) /\ "routed" \in State
    BY DEF State
  <2>4. state' \in [Conv -> State] /\ turns' \in [Conv -> Seq(Nat)]
    BY <2>1, <2>3, SaveRowType
  <2> QED
    BY <2>1, <2>2, <2>4, FinishType DEF TypeOK, ThreadStep, history
<1> QED
  BY <1>1, <1>2, <1>3, <1>4, <1>5, <1>6, <1>7, <1>8, <1>9 DEF Step

\* Agents, expiries and crashes keep the types.
LEMMA EnvironmentType ==
    ASSUME TypeOK, Environment
    PROVE  TypeOK'
<1>1. CASE \E c \in Conv : AgentLabels(c)
  <2>1. PICK c \in Conv : AgentLabels(c)
    BY <1>1
  <2>2. used' \in [DOMAIN Bound -> Nat]
    BY <2>1, SpendType DEF AgentLabels, TypeOK, Bound
  <2>3. /\ labels' \in [Conv -> LabelSet]
        /\ past' \in [Conv -> SUBSET (LabelSet \X LabelSet)]
    BY <2>1, SetLabelsType DEF AgentLabels
  <2> QED
    BY <2>1, <2>2, <2>3 DEF Environment, AgentLabels, workers, TypeOK, history
<1>2. CASE \E t \in Thread : CtxExpire(t)
  <2>1. PICK t \in Thread : CtxExpire(t)
    BY <1>2
  <2>2. used' \in [DOMAIN Bound -> Nat]
    BY <2>1, SpendType DEF CtxExpire, TypeOK, Bound
  <2>3. live' \in [Thread -> BOOLEAN]
    BY <2>1 DEF CtxExpire, TypeOK
  <2> QED
    BY <2>1, <2>2, <2>3 DEF Environment, CtxExpire, TypeOK, history
<1>3. CASE CrashEngine
  <2>1. used' \in [DOMAIN Bound -> Nat]
    BY <1>3, SpendType DEF CrashEngine, TypeOK, Bound
  <2>2. lock' \in [0 .. ConvLockStripes - 1 -> Thread \union {None}]
    BY <1>3 DEF CrashEngine, TypeOK
  <2> QED
    BY <1>3, <2>1, <2>2 DEF Environment, CrashEngine, TypeOK, history
<1> QED
  BY <1>1, <1>2, <1>3 DEF Environment

\* The type invariant is inductive.
LEMMA NextType == TypeOK /\ [Next]_vars => TypeOK'
<1> SUFFICES ASSUME TypeOK, [Next]_vars PROVE TypeOK'
  OBVIOUS
<1>1. CASE Next
  BY <1>1, EventType, StepType, EnvironmentType DEF Next
<1>2. CASE UNCHANGED vars
  BY <1>2 DEF vars, engine, workers, history, TypeOK
<1> QED
  BY <1>1, <1>2

\* Every variable of the triage stays in its type: handleTriage, route and
\* the handlers that lead to them.
THEOREM TypeCorrect == Spec => []TypeOK
BY InitType, NextType, PTL DEF Spec

-----------------------------------------------------------------------------
(* Routing *)

\* One of the events gave the label of a queue in place of the bot's.
Handed(events) ==
    \E e \in events :
        ~HasLabel(e[2], LabelBot) /\ \E q \in Queues : HasLabel(e[2], q)

\* The labels of a conversation are those of one of its events.
LastEvent == \A c \in Conv : \E e \in past[c] : e[2] = labels[c]

\* A thread about to store "routed" has handed its conversation over.
AboutToSave ==
    \A t \in Thread : pc[t] = "route.save" => Handed(past[job[t].conv])

RoutedInv == LastEvent /\ AboutToSave /\ RoutedMeansLabelled

\* Replacing the labels keeps every past event and adds that of the new ones.
LEMMA SetLabelsPast ==
    ASSUME TypeOK, LastEvent, NEW c \in Conv, NEW new \in LabelSet,
           SetLabels(c, new)
    PROVE  /\ \A d \in Conv : past[d] \subseteq past'[d]
           /\ \E e \in past'[c] : e[2] = new
           /\ LastEvent'
<1>1. PICK e \in past[c] : e[2] = labels[c]
  BY DEF LastEvent
<1>2. CASE new = labels[c]
  BY <1>1, <1>2 DEF SetLabels, LastEvent, TypeOK
<1>3. CASE new # labels[c]
  <2>1. past' = [past EXCEPT ![c] = @ \union {<<labels[c], new>>}]
    BY <1>3 DEF SetLabels
  <2>2. past'[c] = past[c] \union {<<labels[c], new>>}
    BY <2>1 DEF TypeOK
  <2>3. \A d \in Conv \ {c} : past'[d] = past[d] /\ labels'[d] = labels[d]
    BY <2>1 DEF SetLabels, TypeOK
  <2>4. labels'[c] = new
    BY DEF SetLabels, TypeOK
  <2>5. <<labels[c], new>>[2] = new
    OBVIOUS
  <2>6. \E f \in past'[c] : f[2] = new
    BY <2>2, <2>5
  <2>7. \A d \in Conv : past[d] \subseteq past'[d]
    BY <2>2, <2>3
  <2>8. ASSUME NEW d \in Conv PROVE \E f \in past'[d] : f[2] = labels'[d]
    <3>1. CASE d = c
      BY <2>4, <2>6, <3>1
    <3>2. CASE d # c
      BY <2>3, <3>2 DEF LastEvent
    <3> QED
      BY <3>1, <3>2
  <2> QED
    BY <2>6, <2>7, <2>8 DEF LastEvent
<1> QED
  BY <1>2, <1>3

\* What was handed over stays so.
LEMMA HandedStays ==
    ASSUME \A d \in Conv : past[d] \subseteq past'[d]
    PROVE  \A d \in Conv : Handed(past[d]) => Handed(past'[d])
BY DEF Handed

\* Once nothing but past grows and no thread comes to store "routed", the
\* invariant stays.
LEMMA RoutedFrame ==
    ASSUME TypeOK, RoutedInv, LastEvent',
           \A d \in Conv : past[d] \subseteq past'[d],
           \A d \in Conv : state'[d] = "routed" =>
               state[d] = "routed" \/ Handed(past[d]),
           \A u \in Thread : pc'[u] = "route.save" =>
               \/ pc[u] = "route.save" /\ job'[u] = job[u]
               \/ job'[u].conv \in Conv /\ Handed(past'[job'[u].conv])
    PROVE  RoutedInv'
<1>1. \A d \in Conv : Handed(past[d]) => Handed(past'[d])
  BY HandedStays
<1>2. \A u \in Thread : pc[u] = "route.save" => job[u].conv \in Conv
  BY DEF TypeOK, Job
<1>3. ASSUME NEW u \in Thread, pc'[u] = "route.save"
      PROVE  Handed(past'[job'[u].conv])
  <2>1. CASE pc[u] = "route.save" /\ job'[u] = job[u]
    BY <2>1, <1>1, <1>2 DEF RoutedInv, AboutToSave
  <2> QED
    BY <1>3, <2>1
<1>4. AboutToSave'
  BY <1>3 DEF AboutToSave
<1>5. ASSUME NEW d \in Conv, state'[d] = "routed"
      PROVE  Handed(past'[d])
  <2>1. state[d] = "routed" => Handed(past[d])
    BY DEF RoutedInv, RoutedMeansLabelled, Handed
  <2> QED
    BY <2>1, <1>1, <1>5
<1>6. RoutedMeansLabelled'
  BY <1>5 DEF RoutedMeansLabelled, Handed, Queues
<1> QED
  BY <1>4, <1>6 DEF RoutedInv

\* No conversation starts routed.
LEMMA RoutedInit == Init => RoutedInv
<1> SUFFICES ASSUME Init PROVE RoutedInv
  OBVIOUS
<1>1. LastEvent
  <2>1. \A c \in Conv : past[c] = {<<labels[c], labels[c]>>}
    BY DEF Init, EngineInit
  <2>2. \A c \in Conv : <<labels[c], labels[c]>>[2] = labels[c]
    OBVIOUS
  <2> QED
    BY <2>1, <2>2 DEF LastEvent
<1>2. AboutToSave
  BY DEF Init, EngineInit, AboutToSave
<1>3. RoutedMeansLabelled
  BY DEF Init, RoutedMeansLabelled
<1> QED
  BY <1>1, <1>2, <1>3 DEF RoutedInv

\* Giving the labels of the route hands the conversation over, and every
\* other step leaves the invariant alone.
LEMMA RoutedStep ==
    ASSUME TypeOK, RoutedInv, NEW t \in Thread,
           \/ HandleMessageCreated(t) \/ HandleAudio(t)
           \/ HandleConversationUpdated(t) \/ Begin(t) \/ Step(t)
    PROVE  RoutedInv'
<1>0. LastEvent
  BY DEF RoutedInv
<1>1. CASE /\ UNCHANGED <<state, labels, past>>
           /\ \A u \in Thread : pc'[u] = "route.save" =>
                  pc[u] = "route.save" /\ job'[u] = job[u]
  <2>1. LastEvent'
    BY <1>0, <1>1 DEF LastEvent
  <2> QED
    BY <1>1, <2>1, RoutedFrame
<1>2. CASE \/ HandleMessageCreated(t) \/ HandleAudio(t)
           \/ HandleConversationUpdated(t)
  <2>1. PICK step \in {"begin", "transcribe"} : \E j : Dispatch(t, step, j)
    BY <1>2
    DEF HandleMessageCreated, HandleAudio, HandleConversationUpdated
  <2>2. \A u \in Thread : pc'[u] = "route.save" =>
            pc[u] = "route.save" /\ job'[u] = job[u]
    BY <2>1 DEF Dispatch, TypeOK
  <2> QED
    BY <1>1, <2>1, <2>2 DEF Dispatch
<1>3. CASE \/ Begin(t) \/ Transcribe(t) \/ ClassifyFails(t)
           \/ ClassifyReply(t) \/ ClassifyRoute(t) \/ Reply(t)
  <2>1. UNCHANGED <<state, labels, past>>
    BY <1>3 DEF Begin, Transcribe, ClassifyFails, ClassifyReply,
                ClassifyRoute, Reply
  <2>2. pc'[t] # "route.save" /\ \A u \in Thread \ {t} :
            pc'[u] = pc[u] /\ job'[u] = job[u]
    BY <1>3 DEF Begin, Transcribe, ClassifyFails, ClassifyReply,
                ClassifyRoute, Reply, Return, Finish, Goto, TypeOK
  <2> QED
    BY <1>1, <2>1, <2>2
<1>4. CASE Save(t)
  <2>1. PICK c \in Conv, ok \in BOOLEAN : Save(t)!(c, ok)
    BY <1>4 DEF Save
  <2>2. \A d \in Conv : state'[d] = "routed" => state[d] = "routed"
    BY <2>1 DEF SaveRow, SaveState, TypeOK
  <2>3. \A u \in Thread : pc'[u] = "route.save" =>
            pc[u] = "route.save" /\ job'[u] = job[u]
    BY <2>1 DEF Finish, TypeOK
  <2>4. LastEvent'
    BY <1>0, <2>1 DEF LastEvent
  <2> QED
    BY <2>1, <2>2, <2>3, <2>4, RoutedFrame
<1>5. CASE RouteLabels(t)
  <2>1. PICK c \in Conv, ok \in BOOLEAN : RouteLabels(t)!(c, ok)
    BY <1>5 DEF RouteLabels
  <2> DEFINE new == ReplaceLabel(job[t].labels, LabelBot, {job[t].label})
  <2>2. job[t] \in Job /\ job[t].label \in Queues /\ c = job[t].conv
    BY <2>1 DEF At, TypeOK
  <2>3. /\ new \in LabelSet
        /\ ~HasLabel(new, LabelBot)
        /\ HasLabel(new, job[t].label)
    BY <2>2, SectorAssumption
    DEF Job, ReplaceLabel, LabelSet, Queues, HasLabel
  <2> HIDE DEF new
  <2>4. CASE SetLabels(c, new)
    <3>1. /\ \A d \in Conv : past[d] \subseteq past'[d]
          /\ \E e \in past'[c] : e[2] = new
          /\ LastEvent'
      BY <1>0, <2>3, <2>4, SetLabelsPast
    <3>2. Handed(past'[c])
      BY <2>2, <2>3, <3>1 DEF Handed
    <3>3. \A u \in Thread : pc'[u] = "route.save" =>
              \/ pc[u] = "route.save" /\ job'[u] = job[u]
              \/ u = t /\ job'[u] = job[u]
      BY <2>1 DEF Goto, Finish, TypeOK
    <3>4. \A u \in Thread : pc'[u] = "route.save" =>
              \/ pc[u] = "route.save" /\ job'[u] = job[u]
              \/ job'[u].conv \in Conv /\ Handed(past'[job'[u].conv])
      <4>1. ASSUME job'[t] = job[t]
            PROVE  job'[t].conv \in Conv /\ Handed(past'[job'[t].conv])
        BY <2>2, <3>2, <4>1
      <4> QED
        BY <3>3, <4>1
    <3> QED
      BY <2>1, <3>1, <3>4, RoutedFrame
  <2>5. CASE UNCHANGED <<labels, past>> /\ ~ok
    <3>1. \A u \in Thread : pc'[u] = "route.save" =>
              pc[u] = "route.save" /\ job'[u] = job[u]
      BY <2>1, <2>5 DEF Labelled, Finish, TypeOK
    <3> QED
      BY <1>1, <2>1, <2>5, <3>1
  <2>6. SetLabels(c, new) \/ (UNCHANGED <<labels, past>> /\ ~ok)
    BY <2>1 DEF PostLabels, CarriedOut, new
  <2> QED
    BY <2>4, <2>5, <2>6
<1>6. CASE RouteSave(t)
  <2>1. PICK c \in Conv, ok \in BOOLEAN : RouteSave(t)!(c, ok)
    BY <1>6 DEF RouteSave
  <2>2. Handed(past[c])
    BY <2>1 DEF At, RoutedInv, AboutToSave
  <2>3. \A d \in Conv : state'[d] = "routed" =>
            state[d] = "routed" \/ Handed(past[d])
    BY <2>1, <2>2 DEF SaveRow, SaveState, TypeOK
  <2>4. \A u \in Thread : pc'[u] = "route.save" =>
            pc[u] = "route.save" /\ job'[u] = job[u]
    BY <2>1 DEF Finish, TypeOK
  <2>5. LastEvent'
    BY <1>0, <2>1 DEF LastEvent
  <2> QED
    BY <2>1, <2>3, <2>4, <2>5, RoutedFrame
<1> QED
  BY <1>2, <1>3, <1>4, <1>5, <1>6 DEF Step

\* Agents, expiries and crashes undo nothing.
LEMMA RoutedEnvironment ==
    ASSUME TypeOK, RoutedInv, Environment
    PROVE  RoutedInv'
<1>0. LastEvent
  BY DEF RoutedInv
<1>1. CASE \E c \in Conv : AgentLabels(c)
  <2>1. PICK c \in Conv, new \in LabelSet :
            /\ SetLabels(c, new)
            /\ UNCHANGED <<state, pc, job>>
    BY <1>1 DEF AgentLabels, workers
  <2>2. (\A d \in Conv : past[d] \subseteq past'[d]) /\ LastEvent'
    BY <1>0, <2>1, SetLabelsPast
  <2> QED
    BY <2>1, <2>2, RoutedFrame
<1>2. CASE (\E t \in Thread : CtxExpire(t)) \/ CrashEngine
  <2>1. /\ UNCHANGED <<state, labels, past>>
        /\ \A u \in Thread : pc'[u] = "route.save" =>
               pc[u] = "route.save" /\ job'[u] = job[u]
    BY <1>2 DEF CtxExpire, CrashEngine
  <2>2. LastEvent'
    BY <1>0, <2>1 DEF LastEvent
  <2> QED
    BY <2>1, <2>2, RoutedFrame
<1> QED
  BY <1>1, <1>2 DEF Environment

\* route stores "routed" only after Chatwoot was given the label of a queue
\* in place of the bot's, through failures, retries and crashes.
THEOREM HandedOver == Spec => []RoutedMeansLabelled
<1>1. TypeOK /\ RoutedInv /\ [Next]_vars => RoutedInv'
  <2> SUFFICES ASSUME TypeOK, RoutedInv, [Next]_vars PROVE RoutedInv'
    OBVIOUS
  <2>1. CASE Next
    BY <2>1, RoutedStep, RoutedEnvironment DEF Next
  <2>2. CASE UNCHANGED vars
    <3>1. UNCHANGED <<state, pc, job, labels, past>>
      BY <2>2 DEF vars, engine, workers
    <3>2. LastEvent'
      BY <3>1 DEF RoutedInv, LastEvent
    <3> QED
      BY <3>1, <3>2, RoutedFrame
  <2> QED
    BY <2>1, <2>2
<1>2. RoutedInv => RoutedMeansLabelled
  BY DEF RoutedInv
<1> QED
  BY RoutedInit, TypeCorrect, <1>1, <1>2, PTL DEF Spec

-----------------------------------------------------------------------------
(* The limit of turns *)

\* How many turns a job holds at each step, by the limit and the failures of
\* the model.
JobBounded(step, n, failures) ==
    /\ step = "classify" => n <= MaxTriageTurns + failures + 1
    /\ step = "reply" => n < MaxTriageTurns
    /\ step = "save" => n <= MaxTriageTurns + failures

JobsBounded ==
    \A t \in Thread :
        pc[t] # "idle" =>
            JobBounded(pc[t], Len(job[t].turns), deaf[job[t].conv])

TurnsInv == TurnsBounded /\ JobsBounded

\* More failures of the model only loosen the bounds.
LEMMA MoreFailures ==
    ASSUME NEW step, NEW n \in Nat, NEW f \in Nat, NEW g \in Nat, g >= f,
           JobBounded(step, n, f)
    PROVE  JobBounded(step, n, g)
BY SectorAssumption DEF JobBounded

\* The steps that take a job to a step without a bound, or nowhere.
LEMMA TurnsFrame ==
    ASSUME TypeOK, TypeOK', TurnsInv, UNCHANGED <<turns, deaf>>,
           \A u \in Thread :
               \/ pc'[u] \in {"idle", "begin", "transcribe", "route.labels",
                              "route.save"}
               \/ pc'[u] = pc[u] /\ job'[u] = job[u]
               \/ pc'[u] = "reply" /\ Len(job'[u].turns) < MaxTriageTurns
    PROVE  TurnsInv'
<1>1. TurnsBounded'
  BY DEF TurnsInv, TurnsBounded
<1>2. ASSUME NEW u \in Thread, pc'[u] # "idle"
      PROVE  JobBounded(pc'[u], Len(job'[u].turns), deaf'[job'[u].conv])
  BY <1>2 DEF TurnsInv, JobsBounded, JobBounded
<1> QED
  BY <1>1, <1>2 DEF TurnsInv, JobsBounded

\* No turn is stored at the start.
LEMMA TurnsInit == Init => TurnsInv
BY SectorAssumption
   DEF Init, EngineInit, TurnsInv, TurnsBounded, JobsBounded

\* A message takes a job past the limit only after failures of the model; it
\* is then routed or fails again, and what is stored keeps the bound.
LEMMA TurnsStep ==
    ASSUME TypeOK, TypeOK', TurnsInv, NEW t \in Thread,
           \/ HandleMessageCreated(t) \/ HandleAudio(t)
           \/ HandleConversationUpdated(t) \/ Begin(t) \/ Step(t)
    PROVE  TurnsInv'
<1> USE SectorAssumption
<1>1. CASE \/ HandleMessageCreated(t) \/ HandleAudio(t)
           \/ HandleConversationUpdated(t)
  <2>1. PICK step \in {"begin", "transcribe"} : \E j : Dispatch(t, step, j)
    BY <1>1
    DEF HandleMessageCreated, HandleAudio, HandleConversationUpdated
  <2>2. UNCHANGED <<turns, deaf>>
    BY <1>1 DEF HandleMessageCreated, HandleAudio,
                HandleConversationUpdated, history
  <2>3. pc'[t] \in {"begin", "transcribe"}
        /\ \A u \in Thread \ {t} : pc'[u] = pc[u] /\ job'[u] = job[u]
    BY <2>1 DEF Dispatch, TypeOK
  <2> QED
    BY <2>2, <2>3, TurnsFrame
<1>2. CASE Begin(t)
  <2>1. PICK c \in Conv, ok \in BOOLEAN : Begin(t)!(c, ok)
    BY <1>2 DEF Begin
  <2>2. UNCHANGED <<turns, deaf>>
    BY <2>1 DEF history
  <2>3. \A u \in Thread \ {t} : pc'[u] = pc[u] /\ job'[u] = job[u]
    BY <2>1 DEF Return, Finish, TypeOK
  <2>4. CASE Finish(t)
    <3>1. pc'[t] = "idle"
      BY <2>4 DEF Finish, TypeOK
    <3> QED
      BY <2>2, <2>3, <3>1, TurnsFrame
  <2>5. CASE ~Finish(t)
    <3> DEFINE td == IF ok THEN LoadTriage(turns[c]) ELSE <<>>
               ts == IF job[t].customer = Proactive THEN td
                     ELSE Append(td, job[t].customer)
    <3>1. job[t] \in Job /\ c = job[t].conv
      BY <2>1 DEF At, TypeOK
    <3>2. /\ td \in Seq(Nat) /\ job[t].customer \in Nat
          /\ Len(td) <= MaxTriageTurns + deaf[c]
      BY <3>1 DEF LoadTriage, TypeOK, Job, TurnsInv, TurnsBounded
    <3>3. Len(ts) <= MaxTriageTurns + deaf[c] + 1
      BY <3>2 DEF TypeOK
    <3>4. pc' = [pc EXCEPT ![t] = "classify"]
          /\ job' = [job EXCEPT ![t].turns = ts]
      BY <2>1, <2>5 DEF Return
    <3> HIDE DEF td, ts
    <3>5. /\ pc'[t] = "classify" /\ job'[t].turns = ts
          /\ job'[t].conv = c
      BY <3>1, <3>4 DEF TypeOK, Job
    <3>6. \A u \in Thread : pc'[u] # "idle" =>
              JobBounded(pc'[u], Len(job'[u].turns), deaf'[job'[u].conv])
      BY <2>2, <2>3, <3>3, <3>5 DEF TurnsInv, JobsBounded, JobBounded
    <3> QED
      BY <2>2, <3>6 DEF TurnsInv, TurnsBounded, JobsBounded
  <2> QED
    BY <2>4, <2>5
<1>3. CASE Transcribe(t) \/ ClassifyRoute(t) \/ RouteLabels(t)
  <2>1. UNCHANGED <<turns, deaf>>
    BY <1>3 DEF Transcribe, ClassifyRoute, RouteLabels, history
  <2>2. pc'[t] \in {"idle", "begin", "route.labels", "route.save"}
        /\ \A u \in Thread \ {t} : pc'[u] = pc[u] /\ job'[u] = job[u]
    BY <1>3 DEF Transcribe, ClassifyRoute, RouteLabels, Finish, Goto, TypeOK
  <2> QED
    BY <2>1, <2>2, TurnsFrame
<1>4. CASE ClassifyReply(t)
  <2>1. UNCHANGED <<turns, deaf>>
    BY <1>4 DEF ClassifyReply, history
  <2>2. /\ pc'[t] = "reply" /\ job'[t] = job[t]
        /\ \A u \in Thread \ {t} : pc'[u] = pc[u] /\ job'[u] = job[u]
    BY <1>4 DEF ClassifyReply, Goto, TypeOK
  <2>3. Len(job[t].turns) < MaxTriageTurns
    <3>1. job[t].turns \in Seq(Nat)
      BY <1>4 DEF ClassifyReply, TypeOK, Job
    <3> QED
      BY <1>4, <3>1 DEF ClassifyReply, AtLimit
  <2> QED
    BY <2>1, <2>2, <2>3, TurnsFrame
<1>5. CASE ClassifyFails(t)
  <2>1. PICK c \in Conv : ClassifyFails(t)!(c)
    BY <1>5 DEF ClassifyFails
  <2>2. /\ pc'[t] = "save" /\ job' = job
        /\ \A u \in Thread \ {t} : pc'[u] = pc[u]
    BY <2>1 DEF Goto, TypeOK
  <2>3. /\ deaf'[c] = deaf[c] + 1
        /\ \A d \in Conv : deaf[d] \in Nat /\ deaf'[d] >= deaf[d]
    BY <2>1 DEF TypeOK
  <2>4. \A u \in Thread : pc[u] # "idle" =>
            job[u].conv \in Conv /\ Len(job[u].turns) \in Nat
    <3>1. \A j \in Job : j.conv \in Conv /\ j.turns \in Seq(Nat)
      BY DEF Job
    <3>2. \A q \in Seq(Nat) : Len(q) \in Nat
      OBVIOUS
    <3> QED
      BY <3>1, <3>2 DEF TypeOK
  <2>5. JobBounded("save", Len(job'[t].turns), deaf'[job'[t].conv])
    <3>1. Len(job[t].turns) <= MaxTriageTurns + deaf[c] + 1
      BY <2>1 DEF At, TurnsInv, JobsBounded, JobBounded
    <3>2. Len(job[t].turns) \in Nat /\ c = job[t].conv
      BY <2>1, <2>4 DEF At
    <3> QED
      BY <2>2, <2>3, <3>1, <3>2 DEF JobBounded
  <2>6. ASSUME NEW u \in Thread \ {t}, pc'[u] # "idle"
        PROVE  JobBounded(pc'[u], Len(job'[u].turns), deaf'[job'[u].conv])
    <3>1. JobBounded(pc[u], Len(job[u].turns), deaf[job[u].conv])
      BY <2>2, <2>6 DEF TurnsInv, JobsBounded
    <3>2. /\ deaf[job[u].conv] \in Nat
          /\ deaf'[job[u].conv] \in Nat
          /\ deaf'[job[u].conv] >= deaf[job[u].conv]
          /\ Len(job[u].turns) \in Nat
      BY <2>2, <2>3, <2>4, <2>6 DEF TypeOK
    <3>3. JobBounded(pc[u], Len(job[u].turns), deaf'[job[u].conv])
      BY <3>1, <3>2, MoreFailures
    <3> QED
      BY <2>2, <3>3
  <2>7. JobsBounded'
    BY <2>2, <2>5, <2>6 DEF JobsBounded
  <2>8. TurnsBounded'
    <3>1. \A d \in Conv : turns[d] \in Seq(Nat)
      BY DEF TypeOK
    <3> QED
      BY <2>1, <2>3, <3>1 DEF TurnsInv, TurnsBounded
  <2> QED
    BY <2>7, <2>8 DEF TurnsInv
<1>6. CASE Reply(t)
  <2>1. PICK c \in Conv : Reply(t)!(c)
    BY <1>6 DEF Reply
  <2>2. job[t] \in Job /\ c = job[t].conv
    BY <2>1 DEF At, TypeOK
  <2>3. /\ pc'[t] = "save" /\ job'[t].conv = c
        /\ job'[t].turns = Append(job[t].turns, BotTurn)
        /\ \A u \in Thread \ {t} : pc'[u] = pc[u] /\ job'[u] = job[u]
    BY <2>1, <2>2 DEF TypeOK, Job
  <2>4. Len(job'[t].turns) = Len(job[t].turns) + 1
        /\ Len(job[t].turns) \in Nat
    BY <2>2, <2>3 DEF Job, BotTurn
  <2>5. Len(job[t].turns) < MaxTriageTurns
    BY <2>1 DEF At, TurnsInv, JobsBounded, JobBounded
  <2>6. \A u \in Thread : pc'[u] # "idle" =>
            JobBounded(pc'[u], Len(job'[u].turns), deaf'[job'[u].conv])
    BY <2>1, <2>3, <2>4, <2>5 DEF TurnsInv, JobsBounded, JobBounded, TypeOK
  <2> QED
    BY <2>1, <2>6 DEF TurnsInv, TurnsBounded, JobsBounded
<1>7. CASE Save(t) \/ RouteSave(t)
  <2>1. PICK c \in Conv : /\ pc[t] # "idle" /\ c = job[t].conv
                          /\ Finish(t) /\ UNCHANGED deaf
                          /\ \/ turns' = turns
                             \/ turns' = [turns EXCEPT ![c] = <<>>]
                             \/ /\ turns' = [turns EXCEPT ![c] = job[t].turns]
                                /\ pc[t] = "save"
    BY <1>7 DEF Save, RouteSave, At, SaveRow, history
  <2>2. pc'[t] = "idle" /\ \A u \in Thread \ {t} :
            pc'[u] = pc[u] /\ job'[u] = job[u]
    BY <2>1 DEF Finish, TypeOK
  <2>3. JobsBounded'
    <3>1. \A u \in Thread : pc'[u] # "idle" =>
              JobBounded(pc'[u], Len(job'[u].turns), deaf'[job'[u].conv])
      BY <2>1, <2>2 DEF TurnsInv, JobsBounded
    <3> QED
      BY <3>1 DEF JobsBounded
  <2>4. pc[t] = "save" => Len(job[t].turns) <= MaxTriageTurns + deaf[c]
    BY <2>1 DEF TurnsInv, JobsBounded, JobBounded
  <2>5. ASSUME NEW d \in Conv
        PROVE  Len(turns'[d]) <= MaxTriageTurns + deaf'[d]
    <3>1. Len(turns[d]) <= MaxTriageTurns + deaf[d] /\ deaf[d] \in Nat
      BY DEF TurnsInv, TurnsBounded, TypeOK
    <3>2. \/ turns'[d] = turns[d]
          \/ turns'[d] = <<>>
          \/ d = c /\ turns'[d] = job[t].turns /\ pc[t] = "save"
      BY <2>1 DEF TypeOK
    <3> QED
      BY <2>1, <2>4, <3>1, <3>2
  <2> QED
    BY <2>3, <2>5 DEF TurnsInv, TurnsBounded
<1> QED
  BY <1>1, <1>2, <1>3, <1>4, <1>5, <1>6, <1>7 DEF Step

\* The limit of turns in handleTriage breaks every loop, whatever the model
\* answers: what is stored exceeds it only by messages it failed to classify.
THEOREM LoopsEnd == Spec => []TurnsBounded
<1>1. TypeOK /\ TypeOK' /\ TurnsInv /\ [Next]_vars => TurnsInv'
  <2> SUFFICES ASSUME TypeOK, TypeOK', TurnsInv, [Next]_vars
               PROVE  TurnsInv'
    OBVIOUS
  <2>1. CASE Environment
    <3>1. UNCHANGED <<turns, deaf>>
      BY <2>1 DEF Environment, history
    <3>2. \A u \in Thread :
              pc'[u] = "idle" \/ (pc'[u] = pc[u] /\ job'[u] = job[u])
      BY <2>1 DEF Environment, AgentLabels, CtxExpire, CrashEngine, workers
    <3> QED
      BY <3>1, <3>2, TurnsFrame
  <2>2. CASE UNCHANGED vars
    BY <2>2, TurnsFrame DEF vars, engine, workers, history
  <2> QED
    BY <2>1, <2>2, TurnsStep DEF Next
<1>2. TurnsInv => TurnsBounded
  BY DEF TurnsInv
<1> QED
  BY TurnsInit, TypeCorrect, <1>1, <1>2, PTL DEF Spec

-----------------------------------------------------------------------------
(* Routed for good *)

\* A thread past the guards of handleTriage holds the mutex.
LockHeld ==
    \A t \in Thread :
        pc[t] \in TriageStep => lock[StripeOf(job[t].conv)] = t

\* Unless a read failed, a thread that can still write the row found the
\* conversation not routed, and it still is not.
SeenUnrouted ==
    \A t \in Thread :
        (pc[t] \in TriageStep /\ live[t] /\ used["faults"] = 0) =>
            state[job[t].conv] # "routed"

FinalInv == LockHeld /\ SeenUnrouted

\* A thread that leaves the mutexes of others alone, and routes only what it
\* locked, keeps the invariant if it keeps its own part.
LEMMA FinalFrame ==
    ASSUME TypeOK, TypeOK', FinalInv, NEW t \in Thread,
           \A u \in Thread \ {t} :
               pc'[u] = pc[u] /\ job'[u] = job[u] /\ live'[u] = live[u],
           \A s \in 0 .. ConvLockStripes - 1 :
               lock[s] \in Thread \ {t} => lock'[s] = lock[s],
           \A d \in Conv : state'[d] = "routed" =>
               state[d] = "routed" \/ lock[StripeOf(d)] = t,
           used'["faults"] >= used["faults"],
           pc'[t] \in TriageStep => lock'[StripeOf(job'[t].conv)] = t,
           (pc'[t] \in TriageStep /\ live'[t] /\ used'["faults"] = 0) =>
               state'[job'[t].conv] # "routed"
    PROVE  FinalInv'
<1>1. ASSUME NEW u \in Thread \ {t}, pc'[u] \in TriageStep
      PROVE  /\ lock'[StripeOf(job'[u].conv)] = u
             /\ live'[u] /\ used'["faults"] = 0 =>
                    state'[job'[u].conv] # "routed"
  <2>1. job[u] \in Job /\ pc[u] \in TriageStep /\ job'[u] = job[u]
    BY <1>1 DEF TypeOK, TriageStep
  <2>2. job[u].conv \in Conv
    BY <2>1 DEF Job
  <2>3. lock[StripeOf(job[u].conv)] = u
    BY <2>1 DEF FinalInv, LockHeld
  <2>4. StripeOf(job[u].conv) \in 0 .. ConvLockStripes - 1
    BY <2>2, StripeInRange
  <2>5. lock'[StripeOf(job'[u].conv)] = u
    BY <2>1, <2>3, <2>4
  <2>6. ASSUME live'[u], used'["faults"] = 0
        PROVE  state'[job'[u].conv] # "routed"
    <3>1. used["faults"] \in Nat
      BY DEF TypeOK, Bound
    <3>2. used["faults"] = 0 /\ live[u]
      BY <2>6, <3>1
    <3>3. state[job[u].conv] # "routed"
      BY <2>1, <3>2 DEF FinalInv, SeenUnrouted
    <3> QED
      BY <2>1, <2>2, <2>3, <3>3
  <2> QED
    BY <2>5, <2>6
<1>2. LockHeld'
  BY <1>1 DEF LockHeld
<1>3. SeenUnrouted'
  BY <1>1 DEF SeenUnrouted
<1> QED
  BY <1>2, <1>3 DEF FinalInv

\* No thread runs at the start.
LEMMA FinalInit == Init => FinalInv
BY DEF Init, EngineInit, FinalInv, LockHeld, SeenUnrouted, TriageStep

\* What a thread does keeps the invariant, and unroutes nothing.
LEMMA FinalStep ==
    ASSUME TypeOK, TypeOK', FinalInv, NEW t \in Thread,
           \/ HandleMessageCreated(t) \/ HandleAudio(t)
           \/ HandleConversationUpdated(t) \/ Begin(t) \/ Step(t)
    PROVE  /\ FinalInv'
           /\ used'["faults"] = 0 =>
                  \A c \in Conv : state[c] = "routed" => state'[c] = "routed"
<1>1. ASSUME Finish(t), UNCHANGED state, used'["faults"] >= used["faults"]
      PROVE  FinalInv'
  <2>1. /\ pc'[t] = "idle"
        /\ \A u \in Thread \ {t} :
               pc'[u] = pc[u] /\ job'[u] = job[u] /\ live'[u] = live[u]
        /\ \A s \in 0 .. ConvLockStripes - 1 :
               lock[s] \in Thread \ {t} => lock'[s] = lock[s]
    BY <1>1 DEF Finish, TypeOK
  <2> QED
    BY <1>1, <2>1, FinalFrame DEF TriageStep
<1>2. CASE \/ HandleMessageCreated(t) \/ HandleAudio(t)
           \/ HandleConversationUpdated(t)
  <2>1. PICK step \in {"begin", "transcribe"} : \E j : Dispatch(t, step, j)
    BY <1>2
    DEF HandleMessageCreated, HandleAudio, HandleConversationUpdated
  <2>2. /\ pc'[t] \in {"begin", "transcribe"}
        /\ \A u \in Thread \ {t} :
               pc'[u] = pc[u] /\ job'[u] = job[u] /\ live'[u] = live[u]
        /\ UNCHANGED <<state, lock>>
    BY <2>1 DEF Dispatch, TypeOK
  <2>3. used'["faults"] >= used["faults"]
    BY <2>1, SpendType DEF Dispatch, TypeOK, Bound
  <2> QED
    BY <2>2, <2>3, FinalFrame DEF TriageStep
<1>3. CASE Begin(t)
  <2>1. PICK c \in Conv, ok \in BOOLEAN : Begin(t)!(c, ok)
    BY <1>3 DEF Begin
  <2>2. /\ used'["faults"] >= used["faults"]
        /\ live[t] /\ ~ok => used'["faults"] = used["faults"] + 1
    BY <2>1, CallType DEF TypeOK
  <2>3. CASE Finish(t)
    BY <1>1, <2>1, <2>2, <2>3
  <2>4. CASE ~Finish(t)
    <3>1. /\ LockConv(t, c)
          /\ pc' = [pc EXCEPT ![t] = "classify"]
          /\ \E ts : job' = [job EXCEPT ![t].turns = ts]
          /\ UNCHANGED <<state, live>>
          /\ ok => state[c] # "routed"
      BY <2>1, <2>4 DEF Return, AlreadyRouted
    <3>2. job[t] \in Job /\ c = job[t].conv
      BY <2>1 DEF At, TypeOK
    <3>3. job'[t].conv = c /\ \A u \in Thread \ {t} :
              pc'[u] = pc[u] /\ job'[u] = job[u] /\ live'[u] = live[u]
      BY <3>1, <3>2 DEF TypeOK, Job
    <3>4. /\ lock'[StripeOf(c)] = t
          /\ \A s \in 0 .. ConvLockStripes - 1 :
                 lock[s] \in Thread \ {t} => lock'[s] = lock[s]
      BY <3>1, StripeInRange, NoneAssumption DEF LockConv, TypeOK
    <3>5. (live'[t] /\ used'["faults"] = 0) => state'[c] # "routed"
      <4>1. used["faults"] \in Nat
        BY DEF TypeOK, Bound
      <4>2. live'[t] /\ used'["faults"] = 0 => ok
        BY <2>2, <3>1, <4>1
      <4> QED
        BY <3>1, <4>2
    <3> QED
      BY <2>2, <3>1, <3>3, <3>4, <3>5, FinalFrame
  <2> QED
    BY <2>1, <2>3, <2>4
<1>4. CASE Transcribe(t)
  <2>1. PICK c \in Conv, ok \in BOOLEAN : Transcribe(t)!(c, ok)
    BY <1>4 DEF Transcribe
  <2>2. used'["faults"] = used["faults"] /\ used["faults"] \in Nat
    BY <2>1 DEF TypeOK, Bound
  <2>3. CASE ok
    <3>1. /\ pc'[t] = "begin"
          /\ \A u \in Thread \ {t} :
                 pc'[u] = pc[u] /\ job'[u] = job[u] /\ live'[u] = live[u]
          /\ UNCHANGED <<state, lock>>
      BY <2>1, <2>3 DEF TypeOK
    <3> QED
      BY <2>2, <3>1, FinalFrame DEF TriageStep
  <2>4. CASE ~ok
    BY <1>1, <2>1, <2>2, <2>4
  <2> QED
    BY <2>3, <2>4
<1>5. CASE \/ ClassifyFails(t) \/ ClassifyReply(t) \/ ClassifyRoute(t)
           \/ Reply(t) \/ RouteLabels(t)
  <2>1. used'["faults"] >= used["faults"]
    <3>1. CASE RouteLabels(t)
      BY <3>1, CallType DEF RouteLabels, TypeOK
    <3>2. CASE ~RouteLabels(t)
      <4>1. UNCHANGED used
        BY <1>5, <3>2 DEF ClassifyFails, ClassifyReply, ClassifyRoute, Reply
      <4> QED
        BY <4>1 DEF TypeOK, Bound
    <3> QED
      BY <3>1, <3>2
  <2>2. pc[t] \in TriageStep /\ UNCHANGED state
    BY <1>5 DEF ClassifyFails, ClassifyReply, ClassifyRoute, Reply,
                RouteLabels, At, TriageStep
  <2>3. CASE Finish(t)
    BY <1>1, <2>1, <2>2, <2>3
  <2>4. CASE ~Finish(t)
    <3>1. /\ UNCHANGED <<lock, live>>
          /\ \A u \in Thread \ {t} : pc'[u] = pc[u] /\ job'[u] = job[u]
      BY <1>5, <2>4 DEF ClassifyFails, ClassifyReply, ClassifyRoute, Reply,
                        RouteLabels, Goto, TypeOK
    <3>2. job'[t].conv = job[t].conv
      <4>1. job[t] \in Job
        BY <2>2 DEF TypeOK, TriageStep
      <4>2. CASE ClassifyRoute(t)
        <5>1. PICK label : job' = [job EXCEPT ![t].label = label]
          BY <4>2 DEF ClassifyRoute
        <5> QED
          BY <4>1, <5>1 DEF TypeOK, Job
      <4>3. CASE Reply(t)
        <5>1. PICK ts : job' = [job EXCEPT ![t].turns = ts]
          BY <4>3 DEF Reply
        <5> QED
          BY <4>1, <5>1 DEF TypeOK, Job
      <4>4. CASE ClassifyFails(t) \/ ClassifyReply(t) \/ RouteLabels(t)
        BY <2>4, <4>4 DEF ClassifyFails, ClassifyReply, RouteLabels, Goto
      <4> QED
        BY <1>5, <4>2, <4>3, <4>4
    <3>3. used["faults"] \in Nat /\ used'["faults"] \in Nat
      BY DEF TypeOK, Bound
    <3>4. lock'[StripeOf(job'[t].conv)] = t
      BY <2>2, <3>1, <3>2 DEF FinalInv, LockHeld
    <3>5. (live'[t] /\ used'["faults"] = 0) => state'[job'[t].conv] # "routed"
      BY <2>1, <2>2, <3>1, <3>2, <3>3 DEF FinalInv, SeenUnrouted
    <3> QED
      BY <2>1, <2>2, <3>1, <3>4, <3>5, FinalFrame
  <2> QED
    BY <2>2, <2>3, <2>4
<1>6. CASE Save(t) \/ RouteSave(t)
  <2>1. PICK c \in Conv, ok \in BOOLEAN, s \in {"triage", "routed"} :
            /\ pc[t] \in TriageStep /\ c = job[t].conv
            /\ Call(t, ok) /\ SaveState(c, s, ok) /\ Finish(t)
    BY <1>6 DEF Save, RouteSave, SaveRow, At, TriageStep
  <2>2. used'["faults"] >= used["faults"] /\ (ok => live[t])
    BY <2>1, CallType DEF TypeOK
  <2>3. /\ pc'[t] = "idle"
        /\ \A u \in Thread \ {t} :
               pc'[u] = pc[u] /\ job'[u] = job[u] /\ live'[u] = live[u]
        /\ \A i \in 0 .. ConvLockStripes - 1 :
               lock[i] \in Thread \ {t} => lock'[i] = lock[i]
    BY <2>1 DEF Finish, TypeOK
  <2>4. lock[StripeOf(c)] = t
    BY <2>1 DEF FinalInv, LockHeld
  <2>5. \A d \in Conv \ {c} : state'[d] = state[d]
    BY <2>1 DEF SaveState, TypeOK
  <2>6. FinalInv'
    BY <2>2, <2>3, <2>4, <2>5, FinalFrame DEF TriageStep
  <2>7. ASSUME used'["faults"] = 0, state[c] = "routed"
        PROVE  state'[c] = "routed"
    <3>1. used["faults"] = 0
      BY <2>2, <2>7 DEF TypeOK, Bound
    <3>2. ~live[t]
      BY <2>1, <2>7, <3>1 DEF FinalInv, SeenUnrouted
    <3> QED
      BY <2>1, <2>2, <2>7, <3>2 DEF SaveState
  <2> QED
    BY <2>5, <2>6, <2>7
<1> QED
  BY <1>2, <1>3, <1>4, <1>5, <1>6 DEF Step

\* So do agents, expiries and crashes.
LEMMA FinalEnvironment ==
    ASSUME TypeOK, FinalInv, Environment
    PROVE  FinalInv' /\ UNCHANGED state
<1>1. used["faults"] \in Nat /\ used' \in [DOMAIN Bound -> Nat]
  BY EnvironmentType DEF TypeOK, Bound
<1>2. used'["faults"] >= used["faults"] /\ UNCHANGED state
  <2>1. PICK r \in DOMAIN Bound : Spend(r)
    BY DEF Environment, AgentLabels, CtxExpire, CrashEngine, Bound
  <2> QED
    BY <2>1, SpendType
    DEF Environment, AgentLabels, CtxExpire, CrashEngine, TypeOK
<1>3. used'["faults"] = 0 => used["faults"] = 0
  BY <1>1, <1>2
<1>4. \A u \in Thread :
          \/ pc'[u] = "idle"
          \/ /\ pc'[u] = pc[u] /\ job'[u] = job[u] /\ lock' = lock
             /\ live'[u] => live[u]
  BY DEF Environment, AgentLabels, CtxExpire, CrashEngine, workers, TypeOK
<1>5. LockHeld'
  BY <1>4 DEF FinalInv, LockHeld, TriageStep
<1>6. SeenUnrouted'
  BY <1>2, <1>3, <1>4 DEF FinalInv, SeenUnrouted, TriageStep
<1> QED
  BY <1>2, <1>5, <1>6 DEF FinalInv

\* Late and concurrent events, expired contexts and crashes never take a
\* conversation out of "routed": only a failed read of the state can.
THEOREM RoutedForGood == Spec => RoutedIsFinal
<1>1. TypeOK /\ TypeOK' /\ FinalInv /\ [Next]_vars => FinalInv'
  <2> SUFFICES ASSUME TypeOK, TypeOK', FinalInv, [Next]_vars
               PROVE  FinalInv'
    OBVIOUS
  <2>1. CASE UNCHANGED vars
    BY <2>1 DEF vars, engine, workers, FinalInv, LockHeld, SeenUnrouted
  <2> QED
    BY <2>1, FinalStep, FinalEnvironment DEF Next
<1>2. TypeOK /\ TypeOK' /\ FinalInv /\ [Next]_vars =>
          [used'.faults = 0 =>
              \A c \in Conv : state[c] = "routed" => state'[c] = "routed"]_vars
  BY FinalStep, FinalEnvironment DEF Next
<1> QED
  BY FinalInit, TypeCorrect, <1>1, <1>2, PTL DEF Spec, RoutedIsFinal

-----------------------------------------------------------------------------
(* What goes wrong *)

\* How often something went wrong.
Failures == used.faults + used.expiries + used.crashes

\* A step spends from one bound at most.
SpendsOnce ==
    UNCHANGED used \/ \E r \in DOMAIN Bound : Spend(r)

LEMMA StepSpends == [Next]_vars => SpendsOnce
<1> SUFFICES ASSUME [Next]_vars PROVE SpendsOnce
  OBVIOUS
<1>1. \A t \in Thread, ok \in BOOLEAN : Call(t, ok) => SpendsOnce
  BY DEF Call, SpendsOnce, Bound
<1>2. ASSUME NEW t \in Thread,
             \/ HandleMessageCreated(t) \/ HandleAudio(t)
             \/ HandleConversationUpdated(t) \/ Begin(t) \/ Step(t)
      PROVE  SpendsOnce
  <2>1. CASE \/ HandleMessageCreated(t) \/ HandleAudio(t)
             \/ HandleConversationUpdated(t)
    BY <2>1
    DEF HandleMessageCreated, HandleAudio, HandleConversationUpdated,
        Dispatch, Bound, SpendsOnce
  <2>2. CASE \/ Transcribe(t) \/ ClassifyFails(t) \/ ClassifyReply(t)
             \/ ClassifyRoute(t) \/ Reply(t)
    BY <2>2
    DEF Transcribe, ClassifyFails, ClassifyReply, ClassifyRoute, Reply,
        SpendsOnce
  <2>3. CASE Begin(t) \/ Save(t) \/ RouteLabels(t) \/ RouteSave(t)
    BY <1>1, <2>3 DEF Begin, Save, RouteLabels, RouteSave
  <2> QED
    BY <1>2, <2>1, <2>2, <2>3 DEF Step
<1>3. CASE Environment
  BY <1>3
  DEF Environment, AgentLabels, CtxExpire, CrashEngine, SpendsOnce, Bound
<1> QED
  BY <1>2, <1>3 DEF Next, vars, engine, SpendsOnce

\* What went wrong is never taken back.
LEMMA FailuresGrow ==
    ASSUME TypeOK, [Next]_vars
    PROVE  /\ Failures \in Nat /\ Failures' \in Nat /\ Failures' >= Failures
           /\ \A r \in DOMAIN Bound :
                  used[r] \in Nat /\ used'[r] \in Nat /\ used'[r] >= used[r]
<1>1. SpendsOnce
  BY StepSpends
<1>2. used \in [DOMAIN Bound -> Nat]
  BY DEF TypeOK
<1>3. \A r \in DOMAIN Bound :
          used[r] \in Nat /\ used'[r] \in Nat /\ used'[r] >= used[r]
  BY <1>1, <1>2, SpendOne DEF SpendsOnce
<1> QED
  BY <1>3 DEF Failures, Bound

\* A call that fails with a live context counts as a failure.
LEMMA CallFails ==
    ASSUME TypeOK, [Next]_vars,
           NEW t \in Thread, NEW ok \in BOOLEAN, Call(t, ok), live[t], ~ok
    PROVE  Failures' > Failures
<1>1. \A r \in {"faults", "expiries", "crashes"} :
          used[r] \in Nat /\ used'[r] \in Nat /\ used'[r] >= used[r]
  BY FailuresGrow DEF Bound
<1>2. used'["faults"] = used["faults"] + 1
  BY CallType DEF TypeOK
<1> QED
  BY <1>1, <1>2 DEF Failures

\* As long as no context expired every thread can still make its calls.
AllLive == used.expiries = 0 => \A t \in Thread : live[t]

LEMMA LiveStep ==
    ASSUME TypeOK, AllLive, [Next]_vars PROVE AllLive'
<1>1. CASE \E t \in Thread : CtxExpire(t)
  <2>1. used'["expiries"] = used["expiries"] + 1 /\ used["expiries"] \in Nat
    BY <1>1, SpendOne DEF CtxExpire, Bound, TypeOK
  <2> QED
    BY <2>1 DEF AllLive
<1>2. CASE ~ \E t \in Thread : CtxExpire(t)
  <2>1. ASSUME NEW t \in Thread,
               \/ HandleMessageCreated(t) \/ HandleAudio(t)
               \/ HandleConversationUpdated(t) \/ Begin(t) \/ Step(t)
        PROVE  \A u \in Thread : live[u] => live'[u]
    BY <2>1
    DEF HandleMessageCreated, HandleAudio, HandleConversationUpdated,
        Dispatch, Begin, Step, Transcribe, ClassifyFails, ClassifyReply,
        ClassifyRoute, Reply, Save, RouteLabels, RouteSave, Return, Finish,
        Goto, TypeOK
  <2>2. ASSUME Environment \/ UNCHANGED vars
        PROVE  \A u \in Thread : live[u] => live'[u]
    BY <1>2, <2>2
    DEF Environment, AgentLabels, CrashEngine, vars, engine, workers, TypeOK
  <2>3. used'["expiries"] = 0 => used["expiries"] = 0
    BY FailuresGrow DEF Bound
  <2>4. \A u \in Thread : live[u] => live'[u]
    BY <2>1, <2>2 DEF Next
  <2> QED
    BY <2>3, <2>4 DEF AllLive
<1> QED
  BY <1>1, <1>2

\* While nothing fails, nothing had failed before.
LEMMA SmoothBefore ==
    ASSUME TypeOK, [Next]_vars, Smooth'
    PROVE  /\ Smooth
           /\ \A r \in {"faults", "expiries", "crashes"} :
                  used[r] = 0 /\ used'[r] = 0
<1>1. \A r \in {"faults", "expiries", "crashes"} :
          used[r] \in Nat /\ used'[r] \in Nat /\ used'[r] >= used[r]
  BY FailuresGrow DEF Bound
<1> QED
  BY <1>1 DEF Smooth

\* While nothing fails a call returns without error.
LEMMA SmoothCall ==
    ASSUME TypeOK, AllLive, [Next]_vars, Smooth', NEW ok \in BOOLEAN
    PROVE  \A t \in Thread : live[t] /\ (Call(t, ok) => ok)
<1>1. \A t \in Thread : live[t]
  BY SmoothBefore DEF AllLive
<1>2. ~ Spend("faults")
  BY SmoothBefore, SpendOne DEF Bound, TypeOK
<1> QED
  BY <1>1, <1>2 DEF Call

\* The mutexes are kept by every step.
LEMMA FinalNext ==
    ASSUME TypeOK, TypeOK', FinalInv, [Next]_vars
    PROVE  /\ FinalInv'
           /\ used'["faults"] = 0 =>
                  \A c \in Conv : state[c] = "routed" => state'[c] = "routed"
<1>1. CASE UNCHANGED vars
  BY <1>1 DEF vars, engine, workers, FinalInv, LockHeld, SeenUnrouted
<1> QED
  BY <1>1, FinalStep, FinalEnvironment DEF Next

\* Two threads never hold the mutex of one conversation.
LEMMA OneHolder ==
    ASSUME FinalInv, NEW t \in Thread, NEW u \in Thread,
           pc[t] \in TriageStep, pc[u] \in TriageStep,
           job[t].conv = job[u].conv
    PROVE  t = u
BY DEF FinalInv, LockHeld

\* Nobody holds a mutex that is free.
LEMMA FreeMutex ==
    ASSUME FinalInv, NEW c \in Conv, lock[StripeOf(c)] = None,
           NEW t \in Thread, pc[t] \in TriageStep
    PROVE  job[t].conv # c
BY NoneAssumption DEF FinalInv, LockHeld

-----------------------------------------------------------------------------
(* One opening *)

\* The bot has spoken in the turns ts.
Spoken(ts) == Holds(ts, BotTurn)

\* A thread is about to save that the bot spoke to the customer.
Answered(c) ==
    \E t \in Thread : /\ pc[t] = "save" /\ live[t]
                      /\ job[t].conv = c /\ Spoken(job[t].turns)

\* Where the store does not show that the bot spoke, every opening but the one
\* being saved is owed to a failure.
OpeningsExcused ==
    \A c \in Conv :
        state[c] # "routed" /\ ~Spoken(turns[c]) =>
            opened[c] <= Failures \/ Answered(c)

\* So is every opening where a thread is about to greet.
OpenerExcused(t) ==
    pc[t] \in TriageStep /\ live[t] /\ ~Spoken(job[t].turns) =>
        opened[job[t].conv] <= Failures

OpeningInv ==
    /\ TypeOK /\ FinalInv
    /\ \A c \in Conv : opened[c] <= 1 + Failures
    /\ OpeningsExcused
    /\ \A t \in Thread : OpenerExcused(t)

\* A thread past the guards works for some conversation.
LEMMA WorkingOn ==
    ASSUME TypeOK, NEW t \in Thread, pc[t] \in TriageStep
    PROVE  job[t] \in Job /\ job[t].conv \in Conv
BY DEF TypeOK, TriageStep, Job

\* After a failure every opening so far is owed to one.
LEMMA OpeningAfterFailure ==
    ASSUME OpeningInv, TypeOK', FinalInv', [Next]_vars, Failures' > Failures,
           opened' = opened
    PROVE  OpeningInv'
<1>1. /\ Failures \in Nat /\ Failures' \in Nat
      /\ \A c \in Conv : opened[c] \in Nat /\ opened[c] <= 1 + Failures
  BY FailuresGrow DEF OpeningInv, TypeOK
<1>2. \A c \in Conv : opened'[c] <= Failures' /\ opened'[c] <= 1 + Failures'
  BY <1>1
<1>3. \A t \in Thread : pc'[t] \in TriageStep => job'[t].conv \in Conv
  BY DEF TypeOK, TriageStep, Job
<1> QED
  BY <1>2, <1>3 DEF OpeningInv, OpeningsExcused, OpenerExcused

\* A step that opens nothing, forgets no word of the bot and sends no one off
\* to greet.
LEMMA OpeningFrame ==
    ASSUME OpeningInv, TypeOK', FinalInv', [Next]_vars, opened' = opened,
           \A c \in Conv :
               state'[c] # "routed" /\ ~Spoken(turns'[c]) =>
                   /\ state[c] # "routed" /\ ~Spoken(turns[c])
                   /\ Answered(c) => Answered(c)',
           \A t \in Thread :
               pc'[t] \in TriageStep /\ live'[t] /\ ~Spoken(job'[t].turns) =>
                   /\ pc[t] \in TriageStep /\ live[t]
                   /\ ~Spoken(job[t].turns) /\ job'[t].conv = job[t].conv
    PROVE  OpeningInv'
<1>1. /\ Failures \in Nat /\ Failures' \in Nat /\ Failures' >= Failures
      /\ \A c \in Conv : opened[c] \in Nat /\ opened[c] <= 1 + Failures
  BY FailuresGrow DEF OpeningInv, TypeOK
<1>2. \A c \in Conv : opened'[c] <= 1 + Failures'
  BY <1>1
<1>3. ASSUME NEW c \in Conv, state'[c] # "routed", ~Spoken(turns'[c])
      PROVE  opened'[c] <= Failures' \/ Answered(c)'
  BY <1>1, <1>3 DEF OpeningInv, OpeningsExcused
<1>4. ASSUME NEW t \in Thread PROVE OpenerExcused(t)'
  <2> SUFFICES ASSUME pc'[t] \in TriageStep, live'[t], ~Spoken(job'[t].turns)
               PROVE  opened'[job'[t].conv] <= Failures'
    BY DEF OpenerExcused
  <2>1. job'[t].conv = job[t].conv /\ opened[job[t].conv] <= Failures
    BY DEF OpeningInv, OpenerExcused
  <2>2. job[t].conv \in Conv
    BY WorkingOn DEF OpeningInv
  <2> QED
    BY <1>1, <2>1, <2>2
<1> QED
  BY <1>2, <1>3, <1>4 DEF OpeningInv, OpeningsExcused

\* The threads other than t are left alone.
Others(t) ==
    \A u \in Thread \ {t} :
        pc'[u] = pc[u] /\ job'[u] = job[u] /\ live'[u] = live[u]

\* What other threads are about to save is left alone too, unless it is t's.
LEMMA AnsweredOthers ==
    ASSUME NEW t \in Thread, Others(t), NEW c \in Conv, Answered(c),
           pc[t] = "save" => job[t].conv # c
    PROVE  Answered(c)'
BY DEF Answered, Others

\* handleTriage greets under the mutex, and only if it found no word of its
\* own in the store.
LEMMA BeginOpening ==
    ASSUME OpeningInv, TypeOK', FinalInv', [Next]_vars,
           NEW t \in Thread, Begin(t)
    PROVE  OpeningInv'
<1>1. PICK c \in Conv, ok \in BOOLEAN : Begin(t)!(c, ok)
  BY DEF Begin
<1>2. /\ state' = state /\ turns' = turns /\ opened' = opened
      /\ pc[t] = "begin" /\ job[t].conv = c
  BY <1>1 DEF history, At
<1>3. TypeOK /\ job[t] \in Job
  BY <1>2 DEF OpeningInv, TypeOK
<1>4. Others(t)
  BY <1>1, <1>3 DEF Return, Finish, Others, TypeOK
<1>5. \A d \in Conv : Answered(d) => Answered(d)'
  BY <1>2, <1>4, AnsweredOthers
<1>6. CASE live[t] /\ ~ok
  BY <1>1, <1>2, <1>3, <1>6, CallFails, OpeningAfterFailure
<1>7. CASE Finish(t)
  <2>1. pc'[t] = "idle"
    BY <1>3, <1>7 DEF Finish, TypeOK
  <2> QED
    BY <1>2, <1>4, <1>5, <2>1, OpeningFrame DEF Others, TriageStep
<1>8. CASE ~Finish(t) /\ ~(live[t] /\ ~ok)
  <2> DEFINE td == IF ok THEN LoadTriage(turns[c]) ELSE <<>>
             ts == IF job[t].customer = Proactive THEN td
                   ELSE Append(td, job[t].customer)
  <2>1. /\ LockConv(t, c)
        /\ pc' = [pc EXCEPT ![t] = "classify"]
        /\ job' = [job EXCEPT ![t].turns = ts]
        /\ UNCHANGED live
        /\ ok => state[c] # "routed"
    BY <1>1, <1>2, <1>8 DEF Return, AlreadyRouted
  <2>2. td \in Seq(Nat) /\ job[t].customer \in Nat
    BY <1>3 DEF LoadTriage, TypeOK, Job
  <2>3. Spoken(td) => Spoken(ts)
    BY <2>2, HoldsAppend DEF Spoken
  <2>4. ok => td = turns[c]
    BY DEF LoadTriage
  <2> HIDE DEF td, ts
  <2>5. /\ pc'[t] = "classify" /\ live'[t] = live[t]
        /\ job'[t].turns = ts /\ job'[t].conv = c
    BY <1>2, <1>3, <2>1 DEF TypeOK, Job
  <2>6. ~Answered(c)
    BY <1>2, <2>1, FreeMutex DEF Answered, LockConv, TriageStep, OpeningInv
  <2>7. /\ Failures \in Nat /\ Failures' \in Nat /\ Failures' >= Failures
        /\ \A d \in Conv : opened[d] \in Nat /\ opened[d] <= 1 + Failures
    BY <1>3, FailuresGrow DEF OpeningInv, TypeOK
  <2>8. OpenerExcused(t)'
    <3> SUFFICES ASSUME live[t], ~Spoken(ts) PROVE opened[c] <= Failures'
      BY <1>2, <2>5 DEF OpenerExcused
    <3>1. ok /\ state[c] # "routed" /\ ~Spoken(turns[c])
      BY <1>8, <2>1, <2>3, <2>4
    <3>2. opened[c] <= Failures
      BY <2>6, <3>1 DEF OpeningInv, OpeningsExcused
    <3> QED
      BY <2>7, <3>2
  <2>9. ASSUME NEW u \in Thread \ {t} PROVE OpenerExcused(u)'
    <3>1. OpenerExcused(u)
      BY DEF OpeningInv
    <3>2. pc[u] \in TriageStep => job[u].conv \in Conv
      BY <1>3, WorkingOn
    <3> QED
      BY <1>2, <1>4, <2>7, <3>1, <3>2 DEF OpenerExcused, Others
  <2>10. OpeningsExcused'
    BY <1>2, <1>5, <2>7 DEF OpeningInv, OpeningsExcused
  <2>11. \A d \in Conv : opened'[d] <= 1 + Failures'
    BY <1>2, <2>7
  <2> QED
    BY <2>8, <2>9, <2>10, <2>11 DEF OpeningInv
<1> QED
  BY <1>6, <1>7, <1>8

\* A greeting is a turn of the bot, saved before the mutex is given back.
LEMMA ReplyOpening ==
    ASSUME OpeningInv, TypeOK', FinalInv', [Next]_vars,
           NEW t \in Thread, Reply(t)
    PROVE  OpeningInv'
<1>1. PICK c \in Conv : Reply(t)!(c)
  BY DEF Reply
<1> DEFINE ts == job[t].turns
<1>2. /\ state' = state /\ turns' = turns /\ live' = live
      /\ pc[t] = "reply" /\ job[t].conv = c
  BY <1>1 DEF At
<1>3. TypeOK /\ job[t] \in Job /\ ts \in Seq(Nat)
  BY <1>2, WorkingOn DEF OpeningInv, TriageStep, Job
<1>4. Others(t)
  BY <1>1, <1>3 DEF Others, TypeOK
<1>5. /\ pc'[t] = "save" /\ job'[t].conv = c
      /\ job'[t].turns = Append(ts, BotTurn)
  BY <1>1, <1>2, <1>3 DEF TypeOK, Job
<1>6. Spoken(job'[t].turns)
  BY <1>3, <1>5, HoldsAppend DEF Spoken, BotTurn
<1>7. /\ Failures \in Nat /\ Failures' \in Nat /\ Failures' >= Failures
      /\ \A d \in Conv : opened[d] \in Nat /\ opened[d] <= 1 + Failures
  BY <1>3, FailuresGrow DEF OpeningInv, TypeOK
<1>8. \A d \in Conv : Answered(d) => Answered(d)'
  BY <1>2, <1>4, AnsweredOthers
<1>9. \A d \in Conv \ {c} : opened'[d] = opened[d]
  BY <1>1, <1>3 DEF TypeOK
<1>10. CASE live[t] /\ ~Spoken(ts)
  <2>1. opened[c] <= Failures
    BY <1>2, <1>10 DEF OpeningInv, OpenerExcused, TriageStep
  <2>2. opened'[c] = opened[c] + 1
    BY <1>1, <1>3, <1>10 DEF Spoken, Holds, TypeOK
  <2>3. Answered(c)'
    BY <1>2, <1>5, <1>6, <1>10 DEF Answered
  <2>4. \A d \in Conv : opened'[d] <= 1 + Failures'
    BY <1>7, <1>9, <2>1, <2>2
  <2>5. OpeningsExcused'
    BY <1>2, <1>7, <1>8, <1>9, <2>3 DEF OpeningInv, OpeningsExcused
  <2>6. ASSUME NEW u \in Thread PROVE OpenerExcused(u)'
    <3>1. CASE u = t
      BY <1>6, <3>1 DEF OpenerExcused
    <3>2. CASE u # t /\ pc[u] \in TriageStep
      <4>1. job[u].conv \in Conv \ {c}
        BY <1>2, <1>3, <3>2, WorkingOn, OneHolder DEF OpeningInv, TriageStep
      <4>2. OpenerExcused(u)
        BY DEF OpeningInv
      <4> QED
        BY <1>4, <1>7, <1>9, <3>2, <4>1, <4>2 DEF OpenerExcused, Others
    <3> QED
      BY <1>4, <3>1, <3>2 DEF OpenerExcused, Others
  <2> QED
    BY <2>4, <2>5, <2>6 DEF OpeningInv
<1>11. CASE ~(live[t] /\ ~Spoken(ts))
  <2>1. opened' = opened
    BY <1>1, <1>3, <1>11 DEF Spoken, Holds, TypeOK
  <2> QED
    BY <1>2, <1>4, <1>6, <1>8, <2>1, OpeningFrame DEF Others
<1> QED
  BY <1>10, <1>11

\* Once the mutex is given back the store shows what the bot said, or the
\* write failed.
LEMMA SaveOpening ==
    ASSUME OpeningInv, TypeOK', FinalInv', [Next]_vars,
           NEW t \in Thread, Save(t) \/ RouteSave(t)
    PROVE  OpeningInv'
<1>1. PICK c, ok, s, ts :
          /\ c \in Conv /\ ok \in BOOLEAN /\ s \in {"triage", "routed"}
          /\ pc[t] \in TriageStep /\ job[t].conv = c
          /\ Call(t, ok) /\ SaveRow(c, s, ts, ok) /\ Finish(t)
          /\ opened' = opened
          /\ s = "triage" => ts = job[t].turns
          /\ pc[t] = "save" => s = "triage"
  BY DEF Save, RouteSave, At, TriageStep, history
<1>2. TypeOK
  BY DEF OpeningInv
<1>3. Others(t) /\ pc'[t] = "idle"
  BY <1>1, <1>2 DEF Finish, Others, TypeOK
<1>4. \A d \in Conv \ {c} : Answered(d) => Answered(d)'
  BY <1>1, <1>3, AnsweredOthers
<1>5. CASE ~ok /\ live[t]
  BY <1>1, <1>2, <1>5, CallFails, OpeningAfterFailure
<1>6. CASE ~ok /\ ~live[t]
  <2>1. \A d \in Conv : Answered(d) => Answered(d)'
    BY <1>3, <1>6 DEF Answered, Others
  <2>2. state' = state /\ turns' = turns
    BY <1>1, <1>6 DEF SaveRow, SaveState
  <2> QED
    BY <1>1, <1>3, <2>1, <2>2, OpeningFrame DEF Others, TriageStep
<1>7. CASE ok
  <2>1. /\ live[t] /\ state'[c] = s /\ turns'[c] = ts
        /\ \A d \in Conv \ {c} : state'[d] = state[d] /\ turns'[d] = turns[d]
    BY <1>1, <1>2, <1>7 DEF SaveRow, SaveState, Call, TypeOK
  <2>2. /\ Failures \in Nat /\ Failures' \in Nat /\ Failures' >= Failures
        /\ \A d \in Conv : opened[d] \in Nat /\ opened[d] <= 1 + Failures
    BY <1>2, FailuresGrow DEF OpeningInv, TypeOK
  <2>3. s = "triage" /\ ~Spoken(ts) => opened[c] <= Failures
    BY <1>1, <2>1 DEF OpeningInv, OpenerExcused
  <2>4. ASSUME NEW d \in Conv, state'[d] # "routed", ~Spoken(turns'[d])
        PROVE  opened'[d] <= Failures' \/ Answered(d)'
    <3>1. CASE d = c
      BY <1>1, <2>1, <2>2, <2>3, <2>4, <3>1
    <3>2. CASE d # c
      BY <1>1, <1>4, <2>1, <2>2, <2>4, <3>2 DEF OpeningInv, OpeningsExcused
    <3> QED
      BY <3>1, <3>2
  <2>5. ASSUME NEW u \in Thread PROVE OpenerExcused(u)'
    <3>1. OpenerExcused(u)
      BY DEF OpeningInv
    <3>2. pc[u] \in TriageStep => job[u].conv \in Conv
      BY <1>2, WorkingOn
    <3> QED
      BY <1>1, <1>3, <2>2, <3>1, <3>2 DEF OpenerExcused, Others, TriageStep
  <2>6. \A d \in Conv : opened'[d] <= 1 + Failures'
    BY <1>1, <2>2
  <2> QED
    BY <2>4, <2>5, <2>6 DEF OpeningInv, OpeningsExcused
<1> QED
  BY <1>5, <1>6, <1>7

\* Nothing else opens a conversation or forgets that it was opened.
LEMMA OtherOpening ==
    ASSUME OpeningInv, TypeOK', FinalInv', [Next]_vars,
           \/ \E t \in Thread :
                 \/ HandleMessageCreated(t) \/ HandleAudio(t)
                 \/ HandleConversationUpdated(t)
                 \/ Transcribe(t) \/ ClassifyFails(t) \/ ClassifyReply(t)
                 \/ ClassifyRoute(t) \/ RouteLabels(t)
           \/ Environment
           \/ UNCHANGED vars
    PROVE  OpeningInv'
<1>1. TypeOK
  BY DEF OpeningInv
<1>2. ASSUME NEW t \in Thread,
             \/ HandleMessageCreated(t) \/ HandleAudio(t)
             \/ HandleConversationUpdated(t)
             \/ Transcribe(t) \/ ClassifyFails(t) \/ ClassifyReply(t)
             \/ ClassifyRoute(t) \/ RouteLabels(t)
      PROVE  OpeningInv'
  <2>1. /\ state' = state /\ turns' = turns /\ opened' = opened
        /\ pc[t] # "save"
    BY <1>2
    DEF HandleMessageCreated, HandleAudio, HandleConversationUpdated, Dispatch,
        Transcribe, ClassifyFails, ClassifyReply, ClassifyRoute, RouteLabels,
        At, history
  <2>2. CASE \/ HandleMessageCreated(t) \/ HandleAudio(t)
             \/ HandleConversationUpdated(t) \/ Transcribe(t)
    <3>1. pc'[t] \notin TriageStep
      BY <1>1, <2>2
      DEF HandleMessageCreated, HandleAudio, HandleConversationUpdated,
          Dispatch, Transcribe, Finish, TriageStep, TypeOK
    <3>2. Others(t)
      BY <1>1, <2>2
      DEF HandleMessageCreated, HandleAudio, HandleConversationUpdated,
          Dispatch, Transcribe, Finish, Others, TypeOK
    <3>3. \A d \in Conv : Answered(d) => Answered(d)'
      BY <2>1, <3>2, AnsweredOthers
    <3> QED
      BY <2>1, <3>1, <3>2, <3>3, OpeningFrame DEF Others
  <2>3. CASE \/ ClassifyFails(t) \/ ClassifyReply(t) \/ ClassifyRoute(t)
             \/ RouteLabels(t)
    <3>1. pc[t] \in TriageStep
      BY <2>3
      DEF ClassifyFails, ClassifyReply, ClassifyRoute, RouteLabels, At,
          TriageStep
    <3>2. job[t] \in Job
      BY <1>1, <3>1, WorkingOn
    <3>3. /\ Others(t)
          /\ \/ pc'[t] = "idle"
             \/ /\ live'[t] = live[t] /\ job'[t].conv = job[t].conv
                /\ job'[t].turns = job[t].turns
      <4>1. CASE ClassifyRoute(t)
        <5>1. PICK label : job' = [job EXCEPT ![t].label = label]
          BY <4>1 DEF ClassifyRoute
        <5> QED
          BY <1>1, <3>2, <4>1, <5>1 DEF ClassifyRoute, Others, TypeOK, Job
      <4>2. CASE ClassifyFails(t) \/ ClassifyReply(t) \/ RouteLabels(t)
        BY <1>1, <4>2
        DEF ClassifyFails, ClassifyReply, RouteLabels, Goto, Finish, Others,
            TypeOK
      <4> QED
        BY <2>3, <4>1, <4>2
    <3>4. \A d \in Conv : Answered(d) => Answered(d)'
      BY <2>1, <3>3, AnsweredOthers
    <3> QED
      BY <2>1, <3>1, <3>3, <3>4, OpeningFrame DEF Others, TriageStep
  <2> QED
    BY <1>2, <2>2, <2>3
<1>3. CASE Environment
  <2>1. state' = state /\ turns' = turns /\ opened' = opened
    BY <1>3
    DEF Environment, AgentLabels, CtxExpire, CrashEngine, history
  <2>2. CASE \E c \in Conv : AgentLabels(c)
    <3>1. UNCHANGED <<pc, job, live>>
      BY <2>2 DEF AgentLabels, workers
    <3>2. \A d \in Conv : Answered(d) => Answered(d)'
      BY <3>1 DEF Answered
    <3> QED
      BY <2>1, <3>1, <3>2, OpeningFrame
  <2>3. CASE CrashEngine \/ \E t \in Thread : CtxExpire(t)
    <3>1. PICK r \in {"crashes", "expiries"} : Spend(r)
      BY <2>3 DEF CrashEngine, CtxExpire
    <3>2. used'[r] = used[r] + 1
      BY <1>1, <3>1, SpendOne DEF TypeOK, Bound
    <3>3. \A q \in {"faults", "expiries", "crashes"} :
              used[q] \in Nat /\ used'[q] \in Nat /\ used'[q] >= used[q]
      BY <1>1, FailuresGrow DEF Bound
    <3>4. Failures' > Failures
      BY <3>2, <3>3 DEF Failures
    <3> QED
      BY <2>1, <3>4, OpeningAfterFailure
  <2> QED
    BY <1>3, <2>2, <2>3 DEF Environment
<1>4. CASE UNCHANGED vars
  <2>1. /\ UNCHANGED <<pc, job, live>>
        /\ state' = state /\ turns' = turns /\ opened' = opened
    BY <1>4 DEF vars, engine, workers, history
  <2>2. \A d \in Conv : Answered(d) => Answered(d)'
    BY <2>1 DEF Answered
  <2> QED
    BY <2>1, <2>2, OpeningFrame
<1> QED
  BY <1>2, <1>3, <1>4

\* The proactive greeting, the reply to a first message and two webhooks of
\* one label together open a conversation once, and once more for each call
\* that failed, context that expired or crash.
THEOREM OpenedOnce == Spec => []OneOpening
<1>1. TypeOK /\ FinalInv /\ Init => OpeningInv
  <2> SUFFICES ASSUME TypeOK, FinalInv, Init PROVE OpeningInv
    OBVIOUS
  <2>1. Failures = 0 /\ \A c \in Conv : opened[c] = 0
    BY DEF Init, EngineInit, Failures, Bound
  <2>2. \A t \in Thread : pc[t] \notin TriageStep
    BY DEF Init, EngineInit, TriageStep
  <2> QED
    BY <2>1, <2>2 DEF OpeningInv, OpeningsExcused, OpenerExcused
<1>2. OpeningInv /\ [Next]_vars => OpeningInv'
  <2> SUFFICES ASSUME OpeningInv, [Next]_vars PROVE OpeningInv'
    OBVIOUS
  <2>1. TypeOK' /\ FinalInv'
    BY NextType, FinalNext DEF OpeningInv
  <2> QED
    BY <2>1, BeginOpening, ReplyOpening, SaveOpening, OtherOpening
    DEF Next, Step
<1>3. OpeningInv => OneOpening
  <2> SUFFICES ASSUME OpeningInv PROVE OneOpening
    OBVIOUS
  <2>1. \A r \in {"faults", "expiries", "crashes"} : used[r] \in Nat
    BY DEF OpeningInv, TypeOK, Bound
  <2> QED
    BY <2>1 DEF OpeningInv, OneOpening, Failures, TypeOK
<1> QED
  BY InitType, FinalInit, <1>1, <1>2, <1>3, PTL DEF Spec

-----------------------------------------------------------------------------
(* No turn is lost *)

\* A thread that will store the turns of its conversation has read those it
\* finds there and added the message it handles.
Carries(t) ==
    /\ pc[t] \in {"classify", "reply", "save"} =>
           /\ \A n : Holds(turns[job[t].conv], n) => Holds(job[t].turns, n)
           /\ job[t].customer # Proactive =>
                  Holds(job[t].turns, job[t].customer)
    /\ pc[t] = "transcribe" => job[t].customer = Proactive

\* Every message of a conversation that is not routed is in hand or stored.
Kept(c) ==
    state[c] = "routed" \/
        \A n \in 1 .. told[c] : InHand(c, n) \/ Holds(turns[c], n)

CarryInv ==
    /\ TypeOK /\ FinalInv /\ AllLive
    /\ Smooth => /\ \A t \in Thread : Carries(t)
                 /\ \A c \in Conv : Kept(c)

\* What a smooth step may rely on.
LEMMA SmoothStep ==
    ASSUME CarryInv, [Next]_vars, Smooth'
    PROVE  /\ TypeOK /\ FinalInv
           /\ \A t \in Thread : Carries(t)
           /\ \A c \in Conv : Kept(c)
           /\ \A c \in Conv : state[c] = "routed" => state'[c] = "routed"
           /\ \A t \in Thread, ok \in BOOLEAN : Call(t, ok) => ok
<1>1. Smooth /\ used'["faults"] = 0
  BY SmoothBefore DEF CarryInv
<1>2. TypeOK'
  BY NextType DEF CarryInv
<1> QED
  BY <1>1, <1>2, FinalNext, SmoothCall DEF CarryInv

\* A thread that keeps its message, or leaves it stored.
LEMMA KeptFrame ==
    ASSUME NEW t \in Thread, Others(t),
           NEW c \in Conv, Kept(c), told'[c] = told[c],
           state[c] = "routed" => state'[c] = "routed",
           state'[c] = "routed" \/
               \A n \in 1 .. told[c] :
                   /\ Holds(turns[c], n) => Holds(turns'[c], n)
                   /\ pc[t] # "idle" /\ job[t].conv = c
                          /\ job[t].customer = n =>
                          \/ Holds(turns'[c], n)
                          \/ /\ pc'[t] # "idle" /\ job'[t].conv = c
                             /\ job'[t].customer = n
    PROVE  Kept(c)'
<1> SUFFICES ASSUME state'[c] # "routed", NEW n \in 1 .. told[c]
             PROVE  InHand(c, n)' \/ Holds(turns'[c], n)
  BY DEF Kept
<1>1. CASE Holds(turns[c], n)
  BY <1>1
<1>2. CASE InHand(c, n)
  <2>1. PICK u \in Thread :
            pc[u] # "idle" /\ job[u].conv = c /\ job[u].customer = n
    BY <1>2 DEF InHand
  <2>2. CASE u = t
    BY <2>1, <2>2 DEF InHand
  <2>3. CASE u # t
    BY <2>1, <2>3 DEF InHand, Others
  <2> QED
    BY <2>2, <2>3
<1> QED
  BY <1>1, <1>2 DEF Kept

\* The threads that do not hold the mutex carry what they carried.
LEMMA OthersCarry ==
    ASSUME TypeOK, FinalInv, NEW t \in Thread, Others(t),
           \A d \in Conv : turns'[d] # turns[d] =>
               pc[t] \in TriageStep /\ job[t].conv = d,
           NEW u \in Thread \ {t}, Carries(u)
    PROVE  Carries(u)'
<1>1. pc'[u] = pc[u] /\ job'[u] = job[u]
  BY DEF Others
<1>2. ASSUME pc[u] \in {"classify", "reply", "save"}
      PROVE  turns'[job[u].conv] = turns[job[u].conv]
  <2>1. pc[u] \in TriageStep
    BY <1>2 DEF TriageStep
  <2> QED
    BY <2>1, WorkingOn, OneHolder
<1> QED
  BY <1>1, <1>2 DEF Carries

\* An event puts its message in the hands of a thread.
LEMMA EventCarries ==
    ASSUME CarryInv, [Next]_vars, Smooth', NEW t \in Thread,
           \/ HandleMessageCreated(t) \/ HandleAudio(t)
           \/ HandleConversationUpdated(t)
    PROVE  /\ \A u \in Thread : Carries(u)'
           /\ \A c \in Conv : Kept(c)'
<1>1. /\ TypeOK /\ FinalInv
      /\ \A u \in Thread : Carries(u)
      /\ \A c \in Conv : Kept(c)
  BY SmoothStep
<1>2. PICK c \in Conv, ls \in LabelSet, step \in {"begin", "transcribe"},
           n \in Nat :
          /\ Dispatch(t, step, NewJob(c, ls, n))
          /\ turns' = turns
          /\ \/ n = Proactive /\ told' = told
             \/ /\ step = "begin" /\ n = told[c] + 1
                /\ told' = [told EXCEPT ![c] = @ + 1]
  <2>1. \A c \in Conv : told[c] + 1 \in Nat
    BY <1>1 DEF TypeOK
  <2> QED
    BY <2>1
    DEF HandleMessageCreated, HandleAudio, HandleConversationUpdated, history,
        Proactive
<1>3. /\ Others(t) /\ pc[t] = "idle" /\ state' = state
      /\ pc'[t] = step /\ job'[t].conv = c /\ job'[t].customer = n
  BY <1>1, <1>2 DEF Dispatch, Others, NewJob, TypeOK
<1>4. \A u \in Thread : Carries(u)'
  <2>1. Carries(t)'
    BY <1>2, <1>3 DEF Carries
  <2> QED
    BY <1>1, <1>2, <1>3, <2>1, OthersCarry
<1>5. ASSUME NEW d \in Conv PROVE Kept(d)'
  <2>1. CASE told'[d] = told[d]
    BY <1>1, <1>2, <1>3, <2>1, KeptFrame
  <2>2. CASE told'[d] # told[d]
    <3>1. /\ d = c /\ n = told[c] + 1 /\ told'[c] = told[c] + 1
          /\ told[c] \in Nat /\ step = "begin"
      BY <1>1, <1>2, <2>2 DEF TypeOK
    <3>2. InHand(c, n)'
      BY <1>3, <3>1 DEF InHand
    <3>3. \A m : InHand(c, m) => InHand(c, m)'
      BY <1>3 DEF InHand, Others
    <3>4. \A m \in 1 .. told[c] + 1 : m \in 1 .. told[c] \/ m = n
      BY <3>1
    <3> QED
      BY <1>1, <1>2, <1>3, <3>1, <3>2, <3>3, <3>4 DEF Kept
  <2> QED
    BY <2>1, <2>2
<1> QED
  BY <1>4, <1>5

\* A transcription is a message once it is read, and none if it fails.
LEMMA TranscribeCarries ==
    ASSUME CarryInv, [Next]_vars, Smooth', NEW t \in Thread, Transcribe(t)
    PROVE  /\ \A u \in Thread : Carries(u)'
           /\ \A c \in Conv : Kept(c)'
<1>1. /\ TypeOK /\ FinalInv
      /\ \A u \in Thread : Carries(u)
      /\ \A c \in Conv : Kept(c)
  BY SmoothStep
<1>2. PICK c \in Conv, ok \in BOOLEAN : Transcribe(t)!(c, ok)
  BY DEF Transcribe
<1>3. /\ state' = state /\ turns' = turns /\ Others(t)
      /\ pc[t] = "transcribe" /\ job[t].conv = c /\ job[t] \in Job
      /\ job[t].customer = Proactive
  BY <1>1, <1>2 DEF At, Finish, Others, TypeOK, Carries
<1>4. pc'[t] \in {"begin", "idle"}
  BY <1>1, <1>2 DEF Finish, TypeOK
<1>5. \A u \in Thread : Carries(u)'
  <2>1. Carries(t)'
    BY <1>4 DEF Carries
  <2> QED
    BY <1>1, <1>3, <2>1, OthersCarry
<1>6. ASSUME NEW d \in Conv PROVE Kept(d)'
  <2>1. CASE told'[d] = told[d]
    BY <1>1, <1>3, <2>1, KeptFrame DEF Proactive
  <2>2. CASE told'[d] # told[d]
    <3>1. PICK n : n = told[c] + 1
      OBVIOUS
    <3>2. d = c /\ ok /\ told'[c] = n /\ told[c] \in Nat
      BY <1>1, <1>2, <2>2, <3>1 DEF TypeOK
    <3>3. /\ pc'[t] = "begin" /\ job'[t].conv = c
          /\ job'[t].customer = n
      BY <1>1, <1>2, <1>3, <3>1, <3>2 DEF TypeOK, Job
    <3>4. InHand(c, n)'
      BY <3>3 DEF InHand
    <3>5. ASSUME NEW m \in 1 .. told[c], InHand(c, m) PROVE InHand(c, m)'
      BY <1>3, <3>2, <3>5 DEF InHand, Others, Proactive
    <3>6. \A m \in 1 .. n : m \in 1 .. told[c] \/ m = n
      BY <3>1, <3>2
    <3> QED
      BY <1>1, <1>3, <3>2, <3>4, <3>5, <3>6 DEF Kept
  <2> QED
    BY <2>1, <2>2
<1> QED
  BY <1>5, <1>6

\* handleTriage adds its message to the turns of the store, and returns
\* without it only from a conversation that is routed.
LEMMA BeginCarries ==
    ASSUME CarryInv, [Next]_vars, Smooth', NEW t \in Thread, Begin(t)
    PROVE  /\ \A u \in Thread : Carries(u)'
           /\ \A c \in Conv : Kept(c)'
<1>1. /\ TypeOK /\ FinalInv
      /\ \A u \in Thread : Carries(u)
      /\ \A c \in Conv : Kept(c)
      /\ \A u \in Thread, ok \in BOOLEAN : Call(u, ok) => ok
  BY SmoothStep
<1>2. PICK c \in Conv, ok \in BOOLEAN : Begin(t)!(c, ok)
  BY DEF Begin
<1>3. /\ ok /\ state' = state /\ turns' = turns /\ told' = told
      /\ pc[t] = "begin" /\ job[t].conv = c /\ job[t] \in Job
  BY <1>1, <1>2 DEF At, history, TypeOK
<1>4. Others(t)
  BY <1>1, <1>2 DEF Return, Finish, Others, TypeOK
<1>5. CASE Finish(t)
  <2>1. pc'[t] = "idle"
    BY <1>1, <1>5 DEF Finish, TypeOK
  <2>2. state[c] = "routed" \/ job[t].customer = Proactive
    <3>1. CASE pc' = [pc EXCEPT ![t] = "classify"]
      BY <1>1, <2>1, <3>1 DEF TypeOK
    <3> QED
      BY <1>2, <1>3, <3>1 DEF AlreadyRouted
  <2>3. Carries(t)'
    BY <2>1 DEF Carries
  <2> QED
    BY <1>1, <1>3, <1>4, <2>2, <2>3, OthersCarry, KeptFrame DEF Proactive
<1>6. CASE ~Finish(t)
  <2> DEFINE td == LoadTriage(turns[c])
             ts == IF job[t].customer = Proactive THEN td
                   ELSE Append(td, job[t].customer)
  <2>1. /\ pc' = [pc EXCEPT ![t] = "classify"]
        /\ job' = [job EXCEPT ![t].turns = ts]
    BY <1>2, <1>3, <1>6 DEF Return
  <2>2. td \in Seq(Nat) /\ td = turns[c] /\ job[t].customer \in Nat
    BY <1>1, <1>3 DEF LoadTriage, TypeOK, Job
  <2>3. /\ \A n : Holds(turns[c], n) => Holds(ts, n)
        /\ job[t].customer # Proactive => Holds(ts, job[t].customer)
    BY <2>2, HoldsAppend
  <2> HIDE DEF td, ts
  <2>4. /\ pc'[t] = "classify" /\ job'[t].conv = c /\ job'[t].turns = ts
        /\ job'[t].customer = job[t].customer
    BY <1>1, <1>3, <2>1 DEF TypeOK, Job
  <2>5. Carries(t)'
    BY <1>3, <2>3, <2>4 DEF Carries
  <2> QED
    BY <1>1, <1>3, <1>4, <2>4, <2>5, OthersCarry, KeptFrame
<1> QED
  BY <1>5, <1>6

\* Between the read and the write the turns only grow.
LEMMA MiddleCarries ==
    ASSUME CarryInv, [Next]_vars, Smooth', NEW t \in Thread,
           \/ ClassifyFails(t) \/ ClassifyReply(t) \/ ClassifyRoute(t)
           \/ Reply(t) \/ RouteLabels(t)
    PROVE  /\ \A u \in Thread : Carries(u)'
           /\ \A c \in Conv : Kept(c)'
<1>1. /\ TypeOK /\ FinalInv
      /\ \A u \in Thread : Carries(u)
      /\ \A c \in Conv : Kept(c)
      /\ \A u \in Thread, ok \in BOOLEAN : Call(u, ok) => ok
  BY SmoothStep
<1>2. /\ state' = state /\ turns' = turns /\ told' = told
      /\ pc[t] \in TriageStep
  BY DEF ClassifyFails, ClassifyReply, ClassifyRoute, Reply, RouteLabels, At,
         TriageStep, history
<1>3. job[t] \in Job /\ job[t].conv \in Conv
  BY <1>1, <1>2, WorkingOn
<1>4. /\ Others(t)
      /\ pc'[t] # "idle" /\ pc'[t] # "transcribe"
      /\ job'[t].conv = job[t].conv /\ job'[t].customer = job[t].customer
      /\ pc'[t] \in {"classify", "reply", "save"} =>
             /\ pc[t] \in {"classify", "reply", "save"}
             /\ \A n : Holds(job[t].turns, n) => Holds(job'[t].turns, n)
  <2>1. CASE ClassifyRoute(t)
    <3>1. PICK label : job' = [job EXCEPT ![t].label = label]
      BY <2>1 DEF ClassifyRoute
    <3> QED
      BY <1>1, <1>3, <2>1, <3>1 DEF ClassifyRoute, Others, TypeOK, Job
  <2>2. CASE Reply(t)
    <3>1. \A n : Holds(job[t].turns, n) =>
              Holds(Append(job[t].turns, BotTurn), n)
      BY <1>3, HoldsAppend DEF Job, BotTurn
    <3>2. /\ pc[t] = "reply" /\ pc' = [pc EXCEPT ![t] = "save"]
          /\ job' = [job EXCEPT ![t].turns = Append(job[t].turns, BotTurn)]
          /\ UNCHANGED live
      BY <2>2 DEF Reply, At
    <3> QED
      BY <1>1, <1>3, <3>1, <3>2 DEF Others, TypeOK, Job
  <2>3. CASE ClassifyFails(t) \/ ClassifyReply(t)
    BY <1>1, <2>3
    DEF ClassifyFails, ClassifyReply, At, Goto, Others, TypeOK
  <2>4. CASE RouteLabels(t)
    <3>1. Goto(t, "route.save")
      BY <1>1, <2>4 DEF RouteLabels, Labelled
    <3> QED
      BY <1>1, <3>1 DEF Goto, Others, TypeOK
  <2> QED
    BY <2>1, <2>2, <2>3, <2>4
<1>5. Carries(t)'
  <2>1. Carries(t)
    BY <1>1
  <2> QED
    BY <1>2, <1>4, <2>1 DEF Carries
<1>6. \A u \in Thread : Carries(u)'
  BY <1>1, <1>2, <1>4, <1>5, OthersCarry
<1>7. \A c \in Conv : Kept(c)'
  BY <1>1, <1>2, <1>4, KeptFrame
<1> QED
  BY <1>6, <1>7

\* The write stores what the thread carries, and nobody else has written the
\* row since it was read; routing drops the turns of what is then routed.
LEMMA SaveCarries ==
    ASSUME CarryInv, [Next]_vars, Smooth', NEW t \in Thread,
           Save(t) \/ RouteSave(t)
    PROVE  /\ \A u \in Thread : Carries(u)'
           /\ \A c \in Conv : Kept(c)'
<1>1. /\ TypeOK /\ FinalInv
      /\ \A u \in Thread : Carries(u)
      /\ \A c \in Conv : Kept(c)
      /\ \A c \in Conv : state[c] = "routed" => state'[c] = "routed"
      /\ \A u \in Thread, ok \in BOOLEAN : Call(u, ok) => ok
  BY SmoothStep
<1>2. PICK c, s, ts :
          /\ c \in Conv /\ s \in {"triage", "routed"}
          /\ pc[t] \in TriageStep /\ job[t].conv = c
          /\ SaveRow(c, s, ts, TRUE) /\ Finish(t) /\ told' = told
          /\ s = "triage" => pc[t] = "save" /\ ts = job[t].turns
  BY <1>1 DEF Save, RouteSave, At, TriageStep, history
<1>3. Others(t) /\ pc'[t] = "idle"
  BY <1>1, <1>2 DEF Finish, Others, TypeOK
<1>4. /\ state'[c] = s /\ turns'[c] = ts
      /\ \A d \in Conv \ {c} : state'[d] = state[d] /\ turns'[d] = turns[d]
  BY <1>1, <1>2 DEF SaveRow, SaveState, TypeOK
<1>5. \A u \in Thread : Carries(u)'
  <2>1. Carries(t)'
    BY <1>3 DEF Carries
  <2> QED
    BY <1>1, <1>2, <1>3, <1>4, <2>1, OthersCarry
<1>6. ASSUME NEW d \in Conv PROVE Kept(d)'
  <2>1. CASE d = c
    <3>1. Carries(t)
      BY <1>1
    <3>2. \A n \in 1 .. told[c] : n # Proactive
      BY DEF Proactive
    <3>3. s = "triage" =>
              \A n \in 1 .. told[c] :
                  /\ Holds(turns[c], n) => Holds(ts, n)
                  /\ job[t].customer = n => Holds(ts, n)
      BY <1>2, <3>1, <3>2 DEF Carries
    <3> QED
      BY <1>1, <1>2, <1>3, <1>4, <2>1, <3>3, KeptFrame
  <2>2. CASE d # c
    BY <1>1, <1>2, <1>3, <1>4, <2>2, KeptFrame
  <2> QED
    BY <2>1, <2>2
<1> QED
  BY <1>5, <1>6

\* Agents change labels only; an expiry or a crash is not smooth.
LEMMA IdleCarries ==
    ASSUME CarryInv, [Next]_vars, Smooth', Environment \/ UNCHANGED vars
    PROVE  /\ \A u \in Thread : Carries(u)'
           /\ \A c \in Conv : Kept(c)'
<1>1. /\ TypeOK
      /\ \A u \in Thread : Carries(u)
      /\ \A c \in Conv : Kept(c)
  BY SmoothStep
<1>2. ~ Spend("crashes") /\ ~ Spend("expiries")
  BY <1>1, SmoothBefore, SpendOne DEF TypeOK, Bound
<1>3. UNCHANGED <<state, pc, job, turns, told>>
  BY <1>2
  DEF Environment, AgentLabels, CtxExpire, CrashEngine, vars, engine, workers,
      history
<1> QED
  BY <1>1, <1>3 DEF Carries, Kept, InHand

\* Until it is routed a conversation loses no message of its customer, to a
\* concurrent worker or to a model that fails.
THEOREM EveryTurnKept == Spec => []NoTurnLost
<1>1. TypeOK /\ FinalInv /\ Init => CarryInv
  <2> SUFFICES ASSUME TypeOK, FinalInv, Init PROVE CarryInv
    OBVIOUS
  <2>1. AllLive /\ (\A t \in Thread : pc[t] = "idle")
    BY DEF AllLive, Init, EngineInit
  <2>2. \A c \in Conv : told[c] = 0
    BY DEF Init
  <2> QED
    BY <2>1, <2>2 DEF CarryInv, Carries, Kept
<1>2. CarryInv /\ [Next]_vars => CarryInv'
  <2> SUFFICES ASSUME CarryInv, [Next]_vars PROVE CarryInv'
    OBVIOUS
  <2>1. TypeOK' /\ FinalInv' /\ AllLive'
    BY NextType, FinalNext, LiveStep DEF CarryInv
  <2>2. Smooth' => /\ \A u \in Thread : Carries(u)'
                   /\ \A c \in Conv : Kept(c)'
    BY EventCarries, TranscribeCarries, BeginCarries, MiddleCarries,
       SaveCarries, IdleCarries
    DEF Next, Step
  <2> QED
    BY <2>1, <2>2 DEF CarryInv
<1>3. CarryInv => NoTurnLost
  BY DEF CarryInv, NoTurnLost, Kept, Holds
<1> QED
  BY InitType, FinalInit, <1>1, <1>2, <1>3, PTL DEF Spec
=============================================================================
