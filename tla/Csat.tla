-------------------------------- MODULE Csat --------------------------------
(***************************************************************************)
(* The satisfaction survey: startCSAT and handleCSATAnswer on the worker   *)
(* threads (internal/engine/csat.go), the reaper (internal/scheduler) and  *)
(* the two SQLite tables they share.  Workers serialise a conversation     *)
(* with a striped mutex; the reaper takes no mutex.  Every call to the     *)
(* store or to Chatwoot is a step of its own, it may fail, and the context *)
(* of a job may expire between two of them.                                *)
(***************************************************************************)
EXTENDS Engine, FiniteSets

CONSTANT ClaimLimit   \* deadlines the reaper takes per tick (100 in the code)

ASSUME LimitAssumption == ClaimLimit \in Nat \ {0}

VARIABLES
    deadline,  \* csat_deadlines.status, "none" when there is no row
    due,       \* csat_deadlines.deadline_at <= now
    batch,     \* the reaper: conversations claimed and not yet handled
    rpc,       \* the reaper: its next step
    rconv,     \* the reaper: the conversation being closed
    resolved,  \* Chatwoot: a toggle_status "resolved" was applied
    prompted,  \* history: rating prompts sent
    rated      \* history: ratings recorded

db == <<state, deadline, due>>
reaper == <<batch, rpc, rconv>>
chatwoot == <<labels, past, resolved>>
history == <<prompted, rated>>
vars == <<db, workers, reaper, chatwoot, history, used>>

Ended == {"csat_done", "closed_timeout"}
Status == {"none", "pending", "answered", "closing", "done"}
Open == {"pending", "closing"}

AskStep == {"ask.save", "ask.prompt", "ask.deadline"}
RateStep == {"rate.record", "rate.unlabel", "rate.answered",
             "rate.resolve", "rate.done"}
Locked == AskStep \union RateStep    \* the steps inside the critical section
Job == [conv : Conv, labels : LabelSet, rating : BOOLEAN]

Init ==
    /\ state \in [Conv -> State \ CsatState]
    /\ deadline = [c \in Conv |-> "none"]
    /\ due = [c \in Conv |-> FALSE]
    /\ labels \in [Conv -> SUBSET (Label \ {LabelCSAT})]
    /\ EngineInit
    /\ batch = {}
    /\ rpc = "claim"
    /\ rconv = None
    /\ resolved = [c \in Conv |-> FALSE]
    /\ prompted = [c \in Conv |-> 0]
    /\ rated = [c \in Conv |-> 0]

-----------------------------------------------------------------------------
ReaperCall(ok) == IF ok THEN UNCHANGED used ELSE Spend("faults")

Resolve(c, outcomes) ==
    \E applied \in outcomes :
        resolved' = [resolved EXCEPT ![c] = @ \/ applied]

-----------------------------------------------------------------------------
(* Events of the survey *)

HandleMessageCreated(t) ==
    \E c \in Conv, ls \in LabelSet, rating \in BOOLEAN :
        /\ CustomerMessage(c, ls, "csat")
        /\ Dispatch(t, "rate.begin",
                    [conv |-> c, labels |-> ls, rating |-> rating])
        /\ UNCHANGED <<deadline, due, reaper, resolved, history>>

HandleConversationUpdated(t) ==
    \E c \in Conv, ls \in LabelSet :
        /\ ConversationUpdate(c, ls, "csat")
        /\ Dispatch(t, "ask.begin",
                    [conv |-> c, labels |-> ls, rating |-> FALSE])
        /\ UNCHANGED <<deadline, due, reaper, resolved, history>>

-----------------------------------------------------------------------------
(* startCSAT *)

\* Only a survey still waiting for its rating counts as started.
OnlyPendingStarted(st) == st = "csat_pending"

AlreadyStarted(st) == st \in CsatState

\* getState returns nil on an error, as if the conversation had no row.
AskBegin(t) ==
    \E c \in Conv, ok \in BOOLEAN :
        /\ At(t, "ask.begin", c)
        /\ Call(t, ok)
        /\ IF ok /\ AlreadyStarted(state[c])
           THEN Return(t, c)
           ELSE /\ LockConv(t, c)
                /\ pc' = [pc EXCEPT ![t] = "ask.save"]
                /\ UNCHANGED <<job, live>>
        /\ UNCHANGED <<db, reaper, chatwoot, history>>

AskSave(t) ==
    \E c \in Conv, ok \in BOOLEAN :
        /\ At(t, "ask.save", c)
        /\ Call(t, ok)
        /\ SaveState(c, "csat_pending", ok)
        /\ Goto(t, "ask.prompt")
        /\ UNCHANGED <<deadline, due, reaper, chatwoot, history>>

\* The outcome of the call is only logged: a prompt counts once issued.
AskPrompt(t) ==
    \E c \in Conv :
        /\ At(t, "ask.prompt", c)
        /\ prompted' = [prompted EXCEPT ![c] = IF live[t] THEN @ + 1 ELSE @]
        /\ Goto(t, "ask.deadline")
        /\ UNCHANGED <<db, reaper, chatwoot, rated, used>>

AskDeadline(t) ==
    \E c \in Conv, ok \in BOOLEAN :
        /\ At(t, "ask.deadline", c)
        /\ Call(t, ok)
        /\ deadline' = IF ok THEN [deadline EXCEPT ![c] = "pending"]
                       ELSE deadline
        /\ due' = IF ok THEN [due EXCEPT ![c] = FALSE] ELSE due
        /\ Finish(t)
        /\ UNCHANGED <<state, reaper, chatwoot, history>>

-----------------------------------------------------------------------------
(* handleCSATAnswer *)

\* The answer is taken in any state of the survey.
AwaitsAnyState(st) == TRUE

AwaitsRating(st) == st = "csat_pending"

\* UPDATE touches the row of the conversation, if there is one.
MisspeltAnswered(c) ==
    deadline' = [deadline EXCEPT ![c] = IF @ = "none" THEN @ ELSE "replied"]

MarkDeadlineAnswered(c) ==
    deadline' = [deadline EXCEPT ![c] = IF @ = "none" THEN @ ELSE "answered"]

\* Any text from the customer cancels the deadline.
CancelDeadline(c) == MarkDeadlineAnswered(c)

\* A text without a rating only earns a reminder.
KeepDeadline(c) == UNCHANGED deadline

RateBegin(t) ==
    \E c \in Conv, ok \in BOOLEAN :
        /\ At(t, "rate.begin", c)
        /\ Call(t, ok)
        /\ IF ok /\ AwaitsRating(state[c]) /\ job[t].rating
           THEN /\ LockConv(t, c)
                /\ pc' = [pc EXCEPT ![t] = "rate.record"]
                /\ UNCHANGED <<deadline, job, live>>
           ELSE Return(t, c) /\ KeepDeadline(c)
        /\ UNCHANGED <<state, due, reaper, chatwoot, history>>

\* SetCustomAttributes; the note and the thanks only add messages.
RateRecord(t) ==
    \E c \in Conv, ok \in BOOLEAN :
        /\ At(t, "rate.record", c)
        /\ Call(t, ok)
        /\ \E applied \in CarriedOut(t, ok) :
               rated' = [rated EXCEPT ![c] = IF applied THEN @ + 1 ELSE @]
        /\ Goto(t, "rate.unlabel")
        /\ UNCHANGED <<db, reaper, chatwoot, prompted>>

\* The new list comes from the labels of the event, not from Chatwoot's.
RateUnlabel(t) ==
    \E c \in Conv, ok \in BOOLEAN :
        /\ At(t, "rate.unlabel", c)
        /\ Call(t, ok)
        /\ PostLabels(t, c, ReplaceLabel(job[t].labels, LabelCSAT, {}), ok)
        /\ Goto(t, "rate.answered")
        /\ UNCHANGED <<db, reaper, resolved, history>>

RateAnswered(t) ==
    \E c \in Conv, ok \in BOOLEAN :
        /\ At(t, "rate.answered", c)
        /\ Call(t, ok)
        /\ IF ok THEN MarkDeadlineAnswered(c) ELSE UNCHANGED deadline
        /\ Goto(t, "rate.resolve")
        /\ UNCHANGED <<state, due, reaper, chatwoot, history>>

RateResolve(t) ==
    \E c \in Conv, ok \in BOOLEAN :
        /\ At(t, "rate.resolve", c)
        /\ Call(t, ok)
        /\ Resolve(c, CarriedOut(t, ok))
        /\ Goto(t, "rate.done")
        /\ UNCHANGED <<db, reaper, labels, past, history>>

RateDone(t) ==
    \E c \in Conv, ok \in BOOLEAN :
        /\ At(t, "rate.done", c)
        /\ Call(t, ok)
        /\ SaveState(c, "csat_done", ok)
        /\ Finish(t)
        /\ UNCHANGED <<deadline, due, reaper, chatwoot, history>>

-----------------------------------------------------------------------------
(* The reaper *)

\* Deadlines that are not due yet are claimed too.
ExpiredOrNot(c) == deadline[c] \in Open

\* The comparison with the clock is the wrong way round.
NotYetExpired(c) == deadline[c] \in Open /\ ~due[c]

\* Rows left in 'closing' by an interrupted tick are forgotten.
ExpiredPending(c) == deadline[c] = "pending" /\ due[c]

Expired(c) == deadline[c] \in Open /\ due[c]

\* ClaimExpiredDeadlines marks every due row and returns at most ClaimLimit.
\* When it fails the update may or may not have been committed.
ReaperClaim ==
    /\ rpc = "claim"
    /\ LET all == {c \in Conv : Expired(c)}
           marked == [c \in Conv |->
                         IF c \in all THEN "closing" ELSE deadline[c]]
       IN  \E ok \in BOOLEAN :
               /\ ReaperCall(ok)
               /\ deadline' \in IF ok THEN {marked} ELSE {deadline, marked}
               /\ batch' \in
                    IF ok THEN {b \in SUBSET all :
                                  IF Cardinality(all) <= ClaimLimit
                                  THEN b = all ELSE Cardinality(b) = ClaimLimit}
                    ELSE {{}}
    /\ rpc' = IF batch' = {} THEN "claim" ELSE "resolve"
    /\ UNCHANGED <<state, due, workers, rconv, chatwoot, history>>

\* What the reaper does next once it is done with conversation c.
NextInBatch(c) ==
    /\ batch' = batch \ {c}
    /\ rpc' = IF batch' = {} THEN "claim" ELSE "resolve"
    /\ rconv' = None

\* The deadline is completed even when Chatwoot was not told to resolve.
CompleteAnyway(c) ==
    rpc' = "complete" /\ rconv' = c /\ UNCHANGED batch

\* A conversation that cannot be resolved stays 'closing' for the next tick.
LeaveClosing(c) == NextInBatch(c)

ReaperResolve ==
    /\ rpc = "resolve"
    /\ \E c \in batch, ok \in BOOLEAN :
        /\ ReaperCall(ok)
        /\ Resolve(c, IF ok THEN {TRUE} ELSE BOOLEAN)
        /\ IF ok THEN rpc' = "complete" /\ rconv' = c /\ UNCHANGED batch
           ELSE LeaveClosing(c)
    /\ UNCHANGED <<db, workers, labels, past, history>>

ReaperComplete ==
    /\ rpc = "complete"
    /\ \E ok \in BOOLEAN :
        /\ ReaperCall(ok)
        /\ deadline' = IF ok THEN [deadline EXCEPT ![rconv] = "done"]
                       ELSE deadline
    /\ rpc' = "close"
    /\ UNCHANGED <<state, due, workers, batch, rconv, chatwoot, history>>

ReaperClose ==
    /\ rpc = "close"
    /\ \E ok \in BOOLEAN :
        /\ ReaperCall(ok)
        /\ SaveState(rconv, "closed_timeout", ok)
    /\ NextInBatch(rconv)
    /\ UNCHANGED <<deadline, due, workers, chatwoot, history>>

-----------------------------------------------------------------------------
(* The environment: agents, the clock, job timeouts, crashes. *)

Environment ==
    /\ \/ \E c \in Conv : AgentLabels(c)
       \/ \E t \in Thread : CtxExpire(t)
    /\ UNCHANGED <<deadline, due, reaper, resolved, history>>

Expire(c) ==
    /\ deadline[c] # "none" /\ ~due[c]
    /\ due' = [due EXCEPT ![c] = TRUE]
    /\ UNCHANGED <<state, deadline, workers, reaper, chatwoot, history, used>>

Crash ==
    /\ CrashEngine
    /\ batch' = {} /\ rpc' = "claim" /\ rconv' = None
    /\ UNCHANGED <<deadline, due, resolved, history>>

-----------------------------------------------------------------------------
Start(t) == AskBegin(t) \/ RateBegin(t)
Step(t) ==
    \/ AskSave(t) \/ AskPrompt(t) \/ AskDeadline(t)
    \/ RateRecord(t) \/ RateUnlabel(t) \/ RateAnswered(t)
    \/ RateResolve(t) \/ RateDone(t)
Reaper == ReaperClaim \/ ReaperResolve \/ ReaperComplete \/ ReaperClose

Next ==
    \/ \E t \in Thread : \/ HandleMessageCreated(t)
                         \/ HandleConversationUpdated(t)
                         \/ Start(t) \/ Step(t)
    \/ Reaper
    \/ \E c \in Conv : Expire(c)
    \/ Environment
    \/ Crash

Spec == Init /\ [][Next]_vars

\* A tick that claims something: a claim does not fail for ever.
Work == Reaper /\ (rpc = "claim" => batch' # {})

\* Goroutines run, the reaper ticks and time passes.  sync.Mutex hands the
\* lock to a waiter that starves, hence strong fairness where it is taken.
Fairness ==
    /\ \A t \in Thread : SF_vars(Start(t)) /\ WF_vars(Step(t))
    /\ WF_vars(Work)
    /\ \A c \in Conv : WF_vars(Expire(c))

FairSpec == Spec /\ Fairness

-----------------------------------------------------------------------------
(* Properties *)

\* Every variable stays in its type, whatever fails.
TypeOK ==
    /\ state \in [Conv -> State]
    /\ deadline \in [Conv -> Status]
    /\ due \in [Conv -> BOOLEAN]
    /\ lock \in [0 .. ConvLockStripes - 1 -> Thread \union {None}]
    /\ pc \in [Thread -> Locked \union {"idle", "ask.begin", "rate.begin"}]
    /\ job \in [Thread -> Job \union {None}]
    /\ \A t \in Thread : pc[t] # "idle" => job[t] \in Job
    /\ live \in [Thread -> BOOLEAN]
    /\ batch \subseteq Conv
    /\ rpc \in {"claim", "resolve", "complete", "close"}
    /\ rconv \in Conv \union {None}
    /\ rpc \in {"complete", "close"} => rconv \in batch
    /\ labels \in [Conv -> LabelSet]
    /\ past \in [Conv -> SUBSET (LabelSet \X LabelSet)]
    /\ resolved \in [Conv -> BOOLEAN]
    /\ prompted \in [Conv -> Nat]
    /\ rated \in [Conv -> Nat]
    /\ used \in [DOMAIN Bound -> Nat]

\* However many webhooks carry fila-csat, and through crashes and expired
\* jobs, the customer is asked once, plus once per call that failed.
OnePrompt == \A c \in Conv : prompted[c] <= 1 + used.faults

\* A rating is recorded once; only a failure, an expired job or a crash
\* between recording it and saving csat_done lets a second one in.
OneRating ==
    \A c \in Conv :
        rated[c] <= 1 + used.faults + used.expiries + used.crashes

\* The handlers of the survey of c that are between two of their calls.
Closing(c) ==
    \/ \E t \in Thread : /\ pc[t] \in {"ask.prompt", "ask.deadline",
                                       "rate.resolve", "rate.done"}
                         /\ job[t].conv = c
    \/ rpc = "close" /\ rconv = c

\* While nothing fails, a survey that waits for a rating has an open deadline
\* in the store: no rating can get lost and leave the conversation waiting.
DurableTimeout ==
    Smooth =>
        \A c \in Conv : state[c] = "csat_pending" =>
            deadline[c] \in Open \/ Closing(c)

\* A survey is over in the store only if Chatwoot was told to resolve the
\* conversation: always for a timeout, for an answer unless a call failed.
EndedMeansResolved ==
    \A c \in Conv :
        /\ state[c] = "closed_timeout" => resolved[c]
        /\ state[c] = "csat_done" => resolved[c] \/ used.faults > 0

\* A survey that is over is not reopened by late or repeated webhooks, unless
\* a read of the state failed.
EndedIsFinal ==
    [][used'.faults = 0 =>
        \A c \in Conv : state[c] \in Ended => state'[c] \in Ended]_vars

\* A deadline in the store is always settled, across failures and restarts.
DeadlineSettled ==
    \A c \in Conv : deadline[c] \in Open ~> deadline[c] \notin Open

\* A survey always ends if nothing fails.
SurveyEnds ==
    \A c \in Conv :
        state[c] = "csat_pending" ~>
            \/ state[c] \in Ended
            \/ ~Smooth

\* Every job that reaches a worker finishes: no one waits for ever on a lock.
JobsFinish == \A t \in Thread : pc[t] # "idle" ~> pc[t] = "idle"

\* store.go:53 "marca o prazo como respondido (não será fechado pelo reaper)".
AnsweredNotReaped ==
    [][\A c \in Conv : deadline[c] = "answered" => deadline'[c] # "done"]_vars

\* README:126 "O timeout do CSAT é durável [...] sobrevivendo a
\* reinicializações": whatever crashes, a survey that waits for its rating is
\* closed in the end.
TimeoutSurvivesRestart ==
    \A c \in Conv : state[c] = "csat_pending" ~> state[c] \in Ended
=============================================================================
