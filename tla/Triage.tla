-------------------------------- MODULE Triage --------------------------------
(***************************************************************************)
(* The triage of a conversation: handleTriage and route                    *)
(* (internal/engine/triage.go) and the two handlers of fsm.go that lead    *)
(* to it, transcription included.  A thread is a worker of the pool        *)
(* (DEBOUNCE_WINDOW = 0) or the goroutine of a debounced flush: both enter *)
(* handleTriage with a snapshot of the conversation and a customer turn,   *)
(* or none for the proactive greeting, and share nothing else.             *)
(*                                                                         *)
(* A customer's message is the number of its arrival; what the model       *)
(* answers, and whether it answers, is arbitrary.                          *)
(***************************************************************************)
EXTENDS Engine, Sequences

CONSTANTS
    MaxTriageTurns,     \* maxTriageTurns (8 in the code)
    Sectors,            \* cfg.Sectors; a sector is named by its label
    DefaultSectorLabel  \* cfg.DefaultSectorLabel

ASSUME SectorAssumption ==
    /\ MaxTriageTurns \in Nat \ {0}
    /\ Sectors \union {DefaultSectorLabel} \subseteq Label \ {LabelBot}
    /\ None \notin Label

VARIABLES
    turns,   \* conversation_state.data: the turns of the triage
    told,    \* history: customer messages that reached handleTriage's callers
    opened,  \* history: replies sent while the bot had not spoken yet
    deaf     \* history: calls to the model that failed

history == <<told, opened, deaf>>
vars == <<engine, turns, history>>

BotTurn == 0   \* a turn of the bot; turn n > 0 is the customer's message n
Proactive == 0 \* customer = nil

Queues == Sectors \union {DefaultSectorLabel}

TriageStep == {"classify", "reply", "save", "route.labels", "route.save"}
Job == [conv : Conv, labels : LabelSet, customer : Nat, turns : Seq(Nat),
        label : Label \union {None}]

NewJob(c, ls, customer) ==
    [conv |-> c, labels |-> ls, customer |-> customer, turns |-> <<>>,
     label |-> None]

Init ==
    /\ state \in [Conv -> State \ {"triage", "routed"}]
    /\ labels \in [Conv -> SUBSET {LabelBot}]
    /\ EngineInit
    /\ turns = [c \in Conv |-> <<>>]
    /\ told = [c \in Conv |-> 0]
    /\ opened = [c \in Conv |-> 0]
    /\ deaf = [c \in Conv |-> 0]

-----------------------------------------------------------------------------
(* Events *)

\* A message with text.
HandleMessageCreated(t) ==
    \E c \in Conv, ls \in LabelSet :
        /\ CustomerMessage(c, ls, "triage")
        /\ Dispatch(t, "begin", NewJob(c, ls, told[c] + 1))
        /\ told' = [told EXCEPT ![c] = @ + 1]
        /\ UNCHANGED <<turns, opened, deaf>>

\* A voice note; any other attachment is ignored.
HandleAudio(t) ==
    \E c \in Conv, ls \in LabelSet :
        /\ CustomerMessage(c, ls, "triage")
        /\ Dispatch(t, "transcribe", NewJob(c, ls, Proactive))
        /\ UNCHANGED <<turns, history>>

HandleConversationUpdated(t) ==
    \E c \in Conv, ls \in LabelSet :
        /\ ConversationUpdate(c, ls, "triage")
        /\ Dispatch(t, "begin", NewJob(c, ls, Proactive))
        /\ UNCHANGED <<turns, history>>

\* Download and transcription, any of which may fail or give no text: then
\* the customer is asked to write and nothing else happens.
Transcribe(t) ==
    \E c \in Conv, ok \in BOOLEAN :
        /\ At(t, "transcribe", c)
        /\ ok => live[t]
        /\ IF ok
           THEN /\ told' = [told EXCEPT ![c] = @ + 1]
                /\ job' = [job EXCEPT ![t].customer = told[c] + 1]
                /\ pc' = [pc EXCEPT ![t] = "begin"]
                /\ UNCHANGED <<lock, live>>
           ELSE Finish(t) /\ UNCHANGED told
        /\ UNCHANGED <<state, labels, past, used, turns, opened, deaf>>

-----------------------------------------------------------------------------
(* handleTriage *)

\* The guard against late events is forgotten.
NeverRouted(st) == FALSE

AlreadyRouted(st) == st = "routed"

\* The turns of the conversation are not read back.
LoadNothing(ts) == <<>>

LoadTriage(ts) == ts

\* getState returns nil on an error, as if the conversation had no row.
Begin(t) ==
    \E c \in Conv, ok \in BOOLEAN :
        LET customer == job[t].customer
            st == IF ok THEN state[c] ELSE "none"
            td == IF ok THEN LoadTriage(turns[c]) ELSE <<>>
            started == td # <<>> \/ st = "triage"
        IN  /\ At(t, "begin", c)
            /\ Call(t, ok)
            /\ IF AlreadyRouted(st) \/ (customer = Proactive /\ started)
               THEN Return(t, c)
               ELSE /\ LockConv(t, c)
                    /\ pc' = [pc EXCEPT ![t] = "classify"]
                    /\ job' = [job EXCEPT ![t].turns =
                                  IF customer = Proactive THEN td
                                  ELSE Append(td, customer)]
                    /\ UNCHANGED live
            /\ UNCHANGED <<state, labels, past, turns, history>>

\* An unknown sector has no queue.
NoFallback(sector) == sector

SectorLabel(sector) == IF sector \in Sectors THEN sector ELSE DefaultSectorLabel

\* One turn too many.
PastLimit(ts) == Len(ts) > MaxTriageTurns

AtLimit(ts) == Len(ts) >= MaxTriageTurns

\* The outcome of the apology sent for a message is only logged.
ClassifyFails(t) ==
    \E c \in Conv :
        /\ At(t, "classify", c)
        /\ deaf' = [deaf EXCEPT ![c] = @ + 1]
        /\ Goto(t, "save")
        /\ UNCHANGED <<state, labels, past, used, turns, told, opened>>

ClassifyReply(t) ==
    /\ pc[t] = "classify" /\ live[t]
    /\ ~AtLimit(job[t].turns)
    /\ Goto(t, "reply")
    /\ UNCHANGED <<state, labels, past, used, turns, history>>

\* The model routes, to a sector it may have made up, or it would go on
\* asking and the limit of turns routes instead.
ClassifyRoute(t) ==
    /\ pc[t] = "classify" /\ live[t]
    /\ \E action \in {"reply", "route"}, sector \in Sectors \union {None} :
        /\ action = "reply" => AtLimit(job[t].turns) /\ sector = None
        /\ job' = [job EXCEPT ![t].label = SectorLabel(sector)]
    /\ pc' = [pc EXCEPT ![t] = "route.labels"]
    /\ UNCHANGED <<state, lock, live, labels, past, used, turns, history>>

\* The outcome of the call is only logged: a reply counts once issued, and
\* becomes a turn in any case.
Reply(t) ==
    \E c \in Conv :
        LET ts == job[t].turns
            opening == live[t] /\ \A i \in DOMAIN ts : ts[i] # BotTurn
        IN  /\ At(t, "reply", c)
            /\ opened' = [opened EXCEPT ![c] = IF opening THEN @ + 1 ELSE @]
            /\ job' = [job EXCEPT ![t].turns = Append(ts, BotTurn)]
            /\ pc' = [pc EXCEPT ![t] = "save"]
            /\ UNCHANGED <<state, lock, live, labels, past, used, turns, told,
                           deaf>>

\* saveState overwrites the state and the data of the row.
SaveRow(c, s, ts, ok) ==
    /\ SaveState(c, s, ok)
    /\ turns' = IF ok THEN [turns EXCEPT ![c] = ts] ELSE turns

Save(t) ==
    \E c \in Conv, ok \in BOOLEAN :
        /\ At(t, "save", c)
        /\ Call(t, ok)
        /\ SaveRow(c, "triage", job[t].turns, ok)
        /\ Finish(t)
        /\ UNCHANGED <<labels, past, history>>

-----------------------------------------------------------------------------
(* route *)

\* The error of SetLabels is only logged.
GoOnAnyway(ok) == TRUE

Labelled(ok) == ok

\* The new list comes from the labels of the event, not from Chatwoot's.
RouteLabels(t) ==
    \E c \in Conv, ok \in BOOLEAN :
        /\ At(t, "route.labels", c)
        /\ Call(t, ok)
        /\ PostLabels(t, c,
               ReplaceLabel(job[t].labels, LabelBot, {job[t].label}), ok)
        /\ IF Labelled(ok) THEN Goto(t, "route.save") ELSE Finish(t)
        /\ UNCHANGED <<state, turns, history>>

\* After the handoff message, whose outcome is only logged.
RouteSave(t) ==
    \E c \in Conv, ok \in BOOLEAN :
        /\ At(t, "route.save", c)
        /\ Call(t, ok)
        /\ SaveRow(c, "routed", <<>>, ok)
        /\ Finish(t)
        /\ UNCHANGED <<labels, past, history>>

-----------------------------------------------------------------------------
Environment ==
    /\ \/ \E c \in Conv : AgentLabels(c)
       \/ \E t \in Thread : CtxExpire(t)
       \/ CrashEngine
    /\ UNCHANGED <<turns, history>>

Step(t) ==
    \/ Transcribe(t) \/ ClassifyFails(t) \/ ClassifyReply(t)
    \/ ClassifyRoute(t) \/ Reply(t) \/ Save(t) \/ RouteLabels(t)
    \/ RouteSave(t)

Next ==
    \/ \E t \in Thread : \/ HandleMessageCreated(t) \/ HandleAudio(t)
                         \/ HandleConversationUpdated(t)
                         \/ Begin(t) \/ Step(t)
    \/ Environment

Spec == Init /\ [][Next]_vars

\* Goroutines run and every call returns; sync.Mutex hands the lock to a
\* waiter that starves, hence strong fairness where it is taken.
FairSpec ==
    Spec /\ \A t \in Thread : SF_vars(Begin(t)) /\ WF_vars(Step(t))

-----------------------------------------------------------------------------
(* Properties *)

\* Every variable stays in its type, whatever fails.
TypeOK ==
    /\ state \in [Conv -> State]
    /\ lock \in [0 .. ConvLockStripes - 1 -> Thread \union {None}]
    /\ pc \in [Thread -> TriageStep \union {"idle", "begin", "transcribe"}]
    /\ job \in [Thread -> Job \union {None}]
    /\ \A t \in Thread : pc[t] # "idle" => job[t] \in Job
    /\ \A t \in Thread :
           pc[t] = "route.labels" => job[t].label \in Queues
    /\ live \in [Thread -> BOOLEAN]
    /\ labels \in [Conv -> LabelSet]
    /\ past \in [Conv -> SUBSET (LabelSet \X LabelSet)]
    /\ used \in [DOMAIN Bound -> Nat]
    /\ turns \in [Conv -> Seq(Nat)]
    /\ told \in [Conv -> Nat]
    /\ opened \in [Conv -> Nat]
    /\ deaf \in [Conv -> Nat]

\* The bot opens a conversation once: a proactive greeting and the reply to a
\* first message, or two webhooks of the same label, never both greet.  Only
\* a failed call, an expired job or a crash lets it greet again.
OneOpening ==
    \A c \in Conv :
        opened[c] <= 1 + used.faults + used.expiries + used.crashes

\* A routed conversation is not triaged again by late or concurrent events,
\* unless a read of its state failed.
RoutedIsFinal ==
    [][used'.faults = 0 =>
        \A c \in Conv : state[c] = "routed" => state'[c] = "routed"]_vars

\* The limit of turns breaks every loop: the stored turns exceed it only by
\* the messages the model failed to classify.
TurnsBounded ==
    \A c \in Conv : Len(turns[c]) <= MaxTriageTurns + deaf[c]

\* Until the conversation is routed, every message of the customer is stored
\* or in the hands of a thread, in spite of concurrent workers and of a model
\* that fails: none is overwritten.
InHand(c, n) ==
    \E t \in Thread :
        pc[t] # "idle" /\ job[t].conv = c /\ job[t].customer = n
NoTurnLost ==
    Smooth =>
        \A c \in Conv : state[c] = "routed" \/
            \A n \in 1 .. told[c] :
                InHand(c, n) \/ \E i \in DOMAIN turns[c] : turns[c][i] = n

\* A conversation is routed in the store only if Chatwoot was given the label
\* of a queue in place of the bot's.
RoutedMeansLabelled ==
    \A c \in Conv : state[c] = "routed" =>
        \E e \in past[c] :
            ~HasLabel(e[2], LabelBot) /\ \E q \in Queues : HasLabel(e[2], q)

\* Every job that reaches a thread finishes: no one waits for ever on a lock.
JobsFinish == \A t \in Thread : pc[t] # "idle" ~> pc[t] = "idle"

\* TASKS.md:16 "`POST /labels` do Chatwoot substitui o conjunto inteiro →
\* roteamento lê labels atuais (vêm no webhook)": routing takes away the
\* label of the bot and no other.
RoutingKeepsLabels ==
    [][\A t \in Thread, c \in Conv :
        (At(t, "route.labels", c) /\ pc'[t] = "route.save") =>
            labels[c] \ {LabelBot} \subseteq labels'[c]]_vars
=============================================================================
