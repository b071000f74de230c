--------------------------------- MODULE Bot ---------------------------------
(***************************************************************************)
(* A conversation as a whole: its triage (Triage), its survey and the      *)
(* reaper (Csat) at work on one conversation_state row, under the same     *)
(* mutexes.  A thread is a worker of the pool or the goroutine of a        *)
(* debounced flush; either handles an event as old as it likes, so a       *)
(* triage may begin with a snapshot from before the survey.                *)
(***************************************************************************)
EXTENDS Engine, Sequences, FiniteSets

CONSTANTS ClaimLimit, MaxTriageTurns, Sectors, DefaultSectorLabel

\* What Csat and Triage assume of them.
ASSUME BotAssumption ==
    /\ ClaimLimit \in Nat \ {0} /\ MaxTriageTurns \in Nat \ {0}
    /\ Sectors \union {DefaultSectorLabel} \subseteq Label \ {LabelBot}
    /\ None \notin Label

VARIABLES
    deadline, due, batch, rpc, rconv, resolved, prompted, rated, \* Csat
    turns, told, opened, deaf,                                   \* Triage
    relapses   \* history: writes of a triage over the state of a survey

survey == <<deadline, due, batch, rpc, rconv, resolved, prompted, rated>>
triage == <<turns, told, opened, deaf>>
vars == <<engine, survey, triage, relapses>>

Survey == INSTANCE Csat
Triage == INSTANCE Triage

Init ==
    /\ state = [c \in Conv |-> "none"]
    /\ Survey!Init
    /\ Triage!Init
    /\ relapses = [c \in Conv |-> 0]

SurveyStep == Survey!Locked \union {"ask.begin", "rate.begin"}
TriageStep == Triage!TriageStep \union {"begin", "transcribe"}

-----------------------------------------------------------------------------
\* The row of a survey carries no data: what the triage kept is forgotten.
ClearData ==
    turns' = [c \in Conv |-> IF state'[c] \in CsatState THEN <<>> ELSE turns[c]]

Relapsed(c) == state[c] \in CsatState /\ state'[c] \notin CsatState

CountRelapses ==
    relapses' = [c \in Conv |-> IF Relapsed(c) THEN relapses[c] + 1
                                ELSE relapses[c]]

Surveying(Action) ==
    /\ Action
    /\ ClearData /\ CountRelapses
    /\ UNCHANGED <<told, opened, deaf>>

Triaging(Action) ==
    /\ Action
    /\ CountRelapses
    /\ UNCHANGED survey

\* A debounced flush hands over its snapshot when its window closes.
HandleEvent(t) ==
    \/ Surveying(Survey!HandleMessageCreated(t))
    \/ Surveying(Survey!HandleConversationUpdated(t))
    \/ Triaging(Triage!HandleMessageCreated(t))
    \/ Triaging(Triage!HandleAudio(t))
    \/ Triaging(Triage!HandleConversationUpdated(t))

Start(t) == Surveying(Survey!Start(t)) \/ Triaging(Triage!Begin(t))
Step(t) == Surveying(Survey!Step(t)) \/ Triaging(Triage!Step(t))
Reap == Surveying(Survey!Reaper)
Expire(c) == Surveying(Survey!Expire(c))
Environment == Surveying(Survey!Environment)
Crash == Surveying(Survey!Crash)

Next ==
    \/ \E t \in Thread : HandleEvent(t) \/ Start(t) \/ Step(t)
    \/ Reap
    \/ \E c \in Conv : Expire(c)
    \/ Environment
    \/ Crash

Spec == Init /\ [][Next]_vars

-----------------------------------------------------------------------------
(* Properties *)

\* Every variable stays in its type; a thread holds a job of the flow that
\* its step belongs to.
TypeOK ==
    /\ state \in [Conv -> State]
    /\ lock \in [0 .. ConvLockStripes - 1 -> Thread \union {None}]
    /\ pc \in [Thread -> SurveyStep \union TriageStep \union {"idle"}]
    /\ \A t \in Thread :
           /\ pc[t] \in SurveyStep => job[t] \in Survey!Job
           /\ pc[t] \in TriageStep => job[t] \in Triage!Job
           /\ pc[t] = "idle" => job[t] = None
    /\ deadline \in [Conv -> Survey!Status]
    /\ batch \subseteq Conv
    /\ rpc \in {"claim", "resolve", "complete", "close"}
    /\ rpc \in {"complete", "close"} => rconv \in batch
    /\ resolved \in [Conv -> BOOLEAN]
    /\ used \in [DOMAIN Bound -> Nat]
    /\ relapses \in [Conv -> Nat]

Life == INSTANCE Lifecycle WITH phase <- state, sound <- used.faults = 0

\* Whatever thread moves it, the row follows the life cycle of Lifecycle:
\* routed is left only for a survey, a survey is asked once and ends resolved.
Implements == Life!Spec

\* A customer is asked once per survey, however triage, survey and their late
\* webhooks mix: only a triage that overwrote the survey, or a failed call,
\* lets the bot ask again.
OnePromptPerSurvey ==
    \A c \in Conv : prompted[c] <= 1 + relapses[c] + used.faults

\* A customer is rated once per survey: answers in parallel, in whatever
\* order with the reaper and late triages, never record a second rating.  Only
\* a triage that overwrote the survey, a failed call, an expired job or a
\* crash lets one in.
Reasons(c) == relapses[c] + used.faults + used.expiries + used.crashes
OneRatingPerSurvey == \A c \in Conv : rated[c] <= 1 + Reasons(c)

\* The bot opens a conversation once per triage, also while it is in survey:
\* greetings, first messages and late webhooks open it again only in a triage
\* that then overwrites the survey.
Overwritten(c) ==
    /\ state[c] \in CsatState
    /\ \E t \in Thread : pc[t] = "save" /\ job[t].conv = c
OneOpeningPerTriage ==
    \A c \in Conv :
        opened[c] <= 1 + Reasons(c) + (IF Overwritten(c) THEN 1 ELSE 0)

\* A rating is recorded only for a customer that was asked: an answer that
\* races the start of the survey waits for the prompt.
AskedBeforeRated ==
    Smooth => \A c \in Conv : rated[c] > 0 => prompted[c] > 0

\* A survey that waits for its rating has an open deadline, in spite of the
\* triages that overwrite the row and the reaper that closes it.
DurableTimeout == Survey!DurableTimeout

Closes(c) == state[c] # "closed_timeout" /\ state'[c] = "closed_timeout"

\* The reaper closes a survey before its deadline only if its customer was
\* asked more than once: asking again re-arms a row the reaper has claimed.
\* OnePromptPerSurvey has the reasons to ask again.
NoEarlyClose == [][\A c \in Conv : Closes(c) => due[c] \/ prompted[c] > 1]_vars

\* README.md:35 "csat_pending -> csat_done | closed_timeout (CSAT)": a survey
\* that waits for its rating is left for one of these two states.
SurveyFollowsDiagram ==
    [][\A c \in Conv : state[c] = "csat_pending" =>
           state'[c] \in {"csat_pending", "csat_done", "closed_timeout"}]_vars
=============================================================================
