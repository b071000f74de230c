-------------------------------- MODULE Calls --------------------------------
(***************************************************************************)
(* The calls a job makes to Chatwoot, to the model and to the transcriber, *)
(* one after another, attempt by attempt.  A request may be refused, fail  *)
(* at the server before or after it was carried out, lose its answer, or   *)
(* still be on its way when the client has given up on it.  Engine takes   *)
(* each call as one step; RemoteCall is what remains of it there.          *)
(***************************************************************************)
EXTENDS Events, Texts, FiniteSets

CONSTANTS
    MaxRetry,   \* Client.maxRetry (2 in the code)
    Said,       \* texts of customers
    Lists,      \* lists of labels
    Contents,   \* replies of the model
    None,       \* no call
    MaxCalls,   \* bound: calls
    MaxFaults   \* bound: attempts that fail and may be repeated

Posts == {"rate", "labels", "send"}       \* through Client.do
Transcriptions == {"multipart", "base64"}
Kind == Posts \union Transcriptions \union {"download", "classify"}
Billed == Transcriptions \union {"classify"}

ASSUME RetryAssumption == MaxRetry \in Nat /\ MaxCalls \in Nat
ASSUME NoCallAssumption == None \notin Kind
ASSUME DataAssumption ==
    /\ \A text \in Said \union Contents : text \in Seq(STRING)
    /\ \A list \in Lists : list \in Seq(Label)

VARIABLES
    style,     \* cfg.STTStyle, "off" without STTEnabled; fixed at the start
    kind,      \* of each call
    outcome,   \* of each call: "none", "pending", "ok" or "error"
    request,   \* of each attempt: "unsent", "flying", "done" or "gone"
    answer,    \* of each attempt, as the client saw it
    call,      \* the number of the last call
    step,      \* "idle", "send", "await", "decode" or "wait"
    attempt,   \* do's loop variable
    live,      \* the context of the job has not expired
    data,      \* what a call was given and is about to post
    spent,     \* cost.Tracker: calls and total
    usage,     \* history: the cost each call's answer reported in usage.cost
    faults     \* how much of MaxFaults is used up

progress == <<style, kind, outcome, call, spent, usage>>
vars == <<progress, request, answer, step, attempt, live, data, faults>>

Id == 1 .. MaxCalls
Attempt == 0 .. MaxRetry
Transient == {"lost", "5xx"}

Init ==
    /\ style \in {"off", "openai", "openrouter"}
    /\ kind = [i \in Id |-> None]
    /\ outcome = [i \in Id |-> "none"]
    /\ request = [i \in Id |-> [a \in Attempt |-> "unsent"]]
    /\ answer = [i \in Id |-> [a \in Attempt |-> "none"]]
    /\ call = 0
    /\ step = "idle"
    /\ attempt = 0
    /\ live = TRUE
    /\ data = None
    /\ spent = [calls |-> 0, total |-> 0]
    /\ usage = [i \in Id |-> 0]
    /\ faults = 0

-----------------------------------------------------------------------------
(* The callers.  The next call belongs to the same job or to a new one. *)

Begin(k, given) ==
    /\ step = "idle" /\ call < MaxCalls
    /\ call' = call + 1
    /\ kind' = [kind EXCEPT ![call'] = k]
    /\ outcome' = [outcome EXCEPT ![call'] = "pending"]
    /\ data' = given
    /\ step' = "send"
    /\ attempt' = 0
    /\ live' \in {live, TRUE}
    /\ UNCHANGED <<style, request, answer, spent, usage, faults>>

\* SetCustomAttributes with the rating of a customer's text.
Rated ==
    {[given |-> text, posts |-> ParseRating(text)] :
        text \in {t \in Said : ParseRating(t) # NoRating}}
SetRating == \E rated \in Rated : Begin("rate", rated)

Relabelled ==
    {[given |-> list, remove |-> r, add |-> a,
      posts |-> ReplaceLabelList(list, r, a)] :
        list \in Lists, r \in Label, a \in Label \union {NoLabel}}
SetLabels == \E relabelled \in Relabelled : Begin("labels", relabelled)

\* SendMessage, SendInputSelect and ToggleStatus.
Send == Begin("send", None)

DownloadAttachment == style # "off" /\ Begin("download", None)
Classify == Begin("classify", None)
OpenAITranscribe == style = "openai" /\ Begin("multipart", None)
OpenRouterTranscribe == style = "openrouter" /\ Begin("base64", None)

-----------------------------------------------------------------------------
(* Attempts *)

\* Every client repeats.
AlwaysRetry(k) == MaxRetry

Retries(k) == IF k \in Posts THEN MaxRetry ELSE 0

\* Add: a call counts even when its cost is not known.
AddCost(usd) ==
    spent' = [calls |-> spent.calls + 1,
              total |-> IF usd > 0 THEN spent.total + usd ELSE spent.total]

Return(res) ==
    /\ outcome' = [outcome EXCEPT ![call] = res]
    /\ step' = "idle"
    /\ UNCHANGED <<style, kind, call, attempt>>

\* The last error gets lost.
SwallowError == Return("ok") /\ UNCHANGED <<spent, usage>>

GiveUp == Return("error") /\ UNCHANGED <<spent, usage>>

\* One attempt too many.
OneMoreLeft == attempt <= Retries(kind[call])

AttemptsLeft == attempt < Retries(kind[call])

\* The attempts are not counted.
TryForever ==
    IF AttemptsLeft
    THEN step' = "wait" /\ UNCHANGED <<attempt, progress>>
    ELSE GiveUp

\* The attempt failed in a way that another one may mend.
Again ==
    IF AttemptsLeft
    THEN /\ step' = "wait"
         /\ attempt' = attempt + 1
         /\ UNCHANGED progress
    ELSE GiveUp

Fate(f) == request' = [request EXCEPT ![call][attempt] = f]
See(a) == answer' = [answer EXCEPT ![call][attempt] = a]
Current == request[call][attempt]

\* http.Do sends nothing once the context has expired.
Issue ==
    /\ step = "send"
    /\ IF live
       THEN /\ Fate("flying")
            /\ step' = "await"
            /\ UNCHANGED <<progress, attempt, answer>>
       ELSE See("lost") /\ Again /\ UNCHANGED request
    /\ data' = None
    /\ UNCHANGED <<live, faults>>

\* The server acts on a request when it gets it, awaited or not.
CarryOut(i, a) ==
    /\ request[i][a] = "flying"
    /\ request' = [request EXCEPT ![i][a] = "done"]
    /\ UNCHANGED <<progress, answer, step, attempt, live, data, faults>>

\* A network error, the timeout of the client or the context of the job: the
\* request got lost, was carried out, or still is on its way.
LoseAnswer ==
    /\ step = "await"
    /\ faults' = IF live THEN faults + 1 ELSE faults
    /\ faults' <= MaxFaults
    /\ \/ UNCHANGED request
       \/ Current = "flying" /\ Fate("gone")
    /\ See("lost")
    /\ Again
    /\ UNCHANGED <<live, data>>

\* A server that fails has carried the request out, or never will.
ServerError ==
    /\ step = "await"
    /\ faults < MaxFaults /\ faults' = faults + 1
    /\ Fate(IF Current = "done" THEN "done" ELSE "gone")
    /\ See("5xx")
    /\ IF kind[call] \in Posts THEN Again
       ELSE GiveUp
    /\ UNCHANGED <<live, data>>

Refused ==
    /\ step = "await" /\ Current = "flying"
    /\ Fate("gone")
    /\ See("4xx")
    /\ GiveUp
    /\ UNCHANGED <<live, data, faults>>

\* No caller of do reads the body of the answer.
Answered ==
    /\ step = "await" /\ Current = "done"
    /\ kind[call] \in Posts
    /\ See("2xx")
    /\ Return("ok")
    /\ UNCHANGED <<request, spent, usage, live, data, faults>>

\* The attachment may be cut off.
Downloaded ==
    /\ step = "await" /\ Current = "done"
    /\ kind[call] = "download"
    /\ See("2xx")
    /\ \E res \in {"ok", "error"} : Return(res)
    /\ UNCHANGED <<request, spent, usage, live, data, faults>>

-----------------------------------------------------------------------------
(* Answers that are decoded *)

Replies ==
    {[given |-> content, object |-> ExtractJSON(content)] :
        content \in Contents}

Reply ==
    /\ step = "await" /\ Current = "done"
    /\ kind[call] \in Billed
    /\ See("2xx")
    /\ data' \in IF kind[call] = "classify" THEN Replies ELSE {None}
    /\ step' = "decode"
    /\ UNCHANGED <<progress, request, attempt, live, faults>>

\* The cost is added before the answer has been looked at.
CountFirst(res, usd) == AddCost(usd)

CountSuccess(res, usd) == IF res = "ok" THEN AddCost(usd) ELSE UNCHANGED spent

\* The body may not decode or may name an error, and then its cost is not
\* read; the answer of a model that is good so far may have no choice, or one
\* that is no Intent.  Either tells the cost or does not.
Decode ==
    /\ step = "decode"
    /\ \E good, usable \in BOOLEAN, usd \in {0, 1} :
        LET res == IF good /\ (kind[call] = "classify" => usable)
                   THEN "ok" ELSE "error"
        IN  /\ Return(res)
            /\ CountSuccess(res, usd)
            /\ usage' = [usage EXCEPT ![call] = IF good THEN usd ELSE 0]
    /\ data' = None
    /\ UNCHANGED <<request, answer, live, faults>>

\* The pause before the next attempt; when the context expires at its end
\* either branch of the select may be taken.
Pause ==
    /\ step = "wait"
    /\ \/ step' = "send" /\ UNCHANGED <<progress, attempt>>
       \/ ~live /\ GiveUp
    /\ UNCHANGED <<request, answer, live, data, faults>>

CtxExpire ==
    /\ step # "idle" /\ live
    /\ live' = FALSE
    /\ UNCHANGED <<progress, request, answer, step, attempt, data, faults>>

Start ==
    \/ SetRating \/ SetLabels \/ Send \/ DownloadAttachment
    \/ Classify \/ OpenAITranscribe \/ OpenRouterTranscribe

Client ==
    \/ Issue \/ LoseAnswer \/ ServerError \/ Refused
    \/ Answered \/ Downloaded \/ Reply \/ Decode \/ Pause

Next ==
    \/ Start
    \/ Client
    \/ \E i \in Id, a \in Attempt : CarryOut(i, a)
    \/ CtxExpire

Spec == Init /\ [][Next]_vars

\* Attempts end: http.Client has a timeout, so an answer not received in time
\* is lost.  The server need not do anything.
Ends == step # "idle" /\ Client

FairSpec == Spec /\ WF_vars(Ends)

-----------------------------------------------------------------------------
(* Properties *)

\* Every variable stays in its type.
TypeOK ==
    /\ style \in {"off", "openai", "openrouter"}
    /\ kind \in [Id -> Kind \union {None}]
    /\ outcome \in [Id -> {"none", "pending", "ok", "error"}]
    /\ request \in [Id -> [Attempt -> {"unsent", "flying", "done", "gone"}]]
    /\ answer \in [Id -> [Attempt -> {"none", "2xx", "4xx"} \union Transient]]
    /\ call \in 0 .. MaxCalls
    /\ step \in {"idle", "send", "await", "decode", "wait"}
    /\ step # "idle" => call \in Id /\ outcome[call] = "pending"
    /\ attempt \in Attempt
    /\ live \in BOOLEAN
    /\ data \in {None} \union Rated \union Relabelled \union Replies
    /\ spent \in [calls : Nat, total : Nat]
    /\ usage \in [Id -> {0, 1}]
    /\ faults \in Nat

\* A request is repeated only after a failure that another attempt may mend:
\* never after an answer, and never a call that is paid for.
NoNeedlessRepeat ==
    \A i \in Id, a \in Attempt :
        request[i][a] # "unsent" /\ a > 0 =>
            answer[i][a - 1] \in Transient /\ kind[i] \in Posts

Remote ==
    INSTANCE RemoteCall WITH
        carried <- [i \in Id |-> \E a \in Attempt : request[i][a] = "done"]

\* What the engine relies on: a call that returned without error was carried
\* out, whichever attempt did it; one that failed may have been, or may be.
Implements == Remote!Spec

\* The rating posted is the first number of the customer's text that is one
\* digit from 1 to 5 with no digit beside it, in whatever script.
RatingIsIsolated ==
    data # None /\ kind[call] = "rate" =>
        \E i \in DOMAIN data.given :
            /\ IsolatedAt(data.given, i) /\ data.posts = data.given[i]
            /\ \A j \in 1 .. i - 1 : ~IsolatedAt(data.given, j)

\* Replacing a label in a list is replacing it in the set of its members, and
\* gives a label no second entry: what the other modules take it for.
ListsAreSets ==
    data # None /\ kind[call] = "labels" =>
        /\ ElementsOf(data.posts) =
             ReplaceLabel(ElementsOf(data.given), data.remove,
                          {data.add} \ {NoLabel})
        /\ Len(data.posts) <= Len(data.given) + 1
        /\ \A l \in Label :
             Cardinality(PlacesOf(data.posts, l)) <=
               IF data.add = l /\ l \notin ElementsOf(data.given)
               THEN 1 ELSE Cardinality(PlacesOf(data.given, l))

\* What is decoded of a reply with one outermost object is that object: the
\* slice from its first brace to its last, when no brace stands outside it.
ObjectIsFound ==
    step = "decode" /\ kind[call] = "classify" =>
        \A i, j \in DOMAIN data.given : OneObject(data.given, i, j) =>
            data.object = SubSeq(data.given, i, j)

Results == {i \in Id : outcome[i] = "ok" /\ kind[i] \in Billed}

\* The tracker counts each paid call that gave a result, once, and its total
\* is what their answers reported.  It is less than openai.go:28-29 promises,
\* "acumula o custo reportado pelo provedor em usage.cost": an answer without
\* choices or with no Intent is billed too (usage), and missing from the total.
CostIsOfResults ==
    /\ spent.calls = Cardinality(Results)
    /\ spent.total = Cardinality({i \in Results : usage[i] = 1})

\* Every call returns, whatever the other side does.
CallReturns == \A i \in Id : outcome[i] = "pending" ~> outcome[i] # "pending"
=============================================================================
