# A verification project for the triage bot

TLA+ models of the Chatwoot triage bot, model-checked with TLC, and theorems
about them proved with TLAPS. Paths below are relative to the repository's
`src/`.

## 1. The system

The bot is one process. Chatwoot posts webhooks to it; the bot answers through
Chatwoot's REST API and asks a language model what to do. Three tables in SQLite
survive a restart; everything else is in memory.

| Component | Code | State | Operations | What makes it correct |
|---|---|---|---|---|
| Webhook server, worker pool | `internal/webhook` | job queue (256), 4 workers, table `processed_events` | `ServeHTTP`, `worker`, `process` | each delivery is handled once; an accepted event that can be read is not mislaid |
| Event types | `internal/chatwoot/types.go` | none | label predicates, edge filter | only a label's application, or a customer's message, enters a flow |
| Engine | `internal/engine/fsm.go` | 64 mutexes, table `conversation_state` | dispatch, `lockConv`, `getState`, `saveState` | one handler per conversation between reading the state and writing it |
| Debouncer | `internal/engine/debounce.go` | `pending`, one timer per conversation | `add`, `addProactive`, `fire` | a burst becomes one triage; nothing is lost, repeated, reordered or stuck |
| Triage | `internal/engine/triage.go`, `audio.go` | `state`, `data` of the row | `handleTriage`, `route`, transcription | one greeting, no turn lost, no endless loop, routed once and for good |
| Survey | `internal/engine/csat.go` | `state`, `csat_deadlines` | `startCSAT`, `handleCSATAnswer` | asks once, records once, always ends |
| Reaper | `internal/scheduler` | `csat_deadlines` | `Run`, `tick` | closes every due survey, across restarts; closes none early |
| Store | `internal/store` | the three tables | statements | each statement is atomic |
| Chatwoot client | `internal/chatwoot/client.go` | the attempts of a call | REST calls with retries, download | a call that succeeds was carried out; nothing is repeated after an answer |
| Model, transcription | `internal/llm` | one request per call | `Classify`, `Transcribe` | never repeated; the object in a reply is found |
| Cost accounting | `internal/cost` | calls and total | `Add` | counts each paid result once |
| Configuration, wiring | `internal/config`, `cmd/bot` | none that changes | start, shutdown | |

**Interaction.** `ServeHTTP` marks the delivery, queues the event and answers
200. A worker takes it, decodes it and calls the engine, or drops it if it does
not decode or has no handler. The engine chooses by label: the survey
and (with `DEBOUNCE_WINDOW=0`) the triage run on the worker; otherwise triage
events go to the debouncer, whose timer goroutine runs the triage later, with a
context of its own. Handlers of one conversation exclude each other with a
striped mutex. The reaper takes no mutex and meets the survey only in the
database. Agents change labels in Chatwoot at any time, and every event carries
the labels of the moment it was emitted.

**What is hard.** Each handler is a sequence of calls that can fail one by one;
the context of a job can expire between two of them; the process can die
anywhere; events arrive late, repeated and out of order with stale labels; the
reaper races with the customer's answer; triage and survey write the same row,
each with a snapshot that may be from before the other; a request that the
client has given up on may still be carried out, after the job has gone on; a
timer that has elapsed cannot be stopped any more. `PROJECT.json` lists the
hazards, each at its line.

## 2. Modules

| Module | Models | Kind |
|---|---|---|
| `Events` | label predicates, edge filter, choice of flow | operators |
| `Engine` | threads, `lockConv`, job contexts, state table, Chatwoot's labels, agents, crashes | shared actions |
| `Csat` (extends `Engine`) | survey handlers, reaper, deadlines | specification |
| `Triage` (extends `Engine`) | `handleTriage`, `route`, transcription | specification |
| `Bot` (extends `Engine`, instances of `Csat` and `Triage`) | both flows and the reaper on one row | composition |
| `Lifecycle` | what they promise about the row of a conversation | abstract specification |
| `Debouncer` | buffer, timers, generations | specification |
| `Batching` | what the debouncer promises | abstract specification |
| `Webhook` | dedup, queue, pool, shutdown | specification |
| `Texts` | `parseRating`, `extractJSON`, `ReplaceLabel` on lists | operators |
| `Calls` (extends `Texts`) | clients of Chatwoot, model and transcriber, cost | specification |
| `RemoteCall` | what a caller may rely on | abstract specification |
| `MC*` | symmetry and input sets of the finite instances | TLC only |
| `*Proofs` | theorems about the module of that name (`CallsProofs` extends `TextsProofs`, the flows' extend `EngineProofs`) | TLAPS |

### From code to actions

One action is one call to the store, to Chatwoot or to the model, with the code
up to the next such call; other threads, faults, expiries and crashes happen
between them. Taking the mutex is merged with the read of the state that follows
it, and a handler that finds nothing to do takes and releases the mutex in one
step (`Return`). Messages to the customer or to the team whose outcome is only
logged change no state of the program, so they are merged with the step before
them, except the survey's prompt and the triage's reply, which properties count.

`Engine` gives the handlers their calls. `Call(t, ok)` is a call that returns
without error or not; with an expired context it always fails, otherwise a
failure spends one of `MaxFaults`. `CarriedOut` is what the other side made of
it: a failed REST call may have been applied. A failed statement on SQLite
leaves the row as it was, except the claim of the reaper, whose rows are read
after the update. `past` holds every pair of label sets Chatwoot has emitted for
a conversation; an event is any of them, at any later time, any number of times,
which covers delay, repetition, reordering and several workers.

* `Csat`: `AskBegin`, `AskSave`, `AskPrompt`, `AskDeadline` are the four calls
  of `startCSAT`; `RateBegin` to `RateDone` those of `handleCSATAnswer`;
  `ReaperClaim`, `ReaperResolve`, `ReaperComplete`, `ReaperClose` those of
  `tick`. Time is one bit per row: `due` says that `deadline_at` has passed.
  `parseRating` is the Boolean `rating` of the message; `Texts` has it in full.
* `Triage`: `Begin` is the guards, `Classify*` what the model does with the
  turns (any answer, any sector, any failure), `Reply` and `Save` the question,
  `RouteLabels` and `RouteSave` the routing. Turns are numbers: 0 for the bot, n
  for the n-th message of the customer. A thread stands for a worker or for the
  goroutine of a flush: both call `handleTriage` with a snapshot and at most one
  customer turn.
* `Debouncer`: `Add` and `AddProactive` stop and start timers (`Rearm`);
  `Elapse` starts the goroutine of a timer, `Fire` is its critical section.
  Calls are numbered, and the number names the message, the snapshot and the
  timer of the call.
* `Webhook`: `Receive` is `ServeHTTP` up to `MarkProcessed`, `Enqueue` the rest;
  `Take` and `Leave` are the `select` of a worker; `Handle` is `process` calling
  the engine, `Discard` its returns without a call, for a body that does not
  decode into its event or an event without a handler; `Return` and `Panic` are
  the engine's end. `Readable` are the events that reach `Handle`. `Stop` is the
  signal, `Restart` the end of the process, expected or not, and the next start.
* `Bot`: every action is one of `Csat` or of `Triage`, with what it does to the
  variables of the other: a survey clears the data of the row (`ClearData`), and
  `relapses` counts how often a triage wrote over a survey. The threads, the
  mutexes, the row and the labels of `Engine` are shared. The debouncer does not
  appear by name: a debounced flush is a thread that begins with a snapshot as
  old as it likes, of which `Debouncer` shows that nothing is lost on the way.
* `Calls`: `Begin` is a caller of `do`, of `DownloadAttachment`, of `Classify`
  or of a `Transcribe`; `Issue` sends an attempt; `CarryOut` is the server's,
  whether or not anyone still waits; `LoseAnswer`, `ServerError`, `Refused`,
  `Answered`, `Downloaded` and `Reply` are what the client sees; `Again` and
  `Pause` are the loop of `do` and its backoff; `Decode` reads a reply, which
  may be no result, and counts the cost of one that is; `usage` is what the
  reply said it cost. `request` is the truth about an attempt, `answer` what the
  client knows of it. An action of `Engine` that makes a call is one call here:
  `Refinement` justifies `CarriedOut` for as long as the call lasts. A request
  that is carried out even later, after the job went on, is in `Calls` only.

## 3. What is checked

| Run | Question | Instance |
|---|---|---|
| `csat_safety` | Is the customer asked once and recorded once, is a finished survey final, does a survey end without telling Chatwoot? | 1 conversation, 2 workers, 4 events, 1 each of labelling, fault, expiry, crash |
| `csat_live` | Are deadlines settled, do surveys end, do jobs finish? Do a shared mutex or a full claim starve a conversation? | 2 conversations on 1 mutex, 1 deadline per tick, 2 workers, 2 events, 2 labellings, 1 fault, 1 crash, fairness |
| `triage` | One opening, no turn lost, no loop, routed for good and with a queue's label? Do triage jobs finish? | 1 conversation, 2 threads, 3 events, limit of 2 turns, 1 fault, expiry, crash, fairness |
| `debouncer` | Can the races of timers lose, repeat, reorder or strand messages? Does it implement `Batching`, fairness included: is every window delivered? | 1 conversation, 6 calls, 1 restart, fairness |
| `webhook` | Is a delivery handed over once, and is an accepted event that can be read kept until it reaches the engine? | 3 events (1 without id, 1 that cannot be read), 4 posts, queue of 1, 2 workers, 1 fault, 1 restart, fairness |
| `bot` | With triage, survey and reaper on one row: does the row follow `Lifecycle`? Is a survey asked once, rated once, asked before it is rated, and never waiting without a deadline? When is one closed before its deadline? Is a conversation opened once per triage? | 1 conversation, 2 threads, 3 events, 1 labelling, fault, crash, limit of 1 turn |
| `calls` | Is a call that succeeds carried out, and only what may be repeated repeated? What is counted as paid? Does every call return? Are ratings, replies and label lists read and written as meant? | 2 calls, 1 retry, 2 faults; all texts of up to 3 characters and lists of up to 2 labels, fairness |

Runs that disagree with what the repository says of itself; each is a finding in
`PROJECT.json`:

| Run | Says | Does |
|---|---|---|
| `csat_answered` | an answered deadline is not closed by the reaper (`store.go:53`) | the reaper that claimed it first writes `done` and `closed_timeout` over it |
| `csat_restart` | the survey's timeout survives restarts (`README.md:126`) | a crash after saving `csat_pending` leaves no deadline, and the guard refuses to start again |
| `debouncer_stale` | the generation disables superseded timers (`debounce.go:34`) | generations restart at 0, so an old timer can close a newer window before its silence |
| `triage_snapshot` | routing uses the current labels (`TASKS.md:16`) | it uses those of the event and drops what was added since |
| `bot_late` | a waiting survey is left for `csat_done` or `closed_timeout` (`README.md:35`) | a triage with an older snapshot writes `triage` over it: only `routed` stops it |

Four more disagreements have no run of their own; a passing property has the
exception they make:

| Property | Says | Does |
|---|---|---|
| `NoEarlyClose` | the reaper closes surveys whose deadline is over (`reaper.go:1`) | with nothing failing: the reaper claims a due row, a late triage overwrites the survey, a repeated update asks again and moves the deadline (`sqlite.go:112`), and the reaper closes the new survey at once |
| `CostIsOfResults` | the tracker accumulates the cost reported in `usage.cost` (`openai.go:28`) | an answer without choices, or with no `Intent`, is billed and not added (`openai.go:140`) |
| `OnePrompt`, `EndedIsFinal` | one survey per label; a late webhook does not begin it again (`csat.go:33`) | a read of the state that fails counts as no state (`fsm.go:213`), and the survey begins again |
| `TurnsBounded` | the limit of turns counts the customer's (`fsm.go:28`) | it counts the bot's too, so about half as many messages reach it |

The race behind `debouncer_stale` loses nothing: `NothingLost` and `Implements`
hold with it, it only ends a window early. The comment of `dispatcher.go:16`,
that the pool drains its queue, is not refuted by a run: it can be read as what
workers do until they are stopped. `AnsweredIsHandled` excepts a stop.

### How strong the properties are

`Bot` repeats four questions of its parts on purpose. `DurableTimeout`,
`OnePromptPerSurvey` and `OneRatingPerSurvey` must survive the triage's writes,
which `Csat` alone does not have, and `OneOpeningPerTriage` the survey's and the
reaper's, which clear the turns that stop a second greeting. Each carries the
price of the mixture: one more prompt, rating or opening per `relapse`, a triage
that wrote over a survey. An opening is counted before the write that is its
relapse, hence `Overwritten`; without that term TLC refutes the property. The
deadline of a survey that was overwritten stays open, so the reaper may close
the row in the middle of a triage: the property allows the next triage its
opening only because that one overwrites a survey in turn. `Lifecycle` allows
exactly the transitions that remain when nothing fails: it has no step from
`csat_pending` to a new prompt, none out of `routed` but a survey, none to an
end without `Resolve`. It does allow the late triage of `bot_late`, since the
code does that, and an answer after a timeout, since the reaper takes no mutex.

`NoEarlyClose` is asked of `Bot` alone: in `Csat` nothing
but a failed read could move a deadline the reaper has claimed, while in `Bot`
a late triage followed by a repeated update does, with no failure.
What is left, and proved, is that an early close takes a second prompt, whose
reasons `OnePromptPerSurvey` counts.

Failures are part of the properties. `OnePrompt` allows one more prompt per
*failed call* and none for a crash or an expired job; `OneRating` and
`OneOpening` need the crash too, because the act precedes the record of it.
`NoTurnLost` holds with a model that fails as often as it likes, and
`AtMostOnce` with any number of restarts. Properties conditioned on `Smooth`, or
on no fault so far, say so because a failed read of the state counts as *no
state* in the code, and lets a finished survey begin again.

What is counted is the call: a prompt, an opening, a rating. `do` may repeat the
POST of a call whose answer got lost, and Chatwoot may then carry it out twice;
`NoNeedlessRepeat` says when that can be. The order in `NothingLost` is that of
the debouncer's critical sections: the triages of two windows run after the
unlock, and take the mutex of their conversation in either order. A debounced
buffer is delivered once the messages pause (`MaxCalls` ends them); there is no
longest wait in the code and none is claimed. `AnsweredIsKept` and
`AnsweredIsHandled` are about events that can be read: the others are marked and
answered like them, then dropped by `process`, and posting one again is answered
as a duplicate. `ObjectIsFound` is about the slice that is handed to the JSON
decoder, not about what the decoder makes of it.

### Bounds

Every bound is a constant that only limits an environment action: `MaxEvents`,
`MaxLabelings`, `MaxFaults`, `MaxExpiries`, `MaxCrashes` in `Engine`, `MaxCalls`
and `MaxCrashes` in `Debouncer`, `MaxPosts`, `MaxFaults` and `MaxRestarts` in
`Webhook`, `MaxCalls` and `MaxFaults` in `Calls`. Three or four events on two
threads let two handlers overlap, and the next find what they left; one mishap
of each kind at every point covers each window between two calls. A limit of two
turns is reached by a greeting and a message, one of a single turn by a message.
In `calls`, one retry has a first attempt and a last; the proofs are for any
number. Three characters hold two digits side by side or apart, and a brace
before, after or inside a pair; the digit of another script comes in a text of
its own. Two conversations on one mutex and a claim of one row are the smallest
instance where either could starve the other. Six debouncer calls allow a window
to be delivered, opened again and re-armed while a timer of the first still
waits. A queue of one is full as soon as it holds an event. Each `Init`
starts with free threads, any outcome of the other flow in the row and labels
before any event.
Deadlock is not checked where the bounded inputs can simply be used up (triage,
debouncer, webhook, bot, calls). In the survey's passing runs it is left on but
shows nothing, the reaper being always able to tick; that no thread waits for
ever on a mutex is what `JobsFinish` shows.

### Fairness

`WF` on the steps of a thread: goroutines are scheduled and each call returns,
having a timeout. `SF` on the step that takes a conversation's mutex: Go's
`sync.Mutex` hands the lock to a waiter that starved for a millisecond. `WF` on
the reaper's useful steps (`Work`): it is a ticker, and a claim that keeps
coming up does not fail or come back empty for ever. `WF` on `Expire`: time
passes. `WF` on a timer's elapsing and on its goroutine. `WF` on `Ends`, the
client's side of a call: `http.Client` has a timeout, so an attempt without an
answer ends as a lost one; the server is given no fairness at all. `WF` on a
handler's `Return` or `Panic` in `Webhook`, which `JobsFinish` and `CallReturns`
show of the handlers. No fairness is assumed of events, agents, failures,
crashes or restarts, nor of a worker leaving.

## 4. What is proved

For every value of the constants, from the named `ASSUME`s only:

* `CsatProofs!TypeCorrect`: the type invariant of the survey.
* `CsatProofs!AskedOnce`: `OnePrompt`. It is not inductive alone. `PromptInv`
  adds that a thread inside a handler holds the mutex of its conversation
  (`LockHeld`), that a conversation not started in the store owes each prompt to
  a failed call (`Unstarted`), and that a thread about to prompt with a live
  context found the survey not started, or failed to read or save it
  (`AboutToPrompt`). An expired context stays expired, which is why expiry needs
  no allowance; a crash empties the threads, which is why it needs none either.
* `TriageProofs!TypeCorrect`: the type invariant of the triage.
* `TriageProofs!HandedOver`: `RoutedMeansLabelled`. `RoutedInv` adds that a
  thread about to store `routed` has handed its conversation over
  (`AboutToSave`), which rests on `Labelled`, the early return after a failed
  `SetLabels`; and that the current labels are those of one of its events
  (`LastEvent`), needed when the route changes nothing.
* `TriageProofs!LoopsEnd`: `TurnsBounded`. `TurnsInv` bounds the turns a job
  holds at each of its steps. It needs no mutex: the limit is tested on the
  job's own turns, so concurrent handlers cannot add up.
* `TriageProofs!RoutedForGood`: `RoutedIsFinal`. `FinalInv` says that a thread
  past the guards holds the mutex (`LockHeld`) and, while its context is live
  and no call has failed, that its conversation is still not routed
  (`SeenUnrouted`). A read that fails for want of time counts as *no state* in
  the code, but then the write fails too.
* `DebouncerProofs`: `TypeCorrect`; `LastCallFlushes`, `FlushedByLastCall`, from
  `NeverStranded` and `OnlyLastTimer`; `Conserved`, `NothingLost`; and
  `Refinement`: the debouncer implements `Batching`. The invariants relate the
  generation of a timer to that of the buffer it came from; refinement follows
  step by step, a superseded fire being a stutter.
* `CsatProofs!EndedResolved`, `EndedMeansResolved`: a timeout is stored only by
  a reaper past `ToggleStatus`, csat_done only by a thread past its own
  (`AboutToEnd`).
* `CsatProofs!OverForGood`, `EndedIsFinal`: a deadline in the store, or in the
  reaper's batch, belongs to a survey that was started (`StartedByDeadline`,
  `BatchHasDeadline`), so the reaper writes over nothing but a survey; a thread
  about to save csat_pending saw no survey, and none can have ended since,
  because it holds the mutex (`Asking`).
* `CsatProofs!TimeoutIsDurable`, `DurableTimeout`: inductive as it stands once
  no job can stop half way (`AllLive`: a context expires only at the price of
  `MaxExpiries`). Each step that leaves `csat_pending` uncovered would have to
  be the one that covers it. The run `bot` checks it, where more can go wrong.
* `CsatProofs!RatedOnce`, `OneRating`: a rating beyond those owed to a failure
  belongs to a thread that will end the survey (`Recorded`), and no other thread
  can be about to record (`RaterExcused`), which the mutex gives. Expired jobs
  and crashes count as failures (`Failures`), as the property allows.
* `TriageProofs!OpenedOnce`, `OneOpening`: while the stored turns show no turn
  of the bot, every opening is owed to a failure or about to be saved
  (`OpeningsExcused`); so is every one when a thread is about to greet
  (`OpenerExcused`). Together they carry the argument from the store to the job
  and back, through the save that ends it.
* `TriageProofs!EveryTurnKept`, `NoTurnLost`: a thread about to store turns has
  read what is stored and added its own message (`Carries`), so its write drops
  nothing (`Kept`); the lemmas on `Holds` say what appending to turns keeps.
* `WebhookProofs`: `TypeCorrect`; `HandledOnce`, where the copies of an event in
  requests, in the queue, with a worker and handled (`Tokens`) are at most the
  failures of the dedup plus its mark in the table (`OnceInv`);
  `AcceptedIsKept`, where what is marked or answered is a request's, in the
  queue, handled or dropped (`KeptInv`): a duplicate is answered because the
  event is marked.
* `CallsProofs`: `TypeCorrect`; `RepeatedForAReason`, whose invariant says which
  attempts have been sent and what was seen of each before the current one;
  `Refinement` to `RemoteCall`, which needs that an answer with success was seen
  only of an attempt carried out, the current one (`SentInv`, `CallsInv`);
  `CostCounted`, `CostIsOfResults`: a call that gave a result is counted when it
  ends, which it does once, with the cost of its own answer; `ObjectFound`,
  `ObjectIsFound`: what is decoded is a reply (`DecodeInv`), and in a text of
  any length the outermost braces are found (`ObjectExtracted`); `RatingFound`,
  `RatingIsIsolated`, and `ListsReplaced`, `ListsAreSets`: what is posted is
  what `parseRating` or `ReplaceLabel` makes of a text or a list (`PostInv`),
  and what that is, `TextsProofs` says.
* `TextsProofs`, for texts and lists of any length: `parseRating` returns the
  first digit from 1 to 5 with no digit beside it (`RatingEffect`), the slice
  between the outer braces is the object (`ObjectExtracted`), and
  `ReplaceLabel` replaces a label in the set of the members without repeating
  one anew (`ReplaceEffect`). `Scan`, `Fields` and `Without` are the code's
  loops as recursive functions: `Without` is the one that builds the list
  without a label (`types.go:214`). The induction over a text is by its least
  counterexample: the naturals are well-founded under `<`
  (`NatLessThanWellFounded`, `WFMin`), so a set of numbers that is not empty has
  a least one (`Least`), and a recursive function with a value at 0 and a step
  is what its equation says (`Recursion`).
* `BotProofs`: `TypeCorrect` of the composition; `Refinement` to `Lifecycle`,
  from what each thread knows of the row while it holds the mutex and no call
  has failed (`Knows`), what phase and Chatwoot's status have to do with each
  other (`PhaseInv`) and what the reaper, which holds no mutex, still knows
  (`ReaperInv`); `AskedOnce`, where each prompt beyond the first has its own
  excuse, a relapse or a failed call (`Excuses`, `Unstarted`, `OwesAPrompt`);
  `TimeoutIsDurable`, `DurableTimeout` again, now that a triage may write over
  `csat_pending` at any time: it only removes what must be covered;
  `ClosedInTime`, `NoEarlyClose`: a row in the reaper's batch is due, or its
  customer was asked twice (`HeldIsDue`), because a deadline is that of a survey
  that was asked (`AskedFor`), a thread about to store one where there is one
  has asked again (`AskedAgain`), and the mutex keeps a second such thread away;
  `RatedAfterAsked`, `AskedBeforeRated`, where a survey that waits was asked, or
  its thread is about to and holds the mutex an answer needs (`Asked`,
  `RatesAsked`); `RatedOnce`, `OneRatingPerSurvey`, where every rating is owed
  to a reason (`Reasons`) while no survey waits, or a survey is about to start
  over, and one more is not yet owed while a thread that recorded it is on its
  way to end the survey (`Recorded`, `RatingsOwed`); `OpenedOnce`,
  `OneOpeningPerTriage`, where the store, the turns of a job and the survey's
  state say how many openings are owed (`OpeningsOwed`): none but the one about
  to be saved where the row shows no word of the bot (`Speaking`), one more in a
  survey, which the save turns into a relapse.
* `EngineProofs`: lemmas on calls, mutexes and turns shared by the handlers'
  proofs.

Assumed of the constants, and evaluated by TLC on every run: conversations are
numbers and there is a mutex at least; labels of queues are labels other than
the bot's; the claim, the limit of turns and the queue are not zero; `None` is
no value of anything else; requests are finitely many; texts and replies are
sequences of characters, lists are sequences of labels.

Only model-checked: liveness and `Batching`'s fairness, which rest on `ENABLED`.
Every invariant and action property of the passing runs is a theorem. TLC takes
one conversation for the properties of a conversation; the theorems hold for any
number of them on any number of mutexes.

## 5. Not modelled

The wire formats: the JSON of the payloads, `message_type` as number or string,
the HMAC and its timestamp. Method, token, signature and the envelope with the
name of the event are checked before any state is touched, and a refused webhook
changes nothing. The body is decoded a second time by a worker, after the 200
and the mark in `processed_events`: which bodies then decode is not modelled,
only that some do not (`Readable`, `Discard`). `clampReply`, the prompt, the
reading of the environment, logging, the split of the cost by kind and
deployment: no decision and no state of the program depends on them. `GetLabels`
has no caller. The fields of an `Intent` are arbitrary in `Triage`, and which
contents are one is arbitrary in `Calls`, so nothing is said about what the
model answers. SQLite is taken to run each statement atomically and to keep what
it committed.

A late request is in `Calls` but not in `Engine`: there a failed call was or was
not carried out by the time it returns. The bot never reads back what it asked
of Chatwoot, so the difference shows only in the order in which Chatwoot emits
label events, and the handlers take those in any order.

## 6. Plan

Done: all modules above, and a theorem for each safety property of the passing
runs. What would add most next: to state in `Lifecycle` what the theorems say of
the deadline, and to carry `EveryTurnKept` over to `Bot`, where a survey may
forget turns and nothing else may.
