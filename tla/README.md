# Verification of KELA (kelamins-ai) in TLA+

KELA is an assistant for Telegram. It watches earthquakes, weather, news and
network targets, groups what it sees into events, alerts a chat about them, keeps
reminders, memories and documents, and answers messages through a failover of
language-model endpoints. This directory models its logic in TLA+, checks it with
TLC and proves theorems with TLAPS about every component that keeps state: the AI
gateway, the alerts, the reminders, the monitors and the messages about them, the
event engine, the AI tasks, the bot with its memories and its conversation, the
broadcasts, the documents and the weather.

Contents: 1 inventory, 2 modules, 3 runs, 4 proofs, 5 findings, 6 what is not
modelled, 7 plan.

## 1. Inventory

`src/docker-compose.yml` starts four Python processes which share a MariaDB
database and an optional Redis:

| process | code | what runs in it |
|---|---|---|
| api | `app/main.py` | HTTP handlers; each AI request builds a gateway of its own |
| scheduler | `app/scheduler.py` | asyncio loops, one per collector, for the network checks, the event engine, the alerts, the AI tasks and a heartbeat |
| bot | `app/interfaces/telegram.py` | the polling loop, one asyncio task per update, and loops for the news push, the digest and the reminders |
| worker | `app/workers/__main__.py` | a placeholder that sleeps |

Each process is one asyncio event loop, so code between two `await`s is atomic
*inside* its process, and nothing is atomic across two calls of Redis or two
commits of the database.

| component | state | operations | interacts with | hard behaviour | what makes it correct |
|---|---|---|---|---|---|
| AI gateway `kela_ai/{gateway,key_manager,circuit_breaker,rate_limiter,ollama_client}.py` | per pool: key status and cooldown; per key name: circuit, failures, window of calls | `complete`, `build_gateway` | called by chat, API and AI tasks; calls the endpoints | every error class at every position, keys shared by pools, limits, time | keys tried in order, none usable skipped; rests respected; the result reported is the one of the calls; requests end |
| Alert engine `alert_engine/` | `alerts`, `alert_messages`, `alert_deliveries` | `run_alert_intelligence` | reads events written by the event engine and the collectors; sends to Telegram | commits between steps, crash, stale snapshot, a fixed budget | one announcement; notes mean a change; only a crash loses one; an earthquake waits only while newer events fill the budget |
| Reminders `cron.py` | one JSON list in Redis | reading a sentence, `add_job`, `edit_job`, `delete_job`, `fire_due_crons` | message tasks and the cron loop write the same key | read-modify-write with awaits, failing Redis, crash; parts of the day, midnight, weekdays | the list is what users were promised, at the time they said; recurring jobs keep their phase |
| Network monitoring `monitoring.py`, `interfaces/commands.py` | `network_targets` rows, Redis set of opt-ins, status keys, a pending question, fallbacks in each process | start, stop, name, edit, list, `maybe_notify_monitor` | bot tasks against the scheduler's network loop | four awaits per decision, two stores, a fallback per process, numbers and questions that go stale | answers hold; alerts alternate; no transition goes unsaid; names and numbers mean what their sender saw |
| Event engine `event_engine/` | articles, events, links | cluster, link earthquakes, confidence | fed by collectors, feeds alerts and AI tasks | batch order, duplicates, a failing article | an article belongs to one event; duplicates do not raise confidence |
| AI tasks `kela_ai/services.py` | one interpretation per event and task, an audit row per call | `process_event`, `pick_pending_events` | gateway; API requests | overlapping requests, look-then-insert, partial failure | each interpretation is traced to its call; newer facts are not overwritten by older ones |
| Bot `interfaces/telegram.py` | update offset, digest date, news stamp | poll, route, reply, push, digest | everything above | redelivery, tasks out of order, retry in a window, outages of Redis | no update lost or handled twice without a crash; a push per interval, a digest per day |
| Chat context `interfaces/context.py` | history and summary (Redis and a fallback), situation block | push, summarise, brief | overlapping tasks of the chat | read-modify-write, a mark looked at before an await | order and completeness of the history; a summary does not go back |
| Memory `memory.py` | rows | `remember`, prune, cap, forget, recall | overlapping tasks | look, insert, count, pick and delete in transactions of their own | twins and overruns of the cap have a reason; the newest stay |
| Documents `documents/`, `vision/`, HTTP API `main.py` | a file and a row | upload, vision, OCR, delete, read | disk and database | one of two writes fails or a crash separates them; overlapping requests | what was answered stays true; every stray file or row has a reason |
| Weather `collectors/weather/`, `repo.py`, `main.py` | locations and forecasts | seeding, loop, on-demand query, search for a place | scheduler and API insert the same rows | unique keys hit by the other process, older data stored later | what was shown is stored; forecasts catch up |
| Commands and detection `interfaces/{commands,netdiag,hostcmd,...}.py` | none | routing of a text, /berita, /gempa, /cuaca | the bot's tasks | thirty patterns tried in an order | a text that stops starts nothing; a tool runs on what the text names |
| Formatting, digest `interfaces/{formatter,digest}.py` | none | cutting into messages, selecting | the bot | limits of Telegram, tags | every line arrives; messages are taken |
| Scheduler `scheduler.py` | one loop per job | start, tick, shutdown | drives the engines | a loop that ends early | every loop keeps running |
| Redis client `cache.py`, persistence `db/` | connections, rows | single calls, pages | used by all | failures per call; pages of a changing table | callers survive them; a reader misses nothing |
| other collectors, normalizer, prompts, host tools, settings, worker | none or values | I/O, strings | | | |

`PROJECT.json` lists every component with its status, and every hazard of the
code at its line with the properties that would catch it going wrong.

## 2. Modules

One module per component. Its header says which data is abstracted; names follow
the code. Histories (variables that only properties read) are named in each
header or at their declaration. A definition whose comment calls it a slip of the
code (`RecentStrict`, `LimitedLate`, `PollNoStep`, ...) is not reachable from the
specification: it is the version used to test that a property notices such a
mistake. `Bot` is composed of `Memory` and `Context`, `Answers` of six modules.

### Gateway

`Gateway.tla` models one `KelaGateway` and the requests served by it. State:
`names` (the keys of each pool), the key status and cooldown of each
(pool, key), breaker state, failure count and opening time of each key *name*
(`cbState`, `failures`, ...), the limiter's `hits`, the position of the running
request (`pc`, `pool`, `idx`, `attempts`, `lastError`), and the `log` of the
calls made, a history.

| action | code |
|---|---|
| `Build` | `build_gateway`: every message and API request makes new objects |
| `Complete`, `CompleteWithoutKeys` | the entry of `complete()` and its first pool |
| `SkipInactive`, `SkipLimited`, `SkipOpen` | the three `continue`s of the scan over keys |
| `Send` | the call goes out, after the limiter took a token and the circuit allowed it |
| `AnswerOk`, `AnswerError`, `AnswerEscapes` | a reply, an `OllamaError` of each class, and an exception of another kind (a body of an unexpected shape) |
| `NextPool`, `GiveUp` | the end of a pool: fail over, or raise |
| `Tick` | time |

Inside one pool the scan is `for key in keys`, and all its state changes happen
between awaits of one request. Requests of one gateway do not overlap in the
code: the chat and the API build one per request, and the batch of AI tasks
awaits one after the other.

### Alerts

`Alerts.tla` models the alert loop next to its environment. State: rows of
events and alerts, the order of `updated_at` (`recency`), each event's `thread`
of messages with a delivery flag, and the loop (`pc`, `todo`, `view`). `Select`
is the pair of queries; `Skip`, `Open`, `Announce`, `Note` are the outcomes of
`plan_alert` with their commit; `Deliver` is the send and its commit; `Abort` is
a crash or an exception that leaves the cycle. `NewEvent`, `Revise`, `EndEvent`
and `LinkArticle` are what the collectors and the event engine do to the rows
meanwhile. `Seen` is the snapshot: events are loaded once per cycle and their
statistics read per event. Both queries take the events updated last, as many as
the budget, and `Revise` rewrites a magnitude without touching the event's row:
`Before(e)`, the events updated after `e`, is what the two liveness properties
excuse. An earthquake without an alert may wait while news or ended events without
one fill the budget (`BudgetServesQuakes`), a revised one while alerted events do
(`PriorityCatchesUp`).

### Cron and ReminderBook

`Cron.tla` models the JSON list in Redis (`store`), one task per message and the
cron loop. Each read and each write is a step, with what will be written (`out`) and,
for the loop, what was read (`basis`) held in between; `fresh` tells whether Redis
still holds what was read. `AddRead`, `EditRead`,
`CancelRead`, `CancelCheck` (the second read of `delete_job`), `Save`; `FireRead`,
`FireSend` (one per reminder), `FireSave`; `Crash`, `Tick`. `stale` becomes TRUE
when a write is based on a list that is no longer the stored one, or on a read
that failed. `ReminderBook.tla` is the abstract specification: a set of
reminders to which users add, which they replace or drop, and from which due
ones leave or move to their next time. `StepsOfBook` shows Cron implements it,
with `book` as the set of the list's members, up to the first stale write: a
write after one may lose a reminder that was acknowledged (a finding). A write that
is reported as failed may or may not have reached Redis.

### Monitor

`Monitor.tla` models start and stop requests of two tasks in the bot against the
network loop of the scheduler. State: the true status of a target (`truth`), the
row's `enabled`, the set `ids` and key `status` in Redis, the scheduler's
fallback `memo`, `loop`, `task`; histories `said` (answers and alerts in order),
`upset` (which targets a failure, a crash or an overlap has disturbed) and
`overtaken` (alerts decided before a stop and sent after it). Each await is a
step and may fail. Statuses are up and down, as `_bucket` maps them.
Left out: key expiry and targets from settings that no chat ever enabled.

### EventEngine

`EventEngine.tla` models a cycle of the scheduler's event loop with its three
commits. State: articles by insertion (`stored`) with their `status`, `links`,
`events`, earthquakes without an event (`unwrapped`), the age limit (`cutoff`);
the session's `todo`, `profiles` and uncommitted writes `tx`. `Begin` is the two
queries of a batch; `Duplicate`, `Relate`, `OpenEvent` are the three outcomes for
an article, `DuplicateUnlinked` and `ArticleFails` the two failures that the
batch survives; `CommitBatch`, `WrapQuakes`, `RefreshConfidences` end in the
commits. `CycleDies` is an exception that leaves the cycle, `Restart` a restart
with its purge of stale articles. `Collect`, `NewQuake` and `EndEvent` are the
other loops and an operator. Texts stand for content hashes, a table of scores
for the similarity, which is symmetric and not transitive. `linked` is a history.

### AIServices

`AIServices.tla` models requests of `POST /ai/process`. State: `version` (the facts
of each event), `audit` and `artifacts` (committed rows of `ai_requests` and
`ai_interpretations`), `run` (position, tasks left and facts read of each
request). `Start` is the handler up to the first call, with its 404 and 400;
`Answer`, `FinishFailed`, `FinishSucceeded` are the gateway's answer and the commit
of the audit row; `Look`, `StoreArtifact`, `StoreConflict` are the two halves of
`upsert_ai_interpretation`, whose insertion may fail on the unique key; `Abort`
is a failing database or a crash, `Change` the event engine. The
scheduler's loop over these tasks ends at its start (a finding), so it is not an
actor.

### Memory, Context, Bot and Inbox

`Memory.tla` has the five transactions of `remember` (search for a twin, insert,
prune, count, pick and delete) as steps of a task, with `Forget`; the table starts
at its cap. `Context.tla` has `push_history` as a read and a write and
`_maybe_summarize` as look, reading and storing, each with the fallback taken when
Redis fails; `astray` remembers that a summary was asked of such a fallback. `Bot.tla` extends both with the poll loop: `Send`, `Poll`,
`PollFails`, `PollNothing`, `Crash`, and per update the route taken, its
memory, its question and its place in the history. Telegram (external) keeps
updates until an `offset` above them arrives. A message is foreign, a
`/forget`, a note, an action remembered after its reply, or a chat.

`Inbox.tla` is the abstract specification: messages are taken up in order, once,
and are brought to an end; only a crash loses one or has it taken up again.
`ImplementsInbox` shows that Bot implements it, its fairness included, with the
refinement mapping `Whereabouts`.

### Broadcast

`Broadcast.tla` models the news and the digest loop in minutes: what each keeps
in Redis (`stamp`, `date`, with their lives), what the process remembers
(`last`), and the look, send and mark of each as steps that may fail. Time
passes only up to what a loop that sleeps a minute leaves between its looks.

### Documents

`Documents.tla` models the file (`disk`) and row (`rows`) of each document and
overlapping requests `req`. Writing the file is one step with reading and parsing
(the code has no await there); then the row is committed or the request dies.
`Delete...` unlinks and commits. Vision and OCR of an upload, the refusals
(413, 415, 400, 422), and a failing disk, database or process are actions
of their own.

### Weather

`Weather.tla` models seeding at start-up, the weather loop and on-demand queries
on the same two tables. A look reads what the transaction sees; its commit fails
if the other process has inserted one of the rows meanwhile (`LoopConflict`,
`ApiConflict`; at start-up it ends the process, which docker starts again). A
forecast is the issue it comes from and tells two time slots.

### Naming

`Naming.tla` models the messages about monitors that depend on earlier ones: the
pending question for a name (with its expiry and fallback), the numbered list, a
stop by number, an edit of name and interval, whose new name is committed by
`remember()` before the interval is judged. `meant` is what the sender saw,
`crossed` that it has changed since.

### Answers: CronText, Routing, Chunks, Views, Places, Pages

The parts that keep nothing between two calls are operators; `Answers` puts one
question out of a bounded set, and an invariant compares the answer with a
definition of what it owes, written independently of the code.

| module | code | compared with |
|---|---|---|
| CronText | `_extract_time`, `_next_fire`, `parse_cron` and edits of `cron.py` | the minutes, days and words the sentence means |
| Routing | the order of detectors in `_reply_ai`, with `detect_*` of netdiag, monitoring, hostcmd | what must and must not happen to a text |
| Chunks | `chunk_html` | every line once, in order; messages Telegram takes |
| Views | `/berita`, `/gempa`, `/cuaca`, GET endpoints, digest, situation block, recalls, `pick_pending_events`, event summaries and reports | each other, where two readers tell the same thing, and the rows they must not miss |
| Places | `LocationIndex`: load, search, match, first village | names, cities and villages an index has |
| Pages | `list_documents`, `list_alerts` behind the API, page by page | the rows that were there all the time |

A text is the marks of the regular expressions that match and its words, each a
sequence of pieces, with targets as pieces. That is what the search for a monitor by
name needs: shared words count with synonyms and in any order, the 50 points for a
full name are for its pieces standing in the text one after the other, as written,
across spaces and signs; of equal scores the first in the order of the query wins,
and it is dropped if the tool cannot be run on its target. Rows have ids and equal
times come in any order, or in the order of ids where the code sorts by them.
`Pages` is a state machine: a reader pages through a table that is written
meanwhile. The stamps of rows are whole seconds of the database (`func.now()`), so
that rows may share one, and come in any order each time they do.

### Proof modules

| module | about | extends |
|---|---|---|
| GatewayProofs | types, circuits, order, limits, results, keys passed over | Gateway |
| AlertsProofs | types, what a thread of messages may be; types and numbers of rows, what names, numbers and edits mean | Alerts; Naming |
| EventEngineProofs | types, homes of articles, stories | EventEngine |
| CronProofs | types, what the list keeps, phases, steps of ReminderBook | Cron |
| BotProofs | types, memories, conversation, steps of Inbox | Bot, with Memory and Context |
| NoticesProofs | types, spacing, one digest a day, every day; types, answers and alerts about monitors | Broadcast; Monitor |
| TablesProofs | types, answers, strays; types, what was shown is stored; what a reader of pages sees | Documents; Weather; Pages |
| AIServicesProofs | types, what rows and interpretations tell | AIServices |

Three of them hold the theorems of components that share no variable; the names
of Monitor, Naming and Weather are prefixed (`MonitorInit`, `NamingTypeOK`,
`WeatherSpec`, ...) so that one module can extend both. Within a proof module the
invariants and lemmas of one component follow those of the other.

## 3. Runs

`tlc -workers 2 -config MCx.cfg MCx` for each row (`Broadcast` has no MC module of
its own: `tlc -config MCBroadcast.cfg Broadcast`). "States" are distinct states.

| run | shows | bounds | states |
|---|---|---|---|
| gateway | order of failover, spacing of calls and probes, limits, results, termination | pools `<<k1,k2>>`, none, `<<k1>>`, or all empty; threshold 2, limit 2, cooldowns 1 and 2, 2 requests, time up to 3, 2 builds | 196,670 |
| alerts | dedup, cooldown, deliveries, budget, priorities | one news event, two earthquakes, budget 1, 3 changes, 1 abort, time up to 2 | 182,522 |
| cron | the list is the book of reminders; phases; due jobs fire | 3 ids, 2 tasks, cap 2, day of 2, time up to 2, 3 operations, 1 failure | 736,499 |
| monitor | answers, alternation, nothing unsaid, catching up | 1 target, 2 tasks, 2 flips, 2 requests, 1 failure | 636,870 |
| events | homes of articles, copies, overlapping stories, confidence | 5 items (a copy, two of one site, two dates), batches of 2, 1 trouble | 219,128 |
| ai_tasks | what audit rows and interpretations tell of overlapping requests; requests end | 2 events, 2 requests, 1 change of facts, 1 trouble | 213,656 |
| bot | polling implements the inbox; memories and history of overlapping tasks | 2 messages of 6 kinds, cap 2, window 1, 2 exchanges kept, 1 trouble | 357,803 |
| broadcast | spacing of pushes, one digest a day, every day | interval 3, day of 5 minutes, 3 days, 3 troubles | 1,140,646 |
| documents | answers stay true; strays have a reason | 2 documents, 2 overlapping requests (up to symmetry), 2 troubles | 1,688,790 |
| weather | what was shown is stored; forecasts catch up | 1 place of the watchlist and 1 other, 2 queries, 2 issues, 1 trouble | 1,147,206 |
| naming | names and numbers mean what was seen; refused edits | 2 targets, 2 tasks, 4 messages, 1 trouble | 1,402,779 |
| functions | every question to the stateless parts; a reader of pages | see below | 238,217 |

What the named properties are made of: `CallsJustified` (gateway) has
`ProbesSpaced`, `CooldownRespected`, `RateRespected` and `ResultMatchesCalls`;
`ThreadsMakeSense` (alerts), `RemindersKept` (cron), `MonitoringHolds`,
`StoriesHold`, `EngineCatchesUp` (events), `InsightsHold`, `MemoryKept`, `ChatKept`,
`ChatUnderstood` and `AnswersRight` are conjunctions of named parts too, each part
stated with its comment in its module.

Why these bounds are enough for what the runs ask:

* gateway: a key in two pools is the smallest case in which the pools' key state
  and the shared circuit and window disagree, and the empty pool is the one that
  must be passed over. Threshold and limit 2 separate "at" from "one before" the
  limit. The breaker's cooldown is longer than the key's, so that a key may be
  active while its circuit is open; time 3 lets both pass.
* alerts: with a budget of 1, two earthquakes with alerts are one more than a cycle
  takes, and the news event can hold the only slot for those without: both LIMITs
  bite, and without its excuse each of the two liveness properties fails. Three
  changes reach two new earthquakes and a revision of the older one, or grow, bump
  and resolve in one thread.
* cron: a cap of 2 with 3 ids makes an addition at the cap possible. Two
  tasks and the loop are all kinds of overlap of reads and writes; a day of 2
  steps makes a one-day job miss its time and catch up.
* monitor: two flips let a target leave a status and come back within one
  decision. Two tasks let a start overlap a stop.
* events: with a table of scores that is not transitive, five items are the
  fewest in which a copy, two articles of one site, three sites that agree on
  the date and three that do not all occur. Batches of 2 leave raw articles for
  a later cycle. Nothing under `app/` ends an event; that an operator may is part
  of the model because the alert engine handles it.
* ai_tasks: two requests are what it takes to overlap; the two events have a type
  with two tasks and one with the default.
* bot: two messages let every transaction of one task fall between any two of the
  other. The table starts full, so that each `remember` trims; a window of 1
  below the cap makes twins out of its sight. A crash with one update confirmed
  and one not is the redelivery.
  A summary of a list that Redis never had (`astray`) takes two failures: that case
  is left to the theorem `BotChatKept`.
* broadcast: interval, day and the lives of the keys keep the order that the
  code's numbers have (an `ASSUME` states it); three days let a key expire and a
  failure on one day meet the next.
* documents: an upload and a deletion, two deletions, and an upload cut short
  beside another request; two troubles tear both writes of a document.
* weather: a place of the watchlist and one that only queries know make both
  kinds of rows conflict; two issues share a slot, which an older one may take back.
* naming: two targets and two tasks let a second question overtake an answer, and
  a list change between being shown and being used.
* functions: sentences with every kind of clock, period and day at three moments
  (morning, evening, a minute before midnight on a Sunday); texts with every
  detector alone and in pairs; tools with every sequence of up to three words of
  the names of five monitors, which share words, have synonyms, the word of a tool
  or a loopback address; answers of up to four lines (up to five for one
  block) around the limit; tables of up to three rows with NULLs and equal
  times; every subset of an index with equal and nested names; pages of one row
  with four rows, two of them of one instant, and two writes, in the same instant or
  the next.

Fairness. `Gateway!FairSpec`: weak fairness of the scan (synchronous code) and of
the answer (every call carries `ai_timeout_seconds`). `Alerts`, `Monitor`,
`Cron`, `EventEngine` and `Weather`: weak fairness of the loop alone, which the
scheduler and the bot repeat on a fixed interval and whose body catches
exceptions; where an exception ends the process at start-up, docker's restart
policy starts it again. `AIServices`: weak fairness of the steps of each request,
which follow by themselves, its calls by their timeouts. `Bot`: weak fairness of
`Poll`, which sleeps and asks again, and of each task's steps. Documents,
Broadcast, Naming and Answers check invariants only; `DigestComes` is one because
the loops' minutes are in the model. Nothing is assumed of users, endpoints,
targets or failures, except that each model bounds the number of failures, so
that liveness is asked of the time after the last one.

The liveness properties: `RequestsEnd` (gateway), `PriorityCatchesUp` and
`BudgetServesQuakes` (alerts), `DueGetsFired` (cron), `StatusCatchesUp` (monitor),
`EngineCatchesUp` (events), `RunsEnd` (ai_tasks), `ForecastsCatchUp` (weather), and
the fairness that is part of `ImplementsInbox` (bot).

`CHECK_DEADLOCK FALSE` stands where the bounded environment may have nothing left
to do: ai_tasks, bot, broadcast, documents, naming, functions.

Each property of a run has a mutant in `PROJECT.json`: a slip of the
modelled code (an off-by-one in the limiter, a missing reset, a swapped order)
under which TLC finds that property violated.

## 4. Proofs

`tlapm` checks the eight modules of theorems (section 2). Each theorem holds for all
constants that satisfy the `ASSUME` of its module: every set of keys, tasks,
documents or requests, every limit, and every bound of the models. The bounds of the
runs are gone; the number of failures and of requests is arbitrary.

Each proof has the same form: an inductive invariant `I`, the three facts
`Init => I`, `I /\ [Next]_vars => I'` with a step per action, and `I => P` for each
property. The inductive invariants were checked by TLC on the instances of the runs
before they were proved.

### Gateway

Assumes `GatewayAssumption`: at least one pool, no key twice in a pool, and limits and
thresholds of at least one.

* `TypeCorrect` (`TypeOK`). Not inductive alone: an answer indexes the pool's keys by
  the position that the call was sent from. `TInv` adds that a waiting request has a
  valid position and a logged call.
* `BreakerCorrect` (`BreakerTracksFailures`), inductive over `TInv`.
* `FailoverCorrect` (`FailoverOrder`). `OrderInv` ties the log to the running request:
  entries of the request lie before its position and failed, only the awaited one
  has no reply, none is of a later request.
* `GatewayCallsJustified` (`CallsJustified`), the conjunction of four properties of
  the log, each with the state that makes it last:
  * `CooldownRespected` needs `Rested`: what a failing call left in the key manager
    (disabled, or a cooldown at least as long as asked) or that its rest is over.
  * `ProbesSpaced` needs `SpacedInv`: the breaker's counter is the number of failing
    calls of the key since its last success in the log (`FailRow`), and after a call
    that reached the threshold the circuit is open or its cooldown over (`Guarded`).
  * `RateRespected` needs `RateInv`: from any moment of the window on, a key has no
    more calls in the log than tokens in the limiter's deque. Tokens may be more:
    `SkipOpen` takes one and calls nobody. Pruning drops only tokens older than the
    window (`PrunedTokens`), so a deque below the limit leaves room for the call.
  * `ResultMatchesCalls` needs `RunInv`: a request that has made attempts in the
    present pool remembers the error of the log's last entry, and one that has made
    none has no entry with that pool.
* `NoKeyPassedOver` (`NoUsableKeyPassedOver`, an action property). `PassedInv`: while
  no call was made in a pool, each key that the scan has passed is unusable. It stays
  so because the scan takes no time, keys of one pool are distinct, and a deque
  pruned twice is pruned once (`LimitedStays`).

### Alerts

Assumes `AlertsAssumption`. `AInv` is what makes deduplication work over crashes: the
row of an alert is what the last message of its thread said (`RowsTellLast`: signature,
time, status and, after a first message or a note on the priority, the priority), so
comparing the row with the present is comparing with the last message. `Underway` says
what holds between two commits of one event: its row exists and its thread is empty
before the first message, and its last message has no delivery while it is being
sent. `Typed` adds that a cycle's list holds no news; for this the queries and the
filter are written place by place (`InOrder`, `Latest`), and `InOrderType` shows that
each rank of a list is some place's. `AlertsTypes` (`TypeOK`) and `AlertsThreads`
(`ThreadsMakeSense`) follow, the latter with a count of undelivered messages
(`StraysCounted`) that rises and falls with the step that is being made.

### Naming

Assumes `NamingConstants`: targets are positive numbers, those started earlier are
distinct. `NInv` says per task what it relies on unless it is `crossed`, and relates
the prompt to the questions:

* `Question`: while nothing has failed and no two questions were on their way at once,
  at most one is, the fallback holds no prompt, and Redis' prompt is that of the
  question on its way or of the one asked last, or has been cleared.
* `ReplyReady`, `NumberReady`, `EditReady`: a reply that has not looked finds the
  prompt its sender saw or none; a stop that has not looked finds in Redis' list the
  target its sender saw under the number; a row that is being edited has the name
  the edit found.
* `RowsNumbered`: a row's id is at most the number of rows and no two rows share one,
  so `NewId` is free. At the start it follows from a bijection between the places of
  `Old` and the rows.

A step of one task is shown to leave the others with what they rely on or to tell
them (`Stays`, `Relies`, `TaskStays`); each action then has one lemma.
`NamingTypeCorrect` (`NamingTypeOK`) and `NamingChatUnderstood` (`ChatUnderstood`)
follow. What the list's order is does not matter to them, only that it is the same
for the same rows and opt-ins.

### EventEngine

Assumes `EventEngineAssumption`: scores are naturals and symmetric, as a cosine and a
Jaccard index are. The session of a cycle sees its own writes before they are
committed, so `EInv` says everything twice, of the committed rows and of what the
session sees (`StatusSeen`, `LinksSeen`):

* `Homes`, `CountedOnceIn`, `OnePrimaryIn`: an article that is processed has one link,
  a copy a link as a copy; among the links that count no two are of one text; an event
  has one primary article.
* `ProfilesCover`: during a batch every event that will be live once it commits has a
  profile with its primary article, and no two profiles are alike. An event that was
  ended after the batch loaded it is set back to "updated" by a related article
  (`tx.bumped`), so "will be live" is more than "is live": without `bumped` the
  invariant is not inductive, since that event would come back uncompared.
* An article that is like no profile opens an event (`BestIsSimilar`: the best profile
  is found as the one with fewest before it), so live events stay different stories.
* `ConfidenceBacked`: a high confidence is that of an event with the sites or dates
  that earn it (`HighIsBacked`).

`EngineTypes` (`TypeOK`) and `EngineStoriesHold` (`StoriesHold`) follow.

### Cron and ReminderBook

Assumes `CronAssumption`: delays of at most a week, as `compute_next_run` gives them.
`CronInv` has seven parts: types; that the id of a job being added is known to nobody
else (`Requests`); that the loop's list is the one it read with due jobs taken out or
moved on (`Pass`); that a list about to be written differs from the stored one in its
own job (`Changes`, before the first stale write); that the book is kept; that what was sent lies in
the past and no list holds it again but for undone passes (`Sends`); and the phases.

* `CronTypeCorrect` (`TypeOK`): the list never outgrows `MAX_JOBS` and never holds an
  id twice, although `add_job` checks a list it read earlier.
* `CronRemindersKept` (`RemindersKept`).
* `CronStepsOfBook` (`StepsOfBook`): every step of Cron up to the first stale write is
  one of ReminderBook or none.

### Bot, Memory, Context and Inbox

Assumes `BotConstants`, `MemoryConstants` and `ContextConstants`. `BInv` joins an
invariant of each part: `PollInv` (what is below the offset or forgotten by Telegram
has had its task), `MemoryInv`, `ContextInv`, and `Coupled` (a call of `remember` or
`push_history` is under way only where its task says so).

* `BotTypeCorrect` (`TypeOK`), for any number of updates.
* `BotMemoryKept` (`MemoryKept`). The bound on the table's size is the hard part: with
  several trims at once the sum of what they are about to delete may be more or less
  than the excess. `Bounded` says of every set of tasks that have counted that one of them leaves
  no more than the cap and a row for each trim outside the set.
* `BotChatKept` (`ChatKept`): the list is the latest exchanges while nothing disturbs it, and
  no summary is ahead of Redis' list while none was asked of another (`NothingAhead`).
* `BotFollowsInbox`: `TheInbox!Init` and `[][TheInbox!Next]_box`, that is
  `ImplementsInbox` without its fairness. Each action of Bot maps to one action of
  Inbox or leaves `box` as it is (`SendImplements`, `PollImplements`,
  `CrashImplements`, `TaskImplements`).

### Broadcast

Assumes `BroadcastConstants`: the order that the code's numbers have. `BInv` has
`Stamped` (neither Redis nor the process remembers a push older than the last one
that was written), `Dated` (the date is that of a digest sent or excused) and
`Settled` (a day is settled once the loop looked in its window or later), which
together give `BroadcastTypeCorrect` (`TypeOK`), `BroadcastSpacedOut` (`SpacedOut`) and
`BroadcastDigestComes` (`DigestComes`). `Settled` is why a window of at least two
minutes is assumed: the loop looks at least every other minute.

### Documents

Assumes `DocumentsConstants`. `DInv` adds that a document about to be stored is known
to its request alone (`StoresAlone`) and that deletions and answers belong to requests
(`DeletesAsked`, `RepliesAsked`). `DocumentsTypeCorrect` (`TypeOK`),
`DocumentAnswersKept` (`AnswersKept`) and `DocumentStraysExplained`
(`StraysExplained`) follow.

### Weather

Assumes `WeatherConstants`; the watchlist may name a village twice. `WInv` adds to the
types that start-up inserts or has seen every location of the watchlist, and that a
request has found the location it switches on (`WatchlistSeen`); that a row newer than
what a writer has fetched was written after its fetch, which the history `crossed`
tells (`NewerCrossed`); and that the rows of every answer are there, as new as the
answer unless an older fetch was stored over them (`AnswersBacked`). A commit that
meets a row of the other process changes nothing, which is why the unique keys keep
their meaning. `WeatherTypeCorrect` (`WeatherTypeOK`) and `WeatherAnswersStored`
(`AnswersStored`) follow.

### Monitor

Assumes `MonitorAssumption`. `MInv` speaks of each target by itself:

* `Alone`, `Apart`: what the histories rule out. While `upset` is FALSE one request at
  a time is about the target; while `overtaken` is FALSE none is while the loop is.
* `RequestsAgree`: without an upset, the row and the opt-in agree with the last answer
  between requests, and with the place of the request during one.
* `LoopAgrees`: without an upset or an overtaking, what the loop read is in Redis, and
  the last message tells the status in Redis, or the one the loop is about to change
  from. With `AlertsAlternateFor` this makes every alert a change.
* `NoneFollows`: after an alert that came late the target is not opted in and the loop
  does not look at it, until a start; so between two late alerts there is a stop
  (`OneLateAlertFor`).

Its operators on lists of messages are written without `SelectSeq`, and the proof has a
lemma for each on a list with one more message. `MonitorTypeCorrect` (`MonitorTypeOK`)
and `MonitorMonitoringHolds` (`MonitoringHolds`) follow.

### Pages

Assumes `PagesConstants`: the table is finite at the start, and its rows may share
their instants. `PInv` counts, for a row, the rows that are newer (`Higher`):

* `Ahead`: while the reader goes on, a row that it has not seen and must see has at
  least as many newer rows as the reader has skipped, so it comes on a later page; a
  row inserted or brought up to date only raises the number, and a removed newer row is
  the excuse. It also has one newer row, so that no write comes to share its instant.
* `Behind`: as long as nothing comes to the front, a row that was seen has fewer newer
  rows than the reader has skipped, so it does not come again.

The lemmas say which rows a page has: those of a sorted listing whose place, the number
of newer rows, lies within the page. `PagesHold` (`PagesMissNothing`) follows, for every
page size and every number of rows and writes.

### AIServices

Assumes `AIConstants`. `AInv` says that requests began in order and read facts that only
grow (`FactsGrow`), that live ones overlap (`LiveOverlap`), that an insertion follows
the commit of its audit row (`RowFirst`, `RowsKept`), and that each interpretation is
that of its row (`ArtifactsTraced`, `DoneStored`). `AITypeCorrect` (`TypeOK`) and
`AIInsightsHold` (`InsightsHold`) follow.

### What the proofs corrected

The instances of the runs were too small to show these; a proof that would not go
through did, and TLC confirmed each on a larger instance.

* Context: a summary could go back without a crossing. It takes two failures: a list
  from the fallback is summarised, and Redis, back again, has an older one. The
  property now speaks of the time before that (`astray`). The run `bot` has one
  failure and could not show it.
* AIServices: `LatestUnlessTogether` said less of an interpretation replaced by a
  request under way together than the code ensures; its second part now compares the
  runs.
* Cron: a write that is reported as failed may have reached Redis, whether a
  write is `stale` is now a history of what happened between its read and it (`fresh`),
  not a comparison of two lists, and delays of more than a week, which the code never
  makes, would have broken the phase.
* Pages: the rows that were there at the start had an instant each, so that the excuse
  of the property for a shared instant was never used, and it spoke of the rows at the
  end. They may share one now, and the property names the rows that did.
* Broadcast: the clock starts with day 1, so that `Day <= MaxTime` belongs to the
  assumptions.

### What is only model-checked

* Liveness (`RequestsEnd`, `PriorityCatchesUp`, `BudgetServesQuakes`, `DueGetsFired`,
  `StatusCatchesUp`, `EngineCatchesUp`, `RunsEnd`, `ForecastsCatchUp`) and the fairness
  within `ImplementsInbox`: fairness and ENABLED are beyond the prover.
* The stateless parts (CronText, Routing, Chunks, Views, Places): what a function computes
  for every sentence, text or table is induction over data, which the installed
  provers cannot instantiate. `Places!FirstVillage` is RECURSIVE, so that
  Places and Answers hold no theorems.

## 5. Findings

`PROJECT.json` has 28, with their lines. They were met while translating the code;
the models have the code's behaviour, and the passing property named here says
what remains true.

| code | what the code does against its word | what still holds |
|---|---|---|
| `key_manager.py:51` | a 403 rests a key, does not disable it | `CallsJustified` |
| `gateway.py:289` | cooldown, circuit and window live as long as the gateway, one message | `CallsJustified`, per gateway |
| `alert_engine/__init__.py:54`, `:56`, `:87`, `dedup.py:68` | news may hold the budget; alerted events beyond it are not looked at again, whatever their magnitude; a crash leaves a thread without its first message; notes do not wait for the cooldown | `BudgetServesQuakes`, `PriorityCatchesUp`, `ThreadsMakeSense` |
| `cron.py:434`, `:372`, `:428`, `:146` | a stale write loses a reminder; a failed first read empties the list; a failed send goes unnoticed; "jam 25" raises | `RemindersKept`, `StepsOfBook`, `AnswersRight` |
| `monitoring.py:539`, `:510`, `:295`, `:56` | an alert after the stop; a bare name, which the prompt asks for, is not taken; a refused edit keeps the name; a single ping goes out for "ping ... terus" | `MonitoringHolds`, `ChatUnderstood`, `AnswersRight` |
| `event_engine/dedup.py:51` | a copy of a related article is in no event | `StoriesHold` |
| `scheduler.py:174`, `:147`, `vision/analyzer.py:52` | the AI loop and the analysis of images by a model never run; one conflict ends a weather cycle | `ForecastsCatchUp` |
| `db/repo.py:161`, `main.py:845` | rows for queries are enabled; reports count copies | `AnswersStored`, `AnswersRight` |
| `memory.py:172` | recall answers nothing where it promises the newest | `AnswersRight` |
| `telegram.py:1030`, `:823` | the summary delays its task; an older stamp wins after an outage | `ChatKept`, `SpacedOut` |
| `formatter.py:34`, `netdiag.py:185`, `:193`, `:194`, `commands.py:335` | tags of one-line blocks; a monitor named by its address; a name without letters fits every text; a full name said with a synonym is no full name; a missing wind speed | `AnswersRight` |

## 6. Not modelled

The news, earthquake and network collectors, the normalizer's string functions,
prompts, host tools, rendering and downloads of documents, image generation,
Markdown and LaTeX: I/O, libraries and wording, whose results are inputs of the
models. Commands that run one tool and print its output, /status, heartbeats and
the counts of `memory_stats`: reports without state. The worker: a placeholder.
Settings: the CONSTANTS. The set of opted-in targets expires a year after the last
/monitor; that span is not in the models (the one hazard without a property).
Statistics, latencies and request bodies of the gateway are left out: nothing
decides on them. Seeding of the news sources is a list of constants.

## 7. Plan

The modules of the plan are written, and every safety property of a component with
state is a theorem. What is left:

1. A property for the expiry of the opt-in set after a year, the one hazard that no
   property covers.
2. Lemmas about the stateless parts that need no induction over data, such as
   Routing's order of detectors, in a module apart from `Places` and its recursion.
