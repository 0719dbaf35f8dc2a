-------------------------------- MODULE Answers --------------------------------
(***************************************************************************)
(* Questions to the parts of the program that keep nothing between two     *)
(* calls: the reading of reminders (CronText), the choice of who answers a *)
(* text (Routing), the cutting of an answer into messages (Chunks), the    *)
(* readings of the database (Views) and the search for a place (Places).   *)
(* A question is put, and what is true of every answer is an invariant.    *)
(* Beside them a table is read page by page (Pages).                       *)
(***************************************************************************)
EXTENDS CronText, Routing, Chunks, Views, Places, Pages

CONSTANTS
    Sentences, Jobs,         \* sentences about reminders, and the reminders there are
    Moments,                 \* minutes at which they are said
    Hours,                   \* hours at which a table is read
    Texts,                   \* texts to be routed
    Replies,                 \* answers of the AI, as lines
    ArticleSets, QuakeSets, ForecastSets, LinkSets, CheckSets, EventSets, MemorySets,  \* tables
    Targets,                 \* network targets
    Queries,                 \* words asked of the memories
    Indexes, PlaceNames      \* indexes of areas, and the names that are looked for

VARIABLE asked   \* the question: [kind, ...]

vars == <<asked, pageVars>>
Nobody == [kind |-> "none"]

Init == asked = Nobody /\ PagesInit

\* A question is put before the reader begins, and ends the matter.
Ask(question) == asked' = question /\ UNCHANGED pageVars

AskCron    == \E s \in Sentences, t \in Moments : Ask([kind |-> "cron", text |-> s, now |-> t])
AskRoute   == \E t \in Texts, a \in PromptAnswers \cup {"none"}, p \in BOOLEAN :
                 Possible(t) /\ Ask([kind |-> "route", text |-> t, answer |-> a, prompt |-> p])
AskChunks  == \E r \in Replies : Ask([kind |-> "chunks", lines |-> r])
AskNews    == \E s \in ArticleSets, t \in Hours : Ask([kind |-> "news", rows |-> s, now |-> t])
AskQuakes  == \E s \in QuakeSets, t \in Hours : Ask([kind |-> "quakes", rows |-> s, now |-> t])
AskWeather == \E s \in ForecastSets, t \in Hours : Ask([kind |-> "weather", rows |-> s, now |-> t])
AskEvent   == \E s \in LinkSets : Ask([kind |-> "event", rows |-> s])
AskChecks  == \E s \in CheckSets, i \in SUBSET Targets : Ask([kind |-> "checks", rows |-> s, ids |-> i])
AskEvents  == \E s \in EventSets, k \in {"active", "closed", "no status"}, y \in {"news", "other"}, w \in {{}, {1, 9}} :
                 Ask([kind |-> "events", rows |-> s, status |-> k, type |-> y, wanted |-> w])
AskPick    == \E s \in EventSets, n \in 1..2 : Ask([kind |-> "pick", rows |-> s, limit |-> n])
AskRecall  == \E s \in MemorySets, q \in Queries, n \in 1..2 :
                 Ask([kind |-> "recall", rows |-> s, query |-> q, limit |-> n])
AskPlace   == \E x \in Indexes, q \in PlaceNames : Ask([kind |-> "place", index |-> x, query |-> q])

Next ==
    \/ /\ asked = Nobody /\ reader.pc = "off"
       /\ \/ AskCron \/ AskRoute \/ AskChunks \/ AskNews \/ AskQuakes \/ AskWeather
          \/ AskEvent \/ AskChecks \/ AskEvents \/ AskPick \/ AskRecall \/ AskPlace
    \/ asked = Nobody /\ PagesNext /\ UNCHANGED asked

Spec == Init /\ [][Next]_vars

-----------------------------------------------------------------------------
\* Every answer is what its reader is owed; each part is stated in its module.
AnswersRight ==
    CASE asked.kind = "cron"    -> Understood(asked.text, Jobs, asked.now)
      [] asked.kind = "route"   -> RouteHolds(asked.text, asked.answer, asked.prompt)
      [] asked.kind = "chunks"  -> ChunksHold(asked.lines)
      [] asked.kind = "news"    -> NewsAgree(asked.rows, asked.now)
      [] asked.kind = "quakes"  -> QuakesAgree(asked.rows, asked.now)
      [] asked.kind = "weather" -> WeatherHolds(asked.rows, {p.place : p \in asked.rows} \cup {"unknown"}, asked.now)
      [] asked.kind = "event"   -> SummariesAgree(asked.rows)
      [] asked.kind = "checks"  -> ChecksAgree(asked.rows, Targets, asked.ids)
      [] asked.kind = "events"  -> EventsHold(asked.rows, asked.status, asked.type, asked.wanted, Shown)
      [] asked.kind = "pick"    -> PickHolds(asked.rows, asked.limit)
      [] asked.kind = "recall"  -> RecallHolds(asked.rows, asked.query, asked.limit)
      [] asked.kind = "place"   -> PlacesHold(asked.index, asked.query)
      [] asked.kind = "none"    -> TRUE

=============================================================================
