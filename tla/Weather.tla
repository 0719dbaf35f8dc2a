------------------------------- MODULE Weather -------------------------------
(***************************************************************************)
(* Weather locations and forecasts: the scheduler's start-up and weather   *)
(* loop (scheduler.py, repo.py) next to the on-demand query of the API     *)
(* (main.py), two processes that look for rows and then insert or update   *)
(* them in the same two tables.                                            *)
(*                                                                         *)
(* A location is its village code.  BMKG publishes issues 0, 1, ...; issue *)
(* i tells the time slots i and i+1, and a stored forecast is the issue it *)
(* comes from.  A look reads all that a transaction sees; its commit fails *)
(* on the unique keys if another process has inserted one of the rows it   *)
(* did not see.  `answers` and `crossed` are histories.                    *)
(***************************************************************************)
EXTENDS Naturals, Sequences, FiniteSets, SequencesExt

CONSTANTS
    Fixtures,    \* WEATHER_LOCATIONS, a sequence of codes
    AdHoc,       \* further codes that a query may resolve to
    Queries,     \* API requests
    MaxIssue,    \* bound: issues BMKG publishes
    MaxMishaps   \* bound: failed or empty answers of BMKG, restarts, operator's switches

ASSUME WeatherConstants ==
    /\ Fixtures \in Seq(ToSet(Fixtures)) /\ "loop" \notin Queries
    /\ MaxIssue \in Nat /\ MaxMishaps \in Nat

Villages == ToSet(Fixtures) \cup AdHoc
Writers == {"loop"} \cup Queries

VARIABLES
    places,      \* weather_locations in order of id: [code, enabled]
    forecasts,   \* <<code, slot>> -> issue, the rows of weather_forecasts
    issue,       \* the latest issue
    todo,        \* the codes the loop's cycle has still to visit
    w,           \* what each writer is doing
    answers,     \* issues the API has shown, as <<code, issue>>
    crossed,     \* per writer: rows written by others since its fetch
    torn,        \* rows once put back to an older issue by a writer that was crossed
    mishaps

weatherVars == <<places, forecasts, issue, todo, w, answers, crossed, torn, mishaps>>
weatherHistories == <<answers, crossed, torn>>

-----------------------------------------------------------------------------
Slots(i) == {i, i + 1}
Known == {places[i].code : i \in DOMAIN places}
Enabled == {places[i].code : i \in {j \in DOMAIN places : places[j].enabled}}
Place(c) == CHOOSE i \in DOMAIN places : places[i].code = c
NewPlace(c) == [code |-> c, enabled |-> TRUE]
None == "none"
Quiet(pc) == [pc |-> pc, code |-> None, issue |-> 0, seen |-> {}]
Mishap == mishaps < MaxMishaps /\ mishaps' = mishaps + 1

WeatherInit ==
    /\ places = << >> /\ forecasts = << >> /\ issue = 0 /\ todo = << >>
    /\ w = [p \in Writers |-> Quiet(IF p = "loop" THEN "seed" ELSE "new")]
    /\ answers = {} /\ crossed = [p \in Writers |-> {}] /\ torn = {}
    /\ mishaps = 0

Go(p, pc) == w' = [w EXCEPT ![p].pc = pc]
Stop(p, pc) == w' = [w EXCEPT ![p] = Quiet(pc)]

-----------------------------------------------------------------------------
(* Start-up of the scheduler: seed an empty table, then add what is missing *)
(* and switch on again what is off.  A conflict ends the process, which     *)
(* docker starts again.                                                     *)

\* What a sequence has at these places, in order.
Kept(s, at) ==
    [k \in 1 .. Cardinality(at) |-> s[CHOOSE n \in at : Cardinality({m \in at : m <= n}) = k]]

\* The codes to insert, judged by the rows seen.  The second function looks
\* anew for each, after the flush of those before: none is inserted twice.
ToSeed(seen) == IF seen = {} THEN Fixtures ELSE << >>
ToSync(seen) ==
    Kept(Fixtures, {n \in DOMAIN Fixtures :
                       /\ Fixtures[n] \notin seen
                       /\ \A m \in DOMAIN Fixtures : m < n => Fixtures[m] # Fixtures[n]})

Look(pc, next) ==
    /\ w["loop"].pc = pc
    /\ w' = [w EXCEPT !["loop"].pc = next, !["loop"].seen = Known]
    /\ UNCHANGED <<places, forecasts, issue, todo, weatherHistories, mishaps>>

SeedLook == Look("seed", "seeding")
SyncLook == Look("sync", "syncing")

Inserted(new) == places \o [i \in DOMAIN new |-> NewPlace(new[i])]
UniqueKey(rows) ==
    \A i, j \in DOMAIN rows : rows[i].code = rows[j].code => i = j
SwitchedOn(rows) ==
    [i \in DOMAIN rows |-> IF rows[i].code \in ToSet(Fixtures)
                           THEN [rows[i] EXCEPT !.enabled = TRUE] ELSE rows[i]]

SeedCommit ==
    /\ w["loop"].pc = "seeding"
    /\ LET new == ToSeed(w["loop"].seen) IN
          IF UniqueKey(Inserted(new))
          THEN places' = Inserted(new) /\ Stop("loop", "sync")
          ELSE Stop("loop", "seed") /\ UNCHANGED places
    /\ UNCHANGED <<forecasts, issue, todo, weatherHistories, mishaps>>

SyncCommit ==
    /\ w["loop"].pc = "syncing"
    /\ LET new == ToSync(w["loop"].seen) IN
          IF UniqueKey(Inserted(new))
          THEN places' = SwitchedOn(Inserted(new)) /\ Stop("loop", "idle")
          ELSE Stop("loop", "seed") /\ UNCHANGED places
    /\ UNCHANGED <<forecasts, issue, todo, weatherHistories, mishaps>>

-----------------------------------------------------------------------------
(* The weather loop. *)

CycleBegin ==
    /\ w["loop"].pc = "idle"
    /\ todo' = Kept([i \in DOMAIN places |-> places[i].code],
                    {i \in DOMAIN places : places[i].enabled})
    /\ Go("loop", "cycle")
    /\ UNCHANGED <<places, forecasts, issue, weatherHistories, mishaps>>

CycleEnd ==
    /\ w["loop"].pc = "cycle" /\ todo = << >>
    /\ Go("loop", "idle")
    /\ UNCHANGED <<places, forecasts, issue, todo, weatherHistories, mishaps>>

\* fetch_forecast and parse_weather_payload: the latest issue.
Fetched(p, c, pc) ==
    /\ w' = [w EXCEPT ![p] = [pc |-> pc, code |-> c, issue |-> issue, seen |-> {}]]
    /\ crossed' = [crossed EXCEPT ![p] = {}]

LoopFetch ==
    /\ w["loop"].pc = "cycle" /\ todo # << >>
    /\ todo' = Tail(todo)
    /\ Fetched("loop", Head(todo), "label")
    /\ UNCHANGED <<places, forecasts, issue, answers, torn, mishaps>>

\* An exception, or a payload without rows, leaves this location as it is and
\* the loop goes on with the next one.
LoopFetchFails ==
    /\ w["loop"].pc = "cycle" /\ todo # << >>
    /\ Mishap
    /\ todo' = Tail(todo)
    /\ UNCHANGED <<places, forecasts, issue, w, weatherHistories>>

-----------------------------------------------------------------------------
(* upsert_weather_forecasts, for the loop and for the API.  The labels     *)
(* that update_weather_location commits just before are read by nobody here. *)

Rows(p) == {w[p].code} \X Slots(w[p].issue)

UpsertLook(p) ==
    /\ w[p].pc = "label"
    /\ w' = [w EXCEPT ![p].pc = "commit", ![p].seen = Rows(p) \cap DOMAIN forecasts]
    /\ UNCHANGED <<places, forecasts, issue, todo, weatherHistories, mishaps>>

Conflict(p) == (Rows(p) \ w[p].seen) \cap DOMAIN forecasts # {}
Upserted(p) == [k \in DOMAIN forecasts \cup Rows(p) |->
                   IF k \in Rows(p) THEN w[p].issue ELSE forecasts[k]]
PutBack(p) == {k \in Rows(p) \cap DOMAIN forecasts : forecasts[k] > w[p].issue}

\* Writers between their fetch and their commit
Holding(p) == w[p].pc \in {"find", "enable", "create", "label", "commit"}

UpsertCommit(p) ==
    /\ w[p].pc = "commit" /\ ~Conflict(p)
    /\ forecasts' = Upserted(p)
    /\ crossed' = [q \in Writers |-> IF q # p /\ Holding(q) THEN crossed[q] \cup Rows(p) ELSE {}]
    /\ torn' = torn \cup (PutBack(p) \cap crossed[p])
    /\ IF p = "loop"
       THEN Stop(p, "cycle") /\ UNCHANGED answers
       ELSE Stop(p, "200") /\ answers' = answers \cup {<<w[p].code, w[p].issue>>}
    /\ UNCHANGED <<places, issue, todo, mishaps>>

\* A slip of the loop's conflict: the exception leaves the loop.
LoopConflictDies ==
    /\ w["loop"].pc = "commit" /\ Conflict("loop")
    /\ Stop("loop", "dead") /\ todo' = << >>
    /\ UNCHANGED <<places, forecasts, issue, weatherHistories, mishaps>>

\* The failed flush leaves the session without a transaction and its objects
\* expired: the handler that would go on with the next location raises as well,
\* and the rest of the cycle is lost.
LoopConflict ==
    /\ w["loop"].pc = "commit" /\ Conflict("loop")
    /\ Stop("loop", "idle") /\ todo' = << >>
    /\ UNCHANGED <<places, forecasts, issue, weatherHistories, mishaps>>

\* A slip of the API's conflict: the answer is given all the same.
ApiConflictHidden(q) ==
    /\ w[q].pc = "commit" /\ Conflict(q)
    /\ Stop(q, "200") /\ answers' = answers \cup {<<w[q].code, w[q].issue>>}
    /\ UNCHANGED <<places, forecasts, issue, todo, crossed, torn, mishaps>>

ApiConflict(q) ==
    /\ w[q].pc = "commit" /\ Conflict(q)
    /\ Stop(q, "500")
    /\ UNCHANGED <<places, forecasts, issue, todo, weatherHistories, mishaps>>

-----------------------------------------------------------------------------
(* weather_query: the code is a known location's or the index's. *)

QueryFetch(q) ==
    /\ w[q].pc = "new"
    /\ \E c \in Villages : Fetched(q, c, "find")
    /\ UNCHANGED <<places, forecasts, issue, todo, answers, torn, mishaps>>

\* Nothing found is 404; an answer of BMKG that fails or has no rows is 502.
QueryRefused(q) ==
    /\ w[q].pc = "new"
    /\ Stop(q, "404") \/ Stop(q, "502")
    /\ UNCHANGED <<places, forecasts, issue, todo, weatherHistories, mishaps>>

\* get_or_create_weather_location: a location found is switched on.
QueryFind(q) ==
    /\ w[q].pc = "find"
    /\ Go(q, IF w[q].code \in Known THEN "enable" ELSE "create")
    /\ UNCHANGED <<places, forecasts, issue, todo, weatherHistories, mishaps>>

QueryEnable(q) ==
    /\ w[q].pc = "enable"
    /\ places' = [places EXCEPT ![Place(w[q].code)].enabled = TRUE]
    /\ Go(q, "label")
    /\ UNCHANGED <<forecasts, issue, todo, weatherHistories, mishaps>>

\* A slip of QueryCreate: no unique key guards the insertion.
QueryCreateTwice(q) ==
    /\ w[q].pc = "create"
    /\ places' = Append(places, NewPlace(w[q].code)) /\ Go(q, "label")
    /\ UNCHANGED <<forecasts, issue, todo, weatherHistories, mishaps>>

QueryCreate(q) ==
    /\ w[q].pc = "create"
    /\ IF w[q].code \in Known
       THEN Stop(q, "500") /\ UNCHANGED places
       ELSE places' = Append(places, NewPlace(w[q].code)) /\ Go(q, "label")
    /\ UNCHANGED <<forecasts, issue, todo, weatherHistories, mishaps>>

-----------------------------------------------------------------------------
Publish ==
    /\ issue < MaxIssue /\ issue' = issue + 1
    /\ UNCHANGED <<places, forecasts, todo, w, weatherHistories, mishaps>>

\* An operator's UPDATE; nothing in the code switches a location off.
SwitchOff(c) ==
    /\ c \in Enabled /\ Mishap
    /\ places' = [places EXCEPT ![Place(c)].enabled = FALSE]
    /\ UNCHANGED <<forecasts, issue, todo, w, weatherHistories>>

\* The scheduler dies, at whatever point, and starts again.
Restart ==
    /\ Mishap /\ Stop("loop", "seed") /\ todo' = << >>
    /\ UNCHANGED <<places, forecasts, issue, weatherHistories>>

Loop == \/ SeedLook \/ SeedCommit \/ SyncLook \/ SyncCommit
        \/ CycleBegin \/ LoopFetch \/ CycleEnd \/ LoopConflict
        \/ UpsertLook("loop") \/ UpsertCommit("loop")

Query(q) == \/ QueryFetch(q) \/ QueryRefused(q) \/ QueryFind(q) \/ QueryEnable(q) \/ QueryCreate(q)
            \/ UpsertLook(q) \/ UpsertCommit(q) \/ ApiConflict(q)

WeatherNext ==
    \/ Loop \/ LoopFetchFails \/ Publish \/ Restart
    \/ \E q \in Queries : Query(q)
    \/ \E c \in Villages : SwitchOff(c)

\* The loop sleeps for a fixed interval and catches exceptions; a restart is
\* docker's.
WeatherSpec == WeatherInit /\ [][WeatherNext]_weatherVars
FairWeatherSpec == WeatherSpec /\ WF_weatherVars(Loop)

-----------------------------------------------------------------------------
Booted == w["loop"].pc \notin {"seed", "seeding", "sync", "syncing"}

\* Types, and the unique key of weather_locations: no code has two rows.
WeatherTypeOK ==
    /\ UniqueKey(places)
    /\ Known \subseteq Villages /\ todo \in Seq(Villages)
    /\ DOMAIN forecasts \subseteq Villages \X (0..MaxIssue + 1)
    /\ \A p \in Writers : w[p].code \in Villages \cup {None} /\ w[p].issue \in 0..issue
    /\ issue \in 0..MaxIssue /\ mishaps \in 0..MaxMishaps

\* What the API has shown is stored, on every later day too: each slot of the
\* answer has that issue or a later one, or was put back by a writer whose fetch
\* was older and crossed with it; and once the scheduler has started, every
\* location of the watchlist has its row.
AnswersStored ==
    /\ \A a \in answers : \A k \in {a[1]} \X Slots(a[2]) :
          k \in DOMAIN forecasts /\ (forecasts[k] >= a[2] \/ k \in torn)
    /\ Booted => ToSet(Fixtures) \subseteq Known

\* Whatever conflicts, failures and restarts, each enabled location's forecasts
\* come to tell the latest issue.
Current == /\ Booted
           /\ \A c \in Enabled : \A s \in Slots(issue) :
                 <<c, s>> \in DOMAIN forecasts /\ forecasts[<<c, s>>] = issue
ForecastsCatchUp == []<>Current

=============================================================================
