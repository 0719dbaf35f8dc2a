--------------------------------- MODULE Views ---------------------------------
(***************************************************************************)
(* What the readers of the database show: the GET endpoints (main.py), the *)
(* commands of the chat (commands.py), the digest (digest.py), the block   *)
(* about the situation that every answer of the AI gets (context.py), the  *)
(* memories recalled for it (memory.py) and the events that are picked for *)
(* the AI tasks (services.py).  Each answers from one reading of a table.  *)
(*                                                                         *)
(* A table is a set of records with distinct ids; times are numbers, and   *)
(* None is the NULL of a column.                                           *)
(***************************************************************************)
EXTENDS Integers, Sequences, FiniteSets, SequencesExt

CONSTANTS
    MaxAge,       \* NEWS_MAX_AGE_HOURS
    Near,         \* 6 hours, on both sides of now
    DigestHours,  \* 24
    DigestMag,    \* DIGEST_MIN_MAGNITUDE
    QuakePool,    \* the newest earthquakes that /gempa looks at (50)
    Shown,        \* rows of a reply (8 of the news, 5 of the quakes, ...)
    Oversample,   \* of pick_pending_events
    Pool          \* of recall_relevant

ASSUME ViewsConstants == {MaxAge, Near, DigestHours, DigestMag, QuakePool, Shown, Oversample, Pool} \subseteq Nat

None == -1
Least(a, b) == IF a < b THEN a ELSE b
Most(a, b) == IF a > b THEN a ELSE b
First(s, n) == SubSeq(s, 1, Least(n, Len(s)))
Distance(a, b) == Most(a, b) - Least(a, b)

\* ORDER BY Key(row) DESC; rows that are equal come in any order
Newest(rows, Key(_)) == SetToSortSeq(rows, LAMBDA a, b : Key(a) > Key(b) \/ (Key(a) = Key(b) /\ a.id > b.id))

-----------------------------------------------------------------------------
(* News *)

When(a) == IF a.published # None THEN a.published ELSE a.scraped

\* A topic: the sources and the titles that are asked for; {} asks for all.
Topics == {"latest", "tech", "sport", "football"}
SourcesOf == [t \in Topics |-> CASE t = "tech" -> {"tech"} [] t \in {"sport", "football"} -> {"sport"} [] OTHER -> {}]
TitlesOf == [t \in Topics |-> IF t = "football" THEN {"football"} ELSE {}]

\* The filters of _render_news
FitsNews(a, topic, now) ==
    /\ a.published = None \/ a.published >= now - MaxAge
    /\ SourcesOf[topic] # {} => a.source \in SourcesOf[topic]
    /\ TitlesOf[topic] # {} => a.title \in TitlesOf[topic]

News(arts, topic, now) ==
    First(Newest({a \in arts : FitsNews(a, topic, now)}, When), Shown)

\* build_news_briefing: what the AI may cite
Briefing(arts, now) ==
    First(Newest({a \in arts : When(a) >= now - MaxAge}, When), Shown)

\* the headlines of build_situation_block, whatever their age
Scraped(a) == a.scraped
SituationNews(arts) == First(Newest(arts, Scraped), Shown)

-----------------------------------------------------------------------------
(* Earthquakes.  A magnitude may be None. *)

At(r) == r.at

\* _gempa filters what the query has limited; it takes 0 for no minimum at all
Quakes(rows, min) ==
    LET pool == First(Newest(rows, At), QuakePool)
        Strong(r) == min = None \/ (r.mag # None /\ r.mag >= min)
    IN  First(SelectSeq(pool, Strong), Shown)

LatestQuake(rows) == First(Newest(rows, At), 1)

\* build_digest filters in the query
DigestQuakes(rows, now) ==
    First(Newest({r \in rows : r.at >= now - DigestHours /\ r.mag # None /\ r.mag >= DigestMag}, At), Shown)

-----------------------------------------------------------------------------
(* Weather: of each place the forecast that is nearest to now.  The same   *)
(* search stands in weather_now, _weather, build_digest and _weather_lines.*)

Window(forecasts, place, now) ==
    {f \in forecasts : f.place = place /\ Distance(f.at, now) <= Near}
Nearest(forecasts, place, now) ==
    CHOOSE f \in Window(forecasts, place, now) :
        \A g \in Window(forecasts, place, now) : Distance(f.at, now) <= Distance(g.at, now)
Blank == [id |-> 0, place |-> "none", at |-> None, wind |-> None]
Weather(forecasts, places, now) ==
    [p \in places |-> IF Window(forecasts, p, now) = {} THEN Blank ELSE Nearest(forecasts, p, now)]

\* weather_now: every place, by name; _weather_lines: those with a forecast, of the
\* first places; build_digest: the first places
WithForecast(shown) == {p \in DOMAIN shown : shown[p] # Blank}
WeatherLines(forecasts, places, now) ==
    LET some == ToSet(First(places, Shown)) IN WithForecast(Weather(forecasts, some, now))
WeatherDigest(forecasts, places, now) == Weather(forecasts, ToSet(First(places, Shown)), now)

\* /weather writes the wind of each forecast without asking whether there is one.
Failed == "error"
WeatherReply(forecasts, places, now) ==
    LET shown == Weather(forecasts, places, now) IN
    IF \E p \in places : shown[p] # Blank /\ shown[p].wind = None THEN Failed ELSE "cards"

-----------------------------------------------------------------------------
(* Checks and events *)

\* The check of the highest id of each target
LatestCheck(checks, t) == {c \in checks : c.target = t /\ \A d \in checks : d.target = t => d.id <= c.id}
StatusOf(checks, t) == IF LatestCheck(checks, t) = {} THEN "unchecked"
                       ELSE (CHOOSE c \in LatestCheck(checks, t) : TRUE).status

\* The digest counts all targets; its lines, and those of the situation, are some.
Tally(checks, targets) ==
    LET Having(ss) == Cardinality({t \in targets : StatusOf(checks, t) \in ss}) IN
    [up |-> Having({"up"}), down |-> Having({"down", "timeout", "error"}), other |-> Having({"unchecked"})]

\* The lines on monitors in build_situation_block: of the targets opted in
Situation(checks, targets, ids) == [t \in targets \cap ids |-> StatusOf(checks, t)]

\* GET /events takes a status or a type that does not exist for no filter.
Statuses == {"active", "updated", "resolved", "closed"}
ListEvents(events, status, type, limit) ==
    LET Asked(e) == /\ status \in Statuses => e.status = status
                    /\ type \in {"news", "earthquake"} => e.type = type
    IN  First(Newest({e \in events : Asked(e)}, At), limit)

\* generate_report: the events named, or else the newest; none is an error
ReportEvents(events, wanted, limit) ==
    IF wanted = {} THEN First(Newest(events, At), limit)
    ELSE Newest({e \in events : e.id \in wanted}, At)

Reports(links) == {l \in links : l.relation # "duplicate"}

\* _event_summary and the counts of generate_report
Summary(links) ==
    [articles |-> Cardinality(Reports(links)),
     sources |-> Cardinality({l.domain : l \in Reports(links)} \ {None})]
ReportSummary(links) ==
    [articles |-> Cardinality(links), sources |-> Cardinality({l.domain : l \in links} \ {None})]

\* get_event: the summary, with all the links
Details(links) == [summary |-> Summary(links), articles |-> links]

\* pick_pending_events, for a limit of one or more
Wanted(type) == CASE type = "earthquake" -> {"summary", "explanation"}
                  [] type = "news"       -> {"summary", "classification", "verification"}
                  [] OTHER               -> {"summary"}
Open(e) == e.status \in {"active", "updated"}
Lacks(e) == ~(Wanted(e.type) \subseteq e.have)
Pick(events, limit) ==
    LET candidates == First(Newest({e \in events : Open(e)}, At), limit * Oversample)
    IN  First(SelectSeq(candidates, Lacks), limit)

-----------------------------------------------------------------------------
(* Memories: [id, kind, words, age in days] *)

ById(m) == m.id
Recall(mems, limit) == First(Newest(mems, ById), limit)
RecallKind(mems, kind, limit) == First(Newest({m \in mems : m.kind = kind}, ById), limit)
Search(mems, term, limit) == First(Newest({m \in mems : term \in m.words}, ById), limit)

\* _score_memory is 2 * hits + (1/2) / (1 + age/3); here over Share(m).
Hits(m, query) == Cardinality(m.words \cap query)
Share(m) == 2 * (3 + m.age)
Score(m, query) == IF Hits(m, query) = 0 THEN 0 ELSE 2 * Hits(m, query) * Share(m) + 3

\* recall_relevant: a query of stop words only gets the newest
Above(a, b, query) ==
    LET l == Score(a, query) * Share(b)
        r == Score(b, query) * Share(a) IN
    l > r \/ (l = r /\ a.id > b.id)
Relevant(mems, query, limit) ==
    LET pool == ToSet(First(Newest(mems, ById), Most(Pool, limit))) IN
    IF query = {} THEN Recall(mems, limit)
    ELSE First(SetToSortSeq({m \in pool : Score(m, query) > 0}, LAMBDA a, b : Above(a, b, query)), limit)

-----------------------------------------------------------------------------
(* What the readings owe to their readers *)

\* A reply is the newest of what was asked for: what it leaves out is older than
\* all it shows, and it leaves nothing out while it has room.
Tops(reply, asked, Key(_), limit) ==
    /\ ToSet(reply) \subseteq asked /\ Len(reply) = Least(limit, Cardinality(asked))
    /\ \A i \in DOMAIN reply, r \in asked :
          Key(r) > Key(reply[i]) => \E j \in 1..(i - 1) : reply[j] = r

\* The chat shows all that the AI may cite, and the AI is told of no other headline
\* but of one that is too old for both, or behind the newest.
NewsAgree(arts, now) ==
    LET fits == {a \in arts : a.published = None \/ a.published >= now - MaxAge} IN
    /\ Tops(News(arts, "latest", now), fits, When, Shown)
    /\ \A i \in DOMAIN Briefing(arts, now) : Briefing(arts, now)[i] \in ToSet(News(arts, "latest", now))
    /\ \A a \in ToSet(SituationNews(arts)) :
          \/ a \in ToSet(News(arts, "latest", now))
          \/ a.published # None /\ a.published < now - MaxAge
          \/ Cardinality({b \in fits : When(b) >= When(a)}) > Shown
    /\ ToSet(News(arts, "football", now)) \subseteq {a \in fits : a.source = "sport" /\ a.title = "football"}

\* A quake that the digest shows is in the reply to /gempa, if asked for its
\* magnitude, unless as many newer ones are, or the table holds a pool of newer ones.
QuakesAgree(rows, now) ==
    /\ Tops(LatestQuake(rows), rows, At, 1)
    /\ \A r \in ToSet(DigestQuakes(rows, now)) :
        \/ r \in ToSet(Quakes(rows, DigestMag))
        \/ Cardinality({s \in rows : s.at >= r.at}) > QuakePool
        \/ Cardinality({s \in rows : s.at >= r.at /\ s.mag >= DigestMag}) > Shown

\* The nearest forecast is nearest, is inside the window and of its place.
WeatherHolds(forecasts, places, now) ==
    /\ \A p \in places : LET f == Weather(forecasts, places, now)[p] IN
          \A g \in forecasts : g.place = p /\ Distance(g.at, now) <= Near =>
              f # Blank /\ f.place = p /\ Distance(f.at, now) <= Distance(g.at, now)
    /\ LET order == SetToSeq(places) IN
          /\ WeatherLines(forecasts, order, now) \subseteq WithForecast(Weather(forecasts, places, now))
          /\ \A p \in DOMAIN WeatherDigest(forecasts, order, now) :
                WeatherDigest(forecasts, order, now)[p] = Weather(forecasts, places, now)[p]
    /\ WeatherReply(forecasts, places, now) = Failed => \E f \in forecasts : f.wind = None

\* A report never counts less than the API does, and no more where there is no
\* duplicate.
SummariesAgree(links) ==
    /\ Summary(links).articles <= ReportSummary(links).articles
    /\ Summary(links).sources <= ReportSummary(links).sources
    /\ Summary(links).sources <= Summary(links).articles
    /\ (Summary(links) # ReportSummary(links)) => \E l \in links : l.relation = "duplicate"
    /\ Summary(links).articles = Cardinality({l \in Details(links).articles : l.relation # "duplicate"})

\* Every target counts once, by its latest check; and the AI is told of a target
\* what the digest counts.
ChecksAgree(checks, targets, ids) ==
    LET n == Tally(checks, targets)
        told == Situation(checks, targets, ids) IN
    /\ n.up + n.down + n.other = Cardinality(targets)
    /\ \A t \in DOMAIN told :
          /\ told[t] = "up" => n.up > 0
          /\ told[t] # "unchecked" => \E c \in checks :
                /\ c.target = t /\ c.status = told[t]
                /\ \A d \in checks : d.target = t /\ d.status # told[t] => d.id < c.id

\* A list of events leaves out only what was not asked for or is older than all it
\* shows; a report has every event that was named and is there.
EventsHold(events, status, type, wanted, limit) ==
    /\ Tops(ListEvents(events, status, type, limit),
            {e \in events : (e.status = status \/ status \notin Statuses) /\ type \in {e.type, "other"}},
            At, limit)
    /\ \A e \in events : wanted # {} =>
          (e.id \in wanted) = Contains(ReportEvents(events, wanted, limit), e)
    /\ wanted = {} => Tops(ReportEvents(events, wanted, limit), events, At, limit)

\* Of the open events that lack a task, one is passed over only for newer ones
\* that lack one too, or behind the newest Oversample * limit.
PickHolds(events, limit) ==
    LET picked == ToSet(Pick(events, limit))
        lacking == {e \in events : Open(e) /\ Lacks(e)} IN
    /\ picked \subseteq lacking /\ Cardinality(picked) <= limit
    /\ \A e \in lacking \ picked :
          \/ Cardinality({p \in picked : p.at >= e.at}) = limit
          \/ Cardinality({o \in events : Open(o) /\ o.at >= e.at}) > Oversample * limit

\* More common words come first, whatever the age; of as many, the younger.
RecallHolds(mems, query, limit) ==
    LET r == Relevant(mems, query, limit) IN
    /\ Tops(RecallKind(mems, "note", limit), {m \in mems : m.kind = "note"}, ById, limit)
    /\ \A term \in query : Tops(Search(mems, term, limit), {m \in mems : Hits(m, {term}) > 0}, ById, limit)
    /\ query = {} => Tops(r, mems, ById, limit)
    /\ query # {} =>
        /\ \A i, j \in DOMAIN r : i < j =>
              \/ Hits(r[i], query) > Hits(r[j], query)
              \/ Hits(r[i], query) = Hits(r[j], query) /\
                    (r[i].age < r[j].age \/ (r[i].age = r[j].age /\ r[i].id > r[j].id))
        /\ \A m \in mems : Hits(m, query) > 0 /\ m \notin ToSet(r) =>
              \/ Len(r) = limit /\ Hits(r[limit], query) >= Hits(m, query)
              \/ Cardinality({o \in mems : o.id >= m.id}) > Most(Pool, limit)

=============================================================================
