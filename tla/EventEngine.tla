----------------------------- MODULE EventEngine -----------------------------
(***************************************************************************)
(* The event engine (app/event_engine): a cycle drains a batch of raw      *)
(* articles into events, wraps new earthquakes, and scores the confidence  *)
(* of live events, with one commit after each of the three.  The news and  *)
(* earthquake loops insert rows meanwhile, and a restart of the scheduler  *)
(* first deletes stale articles, with their links.                         *)
(*                                                                         *)
(* A text stands for all articles with one content hash (the collector     *)
(* hashes every article), and Score for article_similarity.  `tx` is what  *)
(* the session has written and not committed: every SELECT flushes it, so  *)
(* the session sees it and nobody else does.                               *)
(***************************************************************************)
EXTENDS Integers, Sequences, FiniteSets

CONSTANTS
    Items,         \* the articles the feeds offer, by URL
    Facts,         \* Facts[i]: text, domain of the source, and date of item i
    Score,         \* Score[<<s, t>>]: the similarity of two texts
    Threshold,     \* event_similarity_threshold
    Batch,         \* event_max_raw_batch
    MaxSpread,     \* the 36 hours of compute_confidence
    MaxCutoff,     \* bound: last cutoff of stale articles
    MaxTroubles    \* bound: earthquakes, ended events, errors and restarts

NoDomain == "none"
NoDate == -1
Texts == {Facts[i].text : i \in Items}
Processed == {"clustered", "deduplicated"}
Live == {"active", "updated"}

ASSUME EventEngineAssumption ==
    /\ \A i \in Items : /\ DOMAIN Facts[i] = {"text", "domain", "date"}
                        /\ Facts[i].date \in Nat \cup {NoDate}
    /\ Score \in [Texts \X Texts -> Nat]
    /\ \A s, t \in Texts : Score[<<s, t>>] = Score[<<t, s>>]
    /\ Threshold \in Nat \ {0} /\ Batch \in Nat \ {0} /\ MaxSpread \in Nat
    /\ MaxCutoff \in Nat /\ MaxTroubles \in Nat

VARIABLES
    stored,      \* the articles in the order of their ids, deleted ones too
    status,      \* status[i]: processing_status, "absent" or "gone"
    links,       \* the rows of `event_articles`
    events,      \* the rows of `events`, by id
    unwrapped,   \* how many rows of `earthquakes` have no event yet
    cutoff,      \* the date from which articles are recent enough
    pc,          \* the event loop: "idle", "batch", "quakes" or "confidence"
    todo,        \* the articles of the batch still to do
    profiles,    \* the live events with their primary articles, as loaded
    tx,          \* what the session has written since its last commit
    linked,      \* history: all links ever committed
    troubles     \* bound: what MaxTroubles bounds, so far

feedVars == <<stored, status, unwrapped, cutoff>>
loopVars == <<pc, todo, profiles, tx>>
vars == <<feedVars, links, events, loopVars, linked, troubles>>

NoWrites == [status |-> <<>>, links |-> {}, opened |-> 0, bumped |-> {}]

Init ==
    /\ stored = <<>> /\ status = [i \in Items |-> "absent"]
    /\ links = {} /\ events = <<>> /\ unwrapped = 0 /\ cutoff = 0
    /\ pc = "idle" /\ todo = <<>> /\ profiles = {} /\ tx = NoWrites
    /\ linked = {}
    /\ troubles = 0

Trouble == troubles < MaxTroubles /\ troubles' = troubles + 1

-----------------------------------------------------------------------------
(* The rest of the system                                                  *)

Stale(i) == Facts[i].date # NoDate /\ Facts[i].date < cutoff

\* store_raw_articles: an item with a new URL that is recent enough, which one
\* that was purged never is again.
Collect(i) ==
    /\ status[i] = "absent" /\ ~Stale(i)
    /\ stored' = Append(stored, i)
    /\ status' = [status EXCEPT ![i] = "raw"]
    /\ UNCHANGED <<links, events, unwrapped, cutoff, loopVars, linked, troubles>>

\* upsert_earthquake with an identifier not seen before.
NewQuake ==
    /\ Trouble
    /\ unwrapped' = unwrapped + 1
    /\ UNCHANGED <<stored, status, links, events, cutoff, loopVars, linked>>

\* An operator resolves an event; the row is locked once the cycle wrote it.
EndEvent(n) ==
    /\ events[n].status \in Live /\ n \notin tx.bumped
    /\ Trouble
    /\ events' = [events EXCEPT ![n].status = "resolved"]
    /\ UNCHANGED <<feedVars, links, loopVars, linked>>

-----------------------------------------------------------------------------
(* cluster_new_articles                                                    *)

Id(i) == CHOOSE n \in 1 .. Len(stored) : stored[n] = i

\* The articles at these places of `stored`, in the order of their ids.
InOrder(at) ==
    [k \in 1 .. Cardinality(at) |->
        stored[CHOOSE n \in at : Cardinality({m \in at : m <= n}) = k]]

FirstOf(at) == {n \in at : Cardinality({m \in at : m <= n}) <= Batch}
RawPlaces == {n \in 1 .. Len(stored) : status[stored[n]] = "raw"}

\* _pending_articles.  In the slip the limit is taken before the filter.
PendingLate == InOrder(FirstOf(1 .. Len(stored)) \cap RawPlaces)
Pending == InOrder(FirstOf(RawPlaces))

\* _event_profiles
EventProfiles ==
    {[event |-> l.event, article |-> l.article, status |-> events[l.event].status] :
        l \in {k \in links : k.relation = "primary" /\ events[k.event].status \in Live}}

Begin ==
    /\ pc = "idle"
    /\ pc' = "batch" /\ todo' = Pending /\ profiles' = EventProfiles
    /\ UNCHANGED <<feedVars, links, events, tx, linked, troubles>>

\* What the session sees: its own writes over the committed rows.
StatusSeen(i) == IF i \in DOMAIN tx.status THEN tx.status[i] ELSE status[i]
LinksSeen == links \cup tx.links

\* find_exact_duplicate.  In the slip, writes are not flushed before it asks.
OriginalsCommitted(i) == {j \in Items \ {i} : /\ Facts[j].text = Facts[i].text
                                              /\ status[j] \in Processed}
Originals(i) == {j \in Items \ {i} : /\ Facts[j].text = Facts[i].text
                                     /\ StatusSeen(j) \in Processed}
Original(i) == CHOOSE j \in Originals(i) : \A k \in Originals(i) : Id(j) <= Id(k)

\* The best of the profiles: the first one with the highest score.
ScoreOf(i, p) == Score[<<Facts[i].text, Facts[p.article].text>>]
Similar(i) == {p \in profiles : ScoreOf(i, p) >= Threshold}
Best(i) == CHOOSE p \in Similar(i) : \A q \in Similar(i) \ {p} :
              \/ ScoreOf(i, p) > ScoreOf(i, q)
              \/ ScoreOf(i, p) = ScoreOf(i, q) /\ p.event < q.event

Link(n, i, relation) == [event |-> n, article |-> i, relation |-> relation]

\* The head of the batch gets its status and its links in the session.
Mark(i, stat, new) ==
    [tx EXCEPT !.status = [j \in DOMAIN @ \cup {i} |-> IF j = i THEN stat ELSE @[j]],
               !.links = @ \cup new]

At(i) == pc = "batch" /\ todo # <<>> /\ i = Head(todo)
Advance == todo' = Tail(todo) /\ UNCHANGED <<pc, feedVars, links, events, linked>>

\* mark_deduplicated: linked to the event that its original opened, if it did.
Duplicate(i) ==
    /\ At(i) /\ Originals(i) # {}
    /\ tx' = Mark(i, "deduplicated",
                  {Link(l.event, i, "duplicate") :
                      l \in {k \in LinksSeen : /\ k.article = Original(i)
                                               /\ k.relation = "primary"}})
    /\ Advance
    /\ UNCHANGED <<profiles, troubles>>

\* Its query for that event fails: the status has been changed already.
DuplicateUnlinked(i) ==
    /\ At(i) /\ Originals(i) # {}
    /\ Trouble
    /\ tx' = Mark(i, "deduplicated", {})
    /\ Advance
    /\ UNCHANGED profiles

Relate(i) ==
    /\ At(i) /\ Originals(i) = {} /\ Similar(i) # {}
    /\ LET best == Best(i)
           marked == Mark(i, "clustered", {Link(best.event, i, "related")})
       IN IF best.status = "active"
          THEN /\ tx' = [marked EXCEPT !.bumped = @ \cup {best.event}]
               /\ profiles' = (profiles \ {best}) \cup {[best EXCEPT !.status = "updated"]}
          ELSE tx' = marked /\ UNCHANGED profiles
    /\ Advance
    /\ UNCHANGED troubles

\* Nothing is similar: the article opens an event, with which the rest is compared.
OpenEvent(i) ==
    /\ At(i) /\ Originals(i) = {} /\ Similar(i) = {}
    /\ LET n == Len(events) + tx.opened + 1
       IN /\ tx' = [Mark(i, "clustered", {Link(n, i, "primary")}) EXCEPT !.opened = @ + 1]
          /\ profiles' = profiles \cup {[event |-> n, article |-> i, status |-> "active"]}
    /\ Advance
    /\ UNCHANGED troubles

\* Its first query fails: it stays raw and the batch goes on.
ArticleFails(i) ==
    /\ At(i)
    /\ Trouble
    /\ Advance
    /\ UNCHANGED <<profiles, tx>>

NewsEvent == [type |-> "news", status |-> "active", confidence |-> "none"]

CommitBatch ==
    /\ pc = "batch" /\ todo = <<>>
    /\ status' = [i \in Items |-> StatusSeen(i)]
    /\ links' = LinksSeen /\ linked' = linked \cup tx.links
    /\ LET row(n) == IF n <= Len(events) THEN events[n] ELSE NewsEvent
       IN events' = [n \in 1 .. Len(events) + tx.opened |->
                        IF n \in tx.bumped THEN [row(n) EXCEPT !.status = "updated"]
                                           ELSE row(n)]
    /\ pc' = "quakes" /\ profiles' = {} /\ tx' = NoWrites
    /\ UNCHANGED <<stored, unwrapped, cutoff, todo, troubles>>

-----------------------------------------------------------------------------
(* link_earthquake_events and refresh_event_confidences                    *)

QuakeEvent == [type |-> "earthquake", status |-> "active", confidence |-> "high"]

WrapQuakes ==
    /\ pc = "quakes"
    /\ events' = events \o [n \in 1 .. unwrapped |-> QuakeEvent]
    /\ unwrapped' = 0
    /\ pc' = "confidence"
    /\ UNCHANGED <<stored, status, links, cutoff, todo, profiles, tx, linked, troubles>>

\* event_stats counts what is not a duplicate.
Counted(n) == {l.article : l \in {k \in links : k.event = n /\ k.relation # "duplicate"}}
Domains(articles) == {Facts[i].domain : i \in articles} \ {NoDomain}
Consistent(articles) ==
    LET dates == {Facts[i].date : i \in articles} \ {NoDate}
    IN \A d, e \in dates : d - e <= MaxSpread

\* compute_confidence
ComputeConfidence(n) ==
    LET independent == Cardinality(Domains(Counted(n)))
    IN CASE events[n].type = "earthquake"                  -> "high"
         [] independent >= 3 /\ Consistent(Counted(n))     -> "high"
         [] independent = 2 \/ (independent >= 3 /\ ~Consistent(Counted(n))) -> "medium"
         [] OTHER                                          -> "low"

\* refresh_event_confidences
RefreshConfidences ==
    /\ pc = "confidence"
    /\ events' = [n \in 1 .. Len(events) |->
                     IF events[n].status \in Live
                     THEN [events[n] EXCEPT !.confidence = ComputeConfidence(n)]
                     ELSE events[n]]
    /\ pc' = "idle"
    /\ UNCHANGED <<feedVars, links, todo, profiles, tx, linked, troubles>>

-----------------------------------------------------------------------------
(* Failures                                                                *)

Drop == pc' = "idle" /\ todo' = <<>> /\ profiles' = {} /\ tx' = NoWrites

\* A flush or a commit fails: the exception leaves the cycle, which is rolled
\* back to its last commit.
CycleDies ==
    /\ pc # "idle"
    /\ Trouble
    /\ Drop
    /\ UNCHANGED <<feedVars, links, events, linked>>

\* In the slip the links of deleted articles stay.
RestartKeepsLinks ==
    /\ Trouble
    /\ Drop
    /\ cutoff' \in cutoff .. MaxCutoff
    /\ \E purged \in {{}, {i \in Items : Stale(i)'}} :
         status' = [i \in Items |-> IF i \in purged /\ status[i] # "absent"
                                    THEN "gone" ELSE status[i]]
    /\ UNCHANGED <<stored, links, events, unwrapped, linked>>

\* The scheduler starts again, and purge_stale_articles deletes the articles
\* published before the cutoff, links included, or fails and is ignored.  That
\* time has passed shows only here: an item that grew too old without being
\* collected is like one that no feed offered.
Restart ==
    /\ Trouble
    /\ Drop
    /\ cutoff' \in cutoff .. MaxCutoff
    /\ \E purged \in {{}, {i \in Items : Stale(i)'}} :
         /\ status' = [i \in Items |-> IF i \in purged /\ status[i] # "absent"
                                       THEN "gone" ELSE status[i]]
         /\ links' = {l \in links : l.article \notin purged}
    /\ UNCHANGED <<stored, events, unwrapped, linked>>

-----------------------------------------------------------------------------
Feeds == \/ \E i \in Items : Collect(i)
         \/ NewQuake
         \/ \E n \in 1 .. Len(events) : EndEvent(n)

Cycle == \/ Begin
         \/ \E i \in Items : Duplicate(i) \/ Relate(i) \/ OpenEvent(i)
         \/ CommitBatch \/ WrapQuakes \/ RefreshConfidences

Failures == \/ \E i \in Items : DuplicateUnlinked(i) \/ ArticleFails(i)
            \/ CycleDies \/ Restart

Next == Feeds \/ Cycle \/ Failures

Spec == Init /\ [][Next]_vars

\* The scheduler runs a cycle every event_poll_interval_seconds, whatever the
\* one before it raised.
FairSpec == Spec /\ WF_vars(Cycle)

-----------------------------------------------------------------------------
(* Properties                                                              *)

LinkRow == [event : Nat \ {0}, article : Items,
            relation : {"primary", "related", "duplicate"}]

\* The types; links lead to events and articles that exist.
TypeOK ==
    /\ stored \in Seq(Items)
    /\ status \in [Items -> {"absent", "raw", "gone"} \cup Processed]
    /\ links \subseteq LinkRow /\ links \subseteq linked
    /\ \A l \in links : l.event <= Len(events) /\ status[l.article] \in Processed
    /\ events \in Seq([type : {"news", "earthquake"}, status : Live \cup {"resolved"},
                       confidence : {"none", "low", "medium", "high"}])
    /\ unwrapped \in 0 .. MaxTroubles /\ cutoff \in 0 .. MaxCutoff
    /\ pc \in {"idle", "batch", "quakes", "confidence"} /\ todo \in Seq(Items)
    /\ DOMAIN tx.status \subseteq Items /\ tx.links \subseteq LinkRow
    /\ pc # "batch" => tx = NoWrites /\ todo = <<>>

LinksOf(i) == {l \in links : l.article = i}

\* A clustered article is in exactly one event, as its primary or a related
\* article, whatever cycles died half-way; a deduplicated one is in at most
\* one, as a duplicate, and a raw one in none.
OneHome ==
    \A i \in Items :
        CASE status[i] = "clustered"    -> \E l \in LinksOf(i) : LinksOf(i) = {l} /\ l.relation # "duplicate"
          [] status[i] = "deduplicated" -> \A k, l \in LinksOf(i) : k = l /\ l.relation = "duplicate"
          [] OTHER                      -> LinksOf(i) = {}

\* However copies of a text arrive (in one batch, after a failure, after a
\* purge), at most one of them counts as an article of an event.
TextCountedOnce ==
    \A k, l \in links : k.relation # "duplicate" /\ l.relation # "duplicate"
        /\ Facts[k.article].text = Facts[l.article].text => k.article = l.article

\* Two live events never tell the same story: no two primary articles are
\* similar enough to have been joined, neither within a batch nor across.
DistinctStories ==
    \A k, l \in links :
        /\ k.relation = "primary" /\ l.relation = "primary" /\ k.event # l.event
        /\ events[k.event].status \in Live /\ events[l.event].status \in Live
        => Score[<<Facts[k.article].text, Facts[l.article].text>>] < Threshold

\* A news event is of high confidence only if three articles that differ both
\* in text and in domain have told it: copies and one site's own follow-ups
\* never raise it.
ConfidenceBacked ==
    \A n \in 1 .. Len(events) :
        events[n].type = "news" /\ events[n].confidence = "high" =>
            \E voices \in SUBSET {l.article : l \in {k \in linked : k.event = n}} :
                /\ Cardinality(voices) = 3
                /\ \A i, j \in voices : i # j => /\ Facts[i].text # Facts[j].text
                                                 /\ Facts[i].domain # Facts[j].domain

\* What an event stands for, whatever died half-way.
StoriesHold == OneHome /\ TextCountedOnce /\ DistinctStories /\ ConfidenceBacked

\* Raw articles are all processed, or purged, in the end.
Raw == {i \in Items : status[i] = "raw"}
RawGetsProcessed == Raw # {} ~> Raw = {}

\* When links of an event appear, or go in a purge, its confidence follows,
\* unless the event ends.
Behind == {n \in 1 .. Len(events) : /\ events[n].status \in Live
                                    /\ events[n].confidence # ComputeConfidence(n)}
ConfidenceCatchesUp == Behind # {} ~> Behind = {}

\* Both come in the end: nothing stays raw, nor wrongly scored.
EngineCatchesUp == RawGetsProcessed /\ ConfidenceCatchesUp

==============================================================================
