--------------------------- MODULE EventEngineProofs ---------------------------
(* Theorems about EventEngine, for any articles, similarities, threshold,   *)
(* batch and bounds that EventEngineAssumption admits.                      *)
EXTENDS EventEngine, SequenceTheorems, FiniteSetTheorems,
        WellFoundedInduction, TLAPS

-----------------------------------------------------------------------------
(* Induction is replaced by least counterexamples. *)

SmallerPair == {pair \in Nat \X Nat : pair[1] < pair[2]}

\* A nonempty set of naturals has a least element.
LEMMA LeastElement ==
  ASSUME NEW numbers \in SUBSET Nat, numbers # {}
  PROVE  \E least \in numbers : \A n \in numbers : least <= n
<1>1. IsWellFoundedOn(SmallerPair, Nat)
  BY NatLessThanWellFounded DEF OpToRel, SmallerPair
<1>2. PICK x \in numbers : \A y \in numbers : ~ (<<y, x>> \in SmallerPair)
  BY <1>1, WFMin, Zenon
<1>3. \A y \in numbers : ~(y < x)
  BY <1>2 DEF SmallerPair
<1> QED
  BY <1>3

-----------------------------------------------------------------------------
(* The inductive invariant.  The session's view has to satisfy what the     *)
(* committed rows satisfy: a commit makes it the new rows.                  *)

Relations == {"primary", "related", "duplicate"}
EventRow == [type : {"news", "earthquake"}, status : Live \cup {"resolved"},
             confidence : {"none", "low", "medium", "high"}]
\* Events, those the session has opened included
Numbers == 1 .. Len(events) + tx.opened
TextOf(i) == Facts[i].text
Distinct(s) == \A m, n \in DOMAIN s : s[m] = s[n] => m = n

\* The types, and what a session may hold before it commits.
Typed ==
    /\ stored \in Seq(Items) /\ Distinct(stored)
    /\ status \in [Items -> {"absent", "raw", "gone"} \cup Processed]
    /\ \A n \in DOMAIN stored : status[stored[n]] # "absent"
    /\ events \in Seq(EventRow)
    /\ unwrapped \in Nat /\ troubles \in Nat
    /\ unwrapped <= troubles /\ troubles <= MaxTroubles
    /\ cutoff \in 0 .. MaxCutoff
    /\ pc \in {"idle", "batch", "quakes", "confidence"}
    /\ pc # "batch" => tx = NoWrites /\ todo = <<>>

TxTyped ==
    /\ tx = [status |-> tx.status, links |-> tx.links,
             opened |-> tx.opened, bumped |-> tx.bumped]
    /\ tx.status \in [DOMAIN tx.status -> Processed]
    /\ tx.opened \in Nat
    /\ \A i \in DOMAIN tx.status : i \in Items /\ status[i] = "raw"

\* What is still to do has not been touched.
TodoUntouched ==
    /\ todo \in Seq(Items) /\ Distinct(todo)
    /\ \A n \in DOMAIN todo : status[todo[n]] = "raw" /\ todo[n] \notin DOMAIN tx.status

LinksTyped ==
    /\ links \subseteq linked /\ IsFiniteSet(linked) /\ IsFiniteSet(tx.links)
    /\ links \subseteq LinkRow /\ tx.links \subseteq LinkRow
    /\ \A l \in links : l.event <= Len(events)
    /\ \A l \in tx.links : l.event <= Len(events) + tx.opened

\* OneHome for statuses and links of one's own choice
HomesIn(stat, rows) ==
    \A i \in Items : \A k, l \in rows :
        /\ k.article = i => stat[i] \in Processed
        /\ k.article = i /\ l.article = i => k = l
        /\ k.article = i => (stat[i] = "deduplicated" <=> k.relation = "duplicate")
HomeExists(stat, rows) ==
    \A i \in Items : stat[i] = "clustered" => \E l \in rows : l.article = i

Seen == [i \in Items |-> StatusSeen(i)]
Homes == /\ HomesIn(status, links) /\ HomeExists(status, links)
         /\ HomesIn(Seen, LinksSeen) /\ HomeExists(Seen, LinksSeen)

CountedOnceIn(rows) ==
    \A k, l \in rows : k.relation # "duplicate" /\ l.relation # "duplicate"
        /\ TextOf(k.article) = TextOf(l.article) => k.article = l.article
OnePrimaryIn(rows) ==
    \A k, l \in rows : k.relation = "primary" /\ l.relation = "primary"
        /\ k.event = l.event => k = l

\* Events that are live once the session commits: those it set to "updated" may
\* have been ended since it loaded them.
WillLive(n) == \/ n \in 1 .. Len(events) /\ events[n].status \in Live
               \/ n > Len(events)
               \/ n \in tx.bumped

Alike(i, j) == Score[<<TextOf(i), TextOf(j)>>] >= Threshold

Profile == [event : Nat \ {0}, article : Items, status : Live]

\* During a batch every event that may be live is compared with.
ProfilesCover ==
    pc = "batch" =>
        /\ profiles \subseteq Profile /\ IsFiniteSet(profiles)
        /\ \A p \in profiles : /\ p.event \in Numbers
                              /\ Link(p.event, p.article, "primary") \in LinksSeen
        /\ \A p, q \in profiles : p # q => p.event # q.event /\ ~Alike(p.article, q.article)
        /\ tx.bumped \subseteq {p.event : p \in profiles}
        /\ \A l \in LinksSeen : l.relation = "primary" /\ WillLive(l.event) =>
              \E p \in profiles : p.event = l.event /\ p.article = l.article

EInv ==
    /\ Typed /\ TxTyped /\ TodoUntouched /\ LinksTyped /\ Homes
    /\ CountedOnceIn(LinksSeen) /\ OnePrimaryIn(LinksSeen)
    /\ ProfilesCover /\ DistinctStories /\ ConfidenceBacked

-----------------------------------------------------------------------------
(* The batch.                                                               *)

\* Each rank is the rank of exactly one place, so the list has each of these
\* places once.
LEMMA InOrderType ==
  ASSUME stored \in Seq(Items), Distinct(stored),
         NEW at \in SUBSET DOMAIN stored
  PROVE  /\ InOrder(at) \in Seq(Items) /\ Distinct(InOrder(at))
         /\ \A k \in DOMAIN InOrder(at) : \E i \in at : InOrder(at)[k] = stored[i]
<1> DEFINE n == Len(stored)
           UpTo(m) == {j \in at : j <= m}
<1>1. n \in Nat /\ DOMAIN stored = 1 .. n
  BY LenProperties
<1>2. IsFiniteSet(at) /\ Cardinality(at) \in Nat
  <2>1. IsFiniteSet(1 .. n)
    BY <1>1, FS_Interval
  <2> QED
    BY <1>1, <2>1, FS_Subset, FS_CardinalityType
<1>3. ASSUME NEW m \in Int PROVE IsFiniteSet(UpTo(m)) /\ Cardinality(UpTo(m)) \in Nat
  <2>1. UpTo(m) \in SUBSET at
    OBVIOUS
  <2> QED
    BY <1>2, <2>1, FS_Subset, FS_CardinalityType
<1>4. UpTo(0) = {} /\ UpTo(n) = at
  BY <1>1
<1>5. ASSUME NEW m \in Int
      PROVE  /\ m \notin at => UpTo(m) = UpTo(m - 1)
             /\ m \in at => UpTo(m) = UpTo(m - 1) \cup {m} /\ m \notin UpTo(m - 1)
  <2>1. \A j \in at : j \in Int /\ (j <= m <=> j = m \/ j <= m - 1)
    BY <1>1
  <2> QED
    BY <2>1
<1>6. InOrder(at) = [k \in 1 .. Cardinality(at) |->
                       stored[CHOOSE i \in at : Cardinality(UpTo(i)) = k]]
  BY DEF InOrder
<1> HIDE DEF UpTo
<1>7. ASSUME NEW k \in 1 .. Cardinality(at)
      PROVE  \E i \in at : Cardinality(UpTo(i)) = k
  <2> DEFINE Enough == {m \in Nat : Cardinality(UpTo(m)) >= k}
  <2>1. Enough \in SUBSET Nat /\ n \in Enough
    BY <1>1, <1>2, <1>4, <1>7
  <2>2. PICK m \in Enough : \A l \in Enough : m <= l
    <3> HIDE DEF Enough
    <3> QED
      BY <2>1, LeastElement
  <2>3. m \in Nat /\ Cardinality(UpTo(m)) >= k /\ Cardinality(UpTo(m)) \in Nat
    BY <1>3
  <2>4. m # 0
    <3>1. Cardinality(UpTo(0)) = 0
      BY <1>4, FS_EmptySet
    <3> QED
      BY <1>2, <1>7, <2>3, <3>1
  <2>5. m - 1 \in Nat /\ m - 1 \notin Enough
    BY <2>1, <2>2, <2>3, <2>4
  <2>6. Cardinality(UpTo(m - 1)) \in Nat /\ Cardinality(UpTo(m - 1)) < k
    <3>1. Cardinality(UpTo(m - 1)) \in Nat
      BY <1>3, <2>5
    <3>2. ~(Cardinality(UpTo(m - 1)) >= k)
      BY <2>5
    <3>3. k \in Int
      BY <1>2, <1>7
    <3> QED
      BY <3>1, <3>2, <3>3
  <2>7. m \in at
    <3>1. SUFFICES ASSUME m \notin at PROVE FALSE
      OBVIOUS
    <3>2. Cardinality(UpTo(m)) = Cardinality(UpTo(m - 1))
      BY <1>5, <2>3, <3>1
    <3>3. k \in Int
      BY <1>2, <1>7
    <3> QED
      BY <2>3, <2>6, <3>2, <3>3
  <2>8. Cardinality(UpTo(m)) = Cardinality(UpTo(m - 1)) + 1
    <3>1. UpTo(m) = UpTo(m - 1) \cup {m} /\ m \notin UpTo(m - 1)
      BY <1>5, <2>3, <2>7
    <3>2. IsFiniteSet(UpTo(m - 1))
      BY <1>3, <2>5
    <3>3. Cardinality(UpTo(m - 1) \cup {m}) = Cardinality(UpTo(m - 1)) + 1
      BY <3>1, <3>2, FS_AddElement
    <3> QED
      BY <3>1, <3>3
  <2>9. Cardinality(UpTo(m)) = k
    <3>1. k \in Int
      BY <1>2, <1>7
    <3> QED
      BY <2>3, <2>6, <2>8, <3>1
  <2> QED
    BY <2>7, <2>9
<1> DEFINE Place(k) == CHOOSE i \in at : Cardinality(UpTo(i)) = k
<1>9. \A k \in 1 .. Cardinality(at) : Place(k) \in at /\ Cardinality(UpTo(Place(k))) = k
  BY <1>7
<1>10. InOrder(at) = [k \in 1 .. Cardinality(at) |-> stored[Place(k)]]
  BY <1>6
<1> HIDE DEF Place
<1>11. \A i \in at : stored[i] \in Items
  BY <1>1, ElementOfSeq
<1>12. InOrder(at) \in [1 .. Cardinality(at) -> Items]
  BY <1>9, <1>10, <1>11
<1>13. InOrder(at) \in Seq(Items)
  BY <1>2, <1>12, SeqDef
<1>14. Distinct(InOrder(at))
  <2>1. SUFFICES ASSUME NEW k \in 1 .. Cardinality(at), NEW l \in 1 .. Cardinality(at),
                        stored[Place(k)] = stored[Place(l)]
                 PROVE  k = l
    BY <1>10 DEF Distinct
  <2>2. Place(k) = Place(l)
    BY <1>9, <2>1 DEF Distinct
  <2> QED
    BY <1>9, <2>2
<1> QED
  BY <1>9, <1>10, <1>13, <1>14

\* _pending_articles returns raw articles, each once.
LEMMA PendingRaw ==
  ASSUME Typed
  PROVE  /\ Pending \in Seq(Items) /\ Distinct(Pending)
         /\ \A k \in DOMAIN Pending : status[Pending[k]] = "raw"
<1>1. Len(stored) \in Nat /\ DOMAIN stored = 1 .. Len(stored)
  BY LenProperties DEF Typed
<1>2. FirstOf(RawPlaces) \in SUBSET DOMAIN stored
  BY <1>1 DEF FirstOf, RawPlaces
<1>3. \A i \in FirstOf(RawPlaces) : status[stored[i]] = "raw"
  BY DEF FirstOf, RawPlaces
<1> QED
  BY <1>2, <1>3, InOrderType DEF Typed, Pending

-----------------------------------------------------------------------------
(* What the invariant says in other words, and what follows from it.       *)

LEMMA NoWritesSeen ==
  ASSUME tx = NoWrites
  PROVE  /\ LinksSeen = links /\ \A i \in Items : StatusSeen(i) = status[i]
         /\ DOMAIN tx.status = {} /\ tx.opened = 0 /\ tx.bumped = {} /\ tx.links = {}
         /\ TxTyped
<1>1. DOMAIN <<>> = {}
  OBVIOUS
<1>2. tx.status = <<>> /\ tx.links = {} /\ tx.opened = 0 /\ tx.bumped = {}
  BY DEF NoWrites
<1>3. TxTyped
  BY <1>1, <1>2 DEF NoWrites, TxTyped
<1> QED
  BY <1>1, <1>2, <1>3 DEF LinksSeen, StatusSeen

\* Each article has its home by the two halves of Homes.
LEMMA HomesGiveHome ==
  ASSUME LinksTyped, Homes, status \in [Items -> {"absent", "raw", "gone"} \cup Processed]
  PROVE  OneHome
<1>1. SUFFICES ASSUME NEW i \in Items
               PROVE  CASE status[i] = "clustered" ->
                             \E l \in LinksOf(i) : LinksOf(i) = {l} /\ l.relation # "duplicate"
                        [] status[i] = "deduplicated" ->
                             \A k, l \in LinksOf(i) : k = l /\ l.relation = "duplicate"
                        [] OTHER -> LinksOf(i) = {}
  BY DEF OneHome
<1>2. /\ \A k, l \in LinksOf(i) : k = l
      /\ \A k \in LinksOf(i) : status[i] \in Processed
      /\ \A k \in LinksOf(i) : status[i] = "deduplicated" <=> k.relation = "duplicate"
  BY DEF Homes, HomesIn, LinksOf
<1>3. status[i] = "clustered" => \E l \in LinksOf(i) : TRUE
  BY DEF Homes, HomeExists, LinksOf
<1>4. CASE status[i] = "clustered"
  <2>1. PICK l \in LinksOf(i) : TRUE
    BY <1>3, <1>4
  <2>2. LinksOf(i) = {l} /\ l.relation # "duplicate"
    BY <1>2, <1>4, <2>1
  <2> QED
    BY <1>4, <2>2
<1>5. CASE status[i] = "deduplicated"
  BY <1>2, <1>5
<1>6. CASE status[i] \notin Processed
  BY <1>2, <1>6 DEF Processed
<1> QED
  BY <1>4, <1>5, <1>6 DEF Processed

LEMMA EInvGivesTypes ==
  ASSUME EInv
  PROVE  TypeOK
<1>1. links \subseteq LinkRow /\ links \subseteq linked
  BY DEF EInv, LinksTyped
<1>2. \A l \in links : l.event <= Len(events) /\ status[l.article] \in Processed
  <2>1. \A l \in links : l.article \in Items
    BY <1>1 DEF LinkRow
  <2>2. \A l \in links : status[l.article] \in Processed
    BY <2>1 DEF EInv, Homes, HomesIn
  <2> QED
    BY <2>2 DEF EInv, LinksTyped
<1>3. DOMAIN tx.status \subseteq Items /\ tx.links \subseteq LinkRow
  BY DEF EInv, TxTyped, LinksTyped
<1>4. unwrapped \in 0 .. MaxTroubles
  BY EventEngineAssumption DEF EInv, Typed
<1> QED
  BY <1>1, <1>2, <1>3, <1>4 DEF EInv, Typed, TodoUntouched, EventRow, TypeOK

LEMMA EInvGivesStories ==
  ASSUME EInv
  PROVE  StoriesHold
<1>1. OneHome
  BY HomesGiveHome DEF EInv, Typed
<1>2. TextCountedOnce
  BY DEF EInv, CountedOnceIn, LinksSeen, TextOf, TextCountedOnce
<1> QED
  BY <1>1, <1>2 DEF EInv, StoriesHold

-----------------------------------------------------------------------------
(* What several actions need.                                              *)

\* A status may change where neither the old nor the new one goes with a link.
LEMMA HomesKept ==
  ASSUME NEW s, NEW t, NEW rows, HomesIn(s, rows), HomeExists(s, rows),
         \A j \in Items : s[j] = t[j] \/ (s[j] \notin Processed /\ t[j] \notin Processed)
  PROVE  HomesIn(t, rows) /\ HomeExists(t, rows)
<1>1. HomesIn(t, rows)
  BY DEF HomesIn
<1>2. HomeExists(t, rows)
  BY DEF HomeExists, Processed
<1> QED
  BY <1>1, <1>2

\* An article without links gets its status together with its link.
LEMMA HomesMarked ==
  ASSUME NEW s, NEW t, NEW rows, NEW new, NEW i \in Items,
         HomesIn(s, rows), HomeExists(s, rows),
         s[i] \notin Processed, t[i] \in Processed,
         \A j \in Items \ {i} : s[j] = t[j],
         \A k, l \in new : k = l,
         \A k \in new : k.article = i /\ (t[i] = "deduplicated" <=> k.relation = "duplicate"),
         t[i] = "clustered" => new # {}
  PROVE  HomesIn(t, rows \cup new) /\ HomeExists(t, rows \cup new)
<1>1. \A k \in rows : k.article # i
  BY DEF HomesIn
<1>2. HomesIn(t, rows \cup new)
  BY <1>1 DEF HomesIn
<1>3. HomeExists(t, rows \cup new)
  BY DEF HomeExists
<1> QED
  BY <1>2, <1>3

\* Confidence stays backed while no news event gets a high one.
LEMMA BackingKept ==
  ASSUME ConfidenceBacked, linked \subseteq linked',
         \A n \in 1 .. Len(events)' :
            events'[n].type = "news" /\ events'[n].confidence = "high" =>
               n \in 1 .. Len(events) /\ events[n].type = "news" /\ events[n].confidence = "high"
  PROVE  ConfidenceBacked'
<1>1. SUFFICES ASSUME NEW n \in 1 .. Len(events)', events'[n].type = "news",
                      events'[n].confidence = "high"
               PROVE  \E voices \in SUBSET {l.article : l \in {k \in linked' : k.event = n}} :
                         /\ Cardinality(voices) = 3
                         /\ \A i, j \in voices : i # j => /\ Facts[i].text # Facts[j].text
                                                          /\ Facts[i].domain # Facts[j].domain
  BY DEF ConfidenceBacked
<1>2. PICK voices \in SUBSET {l.article : l \in {k \in linked : k.event = n}} :
         /\ Cardinality(voices) = 3
         /\ \A i, j \in voices : i # j => /\ Facts[i].text # Facts[j].text
                                          /\ Facts[i].domain # Facts[j].domain
  BY <1>1 DEF ConfidenceBacked
<1>3. voices \in SUBSET {l.article : l \in {k \in linked' : k.event = n}}
  BY <1>2
<1> QED
  BY <1>2, <1>3

LEMMA StoriesFrame ==
  ASSUME DistinctStories, ConfidenceBacked, UNCHANGED <<links, events, linked>>
  PROVE  DistinctStories' /\ ConfidenceBacked'
BY DEF DistinctStories, ConfidenceBacked

-----------------------------------------------------------------------------
(* The initial state, and what goes on beside the cycle.                   *)

LEMMA InitInv ==
  ASSUME Init
  PROVE  EInv
<1>1. <<>> \in Seq(Items) /\ <<>> \in Seq(EventRow) /\ Len(<<>>) = 0 /\ DOMAIN <<>> = {}
  BY EmptySeq
<1>2. Typed
  BY <1>1, EventEngineAssumption DEF Init, Typed, Distinct
<1>3. /\ LinksSeen = {} /\ \A i \in Items : StatusSeen(i) = "absent"
      /\ TxTyped /\ DOMAIN tx.status = {}
  BY NoWritesSeen DEF Init
<1>4. TodoUntouched
  BY <1>1, <1>3 DEF Init, TodoUntouched, Distinct
<1>5. LinksTyped
  BY FS_EmptySet DEF Init, NoWrites, LinksTyped
<1>6. Homes
  BY <1>3 DEF Init, Homes, HomesIn, HomeExists, Seen
<1>7. CountedOnceIn(LinksSeen) /\ OnePrimaryIn(LinksSeen)
  BY <1>3 DEF CountedOnceIn, OnePrimaryIn
<1>8. ProfilesCover
  BY DEF Init, ProfilesCover
<1>9. DistinctStories /\ ConfidenceBacked
  BY <1>1 DEF Init, DistinctStories, ConfidenceBacked
<1> QED
  BY <1>2, <1>3, <1>4, <1>5, <1>6, <1>7, <1>8, <1>9 DEF EInv

\* What only Typed speaks of may change, if Typed allows it.
LEMMA TypedFrame ==
  ASSUME EInv, Typed',
         UNCHANGED <<status, links, events, pc, todo, profiles, tx, linked>>
  PROVE  EInv'
<1>1. TxTyped' /\ TodoUntouched' /\ LinksTyped'
  BY DEF EInv, TxTyped, TodoUntouched, Distinct, LinksTyped
<1>2. Homes'
  BY DEF EInv, Homes, HomesIn, HomeExists, Seen, StatusSeen, LinksSeen
<1>3. CountedOnceIn(LinksSeen)' /\ OnePrimaryIn(LinksSeen)'
  BY DEF EInv, CountedOnceIn, OnePrimaryIn, LinksSeen
<1>4. ProfilesCover'
  BY DEF EInv, ProfilesCover, Numbers, LinksSeen, WillLive
<1>5. DistinctStories' /\ ConfidenceBacked'
  BY StoriesFrame DEF EInv
<1> QED
  BY <1>1, <1>2, <1>3, <1>4, <1>5 DEF EInv

LEMMA CollectInv ==
  ASSUME EInv, NEW i \in Items, Collect(i)
  PROVE  EInv'
<1>1. /\ status[i] = "absent" /\ stored' = Append(stored, i)
      /\ status' = [status EXCEPT ![i] = "raw"]
      /\ UNCHANGED <<links, events, unwrapped, cutoff, pc, todo, profiles, tx, linked, troubles>>
  BY DEF Collect, loopVars
<1>2. /\ status'[i] = "raw" /\ \A j \in Items \ {i} : status'[j] = status[j]
      /\ status' \in [Items -> {"absent", "raw", "gone"} \cup Processed]
  BY <1>1 DEF EInv, Typed
<1>3. Typed'
  <2>1. /\ stored \in Seq(Items) /\ stored' \in Seq(Items) /\ Len(stored) \in Nat
        /\ DOMAIN stored = 1 .. Len(stored) /\ DOMAIN stored' = 1 .. Len(stored) + 1
        /\ \A n \in 1 .. Len(stored) : stored'[n] = stored[n] /\ stored[n] \in Items
        /\ stored'[Len(stored) + 1] = i
    <3>1. stored \in Seq(Items)
      BY DEF EInv, Typed
    <3> QED
      BY <1>1, <3>1, AppendProperties, LenProperties, ElementOfSeq
  <2>2. \A n \in 1 .. Len(stored) : stored[n] # i
    BY <1>1, <2>1 DEF EInv, Typed
  <2>3. Distinct(stored')
    BY <2>1, <2>2 DEF EInv, Typed, Distinct
  <2>4. \A n \in DOMAIN stored' : status'[stored'[n]] # "absent"
    BY <1>2, <2>1, <2>2 DEF EInv, Typed
  <2> QED
    BY <1>1, <1>2, <2>1, <2>3, <2>4 DEF EInv, Typed, Distinct
<1>4. i \notin DOMAIN tx.status
  BY <1>1 DEF EInv, TxTyped
<1>5. TxTyped'
  BY <1>1, <1>2, <1>4 DEF EInv, TxTyped
<1>6. TodoUntouched'
  <2>1. \A n \in DOMAIN todo : todo[n] \in Items
    BY ElementOfSeq, LenProperties DEF EInv, TodoUntouched
  <2> QED
    BY <1>1, <1>2, <2>1 DEF EInv, TodoUntouched, Distinct
<1>7. LinksTyped'
  BY <1>1 DEF EInv, LinksTyped
<1>8. Homes'
  <2>1. \A j \in Items : status[j] = status'[j]
                         \/ (status[j] \notin Processed /\ status'[j] \notin Processed)
    BY <1>1, <1>2 DEF Processed
  <2>2. \A j \in Items : Seen[j] = Seen'[j]
                         \/ (Seen[j] \notin Processed /\ Seen'[j] \notin Processed)
    BY <1>1, <1>2, <1>4 DEF Processed, Seen, StatusSeen
  <2>3. LinksSeen' = LinksSeen
    BY <1>1 DEF LinksSeen
  <2> HIDE DEF Seen
  <2>4. HomesIn(status, links)' /\ HomeExists(status, links)'
    <3>1. HomesIn(status', links) /\ HomeExists(status', links)
      BY <2>1, HomesKept DEF EInv, Homes
    <3> QED
      BY <1>1, <3>1 DEF HomesIn, HomeExists
  <2>5. HomesIn(Seen, LinksSeen)' /\ HomeExists(Seen, LinksSeen)'
    <3>1. HomesIn(Seen', LinksSeen) /\ HomeExists(Seen', LinksSeen)
      BY <2>2, HomesKept DEF EInv, Homes
    <3> QED
      BY <2>3, <3>1 DEF HomesIn, HomeExists
  <2> QED
    BY <2>4, <2>5 DEF Homes
<1>9. CountedOnceIn(LinksSeen)' /\ OnePrimaryIn(LinksSeen)'
  BY <1>1 DEF EInv, CountedOnceIn, OnePrimaryIn, LinksSeen
<1>10. ProfilesCover'
  BY <1>1 DEF EInv, ProfilesCover, Numbers, LinksSeen, WillLive
<1>11. DistinctStories' /\ ConfidenceBacked'
  BY <1>1, StoriesFrame DEF EInv
<1> QED
  BY <1>3, <1>5, <1>6, <1>7, <1>8, <1>9, <1>10, <1>11 DEF EInv

LEMMA NewQuakeInv ==
  ASSUME EInv, NewQuake
  PROVE  EInv'
<1>1. Typed'
  BY EventEngineAssumption DEF EInv, NewQuake, Trouble, Typed, loopVars, Distinct
<1> QED
  BY <1>1, TypedFrame DEF NewQuake, loopVars

\* An event that ends is compared with no longer, unless the cycle has set it
\* to "updated".
LEMMA EndEventInv ==
  ASSUME EInv, NEW n \in 1 .. Len(events), EndEvent(n)
  PROVE  EInv'
<1>1. /\ events[n].status \in Live /\ n \notin tx.bumped
      /\ events' = [events EXCEPT ![n].status = "resolved"]
      /\ troubles < MaxTroubles /\ troubles' = troubles + 1
      /\ UNCHANGED <<stored, status, unwrapped, cutoff, links, pc, todo, profiles, tx, linked>>
  BY DEF EndEvent, Trouble, feedVars, loopVars
<1>2. /\ events \in Seq(EventRow) /\ Len(events) \in Nat /\ DOMAIN events = 1 .. Len(events)
      /\ \A m \in 1 .. Len(events) : events[m] \in EventRow
  BY ElementOfSeq, LenProperties DEF EInv, Typed
<1>3. /\ events' \in Seq(EventRow) /\ Len(events') = Len(events)
      /\ DOMAIN events' = 1 .. Len(events)
      /\ events'[n] = [events[n] EXCEPT !.status = "resolved"]
      /\ \A m \in 1 .. Len(events) \ {n} : events'[m] = events[m]
  <2>1. [events[n] EXCEPT !.status = "resolved"] \in EventRow
    BY <1>2 DEF EventRow
  <2> QED
    BY <1>1, <1>2, <2>1, ExceptSeq
<1>4. \A m \in 1 .. Len(events) :
         /\ events'[m].type = events[m].type /\ events'[m].confidence = events[m].confidence
         /\ events'[m].status = IF m = n THEN "resolved" ELSE events[m].status
  BY <1>2, <1>3 DEF EventRow
<1>5. Typed'
  BY <1>1, <1>3, EventEngineAssumption DEF EInv, Typed, Distinct
<1>6. TxTyped' /\ TodoUntouched' /\ LinksTyped'
  BY <1>1, <1>3 DEF EInv, TxTyped, TodoUntouched, Distinct, LinksTyped
<1>7. Homes'
  BY <1>1 DEF EInv, Homes, HomesIn, HomeExists, Seen, StatusSeen, LinksSeen
<1>8. CountedOnceIn(LinksSeen)' /\ OnePrimaryIn(LinksSeen)'
  BY <1>1 DEF EInv, CountedOnceIn, OnePrimaryIn, LinksSeen
<1>9. ProfilesCover'
  <2>1. \A m \in Nat : WillLive(m)' => WillLive(m)
    BY <1>1, <1>3, <1>4 DEF WillLive, Live
  <2>2. \A l \in LinksSeen : l.event \in Nat
    BY DEF EInv, LinksTyped, LinksSeen, LinkRow
  <2>3. Numbers' = Numbers /\ LinksSeen' = LinksSeen
    BY <1>1, <1>3 DEF Numbers, LinksSeen
  <2> HIDE DEF Numbers, LinksSeen, WillLive
  <2> QED
    BY <1>1, <2>1, <2>2, <2>3 DEF EInv, ProfilesCover
<1>10. DistinctStories'
  <2>1. \A l \in links : l.event \in 1 .. Len(events)
    BY <1>2 DEF EInv, LinksTyped, LinkRow
  <2>2. \A l \in links : events'[l.event].status \in Live => events[l.event].status \in Live
    BY <1>4, <2>1 DEF Live
  <2> QED
    BY <1>1, <2>2 DEF EInv, DistinctStories
<1>11. ConfidenceBacked'
  BY <1>1, <1>3, <1>4, BackingKept DEF EInv
<1> QED
  BY <1>5, <1>6, <1>7, <1>8, <1>9, <1>10, <1>11 DEF EInv

-----------------------------------------------------------------------------
(* The batch begins: the live events are loaded.                           *)

LEMMA ImageFinite ==
  ASSUME NEW S, IsFiniteSet(S), NEW f, DOMAIN f = S
  PROVE  IsFiniteSet({f[x] : x \in S})
<1> DEFINE image == {f[x] : x \in S}
           onto == [x \in S |-> f[x]]
<1>1. onto \in Surjection(S, image)
  BY DEF Surjection
<1> QED
  BY <1>1, FS_Surjection

LEMMA ScoreType ==
  ASSUME NEW i \in Items, NEW j \in Items
  PROVE  /\ Score[<<TextOf(i), TextOf(j)>>] \in Nat
         /\ Score[<<TextOf(i), TextOf(j)>>] = Score[<<TextOf(j), TextOf(i)>>]
         /\ Threshold \in Nat
<1>1. TextOf(i) \in Texts /\ TextOf(j) \in Texts
  BY DEF Texts, TextOf
<1> QED
  BY <1>1, EventEngineAssumption

LEMMA BeginInv ==
  ASSUME EInv, Begin
  PROVE  EInv'
<1>1. /\ pc = "idle" /\ pc' = "batch" /\ todo' = Pending /\ profiles' = EventProfiles
      /\ UNCHANGED <<stored, status, unwrapped, cutoff, links, events, tx, linked, troubles>>
  BY DEF Begin, feedVars
<1>2. tx = NoWrites
  BY <1>1 DEF EInv, Typed
<1>3. Typed'
  BY <1>1 DEF EInv, Typed, Distinct
<1>4. TxTyped' /\ LinksTyped'
  BY <1>1 DEF EInv, TxTyped, LinksTyped
<1>5. TodoUntouched'
  <2>1. DOMAIN tx.status = {}
    BY <1>2, NoWritesSeen
  <2>2. /\ Pending \in Seq(Items) /\ Distinct(Pending)
        /\ \A k \in DOMAIN Pending : status[Pending[k]] = "raw"
    BY PendingRaw DEF EInv
  <2> HIDE DEF Pending
  <2> QED
    BY <1>1, <2>1, <2>2 DEF TodoUntouched, Distinct
<1>6. Homes'
  BY <1>1 DEF EInv, Homes, HomesIn, HomeExists, Seen, StatusSeen, LinksSeen
<1>7. CountedOnceIn(LinksSeen)' /\ OnePrimaryIn(LinksSeen)'
  BY <1>1 DEF EInv, CountedOnceIn, OnePrimaryIn, LinksSeen
<1>8. ProfilesCover'
  <2> DEFINE live == {k \in links : k.relation = "primary" /\ events[k.event].status \in Live}
             prof == [l \in live |-> [event |-> l.event, article |-> l.article,
                                      status |-> events[l.event].status]]
  <2>1. profiles' = {prof[l] : l \in live}
    BY <1>1 DEF EventProfiles
  <2>2. /\ Len(events) \in Nat /\ DOMAIN events = 1 .. Len(events)
        /\ LinksSeen' = links /\ tx.bumped = {} /\ tx.opened = 0
    BY <1>1, <1>2, NoWritesSeen, LenProperties DEF EInv, Typed, LinksSeen
  <2>3. IsFiniteSet(profiles')
    <3>1. live \in SUBSET linked /\ IsFiniteSet(linked)
      BY DEF EInv, LinksTyped
    <3>2. IsFiniteSet(live)
      BY <3>1, FS_Subset
    <3> HIDE DEF live
    <3>3. IsFiniteSet({prof[l] : l \in live})
      BY <3>2, ImageFinite
    <3> QED
      BY <2>1, <3>3
  <2>4. \A l \in live : /\ l.event \in 1 .. Len(events) /\ l.article \in Items
                        /\ l.event \in Nat \ {0}
    BY <2>2 DEF EInv, LinksTyped, LinkRow
  <2>5. \A p \in profiles' : \E l \in live :
           p = [event |-> l.event, article |-> l.article, status |-> events[l.event].status]
    BY <2>1
  <2>6. profiles' \subseteq Profile
    BY <2>4, <2>5 DEF Profile
  <2>7. \A p \in profiles' : /\ p.event \in Numbers'
                             /\ Link(p.event, p.article, "primary") \in LinksSeen'
    <3>1. \A l \in live : Link(l.event, l.article, "primary") = l
      BY DEF EInv, LinksTyped, LinkRow, Link
    <3>2. \A p \in profiles' : p.event \in Numbers'
      BY <1>1, <2>2, <2>4, <2>5 DEF Numbers
    <3> QED
      BY <2>2, <2>5, <3>1, <3>2
  <2>8. ASSUME NEW p \in profiles', NEW q \in profiles', p # q
        PROVE  p.event # q.event /\ ~Alike(p.article, q.article)
    <3>1. PICK k \in live :
             p = [event |-> k.event, article |-> k.article, status |-> events[k.event].status]
      BY <2>5
    <3>2. PICK l \in live :
             q = [event |-> l.event, article |-> l.article, status |-> events[l.event].status]
      BY <2>5
    <3>3. k # l
      BY <2>8, <3>1, <3>2
    <3>4. k.event # l.event
      BY <3>3 DEF EInv, OnePrimaryIn, LinksSeen
    <3>5. Score[<<Facts[k.article].text, Facts[l.article].text>>] < Threshold
      BY <3>4 DEF EInv, DistinctStories
    <3>6. ~Alike(k.article, l.article)
      <4>1. Score[<<TextOf(k.article), TextOf(l.article)>>] \in Nat /\ Threshold \in Nat
        BY <2>4, ScoreType
      <4> QED
        BY <3>5, <4>1 DEF Alike, TextOf
    <3> QED
      BY <3>1, <3>2, <3>4, <3>6
  <2>9. ASSUME NEW l \in LinksSeen', l.relation = "primary", WillLive(l.event)'
        PROVE  \E p \in profiles' : p.event = l.event /\ p.article = l.article
    <3>1. l \in links /\ l.event \in 1 .. Len(events)
      BY <2>2, <2>9 DEF EInv, LinksTyped, LinkRow
    <3>2. events[l.event].status \in Live
      BY <1>1, <2>2, <2>9, <3>1 DEF WillLive
    <3>3. l \in live
      BY <2>9, <3>1, <3>2
    <3>4. prof[l] \in profiles' /\ prof[l].event = l.event /\ prof[l].article = l.article
      BY <2>1, <3>3
    <3> QED
      BY <3>4
  <2>10. tx'.bumped = {}
    BY <1>1, <2>2
  <2> HIDE DEF Numbers, LinksSeen, WillLive, Alike
  <2> QED
    BY <2>3, <2>6, <2>7, <2>8, <2>9, <2>10 DEF ProfilesCover
<1>9. DistinctStories' /\ ConfidenceBacked'
  BY <1>1, StoriesFrame DEF EInv
<1> QED
  BY <1>3, <1>4, <1>5, <1>6, <1>7, <1>8, <1>9 DEF EInv

-----------------------------------------------------------------------------
(* One article of the batch.                                               *)

\* Among the similar profiles one comes first: it has the fewest before it.
LEMMA BestIsSimilar ==
  ASSUME ProfilesCover, pc = "batch", NEW i \in Items, Similar(i) # {}
  PROVE  Best(i) \in Similar(i)
<1> DEFINE Ahead(p, q) == \/ ScoreOf(i, p) > ScoreOf(i, q)
                          \/ ScoreOf(i, p) = ScoreOf(i, q) /\ p.event < q.event
           Before(p) == {q \in Similar(i) : Ahead(q, p)}
<1>1. \A p \in Similar(i) : /\ ScoreOf(i, p) \in Nat /\ p.event \in Nat
                            /\ p \in profiles
  BY ScoreType DEF ProfilesCover, Profile, Similar, ScoreOf, TextOf
<1>2. IsFiniteSet(Similar(i))
  <2>1. Similar(i) \in SUBSET profiles
    BY DEF Similar
  <2> QED
    BY <2>1, FS_Subset DEF ProfilesCover
<1>3. \A p \in Similar(i) : IsFiniteSet(Before(p)) /\ Cardinality(Before(p)) \in Nat
  <2>1. \A p \in Similar(i) : Before(p) \in SUBSET Similar(i)
    OBVIOUS
  <2> QED
    BY <1>2, <2>1, FS_Subset, FS_CardinalityType
<1>4. PICK best \in Similar(i) :
         \A q \in Similar(i) : Cardinality(Before(best)) <= Cardinality(Before(q))
  <2> DEFINE counts == {Cardinality(Before(p)) : p \in Similar(i)}
  <2>1. counts \in SUBSET Nat /\ counts # {}
    BY <1>3
  <2>2. PICK least \in counts : \A n \in counts : least <= n
    <3> HIDE DEF counts
    <3> QED
      BY <2>1, LeastElement
  <2>3. PICK best \in Similar(i) : least = Cardinality(Before(best))
    OBVIOUS
  <2>4. \A q \in Similar(i) : Cardinality(Before(q)) \in counts
    OBVIOUS
  <2> QED
    BY <2>2, <2>3, <2>4
<1>5. Before(best) = {}
  <2>1. SUFFICES ASSUME NEW q \in Before(best) PROVE FALSE
    OBVIOUS
  <2>2. q \in Similar(i) /\ Ahead(q, best) /\ ~Ahead(q, q)
    BY <1>1, <2>1
  <2>3. Before(q) \in SUBSET Before(best)
    BY <1>1, <2>2
  <2>4. q \notin Before(q)
    BY <2>2
  <2> HIDE DEF Ahead
  <2>5. IsFiniteSet(Before(best)) /\ Before(q) # Before(best)
    BY <1>3, <2>1, <2>4
  <2>6. Cardinality(Before(q)) <= Cardinality(Before(best))
        /\ Cardinality(Before(best)) # Cardinality(Before(q))
    BY <2>3, <2>5, FS_Subset
  <2> QED
    BY <1>3, <1>4, <2>2, <2>6
<1>6. \A q \in Similar(i) \ {best} : Ahead(best, q)
  <2>1. \A q \in Similar(i) \ {best} : best.event # q.event
    BY <1>1 DEF ProfilesCover
  <2>2. \A q \in Similar(i) : ~Ahead(q, best)
    BY <1>5
  <2> QED
    BY <1>1, <2>1, <2>2
<1> QED
  BY <1>6 DEF Best

LEMMA MarkFields ==
  ASSUME TxTyped, NEW i, NEW stat, NEW new
  PROVE  Mark(i, stat, new) =
           [status |-> [j \in DOMAIN tx.status \cup {i} |-> IF j = i THEN stat ELSE tx.status[j]],
            links |-> tx.links \cup new, opened |-> tx.opened, bumped |-> tx.bumped]
<1> DEFINE marks == [j \in DOMAIN tx.status \cup {i} |-> IF j = i THEN stat ELSE tx.status[j]]
<1>1. PICK was, rows, opened, bumped :
         /\ tx \in [status : {was}, links : {rows}, opened : {opened}, bumped : {bumped}]
         /\ rows = tx.links /\ opened = tx.opened /\ bumped = tx.bumped
  BY DEF TxTyped
<1>2. Mark(i, stat, new) = [tx EXCEPT !.status = marks, !.links = rows \cup new]
  BY <1>1 DEF Mark
<1> HIDE DEF marks
<1>3. [tx EXCEPT !.status = marks, !.links = rows \cup new]
        = [status |-> marks, links |-> rows \cup new, opened |-> opened, bumped |-> bumped]
  <2>1. tx \in [status : {was}, links : {rows}, opened : {opened}, bumped : {bumped}]
    BY <1>1
  <2>2. PICK row : row = [tx EXCEPT !.status = marks, !.links = rows \cup new]
    OBVIOUS
  <2>3. row \in [status : {marks}, links : {rows \cup new}, opened : {opened}, bumped : {bumped}]
    BY <2>1, <2>2
  <2>4. row = [status |-> marks, links |-> rows \cup new, opened |-> opened, bumped |-> bumped]
    BY <2>3
  <2> QED
    BY <2>2, <2>4
<1> QED
  BY <1>1, <1>2, <1>3 DEF marks

\* The head of the batch is raw, in the view of the session too, and comes
\* only once.
LEMMA AtHead ==
  ASSUME EInv, NEW i, At(i)
  PROVE  /\ i \in Items /\ status[i] = "raw" /\ i \notin DOMAIN tx.status
         /\ StatusSeen(i) = "raw" /\ pc = "batch"
         /\ Tail(todo) \in Seq(Items) /\ Distinct(Tail(todo))
         /\ \A n \in DOMAIN Tail(todo) : /\ status[Tail(todo)[n]] = "raw"
                                         /\ Tail(todo)[n] \notin DOMAIN tx.status \cup {i}
<1>1. pc = "batch" /\ todo # <<>> /\ i = Head(todo) /\ todo \in Seq(Items) /\ Distinct(todo)
  BY DEF At, EInv, TodoUntouched
<1>2. /\ Len(todo) \in Nat /\ DOMAIN todo = 1 .. Len(todo) /\ Len(todo) >= 1
      /\ i = todo[1] /\ todo[1] \in Items
      /\ Tail(todo) \in Seq(Items) /\ DOMAIN Tail(todo) = 1 .. Len(todo) - 1
      /\ \A n \in 1 .. Len(todo) - 1 : Tail(todo)[n] = todo[n + 1] /\ n + 1 \in 1 .. Len(todo)
  BY <1>1, HeadTailProperties, LenProperties, EmptySeq, ElementOfSeq
<1>3. status[i] = "raw" /\ i \notin DOMAIN tx.status
  BY <1>2 DEF EInv, TodoUntouched
<1>4. Distinct(Tail(todo))
  BY <1>1, <1>2 DEF Distinct
<1>5. \A n \in DOMAIN Tail(todo) : /\ status[Tail(todo)[n]] = "raw"
                                   /\ Tail(todo)[n] \notin DOMAIN tx.status \cup {i}
  BY <1>1, <1>2 DEF EInv, TodoUntouched, Distinct
<1> QED
  BY <1>1, <1>2, <1>3, <1>4, <1>5 DEF StatusSeen

\* An article gets its status and its links, whichever they are.
LEMMA MarkInv ==
  ASSUME EInv, NEW i, At(i), Advance, UNCHANGED troubles \/ Trouble,
         NEW stat \in Processed, NEW new \in SUBSET LinkRow, IsFiniteSet(new),
         NEW opened \in Nat, tx.opened <= opened, NEW bumped,
         tx' = [status |-> [j \in DOMAIN tx.status \cup {i} |-> IF j = i THEN stat ELSE tx.status[j]],
                links |-> tx.links \cup new, opened |-> opened, bumped |-> bumped],
         \A k, l \in new : k = l,
         \A k \in new : /\ k.article = i /\ (stat = "deduplicated" <=> k.relation = "duplicate")
                        /\ k.event <= Len(events) + opened,
         stat = "clustered" => new # {}
  PROVE  /\ Typed' /\ TxTyped' /\ TodoUntouched' /\ LinksTyped' /\ Homes'
         /\ DistinctStories' /\ ConfidenceBacked'
         /\ LinksSeen' = LinksSeen \cup new
<1>1. /\ todo' = Tail(todo)
      /\ UNCHANGED <<stored, status, unwrapped, cutoff, links, events, pc, linked>>
  BY DEF Advance, feedVars
<1>2. /\ i \in Items /\ status[i] = "raw" /\ i \notin DOMAIN tx.status
      /\ StatusSeen(i) = "raw" /\ pc = "batch"
  BY AtHead
<1>3. /\ DOMAIN tx'.status = DOMAIN tx.status \cup {i}
      /\ tx'.status[i] = stat /\ \A j \in DOMAIN tx.status : tx'.status[j] = tx.status[j]
      /\ tx'.links = tx.links \cup new /\ tx'.opened = opened /\ tx'.bumped = bumped
  BY <1>2
<1>4. Typed'
  <2>1. troubles' \in Nat /\ troubles <= troubles' /\ troubles' <= MaxTroubles
    BY EventEngineAssumption DEF Trouble, EInv, Typed
  <2> QED
    BY <1>1, <1>2, <2>1 DEF EInv, Typed, Distinct
<1>5. TxTyped'
  <2>1. tx' = [status |-> tx'.status, links |-> tx'.links,
               opened |-> tx'.opened, bumped |-> tx'.bumped]
    OBVIOUS
  <2>2. tx'.status \in [DOMAIN tx'.status -> Processed]
    <3>1. tx'.status = [j \in DOMAIN tx.status \cup {i} |-> IF j = i THEN stat ELSE tx.status[j]]
      OBVIOUS
    <3>2. \A j \in DOMAIN tx.status : tx.status[j] \in Processed
      BY DEF EInv, TxTyped
    <3> QED
      BY <1>3, <3>1, <3>2
  <2>3. \A j \in DOMAIN tx'.status : j \in Items /\ status'[j] = "raw"
    BY <1>1, <1>2, <1>3 DEF EInv, TxTyped
  <2> QED
    BY <1>3, <2>1, <2>2, <2>3 DEF TxTyped
<1>6. TodoUntouched'
  BY <1>1, <1>3, AtHead DEF TodoUntouched, Distinct
<1>7. LinksTyped'
  <2>1. IsFiniteSet(tx'.links)
    BY <1>3, FS_Union DEF EInv, LinksTyped
  <2>2. \A l \in tx.links : l.event \in Nat /\ l.event <= Len(events) + opened
    <3>1. Len(events) \in Nat /\ tx.opened \in Nat
      BY LenProperties DEF EInv, Typed, TxTyped
    <3> QED
      BY <3>1 DEF EInv, LinksTyped, LinkRow
  <2> QED
    BY <1>1, <1>3, <2>1, <2>2 DEF EInv, LinksTyped
<1>8. LinksSeen' = LinksSeen \cup new
  BY <1>1, <1>3 DEF LinksSeen
<1>9. Homes'
  <2>1. Seen[i] \notin Processed /\ Seen'[i] \in Processed /\ Seen'[i] = stat
    BY <1>2, <1>3 DEF Seen, StatusSeen, Processed
  <2>2. \A j \in Items \ {i} : Seen[j] = Seen'[j]
    BY <1>1, <1>3 DEF Seen, StatusSeen
  <2> HIDE DEF Seen
  <2>3. HomesIn(Seen', LinksSeen \cup new) /\ HomeExists(Seen', LinksSeen \cup new)
    BY <1>2, <2>1, <2>2, HomesMarked DEF EInv, Homes
  <2>4. HomesIn(Seen, LinksSeen)' /\ HomeExists(Seen, LinksSeen)'
    BY <1>8, <2>3 DEF HomesIn, HomeExists
  <2>5. HomesIn(status, links)' /\ HomeExists(status, links)'
    BY <1>1 DEF EInv, Homes, HomesIn, HomeExists
  <2> QED
    BY <2>4, <2>5 DEF Homes
<1>10. DistinctStories' /\ ConfidenceBacked'
  BY <1>1, StoriesFrame DEF EInv
<1> QED
  BY <1>4, <1>5, <1>6, <1>7, <1>8, <1>9, <1>10

\* Duplicates are neither counted nor compared with.
LEMMA DuplicatesMarkInv ==
  ASSUME EInv, NEW i, At(i), Advance, UNCHANGED troubles \/ Trouble, UNCHANGED profiles,
         NEW new \in SUBSET LinkRow, IsFiniteSet(new),
         tx' = Mark(i, "deduplicated", new),
         \A k, l \in new : k = l,
         \A k \in new : /\ k.article = i /\ k.relation = "duplicate"
                        /\ k.event <= Len(events) + tx.opened
  PROVE  EInv'
<1>1. /\ tx' = [status |-> [j \in DOMAIN tx.status \cup {i} |->
                               IF j = i THEN "deduplicated" ELSE tx.status[j]],
                links |-> tx.links \cup new, opened |-> tx.opened, bumped |-> tx.bumped]
      /\ tx.opened \in Nat /\ tx.opened <= tx.opened /\ "deduplicated" \in Processed
  <2>1. TxTyped /\ tx.opened \in Nat
    BY DEF EInv, TxTyped
  <2>2. tx' = [status |-> [j \in DOMAIN tx.status \cup {i} |->
                              IF j = i THEN "deduplicated" ELSE tx.status[j]],
               links |-> tx.links \cup new, opened |-> tx.opened, bumped |-> tx.bumped]
    BY <2>1, MarkFields
  <2> QED
    BY <2>1, <2>2 DEF Processed
<1>2. /\ Typed' /\ TxTyped' /\ TodoUntouched' /\ LinksTyped' /\ Homes'
      /\ DistinctStories' /\ ConfidenceBacked' /\ LinksSeen' = LinksSeen \cup new
  <2> DEFINE was == tx.opened
             marks == tx.bumped
  <2>1. was \in Nat /\ tx.opened <= was
    BY <1>1
  <2>2. tx' = [status |-> [j \in DOMAIN tx.status \cup {i} |->
                               IF j = i THEN "deduplicated" ELSE tx.status[j]],
                links |-> tx.links \cup new, opened |-> was, bumped |-> marks]
    BY <1>1
  <2> QED
    BY <1>1, <2>1, <2>2, MarkInv
<1>3. CountedOnceIn(LinksSeen)' /\ OnePrimaryIn(LinksSeen)'
  BY <1>2 DEF EInv, CountedOnceIn, OnePrimaryIn
<1>4. ProfilesCover'
  <2>1. /\ tx'.opened = tx.opened /\ tx'.bumped = tx.bumped
        /\ UNCHANGED <<pc, profiles, events>>
    BY <1>1 DEF Advance
  <2>2. Numbers' = Numbers /\ \A n \in Nat : WillLive(n)' <=> WillLive(n)
    BY <2>1 DEF Numbers, WillLive
  <2>3. \A l \in LinksSeen : l.event \in Nat
    BY DEF EInv, LinksTyped, LinksSeen, LinkRow
  <2> HIDE DEF Numbers, WillLive, LinksSeen
  <2> QED
    BY <1>2, <2>1, <2>2, <2>3 DEF EInv, ProfilesCover
<1> QED
  BY <1>2, <1>3, <1>4 DEF EInv

LEMMA DuplicateInv ==
  ASSUME EInv, NEW i \in Items, Duplicate(i)
  PROVE  EInv'
<1> DEFINE opening == {k \in LinksSeen : k.article = Original(i) /\ k.relation = "primary"}
           copy == [l \in opening |-> Link(l.event, i, "duplicate")]
           new == {copy[l] : l \in opening}
<1>1. /\ At(i) /\ Advance /\ tx' = Mark(i, "deduplicated", new)
      /\ UNCHANGED <<profiles, troubles>>
  <2>1. new = {Link(l.event, i, "duplicate") : l \in opening}
    OBVIOUS
  <2> QED
    BY <2>1 DEF Duplicate
<1>2. \A l \in LinksSeen : /\ l.article \in Items /\ l.event \in Nat \ {0}
                           /\ l.event <= Len(events) + tx.opened
  <2>1. Len(events) \in Nat /\ tx.opened \in Nat
    BY LenProperties DEF EInv, Typed, TxTyped
  <2> QED
    BY <2>1 DEF EInv, LinksTyped, LinksSeen, LinkRow
<1>3. \A k, l \in opening : k = l
  BY <1>2 DEF EInv, Homes, HomesIn
<1>4. IsFiniteSet(opening)
  <2>1. IsFiniteSet(LinksSeen)
    <3>1. IsFiniteSet(links)
      BY FS_Subset DEF EInv, LinksTyped
    <3> QED
      BY <3>1, FS_Union DEF EInv, LinksTyped, LinksSeen
  <2>2. opening \in SUBSET LinksSeen
    OBVIOUS
  <2> QED
    BY <2>1, <2>2, FS_Subset
<1>5. \A k \in new : \E l \in opening :
         k = [event |-> l.event, article |-> i, relation |-> "duplicate"]
  BY DEF Link
<1>6. new \in SUBSET LinkRow
  BY <1>2, <1>5 DEF LinkRow
<1>9. \A k \in new : /\ k.article = i /\ k.relation = "duplicate"
                      /\ k.event <= Len(events) + tx.opened
  BY <1>2, <1>5
<1>7. \A k, l \in new : k = l
  BY <1>3
<1>8. IsFiniteSet(new)
  <2> HIDE DEF opening
  <2> QED
    BY <1>4, ImageFinite
<1> HIDE DEF new
<1> QED
  BY <1>1, <1>6, <1>7, <1>8, <1>9, DuplicatesMarkInv

LEMMA DuplicateUnlinkedInv ==
  ASSUME EInv, NEW i \in Items, DuplicateUnlinked(i)
  PROVE  EInv'
<1>1. /\ At(i) /\ Advance /\ Trouble /\ tx' = Mark(i, "deduplicated", {})
      /\ UNCHANGED profiles
  BY DEF DuplicateUnlinked
<1>2. IsFiniteSet({}) /\ {} \in SUBSET LinkRow
  BY FS_EmptySet
<1> QED
  BY <1>1, <1>2, DuplicatesMarkInv

\* Where there is no original, the text is in no event.
LEMMA NewText ==
  ASSUME EInv, NEW i \in Items, Originals(i) = {}
  PROVE  \A l \in LinksSeen : TextOf(l.article) = TextOf(i) => l.article = i
<1>1. \A l \in LinksSeen : l.article \in Items
  BY DEF EInv, LinksTyped, LinksSeen, LinkRow
<1>2. \A l \in LinksSeen : StatusSeen(l.article) \in Processed
  BY <1>1 DEF EInv, Homes, HomesIn, Seen
<1> QED
  BY <1>1, <1>2 DEF Originals, TextOf

\* An event told in the session may count on it: what is linked to it lasts.
LEMMA RelateInv ==
  ASSUME EInv, NEW i \in Items, Relate(i)
  PROVE  EInv'
<1> DEFINE best == Best(i)
           link == Link(best.event, i, "related")
           active == best.status = "active"
           bumped == IF active THEN tx.bumped \cup {best.event} ELSE tx.bumped
           updated == [best EXCEPT !.status = "updated"]
<1>1. /\ At(i) /\ Advance /\ Originals(i) = {} /\ Similar(i) # {}
      /\ UNCHANGED troubles
      /\ active => /\ tx' = [Mark(i, "clustered", {link}) EXCEPT !.bumped = @ \cup {best.event}]
                   /\ profiles' = (profiles \ {best}) \cup {updated}
      /\ ~active => tx' = Mark(i, "clustered", {link}) /\ UNCHANGED profiles
  BY DEF Relate
<1>2. /\ pc = "batch" /\ UNCHANGED <<pc, links, events>>
      /\ TxTyped /\ tx.opened \in Nat /\ Len(events) \in Nat /\ ProfilesCover
  BY <1>1, LenProperties DEF At, Advance, EInv, Typed, TxTyped
<1>3. /\ best \in profiles /\ best.event \in Nat \ {0} /\ best.article \in Items
      /\ best.event <= Len(events) + tx.opened
      /\ Link(best.event, best.article, "primary") \in LinksSeen
      /\ best = [event |-> best.event, article |-> best.article, status |-> best.status]
  <2>1. Best(i) \in profiles
    BY <1>1, <1>2, BestIsSimilar DEF Similar
  <2> QED
    BY <1>2, <2>1 DEF ProfilesCover, Profile, Numbers
<1> HIDE DEF best
<1>4. tx' = [status |-> [j \in DOMAIN tx.status \cup {i} |->
                            IF j = i THEN "clustered" ELSE tx.status[j]],
             links |-> tx.links \cup {link}, opened |-> tx.opened, bumped |-> bumped]
  <2> HIDE DEF link
  <2>1. Mark(i, "clustered", {link}) =
           [status |-> [j \in DOMAIN tx.status \cup {i} |->
                            IF j = i THEN "clustered" ELSE tx.status[j]],
            links |-> tx.links \cup {link}, opened |-> tx.opened, bumped |-> tx.bumped]
    BY <1>2, MarkFields
  <2>2. CASE ~active
    BY <1>1, <2>1, <2>2
  <2>3. CASE active
    <3>1. PICK marked, stats, rows, opened, was :
             /\ marked = Mark(i, "clustered", {link})
             /\ marked = [status |-> stats, links |-> rows, opened |-> opened, bumped |-> was]
             /\ stats = [j \in DOMAIN tx.status \cup {i} |->
                            IF j = i THEN "clustered" ELSE tx.status[j]]
             /\ rows = tx.links \cup {link} /\ opened = tx.opened /\ was = tx.bumped
      BY <2>1
    <3>2. tx' = [marked EXCEPT !.bumped = @ \cup {best.event}]
      BY <1>1, <2>3, <3>1
    <3>3. [marked EXCEPT !.bumped = @ \cup {best.event}]
            = [status |-> stats, links |-> rows, opened |-> opened, bumped |-> was \cup {best.event}]
      <4>1. marked = [status |-> stats, links |-> rows, opened |-> opened, bumped |-> was]
        BY <3>1
      <4> QED
        BY <4>1
    <3> QED
      BY <2>3, <3>1, <3>2, <3>3
  <2> QED
    BY <2>2, <2>3
<1>5. /\ link = [event |-> best.event, article |-> i, relation |-> "related"]
      /\ link \in LinkRow /\ {link} \in SUBSET LinkRow
  BY <1>3 DEF Link, LinkRow
<1>6. /\ Typed' /\ TxTyped' /\ TodoUntouched' /\ LinksTyped' /\ Homes'
      /\ DistinctStories' /\ ConfidenceBacked' /\ LinksSeen' = LinksSeen \cup {link}
  <2> DEFINE opened == tx.opened
             new == {link}
  <2>1. opened \in Nat /\ tx.opened <= opened /\ "clustered" \in Processed
    BY <1>2 DEF Processed
  <2>2. tx' = [status |-> [j \in DOMAIN tx.status \cup {i} |->
                               IF j = i THEN "clustered" ELSE tx.status[j]],
               links |-> tx.links \cup new, opened |-> opened, bumped |-> bumped]
    BY <1>4
  <2>3. /\ IsFiniteSet(new) /\ new # {} /\ \A k, l \in new : k = l
        /\ new \in SUBSET LinkRow
        /\ \A k \in new : /\ k.article = i /\ ("clustered" = "deduplicated" <=> k.relation = "duplicate")
                          /\ k.event <= Len(events) + opened
    <3>1. IsFiniteSet(new)
      BY FS_Singleton
    <3>2. link.article = i /\ link.relation = "related" /\ link.event <= Len(events) + opened
      BY <1>3, <1>5
    <3> QED
      BY <1>5, <3>1, <3>2
  <2> HIDE DEF opened, new, bumped
  <2>4. /\ Typed' /\ TxTyped' /\ TodoUntouched' /\ LinksTyped' /\ Homes'
        /\ DistinctStories' /\ ConfidenceBacked' /\ LinksSeen' = LinksSeen \cup new
    BY <1>1, <2>1, <2>2, <2>3, MarkInv
  <2> QED
    BY <2>4 DEF new
<1>7. CountedOnceIn(LinksSeen)'
  <2>1. \A l \in LinksSeen : TextOf(l.article) = TextOf(i) => l.article = i
    BY <1>1, NewText
  <2> QED
    BY <1>5, <1>6, <2>1 DEF EInv, CountedOnceIn
<1>8. OnePrimaryIn(LinksSeen)'
  BY <1>5, <1>6 DEF EInv, OnePrimaryIn
<1>9. ProfilesCover'
  <2>1. /\ tx'.opened = tx.opened /\ tx'.bumped = bumped
        /\ Numbers' = Numbers
        /\ \A n \in Nat : WillLive(n)' => WillLive(n) \/ n \in bumped
    BY <1>2, <1>4 DEF Numbers, WillLive
  <2>2. \A l \in LinksSeen : l.event \in Nat
    BY DEF EInv, LinksTyped, LinksSeen, LinkRow
  <2>3. \A l \in LinksSeen' : l.relation = "primary" => l \in LinksSeen
    BY <1>5, <1>6
  <2>4. \A l \in LinksSeen : l.relation = "primary" /\ l.event = best.event
           => l.article = best.article
    BY <1>3 DEF EInv, OnePrimaryIn, Link
  <2>5. ASSUME NEW l \in LinksSeen', l.relation = "primary", WillLive(l.event)'
        PROVE  \E p \in profiles : p.event = l.event /\ p.article = l.article
    <3>1. l \in LinksSeen /\ l.event \in Nat
      BY <2>2, <2>3, <2>5
    <3>2. CASE WillLive(l.event)
      BY <1>2, <2>5, <3>1, <3>2 DEF ProfilesCover
    <3>3. CASE l.event \in tx.bumped
      BY <1>2, <2>5, <3>1, <3>3 DEF ProfilesCover, WillLive
    <3>4. CASE l.event = best.event
      BY <1>3, <2>4, <2>5, <3>1, <3>4
    <3> QED
      BY <2>1, <2>5, <3>1, <3>2, <3>3, <3>4
  <2>6. bumped \subseteq {p.event : p \in profiles}
    BY <1>2, <1>3 DEF ProfilesCover
  <2>7. CASE ~active
    <3>1. profiles' = profiles
      BY <1>1, <2>7
    <3> HIDE DEF Numbers, WillLive, LinksSeen, bumped, Alike
    <3> QED
      BY <1>2, <1>6, <2>1, <2>5, <2>6, <3>1 DEF ProfilesCover
  <2>8. CASE active
    <3>1. /\ profiles' = (profiles \ {best}) \cup {updated}
          /\ updated = [event |-> best.event, article |-> best.article, status |-> "updated"]
      BY <1>1, <1>3, <2>8
    <3> HIDE DEF updated
    <3>2. updated.event = best.event /\ updated.article = best.article /\ updated \in Profile
      BY <1>3, <3>1 DEF Profile, Live
    <3>3. profiles' \subseteq Profile /\ IsFiniteSet(profiles')
      <4>1. IsFiniteSet(profiles \ {best})
        BY <1>2, FS_RemoveElement DEF ProfilesCover
      <4>2. IsFiniteSet((profiles \ {best}) \cup {updated})
        BY <4>1, FS_AddElement
      <4> QED
        BY <1>2, <3>1, <3>2, <4>2 DEF ProfilesCover
    <3>4. \A p \in profiles' : \E q \in profiles :
             /\ p.event = q.event /\ p.article = q.article
             /\ p = updated <=> q = best
             /\ p # updated => p = q
      <4>1. \A p \in profiles \ {best} : p # updated
        BY <1>2, <1>3, <3>2 DEF ProfilesCover
      <4> QED
        BY <1>3, <3>1, <3>2, <4>1
    <3>5. \A q \in profiles : \E p \in profiles' : p.event = q.event /\ p.article = q.article
      BY <3>1, <3>2
    <3>6. \A p, q \in profiles' :
             p # q => p.event # q.event /\ ~Alike(p.article, q.article)
      <4>1. SUFFICES ASSUME NEW p \in profiles', NEW q \in profiles', p # q
                     PROVE  p.event # q.event /\ ~Alike(p.article, q.article)
        OBVIOUS
      <4>2. PICK was \in profiles : /\ p.event = was.event /\ p.article = was.article
                                    /\ p = updated <=> was = best
                                    /\ p # updated => p = was
        BY <3>4
      <4>3. PICK had \in profiles : /\ q.event = had.event /\ q.article = had.article
                                    /\ q = updated <=> had = best
                                    /\ q # updated => q = had
        BY <3>4
      <4>4. was # had
        BY <4>1, <4>2, <4>3
      <4> QED
        BY <1>2, <4>2, <4>3, <4>4 DEF ProfilesCover
    <3>7. \A p \in profiles' : /\ p.event \in Numbers'
                               /\ Link(p.event, p.article, "primary") \in LinksSeen'
      <4> HIDE DEF Numbers, LinksSeen, Link
      <4> QED
        BY <1>2, <1>6, <2>1, <3>4 DEF ProfilesCover
    <3>8. tx'.bumped \subseteq {p.event : p \in profiles'}
      BY <2>1, <2>6, <3>5
    <3>9. \A l \in LinksSeen' : l.relation = "primary" /\ WillLive(l.event)' =>
             \E p \in profiles' : p.event = l.event /\ p.article = l.article
      BY <2>5, <3>5
    <3> HIDE DEF Numbers, WillLive, LinksSeen, Alike
    <3> QED
      BY <3>3, <3>6, <3>7, <3>8, <3>9 DEF ProfilesCover
  <2> QED
    BY <2>7, <2>8
<1> QED
  BY <1>6, <1>7, <1>8, <1>9 DEF EInv

\* A new event is compared with every live one, and from then on compared with.
LEMMA OpenEventInv ==
  ASSUME EInv, NEW i \in Items, OpenEvent(i)
  PROVE  EInv'
<1> DEFINE n == Len(events) + tx.opened + 1
           link == Link(n, i, "primary")
           opened == tx.opened + 1
           profile == [event |-> n, article |-> i, status |-> "active"]
<1>1. /\ At(i) /\ Advance /\ Originals(i) = {} /\ Similar(i) = {}
      /\ UNCHANGED troubles
      /\ tx' = [Mark(i, "clustered", {link}) EXCEPT !.opened = @ + 1]
      /\ profiles' = profiles \cup {profile}
  BY DEF OpenEvent
<1>2. /\ pc = "batch" /\ UNCHANGED <<pc, links, events>>
      /\ TxTyped /\ tx.opened \in Nat /\ Len(events) \in Nat /\ ProfilesCover
  BY <1>1, LenProperties DEF At, Advance, EInv, Typed, TxTyped
<1>3. n \in Nat \ {0} /\ n <= Len(events) + opened /\ opened \in Nat /\ tx.opened <= opened
  BY <1>2
<1>4. tx' = [status |-> [j \in DOMAIN tx.status \cup {i} |->
                            IF j = i THEN "clustered" ELSE tx.status[j]],
             links |-> tx.links \cup {link}, opened |-> opened, bumped |-> tx.bumped]
  <2> HIDE DEF link, n
  <2>1. Mark(i, "clustered", {link}) =
           [status |-> [j \in DOMAIN tx.status \cup {i} |->
                            IF j = i THEN "clustered" ELSE tx.status[j]],
            links |-> tx.links \cup {link}, opened |-> tx.opened, bumped |-> tx.bumped]
    BY <1>2, MarkFields
  <2>2. PICK marked, stats, rows, had, was :
           /\ marked = Mark(i, "clustered", {link})
           /\ marked = [status |-> stats, links |-> rows, opened |-> had, bumped |-> was]
           /\ stats = [j \in DOMAIN tx.status \cup {i} |->
                          IF j = i THEN "clustered" ELSE tx.status[j]]
           /\ rows = tx.links \cup {link} /\ had = tx.opened /\ was = tx.bumped
    BY <2>1
  <2>3. tx' = [marked EXCEPT !.opened = @ + 1]
    BY <1>1, <2>2
  <2>4. [marked EXCEPT !.opened = @ + 1]
          = [status |-> stats, links |-> rows, opened |-> had + 1, bumped |-> was]
    <3>1. marked = [status |-> stats, links |-> rows, opened |-> had, bumped |-> was]
      BY <2>2
    <3> QED
      BY <3>1
  <2> QED
    BY <2>2, <2>3, <2>4
<1>5. /\ link = [event |-> n, article |-> i, relation |-> "primary"]
      /\ link \in LinkRow
  BY <1>3 DEF Link, LinkRow
<1> HIDE DEF n, opened
<1>6. /\ Typed' /\ TxTyped' /\ TodoUntouched' /\ LinksTyped' /\ Homes'
      /\ DistinctStories' /\ ConfidenceBacked' /\ LinksSeen' = LinksSeen \cup {link}
  <2> DEFINE new == {link}
             bumped == tx.bumped
  <2>1. opened \in Nat /\ tx.opened <= opened /\ "clustered" \in Processed
    BY <1>3 DEF Processed
  <2>2. tx' = [status |-> [j \in DOMAIN tx.status \cup {i} |->
                               IF j = i THEN "clustered" ELSE tx.status[j]],
               links |-> tx.links \cup new, opened |-> opened, bumped |-> bumped]
    BY <1>4
  <2>3. /\ IsFiniteSet(new) /\ new # {} /\ \A k, l \in new : k = l
        /\ new \in SUBSET LinkRow
        /\ \A k \in new : /\ k.article = i /\ ("clustered" = "deduplicated" <=> k.relation = "duplicate")
                          /\ k.event <= Len(events) + opened
    <3>1. IsFiniteSet(new)
      BY FS_Singleton
    <3>2. link.article = i /\ link.relation = "primary" /\ link.event <= Len(events) + opened
      BY <1>3, <1>5
    <3> QED
      BY <1>5, <3>1, <3>2
  <2> HIDE DEF new, bumped
  <2>4. /\ Typed' /\ TxTyped' /\ TodoUntouched' /\ LinksTyped' /\ Homes'
        /\ DistinctStories' /\ ConfidenceBacked' /\ LinksSeen' = LinksSeen \cup new
    BY <1>1, <2>1, <2>2, <2>3, MarkInv
  <2> QED
    BY <2>4 DEF new
<1>7. CountedOnceIn(LinksSeen)'
  <2>1. \A l \in LinksSeen : TextOf(l.article) = TextOf(i) => l.article = i
    BY <1>1, NewText
  <2> QED
    BY <1>5, <1>6, <2>1 DEF EInv, CountedOnceIn
<1>8. \A l \in LinksSeen : l.event \in Nat /\ l.event < n
  BY <1>2 DEF EInv, LinksTyped, LinksSeen, LinkRow, n
<1>9. OnePrimaryIn(LinksSeen)'
  BY <1>5, <1>6, <1>8 DEF EInv, OnePrimaryIn
<1>10. ProfilesCover'
  <2>1. /\ tx'.opened = opened /\ tx'.bumped = tx.bumped
        /\ Numbers \subseteq Numbers' /\ n \in Numbers'
        /\ \A m \in Nat : WillLive(m)' => WillLive(m)
    BY <1>2, <1>3, <1>4 DEF Numbers, WillLive, opened
  <2>2. profile \in Profile /\ i \in Items
    BY <1>3 DEF Profile, Live
  <2>3. \A p \in profiles : p.event # n
    BY <1>2 DEF ProfilesCover, Numbers, n
  <2>4. \A p \in profiles : ~Alike(i, p.article) /\ ~Alike(p.article, i)
    <3>1. SUFFICES ASSUME NEW p \in profiles
                   PROVE  ~Alike(i, p.article) /\ ~Alike(p.article, i)
      OBVIOUS
    <3>2. p.article \in Items
      BY <1>2 DEF ProfilesCover, Profile
    <3>3. ~(Score[<<TextOf(i), TextOf(p.article)>>] >= Threshold)
      BY <1>1, <3>1 DEF Similar, ScoreOf, TextOf
    <3>4. Score[<<TextOf(i), TextOf(p.article)>>] = Score[<<TextOf(p.article), TextOf(i)>>]
      BY <3>2, ScoreType
    <3> QED
      BY <3>3, <3>4 DEF Alike
  <2>5. profiles' \subseteq Profile /\ IsFiniteSet(profiles')
    BY <1>1, <1>2, <2>2, FS_AddElement DEF ProfilesCover
  <2>6. \A p \in profiles' : /\ p.event \in Numbers'
                             /\ Link(p.event, p.article, "primary") \in LinksSeen'
    <3> HIDE DEF Numbers, LinksSeen
    <3> QED
      BY <1>1, <1>2, <1>6, <2>1 DEF ProfilesCover
  <2>7. \A p, q \in profiles' : p # q => p.event # q.event /\ ~Alike(p.article, q.article)
    <3> HIDE DEF Alike
    <3> QED
      BY <1>1, <1>2, <2>3, <2>4 DEF ProfilesCover
  <2>8. tx'.bumped \subseteq {p.event : p \in profiles'}
    <3>1. tx.bumped \subseteq {p.event : p \in profiles} /\ profiles \subseteq profiles'
      BY <1>1, <1>2 DEF ProfilesCover
    <3> QED
      BY <2>1, <3>1
  <2>9. ASSUME NEW l \in LinksSeen', l.relation = "primary", WillLive(l.event)'
        PROVE  \E p \in profiles' : p.event = l.event /\ p.article = l.article
    <3>1. CASE l = link
      <4>1. l.event = n /\ l.article = i
        BY <1>5, <3>1
      <4>2. profile \in profiles' /\ profile.event = n /\ profile.article = i
        BY <1>1
      <4> QED
        BY <4>1, <4>2
    <3>2. CASE l \in LinksSeen
      <4>1. WillLive(l.event)
        BY <1>8, <2>1, <2>9, <3>2
      <4> HIDE DEF WillLive, LinksSeen
      <4> QED
        BY <1>1, <1>2, <2>9, <3>2, <4>1 DEF ProfilesCover
    <3> QED
      BY <1>6, <2>9, <3>1, <3>2
  <2> HIDE DEF Numbers, WillLive, LinksSeen, Alike
  <2> QED
    BY <2>5, <2>6, <2>7, <2>8, <2>9 DEF ProfilesCover
<1> QED
  BY <1>6, <1>7, <1>9, <1>10 DEF EInv

LEMMA ArticleFailsInv ==
  ASSUME EInv, NEW i \in Items, ArticleFails(i)
  PROVE  EInv'
<1>1. /\ At(i) /\ Trouble /\ todo' = Tail(todo)
      /\ UNCHANGED <<stored, status, unwrapped, cutoff, links, events, pc, linked, profiles, tx>>
  BY DEF ArticleFails, Advance, feedVars
<1>2. pc = "batch"
  BY <1>1 DEF At
<1>3. Typed'
  BY <1>1, <1>2, EventEngineAssumption DEF EInv, Typed, Trouble, Distinct
<1>4. TodoUntouched'
  BY <1>1, AtHead DEF TodoUntouched, Distinct
<1>5. TxTyped' /\ LinksTyped'
  BY <1>1 DEF EInv, TxTyped, LinksTyped
<1>6. Homes'
  BY <1>1 DEF EInv, Homes, HomesIn, HomeExists, Seen, StatusSeen, LinksSeen
<1>7. CountedOnceIn(LinksSeen)' /\ OnePrimaryIn(LinksSeen)'
  BY <1>1 DEF EInv, CountedOnceIn, OnePrimaryIn, LinksSeen
<1>8. ProfilesCover'
  BY <1>1 DEF EInv, ProfilesCover, Numbers, LinksSeen, WillLive
<1>9. DistinctStories' /\ ConfidenceBacked'
  BY <1>1, StoriesFrame DEF EInv
<1> QED
  BY <1>3, <1>4, <1>5, <1>6, <1>7, <1>8, <1>9 DEF EInv

-----------------------------------------------------------------------------
(* The commits.                                                            *)

\* The session's rows become the rows there are.
LEMMA CommitBatchInv ==
  ASSUME EInv, CommitBatch
  PROVE  EInv'
<1> DEFINE row(n) == IF n <= Len(events) THEN events[n] ELSE NewsEvent
           all == Len(events) + tx.opened
           new(n) == IF n \in tx.bumped THEN [row(n) EXCEPT !.status = "updated"] ELSE row(n)
<1>1. /\ pc = "batch" /\ todo = <<>> /\ pc' = "quakes" /\ profiles' = {} /\ tx' = NoWrites
      /\ status' = [i \in Items |-> StatusSeen(i)]
      /\ links' = LinksSeen /\ linked' = linked \cup tx.links
      /\ events' = [n \in 1 .. all |-> new(n)]
      /\ UNCHANGED <<stored, unwrapped, cutoff, todo, troubles>>
  BY DEF CommitBatch
<1>2. /\ events \in Seq(EventRow) /\ Len(events) \in Nat /\ DOMAIN events = 1 .. Len(events)
      /\ tx.opened \in Nat /\ all \in Nat
      /\ \A n \in 1 .. Len(events) : events[n] \in EventRow
  BY ElementOfSeq, LenProperties DEF EInv, Typed, TxTyped
<1>3. \A n \in 1 .. all :
         /\ row(n) \in EventRow /\ new(n) \in EventRow
         /\ new(n).type = row(n).type /\ new(n).confidence = row(n).confidence
         /\ new(n).status = IF n \in tx.bumped THEN "updated" ELSE row(n).status
  <2>1. SUFFICES ASSUME NEW n \in 1 .. all
                 PROVE  /\ row(n) \in EventRow /\ new(n) \in EventRow
                        /\ new(n).type = row(n).type /\ new(n).confidence = row(n).confidence
                        /\ new(n).status = IF n \in tx.bumped THEN "updated" ELSE row(n).status
    OBVIOUS
  <2>2. row(n) \in EventRow
    BY <1>2 DEF EventRow, NewsEvent, Live
  <2> HIDE DEF row
  <2>3. /\ [row(n) EXCEPT !.status = "updated"] \in EventRow
        /\ [row(n) EXCEPT !.status = "updated"].type = row(n).type
        /\ [row(n) EXCEPT !.status = "updated"].confidence = row(n).confidence
        /\ [row(n) EXCEPT !.status = "updated"].status = "updated"
    BY <2>2 DEF EventRow, Live
  <2> QED
    BY <2>2, <2>3
<1>4. /\ events' \in Seq(EventRow) /\ Len(events') = all /\ DOMAIN events' = 1 .. all
      /\ \A n \in 1 .. all : events'[n] = new(n)
  <2> HIDE DEF new, row, all
  <2>1. events' \in [1 .. all -> EventRow]
    BY <1>1, <1>3
  <2>2. events' \in Seq(EventRow)
    BY <1>2, <2>1, SeqDef
  <2> QED
    BY <1>1, <1>2, <2>1, <2>2, LenProperties
<1> HIDE DEF new
<1>5. \A i \in Items : /\ status'[i] = StatusSeen(i)
                       /\ status'[i] \in {"absent", "raw", "gone"} \cup Processed
                       /\ status[i] # "absent" => status'[i] # "absent"
  BY <1>1 DEF EInv, Typed, TxTyped, StatusSeen, Processed
<1>6. Typed'
  <2>1. \A n \in DOMAIN stored : stored[n] \in Items
    BY ElementOfSeq, LenProperties DEF EInv, Typed
  <2>2. status' \in [Items -> {"absent", "raw", "gone"} \cup Processed]
    BY <1>1, <1>5
  <2> QED
    BY <1>1, <1>4, <1>5, <2>1, <2>2 DEF EInv, Typed, Distinct
<1>7. /\ LinksSeen' = LinksSeen /\ \A i \in Items : StatusSeen(i)' = status'[i]
      /\ TxTyped' /\ tx'.opened = 0 /\ tx'.bumped = {} /\ tx'.links = {}
  <2>1. DOMAIN tx'.status = {}
    <3>1. DOMAIN <<>> = {}
      OBVIOUS
    <3> QED
      BY <1>1, <3>1 DEF NoWrites
  <2>2. tx'.links = {} /\ tx'.opened = 0 /\ tx'.bumped = {} /\ tx'.status = <<>>
    BY <1>1 DEF NoWrites
  <2>3. TxTyped'
    BY <1>1, <2>1, <2>2 DEF NoWrites, TxTyped
  <2> QED
    BY <1>1, <2>1, <2>2, <2>3 DEF LinksSeen, StatusSeen
<1>8. TodoUntouched'
  BY <1>1, EmptySeq DEF TodoUntouched, Distinct
<1>9. LinksTyped'
  <2>1. IsFiniteSet(linked') /\ IsFiniteSet(tx'.links)
    BY <1>1, <1>7, FS_Union, FS_EmptySet DEF EInv, LinksTyped
  <2>2. \A l \in links' : l.event <= Len(events')
    BY <1>1, <1>2, <1>4 DEF EInv, LinksTyped, LinksSeen, LinkRow
  <2> QED
    BY <1>1, <1>7, <2>1, <2>2 DEF EInv, LinksTyped, LinksSeen
<1>10. Homes'
  <2>1. /\ HomesIn(Seen, LinksSeen) /\ HomeExists(Seen, LinksSeen)
    BY DEF EInv, Homes
  <2>2. \A i \in Items : status'[i] = Seen[i] /\ Seen'[i] = Seen[i]
    BY <1>5, <1>7 DEF Seen
  <2> HIDE DEF Seen
  <2> QED
    BY <1>1, <1>7, <2>1, <2>2 DEF Homes, HomesIn, HomeExists
<1>11. CountedOnceIn(LinksSeen)' /\ OnePrimaryIn(LinksSeen)'
  BY <1>7 DEF EInv, CountedOnceIn, OnePrimaryIn
<1>12. ProfilesCover'
  BY <1>1 DEF ProfilesCover
<1>13. DistinctStories'
  <2>1. SUFFICES ASSUME NEW k \in LinksSeen, NEW l \in LinksSeen,
                        k.relation = "primary", l.relation = "primary", k.event # l.event,
                        events'[k.event].status \in Live, events'[l.event].status \in Live
                 PROVE  Score[<<Facts[k.article].text, Facts[l.article].text>>] < Threshold
    BY <1>1 DEF DistinctStories
  <2>2. \A m \in LinksSeen : m.event \in 1 .. all /\ m.article \in Items
    BY <1>2 DEF EInv, LinksTyped, LinksSeen, LinkRow
  <2>3. \A n \in 1 .. all : events'[n].status \in Live => WillLive(n)
    <3>1. \A n \in 1 .. all : n \notin tx.bumped /\ n <= Len(events)
             => events'[n].status = events[n].status
      BY <1>3, <1>4
    <3> QED
      BY <1>2, <3>1 DEF WillLive
  <2>4. PICK p \in profiles : p.event = k.event /\ p.article = k.article
    BY <1>1, <2>1, <2>2, <2>3 DEF EInv, ProfilesCover
  <2>5. PICK q \in profiles : q.event = l.event /\ q.article = l.article
    BY <1>1, <2>1, <2>2, <2>3 DEF EInv, ProfilesCover
  <2>6. ~Alike(k.article, l.article)
    BY <1>1, <2>1, <2>4, <2>5 DEF EInv, ProfilesCover
  <2>7. Score[<<TextOf(k.article), TextOf(l.article)>>] \in Nat /\ Threshold \in Nat
    BY <2>2, ScoreType
  <2> QED
    BY <2>6, <2>7 DEF Alike, TextOf
<1>14. ConfidenceBacked'
  <2>1. \A n \in 1 .. all : events'[n].confidence = "high" =>
           n \in 1 .. Len(events) /\ events'[n].type = events[n].type
             /\ events[n].confidence = "high"
    BY <1>2, <1>3, <1>4 DEF NewsEvent
  <2> HIDE DEF all
  <2> QED
    BY <1>1, <1>4, <2>1, BackingKept DEF EInv
<1> QED
  BY <1>6, <1>7, <1>8, <1>9, <1>10, <1>11, <1>12, <1>13, <1>14 DEF EInv

\* Events that get no links disturb nothing.
LEMMA WrapQuakesInv ==
  ASSUME EInv, WrapQuakes
  PROVE  EInv'
<1> DEFINE quakes == [n \in 1 .. unwrapped |-> QuakeEvent]
<1>1. /\ pc = "quakes" /\ pc' = "confidence" /\ events' = events \o quakes /\ unwrapped' = 0
      /\ UNCHANGED <<stored, status, links, cutoff, todo, profiles, tx, linked, troubles>>
  BY DEF WrapQuakes
<1>2. quakes \in Seq(EventRow)
  <2>1. quakes \in [1 .. unwrapped -> EventRow]
    BY DEF QuakeEvent, EventRow, Live
  <2> QED
    BY <2>1, SeqDef DEF EInv, Typed
<1>3. /\ events \in Seq(EventRow) /\ Len(events) \in Nat /\ Len(quakes) \in Nat
      /\ events' \in Seq(EventRow) /\ Len(events') = Len(events) + Len(quakes)
      /\ \A n \in 1 .. Len(events) : events'[n] = events[n]
      /\ \A n \in 1 .. Len(events') : n > Len(events) => events'[n].type = "earthquake"
  <2>1. events \in Seq(EventRow)
    BY DEF EInv, Typed
  <2>2. Len(events) \in Nat /\ Len(quakes) \in Nat
    BY <1>2, <2>1, LenProperties
  <2>3. \A n \in 1 .. Len(quakes) : quakes[n].type = "earthquake"
    <3>1. DOMAIN quakes = 1 .. Len(quakes)
      BY <1>2, LenProperties
    <3> QED
      BY <3>1 DEF QuakeEvent
  <2> HIDE DEF quakes
  <2>4. /\ events \o quakes \in Seq(EventRow)
        /\ Len(events \o quakes) = Len(events) + Len(quakes)
        /\ \A n \in 1 .. Len(events) + Len(quakes) :
              (events \o quakes)[n] = IF n <= Len(events) THEN events[n]
                                      ELSE quakes[n - Len(events)]
    BY <1>2, <2>1, ConcatProperties
  <2> QED
    BY <1>1, <2>1, <2>2, <2>3, <2>4
<1> HIDE DEF quakes
<1>4. tx = NoWrites /\ LinksSeen = links /\ LinksSeen' = links
  BY <1>1, NoWritesSeen DEF EInv, Typed, LinksSeen
<1>5. Typed'
  BY <1>1, <1>3 DEF EInv, Typed, Distinct
<1>6. \A l \in links : l.event \in 1 .. Len(events)
  BY <1>3 DEF EInv, LinksTyped, LinkRow
<1>7. LinksTyped'
  <2>1. \A l \in tx.links : FALSE
    BY <1>4 DEF NoWrites
  <2>2. \A l \in links : l.event <= Len(events')
    BY <1>3, <1>6
  <2> QED
    BY <1>1, <2>1, <2>2 DEF EInv, LinksTyped
<1>8. TxTyped' /\ TodoUntouched'
  BY <1>1 DEF EInv, TxTyped, TodoUntouched, Distinct
<1>9. Homes'
  BY <1>1 DEF EInv, Homes, HomesIn, HomeExists, Seen, StatusSeen, LinksSeen
<1>10. CountedOnceIn(LinksSeen)' /\ OnePrimaryIn(LinksSeen)'
  BY <1>1 DEF EInv, CountedOnceIn, OnePrimaryIn, LinksSeen
<1>11. ProfilesCover'
  BY <1>1 DEF ProfilesCover
<1>12. DistinctStories'
  BY <1>1, <1>3, <1>6 DEF EInv, DistinctStories
<1>13. ConfidenceBacked'
  <2>1. \A n \in 1 .. Len(events)' : events'[n].type = "news" =>
           n \in 1 .. Len(events) /\ events'[n] = events[n]
    <3>1. ASSUME NEW n \in 1 .. Len(events'), events'[n].type = "news"
          PROVE  n <= Len(events)
      BY <1>3, <3>1
    <3> QED
      BY <1>3, <3>1
  <2> QED
    BY <1>1, <2>1, BackingKept DEF EInv
<1> QED
  BY <1>5, <1>7, <1>8, <1>9, <1>10, <1>11, <1>12, <1>13 DEF EInv

\* Three things that differ are three.
LEMMA ThreeElements ==
  ASSUME NEW a, NEW b, NEW c, a # b, a # c, b # c
  PROVE  Cardinality({a, b, c}) = 3
<1>1. IsFiniteSet({a}) /\ Cardinality({a}) = 1
  BY FS_Singleton
<1>2. b \notin {a} /\ {a} \cup {b} = {a, b}
  OBVIOUS
<1>3. /\ IsFiniteSet({a} \cup {b})
      /\ Cardinality({a} \cup {b}) = Cardinality({a}) + 1
  BY <1>1, <1>2, FS_AddElement
<1>4. IsFiniteSet({a, b}) /\ Cardinality({a, b}) = 2
  BY <1>1, <1>2, <1>3
<1>5. c \notin {a, b} /\ {a, b} \cup {c} = {a, b, c}
  OBVIOUS
<1>6. Cardinality({a, b} \cup {c}) = Cardinality({a, b}) + 1
  BY <1>4, <1>5, FS_AddElement
<1> QED
  BY <1>4, <1>5, <1>6

\* A score is high only with three domains, and their articles have three texts
\* because every text counts once.
LEMMA HighIsBacked ==
  ASSUME EInv, NEW n \in 1 .. Len(events), events[n].type = "news",
         ComputeConfidence(n) = "high"
  PROVE  \E voices \in SUBSET {l.article : l \in {k \in linked : k.event = n}} :
            /\ Cardinality(voices) = 3
            /\ \A i, j \in voices : i # j => /\ Facts[i].text # Facts[j].text
                                             /\ Facts[i].domain # Facts[j].domain
<1> DEFINE counting == {k \in links : k.event = n /\ k.relation # "duplicate"}
           domains == Domains(Counted(n))
           domain == [l \in counting |-> Facts[l.article].domain]
<1>1. domains = {domain[l] : l \in counting} \ {NoDomain}
  BY DEF Domains, Counted
<1>2. IsFiniteSet(domains) /\ Cardinality(domains) \in Nat
  <2>1. counting \in SUBSET linked /\ IsFiniteSet(linked)
    BY DEF EInv, LinksTyped
  <2>2. IsFiniteSet(counting)
    BY <2>1, FS_Subset
  <2> HIDE DEF counting
  <2>3. IsFiniteSet({domain[l] : l \in counting})
    BY <2>2, ImageFinite
  <2>4. IsFiniteSet({domain[l] : l \in counting} \ {NoDomain})
    BY <2>3, FS_RemoveElement
  <2> QED
    BY <1>1, <2>4, FS_CardinalityType
<1>3. Cardinality(domains) >= 3
  BY DEF ComputeConfidence
<1>4. \A d \in domains : \E l \in counting : Facts[l.article].domain = d
  BY <1>1
<1> HIDE DEF domains
<1>5. PICK c \in domains, d \in domains, e \in domains : c # d /\ c # e /\ d # e
  <2>1. domains # {}
    BY <1>2, <1>3, FS_EmptySet
  <2>2. PICK c \in domains : TRUE
    BY <2>1
  <2>3. IsFiniteSet(domains \ {c}) /\ Cardinality(domains \ {c}) = Cardinality(domains) - 1
    BY <1>2, <2>2, FS_RemoveElement
  <2>4. domains \ {c} # {}
    BY <1>2, <1>3, <2>3, FS_EmptySet
  <2>5. PICK d \in domains \ {c} : TRUE
    BY <2>4
  <2>6. /\ IsFiniteSet((domains \ {c}) \ {d})
        /\ Cardinality((domains \ {c}) \ {d}) = Cardinality(domains \ {c}) - 1
    BY <2>3, <2>5, FS_RemoveElement
  <2>7. (domains \ {c}) \ {d} # {}
    BY <1>2, <1>3, <2>3, <2>6, FS_EmptySet
  <2> QED
    BY <2>2, <2>5, <2>7
<1>6. PICK k \in counting, l \in counting, m \in counting :
         /\ Facts[k.article].domain = c /\ Facts[l.article].domain = d
         /\ Facts[m.article].domain = e
  BY <1>4, <1>5
<1>7. \A x, y \in counting : x.article # y.article
         => Facts[x.article].text # Facts[y.article].text
  BY DEF EInv, CountedOnceIn, LinksSeen, TextOf
<1> DEFINE voices == {k.article, l.article, m.article}
<1>8. voices \in SUBSET {x.article : x \in {y \in linked : y.event = n}}
  BY <1>6 DEF EInv, LinksTyped
<1>9. \A i, j \in voices : i # j => /\ Facts[i].text # Facts[j].text
                                    /\ Facts[i].domain # Facts[j].domain
  BY <1>5, <1>6, <1>7
<1>10. Cardinality(voices) = 3
  <2>1. /\ k.article # l.article /\ k.article # m.article /\ l.article # m.article
    BY <1>5, <1>6
  <2> HIDE DEF counting, voices
  <2>2. \A i, j, o : i # j /\ i # o /\ j # o => Cardinality({i, j, o}) = 3
    BY ThreeElements
  <2>3. Cardinality({k.article, l.article, m.article}) = 3
    BY <2>1, <2>2
  <2> QED
    BY <2>3 DEF voices
<1> QED
  BY <1>8, <1>9, <1>10

LEMMA RefreshConfidencesInv ==
  ASSUME EInv, RefreshConfidences
  PROVE  EInv'
<1> DEFINE rated(n) == IF events[n].status \in Live
                       THEN [events[n] EXCEPT !.confidence = ComputeConfidence(n)]
                       ELSE events[n]
<1>1. /\ pc = "confidence" /\ pc' = "idle"
      /\ events' = [n \in 1 .. Len(events) |-> rated(n)]
      /\ UNCHANGED <<stored, status, unwrapped, cutoff, links, todo, profiles, tx, linked,
                     troubles>>
  BY DEF RefreshConfidences, feedVars
<1>2. /\ Len(events) \in Nat /\ DOMAIN events = 1 .. Len(events)
      /\ \A n \in 1 .. Len(events) : events[n] \in EventRow
  BY ElementOfSeq, LenProperties DEF EInv, Typed
<1>3. \A n \in 1 .. Len(events) :
         /\ rated(n) \in EventRow
         /\ rated(n).type = events[n].type /\ rated(n).status = events[n].status
         /\ rated(n).confidence = events[n].confidence
              \/ rated(n).confidence = ComputeConfidence(n)
  <2>1. SUFFICES ASSUME NEW n \in 1 .. Len(events)
                 PROVE  /\ rated(n) \in EventRow
                        /\ rated(n).type = events[n].type /\ rated(n).status = events[n].status
                        /\ rated(n).confidence = events[n].confidence
                             \/ rated(n).confidence = ComputeConfidence(n)
    OBVIOUS
  <2>2. ComputeConfidence(n) \in {"low", "medium", "high"}
    <3> DEFINE independent == Cardinality(Domains(Counted(n)))
    <3>1. ComputeConfidence(n) =
             CASE events[n].type = "earthquake"              -> "high"
               [] independent >= 3 /\ Consistent(Counted(n)) -> "high"
               [] independent = 2 \/ (independent >= 3 /\ ~Consistent(Counted(n))) -> "medium"
               [] OTHER                                      -> "low"
      BY DEF ComputeConfidence
    <3> HIDE DEF independent
    <3>2. CASE events[n].type = "earthquake" /\ ComputeConfidence(n) = "high"
      BY <3>2
    <3>3. CASE /\ events[n].type # "earthquake"
               /\ independent = 2 \/ (independent >= 3 /\ ~Consistent(Counted(n)))
      BY <3>1, <3>3
    <3>4. CASE /\ events[n].type # "earthquake"
               /\ independent >= 3 /\ Consistent(Counted(n))
      BY <3>1, <3>4
    <3> QED
      BY <3>1, <3>2, <3>3, <3>4
  <2>3. events[n] \in EventRow
    BY <1>2
  <2> HIDE DEF ComputeConfidence
  <2>4. /\ [events[n] EXCEPT !.confidence = ComputeConfidence(n)] \in EventRow
        /\ [events[n] EXCEPT !.confidence = ComputeConfidence(n)].type = events[n].type
        /\ [events[n] EXCEPT !.confidence = ComputeConfidence(n)].status = events[n].status
        /\ [events[n] EXCEPT !.confidence = ComputeConfidence(n)].confidence
              = ComputeConfidence(n)
    BY <2>2, <2>3 DEF EventRow
  <2> QED
    BY <2>3, <2>4
<1>4. /\ events' \in Seq(EventRow) /\ Len(events') = Len(events)
      /\ \A n \in 1 .. Len(events) : events'[n] = rated(n)
  <2> HIDE DEF rated
  <2>1. events' \in [1 .. Len(events) -> EventRow]
    BY <1>1, <1>3
  <2>2. events' \in Seq(EventRow)
    BY <1>2, <2>1, SeqDef
  <2>3. DOMAIN events' = 1 .. Len(events')  /\ DOMAIN events' = 1 .. Len(events)
    BY <2>1, <2>2, LenProperties
  <2>4. Len(events') \in Nat
    BY <2>2, LenProperties
  <2> QED
    BY <1>1, <1>2, <2>2, <2>3, <2>4
<1> HIDE DEF rated
<1>5. Typed'
  BY <1>1, <1>4 DEF EInv, Typed, Distinct
<1>6. TxTyped' /\ TodoUntouched' /\ LinksTyped'
  BY <1>1, <1>4 DEF EInv, TxTyped, TodoUntouched, Distinct, LinksTyped
<1>7. Homes'
  BY <1>1 DEF EInv, Homes, HomesIn, HomeExists, Seen, StatusSeen, LinksSeen
<1>8. CountedOnceIn(LinksSeen)' /\ OnePrimaryIn(LinksSeen)'
  BY <1>1 DEF EInv, CountedOnceIn, OnePrimaryIn, LinksSeen
<1>9. ProfilesCover'
  BY <1>1 DEF ProfilesCover
<1>10. DistinctStories'
  <2>1. \A l \in links : l.event \in 1 .. Len(events)
    BY <1>2 DEF EInv, LinksTyped, LinkRow
  <2>2. links' = links /\ \A n \in 1 .. Len(events) : events'[n].status = events[n].status
    BY <1>1, <1>3, <1>4
  <2>3. \A l \in links : events'[l.event].status = events[l.event].status
    BY <2>1, <2>2
  <2>4. DistinctStories
    BY DEF EInv
  <2> QED
    BY <2>2, <2>3, <2>4 DEF DistinctStories
<1>11. ConfidenceBacked'
  <2>1. SUFFICES ASSUME NEW n \in 1 .. Len(events), events'[n].type = "news",
                        events'[n].confidence = "high"
                 PROVE  \E voices \in SUBSET {l.article : l \in {k \in linked : k.event = n}} :
                           /\ Cardinality(voices) = 3
                           /\ \A i, j \in voices : i # j => /\ Facts[i].text # Facts[j].text
                                                            /\ Facts[i].domain # Facts[j].domain
    <3>1. linked' = linked /\ Len(events)' = Len(events)
      BY <1>1, <1>4
    <3> QED
      BY <3>1 DEF ConfidenceBacked
  <2>2. CASE events[n].confidence = "high"
    <3>1. events[n].type = "news"
      BY <1>3, <1>4, <2>1
    <3>2. ConfidenceBacked
      BY DEF EInv
    <3> QED
      BY <2>2, <3>1, <3>2 DEF ConfidenceBacked
  <2>3. CASE ComputeConfidence(n) = "high"
    <3>1. events[n].type = "news"
      BY <1>3, <1>4, <2>1
    <3> QED
      BY <2>3, <3>1, HighIsBacked
  <2> QED
    BY <1>3, <1>4, <2>1, <2>2, <2>3
<1> QED
  BY <1>5, <1>6, <1>7, <1>8, <1>9, <1>10, <1>11 DEF EInv

-----------------------------------------------------------------------------
(* Failures.                                                               *)

\* What the session had written is gone, and the rows are what they were but
\* for those a purge has deleted.
LEMMA DropInv ==
  ASSUME EInv, Drop, Typed', UNCHANGED <<events, linked>>, links' \in SUBSET links,
         HomesIn(status', links'), HomeExists(status', links')
  PROVE  EInv'
<1>1. pc' = "idle" /\ todo' = <<>> /\ profiles' = {} /\ tx' = NoWrites
  BY DEF Drop
<1>2. DOMAIN tx'.status = {} /\ tx'.links = {}
  <2>1. DOMAIN <<>> = {}
    OBVIOUS
  <2> QED
    BY <1>1, <2>1 DEF NoWrites
<1>3. /\ LinksSeen' = links' /\ \A i \in Items : Seen'[i] = status'[i]
      /\ LinksSeen' \subseteq LinksSeen
  BY <1>2 DEF LinksSeen, Seen, StatusSeen
<1>4. TxTyped'
  <2>1. tx'.status = <<>> /\ tx'.opened = 0
    BY <1>1 DEF NoWrites
  <2> QED
    BY <1>1, <1>2, <2>1 DEF NoWrites, TxTyped
<1>5. TodoUntouched'
  BY <1>1, EmptySeq DEF TodoUntouched, Distinct
<1>6. LinksTyped'
  BY <1>2, FS_EmptySet DEF EInv, LinksTyped
<1>7. Homes'
  BY <1>3 DEF Homes, HomesIn, HomeExists
<1>8. CountedOnceIn(LinksSeen)' /\ OnePrimaryIn(LinksSeen)'
  <2> HIDE DEF LinksSeen
  <2> QED
    BY <1>3 DEF EInv, CountedOnceIn, OnePrimaryIn
<1>9. ProfilesCover'
  BY <1>1 DEF ProfilesCover
<1>10. DistinctStories' /\ ConfidenceBacked'
  BY DEF EInv, DistinctStories, ConfidenceBacked
<1> QED
  BY <1>4, <1>5, <1>6, <1>7, <1>8, <1>9, <1>10 DEF EInv

LEMMA CycleDiesInv ==
  ASSUME EInv, CycleDies
  PROVE  EInv'
<1>1. Drop /\ Trouble /\ UNCHANGED <<stored, status, unwrapped, cutoff, links, events, linked>>
  BY DEF CycleDies, feedVars
<1>2. Typed'
  BY <1>1, EventEngineAssumption DEF Drop, Trouble, EInv, Typed, Distinct
<1>3. HomesIn(status', links') /\ HomeExists(status', links')
  BY <1>1 DEF EInv, Homes, HomesIn, HomeExists
<1> QED
  BY <1>1, <1>2, <1>3, DropInv

LEMMA RestartInv ==
  ASSUME EInv, Restart
  PROVE  EInv'
<1>1. /\ Drop /\ Trouble /\ cutoff' \in cutoff .. MaxCutoff
      /\ UNCHANGED <<stored, events, unwrapped, linked>>
  BY DEF Restart
<1>2. PICK purged :
         /\ status' = [i \in Items |-> IF i \in purged /\ status[i] # "absent"
                                       THEN "gone" ELSE status[i]]
         /\ links' = {l \in links : l.article \notin purged}
  BY DEF Restart
<1>3. \A i \in Items : /\ status'[i] \in {"absent", "raw", "gone"} \cup Processed
                       /\ status'[i] = "absent" <=> status[i] = "absent"
                       /\ i \notin purged => status'[i] = status[i]
                       /\ i \in purged => status'[i] \notin Processed
  BY <1>2 DEF EInv, Typed, Processed
<1>4. Typed'
  <2>1. \A n \in DOMAIN stored : stored[n] \in Items
    BY ElementOfSeq, LenProperties DEF EInv, Typed
  <2>2. status' \in [Items -> {"absent", "raw", "gone"} \cup Processed]
    BY <1>2, <1>3
  <2>3. cutoff' \in 0 .. MaxCutoff
    BY <1>1, EventEngineAssumption DEF EInv, Typed
  <2> QED
    BY <1>1, <1>3, <2>1, <2>2, <2>3, EventEngineAssumption
       DEF Drop, Trouble, EInv, Typed, Distinct
<1>5. HomesIn(status', links')
  BY <1>2, <1>3 DEF EInv, Homes, HomesIn
<1>6. HomeExists(status', links')
  BY <1>2, <1>3 DEF EInv, Homes, HomeExists, Processed
<1> QED
  BY <1>1, <1>2, <1>4, <1>5, <1>6, DropInv

-----------------------------------------------------------------------------
(* The theorems.                                                           *)

LEMMA NextInv ==
  ASSUME EInv, [Next]_vars
  PROVE  EInv'
<1>1. CASE Feeds
  BY <1>1, CollectInv, NewQuakeInv, EndEventInv DEF Feeds
<1>2. CASE Cycle
  BY <1>2, BeginInv, DuplicateInv, RelateInv, OpenEventInv, CommitBatchInv,
     WrapQuakesInv, RefreshConfidencesInv DEF Cycle
<1>3. CASE Failures
  BY <1>3, DuplicateUnlinkedInv, ArticleFailsInv, CycleDiesInv, RestartInv DEF Failures
<1>4. CASE UNCHANGED vars
  <2>1. UNCHANGED <<stored, status, unwrapped, cutoff, links, events, pc, todo, profiles, tx,
                    linked, troubles>>
    BY <1>4 DEF vars, feedVars, loopVars
  <2>2. Typed'
    BY <2>1 DEF EInv, Typed, Distinct
  <2> QED
    BY <2>1, <2>2, TypedFrame
<1> QED
  BY <1>1, <1>2, <1>3, <1>4 DEF Next

LEMMA EngineInv == Spec => []EInv
<1>1. Init => EInv
  BY InitInv
<1>2. EInv /\ [Next]_vars => EInv'
  BY NextInv
<1> QED
  BY <1>1, <1>2, PTL DEF Spec

\* Types: articles and events keep their ranges, links lead to events and
\* processed articles that exist, and only a batch holds uncommitted writes.
THEOREM EngineTypes == Spec => []TypeOK
<1>1. EInv => TypeOK
  BY EInvGivesTypes
<1> QED
  BY <1>1, EngineInv, PTL

\* Every clustered article has exactly one event, copies of a text count once,
\* live events tell different stories, and a news event of high confidence has
\* three voices, for any articles, similarities, batches, failures and purges.
THEOREM EngineStoriesHold == Spec => []StoriesHold
<1>1. EInv => StoriesHold
  BY EInvGivesStories
<1> QED
  BY <1>1, EngineInv, PTL

=============================================================================
