----------------------------- MODULE TablesProofs -----------------------------
(* Theorems about the three parts whose tables the HTTP API reads or     *)
(* writes at the same time as others: Documents, Weather below it, and   *)
(* Pages, which share no variable. They hold for every set of documents, *)
(* locations, requests and rows, every page size, and every bound.       *)
EXTENDS Documents, Weather, Pages, SequenceTheorems, FiniteSetTheorems, WellFoundedInduction, TLAPS

-----------------------------------------------------------------------------
(* The inductive invariant.  TypeOK does not say which fields a request has *)
(* and that its document is one; the rest is what a request under way may   *)
(* rely on.                                                                 *)

Storing(r) == req[r].pc = "store"
Deleting(r) == req[r].pc \in {"unlink", "commit"}

Waiting == {Idle}
Stores == [pc : {"store"}, doc : Docs, kind : Kinds, text : {"some", "none"},
           event : {"none", "known", "missing"}]
Deletes == [pc : {"unlink", "commit"}, doc : Docs]
Replies == [op : {"none", "upload", "delete", "get"}, code : Codes, doc : Docs \cup {NoDoc}]

Typed ==
    /\ TypeOK
    /\ req \in [Requests -> Waiting \cup Stores \cup Deletes]
    /\ reply \in [Requests -> Replies]

\* The file of a document to be stored is there, and nobody else knows of it.
StoresAlone ==
    \A r \in Requests : Storing(r) =>
        /\ req[r].doc \in disk
        /\ req[r].doc \notin promised \cup asked \cup cut \cup DOMAIN rows
        /\ \A s \in Requests : Storing(s) /\ req[s].doc = req[r].doc => s = r

\* A deletion was asked for, and before its commit the file is gone or stuck.
DeletesAsked ==
    \A r \in Requests :
        /\ Deleting(r) => req[r].doc \in asked
        /\ req[r].pc = "commit" => req[r].doc \notin disk \ stuck

\* So it is once the deletion was answered.
RepliesAsked ==
    \A r \in Requests : reply[r].op = "delete" /\ reply[r].code = 200 => reply[r].doc \in asked

DInv == Typed /\ StoresAlone /\ DeletesAsked /\ RepliesAsked /\ AnswersKept /\ StraysExplained

-----------------------------------------------------------------------------
LEMMA DocumentsInit == Init => DInv
<1> SUFFICES ASSUME Init PROVE DInv
  OBVIOUS
<1>1. DOMAIN rows = {}
  BY DEF Init
<1>2. Typed
  BY <1>1, DocumentsConstants
     DEF Init, Typed, TypeOK, Idle, NoReply, Waiting, Replies, Codes
<1> QED
  BY <1>1, <1>2 DEF Init, DInv, StoresAlone, DeletesAsked, RepliesAsked, AnswersKept,
     StraysExplained, Idle, NoReply, Storing, Deleting

LEMMA DocumentsNext == DInv /\ [Next]_vars => DInv'
<1> SUFFICES ASSUME DInv, [Next]_vars PROVE DInv'
  OBVIOUS
<1> USE DocumentsConstants DEF Typed, TypeOK, Waiting, Stores, Deletes, Replies, Idle, NoReply,
       Codes, Trouble, Answer, Finish, histories, Storing, Deleting
<1>1. ASSUME NEW r \in Requests, NEW d \in Docs, req[r].pc = "idle", Fresh(d),
             NEW kind \in Kinds, NEW text \in {"some", "none"},
             NEW event \in {"none", "known", "missing"}, Accept(r, d, kind, text, event)
      PROVE DInv'
  <2>1. Typed'
    BY <1>1 DEF DInv, Accept
  <2>2. StoresAlone'
    BY <1>1 DEF DInv, Accept, StoresAlone, Fresh
  <2>3. DeletesAsked'
    BY <1>1 DEF DInv, Accept, DeletesAsked, Fresh
  <2>4. RepliesAsked'
    BY <1>1 DEF DInv, Accept, RepliesAsked
  <2>5. AnswersKept'
    BY <1>1 DEF DInv, Accept, RepliesAsked, AnswersKept, Fresh
  <2>6. StraysExplained'
    BY <1>1 DEF DInv, Accept, StraysExplained, Fresh
  <2> QED
    BY <2>1, <2>2, <2>3, <2>4, <2>5, <2>6 DEF DInv
<1>2. ASSUME NEW r \in Requests, Store(r)
      PROVE DInv'
  <2>1. Typed'
    BY <1>2 DEF DInv, Store, With, NewRow, Status, Row, Kinds, StoresAlone
  <2>2. StoresAlone'
    BY <1>2 DEF DInv, Store, With, StoresAlone
  <2>3. DeletesAsked'
    BY <1>2 DEF DInv, Store, DeletesAsked
  <2>4. RepliesAsked'
    BY <1>2 DEF DInv, Store, RepliesAsked
  <2>5. AnswersKept'
    BY <1>2 DEF DInv, Store, With, StoresAlone, RepliesAsked, AnswersKept
  <2>6. StraysExplained'
    BY <1>2 DEF DInv, Store, With, StraysExplained, StoresAlone
  <2> QED
    BY <2>1, <2>2, <2>3, <2>4, <2>5, <2>6 DEF DInv
<1>3. ASSUME NEW r \in Requests, StoreFails(r)
      PROVE DInv'
  <2>1. Typed'
    BY <1>3 DEF DInv, StoreFails
  <2>2. StoresAlone'
    BY <1>3 DEF DInv, StoreFails, StoresAlone
  <2>3. DeletesAsked'
    BY <1>3 DEF DInv, StoreFails, DeletesAsked
  <2>4. RepliesAsked'
    BY <1>3 DEF DInv, StoreFails, RepliesAsked
  <2>5. AnswersKept'
    BY <1>3 DEF DInv, StoreFails, RepliesAsked, AnswersKept
  <2>6. StraysExplained'
    BY <1>3 DEF DInv, StoreFails, StraysExplained
  <2> QED
    BY <2>1, <2>2, <2>3, <2>4, <2>5, <2>6 DEF DInv
<1>4. ASSUME NEW r \in Requests, NEW d \in Docs, DeleteLoad(r, d)
      PROVE DInv'
  <2>1. Typed'
    BY <1>4 DEF DInv, DeleteLoad
  <2>a. /\ UNCHANGED <<disk, rows, promised, cut, stuck, undone>>
        /\ asked' = asked \/ (d \in DOMAIN rows /\ asked' = asked \cup {d})
    BY <1>4 DEF DeleteLoad, Found
  <2>b. \A s \in Requests : Storing(s)' => Storing(s) /\ req'[s].doc = req[s].doc
    <3>1. req \in [Requests -> Waiting \cup Stores \cup Deletes]
      BY DEF DInv
    <3>2. PICK next : next.pc # "store" /\ req' = [req EXCEPT ![r] = next]
      BY <1>4, <3>1 DEF DeleteLoad
    <3> QED
      BY <3>1, <3>2
  <2>2. StoresAlone'
    <3>1. SUFFICES ASSUME NEW s \in Requests, Storing(s)'
                   PROVE  /\ req'[s].doc \in disk'
                          /\ req'[s].doc \notin promised' \cup asked' \cup cut' \cup DOMAIN rows'
                          /\ \A u \in Requests : Storing(u)' /\ req'[u].doc = req'[s].doc => u = s
      BY DEF StoresAlone
    <3>2. Storing(s) /\ req'[s].doc = req[s].doc
      BY <2>b, <3>1
    <3>3. /\ req[s].doc \in disk
          /\ req[s].doc \notin promised \cup asked \cup cut \cup DOMAIN rows
          /\ \A u \in Requests : Storing(u) /\ req[u].doc = req[s].doc => u = s
      BY <3>2 DEF DInv, StoresAlone
    <3> QED
      BY <2>a, <2>b, <3>2, <3>3
  <2>3. DeletesAsked'
    BY <1>4 DEF DInv, DeleteLoad, DeletesAsked
  <2>4. RepliesAsked'
    BY <1>4 DEF DInv, DeleteLoad, RepliesAsked
  <2>5. AnswersKept'
    BY <1>4 DEF DInv, DeleteLoad, AnswersKept
  <2>6. StraysExplained'
    <3>1. req[r].pc = "idle" /\ \A s \in Requests : s # r => req'[s] = req[s]
      BY <1>4 DEF DInv, Typed, DeleteLoad, Finish
    <3>2. \A s \in Requests : req[s].pc \in {"store", "commit"} => req'[s] = req[s]
      BY <3>1
    <3> QED
      BY <2>a, <3>2 DEF DInv, StraysExplained
  <2> QED
    BY <2>1, <2>2, <2>3, <2>4, <2>5, <2>6 DEF DInv
<1>5. ASSUME NEW r \in Requests, DeleteUnlink(r)
      PROVE DInv'
  <2>1. Typed'
    BY <1>5 DEF DInv, DeleteUnlink
  <2>2. StoresAlone'
    BY <1>5 DEF DInv, DeleteUnlink, StoresAlone, DeletesAsked
  <2>3. DeletesAsked'
    BY <1>5 DEF DInv, DeleteUnlink, DeletesAsked
  <2>4. RepliesAsked'
    BY <1>5 DEF DInv, DeleteUnlink, RepliesAsked
  <2>5. AnswersKept'
    BY <1>5 DEF DInv, DeleteUnlink, AnswersKept, DeletesAsked
  <2>6. StraysExplained'
    BY <1>5 DEF DInv, DeleteUnlink, StraysExplained
  <2> QED
    BY <2>1, <2>2, <2>3, <2>4, <2>5, <2>6 DEF DInv
<1>6. ASSUME NEW r \in Requests, UnlinkFails(r)
      PROVE DInv'
  <2>1. Typed'
    BY <1>6 DEF DInv, UnlinkFails
  <2>2. StoresAlone'
    BY <1>6 DEF DInv, UnlinkFails, StoresAlone
  <2>3. DeletesAsked'
    BY <1>6 DEF DInv, UnlinkFails, DeletesAsked
  <2>4. RepliesAsked'
    BY <1>6 DEF DInv, UnlinkFails, RepliesAsked
  <2>5. AnswersKept'
    BY <1>6 DEF DInv, UnlinkFails, AnswersKept
  <2>6. StraysExplained'
    BY <1>6 DEF DInv, UnlinkFails, StraysExplained
  <2> QED
    BY <2>1, <2>2, <2>3, <2>4, <2>5, <2>6 DEF DInv
<1>7. ASSUME NEW r \in Requests, DeleteCommit(r)
      PROVE DInv'
  <2>1. Typed'
    BY <1>7 DEF DInv, DeleteCommit
  <2>2. StoresAlone'
    BY <1>7 DEF DInv, DeleteCommit, StoresAlone
  <2>3. DeletesAsked'
    BY <1>7 DEF DInv, DeleteCommit, DeletesAsked
  <2>4. RepliesAsked'
    BY <1>7 DEF DInv, DeleteCommit, RepliesAsked, DeletesAsked
  <2>5. AnswersKept'
    BY <1>7 DEF DInv, DeleteCommit, AnswersKept, DeletesAsked
  <2>6. StraysExplained'
    BY <1>7 DEF DInv, DeleteCommit, StraysExplained, DeletesAsked
  <2> QED
    BY <2>1, <2>2, <2>3, <2>4, <2>5, <2>6 DEF DInv
<1>8. ASSUME NEW r \in Requests, DeleteFails(r)
      PROVE DInv'
  <2>1. Typed'
    BY <1>8 DEF DInv, DeleteFails
  <2>2. StoresAlone'
    BY <1>8 DEF DInv, DeleteFails, StoresAlone
  <2>3. DeletesAsked'
    BY <1>8 DEF DInv, DeleteFails, DeletesAsked
  <2>4. RepliesAsked'
    BY <1>8 DEF DInv, DeleteFails, RepliesAsked
  <2>5. AnswersKept'
    BY <1>8 DEF DInv, DeleteFails, AnswersKept
  <2>6. StraysExplained'
    BY <1>8 DEF DInv, DeleteFails, StraysExplained
  <2> QED
    BY <2>1, <2>2, <2>3, <2>4, <2>5, <2>6 DEF DInv
<1>9. CASE Crash
  <2>1. Typed'
    BY <1>9 DEF DInv, Crash
  <2>2. StoresAlone' /\ DeletesAsked' /\ RepliesAsked'
    BY <1>9 DEF DInv, Crash, StoresAlone, DeletesAsked, RepliesAsked
  <2>3. AnswersKept'
    BY <1>9 DEF DInv, Crash, AnswersKept
  <2>4. StraysExplained'
    BY <1>9 DEF DInv, Crash, StraysExplained
  <2> QED
    BY <2>1, <2>2, <2>3, <2>4 DEF DInv
\* An answer that concerns no deletion, and a file that is left behind.
<1>10. ASSUME NEW r \in Requests, NEW op \in {"upload", "get"}, NEW code \in Codes,
              NEW d \in Docs \cup {NoDoc}, Answer(r, op, d, code), UNCHANGED req,
              \/ UNCHANGED <<disk, cut>>
              \/ \E x \in Docs : Fresh(x) /\ disk' = disk \cup {x} /\ cut' = cut \cup {x},
              UNCHANGED <<rows, promised, asked, stuck, undone, troubles>>
       PROVE DInv'
  <2>1. Typed'
    BY <1>10 DEF DInv
  <2>2. StoresAlone'
    BY <1>10 DEF DInv, StoresAlone, Fresh
  <2>3. DeletesAsked'
    BY <1>10 DEF DInv, DeletesAsked, Fresh
  <2>4. RepliesAsked'
    BY <1>10 DEF DInv, RepliesAsked
  <2>5. AnswersKept'
    BY <1>10 DEF DInv, AnswersKept, RepliesAsked, Fresh
  <2>6. StraysExplained'
    BY <1>10 DEF DInv, StraysExplained, Fresh
  <2> QED
    BY <2>1, <2>2, <2>3, <2>4, <2>5, <2>6 DEF DInv
<1>11. CASE UNCHANGED vars
  BY <1>11 DEF vars, DInv, StoresAlone, DeletesAsked, RepliesAsked, AnswersKept, StraysExplained
\* Each action is one of these steps.
<1>12. ASSUME NEW r \in Requests, NEW d \in Docs, Upload(r, d)
       PROVE DInv'
  <2>1. PICK kind \in Readable \cup {"other"}, size \in {"empty", "fits", "large"},
             declared \in BOOLEAN, text \in {"some", "none"}, event \in {"none", "known", "missing"} :
          IF Refusal(kind, size, declared) # 0
          THEN /\ Answer(r, "upload", NoDoc, Refusal(kind, size, declared))
               /\ UNCHANGED <<disk, rows, req, histories, troubles>>
          ELSE Accept(r, d, kind, text, event)
    BY <1>12 DEF Upload
  <2>2. CASE Refusal(kind, size, declared) # 0
    <3>1. Refusal(kind, size, declared) \in Codes
      BY DEF Refusal
    <3> QED
      BY <2>1, <2>2, <3>1, <1>10
  <2>3. CASE Refusal(kind, size, declared) = 0
    <3>1. kind \in Kinds
      BY <2>3 DEF Refusal, Kinds
    <3> QED
      BY <1>1, <1>12, <2>1, <2>3, <3>1 DEF Upload
  <2> QED
    BY <2>2, <2>3
<1>13. ASSUME NEW r \in Requests, NEW d \in Docs, UploadUnparsable(r, d)
       PROVE DInv'
  <2>1. /\ Answer(r, "upload", NoDoc, 422) /\ UNCHANGED req
        /\ Fresh(d) /\ disk' = disk \cup {d} /\ cut' = cut \cup {d}
        /\ UNCHANGED <<rows, promised, asked, stuck, undone, troubles>>
    BY <1>13 DEF UploadUnparsable
  <2> HIDE DEF Answer
  <2> QED
    BY <1>10, <2>1
<1>14. ASSUME NEW r \in Requests, NEW d \in Docs, VisionAnalyze(r, d) \/ VisionOcr(r, d)
       PROVE DInv'
  BY <1>1, <1>14 DEF VisionAnalyze, VisionOcr, AnalyzedTexts, OcrTexts, Kinds
<1>15. ASSUME NEW r \in Requests, ImageEmpty(r)
       PROVE DInv'
  <2>1. /\ Answer(r, "upload", NoDoc, 400) /\ UNCHANGED req
        /\ UNCHANGED <<disk, cut, rows, promised, asked, stuck, undone, troubles>>
    BY <1>15 DEF ImageEmpty
  <2> HIDE DEF Answer
  <2> QED
    BY <1>10, <2>1
<1>16. ASSUME NEW r \in Requests, NEW d \in Docs, Get(r, d)
       PROVE DInv'
  <2>1. PICK code \in {200, 404} : Answer(r, "get", d, code)
    BY <1>16 DEF Get
  <2>2. UNCHANGED <<req, disk, cut, rows, promised, asked, stuck, undone, troubles>>
    BY <1>16 DEF Get
  <2> HIDE DEF Answer
  <2> QED
    BY <1>10, <2>1, <2>2
<1> QED
  BY <1>2, <1>3, <1>4, <1>5, <1>6, <1>7, <1>8, <1>9, <1>11, <1>12, <1>13, <1>14, <1>15, <1>16
     DEF Next

-----------------------------------------------------------------------------
\* What the requests may rely on holds in every state.
LEMMA DocumentsCorrect == Spec => []DInv
<1>1. DInv /\ [][Next]_vars => []DInv
  BY DocumentsNext, PTL
<1> QED
  BY <1>1, DocumentsInit, PTL DEF Spec

\* The files, rows and requests of the document endpoints (main.py) keep their types,
\* whichever requests overlap, fail or are cut short by a crash.
THEOREM DocumentsTypeCorrect == Spec => []TypeOK
<1>1. DInv => TypeOK
  BY DEF DInv, Typed
<1> QED
  BY <1>1, DocumentsCorrect, PTL

\* What upload_document and delete_document answered stays true, whatever overlaps, fails
\* or crashes: a stored document has its file and row until somebody asks to delete it,
\* and a deleted one has no row, nor a file unless the disk refused.
THEOREM DocumentAnswersKept == Spec => []AnswersKept
<1>1. DInv => AnswersKept
  BY DEF DInv
<1> QED
  BY <1>1, DocumentsCorrect, PTL

\* A file without its row or a row without its file (delete_document unlinks before it
\* commits, the upload writes before it inserts) has a failure, a crash or a request
\* under way to explain it.
THEOREM DocumentStraysExplained == Spec => []StraysExplained
<1>1. DInv => StraysExplained
  BY DEF DInv
<1> QED
  BY <1>1, DocumentsCorrect, PTL

-----------------------------------------------------------------------------
(* The inductive invariant of Weather. *)

PlaceRow == [code : Villages, enabled : BOOLEAN]
ForecastKey == Villages \X (0 .. MaxIssue + 1)
WriterPcs == {"seed", "seeding", "sync", "syncing", "idle", "cycle", "label", "commit",
              "new", "find", "enable", "create", "200", "404", "500", "502"}
Writer == [pc : WriterPcs, code : Villages \cup {None}, issue : 0 .. MaxIssue,
           seen : SUBSET (Villages \cup ForecastKey)]

PlacesTyped == places \in Seq(PlaceRow) /\ UniqueKey(places)
ForecastsTyped ==
    /\ forecasts \in [DOMAIN forecasts -> 0 .. issue]
    /\ DOMAIN forecasts \subseteq ForecastKey
WritersTyped ==
    /\ w \in [Writers -> Writer]
    /\ \A p \in Writers : /\ w[p].issue <= issue
                          /\ Holding(p) => w[p].code \in Villages
    /\ crossed \in [Writers -> SUBSET ForecastKey]
BoundsTyped ==
    /\ issue \in 0 .. MaxIssue /\ mishaps \in 0 .. MaxMishaps
    /\ todo \in Seq(Villages)

\* Start-up inserts or has seen every location of the watchlist, and a request
\* has found the location it switches on.
WatchlistSeen ==
    /\ \A p \in Writers : w[p].pc = "enable" => w[p].code \in Known
    /\ w["loop"].pc = "syncing" => w["loop"].seen \subseteq Known
    /\ Booted => ToSet(Fixtures) \subseteq Known

\* A row newer than what a writer has fetched was written after its fetch.
NewerCrossed ==
    \A p \in Writers : Holding(p) =>
        \A k \in Rows(p) \cap DOMAIN forecasts :
            forecasts[k] > w[p].issue => k \in crossed[p]

AnswersBacked ==
    \A a \in answers :
        /\ a \in Villages \X Nat
        /\ \A k \in {a[1]} \X Slots(a[2]) :
              k \in DOMAIN forecasts /\ (forecasts[k] >= a[2] \/ k \in torn)

WInv ==
    /\ PlacesTyped /\ ForecastsTyped /\ WritersTyped /\ BoundsTyped
    /\ WatchlistSeen /\ NewerCrossed /\ AnswersBacked

(* Induction is replaced by least counterexamples. *)

SmallerPair == {pair \in Nat \X Nat : pair[1] < pair[2]}

\* A nonempty set of naturals has a least element.
LEMMA LeastElement ==
  ASSUME NEW numbers \in SUBSET Nat, numbers # {}
  PROVE  \E least \in numbers : \A n \in numbers : least <= n
<1>1. IsWellFoundedOn(SmallerPair, Nat)
  BY NatLessThanWellFounded DEF OpToRel, SmallerPair
<1>2. PICK x \in numbers : \A y \in numbers : ~ (<<y, x>> \in SmallerPair)
  BY <1>1, WFMin, Zenon
<1>3. \A y \in numbers : ~(y < x)
  BY <1>2 DEF SmallerPair
<1> QED
  BY <1>3

-----------------------------------------------------------------------------
(* What a sequence has at some of its places. *)

\* Kept lists what is at these places, all of it and nothing else.
LEMMA KeptType ==
  ASSUME NEW S, NEW s \in Seq(S), NEW spots \in SUBSET DOMAIN s
  PROVE  /\ Kept(s, spots) \in Seq(S)
         /\ \A k \in DOMAIN Kept(s, spots) : \E i \in spots : Kept(s, spots)[k] = s[i]
         /\ \A i \in spots : \E k \in DOMAIN Kept(s, spots) : Kept(s, spots)[k] = s[i]
<1> DEFINE n == Len(s)
           UpTo(m) == {j \in spots : j <= m}
<1>1. n \in Nat /\ DOMAIN s = 1 .. n
  BY LenProperties
<1>2. IsFiniteSet(spots) /\ Cardinality(spots) \in Nat
  <2>1. IsFiniteSet(1 .. n)
    BY <1>1, FS_Interval
  <2> QED
    BY <1>1, <2>1, FS_Subset, FS_CardinalityType
<1>3. ASSUME NEW m \in Int PROVE IsFiniteSet(UpTo(m)) /\ Cardinality(UpTo(m)) \in Nat
  <2>1. UpTo(m) \in SUBSET spots
    OBVIOUS
  <2> QED
    BY <1>2, <2>1, FS_Subset, FS_CardinalityType
<1>4. UpTo(0) = {} /\ UpTo(n) = spots
  BY <1>1
<1>5. ASSUME NEW m \in Int
      PROVE  /\ m \notin spots => UpTo(m) = UpTo(m - 1)
             /\ m \in spots => UpTo(m) = UpTo(m - 1) \cup {m} /\ m \notin UpTo(m - 1)
  <2>1. \A j \in spots : j \in Int /\ (j <= m <=> j = m \/ j <= m - 1)
    BY <1>1
  <2> QED
    BY <2>1
<1> HIDE DEF UpTo
<1>7. ASSUME NEW k \in 1 .. Cardinality(spots)
      PROVE  \E i \in spots : Cardinality(UpTo(i)) = k
  <2> DEFINE Enough == {m \in Nat : Cardinality(UpTo(m)) >= k}
  <2>1. Enough \in SUBSET Nat /\ n \in Enough
    BY <1>1, <1>2, <1>4, <1>7
  <2>2. PICK m \in Enough : \A l \in Enough : m <= l
    <3> HIDE DEF Enough
    <3> QED
      BY <2>1, LeastElement
  <2>3. m \in Nat /\ Cardinality(UpTo(m)) >= k /\ Cardinality(UpTo(m)) \in Nat
    BY <1>3
  <2>4. m # 0
    <3>1. Cardinality(UpTo(0)) = 0
      BY <1>4, FS_EmptySet
    <3> QED
      BY <1>2, <1>7, <2>3, <3>1
  <2>5. m - 1 \in Nat /\ m - 1 \notin Enough
    BY <2>1, <2>2, <2>3, <2>4
  <2>6. Cardinality(UpTo(m - 1)) \in Nat /\ Cardinality(UpTo(m - 1)) < k
    <3>1. Cardinality(UpTo(m - 1)) \in Nat
      BY <1>3, <2>5
    <3>2. ~(Cardinality(UpTo(m - 1)) >= k)
      BY <2>5
    <3>3. k \in Int
      BY <1>2, <1>7
    <3> QED
      BY <3>1, <3>2, <3>3
  <2>7. m \in spots
    <3>1. SUFFICES ASSUME m \notin spots PROVE FALSE
      OBVIOUS
    <3>2. Cardinality(UpTo(m)) = Cardinality(UpTo(m - 1))
      BY <1>5, <2>3, <3>1
    <3>3. k \in Int
      BY <1>2, <1>7
    <3> QED
      BY <2>3, <2>6, <3>2, <3>3
  <2>8. Cardinality(UpTo(m)) = Cardinality(UpTo(m - 1)) + 1
    <3>1. UpTo(m) = UpTo(m - 1) \cup {m} /\ m \notin UpTo(m - 1)
      BY <1>5, <2>3, <2>7
    <3>2. IsFiniteSet(UpTo(m - 1))
      BY <1>3, <2>5
    <3>3. Cardinality(UpTo(m - 1) \cup {m}) = Cardinality(UpTo(m - 1)) + 1
      BY <3>1, <3>2, FS_AddElement
    <3> QED
      BY <3>1, <3>3
  <2>9. Cardinality(UpTo(m)) = k
    <3>1. k \in Int
      BY <1>2, <1>7
    <3> QED
      BY <2>3, <2>6, <2>8, <3>1
  <2> QED
    BY <2>7, <2>9
<1> DEFINE PlaceOf(k) == CHOOSE i \in spots : Cardinality(UpTo(i)) = k
<1>9. \A k \in 1 .. Cardinality(spots) : PlaceOf(k) \in spots /\ Cardinality(UpTo(PlaceOf(k))) = k
  <2>1. \A k \in 1 .. Cardinality(spots) : \E i \in spots : Cardinality(UpTo(i)) = k
    BY <1>7
  <2>2. \A k \in 1 .. Cardinality(spots) : PlaceOf(k) \in spots /\ Cardinality(UpTo(PlaceOf(k))) = k
    BY <2>1
  <2> HIDE DEF PlaceOf
  <2> QED
    BY <2>2
<1>10. Kept(s, spots) = [k \in 1 .. Cardinality(spots) |-> s[PlaceOf(k)]]
  <2>1. Kept(s, spots) = [k \in 1 .. Cardinality(spots) |-> s[PlaceOf(k)]]
    BY DEF Kept, UpTo
  <2> QED
    BY <2>1
<1> HIDE DEF PlaceOf
<1>11. \A i \in spots : s[i] \in S
  BY <1>1, ElementOfSeq
<1>12. Kept(s, spots) \in [1 .. Cardinality(spots) -> S]
  BY <1>9, <1>10, <1>11
<1>13. Kept(s, spots) \in Seq(S)
  BY <1>2, <1>12, SeqDef
<1>14. ASSUME NEW i \in spots PROVE \E k \in DOMAIN Kept(s, spots) : Kept(s, spots)[k] = s[i]
  <2> DEFINE k == Cardinality(UpTo(i))
  <2>1. i \in Int /\ i <= n
    BY <1>1, <1>14
  <2>2. k \in Nat /\ IsFiniteSet(UpTo(i))
    BY <1>3, <2>1
  <2>3. k <= Cardinality(spots)
    <3>1. UpTo(i) \in SUBSET spots
      BY DEF UpTo
    <3> QED
      BY <1>2, <3>1, FS_Subset
  <2>4. k # 0
    <3>1. i \in UpTo(i)
      BY <2>1, <1>14 DEF UpTo
    <3> QED
      BY <2>2, <3>1, FS_EmptySet
  <2>5. k \in 1 .. Cardinality(spots)
    BY <1>2, <2>2, <2>3, <2>4
  <2>6. PlaceOf(k) \in spots /\ Cardinality(UpTo(PlaceOf(k))) = k
    BY <1>9, <2>5
  <2> DEFINE j == PlaceOf(k)
  <2> HIDE DEF j
  <2>7. j \in spots /\ j \in Int /\ Cardinality(UpTo(j)) = k
    BY <1>1, <2>6 DEF j
  <2>8. ASSUME NEW x \in spots, NEW y \in spots, x < y, Cardinality(UpTo(x)) = k,
               Cardinality(UpTo(y)) = k
        PROVE  FALSE
    <3>1. x \in Int /\ y \in Int
      BY <1>1
    <3>2. /\ UpTo(x) \cup {y} \in SUBSET UpTo(y) /\ y \notin UpTo(x)
      BY <2>8, <3>1, <1>1 DEF UpTo
    <3>3. IsFiniteSet(UpTo(x)) /\ IsFiniteSet(UpTo(y))
      BY <1>3, <3>1
    <3>4. Cardinality(UpTo(x) \cup {y}) = k + 1
      BY <2>8, <3>2, <3>3, FS_AddElement
    <3>5. Cardinality(UpTo(x) \cup {y}) <= Cardinality(UpTo(y))
      BY <3>2, <3>3, FS_Subset
    <3> HIDE DEF k
    <3> QED
      BY <2>2, <2>8, <3>4, <3>5
  <2>9. j = i
    BY <2>1, <2>7, <2>8, <1>14
  <2>10. Kept(s, spots)[k] = s[PlaceOf(k)] /\ k \in DOMAIN Kept(s, spots)
    BY <1>10, <2>5
  <2> QED
    BY <2>9, <2>10 DEF j
<1> QED
  BY <1>9, <1>10, <1>13, <1>14

-----------------------------------------------------------------------------
(* What the steps do to one variable. *)

LEMMA WriterGoes ==
  ASSUME WritersTyped, NEW p \in Writers, NEW pc \in WriterPcs, Go(p, pc)
  PROVE  /\ w' \in [Writers -> Writer]
         /\ w'[p].pc = pc /\ w'[p].code = w[p].code /\ w'[p].issue = w[p].issue
         /\ w'[p].seen = w[p].seen
         /\ \A q \in Writers : q # p => w'[q] = w[q]
<1>1. w \in [Writers -> Writer] /\ w' = [w EXCEPT ![p].pc = pc]
  BY DEF WritersTyped, Go
<1>2. PICK r \in Writer : r = w[p]
  BY <1>1
<1>3. /\ [r EXCEPT !.pc = pc] \in Writer /\ [r EXCEPT !.pc = pc].pc = pc
      /\ [r EXCEPT !.pc = pc].code = r.code /\ [r EXCEPT !.pc = pc].issue = r.issue
      /\ [r EXCEPT !.pc = pc].seen = r.seen
  BY DEF Writer
<1>4. w' = [w EXCEPT ![p] = [r EXCEPT !.pc = pc]]
  BY <1>1, <1>2
<1> QED
  BY <1>1, <1>2, <1>3, <1>4

LEMMA WriterStops ==
  ASSUME WritersTyped, NEW p \in Writers, NEW pc \in WriterPcs, Stop(p, pc),
         MaxIssue \in Nat
  PROVE  /\ w' \in [Writers -> Writer] /\ w'[p] = Quiet(pc)
         /\ \A q \in Writers : q # p => w'[q] = w[q]
<1>1. w \in [Writers -> Writer] /\ w' = [w EXCEPT ![p] = Quiet(pc)]
  BY DEF WritersTyped, Stop
<1>2. Quiet(pc) \in Writer
  BY DEF Quiet, Writer
<1> HIDE DEF Quiet
<1> QED
  BY <1>1, <1>2

Looks(p, pc, seen) == w' = [w EXCEPT ![p].pc = pc, ![p].seen = seen]

LEMMA WriterLooks ==
  ASSUME WritersTyped, NEW p \in Writers, NEW pc \in WriterPcs,
         NEW seen, seen \subseteq Villages \cup ForecastKey,
         Looks(p, pc, seen)
  PROVE  /\ w' \in [Writers -> Writer]
         /\ w'[p].pc = pc /\ w'[p].code = w[p].code /\ w'[p].issue = w[p].issue
         /\ w'[p].seen = seen
         /\ \A q \in Writers : q # p => w'[q] = w[q]
<1>1. w \in [Writers -> Writer]
  BY DEF WritersTyped
<1>2. PICK r \in Writer : r = w[p]
  BY <1>1
<1> DEFINE s == [pc |-> pc, code |-> r.code, issue |-> r.issue, seen |-> seen]
<1>3. s \in Writer /\ s.pc = pc /\ s.code = r.code /\ s.issue = r.issue /\ s.seen = seen
  BY DEF Writer
<1>4. [r EXCEPT !.pc = pc, !.seen = seen] = s
  <2>1. /\ r \in [pc : WriterPcs, code : {r.code}, issue : {r.issue},
                  seen : SUBSET (Villages \cup ForecastKey)]
    BY DEF Writer
  <2>2. [r EXCEPT !.pc = pc, !.seen = seen]
           \in [pc : {pc}, code : {r.code}, issue : {r.issue}, seen : {seen}]
    BY <2>1
  <2>3. s \in [pc : {pc}, code : {r.code}, issue : {r.issue}, seen : {seen}]
    OBVIOUS
  <2> HIDE DEF s
  <2>4. ASSUME NEW x \in [pc : {pc}, code : {r.code}, issue : {r.issue}, seen : {seen}],
               NEW y \in [pc : {pc}, code : {r.code}, issue : {r.issue}, seen : {seen}]
        PROVE  x = y
    OBVIOUS
  <2> QED
    BY <2>2, <2>3, <2>4
<1>5. w' = [w EXCEPT ![p] = s]
  <2>1. w' = [w EXCEPT ![p] = [w[p] EXCEPT !.pc = pc, !.seen = seen]]
    BY <1>1 DEF Looks
  <2> QED
    BY <1>2, <1>4, <2>1
<1> HIDE DEF s
<1> QED
  BY <1>1, <1>2, <1>3, <1>5

\* A location switched on or off keeps its place and code.
LEMMA PlaceSwitched ==
  ASSUME PlacesTyped, NEW c \in Known, NEW on \in BOOLEAN,
         places' = [places EXCEPT ![Place(c)].enabled = on]
  PROVE  PlacesTyped' /\ Known' = Known
<1>1. Len(places) \in Nat /\ DOMAIN places = 1 .. Len(places)
      /\ places \in [1 .. Len(places) -> PlaceRow]
  BY LenProperties DEF PlacesTyped
<1>2. Place(c) \in DOMAIN places
  BY DEF Known, Place
<1>3. PICK i \in 1 .. Len(places) : i = Place(c)
  BY <1>1, <1>2
<1>4. PICK r \in PlaceRow : r = places[i]
  BY <1>1
<1>5. [r EXCEPT !.enabled = on] \in PlaceRow /\ [r EXCEPT !.enabled = on].code = r.code
  BY DEF PlaceRow
<1>6. places' = [places EXCEPT ![i] = [r EXCEPT !.enabled = on]]
  BY <1>3, <1>4
<1>7. /\ places' \in Seq(PlaceRow) /\ Len(places') = Len(places)
      /\ \A j \in 1 .. Len(places) : places'[j].code = places[j].code
  <2> DEFINE s == [r EXCEPT !.enabled = on]
  <2>1. s \in PlaceRow /\ s.code = places[i].code
    BY <1>4, <1>5
  <2> HIDE DEF s
  <2>2. places' = [places EXCEPT ![i] = s]
    BY <1>6 DEF s
  <2> places \in Seq(PlaceRow)
    BY DEF PlacesTyped
  <2> s \in PlaceRow
    BY <2>1
  <2>4. /\ [places EXCEPT ![i] = s] \in Seq(PlaceRow)
        /\ Len([places EXCEPT ![i] = s]) = Len(places)
        /\ \A j \in 1 .. Len(places) :
              [places EXCEPT ![i] = s][j] = IF j = i THEN s ELSE places[j]
    BY ExceptSeq
  <2>3. /\ places' \in Seq(PlaceRow) /\ Len(places') = Len(places)
        /\ \A j \in 1 .. Len(places) : places'[j] = IF j = i THEN s ELSE places[j]
    BY <2>2, <2>4
  <2> QED
    BY <2>1, <2>3
<1>8. DOMAIN places' = DOMAIN places
  BY <1>1, <1>7, LenProperties
<1>9. PlacesTyped'
  BY <1>1, <1>7, <1>8 DEF PlacesTyped, UniqueKey
<1> QED
  BY <1>1, <1>7, <1>8, <1>9 DEF Known

LEMMA SameToSet == \A s : ToSet(s) = {s[i] : i \in DOMAIN s}
  BY DEF ToSet

\* Rows inserted come after those there are.
LEMMA PlacesInserted ==
  ASSUME PlacesTyped, NEW new \in Seq(Villages)
  PROVE  /\ Inserted(new) \in Seq(PlaceRow)
         /\ {Inserted(new)[i].code : i \in DOMAIN Inserted(new)}
              = Known \cup {new[i] : i \in DOMAIN new}
<1> DEFINE fresh == [i \in DOMAIN new |-> NewPlace(new[i])]
<1>1. /\ Len(places) \in Nat /\ DOMAIN places = 1 .. Len(places)
      /\ Len(new) \in Nat /\ DOMAIN new = 1 .. Len(new)
      /\ new \in [1 .. Len(new) -> Villages]
  BY LenProperties DEF PlacesTyped
<1>2. fresh \in [1 .. Len(new) -> PlaceRow]
  BY <1>1 DEF PlaceRow, NewPlace
<1>3. fresh \in Seq(PlaceRow)
  BY <1>1, <1>2, SeqDef
<1>4. \A i \in 1 .. Len(new) : fresh[i].code = new[i]
  BY <1>1 DEF NewPlace
<1>5. DOMAIN fresh = 1 .. Len(new)
  BY <1>1
<1> HIDE DEF fresh
<1>6. Len(fresh) = Len(new)
  BY <1>1, <1>3, <1>5, LenProperties
<1>7. Inserted(new) = places \o fresh
  BY DEF Inserted, fresh
<1>8. /\ places \o fresh \in Seq(PlaceRow)
      /\ Len(places \o fresh) = Len(places) + Len(new)
      /\ \A i \in 1 .. Len(places) + Len(new) :
            (places \o fresh)[i] = IF i <= Len(places) THEN places[i] ELSE fresh[i - Len(places)]
  <2> places \in Seq(PlaceRow) /\ fresh \in Seq(PlaceRow)
    BY <1>3 DEF PlacesTyped
  <2>1. /\ places \o fresh \in Seq(PlaceRow)
        /\ Len(places \o fresh) = Len(places) + Len(fresh)
        /\ \A i \in 1 .. Len(places) + Len(fresh) :
              (places \o fresh)[i] = IF i <= Len(places) THEN places[i] ELSE fresh[i - Len(places)]
    BY ConcatProperties
  <2> QED
    BY <1>6, <2>1
<1> DEFINE all == places \o fresh
<1> HIDE DEF all
<1>9. DOMAIN all = 1 .. Len(places) + Len(new)
  BY <1>8, LenProperties DEF all
<1>10. ASSUME NEW i \in DOMAIN all
       PROVE  all[i].code \in Known \cup {new[j] : j \in DOMAIN new}
  <2>1. CASE i <= Len(places)
    <3>1. i \in DOMAIN places /\ all[i] = places[i]
      BY <1>1, <1>8, <1>9, <2>1 DEF all
    <3> QED
      BY <3>1 DEF Known
  <2>2. CASE ~(i <= Len(places))
    <3>1. i - Len(places) \in DOMAIN new /\ all[i] = fresh[i - Len(places)]
      BY <1>1, <1>8, <1>9, <2>2 DEF all
    <3> QED
      BY <1>1, <1>4, <3>1
  <2> QED
    BY <2>1, <2>2
<1>11. ASSUME NEW c \in Known PROVE \E i \in DOMAIN all : all[i].code = c
  <2>1. PICK i \in DOMAIN places : places[i].code = c
    BY DEF Known
  <2>2. i \in DOMAIN all /\ all[i] = places[i]
    BY <1>1, <1>8, <1>9 DEF all
  <2> QED
    BY <2>1, <2>2
<1>12. ASSUME NEW j \in DOMAIN new PROVE \E i \in DOMAIN all : all[i].code = new[j]
  <2>1. /\ j + Len(places) \in 1 .. Len(places) + Len(new)
        /\ ~(j + Len(places) <= Len(places)) /\ (j + Len(places)) - Len(places) = j
    BY <1>1
  <2>2. all[j + Len(places)] = fresh[j]
    BY <1>8, <2>1 DEF all
  <2> QED
    BY <1>1, <1>4, <1>9, <2>1, <2>2
<1>13. {all[i].code : i \in DOMAIN all} = Known \cup {new[i] : i \in DOMAIN new}
  BY <1>10, <1>11, <1>12
<1>14. Inserted(new) = all /\ all \in Seq(PlaceRow)
  BY <1>7, <1>8 DEF all
<1> QED
  BY <1>13, <1>14

-----------------------------------------------------------------------------
(* Steps that write neither forecasts nor answers. *)

LEMMA LoopWrites == "loop" \in Writers /\ \A q \in Queries : q \in Writers
  BY DEF Writers

LEMMA KnownCodes == ASSUME PlacesTyped PROVE Known \subseteq Villages
<1>1. places \in [1 .. Len(places) -> PlaceRow]
  BY LenProperties DEF PlacesTyped
<1> QED
  BY <1>1 DEF Known, PlaceRow

\* The locations are what the loop has to know once it is not starting up.
LEMMA WatchlistKept ==
  ASSUME WatchlistSeen, Known \subseteq Known', w'["loop"] = w["loop"],
         \A p \in Writers : w'[p].pc = "enable" => w'[p].code \in Known'
  PROVE  WatchlistSeen'
  BY DEF WatchlistSeen, Booted

LEMMA QuietStep ==
  ASSUME WInv, UNCHANGED <<forecasts, crossed, answers, torn>>,
         PlacesTyped', WatchlistSeen', BoundsTyped', issue <= issue',
         w' \in [Writers -> Writer],
         \A p \in Writers :
            \/ w'[p] = w[p]
            \/ ~Holding(p)' /\ w'[p].issue <= issue
            \/ Holding(p) /\ w'[p].code = w[p].code /\ w'[p].issue = w[p].issue
  PROVE  WInv'
<1>1. issue \in Int /\ issue' \in Int
  BY DEF WInv, BoundsTyped
<1>2. ForecastsTyped'
  BY <1>1 DEF WInv, ForecastsTyped
<1>3. \A p \in Writers : /\ w[p].issue \in Int /\ w'[p].issue \in Int
                         /\ w[p].issue <= issue
  BY DEF WInv, WritersTyped, Writer
<1>4. \A p \in Writers : Holding(p)' =>
         Holding(p) /\ w'[p].code = w[p].code /\ w'[p].issue = w[p].issue
  BY DEF Holding
<1>5. \A p \in Writers : w'[p].issue <= issue
  BY <1>3
<1>6. \A p \in Writers : w'[p].issue <= issue'
  BY <1>1, <1>3, <1>5
<1>7. WritersTyped'
  BY <1>4, <1>6 DEF WInv, WritersTyped
<1>8. NewerCrossed'
  <2>1. \A p \in Writers : Holding(p)' => Rows(p)' = Rows(p)
    BY <1>4 DEF Rows
  <2> QED
    BY <1>4, <2>1 DEF WInv, NewerCrossed
<1>9. AnswersBacked'
  BY DEF WInv, AnswersBacked
<1> QED
  BY <1>2, <1>7, <1>8, <1>9 DEF WInv

LEMMA LookInv ==
  ASSUME WInv, SeedLook \/ SyncLook
  PROVE  WInv'
<1>1. PICK pc \in {"seeding", "syncing"} :
         /\ w["loop"].pc \in {"seed", "sync"}
         /\ w' = [w EXCEPT !["loop"].pc = pc, !["loop"].seen = Known]
         /\ UNCHANGED <<places, forecasts, issue, todo, answers, crossed, torn, mishaps>>
  BY DEF SeedLook, SyncLook, Look, weatherHistories
<1>2. Known \in SUBSET (Villages \cup ForecastKey)
  BY KnownCodes DEF WInv
<1>3. PlacesTyped /\ WritersTyped /\ BoundsTyped
  BY DEF WInv
<1>4. /\ w' \in [Writers -> Writer]
      /\ w'["loop"].pc = pc /\ w'["loop"].issue = w["loop"].issue
      /\ w'["loop"].seen = Known
      /\ \A q \in Writers : q # "loop" => w'[q] = w[q]
  <2> DEFINE seen == Known
  <2> HIDE DEF seen
  <2>1. w' = [w EXCEPT !["loop"].pc = pc, !["loop"].seen = seen]
    BY <1>1 DEF seen
  <2>2. seen \in SUBSET (Villages \cup ForecastKey) /\ pc \in WriterPcs
    BY <1>2 DEF seen, WriterPcs
  <2>3. /\ w' \in [Writers -> Writer]
        /\ w'["loop"].pc = pc /\ w'["loop"].issue = w["loop"].issue
        /\ w'["loop"].seen = seen
        /\ \A q \in Writers : q # "loop" => w'[q] = w[q]
    <3>1. PICK p \in Writers : p = "loop"
      BY LoopWrites
    <3> pc \in WriterPcs
      BY <2>2
    <3>4. seen \subseteq Villages \cup ForecastKey
      BY <2>2
    <3>2. Looks(p, pc, seen)
      BY <2>1, <3>1 DEF Looks
    <3>3. /\ w' \in [Writers -> Writer]
          /\ w'[p].pc = pc /\ w'[p].issue = w[p].issue /\ w'[p].seen = seen
          /\ \A q \in Writers : q # p => w'[q] = w[q]
      BY <1>3, <3>2, <3>4, WriterLooks
    <3> QED
      BY <3>1, <3>3
  <2> QED
    BY <2>3 DEF seen
<1>5. PlacesTyped' /\ Known' = Known /\ BoundsTyped' /\ issue' = issue
  BY <1>1, <1>3 DEF PlacesTyped, UniqueKey, Known, BoundsTyped
<1>6. WatchlistSeen'
  BY <1>1, <1>4, <1>5 DEF WInv, WatchlistSeen, Booted
<1>7. \A p \in Writers : \/ w'[p] = w[p]
                         \/ ~Holding(p)' /\ w'[p].issue <= issue
  BY <1>3, <1>4 DEF Holding, WritersTyped
<1>8. issue <= issue'
  BY <1>3, <1>5 DEF BoundsTyped
<1> QED
  BY <1>1, <1>4, <1>5, <1>6, <1>7, <1>8, QuietStep

\* A stop of the loop: its writer holds nothing afterwards.
LEMMA LoopStops ==
  ASSUME WInv, MaxIssue \in Nat, NEW pc \in {"seed", "sync", "idle", "cycle"}, Stop("loop", pc),
         UNCHANGED <<forecasts, crossed, answers, torn, issue>>,
         PlacesTyped', BoundsTyped', Known \subseteq Known',
         pc \in {"idle", "cycle"} => ToSet(Fixtures) \subseteq Known'
  PROVE  WInv'
<1>1. WritersTyped /\ pc \in WriterPcs /\ issue \in Nat
  BY DEF WInv, WriterPcs, BoundsTyped
<1>2. /\ w' \in [Writers -> Writer] /\ w'["loop"] = Quiet(pc)
      /\ \A q \in Writers : q # "loop" => w'[q] = w[q]
  BY <1>1, LoopWrites, WriterStops
<1>3. WatchlistSeen'
  BY <1>2 DEF WInv, WatchlistSeen, Booted, Quiet
<1>4. \A p \in Writers : \/ w'[p] = w[p]
                         \/ ~Holding(p)' /\ w'[p].issue <= issue
  BY <1>1, <1>2 DEF Holding, Quiet
<1>5. issue <= issue'
  BY <1>1
<1> QED
  BY <1>2, <1>3, <1>4, <1>5, QuietStep

LEMMA CodesOfFixtures ==
  Fixtures \in Seq(Villages) /\ DOMAIN Fixtures = 1 .. Len(Fixtures) /\ Len(Fixtures) \in Nat
<1>1. /\ Fixtures \in [1 .. Len(Fixtures) -> ToSet(Fixtures)] /\ Len(Fixtures) \in Nat
      /\ DOMAIN Fixtures = 1 .. Len(Fixtures)
  BY LenProperties, WeatherConstants
<1>2. Fixtures \in [1 .. Len(Fixtures) -> Villages]
  BY <1>1 DEF Villages
<1> QED
  BY <1>1, <1>2, SeqDef

\* What start-up inserts is of the watchlist, and all of it that it has not seen.
LEMMA ToSyncCovers ==
  ASSUME NEW seen
  PROVE  /\ ToSync(seen) \in Seq(Villages)
         /\ \A i \in DOMAIN Fixtures : Fixtures[i] \in seen
               \/ \E k \in DOMAIN ToSync(seen) : ToSync(seen)[k] = Fixtures[i]
<1> DEFINE spots == {n \in DOMAIN Fixtures :
                    /\ Fixtures[n] \notin seen
                    /\ \A m \in DOMAIN Fixtures : m < n => Fixtures[m] # Fixtures[n]}
<1>1. ToSync(seen) = Kept(Fixtures, spots)
  BY DEF ToSync
<1>2. Fixtures \in Seq(Villages) /\ DOMAIN Fixtures \in SUBSET Nat
  BY CodesOfFixtures
<1>3. spots \in SUBSET DOMAIN Fixtures
  OBVIOUS
<1>4. ASSUME NEW i \in DOMAIN Fixtures, Fixtures[i] \notin seen
      PROVE  \E n \in spots : Fixtures[n] = Fixtures[i]
  <2> DEFINE same == {n \in DOMAIN Fixtures : Fixtures[n] = Fixtures[i]}
  <2>1. same \in SUBSET Nat /\ same # {}
    BY <1>2
  <2>2. PICK n \in same : \A m \in same : n <= m
    <3> HIDE DEF same
    <3> QED
      BY <2>1, LeastElement
  <2>3. n \in DOMAIN Fixtures /\ Fixtures[n] = Fixtures[i]
    OBVIOUS
  <2>4. \A m \in DOMAIN Fixtures : m < n => Fixtures[m] # Fixtures[n]
    BY <1>2, <2>2, <2>3
  <2> QED
    BY <1>4, <2>3, <2>4
<1> HIDE DEF spots
<1>5. /\ Kept(Fixtures, spots) \in Seq(Villages)
      /\ \A i \in spots : \E k \in DOMAIN Kept(Fixtures, spots) :
            Kept(Fixtures, spots)[k] = Fixtures[i]
  BY <1>2, <1>3, KeptType
<1> QED
  BY <1>1, <1>4, <1>5

LEMMA SeedCommitInv ==
  ASSUME WInv, SeedCommit
  PROVE  WInv'
<1> DEFINE new == ToSeed(w["loop"].seen)
<1>1. /\ UNCHANGED <<forecasts, issue, todo, answers, crossed, torn, mishaps>>
      /\ \/ /\ UniqueKey(Inserted(new))
            /\ places' = Inserted(new) /\ Stop("loop", "sync")
         \/ Stop("loop", "seed") /\ UNCHANGED places
  BY DEF SeedCommit, weatherHistories
<1>2. new \in Seq(Villages)
  BY CodesOfFixtures, EmptySeq DEF ToSeed
<1>3. PlacesTyped /\ BoundsTyped' /\ MaxIssue \in Nat
  BY <1>1, WeatherConstants DEF WInv, BoundsTyped
<1> HIDE DEF new
<1>4. CASE UniqueKey(Inserted(new)) /\ places' = Inserted(new) /\ Stop("loop", "sync")
  <2>1. PlacesTyped' /\ Known \subseteq Known'
    <3>1. /\ Inserted(new) \in Seq(PlaceRow)
          /\ {Inserted(new)[i].code : i \in DOMAIN Inserted(new)}
               = Known \cup {new[i] : i \in DOMAIN new}
      BY <1>2, <1>3, PlacesInserted
    <3>2. Known' = {places'[i].code : i \in DOMAIN places'}
      BY DEF Known
    <3>3. PlacesTyped'
      BY <1>4, <3>1 DEF PlacesTyped, UniqueKey
    <3> QED
      BY <1>4, <3>1, <3>2, <3>3
  <2> QED
    BY <1>1, <1>3, <1>4, <2>1, LoopStops
<1>5. CASE Stop("loop", "seed") /\ UNCHANGED places
  <2>1. PlacesTyped' /\ Known' = Known
    BY <1>3, <1>5 DEF PlacesTyped, UniqueKey, Known
  <2> QED
    BY <1>1, <1>3, <1>5, <2>1, LoopStops
<1> QED
  BY <1>1, <1>4, <1>5

LEMMA SyncCommitInv ==
  ASSUME WInv, SyncCommit
  PROVE  WInv'
<1> DEFINE new == ToSync(w["loop"].seen)
           all == Inserted(new)
<1>1. /\ w["loop"].pc = "syncing"
      /\ UNCHANGED <<forecasts, issue, todo, answers, crossed, torn, mishaps>>
      /\ \/ /\ UniqueKey(all)
            /\ places' = SwitchedOn(all) /\ Stop("loop", "idle")
         \/ Stop("loop", "seed") /\ UNCHANGED places
  BY DEF SyncCommit, weatherHistories
<1>2. /\ new \in Seq(Villages)
      /\ \A i \in DOMAIN Fixtures : Fixtures[i] \in w["loop"].seen
               \/ \E k \in DOMAIN new : new[k] = Fixtures[i]
  BY ToSyncCovers
<1>3. PlacesTyped /\ BoundsTyped' /\ MaxIssue \in Nat
  BY <1>1, WeatherConstants DEF WInv, BoundsTyped
<1> HIDE DEF new
<1>4. CASE UniqueKey(all) /\ places' = SwitchedOn(all) /\ Stop("loop", "idle")
  <2>1. /\ all \in Seq(PlaceRow)
        /\ {all[i].code : i \in DOMAIN all} = Known \cup {new[i] : i \in DOMAIN new}
    BY <1>2, <1>3, PlacesInserted
  <2> HIDE DEF all
  <2>2. /\ Len(all) \in Nat /\ DOMAIN all = 1 .. Len(all)
        /\ \A i \in 1 .. Len(all) : all[i] \in PlaceRow
    BY <2>1, LenProperties, ElementOfSeq
  <2> DEFINE on(i) == IF all[i].code \in ToSet(Fixtures)
                      THEN [all[i] EXCEPT !.enabled = TRUE] ELSE all[i]
  <2>3. places' = [i \in 1 .. Len(all) |-> on(i)]
    BY <1>4, <2>2 DEF SwitchedOn
  <2>4. \A i \in 1 .. Len(all) : on(i) \in PlaceRow /\ on(i).code = all[i].code
    BY <2>2 DEF PlaceRow
  <2> HIDE DEF on
  <2>5. /\ places' \in [1 .. Len(all) -> PlaceRow] /\ DOMAIN places' = 1 .. Len(all)
        /\ \A i \in 1 .. Len(all) : places'[i].code = all[i].code
    BY <2>3, <2>4
  <2>6. places' \in Seq(PlaceRow)
    BY <2>2, <2>5, SeqDef
  <2>7. PlacesTyped'
    BY <1>4, <2>2, <2>5, <2>6 DEF PlacesTyped, UniqueKey
  <2>8. Known' = Known \cup {new[i] : i \in DOMAIN new}
    BY <2>1, <2>2, <2>5 DEF Known
  <2>9. ToSet(Fixtures) \subseteq Known'
    <3>1. w["loop"].seen \subseteq Known
      BY <1>1 DEF WInv, WatchlistSeen
    <3> QED
      BY <1>2, <2>8, <3>1, SameToSet
  <2> QED
    BY <1>1, <1>3, <1>4, <2>7, <2>8, <2>9, LoopStops
<1>5. CASE Stop("loop", "seed") /\ UNCHANGED places
  <2>1. PlacesTyped' /\ Known' = Known
    BY <1>3, <1>5 DEF PlacesTyped, UniqueKey, Known
  <2> QED
    BY <1>1, <1>3, <1>5, <2>1, LoopStops
<1> QED
  BY <1>1, <1>4, <1>5

LEMMA CycleInv ==
  ASSUME WInv, CycleBegin \/ CycleEnd
  PROVE  WInv'
<1>1. PICK pc \in {"cycle", "idle"} :
         /\ w["loop"].pc \in {"cycle", "idle"} /\ Go("loop", pc)
         /\ UNCHANGED <<places, forecasts, issue, answers, crossed, torn, mishaps>>
  BY DEF CycleBegin, CycleEnd, weatherHistories
<1>2. PlacesTyped /\ WritersTyped /\ BoundsTyped /\ pc \in WriterPcs
  BY DEF WInv, WriterPcs
<1>3. todo' \in Seq(Villages)
  <2>1. CASE CycleEnd
    BY <1>2, <2>1 DEF CycleEnd, BoundsTyped
  <2>2. CASE CycleBegin
    <3> DEFINE codes == [i \in DOMAIN places |-> places[i].code]
               spots == {i \in DOMAIN places : places[i].enabled}
    <3>1. todo' = Kept(codes, spots)
      BY <2>2 DEF CycleBegin
    <3>2. /\ Len(places) \in Nat /\ DOMAIN places = 1 .. Len(places)
          /\ places \in [1 .. Len(places) -> PlaceRow]
      BY <1>2, LenProperties DEF PlacesTyped
    <3>3. codes \in [1 .. Len(places) -> Villages] /\ DOMAIN codes = DOMAIN places
      BY <3>2 DEF PlaceRow
    <3>4. codes \in Seq(Villages)
      BY <3>2, <3>3, SeqDef
    <3>5. spots \in SUBSET DOMAIN codes
      BY <3>3
    <3> HIDE DEF codes, spots
    <3> QED
      BY <3>1, <3>4, <3>5, KeptType
  <2> QED
    BY <2>1, <2>2
<1>4. /\ w' \in [Writers -> Writer]
      /\ w'["loop"].pc = pc /\ w'["loop"].issue = w["loop"].issue
      /\ \A q \in Writers : q # "loop" => w'[q] = w[q]
  BY <1>1, <1>2, LoopWrites, WriterGoes
<1>5. PlacesTyped' /\ Known' = Known /\ BoundsTyped' /\ issue' = issue
  BY <1>1, <1>2, <1>3 DEF PlacesTyped, UniqueKey, Known, BoundsTyped
<1>6. WatchlistSeen'
  BY <1>1, <1>4, <1>5 DEF WInv, WatchlistSeen, Booted
<1>7. \A p \in Writers : \/ w'[p] = w[p]
                         \/ ~Holding(p)' /\ w'[p].issue <= issue
  BY <1>2, <1>4 DEF Holding, WritersTyped
<1>8. issue <= issue'
  BY <1>2, <1>5 DEF BoundsTyped
<1> QED
  BY <1>1, <1>4, <1>5, <1>6, <1>7, <1>8, QuietStep

LEMMA LoopGivesUp ==
  ASSUME WInv, LoopConflict \/ Restart
  PROVE  WInv'
<1>1. PICK pc \in {"idle", "seed"} :
         /\ Stop("loop", pc) /\ todo' = <<>>
         /\ UNCHANGED <<places, forecasts, issue, answers, crossed, torn>>
         /\ pc = "idle" => w["loop"].pc = "commit"
         /\ mishaps' = mishaps
              \/ (mishaps < MaxMishaps /\ mishaps' = mishaps + 1)
  BY DEF LoopConflict, Restart, weatherHistories, Mishap
<1>2. PlacesTyped /\ BoundsTyped /\ MaxIssue \in Nat /\ MaxMishaps \in Nat
  BY WeatherConstants DEF WInv
<1>3. PlacesTyped' /\ Known' = Known
  BY <1>1, <1>2 DEF PlacesTyped, UniqueKey, Known
<1>4. BoundsTyped'
  <2>1. todo' \in Seq(Villages)
    BY <1>1, EmptySeq
  <2> QED
    BY <1>1, <1>2, <2>1 DEF BoundsTyped
<1>5. pc = "idle" => ToSet(Fixtures) \subseteq Known'
  BY <1>1, <1>3 DEF WInv, WatchlistSeen, Booted
<1> QED
  BY <1>1, <1>2, <1>3, <1>4, <1>5, LoopStops

LEMMA FeedInv ==
  ASSUME WInv,
         LoopFetchFails \/ Publish \/ \E c \in Villages : SwitchOff(c)
  PROVE  WInv'
<1>1. PlacesTyped /\ WritersTyped /\ BoundsTyped /\ MaxIssue \in Nat /\ MaxMishaps \in Nat
  BY WeatherConstants DEF WInv
<1>2. /\ UNCHANGED <<forecasts, w, answers, crossed, torn>>
      /\ issue' = issue \/ (issue < MaxIssue /\ issue' = issue + 1)
      /\ mishaps' = mishaps
           \/ (mishaps < MaxMishaps /\ mishaps' = mishaps + 1)
  BY DEF LoopFetchFails, Publish, SwitchOff, weatherHistories, Mishap
<1>3. todo' \in Seq(Villages)
  <2>1. CASE UNCHANGED todo
    BY <1>1, <2>1 DEF BoundsTyped
  <2>2. CASE todo # <<>> /\ todo' = Tail(todo)
    <3> todo \in Seq(Villages)
      BY <1>1 DEF BoundsTyped
    <3>1. Tail(todo) \in Seq(Villages)
      BY <2>2, HeadTailProperties
    <3> QED
      BY <2>2, <3>1
  <2> QED
    BY <2>1, <2>2 DEF LoopFetchFails, Publish, SwitchOff
<1>4. BoundsTyped' /\ issue <= issue'
  BY <1>1, <1>2, <1>3 DEF BoundsTyped
<1>5. PlacesTyped' /\ Known' = Known
  <2>1. CASE UNCHANGED places
    BY <1>1, <2>1 DEF PlacesTyped, UniqueKey, Known
  <2>2. ASSUME NEW c \in Villages, SwitchOff(c)
        PROVE  PlacesTyped' /\ Known' = Known
    <3>1. c \in Known /\ places' = [places EXCEPT ![Place(c)].enabled = FALSE]
      BY <2>2 DEF SwitchOff, Enabled, Known
    <3> QED
      BY <1>1, <3>1, PlaceSwitched
  <2> QED
    BY <2>1, <2>2 DEF LoopFetchFails, Publish
<1>6. WatchlistSeen'
  <2>1. \A p \in Writers : w[p].pc = "enable" => w[p].code \in Known'
    BY <1>5 DEF WInv, WatchlistSeen
  <2> QED
    BY <1>2, <1>5, <2>1, WatchlistKept DEF WInv
<1>7. w' \in [Writers -> Writer] /\ \A p \in Writers : w'[p] = w[p]
  BY <1>1, <1>2 DEF WritersTyped
<1> QED
  BY <1>2, <1>4, <1>5, <1>6, <1>7, QuietStep

\* A request that neither fetches nor stores.
LEMMA RequestInv ==
  ASSUME WInv, NEW q \in Queries,
         QueryRefused(q) \/ QueryFind(q) \/ QueryEnable(q) \/ QueryCreate(q)
            \/ ApiConflict(q)
  PROVE  WInv'
<1>1. /\ PlacesTyped /\ WritersTyped /\ BoundsTyped /\ WatchlistSeen /\ MaxIssue \in Nat
      /\ q \in Writers /\ q # "loop" /\ "loop" \in Writers
  BY LoopWrites, WeatherConstants DEF WInv
<1>2. UNCHANGED <<forecasts, issue, todo, answers, crossed, torn, mishaps>>
  BY DEF QueryRefused, QueryFind, QueryEnable, QueryCreate, ApiConflict, weatherHistories
<1>3. \/ \E pc \in {"404", "502", "500"} : Stop(q, pc)
      \/ Holding(q) /\ \E pc \in {"enable", "create", "label"} : Go(q, pc)
  BY DEF QueryRefused, QueryFind, QueryEnable, QueryCreate, ApiConflict, Holding
<1>4. /\ w' \in [Writers -> Writer]
      /\ \A p \in Writers : p # q => w'[p] = w[p]
      /\ \/ ~Holding(q)' /\ w'[q].issue <= issue
         \/ Holding(q) /\ w'[q].code = w[q].code /\ w'[q].issue = w[q].issue
  <2>1. CASE \E pc \in {"404", "502", "500"} : Stop(q, pc)
    <3>1. PICK pc \in {"404", "502", "500"} : Stop(q, pc)
      BY <2>1
    <3>2. pc \in WriterPcs
      BY DEF WriterPcs
    <3>3. /\ w' \in [Writers -> Writer] /\ w'[q] = Quiet(pc)
          /\ \A p \in Writers : p # q => w'[p] = w[p]
      BY <1>1, <3>1, <3>2, WriterStops
    <3> QED
      BY <1>1, <3>3 DEF Quiet, Holding, BoundsTyped
  <2>2. CASE Holding(q) /\ \E pc \in {"enable", "create", "label"} : Go(q, pc)
    <3>1. PICK pc \in {"enable", "create", "label"} : Go(q, pc)
      BY <2>2
    <3>2. pc \in WriterPcs
      BY DEF WriterPcs
    <3> QED
      BY <1>1, <2>2, <3>1, <3>2, WriterGoes
  <2> QED
    BY <1>3, <2>1, <2>2
<1>5. PlacesTyped' /\ Known \subseteq Known'
  <2>1. CASE UNCHANGED places
    BY <1>1, <2>1 DEF PlacesTyped, UniqueKey, Known
  <2>2. CASE QueryEnable(q)
    <3>1. places' = [places EXCEPT ![Place(w[q].code)].enabled = TRUE]
      BY <2>2 DEF QueryEnable
    <3>2. w[q].code \in Known
      BY <1>1, <2>2 DEF QueryEnable, WatchlistSeen
    <3> QED
      BY <1>1, <3>1, <3>2, PlaceSwitched
  <2>3. CASE QueryCreate(q) /\ places' # places
    <3> DEFINE c == w[q].code
               place == NewPlace(c)
    <3>1. c \notin Known /\ places' = Append(places, place) /\ Holding(q)
      BY <2>3 DEF QueryCreate, Holding
    <3>2. c \in Villages
      BY <1>1, <3>1 DEF WritersTyped
    <3>3. place \in PlaceRow /\ place.code = c
      BY <3>2 DEF NewPlace, PlaceRow
    <3> HIDE DEF place
    <3> places \in Seq(PlaceRow)
      BY <1>1 DEF PlacesTyped
    <3>4. /\ Len(places) \in Nat /\ DOMAIN places = 1 .. Len(places)
      BY LenProperties
    <3>5. /\ Append(places, place) \in Seq(PlaceRow)
          /\ Len(Append(places, place)) = Len(places) + 1
          /\ \A i \in 1 .. Len(places) : Append(places, place)[i] = places[i]
          /\ Append(places, place)[Len(places) + 1] = place
      BY <3>3, AppendProperties
    <3>6. DOMAIN places' = 1 .. Len(places) + 1
      BY <3>1, <3>5, LenProperties
    <3>7. /\ places' \in Seq(PlaceRow)
          /\ \A i \in 1 .. Len(places) : places'[i] = places[i]
          /\ places'[Len(places) + 1] = place
      BY <3>1, <3>5
    <3>8. \A i \in 1 .. Len(places) : places[i].code # c
      BY <3>1, <3>4 DEF Known
    <3> HIDE DEF c
    <3>9. \A i \in 1 .. Len(places) + 1 : i \in 1 .. Len(places) \/ i = Len(places) + 1
      BY <3>4
    <3>10. UniqueKey(places)
      BY <1>1 DEF PlacesTyped
    <3>11. UniqueKey(places')
      BY <3>3, <3>4, <3>6, <3>7, <3>8, <3>9, <3>10 DEF UniqueKey
    <3>12. \A i \in DOMAIN places : i \in DOMAIN places' /\ places'[i] = places[i]
      BY <3>4, <3>6, <3>7
    <3>13. Known \subseteq Known'
      BY <3>12 DEF Known
    <3> QED
      BY <3>7, <3>11, <3>13 DEF PlacesTyped, UniqueKey
  <2> QED
    BY <2>1, <2>2, <2>3 DEF QueryRefused, QueryFind, QueryCreate, ApiConflict
<1>6. WatchlistSeen'
  <2>1. \A p \in Writers : p # q /\ w'[p].pc = "enable" => w'[p].code \in Known'
    BY <1>1, <1>4, <1>5 DEF WatchlistSeen
  <2>2. w'[q].pc = "enable" => w'[q].code \in Known'
    <3>1. CASE QueryFind(q)
      <4>1. PICK pc \in {"enable", "create"} :
               Go(q, pc) /\ (pc = "enable" => w[q].code \in Known)
        BY <3>1 DEF QueryFind
      <4>2. w'[q].pc = pc /\ w'[q].code = w[q].code
        <5>1. pc \in WriterPcs
          BY DEF WriterPcs
        <5> QED
          BY <1>1, <4>1, <5>1, WriterGoes
      <4> QED
        BY <1>5, <4>1, <4>2
    <3>2. CASE \E pc \in {"404", "502", "500", "label"} : Go(q, pc) \/ Stop(q, pc)
      <4>1. PICK pc \in {"404", "502", "500", "label"} : Go(q, pc) \/ Stop(q, pc)
        BY <3>2
      <4>2. pc \in WriterPcs
        BY DEF WriterPcs
      <4>3. CASE Go(q, pc)
        BY <1>1, <4>2, <4>3, WriterGoes
      <4>4. CASE Stop(q, pc)
        <5>1. w'[q] = Quiet(pc)
          BY <1>1, <4>2, <4>4, WriterStops
        <5> QED
          BY <5>1 DEF Quiet
      <4> QED
        BY <4>1, <4>3, <4>4
    <3> QED
      BY <3>1, <3>2
         DEF QueryRefused, QueryEnable, QueryCreate, ApiConflict
  <2> QED
    BY <1>1, <1>4, <1>5, <2>1, <2>2, WatchlistKept
<1>7. BoundsTyped' /\ issue <= issue'
  BY <1>1, <1>2 DEF BoundsTyped
<1> QED
  BY <1>2, <1>4, <1>5, <1>6, <1>7, QuietStep

-----------------------------------------------------------------------------
(* Fetching and storing. *)

LEMMA RowsAreKeys ==
  ASSUME WInv, NEW p \in Writers, Holding(p)
  PROVE  /\ Rows(p) \subseteq ForecastKey
         /\ w[p].code \in Villages /\ w[p].issue \in 0 .. issue /\ issue \in 0 .. MaxIssue
<1>1. /\ w[p].code \in Villages /\ w[p].issue \in 0 .. MaxIssue /\ w[p].issue <= issue
      /\ issue \in 0 .. MaxIssue /\ MaxIssue \in Nat
  BY WeatherConstants DEF WInv, WritersTyped, BoundsTyped, Writer
<1>2. Slots(w[p].issue) \subseteq 0 .. MaxIssue + 1
  BY <1>1 DEF Slots
<1> QED
  BY <1>1, <1>2 DEF Rows, ForecastKey

\* A fetch has the latest issue: no row is newer.
LEMMA FetchInv ==
  ASSUME WInv, NEW p \in Writers,
         NEW c \in Villages, NEW pc \in {"label", "find"}, Fetched(p, c, pc),
         UNCHANGED <<places, forecasts, issue, answers, torn, mishaps>>,
         todo' \in Seq(Villages),
         p = "loop" => w[p].pc = "cycle"
  PROVE  WInv'
<1>1. /\ PlacesTyped /\ ForecastsTyped /\ WritersTyped /\ BoundsTyped
      /\ WatchlistSeen /\ NewerCrossed /\ AnswersBacked
      /\ issue \in 0 .. MaxIssue /\ MaxIssue \in Nat
  BY WeatherConstants DEF WInv, BoundsTyped
<1> DEFINE now == [pc |-> pc, code |-> c, issue |-> issue, seen |-> {}]
<1>2. /\ w' = [w EXCEPT ![p] = now] /\ crossed' = [crossed EXCEPT ![p] = {}]
  BY DEF Fetched
<1>3. now \in Writer /\ now.pc = pc /\ now.code = c /\ now.issue = issue
  BY <1>1 DEF Writer, WriterPcs
<1> HIDE DEF now
<1>4. /\ w' \in [Writers -> Writer] /\ w'[p] = now
      /\ \A q \in Writers : q # p => w'[q] = w[q]
      /\ crossed' \in [Writers -> SUBSET ForecastKey]
      /\ \A q \in Writers : q # p => crossed'[q] = crossed[q]
  BY <1>1, <1>2, <1>3 DEF WritersTyped
<1>5. PlacesTyped' /\ Known' = Known /\ ForecastsTyped' /\ BoundsTyped'
  BY <1>1 DEF PlacesTyped, UniqueKey, Known, ForecastsTyped, BoundsTyped
<1>6. WritersTyped'
  <2>1. \A q \in Writers : w'[q].issue <= issue
    BY <1>1, <1>3, <1>4 DEF WritersTyped
  <2>2. \A q \in Writers : Holding(q)' => w'[q].code \in Villages
    BY <1>1, <1>3, <1>4 DEF WritersTyped, Holding
  <2> QED
    BY <1>4, <2>1, <2>2 DEF WritersTyped
<1>7. WatchlistSeen'
  BY <1>1, <1>3, <1>4, <1>5, LoopWrites DEF WatchlistSeen, Booted
<1>8. NewerCrossed'
  <2>1. SUFFICES ASSUME NEW q \in Writers, Holding(q)',
                        NEW k \in Rows(q)' \cap DOMAIN forecasts,
                        forecasts[k] > w'[q].issue
                 PROVE  k \in crossed'[q]
    BY DEF NewerCrossed
  <2>2. CASE q = p
    <3>1. forecasts[k] \in 0 .. issue
      BY <1>1 DEF ForecastsTyped
    <3> QED
      BY <1>1, <1>3, <1>4, <2>1, <2>2, <3>1
  <2>3. CASE q # p
    <3>1. Holding(q) /\ Rows(q)' = Rows(q)
      BY <1>4, <2>1, <2>3 DEF Holding, Rows
    <3> QED
      BY <1>1, <1>4, <2>1, <2>3, <3>1 DEF NewerCrossed
  <2> QED
    BY <2>2, <2>3
<1>9. AnswersBacked'
  BY <1>1 DEF AnswersBacked
<1> QED
  BY <1>5, <1>6, <1>7, <1>8, <1>9 DEF WInv

LEMMA LoopFetchInv ==
  ASSUME WInv, LoopFetch
  PROVE  WInv'
<1>1. /\ w["loop"].pc = "cycle" /\ todo # <<>> /\ todo' = Tail(todo)
      /\ Fetched("loop", Head(todo), "label")
      /\ UNCHANGED <<places, forecasts, issue, answers, torn, mishaps>>
  BY DEF LoopFetch
<1>2. todo \in Seq(Villages)
  BY DEF WInv, BoundsTyped
<1>3. Head(todo) \in Villages /\ Tail(todo) \in Seq(Villages)
  BY <1>1, <1>2, HeadTailProperties
<1>4. PICK p \in Writers : p = "loop"
  BY LoopWrites
<1>5. PICK c \in Villages : c = Head(todo)
  BY <1>3
<1>6. Fetched(p, c, "label") /\ w[p].pc = "cycle" /\ todo' \in Seq(Villages)
  BY <1>1, <1>3, <1>4, <1>5
<1> QED
  BY <1>1, <1>6, FetchInv

LEMMA QueryFetchInv ==
  ASSUME WInv, NEW q \in Queries, QueryFetch(q)
  PROVE  WInv'
<1>1. PICK c \in Villages : Fetched(q, c, "find")
  BY DEF QueryFetch
<1>2. UNCHANGED <<places, forecasts, issue, todo, answers, torn, mishaps>>
  BY DEF QueryFetch
<1>3. q \in Writers /\ q # "loop" /\ todo' \in Seq(Villages)
  BY <1>2, LoopWrites, WeatherConstants DEF WInv, BoundsTyped
<1> QED
  BY <1>1, <1>2, <1>3, FetchInv

LEMMA UpsertLookInv ==
  ASSUME WInv, NEW p \in Writers, UpsertLook(p)
  PROVE  WInv'
<1> DEFINE seen == Rows(p) \cap DOMAIN forecasts
<1>1. /\ w[p].pc = "label" /\ Looks(p, "commit", seen)
      /\ UNCHANGED <<places, forecasts, issue, todo, answers, crossed, torn, mishaps>>
  BY DEF UpsertLook, weatherHistories, Looks
<1>2. PlacesTyped /\ ForecastsTyped /\ WritersTyped /\ BoundsTyped /\ WatchlistSeen
  BY DEF WInv
<1>3. seen \subseteq Villages \cup ForecastKey /\ "commit" \in WriterPcs
  BY <1>2 DEF ForecastsTyped, WriterPcs
<1> HIDE DEF seen
<1>4. /\ w' \in [Writers -> Writer]
      /\ w'[p].pc = "commit" /\ w'[p].code = w[p].code /\ w'[p].issue = w[p].issue
      /\ \A q \in Writers : q # p => w'[q] = w[q]
  BY <1>1, <1>2, <1>3, WriterLooks
<1>5. PlacesTyped' /\ Known' = Known /\ BoundsTyped' /\ issue <= issue'
  BY <1>1, <1>2 DEF PlacesTyped, UniqueKey, Known, BoundsTyped
<1>6. WatchlistSeen'
  BY <1>1, <1>2, <1>4, <1>5, LoopWrites DEF WatchlistSeen, Booted
<1>7. Holding(p)
  BY <1>1 DEF Holding
<1> QED
  BY <1>1, <1>4, <1>5, <1>6, <1>7, QuietStep

\* An upsert writes the issue it has, marks its rows with every writer that
\* still holds an earlier fetch, and calls torn what such a mark explains.
LEMMA UpsertCommitInv ==
  ASSUME WInv, NEW p \in Writers, UpsertCommit(p)
  PROVE  WInv'
<1> DEFINE all == DOMAIN forecasts \cup Rows(p)
<1>1. /\ PlacesTyped /\ ForecastsTyped /\ WritersTyped /\ BoundsTyped
      /\ WatchlistSeen /\ NewerCrossed /\ AnswersBacked
      /\ issue \in 0 .. MaxIssue /\ MaxIssue \in Nat
  BY WeatherConstants DEF WInv, BoundsTyped
<1>2. /\ w[p].pc = "commit" /\ Holding(p)
      /\ forecasts' = [k \in all |-> IF k \in Rows(p) THEN w[p].issue ELSE forecasts[k]]
      /\ crossed' = [q \in Writers |-> IF q # p /\ Holding(q)
                                         THEN crossed[q] \cup Rows(p) ELSE {}]
      /\ torn' = torn \cup (PutBack(p) \cap crossed[p])
      /\ UNCHANGED <<places, issue, todo, mishaps>>
  BY DEF UpsertCommit, Upserted, Holding
<1>3. /\ Rows(p) \subseteq ForecastKey
      /\ w[p].code \in Villages /\ w[p].issue \in 0 .. issue
  BY <1>2, RowsAreKeys
<1>4. PICK pc \in {"cycle", "200"} :
         /\ Stop(p, pc)
         /\ pc = "cycle" <=> p = "loop"
         /\ answers' = answers \/ answers' = answers \cup {<<w[p].code, w[p].issue>>}
  BY DEF UpsertCommit
<1>5. /\ w' \in [Writers -> Writer] /\ w'[p] = Quiet(pc)
      /\ \A q \in Writers : q # p => w'[q] = w[q]
  <2>1. pc \in WriterPcs
    BY DEF WriterPcs
  <2> QED
    BY <1>1, <1>4, <2>1, WriterStops
<1> HIDE DEF all
<1>6. DOMAIN forecasts' = DOMAIN forecasts \cup Rows(p)
  BY <1>2 DEF all
<1>7. \A k \in DOMAIN forecasts \cup Rows(p) :
         forecasts'[k] = IF k \in Rows(p) THEN w[p].issue ELSE forecasts[k]
  BY <1>2 DEF all
<1>8. ForecastsTyped'
  <2>1. \A k \in all : (IF k \in Rows(p) THEN w[p].issue ELSE forecasts[k]) \in 0 .. issue
    BY <1>1, <1>3 DEF ForecastsTyped, all
  <2>2. forecasts' \in [all -> 0 .. issue]
    BY <1>2, <2>1
  <2> QED
    BY <1>1, <1>2, <1>3, <1>6, <2>2 DEF ForecastsTyped, all
<1>9. PlacesTyped' /\ Known' = Known /\ BoundsTyped'
  BY <1>1, <1>2 DEF PlacesTyped, UniqueKey, Known, BoundsTyped
<1>10. ~Holding(p)' /\ \A q \in Writers : q # p => (Holding(q)' <=> Holding(q))
  BY <1>5 DEF Holding, Quiet
<1>11. WritersTyped'
  <2>1. \A q \in Writers : w'[q].issue <= issue
    BY <1>1, <1>5 DEF WritersTyped, Quiet
  <2>2. \A q \in Writers : Holding(q)' => w'[q].code \in Villages
    BY <1>1, <1>5, <1>10 DEF WritersTyped
  <2>3. crossed' \in [Writers -> SUBSET ForecastKey]
    BY <1>1, <1>2, <1>3 DEF WritersTyped
  <2> QED
    BY <1>2, <1>5, <2>1, <2>2, <2>3 DEF WritersTyped
<1>12. WatchlistSeen'
  BY <1>1, <1>2, <1>4, <1>5, <1>9, LoopWrites DEF WatchlistSeen, Booted, Quiet
<1>13. NewerCrossed'
  <2>1. SUFFICES ASSUME NEW q \in Writers, Holding(q)',
                        NEW k \in Rows(q)' \cap DOMAIN forecasts',
                        forecasts'[k] > w'[q].issue
                 PROVE  k \in crossed'[q]
    BY DEF NewerCrossed
  <2>2. q # p /\ Holding(q) /\ w'[q] = w[q]
    BY <1>5, <1>10, <2>1
  <2>3. Rows(q)' = Rows(q) /\ crossed'[q] = crossed[q] \cup Rows(p)
    BY <1>2, <2>2 DEF Rows
  <2>4. CASE k \notin Rows(p)
    <3>1. k \in DOMAIN forecasts /\ forecasts'[k] = forecasts[k]
      BY <1>6, <1>7, <2>4
    <3> QED
      BY <1>1, <2>1, <2>2, <2>3, <3>1 DEF NewerCrossed
  <2> QED
    BY <2>3, <2>4
<1>14. AnswersBacked'
  <2>1. ASSUME NEW a \in answers, NEW k \in {a[1]} \X Slots(a[2])
        PROVE  k \in DOMAIN forecasts' /\ (forecasts'[k] >= a[2] \/ k \in torn')
    <3>1. /\ k \in DOMAIN forecasts /\ (forecasts[k] >= a[2] \/ k \in torn)
          /\ a[2] \in Nat
      BY <1>1, <2>1 DEF AnswersBacked
    <3>2. forecasts[k] \in Nat /\ w[p].issue \in Nat
      BY <1>1, <1>3, <3>1 DEF ForecastsTyped
    <3>3. CASE k \notin Rows(p)
      BY <1>2, <1>6, <1>7, <3>1, <3>3
    <3>4. CASE k \in Rows(p) /\ forecasts[k] > w[p].issue
      <4>1. k \in crossed[p] /\ k \in PutBack(p)
        BY <1>1, <1>2, <3>1, <3>4 DEF NewerCrossed, PutBack
      <4> QED
        BY <1>2, <1>6, <3>1, <4>1
    <3>5. CASE k \in Rows(p) /\ ~(forecasts[k] > w[p].issue)
      <4>1. forecasts'[k] = w[p].issue /\ k \in DOMAIN forecasts'
        BY <1>6, <1>7, <3>5
      <4> QED
        BY <1>2, <3>1, <3>2, <3>5, <4>1
    <3> QED
      BY <3>3, <3>4, <3>5
  <2>2. ASSUME NEW a, a = <<w[p].code, w[p].issue>>
        PROVE  /\ a \in Villages \X Nat
               /\ \A k \in {a[1]} \X Slots(a[2]) :
                     k \in DOMAIN forecasts' /\ (forecasts'[k] >= a[2] \/ k \in torn')
    <3>1. a[1] = w[p].code /\ a[2] = w[p].issue /\ w[p].issue \in Nat
      BY <1>1, <1>3, <2>2
    <3>2. {a[1]} \X Slots(a[2]) = Rows(p)
      BY <3>1 DEF Rows
    <3>3. \A k \in Rows(p) : k \in DOMAIN forecasts' /\ forecasts'[k] = w[p].issue
      BY <1>6, <1>7
    <3> QED
      BY <1>3, <2>2, <3>1, <3>2, <3>3
  <2>3. \A a \in answers : a \in Villages \X Nat
    BY <1>1 DEF AnswersBacked
  <2> QED
    BY <1>4, <2>1, <2>2, <2>3 DEF AnswersBacked
<1> QED
  BY <1>8, <1>9, <1>11, <1>12, <1>13, <1>14 DEF WInv

-----------------------------------------------------------------------------

LEMMA WeatherInitInv == ASSUME WeatherInit PROVE WInv
<1>1. /\ places = <<>> /\ forecasts = <<>> /\ issue = 0 /\ todo = <<>>
      /\ w = [p \in Writers |-> Quiet(IF p = "loop" THEN "seed" ELSE "new")]
      /\ answers = {} /\ crossed = [p \in Writers |-> {}] /\ mishaps = 0
      /\ MaxIssue \in Nat /\ MaxMishaps \in Nat
  BY WeatherConstants DEF WeatherInit
<1>2. PlacesTyped /\ BoundsTyped
  BY <1>1, EmptySeq DEF PlacesTyped, BoundsTyped, UniqueKey
<1>3. ForecastsTyped
  <2>1. DOMAIN forecasts = {} /\ forecasts = [k \in {} |-> 0]
    BY <1>1
  <2> QED
    BY <2>1 DEF ForecastsTyped
<1>4. \A p \in Writers : w[p] \in Writer /\ w[p].pc \in {"seed", "new"} /\ w[p].issue = 0
  BY <1>1 DEF Writer, WriterPcs, Quiet
<1>5. w["loop"].pc = "seed"
  BY <1>1, LoopWrites DEF Quiet
<1>6. WritersTyped
  BY <1>1, <1>4 DEF WritersTyped, Holding
<1>7. WatchlistSeen
  BY <1>4, <1>5 DEF WatchlistSeen, Booted
<1>8. NewerCrossed
  BY <1>4 DEF NewerCrossed, Holding
<1> QED
  BY <1>1, <1>2, <1>3, <1>6, <1>7, <1>8 DEF WInv, AnswersBacked

LEMMA WeatherNextInv == ASSUME WInv, [WeatherNext]_weatherVars PROVE WInv'
<1>1. CASE UNCHANGED weatherVars
  <2> UNCHANGED <<places, forecasts, issue, todo, w, answers, crossed, torn, mishaps>>
    BY <1>1 DEF weatherVars
  <2>1. PlacesTyped' /\ ForecastsTyped' /\ WritersTyped' /\ BoundsTyped'
    BY DEF WInv, PlacesTyped, UniqueKey, ForecastsTyped, WritersTyped, Holding, BoundsTyped
  <2>2. WatchlistSeen' /\ NewerCrossed' /\ AnswersBacked'
    BY DEF WInv, WatchlistSeen, Known, Booted, NewerCrossed, Holding, Rows,
       AnswersBacked
  <2> QED
    BY <2>1, <2>2 DEF WInv
<1>2. CASE Loop
  <2>1. \/ SeedLook \/ SyncLook \/ SeedCommit \/ SyncCommit
        \/ CycleBegin \/ CycleEnd \/ LoopFetch \/ LoopConflict
        \/ \E p \in Writers : UpsertLook(p) \/ UpsertCommit(p)
    BY <1>2, LoopWrites DEF Loop
  <2> QED
    BY <2>1, LookInv, SeedCommitInv, SyncCommitInv, CycleInv, LoopFetchInv, LoopGivesUp,
       UpsertLookInv, UpsertCommitInv
<1>3. ASSUME NEW q \in Queries, Query(q) PROVE WInv'
  <2>1. q \in Writers
    BY LoopWrites
  <2> QED
    BY <1>3, <2>1, QueryFetchInv, RequestInv, UpsertLookInv, UpsertCommitInv DEF Query
<1> QED
  BY <1>1, <1>2, <1>3, FeedInv, LoopGivesUp DEF WeatherNext

LEMMA WInvGives == ASSUME WInv PROVE WeatherTypeOK /\ AnswersStored
<1>1. WeatherTypeOK
  <2>1. \A p \in Writers : w[p].code \in Villages \cup {None} /\ w[p].issue \in 0 .. issue
    BY DEF WInv, WritersTyped, Writer, BoundsTyped
  <2> QED
    BY <2>1, KnownCodes DEF WInv, WeatherTypeOK, PlacesTyped, ForecastsTyped, ForecastKey, BoundsTyped
<1>2. AnswersStored
  BY DEF WInv, AnswersStored, AnswersBacked, WatchlistSeen
<1> QED
  BY <1>1, <1>2

LEMMA WeatherInv == WeatherSpec => []WInv
<1>1. WeatherInit => WInv
  BY WeatherInitInv
<1>2. WInv /\ [WeatherNext]_weatherVars => WInv'
  BY WeatherNextInv
<1> QED
  BY <1>1, <1>2, PTL DEF WeatherSpec

\* WeatherTypeOK for any watchlist, requests, issues and failures: above
\* all, no village has two rows, whoever inserts (repo.py).
THEOREM WeatherTypeCorrect == WeatherSpec => []WeatherTypeOK
<1>1. WInv => WeatherTypeOK
  BY WInvGives
<1> QED
  BY <1>1, WeatherInv, PTL

\* What the API has answered stays stored, or was put back by a writer that had
\* fetched earlier and crossed with the answer's; and the watchlist has its rows
\* once the scheduler has started (upsert_weather_forecasts).
THEOREM WeatherAnswersStored == WeatherSpec => []AnswersStored
<1>1. WInv => AnswersStored
  BY WInvGives
<1> QED
  BY <1>1, WeatherInv, PTL

-----------------------------------------------------------------------------
(* The inductive invariant of Pages. *)

Higher(i) == {j \in Present : at[j] > at[i]}
Single(i) == \A j \in Present \ {i} : at[j] # at[i]
Excused(i) == \E t \in removed : t >= at[i]

PagesTyped ==
    /\ at \in [Ids -> Nat] /\ IsFiniteSet(Present)
    /\ reader \in [pc : {"off", "on", "done"}, offset : Nat, seen : SUBSET Ids, twice : SUBSET Ids]
    /\ \E top \in Nat : \A i \in Ids : at[i] <= top

\* The rows that no write has brought to the front are as they were.
Unwritten ==
    /\ \A i \in Present \ fronted : i \in Stored /\ at[i] = StoredAt[i]
    /\ reader.pc = "off" => fronted = {} /\ reader.offset = 0 /\ reader.seen = {}

\* While the reader goes on, a row it has not seen and must see has as many newer
\* rows as the reader has skipped, and one at least: none comes to share its instant.
Ahead ==
    reader.pc = "on" =>
        \A i \in (Stored \cap Present) \ fronted :
            ~Tied(i) /\ ~Excused(i) /\ i \notin reader.seen =>
                Single(i) /\ Higher(i) # {} /\ Cardinality(Higher(i)) >= reader.offset

\* As long as nothing comes before them, rows that were seen stay behind the reader.
Behind ==
    fronted = {} => \A i \in reader.seen \cap Present : ~Tied(i) => Cardinality(Higher(i)) < reader.offset

PInv == PagesTyped /\ Unwritten /\ Ahead /\ Behind /\ PagesMissNothing

-----------------------------------------------------------------------------
(* Time stamps                                                              *)

\* The values of a function on a finite set are bounded.
LEMMA ValuesBounded ==
  ASSUME NEW S, IsFiniteSet(S), NEW f \in [S -> Nat]
  PROVE  \E top \in Nat : \A x \in S : f[x] <= top
<1>1. PICK n \in Nat : ExistsBijection(1 .. n, S)
  BY FS_NatBijection
<1>2. PICK g : g \in Bijection(1 .. n, S)
  BY <1>1 DEF ExistsBijection
<1>3. g \in [1 .. n -> S] /\ \A x \in S : \E k \in 1 .. n : g[k] = x
  BY <1>2 DEF Bijection, Injection, Surjection
<1> DEFINE Under(k, b) == \A m \in 1 .. k : f[g[m]] <= b
           Bad == {k \in 0 .. n : ~ \E b \in Nat : Under(k, b)}
<1>4. Bad = {}
  <2> SUFFICES ASSUME Bad # {} PROVE FALSE
    OBVIOUS
  <2>1. Bad \in SUBSET Nat
    OBVIOUS
  <2>2. PICK k \in Bad : \A m \in Bad : k <= m
    BY <2>1, LeastElement
  <2>3. k \in 0 .. n /\ ~ \E b \in Nat : Under(k, b)
    OBVIOUS
  <2>4. k # 0
    <3>1. Under(0, 0)
      OBVIOUS
    <3> QED
      BY <2>3, <3>1
  <2>5. k \in 1 .. n /\ k - 1 \in 0 .. n /\ k - 1 < k
    BY <2>3, <2>4
  <2>6. k - 1 \notin Bad
    <3>1. k - 1 \in Bad => k <= k - 1
      BY <2>2
    <3>2. ~ (k <= k - 1)
      BY <2>5
    <3> QED
      BY <3>1, <3>2
  <2>7. PICK b \in Nat : Under(k - 1, b)
    BY <2>5, <2>6
  <2>8. f[g[k]] \in Nat
    BY <1>3, <2>5
  <2>9. PICK c \in Nat : c = IF b >= f[g[k]] THEN b ELSE f[g[k]]
    BY <2>8
  <2>10. \A m \in 1 .. k : f[g[m]] <= c
    <3>1. ASSUME NEW m \in 1 .. k
          PROVE  f[g[m]] <= c
      <4>1. f[g[m]] \in Nat
        <5>1. m \in 1 .. n
          BY <2>5
        <5> QED
          BY <1>3, <5>1
      <4>2. m = k \/ m \in 1 .. (k - 1)
        BY <2>5
      <4>3. b <= c /\ f[g[k]] <= c
        BY <2>8, <2>9
      <4>4. CASE m = k
        BY <4>3, <4>4
      <4>5. CASE m \in 1 .. (k - 1)
        <5>1. f[g[m]] <= b
          BY <2>7, <4>5
        <5> QED
          BY <2>9, <4>1, <4>3, <5>1
      <4> QED
        BY <4>2, <4>4, <4>5
    <3> QED
      BY <3>1
  <2> QED
    BY <2>3, <2>10
<1>5. PICK b \in Nat : Under(n, b)
  <2>1. n \in 0 .. n /\ n \notin Bad
    BY <1>4
  <2> QED
    BY <2>1
<1> QED
  BY <1>3, <1>5

\* There is a newest time stamp as long as all have a bound.
LEMMA LatestIs ==
  ASSUME PagesTyped, NEW i \in Ids
  PROVE  Latest \in Nat /\ \A j \in Ids : at[j] <= Latest
<1>1. at \in [Ids -> Nat]
  BY DEF PagesTyped
<1> DEFINE Above == {b \in Nat : \A j \in Ids : at[j] <= b}
<1>2. Above \in SUBSET Nat /\ Above # {}
  BY DEF PagesTyped
<1>3. PICK b \in Above : \A c \in Above : b <= c
  BY <1>2, LeastElement
<1>4. b \in {at[j] : j \in Ids}
  <2> SUFFICES ASSUME \A j \in Ids : at[j] # b PROVE FALSE
    OBVIOUS
  <2>1. b \in Nat /\ \A j \in Ids : at[j] \in Nat /\ at[j] < b
    BY <1>1, <1>3
  <2>2. b - 1 \in Nat /\ \A j \in Ids : at[j] <= b - 1
    BY <2>1
  <2>3. b - 1 \in Above
    BY <2>2
  <2> QED
    BY <1>3, <2>1, <2>3
<1>5. \E t \in {at[j] : j \in Ids} : \A j \in Ids : at[j] <= t
  BY <1>3, <1>4
<1>6. Latest \in {at[j] : j \in Ids} /\ \A j \in Ids : at[j] <= Latest
  BY <1>5 DEF Latest
<1> QED
  BY <1>1, <1>6

-----------------------------------------------------------------------------
(* Pages                                                                    *)

\* A query returns every row once.
LEMMA Listing ==
  ASSUME PagesTyped, NEW s \in SetToSeqs(Present)
  PROVE  /\ s \in Seq(Present) /\ Len(s) \in Nat /\ DOMAIN s = 1 .. Len(s)
         /\ \A k, m \in 1 .. Len(s) : s[k] = s[m] => k = m
         /\ \A i \in Present : \E k \in 1 .. Len(s) : s[k] = i
<1>1. IsFiniteSet(Present) /\ Cardinality(Present) \in Nat
  BY FS_CardinalityType DEF PagesTyped
<1>2. PICK n : n = Cardinality(Present)
  OBVIOUS
<1>3. s \in [1 .. n -> Present] /\ \A k, m \in 1 .. n : s[k] = s[m] => k = m
  BY <1>2 DEF SetToSeqs
<1>4. s \in Injection(1 .. n, Present)
  BY <1>3 DEF Injection, IsInjective
<1>5. IsFiniteSet(1 .. n) /\ Cardinality(1 .. n) = n
  <2>1. n \in Nat /\ 1 \in Int /\ n \in Int
    BY <1>1, <1>2
  <2>2. IsFiniteSet(1 .. n) /\ Cardinality(1 .. n) = IF 1 > n THEN 0 ELSE n - 1 + 1
    BY <2>1, FS_Interval
  <2> QED
    BY <2>1, <2>2
<1>6. s \in Surjection(1 .. n, Present)
  BY <1>1, <1>2, <1>4, <1>5, FS_Injection
<1>7. \A i \in Present : \E k \in 1 .. n : s[k] = i
  BY <1>6 DEF Surjection
<1>8. s \in Seq(Present) /\ Len(s) = n /\ DOMAIN s = 1 .. n
  BY <1>1, <1>2, <1>3
<1> QED
  BY <1>1, <1>2, <1>3, <1>7, <1>8

\* A row whose instant is its own stands behind the newer ones.
LEMMA Position ==
  ASSUME PagesTyped, NEW s \in SetToSeqs(Present), Sorted(s), NEW i \in Present, Single(i)
  PROVE  \E p \in 1 .. Len(s) : s[p] = i /\ Cardinality(Higher(i)) = p - 1
<1>1. /\ s \in Seq(Present) /\ Len(s) \in Nat /\ DOMAIN s = 1 .. Len(s)
      /\ \A k, m \in 1 .. Len(s) : s[k] = s[m] => k = m
      /\ \A j \in Present : \E k \in 1 .. Len(s) : s[k] = j
  BY Listing
<1>2. PICK p \in 1 .. Len(s) : s[p] = i
  BY <1>1
<1>3. \A k \in 1 .. Len(s) : s[k] \in Present
  BY <1>1
<1>4. \A j \in Present : at[j] \in Nat
  BY DEF PagesTyped, Present
<1>5. ASSUME NEW k \in 1 .. Len(s)
      PROVE  s[k] \in Higher(i) <=> k < p
  <2>1. CASE k < p
    <3>1. at[s[k]] >= at[i] /\ s[k] # i
      BY <1>1, <1>2, <2>1 DEF Sorted
    <3>2. at[s[k]] # at[i]
      BY <1>3, <3>1 DEF Single
    <3>3. at[s[k]] \in Nat /\ at[i] \in Nat
      BY <1>3, <1>4
    <3> QED
      BY <1>3, <2>1, <3>1, <3>2, <3>3 DEF Higher
  <2>2. CASE k = p
    BY <1>2, <1>4, <2>2 DEF Higher
  <2>3. CASE p < k
    <3>1. at[i] >= at[s[k]]
      BY <1>1, <1>2, <2>3 DEF Sorted
    <3>2. at[s[k]] \in Nat /\ at[i] \in Nat
      BY <1>3, <1>4
    <3> QED
      BY <2>3, <3>1, <3>2 DEF Higher
  <2> QED
    BY <2>1, <2>2, <2>3
<1>6. PICK f : f = [k \in 1 .. (p - 1) |-> s[k]]
  OBVIOUS
<1>7. f \in Bijection(1 .. (p - 1), Higher(i))
  <2>1. \A k \in 1 .. (p - 1) : k \in 1 .. Len(s) /\ k < p
    BY <1>1, <1>2
  <2>2. f \in [1 .. (p - 1) -> Higher(i)]
    BY <1>5, <1>6, <2>1
  <2>3. \A k, m \in 1 .. (p - 1) : f[k] = f[m] => k = m
    BY <1>1, <1>6, <2>1
  <2>4. ASSUME NEW j \in Higher(i)
        PROVE  \E k \in 1 .. (p - 1) : f[k] = j
    <3>1. PICK k \in 1 .. Len(s) : s[k] = j
      BY <1>1 DEF Higher
    <3>2. k < p
      BY <1>5, <3>1
    <3>3. k \in 1 .. (p - 1)
      BY <1>1, <1>2, <3>2
    <3> QED
      BY <1>6, <3>1, <3>3
  <2> QED
    BY <2>2, <2>3, <2>4 DEF Bijection, Injection, Surjection, IsInjective
<1>8. IsFiniteSet(1 .. (p - 1)) /\ Cardinality(1 .. (p - 1)) = p - 1
  <2>1. p - 1 \in Nat /\ 1 \in Int /\ p - 1 \in Int
    BY <1>1, <1>2
  <2>2. IsFiniteSet(1 .. (p - 1)) /\ Cardinality(1 .. (p - 1)) = IF 1 > p - 1 THEN 0 ELSE p - 1 - 1 + 1
    BY <2>1, FS_Interval
  <2> QED
    BY <2>1, <2>2
<1>9. Cardinality(Higher(i)) = p - 1
  <2>1. ExistsBijection(1 .. (p - 1), Higher(i))
    BY <1>7 DEF ExistsBijection
  <2> QED
    BY <1>8, <2>1, FS_Bijection
<1> QED
  BY <1>2, <1>9

\* LIMIT and OFFSET
LEMMA PageRows ==
  ASSUME NEW S, NEW s \in Seq(S), NEW offset \in Nat
  PROVE  /\ ToSet(Page(s, offset)) = {s[k] : k \in {m \in 1 .. Len(s) : offset < m /\ m <= offset + PageSize}}
         /\ Len(Page(s, offset)) < PageSize => Len(s) < offset + PageSize
<1>1. Len(s) \in Nat /\ PageSize \in Nat \ {0} /\ \A k \in 1 .. Len(s) : s[k] \in S
  BY PagesConstants
<1>2. PICK end \in Nat : end = IF offset + PageSize < Len(s) THEN offset + PageSize ELSE Len(s)
  BY <1>1
<1>3. PICK page : page = Page(s, offset)
  OBVIOUS
<1>4. page = SubSeq(s, offset + 1, end)
  BY <1>2, <1>3 DEF Page
<1>5. /\ page \in Seq(S)
      /\ Len(page) = IF offset + 1 <= end THEN end - (offset + 1) + 1 ELSE 0
      /\ \A k \in 1 .. (end - (offset + 1) + 1) : page[k] = s[offset + 1 + k - 1]
  <2>1. offset + 1 \in Int /\ end \in Int /\ \A k \in (offset + 1) .. end : s[k] \in S
    BY <1>1, <1>2
  <2> QED
    BY <1>4, <2>1, SubSeqProperties
<1>6. Len(page) = (IF offset <= end THEN end - offset ELSE 0) /\ DOMAIN page = 1 .. Len(page)
      /\ Len(page) \in Nat
  BY <1>5
<1>7. \A k \in 1 .. Len(page) : page[k] = s[offset + k]
  BY <1>5, <1>6
<1>8. ToSet(page) = {page[k] : k \in 1 .. Len(page)}
  BY <1>6 DEF ToSet
<1>9. ASSUME NEW k \in 1 .. Len(page)
      PROVE  offset + k \in {m \in 1 .. Len(s) : offset < m /\ m <= offset + PageSize}
  BY <1>1, <1>2, <1>6
<1>10. ASSUME NEW m \in 1 .. Len(s), offset < m, m <= offset + PageSize
       PROVE  m - offset \in 1 .. Len(page) /\ page[m - offset] = s[m]
  <2>1. m - offset \in 1 .. Len(page)
    BY <1>1, <1>2, <1>6, <1>10
  <2>2. page[m - offset] = s[offset + (m - offset)]
    BY <1>7, <2>1
  <2>3. offset + (m - offset) = m
    BY <1>1
  <2> QED
    BY <2>1, <2>2, <2>3
<1>11. Len(page) < PageSize => Len(s) < offset + PageSize
  BY <1>1, <1>2, <1>6
<1>12. ToSet(page) = {s[k] : k \in {m \in 1 .. Len(s) : offset < m /\ m <= offset + PageSize}}
  <2>1. ASSUME NEW x \in ToSet(page)
        PROVE  x \in {s[k] : k \in {m \in 1 .. Len(s) : offset < m /\ m <= offset + PageSize}}
    <3>1. PICK k \in 1 .. Len(page) : x = page[k]
      BY <1>8
    <3> QED
      BY <1>7, <1>9, <3>1
  <2>2. ASSUME NEW m \in 1 .. Len(s), offset < m, m <= offset + PageSize
        PROVE  s[m] \in ToSet(page)
    BY <1>8, <1>10, <2>2
  <2> QED
    BY <2>1, <2>2
<1> QED
  BY <1>3, <1>11, <1>12

-----------------------------------------------------------------------------
(* Reading and writing                                                      *)

LEMMA HigherFinite ==
  ASSUME PagesTyped, NEW i
  PROVE  IsFiniteSet(Higher(i)) /\ Cardinality(Higher(i)) \in Nat
<1>1. Higher(i) \subseteq Present /\ IsFiniteSet(Present)
  BY DEF Higher, PagesTyped
<1> QED
  BY <1>1, FS_Subset, FS_CardinalityType

\* As long as no row was written, an instant is a row's own unless it was shared.
LEMMA SingleStays ==
  ASSUME Unwritten, fronted = {}, NEW i \in Present, ~Tied(i)
  PROVE  Single(i)
<1>1. \A j \in Present : j \in Stored /\ at[j] = StoredAt[j]
  BY DEF Unwritten
<1> QED
  BY <1>1 DEF Tied, Single

LEMMA ReadKept ==
  ASSUME PInv, Read
  PROVE  PInv'
<1>1. PICK s \in SetToSeqs(Present) :
        /\ Sorted(s)
        /\ reader' = [pc     |-> IF Len(Page(s, reader.offset)) < PageSize THEN "done" ELSE "on",
                      offset |-> reader.offset + PageSize,
                      seen   |-> reader.seen \cup ToSet(Page(s, reader.offset)),
                      twice  |-> reader.twice \cup (reader.seen \cap ToSet(Page(s, reader.offset)))]
  BY DEF Read
<1>2. reader.pc \in {"off", "on"} /\ UNCHANGED <<at, removed, fronted, writes>>
  BY DEF Read
<1>3. PICK page, shown, end, o :
        /\ page = Page(s, reader.offset) /\ shown = ToSet(page)
        /\ end = (IF Len(page) < PageSize THEN "done" ELSE "on") /\ o = reader.offset
  OBVIOUS
<1>4. /\ reader'.pc = end /\ reader'.offset = o + PageSize
      /\ reader'.seen = reader.seen \cup shown
      /\ reader'.twice = reader.twice \cup (reader.seen \cap shown)
      /\ reader' = [pc |-> end, offset |-> o + PageSize, seen |-> reader.seen \cup shown,
                    twice |-> reader.twice \cup (reader.seen \cap shown)]
  BY <1>1, <1>3
<1>5. o \in Nat /\ PageSize \in Nat \ {0} /\ end \in {"done", "on"}
  BY <1>3, PagesConstants DEF PInv, PagesTyped
<1>6. /\ s \in Seq(Present) /\ Len(s) \in Nat
      /\ \A k, m \in 1 .. Len(s) : s[k] = s[m] => k = m
      /\ \A k \in 1 .. Len(s) : s[k] \in Present
  <2>1. s \in Seq(Present) /\ Len(s) \in Nat /\ DOMAIN s = 1 .. Len(s)
        /\ \A k, m \in 1 .. Len(s) : s[k] = s[m] => k = m
    BY Listing DEF PInv
  <2> QED
    BY <2>1
<1>7. /\ shown = {s[k] : k \in {m \in 1 .. Len(s) : o < m /\ m <= o + PageSize}}
      /\ end = "done" => Len(s) < o + PageSize
  <2>1. /\ shown = {s[k] : k \in {m \in 1 .. Len(s) : o < m /\ m <= o + PageSize}}
        /\ Len(page) < PageSize => Len(s) < o + PageSize
    <3>1. /\ ToSet(Page(s, o)) = {s[k] : k \in {m \in 1 .. Len(s) : o < m /\ m <= o + PageSize}}
          /\ Len(Page(s, o)) < PageSize => Len(s) < o + PageSize
      BY <1>5, <1>6, PageRows
    <3> QED
      BY <1>3, <3>1
  <2> QED
    BY <1>3, <2>1
<1>8. shown \subseteq Present /\ Present \subseteq Ids
  BY <1>6, <1>7 DEF Present
\* a row of its own instant is on the page that its number of newer rows says
<1>9. ASSUME NEW i \in Present, Single(i)
      PROVE  /\ i \in shown <=> (o <= Cardinality(Higher(i)) /\ Cardinality(Higher(i)) < o + PageSize)
             /\ Cardinality(Higher(i)) \in Nat /\ Cardinality(Higher(i)) < Len(s)
  <2>1. PICK p \in 1 .. Len(s) : s[p] = i /\ Cardinality(Higher(i)) = p - 1
    BY <1>1, <1>9, Position DEF PInv
  <2>2. i \in shown <=> o < p /\ p <= o + PageSize
    <3>1. i \in shown <=> \E k \in 1 .. Len(s) : o < k /\ k <= o + PageSize /\ s[k] = i
      BY <1>7
    <3> QED
      BY <1>6, <2>1, <3>1
  <2> QED
    BY <1>5, <1>6, <2>1, <2>2
<1>10. PagesTyped'
  <2>1. reader' \in [pc : {"off", "on", "done"}, offset : Nat, seen : SUBSET Ids, twice : SUBSET Ids]
    <3>1. reader.seen \in SUBSET Ids /\ reader.twice \in SUBSET Ids
      BY DEF PInv, PagesTyped
    <3>2. reader.seen \cup shown \in SUBSET Ids /\ o + PageSize \in Nat
          /\ reader.twice \cup (reader.seen \cap shown) \in SUBSET Ids
      BY <1>5, <1>8, <3>1
    <3> QED
      BY <1>4, <1>5, <3>2
  <2>2. Present' = Present
    BY <1>2 DEF Present
  <2> QED
    BY <1>2, <2>1, <2>2 DEF PInv, PagesTyped
<1>11. Unwritten'
  BY <1>2, <1>4, <1>5 DEF PInv, Unwritten, Present
\* a row that must be seen and is not: it was ahead before
<1>12. ASSUME NEW i \in (Stored \cap Present) \ fronted, ~Tied(i), ~Excused(i), i \notin reader.seen
       PROVE  Single(i) /\ Cardinality(Higher(i)) >= o /\ Cardinality(Higher(i)) \in Nat
  <2>1. CASE reader.pc = "on"
    BY <1>3, <1>12, <2>1, HigherFinite DEF PInv, Ahead
  <2>2. CASE reader.pc = "off"
    <3>1. fronted = {} /\ o = 0
      BY <1>3, <2>2 DEF PInv, Unwritten
    <3>2. Single(i)
      BY <1>12, <3>1, SingleStays DEF PInv
    <3> QED
      BY <3>1, <3>2, HigherFinite DEF PInv
  <2> QED
    BY <1>2, <2>1, <2>2
<1>13. ASSUME NEW i \in (Stored \cap Present) \ fronted, ~Tied(i), ~Excused(i), i \notin reader'.seen
       PROVE  /\ Single(i) /\ Higher(i) # {} /\ Cardinality(Higher(i)) >= o + PageSize
              /\ end = "on"
  <2>1. i \notin reader.seen /\ i \notin shown
    BY <1>4, <1>13
  <2>2. Single(i) /\ Cardinality(Higher(i)) >= o
    BY <1>12, <1>13, <2>1
  <2>3. Cardinality(Higher(i)) >= o + PageSize /\ Cardinality(Higher(i)) < Len(s)
    BY <1>5, <1>9, <2>1, <2>2
  <2>4. Higher(i) # {}
    <3>1. Higher(i) = {} => Cardinality(Higher(i)) = 0
      BY FS_EmptySet
    <3> QED
      BY <1>5, <2>3, <3>1
  <2>5. end = "on"
    BY <1>5, <1>6, <1>7, <1>9, <2>2, <2>3
  <2> QED
    BY <2>2, <2>3, <2>4, <2>5
<1>14. \A i : /\ Higher(i)' = Higher(i) /\ (Single(i)' <=> Single(i))
              /\ (Excused(i)' <=> Excused(i))
  BY <1>2 DEF Higher, Single, Excused, Present
<1>15. Ahead'
  <2>1. Present' = Present
    BY <1>2 DEF Present
  <2> QED
    BY <1>2, <1>4, <1>13, <1>14, <2>1 DEF Ahead
<1>16. Behind'
  <2>1. ASSUME fronted = {}, NEW i \in reader'.seen \cap Present, ~Tied(i)
        PROVE  Cardinality(Higher(i)) < o + PageSize
    <3>1. Single(i)
      BY <2>1, SingleStays DEF PInv
    <3>2. CASE i \in reader.seen
      <4>1. Cardinality(Higher(i)) < o
        BY <1>3, <2>1, <3>2 DEF PInv, Behind
      <4>2. Cardinality(Higher(i)) \in Nat
        BY <1>9, <3>1
      <4> QED
        BY <1>5, <4>1, <4>2
    <3>3. CASE i \in shown
      BY <1>9, <3>1, <3>3
    <3> QED
      BY <1>4, <2>1, <3>2, <3>3
  <2>2. Present' = Present
    BY <1>2 DEF Present
  <2> QED
    BY <1>2, <1>4, <1>14, <2>1, <2>2 DEF Behind
<1>17. PagesMissNothing'
  <2>1. ASSUME reader'.pc = "done", NEW i \in (Stored \cap Present) \ fronted
        PROVE  i \in reader'.seen \/ Excused(i) \/ Tied(i)
    BY <1>4, <1>13, <2>1
  <2>2. ASSUME NEW i \in reader'.twice, fronted = {}
        PROVE  Tied(i)
    <3>1. CASE i \in reader.twice
      BY <2>2, <3>1 DEF PInv, PagesMissNothing
    <3>2. CASE i \in reader.seen \cap shown
      <4> SUFFICES ASSUME ~Tied(i) PROVE FALSE
        OBVIOUS
      <4>1. i \in Present
        BY <1>8, <3>2
      <4>2. Single(i)
        BY <2>2, <4>1, SingleStays DEF PInv
      <4>3. Cardinality(Higher(i)) < o
        BY <1>3, <2>2, <3>2, <4>1 DEF PInv, Behind
      <4>4. o <= Cardinality(Higher(i)) /\ Cardinality(Higher(i)) \in Nat
        BY <1>9, <3>2, <4>1, <4>2
      <4> QED
        BY <1>5, <4>3, <4>4
    <3> QED
      BY <1>4, <2>2, <3>1, <3>2
  <2>3. Present' = Present
    BY <1>2 DEF Present
  <2> QED
    BY <1>2, <2>1, <2>2, <2>3 DEF PagesMissNothing, Excused
<1> QED
  BY <1>10, <1>11, <1>15, <1>16, <1>17 DEF PInv

\* What a write does to the types
LEMMA WriteTyped ==
  ASSUME PInv, NEW i \in Ids, NEW t \in Nat, Write(i, t), reader' = reader
  PROVE  /\ PagesTyped' /\ reader.pc = "on"
         /\ at' = [j \in Ids |-> IF j = i THEN t ELSE at[j]]
         /\ t # 0 => Present' = Present \cup {i}
         /\ t = 0 => Present' = Present \ {i}
<1>1. at \in [Ids -> Nat] /\ IsFiniteSet(Present) /\ Present \subseteq Ids
  BY DEF PInv, PagesTyped, Present
<1>2. reader.pc = "on" /\ at' = [j \in Ids |-> IF j = i THEN t ELSE at[j]]
  BY <1>1 DEF Write
<1>3. at' \in [Ids -> Nat]
  BY <1>1, <1>2
<1>4. /\ t # 0 => Present' = Present \cup {i}
      /\ t = 0 => Present' = Present \ {i}
  BY <1>1, <1>2 DEF Present
<1>5. IsFiniteSet(Present')
  <2>1. IsFiniteSet(Present \cup {i}) /\ IsFiniteSet(Present \ {i})
    BY <1>1, FS_AddElement, FS_RemoveElement
  <2> QED
    BY <1>4, <2>1
<1>6. \E top \in Nat : \A j \in Ids : at'[j] <= top
  <2>1. PICK top \in Nat : \A j \in Ids : at[j] <= top
    BY DEF PInv, PagesTyped
  <2>2. \A j \in Ids : at'[j] <= top + t
    BY <1>1, <1>2, <2>1
  <2> QED
    BY <2>1, <2>2
<1> QED
  BY <1>2, <1>3, <1>4, <1>5, <1>6 DEF PInv, PagesTyped

\* A row that comes to the front: inserted or brought up to date
LEMMA FrontKept ==
  ASSUME PInv, NEW i \in Ids, NEW t \in {Latest, Latest + 1}, t # 0, Write(i, t),
         fronted' = fronted \cup {i}, UNCHANGED <<reader, removed>>
  PROVE  PInv'
<1>1. Latest \in Nat /\ \A j \in Ids : at[j] <= Latest
  BY LatestIs DEF PInv
<1>2. /\ t \in Nat
      /\ \A j \in Ids : at[j] \in Nat /\ at[j] <= t
  BY <1>1 DEF PInv, PagesTyped
<1>3. /\ PagesTyped' /\ reader.pc = "on"
      /\ at' = [j \in Ids |-> IF j = i THEN t ELSE at[j]]
      /\ Present' = Present \cup {i} /\ Present \subseteq Ids
  BY <1>2, WriteTyped DEF Present
<1>4. Unwritten'
  BY <1>3 DEF PInv, Unwritten
<1>5. ASSUME NEW k \in (Stored \cap Present') \ fronted', ~Tied(k), ~Excused(k)', k \notin reader.seen
      PROVE  Single(k)' /\ Higher(k)' # {} /\ Cardinality(Higher(k)') >= reader.offset
  <2>1. k \in (Stored \cap Present) \ fronted /\ k # i /\ k \in Ids /\ at'[k] = at[k]
    BY <1>3
  <2>2. ~Excused(k)
    BY <1>5, <2>1 DEF Excused
  <2>3. Single(k) /\ Higher(k) # {} /\ Cardinality(Higher(k)) >= reader.offset
    BY <1>3, <1>5, <2>1, <2>2 DEF PInv, Ahead
  <2>4. PICK j \in Present : at[j] > at[k]
    BY <2>3 DEF Higher
  <2>5. t > at[k]
    <3>1. at[j] <= t /\ at[j] \in Nat /\ at[k] \in Nat
      BY <1>2, <1>3, <2>1
    <3> QED
      BY <1>2, <2>4, <3>1
  <2>6. Single(k)'
    <3>1. t # at[k]
      BY <1>2, <2>1, <2>5
    <3> QED
      BY <1>3, <2>1, <2>3, <3>1 DEF Single
  <2>7. Higher(k) \subseteq Higher(k)'
    BY <1>3, <2>1, <2>5 DEF Higher
  <2>8. Cardinality(Higher(k)') >= Cardinality(Higher(k))
    <3>1. IsFiniteSet(Higher(k)')
      <4>1. Higher(k)' \subseteq Present' /\ IsFiniteSet(Present')
        BY <1>3 DEF Higher, PagesTyped
      <4> QED
        BY <4>1, FS_Subset
    <3> QED
      BY <2>7, <3>1, FS_Subset
  <2>9. Cardinality(Higher(k)) \in Nat /\ Cardinality(Higher(k)') \in Nat /\ reader.offset \in Nat
    <3>1. IsFiniteSet(Higher(k)')
      <4>1. Higher(k)' \subseteq Present' /\ IsFiniteSet(Present')
        BY <1>3 DEF Higher, PagesTyped
      <4> QED
        BY <4>1, FS_Subset
    <3> QED
      BY <3>1, HigherFinite, FS_CardinalityType DEF PInv, PagesTyped
  <2> QED
    BY <2>3, <2>6, <2>7, <2>8, <2>9
<1>6. Ahead'
  BY <1>5 DEF Ahead
<1>7. Behind' /\ PagesMissNothing'
  BY <1>3 DEF Behind, PagesMissNothing
<1> QED
  BY <1>3, <1>4, <1>6, <1>7 DEF PInv

LEMMA RemoveKept ==
  ASSUME PInv, NEW i \in Ids, RemoveRow(i)
  PROVE  PInv'
<1>1. /\ i \in Present /\ Write(i, 0) /\ removed' = removed \cup {at[i]}
      /\ reader' = reader /\ fronted' = fronted
  BY DEF RemoveRow
<1>2. /\ PagesTyped' /\ reader.pc = "on"
      /\ at' = [j \in Ids |-> IF j = i THEN 0 ELSE at[j]]
      /\ Present' = Present \ {i} /\ Present \subseteq Ids
      /\ \A j \in Ids : at[j] \in Nat
  <2>1. 0 \in Nat
    OBVIOUS
  <2> QED
    BY <1>1, <2>1, WriteTyped DEF Present, PInv, PagesTyped
<1>3. \A k \in Present' : k \in Present /\ k # i /\ k \in Ids /\ at'[k] = at[k]
  BY <1>2
<1>4. Unwritten'
  BY <1>1, <1>2, <1>3 DEF PInv, Unwritten
<1>5. \A k \in Present' : Higher(k)' = Higher(k) \ {i}
  BY <1>2, <1>3 DEF Higher
<1>6. ASSUME NEW k \in (Stored \cap Present') \ fronted, ~Tied(k), ~Excused(k)', k \notin reader.seen
      PROVE  Single(k)' /\ Higher(k)' # {} /\ Cardinality(Higher(k)') >= reader.offset
  <2>1. k \in (Stored \cap Present) \ fronted /\ k # i /\ k \in Ids /\ at'[k] = at[k]
    BY <1>3
  <2>2. ~Excused(k) /\ ~ (at[i] >= at[k])
    BY <1>1, <1>6, <2>1 DEF Excused
  <2>3. Single(k) /\ Higher(k) # {} /\ Cardinality(Higher(k)) >= reader.offset
    BY <1>2, <1>6, <2>1, <2>2 DEF PInv, Ahead
  <2>4. Higher(k)' = Higher(k)
    <3>1. i \notin Higher(k)
      BY <1>2, <2>1, <2>2 DEF Higher
    <3> QED
      BY <1>5, <3>1
  <2>5. Single(k)'
    BY <1>2, <1>3, <2>1, <2>3 DEF Single
  <2> QED
    BY <2>3, <2>4, <2>5
<1>7. Ahead'
  BY <1>1, <1>6 DEF Ahead
<1>8. Behind'
  <2>1. ASSUME fronted = {}, NEW k \in reader.seen \cap Present', ~Tied(k)
        PROVE  Cardinality(Higher(k)') < reader.offset
    <3>1. Cardinality(Higher(k)) < reader.offset
      BY <1>3, <2>1 DEF PInv, Behind
    <3>2. Higher(k)' \subseteq Higher(k) /\ IsFiniteSet(Higher(k)) /\ Cardinality(Higher(k)) \in Nat
      BY <1>5, HigherFinite DEF PInv
    <3>3. Cardinality(Higher(k)') <= Cardinality(Higher(k)) /\ Cardinality(Higher(k)') \in Nat
      BY <3>2, FS_Subset, FS_CardinalityType
    <3>4. reader.offset \in Nat
      BY DEF PInv, PagesTyped
    <3> QED
      BY <3>1, <3>2, <3>3, <3>4
  <2> QED
    BY <1>1, <2>1 DEF Behind
<1>9. PagesMissNothing'
  BY <1>1, <1>2 DEF PInv, PagesMissNothing
<1> QED
  BY <1>2, <1>4, <1>7, <1>8, <1>9 DEF PInv

-----------------------------------------------------------------------------
LEMMA PInvInit ==
  ASSUME PagesInit
  PROVE  PInv
<1>1. /\ DOMAIN StoredAt \subseteq Ids /\ IsFiniteSet(Stored)
      /\ StoredAt \in [Stored -> Nat \ {0}]
  BY PagesConstants DEF Stored
<1>2. /\ at = [i \in Ids |-> IF i \in Stored THEN StoredAt[i] ELSE 0]
      /\ reader = [pc |-> "off", offset |-> 0, seen |-> {}, twice |-> {}]
      /\ removed = {} /\ fronted = {}
  BY DEF PagesInit
<1>3. at \in [Ids -> Nat]
  BY <1>1, <1>2
<1>4. Present = Stored
  BY <1>1, <1>2 DEF Present, Stored
<1>5. \E top \in Nat : \A i \in Ids : at[i] <= top
  <2>1. StoredAt \in [Stored -> Nat]
    BY <1>1
  <2>2. PICK top \in Nat : \A i \in Stored : StoredAt[i] <= top
    BY <1>1, <2>1, ValuesBounded
  <2>3. \A i \in Ids : at[i] <= top
    BY <1>2, <2>2
  <2> QED
    BY <2>2, <2>3
<1>6. PagesTyped
  BY <1>1, <1>2, <1>3, <1>4, <1>5 DEF PagesTyped
<1>7. Unwritten
  BY <1>1, <1>2, <1>4 DEF Unwritten, Stored
<1>8. Ahead /\ Behind /\ PagesMissNothing
  BY <1>2 DEF Ahead, Behind, PagesMissNothing
<1> QED
  BY <1>6, <1>7, <1>8 DEF PInv

LEMMA PInvStep ==
  ASSUME PInv, [PagesNext]_pageVars
  PROVE  PInv'
<1>1. CASE UNCHANGED pageVars
  BY <1>1 DEF pageVars, PInv, PagesTyped, Unwritten, Ahead, Behind, PagesMissNothing,
              Present, Higher, Single, Excused
<1>2. CASE Read
  BY <1>2, ReadKept
<1>3. ASSUME NEW i \in Ids, Insert(i) \/ Touch(i)
      PROVE  PInv'
  <2>1. PICK t \in {Latest, Latest + 1} \ {0} : Write(i, t)
    BY <1>3 DEF Insert, Touch, Now
  <2>2. fronted' = fronted \cup {i} /\ UNCHANGED <<reader, removed>>
    BY <1>3 DEF Insert, Touch
  <2> QED
    BY <2>1, <2>2, FrontKept
<1>4. ASSUME NEW i \in Ids, RemoveRow(i)
      PROVE  PInv'
  BY <1>4, RemoveKept
<1> QED
  BY <1>1, <1>2, <1>3, <1>4 DEF PagesNext

\* Whoever pages through a table that others write misses no row and meets none twice,
\* but for rows that share their instant, a newer row that was removed, or one that
\* came to the front meanwhile (list_documents and list_alerts with OFFSET).
THEOREM PagesHold == PagesSpec => []PagesMissNothing
<1>1. PInv => PagesMissNothing
  BY DEF PInv
<1> QED
  BY <1>1, PInvInit, PInvStep, PTL DEF PagesSpec

===============================================================================
