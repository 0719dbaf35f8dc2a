----------------------------- MODULE AlertsProofs -----------------------------
(***************************************************************************)
(* Theorems about the two components that say something of a thing they    *)
(* keep a row of: Alerts, for all sets of events, budgets, thresholds,     *)
(* cooldowns and bounds, and below it Naming, for all targets, names and   *)
(* numbers of tasks.  The two share no variable.  They hold for all        *)
(* constants that AlertsAssumption and NamingConstants admit.              *)
(***************************************************************************)
EXTENDS Alerts, Naming, SequenceTheorems, FiniteSetTheorems,
        WellFoundedInduction, TLAPS

-----------------------------------------------------------------------------
(* Induction is replaced by least counterexamples. *)

SmallerPair == {pair \in Nat \X Nat : pair[1] < pair[2]}

\* A nonempty set of naturals has a least element.
LEMMA LeastElement ==
  ASSUME NEW numbers \in SUBSET Nat, numbers # {}
  PROVE  \E least \in numbers : \A n \in numbers : least <= n
<1>1. IsWellFoundedOn(SmallerPair, Nat)
  BY NatLessThanWellFounded DEF OpToRel, SmallerPair
<1>2. PICK x \in numbers : \A y \in numbers : ~ (<<y, x>> \in SmallerPair)
  BY <1>1, WFMin, Zenon
<1>3. \A y \in numbers : ~(y < x)
  BY <1>2 DEF SmallerPair
<1> QED
  BY <1>3

-----------------------------------------------------------------------------
(* The inductive invariant.                                                *)

Statuses == {"absent", "active", "updated"} \cup Ended
Signatures == Priorities \X Statuses \X Nat \X Nat
AlertRow == [prio : Priorities, status : Statuses, sig : {<<>>} \cup Signatures,
             sentAt : Nat \cup {-1}]
MessageRow == [kind : Kinds, prio : Priorities, sig : Signatures, at : Nat,
               delivered : BOOLEAN]
Item == [event : Quakes, status : Statuses]

\* TypeOK does not say what the rows and the list of a cycle are made of: no
\* news is ever in that list.
Typed ==
    /\ ev \in [Events -> EventRow]
    /\ recency \in Seq(Events)
    /\ alert \in [Events -> AlertRow \cup {NoAlert}]
    /\ thread \in [Events -> Seq(MessageRow)]
    /\ pc \in {"idle", "plan", "announce", "deliver"}
    /\ todo \in Seq(Item)
    /\ view = NoView \/ view \in [Events -> EventRow]
    /\ now \in Nat /\ changes \in Nat /\ aborts \in Nat

\* What the loop may rely on between two commits.
Underway ==
    /\ pc = "announce" =>
          /\ todo # <<>> /\ HasAlert(Current) /\ thread[Current] = <<>>
          /\ planned \in Priorities \X Signatures /\ planned[2][2] = Status
    /\ pc = "deliver" =>
          /\ todo # <<>> /\ thread[Current] # <<>>
          /\ ~thread[Current][Len(thread[Current])].delivered

\* An alert row is what the last message of its thread said.
TellsLast(e) ==
    LET last == thread[e][Len(thread[e])]
    IN  /\ HasAlert(e)
        /\ alert[e].sig = last.sig /\ alert[e].sentAt = last.at
        /\ alert[e].status = last.sig[2]
        /\ last.kind \in {"initial", "severity"} => alert[e].prio = last.prio

RowsTellLast == \A e \in Events : thread[e] # <<>> => TellsLast(e)

InitialFirst ==
    /\ \A e \in Events : \A i \in DOMAIN thread[e] : thread[e][i].kind = "initial" => i = 1
    /\ \A e \in News : thread[e] = <<>>

\* Cardinality says nothing of an infinite set.
StraysCounted == IsFiniteSet(Undelivered) /\ UndeliveredOnlyByCrash

AInv == /\ Typed /\ Underway /\ RowsTellLast /\ InitialFirst
        /\ UpdatesEarned /\ MessagesMeanChange /\ StraysCounted

-----------------------------------------------------------------------------
(* The lists of events.                                                    *)

\* Each rank is the rank of exactly one place, so the list has what is at
\* these places.
LEMMA InOrderType ==
  ASSUME recency \in Seq(Events), NEW at \in SUBSET DOMAIN recency, NEW S,
         \A i \in at : recency[i] \in S
  PROVE  InOrder(at) \in Seq(S)
<1> DEFINE n == Len(recency)
           UpTo(m) == {j \in at : j <= m}
<1>1. n \in Nat /\ DOMAIN recency = 1 .. n
  BY LenProperties
<1>2. IsFiniteSet(at) /\ Cardinality(at) \in Nat
  <2>1. IsFiniteSet(1 .. n)
    BY <1>1, FS_Interval
  <2> QED
    BY <1>1, <2>1, FS_Subset, FS_CardinalityType
<1>3. ASSUME NEW m \in Int PROVE IsFiniteSet(UpTo(m)) /\ Cardinality(UpTo(m)) \in Nat
  <2>1. UpTo(m) \in SUBSET at
    OBVIOUS
  <2> QED
    BY <1>2, <2>1, FS_Subset, FS_CardinalityType
<1>4. UpTo(0) = {} /\ UpTo(n) = at
  BY <1>1
<1>5. ASSUME NEW m \in Int
      PROVE  /\ m \notin at => UpTo(m) = UpTo(m - 1)
             /\ m \in at => UpTo(m) = UpTo(m - 1) \cup {m} /\ m \notin UpTo(m - 1)
  <2>1. \A j \in at : j \in Int /\ (j <= m <=> j = m \/ j <= m - 1)
    BY <1>1
  <2> QED
    BY <2>1
<1>6. InOrder(at) = [k \in 1 .. Cardinality(at) |->
                       recency[CHOOSE i \in at : Cardinality(UpTo(i)) = k]]
  BY DEF InOrder
<1> HIDE DEF UpTo
<1>7. ASSUME NEW k \in 1 .. Cardinality(at)
      PROVE  \E i \in at : Cardinality(UpTo(i)) = k
  <2> DEFINE Enough == {m \in Nat : Cardinality(UpTo(m)) >= k}
  <2>1. Enough \in SUBSET Nat /\ n \in Enough
    BY <1>1, <1>2, <1>4, <1>7
  <2>2. PICK m \in Enough : \A l \in Enough : m <= l
    <3> HIDE DEF Enough
    <3> QED
      BY <2>1, LeastElement
  <2>3. m \in Nat /\ Cardinality(UpTo(m)) >= k /\ Cardinality(UpTo(m)) \in Nat
    BY <1>3
  <2>4. m # 0
    <3>1. Cardinality(UpTo(0)) = 0
      BY <1>4, FS_EmptySet
    <3> QED
      BY <1>2, <1>7, <2>3, <3>1
  <2>5. m - 1 \in Nat /\ m - 1 \notin Enough
    BY <2>1, <2>2, <2>3, <2>4
  <2>6. Cardinality(UpTo(m - 1)) \in Nat /\ Cardinality(UpTo(m - 1)) < k
    <3>1. Cardinality(UpTo(m - 1)) \in Nat
      BY <1>3, <2>5
    <3>2. ~(Cardinality(UpTo(m - 1)) >= k)
      BY <2>5
    <3>3. k \in Int
      BY <1>2, <1>7
    <3> QED
      BY <3>1, <3>2, <3>3
  <2>7. m \in at
    <3>1. SUFFICES ASSUME m \notin at PROVE FALSE
      OBVIOUS
    <3>2. Cardinality(UpTo(m)) = Cardinality(UpTo(m - 1))
      BY <1>5, <2>3, <3>1
    <3>3. k \in Int
      BY <1>2, <1>7
    <3> QED
      BY <2>3, <2>6, <3>2, <3>3
  <2>8. Cardinality(UpTo(m)) = Cardinality(UpTo(m - 1)) + 1
    <3>1. UpTo(m) = UpTo(m - 1) \cup {m} /\ m \notin UpTo(m - 1)
      BY <1>5, <2>3, <2>7
    <3>2. IsFiniteSet(UpTo(m - 1))
      BY <1>3, <2>5
    <3>3. Cardinality(UpTo(m - 1) \cup {m}) = Cardinality(UpTo(m - 1)) + 1
      BY <3>1, <3>2, FS_AddElement
    <3> QED
      BY <3>1, <3>3
  <2>9. Cardinality(UpTo(m)) = k
    <3>1. k \in Int
      BY <1>2, <1>7
    <3> QED
      BY <2>3, <2>6, <2>8, <3>1
  <2> QED
    BY <2>7, <2>9
<1>8. \A k \in 1 .. Cardinality(at) : (CHOOSE i \in at : Cardinality(UpTo(i)) = k) \in at
  BY <1>7
<1>9. InOrder(at) \in [1 .. Cardinality(at) -> S]
  BY <1>6, <1>8
<1> QED
  BY <1>2, <1>9, SeqDef

LEMMA LoadType ==
  ASSUME Typed, NEW s \in Seq(Quakes)
  PROVE  Load(s) \in Seq(Item)
<1>1. Len(s) \in Nat /\ \A i \in 1 .. Len(s) : s[i] \in Quakes
  BY LenProperties, ElementOfSeq
<1>2. \A e \in Quakes : ev[e].status \in Statuses
  BY DEF Typed, Events, EventRow, Statuses
<1>3. Load(s) \in [1 .. Len(s) -> Item]
  BY <1>1, <1>2 DEF Load, Item
<1> QED
  BY <1>1, <1>3, SeqDef

\* The filter leaves earthquakes only.
LEMMA AlertableType ==
  ASSUME Typed, NEW at \in SUBSET DOMAIN recency
  PROVE  Alertable(at) \in Seq(Quakes)
<1> DEFINE left == {i \in at : recency[i] \notin News}
<1>1. left \in SUBSET DOMAIN recency
  OBVIOUS
<1>2. \A i \in left : recency[i] \in Quakes
  <2>1. \A i \in DOMAIN recency : recency[i] \in Events
    BY LenProperties, ElementOfSeq DEF Typed
  <2> QED
    BY <2>1 DEF Events
<1> HIDE DEF left
<1>3. InOrder(left) \in Seq(Quakes)
  BY <1>1, <1>2, InOrderType DEF Typed
<1> QED
  BY <1>3 DEF Alertable, left

\* What the loop has at hand while a cycle has events to do.
LEMMA CurrentType ==
  ASSUME Typed, todo # <<>>
  PROVE  /\ Current \in Quakes /\ Current \in Events /\ Current \notin News
         /\ Status \in Statuses /\ Tail(todo) \in Seq(Item)
         /\ Seen \in [Events -> EventRow]
         /\ Priority \in Priorities /\ Signature \in Signatures /\ Signature[2] = Status
<1>1. todo[1] \in Item /\ Tail(todo) \in Seq(Item)
  <2>1. Len(todo) \in Nat /\ 1 \in 1 .. Len(todo)
    BY EmptySeq, LenProperties DEF Typed
  <2> QED
    BY <2>1, ElementOfSeq, HeadTailProperties DEF Typed
<1>2. Current \in Quakes /\ Status \in Statuses
  BY <1>1 DEF Item, Current, Status
<1>3. Current \in Events /\ Current \notin News
  BY <1>2, AlertsAssumption DEF Events
<1>4. Seen \in [Events -> EventRow]
  BY DEF Typed, Seen
<1>5. Seen[Current] \in EventRow
  BY <1>3, <1>4
<1>6. Priority \in Priorities
  <2>1. Seen[Current].size \in DOMAIN PriorityOf
    BY <1>5, AlertsAssumption DEF EventRow
  <2>2. \A size \in DOMAIN PriorityOf : PriorityOf[size] \in Priorities
    BY DEF PriorityOf, Priorities
  <2> QED
    BY <2>1, <2>2 DEF Priority
<1>7. Signature \in Signatures /\ Signature[2] = Status
  BY <1>2, <1>5, <1>6 DEF Signature, Signatures, EventRow
<1> QED
  BY <1>1, <1>2, <1>3, <1>4, <1>6, <1>7

-----------------------------------------------------------------------------
(* What a step does to the threads.                                        *)

Threads == RowsTellLast /\ InitialFirst /\ UpdatesEarned /\ MessagesMeanChange

LEMMA ThreadsStay ==
  ASSUME Threads, UNCHANGED <<alert, thread>>
  PROVE  Threads' /\ Undelivered' = Undelivered
<1>1. RowsTellLast'
  BY DEF Threads, RowsTellLast, TellsLast, HasAlert
<1>2. InitialFirst'
  BY DEF Threads, InitialFirst
<1>3. UpdatesEarned'
  BY DEF Threads, UpdatesEarned, Consecutive
<1>4. MessagesMeanChange'
  BY DEF Threads, MessagesMeanChange, Consecutive
<1>5. Undelivered' = Undelivered
  BY DEF Undelivered, Sent
<1> QED
  BY <1>1, <1>2, <1>3, <1>4, <1>5 DEF Threads

\* m is a message that may follow the last one of the thread of e.
Follows(m, e) ==
    /\ m.kind # "initial" /\ alert[e].sig # m.sig
    /\ m.kind = "resolved" => alert[e].status # m.sig[2]
    /\ m.kind = "severity" => alert[e].prio # m.prio
    /\ m.kind = "update" => m.at - alert[e].sentAt >= Cooldown /\ Grown(m.sig, alert[e].sig)

LEMMA ThreadsGrow ==
  ASSUME Typed, Threads, NEW e \in Quakes, NEW m \in MessageRow, NEW entry \in AlertRow,
         thread' = [thread EXCEPT ![e] = Append(@, m)],
         alert' = [alert EXCEPT ![e] = entry],
         entry.sig = m.sig, entry.sentAt = m.at, entry.status = m.sig[2],
         m.kind \in {"initial", "severity"} => entry.prio = m.prio,
         thread[e] # <<>> => Follows(m, e)
  PROVE  /\ Threads'
         /\ thread' \in [Events -> Seq(MessageRow)]
         /\ alert' \in [Events -> AlertRow \cup {NoAlert}]
         /\ thread'[e] # <<>> /\ Len(thread'[e]) = Len(thread[e]) + 1
         /\ thread'[e][Len(thread'[e])] = m
         /\ Undelivered' \subseteq Undelivered \cup {<<e, Len(thread[e]) + 1>>}
<1> DEFINE n == Len(thread[e])
<1>1. e \in Events /\ e \notin News /\ thread[e] \in Seq(MessageRow) /\ n \in Nat
      /\ DOMAIN thread[e] = 1 .. n
  BY AlertsAssumption, LenProperties DEF Events, Typed
<1>2. /\ thread'[e] \in Seq(MessageRow) /\ Len(thread'[e]) = n + 1
      /\ DOMAIN thread'[e] = 1 .. n + 1
      /\ \A i \in 1 .. n : thread'[e][i] = thread[e][i]
      /\ thread'[e][n + 1] = m
  <2>1. thread'[e] = Append(thread[e], m)
    BY <1>1 DEF Typed
  <2>2. /\ Append(thread[e], m) \in Seq(MessageRow)
        /\ Len(Append(thread[e], m)) = n + 1
        /\ \A i \in 1 .. n : Append(thread[e], m)[i] = thread[e][i]
        /\ Append(thread[e], m)[n + 1] = m
    BY <1>1, AppendProperties
  <2>3. DOMAIN Append(thread[e], m) = 1 .. n + 1
    BY <2>2, LenProperties
  <2> QED
    BY <2>1, <2>2, <2>3
<1>3. \A x \in Events : x # e => thread'[x] = thread[x] /\ alert'[x] = alert[x]
  BY DEF Typed
<1>4. alert'[e] = entry /\ entry # NoAlert
  BY <1>1 DEF Typed, AlertRow, NoAlert, Priorities
<1>5. thread'[e] # <<>> /\ thread'[e][Len(thread'[e])] = m
  BY <1>1, <1>2, EmptySeq
<1>6. thread' \in [Events -> Seq(MessageRow)] /\ alert' \in [Events -> AlertRow \cup {NoAlert}]
  BY <1>2 DEF Typed
<1>7. RowsTellLast'
  <2>1. TellsLast(e)'
    BY <1>4, <1>5 DEF TellsLast, HasAlert
  <2>2. \A x \in Events : x # e /\ thread'[x] # <<>> => TellsLast(x)'
    BY <1>3 DEF Threads, RowsTellLast, TellsLast, HasAlert
  <2> QED
    BY <2>1, <2>2 DEF RowsTellLast
<1>8. InitialFirst'
  <2>1. ASSUME NEW i \in DOMAIN thread'[e], thread'[e][i].kind = "initial" PROVE i = 1
    <3>1. CASE i \in 1 .. n
      BY <1>1, <1>2, <2>1, <3>1 DEF Threads, InitialFirst
    <3>2. CASE i = n + 1
      <4>1. thread[e] = <<>>
        BY <1>2, <2>1, <3>2 DEF Follows
      <4> QED
        BY <3>2, <4>1
    <3> QED
      BY <1>1, <1>2, <3>1, <3>2
  <2> QED
    BY <1>1, <1>3, <2>1 DEF Threads, InitialFirst
<1>9. /\ Consecutive(e)' = Consecutive(e) \cup (IF n = 0 THEN {} ELSE {n})
      /\ \A i \in Consecutive(e) : thread'[e][i] = thread[e][i] /\ thread'[e][i + 1] = thread[e][i + 1]
      /\ \A x \in Events : x # e => Consecutive(x)' = Consecutive(x)
  BY <1>1, <1>2, <1>3 DEF Consecutive
<1>10. ASSUME n # 0
       PROVE  /\ Follows(m, e) /\ TellsLast(e)
              /\ thread'[e][n] = thread[e][n] /\ thread'[e][n + 1] = m
  <2>1. thread[e] # <<>> /\ n \in 1 .. n
    BY <1>1, <1>10
  <2> QED
    BY <1>1, <1>2, <2>1 DEF Threads, RowsTellLast
<1>11. UpdatesEarned'
  <2> SUFFICES ASSUME NEW x \in Events, NEW i \in Consecutive(x)',
                      thread'[x][i + 1].kind = "update"
               PROVE  /\ thread'[x][i + 1].at - thread'[x][i].at >= Cooldown
                      /\ Grown(thread'[x][i + 1].sig, thread'[x][i].sig)
    BY DEF UpdatesEarned
  <2>1. CASE x # e
    BY <1>3, <1>9, <2>1 DEF Threads, UpdatesEarned
  <2>2. CASE x = e /\ i \in Consecutive(e)
    <3>1. thread'[x][i] = thread[x][i] /\ thread'[x][i + 1] = thread[x][i + 1]
      BY <1>9, <2>2
    <3>2. x \in Events /\ i \in Consecutive(x)
      BY <2>2
    <3> QED
      BY <3>1, <3>2 DEF Threads, UpdatesEarned
  <2>3. CASE x = e /\ n # 0 /\ i = n
    BY <1>10, <2>3 DEF Follows, TellsLast
  <2> QED
    BY <1>9, <2>1, <2>2, <2>3
<1>12. MessagesMeanChange'
  <2> SUFFICES ASSUME NEW x \in Events, NEW i \in Consecutive(x)'
               PROVE  LET before == thread'[x][i]
                          next == thread'[x][i + 1]
                      IN  /\ before.sig # next.sig
                          /\ before.kind = "resolved" /\ next.kind = "resolved" =>
                                before.sig[2] # next.sig[2]
                          /\ before.kind \in {"initial", "severity"} /\ next.kind = "severity" =>
                                before.prio # next.prio
    BY DEF MessagesMeanChange
  <2>1. CASE x # e
    BY <1>3, <1>9, <2>1 DEF Threads, MessagesMeanChange
  <2>2. CASE x = e /\ i \in Consecutive(e)
    <3>1. thread'[x][i] = thread[x][i] /\ thread'[x][i + 1] = thread[x][i + 1]
      BY <1>9, <2>2
    <3>2. x \in Events /\ i \in Consecutive(x)
      BY <2>2
    <3> QED
      BY <3>1, <3>2 DEF Threads, MessagesMeanChange
  <2>3. CASE x = e /\ n # 0 /\ i = n
    BY <1>10, <2>3 DEF Follows, TellsLast
  <2> QED
    BY <1>9, <2>1, <2>2, <2>3
<1>13. Undelivered' \subseteq Undelivered \cup {<<e, n + 1>>}
  <2> SUFFICES ASSUME NEW x \in Events, NEW i \in DOMAIN thread'[x],
                      ~thread'[x][i].delivered, <<x, i>> # <<e, n + 1>>
               PROVE  <<x, i>> \in Undelivered
    BY DEF Undelivered, Sent
  <2>1. i \in DOMAIN thread[x] /\ thread'[x][i] = thread[x][i]
    BY <1>1, <1>2, <1>3
  <2> QED
    BY <2>1 DEF Undelivered, Sent
<1> QED
  BY <1>2, <1>5, <1>6, <1>7, <1>8, <1>11, <1>12, <1>13 DEF Threads

LEMMA ThreadsDelivered ==
  ASSUME Typed, Threads, NEW e \in Quakes, thread[e] # <<>>, UNCHANGED alert,
         thread' = [thread EXCEPT ![e][Len(thread[e])].delivered = TRUE]
  PROVE  /\ Threads'
         /\ thread' \in [Events -> Seq(MessageRow)]
         /\ Undelivered' \subseteq Undelivered \ {<<e, Len(thread[e])>>}
<1> DEFINE n == Len(thread[e])
           told == [thread[e][n] EXCEPT !.delivered = TRUE]
<1>1. /\ e \in Events /\ e \notin News /\ thread[e] \in Seq(MessageRow) /\ n \in Nat
      /\ DOMAIN thread[e] = 1 .. n /\ n \in 1 .. n
  <2>1. e \in Events /\ e \notin News /\ thread[e] \in Seq(MessageRow)
    BY AlertsAssumption DEF Events, Typed
  <2>2. n \in Nat /\ DOMAIN thread[e] = 1 .. n /\ n # 0
    BY <2>1, LenProperties, EmptySeq
  <2> QED
    BY <2>1, <2>2
<1>2. told \in MessageRow /\ told.delivered /\ thread[e][n] \in MessageRow
      /\ told.kind = thread[e][n].kind /\ told.prio = thread[e][n].prio
      /\ told.sig = thread[e][n].sig /\ told.at = thread[e][n].at
  <2>1. thread[e][n] \in MessageRow
    BY <1>1, ElementOfSeq
  <2> QED
    BY <2>1 DEF MessageRow
<1>3. thread'[e] = [thread[e] EXCEPT ![n] = told] /\ \A x \in Events : x # e => thread'[x] = thread[x]
  BY <1>1 DEF Typed
<1> HIDE DEF told
<1>4. /\ thread'[e] \in Seq(MessageRow) /\ Len(thread'[e]) = n /\ DOMAIN thread'[e] = 1 .. n
      /\ thread'[e][n] = told /\ \A i \in 1 .. n : i # n => thread'[e][i] = thread[e][i]
  <2>1. [thread[e] EXCEPT ![n] = told] \in Seq(MessageRow)
        /\ Len([thread[e] EXCEPT ![n] = told]) = n
    BY <1>1, <1>2, ExceptSeq
  <2>2. DOMAIN [thread[e] EXCEPT ![n] = told] = 1 .. n
    BY <1>1
  <2>3. /\ [thread[e] EXCEPT ![n] = told][n] = told
        /\ \A i \in 1 .. n : i # n => [thread[e] EXCEPT ![n] = told][i] = thread[e][i]
    BY <1>1
  <2> QED
    BY <1>3, <2>1, <2>2, <2>3
<1>5. \A x \in Events : \A i \in DOMAIN thread[x] :
         /\ thread'[x][i].kind = thread[x][i].kind /\ thread'[x][i].prio = thread[x][i].prio
         /\ thread'[x][i].sig = thread[x][i].sig /\ thread'[x][i].at = thread[x][i].at
  <2> SUFFICES ASSUME NEW x \in Events, NEW i \in DOMAIN thread[x]
               PROVE  /\ thread'[x][i].kind = thread[x][i].kind
                      /\ thread'[x][i].prio = thread[x][i].prio
                      /\ thread'[x][i].sig = thread[x][i].sig /\ thread'[x][i].at = thread[x][i].at
    OBVIOUS
  <2>1. CASE x = e /\ i = n
    BY <1>2, <1>4, <2>1
  <2>2. CASE x # e \/ i # n
    <3>1. thread'[x][i] = thread[x][i]
      BY <1>1, <1>3, <1>4, <2>2
    <3> QED
      BY <3>1
  <2> QED
    BY <2>1, <2>2
<1>6. \A x \in Events : /\ Len(thread'[x]) = Len(thread[x]) /\ DOMAIN thread'[x] = DOMAIN thread[x]
                        /\ thread[x] \in Seq(MessageRow) /\ DOMAIN thread[x] = 1 .. Len(thread[x])
                        /\ Len(thread[x]) \in Nat
                        /\ thread'[x] # <<>> => thread[x] # <<>> /\ Len(thread[x]) \in DOMAIN thread[x]
  <2>1. \A x \in Events : /\ thread[x] \in Seq(MessageRow) /\ DOMAIN thread[x] = 1 .. Len(thread[x])
                          /\ Len(thread[x]) \in Nat
    BY LenProperties DEF Typed
  <2>2. \A x \in Events : thread[x] # <<>> => Len(thread[x]) \in DOMAIN thread[x]
    <3> TAKE x \in Events
    <3>1. thread[x] # <<>> => Len(thread[x]) # 0
      BY <2>1, EmptySeq
    <3> QED
      BY <2>1, <3>1
  <2> QED
    BY <1>1, <1>3, <1>4, <2>1, <2>2
<1>7. RowsTellLast'
  <2> SUFFICES ASSUME NEW x \in Events, thread'[x] # <<>>
               PROVE  TellsLast(x)'
    BY DEF RowsTellLast
  <2>1. TellsLast(x) /\ Len(thread[x]) \in DOMAIN thread[x] /\ Len(thread'[x]) = Len(thread[x])
    BY <1>6 DEF Threads, RowsTellLast
  <2> QED
    BY <1>5, <2>1 DEF TellsLast, HasAlert
<1>8. InitialFirst'
  BY <1>1, <1>3, <1>5, <1>6 DEF Threads, InitialFirst
<1>9. \A x \in Events : /\ Consecutive(x)' = Consecutive(x)
                        /\ \A i \in Consecutive(x) : i \in DOMAIN thread[x] /\ i + 1 \in DOMAIN thread[x]
  <2> TAKE x \in Events
  <2>1. Consecutive(x)' = Consecutive(x)
    BY <1>6 DEF Consecutive
  <2>2. DOMAIN thread[x] = 1 .. Len(thread[x]) /\ Len(thread[x]) \in Nat
    BY <1>6
  <2> QED
    BY <2>1, <2>2 DEF Consecutive
<1>10. UpdatesEarned'
  <2> SUFFICES ASSUME NEW x \in Events, NEW i \in Consecutive(x),
                      thread'[x][i + 1].kind = "update"
               PROVE  /\ thread'[x][i + 1].at - thread'[x][i].at >= Cooldown
                      /\ Grown(thread'[x][i + 1].sig, thread'[x][i].sig)
    BY <1>9 DEF UpdatesEarned
  <2>1. /\ thread'[x][i].at = thread[x][i].at /\ thread'[x][i + 1].at = thread[x][i + 1].at
        /\ thread'[x][i].sig = thread[x][i].sig /\ thread'[x][i + 1].sig = thread[x][i + 1].sig
        /\ thread'[x][i + 1].kind = thread[x][i + 1].kind
    BY <1>5, <1>9
  <2> QED
    BY <2>1 DEF Threads, UpdatesEarned
<1>11. MessagesMeanChange'
  <2> SUFFICES ASSUME NEW x \in Events, NEW i \in Consecutive(x)
               PROVE  LET before == thread'[x][i]
                          next == thread'[x][i + 1]
                      IN  /\ before.sig # next.sig
                          /\ before.kind = "resolved" /\ next.kind = "resolved" =>
                                before.sig[2] # next.sig[2]
                          /\ before.kind \in {"initial", "severity"} /\ next.kind = "severity" =>
                                before.prio # next.prio
    BY <1>9 DEF MessagesMeanChange
  <2>1. /\ thread'[x][i].prio = thread[x][i].prio /\ thread'[x][i + 1].prio = thread[x][i + 1].prio
        /\ thread'[x][i].sig = thread[x][i].sig /\ thread'[x][i + 1].sig = thread[x][i + 1].sig
        /\ thread'[x][i].kind = thread[x][i].kind /\ thread'[x][i + 1].kind = thread[x][i + 1].kind
    BY <1>5, <1>9
  <2> QED
    BY <2>1 DEF Threads, MessagesMeanChange
<1>12. Undelivered' \subseteq Undelivered \ {<<e, n>>}
  <2> SUFFICES ASSUME NEW x \in Events, NEW i \in DOMAIN thread'[x],
                      ~thread'[x][i].delivered
               PROVE  <<x, i>> \in Undelivered /\ <<x, i>> # <<e, n>>
    BY DEF Undelivered, Sent
  <2>1. x # e \/ i # n
    BY <1>2, <1>4
  <2>2. thread'[x][i] = thread[x][i] /\ i \in DOMAIN thread[x]
    BY <1>1, <1>3, <1>4, <2>1
  <2> QED
    BY <2>1, <2>2 DEF Undelivered, Sent
<1>13. thread' \in [Events -> Seq(MessageRow)]
  BY <1>3, <1>4 DEF Typed
<1> QED
  BY <1>7, <1>8, <1>10, <1>11, <1>12, <1>13 DEF Threads

-----------------------------------------------------------------------------
(* The messages with no delivery recorded, counted.                        *)

Delivering == IF pc = "deliver" THEN 1 ELSE 0

LEMMA CountStays ==
  ASSUME StraysCounted, Undelivered' \subseteq Undelivered, aborts \in Nat, aborts' \in Nat,
         aborts' + Delivering' >= aborts + Delivering
  PROVE  StraysCounted'
<1>1. /\ IsFiniteSet(Undelivered)
      /\ Cardinality(Undelivered) <= aborts + Delivering
      /\ Cardinality(Undelivered) \in Nat
  BY FS_CardinalityType DEF StraysCounted, UndeliveredOnlyByCrash, Delivering
<1>2. /\ IsFiniteSet(Undelivered') /\ Cardinality(Undelivered') <= Cardinality(Undelivered)
      /\ Cardinality(Undelivered') \in Nat
  BY <1>1, FS_Subset, FS_CardinalityType
<1>3. PICK d \in Nat, f \in Nat : d = Delivering /\ f = Delivering'
  BY DEF Delivering
<1>4. aborts' + f >= aborts + d
  BY <1>3
<1>5. Cardinality(Undelivered) <= aborts + d
  BY <1>1, <1>3
<1>6. Cardinality(Undelivered') <= aborts' + f
  <2> DEFINE c == Cardinality(Undelivered)
             k == Cardinality(Undelivered')
             x == aborts + d
             y == aborts' + f
  <2>1. c \in Int /\ k \in Int /\ x \in Int /\ y \in Int
    BY <1>1, <1>2
  <2>2. k <= c /\ c <= x /\ y >= x
    BY <1>2, <1>4, <1>5
  <2> HIDE DEF c, k, x, y
  <2>3. k <= y
    BY <2>1, <2>2
  <2> QED
    BY <2>3 DEF k, y
<1> QED
  BY <1>2, <1>3, <1>6 DEF StraysCounted, UndeliveredOnlyByCrash, Delivering

LEMMA CountGrows ==
  ASSUME StraysCounted, NEW x, Undelivered' \subseteq Undelivered \cup {x},
         aborts \in Nat, aborts' = aborts, pc # "deliver", pc' = "deliver"
  PROVE  StraysCounted'
<1>1. /\ IsFiniteSet(Undelivered)
      /\ Cardinality(Undelivered) <= aborts
      /\ Cardinality(Undelivered) \in Nat
  BY FS_CardinalityType DEF StraysCounted, UndeliveredOnlyByCrash
<1>2. /\ IsFiniteSet(Undelivered \cup {x})
      /\ Cardinality(Undelivered \cup {x}) <= Cardinality(Undelivered) + 1
      /\ Cardinality(Undelivered \cup {x}) \in Nat
  BY <1>1, FS_AddElement, FS_CardinalityType
<1>3. /\ IsFiniteSet(Undelivered')
      /\ Cardinality(Undelivered') <= Cardinality(Undelivered \cup {x})
      /\ Cardinality(Undelivered') \in Nat
  BY <1>2, FS_Subset, FS_CardinalityType
<1>4. Cardinality(Undelivered') <= aborts' + 1
  BY <1>1, <1>2, <1>3
<1> QED
  BY <1>3, <1>4 DEF StraysCounted, UndeliveredOnlyByCrash

LEMMA CountFalls ==
  ASSUME StraysCounted, NEW x \in Undelivered, Undelivered' \subseteq Undelivered \ {x},
         aborts \in Nat, aborts' = aborts, pc = "deliver", pc' # "deliver"
  PROVE  StraysCounted'
<1>1. /\ IsFiniteSet(Undelivered)
      /\ Cardinality(Undelivered) <= aborts + 1
      /\ Cardinality(Undelivered) \in Nat
  BY FS_CardinalityType DEF StraysCounted, UndeliveredOnlyByCrash
<1>2. /\ IsFiniteSet(Undelivered \ {x})
      /\ Cardinality(Undelivered \ {x}) = Cardinality(Undelivered) - 1
  BY <1>1, FS_RemoveElement
<1>3. /\ IsFiniteSet(Undelivered')
      /\ Cardinality(Undelivered') <= Cardinality(Undelivered \ {x})
      /\ Cardinality(Undelivered') \in Nat
  BY <1>2, FS_Subset, FS_CardinalityType
<1>4. Cardinality(Undelivered') <= aborts' + 0
  BY <1>1, <1>2, <1>3
<1> QED
  BY <1>3, <1>4 DEF StraysCounted, UndeliveredOnlyByCrash

-----------------------------------------------------------------------------
(* The steps.                                                              *)

LEMMA AlertsInit == Init => AInv
<1> SUFFICES ASSUME Init PROVE AInv
  OBVIOUS
<1>1. /\ \A e \in Events : ev[e] \in EventRow /\ alert[e] = NoAlert /\ thread[e] = <<>>
      /\ pc = "idle" /\ aborts = 0
  BY AlertsAssumption DEF Init, EventRow
<1>2. Typed
  BY <1>1, EmptySeq DEF Init, Typed
<1>3. Underway
  BY <1>1 DEF Underway
<1>4. RowsTellLast /\ InitialFirst
  BY <1>1, AlertsAssumption DEF RowsTellLast, InitialFirst, Events
<1>5. UpdatesEarned /\ MessagesMeanChange
  <2>1. \A e \in Events : Consecutive(e) = {}
    BY <1>1 DEF Consecutive
  <2> QED
    BY <2>1 DEF UpdatesEarned, MessagesMeanChange
<1>6. StraysCounted
  <2>1. Undelivered = {}
    BY <1>1 DEF Undelivered, Sent
  <2>2. IsFiniteSet(Undelivered) /\ Cardinality(Undelivered) = 0
    BY <2>1, FS_EmptySet
  <2> QED
    BY <1>1, <2>2 DEF StraysCounted, UndeliveredOnlyByCrash
<1> QED
  BY <1>2, <1>3, <1>4, <1>5, <1>6 DEF AInv

\* A step that writes no thread and no alert.
LEMMA QuietKeeps ==
  ASSUME AInv, Typed', Underway', UNCHANGED <<alert, thread>>,
         aborts' + Delivering' >= aborts + Delivering
  PROVE  AInv'
<1>1. Threads' /\ Undelivered' = Undelivered
  BY ThreadsStay DEF AInv, Threads
<1>2. StraysCounted'
  BY <1>1, CountStays DEF AInv, Typed
<1> QED
  BY <1>1, <1>2 DEF AInv, Threads

LEMMA EnvironmentKeeps == AInv /\ Environment => AInv'
<1> SUFFICES ASSUME AInv, Environment PROVE AInv'
  OBVIOUS
<1>1. PICK e \in Events :
         \/ \E size \in Sizes : NewEvent(e, size) \/ Revise(e, size)
         \/ \E status \in EndStatuses : EndEvent(e, status)
         \/ \E independent \in {0, 1} : LinkArticle(e, independent)
  BY DEF Environment
<1>2. UNCHANGED <<alert, thread, pc, todo, planned, view, now, aborts>> /\ changes' = changes + 1
  BY <1>1 DEF NewEvent, Revise, EndEvent, LinkArticle, Change, loopVars
<1>3. recency' = recency \/ Touched(e)
  BY <1>1 DEF NewEvent, Revise, EndEvent, LinkArticle
<1>4. ev[e] \in EventRow /\ ev' = [ev EXCEPT ![e] = ev'[e]]
  BY <1>1 DEF AInv, Typed, NewEvent, Revise, EndEvent, LinkArticle
<1>5. ev'[e] \in EventRow
  <2>1. ASSUME NEW size \in Sizes, NewEvent(e, size) \/ Revise(e, size) PROVE ev'[e] \in EventRow
    <3>1. CASE NewEvent(e, size)
      <4>1. ev'[e] = [ev[e] EXCEPT !.status = "active", !.size = size]
        BY <3>1 DEF AInv, Typed, NewEvent
      <4> QED
        BY <1>4, <4>1 DEF EventRow
    <3>2. CASE Revise(e, size)
      <4>1. ev'[e] = [ev[e] EXCEPT !.size = size]
        BY <3>2 DEF AInv, Typed, Revise
      <4> QED
        BY <1>4, <4>1 DEF EventRow
    <3> QED
      BY <2>1, <3>1, <3>2
  <2>2. ASSUME NEW status \in EndStatuses, EndEvent(e, status) PROVE ev'[e] \in EventRow
    BY <1>4, <2>2, AlertsAssumption DEF AInv, Typed, EventRow, EndEvent
  <2>3. ASSUME NEW independent \in {0, 1}, LinkArticle(e, independent) PROVE ev'[e] \in EventRow
    <3>1. ev'[e] = [ev[e] EXCEPT !.articles = @ + 1, !.sources = @ + independent,
                                 !.status = "updated"]
      BY <2>3 DEF AInv, Typed, LinkArticle
    <3>2. ev[e].articles + 1 \in Nat /\ ev[e].sources + independent \in Nat
      BY <1>4, <2>3 DEF EventRow
    <3> QED
      BY <1>4, <3>1, <3>2 DEF EventRow
  <2> QED
    BY <1>1, <2>1, <2>2, <2>3
<1>6. recency' \in Seq(Events)
  <2> DEFINE others == {i \in DOMAIN recency : recency[i] # e}
  <2>1. \A i \in others : recency[i] \in Events
    BY LenProperties, ElementOfSeq DEF AInv, Typed
  <2>2. others \in SUBSET DOMAIN recency
    OBVIOUS
  <2> HIDE DEF others
  <2>3. InOrder(others) \in Seq(Events)
    BY <2>1, <2>2, InOrderType DEF AInv, Typed
  <2>4. <<e>> \o InOrder(others) \in Seq(Events)
    BY <2>3, ConcatProperties
  <2> QED
    BY <1>3, <2>4 DEF Touched, others, AInv, Typed
<1>7. Typed'
  <2>1. ev' \in [Events -> EventRow]
    BY <1>4, <1>5 DEF AInv, Typed
  <2> QED
    BY <1>2, <1>6, <2>1 DEF AInv, Typed
<1>8. Underway'
  BY <1>2 DEF AInv, Underway, HasAlert, Current, Status
<1>9. aborts' + Delivering' >= aborts + Delivering
  BY <1>2 DEF AInv, Typed, Delivering
<1> QED
  BY <1>2, <1>7, <1>8, <1>9, QuietKeeps

\* Nothing of Underway is asked of a loop that is idle or plans.
LEMMA FreeLoop ==
  ASSUME pc' \in {"idle", "plan"}
  PROVE  Underway'
BY DEF Underway

LEMMA SelectKeeps == AInv /\ Select => AInv'
<1> SUFFICES ASSUME AInv, Select PROVE AInv'
  OBVIOUS
<1>1. /\ pc = "idle" /\ pc' = "plan" /\ view' = ev
      /\ UNCHANGED <<ev, recency, changes, alert, thread, planned, now, aborts>>
      /\ todo' = Load(Alertable(MissingAlerts) \o Alertable(WithAlerts))
  BY DEF Select, envVars
<1>2. todo' \in Seq(Item)
  <2>1. MissingAlerts \in SUBSET DOMAIN recency /\ WithAlerts \in SUBSET DOMAIN recency
    BY DEF MissingAlerts, WithAlerts, Latest
  <2>2. Alertable(MissingAlerts) \in Seq(Quakes) /\ Alertable(WithAlerts) \in Seq(Quakes)
    BY <2>1, AlertableType DEF AInv
  <2>3. Alertable(MissingAlerts) \o Alertable(WithAlerts) \in Seq(Quakes)
    BY <2>2, ConcatProperties
  <2> QED
    BY <1>1, <2>3, LoadType DEF AInv
<1>3. Typed'
  BY <1>1, <1>2 DEF AInv, Typed
<1>4. aborts' + Delivering' >= aborts + Delivering
  BY <1>1 DEF AInv, Typed, Delivering
<1> QED
  BY <1>1, <1>3, <1>4, FreeLoop, QuietKeeps

LEMMA SkipKeeps == AInv /\ Skip => AInv'
<1> SUFFICES ASSUME AInv, Skip PROVE AInv'
  OBVIOUS
<1>1. /\ pc = "plan" /\ pc' = "plan" /\ todo # <<>> /\ todo' = Tail(todo) /\ view' = Seen
      /\ UNCHANGED <<ev, recency, changes, alert, thread, planned, now, aborts>>
  BY DEF Skip, envVars
<1>2. todo' \in Seq(Item) /\ view' \in [Events -> EventRow]
  BY <1>1, CurrentType DEF AInv
<1>3. Typed'
  BY <1>1, <1>2 DEF AInv, Typed
<1>4. aborts' + Delivering' >= aborts + Delivering
  BY <1>1 DEF AInv, Typed, Delivering
<1> QED
  BY <1>1, <1>3, <1>4, FreeLoop, QuietKeeps

LEMMA EndCycleKeeps == AInv /\ EndCycle => AInv'
<1> SUFFICES ASSUME AInv, EndCycle PROVE AInv'
  OBVIOUS
<1>1. /\ pc = "plan" /\ pc' = "idle" /\ view' = NoView
      /\ UNCHANGED <<ev, recency, changes, alert, thread, todo, planned, now, aborts>>
  BY DEF EndCycle, envVars
<1>2. Typed'
  BY <1>1 DEF AInv, Typed
<1>3. aborts' + Delivering' >= aborts + Delivering
  BY <1>1 DEF AInv, Typed, Delivering
<1> QED
  BY <1>1, <1>2, <1>3, FreeLoop, QuietKeeps

LEMMA AbortKeeps == AInv /\ Abort => AInv'
<1> SUFFICES ASSUME AInv, Abort PROVE AInv'
  OBVIOUS
<1>1. /\ pc' = "idle" /\ todo' = <<>> /\ view' = NoView /\ aborts' = aborts + 1
      /\ UNCHANGED <<ev, recency, changes, alert, thread, now>>
  BY DEF Abort, envVars
<1>2. Typed'
  BY <1>1, EmptySeq DEF AInv, Typed
<1>3. aborts' + Delivering' >= aborts + Delivering
  BY <1>1 DEF AInv, Typed, Delivering
<1> QED
  BY <1>1, <1>2, <1>3, FreeLoop, QuietKeeps

LEMMA TickKeeps == AInv /\ Tick => AInv'
<1> SUFFICES ASSUME AInv, Tick PROVE AInv'
  OBVIOUS
<1>1. /\ now' = now + 1
      /\ UNCHANGED <<ev, recency, changes, alert, thread, pc, todo, planned, view, aborts>>
  BY DEF Tick, envVars, loopVars
<1>2. Typed'
  BY <1>1 DEF AInv, Typed
<1>3. Underway'
  BY <1>1 DEF AInv, Underway, HasAlert, Current, Status
<1>4. aborts' + Delivering' >= aborts + Delivering
  BY <1>1 DEF AInv, Typed, Delivering
<1> QED
  BY <1>1, <1>2, <1>3, <1>4, QuietKeeps

\* An event that gets its row has no message yet.
LEMMA OpenKeeps == AInv /\ Open => AInv'
<1> SUFFICES ASSUME AInv, Open PROVE AInv'
  OBVIOUS
<1>1. PICK e \in Quakes, entry \in AlertRow :
         /\ e = Current /\ e \in Events /\ ~HasAlert(e)
         /\ alert' = [alert EXCEPT ![e] = entry] /\ entry.prio \in Priorities
  <2>1. todo # <<>> /\ ~HasAlert(Current)
    BY DEF Open, Wants
  <2>2. [prio |-> Priority, status |-> Status, sig |-> <<>>, sentAt |-> -1] \in AlertRow
    BY <2>1, CurrentType DEF AInv, AlertRow
  <2> QED
    BY <2>1, <2>2, CurrentType DEF AInv, Open, AlertRow
<1>2. /\ pc = "plan" /\ pc' = "announce" /\ todo # <<>> /\ view' = NoView
      /\ planned' = <<Priority, Signature>>
      /\ UNCHANGED <<ev, recency, changes, thread, todo, now, aborts>>
  BY DEF Open, envVars
<1>3. thread[e] = <<>>
  BY <1>1 DEF AInv, RowsTellLast, TellsLast
<1>4. alert'[e] # NoAlert /\ \A x \in Events : x # e => alert'[x] = alert[x]
  BY <1>1 DEF AInv, Typed, NoAlert, Priorities
<1>5. Typed'
  BY <1>1, <1>2 DEF AInv, Typed
<1>6. Underway'
  <2>1. Current' = e /\ Status' = Status
    BY <1>1, <1>2 DEF Current, Status
  <2>2. planned' \in Priorities \X Signatures /\ planned'[2][2] = Status
    BY <1>2, CurrentType DEF AInv
  <2> QED
    BY <1>2, <1>3, <1>4, <2>1, <2>2 DEF Underway, HasAlert
<1>7. RowsTellLast'
  BY <1>2, <1>3, <1>4 DEF AInv, RowsTellLast, TellsLast, HasAlert
<1>8. InitialFirst' /\ UpdatesEarned' /\ MessagesMeanChange'
  BY <1>2 DEF AInv, InitialFirst, UpdatesEarned, MessagesMeanChange, Consecutive
<1>9. StraysCounted'
  <2>1. Undelivered' = Undelivered
    BY <1>2 DEF Undelivered, Sent
  <2>2. aborts' + Delivering' >= aborts + Delivering
    BY <1>2 DEF AInv, Typed, Delivering
  <2> QED
    BY <1>2, <2>1, <2>2, CountStays DEF AInv, Typed
<1> QED
  BY <1>5, <1>6, <1>7, <1>8, <1>9 DEF AInv

\* The commit of a message that is the first or may follow the last one.
LEMMA NotifyKeeps ==
  ASSUME AInv, NEW kind \in Kinds, NEW prio \in Priorities, NEW sig \in Signatures,
         Notify(kind, prio, sig), todo # <<>>, pc \in {"plan", "announce"},
         UNCHANGED <<envVars, todo, now, aborts>>,
         HasAlert(Current), sig[2] = Status,
         thread[Current] # <<>> => Follows(Message(kind, prio, sig), Current)
  PROVE  AInv'
<1>1. PICK e \in Quakes, m \in MessageRow, entry \in AlertRow :
         /\ e = Current /\ m = Message(kind, prio, sig) /\ ~m.delivered
         /\ thread' = [thread EXCEPT ![e] = Append(@, m)]
         /\ alert' = [alert EXCEPT ![e] = entry]
         /\ entry.sig = m.sig /\ entry.sentAt = m.at /\ entry.status = m.sig[2]
         /\ m.kind \in {"initial", "severity"} => entry.prio = m.prio
  <2> DEFINE a == alert[Current]
             entry == [prio |-> IF kind \in {"initial", "severity"} THEN prio ELSE a.prio,
                     status |-> Status, sig |-> sig, sentAt |-> now]
  <2>1. Current \in Quakes /\ Current \in Events /\ Status \in Statuses
    BY CurrentType DEF AInv
  <2>2. Message(kind, prio, sig) \in MessageRow /\ ~Message(kind, prio, sig).delivered
    BY DEF AInv, Typed, Message, MessageRow, Priorities
  <2>3. a.prio \in Priorities
    BY <2>1 DEF AInv, Typed, HasAlert, AlertRow
  <2>4. entry \in AlertRow
    BY <2>1, <2>3 DEF AInv, Typed, AlertRow
  <2>5. /\ thread' = [thread EXCEPT ![Current] = Append(@, Message(kind, prio, sig))]
        /\ alert' = [alert EXCEPT ![Current] = entry]
    BY DEF Notify
  <2>6. /\ entry.sig = Message(kind, prio, sig).sig /\ entry.sentAt = Message(kind, prio, sig).at
        /\ entry.status = Message(kind, prio, sig).sig[2]
        /\ Message(kind, prio, sig).kind \in {"initial", "severity"} =>
              entry.prio = Message(kind, prio, sig).prio
    BY DEF Message
  <2> HIDE DEF entry
  <2> QED
    BY <2>1, <2>2, <2>4, <2>5, <2>6
<1>2. /\ pc' = "deliver" /\ view' = NoView
      /\ UNCHANGED <<ev, recency, changes, todo, now, aborts>>
  BY DEF Notify, envVars
<1>3. /\ Threads'
      /\ thread' \in [Events -> Seq(MessageRow)]
      /\ alert' \in [Events -> AlertRow \cup {NoAlert}]
      /\ thread'[e] # <<>> /\ thread'[e][Len(thread'[e])] = m
      /\ Undelivered' \subseteq Undelivered \cup {<<e, Len(thread[e]) + 1>>}
  BY <1>1, ThreadsGrow DEF AInv, Threads
<1>4. Typed'
  BY <1>2, <1>3 DEF AInv, Typed
<1>5. Underway'
  <2>1. Current' = e
    BY <1>1, <1>2 DEF Current
  <2> QED
    BY <1>1, <1>2, <1>3, <2>1 DEF Underway
<1>6. StraysCounted'
  BY <1>2, <1>3, CountGrows DEF AInv, Typed
<1> QED
  BY <1>3, <1>4, <1>5, <1>6 DEF AInv, Threads

LEMMA AnnounceKeeps == AInv /\ Announce => AInv'
<1> SUFFICES ASSUME AInv, Announce PROVE AInv'
  OBVIOUS
<1>1. /\ pc = "announce" /\ todo # <<>> /\ HasAlert(Current) /\ thread[Current] = <<>>
      /\ planned \in Priorities \X Signatures /\ planned[2][2] = Status
  BY DEF AInv, Underway, Announce
<1>2. planned[1] \in Priorities /\ planned[2] \in Signatures /\ "initial" \in Kinds
  BY <1>1 DEF Kinds
<1>3. Notify("initial", planned[1], planned[2]) /\ UNCHANGED <<envVars, todo, now, aborts>>
  BY DEF Announce
<1> QED
  BY <1>1, <1>2, <1>3, NotifyKeeps

\* What plan_alert wants to tell may follow what was told last.
LEMMA NoteKeeps == AInv /\ Note => AInv'
<1> SUFFICES ASSUME AInv, Note PROVE AInv'
  OBVIOUS
<1>1. PICK kind \in Kinds \ {"initial"} : Wants(kind) /\ Notify(kind, Priority, Signature)
  BY DEF Note
<1>2. pc = "plan" /\ todo # <<>> /\ UNCHANGED <<envVars, todo, now, aborts>>
  BY DEF Note
<1>3. /\ HasAlert(Current) /\ alert[Current].sig # Signature
      /\ kind = "resolved" => alert[Current].status # Status
      /\ kind = "severity" => Priority # alert[Current].prio
      /\ kind = "update" => Grown(Signature, alert[Current].sig) /\ Cooled(alert[Current])
  BY <1>1 DEF Wants
<1>4. Current \in Events /\ Priority \in Priorities /\ Signature \in Signatures
      /\ Signature[2] = Status
  BY <1>2, CurrentType DEF AInv
<1>5. ASSUME thread[Current] # <<>>
      PROVE  Follows(Message(kind, Priority, Signature), Current)
  <2>1. alert[Current].sentAt \in Nat
    <3>1. thread[Current] \in Seq(MessageRow)
      BY <1>4 DEF AInv, Typed
    <3>2. Len(thread[Current]) \in 1 .. Len(thread[Current])
      BY <1>5, <3>1, LenProperties, EmptySeq
    <3>3. thread[Current][Len(thread[Current])] \in MessageRow
      BY <3>1, <3>2, ElementOfSeq
    <3>4. alert[Current].sentAt = thread[Current][Len(thread[Current])].at
      BY <1>4, <1>5 DEF AInv, RowsTellLast, TellsLast
    <3> QED
      BY <3>3, <3>4 DEF MessageRow
  <2>2. kind = "update" => now - alert[Current].sentAt >= Cooldown
    BY <1>3, <2>1 DEF Cooled
  <2>3. /\ Message(kind, Priority, Signature).kind = kind
        /\ Message(kind, Priority, Signature).sig = Signature
        /\ Message(kind, Priority, Signature).at = now
        /\ kind = "severity" => Message(kind, Priority, Signature).prio = Priority
    BY DEF Message
  <2> QED
    BY <1>3, <1>4, <2>2, <2>3 DEF Follows
<1> QED
  BY <1>1, <1>2, <1>3, <1>4, <1>5, NotifyKeeps

LEMMA DeliverKeeps == AInv /\ Deliver => AInv'
<1> SUFFICES ASSUME AInv, Deliver PROVE AInv'
  OBVIOUS
<1>1. /\ pc = "deliver" /\ pc' = "plan" /\ view' = NoView /\ todo' = Tail(todo)
      /\ UNCHANGED <<ev, recency, changes, alert, planned, now, aborts>>
      /\ thread' = [thread EXCEPT ![Current][Len(thread[Current])].delivered = TRUE]
  BY DEF Deliver, envVars
<1>2. /\ todo # <<>> /\ thread[Current] # <<>>
      /\ ~thread[Current][Len(thread[Current])].delivered
  BY <1>1 DEF AInv, Underway
<1>3. PICK e \in Quakes : e = Current /\ e \in Events
  BY <1>2, CurrentType DEF AInv
<1>4. /\ Threads' /\ thread' \in [Events -> Seq(MessageRow)]
      /\ Undelivered' \subseteq Undelivered \ {<<e, Len(thread[e])>>}
  BY <1>1, <1>2, <1>3, ThreadsDelivered DEF AInv, Threads
<1>5. <<e, Len(thread[e])>> \in Undelivered
  <2>1. Len(thread[e]) \in DOMAIN thread[e]
    BY <1>2, <1>3, LenProperties, EmptySeq DEF AInv, Typed
  <2> QED
    BY <1>2, <1>3, <2>1 DEF Undelivered, Sent
<1>6. Typed'
  BY <1>1, <1>2, <1>4, CurrentType DEF AInv, Typed
<1>7. StraysCounted'
  BY <1>1, <1>4, <1>5, CountFalls DEF AInv, Typed
<1> QED
  BY <1>1, <1>4, <1>6, <1>7, FreeLoop DEF AInv, Threads

LEMMA AlertsNext == AInv /\ [Next]_vars => AInv'
<1> SUFFICES ASSUME AInv, [Next]_vars PROVE AInv'
  OBVIOUS
<1>1. CASE UNCHANGED vars
  <2>1. UNCHANGED <<ev, recency, changes, alert, thread, pc, todo, planned, view, now, aborts>>
    BY <1>1 DEF vars, envVars, loopVars
  <2>2. Typed' /\ Underway'
    BY <2>1 DEF AInv, Typed, Underway, HasAlert, Current, Status
  <2>3. aborts' + Delivering' >= aborts + Delivering
    BY <2>1 DEF AInv, Typed, Delivering
  <2> QED
    BY <2>1, <2>2, <2>3, QuietKeeps
<1> QED
  BY <1>1, EnvironmentKeeps, SelectKeeps, SkipKeeps, OpenKeeps, AnnounceKeeps, NoteKeeps,
     DeliverKeeps, EndCycleKeeps, AbortKeeps, TickKeeps DEF Next, Loop

-----------------------------------------------------------------------------
(* The theorems.                                                           *)

LEMMA AlertsInv == Spec => []AInv
BY AlertsInit, AlertsNext, PTL DEF Spec

\* Every variable stays in its range, and an alert row carries the signature
\* and the time of the last message of its thread.
THEOREM AlertsTypes == Spec => []TypeOK
<1>1. AInv => TypeOK
  BY DEF AInv, Typed, RowsTellLast, TellsLast, TypeOK, AlertRow, NoAlert
<1> QED
  BY <1>1, AlertsInv, PTL

\* Whatever crashes and however the events change under the loop, a thread
\* announces its event once, its updates are earned, each message says
\* something new, and messages without a delivery are as few as the crashes.
THEOREM AlertsThreads == Spec => []ThreadsMakeSense
<1>1. AInv => AnnouncedOnce
  <2> SUFFICES ASSUME AInv, NEW e \in Events
               PROVE  /\ Cardinality({i \in 1 .. Len(thread[e]) : thread[e][i].kind = "initial"}) <= 1
                      /\ e \in News => thread[e] = <<>>
    BY DEF AnnouncedOnce
  <2> DEFINE told == {i \in 1 .. Len(thread[e]) : thread[e][i].kind = "initial"}
  <2>1. told \in SUBSET {1}
    BY LenProperties DEF AInv, Typed, InitialFirst
  <2> HIDE DEF told
  <2>2. Cardinality(told) <= 1
    <3>1. IsFiniteSet({1}) /\ Cardinality({1}) = 1
      BY FS_Singleton
    <3>2. Cardinality(told) <= Cardinality({1})
      BY <2>1, <3>1, FS_Subset
    <3> QED
      BY <3>1, <3>2
  <2> QED
    BY <2>2 DEF told, AInv, InitialFirst
<1>2. AInv => ThreadsMakeSense
  BY <1>1 DEF AInv, ThreadsMakeSense, StraysCounted
<1> QED
  BY <1>2, AlertsInv, PTL

-----------------------------------------------------------------------------
(* The inductive invariant of Naming. *)

Labels == Names \cup {Default}
NoOr(ts) == ts \cup {NoTarget}
MessageKinds == {"none", "start", "stop", "edit", "list"} \cup Replies
TaskPlaces == {"free", "begin", "prompt", "ask", "name", "clear", "stop", "optout",
           "remember", "finish", "refused", "changed"}

\* The fields of a task; what a number of the list is about is left open.
Shaped(r) ==
    r \in [pc : TaskPlaces, kind : MessageKinds, target : {r.target}, name : Labels,
           interval : Good \cup {Bad}, number : {r.number}, meant : {r.meant},
           crossed : BOOLEAN, before : Labels, new : BOOLEAN]

\* Where a task of each kind can be, and what it holds there
Placed(r) ==
    /\ r.pc \in {"prompt", "ask"} => r.kind = "start"
    /\ r.pc \in {"name", "clear"} => r.kind \in Replies /\ r.target \in Targets
    /\ r.pc = "name" => r.kind = "name"
    /\ r.pc \in {"stop", "optout"} => r.kind = "stop"
    /\ r.pc \in {"remember", "finish", "refused", "changed"} => r.kind = "edit"
    /\ r.kind \in {"start", "edit"} => r.target \in Targets
    /\ r.kind \in {"name", "edit"} => r.name \in Names

Record == [id : Nat, enabled : BOOLEAN, name : Labels, interval : Good]

\* The ids of the rows are 1, 2, ... in some order: a new one is next.
RowsNumbered ==
    /\ row \in [Targets -> Record]
    /\ IsFiniteSet(Rows)
    /\ \A t \in Targets : /\ row[t].id <= Cardinality(Rows)
                          /\ row[t].id = 0 => ~row[t].enabled
    /\ \A t, u \in Rows : row[t].id = row[u].id => t = u
    /\ ids \cup spareIds \subseteq {row[t].id : t \in Rows}

NotesTyped ==
    /\ pending \in NoOr(Targets) /\ spare \in NoOr(Targets) /\ asked \in NoOr(Targets)
    /\ noted \subseteq Targets \X Names
    /\ jumbled \in BOOLEAN /\ sent \in 0 .. MaxMessages /\ troubles \in 0 .. MaxTroubles

\* While nothing has failed and no two questions were on their way, the prompt
\* is that of the question on its way or of the one asked last.
Question == troubles = 0 =>
    /\ spare = NoTarget
    /\ ~jumbled =>
         /\ \A m, n \in Tasks : task[m].pc = "ask" /\ task[n].pc = "ask" => m = n
         /\ \A n \in Tasks : task[n].pc = "ask" => pending \in {NoTarget, task[n].target}
         /\ ~Asking => pending \in {NoTarget, asked}

\* What a reply, a number and an edit rely on, unless something came between
ReplyReady(n) ==
    /\ task[n].pc = "begin" /\ task[n].kind \in Replies /\ ~task[n].crossed =>
         spare = NoTarget /\ pending \in {NoTarget, task[n].meant}
    /\ task[n].pc = "name" => task[n].target = task[n].meant \/ task[n].crossed
NumberReady(n) ==
    /\ task[n].pc = "begin" /\ task[n].kind = "stop" /\ ~task[n].crossed =>
         Listed(TRUE)[task[n].number] = task[n].meant
    /\ task[n].pc = "stop" => task[n].target = task[n].meant \/ task[n].crossed
EditReady(n) ==
    /\ task[n].pc = "remember" =>
         row[task[n].target].name = task[n].before \/ task[n].crossed
    /\ task[n].pc \in {"finish", "refused"} =>
         row[task[n].target].name = task[n].before \/ task[n].new \/ task[n].crossed

TaskInv(n) ==
    Shaped(task[n]) /\ Placed(task[n]) /\ ReplyReady(n) /\ NumberReady(n) /\ EditReady(n)

NInv ==
    /\ RowsNumbered /\ NotesTyped /\ Question
    /\ task = [n \in Tasks |-> task[n]]
    /\ \A n \in Tasks : TaskInv(n)

-----------------------------------------------------------------------------
(* Tasks that are not the one that moves                                    *)

Crossed(r) == [r EXCEPT !.crossed = TRUE]

LEMMA CrossedShape ==
  ASSUME NEW r, Shaped(r)
  PROVE  /\ Shaped(Crossed(r)) /\ Crossed(r).crossed
         /\ Crossed(r).pc = r.pc /\ Crossed(r).kind = r.kind /\ Crossed(r).target = r.target
         /\ Crossed(r).name = r.name /\ Crossed(r).interval = r.interval
         /\ Crossed(r).number = r.number /\ Crossed(r).meant = r.meant
         /\ Crossed(r).before = r.before /\ Crossed(r).new = r.new
<1>1. /\ Crossed(r).crossed
      /\ Crossed(r).pc = r.pc /\ Crossed(r).kind = r.kind /\ Crossed(r).target = r.target
      /\ Crossed(r).name = r.name /\ Crossed(r).interval = r.interval
      /\ Crossed(r).number = r.number /\ Crossed(r).meant = r.meant
      /\ Crossed(r).before = r.before /\ Crossed(r).new = r.new
  BY DEF Shaped, Crossed
<1>2. Crossed(r) \in [pc : TaskPlaces, kind : MessageKinds, target : {r.target}, name : Labels,
           interval : Good \cup {Bad}, number : {r.number}, meant : {r.meant},
           crossed : BOOLEAN, before : Labels, new : BOOLEAN]
  BY DEF Shaped, Crossed
<1> QED
  BY <1>1, <1>2 DEF Shaped

\* It is as it was, or has been told that something came between.
Stays(m) == task'[m] = task[m] \/ task'[m] = Crossed(task[m])

\* What it relies on has not changed, unless it has been told.
Relies(m) == ~task'[m].crossed =>
    /\ task[m].pc = "begin" /\ task[m].kind \in Replies =>
         spare' \in {spare, NoTarget} /\ pending' \in {pending, NoTarget}
    /\ task[m].pc = "begin" /\ task[m].kind = "stop" => Listed(TRUE)' = Listed(TRUE)
    /\ task[m].kind = "edit" => row'[task[m].target].name = row[task[m].target].name

LEMMA TaskStays ==
  ASSUME NEW m \in Tasks, TaskInv(m), Stays(m), Relies(m)
  PROVE  TaskInv(m)' /\ task'[m].pc = task[m].pc /\ task'[m].target = task[m].target
<1>1. /\ Shaped(task[m])'
      /\ task[m].crossed => task'[m].crossed
      /\ task'[m].pc = task[m].pc /\ task'[m].kind = task[m].kind
      /\ task'[m].target = task[m].target /\ task'[m].name = task[m].name
      /\ task'[m].number = task[m].number /\ task'[m].meant = task[m].meant
      /\ task'[m].before = task[m].before /\ task'[m].new = task[m].new
  <2>1. Shaped(task[m])
    BY DEF TaskInv
  <2>2. CASE task'[m] = task[m]
    BY <2>1, <2>2 DEF Shaped
  <2>3. CASE task'[m] = Crossed(task[m])
    <3>1. PICK r : r = task[m]
      OBVIOUS
    <3>2. Shaped(r) /\ task'[m] = Crossed(r)
      BY <2>1, <2>3, <3>1
    <3>3. /\ Shaped(Crossed(r)) /\ Crossed(r).crossed
          /\ Crossed(r).pc = r.pc /\ Crossed(r).kind = r.kind /\ Crossed(r).target = r.target
          /\ Crossed(r).name = r.name
          /\ Crossed(r).number = r.number /\ Crossed(r).meant = r.meant
          /\ Crossed(r).before = r.before /\ Crossed(r).new = r.new
      BY <3>2, CrossedShape
    <3>4. PICK q : q = task'[m]
      OBVIOUS
    <3>5. q = Crossed(r) /\ Shaped(q)
      BY <3>2, <3>3, <3>4
    <3>6. Shaped(task[m])'
      BY <3>4, <3>5
    <3> QED
      BY <3>1, <3>2, <3>3, <3>6
  <2> QED
    BY <2>2, <2>3 DEF Stays
<1>2. Placed(task[m])'
  BY <1>1 DEF TaskInv, Placed
<1>3. ReplyReady(m)'
  BY <1>1 DEF TaskInv, ReplyReady, Relies
<1>4. NumberReady(m)'
  BY <1>1 DEF TaskInv, NumberReady, Relies
<1>5. EditReady(m)'
  BY <1>1 DEF TaskInv, EditReady, Relies, Placed
<1> QED
  BY <1>1, <1>2, <1>3, <1>4, <1>5 DEF TaskInv

\* Nothing that a task may rely on changes.
LEMMA NothingChanges ==
  ASSUME NEW m \in Tasks, UNCHANGED <<row, ids, spareIds, pending, spare>>
  PROVE  Relies(m)
<1>1. Listed(TRUE)' = Listed(TRUE)
  BY DEF Listed, IdOf, Rows
<1> QED
  BY <1>1 DEF Relies

LEMMA SameList ==
  ASSUME \A t \in Targets : row'[t].id = row[t].id, UNCHANGED <<ids, spareIds>>
  PROVE  Rows' = Rows /\ Listed(TRUE)' = Listed(TRUE)
<1>1. Rows' = Rows
  BY DEF Rows
<1>2. IdOf' = IdOf
  BY DEF IdOf
<1>3. {t \in Rows : row[t].id \in ids}' = {t \in Rows : row[t].id \in ids}
  BY <1>1 DEF Rows
<1> QED
  BY <1>1, <1>2, <1>3 DEF Listed

-----------------------------------------------------------------------------
(* The task that moves                                                      *)

LEMMA TaskIsSet ==
  ASSUME NEW n \in Tasks, NEW r, task = [m \in Tasks |-> task[m]], task' = Keep(n, r)
  PROVE  /\ task' = [m \in Tasks |-> task'[m]] /\ task'[n] = r
         /\ \A m \in Tasks \ {n} : task'[m] = task[m]
<1>1. DOMAIN task = Tasks
  OBVIOUS
<1>2. task' = [m \in Tasks |-> IF m = n THEN r ELSE task[m]]
  BY <1>1 DEF Keep
<1> QED
  BY <1>2

LEMMA FreeShape == Shaped(Free) /\ Placed(Free) /\ Free.pc = "free" /\ Free.kind = "none"
  BY DEF Shaped, Placed, Free, TaskPlaces, MessageKinds, Replies, Labels, Good, Bad

LEMMA FreeInv ==
  ASSUME NEW n \in Tasks, task'[n] = Free
  PROVE  TaskInv(n)'
<1>1. PICK r : r = task'[n]
  OBVIOUS
<1>2. Shaped(r) /\ Placed(r) /\ r.pc = "free" /\ r.kind = "none"
  BY <1>1, FreeShape
<1> QED
  BY <1>1, <1>2 DEF TaskInv, ReplyReady, NumberReady, EditReady

\* Nobody begins or ends to ask, and the prompts are left alone.
LEMMA QuestionStays ==
  ASSUME Question, NotesTyped, UNCHANGED <<pending, spare, asked, jumbled>>,
         troubles' = 0 => troubles = 0,
         \A m \in Tasks : task'[m].pc = "ask" => task[m].pc = "ask" /\ task'[m].target = task[m].target,
         \A m \in Tasks : task[m].pc = "ask" => task'[m].pc = "ask"
  PROVE  Question'
  BY DEF Question, Asking

\* A step that is none of those that need a closer look
LEMMA NInvKept ==
  ASSUME NInv, NEW n \in Tasks, RowsNumbered', NotesTyped', Question',
         task' = [m \in Tasks |-> task'[m]],
         \A m \in Tasks \ {n} : Stays(m) /\ Relies(m),
         TaskInv(n)'
  PROVE  NInv'
  BY TaskStays DEF NInv

\* Calls of Redis
LEMMA TroubleCounted ==
  ASSUME NotesTyped, NEW ok \in BOOLEAN, Redis(ok) \/ Trouble \/ UNCHANGED troubles
  PROVE  /\ troubles' \in 0 .. MaxTroubles /\ (troubles' = 0 => troubles = 0)
         /\ ~ok /\ Redis(ok) => troubles' # 0
  BY NamingConstants DEF NotesTyped, Redis, Trouble

-----------------------------------------------------------------------------
(* Steps that move one task and leave the rows and the prompts alone        *)

LEMMA OneTask ==
  ASSUME NInv, NEW n \in Tasks, NEW r, task' = Keep(n, r),
         UNCHANGED <<row, ids, spareIds, pending, spare, noted, asked, jumbled>>,
         sent' \in 0 .. MaxMessages, troubles' \in 0 .. MaxTroubles,
         troubles' = 0 => troubles = 0,
         task[n].pc # "ask", r.pc # "ask", TaskInv(n)'
  PROVE  NInv'
<1>1. /\ task' = [m \in Tasks |-> task'[m]] /\ task'[n] = r
      /\ \A m \in Tasks \ {n} : task'[m] = task[m]
  BY TaskIsSet DEF NInv
<1>2. RowsNumbered'
  BY DEF NInv, RowsNumbered, Rows
<1>3. NotesTyped'
  BY DEF NInv, NotesTyped
<1>4. Question'
  BY <1>1, QuestionStays DEF NInv
<1>5. \A m \in Tasks \ {n} : Stays(m) /\ Relies(m)
  BY <1>1, NothingChanges DEF Stays
<1> QED
  BY <1>1, <1>2, <1>3, <1>4, <1>5, NInvKept

LEMMA SendKept ==
  ASSUME NInv, NEW n \in Tasks, Send(n)
  PROVE  NInv'
<1>a. sent \in 0 .. MaxMessages /\ troubles \in 0 .. MaxTroubles /\ troubles \in Nat
  BY NamingConstants DEF NInv, NotesTyped
<1>b. /\ sent < MaxMessages /\ sent' = sent + 1 /\ troubles' = troubles /\ task[n].pc = "free"
      /\ UNCHANGED <<row, ids, spareIds, pending, spare, noted, asked, shown, jumbled>>
  BY DEF Send, stored
<1>1. /\ sent' \in 0 .. MaxMessages /\ troubles' = troubles /\ troubles \in 0 .. MaxTroubles
      /\ UNCHANGED <<row, ids, spareIds, pending, spare, noted, asked, shown, jumbled>>
      /\ task[n].pc = "free" /\ troubles \in Nat
  BY <1>a, <1>b, NamingConstants
<1>f. PICK q : q = Free /\ Shaped(q) /\ q.kind = "none"
  BY FreeShape
<1>g. Free.pc = "free" /\ Free.target = NoTarget /\ ~Free.crossed
  BY DEF Free
<1>0. ASSUME NEW r, task' = Keep(n, r), r.pc = "begin", Shaped(r), Placed(r),
             r.kind \in Replies /\ ~r.crossed => spare = NoTarget /\ pending \in {NoTarget, r.meant},
             r.kind = "stop" /\ ~r.crossed => Listed(TRUE)[r.number] = r.meant
      PROVE  NInv'
  <2>1. task'[n] = r
    BY <1>0, TaskIsSet DEF NInv
  <2>2. Listed(TRUE)' = Listed(TRUE)
    BY <1>1 DEF Listed, IdOf, Rows
  <2>3. TaskInv(n)'
    <3>1. Shaped(task[n])' /\ Placed(task[n])'
      BY <2>1, <1>0
    <3> QED
      BY <2>1, <2>2, <3>1, <1>0, <1>1 DEF TaskInv, ReplyReady, NumberReady, EditReady
  <2> QED
    BY <1>0, <1>1, <2>3, OneTask
<1>2. CASE \E t \in Targets, x \in Names \cup {Default} :
             task' = Keep(n, [Free EXCEPT !.pc = "begin", !.kind = "start", !.target = t, !.name = x])
  <2>1. PICK t \in Targets, x \in Labels :
             task' = Keep(n, [Free EXCEPT !.pc = "begin", !.kind = "start", !.target = t, !.name = x])
    BY <1>2 DEF Labels
  <2>2. PICK r : r = [q EXCEPT !.pc = "begin", !.kind = "start", !.target = t, !.name = x]
    OBVIOUS
  <2>0. "start" \in MessageKinds /\ "begin" \in TaskPlaces
    BY DEF MessageKinds, TaskPlaces
  <2>3. r.pc = "begin" /\ r.kind = "start" /\ r.target = t /\ Shaped(r)
    BY <1>f, <2>0, <2>2 DEF Shaped
  <2>4. Placed(r) /\ r.kind \notin Replies
    BY <2>3 DEF Placed, Replies
  <2> QED
    BY <1>0, <1>f, <2>1, <2>2, <2>3, <2>4
<1>3. CASE \E k \in Replies, x \in Names :
             task' = Keep(n, [Free EXCEPT !.pc = "begin", !.kind = k, !.meant = asked,
                                          !.name = IF k = "name" THEN x ELSE Default,
                                          !.crossed = Asking \/ jumbled \/ troubles > 0])
  <2>1. PICK k \in Replies, x \in Names :
             task' = Keep(n, [Free EXCEPT !.pc = "begin", !.kind = k, !.meant = asked,
                                          !.name = IF k = "name" THEN x ELSE Default,
                                          !.crossed = Asking \/ jumbled \/ troubles > 0])
    BY <1>3
  <2>2. PICK c \in BOOLEAN, y \in Labels :
             /\ c = (Asking \/ jumbled \/ troubles > 0)
             /\ y = (IF k = "name" THEN x ELSE Default)
    BY DEF Labels, Asking
  <2>3. PICK r : r = [q EXCEPT !.pc = "begin", !.kind = k, !.meant = asked,
                                  !.name = y, !.crossed = c]
    OBVIOUS
  <2>4. r.pc = "begin" /\ r.kind = k /\ r.meant = asked /\ r.name = y /\ r.crossed = c
    BY <1>f, <2>3 DEF Shaped
  <2>5. Shaped(r)
    <3>1. k \in MessageKinds /\ "begin" \in TaskPlaces
      BY DEF MessageKinds, TaskPlaces
    <3>2. PICK p : p = [q EXCEPT !.pc = "begin", !.kind = k, !.meant = asked]
      OBVIOUS
    <3>3. Shaped(p)
      BY <1>f, <3>1, <3>2 DEF Shaped
    <3>4. r = [p EXCEPT !.name = y, !.crossed = c]
      BY <1>f, <2>3, <3>2 DEF Shaped
    <3> QED
      BY <2>2, <3>3, <3>4 DEF Shaped
  <2>6. Placed(r) /\ r.kind # "stop"
    BY <2>2, <2>4 DEF Placed, Replies
  <2>7. ~r.crossed => spare = NoTarget /\ pending \in {NoTarget, r.meant}
    <3>0. ~c => ~(Asking \/ jumbled \/ troubles > 0)
      BY <2>2
    <3>1. ~c => troubles = 0 /\ ~jumbled /\ ~Asking
      BY <1>1, <3>0
    <3> QED
      BY <3>1, <2>4 DEF NInv, Question
  <2>8. task' = Keep(n, r)
    BY <1>f, <2>1, <2>2, <2>3
  <2> QED
    BY <1>0, <2>4, <2>5, <2>6, <2>7, <2>8
<1>4. CASE \E i \in DOMAIN shown :
             task' = Keep(n, [Free EXCEPT !.pc = "begin", !.kind = "stop", !.number = i,
                                          !.meant = shown[i],
                                          !.crossed = troubles > 0 \/ Listed(TRUE) # shown])
  <2>1. PICK i \in DOMAIN shown :
             task' = Keep(n, [Free EXCEPT !.pc = "begin", !.kind = "stop", !.number = i,
                                          !.meant = shown[i],
                                          !.crossed = troubles > 0 \/ Listed(TRUE) # shown])
    BY <1>4
  <2>2. PICK c, s : c \in BOOLEAN /\ c = (troubles > 0 \/ Listed(TRUE) # shown) /\ s = shown[i]
    OBVIOUS
  <2>3. PICK r : r = [q EXCEPT !.pc = "begin", !.kind = "stop", !.number = i,
                                  !.meant = s, !.crossed = c]
    OBVIOUS
  <2>4. r.pc = "begin" /\ r.kind = "stop" /\ r.meant = s /\ r.number = i /\ r.crossed = c
    BY <1>f, <2>3 DEF Shaped
  <2>5. Shaped(r)
    <3>1. "stop" \in MessageKinds /\ "begin" \in TaskPlaces
      BY DEF MessageKinds, TaskPlaces
    <3> QED
      BY <1>f, <2>2, <2>3, <3>1 DEF Shaped
  <2>6. Placed(r) /\ r.kind \notin Replies
    BY <2>4 DEF Placed, Replies
  <2>7. ~r.crossed => Listed(TRUE)[r.number] = r.meant
    BY <2>2, <2>4
  <2>8. task' = Keep(n, r)
    BY <1>f, <2>1, <2>2, <2>3
  <2> QED
    BY <1>0, <2>4, <2>5, <2>6, <2>7, <2>8
<1>5. CASE \E t \in Targets, x \in Names, i \in Good \cup {Bad} :
             task' = Keep(n, [Free EXCEPT !.pc = "begin", !.kind = "edit", !.target = t,
                                          !.name = x, !.interval = i])
  <2>1. PICK t \in Targets, x \in Names, i \in Good \cup {Bad} :
             task' = Keep(n, [Free EXCEPT !.pc = "begin", !.kind = "edit", !.target = t,
                                          !.name = x, !.interval = i])
    BY <1>5
  <2>2. PICK r : r = [q EXCEPT !.pc = "begin", !.kind = "edit", !.target = t,
                                  !.name = x, !.interval = i]
    OBVIOUS
  <2>3. r.pc = "begin" /\ r.kind = "edit" /\ r.target = t /\ r.name = x
    BY <1>f, <2>2 DEF Shaped
  <2>4. Shaped(r)
    <3>1. "edit" \in MessageKinds /\ "begin" \in TaskPlaces /\ x \in Labels
      BY DEF MessageKinds, TaskPlaces, Labels
    <3> QED
      BY <1>f, <2>2, <3>1 DEF Shaped
  <2>5. Placed(r) /\ r.kind \notin Replies
    BY <2>3 DEF Placed, Replies
  <2> QED
    BY <1>0, <1>f, <2>1, <2>2, <2>3, <2>4, <2>5
<1>6. CASE task' = Keep(n, [Free EXCEPT !.pc = "begin", !.kind = "list"])
  <2>1. PICK r : r = [q EXCEPT !.pc = "begin", !.kind = "list"]
    OBVIOUS
  <2>2. r.pc = "begin" /\ r.kind = "list"
    BY <1>f, <2>1 DEF Shaped
  <2>3. Shaped(r)
    <3>1. "list" \in MessageKinds /\ "begin" \in TaskPlaces
      BY DEF MessageKinds, TaskPlaces
    <3> QED
      BY <1>f, <2>1, <3>1 DEF Shaped
  <2>4. Placed(r) /\ r.kind \notin Replies
    BY <2>2 DEF Placed, Replies
  <2> QED
    BY <1>0, <1>6, <1>f, <2>1, <2>2, <2>3, <2>4
<1> QED
  BY <1>2, <1>3, <1>4, <1>5, <1>6 DEF Send

LEMMA ReplyReadKept ==
  ASSUME NInv, NEW n \in Tasks, NEW ok \in BOOLEAN, ReplyRead(n, ok)
  PROVE  NInv'
<1>1. /\ UNCHANGED <<row, ids, spareIds, pending, spare, noted, asked, shown, jumbled, sent>>
      /\ troubles' \in 0 .. MaxTroubles /\ (troubles' = 0 => troubles = 0)
      /\ task[n].pc = "begin" /\ task[n].kind \in Replies /\ sent' \in 0 .. MaxMessages
  BY TroubleCounted DEF ReplyRead, stored, NInv, NotesTyped
<1>2. CASE Pending(ok) = NoTarget \/ task[n].kind = "agree"
  <2>1. task' = Keep(n, Free)
    BY <1>2 DEF ReplyRead
  <2>2. TaskInv(n)'
    BY <2>1, TaskIsSet, FreeInv DEF NInv
  <2> QED
    BY <1>1, <2>1, <2>2, OneTask, FreeShape
<1>3. CASE ~(Pending(ok) = NoTarget \/ task[n].kind = "agree")
  <2>1. PICK p, c, q : /\ p = (IF task[n].kind = "name" THEN "name" ELSE "clear")
                       /\ c = (task[n].crossed \/ ~ok) /\ q = task[n]
    OBVIOUS
  <2>2. PICK r : r = [q EXCEPT !.pc = p, !.target = Pending(ok), !.crossed = c]
    OBVIOUS
  <2>3. task' = Keep(n, r)
    BY <1>3, <2>1, <2>2 DEF ReplyRead
  <2>4. Shaped(q) /\ Placed(q) /\ ReplyReady(n) /\ q.kind \in Replies /\ q.pc = "begin"
    BY <1>1, <2>1 DEF NInv, TaskInv
  <2>5. p \in {"name", "clear"} /\ c \in BOOLEAN /\ (p = "name" => q.kind = "name")
    BY <2>1, <2>4 DEF Shaped
  <2>6. /\ r.pc = p /\ r.kind = q.kind /\ r.target = Pending(ok) /\ r.name = q.name
        /\ r.meant = q.meant /\ r.crossed = c
    BY <2>2, <2>4 DEF Shaped
  <2>7. Shaped(r)
    BY <2>2, <2>4, <2>5 DEF Shaped, TaskPlaces
  <2>8. Pending(ok) \in Targets
    BY <1>3 DEF NInv, NotesTyped, Pending, NoOr
  <2>9. Placed(r)
    BY <2>4, <2>5, <2>6, <2>8 DEF Placed, Replies
  <2>10. ~c => r.target = r.meant
    <3>1. ~c => ok /\ spare = NoTarget /\ pending \in {NoTarget, q.meant}
      BY <2>1, <2>4 DEF ReplyReady
    <3> QED
      BY <3>1, <2>6, <1>3 DEF Pending
  <2>11. task'[n] = r
    BY <2>3, TaskIsSet DEF NInv
  <2>12. Shaped(task[n])' /\ Placed(task[n])'
    BY <2>11, <2>7, <2>9
  <2>13. TaskInv(n)'
    BY <2>5, <2>6, <2>10, <2>11, <2>12 DEF TaskInv, ReplyReady, NumberReady, EditReady
  <2> QED
    BY <1>1, <2>3, <2>5, <2>6, <2>13, OneTask
<1> QED
  BY <1>2, <1>3

LEMMA StopResolveKept ==
  ASSUME NInv, NEW n \in Tasks, NEW ok \in BOOLEAN, StopResolve(n, ok)
  PROVE  NInv'
<1>1. /\ UNCHANGED <<row, ids, spareIds, pending, spare, noted, asked, shown, jumbled, sent>>
      /\ troubles' \in 0 .. MaxTroubles /\ (troubles' = 0 => troubles = 0)
      /\ task[n].pc = "begin" /\ task[n].kind = "stop" /\ sent' \in 0 .. MaxMessages
  BY TroubleCounted DEF StopResolve, stored, NInv, NotesTyped, At
<1>2. PICK list, q : list = NumberedIn(ok) /\ q = task[n]
  OBVIOUS
<1>3. CASE q.number \notin DOMAIN list
  <2>1. task' = Keep(n, Free)
    BY <1>2, <1>3 DEF StopResolve
  <2>2. TaskInv(n)'
    BY <2>1, TaskIsSet, FreeInv DEF NInv
  <2> QED
    BY <1>1, <2>1, <2>2, OneTask, FreeShape
<1>4. CASE q.number \in DOMAIN list
  <2>1. PICK c, t : c = (q.crossed \/ ~ok) /\ t = list[q.number]
    OBVIOUS
  <2>2. PICK r : r = [q EXCEPT !.pc = "stop", !.target = t, !.crossed = c]
    OBVIOUS
  <2>3. task' = Keep(n, r)
    BY <1>2, <1>4, <2>1, <2>2 DEF StopResolve
  <2>4. Shaped(q) /\ Placed(q) /\ NumberReady(n) /\ q.kind = "stop" /\ q.pc = "begin"
    BY <1>1, <1>2 DEF NInv, TaskInv
  <2>5. /\ r.pc = "stop" /\ r.kind = "stop" /\ r.target = t /\ r.meant = q.meant /\ r.crossed = c
    BY <2>2, <2>4 DEF Shaped
  <2>6. c \in BOOLEAN
    BY <2>1, <2>4 DEF Shaped
  <2>7. Shaped(r)
    BY <2>2, <2>4, <2>6 DEF Shaped, TaskPlaces
  <2>8. Placed(r)
    BY <2>5 DEF Placed, Replies
  <2>9. ~c => r.target = r.meant
    BY <1>2, <2>1, <2>4, <2>5 DEF NumberReady, NumberedIn
  <2>10. task'[n] = r
    BY <2>3, TaskIsSet DEF NInv
  <2>11. Shaped(task[n])' /\ Placed(task[n])'
    BY <2>10, <2>7, <2>8
  <2>12. TaskInv(n)'
    BY <2>5, <2>9, <2>10, <2>11 DEF TaskInv, ReplyReady, NumberReady, EditReady
  <2> QED
    BY <1>1, <2>3, <2>5, <2>12, OneTask
<1> QED
  BY <1>3, <1>4

LEMMA EditBeginKept ==
  ASSUME NInv, NEW n \in Tasks, EditBegin(n)
  PROVE  NInv'
<1>1. /\ UNCHANGED <<row, ids, spareIds, pending, spare, noted, asked, shown, jumbled, sent, troubles>>
      /\ troubles' \in 0 .. MaxTroubles /\ (troubles' = 0 => troubles = 0)
      /\ task[n].pc = "begin" /\ task[n].kind = "edit" /\ sent' \in 0 .. MaxMessages
  BY DEF EditBegin, stored, NInv, NotesTyped, At
<1>2. PICK q, b : q = task[n] /\ b = row[q.target].name
  OBVIOUS
<1>3. CASE task' = Keep(n, Free)
  <2>1. TaskInv(n)'
    BY <1>3, TaskIsSet, FreeInv DEF NInv
  <2> QED
    BY <1>1, <1>3, <2>1, OneTask, FreeShape
<1>4. CASE task' = Keep(n, [q EXCEPT !.pc = "remember", !.before = b])
  <2>1. PICK r : r = [q EXCEPT !.pc = "remember", !.before = b]
    OBVIOUS
  <2>2. Shaped(q) /\ Placed(q) /\ q.kind = "edit" /\ q.target \in Targets /\ q.name \in Names
    BY <1>1, <1>2 DEF NInv, TaskInv, Placed
  <2>3. b \in Labels
    BY <1>2, <2>2 DEF NInv, RowsNumbered, Record
  <2>4. /\ r.pc = "remember" /\ r.kind = "edit" /\ r.target = q.target /\ r.name = q.name
        /\ r.before = b
    BY <2>1, <2>2 DEF Shaped
  <2>5. Shaped(r)
    BY <2>1, <2>2, <2>3 DEF Shaped, TaskPlaces
  <2>6. Placed(r)
    BY <2>2, <2>4 DEF Placed, Replies
  <2>7. task'[n] = r
    BY <1>4, <2>1, TaskIsSet DEF NInv
  <2>8. Shaped(task[n])' /\ Placed(task[n])'
    BY <2>7, <2>5, <2>6
  <2>9. row'[r.target].name = r.before
    BY <1>1, <1>2, <2>4
  <2>10. TaskInv(n)'
    BY <2>4, <2>7, <2>8, <2>9 DEF TaskInv, ReplyReady, NumberReady, EditReady
  <2> QED
    BY <1>1, <1>4, <2>1, <2>4, <2>10, OneTask
<1> QED
  BY <1>2, <1>3, <1>4 DEF EditBegin

LEMMA EditTellKept ==
  ASSUME NInv, NEW n \in Tasks, EditTell(n)
  PROVE  NInv'
<1>1. /\ UNCHANGED <<row, ids, spareIds, pending, spare, noted, asked, shown, jumbled, sent, troubles>>
      /\ troubles' \in 0 .. MaxTroubles /\ (troubles' = 0 => troubles = 0)
      /\ task[n].pc # "ask" /\ sent' \in 0 .. MaxMessages /\ task' = Keep(n, Free)
  BY DEF EditTell, stored, NInv, NotesTyped, End
<1>2. TaskInv(n)'
  BY <1>1, TaskIsSet, FreeInv DEF NInv
<1> QED
  BY <1>1, <1>2, OneTask, FreeShape

-----------------------------------------------------------------------------
(* Steps that write rows                                                    *)

LEMMA RowsKept ==
  ASSUME RowsNumbered, row' \in [Targets -> Record],
         \A t \in Targets : row'[t].id = row[t].id /\ (row'[t].enabled => row[t].enabled),
         ids' \subseteq ids, spareIds' \subseteq spareIds
  PROVE  RowsNumbered' /\ Rows' = Rows
<1>1. Rows' = Rows
  BY DEF Rows
<1>2. /\ ids' \cup spareIds' \subseteq {row'[t].id : t \in Rows'}
      /\ \A t, u \in Rows' : row'[t].id = row'[u].id => t = u
  <2>1. \A t \in Rows : row'[t].id = row[t].id
    BY DEF Rows
  <2> QED
    BY <1>1, <2>1 DEF RowsNumbered
<1>3. \A t \in Targets : /\ row'[t].id <= Cardinality(Rows')
                         /\ row'[t].id = 0 => ~row'[t].enabled
  BY <1>1 DEF RowsNumbered
<1> QED
  BY <1>1, <1>2, <1>3 DEF RowsNumbered

\* The other tasks that edit t are told.
LEMMA TouchedTasks ==
  ASSUME NInv, NEW n \in Tasks, NEW r, NEW t, task' = Touching(Keep(n, r), n, t)
  PROVE  /\ task' = [m \in Tasks |-> task'[m]] /\ task'[n] = r
         /\ \A m \in Tasks \ {n} :
              /\ Stays(m)
              /\ task[m].kind = "edit" /\ task[m].target = t => task'[m].crossed
<1>1. DOMAIN task = Tasks
  BY DEF NInv
<1>2. task' = [m \in Tasks |-> IF m # n /\ Keep(n, r)[m].kind = "edit" /\ Keep(n, r)[m].target = t
                               THEN [Keep(n, r)[m] EXCEPT !.crossed = TRUE] ELSE Keep(n, r)[m]]
  BY DEF Touching
<1>3. Keep(n, r)[n] = r /\ \A m \in Tasks \ {n} : Keep(n, r)[m] = task[m]
  BY <1>1 DEF Keep
<1>4. task' = [m \in Tasks |-> task'[m]] /\ task'[n] = r
  BY <1>2, <1>3
<1>5. ASSUME NEW m \in Tasks \ {n}
      PROVE  task'[m] = IF task[m].kind = "edit" /\ task[m].target = t
                        THEN Crossed(task[m]) ELSE task[m]
  BY <1>2, <1>3 DEF Crossed
<1>6. ASSUME NEW m \in Tasks \ {n}
      PROVE  Crossed(task[m]).crossed
  BY CrossedShape DEF NInv, TaskInv
<1> QED
  BY <1>4, <1>5, <1>6 DEF Stays

\* A step that writes the name of t, or nothing, and keeps to the ids
LEMMA NameWritten ==
  ASSUME NInv, NEW n \in Tasks, NEW r, NEW t \in Targets,
         task' = Touching(Keep(n, r), n, t),
         row' \in [Targets -> Record],
         \A u \in Targets : /\ row'[u].id = row[u].id /\ (row'[u].enabled => row[u].enabled)
                            /\ u # t => row'[u].name = row[u].name,
         UNCHANGED <<ids, spareIds, pending, spare, asked, jumbled, sent, troubles>>,
         noted' \subseteq Targets \X Names,
         task[n].pc # "ask", r.pc # "ask", TaskInv(n)'
  PROVE  NInv'
<1>1. RowsNumbered'
  BY RowsKept DEF NInv
<1>2. NotesTyped'
  BY DEF NInv, NotesTyped
<1>3. /\ task' = [m \in Tasks |-> task'[m]] /\ task'[n] = r
      /\ \A m \in Tasks \ {n} :
           /\ Stays(m)
           /\ task[m].kind = "edit" /\ task[m].target = t => task'[m].crossed
  BY TouchedTasks
<1>4. Listed(TRUE)' = Listed(TRUE)
  BY SameList
<1>5. ASSUME NEW m \in Tasks \ {n}
      PROVE  Relies(m)
  <2>1. task[m].kind = "edit" => task[m].target \in Targets
    BY DEF NInv, TaskInv, Placed
  <2> QED
    BY <1>3, <1>4, <2>1 DEF Relies
<1>6. \A m \in Tasks \ {n} : task'[m].pc = task[m].pc /\ task'[m].target = task[m].target
  BY <1>3, <1>5, TaskStays DEF NInv
<1>7. Question'
  BY <1>3, <1>6, QuestionStays DEF NInv
<1> QED
  BY <1>1, <1>2, <1>3, <1>5, <1>7, NInvKept

\* Writing a name, an interval or a flag of a row
LEMMA RowWritten ==
  ASSUME NInv, NEW t \in Targets, NEW x \in Labels, NEW w,
         \/ w = [row EXCEPT ![t].name = x]
         \/ \E i \in Good : w = [row EXCEPT ![t].name = x, ![t].interval = i]
  PROVE  /\ w \in [Targets -> Record]
         /\ \A u \in Targets : /\ w[u].id = row[u].id /\ w[u].enabled = row[u].enabled
                               /\ u # t => w[u].name = row[u].name
<1>0. PICK i \in Good : \/ w = [row EXCEPT ![t].name = x]
                     \/ w = [row EXCEPT ![t].name = x, ![t].interval = i]
  BY DEF Good
<1>1. row \in [Targets -> Record] /\ row[t] \in Record
  BY DEF NInv, RowsNumbered
<1>2. PICK q : q = row[t]
  OBVIOUS
<1>3. PICK a, b : a = [q EXCEPT !.name = x] /\ b = [a EXCEPT !.interval = i]
  OBVIOUS
<1>4. /\ a \in Record /\ a.id = q.id /\ a.enabled = q.enabled
      /\ b \in Record /\ b.id = q.id /\ b.enabled = q.enabled
  <2>1. a \in Record /\ a.id = q.id /\ a.enabled = q.enabled
    BY <1>1, <1>2, <1>3 DEF Record
  <2> QED
    BY <1>3, <2>1 DEF Record
<1>5. [row EXCEPT ![t].name = x] = [u \in Targets |-> IF u = t THEN a ELSE row[u]]
  BY <1>1, <1>2, <1>3
<1>6. [row EXCEPT ![t].name = x, ![t].interval = i] = [u \in Targets |-> IF u = t THEN b ELSE row[u]]
  <2>1. [row EXCEPT ![t].name = x, ![t].interval = i]
          = [[row EXCEPT ![t].name = x] EXCEPT ![t].interval = i]
    OBVIOUS
  <2> QED
    BY <1>5, <2>1, <1>3
<1>7. ASSUME NEW c \in {a, b}, w = [u \in Targets |-> IF u = t THEN c ELSE row[u]]
      PROVE  /\ w \in [Targets -> Record]
             /\ \A u \in Targets : /\ w[u].id = row[u].id /\ w[u].enabled = row[u].enabled
                                   /\ u # t => w[u].name = row[u].name
  BY <1>1, <1>2, <1>4, <1>7
<1> QED
  BY <1>0, <1>5, <1>6, <1>7

LEMMA ReplyNameKept ==
  ASSUME NInv, NEW n \in Tasks, ReplyName(n)
  PROVE  NInv'
<1>1. PICK q, t : q = task[n] /\ t = q.target
  OBVIOUS
<1>2. q.pc = "name" /\ Shaped(q) /\ Placed(q) /\ t \in Targets /\ q.kind = "name" /\ q.name \in Names
  BY <1>1 DEF ReplyName, NInv, TaskInv, Placed
<1>3. PICK r : r = [q EXCEPT !.pc = "clear"]
  OBVIOUS
<1>4. /\ task' = Touching(Keep(n, r), n, t)
      /\ UNCHANGED <<ids, spareIds, pending, spare, asked, jumbled, sent, troubles>>
      /\ \/ row' = [row EXCEPT ![t].name = q.name] /\ noted' = noted \cup {<<t, q.name>>}
         \/ UNCHANGED <<row, noted>>
  BY <1>1, <1>3 DEF ReplyName
<1>5. r.pc = "clear" /\ r.kind = "name" /\ r.target = t /\ r.name = q.name
  BY <1>1, <1>2, <1>3 DEF Shaped
<1>6. Shaped(r)
  BY <1>2, <1>3 DEF Shaped, TaskPlaces
<1>7. Placed(r)
  BY <1>2, <1>5 DEF Placed, Replies
<1>8. TaskInv(n)'
  <2>1. task'[n] = r
    BY <1>4, TouchedTasks
  <2>2. Shaped(task[n])' /\ Placed(task[n])'
    BY <2>1, <1>6, <1>7
  <2> QED
    BY <1>5, <2>1, <2>2 DEF TaskInv, ReplyReady, NumberReady, EditReady
<1>9. noted' \subseteq Targets \X Names
  BY <1>2, <1>4 DEF NInv, NotesTyped
<1>10. /\ row' \in [Targets -> Record]
       /\ \A u \in Targets : /\ row'[u].id = row[u].id /\ (row'[u].enabled => row[u].enabled)
                             /\ u # t => row'[u].name = row[u].name
  <2>1. CASE row' = row
    BY <2>1 DEF NInv, RowsNumbered
  <2>2. CASE row' = [row EXCEPT ![t].name = q.name]
    <3>1. PICK w, x : w = row' /\ x = q.name
      OBVIOUS
    <3>2. x \in Labels
      BY <1>2, <3>1 DEF Labels
    <3>3. w = [row EXCEPT ![t].name = x]
      BY <2>2, <3>1
    <3>4. \/ w = [row EXCEPT ![t].name = x]
          \/ \E i \in Good : w = [row EXCEPT ![t].name = x, ![t].interval = i]
      BY <3>3
    <3>5. /\ w \in [Targets -> Record]
          /\ \A u \in Targets : /\ w[u].id = row[u].id /\ w[u].enabled = row[u].enabled
                                /\ u # t => w[u].name = row[u].name
      BY <1>2, <3>2, <3>4, RowWritten
    <3> QED
      BY <3>1, <3>5
  <2> QED
    BY <1>4, <2>1, <2>2
<1> QED
  BY <1>1, <1>2, <1>4, <1>5, <1>8, <1>9, <1>10, NameWritten

LEMMA EditRememberKept ==
  ASSUME NInv, NEW n \in Tasks, EditRemember(n)
  PROVE  NInv'
<1>1. PICK q, t, new : q = task[n] /\ t = q.target /\ new = (<<t, q.name>> \notin noted)
  OBVIOUS
<1>2. q.pc = "remember" /\ Shaped(q) /\ Placed(q) /\ t \in Targets /\ q.kind = "edit" /\ q.name \in Names
  BY <1>1 DEF EditRemember, NInv, TaskInv, Placed
<1>3. PICK r : r = [q EXCEPT !.pc = "finish", !.new = new]
  OBVIOUS
<1>4. /\ task' = Touching(Keep(n, r), n, t)
      /\ UNCHANGED <<ids, spareIds, pending, spare, asked, jumbled, sent, troubles>>
      /\ row' = IF new THEN [row EXCEPT ![t].name = q.name] ELSE row
      /\ noted' = noted \cup {<<t, q.name>>}
  BY <1>1, <1>3 DEF EditRemember
<1>5. /\ r.pc = "finish" /\ r.kind = "edit" /\ r.target = t /\ r.name = q.name
      /\ r.before = q.before /\ r.new = new /\ r.crossed = q.crossed
  BY <1>1, <1>2, <1>3 DEF Shaped
<1>6. Shaped(r)
  <2>1. new \in BOOLEAN
    BY <1>1
  <2> QED
    BY <1>2, <1>3, <2>1 DEF Shaped, TaskPlaces
<1>7. Placed(r)
  BY <1>2, <1>5 DEF Placed, Replies
<1>8. TaskInv(n)'
  <2>1. task'[n] = r
    BY <1>4, TouchedTasks
  <2>2. Shaped(task[n])' /\ Placed(task[n])'
    BY <2>1, <1>6, <1>7
  <2>3. row[t].name = q.before \/ q.crossed
    BY <1>1, <1>2 DEF NInv, TaskInv, EditReady
  <2>4. row'[t].name = r.before \/ r.new \/ r.crossed
    BY <1>4, <1>5, <2>3
  <2> QED
    BY <1>5, <2>1, <2>2, <2>4 DEF TaskInv, ReplyReady, NumberReady, EditReady, Replies
<1>9. noted' \subseteq Targets \X Names
  BY <1>2, <1>4 DEF NInv, NotesTyped
<1>10. /\ row' \in [Targets -> Record]
       /\ \A u \in Targets : /\ row'[u].id = row[u].id /\ (row'[u].enabled => row[u].enabled)
                             /\ u # t => row'[u].name = row[u].name
  <2>1. CASE row' = row
    BY <2>1 DEF NInv, RowsNumbered
  <2>2. CASE row' = [row EXCEPT ![t].name = q.name]
    <3>1. PICK w, x : w = row' /\ x = q.name
      OBVIOUS
    <3>2. x \in Labels
      BY <1>2, <3>1 DEF Labels
    <3>3. w = [row EXCEPT ![t].name = x]
      BY <2>2, <3>1
    <3>4. \/ w = [row EXCEPT ![t].name = x]
          \/ \E i \in Good : w = [row EXCEPT ![t].name = x, ![t].interval = i]
      BY <3>3
    <3>5. /\ w \in [Targets -> Record]
          /\ \A u \in Targets : /\ w[u].id = row[u].id /\ w[u].enabled = row[u].enabled
                                /\ u # t => w[u].name = row[u].name
      BY <1>2, <3>2, <3>4, RowWritten
    <3> QED
      BY <3>1, <3>5
  <2> QED
    BY <1>4, <2>1, <2>2
<1> QED
  BY <1>1, <1>2, <1>4, <1>5, <1>8, <1>9, <1>10, NameWritten

LEMMA EditFinishKept ==
  ASSUME NInv, NEW n \in Tasks, EditFinish(n)
  PROVE  NInv'
<1>1. PICK q, t, p, x :
        /\ q = task[n] /\ t = q.target
        /\ p = (IF q.interval = Bad THEN "refused" ELSE "changed")
        /\ x = (IF ~q.new /\ q.name # q.before THEN q.name ELSE row[t].name)
  OBVIOUS
<1>2. q.pc = "finish" /\ Shaped(q) /\ Placed(q) /\ t \in Targets /\ q.kind = "edit" /\ q.name \in Names
  BY <1>1 DEF EditFinish, NInv, TaskInv, Placed
<1>3. PICK r : r = [q EXCEPT !.pc = p]
  OBVIOUS
<1>4. /\ task' = Touching(Keep(n, r), n, t)
      /\ UNCHANGED <<ids, spareIds, pending, spare, asked, jumbled, sent, troubles, noted>>
      /\ row' = IF q.interval = Bad THEN row
                ELSE [row EXCEPT ![t].name = x, ![t].interval = q.interval]
  BY <1>1, <1>3 DEF EditFinish
<1>5. /\ r.pc = p /\ r.kind = "edit" /\ r.target = t /\ r.name = q.name
      /\ r.before = q.before /\ r.new = q.new /\ r.crossed = q.crossed
  BY <1>1, <1>2, <1>3 DEF Shaped
<1>6. Shaped(r)
  <2>1. p \in TaskPlaces
    BY <1>1 DEF TaskPlaces
  <2> QED
    BY <1>2, <1>3, <2>1 DEF Shaped
<1>p. p \in {"refused", "changed"}
  BY <1>1
<1>7. Placed(r)
  BY <1>2, <1>5, <1>p DEF Placed, Replies
<1>8. TaskInv(n)'
  <2>1. task'[n] = r
    BY <1>4, TouchedTasks
  <2>2. Shaped(task[n])' /\ Placed(task[n])'
    BY <2>1, <1>6, <1>7
  <2>3. row[t].name = q.before \/ q.new \/ q.crossed
    BY <1>1, <1>2 DEF NInv, TaskInv, EditReady
  <2>4. p = "refused" => row'[t].name = r.before \/ r.new \/ r.crossed
    BY <1>1, <1>4, <1>5, <2>3
  <2> QED
    BY <1>5, <1>p, <2>1, <2>2, <2>4 DEF TaskInv, ReplyReady, NumberReady, EditReady, Replies
<1>9. noted' \subseteq Targets \X Names
  BY <1>4 DEF NInv, NotesTyped
<1>10. /\ row' \in [Targets -> Record]
       /\ \A u \in Targets : /\ row'[u].id = row[u].id /\ (row'[u].enabled => row[u].enabled)
                             /\ u # t => row'[u].name = row[u].name
  <2>1. CASE row' = row
    BY <2>1 DEF NInv, RowsNumbered
  <2>2. CASE q.interval # Bad /\ row' = [row EXCEPT ![t].name = x, ![t].interval = q.interval]
    <3>1. x \in Labels
      BY <1>1, <1>2 DEF Labels, NInv, RowsNumbered, Record
    <3>2. q.interval \in Good
      BY <1>2, <2>2 DEF Shaped
    <3>w. PICK w : w = row'
      OBVIOUS
    <3>x. w = [row EXCEPT ![t].name = x, ![t].interval = q.interval]
      BY <2>2, <3>w
    <3>y. /\ w \in [Targets -> Record]
          /\ \A u \in Targets : /\ w[u].id = row[u].id /\ w[u].enabled = row[u].enabled
                                /\ u # t => w[u].name = row[u].name
      BY <1>2, <3>1, <3>2, <3>x, RowWritten
    <3> QED
      BY <3>w, <3>y
  <2> QED
    BY <1>4, <2>1, <2>2
<1>11. task[n].pc # "ask" /\ r.pc # "ask"
  BY <1>1, <1>2, <1>5, <1>p
<1> QED
  BY <1>2, <1>4, <1>8, <1>9, <1>10, <1>11, NameWritten

LEMMA CardinalityMore ==
  ASSUME RowsNumbered, NEW t \in Targets \ Rows
  PROVE  /\ Cardinality(Rows) \in Nat /\ IsFiniteSet(Rows \cup {t})
         /\ Cardinality(Rows \cup {t}) = Cardinality(Rows) + 1
<1>1. IsFiniteSet(Rows)
  BY DEF RowsNumbered
<1> QED
  BY <1>1, FS_AddElement, FS_CardinalityType

\* A new row gets the next number.
LEMMA StartedRows ==
  ASSUME RowsNumbered, NEW t \in Targets, NEW x \in Labels,
         row' = [row EXCEPT ![t] = Started(t, x)],
         ids' \cup spareIds' \subseteq ids \cup spareIds \cup {row'[t].id}
  PROVE  RowsNumbered'
<1>1. row \in [Targets -> Record] /\ IsFiniteSet(Rows)
  BY DEF RowsNumbered
<1>2. Cardinality(Rows) \in Nat
  BY <1>1, FS_CardinalityType
<1>3. PICK q : q = Started(t, x)
  OBVIOUS
<1>4. /\ q \in Record /\ q.enabled
      /\ q.id = IF t \in Rows THEN row[t].id ELSE NewId
  BY <1>1, <1>2, <1>3 DEF Started, Record, NewId, Labels
<1>5. row' = [u \in Targets |-> IF u = t THEN q ELSE row[u]]
  BY <1>1, <1>3
<1>6. row' \in [Targets -> Record]
  BY <1>1, <1>4, <1>5
<1>7. CASE t \in Rows
  <2>1. \A u \in Targets : row'[u].id = row[u].id
    BY <1>4, <1>5, <1>7
  <2>2. Rows' = Rows
    BY <2>1 DEF Rows
  <2>3. row'[t].id \in {row[u].id : u \in Rows}
    BY <1>7, <2>1
  <2>4. {row'[u].id : u \in Rows'} = {row[u].id : u \in Rows}
    BY <2>1, <2>2 DEF Rows
  <2>5. row[t].id # 0
    BY <1>7 DEF Rows
  <2>6. \A u \in Targets : row'[u].id <= Cardinality(Rows') /\ (row'[u].id = 0 => ~row'[u].enabled)
    BY <1>5, <2>1, <2>2, <2>5 DEF RowsNumbered
  <2>7. \A u, v \in Rows' : row'[u].id = row'[v].id => u = v
    BY <2>1, <2>2 DEF RowsNumbered, Rows
  <2>8. ids' \cup spareIds' \subseteq {row'[u].id : u \in Rows'}
    BY <2>3, <2>4 DEF RowsNumbered
  <2> QED
    BY <1>1, <1>6, <2>2, <2>6, <2>7, <2>8 DEF RowsNumbered
<1>8. CASE t \notin Rows
  <2>1. /\ IsFiniteSet(Rows \cup {t}) /\ Cardinality(Rows \cup {t}) = Cardinality(Rows) + 1
    BY <1>8, CardinalityMore
  <2>2. q.id = Cardinality(Rows) + 1
    BY <1>4, <1>8 DEF NewId
  <2>3. row'[t].id = Cardinality(Rows) + 1 /\ row'[t].enabled
    BY <1>4, <1>5, <2>2
  <2>4. \A u \in Targets \ {t} : row'[u] = row[u]
    BY <1>5
  <2>5. Rows' = Rows \cup {t}
    BY <1>2, <2>3, <2>4 DEF Rows
  <2>6. \A u \in Rows : u # t /\ row'[u].id = row[u].id /\ row[u].id <= Cardinality(Rows) /\ row[u].id \in Nat
    BY <1>1, <1>8, <2>4 DEF Rows, RowsNumbered, Record
  <2>7. \A u, v \in Rows' : row'[u].id = row'[v].id => u = v
    BY <1>2, <2>3, <2>5, <2>6 DEF RowsNumbered
  <2>8. \A u \in Targets : row'[u].id <= Cardinality(Rows') /\ (row'[u].id = 0 => ~row'[u].enabled)
    <3>1. \A u \in Targets \ {t} : row[u].id \in Nat /\ row[u].id <= Cardinality(Rows)
                                   /\ (row[u].id = 0 => ~row[u].enabled)
      BY <1>1 DEF RowsNumbered, Record
    <3>2. Cardinality(Rows') = Cardinality(Rows) + 1
      BY <2>1, <2>5
    <3> QED
      BY <1>2, <2>3, <2>4, <3>1, <3>2
  <2>9. {row[u].id : u \in Rows} \cup {row'[t].id} \subseteq {row'[u].id : u \in Rows'}
    BY <2>5, <2>6
  <2>10. ids' \cup spareIds' \subseteq {row'[u].id : u \in Rows'}
    BY <2>9 DEF RowsNumbered
  <2> QED
    BY <1>6, <2>1, <2>5, <2>7, <2>8, <2>10 DEF RowsNumbered
<1> QED
  BY <1>7, <1>8

\* The stops that have a number and have not looked, and the other edits of t, are told.
LEMMA StartTasks ==
  ASSUME NInv, NEW n \in Tasks, NEW r, r.pc # "begin", NEW t,
         task' = Touching(Crossing(Keep(n, r), "stop"), n, t)
  PROVE  /\ task' = [m \in Tasks |-> task'[m]] /\ task'[n] = r
         /\ \A m \in Tasks \ {n} :
              /\ Stays(m)
              /\ task[m].kind = "edit" /\ task[m].target = t => task'[m].crossed
              /\ task[m].kind = "stop" /\ task[m].pc = "begin" => task'[m].crossed
<1>1. DOMAIN task = Tasks
  BY DEF NInv
<1>2. PICK c : c = Crossing(Keep(n, r), "stop")
  OBVIOUS
<1>3. Keep(n, r)[n] = r /\ \A m \in Tasks \ {n} : Keep(n, r)[m] = task[m]
  BY <1>1 DEF Keep
<1>4. c = [m \in Tasks |-> IF Keep(n, r)[m].pc = "begin" /\ Keep(n, r)[m].kind = "stop"
                           THEN [Keep(n, r)[m] EXCEPT !.crossed = TRUE] ELSE Keep(n, r)[m]]
  BY <1>2 DEF Crossing
<1>5. c[n] = r /\ \A m \in Tasks \ {n} : c[m] = IF task[m].pc = "begin" /\ task[m].kind = "stop"
                                                THEN Crossed(task[m]) ELSE task[m]
  BY <1>3, <1>4 DEF Crossed
<1>6. task' = [m \in Tasks |-> IF m # n /\ c[m].kind = "edit" /\ c[m].target = t
                               THEN [c[m] EXCEPT !.crossed = TRUE] ELSE c[m]]
  BY <1>2 DEF Touching
<1>7. task' = [m \in Tasks |-> task'[m]] /\ task'[n] = r
  BY <1>5, <1>6
<1>8. ASSUME NEW m \in Tasks \ {n}
      PROVE  /\ Crossed(task[m]).crossed /\ Crossed(task[m]).kind = task[m].kind
  BY CrossedShape DEF NInv, TaskInv
<1>9. ASSUME NEW m \in Tasks \ {n}
      PROVE  task'[m] = IF \/ task[m].pc = "begin" /\ task[m].kind = "stop"
                           \/ task[m].kind = "edit" /\ task[m].target = t
                        THEN Crossed(task[m]) ELSE task[m]
  <2>1. task'[m] = IF c[m].kind = "edit" /\ c[m].target = t THEN Crossed(c[m]) ELSE c[m]
    BY <1>6 DEF Crossed
  <2>2. CASE task[m].pc = "begin" /\ task[m].kind = "stop"
    <3>1. c[m] = Crossed(task[m]) /\ c[m].kind = "stop"
      BY <1>5, <1>8, <2>2
    <3> QED
      BY <2>1, <2>2, <3>1
  <2>3. CASE ~(task[m].pc = "begin" /\ task[m].kind = "stop")
    <3>1. c[m] = task[m]
      BY <1>5, <2>3
    <3> QED
      BY <2>1, <2>3, <3>1
  <2> QED
    BY <2>2, <2>3
<1> QED
  BY <1>7, <1>8, <1>9 DEF Stays

LEMMA StartRowKept ==
  ASSUME NInv, NEW n \in Tasks, NEW ok \in BOOLEAN, StartRow(n, ok)
  PROVE  NInv'
<1>1. PICK q, t : q = task[n] /\ t = q.target
  OBVIOUS
<1>2. q.pc = "begin" /\ q.kind = "start" /\ Shaped(q) /\ Placed(q) /\ t \in Targets /\ q.name \in Labels
  BY <1>1 DEF StartRow, At, NInv, TaskInv, Placed, Shaped
<1>3. PICK r : r = IF q.name = Default THEN [q EXCEPT !.pc = "prompt"] ELSE Free
  OBVIOUS
<1>4. /\ task' = Touching(Crossing(Keep(n, r), "stop"), n, t)
      /\ row' = [row EXCEPT ![t] = Started(t, q.name)]
      /\ ids' \cup spareIds' \subseteq ids \cup spareIds \cup {row'[t].id}
      /\ UNCHANGED <<pending, spare, noted, asked, jumbled, sent>>
      /\ Redis(ok)
  BY <1>1, <1>3 DEF StartRow
<1>5. Shaped(r) /\ Placed(r) /\ r.pc \in {"free", "prompt"} /\ r.kind \in {"none", "start"}
  <2>1. CASE q.name = Default
    <3>1. r = [q EXCEPT !.pc = "prompt"]
      BY <1>3, <2>1
    <3>2. r.pc = "prompt" /\ r.kind = "start" /\ r.target = t
      BY <1>1, <1>2, <3>1 DEF Shaped
    <3>3. Shaped(r)
      BY <1>2, <3>1 DEF Shaped, TaskPlaces
    <3>4. Placed(r)
      BY <1>2, <3>2 DEF Placed, Replies
    <3> QED
      BY <3>2, <3>3, <3>4
  <2>2. CASE q.name # Default
    BY <1>3, <2>2, FreeShape
  <2> QED
    BY <2>1, <2>2
<1>6. RowsNumbered'
  BY <1>2, <1>4, StartedRows DEF NInv
<1>7. NotesTyped' /\ (troubles' = 0 => troubles = 0)
  <2>1. troubles' \in 0 .. MaxTroubles /\ (troubles' = 0 => troubles = 0)
    BY <1>4, TroubleCounted DEF NInv
  <2> QED
    BY <1>4, <2>1 DEF NInv, NotesTyped
<1>8. /\ task' = [m \in Tasks |-> task'[m]] /\ task'[n] = r
      /\ \A m \in Tasks \ {n} :
           /\ Stays(m)
           /\ task[m].kind = "edit" /\ task[m].target = t => task'[m].crossed
           /\ task[m].kind = "stop" /\ task[m].pc = "begin" => task'[m].crossed
  <2>1. r.pc # "begin"
    BY <1>5
  <2> QED
    BY <1>4, <2>1, StartTasks
<1>9. ASSUME NEW m \in Tasks \ {n}
      PROVE  Relies(m)
  <2>1. \A u \in Targets \ {t} : row'[u] = row[u]
    BY <1>4 DEF NInv, RowsNumbered
  <2>2. task[m].kind = "edit" => task[m].target \in Targets
    BY DEF NInv, TaskInv, Placed
  <2> QED
    BY <1>4, <1>8, <2>1, <2>2 DEF Relies
<1>10. \A m \in Tasks \ {n} : task'[m].pc = task[m].pc /\ task'[m].target = task[m].target
  BY <1>8, <1>9, TaskStays DEF NInv
<1>11. Question'
  <2>1. task[n].pc # "ask" /\ task'[n].pc # "ask"
    BY <1>1, <1>2, <1>5, <1>8
  <2> QED
    BY <1>4, <1>7, <1>10, <2>1, QuestionStays DEF NInv
<1>12. TaskInv(n)'
  <2>1. Shaped(task[n])' /\ Placed(task[n])'
    BY <1>5, <1>8
  <2> QED
    BY <1>5, <1>8, <2>1 DEF TaskInv, ReplyReady, NumberReady, EditReady
<1> QED
  BY <1>6, <1>7, <1>8, <1>9, <1>11, <1>12, NInvKept

LEMMA StopRowKept ==
  ASSUME NInv, NEW n \in Tasks, StopRow(n)
  PROVE  NInv'
<1>1. PICK q, t : q = task[n] /\ t = q.target
  OBVIOUS
<1>2. q.pc = "stop" /\ Shaped(q) /\ Placed(q) /\ q.kind = "stop"
  BY <1>1 DEF StopRow, NInv, TaskInv, Placed
<1>3. PICK r : r = IF row[t].enabled THEN [q EXCEPT !.pc = "optout"] ELSE Free
  OBVIOUS
<1>4. /\ task' = Keep(n, r) /\ row' = [row EXCEPT ![t].enabled = FALSE]
      /\ UNCHANGED <<ids, spareIds, pending, spare, noted, asked, jumbled, sent, troubles>>
  BY <1>1, <1>3 DEF StopRow
<1>5. Shaped(r) /\ Placed(r) /\ r.pc \in {"free", "optout"}
  <2>1. CASE row[t].enabled
    <3>1. r = [q EXCEPT !.pc = "optout"]
      BY <1>3, <2>1
    <3>2. r.pc = "optout" /\ r.kind = "stop"
      BY <1>1, <1>2, <3>1 DEF Shaped
    <3>3. Shaped(r)
      BY <1>2, <3>1 DEF Shaped, TaskPlaces
    <3>4. Placed(r)
      BY <1>2, <3>2 DEF Placed, Replies
    <3> QED
      BY <3>2, <3>3, <3>4
  <2>2. CASE ~row[t].enabled
    BY <1>3, <2>2, FreeShape
  <2> QED
    BY <2>1, <2>2
<1>6. /\ row' \in [Targets -> Record]
      /\ \A u \in Targets : /\ row'[u].id = row[u].id /\ (row'[u].enabled => row[u].enabled)
                            /\ row'[u].name = row[u].name
  <2>1. row \in [Targets -> Record]
    BY DEF NInv, RowsNumbered
  <2>2. row' = [u \in Targets |-> IF u = t THEN [row[u] EXCEPT !.enabled = FALSE] ELSE row[u]]
    BY <1>4, <2>1
  <2>3. ASSUME NEW u \in Targets
        PROVE  /\ row'[u] \in Record
               /\ row'[u].id = row[u].id /\ (row'[u].enabled => row[u].enabled)
               /\ row'[u].name = row[u].name
    <3>1. row[u] \in Record
      BY <2>1
    <3>2. row'[u] = row[u] \/ row'[u] = [row[u] EXCEPT !.enabled = FALSE]
      BY <2>2
    <3> QED
      BY <3>1, <3>2 DEF Record
  <2> QED
    BY <2>2, <2>3
<1>7. /\ task' = [m \in Tasks |-> task'[m]] /\ task'[n] = r
      /\ \A m \in Tasks \ {n} : task'[m] = task[m]
  BY <1>4, TaskIsSet DEF NInv
<1>8. RowsNumbered' /\ Listed(TRUE)' = Listed(TRUE)
  BY <1>4, <1>6, RowsKept, SameList DEF NInv
<1>9. NotesTyped' /\ (troubles' = 0 => troubles = 0)
  BY <1>4 DEF NInv, NotesTyped
<1>10. Question'
  <2>1. task[n].pc # "ask" /\ task'[n].pc # "ask"
    BY <1>1, <1>2, <1>5, <1>7
  <2> QED
    BY <1>4, <1>9, <1>7, <2>1, QuestionStays DEF NInv
<1>11. ASSUME NEW m \in Tasks \ {n}
       PROVE  Stays(m) /\ Relies(m)
  <2>1. task[m].kind = "edit" => task[m].target \in Targets
    BY DEF NInv, TaskInv, Placed
  <2> QED
    BY <1>4, <1>6, <1>7, <1>8, <2>1 DEF Stays, Relies
<1>12. TaskInv(n)'
  <2>1. Shaped(task[n])' /\ Placed(task[n])'
    BY <1>5, <1>7
  <2> QED
    BY <1>5, <1>7, <2>1 DEF TaskInv, ReplyReady, NumberReady, EditReady
<1> QED
  BY <1>7, <1>8, <1>9, <1>10, <1>11, <1>12, NInvKept

-----------------------------------------------------------------------------
(* Steps that write the prompts or the opt-ins                              *)

LEMMA StopOptOutKept ==
  ASSUME NInv, NEW n \in Tasks, NEW ok \in BOOLEAN, StopOptOut(n, ok)
  PROVE  NInv'
<1>1. /\ task[n].pc = "optout" /\ Redis(ok) /\ task' = Crossing(Keep(n, Free), "stop")
      /\ ids' \subseteq ids /\ spareIds' \subseteq spareIds
      /\ UNCHANGED <<row, pending, spare, noted, asked, jumbled, sent>>
  BY DEF StopOptOut
<1>2. DOMAIN task = Tasks
  BY DEF NInv
<1>3. Keep(n, Free)[n] = Free /\ \A m \in Tasks \ {n} : Keep(n, Free)[m] = task[m]
  BY <1>2 DEF Keep
<1>4. task' = [m \in Tasks |-> IF Keep(n, Free)[m].pc = "begin" /\ Keep(n, Free)[m].kind = "stop"
                               THEN [Keep(n, Free)[m] EXCEPT !.crossed = TRUE] ELSE Keep(n, Free)[m]]
  BY <1>1 DEF Crossing
<1>5. task' = [m \in Tasks |-> task'[m]] /\ task'[n] = Free
  BY <1>3, <1>4, FreeShape
<1>6. ASSUME NEW m \in Tasks \ {n}
      PROVE  task'[m] = IF task[m].pc = "begin" /\ task[m].kind = "stop" THEN Crossed(task[m]) ELSE task[m]
  BY <1>3, <1>4 DEF Crossed
<1>7. RowsNumbered'
  BY <1>1, RowsKept DEF NInv, RowsNumbered
<1>8. NotesTyped' /\ (troubles' = 0 => troubles = 0)
  <2>1. troubles' \in 0 .. MaxTroubles /\ (troubles' = 0 => troubles = 0)
    BY <1>1, TroubleCounted DEF NInv
  <2> QED
    BY <1>1, <2>1 DEF NInv, NotesTyped
<1>9. ASSUME NEW m \in Tasks \ {n}
      PROVE  Stays(m) /\ Relies(m)
  <2>1. Crossed(task[m]).crossed
    BY CrossedShape DEF NInv, TaskInv
  <2> QED
    BY <1>1, <1>6, <2>1 DEF Stays, Relies
<1>10. \A m \in Tasks \ {n} : task'[m].pc = task[m].pc /\ task'[m].target = task[m].target
  BY <1>9, TaskStays DEF NInv
<1>11. Question'
  BY <1>1, <1>5, <1>8, <1>10, FreeShape, QuestionStays DEF NInv
<1>12. TaskInv(n)'
  BY <1>5, FreeInv
<1> QED
  BY <1>5, <1>7, <1>8, <1>9, <1>11, <1>12, NInvKept

LEMMA ListKept ==
  ASSUME NInv, NEW n \in Tasks, NEW ok \in BOOLEAN, List(n, ok)
  PROVE  NInv'
<1>1. /\ task[n].pc = "begin" /\ Redis(ok) /\ task' = [Crossing(task, "stop") EXCEPT ![n] = Free]
      /\ UNCHANGED <<row, ids, spareIds, pending, spare, noted, asked, jumbled, sent>>
  BY DEF List, At, stored
<1>2. Crossing(task, "stop") = [m \in Tasks |-> IF task[m].pc = "begin" /\ task[m].kind = "stop"
                                                THEN Crossed(task[m]) ELSE task[m]]
  BY DEF Crossing, Crossed
<1>3. task' = [m \in Tasks |-> IF m = n THEN Free
                               ELSE IF task[m].pc = "begin" /\ task[m].kind = "stop"
                               THEN Crossed(task[m]) ELSE task[m]]
  BY <1>1, <1>2
<1>4. /\ task' = [m \in Tasks |-> task'[m]] /\ task'[n] = Free
      /\ \A m \in Tasks \ {n} : task'[m] = task[m] \/ task'[m] = Crossed(task[m])
  BY <1>3
<1>5. RowsNumbered'
  BY <1>1 DEF NInv, RowsNumbered, Rows
<1>6. NotesTyped' /\ (troubles' = 0 => troubles = 0)
  <2>1. troubles' \in 0 .. MaxTroubles /\ (troubles' = 0 => troubles = 0)
    BY <1>1, TroubleCounted DEF NInv
  <2> QED
    BY <1>1, <2>1 DEF NInv, NotesTyped
<1>7. ASSUME NEW m \in Tasks \ {n}
      PROVE  Stays(m) /\ Relies(m)
  BY <1>1, <1>4, NothingChanges DEF Stays
<1>8. \A m \in Tasks \ {n} : task'[m].pc = task[m].pc /\ task'[m].target = task[m].target
  BY <1>7, TaskStays DEF NInv
<1>9. Question'
  BY <1>1, <1>4, <1>6, <1>8, FreeShape, QuestionStays DEF NInv
<1>10. TaskInv(n)'
  BY <1>4, FreeInv
<1> QED
  BY <1>4, <1>5, <1>6, <1>7, <1>9, <1>10, NInvKept

LEMMA StartPromptKept ==
  ASSUME NInv, NEW n \in Tasks, NEW ok \in BOOLEAN, StartPrompt(n, ok)
  PROVE  NInv'
<1>1. PICK q, t : q = task[n] /\ t = q.target
  OBVIOUS
<1>2. q.pc = "prompt" /\ q.kind = "start" /\ Shaped(q) /\ Placed(q) /\ t \in Targets
  BY <1>1 DEF StartPrompt, At, NInv, TaskInv, Placed
<1>3. PICK r : r = [q EXCEPT !.pc = "ask"]
  OBVIOUS
<1>4. /\ Redis(ok) /\ jumbled' = (jumbled \/ Asking)
      /\ IF ok THEN pending' = t /\ spare' = spare ELSE spare' = t /\ pending' = pending
      /\ task' = [m \in Tasks |-> IF m = n THEN r
                                  ELSE IF task[m].kind \in Replies THEN Crossed(task[m]) ELSE task[m]]
      /\ UNCHANGED <<row, ids, spareIds, noted, asked, sent>>
  BY <1>1, <1>3 DEF StartPrompt, Crossed
<1>5. /\ task' = [m \in Tasks |-> task'[m]] /\ task'[n] = r
      /\ \A m \in Tasks \ {n} : task'[m] = IF task[m].kind \in Replies THEN Crossed(task[m]) ELSE task[m]
  BY <1>4
<1>6. r.pc = "ask" /\ r.kind = "start" /\ r.target = t
  BY <1>1, <1>2, <1>3 DEF Shaped
<1>7. Shaped(r)
  BY <1>2, <1>3 DEF Shaped, TaskPlaces
<1>8. Placed(r)
  BY <1>2, <1>6 DEF Placed, Replies
<1>9. RowsNumbered'
  BY <1>4 DEF NInv, RowsNumbered, Rows
<1>10. troubles' \in 0 .. MaxTroubles /\ (troubles' = 0 => troubles = 0 /\ ok)
  BY <1>4, TroubleCounted DEF NInv
<1>11. NotesTyped'
  <2>1. jumbled' \in BOOLEAN
    BY <1>4 DEF Asking
  <2> QED
    BY <1>2, <1>4, <1>10, <2>1 DEF NInv, NotesTyped, NoOr
<1>12. ASSUME NEW m \in Tasks \ {n}
       PROVE  Stays(m) /\ Relies(m)
  <2>1. Crossed(task[m]).crossed
    BY CrossedShape DEF NInv, TaskInv
  <2>2. Listed(TRUE)' = Listed(TRUE)
    BY <1>4 DEF Listed, IdOf, Rows
  <2> QED
    BY <1>4, <1>5, <2>1, <2>2 DEF Stays, Relies
<1>13. \A m \in Tasks \ {n} : task'[m].pc = task[m].pc /\ task'[m].target = task[m].target
  BY <1>12, TaskStays DEF NInv
<1>14. Question'
  <2>1. SUFFICES ASSUME troubles' = 0
                 PROVE  /\ spare' = NoTarget
                        /\ ~jumbled' =>
                             /\ \A k, m \in Tasks : task'[k].pc = "ask" /\ task'[m].pc = "ask" => k = m
                             /\ \A m \in Tasks : task'[m].pc = "ask" => pending' \in {NoTarget, task'[m].target}
                             /\ ~Asking' => pending' \in {NoTarget, asked'}
    BY DEF Question
  <2>2. spare' = NoTarget /\ pending' = t
    BY <1>4, <1>10, <2>1 DEF NInv, Question
  <2>3. task'[n].pc = "ask" /\ task'[n].target = t
    BY <1>5, <1>6
  <2>4. Asking'
    BY <2>3 DEF Asking
  <2>5. ~jumbled' => \A m \in Tasks \ {n} : task'[m].pc # "ask"
    BY <1>4, <1>13 DEF Asking
  <2> QED
    BY <2>2, <2>3, <2>4, <2>5
<1>15. TaskInv(n)'
  <2>1. Shaped(task[n])' /\ Placed(task[n])'
    BY <1>5, <1>7, <1>8
  <2> QED
    BY <1>5, <1>6, <2>1 DEF TaskInv, ReplyReady, NumberReady, EditReady
<1> QED
  BY <1>5, <1>9, <1>11, <1>12, <1>14, <1>15, NInvKept

LEMMA StartAskKept ==
  ASSUME NInv, NEW n \in Tasks, StartAsk(n)
  PROVE  NInv'
<1>1. /\ task[n].pc = "ask" /\ task[n].kind = "start" /\ asked' = task[n].target
      /\ task' = Keep(n, Free)
      /\ UNCHANGED <<row, ids, spareIds, pending, spare, noted, jumbled, sent, troubles>>
  BY DEF StartAsk, At, End, stored
<1>2. /\ task' = [m \in Tasks |-> task'[m]] /\ task'[n] = Free
      /\ \A m \in Tasks \ {n} : task'[m] = task[m]
  BY <1>1, TaskIsSet DEF NInv
<1>3. task[n].target \in Targets
  BY <1>1 DEF NInv, TaskInv, Placed
<1>4. RowsNumbered'
  BY <1>1 DEF NInv, RowsNumbered, Rows
<1>5. NotesTyped'
  BY <1>1, <1>3 DEF NInv, NotesTyped, NoOr
<1>6. \A m \in Tasks \ {n} : Stays(m) /\ Relies(m)
  BY <1>1, <1>2, NothingChanges DEF Stays
<1>7. Question'
  <2>1. task'[n].pc # "ask"
    BY <1>2, FreeShape
  <2>2. SUFFICES ASSUME troubles = 0
                 PROVE  /\ spare' = NoTarget
                        /\ ~jumbled' =>
                             /\ \A k, m \in Tasks : task'[k].pc = "ask" /\ task'[m].pc = "ask" => k = m
                             /\ \A m \in Tasks : task'[m].pc = "ask" => pending' \in {NoTarget, task'[m].target}
                             /\ ~Asking' => pending' \in {NoTarget, asked'}
    BY <1>1 DEF Question
  <2>3. /\ spare = NoTarget
        /\ ~jumbled => /\ \A m \in Tasks : task[m].pc = "ask" => m = n
                       /\ pending \in {NoTarget, task[n].target}
    BY <1>1, <2>2 DEF NInv, Question
  <2>4. ~jumbled => \A m \in Tasks : task'[m].pc # "ask"
    BY <1>2, <2>1, <2>3
  <2> QED
    BY <1>1, <2>3, <2>4
<1>8. TaskInv(n)'
  BY <1>2, FreeInv
<1> QED
  BY <1>2, <1>4, <1>5, <1>6, <1>7, <1>8, NInvKept

LEMMA ReplyClearKept ==
  ASSUME NInv, NEW n \in Tasks, NEW ok \in BOOLEAN, ReplyClear(n, ok)
  PROVE  NInv'
<1>1. /\ task[n].pc = "clear" /\ Redis(ok) /\ task' = Keep(n, Free)
      /\ pending' \in {pending, NoTarget} /\ spare' = NoTarget
      /\ UNCHANGED <<row, ids, spareIds, noted, asked, jumbled, sent>>
  BY DEF ReplyClear, End
<1>2. /\ task' = [m \in Tasks |-> task'[m]] /\ task'[n] = Free
      /\ \A m \in Tasks \ {n} : task'[m] = task[m]
  BY <1>1, TaskIsSet DEF NInv
<1>3. RowsNumbered'
  BY <1>1 DEF NInv, RowsNumbered, Rows
<1>4. troubles' \in 0 .. MaxTroubles /\ (troubles' = 0 => troubles = 0)
  BY <1>1, TroubleCounted DEF NInv
<1>5. NotesTyped'
  BY <1>1, <1>4 DEF NInv, NotesTyped, NoOr
<1>6. Listed(TRUE)' = Listed(TRUE)
  BY <1>1 DEF Listed, IdOf, Rows
<1>7. \A m \in Tasks \ {n} : Stays(m) /\ Relies(m)
  BY <1>1, <1>2, <1>6 DEF Stays, Relies
<1>8. Question'
  <2>1. \A m \in Tasks : task'[m].pc = "ask" <=> task[m].pc = "ask" /\ m # n
    BY <1>1, <1>2, FreeShape
  <2>2. Asking' <=> Asking
    BY <1>1, <2>1 DEF Asking
  <2> QED
    BY <1>1, <1>2, <1>4, <2>1, <2>2 DEF NInv, Question
<1>9. TaskInv(n)'
  BY <1>2, FreeInv
<1> QED
  BY <1>2, <1>3, <1>5, <1>7, <1>8, <1>9, NInvKept

LEMMA PromptExpiresKept ==
  ASSUME NInv, PromptExpires
  PROVE  NInv'
<1>1. /\ Trouble /\ pending' = NoTarget
      /\ UNCHANGED <<row, ids, spareIds, spare, noted, asked, jumbled, task, sent>>
  BY DEF PromptExpires
<1>2. RowsNumbered'
  BY <1>1 DEF NInv, RowsNumbered, Rows
<1>3. troubles' \in 0 .. MaxTroubles /\ troubles' # 0
  BY <1>1, NamingConstants DEF NInv, NotesTyped, Trouble
<1>4. NotesTyped'
  BY <1>1, <1>3 DEF NInv, NotesTyped, NoOr
<1>5. Listed(TRUE)' = Listed(TRUE)
  BY <1>1 DEF Listed, IdOf, Rows
<1>6. \A m \in Tasks : Stays(m) /\ Relies(m)
  BY <1>1, <1>5 DEF Stays, Relies
<1>7. \A m \in Tasks : TaskInv(m)'
  BY <1>6, TaskStays DEF NInv
<1>8. Question'
  BY <1>3 DEF Question
<1> QED
  BY <1>1, <1>2, <1>4, <1>7, <1>8 DEF NInv

-----------------------------------------------------------------------------
(* The theorems about Naming                                                *)

LEMMA NInvStep ==
  ASSUME NInv, [NamingNext]_namingVars
  PROVE  NInv'
<1>1. CASE UNCHANGED namingVars
  <2>1. UNCHANGED <<row, ids, spareIds, spare, pending, noted, asked, jumbled, task, sent, troubles>>
    BY <1>1 DEF namingVars, stored
  <2>2. RowsNumbered' /\ NotesTyped'
    BY <2>1 DEF NInv, RowsNumbered, Rows, NotesTyped
  <2>3. Question'
    BY <2>1, QuestionStays DEF NInv
  <2>4. \A m \in Tasks : Stays(m) /\ Relies(m)
    BY <2>1, NothingChanges DEF Stays
  <2>5. \A m \in Tasks : TaskInv(m)'
    BY <2>4, TaskStays DEF NInv
  <2> QED
    BY <2>1, <2>2, <2>3, <2>5 DEF NInv
<1>2. CASE PromptExpires
  BY <1>2, PromptExpiresKept
<1>3. ASSUME NEW n \in Tasks,
             \/ Send(n) \/ StartAsk(n) \/ ReplyName(n) \/ StopRow(n)
             \/ EditBegin(n) \/ EditRemember(n) \/ EditFinish(n) \/ EditTell(n)
      PROVE  NInv'
  BY <1>3, SendKept, StartAskKept, ReplyNameKept, StopRowKept,
     EditBeginKept, EditRememberKept, EditFinishKept, EditTellKept
<1>4. ASSUME NEW n \in Tasks, NEW ok \in BOOLEAN,
             \/ StartRow(n, ok) \/ StartPrompt(n, ok) \/ ReplyRead(n, ok) \/ ReplyClear(n, ok)
             \/ List(n, ok) \/ StopResolve(n, ok) \/ StopOptOut(n, ok)
      PROVE  NInv'
  BY <1>4, StartRowKept, StartPromptKept, ReplyReadKept, ReplyClearKept,
     ListKept, StopResolveKept, StopOptOutKept
<1> QED
  BY <1>1, <1>2, <1>3, <1>4 DEF NamingNext

\* The old targets have the ids 1, 2, ... in the order of Old.
LEMMA OldRows ==
  ASSUME NamingInit
  PROVE  RowsNumbered
<1>1. Old \in Seq(Targets) /\ IsInjective(Old)
  BY NamingConstants
<1>2. Len(Old) \in Nat /\ DOMAIN Old = 1 .. Len(Old) /\ \A i \in 1 .. Len(Old) : Old[i] \in Targets
  BY <1>1
<1>3. \A i, j \in 1 .. Len(Old) : Old[i] = Old[j] => i = j
  BY <1>1, <1>2 DEF IsInjective
<1>4. ASSUME NEW t \in Targets
      PROVE  /\ Contains(Old, t) <=> \E i \in 1 .. Len(Old) : Old[i] = t
             /\ Contains(Old, t) => Index(Old, t) \in 1 .. Len(Old) /\ Old[Index(Old, t)] = t
  <2>1. Contains(Old, t) <=> \E i \in 1 .. Len(Old) : Old[i] = t
    BY <1>2 DEF Contains
  <2>2. (\E i \in 1 .. Len(Old) : Old[i] = t)
            => Index(Old, t) \in 1 .. Len(Old) /\ Old[Index(Old, t)] = t
    BY <1>2 DEF Index
  <2> QED
    BY <2>1, <2>2
<1>5. row = [t \in Targets |-> [id |-> IF Contains(Old, t) THEN Index(Old, t) ELSE 0,
                                enabled |-> Contains(Old, t), name |-> Default, interval |-> 60]]
  BY DEF NamingInit
<1>6. ASSUME NEW t \in Targets
      PROVE  /\ row[t] \in Record /\ (Contains(Old, t) <=> t \in Rows)
             /\ row[t].id = IF t \in Rows THEN Index(Old, t) ELSE 0
             /\ row[t].enabled <=> t \in Rows
  <2>1. row[t] = [id |-> IF Contains(Old, t) THEN Index(Old, t) ELSE 0,
                  enabled |-> Contains(Old, t), name |-> Default, interval |-> 60]
    BY <1>5
  <2>2. Contains(Old, t) \in BOOLEAN
    BY DEF Contains
  <2>3. row[t].id = (IF Contains(Old, t) THEN Index(Old, t) ELSE 0) /\ row[t].enabled = Contains(Old, t)
    BY <2>1
  <2>4. Contains(Old, t) <=> t \in Rows
    BY <1>2, <1>4, <2>3 DEF Rows
  <2>5. row[t].id \in Nat
    BY <1>2, <1>4, <2>3
  <2>6. row[t] \in Record
    BY <2>1, <2>2, <2>3, <2>5 DEF Record, Labels, Good
  <2> QED
    BY <2>2, <2>3, <2>4, <2>6
<1>7. Rows = {Old[i] : i \in 1 .. Len(Old)}
  BY <1>2, <1>4, <1>6 DEF Rows
<1>8. IsFiniteSet(Rows) /\ Cardinality(Rows) = Len(Old)
  <2>1. PICK f : f = [i \in 1 .. Len(Old) |-> Old[i]]
    OBVIOUS
  <2>2. f \in Bijection(1 .. Len(Old), Rows)
    BY <1>3, <1>7, <2>1 DEF Bijection, Injection, Surjection, IsInjective
  <2>3. ExistsBijection(1 .. Len(Old), Rows)
    BY <2>2 DEF ExistsBijection
  <2>4. IsFiniteSet(1 .. Len(Old)) /\ Cardinality(1 .. Len(Old)) = Len(Old)
    <3>1. 1 \in Int /\ Len(Old) \in Int /\ Len(Old) >= 0
      BY <1>2
    <3>2. /\ IsFiniteSet(1 .. Len(Old))
          /\ Cardinality(1 .. Len(Old)) = IF 1 > Len(Old) THEN 0 ELSE Len(Old) - 1 + 1
      BY <3>1, FS_Interval
    <3> QED
      BY <3>1, <3>2
  <2> QED
    BY <2>3, <2>4, FS_Bijection
<1>9. \A t, u \in Rows : row[t].id = row[u].id => t = u
  BY <1>4, <1>6 DEF Rows
<1>10. ids \cup spareIds \subseteq {row[t].id : t \in Rows}
  <2>1. ids \cup spareIds = 1 .. Len(Old)
    BY <1>2 DEF NamingInit
  <2>2. ASSUME NEW i \in 1 .. Len(Old)
        PROVE  Old[i] \in Rows /\ row[Old[i]].id = i
    BY <1>2, <1>3, <1>4, <1>6, <1>7
  <2> QED
    BY <2>1, <2>2
<1>11. row \in [Targets -> Record]
  BY <1>5, <1>6
<1>12. \A t \in Targets : row[t].id <= Cardinality(Rows) /\ (row[t].id = 0 => ~row[t].enabled)
  BY <1>2, <1>4, <1>6, <1>8 DEF Rows
<1> QED
  BY <1>8, <1>9, <1>10, <1>11, <1>12 DEF RowsNumbered

LEMMA NInvInit ==
  ASSUME NamingInit
  PROVE  NInv
<1>1. RowsNumbered
  BY OldRows
<1>2. NotesTyped
  <2>1. noted \subseteq Targets \X Names
    <3>1. ToSet(Old) \subseteq Targets
      BY NamingConstants DEF ToSet
    <3> QED
      BY <3>1 DEF NamingInit
  <2>2. MaxMessages \in Nat /\ MaxTroubles \in Nat
    BY NamingConstants
  <2>3. /\ pending = NoTarget /\ spare = NoTarget /\ asked = NoTarget
        /\ jumbled = FALSE /\ sent = 0 /\ troubles = 0
    BY DEF NamingInit
  <2>4. pending \in NoOr(Targets) /\ spare \in NoOr(Targets) /\ asked \in NoOr(Targets)
    BY <2>3 DEF NoOr
  <2>5. jumbled \in BOOLEAN
    BY <2>3
  <2>6. sent \in 0 .. MaxMessages /\ troubles \in 0 .. MaxTroubles
    BY <2>2, <2>3
  <2> QED
    BY <2>1, <2>4, <2>5, <2>6 DEF NotesTyped
<1>3. \A n \in Tasks : task[n] = Free
  BY DEF NamingInit
<1>4. Question
  BY <1>3, FreeShape DEF NamingInit, Question, Asking
<1>5. ASSUME NEW n \in Tasks
      PROVE  TaskInv(n)
  BY <1>3, FreeShape DEF TaskInv, ReplyReady, NumberReady, EditReady
<1>6. task = [n \in Tasks |-> task[n]]
  BY DEF NamingInit
<1> QED
  BY <1>1, <1>2, <1>4, <1>5, <1>6 DEF NInv

\* The rows are numbered without gap or repetition however tasks overlap and Redis
\* fails, and the opt-ins name rows there are (upsert_monitor_target, set_monitored).
THEOREM NamingTypeCorrect == NamingSpec => []NamingTypeOK
<1>1. NInv => NamingTypeOK
  <2> SUFFICES ASSUME NInv
               PROVE  NamingTypeOK
    OBVIOUS
  <2>2. Cardinality(Rows) \in Nat
    BY FS_CardinalityType DEF NInv, RowsNumbered
  <2>3. ASSUME NEW t \in Targets
        PROVE  /\ row[t].id \in 0 .. Cardinality(Rows)
               /\ row[t].name \in Names \cup {Default} /\ row[t].interval \in Good
               /\ row[t].id = 0 => ~row[t].enabled
    BY <2>2 DEF NInv, RowsNumbered, Record, Labels
  <2>4. {pending, spare, asked} \subseteq Targets \cup {NoTarget}
    BY DEF NInv, NotesTyped, NoOr
  <2> QED
    BY <2>3, <2>4 DEF NamingTypeOK, NInv, RowsNumbered, NotesTyped
<1> QED
  BY <1>1, NInvInit, NInvStep, PTL DEF NamingSpec

\* A name goes to the target it was asked for, a number stops the target it had in
\* the list its sender saw, and a refused edit leaves the name, unless something the
\* sender could not see came between (_reply_ai, resolve_monitor_number,
\* update_monitor_target).
THEOREM NamingChatUnderstood == NamingSpec => []ChatUnderstood
<1>1. NInv => ChatUnderstood
  BY DEF NInv, TaskInv, ReplyReady, NumberReady, EditReady,
         ChatUnderstood, NamesMeant, NumbersMeant, RefusalsExplained
<1> QED
  BY <1>1, NInvInit, NInvStep, PTL DEF NamingSpec

=============================================================================
