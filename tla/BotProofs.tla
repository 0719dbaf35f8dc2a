------------------------------ MODULE BotProofs ------------------------------
(* Theorems about Bot, for every number of updates, list length and cap.     *)
EXTENDS Bot, SequenceTheorems, FiniteSetTheorems, WellFoundedInduction, TLAPS

-----------------------------------------------------------------------------
(* Induction is replaced by least counterexamples. *)

SmallerPair == {pair \in Nat \X Nat : pair[1] < pair[2]}

\* A nonempty set of naturals has a least element.
LEMMA LeastElement ==
  ASSUME NEW numbers \in SUBSET Nat, numbers # {}
  PROVE  \E least \in numbers : \A n \in numbers : least <= n
<1>1. IsWellFoundedOn(SmallerPair, Nat)
  BY NatLessThanWellFounded DEF OpToRel, SmallerPair
<1>2. PICK x \in numbers : \A y \in numbers : ~ (<<y, x>> \in SmallerPair)
  BY <1>1, WFMin, Zenon
<1>3. \A y \in numbers : ~(y < x)
  BY <1>2 DEF SmallerPair
<1> QED
  BY <1>3

-----------------------------------------------------------------------------
(* The lists of exchanges. *)

IsList(s, n) == s \in Seq(1..n) /\ Len(s) <= Limit /\ Increasing(s)
\* The latest exchanges of n, as many as are kept.
IsLatest(s, n) == /\ Len(s) = IF n <= Limit THEN n ELSE Limit
                  /\ \A i \in 1..Len(s) : s[i] = n - Len(s) + i

LEMMA LastOfProperties ==
  ASSUME NEW s \in Seq(Nat), NEW n \in Nat
  PROVE  /\ LastOf(s, n) \in Seq(Nat)
         /\ Len(LastOf(s, n)) = IF Len(s) <= n THEN Len(s) ELSE n
         /\ \A i \in 1..Len(LastOf(s, n)) :
               LastOf(s, n)[i] = s[Len(s) - Len(LastOf(s, n)) + i]
<1>1. CASE Len(s) <= n
  BY <1>1 DEF LastOf
<1>2. CASE Len(s) > n
  <2> DEFINE top == Len(s)
             low == top - n + 1
  <2>1. LastOf(s, n) = SubSeq(s, low, top)
    BY <1>2 DEF LastOf
  <2>2. /\ top \in Nat /\ low \in Int /\ 1 <= low /\ low <= top + 1 /\ top - low + 1 = n
        /\ \A i \in 1..n : low + i - 1 = top - n + i
    BY <1>2
  <2>3. \A i \in low..top : s[i] \in Nat
    BY <2>2
  <2> HIDE DEF low, top
  <2>4. /\ SubSeq(s, low, top) \in Seq(Nat)
        /\ Len(SubSeq(s, low, top)) = IF low <= top THEN top - low + 1 ELSE 0
        /\ \A i \in 1..(top - low + 1) : SubSeq(s, low, top)[i] = s[low + i - 1]
    BY <2>2, <2>3, SubSeqProperties
  <2>5. Len(LastOf(s, n)) = n
    BY <2>1, <2>2, <2>4
  <2>6. \A i \in 1..n : LastOf(s, n)[i] = s[top - n + i]
    BY <2>1, <2>2, <2>4
  <2> QED
    <3>1. LastOf(s, n) \in Seq(Nat)
      BY <2>1, <2>4
    <3>2. top = Len(s) /\ ~(Len(s) <= n)
      BY <1>2 DEF top
    <3> QED
      BY <2>5, <2>6, <3>1, <3>2
<1> QED
  BY <1>1, <1>2

\* An exchange appended to a list is its newest, and what is dropped is the oldest.
LEMMA AppendedProperties ==
  ASSUME pushes \in Nat, NEW s, IsList(s, pushes)
  PROVE  /\ IsList(Appended(s), pushes + 1) /\ Appended(s) # << >>
         /\ Newer(Appended(s)) = pushes + 1
         /\ IsLatest(s, pushes) => IsLatest(Appended(s), pushes + 1)
<1> DEFINE a == Append(s, pushes + 1)
           r == Appended(s)
           n == Len(s)
           k == Len(r)
           d == n + 1 - k
<1>1. /\ s \in Seq(Nat) /\ a \in Seq(Nat) /\ Len(a) = n + 1 /\ a[n + 1] = pushes + 1
      /\ \A i \in 1..n : a[i] = s[i] /\ s[i] \in 1..pushes
      /\ n \in Nat /\ Limit \in Nat \ {0} /\ n <= Limit
  <2>1. s \in Seq(1..pushes) /\ Len(s) <= Limit /\ Limit \in Nat \ {0}
    BY ContextConstants DEF IsList
  <2>2. s \in Seq(Nat)
    BY <2>1
  <2> QED
    BY <2>1, <2>2, AppendProperties
<1>2. /\ r \in Seq(Nat) /\ k = IF Len(a) <= Limit THEN Len(a) ELSE Limit
      /\ \A i \in 1..k : r[i] = a[Len(a) - k + i]
  BY <1>1, LastOfProperties DEF Appended
<1>3. k \in Nat \ {0} /\ k <= Limit /\ k <= n + 1 /\ d \in Nat
      /\ \A i \in 1..k : r[i] = a[d + i] /\ d + i \in 1..(n + 1)
  <2> HIDE DEF a, r, n, k
  <2>1. k \in Nat \ {0} /\ k <= Limit /\ k <= n + 1 /\ d \in Nat /\ d = Len(a) - k
    BY <1>1, <1>2
  <2> HIDE DEF d
  <2>2. \A i \in 1..k : r[i] = a[d + i]
    BY <1>2, <2>1
  <2>3. \A i \in 1..k : d + i \in 1..(n + 1)
    BY <1>1, <2>1 DEF d
  <2> QED
    BY <2>1, <2>2, <2>3
<1>4. \A i \in 1..(n + 1) : a[i] \in 1..(pushes + 1)
  <2> SUFFICES ASSUME NEW i \in 1..(n + 1) PROVE a[i] \in 1..(pushes + 1)
    OBVIOUS
  <2>1. i = n + 1 \/ i \in 1..n
    BY <1>1
  <2> HIDE DEF a, n
  <2> QED
    BY <1>1, <2>1
<1> HIDE DEF a, r, n, k, d
<1>5. \A i \in 1..k : r[i] \in 1..(pushes + 1)
  BY <1>3, <1>4
<1>6. r \in Seq(1..(pushes + 1))
  BY <1>2, <1>5 DEF k
<1>7. \A i \in 1..n : a[i] < a[i + 1]
  <2> SUFFICES ASSUME NEW i \in 1..n PROVE a[i] < a[i + 1]
    OBVIOUS
  <2>1. CASE i = n
    <3>1. a[i] \in 1..pushes /\ a[i + 1] = pushes + 1
      BY <1>1, <2>1
    <3> QED
      BY <3>1
  <2>2. CASE i # n
    <3>1. i \in 1..(n - 1) /\ i + 1 \in 1..n
      BY <1>1, <2>2
    <3>2. s[i] < s[i + 1]
      BY <3>1 DEF IsList, Increasing, n
    <3> QED
      BY <1>1, <3>1, <3>2
  <2> QED
    BY <2>1, <2>2
<1>8. Increasing(r)
  <2> SUFFICES ASSUME NEW i \in 1..(k - 1) PROVE r[i] < r[i + 1]
    BY DEF Increasing, k
  <2>1. i \in 1..k /\ i + 1 \in 1..k /\ d + i \in 1..n /\ d + (i + 1) = (d + i) + 1
    BY <1>1, <1>3 DEF d
  <2>2. r[i] = a[d + i] /\ r[i + 1] = a[(d + i) + 1]
    BY <1>3, <2>1
  <2> QED
    BY <1>7, <2>1, <2>2
<1>9. r # << >> /\ Newer(r) = pushes + 1
  <2>1. r # << >> /\ k \in 1..k /\ d + k = n + 1
    BY <1>1, <1>2, <1>3 DEF k, d
  <2>2. r[k] = pushes + 1
    BY <1>1, <1>3, <2>1
  <2> QED
    BY <2>1, <2>2 DEF Newer, Last, k
<1>10. IsLatest(s, pushes) => IsLatest(r, pushes + 1)
  <2> SUFFICES ASSUME IsLatest(s, pushes) PROVE IsLatest(r, pushes + 1)
    OBVIOUS
  <2>1. k = IF pushes + 1 <= Limit THEN pushes + 1 ELSE Limit
    BY <1>1, <1>2 DEF IsLatest, n
  <2>2. \A i \in 1..(n + 1) : a[i] = pushes - n + i
    <3> SUFFICES ASSUME NEW i \in 1..(n + 1) PROVE a[i] = pushes - n + i
      OBVIOUS
    <3>1. CASE i = n + 1
      BY <1>1, <3>1
    <3>2. CASE i \in 1..n
      BY <1>1, <3>2 DEF IsLatest, n
    <3> QED
      BY <1>1, <3>1, <3>2
  <2>3. \A i \in 1..k : r[i] = pushes + 1 - k + i
    <3> SUFFICES ASSUME NEW i \in 1..k PROVE r[i] = pushes + 1 - k + i
      OBVIOUS
    <3>1. r[i] = a[d + i] /\ d + i \in 1..(n + 1)
      BY <1>3
    <3>2. r[i] = pushes - n + (d + i)
      BY <2>2, <3>1
    <3> QED
      BY <1>1, <1>3, <3>2 DEF d
  <2> QED
    BY <2>1, <2>3 DEF IsLatest, k
<1> QED
  BY <1>3, <1>6, <1>8, <1>9, <1>10 DEF IsList, r, k

\* Exchanges that are written later change nothing of a list.
LEMMA ListStays ==
  ASSUME NEW n \in Nat, NEW s, IsList(s, n)
  PROVE  IsList(s, n + 1) /\ Newer(s) \in 0..n
<1>1. s \in Seq(1..n) /\ 1..n \subseteq 1..(n + 1)
  BY DEF IsList
<1>2. s \in Seq(1..(n + 1))
  BY <1>1
<1>3. s # << >> => s[Len(s)] \in 1..n
  BY <1>1
<1> QED
  BY <1>2, <1>3 DEF IsList, Newer, Last

LEMMA EmptyList == ASSUME NEW n \in Nat PROVE IsList(<< >>, n)
<1>1. << >> \in Seq(1..n) /\ Len(<< >>) = 0
  OBVIOUS
<1> QED
  BY <1>1, ContextConstants DEF IsList, Increasing

\* A list of the latest exchanges is the end of all of them.
LEMMA LatestIs ==
  ASSUME pushes \in Nat, NEW s \in Seq(Nat), IsLatest(s, pushes)
  PROVE  s = LastOf([i \in 1..pushes |-> i], Limit)
<1> DEFINE all == [i \in 1..pushes |-> i]
<1>1. all \in Seq(Nat) /\ Len(all) = pushes /\ \A i \in 1..pushes : all[i] = i
  OBVIOUS
<1> HIDE DEF all
<1>2. /\ LastOf(all, Limit) \in Seq(Nat)
      /\ Len(LastOf(all, Limit)) = IF pushes <= Limit THEN pushes ELSE Limit
      /\ \A i \in 1..Len(LastOf(all, Limit)) :
            LastOf(all, Limit)[i] = all[pushes - Len(LastOf(all, Limit)) + i]
  BY <1>1, LastOfProperties, ContextConstants
<1>3. Len(s) = Len(LastOf(all, Limit)) /\ Len(s) <= pushes /\ Len(s) \in Nat
  BY <1>2, ContextConstants DEF IsLatest
<1>4. \A i \in 1..Len(s) : s[i] = LastOf(all, Limit)[i]
  <2> SUFFICES ASSUME NEW i \in 1..Len(s) PROVE s[i] = LastOf(all, Limit)[i]
    OBVIOUS
  <2>1. pushes - Len(s) + i \in 1..pushes
    BY <1>3
  <2> QED
    BY <1>1, <1>2, <1>3, <2>1 DEF IsLatest
<1> QED
  BY <1>2, <1>3, <1>4, SeqEqual DEF all

-----------------------------------------------------------------------------
(* The conversation: its part of the inductive invariant. *)

CallType == [pc : {"idle", "write", "pushed", "look", "sum", "end"}, read : Seq(Nat),
             crossed : BOOLEAN]

ContextTyped ==
    /\ pushes \in Nat /\ summary \in 0..pushes /\ spareSummary \in 0..pushes
    /\ disturbed \in BOOLEAN /\ astray \in BOOLEAN /\ marked \in BOOLEAN
    /\ c \in [Talkers -> CallType]
    /\ IsList(history, pushes) /\ IsList(spare, pushes)
    /\ \A t \in Talkers : IsList(c[t].read, pushes)

\* Undisturbed, the list is the latest exchanges, and one task at most is between
\* its reading and its writing.
Undisturbed ==
    /\ IsLatest(history, pushes)
    /\ \A t \in Talkers : Is(t, "write") => c[t].read = history
    /\ \A s, t \in Talkers : Is(s, "write") /\ Is(t, "write") => s = t
    /\ \A t \in Talkers : Summing(t) => pushes >= Limit - 1 /\ (~c[t].crossed => marked)

CrossedPairs == \A s, t \in Talkers : Summing(s) /\ Summing(t) /\ s # t => c[s].crossed

\* With no summary of another list, what is told and what is being told is known to Redis.
NothingAhead ==
    /\ history # << >> => /\ summary <= Newer(history)
                          /\ \A t \in Talkers : Summing(t) => Newer(c[t].read) <= Newer(history)
    /\ \A t \in Talkers : Summing(t) /\ ~c[t].crossed /\ c[t].read # << >>
          => summary <= Newer(c[t].read)

ContextInv ==
    /\ ContextTyped
    /\ ~disturbed => Undisturbed
    /\ CrossedPairs
    /\ ~astray => NothingAhead

LEMMA NewerType ==
  ASSUME NEW n \in Nat, NEW s, IsList(s, n) PROVE Newer(s) \in 0..n
BY ListStays

LEMMA SilentType ==
  Silent \in CallType /\ Silent.pc = "idle" /\ Silent.read = << >> /\ Silent.crossed = FALSE
<1>1. << >> \in Seq(Nat)
  OBVIOUS
<1> QED
  BY <1>1 DEF Silent, CallType

LEMMA ContextInitHolds == ContextInit => ContextInv
<1> SUFFICES ASSUME ContextInit PROVE ContextInv
  OBVIOUS
<1>1. /\ history = <<1>> /\ pushes = 1 /\ spare = << >> /\ summary = 0 /\ spareSummary = 0
      /\ marked = FALSE /\ disturbed = FALSE /\ astray = FALSE
      /\ c = [t \in Talkers |-> Silent]
  BY DEF ContextInit
<1>2. IsList(<<1>>, 1) /\ IsLatest(<<1>>, 1)
  <2>1. <<1>> \in Seq(1..1) /\ Len(<<1>>) = 1 /\ <<1>>[1] = 1
    OBVIOUS
  <2> QED
    BY <2>1, ContextConstants DEF IsList, IsLatest, Increasing
<1>3. \A t \in Talkers : c[t].pc = "idle" /\ c[t].read = << >>
  BY <1>1 DEF Silent
<1>4. c \in [Talkers -> CallType]
  <2>1. << >> \in Seq(Nat)
    OBVIOUS
  <2> QED
    BY <1>1, <2>1 DEF Silent, CallType
<1>5. ContextTyped
  <2>1. IsList(<< >>, 1)
    BY EmptyList
  <2> QED
    <3>1. pushes \in Nat /\ summary \in 0..pushes /\ spareSummary \in 0..pushes
      BY <1>1
    <3>2. disturbed \in BOOLEAN /\ astray \in BOOLEAN /\ marked \in BOOLEAN
      BY <1>1
    <3>3. /\ IsList(history, pushes) /\ IsList(spare, pushes)
          /\ \A t \in Talkers : IsList(c[t].read, pushes)
      BY <1>1, <1>2, <1>3, <2>1
    <3> QED
      BY <1>4, <3>1, <3>2, <3>3 DEF ContextTyped
<1>6. Undisturbed /\ CrossedPairs /\ NothingAhead
  <2>1. Newer(<<1>>) = 1
    BY DEF Newer, Last
  <2> QED
    BY <1>1, <1>2, <1>3, <2>1 DEF Undisturbed, CrossedPairs, NothingAhead, Is, Summing
<1> QED
  BY <1>5, <1>6 DEF ContextInv

LEMMA PushReadKeeps ==
  ASSUME ContextInv, NEW t \in Talkers, NEW ok \in BOOLEAN, PushRead(t, ok)
  PROVE  ContextInv'
<1> DEFINE read == IF ok THEN history ELSE spare
<1> DEFINE x == [Silent EXCEPT !.pc = "write", !.read = read]
<1>1. /\ Is(t, "idle") /\ disturbed' = (disturbed \/ ~ok \/ \E s \in Talkers : Is(s, "write"))
      /\ UNCHANGED <<history, spare, summary, spareSummary, marked, pushes, astray>>
      /\ c' = [c EXCEPT ![t] = x]
  BY DEF PushRead
<1>2. IsList(read, pushes) /\ read \in Seq(Nat) /\ pushes \in Nat /\ c \in [Talkers -> CallType]
  <2>1. IsList(read, pushes) /\ pushes \in Nat
    BY DEF ContextInv, ContextTyped
  <2>2. read \in Seq(1..pushes)
    BY <2>1 DEF IsList
  <2> QED
    BY <2>1, <2>2 DEF ContextInv, ContextTyped
<1> HIDE DEF read
<1>3. /\ c' \in [Talkers -> CallType]
      /\ c'[t].pc = "write" /\ c'[t].read = read
      /\ \A s \in Talkers : s # t => c'[s] = c[s]
  <2>1. x \in CallType /\ x.pc = "write" /\ x.read = read
    BY <1>2, SilentType DEF CallType
  <2> HIDE DEF x
  <2> QED
    BY <1>1, <1>2, <2>1
<1>4. ContextTyped'
  BY <1>1, <1>2, <1>3 DEF ContextInv, ContextTyped
<1>5. \A s \in Talkers : Summing(s)' => Summing(s) /\ c'[s] = c[s]
  BY <1>3 DEF Summing, Is
<1>6. ~disturbed' => Undisturbed'
  BY <1>1, <1>3, <1>5 DEF ContextInv, Undisturbed, Is, read
<1>7. CrossedPairs' /\ (~astray' => NothingAhead')
  BY <1>1, <1>5 DEF ContextInv, CrossedPairs, NothingAhead
<1> QED
  BY <1>4, <1>6, <1>7 DEF ContextInv

LEMMA PushWriteKeeps ==
  ASSUME ContextInv, NEW t \in Talkers, NEW ok \in BOOLEAN, PushWrite(t, ok)
  PROVE  ContextInv'
<1> DEFINE a == Appended(c[t].read)
           x == [Silent EXCEPT !.pc = "pushed"]
<1>1. /\ Is(t, "write") /\ disturbed' = (disturbed \/ ~ok) /\ pushes' = pushes + 1
      /\ history' = a \/ (history' = history /\ ~ok)
      /\ spare' = spare \/ spare' = Appended(spare)
      /\ UNCHANGED <<summary, spareSummary, marked, astray>>
      /\ c' = [c EXCEPT ![t] = x]
  BY DEF PushWrite
<1>2. /\ pushes \in Nat /\ c \in [Talkers -> CallType] /\ << >> \in Seq(Nat)
      /\ summary \in 0..pushes /\ spareSummary \in 0..pushes
      /\ IsList(c[t].read, pushes) /\ IsList(history, pushes) /\ IsList(spare, pushes)
  BY DEF ContextInv, ContextTyped
<1>3. /\ IsList(a, pushes + 1) /\ a # << >> /\ Newer(a) = pushes + 1
      /\ IsLatest(c[t].read, pushes) => IsLatest(a, pushes + 1)
  BY <1>2, AppendedProperties
<1>4. IsList(Appended(spare), pushes + 1)
  BY <1>2, AppendedProperties
<1>5. /\ IsList(history', pushes') /\ IsList(spare', pushes')
      /\ \A s \in Talkers : IsList(c[s].read, pushes') /\ Newer(c[s].read) \in 0..pushes
  <2>1. \A s \in Talkers : IsList(c[s].read, pushes)
    BY DEF ContextInv, ContextTyped
  <2> HIDE DEF a
  <2> QED
    BY <1>1, <1>2, <1>3, <1>4, <2>1, ListStays
<1> HIDE DEF a
<1>6. /\ c' \in [Talkers -> CallType]
      /\ c'[t].pc = "pushed" /\ c'[t].read = << >>
      /\ \A s \in Talkers : s # t => c'[s] = c[s]
  <2>1. x \in CallType /\ x.pc = "pushed" /\ x.read = << >>
    BY SilentType DEF CallType
  <2> HIDE DEF x
  <2> QED
    BY <1>1, <1>2, <2>1
<1>7. ContextTyped'
  <2>1. IsList(<< >>, pushes')
    BY <1>1, <1>2, EmptyList
  <2> QED
    BY <1>1, <1>2, <1>5, <1>6, <2>1 DEF ContextInv, ContextTyped
<1>8. \A s \in Talkers : Summing(s)' => Summing(s) /\ c'[s] = c[s]
  BY <1>6 DEF Summing, Is
<1>9. ~disturbed' => Undisturbed'
  <2> SUFFICES ASSUME ~disturbed' PROVE Undisturbed'
    OBVIOUS
  <2>1. ~disturbed /\ history' = a
    BY <1>1
  <2>2. /\ c[t].read = history /\ IsLatest(history, pushes)
        /\ \A s \in Talkers : Is(s, "write") => s = t
    BY <1>1, <2>1 DEF ContextInv, Undisturbed
  <2>3. IsLatest(history', pushes')
    BY <1>1, <1>3, <2>1, <2>2
  <2>4. \A s \in Talkers : ~Is(s, "write")'
    BY <1>6, <2>2 DEF Is
  <2>5. \A s \in Talkers : Summing(s)' => pushes' >= Limit - 1 /\ (~c'[s].crossed => marked')
    <3>1. \A s \in Talkers : Summing(s)' =>
             Summing(s) /\ c'[s] = c[s] /\ pushes >= Limit - 1 /\ (~c[s].crossed => marked)
      BY <1>8, <2>1 DEF ContextInv, Undisturbed
    <3>2. pushes >= Limit - 1 => pushes' >= Limit - 1
      BY <1>1, <1>2, ContextConstants
    <3>3. marked' = marked
      BY <1>1
    <3> QED
      BY <3>1, <3>2, <3>3
  <2> QED
    BY <2>3, <2>4, <2>5 DEF Undisturbed
<1>10. CrossedPairs'
  BY <1>8 DEF ContextInv, CrossedPairs
<1>11. ~astray' => NothingAhead'
  <2> SUFFICES ASSUME ~astray PROVE NothingAhead'
    BY <1>1
  <2>1. CASE history' = a
    <3>1. Newer(history') = pushes + 1 /\ summary' <= pushes + 1
      BY <1>1, <1>2, <1>3, <2>1
    <3>2. \A s \in Talkers : Newer(c[s].read) <= pushes + 1
      BY <1>2, <1>5
    <3> QED
      BY <1>1, <1>8, <3>1, <3>2 DEF ContextInv, NothingAhead
  <2>2. CASE history' = history
    BY <1>1, <1>8, <2>2 DEF ContextInv, NothingAhead
  <2> QED
    BY <1>1, <2>1, <2>2
<1> QED
  BY <1>7, <1>9, <1>10, <1>11 DEF ContextInv

\* SumCheck moves a call on that is not between a reading and its use.
LEMMA SumCheckKeeps == ASSUME ContextInv, NEW t \in Talkers, SumCheck(t) PROVE ContextInv'
<1>1. PICK pc \in {"end", "look"} : c' = [c EXCEPT ![t].pc = pc]
  BY DEF SumCheck, Goes
<1>2. /\ Is(t, "pushed") /\ c \in [Talkers -> CallType]
      /\ UNCHANGED <<history, spare, summary, spareSummary, marked, pushes, disturbed, astray>>
  BY DEF SumCheck, ContextInv, ContextTyped
<1>3. /\ c' \in [Talkers -> CallType] /\ \A s \in Talkers : c'[s].read = c[s].read
      /\ c'[t].pc = pc /\ \A s \in Talkers : s # t => c'[s] = c[s]
  BY <1>1, <1>2 DEF CallType
<1>4. \A s \in Talkers : /\ Summing(s)' => Summing(s) /\ c'[s] = c[s]
                         /\ Is(s, "write")' => Is(s, "write") /\ c'[s] = c[s]
  BY <1>3 DEF Summing, Is
<1>5. ContextTyped'
  BY <1>2, <1>3 DEF ContextInv, ContextTyped
<1>6. Undisturbed => Undisturbed'
  BY <1>2, <1>4 DEF Undisturbed
<1>7. CrossedPairs' /\ (NothingAhead => NothingAhead')
  BY <1>2, <1>4 DEF ContextInv, CrossedPairs, NothingAhead
<1> QED
  BY <1>2, <1>5, <1>6, <1>7 DEF ContextInv

LEMMA SumLookKeeps ==
  ASSUME ContextInv, NEW t \in Talkers, NEW ok \in BOOLEAN, SumLook(t, ok)
  PROVE  ContextInv'
<1> DEFINE read == IF ok THEN history ELSE spare
           new(s) == IF s = t THEN [pc |-> "sum", read |-> read,
                                    crossed |-> ~ok \/ \E r \in Talkers : Summing(r)]
                     ELSE IF Summing(s) THEN [c[s] EXCEPT !.crossed = TRUE] ELSE c[s]
<1>1. /\ Is(t, "look") /\ disturbed' = (disturbed \/ ~ok)
      /\ UNCHANGED <<history, spare, summary, spareSummary, pushes>>
      /\ c \in [Talkers -> CallType] /\ pushes \in Nat /\ Limit \in Nat \ {0}
  BY ContextConstants DEF SumLook, ContextInv, ContextTyped
<1>2. IsList(read, pushes) /\ read \in Seq(Nat) /\ Len(read) \in Nat
  <2>1. IsList(read, pushes)
    BY DEF ContextInv, ContextTyped
  <2>2. read \in Seq(1..pushes)
    BY <2>1 DEF IsList
  <2> QED
    BY <1>1, <2>1, <2>2
<1>3. CASE Len(read) < Limit - 1
  <2>1. /\ c' = [c EXCEPT ![t].pc = "end"] /\ marked' = FALSE /\ astray' = astray
    BY <1>3 DEF SumLook, Goes
  <2>2. /\ c' \in [Talkers -> CallType] /\ \A s \in Talkers : c'[s].read = c[s].read
        /\ c'[t].pc = "end" /\ \A s \in Talkers : s # t => c'[s] = c[s]
    BY <1>1, <2>1 DEF CallType
  <2>3. \A s \in Talkers : /\ Summing(s)' => Summing(s) /\ c'[s] = c[s]
                           /\ Is(s, "write")' => Is(s, "write") /\ c'[s] = c[s]
    BY <2>2 DEF Summing, Is
  <2>4. ContextTyped'
    <3>1. disturbed' \in BOOLEAN /\ astray' \in BOOLEAN /\ marked' \in BOOLEAN
      BY <1>1, <2>1 DEF ContextInv, ContextTyped
    <3> QED
      BY <1>1, <2>2, <3>1 DEF ContextInv, ContextTyped
  <2>5. ~disturbed' => Undisturbed'
    <3> SUFFICES ASSUME ~disturbed' PROVE Undisturbed'
      OBVIOUS
    <3>1. ~disturbed /\ read = history /\ Undisturbed
      BY <1>1 DEF ContextInv
    <3>2. \A s \in Talkers : ~Summing(s)
      <4>1. Len(history) < Limit - 1
        BY <1>3, <3>1
      <4>2. ~(pushes >= Limit - 1)
        BY <1>1, <3>1, <4>1 DEF Undisturbed, IsLatest
      <4> QED
        BY <3>1, <4>2 DEF Undisturbed
    <3> QED
      BY <1>1, <2>3, <3>1, <3>2 DEF Undisturbed
  <2>6. CrossedPairs' /\ (~astray' => NothingAhead')
    BY <1>1, <2>1, <2>3 DEF ContextInv, CrossedPairs, NothingAhead
  <2> QED
    BY <2>4, <2>5, <2>6 DEF ContextInv
<1>4. CASE ~(Len(read) < Limit - 1)
  <2>1. /\ c' = [s \in Talkers |-> new(s)] /\ marked' = TRUE /\ astray' = (astray \/ ~ok)
    BY <1>4 DEF SumLook
  <2>2. /\ c' \in [Talkers -> CallType]
        /\ \A s \in Talkers : s # t =>
              c'[s].read = c[s].read /\ c'[s].pc = c[s].pc /\ (Summing(s) => c'[s].crossed)
        /\ \A s \in Talkers : s # t => (c'[s].crossed <=> c[s].crossed \/ Summing(s))
        /\ c'[t].pc = "sum" /\ c'[t].read = read
        /\ (\E r \in Talkers : Summing(r)) => c'[t].crossed
    <3>1. \A s \in Talkers : s # t =>
             /\ new(s) \in CallType /\ new(s).read = c[s].read /\ new(s).pc = c[s].pc
             /\ Summing(s) => new(s).crossed
             /\ ~Summing(s) => new(s) = c[s]
      <4> HIDE DEF read
      <4> SUFFICES ASSUME NEW s \in Talkers, s # t
                   PROVE  /\ new(s) \in CallType /\ new(s).read = c[s].read /\ new(s).pc = c[s].pc
                          /\ Summing(s) => new(s).crossed
                          /\ ~Summing(s) => new(s) = c[s]
        OBVIOUS
      <4>1. CASE Summing(s)
        <5>1. new(s) = [c[s] EXCEPT !.crossed = TRUE]
          BY <4>1
        <5> QED
          BY <1>1, <4>1, <5>1 DEF CallType
      <4>2. CASE ~Summing(s)
        BY <1>1, <4>2
      <4> QED
        BY <4>1, <4>2
    <3>2. /\ new(t) \in CallType /\ new(t).pc = "sum" /\ new(t).read = read
          /\ (\E r \in Talkers : Summing(r)) => new(t).crossed
      <4> HIDE DEF read
      <4> DEFINE b == ~ok \/ \E r \in Talkers : Summing(r)
      <4>1. new(t) = [pc |-> "sum", read |-> read, crossed |-> b] /\ b \in BOOLEAN
        OBVIOUS
      <4>2. (\E r \in Talkers : Summing(r)) => b
        OBVIOUS
      <4> HIDE DEF b
      <4> QED
        BY <1>2, <4>1, <4>2 DEF CallType
    <3> HIDE DEF new
    <3> QED
      BY <2>1, <3>1, <3>2
  <2> HIDE DEF new
  <2>3. \A s \in Talkers : /\ Summing(s)' <=> Summing(s) \/ s = t
                           /\ Is(s, "write")' <=> Is(s, "write")
    BY <1>1, <2>2 DEF Summing, Is
  <2>4. ContextTyped'
    <3>1. disturbed' \in BOOLEAN /\ astray' \in BOOLEAN /\ marked' \in BOOLEAN
      BY <1>1, <2>1 DEF ContextInv, ContextTyped
    <3>2. \A s \in Talkers : IsList(c'[s].read, pushes')
      BY <1>1, <1>2, <2>2 DEF ContextInv, ContextTyped
    <3> QED
      BY <1>1, <2>2, <3>1, <3>2 DEF ContextInv, ContextTyped
  <2>5. ~disturbed' => Undisturbed'
    <3> SUFFICES ASSUME ~disturbed' PROVE Undisturbed'
      OBVIOUS
    <3>1. ~disturbed /\ read = history /\ Undisturbed
      BY <1>1 DEF ContextInv
    <3>2. pushes >= Limit - 1
      <4>1. ~(Len(history) < Limit - 1)
        BY <1>4, <3>1
      <4> QED
        BY <1>1, <3>1, <4>1 DEF Undisturbed, IsLatest
    <3>3. \A s \in Talkers : Is(s, "write") => s # t
      BY <1>1 DEF Is
    <3> QED
      BY <1>1, <2>1, <2>2, <2>3, <3>1, <3>2, <3>3 DEF Undisturbed
  <2>6. CrossedPairs'
    BY <2>2, <2>3 DEF CrossedPairs
  <2>7. ~astray' => NothingAhead'
    <3> SUFFICES ASSUME ~astray' PROVE NothingAhead'
      OBVIOUS
    <3>1. ~astray /\ read = history /\ NothingAhead
      BY <2>1 DEF ContextInv
    <3>2. Newer(history) \in Nat /\ \A s \in Talkers : s # t => Newer(c'[s].read) = Newer(c[s].read)
      BY <1>1, <1>2, <2>2, <3>1, NewerType
    <3>3. \A s \in Talkers : Summing(s)' /\ ~c'[s].crossed => s = t
      BY <2>2, <2>3
    <3> QED
      BY <1>1, <2>2, <2>3, <3>1, <3>2, <3>3 DEF NothingAhead
  <2> QED
    BY <2>4, <2>5, <2>6, <2>7 DEF ContextInv
<1> QED
  BY <1>3, <1>4

LEMMA SumEndKeeps ==
  ASSUME ContextInv, NEW t \in Talkers, NEW ok \in BOOLEAN, SumStore(t, ok) \/ SumNothing(t)
  PROVE  ContextInv'
<1> DEFINE told == Newer(c[t].read)
<1>1. /\ Summing(t)
      /\ disturbed' = (disturbed \/ ~ok) \/ disturbed' = disturbed
      /\ summary' = summary \/ summary' = told
      /\ spareSummary' = spareSummary \/ spareSummary' = told
      /\ c' = [c EXCEPT ![t].pc = "end"] /\ marked' = FALSE
      /\ UNCHANGED <<history, spare, pushes, astray>>
  BY DEF SumStore, SumNothing, Goes
<1>2. /\ c \in [Talkers -> CallType] /\ pushes \in Nat /\ told \in 0..pushes
      /\ summary \in 0..pushes /\ spareSummary \in 0..pushes
  BY NewerType DEF ContextInv, ContextTyped
<1>3. /\ c' \in [Talkers -> CallType] /\ \A s \in Talkers : c'[s].read = c[s].read
      /\ c'[t].pc = "end" /\ \A s \in Talkers : s # t => c'[s] = c[s]
  BY <1>1, <1>2 DEF CallType
<1>4. \A s \in Talkers : /\ Summing(s)' => Summing(s) /\ c'[s] = c[s] /\ c[s].crossed
                         /\ Is(s, "write")' => Is(s, "write") /\ c'[s] = c[s]
  BY <1>1, <1>3 DEF Summing, Is, ContextInv, CrossedPairs
<1>5. ContextTyped'
  <2>1. disturbed' \in BOOLEAN /\ astray' \in BOOLEAN /\ marked' \in BOOLEAN
    BY <1>1 DEF ContextInv, ContextTyped
  <2>2. summary' \in 0..pushes /\ spareSummary' \in 0..pushes
    BY <1>1, <1>2
  <2> QED
    BY <1>1, <1>3, <2>1, <2>2 DEF ContextInv, ContextTyped
<1>6. ~disturbed' => Undisturbed'
  <2> SUFFICES ASSUME ~disturbed' PROVE Undisturbed'
    OBVIOUS
  <2>1. Undisturbed
    <3>1. ~disturbed
      BY <1>1, Zenon
    <3> QED
      BY <3>1 DEF ContextInv
  <2> QED
    BY <1>1, <1>4, <2>1 DEF Undisturbed
<1>7. CrossedPairs'
  BY <1>4 DEF ContextInv, CrossedPairs
<1>8. ~astray' => NothingAhead'
  <2> SUFFICES ASSUME ~astray PROVE NothingAhead'
    BY <1>1
  <2>1. history # << >> => summary <= Newer(history) /\ told <= Newer(history)
    BY <1>1 DEF ContextInv, NothingAhead
  <2>2. history # << >> => summary' <= Newer(history)
    BY <1>1, <2>1
  <2> HIDE DEF told
  <2> QED
    BY <1>1, <1>4, <2>2 DEF ContextInv, NothingAhead
<1> QED
  BY <1>5, <1>6, <1>7, <1>8 DEF ContextInv

LEMMA ExpireKeeps == ASSUME ContextInv, Expire PROVE ContextInv'
<1>1. /\ history' = << >> /\ disturbed' = TRUE
      /\ UNCHANGED <<spare, summary, spareSummary, marked, c, pushes, astray>>
  BY DEF Expire
<1>2. ContextTyped'
  BY <1>1, EmptyList DEF ContextInv, ContextTyped
<1> QED
  BY <1>1, <1>2 DEF ContextInv, CrossedPairs, NothingAhead, Summing, Is

LEMMA ContextDiesKeeps == ASSUME ContextInv, ContextDies PROVE ContextInv'
<1>1. /\ spare' = << >> /\ spareSummary' = 0 /\ marked' = FALSE
      /\ c' = [t \in Talkers |-> Silent]
      /\ UNCHANGED <<history, summary, pushes, disturbed, astray>>
  BY DEF ContextDies
<1>2. /\ c' \in [Talkers -> CallType]
      /\ \A t \in Talkers : c'[t].read = << >> /\ ~Summing(t)' /\ ~Is(t, "write")'
  BY <1>1, SilentType DEF Summing, Is
<1>3. ContextTyped'
  <2>1. /\ pushes \in Nat /\ summary' \in 0..pushes' /\ spareSummary' \in 0..pushes'
        /\ disturbed' \in BOOLEAN /\ astray' \in BOOLEAN /\ marked' \in BOOLEAN
    <3>1. pushes \in Nat /\ summary' \in 0..pushes' /\ spareSummary' \in 0..pushes'
      BY <1>1 DEF ContextInv, ContextTyped
    <3>2. marked' \in BOOLEAN
      BY <1>1
    <3>3. disturbed' \in BOOLEAN /\ astray' \in BOOLEAN
      BY <1>1 DEF ContextInv, ContextTyped
    <3> QED
      BY <3>1, <3>2, <3>3
  <2>2. /\ IsList(history', pushes') /\ IsList(spare', pushes')
        /\ \A t \in Talkers : IsList(c'[t].read, pushes')
    BY <1>1, <1>2, <2>1, EmptyList DEF ContextInv, ContextTyped
  <2> QED
    BY <1>1, <1>2, <2>1, <2>2 DEF ContextTyped
<1>4. Undisturbed => Undisturbed'
  BY <1>1, <1>2 DEF Undisturbed
<1>5. CrossedPairs' /\ (NothingAhead => NothingAhead')
  BY <1>1, <1>2 DEF CrossedPairs, NothingAhead
<1> QED
  BY <1>1, <1>3, <1>4, <1>5 DEF ContextInv

LEMMA PushEndKeeps ==
  ASSUME ContextInv, NEW t \in Talkers, c' = [c EXCEPT ![t] = Silent],
         UNCHANGED <<history, spare, summary, spareSummary, marked, pushes, disturbed, astray>>
  PROVE  ContextInv'
<1>1. /\ c' \in [Talkers -> CallType] /\ c'[t] = Silent
      /\ \A s \in Talkers : s # t => c'[s] = c[s]
  BY SilentType DEF ContextInv, ContextTyped
<1>2. \A s \in Talkers : /\ Summing(s)' => Summing(s) /\ c'[s] = c[s]
                         /\ Is(s, "write")' => Is(s, "write") /\ c'[s] = c[s]
  BY <1>1, SilentType DEF Summing, Is
<1>3. ContextTyped'
  BY <1>1, SilentType, EmptyList DEF ContextInv, ContextTyped
<1>4. Undisturbed => Undisturbed'
  BY <1>2 DEF Undisturbed
<1>5. CrossedPairs' /\ (NothingAhead => NothingAhead')
  BY <1>2 DEF ContextInv, CrossedPairs, NothingAhead
<1> QED
  BY <1>3, <1>4, <1>5 DEF ContextInv

LEMMA ContextSame == ASSUME ContextInv, UNCHANGED contextVars PROVE ContextInv'
BY DEF ContextInv, contextVars, ContextTyped, Undisturbed, CrossedPairs, NothingAhead, Summing, Is

\* What ContextInv is for.
LEMMA ContextHolds ==
  ASSUME ContextInv, Updates \subseteq Talkers PROVE ContextTypeOK /\ ChatKept
<1>1. /\ history \in Seq(1..pushes) /\ spare \in Seq(1..pushes) /\ history \in Seq(Nat)
      /\ Len(history) <= Limit /\ Len(spare) <= Limit /\ HistoryInOrder
  <2>1. IsList(history, pushes) /\ IsList(spare, pushes) /\ pushes \in Nat
    BY DEF ContextInv, ContextTyped
  <2>2. history \in Seq(1..pushes)
    BY <2>1 DEF IsList
  <2> QED
    BY <2>1, <2>2 DEF IsList, HistoryInOrder
<1>2. ContextTypeOK
  BY <1>1 DEF ContextInv, ContextTyped, ContextTypeOK, CallType
<1>3. HistoryComplete
  BY <1>1, LatestIs DEF ContextInv, ContextTyped, Undisturbed, HistoryComplete
<1>4. disturbed \/ MarkHeld
  BY DEF ContextInv, Undisturbed, MarkHeld
<1>5. \A u \in Updates : SummaryAdvances(u)
  BY DEF ContextInv, NothingAhead, SummaryAdvances
<1> QED
  BY <1>1, <1>2, <1>3, <1>4, <1>5 DEF ChatKept

-----------------------------------------------------------------------------
(* The poll loop: its part of the inductive invariant. *)

Places == {"nowhere", "route", "remember", "ask", "push", "done", "lost"}

PollTyped ==
    /\ sent \in 0..NumUpdates /\ message \in Seq(Messages) /\ Len(message) = sent
    /\ confirmed \in 1..(sent + 1) /\ offset \in 0..(sent + 1) /\ troubles \in 0..MaxTroubles
    /\ at \in [Updates -> Places]

\* What is below the offset, or what Telegram has forgotten, has had its task; what
\* a crash has lost is forgotten by Telegram or handed out again.
Placed ==
    \A u \in Updates :
        /\ u > sent => at[u] = "nowhere"
        /\ u >= offset => ~Open(u)
        /\ u <= sent /\ u < MaxOf(confirmed, offset) => at[u] # "nowhere"
        /\ at[u] = "lost" => u < confirmed \/ u >= offset

PollInv == PollTyped /\ Placed

\* The steps of the tasks move an open task on, and nothing else.
TaskMoves(u) ==
    /\ UNCHANGED <<sent, message, confirmed, offset>>
    /\ Open(u)
    /\ \/ at' = at
       \/ \E pc \in {"remember", "ask", "push", "done"} : at' = [at EXCEPT ![u] = pc]

LEMMA TasksMove ==
  ASSUME NEW u \in Updates, TaskStep(u) \/ RememberFailsAs(u)
  PROVE  TaskMoves(u)
<1> USE DEF TaskMoves, Alone, Move, Open
<1>1. CASE RouteForget(u)
  BY <1>1 DEF RouteForget
<1>2. CASE RouteRemember(u)
  BY <1>2 DEF RouteRemember
<1>3. CASE RoutePlain(u)
  BY <1>3 DEF RoutePlain
<1>4. CASE RememberWorks(u)
  BY <1>4 DEF RememberWorks, botVars
<1>5. CASE RememberFailsAs(u)
  BY <1>5 DEF RememberFailsAs
<1>6. CASE Remembered(u)
  <2>1. PICK pc \in {"ask", "done"} : at' = [at EXCEPT ![u] = pc]
    BY <1>6 DEF Remembered
  <2> QED
    BY <1>6, <2>1 DEF Remembered
<1>7. CASE Ask(u)
  BY <1>7 DEF Ask
<1>8. CASE Push(u)
  BY <1>8 DEF Push
<1>9. CASE PushAside(u)
  BY <1>9 DEF PushAside, botVars
<1>10. CASE PushEnd(u)
  BY <1>10 DEF PushEnd
<1> QED
  BY <1>1, <1>2, <1>3, <1>4, <1>5, <1>6, <1>7, <1>8, <1>9, <1>10 DEF TaskStep

LEMMA PollNumbers ==
  PollTyped => /\ NumUpdates \in Nat /\ MaxTroubles \in Nat /\ sent \in Nat /\ confirmed \in Nat
               /\ offset \in Nat /\ troubles \in Nat
               /\ MaxOf(confirmed, offset) \in 1..(sent + 1)
               /\ confirmed <= MaxOf(confirmed, offset) /\ offset <= MaxOf(confirmed, offset)
               /\ \A u \in Updates : u \in 1..NumUpdates /\ u \in Nat
               /\ \A u \in Updates : u \in Delivered <=> MaxOf(confirmed, offset) <= u /\ u <= sent
BY BotConstants DEF PollTyped, MaxOf, Updates, Delivered

LEMMA PollInitHolds == Init => PollInv
<1> SUFFICES ASSUME Init PROVE PollInv
  OBVIOUS
<1>1. << >> \in Seq(Messages) /\ Len(<< >>) = 0
  OBVIOUS
<1>2. /\ sent = 0 /\ message = << >> /\ confirmed = 1 /\ offset = 0 /\ troubles = 0
      /\ at = [u \in Updates |-> "nowhere"]
  BY DEF Init
<1> QED
  BY <1>1, <1>2, BotConstants DEF PollInv, PollTyped, Placed, Places, Open, Updates, MaxOf

LEMMA TaskPollKeeps ==
  ASSUME PollInv, NEW u \in Updates, TaskMoves(u), troubles' \in 0..MaxTroubles
  PROVE  PollInv'
<1>1. /\ UNCHANGED <<sent, message, confirmed, offset>> /\ at \in [Updates -> Places]
      /\ at[u] \notin {"nowhere", "done", "lost"}
  BY DEF TaskMoves, PollInv, PollTyped, Open
<1>2. /\ at' \in [Updates -> Places] /\ at'[u] \notin {"nowhere", "lost"}
      /\ \A v \in Updates : v # u => at'[v] = at[v]
  <2>1. CASE at' = at
    BY <1>1, <2>1
  <2>2. CASE at' # at
    <3>1. PICK pc \in {"remember", "ask", "push", "done"} : at' = [at EXCEPT ![u] = pc]
      BY <2>2 DEF TaskMoves
    <3> QED
      BY <1>1, <3>1 DEF Places
  <2> QED
    BY <2>1, <2>2
<1>3. PollTyped'
  BY <1>1, <1>2 DEF PollInv, PollTyped
<1>4. u <= sent /\ ~(u >= offset)
  <2>1. ~(u > sent) /\ ~(u >= offset)
    BY <1>1 DEF PollInv, Placed, Open
  <2> QED
    BY <2>1, PollNumbers DEF PollInv
<1>5. ~(u > sent)
  BY <1>4, PollNumbers DEF PollInv
<1>6. Placed'
  BY <1>1, <1>2, <1>4, <1>5 DEF PollInv, Placed, Open
<1> QED
  BY <1>3, <1>6 DEF PollInv

LEMMA LoopPollKeeps ==
  ASSUME PollInv, Send \/ Poll \/ PollFails \/ PollNothing \/ Crash \/ Lapse
                  \/ (\E id \in Ids(rows) : Ages(id)) \/ UNCHANGED botVars
  PROVE  PollInv'
<1> USE PollNumbers DEF PollInv
<1>1. CASE Send
  <2>1. PICK msg \in Messages : message' = Append(message, msg)
    BY <1>1 DEF Send
  <2>2. message' \in Seq(Messages) /\ Len(message') = sent'
    BY <1>1, <2>1, AppendProperties DEF Send, PollTyped
  <2>3. /\ sent' = sent + 1 /\ sent < NumUpdates /\ UNCHANGED <<confirmed, offset, at, troubles>>
    BY <1>1 DEF Send
  <2>4. PollTyped'
    BY <2>2, <2>3 DEF PollTyped
  <2>5. Placed'
    BY <2>3 DEF Placed, Open
  <2> QED
    BY <2>4, <2>5
<1>2. CASE Poll
  <2>1. /\ confirmed' = MaxOf(confirmed, offset) /\ offset' = sent + 1
        /\ UNCHANGED <<sent, message, troubles>>
        /\ \A u \in Updates : at'[u] = IF u \notin Delivered THEN at[u]
                                       ELSE IF message[u].kind = "foreign" THEN "done" ELSE "route"
        /\ at' \in [Updates -> Places]
    BY <1>2 DEF Poll, PollTyped, Places
  <2>2. PollTyped'
    BY <2>1 DEF PollTyped
  <2>3. MaxOf(confirmed', offset') = sent + 1
    BY <2>1 DEF MaxOf
  <2>4. ASSUME NEW u \in Updates, u \in Delivered
        PROVE  at'[u] \in {"done", "route"} /\ u <= sent
    BY <2>1, <2>4
  <2>5. ASSUME NEW u \in Updates, u \notin Delivered
        PROVE  at'[u] = at[u] /\ (u > sent \/ u < MaxOf(confirmed, offset))
    BY <2>1, <2>5
  <2>6. Placed'
    <3> SUFFICES ASSUME NEW u \in Updates
                 PROVE  /\ u > sent' => at'[u] = "nowhere"
                        /\ u >= offset' => ~Open(u)'
                        /\ u <= sent' /\ u < MaxOf(confirmed', offset') => at'[u] # "nowhere"
                        /\ at'[u] = "lost" => u < confirmed' \/ u >= offset'
      BY DEF Placed
    <3>1. CASE u \in Delivered
      BY <2>1, <2>3, <2>4, <3>1 DEF Open
    <3>2. CASE u \notin Delivered
      BY <2>1, <2>3, <2>5, <3>2 DEF Placed, Open
    <3> QED
      BY <3>1, <3>2
  <2> QED
    BY <2>2, <2>6
<1>3. CASE PollFails \/ PollNothing
  <2>1. /\ confirmed' \in {confirmed, MaxOf(confirmed, offset)}
        /\ UNCHANGED <<sent, message, offset, at>> /\ troubles' \in 0..MaxTroubles
    BY <1>3 DEF PollFails, PollNothing, Trouble, PollTyped, MaxOf
  <2>2. MaxOf(confirmed', offset') = MaxOf(confirmed, offset) /\ confirmed <= confirmed'
    BY <2>1 DEF MaxOf
  <2>3. PollTyped'
    BY <2>1 DEF PollTyped
  <2>4. Placed'
    BY <2>1, <2>2 DEF Placed, Open
  <2> QED
    BY <2>3, <2>4
<1>4. CASE Crash
  <2>1. /\ offset' = 0 /\ UNCHANGED <<sent, message, confirmed>>
        /\ \A u \in Updates : at'[u] = IF Open(u) THEN "lost" ELSE at[u]
        /\ at' \in [Updates -> Places] /\ troubles' \in 0..MaxTroubles
    BY <1>4 DEF Crash, Trouble, PollTyped, Places
  <2>2. MaxOf(confirmed', offset') = confirmed
    BY <2>1 DEF MaxOf
  <2>3. PollTyped'
    BY <2>1 DEF PollTyped
  <2>4. Placed'
    BY <2>1, <2>2 DEF Placed, Open
  <2> QED
    BY <2>3, <2>4
<1>5. CASE Lapse \/ (\E id \in Ids(rows) : Ages(id)) \/ UNCHANGED botVars
  <2>1. UNCHANGED <<sent, message, confirmed, offset, at>> /\ troubles' \in 0..MaxTroubles
    BY <1>5 DEF Lapse, Ages, Trouble, botVars, PollTyped
  <2> QED
    BY <2>1 DEF PollTyped, Placed, Open, MaxOf
<1> QED
  BY <1>1, <1>2, <1>3, <1>4, <1>5

-----------------------------------------------------------------------------
(* The poll loop and its tasks implement the inbox, step by step. *)

box == [u \in Updates |-> Whereabouts(u)]

BoxMeaning ==
    \A u \in Updates :
        /\ box[u] \in {"unsent", "waiting", "open", "closed", "lost"}
        /\ box[u] = "unsent" <=> u > sent
        /\ box[u] = "waiting" <=> u <= sent /\ MaxOf(confirmed, offset) <= u
        /\ box[u] = "open" <=> Open(u)
        /\ u <= sent /\ u < MaxOf(confirmed, offset) =>
              /\ box[u] = "closed" <=> at[u] = "done"
              /\ box[u] = "lost" <=> at[u] = "lost"

LEMMA BoxIs == PollInv => BoxMeaning
<1> SUFFICES ASSUME PollInv, NEW u \in Updates
             PROVE  /\ box[u] \in {"unsent", "waiting", "open", "closed", "lost"}
                    /\ box[u] = "unsent" <=> u > sent
                    /\ box[u] = "waiting" <=> u <= sent /\ MaxOf(confirmed, offset) <= u
                    /\ box[u] = "open" <=> Open(u)
                    /\ u <= sent /\ u < MaxOf(confirmed, offset) =>
                          /\ box[u] = "closed" <=> at[u] = "done"
                          /\ box[u] = "lost" <=> at[u] = "lost"
  BY DEF BoxMeaning
<1>1. box[u] = Whereabouts(u)
  BY DEF box
<1>2. /\ sent \in Nat /\ offset \in Nat /\ u \in Nat /\ MaxOf(confirmed, offset) \in Nat
      /\ offset <= MaxOf(confirmed, offset)
      /\ u \in Delivered <=> MaxOf(confirmed, offset) <= u /\ u <= sent
  BY PollNumbers DEF PollInv
<1>3. /\ u > sent => ~Open(u)
      /\ MaxOf(confirmed, offset) <= u => ~Open(u)
      /\ u <= sent /\ u < MaxOf(confirmed, offset) => at[u] # "nowhere"
  BY <1>2 DEF PollInv, Placed, Open
<1> QED
  BY <1>1, <1>2, <1>3 DEF Whereabouts, Open

LEMMA BoxIsNext == PollInv' => BoxMeaning'
BY BoxIs, PTL

LEMMA BoxSame ==
  ASSUME PollInv, UNCHANGED <<sent, at>>, MaxOf(confirmed, offset)' = MaxOf(confirmed, offset)
  PROVE  UNCHANGED box
<1>1. \A u \in Updates : Whereabouts(u)' = Whereabouts(u)
  BY DEF Whereabouts, Delivered, Open
<1> QED
  BY <1>1 DEF box

LEMMA BoxValue ==
  ASSUME NEW u \in Updates, NEW v, \A w \in Updates : box'[w] = IF w = u THEN v ELSE box[w]
  PROVE  box' = [box EXCEPT ![u] = v]
BY DEF box

LEMMA SendImplements ==
  ASSUME PollInv, PollInv', Send PROVE \E u \in Updates : TheInbox!Send(u)
<1>1. /\ sent' = sent + 1 /\ UNCHANGED <<confirmed, offset, at>> /\ sent < NumUpdates
      /\ MaxOf(confirmed, offset)' = MaxOf(confirmed, offset)
  BY DEF Send
<1> DEFINE u == sent + 1
           low == MaxOf(confirmed, offset)
<1>2. /\ sent \in Nat /\ NumUpdates \in Nat /\ low \in 1..u /\ low' = low
      /\ u \in Updates /\ \A v \in Updates : v \in Nat
  BY <1>1, PollNumbers DEF PollInv, Updates
<1>3. BoxMeaning /\ BoxMeaning'
  BY BoxIs, BoxIsNext
<1> HIDE DEF low
<1>4. box[u] = "unsent" /\ box'[u] = "waiting"
  BY <1>1, <1>2, <1>3 DEF BoxMeaning, low
<1>5. \A v \in Updates : v # u => box'[v] = box[v]
  <2> SUFFICES ASSUME NEW v \in Updates, v # u PROVE box'[v] = box[v]
    OBVIOUS
  <2>1. v \in Delivered' <=> v \in Delivered
    BY <1>1, <1>2 DEF Delivered
  <2>2. v > sent' <=> v > sent
    BY <1>1, <1>2
  <2> QED
    BY <1>1, <2>1, <2>2 DEF box, Whereabouts, Open
<1>6. box' = [box EXCEPT ![u] = "waiting"]
  BY <1>2, <1>4, <1>5, BoxValue
<1>7. \A v \in 1..(u - 1) : box[v] # "unsent"
  BY <1>2, <1>3 DEF BoxMeaning, Updates
<1> QED
  BY <1>2, <1>4, <1>6, <1>7 DEF TheInbox!Send, box

LEMMA PollImplements == ASSUME PollInv, PollInv', Poll PROVE TheInbox!TakeUp
<1>1. /\ confirmed' = MaxOf(confirmed, offset) /\ offset' = sent + 1 /\ Delivered # {}
      /\ sent' = sent
      /\ \A u \in Updates : at'[u] = IF u \notin Delivered THEN at[u]
                                     ELSE IF message[u].kind = "foreign" THEN "done" ELSE "route"
  BY DEF Poll
<1>2. /\ sent \in Nat /\ MaxOf(confirmed, offset) \in Nat /\ MaxOf(confirmed, offset) <= sent + 1
      /\ sent <= NumUpdates /\ MaxOf(confirmed, offset) >= 1
      /\ \A u \in Updates : u \in Nat
      /\ \A u \in Updates : u \in Delivered <=> MaxOf(confirmed, offset) <= u /\ u <= sent
  BY PollNumbers, BotConstants DEF PollInv, PollTyped
<1>3. MaxOf(confirmed, offset)' = sent + 1
  <2>1. confirmed' \in Nat /\ offset' \in Nat /\ confirmed' <= offset' /\ offset' = sent + 1
    BY <1>1, <1>2
  <2> QED
    BY <2>1 DEF MaxOf
<1>4. BoxMeaning /\ BoxMeaning'
  BY BoxIs, BoxIsNext
<1>5. \E u \in Updates : box[u] = "waiting"
  <2>1. PICK u \in MaxOf(confirmed, offset)..sent : TRUE
    BY <1>1 DEF Delivered
  <2>2. u \in Updates /\ u <= sent /\ MaxOf(confirmed, offset) <= u
    BY <1>2, <2>1, BotConstants DEF Updates
  <2> QED
    BY <1>4, <2>2 DEF BoxMeaning
<1>6. ASSUME NEW u \in Updates
      PROVE  /\ box'[u] \in {"unsent", "open", "closed", "lost"}
             /\ IF box[u] = "waiting" THEN box'[u] \in {"open", "closed"} ELSE box'[u] = box[u]
  <2>1. box'[u] # "waiting" /\ box'[u] \in {"unsent", "waiting", "open", "closed", "lost"}
    BY <1>1, <1>2, <1>3, <1>4 DEF BoxMeaning
  <2>2. CASE u \in Delivered
    <3>1. box[u] = "waiting" /\ u <= sent' /\ u < MaxOf(confirmed, offset)'
      BY <1>1, <1>2, <1>3, <1>4, <2>2 DEF BoxMeaning
    <3>2. at'[u] \in {"done", "route"}
      BY <1>1, <2>2
    <3>3. box'[u] \in {"open", "closed"}
      BY <1>4, <3>1, <3>2 DEF BoxMeaning, Open
    <3> QED
      BY <2>1, <3>1, <3>3
  <2>3. CASE u \notin Delivered
    <3>1. u \notin Delivered'
      BY <1>1, <1>2, <1>3 DEF Delivered
    <3>2. box'[u] = box[u]
      BY <1>1, <2>3, <3>1 DEF box, Whereabouts, Open
    <3> QED
      BY <2>1, <3>2
  <2> QED
    BY <2>2, <2>3
<1>7. box' \in [Updates -> {"unsent", "open", "closed", "lost"}]
  BY <1>6 DEF box
<1> QED
  BY <1>5, <1>6, <1>7 DEF TheInbox!TakeUp, TheInbox!Updates, Updates, box

LEMMA CrashImplements == ASSUME PollInv, PollInv', Crash PROVE TheInbox!Crash
<1>1. /\ offset' = 0 /\ UNCHANGED <<sent, confirmed>>
      /\ \A u \in Updates : at'[u] = IF Open(u) THEN "lost" ELSE at[u]
  BY DEF Crash
<1>2. /\ sent \in Nat /\ MaxOf(confirmed, offset) \in Nat /\ confirmed \in Nat /\ offset \in Nat
      /\ confirmed <= MaxOf(confirmed, offset) /\ offset <= MaxOf(confirmed, offset)
      /\ MaxOf(confirmed, offset) \in {confirmed, offset}
      /\ \A u \in Updates : u \in Nat
  BY PollNumbers DEF PollInv, MaxOf
<1>3. MaxOf(confirmed, offset)' = confirmed
  BY <1>1, <1>2 DEF MaxOf
<1>4. BoxMeaning /\ BoxMeaning'
  BY BoxIs, BoxIsNext
<1>5. ASSUME NEW u \in Updates
      PROVE  /\ box'[u] \in {"unsent", "waiting", "closed", "lost"}
             /\ box[u] = "open" => box'[u] \in {"waiting", "lost"}
             /\ box[u] = "closed" => box'[u] \in {"waiting", "closed"}
             /\ box[u] \notin {"open", "closed"} => box'[u] = box[u]
  <2>1. /\ box'[u] = "unsent" <=> box[u] = "unsent"
        /\ box'[u] = "waiting" <=> u <= sent /\ confirmed <= u
        /\ box'[u] \in {"unsent", "waiting", "open", "closed", "lost"}
    BY <1>1, <1>3, <1>4 DEF BoxMeaning
  <2>2. ~Open(u)' /\ box'[u] # "open"
    BY <1>1, <1>4 DEF BoxMeaning, Open
  <2>3. CASE u > sent
    BY <1>1, <1>2, <1>4, <2>1, <2>3 DEF BoxMeaning
  <2>4. CASE u <= sent /\ MaxOf(confirmed, offset) <= u
    BY <1>2, <1>4, <2>1, <2>4 DEF BoxMeaning
  <2>5. CASE u <= sent /\ u < MaxOf(confirmed, offset)
    <3>1. /\ box[u] = "closed" <=> at[u] = "done"
          /\ box[u] = "lost" <=> at[u] = "lost"
          /\ box[u] = "open" <=> Open(u)
          /\ box[u] \notin {"unsent", "waiting"}
      BY <1>2, <1>4, <2>5 DEF BoxMeaning
    <3>2. at[u] = "lost" => u < confirmed
      BY <1>2, <2>5 DEF PollInv, Placed
    <3>3. u < confirmed => /\ box'[u] = "closed" <=> at'[u] = "done"
                           /\ box'[u] = "lost" <=> at'[u] = "lost"
      BY <1>1, <1>3, <1>4, <2>5 DEF BoxMeaning
    <3>4. ~(u < confirmed) => box'[u] = "waiting"
      BY <1>2, <2>1, <2>5
    <3> QED
      BY <1>1, <1>4, <2>1, <2>2, <3>1, <3>2, <3>3, <3>4 DEF Open, BoxMeaning
  <2> QED
    BY <1>2, <2>3, <2>4, <2>5
<1>6. ASSUME NEW u \in Updates, NEW v \in Updates, u < v, box'[u] = "waiting"
      PROVE  box'[v] \in {"waiting", "unsent"}
  <2>1. /\ confirmed <= u
        /\ box'[v] = "unsent" <=> v > sent
        /\ box'[v] = "waiting" <=> v <= sent /\ confirmed <= v
    BY <1>1, <1>3, <1>4, <1>6 DEF BoxMeaning
  <2> QED
    BY <1>2, <1>6, <2>1
<1>7. box' \in [Updates -> {"unsent", "waiting", "closed", "lost"}]
  BY <1>5 DEF box
<1>8. \A u \in Updates : CASE box[u] = "open" -> box'[u] \in {"waiting", "lost"}
                           [] box[u] = "closed" -> box'[u] \in {"waiting", "closed"}
                           [] OTHER -> box'[u] = box[u]
  BY <1>5
<1> QED
  BY <1>6, <1>7, <1>8 DEF TheInbox!Crash, TheInbox!Updates, Updates, box

LEMMA TaskImplements ==
  ASSUME PollInv, PollInv', NEW u \in Updates, TaskMoves(u)
  PROVE  TheInbox!Close(u) \/ UNCHANGED box
<1>1. UNCHANGED <<sent, confirmed, offset>> /\ Open(u) /\ at \in [Updates -> Places]
  BY DEF TaskMoves, PollInv, PollTyped
<1>2. \A v \in Updates : v # u => box'[v] = box[v]
  <2>1. \A v \in Updates : v # u => at'[v] = at[v]
    BY <1>1 DEF TaskMoves
  <2> QED
    BY <1>1, <2>1 DEF box, Whereabouts, Delivered, Open
<1>3. box[u] = "open"
  BY <1>1, BoxIs DEF BoxMeaning
<1>4. box'[u] \in {"open", "closed"}
  <2>1. at'[u] \notin {"nowhere", "lost"}
    BY <1>1 DEF TaskMoves, Open
  <2>2. ~(u > sent) /\ u \notin Delivered
    BY <1>1, PollNumbers DEF PollInv, Placed
  <2> QED
    BY <1>1, <2>1, <2>2 DEF box, Whereabouts, Delivered, Open
<1>5. CASE box'[u] = "open"
  <2>1. \A v \in Updates : box'[v] = box[v]
    BY <1>2, <1>3, <1>5
  <2> QED
    BY <2>1 DEF box
<1>6. CASE box'[u] = "closed"
  <2>1. box' = [box EXCEPT ![u] = "closed"]
    BY <1>2, <1>6, BoxValue
  <2> QED
    BY <1>3, <2>1 DEF TheInbox!Close, box
<1> QED
  BY <1>4, <1>5, <1>6

-----------------------------------------------------------------------------
(* The memories: their part of the inductive invariant. *)

MTexts == {""} \cup {msg.text : msg \in Messages} \cup {Old[i] : i \in 1..Cap}
MKinds == {"note"} \cup {msg.kind : msg \in Messages}
MemoryPcs == {"idle", "insert", "prune", "count", "pick", "trim", "stored", "known", "failed"}
MemoryRow == [id : Nat, text : MTexts, kind : MKinds, stale : BOOLEAN, basis : Nat]
MemoryCall == [pc : MemoryPcs, text : MTexts, kind : MKinds, basis : Nat, excess : Nat,
               gone : Nat, doomed : SUBSET Nat]

MemoryTyped ==
    /\ lastId \in Nat /\ killed \in Nat /\ rows \subseteq MemoryRow
    /\ \A r \in rows : r.id \in 1..lastId
    /\ \A r, q \in rows : r.id = q.id => r = q
    /\ m \in [Tasks -> MemoryCall] /\ \A t \in Tasks : m[t].basis <= lastId

\* A task about to insert has no twin but those its look could not see.
NoTwinSeen ==
    \A t \in Tasks : At(t, "insert") =>
        \A r \in rows : r.text = m[t].text =>
            m[t].basis < r.id \/ m[t].basis - r.id >= Window

\* The rows that task t leaves if nothing else happens, once it has counted.
Counted == {t \in Tasks : m[t].pc \in {"pick", "trim"}}
Left(t) == IF At(t, "trim") THEN Cardinality(Ids(rows) \ m[t].doomed)
           ELSE Cardinality(Ids(rows)) - m[t].excess

\* Of any tasks that have counted, the one that counted last leaves no more than the
\* cap and the rows of those that are still to trim.
Bounded ==
    /\ Cardinality(Ids(rows)) <= Cap + Cardinality(Trimming) + killed
    /\ \A A \in SUBSET Counted : A # {} =>
          \E t \in A : Left(t) <= Cap + Cardinality(Trimming \ A) + killed

Spared == \A t \in Counted : Left(t) + m[t].gone >= Cap

MemoryInv == MemoryTyped /\ TwinsExplained /\ NoTwinSeen /\ Bounded /\ Spared

-----------------------------------------------------------------------------
(* Counting rows is counting their ids. *)

LEMMA IdsCount ==
  ASSUME MemoryTyped, NEW R \in SUBSET rows
  PROVE  /\ IsFiniteSet(R) /\ IsFiniteSet(Ids(R)) /\ Ids(R) \subseteq 1..lastId
         /\ Cardinality(R) \in Nat /\ Cardinality(Ids(R)) = Cardinality(R)
<1> DEFINE f == [r \in R |-> r.id]
<1>1. \A r \in R : r.id \in 1..lastId
  BY DEF MemoryTyped
<1>2. \A r, q \in R : r.id = q.id => r = q
  BY DEF MemoryTyped
<1>3. /\ f \in [R -> 1..lastId] /\ f \in [R -> Ids(R)]
      /\ \A i \in Ids(R) : \E r \in R : f[r] = i
  BY <1>1 DEF Ids
<1>4. IsInjective(f)
  BY <1>2 DEF IsInjective
<1>5. f \in Injection(R, 1..lastId) /\ f \in Bijection(R, Ids(R))
  BY <1>3, <1>4 DEF Injection, Surjection, Bijection
<1>6. IsFiniteSet(1..lastId)
  BY FS_Interval DEF MemoryTyped
<1>7. IsFiniteSet(R)
  BY <1>5, <1>6, FS_Injection
<1>8. IsFiniteSet(Ids(R)) /\ Cardinality(Ids(R)) = Cardinality(R)
  BY <1>5, <1>7, FS_Bijection DEF ExistsBijection
<1>9. Ids(R) \subseteq 1..lastId
  BY <1>1 DEF Ids
<1> QED
  BY <1>7, <1>8, <1>9, FS_CardinalityType

\* The ids of what a deletion leaves are the ids but those deleted.
LEMMA IdsMinus ==
  ASSUME MemoryTyped, NEW R \in SUBSET rows
  PROVE  Ids(rows \ R) = Ids(rows) \ Ids(R)
BY DEF Ids, MemoryTyped

\* The rows that a set of ids does not have, by their ids.
LEMMA IdsOutside ==
  ASSUME MemoryTyped, NEW D
  PROVE  Cardinality({r \in rows : r.id \notin D}) = Cardinality(Ids(rows) \ D)
<1>1. Ids({r \in rows : r.id \notin D}) = Ids(rows) \ D
  BY DEF Ids
<1> QED
  BY <1>1, IdsCount

\* Fewer than the window's newer rows, if the distance of the ids is less.
LEMMA YoungerBound ==
  ASSUME MemoryTyped, NEW r \in rows
  PROVE  Cardinality(Younger(r)) <= lastId - r.id
<1>1. r.id \in 1..lastId /\ lastId \in Nat
  BY DEF MemoryTyped
<1>2. Younger(r) \in SUBSET rows
  BY DEF Younger
<1>3. Ids(Younger(r)) \subseteq (r.id + 1)..lastId
  BY DEF Younger, Ids, MemoryTyped
<1>4. /\ IsFiniteSet((r.id + 1)..lastId)
      /\ Cardinality((r.id + 1)..lastId) = lastId - r.id
  <2> DEFINE low == r.id + 1
  <2>1. low \in Int /\ lastId \in Int /\ low <= lastId + 1 /\ lastId - low + 1 = lastId - r.id
    BY <1>1
  <2> HIDE DEF low
  <2>2. /\ IsFiniteSet(low..lastId)
        /\ Cardinality(low..lastId) = IF low > lastId THEN 0 ELSE lastId - low + 1
    BY <2>1, FS_Interval
  <2>3. Cardinality(low..lastId) = lastId - r.id
    BY <2>1, <2>2
  <2> QED
    BY <2>2, <2>3 DEF low
<1>5. Cardinality(Ids(Younger(r))) <= lastId - r.id
  BY <1>3, <1>4, FS_Subset
<1> QED
  BY <1>2, <1>5, IdsCount

\* The oldest n rows are n, or all there are.
LEMMA OldestCount ==
  ASSUME MemoryTyped, NEW n \in Nat
  PROVE  /\ Cardinality(Oldest(n)) \in Nat /\ Cardinality(Oldest(n)) <= n
         /\ Oldest(n) = rows \/ Cardinality(Oldest(n)) = n
<1> DEFINE older(r) == {q \in rows : q.id < r.id}
           O == Oldest(n)
           rank == [r \in O |-> Cardinality(older(r))]
<1>1. /\ O \in SUBSET rows /\ O = {r \in rows : Cardinality(older(r)) < n}
      /\ \A r \in rows : older(r) \in SUBSET rows /\ r.id \in Nat
  BY DEF Oldest, MemoryTyped
<1>2. \A r \in rows : IsFiniteSet(older(r)) /\ Cardinality(older(r)) \in Nat
  BY <1>1, IdsCount
<1>3. IsFiniteSet(O) /\ Cardinality(O) \in Nat
  BY <1>1, IdsCount
<1>4. ASSUME NEW r \in rows, NEW q \in rows, r.id < q.id
      PROVE  Cardinality(older(r)) < Cardinality(older(q))
  <2>1. r \notin older(r) /\ older(r) \cup {r} \in SUBSET older(q)
    BY <1>1, <1>4
  <2>2. Cardinality(older(r) \cup {r}) = Cardinality(older(r)) + 1
    BY <1>2, <2>1, FS_AddElement
  <2>3. Cardinality(older(r) \cup {r}) <= Cardinality(older(q))
    BY <1>2, <2>1, FS_Subset
  <2> HIDE DEF older
  <2> QED
    BY <1>2, <2>2, <2>3
<1> HIDE DEF older, O
<1>5. Cardinality(O) <= n
  <2>1. rank \in [O -> 0..(n - 1)]
    BY <1>1, <1>2
  <2>2. \A r, q \in O : rank[r] = rank[q] => r = q
    <3> SUFFICES ASSUME NEW r \in O, NEW q \in O, r # q PROVE rank[r] # rank[q]
      OBVIOUS
    <3>1. r \in rows /\ q \in rows /\ r.id \in Nat /\ q.id \in Nat /\ r.id # q.id
      BY <1>1 DEF MemoryTyped
    <3>2. r.id < q.id \/ q.id < r.id
      BY <3>1
    <3> QED
      BY <1>2, <1>4, <3>1, <3>2
  <2>3. rank \in Injection(O, 0..(n - 1))
    BY <2>1, <2>2 DEF Injection, IsInjective
  <2>4. IsFiniteSet(0..(n - 1)) /\ Cardinality(0..(n - 1)) = n
    BY FS_Interval
  <2> QED
    BY <2>3, <2>4, FS_Injection
<1>6. O = rows \/ Cardinality(O) >= n
  <2> SUFFICES ASSUME O # rows, Cardinality(O) < n PROVE FALSE
    BY <1>3
  <2> DEFINE X == {r.id : r \in rows \ O}
  <2>1. X \in SUBSET Nat /\ X # {}
    BY <1>1
  <2>2. PICK i \in X : \A j \in X : i <= j
    BY <2>1, LeastElement
  <2>3. PICK r \in rows \ O : r.id = i
    OBVIOUS
  <2>4. older(r) \in SUBSET O
    <3> SUFFICES ASSUME NEW q \in older(r), q \notin O PROVE FALSE
      BY <1>1
    <3>1. q \in rows /\ q.id < r.id
      BY DEF older
    <3>2. i <= q.id /\ i \in Nat /\ q.id \in Nat
      BY <1>1, <2>1, <2>2, <3>1
    <3> QED
      BY <2>3, <3>1, <3>2
  <2>5. Cardinality(older(r)) < n
    BY <1>2, <1>3, <2>4, FS_Subset
  <2> QED
    BY <1>1, <2>3, <2>5
<1> QED
  BY <1>3, <1>5, <1>6 DEF O

\* The tasks still to trim, without those in a set.
TrimmingCounts ==
    /\ Cardinality(Trimming) \in Nat
    /\ \A A : /\ IsFiniteSet(Trimming \ A) /\ Cardinality(Trimming \ A) \in Nat
              /\ Cardinality(Trimming \ A) <= Cardinality(Trimming)

LEMMA TasksFinite == IsFiniteSet(Tasks)
BY BotConstants, FS_Interval DEF Updates

LEMMA TasksCount == TrimmingCounts
<1>1. IsFiniteSet(Trimming)
  BY TasksFinite, FS_Subset DEF Trimming
<1>2. \A A : Trimming \ A \in SUBSET Trimming
  OBVIOUS
<1> QED
  BY <1>1, <1>2, FS_Subset, FS_CardinalityType DEF TrimmingCounts

LEMMA TasksCountNext == TrimmingCounts'
BY TasksCount, PTL

LEMMA TrimmingSame ==
  ASSUME MemoryTyped, Trimming' = Trimming, killed' = killed
  PROVE  \A A : Cardinality(Trimming \ A) + killed <= Cardinality(Trimming \ A)' + killed'
<1> SUFFICES ASSUME NEW A
             PROVE  Cardinality(Trimming \ A) + killed <= Cardinality(Trimming \ A)' + killed'
  OBVIOUS
<1>1. Cardinality(Trimming \ A) \in Nat /\ killed \in Nat
  BY TasksCount DEF TrimmingCounts, MemoryTyped
<1>2. Cardinality(Trimming \ A)' = Cardinality(Trimming \ A)
  OBVIOUS
<1> QED
  BY <1>1, <1>2

\* The numbers of the invariant.
MemoryCounts ==
    /\ Cap \in Nat /\ Window \in Nat /\ lastId \in Nat /\ killed \in Nat
    /\ Cardinality(rows) \in Nat /\ Cardinality(Ids(rows)) = Cardinality(rows)
    /\ IsFiniteSet(Ids(rows))
    /\ \A D : /\ Cardinality(Ids(rows) \ D) \in Nat
              /\ Cardinality(Ids(rows) \ D) <= Cardinality(Ids(rows))
    /\ \A t \in Tasks : /\ m[t] \in MemoryCall /\ m[t].basis \in Nat /\ m[t].excess \in Nat
                        /\ m[t].gone \in Nat /\ Left(t) \in Int

LEMMA MemoryNumbers == MemoryTyped => MemoryCounts
<1> SUFFICES ASSUME MemoryTyped PROVE MemoryCounts
  OBVIOUS
<1>1. Cap \in Nat /\ Window \in Nat /\ lastId \in Nat /\ killed \in Nat
  BY MemoryConstants DEF MemoryTyped
<1>2. /\ IsFiniteSet(Ids(rows)) /\ Cardinality(rows) \in Nat
      /\ Cardinality(Ids(rows)) = Cardinality(rows)
  BY IdsCount
<1>3. ASSUME NEW D
      PROVE  /\ Cardinality(Ids(rows) \ D) \in Nat
             /\ Cardinality(Ids(rows) \ D) <= Cardinality(Ids(rows))
  <2>1. Ids(rows) \ D \in SUBSET Ids(rows)
    OBVIOUS
  <2> QED
    BY <1>2, <2>1, FS_Subset, FS_CardinalityType
<1>4. \A t \in Tasks : /\ m[t] \in MemoryCall /\ m[t].basis \in Nat /\ m[t].excess \in Nat
                       /\ m[t].gone \in Nat
  BY DEF MemoryTyped, MemoryCall
<1>5. ASSUME NEW t \in Tasks PROVE Left(t) \in Int
  <2>1. CASE At(t, "trim")
    BY <1>3, <2>1 DEF Left
  <2>2. CASE ~At(t, "trim")
    <3>1. Cardinality(Ids(rows)) \in Int /\ m[t].excess \in Int
      BY <1>2, <1>4
    <3> QED
      BY <2>2, <3>1 DEF Left
  <2> QED
    BY <2>1, <2>2
<1> QED
  BY <1>1, <1>2, <1>3, <1>4, <1>5 DEF MemoryCounts

LEMMA MemoryNumbersNext == MemoryTyped' => MemoryCounts'
BY MemoryNumbers, PTL

\* A step that adds no more rows than tasks to trim, and counts none anew.
LEMMA BoundedStays ==
  ASSUME MemoryTyped, MemoryTyped', Bounded, NEW d \in Nat,
         Cardinality(Ids(rows))' <= Cardinality(Ids(rows)) + d,
         \A t \in Counted' : t \in Counted /\ (Left(t)' <= Left(t) + d \/ Left(t)' = 0),
         \A A \in SUBSET Counted' :
            Cardinality(Trimming \ A) + killed + d <= Cardinality(Trimming \ A)' + killed'
  PROVE  Bounded'
<1>1. MemoryCounts /\ MemoryCounts' /\ TrimmingCounts /\ TrimmingCounts'
  BY MemoryNumbers, MemoryNumbersNext, TasksCount, TasksCountNext
<1>2. Cardinality(Ids(rows))' <= Cap + Cardinality(Trimming)' + killed'
  <2>1. {} \in SUBSET Counted' /\ Trimming \ {} = Trimming /\ (Trimming \ {})' = Trimming'
    OBVIOUS
  <2>2. Cardinality(Trimming) + killed + d <= Cardinality(Trimming)' + killed'
    BY <2>1
  <2>3. /\ Cardinality(Ids(rows)) \in Nat /\ Cardinality(Ids(rows))' \in Nat
        /\ Cardinality(Trimming) \in Nat /\ Cardinality(Trimming)' \in Nat
        /\ killed \in Nat /\ killed' \in Nat /\ Cap \in Nat
    BY <1>1 DEF MemoryCounts, TrimmingCounts
  <2>4. Cardinality(Ids(rows)) <= Cap + Cardinality(Trimming) + killed
    BY DEF Bounded
  <2> QED
    BY <2>2, <2>3, <2>4
<1>3. ASSUME NEW A \in SUBSET Counted', A # {}
      PROVE  \E t \in A : Left(t)' <= Cap + Cardinality(Trimming \ A)' + killed'
  <2>1. A \in SUBSET Counted
    OBVIOUS
  <2>2. PICK t \in A : Left(t) <= Cap + Cardinality(Trimming \ A) + killed
    BY <1>3, <2>1 DEF Bounded
  <2>3. Cardinality(Trimming \ A) + killed + d <= Cardinality(Trimming \ A)' + killed'
    OBVIOUS
  <2>4. Left(t)' <= Left(t) + d \/ Left(t)' = 0
    OBVIOUS
  <2>5. /\ Cardinality(Trimming \ A) \in Nat /\ Cardinality(Trimming \ A)' \in Nat
        /\ killed \in Nat /\ killed' \in Nat /\ Cap \in Nat
        /\ Left(t) \in Int /\ Left(t)' \in Int
    BY <1>1 DEF MemoryCounts, TrimmingCounts, Counted
  <2> QED
    BY <2>2, <2>3, <2>4, <2>5
<1> QED
  BY <1>2, <1>3 DEF Bounded

-----------------------------------------------------------------------------
(* The steps of remember. *)

\* What a step that changes the call of one task, but not its count, leaves alone.
Steps(t, pc) ==
    /\ m' \in [Tasks -> MemoryCall] /\ m'[t].pc = pc
    /\ \A s \in Tasks : /\ m'[s].basis = m[s].basis /\ m'[s].text = m[s].text
                        /\ s # t => m'[s] = m[s]

LEMMA SetSteps ==
  ASSUME MemoryTyped, NEW t \in Tasks, NEW pc \in MemoryPcs, Set(t, pc)
  PROVE  Steps(t, pc)
BY DEF MemoryTyped, Set, Steps, MemoryCall

\* A row that has the next id is one more, and younger than all others.
LEMMA InsertKeeps ==
  ASSUME MemoryInv, NEW t \in Tasks, Insert(t) PROVE MemoryInv'
<1> DEFINE new == [id |-> lastId + 1, text |-> m[t].text, kind |-> m[t].kind,
                   stale |-> FALSE, basis |-> m[t].basis]
<1>1. /\ At(t, "insert") /\ lastId' = lastId + 1 /\ rows' = rows \cup {new} /\ killed' = killed
      /\ Steps(t, "prune") /\ MemoryTyped /\ m[t] \in MemoryCall /\ lastId \in Nat
  BY SetSteps DEF Insert, MemoryInv, MemoryTyped, MemoryPcs
<1>2. /\ new \in MemoryRow /\ new.id = lastId + 1 /\ new.text = m[t].text
      /\ new.basis = m[t].basis /\ m[t].basis \in Nat /\ m[t].basis <= lastId
  BY <1>1 DEF MemoryRow, MemoryCall, MemoryTyped
<1> HIDE DEF new
<1>3. \A r \in rows : r.id \in Nat /\ r.id <= lastId /\ r \in MemoryRow /\ r.basis \in Nat
  BY DEF MemoryInv, MemoryTyped, MemoryRow
<1>4. MemoryTyped'
  <2>1. \A r \in rows' : r.id \in 1..lastId'
    BY <1>1, <1>2, <1>3 DEF MemoryTyped
  <2>2. \A r, q \in rows' : r.id = q.id => r = q
    BY <1>1, <1>2, <1>3 DEF MemoryTyped
  <2>3. \A s \in Tasks : m'[s].basis <= lastId'
    BY <1>1 DEF MemoryTyped, MemoryCall, Steps
  <2>4. rows' \subseteq MemoryRow /\ lastId' \in Nat /\ killed' \in Nat
    BY <1>1, <1>2 DEF MemoryTyped
  <2> QED
    BY <1>1, <2>1, <2>2, <2>3, <2>4 DEF MemoryTyped, Steps
<1>5. TwinsExplained'
  <2> SUFFICES ASSUME NEW r \in rows', NEW q \in rows', r.id < q.id, r.text = q.text
               PROVE  q.basis < r.id \/ q.basis - r.id >= Window
    BY DEF TwinsExplained
  <2>1. r \in rows
    BY <1>1, <1>2, <1>3
  <2>2. CASE q = new
    BY <1>1, <1>2, <2>1, <2>2 DEF MemoryInv, NoTwinSeen
  <2>3. CASE q \in rows
    BY <2>1, <2>3 DEF MemoryInv, TwinsExplained
  <2> QED
    BY <1>1, <2>2, <2>3
<1>6. NoTwinSeen'
  <2> SUFFICES ASSUME NEW s \in Tasks, At(s, "insert")', NEW r \in rows', r.text = m'[s].text
               PROVE  m'[s].basis < r.id \/ m'[s].basis - r.id >= Window
    BY DEF NoTwinSeen
  <2>1. At(s, "insert") /\ m'[s] = m[s]
    BY <1>1 DEF At, Steps
  <2>2. CASE r = new
    BY <1>1, <1>2, <2>1, <2>2 DEF MemoryTyped, MemoryCall
  <2>3. CASE r \in rows
    BY <2>1, <2>3 DEF MemoryInv, NoTwinSeen
  <2> QED
    BY <1>1, <2>2, <2>3
<1>7. MemoryCounts /\ MemoryCounts' /\ TrimmingCounts /\ TrimmingCounts'
  BY <1>1, <1>4, MemoryNumbers, MemoryNumbersNext, TasksCount, TasksCountNext
<1>8. /\ Ids(rows') = Ids(rows) \cup {lastId + 1}
      /\ Cardinality(Ids(rows')) = Cardinality(Ids(rows)) + 1
  <2>1. Ids(rows') = Ids(rows) \cup {lastId + 1} /\ lastId + 1 \notin Ids(rows)
    BY <1>1, <1>2, <1>3 DEF Ids
  <2> QED
    BY <1>7, <2>1, FS_AddElement DEF MemoryCounts
<1>9. \A s \in Tasks : s \in Counted' <=> s \in Counted
  BY <1>1 DEF Counted, Steps, At
<1>10. ASSUME NEW s \in Counted
       PROVE  Left(s)' <= Left(s) + 1 /\ Left(s)' >= Left(s) /\ m'[s] = m[s]
  <2>1. s \in Tasks /\ m'[s] = m[s] /\ (At(s, "trim")' <=> At(s, "trim"))
    BY <1>1, <1>10 DEF Counted, Steps, At
  <2>2. CASE At(s, "trim")
    <3> DEFINE D == m[s].doomed
    <3>1. /\ IsFiniteSet(Ids(rows) \ D) /\ Cardinality(Ids(rows) \ D) \in Nat
      <4>1. Ids(rows) \ D \in SUBSET Ids(rows)
        OBVIOUS
      <4> QED
        BY <1>7, <4>1, FS_Subset, FS_CardinalityType DEF MemoryCounts
    <3>2. \/ Ids(rows') \ D = (Ids(rows) \ D) \cup {lastId + 1}
          \/ Ids(rows') \ D = Ids(rows) \ D
      BY <1>8
    <3>3. Cardinality(Ids(rows') \ D) \in {Cardinality(Ids(rows) \ D), Cardinality(Ids(rows) \ D) + 1}
      BY <3>1, <3>2, FS_AddElement
    <3> QED
      BY <2>1, <2>2, <3>1, <3>3 DEF Left
  <2>3. CASE ~At(s, "trim")
    <3>1. /\ Left(s) = Cardinality(Ids(rows)) - m[s].excess
          /\ Left(s)' = Cardinality(Ids(rows')) - m[s].excess
      BY <2>1, <2>3 DEF Left
    <3>2. Cardinality(Ids(rows)) \in Nat /\ m[s].excess \in Nat
      BY <1>7, <2>1 DEF MemoryCounts
    <3> QED
      BY <1>8, <2>1, <3>1, <3>2
  <2> QED
    BY <2>1, <2>2, <2>3
<1>11. \A A \in SUBSET Counted' :
          Cardinality(Trimming \ A) + killed + 1 <= Cardinality(Trimming \ A)' + killed'
  <2> SUFFICES ASSUME NEW A \in SUBSET Counted'
               PROVE  Cardinality(Trimming \ A) + killed + 1 <= Cardinality(Trimming \ A)' + killed'
    OBVIOUS
  <2>1. t \notin Trimming /\ t \notin A /\ Trimming' = Trimming \cup {t}
    BY <1>1, <1>9 DEF Trimming, Counted, At, Steps
  <2>2. (Trimming \ A)' = (Trimming \ A) \cup {t} /\ t \notin Trimming \ A
    BY <2>1
  <2>3. Cardinality((Trimming \ A)') = Cardinality(Trimming \ A) + 1
    BY <1>7, <2>2, FS_AddElement DEF TrimmingCounts
  <2> QED
    BY <1>1, <1>7, <2>3 DEF TrimmingCounts, MemoryCounts
<1>12. Bounded'
  <2>1. /\ Cardinality(Ids(rows))' <= Cardinality(Ids(rows)) + 1
        /\ \A s \in Counted' : s \in Counted /\ (Left(s)' <= Left(s) + 1 \/ Left(s)' = 0)
    BY <1>7, <1>8, <1>9, <1>10 DEF MemoryCounts, Counted
  <2> QED
    BY <1>1, <1>4, <1>11, <2>1, BoundedStays DEF MemoryInv
<1>13. Spared'
  <2> SUFFICES ASSUME NEW s \in Counted' PROVE Left(s)' + m'[s].gone >= Cap
    BY DEF Spared
  <2>1. s \in Counted /\ s \in Tasks
    BY <1>9 DEF Counted
  <2>2. /\ Left(s) \in Int /\ Left(s)' \in Int /\ m[s].gone \in Nat /\ Cap \in Nat
        /\ Left(s) + m[s].gone >= Cap
    BY <1>7, <2>1 DEF MemoryCounts, MemoryInv, Spared
  <2> QED
    BY <1>10, <2>1, <2>2
<1> QED
  BY <1>4, <1>5, <1>6, <1>12, <1>13 DEF MemoryInv

LEMMA TextsAndKinds == "" \in MTexts /\ "note" \in MKinds /\ \A i \in 1..Cap : Old[i] \in MTexts
BY DEF MTexts, MKinds

LEMMA IdleTyped == Idle \in MemoryCall /\ Idle.pc = "idle" /\ Idle.basis = 0
BY TextsAndKinds DEF Idle, MemoryCall, MemoryPcs

\* A step that leaves the ids alone, and no task counted that was not before.
LEMMA SameIds ==
  ASSUME MemoryInv, MemoryTyped', TwinsExplained', NoTwinSeen', Ids(rows)' = Ids(rows),
         \A s \in Counted' : s \in Counted /\ m'[s] = m[s],
         \A A \in SUBSET Counted' :
            Cardinality(Trimming \ A) + killed <= Cardinality(Trimming \ A)' + killed'
  PROVE  MemoryInv'
<1>1. MemoryCounts /\ MemoryCounts' /\ TrimmingCounts /\ TrimmingCounts'
  BY MemoryNumbers, MemoryNumbersNext, TasksCount, TasksCountNext DEF MemoryInv
<1>2. \A s \in Counted' : s \in Counted /\ s \in Tasks /\ Left(s)' = Left(s) /\ m'[s] = m[s]
  BY DEF Left, At, Counted
<1>3. Bounded'
  <2>1. Cardinality(Ids(rows))' = Cardinality(Ids(rows))
    OBVIOUS
  <2>2. Cardinality(Ids(rows))' <= Cardinality(Ids(rows)) + 0
    BY <1>1, <2>1 DEF MemoryCounts
  <2>3. \A s \in Counted' : s \in Counted /\ (Left(s)' <= Left(s) + 0 \/ Left(s)' = 0)
    BY <1>1, <1>2 DEF MemoryCounts
  <2>4. \A A \in SUBSET Counted' :
            Cardinality(Trimming \ A) + killed + 0 <= Cardinality(Trimming \ A)' + killed'
    <3> SUFFICES ASSUME NEW A \in SUBSET Counted'
                 PROVE  Cardinality(Trimming \ A) + killed + 0
                           <= Cardinality(Trimming \ A)' + killed'
      OBVIOUS
    <3>1. /\ Cardinality(Trimming \ A) \in Nat /\ killed \in Nat
          /\ Cardinality(Trimming \ A)' \in Nat /\ killed' \in Nat
      BY <1>1 DEF MemoryCounts, TrimmingCounts
    <3>2. Cardinality(Trimming \ A) + killed <= Cardinality(Trimming \ A)' + killed'
      OBVIOUS
    <3> QED
      BY <3>1, <3>2
  <2> QED
    BY <2>2, <2>3, <2>4, BoundedStays DEF MemoryInv
<1>4. Spared'
  BY <1>2 DEF MemoryInv, Spared
<1> QED
  BY <1>3, <1>4 DEF MemoryInv

\* With the same rows and calls, and no insertion begun, what was seen is as before.
LEMMA SameRows ==
  ASSUME MemoryInv, rows' = rows, lastId' = lastId, killed' \in Nat,
         m' \in [Tasks -> MemoryCall], \A s \in Tasks : m'[s].basis <= lastId,
         \A s \in Tasks : At(s, "insert")' => At(s, "insert") /\ m'[s] = m[s]
  PROVE  MemoryTyped' /\ TwinsExplained' /\ NoTwinSeen'
<1>1. MemoryTyped'
  BY DEF MemoryInv, MemoryTyped
<1>2. TwinsExplained' /\ NoTwinSeen'
  BY DEF MemoryInv, TwinsExplained, NoTwinSeen, At
<1> QED
  BY <1>1, <1>2

LEMMA MemoryStill ==
  ASSUME MemoryInv, UNCHANGED memoryVars PROVE MemoryInv'
BY DEF MemoryInv, memoryVars, MemoryTyped, TwinsExplained, NoTwinSeen, At, Bounded, Spared,
       Counted, Trimming, Left

\* A look that finds no twin has seen the window's newest rows: an equal row is older.
LEMMA RememberKeeps ==
  ASSUME MemoryInv, NEW t \in Tasks, NEW text \in MTexts, NEW kind \in MKinds,
         Remember(t, text, kind)
  PROVE  MemoryInv'
<1> DEFINE pc == IF Twin(text) THEN "known" ELSE "insert"
           call == [Idle EXCEPT !.pc = pc, !.text = text, !.kind = kind, !.basis = lastId]
<1>1. /\ MemoryTyped /\ lastId \in Nat /\ killed \in Nat /\ Window \in Nat
      /\ rows' = rows /\ lastId' = lastId /\ killed' = killed /\ At(t, "idle")
      /\ m \in [Tasks -> MemoryCall] /\ m' = [m EXCEPT ![t] = call]
  BY MemoryConstants DEF MemoryInv, MemoryTyped, Remember
<1>2. /\ call \in MemoryCall /\ call.pc = pc /\ call.text = text /\ call.basis = lastId
      /\ pc \in {"known", "insert"}
  BY <1>1 DEF Idle, MemoryCall, MemoryPcs
<1> HIDE DEF call
<1>3. /\ m' \in [Tasks -> MemoryCall] /\ m'[t] = call
      /\ \A s \in Tasks : s # t => m'[s] = m[s]
  BY <1>1, <1>2
<1>4. MemoryTyped' /\ TwinsExplained'
  <2>1. \A s \in Tasks : m'[s].basis <= lastId
    BY <1>1, <1>2, <1>3 DEF MemoryTyped
  <2> QED
    BY <1>1, <1>3, <2>1 DEF MemoryInv, MemoryTyped, TwinsExplained
<1>5. NoTwinSeen'
  <2> SUFFICES ASSUME NEW s \in Tasks, At(s, "insert")', NEW r \in rows, r.text = m'[s].text
               PROVE  m'[s].basis < r.id \/ m'[s].basis - r.id >= Window
    BY <1>1 DEF NoTwinSeen
  <2>1. CASE s # t
    BY <1>3, <2>1 DEF MemoryInv, NoTwinSeen, At
  <2>2. CASE s = t
    <3>1. ~Twin(text) /\ r.text = text
      BY <1>2, <1>3, <2>2 DEF At
    <3>2. ~(Cardinality(Younger(r)) < Window)
      BY <3>1 DEF Twin, Newest
    <3>3. Cardinality(Younger(r)) <= lastId - r.id
      BY <1>1, YoungerBound
    <3>4. Younger(r) \in SUBSET rows /\ r.id \in Nat
      BY <1>1 DEF Younger, MemoryTyped, MemoryRow
    <3>5. Cardinality(Younger(r)) \in Nat
      BY <1>1, <3>4, IdsCount
    <3> QED
      BY <1>1, <1>2, <1>3, <2>2, <3>2, <3>3, <3>4, <3>5
  <2> QED
    BY <2>1, <2>2
<1>6. /\ \A s \in Counted' : s \in Counted /\ m'[s] = m[s]
      /\ Trimming' = Trimming
  BY <1>1, <1>2, <1>3 DEF Counted, Trimming, At
<1> QED
  BY <1>1, <1>4, <1>5, <1>6, TrimmingSame, SameIds

\* A call that fails is counted as killed if it still had to trim.
LEMMA RememberFailsKeeps ==
  ASSUME MemoryInv, NEW t \in Tasks, RememberFails(t) PROVE MemoryInv'
<1>1. /\ MemoryTyped /\ rows' = rows /\ lastId' = lastId /\ killed \in Nat /\ Steps(t, "failed")
      /\ m[t].pc \in {"insert", "prune", "count", "pick", "trim"}
      /\ killed' = IF At(t, "insert") THEN killed ELSE killed + 1
  BY SetSteps DEF RememberFails, MemoryInv, MemoryTyped, MemoryPcs
<1>2. /\ MemoryTyped' /\ TwinsExplained' /\ NoTwinSeen'
  <2>1. /\ killed' \in Nat /\ \A s \in Tasks : m'[s].basis <= lastId
        /\ \A s \in Tasks : At(s, "insert")' => At(s, "insert") /\ m'[s] = m[s]
        /\ m' \in [Tasks -> MemoryCall]
    BY <1>1 DEF MemoryTyped, Steps, At
  <2> QED
    BY <1>1, <2>1, SameRows
<1>3. \A s \in Counted' : s \in Counted /\ m'[s] = m[s] /\ s # t
  BY <1>1 DEF Counted, Steps
<1>4. MemoryCounts /\ TrimmingCounts /\ TrimmingCounts'
  BY <1>1, MemoryNumbers, TasksCount, TasksCountNext
<1>5. ASSUME NEW A \in SUBSET Counted'
      PROVE  Cardinality(Trimming \ A) + killed <= Cardinality(Trimming \ A)' + killed'
  <2>1. t \notin A
    BY <1>3
  <2>2. CASE At(t, "insert")
    <3>1. (Trimming \ A)' = Trimming \ A
      BY <1>1, <2>2 DEF Trimming, Steps, At
    <3>2. Cardinality(Trimming \ A)' = Cardinality(Trimming \ A)
      BY <3>1
    <3>3. Cardinality(Trimming \ A) \in Nat /\ killed' = killed
      BY <1>1, <1>4, <2>2 DEF TrimmingCounts
    <3> QED
      BY <1>1, <3>2, <3>3
  <2>3. CASE ~At(t, "insert")
    <3>1. (Trimming \ A)' = (Trimming \ A) \ {t} /\ t \in Trimming \ A
      BY <1>1, <2>1, <2>3 DEF Trimming, Steps, At
    <3>2. Cardinality((Trimming \ A)') = Cardinality(Trimming \ A) - 1
      <4>1. IsFiniteSet(Trimming \ A)
        BY <1>4 DEF TrimmingCounts
      <4> QED
        BY <3>1, <4>1, FS_RemoveElement
    <3>3. Cardinality(Trimming \ A) \in Nat /\ killed' = killed + 1
      BY <1>1, <1>4, <2>3 DEF TrimmingCounts
    <3> QED
      BY <1>1, <3>2, <3>3
  <2> QED
    BY <2>2, <2>3
<1> QED
  BY <1>1, <1>2, <1>3, <1>5, SameIds

\* A call that has ended leaves nothing.
LEMMA RememberedKeeps ==
  ASSUME MemoryInv, NEW t \in Tasks, Ended(t), m' = [m EXCEPT ![t] = Idle],
         UNCHANGED <<rows, lastId, killed>>
  PROVE  MemoryInv'
<1>1. /\ MemoryTyped /\ rows' = rows /\ lastId' = lastId /\ killed' = killed /\ killed \in Nat
      /\ lastId \in Nat /\ m \in [Tasks -> MemoryCall]
      /\ m[t].pc \in {"stored", "known", "failed"}
  BY DEF MemoryInv, MemoryTyped, Ended
<1>2. Idle \in MemoryCall /\ Idle.pc = "idle" /\ Idle.basis = 0
  BY IdleTyped
<1>3. /\ m' \in [Tasks -> MemoryCall] /\ m'[t] = Idle
      /\ \A s \in Tasks : s # t => m'[s] = m[s]
  BY <1>1, <1>2
<1>4. MemoryTyped' /\ TwinsExplained' /\ NoTwinSeen'
  <2>1. /\ \A s \in Tasks : m'[s].basis <= lastId
        /\ \A s \in Tasks : At(s, "insert")' => At(s, "insert") /\ m'[s] = m[s]
    BY <1>1, <1>2, <1>3 DEF MemoryTyped, At
  <2> QED
    BY <1>1, <1>3, <2>1, SameRows
<1>5. /\ \A s \in Counted' : s \in Counted /\ m'[s] = m[s]
      /\ Trimming' = Trimming
  BY <1>1, <1>2, <1>3 DEF Counted, Trimming
<1> QED
  BY <1>1, <1>4, <1>5, TrimmingSame, SameIds

\* When the process dies, every call that still had to trim is killed.
LEMMA MemoryDiesKeeps ==
  ASSUME MemoryInv, MemoryDies(Tasks) PROVE MemoryInv'
<1>1. /\ MemoryTyped /\ rows' = rows /\ lastId' = lastId /\ killed \in Nat /\ lastId \in Nat
      /\ killed' = killed + Cardinality(Trimming) /\ \A s \in Tasks : m'[s] = Idle
      /\ m' = [s \in Tasks |-> Idle]
  BY DEF MemoryDies, Trimming, MemoryInv, MemoryTyped
<1>2. Idle \in MemoryCall /\ Idle.pc = "idle" /\ Idle.basis = 0
  BY IdleTyped
<1>3. MemoryCounts /\ TrimmingCounts /\ TrimmingCounts'
  BY <1>1, MemoryNumbers, TasksCount, TasksCountNext
<1>4. MemoryTyped' /\ TwinsExplained' /\ NoTwinSeen'
  <2>1. /\ killed' \in Nat /\ m' \in [Tasks -> MemoryCall]
        /\ \A s \in Tasks : m'[s].basis <= lastId
        /\ \A s \in Tasks : At(s, "insert")' => At(s, "insert") /\ m'[s] = m[s]
    BY <1>1, <1>2, <1>3 DEF At, TrimmingCounts
  <2> QED
    BY <1>1, <2>1, SameRows
<1>5. Counted' = {} /\ Trimming' = {}
  BY <1>1, <1>2 DEF Counted, Trimming
<1>6. ASSUME NEW A \in SUBSET Counted'
      PROVE  Cardinality(Trimming \ A) + killed <= Cardinality(Trimming \ A)' + killed'
  <2>1. A = {}
    BY <1>5
  <2>2. Trimming \ A = Trimming /\ (Trimming \ A)' = {}
    BY <1>5, <2>1
  <2>3. Cardinality((Trimming \ A)') = 0
    BY <2>2, FS_EmptySet
  <2>4. Cardinality(Trimming) \in Nat /\ killed \in Nat
    BY <1>1, <1>3 DEF TrimmingCounts
  <2>5. Cardinality(Trimming \ A) = Cardinality(Trimming) /\ Cardinality(Trimming \ A)' = 0
    BY <2>2, <2>3
  <2> QED
    BY <1>1, <2>4, <2>5
<1> QED
  BY <1>1, <1>4, <1>5, <1>6, SameIds

\* A row that grows stale keeps its id, its text and its basis.
LEMMA GrowStaleKeeps ==
  ASSUME MemoryInv, NEW id, GrowStale(id) PROVE MemoryInv'
<1>1. PICK r \in rows : rows' = (rows \ {r}) \cup {[r EXCEPT !.stale = TRUE]}
  BY DEF GrowStale
<1> DEFINE q == [r EXCEPT !.stale = TRUE]
<1>2. MemoryTyped /\ lastId' = lastId /\ m' = m /\ killed' = killed /\ r \in MemoryRow
  BY DEF GrowStale, MemoryInv, MemoryTyped
<1>3. q \in MemoryRow /\ q.id = r.id /\ q.text = r.text /\ q.basis = r.basis
  BY <1>2 DEF MemoryRow
<1> HIDE DEF q
<1>4. rows' = (rows \ {r}) \cup {q}
  BY <1>1 DEF q
<1>5. Ids(rows)' = Ids(rows)
  BY <1>3, <1>4 DEF Ids
<1>6. MemoryTyped'
  BY <1>2, <1>3, <1>4 DEF MemoryTyped
<1>7. TwinsExplained' /\ NoTwinSeen'
  BY <1>2, <1>3, <1>4 DEF MemoryInv, TwinsExplained, NoTwinSeen, At
<1>8. Counted' = Counted /\ Trimming' = Trimming
  BY <1>2 DEF Counted, Trimming
<1> QED
  BY <1>2, <1>5, <1>6, <1>7, <1>8, TrimmingSame, SameIds

-----------------------------------------------------------------------------
(* The deletions. *)

\* What the rows that task t deletes change for the tasks that have counted: each
\* leaves no more than before, and no less than before but for the rows now gone.
Deletion(t, R) ==
    /\ Cardinality(R) \in Nat /\ Ids(rows)' = Ids(rows) \ Ids(R)
    /\ Cardinality(Ids(rows))' = Cardinality(Ids(rows)) - Cardinality(R)
    /\ \A s \in Counted' : /\ s \in Counted /\ s # t /\ m'[s].pc = m[s].pc
                           /\ m'[s].doomed = m[s].doomed /\ m'[s].excess = m[s].excess
                           /\ m'[s].gone = m[s].gone + Cardinality(R)
                           /\ Left(s)' <= Left(s) /\ Left(s)' + Cardinality(R) >= Left(s)

LEMMA DeletedCalls ==
  ASSUME MemoryInv, NEW t \in Tasks, NEW R \in SUBSET rows,
         NEW pc \in {"idle", "count", "stored"}, Deleted(t, R, pc)
  PROVE  /\ m' \in [Tasks -> MemoryCall] /\ m'[t].pc = pc
         /\ \A s \in Tasks : m'[s].basis = m[s].basis /\ m'[s].text = m[s].text
         /\ \A s \in Tasks : s # t =>
               /\ m'[s].pc = m[s].pc /\ m'[s].doomed = m[s].doomed
               /\ m'[s].excess = m[s].excess
               /\ s \in Counted => m'[s].gone = m[s].gone + Cardinality(R)
<1>1. /\ m \in [Tasks -> MemoryCall] /\ Cardinality(R) \in Nat /\ R \cap rows = R
      /\ m' = [s \in Tasks |-> IF s = t THEN [m[s] EXCEPT !.pc = pc]
                               ELSE IF m[s].pc \in {"pick", "trim"}
                               THEN [m[s] EXCEPT !.gone = @ + Cardinality(R)]
                               ELSE m[s]]
  <2>1. R \cap rows = R
    OBVIOUS
  <2> QED
    BY <2>1, IdsCount DEF Deleted, MemoryInv, MemoryTyped
<1> DEFINE k == Cardinality(R)
           own == [m[t] EXCEPT !.pc = pc]
           other(s) == [m[s] EXCEPT !.gone = @ + k]
<1>2. k \in Nat /\ \A s \in Tasks : m[s] \in MemoryCall
  BY <1>1
<1> HIDE DEF k
<1>3. /\ own \in MemoryCall /\ own.pc = pc /\ own.basis = m[t].basis /\ own.text = m[t].text
  BY <1>2 DEF MemoryCall, MemoryPcs
<1>4. ASSUME NEW s \in Tasks
      PROVE  /\ other(s) \in MemoryCall /\ other(s).pc = m[s].pc
             /\ other(s).basis = m[s].basis /\ other(s).text = m[s].text
             /\ other(s).doomed = m[s].doomed /\ other(s).excess = m[s].excess
             /\ other(s).gone = m[s].gone + k
  BY <1>2 DEF MemoryCall
<1>5. /\ m'[t] = own
      /\ \A s \in Tasks : s # t =>
            m'[s] = IF m[s].pc \in {"pick", "trim"} THEN other(s) ELSE m[s]
      /\ DOMAIN m' = Tasks /\ m' = [s \in Tasks |-> m'[s]]
  BY <1>1 DEF k
<1> HIDE DEF own, other
<1>6. \A s \in Tasks : m'[s] \in MemoryCall
  BY <1>2, <1>3, <1>4, <1>5
<1>7. m' \in [Tasks -> MemoryCall]
  BY <1>5, <1>6
<1>8. \A s \in Tasks : m'[s].basis = m[s].basis /\ m'[s].text = m[s].text
  BY <1>3, <1>4, <1>5
<1>9. \A s \in Tasks : s # t =>
               /\ m'[s].pc = m[s].pc /\ m'[s].doomed = m[s].doomed
               /\ m'[s].excess = m[s].excess
               /\ s \in Counted => m'[s].gone = m[s].gone + k
  BY <1>4, <1>5 DEF Counted
<1> QED
  BY <1>3, <1>5, <1>7, <1>8, <1>9 DEF k

LEMMA DeletedHolds ==
  ASSUME MemoryInv, NEW t \in Tasks, NEW R \in SUBSET rows,
         NEW pc \in {"idle", "count", "stored"}, Deleted(t, R, pc),
         UNCHANGED <<lastId, killed>>
  PROVE  MemoryTyped' /\ TwinsExplained' /\ NoTwinSeen' /\ Spared' /\ Deletion(t, R)
<1>1. /\ MemoryTyped /\ rows' = rows \ R /\ lastId' = lastId /\ killed' = killed
      /\ lastId \in Nat /\ killed \in Nat
  BY DEF Deleted, MemoryInv, MemoryTyped
<1>2. /\ m' \in [Tasks -> MemoryCall] /\ m'[t].pc = pc
      /\ \A s \in Tasks : m'[s].basis = m[s].basis /\ m'[s].text = m[s].text
      /\ \A s \in Tasks : s # t =>
               /\ m'[s].pc = m[s].pc /\ m'[s].doomed = m[s].doomed
               /\ m'[s].excess = m[s].excess
               /\ s \in Counted => m'[s].gone = m[s].gone + Cardinality(R)
  BY DeletedCalls
<1>3. MemoryTyped'
  BY <1>1, <1>2 DEF MemoryTyped
<1>4. TwinsExplained'
  BY <1>1 DEF MemoryInv, TwinsExplained
<1>5. NoTwinSeen'
  <2> SUFFICES ASSUME NEW s \in Tasks, At(s, "insert")', NEW r \in rows', r.text = m'[s].text
               PROVE  m'[s].basis < r.id \/ m'[s].basis - r.id >= Window
    BY DEF NoTwinSeen
  <2>1. At(s, "insert") /\ r \in rows
    BY <1>1, <1>2 DEF At
  <2>2. m'[s].basis = m[s].basis /\ m'[s].text = m[s].text
    BY <1>2
  <2> QED
    BY <2>1, <2>2 DEF MemoryInv, NoTwinSeen
<1>6. MemoryCounts /\ MemoryCounts'
  BY <1>1, <1>3, MemoryNumbers, MemoryNumbersNext
<1> DEFINE k == Cardinality(R)
<1>7. /\ k \in Nat /\ IsFiniteSet(Ids(R)) /\ Cardinality(Ids(R)) = k /\ Ids(R) \subseteq Ids(rows)
      /\ Ids(rows)' = Ids(rows) \ Ids(R)
  BY <1>1, IdsCount, IdsMinus DEF Ids
<1> HIDE DEF k
<1>8. Cardinality(Ids(rows)) = Cardinality(Ids(rows))' + k
  <2>1. Cardinality(Ids(R)) + Cardinality(Ids(rows) \ Ids(R)) = Cardinality(Ids(rows))
    <3>1. Ids(rows) \cap Ids(R) = Ids(R)
      BY <1>7
    <3>2. Cardinality(Ids(rows) \ Ids(R)) = Cardinality(Ids(rows)) - Cardinality(Ids(R))
      <4>1. IsFiniteSet(Ids(rows))
        BY <1>6 DEF MemoryCounts
      <4>2. /\ IsFiniteSet(Ids(rows) \ Ids(R))
            /\ Cardinality(Ids(rows) \ Ids(R))
                  = Cardinality(Ids(rows)) - Cardinality(Ids(rows) \cap Ids(R))
        BY <4>1, FS_Difference
      <4> QED
        BY <3>1, <4>2
    <3>3. Cardinality(Ids(rows)) \in Nat
      BY <1>6 DEF MemoryCounts
    <3> QED
      BY <1>7, <3>2, <3>3
  <2>2. Cardinality(Ids(rows))' \in Nat
    BY <1>6 DEF MemoryCounts
  <2> QED
    BY <1>7, <2>1, <2>2
<1>9. ASSUME NEW s \in Counted'
      PROVE  /\ s \in Counted /\ s # t /\ m'[s].pc = m[s].pc
             /\ m'[s].doomed = m[s].doomed /\ m'[s].excess = m[s].excess
             /\ m'[s].gone = m[s].gone + k /\ s \in Tasks
  <2>1. s \in Tasks /\ s # t
    BY <1>2, <1>9 DEF Counted
  <2>2. s \in Counted
    BY <1>2, <2>1, <1>9 DEF Counted
  <2> QED
    BY <1>2, <2>1, <2>2 DEF k
<1>10. ASSUME NEW s \in Counted'
       PROVE  /\ Left(s) \in Int /\ Left(s)' \in Int
              /\ Left(s)' <= Left(s) /\ Left(s)' + k >= Left(s)
  <2>1. s \in Tasks /\ (At(s, "trim")' <=> At(s, "trim"))
    BY <1>9 DEF At
  <2>2. Left(s) \in Int /\ Left(s)' \in Int
    BY <1>6, <2>1 DEF MemoryCounts
  <2>3. CASE At(s, "trim")
    <3> DEFINE L == Ids(rows) \ m[s].doomed
               N == (Ids(rows) \ Ids(R)) \ m[s].doomed
    <3>1. Left(s) = Cardinality(L) /\ Left(s)' = Cardinality(N)
      BY <1>7, <1>9, <2>1, <2>3 DEF Left
    <3>2. IsFiniteSet(L) /\ N \in SUBSET L /\ L \ N \in SUBSET Ids(R) /\ L \cap N = N
      <4>1. L \in SUBSET Ids(rows)
        OBVIOUS
      <4>2. IsFiniteSet(L)
        BY <1>6, <4>1, FS_Subset DEF MemoryCounts
      <4> QED
        BY <4>2
    <3> HIDE DEF L, N
    <3>3. IsFiniteSet(N) /\ Cardinality(N) <= Cardinality(L) /\ Cardinality(L) \in Nat
      BY <3>2, FS_Subset, FS_CardinalityType
    <3>4. Cardinality(L \ N) = Cardinality(L) - Cardinality(N)
      <4>1. IsFiniteSet(L) /\ L \cap N = N
        BY <3>2
      <4>2. Cardinality(L \ N) = Cardinality(L) - Cardinality(L \cap N)
        BY <4>1, FS_Difference
      <4> QED
        BY <4>1, <4>2
    <3>5. Cardinality(L \ N) <= k
      BY <1>7, <3>2, FS_Subset
    <3>6. Cardinality(N) \in Nat
      BY <3>3, FS_CardinalityType
    <3> QED
      BY <1>7, <3>1, <3>3, <3>4, <3>5, <3>6, <2>2
  <2>4. CASE ~At(s, "trim")
    <3>1. /\ Left(s) = Cardinality(Ids(rows)) - m[s].excess
          /\ Left(s)' = Cardinality(Ids(rows))' - m[s].excess
      BY <1>9, <2>1, <2>4 DEF Left
    <3>2. Cardinality(Ids(rows)) \in Nat /\ Cardinality(Ids(rows))' \in Nat /\ m[s].excess \in Nat
      BY <1>6, <2>1 DEF MemoryCounts
    <3> QED
      BY <1>7, <1>8, <2>2, <3>1, <3>2
  <2> QED
    BY <2>2, <2>3, <2>4
<1>11. Spared'
  <2> SUFFICES ASSUME NEW s \in Counted' PROVE Left(s)' + m'[s].gone >= Cap
    BY DEF Spared
  <2>1. s \in Counted /\ s \in Tasks /\ m'[s].gone = m[s].gone + k
    BY <1>9
  <2>2. Left(s) + m[s].gone >= Cap /\ m[s].gone \in Nat /\ Cap \in Nat
    BY <1>6, <2>1 DEF MemoryCounts, MemoryInv, Spared
  <2>3. Left(s) \in Int /\ Left(s)' \in Int /\ Left(s)' + k >= Left(s)
    BY <1>10
  <2> QED
    BY <1>7, <2>1, <2>2, <2>3
<1>12. Deletion(t, R)
  <2>1. Cardinality(Ids(rows))' = Cardinality(Ids(rows)) - k
    <3>1. Cardinality(Ids(rows)) \in Nat /\ Cardinality(Ids(rows))' \in Nat
      BY <1>6 DEF MemoryCounts
    <3> QED
      BY <1>7, <1>8, <3>1
  <2> QED
    BY <1>7, <2>1, <1>9, <1>10 DEF Deletion, k
<1> QED
  BY <1>3, <1>4, <1>5, <1>11, <1>12

\* A deletion by a task that had not counted keeps the whole invariant.
LEMMA DeletionKeeps ==
  ASSUME MemoryInv, NEW t \in Tasks, NEW R \in SUBSET rows,
         NEW pc \in {"idle", "count"}, Deleted(t, R, pc), UNCHANGED <<lastId, killed>>,
         (pc = "idle" /\ At(t, "idle")) \/ (pc = "count" /\ At(t, "prune"))
  PROVE  MemoryInv'
<1>1. MemoryTyped' /\ TwinsExplained' /\ NoTwinSeen' /\ Spared' /\ Deletion(t, R)
  BY DeletedHolds
<1>2. Trimming' = Trimming
  BY DeletedCalls DEF Trimming, At
<1>3. MemoryTyped /\ MemoryCounts /\ MemoryCounts' /\ TrimmingCounts
  BY <1>1, MemoryNumbers, MemoryNumbersNext, TasksCount DEF MemoryInv
<1>4. Cardinality(Ids(rows))' <= Cardinality(Ids(rows)) + 0
  BY <1>1, <1>3 DEF Deletion, MemoryCounts
<1>5. \A s \in Counted' : s \in Counted /\ (Left(s)' <= Left(s) + 0 \/ Left(s)' = 0)
  <2> SUFFICES ASSUME NEW s \in Counted' PROVE s \in Counted /\ Left(s)' <= Left(s) + 0
    OBVIOUS
  <2>1. s \in Counted /\ Left(s)' <= Left(s)
    BY <1>1 DEF Deletion
  <2>2. Left(s) \in Int
    BY <1>3, <2>1 DEF MemoryCounts, Counted
  <2> QED
    BY <2>1, <2>2
<1>6. \A A \in SUBSET Counted' :
         Cardinality(Trimming \ A) + killed + 0 <= Cardinality(Trimming \ A)' + killed'
  <2> SUFFICES ASSUME NEW A \in SUBSET Counted'
               PROVE  Cardinality(Trimming \ A) + killed + 0
                         <= Cardinality(Trimming \ A)' + killed'
    OBVIOUS
  <2>1. Cardinality(Trimming \ A) \in Nat /\ killed \in Nat /\ killed' = killed
    BY <1>3 DEF MemoryCounts, TrimmingCounts
  <2>2. Cardinality(Trimming \ A)' = Cardinality(Trimming \ A)
    BY <1>2
  <2> QED
    BY <2>1, <2>2
<1>7. Bounded'
  BY <1>1, <1>3, <1>4, <1>5, <1>6, BoundedStays DEF MemoryInv
<1> QED
  BY <1>1, <1>7 DEF MemoryInv

LEMMA PruneKeeps ==
  ASSUME MemoryInv, NEW t \in Tasks, Prune(t) PROVE MemoryInv'
<1>1. {r \in rows : r.stale} \in SUBSET rows
  OBVIOUS
<1> QED
  BY <1>1, DeletionKeeps DEF Prune

LEMMA ForgetKeeps ==
  ASSUME MemoryInv, NEW t \in Tasks, At(t, "idle"), NEW id, Forget(t, id) PROVE MemoryInv'
<1>1. {r \in rows : r.id = id} \in SUBSET rows
  OBVIOUS
<1> QED
  BY <1>1, DeletionKeeps DEF Forget

\* The trim of a task leaves what it counted on; if it was the one that counted last,
\* every other leaves no more than that.
LEMMA TrimKeeps ==
  ASSUME MemoryInv, NEW t \in Tasks, Trim(t) PROVE MemoryInv'
<1> DEFINE R == {r \in rows : r.id \in m[t].doomed}
<1>1. R \in SUBSET rows /\ Deleted(t, R, "stored") /\ At(t, "trim") /\ UNCHANGED <<lastId, killed>>
  BY DEF Trim
<1>2. Ids(R) = Ids(rows) \cap m[t].doomed
  BY DEF Ids
<1> HIDE DEF R
<1>3. MemoryTyped' /\ TwinsExplained' /\ NoTwinSeen' /\ Spared' /\ Deletion(t, R)
  BY <1>1, DeletedHolds
<1>4. /\ MemoryTyped /\ MemoryCounts /\ MemoryCounts' /\ TrimmingCounts /\ TrimmingCounts'
  BY <1>3, MemoryNumbers, MemoryNumbersNext, TasksCount, TasksCountNext DEF MemoryInv
<1>5. t \in Counted /\ t \in Trimming /\ Trimming' = Trimming \ {t}
  BY <1>1, DeletedCalls DEF Trimming, Counted, At
<1>6. Cardinality(Ids(rows))' = Left(t) /\ Left(t) \in Nat
  <2>1. Ids(rows) \ Ids(R) = Ids(rows) \ m[t].doomed
    BY <1>2
  <2>2. Ids(rows)' = Ids(rows) \ m[t].doomed
    BY <1>3, <2>1 DEF Deletion
  <2> QED
    BY <1>1, <1>4, <2>2 DEF Left, MemoryCounts
<1>7. \A s \in Counted' : /\ s \in Counted /\ s # t /\ s \in Tasks /\ Left(s)' <= Left(s)
                          /\ Left(s)' <= Cardinality(Ids(rows))'
                          /\ Left(s) \in Int /\ Left(s)' \in Int
  <2> SUFFICES ASSUME NEW s \in Counted'
               PROVE  /\ s \in Counted /\ s # t /\ s \in Tasks /\ Left(s)' <= Left(s)
                      /\ Left(s)' <= Cardinality(Ids(rows))'
                      /\ Left(s) \in Int /\ Left(s)' \in Int
    OBVIOUS
  <2>1. /\ s \in Counted /\ s # t /\ s \in Tasks /\ Left(s)' <= Left(s)
        /\ Left(s) \in Int /\ Left(s)' \in Int
    BY <1>3, <1>4 DEF Deletion, Counted, MemoryCounts
  <2>2. Left(s)' <= Cardinality(Ids(rows))'
    <3>1. CASE At(s, "trim")'
      BY <1>4, <3>1 DEF Left, MemoryCounts
    <3>2. CASE ~At(s, "trim")'
      <4>1. Left(s)' = Cardinality(Ids(rows))' - m'[s].excess
        BY <3>2 DEF Left
      <4>2. Cardinality(Ids(rows))' \in Nat /\ m'[s].excess \in Nat
        BY <1>4, <2>1 DEF MemoryCounts
      <4> QED
        BY <4>1, <4>2
    <3> QED
      BY <3>1, <3>2
  <2> QED
    BY <2>1, <2>2
<1>8. Cardinality(Ids(rows))' <= Cap + Cardinality(Trimming)' + killed'
  <2>1. {t} \in SUBSET Counted /\ {t} # {}
    BY <1>5
  <2>2. PICK s \in {t} : Left(s) <= Cap + Cardinality(Trimming \ {t}) + killed
    BY <2>1 DEF MemoryInv, Bounded
  <2>3. Left(t) <= Cap + Cardinality(Trimming \ {t}) + killed
    BY <2>2
  <2>4. Cardinality(Trimming \ {t}) = Cardinality(Trimming)' /\ killed' = killed
    BY <1>1, <1>5
  <2> QED
    BY <1>6, <2>3, <2>4
<1>9. ASSUME NEW A \in SUBSET Counted', A # {}
      PROVE  \E s \in A : Left(s)' <= Cap + Cardinality(Trimming \ A)' + killed'
  <2> DEFINE B == A \cup {t}
  <2>1. B \in SUBSET Counted /\ B # {}
    BY <1>5, <1>7
  <2>2. PICK s \in B : Left(s) <= Cap + Cardinality(Trimming \ B) + killed
    BY <2>1 DEF MemoryInv, Bounded
  <2>3. Trimming \ B = Trimming' \ A /\ killed' = killed
    BY <1>1, <1>5
  <2>4. Cardinality(Trimming \ B) = Cardinality(Trimming \ A)'
    BY <2>3
  <2> DEFINE bound == Cap + Cardinality(Trimming \ A)' + killed'
  <2>5. Left(s) <= bound /\ bound \in Int
    <3>1. Cardinality(Trimming \ A)' \in Nat /\ killed' \in Nat /\ Cap \in Nat
      BY <1>4 DEF MemoryCounts, TrimmingCounts
    <3> QED
      BY <2>2, <2>3, <2>4, <3>1
  <2> HIDE DEF bound
  <2>6. CASE s \in A
    <3>1. Left(s)' <= Left(s) /\ Left(s) \in Int /\ Left(s)' \in Int
      BY <1>7, <2>6
    <3>2. Left(s)' <= bound
      BY <2>5, <3>1
    <3> QED
      BY <2>6, <3>2 DEF bound
  <2>7. CASE s = t
    <3>1. PICK a \in A : TRUE
      BY <1>9
    <3>2. Left(a)' <= Left(t) /\ Left(a)' \in Int
      BY <1>6, <1>7
    <3>3. Left(a)' <= bound
      BY <1>6, <2>5, <2>7, <3>2
    <3> QED
      BY <3>3 DEF bound
  <2> QED
    BY <2>6, <2>7
<1> QED
  BY <1>3, <1>8, <1>9 DEF MemoryInv, Bounded

\* A task that counts now leaves exactly the cap.
LEMMA CountKeeps ==
  ASSUME MemoryInv, NEW t \in Tasks, Count(t) PROVE MemoryInv'
<1> DEFINE n == Cardinality(rows)
<1>1. /\ MemoryTyped /\ MemoryCounts /\ TrimmingCounts /\ At(t, "count")
      /\ rows' = rows /\ lastId' = lastId /\ killed' = killed /\ killed \in Nat
      /\ m' = IF n > Cap THEN [m EXCEPT ![t].pc = "pick", ![t].excess = n - Cap, ![t].gone = 0]
              ELSE [m EXCEPT ![t].pc = "stored"]
  BY MemoryNumbers, TasksCount DEF Count, MemoryInv, MemoryTyped
<1>2. n \in Nat /\ n = Cardinality(Ids(rows)) /\ Cap \in Nat /\ m \in [Tasks -> MemoryCall]
  BY <1>1 DEF MemoryCounts, MemoryTyped
<1> HIDE DEF n
<1>3. /\ m' \in [Tasks -> MemoryCall] /\ m'[t].basis = m[t].basis
      /\ \A s \in Tasks : s # t => m'[s] = m[s]
      /\ n > Cap => m'[t].pc = "pick" /\ m'[t].excess = n - Cap /\ m'[t].gone = 0
      /\ ~(n > Cap) => m'[t].pc = "stored"
  <2>1. m[t] \in MemoryCall
    BY <1>2
  <2>2. CASE n > Cap
    <3> DEFINE call == [m[t] EXCEPT !.pc = "pick", !.excess = n - Cap, !.gone = 0]
    <3>1. m' = [m EXCEPT ![t] = call]
      BY <1>1, <2>2
    <3>2. n - Cap \in Nat
      BY <1>2, <2>2
    <3>3. /\ call \in MemoryCall /\ call.basis = m[t].basis /\ call.pc = "pick"
          /\ call.excess = n - Cap /\ call.gone = 0
      BY <2>1, <3>2 DEF MemoryCall, MemoryPcs
    <3> HIDE DEF call
    <3> QED
      BY <1>2, <2>2, <3>1, <3>3
  <2>3. CASE ~(n > Cap)
    <3> DEFINE call == [m[t] EXCEPT !.pc = "stored"]
    <3>1. m' = [m EXCEPT ![t] = call]
      BY <1>1, <2>3
    <3>2. call \in MemoryCall /\ call.basis = m[t].basis /\ call.pc = "stored"
      BY <2>1 DEF MemoryCall, MemoryPcs
    <3> HIDE DEF call
    <3> QED
      BY <1>2, <2>3, <3>1, <3>2
  <2> QED
    BY <2>2, <2>3
<1>4. MemoryTyped' /\ TwinsExplained' /\ NoTwinSeen'
  <2>1. /\ \A s \in Tasks : m'[s].basis <= lastId
        /\ \A s \in Tasks : At(s, "insert")' => At(s, "insert") /\ m'[s] = m[s]
    BY <1>1, <1>3 DEF MemoryTyped, At
  <2> QED
    BY <1>1, <1>3, <2>1, SameRows
<1>5. MemoryCounts' /\ TrimmingCounts'
  BY <1>4, MemoryNumbersNext, TasksCountNext
<1>6. \A s \in Counted' : s # t => s \in Counted /\ m'[s] = m[s] /\ Left(s)' = Left(s)
  BY <1>1, <1>3 DEF Counted, Left, At
<1>7. CASE n > Cap
  <2>1. Trimming' = Trimming /\ Left(t)' = Cap
    <3>1. ~At(t, "trim")' /\ Left(t)' = Cardinality(Ids(rows)) - m'[t].excess
      BY <1>1, <1>3, <1>7 DEF At, Left
    <3>2. Left(t)' = n - (n - Cap)
      BY <1>2, <1>3, <1>7, <3>1
    <3>3. Trimming' = Trimming
      BY <1>1, <1>3, <1>7 DEF Trimming, At
    <3> QED
      BY <1>2, <3>2, <3>3
  <2>2. Spared'
    <3> SUFFICES ASSUME NEW s \in Counted' PROVE Left(s)' + m'[s].gone >= Cap
      BY DEF Spared
    <3>1. CASE s = t
      BY <1>2, <1>3, <1>7, <2>1, <3>1
    <3>2. CASE s # t
      BY <1>6, <3>2 DEF MemoryInv, Spared
    <3> QED
      BY <3>1, <3>2
  <2>3. ASSUME NEW A \in SUBSET Counted', A # {}
        PROVE  \E s \in A : Left(s)' <= Cap + Cardinality(Trimming \ A)' + killed'
    <3>1. /\ Cardinality(Trimming \ A)' = Cardinality(Trimming \ A)
          /\ Cardinality(Trimming \ A) \in Nat
      BY <1>1, <2>1 DEF TrimmingCounts
    <3>2. CASE t \in A
      BY <1>1, <1>2, <2>1, <3>1, <3>2
    <3>3. CASE t \notin A
      <4>1. A \in SUBSET Counted
        BY <1>6, <3>3
      <4>2. PICK s \in A : Left(s) <= Cap + Cardinality(Trimming \ A) + killed
        BY <2>3, <4>1 DEF MemoryInv, Bounded
      <4>3. Left(s)' = Left(s)
        BY <1>6, <3>3
      <4> QED
        BY <1>1, <3>1, <4>2, <4>3
    <3> QED
      BY <3>2, <3>3
  <2>4. Cardinality(Ids(rows))' <= Cap + Cardinality(Trimming)' + killed'
    BY <1>1, <2>1 DEF MemoryInv, Bounded
  <2> QED
    BY <1>4, <2>2, <2>3, <2>4 DEF MemoryInv, Bounded
<1>8. CASE ~(n > Cap)
  <2>1. \A s \in Counted' : s # t /\ s \in Counted /\ s \in Tasks /\ Left(s)' <= Cap
    <3> SUFFICES ASSUME NEW s \in Counted'
                 PROVE  s # t /\ s \in Counted /\ s \in Tasks /\ Left(s)' <= Cap
      OBVIOUS
    <3>1. s # t /\ s \in Tasks
      BY <1>3, <1>8 DEF Counted
    <3>2. s \in Counted /\ Left(s)' = Left(s)
      BY <1>6, <3>1
    <3>3. Left(s) <= n
      <4>1. CASE At(s, "trim")
        BY <1>1, <1>2, <4>1 DEF Left, MemoryCounts
      <4>2. CASE ~At(s, "trim")
        <5>1. Left(s) = n - m[s].excess /\ m[s].excess \in Nat
          BY <1>1, <1>2, <3>1, <4>2 DEF Left, MemoryCounts
        <5> QED
          BY <1>2, <5>1
      <4> QED
        BY <4>1, <4>2
    <3>4. Left(s) \in Int
      BY <1>1, <3>1 DEF MemoryCounts
    <3> QED
      BY <1>2, <1>8, <3>1, <3>2, <3>3, <3>4
  <2>2. Spared'
    BY <1>6, <2>1 DEF MemoryInv, Spared
  <2>3. ASSUME NEW A \in SUBSET Counted', A # {}
        PROVE  \E s \in A : Left(s)' <= Cap + Cardinality(Trimming \ A)' + killed'
    <3>1. Cardinality(Trimming \ A)' \in Nat /\ killed' \in Nat
      BY <1>5 DEF TrimmingCounts, MemoryCounts
    <3>2. PICK s \in A : Left(s)' <= Cap /\ Left(s)' \in Int
      BY <1>5, <2>1, <2>3 DEF MemoryCounts
    <3> QED
      BY <1>2, <3>1, <3>2
  <2>4. Cardinality(Ids(rows))' <= Cap + Cardinality(Trimming)' + killed'
    <3>1. Cardinality(Trimming)' \in Nat /\ killed' \in Nat
      BY <1>5 DEF TrimmingCounts, MemoryCounts
    <3>2. Cardinality(Ids(rows))' = n
      BY <1>1, <1>2
    <3> QED
      BY <1>2, <1>8, <3>1, <3>2
  <2> QED
    BY <1>4, <2>2, <2>3, <2>4 DEF MemoryInv, Bounded
<1> QED
  BY <1>7, <1>8

\* The pick takes the excess counted, or all there is if less is left.
LEMMA PickKeeps ==
  ASSUME MemoryInv, NEW t \in Tasks, Pick(t) PROVE MemoryInv'
<1> DEFINE e == m[t].excess
           O == Oldest(e)
<1>1. /\ MemoryTyped /\ MemoryCounts /\ TrimmingCounts /\ At(t, "pick")
      /\ rows' = rows /\ lastId' = lastId /\ killed' = killed /\ killed \in Nat
      /\ m' = [m EXCEPT ![t].pc = "trim", ![t].doomed = Ids(O)]
  BY MemoryNumbers, TasksCount DEF Pick, MemoryInv, MemoryTyped
<1>2. /\ e \in Nat /\ m \in [Tasks -> MemoryCall] /\ O \in SUBSET rows
      /\ Cardinality(rows) \in Nat /\ Cardinality(Ids(rows)) = Cardinality(rows)
  BY <1>1 DEF MemoryCounts, MemoryTyped, Oldest
<1>3. /\ Cardinality(O) \in Nat /\ Cardinality(O) <= e
      /\ O = rows \/ Cardinality(O) = e
  BY <1>1, <1>2, OldestCount
<1> HIDE DEF e, O
<1>4. Ids(O) \in SUBSET Nat /\ IsFiniteSet(Ids(O)) /\ Cardinality(Ids(O)) = Cardinality(O)
  BY <1>1, <1>2, IdsCount
<1>5. /\ m' \in [Tasks -> MemoryCall] /\ m'[t].basis = m[t].basis
      /\ m'[t].pc = "trim" /\ m'[t].doomed = Ids(O) /\ m'[t].gone = m[t].gone
      /\ \A s \in Tasks : s # t => m'[s] = m[s]
  <2> DEFINE call == [m[t] EXCEPT !.pc = "trim", !.doomed = Ids(O)]
  <2>1. m' = [m EXCEPT ![t] = call]
    BY <1>1
  <2>2. m[t] \in MemoryCall
    BY <1>2
  <2>3. /\ call \in MemoryCall /\ call.basis = m[t].basis /\ call.pc = "trim"
        /\ call.doomed = Ids(O) /\ call.gone = m[t].gone
    BY <1>4, <2>2 DEF MemoryCall, MemoryPcs
  <2> HIDE DEF call
  <2> QED
    BY <1>2, <2>1, <2>3
<1>6. MemoryTyped' /\ TwinsExplained' /\ NoTwinSeen'
  <2>1. /\ \A s \in Tasks : m'[s].basis <= lastId
        /\ \A s \in Tasks : At(s, "insert")' => At(s, "insert") /\ m'[s] = m[s]
    BY <1>1, <1>5 DEF MemoryTyped, At
  <2> QED
    BY <1>1, <1>5, <2>1, SameRows
<1>7. MemoryCounts'
  BY <1>6, MemoryNumbersNext
<1>8. Trimming' = Trimming /\ Counted' = Counted
  BY <1>1, <1>5 DEF Trimming, Counted, At
<1>9. Left(t)' >= Left(t) /\ (Left(t)' = Left(t) \/ Left(t)' = 0)
  <2>1. Left(t) = Cardinality(rows) - e
    BY <1>1, <1>2 DEF Left, At, e
  <2>2. Left(t)' = Cardinality(Ids(rows) \ Ids(O))
    BY <1>1, <1>5 DEF Left, At
  <2>3. Ids(rows) \cap Ids(O) = Ids(O) /\ IsFiniteSet(Ids(rows))
    BY <1>1, <1>2 DEF Ids, MemoryCounts
  <2>4. Cardinality(Ids(rows) \ Ids(O)) = Cardinality(rows) - Cardinality(O)
    <3>1. Cardinality(Ids(rows) \ Ids(O))
             = Cardinality(Ids(rows)) - Cardinality(Ids(rows) \cap Ids(O))
      BY <2>3, FS_Difference
    <3>2. Cardinality(Ids(rows) \cap Ids(O)) = Cardinality(O)
      BY <1>4, <2>3
    <3> QED
      BY <1>2, <3>1, <3>2
  <2> QED
    BY <1>2, <1>3, <2>1, <2>2, <2>4
<1>10. \A s \in Counted' : /\ s \in Counted /\ m'[s].gone = m[s].gone /\ s \in Tasks
                           /\ Left(s)' >= Left(s) /\ (Left(s)' = Left(s) \/ Left(s)' = 0)
  <2> SUFFICES ASSUME NEW s \in Counted'
               PROVE  /\ s \in Counted /\ m'[s].gone = m[s].gone /\ s \in Tasks
                      /\ Left(s)' >= Left(s) /\ (Left(s)' = Left(s) \/ Left(s)' = 0)
    OBVIOUS
  <2>1. CASE s = t
    BY <1>5, <1>8, <1>9, <2>1
  <2>2. CASE s # t
    <3>1. s \in Counted /\ s \in Tasks /\ m'[s] = m[s]
      BY <1>5, <1>8, <2>2 DEF Counted
    <3>2. Left(s)' = Left(s)
      <4>1. Ids(rows)' = Ids(rows)
        BY <1>1
      <4> QED
        BY <3>1, <4>1 DEF Left, At
    <3>3. Left(s) \in Int
      BY <1>1, <3>1 DEF MemoryCounts
    <3> QED
      BY <3>1, <3>2, <3>3
  <2> QED
    BY <2>1, <2>2
<1>11. Bounded'
  <2>1. Cardinality(Ids(rows))' <= Cardinality(Ids(rows)) + 0
    BY <1>1, <1>2
  <2>2. \A s \in Counted' : s \in Counted /\ (Left(s)' <= Left(s) + 0 \/ Left(s)' = 0)
    BY <1>1, <1>10 DEF MemoryCounts
  <2>3. ASSUME NEW A \in SUBSET Counted'
        PROVE  Cardinality(Trimming \ A) + killed + 0 <= Cardinality(Trimming \ A)' + killed'
    <3>1. Cardinality(Trimming \ A) \in Nat /\ Cardinality(Trimming \ A)' = Cardinality(Trimming \ A)
      BY <1>1, <1>8 DEF TrimmingCounts
    <3> QED
      BY <1>1, <3>1
  <2> QED
    BY <1>1, <1>6, <2>1, <2>2, <2>3, BoundedStays DEF MemoryInv
<1>12. Spared'
  <2> SUFFICES ASSUME NEW s \in Counted' PROVE Left(s)' + m'[s].gone >= Cap
    BY DEF Spared
  <2>1. /\ s \in Counted /\ s \in Tasks /\ m'[s].gone = m[s].gone /\ Left(s)' >= Left(s)
    BY <1>10
  <2>2. /\ Left(s) + m[s].gone >= Cap /\ m[s].gone \in Nat /\ Cap \in Nat
        /\ Left(s) \in Int /\ Left(s)' \in Int
    BY <1>1, <1>7, <2>1 DEF MemoryCounts, MemoryInv, Spared
  <2> QED
    BY <2>1, <2>2
<1> QED
  BY <1>6, <1>11, <1>12 DEF MemoryInv

LEMMA RememberStepKeeps ==
  ASSUME MemoryInv, NEW t \in Tasks, RememberStep(t) PROVE MemoryInv'
BY InsertKeeps, PruneKeeps, CountKeeps, PickKeeps, TrimKeeps DEF RememberStep

\* What an earlier life left is the cap's rows, all different.
LEMMA MemoryInitHolds == MemoryInit => MemoryInv
<1> SUFFICES ASSUME MemoryInit PROVE MemoryInv
  OBVIOUS
<1> DEFINE row(i) == [id |-> i, text |-> Old[i], kind |-> "note", stale |-> FALSE, basis |-> i - 1]
<1>1. /\ Cap \in Nat /\ rows = {row(i) : i \in 1..Cap} /\ lastId = Cap
      /\ killed = 0 /\ m = [t \in Tasks |-> Idle] /\ \A t \in Tasks : m[t] = Idle
  BY MemoryConstants DEF MemoryInit
<1>2. \A i \in 1..Cap : /\ row(i) \in MemoryRow /\ row(i).id = i /\ row(i).text = Old[i]
                        /\ row(i).basis = i - 1
  <2> SUFFICES ASSUME NEW i \in 1..Cap
               PROVE  /\ row(i) \in MemoryRow /\ row(i).id = i /\ row(i).text = Old[i]
                      /\ row(i).basis = i - 1
    OBVIOUS
  <2>1. Old[i] \in MTexts /\ "note" \in MKinds
    BY TextsAndKinds
  <2>2. i \in Nat /\ i - 1 \in Nat
    BY <1>1
  <2> QED
    BY <2>1, <2>2 DEF MemoryRow
<1> HIDE DEF row
<1>3. MemoryTyped
  <2>1. /\ rows \subseteq MemoryRow /\ \A r \in rows : r.id \in 1..lastId
        /\ \A r, q \in rows : r.id = q.id => r = q
    <3>1. \A r \in rows : \E i \in 1..Cap : r = row(i)
      BY <1>1
    <3>2. \A r \in rows : r \in MemoryRow /\ r.id \in 1..lastId
      BY <1>1, <1>2, <3>1
    <3> QED
      BY <1>2, <3>1, <3>2
  <2>2. m \in [Tasks -> MemoryCall] /\ \A t \in Tasks : m[t].basis <= lastId
    BY <1>1, IdleTyped
  <2> QED
    BY <1>1, <2>1, <2>2 DEF MemoryTyped
<1>4. TwinsExplained
  <2> SUFFICES ASSUME NEW r \in rows, NEW q \in rows, r.id < q.id, r.text = q.text PROVE FALSE
    BY DEF TwinsExplained
  <2>1. PICK i \in 1..Cap, j \in 1..Cap : r = row(i) /\ q = row(j)
    BY <1>1
  <2>2. i < j /\ Old[i] = Old[j]
    BY <1>2, <2>1
  <2>3. i = j
    BY <2>2, MemoryConstants DEF IsInjective
  <2> QED
    BY <2>2, <2>3
<1>5. NoTwinSeen
  BY <1>1, IdleTyped DEF NoTwinSeen, At
<1>6. Counted = {} /\ Trimming = {}
  BY <1>1, IdleTyped DEF Counted, Trimming
<1>7. Spared
  BY <1>6 DEF Spared
<1>8. Cardinality(Ids(rows)) = Cap
  <2>1. Ids(rows) = 1..Cap
    BY <1>1, <1>2 DEF Ids
  <2>2. Cardinality(1..Cap) = Cap
    BY <1>1, FS_Interval
  <2> QED
    BY <2>1, <2>2
<1>9. Bounded
  <2>1. Cardinality(Trimming) = 0
    BY <1>6, FS_EmptySet
  <2>2. \A A \in SUBSET Counted : A = {}
    BY <1>6
  <2>3. Cardinality(Ids(rows)) <= Cap + Cardinality(Trimming) + killed
    BY <1>1, <1>8, <2>1
  <2> QED
    BY <2>2, <2>3 DEF Bounded
<1> QED
  BY <1>3, <1>4, <1>5, <1>7, <1>9 DEF MemoryInv

\* The memories' part of the bot's properties.
LEMMA MemoryHolds ==
  ASSUME MemoryInv PROVE MemoryTypeOK /\ TwinsExplained /\ SizeBounded /\ TrimSpares
<1>1. MemoryTyped /\ MemoryCounts /\ TwinsExplained
  BY MemoryNumbers DEF MemoryInv
<1>2. MemoryTypeOK
  <2>1. IsFiniteSet(rows) /\ Ids(rows) \subseteq 1..lastId
    BY <1>1, IdsCount
  <2>2. \A t \in Tasks : m[t].pc \in MemoryPcs
    BY <1>1 DEF MemoryTyped, MemoryCall
  <2> QED
    BY <1>1, <2>1, <2>2 DEF MemoryTypeOK, MemoryTyped, MemoryPcs
<1>3. SizeBounded
  <2>1. Cardinality(rows) = Cardinality(Ids(rows))
    BY <1>1 DEF MemoryCounts
  <2> QED
    BY <2>1 DEF SizeBounded, MemoryInv, Bounded
<1>4. TrimSpares
  <2> SUFFICES ASSUME NEW t \in Tasks, At(t, "trim")
               PROVE  Cardinality({r \in rows : r.id \notin m[t].doomed}) + m[t].gone >= Cap
    BY DEF TrimSpares
  <2>1. Left(t) + m[t].gone >= Cap
    BY DEF MemoryInv, Spared, Counted, At
  <2>2. Left(t) = Cardinality({r \in rows : r.id \notin m[t].doomed})
    BY <1>1, IdsOutside DEF Left
  <2> QED
    BY <2>1, <2>2
<1> QED
  BY <1>1, <1>2, <1>3, <1>4

-----------------------------------------------------------------------------
(* The bot: its tasks, the memories and the conversation together. *)

\* A call of remember is under way only where its task is remembering, a call of
\* push_history or _maybe_summarize only where it is pushing.
Coupled ==
    \A u \in Updates : /\ m[u].pc # "idle" => at[u] = "remember"
                       /\ c[u].pc # "idle" => at[u] = "push"

BInv == PollInv /\ Coupled /\ MemoryInv /\ ContextInv

LEMMA TasksAre == Tasks = Updates /\ Talkers = Updates
BY BotConstants

LEMMA MemoryOthers ==
  ASSUME MemoryInv, NEW t \in Tasks, RememberStep(t) \/ RememberFails(t)
  PROVE  \A s \in Tasks : s # t => m'[s].pc = m[s].pc
<1>1. m \in [Tasks -> MemoryCall]
  BY DEF MemoryInv, MemoryTyped
<1>2. CASE Insert(t) \/ Count(t) \/ Pick(t) \/ RememberFails(t)
  BY <1>1, <1>2 DEF Insert, Count, Pick, RememberFails, Set
<1>3. CASE Prune(t)
  <2>1. {r \in rows : r.stale} \in SUBSET rows
    OBVIOUS
  <2> QED
    BY <1>3, <2>1, DeletedCalls DEF Prune
<1>4. CASE Trim(t)
  <2>1. {r \in rows : r.id \in m[t].doomed} \in SUBSET rows
    OBVIOUS
  <2> QED
    BY <1>4, <2>1, DeletedCalls DEF Trim
<1> QED
  BY <1>2, <1>3, <1>4 DEF RememberStep

LEMMA ContextOthers ==
  ASSUME ContextInv, NEW t \in Talkers, NEW ok \in BOOLEAN,
         \/ PushRead(t, ok) \/ PushWrite(t, ok) \/ SumCheck(t) \/ SumLook(t, ok)
         \/ SumStore(t, ok) \/ SumNothing(t)
  PROVE  \A s \in Talkers : s # t => c'[s].pc = c[s].pc
<1>1. c \in [Talkers -> CallType]
  BY DEF ContextInv, ContextTyped
<1>2. CASE SumLook(t, ok)
  <2> DEFINE read == IF ok THEN history ELSE spare
  <2>1. CASE Len(read) < Limit - 1
    BY <1>1, <1>2, <2>1 DEF SumLook, Goes
  <2>2. CASE ~(Len(read) < Limit - 1)
    <3>1. \A s \in Talkers : s # t =>
             c'[s] = IF Summing(s) THEN [c[s] EXCEPT !.crossed = TRUE] ELSE c[s]
      BY <1>2, <2>2 DEF SumLook
    <3>2. \A s \in Talkers : c[s] \in CallType
      BY <1>1
    <3> QED
      BY <3>1, <3>2 DEF CallType
  <2> QED
    BY <2>1, <2>2
<1>3. CASE PushRead(t, ok) \/ PushWrite(t, ok) \/ SumCheck(t) \/ SumStore(t, ok) \/ SumNothing(t)
  BY <1>1, <1>3 DEF PushRead, PushWrite, SumCheck, SumStore, SumNothing, Goes
<1> QED
  BY <1>2, <1>3

LEMMA BotInit == Init => BInv
<1> SUFFICES ASSUME Init PROVE BInv
  OBVIOUS
<1>1. PollInv /\ MemoryInv /\ ContextInv
  BY PollInitHolds, MemoryInitHolds, ContextInitHolds DEF Init
<1>2. \A u \in Updates : m[u] = Idle /\ c[u] = Silent
  BY TasksAre DEF Init, MemoryInit, ContextInit
<1>3. Coupled
  BY <1>2, IdleTyped, SilentType DEF Coupled
<1> QED
  BY <1>1, <1>3 DEF BInv

\* The steps of the poll loop and of time.
LEMMA LoopKeeps ==
  ASSUME BInv, Send \/ Poll \/ PollFails \/ PollNothing \/ Crash \/ Lapse
               \/ (\E id \in Ids(rows) : Ages(id)) \/ UNCHANGED vars
  PROVE  BInv'
<1>1. PollInv'
  BY LoopPollKeeps DEF BInv, vars
<1>2. CASE Send \/ Poll \/ PollFails \/ PollNothing \/ UNCHANGED vars
  <2>1. UNCHANGED memoryVars /\ UNCHANGED contextVars
    BY <1>2 DEF Send, Poll, PollFails, PollNothing, vars
  <2>2. MemoryInv' /\ ContextInv'
    BY <2>1, MemoryStill, ContextSame DEF BInv
  <2>3. \A u \in Updates : at[u] \in {"remember", "push"} => at'[u] = at[u]
    <3>1. CASE Poll
      <4> SUFFICES ASSUME NEW u \in Updates, at[u] \in {"remember", "push"} PROVE at'[u] = at[u]
        OBVIOUS
      <4>1. u \notin Delivered
        BY PollNumbers DEF BInv, PollInv, Placed, Open
      <4> QED
        BY <3>1, <4>1 DEF Poll
    <3> QED
      BY <1>2, <3>1 DEF Send, PollFails, PollNothing, vars, botVars
  <2>4. Coupled'
    BY <2>1, <2>3 DEF BInv, Coupled, memoryVars, contextVars
  <2> QED
    BY <1>1, <2>2, <2>4 DEF BInv
<1>3. CASE Crash
  <2>1. MemoryInv' /\ ContextInv'
    BY <1>3, MemoryDiesKeeps, ContextDiesKeeps DEF BInv, Crash
  <2>2. \A u \in Updates : m'[u] = Idle /\ c'[u] = Silent
    BY <1>3, TasksAre DEF Crash, MemoryDies, ContextDies
  <2> QED
    BY <1>1, <2>1, <2>2, IdleTyped, SilentType DEF BInv, Coupled
<1>4. CASE Lapse
  BY <1>1, <1>4, MemoryStill, ExpireKeeps DEF BInv, Lapse, Expire, Coupled, memoryVars
<1>5. CASE \E id \in Ids(rows) : Ages(id)
  BY <1>1, <1>5, GrowStaleKeeps, ContextSame
     DEF BInv, Ages, GrowStale, Coupled, contextVars
<1> QED
  BY <1>2, <1>3, <1>4, <1>5

\* The steps of a task that touch the memories.
LEMMA RememberingKeeps ==
  ASSUME BInv, NEW u \in Updates,
         RouteForget(u) \/ RouteRemember(u) \/ RememberWorks(u) \/ RememberFailsAs(u)
         \/ Remembered(u)
  PROVE  BInv'
<1>1. /\ UNCHANGED contextVars /\ ContextInv' /\ u \in Tasks /\ MemoryInv
      /\ m \in [Tasks -> MemoryCall] /\ at \in [Updates -> Places]
  <2>1. UNCHANGED contextVars
    BY DEF RouteForget, RouteRemember, RememberWorks, RememberFailsAs, Remembered
  <2> QED
    BY <2>1, ContextSame, TasksAre DEF BInv, MemoryInv, MemoryTyped, PollInv, PollTyped
<1>2. PollInv'
  <2>1. TaskMoves(u)
    BY TasksMove DEF TaskStep
  <2>2. troubles' \in 0..MaxTroubles
    <3>1. troubles' = troubles \/ Trouble
      BY DEF RouteForget, RouteRemember, RememberWorks, RememberFailsAs, Remembered, botVars
    <3>2. troubles \in 0..MaxTroubles /\ MaxTroubles \in Nat
      BY PollNumbers DEF BInv, PollInv, PollTyped
    <3> QED
      BY <3>1, <3>2 DEF Trouble
  <2> QED
    BY <2>1, <2>2, TaskPollKeeps DEF BInv
<1>3. CASE RouteForget(u)
  <2>1. PICK id \in Ids(rows) \cup {0} : Forget(u, id)
    BY <1>3 DEF RouteForget
  <2>2. At(u, "idle") /\ c[u].pc = "idle" /\ at[u] = "route"
    BY <1>3, TasksAre DEF BInv, Coupled, At, RouteForget, Alone
  <2>3. MemoryInv'
    BY <1>1, <2>1, <2>2, ForgetKeeps
  <2>4. /\ m'[u].pc = "idle" /\ \A s \in Updates : s # u => m'[s].pc = m[s].pc
    <3>1. {r \in rows : r.id = id} \in SUBSET rows
      OBVIOUS
    <3> QED
      BY <1>1, <2>1, <3>1, DeletedCalls, TasksAre DEF Forget
  <2>5. \A s \in Updates : s # u => at'[s] = at[s]
    BY <1>1, <1>3 DEF RouteForget, Alone, Move
  <2>6. Coupled'
    BY <1>1, <2>2, <2>4, <2>5 DEF BInv, Coupled, contextVars
  <2> QED
    BY <1>1, <1>2, <2>3, <2>6 DEF BInv
<1>4. CASE RouteRemember(u)
  <2>1. at[u] = "route" /\ at'[u] = "remember" /\ \A s \in Updates : s # u => at'[s] = at[s]
    BY <1>1, <1>4 DEF RouteRemember, Alone, Move
  <2>2. message[u] \in Messages
    <3>1. ~(u > sent)
      BY <2>1 DEF BInv, PollInv, Placed
    <3>2. u \in 1..Len(message) /\ message \in Seq(Messages)
      BY <3>1, PollNumbers DEF BInv, PollInv, PollTyped
    <3> QED
      BY <3>2
  <2>3. message[u].text \in MTexts /\ message[u].kind \in MKinds
    BY <2>2 DEF MTexts, MKinds
  <2>4. MemoryInv'
    BY <1>1, <1>4, <2>3, RememberKeeps DEF RouteRemember
  <2>5. \A s \in Updates : s # u => m'[s] = m[s]
    BY <1>1, <1>4, TasksAre DEF RouteRemember, Remember
  <2>6. c[u].pc = "idle"
    BY <2>1 DEF BInv, Coupled
  <2>7. Coupled'
    BY <1>1, <2>1, <2>5, <2>6 DEF BInv, Coupled, contextVars
  <2> QED
    BY <1>1, <1>2, <2>4, <2>7 DEF BInv
<1>5. CASE RememberWorks(u) \/ RememberFailsAs(u)
  <2>1. at[u] = "remember" /\ at' = at
    BY <1>5 DEF RememberWorks, RememberFailsAs, botVars
  <2>2. (RememberStep(u) \/ RememberFails(u)) /\ MemoryInv'
    BY <1>1, <1>5, RememberStepKeeps, RememberFailsKeeps DEF RememberWorks, RememberFailsAs
  <2>3. \A s \in Updates : s # u => m'[s].pc = m[s].pc
    BY <1>1, <2>2, MemoryOthers, TasksAre
  <2>4. Coupled'
    BY <1>1, <2>1, <2>3 DEF BInv, Coupled, contextVars
  <2> QED
    BY <1>1, <1>2, <2>2, <2>4 DEF BInv
<1>6. CASE Remembered(u)
  <2>1. MemoryInv'
    BY <1>1, <1>6, RememberedKeeps DEF Remembered
  <2>2. at[u] = "remember" /\ \A s \in Updates : s # u => at'[s] = at[s]
    BY <1>1, <1>6 DEF Remembered, Alone, Move
  <2>3. m'[u] = Idle /\ \A s \in Updates : s # u => m'[s] = m[s]
    BY <1>1, <1>6, TasksAre DEF Remembered
  <2>4. c[u].pc = "idle"
    BY <2>2 DEF BInv, Coupled
  <2>5. Coupled'
    BY <1>1, <2>2, <2>3, <2>4, IdleTyped DEF BInv, Coupled, contextVars
  <2> QED
    BY <1>1, <1>2, <2>1, <2>5 DEF BInv
<1> QED
  BY <1>3, <1>4, <1>5, <1>6

\* The steps of a task that touch the conversation, or nothing shared.
LEMMA TalkingKeeps ==
  ASSUME BInv, NEW u \in Updates,
         RoutePlain(u) \/ Ask(u) \/ Push(u) \/ PushAside(u) \/ PushEnd(u)
  PROVE  BInv'
<1>1. /\ UNCHANGED memoryVars /\ MemoryInv' /\ u \in Talkers /\ ContextInv
      /\ c \in [Talkers -> CallType] /\ at \in [Updates -> Places]
  <2>1. UNCHANGED memoryVars
    BY DEF RoutePlain, Ask, Push, PushAside, PushEnd
  <2> QED
    BY <2>1, MemoryStill, TasksAre DEF BInv, ContextInv, ContextTyped, PollInv, PollTyped
<1>2. PollInv'
  <2>1. TaskMoves(u)
    BY TasksMove DEF TaskStep
  <2>2. troubles' \in 0..MaxTroubles
    <3>1. troubles' = troubles \/ Trouble
      BY DEF RoutePlain, Ask, Push, PushAside, PushEnd, Redis, botVars
    <3>2. troubles \in 0..MaxTroubles /\ MaxTroubles \in Nat
      BY PollNumbers DEF BInv, PollInv, PollTyped
    <3> QED
      BY <3>1, <3>2 DEF Trouble
  <2> QED
    BY <2>1, <2>2, TaskPollKeeps DEF BInv
<1>3. CASE RoutePlain(u) \/ Ask(u)
  <2>1. UNCHANGED contextVars
    BY <1>3 DEF RoutePlain, Ask
  <2>2. at[u] \in {"route", "ask"} /\ \A s \in Updates : s # u => at'[s] = at[s]
    BY <1>1, <1>3 DEF RoutePlain, Ask, Alone, Move
  <2>3. m[u].pc = "idle" /\ c[u].pc = "idle"
    BY <2>2 DEF BInv, Coupled
  <2>4. Coupled'
    BY <1>1, <2>1, <2>2, <2>3 DEF BInv, Coupled, contextVars, memoryVars
  <2> QED
    BY <1>1, <1>2, <2>1, <2>4, ContextSame DEF BInv
<1>4. CASE Push(u) \/ PushAside(u)
  <2>1. at[u] = "push" /\ at' = at
    BY <1>4 DEF Push, PushAside, botVars
  <2>2. PICK ok \in BOOLEAN : \/ PushRead(u, ok) \/ PushWrite(u, ok) \/ SumCheck(u)
                              \/ SumLook(u, ok) \/ SumStore(u, ok) \/ SumNothing(u)
    BY <1>4 DEF Push, PushAside
  <2>3. ContextInv'
    BY <1>1, <2>2, PushReadKeeps, PushWriteKeeps, SumCheckKeeps, SumLookKeeps, SumEndKeeps
  <2>4. \A s \in Updates : s # u => c'[s].pc = c[s].pc
    BY <1>1, <2>2, ContextOthers, TasksAre
  <2>5. Coupled'
    BY <1>1, <2>1, <2>4 DEF BInv, Coupled, memoryVars
  <2> QED
    BY <1>1, <1>2, <2>3, <2>5 DEF BInv
<1>5. CASE PushEnd(u)
  <2>1. ContextInv'
    BY <1>1, <1>5, PushEndKeeps DEF PushEnd
  <2>2. at[u] = "push" /\ \A s \in Updates : s # u => at'[s] = at[s]
    BY <1>1, <1>5 DEF PushEnd, Alone, Move
  <2>3. c'[u] = Silent /\ \A s \in Updates : s # u => c'[s] = c[s]
    BY <1>1, <1>5, TasksAre DEF PushEnd
  <2>4. m[u].pc = "idle"
    BY <2>2 DEF BInv, Coupled
  <2>5. Coupled'
    BY <1>1, <2>2, <2>3, <2>4, SilentType DEF BInv, Coupled, memoryVars
  <2> QED
    BY <1>1, <1>2, <2>1, <2>5 DEF BInv
<1> QED
  BY <1>3, <1>4, <1>5

LEMMA BotStep == BInv /\ [Next]_vars => BInv'
<1> SUFFICES ASSUME BInv, [Next]_vars PROVE BInv'
  OBVIOUS
<1>1. ASSUME NEW u \in Updates, TaskStep(u) \/ RememberFailsAs(u) PROVE BInv'
  BY <1>1, RememberingKeeps, TalkingKeeps DEF TaskStep
<1> QED
  BY <1>1, LoopKeeps DEF Next

\* However many messages there are, whatever tasks overlap, fail or die with their
\* process: the poll loop, the memories and the conversation keep their invariant.
LEMMA BotCorrect == Spec => []BInv
BY BotInit, BotStep, PTL DEF Spec

\* The bot's variables keep their types, an update that is not handed out has no
\* task, and no call of remember or push_history outlives its task.
THEOREM BotTypeCorrect == Spec => []TypeOK
<1>1. BInv => TypeOK
  <2> SUFFICES ASSUME BInv PROVE TypeOK
    OBVIOUS
  <2>1. MemoryTypeOK /\ ContextTypeOK
    BY MemoryHolds, ContextHolds, TasksAre DEF BInv
  <2>2. /\ sent \in 0..NumUpdates /\ Len(message) = sent /\ confirmed \in 1..(sent + 1)
        /\ offset \in 0..(sent + 1) /\ troubles \in 0..MaxTroubles
        /\ \A u \in Updates : at[u] \in Places
        /\ \A u \in Updates : u >= offset => ~Open(u)
    BY DEF BInv, PollInv, PollTyped, Placed
  <2> QED
    BY <2>1, <2>2 DEF TypeOK, BInv, Coupled, Places
<1> QED
  BY <1>1, BotCorrect, PTL

\* What remember keeps, for any number of tasks: every twin is explained by what its
\* writer could see, the table exceeds its cap by no more rows than there are calls
\* still to trim or killed before it, and a trim leaves the cap's newest rows but for
\* those that others deleted since its count.
THEOREM BotMemoryKept == Spec => []MemoryKept
<1>1. BInv => MemoryKept
  BY MemoryHolds DEF BInv, MemoryKept
<1> QED
  BY <1>1, BotCorrect, PTL

\* What push_history and _maybe_summarize keep, for any number of tasks and any
\* length of the list: lists in order, complete if nothing overlapped or failed, and
\* summaries that lose their mark or go back only as crossings and failures explain.
THEOREM BotChatKept == Spec => []ChatKept
<1>1. BInv => ChatKept
  BY ContextHolds, TasksAre DEF BInv
<1> QED
  BY <1>1, BotCorrect, PTL

\* Every step of the poll loop and of its tasks is one of the inbox or leaves every
\* update where it was: updates are taken up in order, each once, and only a crash
\* loses one or has one taken up again.  That each is taken up and closed in the end,
\* the fairness of TheInbox!Spec, is not part of it.
THEOREM BotFollowsInbox == Spec => TheInbox!Init /\ [][TheInbox!Next]_box
<1>1. Init => TheInbox!Init
  <2> SUFFICES ASSUME Init, NEW u \in Updates PROVE Whereabouts(u) = "unsent"
    BY DEF TheInbox!Init, TheInbox!Updates, Updates, box
  <2>1. u > sent
    BY BotConstants DEF Init, Updates
  <2> QED
    BY <2>1 DEF Whereabouts
<1>2. BInv /\ BInv' /\ [Next]_vars => [TheInbox!Next]_box
  <2> SUFFICES ASSUME BInv, BInv', [Next]_vars PROVE TheInbox!Next \/ UNCHANGED box
    OBVIOUS
  <2> USE DEF BInv
  <2>1. CASE Send
    BY <2>1, SendImplements DEF TheInbox!Next, TheInbox!Updates, Updates
  <2>2. CASE Poll
    BY <2>2, PollImplements DEF TheInbox!Next
  <2>3. CASE Crash
    BY <2>3, CrashImplements DEF TheInbox!Next
  <2>4. CASE PollFails \/ PollNothing \/ Lapse \/ (\E id \in Ids(rows) : Ages(id)) \/ UNCHANGED vars
    <3>1. UNCHANGED <<sent, at, offset>> /\ confirmed' \in {confirmed, MaxOf(confirmed, offset)}
      BY <2>4, PollNumbers
         DEF PollFails, PollNothing, Lapse, Ages, vars, botVars, MaxOf, PollInv
    <3>2. MaxOf(confirmed, offset)' = MaxOf(confirmed, offset)
      BY <3>1, PollNumbers DEF MaxOf, PollInv
    <3> QED
      BY <3>1, <3>2, BoxSame
  <2>5. ASSUME NEW u \in Updates, TaskStep(u) \/ RememberFailsAs(u)
        PROVE  TheInbox!Next \/ UNCHANGED box
    <3>1. TheInbox!Close(u) \/ UNCHANGED box
      BY <2>5, TasksMove, TaskImplements
    <3> QED
      BY <3>1 DEF TheInbox!Next, TheInbox!Updates, Updates
  <2> QED
    BY <2>1, <2>2, <2>3, <2>4, <2>5 DEF Next
<1> QED
  BY <1>1, <1>2, BotCorrect, PTL DEF Spec
=============================================================================
