----------------------------- MODULE CronProofs -----------------------------
(* Theorems about Cron, for any ids, tasks, delays and limits.               *)
EXTENDS Cron, SequenceTheorems, FiniteSetTheorems, WellFoundedInduction, TLAPS

-----------------------------------------------------------------------------
(* Induction is replaced by least counterexamples. *)

SmallerPair == {pair \in Nat \X Nat : pair[1] < pair[2]}

\* A nonempty set of naturals has a least element.
LEMMA LeastElement ==
  ASSUME NEW numbers \in SUBSET Nat, numbers # {}
  PROVE  \E least \in numbers : \A n \in numbers : least <= n
<1>1. IsWellFoundedOn(SmallerPair, Nat)
  BY NatLessThanWellFounded DEF OpToRel, SmallerPair
<1>2. PICK x \in numbers : \A y \in numbers : ~ (<<y, x>> \in SmallerPair)
  BY <1>1, WFMin, Zenon
<1>3. \A y \in numbers : ~(y < x)
  BY <1>2 DEF SmallerPair
<1> QED
  BY <1>3

-----------------------------------------------------------------------------
(* The lists of jobs. *)

Distinct(l) == \A a, b \in 1..Len(l) : l[a].id = l[b].id => a = b

\* The function Kept is defined by.
IsUpTo(f, l, S) ==
  f = [n \in 0..Len(l) |-> IF n = 0 THEN <<>>
          ELSE IF l[n] \in S THEN Append(f[n - 1], l[n]) ELSE f[n - 1]]

LEMMA UpToExists ==
  ASSUME NEW T, NEW l \in Seq(T), NEW S
  PROVE  \E f : IsUpTo(f, l, S)
<1> DEFINE Good(m, f) == f = [n \in 0..m |-> IF n = 0 THEN <<>>
                ELSE IF l[n] \in S THEN Append(f[n - 1], l[n]) ELSE f[n - 1]]
           Bad == {m \in 0..Len(l) : ~ \E f : Good(m, f)}
<1>1. CASE Bad = {}
  <2>1. Len(l) \in 0..Len(l)
    OBVIOUS
  <2>2. \E f : Good(Len(l), f)
    BY <1>1, <2>1
  <2> QED
    BY <2>2 DEF IsUpTo
<1>2. CASE Bad # {}
  <2>1. PICK m \in Bad : \A n \in Bad : m <= n
    <3>1. Bad \in SUBSET Nat
      OBVIOUS
    <3> HIDE DEF Bad
    <3> QED
      BY <1>2, <3>1, LeastElement
  <2>2. m \in 0..Len(l) /\ ~ \E f : Good(m, f)
    OBVIOUS
  <2>3. m # 0
    <3> SUFFICES ASSUME m = 0 PROVE FALSE
      OBVIOUS
    <3>1. Good(m, [n \in 0..m |-> <<>>])
      OBVIOUS
    <3>2. \E f : Good(m, f)
      <4> WITNESS [n \in 0..m |-> <<>>]
      <4> QED
        BY <3>1
    <3> HIDE DEF Good
    <3> QED
      BY <3>2, <2>2
  <2>4. m - 1 \in 0..Len(l) /\ m - 1 \notin Bad
    <3>1. m \in Nat /\ m - 1 \in 0..Len(l) /\ ~(m <= m - 1)
      BY <2>2, <2>3
    <3> HIDE DEF Bad
    <3> QED
      BY <2>1, <3>1
  <2>5. PICK f : Good(m - 1, f)
    BY <2>4
  <2> DEFINE g == [n \in 0..m |-> IF n \in 0..(m - 1) THEN f[n]
                     ELSE IF l[m] \in S THEN Append(f[m - 1], l[m]) ELSE f[m - 1]]
             h == [n \in 0..m |-> IF n = 0 THEN <<>>
                     ELSE IF l[n] \in S THEN Append(g[n - 1], l[n]) ELSE g[n - 1]]
  <2>9. \A k \in 0..m : g[k] = IF k \in 0..(m - 1) THEN f[k]
                     ELSE IF l[m] \in S THEN Append(f[m - 1], l[m]) ELSE f[m - 1]
    OBVIOUS
  <2>6. ASSUME NEW n \in 0..m PROVE g[n] = h[n]
    <3>1. CASE n = 0
      <4>1. g[n] = f[0]
        BY <3>1, <2>2, <2>3
      <4>2. f[0] = <<>>
        BY <2>5, <2>2, <2>3
      <4> QED
        BY <4>1, <4>2, <3>1
    <3>2. CASE n \in 1..(m - 1)
      <4> n - 1 \in 0..(m - 1) /\ n - 1 \in 0..m /\ n \in 0..(m - 1) /\ n \in 0..m
        BY <3>2, <2>2
      <4>1. g[n] = f[n] /\ g[n - 1] = f[n - 1]
        BY <2>9
      <4>2. f[n] = IF l[n] \in S THEN Append(f[n - 1], l[n]) ELSE f[n - 1]
        <5>1. \A k \in 0..(m - 1) : f[k] = IF k = 0 THEN <<>>
                  ELSE IF l[k] \in S THEN Append(f[k - 1], l[k]) ELSE f[k - 1]
          BY <2>5, Zenon
        <5> QED
          BY <5>1, <3>2
      <4>3. h[n] = IF l[n] \in S THEN Append(g[n - 1], l[n]) ELSE g[n - 1]
        BY <3>2, <2>2
      <4> QED
        BY <4>1, <4>2, <4>3
    <3>3. CASE n = m
      <4>1. g[m] = IF l[m] \in S THEN Append(f[m - 1], l[m]) ELSE f[m - 1]
        BY <2>2
      <4>2. g[m - 1] = f[m - 1]
        BY <2>2, <2>3
      <4>3. h[m] = IF l[m] \in S THEN Append(g[m - 1], l[m]) ELSE g[m - 1]
        BY <2>2, <2>3
      <4> QED
        BY <4>1, <4>2, <4>3, <3>3
    <3> QED
      BY <3>1, <3>2, <3>3, <2>2
  <2>7. g = h
    BY <2>6
  <2>8. Good(m, g)
    BY <2>7
  <2> QED
    BY <2>8, <2>2
<1> QED
  BY <1>1, <1>2

LEMMA KeptIs ==
  ASSUME NEW T, NEW l \in Seq(T), NEW S
  PROVE  \E f : IsUpTo(f, l, S) /\ Kept(l, S) = f[Len(l)]
<1> DEFINE f == CHOOSE g : IsUpTo(g, l, S)
<1>1. IsUpTo(f, l, S)
  BY UpToExists
<1>2. Kept(l, S) = f[Len(l)]
  BY DEF Kept, IsUpTo
<1> QED
  BY <1>1, <1>2

\* The jobs kept are those of the list that are asked for; no id comes twice.
LEMMA KeptProperties ==
  ASSUME NEW T, NEW l \in Seq(T), NEW S
  PROVE  /\ Kept(l, S) \in Seq(T)
         /\ Elements(Kept(l, S)) = Elements(l) \cap S
         /\ Len(Kept(l, S)) <= Len(l)
         /\ Distinct(l) => Distinct(Kept(l, S))
<1>1. PICK f : IsUpTo(f, l, S) /\ Kept(l, S) = f[Len(l)]
  BY KeptIs
<1> DEFINE Right(m) ==
             /\ f[m] \in Seq(T) /\ Len(f[m]) <= m
             /\ Elements(f[m]) = {l[i] : i \in 1..m} \cap S
             /\ Distinct(l) => Distinct(f[m])
           Bad == {m \in 0..Len(l) : ~ Right(m)}
<1>2. f[0] = <<>>
  <2>1. 0 \in 0..Len(l)
    OBVIOUS
  <2> QED
    BY <1>1, <2>1 DEF IsUpTo
<1>3. \A m \in 1..Len(l) : f[m] = IF l[m] \in S THEN Append(f[m - 1], l[m]) ELSE f[m - 1]
  <2>1. \A m \in 1..Len(l) : m \in 0..Len(l) /\ m # 0
    OBVIOUS
  <2>2. \A m \in 0..Len(l) : f[m] = IF m = 0 THEN <<>>
            ELSE IF l[m] \in S THEN Append(f[m - 1], l[m]) ELSE f[m - 1]
    BY <1>1, Zenon DEF IsUpTo
  <2> QED
    BY <2>1, <2>2
<1>4. Right(0)
  BY <1>2 DEF Elements, Distinct
<1>5. ASSUME NEW m \in 1..Len(l), Right(m - 1) PROVE Right(m)
  <2> DEFINE g == f[m - 1]
  <2>1. /\ g \in Seq(T) /\ Len(g) <= m - 1
        /\ Elements(g) = {l[i] : i \in 1..(m - 1)} \cap S
        /\ Distinct(l) => Distinct(g)
    BY <1>5
  <2>2. {l[i] : i \in 1..m} = {l[i] : i \in 1..(m - 1)} \cup {l[m]}
    <3>1. 1..m = 1..(m - 1) \cup {m}
      OBVIOUS
    <3> QED
      BY <3>1
  <2>3. l[m] \in T
    OBVIOUS
  <2> HIDE DEF g
  <2>4. CASE l[m] \in S
    <3>1. f[m] = Append(g, l[m])
      BY <1>3, <2>4 DEF g
    <3>2. /\ f[m] \in Seq(T) /\ Len(f[m]) = Len(g) + 1
          /\ \A i \in 1..Len(g) : f[m][i] = g[i]
          /\ f[m][Len(g) + 1] = l[m]
      BY <3>1, <2>1, <2>3, AppendProperties
    <3>3. Elements(f[m]) = Elements(g) \cup {l[m]}
      <4>1. Len(g) \in Nat
        BY <2>1
      <4>2. 1..Len(f[m]) = 1..Len(g) \cup {Len(g) + 1}
        BY <3>2, <4>1
      <4>3. \A i \in 1..Len(g) : f[m][i] = g[i]
        BY <3>2
      <4>4. {f[m][i] : i \in 1..Len(f[m])} = {f[m][i] : i \in 1..Len(g)} \cup {f[m][Len(g) + 1]}
        BY <4>2
      <4>5. {f[m][i] : i \in 1..Len(g)} = {g[i] : i \in 1..Len(g)}
        BY <4>3
      <4> QED
        BY <4>4, <4>5, <3>2 DEF Elements
    <3>4. Elements(f[m]) = {l[i] : i \in 1..m} \cap S
      BY <3>3, <2>1, <2>2, <2>4
    <3>5. ASSUME Distinct(l) PROVE Distinct(f[m])
      <4>1. ASSUME NEW a \in 1..Len(g) PROVE f[m][a].id # l[m].id
        <5>1. g[a] \in {l[i] : i \in 1..(m - 1)}
          BY <2>1 DEF Elements
        <5>2. PICK i \in 1..(m - 1) : g[a] = l[i]
          BY <5>1
        <5>3. i \in 1..Len(l) /\ i # m
          OBVIOUS
        <5> QED
          BY <5>2, <5>3, <3>2, <3>5 DEF Distinct
      <4>2. \A a, b \in 1..Len(g) : f[m][a].id = f[m][b].id => a = b
        BY <3>2, <3>5, <2>1 DEF Distinct
      <4>3. \A a \in 1..Len(f[m]) : a \in 1..Len(g) \/ a = Len(g) + 1
        BY <3>2, <2>1
      <4> QED
        BY <4>1, <4>2, <4>3, <3>2 DEF Distinct
    <3> QED
      BY <3>2, <3>4, <3>5, <2>1
  <2>5. CASE l[m] \notin S
    <3>1. f[m] = g
      BY <1>3, <2>5 DEF g
    <3>2. {l[i] : i \in 1..m} \cap S = {l[i] : i \in 1..(m - 1)} \cap S
      BY <2>2, <2>5
    <3>3. Len(g) <= m
      BY <2>1
    <3> QED
      BY <3>1, <3>2, <3>3, <2>1
  <2> QED
    BY <2>4, <2>5
<1> HIDE DEF Right
<1>6. Bad = {}
  <2> SUFFICES ASSUME Bad # {} PROVE FALSE
    OBVIOUS
  <2>1. Bad \in SUBSET Nat
    OBVIOUS
  <2>2. PICK m \in Bad : \A n \in Bad : m <= n
    <3> HIDE DEF Bad
    <3> QED
      BY <2>1, LeastElement
  <2>3. m \in 1..Len(l)
    BY <1>4
  <2>4. m - 1 \in 0..Len(l) /\ m - 1 \notin Bad
    BY <2>2, <2>3
  <2>5. Right(m - 1)
    BY <2>4
  <2> QED
    BY <2>3, <2>5, <1>5
<1>7. Right(Len(l))
  <2>1. Len(l) \in 0..Len(l)
    OBVIOUS
  <2> QED
    BY <2>1, <1>6
<1> QED
  BY <1>1, <1>7 DEF Right, Elements

\* A list without a double holds as many jobs, and as many ids, as its length.
LEMMA Counting ==
  ASSUME NEW l \in Seq(Jobs), Distinct(l)
  PROVE  /\ IsFiniteSet(Elements(l)) /\ Cardinality(Elements(l)) = Len(l)
         /\ IsFiniteSet(IdsOf(l)) /\ Cardinality(IdsOf(l)) = Len(l)
<1>1. /\ IsFiniteSet(1..Len(l)) /\ Cardinality(1..Len(l)) = Len(l)
  <2>1. Len(l) \in Nat /\ 1 \in Int
    OBVIOUS
  <2> QED
    BY <2>1, FS_Interval
<1>2. ExistsBijection(1..Len(l), Elements(l))
  <2> DEFINE f == [i \in 1..Len(l) |-> l[i]]
  <2>1. f \in Bijection(1..Len(l), Elements(l))
    <3>1. \A a, b \in 1..Len(l) : l[a] = l[b] => a = b
      BY DEF Distinct
    <3>2. f \in [1..Len(l) -> Elements(l)] /\ IsInjective(f)
      BY <3>1 DEF Elements, IsInjective
    <3>3. \A e \in Elements(l) : \E i \in 1..Len(l) : f[i] = e
      BY DEF Elements
    <3> QED
      BY <3>2, <3>3 DEF Bijection, Injection, Surjection
  <2> QED
    BY <2>1 DEF ExistsBijection
<1>3. ExistsBijection(1..Len(l), IdsOf(l))
  <2> DEFINE f == [i \in 1..Len(l) |-> l[i].id]
  <2>1. f \in Bijection(1..Len(l), IdsOf(l))
    <3>2. f \in [1..Len(l) -> IdsOf(l)] /\ IsInjective(f)
      BY DEF Elements, IdsOf, IsInjective, Distinct
    <3>3. \A e \in IdsOf(l) : \E i \in 1..Len(l) : f[i] = e
      BY DEF Elements, IdsOf
    <3> QED
      BY <3>2, <3>3 DEF Bijection, Injection, Surjection
  <2> QED
    BY <2>1 DEF ExistsBijection
<1> QED
  BY <1>1, <1>2, <1>3, FS_Bijection

LEMMA AppendElements ==
  ASSUME NEW l \in Seq(Jobs), NEW j \in Jobs
  PROVE  /\ Append(l, j) \in Seq(Jobs) /\ Len(Append(l, j)) = Len(l) + 1
         /\ Elements(Append(l, j)) = Elements(l) \cup {j}
         /\ Distinct(l) /\ j.id \notin IdsOf(l) => Distinct(Append(l, j))
<1> DEFINE m == Append(l, j)
           n == Len(l)
<1>1. /\ n \in Nat /\ m \in Seq(Jobs) /\ Len(m) = n + 1
      /\ \A i \in 1..n : m[i] = l[i]
      /\ m[n + 1] = j
  BY AppendProperties
<1> HIDE DEF m
<1>2. 1..Len(m) = 1..n \cup {n + 1}
  BY <1>1
<1>3. Elements(m) = Elements(l) \cup {j}
  <2>1. {m[i] : i \in 1..Len(m)} = {m[i] : i \in 1..n} \cup {m[n + 1]}
    BY <1>2
  <2>2. {m[i] : i \in 1..n} = {l[i] : i \in 1..n}
    BY <1>1
  <2> QED
    BY <2>1, <2>2, <1>1 DEF Elements
<1>4. ASSUME Distinct(l), j.id \notin IdsOf(l) PROVE Distinct(m)
  <2>1. \A i \in 1..n : m[i].id # j.id
    BY <1>1, <1>4 DEF IdsOf, Elements
  <2>2. \A a, b \in 1..n : m[a].id = m[b].id => a = b
    BY <1>1, <1>4 DEF Distinct
  <2>3. \A a \in 1..Len(m) : a \in 1..n \/ a = n + 1
    BY <1>2
  <2> QED
    BY <2>1, <2>2, <2>3, <1>1 DEF Distinct
<1> QED
  BY <1>1, <1>3, <1>4 DEF m

LEMMA ReplacedElements ==
  ASSUME NEW l \in Seq(Jobs), Distinct(l), NEW k \in Jobs, k.id \in IdsOf(l)
  PROVE  /\ Replaced(l, k) \in Seq(Jobs) /\ Len(Replaced(l, k)) = Len(l)
         /\ Distinct(Replaced(l, k))
         /\ Elements(Replaced(l, k)) = {j \in Elements(l) : j.id # k.id} \cup {k}
<1> DEFINE m == Replaced(l, k)
           n == Len(l)
<1>1. n \in Nat /\ m = [i \in 1..n |-> IF l[i].id = k.id THEN k ELSE l[i]]
  BY DEF Replaced
<1>2. \A i \in 1..n : l[i] \in Jobs
  OBVIOUS
<1> HIDE DEF m
<1>3. \A i \in 1..n : m[i] \in Jobs /\ m[i] = IF l[i].id = k.id THEN k ELSE l[i]
  BY <1>1, <1>2
<1>4. m \in Seq(Jobs) /\ Len(m) = n
  BY <1>1, <1>2, <1>3
<1>5. Distinct(m)
  BY <1>3, <1>4 DEF Distinct
<1>6. PICK i \in 1..n : l[i].id = k.id
  BY DEF IdsOf, Elements
<1>7. Elements(m) = {j \in Elements(l) : j.id # k.id} \cup {k}
  <2>1. ASSUME NEW j \in Elements(m) PROVE j \in {h \in Elements(l) : h.id # k.id} \cup {k}
    BY <1>3, <1>4 DEF Elements
  <2>2. k \in Elements(m)
    BY <1>3, <1>4, <1>6 DEF Elements
  <2>3. ASSUME NEW j \in Elements(l), j.id # k.id PROVE j \in Elements(m)
    BY <2>3, <1>3, <1>4 DEF Elements
  <2> QED
    BY <2>1, <2>2, <2>3
<1> QED
  BY <1>4, <1>5, <1>7 DEF m

LEMMA TailElements ==
  ASSUME NEW l \in Seq(Jobs), Distinct(l), l # <<>>
  PROVE  /\ l[1] \in Elements(l)
         /\ Tail(l) \in Seq(Jobs) /\ Len(Tail(l)) = Len(l) - 1 /\ Distinct(Tail(l))
         /\ Elements(Tail(l)) = Elements(l) \ {l[1]}
<1> DEFINE m == Tail(l)
           n == Len(l)
<1>1. /\ n \in Nat /\ n >= 1 /\ m \in Seq(Jobs) /\ Len(m) = n - 1
      /\ \A i \in 1..Len(m) : m[i] = l[i + 1]
  BY HeadTailProperties
<1> HIDE DEF m
<1>2. l[1] \in Elements(l)
  BY <1>1 DEF Elements
<1>3. \A i \in 1..Len(m) : i + 1 \in 1..n /\ i + 1 # 1
  BY <1>1
<1>4. Distinct(m)
  <2> SUFFICES ASSUME NEW a \in 1..Len(m), NEW b \in 1..Len(m), m[a].id = m[b].id
               PROVE  a = b
    BY DEF Distinct
  <2>1. a + 1 = b + 1
    BY <1>1, <1>3 DEF Distinct
  <2> QED
    BY <2>1
<1>5. Elements(m) = Elements(l) \ {l[1]}
  <2>1. ASSUME NEW i \in 1..Len(m) PROVE m[i] \in Elements(l) \ {l[1]}
    <3>1. l[i + 1] \in Elements(l)
      BY <1>3 DEF Elements
    <3>2. l[i + 1] # l[1]
      BY <1>1, <1>3 DEF Distinct
    <3> QED
      BY <3>1, <3>2, <1>1
  <2>2. ASSUME NEW i \in 1..n, l[i] # l[1] PROVE l[i] \in Elements(m)
    <3>1. i - 1 \in 1..Len(m) /\ (i - 1) + 1 = i
      BY <2>2, <1>1
    <3>2. m[i - 1] = l[i]
      BY <3>1, <1>1
    <3> QED
      BY <3>1, <3>2 DEF Elements
  <2> QED
    BY <2>1, <2>2 DEF Elements
<1> QED
  BY <1>1, <1>2, <1>4, <1>5 DEF m

\* In a list without a double, a job is known by its id.
LEMMA SameJob ==
  ASSUME NEW l \in Seq(Jobs), Distinct(l), NEW j \in Elements(l), NEW k \in Elements(l),
         j.id = k.id
  PROVE  j = k
BY DEF Elements, Distinct

\* A list whose ids are all in another one is no longer than that.
LEMMA Shorter ==
  ASSUME NEW l \in Seq(Jobs), Distinct(l), NEW m \in Seq(Jobs), Distinct(m),
         IdsOf(l) \subseteq IdsOf(m)
  PROVE  Len(l) <= Len(m)
<1>1. /\ Cardinality(IdsOf(l)) = Len(l) /\ Cardinality(IdsOf(m)) = Len(m)
      /\ IsFiniteSet(IdsOf(m))
  BY Counting
<1> QED
  BY <1>1, FS_Subset

LEMMA JobsOfList ==
  ASSUME NEW l \in Seq(Jobs)
  PROVE  Elements(l) \subseteq Jobs /\ IdsOf(l) \subseteq Ids
<1>1. \A j \in Elements(l) : j \in Jobs
  BY DEF Elements
<1>2. \A j \in Jobs : j.id \in Ids
  BY DEF Jobs
<1> QED
  BY <1>1, <1>2 DEF IdsOf

LEMMA EmptyList ==
  /\ <<>> \in Seq(Jobs) /\ Distinct(<<>>) /\ Len(<<>>) = 0
  /\ Elements(<<>>) = {} /\ IdsOf(<<>>) = {}
<1>1. Len(<<>>) = 0 /\ 1..0 = {}
  OBVIOUS
<1>2. Elements(<<>>) = {}
  BY <1>1 DEF Elements
<1> QED
  BY <1>1, <1>2 DEF IdsOf, Distinct

LEMMA TruncatedKeepsAll ==
  ASSUME NEW l \in Seq(Jobs), Len(l) <= MaxJobs
  PROVE  Truncated(l) = l
<1>1. Truncated(l) = SubSeq(l, 1, Len(l))
  BY CronAssumption DEF Truncated
<1> QED
  BY <1>1, SubSeqFull

-----------------------------------------------------------------------------
(* The inductive invariant.                                                  *)

IsList(l) ==
  l \in Seq(Jobs) /\ Distinct(l) /\ Len(l) <= MaxJobs /\ IdsOf(l) \subseteq used

TaskType == [pc : {"idle", "check", "save"}, op : {"none", "add", "edit", "cancel"},
             id : Ids \cup {"none"}, out : Seq(Jobs), fresh : BOOLEAN]
LoopType == [pc : {"idle", "send"}, due : Seq(Jobs), basis : Seq(Jobs),
             out : Seq(Jobs), fresh : BOOLEAN]
Schedules == [next : 0..Horizon, repeat : Repeats]

Typed ==
  /\ IsList(store)
  /\ task \in [Tasks -> TaskType] /\ \A t \in Tasks : IsList(task[t].out)
  /\ loop \in LoopType /\ IsList(loop.due) /\ IsList(loop.basis) /\ IsList(loop.out)
  /\ now \in 0..MaxTime /\ crashes \in Nat /\ badSaves \in Nat /\ stale \in BOOLEAN
  /\ used \subseteq Ids /\ added \subseteq used /\ cancelled \subseteq used
  /\ done \subseteq used
  /\ given \in [Ids -> SUBSET Schedules]
  /\ sent \in [Ids \X (0..MaxTime) -> Nat]

\* A job that is not stored yet has an id that nobody else knows.
OnlyIn(t, id) ==
  /\ id \notin IdsOf(store) \cup added \cup cancelled \cup done \cup IdsOf(loop.basis)
  /\ \A s \in Tasks \ {t} : id \notin IdsOf(task[s].out)
Requests ==
  \A t \in Tasks :
    /\ task[t].pc # "idle" => task[t].op # "none" /\ task[t].id \in used
    /\ task[t].op \in {"edit", "cancel"} => task[t].id \in added
    /\ task[t].op = "add" =>
          task[t].id \in IdsOf(task[t].out) /\ OnlyIn(t, task[t].id)

\* What the loop holds is the list it read, where some jobs that are due are taken
\* out, and moved on if they recur.
Fired(F) == {NextAfter(j) : j \in {k \in F : k.repeat # "once"}}
IsPass(F) ==
  /\ Elements(loop.due) \subseteq Elements(loop.basis) \ F
  /\ \A j \in F \cup Elements(loop.due) : j.next <= now
  /\ Elements(loop.out) = (Elements(loop.basis) \ (F \cup Elements(loop.due))) \cup Fired(F)
Pass == \E F \in SUBSET Elements(loop.basis) : IsPass(F)

\* The list a task is about to write differs from the one it read in its own
\* job, and the loop read what is stored, as long as nobody overtook them.
IsAdded(l, id) ==
  Len(store) < MaxJobs /\ \E j \in Jobs : j.id = id /\ Elements(l) = Elements(store) \cup {j}
IsWithout(l, id) == Elements(l) = {j \in Elements(store) : j.id # id}
IsEdited(l, id) ==
  \/ Elements(l) = Elements(store)
  \/ \E k \in Jobs :
        /\ k.id = id /\ k.next > 0 /\ id \in IdsOf(store)
        /\ Elements(l) = {j \in Elements(store) : j.id # id} \cup {k}
IsChange(r) ==
  /\ r.op = "add" => IsAdded(r.out, r.id)
  /\ r.op = "cancel" => IsWithout(r.out, r.id)
  /\ r.op = "edit" => IsEdited(r.out, r.id)
Changes == ~stale =>
  /\ loop.fresh => loop.basis = store
  /\ \A t \in Tasks : task[t].fresh => IsChange(task[t])

\* What was sent lies in the past; before the first stale write, the occurrences that
\* the lists hold were sent only by passes that a crash or a failed save undid.
Undone == crashes + badSaves
Ahead(l) == \A j \in Elements(l), e \in 0..MaxTime : e >= j.next => sent[<<j.id, e>>] <= Undone
SentOnce ==
  /\ \A o \in Ids \X (0..MaxTime) : sent[o] <= Undone + 1
  /\ loop.pc = "idle" =>
        Ahead(store) /\ \A t \in Tasks : task[t].fresh => Ahead(task[t].out)
  /\ loop.pc = "send" => Ahead(loop.due) /\ Ahead(loop.out)
Sends ==
  /\ \A i \in Ids, e \in 0..MaxTime : sent[<<i, e>>] > 0 => e <= now
  /\ ~stale => SentOnce

\* Every job is in phase with a schedule given, but for the one a task is writing.
InPhase(j) == \E s \in given[j.id] :
  /\ s.repeat = j.repeat
  /\ s.next <= j.next
  /\ j.next = s.next \/ (j.next - s.next) % (IF s.repeat = "daily" THEN Day ELSE 7 * Day) = 0
Phases ==
  /\ \A j \in Elements(store) \cup Elements(loop.due) \cup Elements(loop.out) : InPhase(j)
  /\ \A t \in Tasks : \A j \in Elements(task[t].out) : j.id = task[t].id \/ InPhase(j)

CronInv == Typed /\ Requests /\ Pass /\ Changes /\ BookKept /\ Sends /\ Phases
-----------------------------------------------------------------------------
(* What the actions do, as far as the invariant tells. *)

\* The task t has read the list, and holds r.
IsStarted(t, r) ==
  /\ task' = [task EXCEPT ![t] = r]
  /\ r \in TaskType /\ r.pc # "idle" /\ r.op # "none" /\ r.id \in used'
  /\ Distinct(r.out) /\ Len(r.out) <= MaxJobs /\ IdsOf(r.out) \subseteq used'
  /\ r.op \in {"edit", "cancel"} => r.id \in added /\ IdsOf(r.out) \subseteq IdsOf(store)
  /\ r.op = "add" =>
        r.id \notin used /\ r.id \in IdsOf(r.out) /\ IdsOf(r.out) \subseteq IdsOf(store) \cup {r.id}
  /\ \A j \in Elements(r.out) : j \in Elements(store) \/ (j.id = r.id /\ j.next > now)
  /\ r.fresh => IsChange(r)

LEMMA ReadList ==
  ASSUME Typed, NEW l \in {store, <<>>}
  PROVE  /\ IsList(l) /\ Elements(l) \subseteq Elements(store)
         /\ IdsOf(l) \subseteq IdsOf(store)
<1>1. IsList(store)
  BY DEF Typed
<1>2. IsList(<<>>)
  BY EmptyList, CronAssumption DEF IsList
<1> QED
  BY <1>1, <1>2, EmptyList

\* A request's time is ahead, and no further than a week.
LEMMA NewJob ==
  ASSUME Typed, NEW id \in Ids, NEW delay \in Delays, NEW repeat \in Repeats
  PROVE  /\ [id |-> id, next |-> now + delay, repeat |-> repeat] \in Jobs
         /\ now + delay > now /\ now + delay > 0
<1>1. /\ now \in Nat /\ now <= MaxTime /\ MaxTime \in Nat /\ Day \in Nat
      /\ delay \in Nat /\ 1 <= delay /\ delay <= 7 * Day
  BY CronAssumption DEF Typed
<1>2. now + delay \in 0..Horizon
  BY <1>1 DEF Horizon
<1> QED
  BY <1>1, <1>2 DEF Jobs

LEMMA AddEffect ==
  ASSUME Typed, NEW t \in Tasks, AddRead(t)
  PROVE  /\ UNCHANGED <<store, loop, now, crashes, histVars>>
         /\ used \subseteq used' /\ used' \subseteq Ids
         /\ UNCHANGED task \/ \E r : IsStarted(t, r)
<1>1. UNCHANGED <<store, loop, now, crashes, histVars>> /\ used' = used \cup {NewId}
  BY DEF AddRead, Begin
<1>2. NewId \in Ids /\ NewId \notin used
  <2>1. \E id \in Ids : id \notin used
    BY DEF AddRead, Typed
  <2> QED
    BY <2>1 DEF NewId
<1>3. used \subseteq used' /\ used' \subseteq Ids
  BY <1>1, <1>2 DEF Typed
<1> DEFINE id == NewId
<1>4. PICK l \in {store, <<>>}, delay \in Delays, repeat \in Repeats :
        IF Full(l) THEN UNCHANGED task
        ELSE Hold(t, "save", "add", id, l,
                  Append(l, [id |-> id, next |-> now + delay, repeat |-> repeat]))
  BY DEF AddRead
<1> HIDE DEF id
<1>5. CASE Full(l)
  BY <1>1, <1>3, <1>4, <1>5
<1>6. CASE ~Full(l)
  <2> DEFINE j == [id |-> id, next |-> now + delay, repeat |-> repeat]
             out == Append(l, j)
             r == [pc |-> "save", op |-> "add", id |-> id, out |-> out, fresh |-> l = store]
  <2>1. j \in Jobs /\ j.id = id /\ j.next > now
    BY <1>2, NewJob DEF id
  <2>2. task' = [task EXCEPT ![t] = r]
    BY <1>4, <1>6 DEF Hold
  <2>3. /\ r.pc = "save" /\ r.op = "add" /\ r.id = id /\ r.out = out
        /\ r.fresh = (l = store)
    OBVIOUS
  <2>4. /\ l \in Seq(Jobs) /\ Distinct(l) /\ IdsOf(l) \subseteq used
        /\ Elements(l) \subseteq Elements(store) /\ IdsOf(l) \subseteq IdsOf(store)
    BY ReadList DEF IsList
  <2>5. Len(l) < MaxJobs
    BY <1>6, <2>4, CronAssumption DEF Full
  <2> HIDE DEF j
  <2>6. /\ out \in Seq(Jobs) /\ Len(out) = Len(l) + 1
        /\ Elements(out) = Elements(l) \cup {j} /\ Distinct(out)
    BY <2>1, <2>4, <1>2, AppendElements DEF id
  <2>7. r \in TaskType
    <3>1. id \in Ids
      BY <1>2 DEF id
    <3> HIDE DEF out
    <3> QED
      BY <2>6, <3>1 DEF TaskType
  <2> HIDE DEF out, r
  <2>8. IdsOf(out) = IdsOf(l) \cup {id} /\ Len(out) <= MaxJobs
    BY <2>1, <2>4, <2>5, <2>6, CronAssumption DEF IdsOf
  <2>9. r.fresh => IsChange(r)
    BY <2>1, <2>3, <2>5, <2>6 DEF IsChange, IsAdded
  <2>10. IsStarted(t, r)
    BY <2>1, <2>2, <2>3, <2>4, <2>6, <2>7, <2>8, <2>9, <1>1, <1>2 DEF IsStarted, id
  <2> QED
    BY <2>10, <1>1, <1>3
<1> QED
  BY <1>5, <1>6

LEMMA EditEffect ==
  ASSUME Typed, NEW t \in Tasks, EditRead(t)
  PROVE  /\ UNCHANGED <<store, loop, now, crashes, histVars>>
         /\ used \subseteq used' /\ used' \subseteq Ids
         /\ UNCHANGED task \/ \E r : IsStarted(t, r)
<1>1. UNCHANGED <<store, loop, now, crashes, histVars>> /\ used' = used
  BY DEF EditRead, Begin
<1>2. used \subseteq used' /\ used' \subseteq Ids
  BY <1>1 DEF Typed
<1>3. PICK l \in {store, <<>>}, id \in added :
        IF id \notin IdsOf(l) THEN UNCHANGED task
        ELSE \/ Hold(t, "save", "edit", id, l, l)
             \/ \E delay \in Delays, repeat \in Repeats :
                   Hold(t, "save", "edit", id, l, Replaced(l,
                      [id |-> id, next |-> now + delay, repeat |-> repeat]))
  BY DEF EditRead
<1>4. /\ l \in Seq(Jobs) /\ Distinct(l) /\ IdsOf(l) \subseteq used /\ Len(l) <= MaxJobs
      /\ Elements(l) \subseteq Elements(store) /\ IdsOf(l) \subseteq IdsOf(store)
  BY ReadList DEF IsList
<1>5. id \in Ids /\ id \in used
  BY DEF Typed
<1>6. ASSUME NEW out \in Seq(Jobs), Hold(t, "save", "edit", id, l, out), id \in IdsOf(l),
             Distinct(out), Len(out) = Len(l), IdsOf(out) = IdsOf(l),
             \A j \in Elements(out) : j \in Elements(store) \/ (j.id = id /\ j.next > now),
             l = store => IsEdited(out, id)
      PROVE  \E r : IsStarted(t, r)
  <2> DEFINE r == [pc |-> "save", op |-> "edit", id |-> id, out |-> out, fresh |-> l = store]
  <2>1. task' = [task EXCEPT ![t] = r]
    BY <1>6 DEF Hold
  <2>2. /\ r.pc = "save" /\ r.op = "edit" /\ r.id = id /\ r.out = out
        /\ r.fresh = (l = store)
    OBVIOUS
  <2>3. r \in TaskType
    BY <1>5 DEF TaskType
  <2> HIDE DEF r
  <2>4. r.fresh => IsChange(r)
    BY <2>2, <1>6 DEF IsChange
  <2> QED
    BY <2>1, <2>2, <2>3, <2>4, <1>1, <1>4, <1>5, <1>6 DEF IsStarted
<1>7. ASSUME id \in IdsOf(l), Hold(t, "save", "edit", id, l, l)
      PROVE  \E r : IsStarted(t, r)
  <2>1. l = store => IsEdited(l, id)
    BY DEF IsEdited
  <2> QED
    BY <2>1, <1>4, <1>6, <1>7
<1>8. ASSUME id \in IdsOf(l), NEW delay \in Delays, NEW repeat \in Repeats,
             Hold(t, "save", "edit", id, l, Replaced(l,
                      [id |-> id, next |-> now + delay, repeat |-> repeat]))
      PROVE  \E r : IsStarted(t, r)
  <2> DEFINE k == [id |-> id, next |-> now + delay, repeat |-> repeat]
             out == Replaced(l, k)
  <2>1. k \in Jobs /\ k.id = id /\ k.next > now /\ k.next > 0
    BY <1>5, NewJob
  <2> HIDE DEF k
  <2>2. /\ out \in Seq(Jobs) /\ Len(out) = Len(l) /\ Distinct(out)
        /\ Elements(out) = {j \in Elements(l) : j.id # id} \cup {k}
    BY <2>1, <1>4, <1>8, ReplacedElements
  <2> HIDE DEF out
  <2>3. IdsOf(out) = IdsOf(l)
    BY <2>1, <2>2, <1>8 DEF IdsOf
  <2>4. \A j \in Elements(out) : j \in Elements(store) \/ (j.id = id /\ j.next > now)
    BY <2>1, <2>2, <1>4
  <2>5. l = store => IsEdited(out, id)
    BY <2>1, <2>2, <1>8 DEF IsEdited
  <2>6. Hold(t, "save", "edit", id, l, out)
    BY <1>8 DEF out, k
  <2> QED
    BY <2>2, <2>3, <2>4, <2>5, <2>6, <1>6, <1>8
<1> QED
  BY <1>1, <1>2, <1>3, <1>7, <1>8

LEMMA CancelEffect ==
  ASSUME Typed, NEW t \in Tasks, CancelRead(t)
  PROVE  /\ UNCHANGED <<store, loop, now, crashes, histVars>>
         /\ used \subseteq used' /\ used' \subseteq Ids
         /\ UNCHANGED task \/ \E r : IsStarted(t, r)
<1>1. UNCHANGED <<store, loop, now, crashes, histVars>> /\ used' = used
  BY DEF CancelRead, Begin
<1>2. used \subseteq used' /\ used' \subseteq Ids
  BY <1>1 DEF Typed
<1>3. PICK l \in {store, <<>>}, id \in added :
        Hold(t, "check", "cancel", id, l, Without(l, id))
  BY DEF CancelRead
<1>4. /\ l \in Seq(Jobs) /\ Distinct(l) /\ IdsOf(l) \subseteq used /\ Len(l) <= MaxJobs
      /\ Elements(l) \subseteq Elements(store) /\ IdsOf(l) \subseteq IdsOf(store)
  BY ReadList DEF IsList
<1>5. id \in Ids /\ id \in used
  BY DEF Typed
<1> DEFINE out == Without(l, id)
           r == [pc |-> "check", op |-> "cancel", id |-> id, out |-> out, fresh |-> l = store]
<1>6. /\ out \in Seq(Jobs) /\ Len(out) <= Len(l) /\ Distinct(out)
      /\ Elements(out) = {j \in Elements(l) : j.id # id}
  <2>1. Elements(l) \cap {j \in Elements(l) : j.id # id} = {j \in Elements(l) : j.id # id}
    OBVIOUS
  <2> QED
    BY <2>1, <1>4, KeptProperties DEF Without
<1>7. task' = [task EXCEPT ![t] = r]
  BY <1>3 DEF Hold
<1> HIDE DEF out
<1>8. /\ r.pc = "check" /\ r.op = "cancel" /\ r.id = id /\ r.out = out
      /\ r.fresh = (l = store)
  OBVIOUS
<1>9. r \in TaskType
  BY <1>5, <1>6 DEF TaskType
<1> HIDE DEF r
<1>10. IdsOf(out) \subseteq IdsOf(l) /\ Len(out) <= MaxJobs
  BY <1>4, <1>6, CronAssumption DEF IdsOf
<1>11. r.fresh => IsChange(r)
  BY <1>6, <1>8 DEF IsChange, IsWithout
<1>12. IsStarted(t, r)
  BY <1>1, <1>4, <1>5, <1>6, <1>7, <1>8, <1>9, <1>10, <1>11 DEF IsStarted
<1> QED
  BY <1>1, <1>2, <1>12

LEMMA HandleEffect ==
  ASSUME Typed, NEW t \in Tasks, Handle(t)
  PROVE  /\ UNCHANGED <<store, loop, now, crashes, histVars>>
         /\ used \subseteq used' /\ used' \subseteq Ids
         /\ UNCHANGED task \/ \E r : IsStarted(t, r)
BY AddEffect, EditEffect, CancelEffect DEF Handle

LEMMA Records ==
  /\ IdleTask \in TaskType /\ IdleTask.pc = "idle" /\ IdleTask.op = "none"
  /\ IdleTask.out = <<>> /\ ~IdleTask.fresh
  /\ IdleLoop \in LoopType /\ IdleLoop.pc = "idle" /\ ~IdleLoop.fresh
  /\ IdleLoop.due = <<>> /\ IdleLoop.basis = <<>> /\ IdleLoop.out = <<>>
  /\ \A x \in TaskType : /\ Overtaken(x) \in TaskType /\ ~Overtaken(x).fresh
                         /\ Overtaken(x).pc = x.pc /\ Overtaken(x).op = x.op
                         /\ Overtaken(x).id = x.id /\ Overtaken(x).out = x.out
  /\ \A x \in LoopType : /\ Overtaken(x) \in LoopType /\ ~Overtaken(x).fresh
                         /\ Overtaken(x).pc = x.pc /\ Overtaken(x).due = x.due
                         /\ Overtaken(x).basis = x.basis /\ Overtaken(x).out = x.out
<1>1. <<>> \in Seq(Jobs)
  OBVIOUS
<1>2. IdleTask \in TaskType /\ IdleLoop \in LoopType
  BY <1>1 DEF IdleTask, TaskType, IdleLoop, LoopType
<1>3. /\ IdleTask.pc = "idle" /\ IdleTask.op = "none" /\ IdleTask.out = <<>> /\ ~IdleTask.fresh
      /\ IdleLoop.pc = "idle" /\ ~IdleLoop.fresh
      /\ IdleLoop.due = <<>> /\ IdleLoop.basis = <<>> /\ IdleLoop.out = <<>>
  BY DEF IdleTask, IdleLoop
<1>4. \A x \in TaskType : /\ Overtaken(x) \in TaskType /\ ~Overtaken(x).fresh
                          /\ Overtaken(x).pc = x.pc /\ Overtaken(x).op = x.op
                          /\ Overtaken(x).id = x.id /\ Overtaken(x).out = x.out
  BY DEF Overtaken, TaskType
<1>5. \A x \in LoopType : /\ Overtaken(x) \in LoopType /\ ~Overtaken(x).fresh
                          /\ Overtaken(x).pc = x.pc /\ Overtaken(x).due = x.due
                          /\ Overtaken(x).basis = x.basis /\ Overtaken(x).out = x.out
  <2> SUFFICES ASSUME NEW x \in LoopType
               PROVE  /\ Overtaken(x) \in LoopType /\ ~Overtaken(x).fresh
                      /\ Overtaken(x).pc = x.pc /\ Overtaken(x).due = x.due
                      /\ Overtaken(x).basis = x.basis /\ Overtaken(x).out = x.out
    OBVIOUS
  <2>1. Overtaken(x) \in LoopType
    BY DEF Overtaken, LoopType
  <2>2. ~Overtaken(x).fresh
    BY DEF Overtaken, LoopType
  <2>3. Overtaken(x).pc = x.pc /\ Overtaken(x).due = x.due
    BY DEF Overtaken, LoopType
  <2>4. Overtaken(x).basis = x.basis /\ Overtaken(x).out = x.out
    BY DEF Overtaken, LoopType
  <2> QED
    BY <2>1, <2>2, <2>3, <2>4
<1> QED
  BY <1>2, <1>3, <1>4, <1>5

\* The pass that has just read the list.
LEMMA FireReadEffect ==
  ASSUME Typed, FireRead
  PROVE  /\ UNCHANGED <<store, task, now, used, boundVars, histVars>>
         /\ loop'.pc = "send" /\ loop'.fresh = TRUE /\ loop'.basis = store
         /\ loop' \in LoopType /\ IsList(loop'.due) /\ IsList(loop'.out)
         /\ Elements(loop'.due) = {j \in Elements(store) : j.next <= now}
         /\ Elements(loop'.out) = Elements(store) \ Elements(loop'.due)
<1>1. UNCHANGED <<store, task, now, used, boundVars, histVars>>
  BY DEF FireRead
<1> DEFINE due == DueJobs(store)
           out == Remaining(store)
<1>2. loop' = [pc |-> "send", due |-> due, basis |-> store, out |-> out, fresh |-> TRUE]
  BY DEF FireRead
<1>3. store \in Seq(Jobs) /\ Distinct(store) /\ Len(store) <= MaxJobs /\ IdsOf(store) \subseteq used
  BY DEF Typed, IsList
<1>4. /\ due \in Seq(Jobs) /\ Len(due) <= Len(store) /\ Distinct(due)
      /\ Elements(due) = Elements(store) \cap {j \in Elements(store) : IsDue(j)}
  BY <1>3, KeptProperties DEF DueJobs
<1>5. /\ out \in Seq(Jobs) /\ Len(out) <= Len(store) /\ Distinct(out)
      /\ Elements(out) = Elements(store) \cap {j \in Elements(store) : ~IsDue(j)}
  BY <1>3, KeptProperties DEF Remaining
<1> HIDE DEF due, out
<1>6. /\ Elements(due) = {j \in Elements(store) : j.next <= now}
      /\ Elements(out) = Elements(store) \ Elements(due)
  BY <1>4, <1>5 DEF IsDue
<1>7. IsList(due) /\ IsList(out)
  BY <1>3, <1>4, <1>5, <1>6, CronAssumption DEF IsList, IdsOf
<1>8. loop' \in LoopType
  BY <1>2, <1>3, <1>4, <1>5 DEF LoopType
<1> QED
  BY <1>1, <1>2, <1>6, <1>7, <1>8

\* A job moved on by its period.
LEMMA NextJob ==
  ASSUME NEW j \in Jobs, j.next <= now, now \in 0..MaxTime
  PROVE  /\ NextAfter(j) \in Jobs /\ NextAfter(j).id = j.id /\ NextAfter(j).repeat = j.repeat
         /\ NextAfter(j).next = j.next + (IF j.repeat = "daily" THEN Day ELSE 7 * Day)
         /\ NextAfter(j).next > j.next
<1> DEFINE p == IF j.repeat = "daily" THEN Day ELSE 7 * Day
<1>1. j.next \in Nat /\ j.id \in Ids /\ j.repeat \in Repeats
  BY CronAssumption DEF Jobs, Horizon
<1>2. p \in Nat /\ p > 0 /\ p <= 7 * Day
  BY CronAssumption
<1>3. NextAfter(j) = [j EXCEPT !.next = @ + p]
  BY DEF NextAfter
<1> HIDE DEF p
<1>4. j.next + p \in 0..Horizon /\ j.next + p > j.next
  BY <1>1, <1>2, CronAssumption DEF Horizon
<1>5. NextAfter(j) = [id |-> j.id, next |-> j.next + p, repeat |-> j.repeat]
  BY <1>3 DEF Jobs
<1> QED
  BY <1>1, <1>4, <1>5 DEF Jobs, p

\* Jobs of a pass that were not sent yet are none of those that remain.
LEMMA PassIds ==
  ASSUME Typed, Pass
  PROVE  /\ IdsOf(loop.due) \cap IdsOf(loop.out) = {}
         /\ IdsOf(loop.due) \subseteq IdsOf(loop.basis)
         /\ IdsOf(loop.out) \subseteq IdsOf(loop.basis)
<1>1. PICK F \in SUBSET Elements(loop.basis) : IsPass(F)
  BY DEF Pass
<1>2. /\ loop.basis \in Seq(Jobs) /\ Distinct(loop.basis)
  BY DEF Typed, IsList
<1>3. Elements(loop.basis) \subseteq Jobs
  BY <1>2, JobsOfList
<1>4. \A j \in F : NextAfter(j).id = j.id
  BY <1>1, <1>3, NextJob DEF IsPass, Typed
<1>5. \A i \in IdsOf(loop.out) : \E j \in Elements(loop.basis) \ Elements(loop.due) : j.id = i
  BY <1>1, <1>4 DEF IsPass, IdsOf, Fired
<1>6. Elements(loop.due) \subseteq Elements(loop.basis)
  BY <1>1 DEF IsPass
<1>7. IdsOf(loop.due) \cap IdsOf(loop.out) = {}
  <2> SUFFICES ASSUME NEW i \in IdsOf(loop.due), i \in IdsOf(loop.out) PROVE FALSE
    OBVIOUS
  <2>1. PICK j \in Elements(loop.due) : j.id = i
    BY DEF IdsOf
  <2>2. PICK k \in Elements(loop.basis) \ Elements(loop.due) : k.id = i
    BY <1>5
  <2>3. j = k
    BY <2>1, <2>2, <1>2, <1>6, SameJob
  <2> QED
    BY <2>1, <2>2, <2>3
<1>8. IdsOf(loop.due) \subseteq IdsOf(loop.basis)
  BY <1>6 DEF IdsOf
<1>9. IdsOf(loop.out) \subseteq IdsOf(loop.basis)
  BY <1>5 DEF IdsOf
<1> QED
  BY <1>7, <1>8, <1>9

\* One reminder is sent: its job leaves those that are due, and moves on if it recurs.
LEMMA FireSendEffect ==
  ASSUME Typed, Pass, FireSend
  PROVE  LET j == loop.due[1] IN
         /\ UNCHANGED <<store, task, now, used, boundVars, added, cancelled, done,
                        given, badSaves, stale>>
         /\ loop.pc = "send" /\ loop'.pc = "send"
         /\ loop'.basis = loop.basis /\ loop'.fresh = loop.fresh
         /\ loop' \in LoopType /\ IsList(loop'.due) /\ IsList(loop'.out)
         /\ j \in Elements(loop.due) /\ j \in Jobs /\ j.next <= now
         /\ Elements(loop'.due) = Elements(loop.due) \ {j}
         /\ Elements(loop'.out) = Elements(loop.out) \cup Fired({j})
         /\ sent' = [sent EXCEPT ![<<j.id, j.next>>] = @ + 1]
<1> DEFINE j == loop.due[1]
<1>1. /\ UNCHANGED <<store, task, now, used, boundVars, added, cancelled, done,
                     given, badSaves, stale>>
      /\ sent' = [sent EXCEPT ![<<j.id, j.next>>] = @ + 1]
      /\ loop.pc = "send" /\ loop.due # <<>>
      /\ loop' = [loop EXCEPT !.due = Tail(@),
                   !.out = IF j.repeat = "once" THEN @ ELSE Append(@, NextAfter(j))]
  BY DEF FireSend
<1>2. /\ loop \in LoopType
      /\ loop.due \in Seq(Jobs) /\ Distinct(loop.due) /\ Len(loop.due) <= MaxJobs
      /\ loop.out \in Seq(Jobs) /\ Distinct(loop.out) /\ Len(loop.out) <= MaxJobs
      /\ loop.basis \in Seq(Jobs) /\ Distinct(loop.basis) /\ Len(loop.basis) <= MaxJobs
      /\ IdsOf(loop.due) \subseteq used /\ IdsOf(loop.out) \subseteq used
  BY DEF Typed, IsList
<1> DEFINE due == Tail(loop.due)
           out == IF j.repeat = "once" THEN loop.out ELSE Append(loop.out, NextAfter(j))
<1>3. /\ j \in Elements(loop.due)
      /\ due \in Seq(Jobs) /\ Len(due) = Len(loop.due) - 1 /\ Distinct(due)
      /\ Elements(due) = Elements(loop.due) \ {j}
  BY <1>1, <1>2, TailElements
<1>4. j \in Jobs /\ j.next <= now
  BY <1>2, <1>3, JobsOfList DEF Pass, IsPass
<1>5. NextAfter(j) \in Jobs /\ NextAfter(j).id = j.id
  BY <1>4, NextJob DEF Typed
<1>6. j.id \in IdsOf(loop.due) /\ j.id \notin IdsOf(loop.out) /\ j.id \in IdsOf(loop.basis)
  BY <1>3, PassIds DEF IdsOf
<1> HIDE DEF j, due
<1>7. /\ out \in Seq(Jobs) /\ Distinct(out)
      /\ Elements(out) = Elements(loop.out) \cup Fired({j})
  <2>1. CASE j.repeat = "once"
    <3>1. Fired({j}) = {}
      BY <2>1 DEF Fired
    <3> QED
      BY <2>1, <3>1, <1>2
  <2>2. CASE j.repeat # "once"
    <3>1. Fired({j}) = {NextAfter(j)}
      BY <2>2 DEF Fired
    <3>2. out = Append(loop.out, NextAfter(j))
      BY <2>2
    <3> QED
      BY <3>1, <3>2, <1>2, <1>5, <1>6, AppendElements
  <2> QED
    BY <2>1, <2>2
<1> HIDE DEF out
<1>8. IdsOf(out) \subseteq IdsOf(loop.out) \cup {j.id}
  BY <1>5, <1>7 DEF IdsOf, Fired
<1>9. Len(out) <= MaxJobs
  <2>1. IdsOf(out) \subseteq IdsOf(loop.basis)
    BY <1>6, <1>8, PassIds
  <2> QED
    BY <2>1, <1>2, <1>7, Shorter, CronAssumption
<1>10. IsList(due) /\ IsList(out)
  <2>1. IdsOf(due) \subseteq used /\ Len(due) <= MaxJobs
    BY <1>2, <1>3, CronAssumption DEF IdsOf
  <2> QED
    BY <2>1, <1>2, <1>3, <1>6, <1>7, <1>8, <1>9 DEF IsList
<1>11. /\ loop'.due = due /\ loop'.out = out /\ loop'.basis = loop.basis
       /\ loop'.fresh = loop.fresh /\ loop'.pc = "send" /\ loop' \in LoopType
  <2>1. loop' = [loop EXCEPT !.due = due, !.out = out]
    BY <1>1 DEF due, out
  <2> QED
    BY <2>1, <1>1, <1>2, <1>3, <1>7 DEF LoopType
<1> QED
  BY <1>1, <1>3, <1>4, <1>7, <1>10, <1>11 DEF j

-----------------------------------------------------------------------------
(* Types, requests and passes. *)

LEMMA InitTyped == Init => Typed /\ Requests /\ Pass
<1> SUFFICES ASSUME Init PROVE Typed /\ Requests /\ Pass
  OBVIOUS
<1>1. IsList(<<>>)
  BY EmptyList, CronAssumption DEF IsList
<1>2. Typed
  <2>1. \A t \in Tasks : task[t] = IdleTask
    BY DEF Init
  <2>2. task \in [Tasks -> TaskType] /\ \A t \in Tasks : IsList(task[t].out)
    BY <1>1, <2>1, Records DEF Init
  <2>3. loop \in LoopType /\ IsList(loop.due) /\ IsList(loop.basis) /\ IsList(loop.out)
    BY <1>1, Records DEF Init
  <2>4. given \in [Ids -> SUBSET Schedules] /\ sent \in [Ids \X (0..MaxTime) -> Nat]
    BY DEF Init
  <2>5. /\ IsList(store) /\ now \in 0..MaxTime /\ crashes \in Nat /\ badSaves \in Nat
        /\ stale \in BOOLEAN /\ used \subseteq Ids /\ added \subseteq used
        /\ cancelled \subseteq used /\ done \subseteq used
    <3>1. IsList(store)
      BY <1>1 DEF Init
    <3>2. now \in 0..MaxTime /\ crashes \in Nat /\ badSaves \in Nat
      BY CronAssumption DEF Init
    <3>3. /\ stale \in BOOLEAN /\ used \subseteq Ids /\ added \subseteq used
          /\ cancelled \subseteq used /\ done \subseteq used
      BY Zenon DEF Init
    <3> QED
      BY <3>1, <3>2, <3>3
  <2> QED
    BY <2>2, <2>3, <2>4, <2>5 DEF Typed
<1>3. Requests
  BY Records DEF Init, Requests
<1>4. Pass
  <2>1. Elements(loop.due) = {} /\ Elements(loop.basis) = {} /\ Elements(loop.out) = {}
    BY Records, EmptyList DEF Init
  <2>2. IsPass({})
    BY <2>1 DEF IsPass, Fired
  <2> QED
    BY <2>2 DEF Pass
<1> QED
  BY <1>2, <1>3, <1>4

\* Lists stay lists when more ids are used.
LEMMA StaysList ==
  ASSUME NEW l, IsList(l), used \subseteq used'
  PROVE  IsList(l)'
BY DEF IsList

LEMMA HandleTyped ==
  ASSUME Typed, Requests, Pass, NEW t \in Tasks, Handle(t)
  PROVE  Typed' /\ Requests' /\ Pass'
<1>1. /\ UNCHANGED <<store, loop, now, crashes, histVars>>
      /\ used \subseteq used' /\ used' \subseteq Ids
      /\ UNCHANGED task \/ \E r : IsStarted(t, r)
  BY HandleEffect
<1>2. Pass'
  BY <1>1 DEF Pass, IsPass
<1>3. /\ IsList(store)' /\ IsList(loop.due)' /\ IsList(loop.basis)' /\ IsList(loop.out)'
      /\ loop' \in LoopType
      /\ now' \in 0..MaxTime /\ crashes' \in Nat /\ badSaves' \in Nat /\ stale' \in BOOLEAN
      /\ used' \subseteq Ids /\ added' \subseteq used' /\ cancelled' \subseteq used'
      /\ done' \subseteq used'
      /\ given' \in [Ids -> SUBSET Schedules]
      /\ sent' \in [Ids \X (0..MaxTime) -> Nat]
  BY <1>1 DEF Typed, IsList, histVars
<1>4. \A s \in Tasks : IsList(task[s].out)' \/ task'[s] # task[s]
  BY <1>1 DEF Typed, IsList
<1>5. CASE UNCHANGED task
  <2>1. Typed'
    BY <1>3, <1>4, <1>5 DEF Typed
  <2>2. Requests'
    BY <1>1, <1>5 DEF Requests, OnlyIn, histVars
  <2> QED
    BY <2>1, <2>2, <1>2
<1>6. CASE \E r : IsStarted(t, r)
  <2>1. PICK r : IsStarted(t, r)
    BY <1>6
  <2>2. /\ task \in [Tasks -> TaskType]
        /\ task'[t] = r /\ \A s \in Tasks \ {t} : task'[s] = task[s]
        /\ task' \in [Tasks -> TaskType]
    BY <2>1 DEF IsStarted, Typed
  <2>3. IsList(r.out)'
    <3>1. r.out \in Seq(Jobs)
      BY <2>1 DEF IsStarted, TaskType
    <3> QED
      BY <2>1, <3>1 DEF IsStarted, IsList
  <2>4. Typed'
    BY <2>2, <2>3, <1>3, <1>4 DEF Typed
  <2>5. ASSUME NEW s \in Tasks PROVE IdsOf(task[s].out) \subseteq used
    BY DEF Typed, IsList
  <2>6. IdsOf(store) \subseteq used /\ IdsOf(loop.basis) \subseteq used
    BY DEF Typed, IsList
  <2>7. ASSUME NEW s \in Tasks \ {t}
        PROVE  /\ task'[s].pc # "idle" => task'[s].op # "none" /\ task'[s].id \in used'
               /\ task'[s].op \in {"edit", "cancel"} => task'[s].id \in added'
               /\ task'[s].op = "add" =>
                     task'[s].id \in IdsOf(task'[s].out) /\ OnlyIn(s, task[s].id)'
    <3>1. task'[s] = task[s]
      BY <2>2
    <3>2. /\ task[s].pc # "idle" => task[s].op # "none" /\ task[s].id \in used
          /\ task[s].op \in {"edit", "cancel"} => task[s].id \in added
          /\ task[s].op = "add" =>
                task[s].id \in IdsOf(task[s].out) /\ OnlyIn(s, task[s].id)
      BY DEF Requests
    <3>3. ASSUME task[s].op = "add" PROVE OnlyIn(s, task[s].id)'
      <4> DEFINE id == task[s].id
      <4>1. id \in IdsOf(task[s].out) /\ OnlyIn(s, id)
        BY <3>2, <3>3
      <4> HIDE DEF id
      <4>2. id \in used /\ id \notin IdsOf(store)
        BY <4>1, <2>5 DEF OnlyIn
      <4>3. id \notin IdsOf(r.out)
        <5>1. r.op \in {"add", "edit", "cancel"}
          BY <2>1 DEF IsStarted, TaskType
        <5> QED
          BY <4>2, <5>1, <2>1 DEF IsStarted
      <4>4. \A u \in Tasks \ {s} : id \notin IdsOf(task'[u].out)
        BY <4>1, <4>3, <2>2 DEF OnlyIn
      <4>5. id \notin IdsOf(store') \cup added' \cup cancelled' \cup done' \cup IdsOf(loop'.basis)
        BY <4>1, <1>1 DEF OnlyIn, histVars
      <4> QED
        BY <4>4, <4>5, <3>1 DEF OnlyIn, id
    <3> QED
      BY <3>1, <3>2, <3>3, <1>1 DEF histVars
  <2>8. /\ r.pc # "idle" => r.op # "none" /\ r.id \in used'
        /\ r.op \in {"edit", "cancel"} => r.id \in added'
    BY <2>1, <1>1 DEF IsStarted, histVars
  <2>9. ASSUME r.op = "add" PROVE r.id \in IdsOf(r.out) /\ OnlyIn(t, r.id)'
    <3>1. r.id \in IdsOf(r.out) /\ r.id \notin used
      BY <2>1, <2>9 DEF IsStarted
    <3>2. r.id \notin IdsOf(store') \cup added' \cup cancelled' \cup done' \cup IdsOf(loop'.basis)
      BY <3>1, <2>6, <1>1 DEF histVars, Typed
    <3>3. \A s \in Tasks \ {t} : r.id \notin IdsOf(task'[s].out)
      BY <3>1, <2>2, <2>5
    <3> QED
      BY <3>1, <3>2, <3>3 DEF OnlyIn
  <2>10. Requests'
    <3> SUFFICES ASSUME NEW s \in Tasks
                 PROVE  /\ task'[s].pc # "idle" => task'[s].op # "none" /\ task'[s].id \in used'
                        /\ task'[s].op \in {"edit", "cancel"} => task'[s].id \in added'
                        /\ task'[s].op = "add" =>
                              task'[s].id \in IdsOf(task'[s].out) /\ OnlyIn(s, task[s].id)'
      BY DEF Requests
    <3>1. CASE s = t
      BY <3>1, <2>2, <2>8, <2>9 DEF OnlyIn
    <3>2. CASE s # t
      BY <3>2, <2>7
    <3> QED
      BY <3>1, <3>2
  <2> QED
    BY <2>4, <2>10, <1>2
<1> QED
  BY <1>1, <1>5, <1>6

LEMMA CheckTyped ==
  ASSUME Typed, Requests, Pass, NEW t \in Tasks, CancelCheck(t)
  PROVE  Typed' /\ Requests' /\ Pass'
<1>1. /\ UNCHANGED <<store, loop, now, used, ops, crashes, histVars>>
      /\ task[t].pc = "check"
      /\ task' = [task EXCEPT ![t] = IdleTask] \/ task' = [task EXCEPT ![t] = [@ EXCEPT !.pc = "save"]]
  BY DEF CancelCheck
<1>2. Pass'
  BY <1>1 DEF Pass, IsPass
<1>3. task \in [Tasks -> TaskType]
  BY DEF Typed
<1>4. PICK r \in TaskType :
        /\ task' = [task EXCEPT ![t] = r]
        /\ \/ r.pc = "idle" /\ r.op = "none" /\ r.out = <<>>
           \/ r.op = task[t].op /\ r.id = task[t].id /\ r.out = task[t].out
  <2>1. CASE task' = [task EXCEPT ![t] = IdleTask]
    BY <2>1, Records
  <2>2. CASE task' = [task EXCEPT ![t] = [@ EXCEPT !.pc = "save"]]
    <3> DEFINE x == task[t]
               y == [x EXCEPT !.pc = "save"]
    <3>1. x \in TaskType
      BY <1>3
    <3>2. task' = [task EXCEPT ![t] = y]
      BY <2>2, <1>3
    <3> HIDE DEF x
    <3>3. y \in TaskType /\ y.op = x.op /\ y.id = x.id /\ y.out = x.out
      BY <3>1 DEF TaskType
    <3> HIDE DEF y
    <3> QED
      BY <3>2, <3>3 DEF x
  <2> QED
    BY <2>1, <2>2, <1>1
<1>5. task' \in [Tasks -> TaskType] /\ task'[t] = r /\ \A s \in Tasks \ {t} : task'[s] = task[s]
  BY <1>3, <1>4
<1>6. IsList(<<>>)
  BY EmptyList, CronAssumption DEF IsList
<1>7. \A s \in Tasks : task'[s].out = task[s].out \/ task'[s].out = <<>>
  BY <1>4, <1>5
<1>8. Typed'
  <2>1. \A s \in Tasks : IsList(task'[s].out)
    BY <1>6, <1>7 DEF Typed
  <2> QED
    BY <2>1, <1>1, <1>5 DEF Typed, IsList, histVars
<1>9. Requests'
  <2>1. \A s \in Tasks : \A id : OnlyIn(s, id) => OnlyIn(s, id)'
    BY <1>1, <1>7, EmptyList DEF OnlyIn, histVars
  <2>2. \A s \in Tasks : \/ task'[s].pc = "idle" /\ task'[s].op = "none"
                         \/ task'[s].op = task[s].op /\ task'[s].id = task[s].id
                            /\ task'[s].out = task[s].out /\ (task'[s].pc = "idle" \/ task[s].pc # "idle")
    BY <1>1, <1>4, <1>5
  <2> SUFFICES ASSUME NEW s \in Tasks
               PROVE  /\ task'[s].pc # "idle" => task'[s].op # "none" /\ task'[s].id \in used'
                      /\ task'[s].op \in {"edit", "cancel"} => task'[s].id \in added'
                      /\ task'[s].op = "add" =>
                            task'[s].id \in IdsOf(task'[s].out) /\ OnlyIn(s, task[s].id)'
    BY DEF Requests
  <2> QED
    BY <2>1, <2>2, <1>1 DEF Requests, histVars
<1> QED
  BY <1>2, <1>8, <1>9

\* The task t is done, or its request failed; the others may have been overtaken.
LEMMA SaveTyped ==
  ASSUME Typed, Requests, Pass, NEW t \in Tasks, Save(t)
  PROVE  Typed' /\ Requests' /\ Pass'
<1> DEFINE out == task[t].out
           id == task[t].id
<1>1. /\ task[t].pc = "save"
      /\ UNCHANGED <<now, used, ops, crashes, done, sent, badSaves>>
      /\ given' = [given EXCEPT ![id] = @ \cup ScheduleOf(out, id)]
  BY DEF Save
<1>2. task \in [Tasks -> TaskType] /\ loop \in LoopType
  BY DEF Typed
<1>3. /\ store' \in {store, out}
      /\ added' = added \/ (task[t].op = "add" /\ added' = added \cup {id})
      /\ cancelled' = cancelled \/ (task[t].op = "cancel" /\ cancelled' = cancelled \cup {id})
      /\ stale' \in BOOLEAN
      /\ loop' \in LoopType
      /\ loop'.due = loop.due /\ loop'.basis = loop.basis /\ loop'.out = loop.out
      /\ task' \in [Tasks -> TaskType] /\ task'[t] = IdleTask
      /\ \A s \in Tasks \ {t} : /\ task'[s].pc = task[s].pc /\ task'[s].op = task[s].op
                                /\ task'[s].id = task[s].id /\ task'[s].out = task[s].out
  <2>1. CASE /\ Write(task[t].fresh, out)
             /\ added' = IF task[t].op = "add" THEN added \cup {id} ELSE added
             /\ cancelled' = IF task[t].op = "cancel" THEN cancelled \cup {id} ELSE cancelled
             /\ task' = [s \in Tasks |-> IF s = t THEN IdleTask ELSE Overtaken(task[s])]
             /\ loop' = Overtaken(loop)
    <3>1. store' = out /\ stale' \in BOOLEAN
      BY <2>1, Zenon DEF Write
    <3>2. task' \in [Tasks -> TaskType] /\ task'[t] = IdleTask
      BY <2>1, <1>2, Records
    <3>3. \A s \in Tasks \ {t} : task'[s] = Overtaken(task[s])
      BY <2>1
    <3>4. /\ loop' \in LoopType
          /\ loop'.due = loop.due /\ loop'.basis = loop.basis /\ loop'.out = loop.out
      BY <2>1, <1>2, Records
    <3>5. \A s \in Tasks \ {t} : /\ task'[s].pc = task[s].pc /\ task'[s].op = task[s].op
                                 /\ task'[s].id = task[s].id /\ task'[s].out = task[s].out
      <4>1. \A s \in Tasks : task[s] \in TaskType
        BY <1>2
      <4> QED
        BY <3>3, <4>1, Records
    <3>6. /\ added' = added \/ (task[t].op = "add" /\ added' = added \cup {id})
          /\ cancelled' = cancelled \/ (task[t].op = "cancel" /\ cancelled' = cancelled \cup {id})
      BY <2>1
    <3> HIDE DEF id, out
    <3> QED
      BY <3>1, <3>2, <3>4, <3>5, <3>6
  <2>2. CASE /\ WriteFails(out)
             /\ task' = [task EXCEPT ![t] = IdleTask]
             /\ UNCHANGED <<added, cancelled, loop>>
    <3>1. store' \in {store, out} /\ stale' \in BOOLEAN
      BY <2>2 DEF WriteFails, Typed
    <3>2. task' \in [Tasks -> TaskType] /\ task'[t] = IdleTask
      BY <2>2, <1>2, Records
    <3>3. \A s \in Tasks \ {t} : task'[s] = task[s]
      BY <2>2, <1>2
    <3>4. /\ loop' \in LoopType
          /\ loop'.due = loop.due /\ loop'.basis = loop.basis /\ loop'.out = loop.out
      BY <2>2, <1>2
    <3>5. \A s \in Tasks \ {t} : /\ task'[s].pc = task[s].pc /\ task'[s].op = task[s].op
                                 /\ task'[s].id = task[s].id /\ task'[s].out = task[s].out
      BY <3>3
    <3>6. /\ added' = added \/ (task[t].op = "add" /\ added' = added \cup {id})
          /\ cancelled' = cancelled \/ (task[t].op = "cancel" /\ cancelled' = cancelled \cup {id})
      BY <2>2
    <3> HIDE DEF id, out
    <3> QED
      BY <3>1, <3>2, <3>4, <3>5, <3>6
  <2> QED
    BY <2>1, <2>2 DEF Save
<1>4. id \in used /\ id \in Ids /\ out \in Seq(Jobs)
  BY <1>1, <1>2 DEF Requests, Typed, IsList
<1>5. given' \in [Ids -> SUBSET Schedules]
  <2>1. \A j \in Elements(out) : j.next \in 0..Horizon /\ j.repeat \in Repeats
    <3>1. \A j \in Jobs : j.next \in 0..Horizon /\ j.repeat \in Repeats
      BY DEF Jobs
    <3> QED
      BY <1>4, <3>1, JobsOfList
  <2>2. ScheduleOf(out, id) \in SUBSET Schedules
    BY <2>1 DEF ScheduleOf, Schedules
  <2>3. given \in [Ids -> SUBSET Schedules]
    BY DEF Typed
  <2> HIDE DEF id, out
  <2>4. given[id] \cup ScheduleOf(out, id) \in SUBSET Schedules
    BY <2>2, <2>3, <1>4
  <2> QED
    BY <2>3, <2>4, <1>1
<1> HIDE DEF id, out
<1>6. Pass'
  BY <1>1, <1>3 DEF Pass, IsPass
<1>7. IsList(<<>>) /\ IsList(out)
  BY EmptyList, CronAssumption DEF IsList, Typed, out
<1>8. \A s \in Tasks : task'[s].out = task[s].out \/ task'[s].out = <<>>
  BY <1>3, Records
<1>9. Typed'
  <2>1. \A s \in Tasks : IsList(task'[s].out)
    BY <1>7, <1>8 DEF Typed
  <2>2. IsList(store')
    BY <1>3, <1>7 DEF Typed
  <2>3. IsList(loop'.due) /\ IsList(loop'.basis) /\ IsList(loop'.out)
    BY <1>3 DEF Typed
  <2>4. added' \subseteq used /\ cancelled' \subseteq used
    BY <1>3, <1>4 DEF Typed
  <2> QED
    BY <2>1, <2>2, <2>3, <2>4, <1>1, <1>3, <1>5 DEF Typed, IsList
<1>10. Requests'
  <2>1. ASSUME NEW s \in Tasks \ {t}, task[s].op = "add"
        PROVE  OnlyIn(s, task[s].id)'
    <3> DEFINE i == task[s].id
    <3>1. OnlyIn(s, i)
      BY <2>1 DEF Requests
    <3>2. task'[s].id = i
      BY <1>3
    <3> HIDE DEF i
    <3>3. i \notin IdsOf(out)
      BY <3>1 DEF OnlyIn, out
    <3>4. task[t].op = "add" => i # id
      BY <3>3 DEF Requests, id, out
    <3>5. task[t].op = "cancel" => i # id
      BY <3>1 DEF Requests, id, OnlyIn
    <3>6. i \notin IdsOf(store') \cup added' \cup cancelled' \cup done' \cup IdsOf(loop'.basis)
      BY <3>1, <3>3, <3>4, <3>5, <1>1, <1>3 DEF OnlyIn
    <3>7. \A u \in Tasks \ {s} : i \notin IdsOf(task'[u].out)
      BY <3>1, <1>8, EmptyList DEF OnlyIn
    <3> QED
      BY <3>2, <3>6, <3>7 DEF OnlyIn
  <2> SUFFICES ASSUME NEW s \in Tasks
               PROVE  /\ task'[s].pc # "idle" => task'[s].op # "none" /\ task'[s].id \in used'
                      /\ task'[s].op \in {"edit", "cancel"} => task'[s].id \in added'
                      /\ task'[s].op = "add" =>
                            task'[s].id \in IdsOf(task'[s].out) /\ OnlyIn(s, task[s].id)'
    BY DEF Requests
  <2>2. CASE s = t
    BY <2>2, <1>3, Records
  <2>3. CASE s # t
    BY <2>1, <2>3, <1>1, <1>3 DEF Requests
  <2> QED
    BY <2>2, <2>3
<1> QED
  BY <1>6, <1>9, <1>10

LEMMA FireReadTyped ==
  ASSUME Typed, Requests, Pass, FireRead
  PROVE  Typed' /\ Requests' /\ Pass'
<1>1. /\ UNCHANGED <<store, task, now, used, boundVars, histVars>>
      /\ loop'.basis = store
      /\ loop' \in LoopType /\ IsList(loop'.due) /\ IsList(loop'.out)
      /\ Elements(loop'.due) = {j \in Elements(store) : j.next <= now}
      /\ Elements(loop'.out) = Elements(store) \ Elements(loop'.due)
  BY FireReadEffect
<1>2. Typed'
  BY <1>1 DEF Typed, IsList, boundVars, histVars
<1>3. Requests'
  <2>1. \A s \in Tasks : \A id : OnlyIn(s, id) => OnlyIn(s, id)'
    BY <1>1 DEF OnlyIn, histVars
  <2> QED
    BY <2>1, <1>1 DEF Requests, histVars
<1>4. Pass'
  <2>1. IsPass({})'
    BY <1>1 DEF IsPass, Fired
  <2> QED
    BY <2>1 DEF Pass
<1> QED
  BY <1>2, <1>3, <1>4

LEMMA FireSendTyped ==
  ASSUME Typed, Requests, Pass, FireSend
  PROVE  Typed' /\ Requests' /\ Pass'
<1> DEFINE j == loop.due[1]
<1>1. /\ UNCHANGED <<store, task, now, used, boundVars, added, cancelled, done,
                     given, badSaves, stale>>
      /\ loop'.basis = loop.basis
      /\ loop' \in LoopType /\ IsList(loop'.due) /\ IsList(loop'.out)
      /\ j \in Elements(loop.due) /\ j \in Jobs /\ j.next <= now
      /\ Elements(loop'.due) = Elements(loop.due) \ {j}
      /\ Elements(loop'.out) = Elements(loop.out) \cup Fired({j})
      /\ sent' = [sent EXCEPT ![<<j.id, j.next>>] = @ + 1]
  BY FireSendEffect
<1> HIDE DEF j
<1>2. sent' \in [Ids \X (0..MaxTime) -> Nat]
  <2>1. j.id \in Ids /\ j.next \in 0..MaxTime
    BY <1>1, CronAssumption DEF Jobs, Typed, Horizon
  <2>2. sent \in [Ids \X (0..MaxTime) -> Nat]
    BY DEF Typed
  <2> QED
    BY <2>1, <2>2, <1>1
<1>3. Typed'
  BY <1>1, <1>2 DEF Typed, IsList, boundVars
<1>4. Requests'
  <2>1. \A s \in Tasks : \A id : OnlyIn(s, id) => OnlyIn(s, id)'
    BY <1>1 DEF OnlyIn
  <2> QED
    BY <2>1, <1>1 DEF Requests
<1>5. Pass'
  <2>1. PICK F \in SUBSET Elements(loop.basis) : IsPass(F)
    BY DEF Pass
  <2> PICK G : G = F \cup {j}
    OBVIOUS
  <2>2. G \in SUBSET Elements(loop'.basis)
    BY <2>1, <1>1 DEF IsPass
  <2>3. Fired(G) = Fired(F) \cup Fired({j})
    BY DEF Fired
  <2>4. G \cup Elements(loop'.due) = F \cup Elements(loop.due)
    BY <1>1
  <2>5. IsPass(G)'
    <3>1. Elements(loop'.due) \subseteq Elements(loop'.basis) \ G
      BY <1>1, <2>1 DEF IsPass
    <3>2. \A k \in G \cup Elements(loop'.due) : k.next <= now'
      BY <1>1, <2>1, <2>4 DEF IsPass
    <3>3. Elements(loop'.out) =
            (Elements(loop'.basis) \ (G \cup Elements(loop'.due))) \cup Fired(G)
      <4>1. Elements(loop.out) =
              (Elements(loop.basis) \ (F \cup Elements(loop.due))) \cup Fired(F)
        BY <2>1 DEF IsPass
      <4> QED
        BY <4>1, <2>3, <2>4, <1>1
    <3> QED
      BY <3>1, <3>2, <3>3 DEF IsPass
  <2> QED
    BY <2>2, <2>5 DEF Pass
<1> QED
  BY <1>3, <1>4, <1>5

\* The end of a pass, and the loop without one.
LEMMA NoPass ==
  ASSUME loop' = IdleLoop
  PROVE  Pass' /\ (IsList(<<>>) => IsList(loop'.due) /\ IsList(loop'.basis) /\ IsList(loop'.out))
<1>1. Elements(loop'.due) = {} /\ Elements(loop'.basis) = {} /\ Elements(loop'.out) = {}
  BY Records, EmptyList
<1>2. IsPass({})'
  BY <1>1 DEF IsPass, Fired
<1> QED
  BY <1>2, Records DEF Pass

\* What the save of a pass may leave behind.
LEMMA FireSaveEffect ==
  ASSUME Typed, FireSave
  PROVE  /\ UNCHANGED <<now, used, ops, crashes, added, cancelled, given, sent>>
         /\ loop.pc = "send" /\ Elements(loop.due) = {} /\ loop' = IdleLoop
         /\ \/ /\ store' = loop.out /\ stale' = (stale \/ ~loop.fresh)
               /\ done' = done \cup FiredForGood /\ badSaves' = badSaves
               /\ task' = [t \in Tasks |-> Overtaken(task[t])]
            \/ /\ store' \in {store, loop.out} /\ stale' \in {stale, TRUE}
               /\ (store' = store /\ stale' = stale) \/ stale' = TRUE
               /\ badSaves' = badSaves + 1 /\ UNCHANGED <<done, task>>
<1>1. Truncated(loop.out) = loop.out
  BY TruncatedKeepsAll DEF Typed, IsList
<1>2. /\ UNCHANGED <<now, used, ops, crashes, added, cancelled, given, sent>>
      /\ loop.pc = "send" /\ loop.due = <<>> /\ loop' = IdleLoop
  BY DEF FireSave
<1>3. CASE /\ Write(loop.fresh, Truncated(loop.out))
           /\ done' = done \cup FiredForGood
           /\ task' = [t \in Tasks |-> Overtaken(task[t])]
           /\ UNCHANGED badSaves
  BY <1>1, <1>2, <1>3, EmptyList DEF Write
<1>4. CASE /\ WriteFails(Truncated(loop.out))
           /\ badSaves' = badSaves + 1
           /\ UNCHANGED <<done, task>>
  BY <1>1, <1>2, <1>4, EmptyList DEF WriteFails
<1> QED
  BY <1>3, <1>4 DEF FireSave

LEMMA FireSaveTyped ==
  ASSUME Typed, Requests, Pass, FireSave
  PROVE  Typed' /\ Requests' /\ Pass'
<1>1. /\ UNCHANGED <<now, used, ops, crashes, added, cancelled, given, sent>>
      /\ loop' = IdleLoop /\ store' \in {store, loop.out} /\ stale' \in BOOLEAN
      /\ done' \in {done, done \cup FiredForGood} /\ badSaves' \in Nat
      /\ task' = task \/ task' = [t \in Tasks |-> Overtaken(task[t])]
  <2>1. stale' \in BOOLEAN
    <3>1. (stale \/ ~loop.fresh) \in BOOLEAN /\ stale \in BOOLEAN
      BY DEF Typed
    <3>2. stale' = (stale \/ ~loop.fresh) \/ stale' = stale \/ stale' = TRUE
      BY FireSaveEffect
    <3> QED
      BY <3>1, <3>2
  <2>2. badSaves' \in Nat
    <3>1. badSaves' = badSaves \/ badSaves' = badSaves + 1
      BY FireSaveEffect
    <3>2. badSaves \in Nat
      BY DEF Typed
    <3> QED
      BY <3>1, <3>2
  <2>3. /\ store' \in {store, loop.out} /\ done' \in {done, done \cup FiredForGood}
        /\ task' = task \/ task' = [t \in Tasks |-> Overtaken(task[t])]
    BY FireSaveEffect
  <2> QED
    BY <2>1, <2>2, <2>3, FireSaveEffect
<1>2. Pass' /\ (IsList(<<>>) => IsList(loop'.due) /\ IsList(loop'.basis) /\ IsList(loop'.out))
  BY <1>1, NoPass
<1>3. IsList(<<>>)
  BY EmptyList, CronAssumption DEF IsList
<1>4. task \in [Tasks -> TaskType]
  BY DEF Typed
<1>5. /\ task' \in [Tasks -> TaskType]
      /\ \A s \in Tasks : /\ task'[s].pc = task[s].pc /\ task'[s].op = task[s].op
                          /\ task'[s].id = task[s].id /\ task'[s].out = task[s].out
  <2>1. CASE task' = task
    BY <2>1, <1>4
  <2>2. CASE task' = [t \in Tasks |-> Overtaken(task[t])]
    <3>1. \A s \in Tasks : task[s] \in TaskType /\ task'[s] = Overtaken(task[s])
      BY <2>2, <1>4
    <3> QED
      BY <2>2, <3>1, Records
  <2> QED
    BY <2>1, <2>2, <1>1
<1>6. FiredForGood \subseteq IdsOf(loop.basis)
  BY DEF FiredForGood, IdsOf
<1>7. Typed'
  <2>1. IsList(store')
    BY <1>1 DEF Typed
  <2>2. \A s \in Tasks : IsList(task'[s].out)
    BY <1>5 DEF Typed
  <2>3. done' \subseteq used
    BY <1>1, <1>6 DEF Typed, IsList
  <2>4. loop' \in LoopType
    BY <1>1, Records
  <2> QED
    BY <2>1, <2>2, <2>3, <2>4, <1>1, <1>2, <1>3, <1>5 DEF Typed, IsList
<1>8. Requests'
  <2>1. IdsOf(store') \subseteq IdsOf(store) \cup IdsOf(loop.basis) /\ IdsOf(loop'.basis) = {}
    BY <1>1, PassIds, Records, EmptyList
  <2>2. \A s \in Tasks : \A id : OnlyIn(s, id) => OnlyIn(s, id)'
    <3>1. done' \subseteq done \cup IdsOf(loop.basis)
      BY <1>1, <1>6
    <3> QED
      BY <2>1, <3>1, <1>1, <1>5 DEF OnlyIn
  <2> QED
    BY <2>2, <1>1, <1>5 DEF Requests
<1> QED
  BY <1>2, <1>7, <1>8

LEMMA CrashTyped ==
  ASSUME Typed, Requests, Pass, Crash
  PROVE  Typed' /\ Requests' /\ Pass'
<1>1. /\ UNCHANGED <<store, now, used, ops, faults, histVars>>
      /\ crashes' = crashes + 1
      /\ task' = [t \in Tasks |-> IdleTask] /\ loop' = IdleLoop
  BY DEF Crash
<1>2. Pass' /\ (IsList(<<>>) => IsList(loop'.due) /\ IsList(loop'.basis) /\ IsList(loop'.out))
  BY <1>1, NoPass
<1>3. IsList(<<>>)
  BY EmptyList, CronAssumption DEF IsList
<1>4. \A s \in Tasks : task'[s] = IdleTask
  BY <1>1
<1>5. task' \in [Tasks -> TaskType] /\ loop' \in LoopType /\ \A s \in Tasks : IsList(task'[s].out)
  BY <1>1, <1>3, <1>4, Records
<1>6. Typed'
  BY <1>1, <1>2, <1>3, <1>5 DEF Typed, IsList, histVars
<1>7. Requests'
  BY <1>4, Records DEF Requests
<1> QED
  BY <1>2, <1>6, <1>7

LEMMA TickTyped ==
  ASSUME Typed, Requests, Pass, Tick
  PROVE  Typed' /\ Requests' /\ Pass'
<1>1. /\ UNCHANGED <<store, task, loop, used, boundVars, histVars>>
      /\ now' = now + 1 /\ now < MaxTime
  BY DEF Tick
<1>2. now \in Nat /\ now' \in 0..MaxTime
  BY <1>1, CronAssumption DEF Typed
<1>3. Typed'
  BY <1>1, <1>2 DEF Typed, IsList, boundVars, histVars
<1>4. Requests'
  BY <1>1 DEF Requests, OnlyIn, histVars
<1>5. Pass'
  <2>1. PICK F \in SUBSET Elements(loop.basis) : IsPass(F)
    BY DEF Pass
  <2>2. Elements(loop.basis) \subseteq Jobs
    BY JobsOfList DEF Typed, IsList
  <2>3. \A j \in F \cup Elements(loop.due) : j.next <= now'
    <3>1. \A j \in Jobs : j.next \in Int
      BY DEF Jobs
    <3>2. \A j \in F \cup Elements(loop.due) : j.next <= now /\ j \in Jobs
      BY <2>1, <2>2 DEF IsPass
    <3> QED
      BY <3>1, <3>2, <1>1, <1>2
  <2>4. IsPass(F)'
    BY <2>1, <2>3, <1>1 DEF IsPass
  <2> QED
    BY <2>4, <1>1 DEF Pass
<1> QED
  BY <1>3, <1>4, <1>5

LEMMA NextTyped ==
  ASSUME Typed, Requests, Pass, [Next]_vars
  PROVE  Typed' /\ Requests' /\ Pass'
<1>1. CASE UNCHANGED vars
  <2>1. Typed'
    BY <1>1 DEF Typed, IsList, vars, boundVars, histVars
  <2>2. Requests' /\ Pass'
    BY <1>1 DEF Requests, OnlyIn, Pass, IsPass, vars, boundVars, histVars
  <2> QED
    BY <2>1, <2>2
<1>2. ASSUME NEW t \in Tasks, Handle(t) \/ Proceed(t) PROVE Typed' /\ Requests' /\ Pass'
  BY <1>2, HandleTyped, CheckTyped, SaveTyped DEF Proceed
<1>3. CASE Fire
  BY <1>3, FireReadTyped, FireSendTyped, FireSaveTyped DEF Fire
<1> QED
  BY <1>1, <1>2, <1>3, CrashTyped, TickTyped DEF Next, Terminated

-----------------------------------------------------------------------------
(* Changes: what is written by those whom nobody overtook. *)

LEMMA InitChanges == Init => Changes
BY Records DEF Init, Changes

LEMMA SaveEffect ==
  ASSUME Typed, Requests, NEW t \in Tasks, Save(t)
  PROVE  /\ UNCHANGED <<now, used, ops, crashes, done, sent, badSaves>>
         /\ task[t].op \in {"add", "edit", "cancel"} /\ task[t].id \in used
         /\ given' = [given EXCEPT ![task[t].id] = @ \cup ScheduleOf(task[t].out, task[t].id)]
         /\ task'[t] = IdleTask
         /\ \A s \in Tasks \ {t} : /\ task'[s].out = task[s].out /\ task'[s].id = task[s].id
                                   /\ task'[s].op = task[s].op
                                   /\ task'[s].fresh => task[s].fresh
         /\ loop'.pc = loop.pc /\ loop'.due = loop.due /\ loop'.basis = loop.basis
         /\ loop'.out = loop.out /\ (loop'.fresh => loop.fresh)
         /\ \/ /\ store' = task[t].out /\ stale' = (stale \/ ~task[t].fresh)
               /\ added' = IF task[t].op = "add" THEN added \cup {task[t].id} ELSE added
               /\ cancelled' = IF task[t].op = "cancel" THEN cancelled \cup {task[t].id} ELSE cancelled
               /\ \A s \in Tasks : ~task'[s].fresh
               /\ ~loop'.fresh
            \/ /\ (store' = store /\ stale' = stale) \/ (store' = task[t].out /\ stale' = TRUE)
               /\ UNCHANGED <<added, cancelled>>
<1> DEFINE x == task[t]
<1>1. /\ UNCHANGED <<now, used, ops, crashes, done, sent, badSaves>>
      /\ given' = [given EXCEPT ![x.id] = @ \cup ScheduleOf(x.out, x.id)]
      /\ x.pc = "save"
  BY DEF Save
<1>2. task \in [Tasks -> TaskType] /\ loop \in LoopType
  BY DEF Typed
<1>3. x.op \in {"add", "edit", "cancel"} /\ x.id \in used
  BY <1>1, <1>2 DEF Requests, TaskType
<1>4. \A s \in Tasks : task[s] \in TaskType
  BY <1>2
<1>5. CASE /\ Write(x.fresh, x.out)
           /\ added' = IF x.op = "add" THEN added \cup {x.id} ELSE added
           /\ cancelled' = IF x.op = "cancel" THEN cancelled \cup {x.id} ELSE cancelled
           /\ task' = [s \in Tasks |-> IF s = t THEN IdleTask ELSE Overtaken(task[s])]
           /\ loop' = Overtaken(loop)
  <2>1. store' = x.out /\ stale' = (stale \/ ~x.fresh)
    BY <1>5, Zenon DEF Write
  <2>2. task'[t] = IdleTask /\ \A s \in Tasks \ {t} : task'[s] = Overtaken(task[s])
    BY <1>5
  <2>3. \A s \in Tasks \ {t} : /\ task'[s].out = task[s].out /\ task'[s].id = task[s].id
                               /\ task'[s].op = task[s].op /\ ~task'[s].fresh
    BY <2>2, <1>4, Records
  <2>4. /\ loop'.pc = loop.pc /\ loop'.due = loop.due /\ loop'.basis = loop.basis
        /\ loop'.out = loop.out /\ ~loop'.fresh
    BY <1>2, <1>5, Records
  <2>5. \A s \in Tasks : ~task'[s].fresh
    BY <2>2, <2>3, Records
  <2> HIDE DEF x
  <2> QED
    BY <1>1, <1>3, <1>5, <2>1, <2>2, <2>3, <2>4, <2>5 DEF x
<1>6. CASE /\ WriteFails(x.out)
           /\ task' = [task EXCEPT ![t] = IdleTask]
           /\ UNCHANGED <<added, cancelled, loop>>
  <2>1. (store' = store /\ stale' = stale) \/ (store' = x.out /\ stale' = TRUE)
    BY <1>6, Zenon DEF WriteFails
  <2>2. task'[t] = IdleTask /\ \A s \in Tasks \ {t} : task'[s] = task[s]
    BY <1>2, <1>6
  <2> QED
    BY <1>1, <1>3, <1>6, <2>1, <2>2
<1> QED
  BY <1>5, <1>6 DEF Save

\* Nothing is written, and no task becomes fresh.
LEMMA ChangesStay ==
  ASSUME Changes, UNCHANGED store, stale' = stale,
         loop'.fresh => loop.fresh /\ loop'.basis = loop.basis,
         \A s \in Tasks : task'[s].fresh =>
            /\ task[s].fresh /\ task'[s].op = task[s].op
            /\ task'[s].id = task[s].id /\ task'[s].out = task[s].out
  PROVE  Changes'
BY DEF Changes, IsChange, IsAdded, IsWithout, IsEdited

LEMMA NextChanges ==
  ASSUME Typed, Requests, Pass, Changes, [Next]_vars
  PROVE  Changes'
<1> USE DEF histVars, boundVars
<1>0. task \in [Tasks -> TaskType]
  BY DEF Typed
<1>1. ASSUME NEW t \in Tasks, Handle(t) PROVE Changes'
  <2>1. /\ UNCHANGED <<store, loop, stale>>
        /\ UNCHANGED task \/ \E r : IsStarted(t, r)
    BY <1>1, HandleEffect
  <2>2. CASE UNCHANGED task
    BY <2>1, <2>2, ChangesStay
  <2>3. CASE \E r : IsStarted(t, r)
    <3>1. PICK r : IsStarted(t, r)
      BY <2>3
    <3>2. task'[t] = r /\ \A s \in Tasks \ {t} : task'[s] = task[s]
      BY <3>1, <1>0 DEF IsStarted
    <3>3. r.fresh => IsChange(r)
      BY <3>1 DEF IsStarted
    <3> SUFFICES ASSUME ~stale', NEW s \in Tasks, task'[s].fresh
                 PROVE  IsChange(task[s])'
      BY <2>1 DEF Changes
    <3>4. CASE s = t
      BY <3>2, <3>3, <3>4, <2>1 DEF IsChange, IsAdded, IsWithout, IsEdited
    <3>5. CASE s # t
      BY <3>2, <3>5, <2>1 DEF Changes, IsChange, IsAdded, IsWithout, IsEdited
    <3> QED
      BY <3>4, <3>5
  <2> QED
    BY <2>1, <2>2, <2>3
<1>2. ASSUME NEW t \in Tasks, CancelCheck(t) PROVE Changes'
  <2>1. /\ UNCHANGED <<store, loop, stale>>
        /\ task' = [task EXCEPT ![t] = IdleTask] \/ task' = [task EXCEPT ![t] = [@ EXCEPT !.pc = "save"]]
    BY <1>2 DEF CancelCheck
  <2>2. task[t] \in TaskType
    BY <1>0
  <2>3. \A s \in Tasks : task'[s].fresh =>
            /\ task[s].fresh /\ task'[s].op = task[s].op
            /\ task'[s].id = task[s].id /\ task'[s].out = task[s].out
    <3>1. CASE task' = [task EXCEPT ![t] = IdleTask]
      BY <3>1, <1>0, Records
    <3>2. CASE task' = [task EXCEPT ![t] = [@ EXCEPT !.pc = "save"]]
      <4> DEFINE x == task[t]
                 y == [x EXCEPT !.pc = "save"]
      <4>1. y.op = x.op /\ y.id = x.id /\ y.out = x.out /\ y.fresh = x.fresh
        BY <2>2 DEF TaskType
      <4>2. task'[t] = y /\ \A s \in Tasks \ {t} : task'[s] = task[s]
        BY <3>2, <1>0
      <4> HIDE DEF y
      <4> QED
        BY <4>1, <4>2
    <3> QED
      BY <3>1, <3>2, <2>1
  <2> QED
    BY <2>1, <2>3, ChangesStay
<1>3. ASSUME NEW t \in Tasks, Save(t) PROVE Changes'
  <2> SUFFICES ASSUME ~stale' PROVE Changes'
    BY DEF Changes
  <2>1. CASE (\A s \in Tasks : ~task'[s].fresh) /\ ~loop'.fresh
    BY <2>1 DEF Changes
  <2>2. CASE store' = store /\ stale' = stale
    <3>1. \A s \in Tasks : task'[s].fresh =>
            /\ task[s].fresh /\ task'[s].op = task[s].op
            /\ task'[s].id = task[s].id /\ task'[s].out = task[s].out
      <4>1. /\ task'[t] = IdleTask
            /\ \A s \in Tasks \ {t} : /\ task'[s].out = task[s].out /\ task'[s].id = task[s].id
                                      /\ task'[s].op = task[s].op
                                      /\ task'[s].fresh => task[s].fresh
        BY <1>3, SaveEffect
      <4> QED
        BY <4>1, Records
    <3>2. loop'.fresh => loop.fresh /\ loop'.basis = loop.basis
      BY <1>3, SaveEffect
    <3> QED
      BY <3>1, <3>2, <2>2, ChangesStay
  <2> QED
    BY <2>1, <2>2, <1>3, SaveEffect
<1>4. ASSUME FireRead PROVE Changes'
  <2>1. /\ UNCHANGED <<store, task, stale>> /\ loop'.basis = store
    BY <1>4, FireReadEffect
  <2> QED
    BY <2>1 DEF Changes, IsChange, IsAdded, IsWithout, IsEdited
<1>5. ASSUME FireSend PROVE Changes'
  <2>1. UNCHANGED <<store, task, stale>> /\ loop'.basis = loop.basis /\ loop'.fresh = loop.fresh
    BY <1>5, FireSendEffect
  <2> QED
    BY <2>1, ChangesStay
<1>6. ASSUME FireSave PROVE Changes'
  <2> SUFFICES ASSUME ~stale' PROVE Changes'
    BY DEF Changes
  <2>1. loop' = IdleLoop /\ ~loop'.fresh
    BY <1>6, FireSaveEffect, Records
  <2>2. CASE task' = [t \in Tasks |-> Overtaken(task[t])]
    <3>1. \A s \in Tasks : task[s] \in TaskType /\ task'[s] = Overtaken(task[s])
      BY <2>2, <1>0
    <3>2. \A s \in Tasks : ~task'[s].fresh
      BY <3>1, Records
    <3> QED
      BY <2>1, <3>2 DEF Changes
  <2>3. CASE store' = store /\ stale' = stale /\ UNCHANGED task
    BY <2>1, <2>3, ChangesStay
  <2> QED
    BY <2>2, <2>3, <1>6, FireSaveEffect
<1>7. ASSUME Crash PROVE Changes'
  <2>1. UNCHANGED <<store, stale>> /\ task' = [t \in Tasks |-> IdleTask] /\ loop' = IdleLoop
    BY <1>7 DEF Crash
  <2>2. (\A s \in Tasks : ~task'[s].fresh) /\ ~loop'.fresh
    BY <2>1, Records
  <2> QED
    BY <2>2 DEF Changes
<1>8. ASSUME Tick PROVE Changes'
  BY <1>8, ChangesStay DEF Tick
<1>9. CASE UNCHANGED vars
  BY <1>9, ChangesStay DEF vars
<1> QED
  BY <1>1, <1>2, <1>3, <1>4, <1>5, <1>6, <1>7, <1>8, <1>9 DEF Next, Proceed, Fire, Terminated

-----------------------------------------------------------------------------
(* The list that is kept is the book. *)

LEMMA ChangeIds ==
  ASSUME NEW r, IsChange(r)
  PROVE  /\ r.op = "add" => IdsOf(r.out) = IdsOf(store) \cup {r.id}
         /\ r.op = "cancel" => IdsOf(r.out) = IdsOf(store) \ {r.id}
         /\ r.op = "edit" => IdsOf(r.out) = IdsOf(store)
<1>1. r.op = "add" => IdsOf(r.out) = IdsOf(store) \cup {r.id}
  BY DEF IsChange, IsAdded, IdsOf
<1>2. r.op = "cancel" => IdsOf(r.out) = IdsOf(store) \ {r.id}
  BY DEF IsChange, IsWithout, IdsOf
<1>3. r.op = "edit" => IdsOf(r.out) = IdsOf(store)
  BY DEF IsChange, IsEdited, IdsOf
<1> QED
  BY <1>1, <1>2, <1>3

\* When all were sent, the ids that are gone are those of jobs fired for good.
LEMMA PassOver ==
  ASSUME Typed, Pass, Elements(loop.due) = {}
  PROVE  IdsOf(loop.out) = IdsOf(loop.basis) \ FiredForGood
<1>1. PICK F \in SUBSET Elements(loop.basis) : IsPass(F)
  BY DEF Pass
<1>2. Elements(loop.basis) \subseteq Jobs
  BY JobsOfList DEF Typed, IsList
<1>3. IdsOf(loop.out) \subseteq IdsOf(loop.basis)
  BY PassIds
<1>4. ASSUME NEW j \in Elements(loop.basis), j.id \notin IdsOf(loop.out) PROVE j.repeat = "once"
  <2>1. j \in F
    BY <1>1, <1>4 DEF IsPass, IdsOf
  <2>2. NextAfter(j).id = j.id
    BY <2>1, <1>1, <1>2, NextJob DEF IsPass, Typed
  <2>3. j.repeat # "once" => NextAfter(j) \in Elements(loop.out)
    BY <2>1, <1>1 DEF IsPass, Fired
  <2> QED
    BY <2>2, <2>3, <1>4 DEF IdsOf
<1>5. ASSUME NEW i \in IdsOf(loop.basis), i \notin IdsOf(loop.out) PROVE i \in FiredForGood
  <2>1. PICK j \in Elements(loop.basis) : j.id = i
    BY DEF IdsOf
  <2> QED
    BY <2>1, <1>4, <1>5 DEF FiredForGood
<1>6. FiredForGood \cap IdsOf(loop.out) = {}
  BY DEF FiredForGood
<1> QED
  BY <1>3, <1>5, <1>6

LEMMA NextBook ==
  ASSUME Typed, Requests, Pass, Changes, BookKept, [Next]_vars
  PROVE  BookKept'
<1> SUFFICES ASSUME ~stale' PROVE IdsOf(store') = added' \ (cancelled' \cup done')
  BY DEF BookKept
<1> USE DEF histVars, boundVars
<1>1. ASSUME UNCHANGED <<store, stale, added, cancelled, done>>
      PROVE  IdsOf(store') = added' \ (cancelled' \cup done')
  BY <1>1 DEF BookKept
<1>2. ASSUME NEW t \in Tasks, Handle(t) PROVE IdsOf(store') = added' \ (cancelled' \cup done')
  BY <1>1, <1>2, HandleEffect
<1>3. ASSUME NEW t \in Tasks, CancelCheck(t)
      PROVE  IdsOf(store') = added' \ (cancelled' \cup done')
  BY <1>1, <1>3 DEF CancelCheck
<1>4. ASSUME NEW t \in Tasks, Save(t) PROVE IdsOf(store') = added' \ (cancelled' \cup done')
  <2> DEFINE x == task[t]
  <2>1. CASE /\ store' = x.out /\ stale' = (stale \/ ~x.fresh)
             /\ added' = IF x.op = "add" THEN added \cup {x.id} ELSE added
             /\ cancelled' = IF x.op = "cancel" THEN cancelled \cup {x.id} ELSE cancelled
    <3>1. ~stale /\ x.fresh
      BY <2>1
    <3>2. IsChange(x) /\ IdsOf(store) = added \ (cancelled \cup done)
      BY <3>1 DEF Changes, BookKept
    <3>3. /\ x.op = "add" => IdsOf(x.out) = IdsOf(store) \cup {x.id}
          /\ x.op = "cancel" => IdsOf(x.out) = IdsOf(store) \ {x.id}
          /\ x.op = "edit" => IdsOf(x.out) = IdsOf(store)
      BY <3>2, ChangeIds
    <3>4. x.op = "add" => x.id \notin added \cup cancelled \cup done
      BY DEF Requests, OnlyIn
    <3>5. x.op \in {"add", "edit", "cancel"} /\ UNCHANGED done
      BY <1>4, SaveEffect
    <3> HIDE DEF x
    <3>6. CASE x.op = "add"
      BY <2>1, <3>2, <3>3, <3>4, <3>5, <3>6
    <3>7. CASE x.op = "cancel"
      BY <2>1, <3>2, <3>3, <3>5, <3>7
    <3>8. CASE x.op = "edit"
      BY <2>1, <3>2, <3>3, <3>5, <3>8
    <3> QED
      BY <3>5, <3>6, <3>7, <3>8
  <2>2. CASE store' = store /\ stale' = stale /\ UNCHANGED <<added, cancelled>>
    BY <2>2, <1>1, <1>4, SaveEffect
  <2> QED
    BY <2>1, <2>2, <1>4, SaveEffect
<1>5. ASSUME FireRead PROVE IdsOf(store') = added' \ (cancelled' \cup done')
  BY <1>1, <1>5, FireReadEffect
<1>6. ASSUME FireSend PROVE IdsOf(store') = added' \ (cancelled' \cup done')
  BY <1>1, <1>6, FireSendEffect
<1>7. ASSUME FireSave PROVE IdsOf(store') = added' \ (cancelled' \cup done')
  <2>1. CASE /\ store' = loop.out /\ stale' = (stale \/ ~loop.fresh)
             /\ done' = done \cup FiredForGood
    <3>1. ~stale /\ loop.basis = store
      BY <2>1 DEF Changes
    <3>2. IdsOf(loop.out) = IdsOf(store) \ FiredForGood
      BY <3>1, <1>7, FireSaveEffect, PassOver
    <3>3. IdsOf(store) = added \ (cancelled \cup done)
      BY <3>1 DEF BookKept
    <3>4. UNCHANGED <<added, cancelled>>
      BY <1>7, FireSaveEffect
    <3> QED
      BY <2>1, <3>2, <3>3, <3>4
  <2>2. CASE store' = store /\ stale' = stale /\ UNCHANGED done
    BY <2>2, <1>1, <1>7, FireSaveEffect
  <2> QED
    BY <2>1, <2>2, <1>7, FireSaveEffect
<1>8. ASSUME Crash \/ Tick \/ UNCHANGED vars PROVE IdsOf(store') = added' \ (cancelled' \cup done')
  BY <1>1, <1>8 DEF Crash, Tick, vars
<1> QED
  BY <1>2, <1>3, <1>4, <1>5, <1>6, <1>7, <1>8 DEF Next, Proceed, Fire, Terminated

LEMMA NextStepOfBook ==
  ASSUME Typed, Requests, Pass, Changes, [Next]_vars
  PROVE  ~stale' => [Book!Next]_(Book!vars)
<1> SUFFICES ASSUME ~stale' PROVE [Book!Next]_(Book!vars)
  OBVIOUS
<1> USE DEF histVars, boundVars
<1>1. ASSUME UNCHANGED <<store, now>> PROVE [Book!Next]_(Book!vars)
  BY <1>1 DEF Book!vars, Elements
<1>2. ASSUME NEW t \in Tasks, Handle(t) PROVE [Book!Next]_(Book!vars)
  BY <1>1, <1>2, HandleEffect
<1>3. ASSUME NEW t \in Tasks, CancelCheck(t) PROVE [Book!Next]_(Book!vars)
  BY <1>1, <1>3 DEF CancelCheck
<1>9. store \in Seq(Jobs) /\ Distinct(store) /\ Len(store) <= MaxJobs
  BY DEF Typed, IsList
<1>10. Book!Jobs = Jobs
  BY DEF Book!Jobs, Jobs
<1>4. ASSUME NEW t \in Tasks, Save(t) PROVE [Book!Next]_(Book!vars)
  <2> DEFINE x == task[t]
  <2>1. CASE store' = x.out /\ stale' = (stale \/ ~x.fresh)
    <3>1. ~stale /\ x.fresh
      BY <2>1
    <3>2. IsChange(x)
      BY <3>1 DEF Changes
    <3>3. x.op \in {"add", "edit", "cancel"} /\ UNCHANGED now
      BY <1>4, SaveEffect
    <3>4. x.op = "add" => x.id \notin IdsOf(store)
      BY DEF Requests, OnlyIn
    <3> HIDE DEF x
    <3>5. CASE x.op = "add"
      <4>1. PICK j \in Jobs : j.id = x.id /\ Elements(x.out) = Elements(store) \cup {j}
        BY <3>2, <3>5 DEF IsChange, IsAdded
      <4>2. Cardinality(Elements(store)) < MaxJobs
        BY <3>2, <3>5, <1>9, Counting DEF IsChange, IsAdded
      <4>3. j.id \notin Book!IdsIn(Elements(store))
        BY <3>4, <3>5, <4>1 DEF Book!IdsIn, IdsOf
      <4>4. Elements(store') = Elements(store) \cup {j}
        BY <2>1, <4>1
      <4>5. Book!Add
        <5>1. j \in Book!Jobs
          BY <1>10
        <5>2. \E k \in Book!Jobs :
                 /\ k.id \notin Book!IdsIn(Elements(store))
                 /\ Book!Cardinality(Elements(store)) < MaxJobs
                 /\ Elements(store') = Elements(store) \cup {k}
                 /\ now' = now
          BY <5>1, <3>3, <4>2, <4>3, <4>4 DEF Book!Cardinality, Cardinality
        <5> QED
          BY <5>2 DEF Book!Add
      <4> QED
        BY <4>5 DEF Book!Next
    <3>6. CASE x.op = "cancel"
      <4>1. Elements(store') = {j \in Elements(store) : j.id # x.id}
        BY <2>1, <3>2, <3>6 DEF IsChange, IsWithout
      <4>2. CASE \E j \in Elements(store) : j.id = x.id
        <5>1. PICK j \in Elements(store) : j.id = x.id
          BY <4>2
        <5>2. Elements(store') = Elements(store) \ {j}
          BY <4>1, <5>1, <1>9, SameJob
        <5>3. Book!Cancel
          BY <5>2, <3>3 DEF Book!Cancel
        <5> QED
          BY <5>3 DEF Book!Next
      <4>3. CASE ~ \E j \in Elements(store) : j.id = x.id
        <5>1. Elements(store') = Elements(store)
          BY <4>1, <4>3
        <5> QED
          BY <5>1, <3>3 DEF Book!vars
      <4> QED
        BY <4>2, <4>3
    <3>7. CASE x.op = "edit"
      <4>1. CASE Elements(x.out) = Elements(store)
        BY <2>1, <4>1, <3>3 DEF Book!vars
      <4>2. CASE \E k \in Jobs :
                   /\ k.id = x.id /\ k.next > 0 /\ x.id \in IdsOf(store)
                   /\ Elements(x.out) = {j \in Elements(store) : j.id # x.id} \cup {k}
        <5>1. PICK k \in Jobs :
                   /\ k.id = x.id /\ k.next > 0 /\ x.id \in IdsOf(store)
                   /\ Elements(x.out) = {j \in Elements(store) : j.id # x.id} \cup {k}
          BY <4>2
        <5>2. PICK j \in Elements(store) : j.id = x.id
          BY <5>1 DEF IdsOf
        <5>3. {h \in Elements(store) : h.id # x.id} = Elements(store) \ {j}
          BY <5>2, <1>9, SameJob
        <5>4. Elements(store') = (Elements(store) \ {j}) \cup {k}
          BY <2>1, <5>1, <5>3
        <5>5. Book!Edit
          BY <1>10, <3>3, <5>1, <5>2, <5>4 DEF Book!Edit
        <5> QED
          BY <5>5 DEF Book!Next
      <4> QED
        BY <4>1, <4>2, <3>2, <3>7 DEF IsChange, IsEdited
    <3> QED
      BY <3>3, <3>5, <3>6, <3>7
  <2>2. CASE store' = store /\ stale' = stale
    BY <2>2, <1>1, <1>4, SaveEffect
  <2> QED
    BY <2>1, <2>2, <1>4, SaveEffect
<1>5. ASSUME FireRead \/ FireSend PROVE [Book!Next]_(Book!vars)
  BY <1>1, <1>5, FireReadEffect, FireSendEffect
<1>6. ASSUME FireSave PROVE [Book!Next]_(Book!vars)
  <2>1. CASE store' = loop.out /\ stale' = (stale \/ ~loop.fresh)
    <3>1. ~stale /\ loop.basis = store
      BY <2>1 DEF Changes
    <3>2. PICK F \in SUBSET Elements(store) : IsPass(F)
      BY <3>1 DEF Pass
    <3>3. Elements(loop.due) = {} /\ UNCHANGED now
      BY <1>6, FireSaveEffect
    <3>4. F \in SUBSET {j \in Elements(store) : j.next <= now}
      BY <3>2 DEF IsPass
    <3>5. Elements(store') = (Elements(store) \ F) \cup Fired(F)
      BY <2>1, <3>1, <3>2, <3>3 DEF IsPass
    <3>6. Elements(store) \subseteq Jobs
      BY <1>9, JobsOfList
    <3>7. \A j \in F : j.repeat # "once" => NextAfter(j) = Book!Advanced(j)
      <4> SUFFICES ASSUME NEW j \in F, j.repeat # "once" PROVE NextAfter(j) = Book!Advanced(j)
        OBVIOUS
      <4>1. j.repeat \in {"daily", "weekly"}
        BY <3>6, CronAssumption DEF Jobs
      <4>2. Book!Period[j.repeat] = IF j.repeat = "daily" THEN Day ELSE 7 * Day
        BY <4>1 DEF Book!Period
      <4> QED
        BY <4>2 DEF NextAfter, Book!Advanced
    <3>8. Fired(F) = {Book!Advanced(j) : j \in {k \in F : k.repeat # "once"}}
      BY <3>7 DEF Fired
    <3>9. Book!Fire
      BY <3>3, <3>4, <3>5, <3>8 DEF Book!Fire
    <3> QED
      BY <3>9 DEF Book!Next
  <2>2. CASE store' = store /\ stale' = stale
    BY <2>2, <1>1, <1>6, FireSaveEffect
  <2> QED
    BY <2>1, <2>2, <1>6, FireSaveEffect
<1>7. ASSUME Crash \/ UNCHANGED vars PROVE [Book!Next]_(Book!vars)
  BY <1>1, <1>7 DEF Crash, vars
<1>8. ASSUME Tick PROVE [Book!Next]_(Book!vars)
  <2>1. Book!Tick
    BY <1>8 DEF Tick, Book!Tick, Elements
  <2> QED
    BY <2>1 DEF Book!Next
<1> QED
  BY <1>2, <1>3, <1>4, <1>5, <1>6, <1>7, <1>8 DEF Next, Proceed, Fire, Terminated

-----------------------------------------------------------------------------
(* How often an occurrence is sent. *)

AheadIn(E, n, u) == \A j \in E, e \in 0..MaxTime : e >= j.next => n[<<j.id, e>>] <= u

LEMMA UndoneType == Typed => Undone \in Nat
BY DEF Typed, Undone

LEMMA InitSends == Init => Sends
<1> SUFFICES ASSUME Init PROVE Sends
  OBVIOUS
<1>1. \A i \in Ids, e \in 0..MaxTime : sent[<<i, e>>] = 0
  BY DEF Init
<1>2. \A o \in Ids \X (0..MaxTime) : sent[o] = 0
  BY DEF Init
<1>3. Undone = 0
  BY DEF Init, Undone
<1>4. loop.pc = "idle" /\ store = <<>> /\ \A t \in Tasks : ~task[t].fresh
  BY Records DEF Init
<1>5. Ahead(store)
  BY <1>4, EmptyList DEF Ahead
<1>6. \A o \in Ids \X (0..MaxTime) : sent[o] <= Undone + 1
  BY <1>2, <1>3
<1>7. SentOnce
  BY <1>4, <1>5, <1>6 DEF SentOnce
<1> QED
  BY <1>1, <1>7 DEF Sends

\* What is sent by now stays sent, and no more is sent.
LEMMA SentSoFar ==
  ASSUME Typed, Sends, UNCHANGED sent, now' \in Nat, now <= now'
  PROVE  \A i \in Ids, e \in 0..MaxTime : sent'[<<i, e>>] > 0 => e <= now'
<1>1. \A i \in Ids, e \in 0..MaxTime : sent[<<i, e>>] > 0 => e <= now
  BY DEF Sends
<1>2. now \in Nat /\ \A e \in 0..MaxTime : e \in Nat
  BY CronAssumption DEF Typed
<1> QED
  BY <1>1, <1>2

\* A crash and a failed save make good for what the pass has sent.
LEMMA UndonePasses ==
  ASSUME Typed, Typed', Sends, ~stale, UNCHANGED sent, Undone' = Undone + 1
  PROVE  SentOnce'
<1>1. \A o \in Ids \X (0..MaxTime) : sent[o] \in Nat /\ sent[o] <= Undone + 1
  BY DEF Sends, SentOnce, Typed
<1>2. Undone \in Nat
  BY UndoneType
<1>3. \A o \in Ids \X (0..MaxTime) : sent'[o] <= Undone' /\ sent'[o] <= Undone' + 1
  BY <1>1, <1>2
<1>4. ASSUME NEW l \in Seq(Jobs) PROVE AheadIn(Elements(l), sent', Undone')
  <2>1. \A j \in Elements(l) : j.id \in Ids
    <3>1. \A j \in Jobs : j.id \in Ids
      BY DEF Jobs
    <3> QED
      BY <3>1, JobsOfList
  <2> QED
    BY <2>1, <1>3 DEF AheadIn
<1>5. /\ store' \in Seq(Jobs) /\ \A t \in Tasks : task'[t].out \in Seq(Jobs)
      /\ loop'.due \in Seq(Jobs) /\ loop'.out \in Seq(Jobs)
  BY DEF Typed, IsList
<1>6. Ahead(store)' /\ Ahead(loop.due)' /\ Ahead(loop.out)'
  BY <1>4, <1>5 DEF Ahead, AheadIn
<1>7. \A t \in Tasks : Ahead(task[t].out)'
  BY <1>4, <1>5 DEF Ahead, AheadIn
<1> QED
  BY <1>3, <1>6, <1>7 DEF SentOnce

LEMMA HandleSends ==
  ASSUME Typed, Sends, NEW t \in Tasks, Handle(t)
  PROVE  Sends'
<1>1. /\ UNCHANGED <<store, loop, now, crashes, badSaves, sent, stale>>
      /\ UNCHANGED task \/ \E r : IsStarted(t, r)
  BY HandleEffect DEF histVars
<1>2. \A i \in Ids, e \in 0..MaxTime : sent'[<<i, e>>] > 0 => e <= now'
  BY <1>1 DEF Sends
<1> SUFFICES ASSUME ~stale PROVE SentOnce'
  BY <1>1, <1>2 DEF Sends
<1>3. SentOnce /\ Undone' = Undone
  BY <1>1 DEF Sends, Undone
<1>4. \A o \in Ids \X (0..MaxTime) : sent'[o] <= Undone' + 1
  BY <1>1, <1>3 DEF SentOnce
<1>5. ASSUME loop.pc = "send" PROVE Ahead(loop.due)' /\ Ahead(loop.out)'
  BY <1>1, <1>3, <1>5 DEF SentOnce, Ahead
<1>6. ASSUME loop.pc = "idle"
      PROVE  Ahead(store)' /\ \A s \in Tasks : task'[s].fresh => Ahead(task[s].out)'
  <2>1. AheadIn(Elements(store), sent, Undone)
    BY <1>3, <1>6 DEF SentOnce, Ahead, AheadIn
  <2>2. Ahead(store)'
    BY <2>1, <1>1, <1>3 DEF Ahead, AheadIn
  <2>3. \A s \in Tasks : task[s].fresh => AheadIn(Elements(task[s].out), sent, Undone)
    BY <1>3, <1>6 DEF SentOnce, Ahead, AheadIn
  <2>4. CASE UNCHANGED task
    BY <2>2, <2>3, <2>4, <1>1, <1>3 DEF Ahead, AheadIn
  <2>5. ASSUME NEW r, IsStarted(t, r), r.fresh PROVE AheadIn(Elements(r.out), sent, Undone)
    <3> SUFFICES ASSUME NEW j \in Elements(r.out), NEW e \in 0..MaxTime, e >= j.next
                 PROVE  sent[<<j.id, e>>] <= Undone
      BY DEF AheadIn
    <3>1. j \in Elements(store) \/ j.next > now
      BY <2>5 DEF IsStarted
    <3>2. CASE j \in Elements(store)
      BY <3>2, <2>1 DEF AheadIn
    <3>3. CASE j.next > now
      <4>1. r.out \in Seq(Jobs)
        BY <2>5 DEF IsStarted, TaskType
      <4>2. j.id \in Ids /\ j.next \in Int
        <5>1. \A k \in Jobs : k.id \in Ids /\ k.next \in Int
          BY DEF Jobs
        <5> QED
          BY <4>1, <5>1, JobsOfList
      <4>3. now \in Int /\ e \in Int /\ MaxTime \in Int
        BY CronAssumption DEF Typed
      <4>4. ~(e <= now)
        BY <3>3, <4>2, <4>3
      <4>5. ~(sent[<<j.id, e>>] > 0)
        BY <4>2, <4>4 DEF Sends
      <4>6. sent[<<j.id, e>>] \in Nat /\ Undone \in Nat
        BY <4>2, UndoneType DEF Typed
      <4> QED
        BY <4>5, <4>6
    <3> QED
      BY <3>1, <3>2, <3>3
  <2>6. CASE \E r : IsStarted(t, r)
    <3>1. PICK r : IsStarted(t, r)
      BY <2>6
    <3>2. task'[t] = r /\ \A s \in Tasks \ {t} : task'[s] = task[s]
      BY <3>1 DEF IsStarted, Typed
    <3>3. \A s \in Tasks : task'[s].fresh => AheadIn(Elements(task'[s].out), sent, Undone)
      BY <2>3, <2>5, <3>1, <3>2
    <3> QED
      BY <2>2, <3>3, <1>1, <1>3 DEF Ahead, AheadIn
  <2> QED
    BY <2>4, <2>6, <1>1
<1> QED
  BY <1>1, <1>4, <1>5, <1>6 DEF SentOnce

LEMMA FireSendSends ==
  ASSUME Typed, Typed', Pass, Sends, FireSend
  PROVE  Sends'
<1> DEFINE j == loop.due[1]
           o == <<j.id, j.next>>
<1>1. /\ UNCHANGED <<store, task, now, crashes, badSaves, stale>>
      /\ loop.pc = "send" /\ loop'.pc = "send"
      /\ j \in Elements(loop.due) /\ j \in Jobs /\ j.next <= now
      /\ Elements(loop'.due) = Elements(loop.due) \ {j}
      /\ Elements(loop'.out) = Elements(loop.out) \cup Fired({j})
      /\ sent' = [sent EXCEPT ![o] = @ + 1]
  BY FireSendEffect DEF boundVars
<1>2. j.id \in Ids /\ j.next \in 0..MaxTime
  BY <1>1, CronAssumption DEF Jobs, Typed, Horizon
<1>3. sent \in [Ids \X (0..MaxTime) -> Nat] /\ o \in Ids \X (0..MaxTime) /\ Undone \in Nat
  BY <1>2, UndoneType DEF Typed
<1>4. loop.due \in Seq(Jobs) /\ Distinct(loop.due) /\ loop.out \in Seq(Jobs)
  BY DEF Typed, IsList
<1>5. \A k \in Elements(loop.due) \ {j} : k.id # j.id
  BY <1>1, <1>4, SameJob
<1>6. \A k \in Elements(loop.out) : k.id # j.id
  BY <1>1, PassIds DEF IdsOf
<1> HIDE DEF j
<1>7. \A p \in Ids \X (0..MaxTime) : p # o => sent'[p] = sent[p]
  BY <1>1, <1>3
<1>8. sent'[o] = sent[o] + 1
  BY <1>1, <1>3
<1>9. \A i \in Ids, e \in 0..MaxTime : sent'[<<i, e>>] > 0 => e <= now'
  <2> SUFFICES ASSUME NEW i \in Ids, NEW e \in 0..MaxTime, sent'[<<i, e>>] > 0 PROVE e <= now
    BY <1>1
  <2>1. CASE <<i, e>> = o
    BY <2>1, <1>1
  <2>2. CASE <<i, e>> # o
    <3>1. sent[<<i, e>>] > 0
      BY <2>2, <1>7
    <3> QED
      BY <3>1 DEF Sends
  <2> QED
    BY <2>1, <2>2
<1> SUFFICES ASSUME ~stale PROVE SentOnce'
  BY <1>1, <1>9 DEF Sends
<1>10. SentOnce /\ Undone' = Undone
  BY <1>1 DEF Sends, Undone
<1>11. /\ \A p \in Ids \X (0..MaxTime) : sent[p] <= Undone + 1
       /\ AheadIn(Elements(loop.due), sent, Undone) /\ AheadIn(Elements(loop.out), sent, Undone)
  BY <1>1, <1>10 DEF SentOnce, Ahead, AheadIn
<1>12. sent[o] <= Undone
  <2>1. j.next >= j.next
    BY <1>2
  <2> QED
    BY <2>1, <1>1, <1>2, <1>11 DEF AheadIn
<1>13. \A p \in Ids \X (0..MaxTime) : sent'[p] <= Undone' + 1
  <2> SUFFICES ASSUME NEW p \in Ids \X (0..MaxTime) PROVE sent'[p] <= Undone + 1
    BY <1>10
  <2>1. CASE p = o
    <3>1. sent[o] \in Nat
      BY <1>3
    <3> QED
      BY <2>1, <3>1, <1>3, <1>8, <1>12
  <2>2. CASE p # o
    BY <2>2, <1>7, <1>11
  <2> QED
    BY <2>1, <2>2
<1>14. ASSUME NEW k \in Jobs, k.id # j.id, NEW e \in 0..MaxTime, sent[<<k.id, e>>] <= Undone
       PROVE  sent'[<<k.id, e>>] <= Undone'
  <2>1. <<k.id, e>> \in Ids \X (0..MaxTime) /\ <<k.id, e>> # o
    BY <1>14 DEF Jobs
  <2> QED
    BY <2>1, <1>7, <1>10, <1>14
<1>15. Elements(loop.due) \subseteq Jobs /\ Elements(loop.out) \subseteq Jobs
  BY <1>4, JobsOfList
<1>16. AheadIn(Elements(loop'.due), sent', Undone')
  <2> SUFFICES ASSUME NEW k \in Elements(loop'.due), NEW e \in 0..MaxTime, e >= k.next
               PROVE  sent'[<<k.id, e>>] <= Undone'
    BY DEF AheadIn
  <2>1. k \in Elements(loop.due) \ {j}
    BY <1>1
  <2> QED
    BY <2>1, <1>5, <1>11, <1>14, <1>15 DEF AheadIn
<1>17. AheadIn(Elements(loop'.out), sent', Undone')
  <2> SUFFICES ASSUME NEW k \in Elements(loop'.out), NEW e \in 0..MaxTime, e >= k.next
               PROVE  sent'[<<k.id, e>>] <= Undone'
    BY DEF AheadIn
  <2>1. CASE k \in Elements(loop.out)
    BY <2>1, <1>6, <1>11, <1>14, <1>15 DEF AheadIn
  <2>2. CASE k \in Fired({j})
    <3>1. k = NextAfter(j)
      BY <2>2 DEF Fired
    <3>2. k.id = j.id /\ k.next > j.next /\ k \in Jobs
      BY <3>1, <1>1, NextJob DEF Typed
    <3>3. k.next \in Int /\ j.next \in Int /\ e \in Int
      BY <3>2, <1>2, CronAssumption DEF Jobs
    <3>4. e # j.next /\ e >= j.next
      BY <3>2, <3>3
    <3>5. sent[<<j.id, e>>] <= Undone
      BY <3>4, <1>1, <1>11 DEF AheadIn
    <3>6. <<j.id, e>> \in Ids \X (0..MaxTime) /\ <<j.id, e>> # o
      BY <3>4, <1>2
    <3>7. sent'[<<j.id, e>>] = sent[<<j.id, e>>]
      BY <3>6, <1>7
    <3> QED
      BY <3>2, <3>5, <3>7, <1>10
  <2> QED
    BY <2>1, <2>2, <1>1
<1>18. Ahead(loop.due)' /\ Ahead(loop.out)'
  BY <1>16, <1>17 DEF Ahead, AheadIn
<1> QED
  BY <1>1, <1>13, <1>18 DEF SentOnce

LEMMA NextSends ==
  ASSUME Typed, Typed', Requests, Pass, Sends, [Next]_vars
  PROVE  Sends'
<1> USE DEF histVars, boundVars
<1>1. now \in Nat /\ Undone \in Nat /\ task \in [Tasks -> TaskType]
  BY UndoneType, CronAssumption DEF Typed
<1>2. ASSUME NEW t \in Tasks, CancelCheck(t) PROVE Sends'
  <2>1. /\ UNCHANGED <<store, loop, now, crashes, badSaves, sent, stale>>
        /\ task' = [task EXCEPT ![t] = IdleTask] \/ task' = [task EXCEPT ![t] = [@ EXCEPT !.pc = "save"]]
    BY <1>2 DEF CancelCheck
  <2>2. task[t] \in TaskType
    BY <1>1
  <2>3. \A s \in Tasks : task'[s].fresh => task[s].fresh /\ task'[s].out = task[s].out
    <3>1. CASE task' = [task EXCEPT ![t] = IdleTask]
      BY <3>1, <1>1, Records
    <3>2. CASE task' = [task EXCEPT ![t] = [@ EXCEPT !.pc = "save"]]
      <4> DEFINE x == task[t]
                 y == [x EXCEPT !.pc = "save"]
      <4>1. y.out = x.out /\ y.fresh = x.fresh
        BY <2>2 DEF TaskType
      <4>2. task'[t] = y /\ \A s \in Tasks \ {t} : task'[s] = task[s]
        BY <3>2, <1>1
      <4> HIDE DEF y
      <4> QED
        BY <4>1, <4>2
    <3> QED
      BY <3>1, <3>2, <2>1
  <2> QED
    BY <2>1, <2>3 DEF Sends, SentOnce, Ahead, Undone
<1>3. ASSUME NEW t \in Tasks, Save(t) PROVE Sends'
  <2>1. /\ UNCHANGED <<now, sent, crashes, badSaves>>
        /\ loop'.pc = loop.pc /\ loop'.due = loop.due /\ loop'.out = loop.out
    BY <1>3, SaveEffect
  <2>2. \A i \in Ids, e \in 0..MaxTime : sent'[<<i, e>>] > 0 => e <= now'
    BY <2>1 DEF Sends
  <2> SUFFICES ASSUME ~stale' PROVE SentOnce'
    BY <2>2 DEF Sends
  <2>3. CASE /\ store' = task[t].out /\ stale' = (stale \/ ~task[t].fresh)
             /\ \A s \in Tasks : ~task'[s].fresh
    <3>1. SentOnce /\ task[t].fresh
      BY <2>3 DEF Sends
    <3>2. loop.pc = "idle" => Ahead(task[t].out)
      BY <3>1 DEF SentOnce
    <3> QED
      BY <2>1, <2>3, <3>1, <3>2 DEF SentOnce, Ahead, Undone
  <2>4. CASE store' = store /\ stale' = stale
    <3>1. \A s \in Tasks : task'[s].fresh => task[s].fresh /\ task'[s].out = task[s].out
      <4>1. /\ task'[t] = IdleTask
            /\ \A s \in Tasks \ {t} : /\ task'[s].out = task[s].out
                                      /\ task'[s].fresh => task[s].fresh
        BY <1>3, SaveEffect
      <4> QED
        BY <4>1, Records
    <3>2. SentOnce
      BY <2>4 DEF Sends
    <3> QED
      BY <2>1, <2>4, <3>1, <3>2 DEF SentOnce, Ahead, Undone
  <2> QED
    BY <2>3, <2>4, <1>3, SaveEffect
<1>4. ASSUME FireRead PROVE Sends'
  <2>1. /\ UNCHANGED <<store, task, now, crashes, badSaves, sent, stale>>
        /\ loop.pc = "idle" /\ loop'.pc = "send"
        /\ Elements(loop'.due) \subseteq Elements(store)
        /\ Elements(loop'.out) \subseteq Elements(store)
    BY <1>4, FireReadEffect DEF FireRead
  <2> QED
    BY <2>1 DEF Sends, SentOnce, Ahead, Undone
<1>5. ASSUME FireSave PROVE Sends'
  <2>1. UNCHANGED <<now, sent, crashes>> /\ loop.pc = "send" /\ loop'.pc = "idle"
    BY <1>5, FireSaveEffect, Records
  <2>2. \A i \in Ids, e \in 0..MaxTime : sent'[<<i, e>>] > 0 => e <= now'
    BY <2>1 DEF Sends
  <2> SUFFICES ASSUME ~stale' PROVE SentOnce'
    BY <2>2 DEF Sends
  <2>3. CASE /\ store' = loop.out /\ stale' = (stale \/ ~loop.fresh) /\ badSaves' = badSaves
             /\ task' = [t \in Tasks |-> Overtaken(task[t])]
    <3>1. SentOnce /\ Ahead(loop.out)
      BY <2>1, <2>3 DEF Sends, SentOnce
    <3>2. \A s \in Tasks : task[s] \in TaskType /\ task'[s] = Overtaken(task[s])
      BY <2>3, <1>1
    <3>3. \A s \in Tasks : ~task'[s].fresh
      BY <3>2, Records
    <3> QED
      BY <2>1, <2>3, <3>1, <3>3 DEF SentOnce, Ahead, Undone
  <2>4. CASE stale' = stale /\ badSaves' = badSaves + 1
    <3>1. Undone' = Undone + 1
      BY <2>1, <2>4 DEF Undone, Typed
    <3> QED
      BY <3>1, <2>1, <2>4, UndonePasses
  <2> QED
    BY <2>3, <2>4, <1>5, FireSaveEffect
<1>6. ASSUME Crash PROVE Sends'
  <2>1. UNCHANGED <<now, sent, stale, badSaves>> /\ crashes' = crashes + 1
    BY <1>6 DEF Crash
  <2>2. Undone' = Undone + 1
    BY <2>1 DEF Undone, Typed
  <2>3. \A i \in Ids, e \in 0..MaxTime : sent'[<<i, e>>] > 0 => e <= now'
    BY <2>1 DEF Sends
  <2> QED
    BY <2>1, <2>2, <2>3, UndonePasses DEF Sends
<1>7. ASSUME Tick PROVE Sends'
  <2>1. /\ UNCHANGED <<store, task, loop, sent, stale, crashes, badSaves>>
        /\ now' = now + 1
    BY <1>7 DEF Tick
  <2>2. now' \in Nat /\ now <= now'
    BY <2>1, <1>1
  <2>3. \A i \in Ids, e \in 0..MaxTime : sent'[<<i, e>>] > 0 => e <= now'
    BY <2>1, <2>2, SentSoFar
  <2> QED
    BY <2>1, <2>3 DEF Sends, SentOnce, Ahead, Undone
<1>8. CASE UNCHANGED vars
  BY <1>8 DEF vars, Sends, SentOnce, Ahead, Undone
<1> QED
  BY <1>2, <1>3, <1>4, <1>5, <1>6, <1>7, <1>8, HandleSends, FireSendSends
     DEF Next, Proceed, Fire, Terminated

-----------------------------------------------------------------------------
(* The phase of recurring jobs. *)

LEMMA OnePeriodOn ==
  ASSUME NEW x \in Nat, NEW p \in Nat \ {0}, x = 0 \/ x % p = 0
  PROVE  (x + p) % p = 0
<1>1. CASE x = 0
  BY <1>1
<1>2. CASE x % p = 0
  <2> DEFINE q == x \div p
             y == x + p
             d == y \div p
             r == y % p
  <2>1. q \in Int /\ x = p * q + (x % p)
    <3>1. x \in Int /\ p \in Int /\ p > 0
      OBVIOUS
    <3>2. (x \div p) \in Int /\ x = p * (x \div p) + (x % p)
      BY <3>1
    <3> QED
      BY <3>2
  <2>2. y \in Int /\ d \in Int /\ r \in 0..(p - 1) /\ y = p * d + r
    OBVIOUS
  <2>3. x = p * q /\ y = x + p
    BY <1>2, <2>1
  <2> HIDE DEF q, y, d, r
  <2>4. p * (q + 1) = p * q + p
    BY <2>1
  <2>5. p * (q + 1) = p * d + r
    BY <2>1, <2>2, <2>3, <2>4
  <2>6. p * (q + 1 - d) = r
    BY <2>1, <2>2, <2>5
  <2>7. r = 0
    <3> DEFINE e == q + 1 - d
    <3>1. e \in Int /\ p * e = r
      BY <2>1, <2>2, <2>6
    <3> HIDE DEF e
    <3>2. e >= 1 => p * e >= p
      BY <3>1
    <3>3. e <= -1 => p * e <= -p
      BY <3>1
    <3> QED
      BY <3>1, <3>2, <3>3, <2>2
  <2> QED
    BY <2>7 DEF r, y
<1> QED
  BY <1>1, <1>2

LEMMA InitPhases == Init => Phases
BY Records, EmptyList DEF Init, Phases

\* More schedules leave a job in phase.
LEMMA PhaseStays ==
  ASSUME NEW j, InPhase(j), given[j.id] \subseteq given'[j.id]
  PROVE  InPhase(j)'
BY DEF InPhase

LEMMA NextInPhase ==
  ASSUME Typed, NEW j \in Jobs, j.next <= now, j.repeat # "once", InPhase(j)
  PROVE  InPhase(NextAfter(j))
<1> DEFINE p == IF j.repeat = "daily" THEN Day ELSE 7 * Day
<1>1. /\ NextAfter(j).id = j.id /\ NextAfter(j).repeat = j.repeat
      /\ NextAfter(j).next = j.next + p /\ NextAfter(j).next > j.next
  BY NextJob DEF Typed
<1>2. p \in Nat \ {0}
  BY CronAssumption
<1>3. PICK s \in given[j.id] :
        /\ s.repeat = j.repeat /\ s.next <= j.next
        /\ j.next = s.next \/ (j.next - s.next) % p = 0
  BY DEF InPhase
<1>4. j.next \in Nat /\ s.next \in Nat
  <2>1. given[j.id] \subseteq Schedules
    BY DEF Typed, Jobs
  <2> QED
    BY <2>1, CronAssumption DEF Schedules, Jobs, Horizon
<1> DEFINE x == j.next - s.next
<1>5. x \in Nat /\ (x = 0 \/ x % p = 0)
  BY <1>3, <1>4
<1>6. j.next + p - s.next = x + p /\ s.next <= j.next + p
  BY <1>2, <1>3, <1>4
<1> HIDE DEF x
<1>7. (x + p) % p = 0
  <2> HIDE DEF p
  <2> QED
    BY <1>2, <1>5, OnePeriodOn
<1>8. (NextAfter(j).next - s.next) % p = 0
  <2> HIDE DEF p
  <2>1. NextAfter(j).next - s.next = x + p
    BY <1>1, <1>2, <1>4, <1>6
  <2> QED
    BY <2>1, <1>7
<1> QED
  BY <1>1, <1>3, <1>6, <1>8 DEF InPhase

LEMMA NextPhases ==
  ASSUME Typed, Requests, Pass, Phases, [Next]_vars
  PROVE  Phases'
<1> USE DEF histVars, boundVars
<1>1. task \in [Tasks -> TaskType]
  BY DEF Typed
<1>2. ASSUME UNCHANGED given,
             \A j \in Elements(store') \cup Elements(loop'.due) \cup Elements(loop'.out) :
                j \in Elements(store) \cup Elements(loop.due) \cup Elements(loop.out),
             \A s \in Tasks : \/ task'[s].out = <<>>
                              \/ task'[s].out = task[s].out /\ task'[s].id = task[s].id
      PROVE  Phases'
  <2>1. \A j \in Elements(store') \cup Elements(loop'.due) \cup Elements(loop'.out) : InPhase(j)'
    BY <1>2 DEF Phases, InPhase
  <2>2. ASSUME NEW s \in Tasks, NEW j \in Elements(task'[s].out)
        PROVE  j.id = task'[s].id \/ InPhase(j)'
    BY <1>2, EmptyList DEF Phases, InPhase
  <2> QED
    BY <2>1, <2>2 DEF Phases
<1>3. ASSUME NEW t \in Tasks, Handle(t) PROVE Phases'
  <2>1. UNCHANGED <<store, loop, given>> /\ (UNCHANGED task \/ \E r : IsStarted(t, r))
    BY <1>3, HandleEffect
  <2>2. CASE UNCHANGED task
    BY <2>1, <2>2, <1>2
  <2>3. CASE \E r : IsStarted(t, r)
    <3>1. PICK r : IsStarted(t, r)
      BY <2>3
    <3>2. task'[t] = r /\ \A s \in Tasks \ {t} : task'[s] = task[s]
      BY <3>1, <1>1 DEF IsStarted
    <3>3. \A j \in Elements(r.out) : j.id = r.id \/ InPhase(j)
      BY <3>1 DEF IsStarted, Phases
    <3>4. \A s \in Tasks : \A j \in Elements(task'[s].out) : j.id = task'[s].id \/ InPhase(j)
      BY <3>2, <3>3 DEF Phases
    <3> QED
      BY <2>1, <3>4 DEF Phases, InPhase
  <2> QED
    BY <2>1, <2>2, <2>3
<1>4. ASSUME NEW t \in Tasks, CancelCheck(t) PROVE Phases'
  <2>1. /\ UNCHANGED <<store, loop, given>>
        /\ task' = [task EXCEPT ![t] = IdleTask] \/ task' = [task EXCEPT ![t] = [@ EXCEPT !.pc = "save"]]
    BY <1>4 DEF CancelCheck
  <2>2. task[t] \in TaskType
    BY <1>1
  <2>3. \A s \in Tasks : \/ task'[s].out = <<>>
                         \/ task'[s].out = task[s].out /\ task'[s].id = task[s].id
    <3>1. CASE task' = [task EXCEPT ![t] = IdleTask]
      BY <3>1, <1>1, Records
    <3>2. CASE task' = [task EXCEPT ![t] = [@ EXCEPT !.pc = "save"]]
      <4> DEFINE x == task[t]
                 y == [x EXCEPT !.pc = "save"]
      <4>1. y.out = x.out /\ y.id = x.id
        BY <2>2 DEF TaskType
      <4>2. task'[t] = y /\ \A s \in Tasks \ {t} : task'[s] = task[s]
        BY <3>2, <1>1
      <4> HIDE DEF y
      <4> QED
        BY <4>1, <4>2
    <3> QED
      BY <3>1, <3>2, <2>1
  <2> QED
    BY <2>1, <2>3, <1>2
<1>5. ASSUME NEW t \in Tasks, Save(t) PROVE Phases'
  <2> DEFINE id == task[t].id
             out == task[t].out
  <2>1. /\ id \in Ids
        /\ given' = [given EXCEPT ![id] = @ \cup ScheduleOf(out, id)]
        /\ store' \in {store, out}
        /\ loop'.due = loop.due /\ loop'.out = loop.out
        /\ \A s \in Tasks : \/ task'[s].out = <<>>
                            \/ task'[s].out = task[s].out /\ task'[s].id = task[s].id
    <3>1. id \in Ids
      BY <1>5, SaveEffect DEF Typed
    <3>2. \A s \in Tasks : \/ task'[s].out = <<>>
                           \/ task'[s].out = task[s].out /\ task'[s].id = task[s].id
      <4>1. /\ task'[t] = IdleTask
            /\ \A s \in Tasks \ {t} : task'[s].out = task[s].out /\ task'[s].id = task[s].id
        BY <1>5, SaveEffect
      <4> QED
        BY <4>1, Records
    <3>3. /\ given' = [given EXCEPT ![id] = @ \cup ScheduleOf(out, id)]
          /\ store' \in {store, out}
          /\ loop'.due = loop.due /\ loop'.out = loop.out
      BY <1>5, SaveEffect
    <3> QED
      BY <3>1, <3>2, <3>3
  <2>2. given \in [Ids -> SUBSET Schedules] /\ out \in Seq(Jobs)
    BY DEF Typed, IsList
  <2>3. \A j \in Elements(out) : j.id = id \/ InPhase(j)
    BY DEF Phases
  <2> HIDE DEF id, out
  <2>4. given'[id] = given[id] \cup ScheduleOf(out, id) /\ \A i \in Ids : given[i] \subseteq given'[i]
    BY <2>1, <2>2
  <2>5. \A j \in Jobs : InPhase(j) => InPhase(j)'
    <3>1. \A j \in Jobs : j.id \in Ids
      BY DEF Jobs
    <3> QED
      BY <2>4, <3>1 DEF InPhase
  <2>6. ASSUME NEW j \in Elements(out), j.id = id PROVE InPhase(j)'
    <3> DEFINE s == [next |-> j.next, repeat |-> j.repeat]
    <3>1. s \in given'[j.id]
      BY <2>4, <2>6 DEF ScheduleOf
    <3>2. j.next \in Int
      <4>1. \A k \in Jobs : k.next \in Int
        BY DEF Jobs
      <4> QED
        BY <4>1, <2>2, JobsOfList
    <3>3. s.repeat = j.repeat /\ s.next <= j.next /\ j.next = s.next
      BY <3>2
    <3> QED
      BY <3>1, <3>3 DEF InPhase
  <2>7. \A j \in Elements(out) : InPhase(j)'
    BY <2>2, <2>3, <2>5, <2>6, JobsOfList
  <2>8. \A j \in Elements(store) \cup Elements(loop.due) \cup Elements(loop.out) :
           InPhase(j) /\ j \in Jobs
    BY JobsOfList DEF Phases, Typed, IsList
  <2>9. \A j \in Elements(store') \cup Elements(loop'.due) \cup Elements(loop'.out) : InPhase(j)'
    BY <2>1, <2>5, <2>7, <2>8
  <2>10. ASSUME NEW s \in Tasks, NEW j \in Elements(task'[s].out)
         PROVE  j.id = task'[s].id \/ InPhase(j)'
    <3>1. /\ task'[s].out = task[s].out /\ task'[s].id = task[s].id
          /\ j \in Elements(task[s].out)
      BY <2>1, EmptyList
    <3>2. j \in Jobs
      BY <3>1, JobsOfList DEF Typed, IsList
    <3> QED
      BY <2>5, <3>1, <3>2 DEF Phases
  <2> QED
    BY <2>9, <2>10 DEF Phases
<1>6. ASSUME FireRead PROVE Phases'
  BY <1>2, <1>6, FireReadEffect
<1>7. ASSUME FireSend PROVE Phases'
  <2> DEFINE j == loop.due[1]
  <2>1. /\ UNCHANGED <<store, task, given>>
        /\ j \in Elements(loop.due) /\ j \in Jobs /\ j.next <= now
        /\ Elements(loop'.due) \subseteq Elements(loop.due)
        /\ Elements(loop'.out) = Elements(loop.out) \cup Fired({j})
    BY <1>7, FireSendEffect
  <2> HIDE DEF j
  <2>2. ASSUME NEW k \in Fired({j}) PROVE InPhase(k)
    BY <2>1, NextInPhase DEF Fired, Phases
  <2>3. \A k \in Elements(store') \cup Elements(loop'.due) \cup Elements(loop'.out) : InPhase(k)
    BY <2>1, <2>2 DEF Phases
  <2>4. \A k \in Elements(store') \cup Elements(loop'.due) \cup Elements(loop'.out) : InPhase(k)'
    BY <2>1, <2>3 DEF InPhase
  <2> QED
    BY <2>1, <2>4 DEF Phases, InPhase
<1>8. ASSUME FireSave PROVE Phases'
  <2>1. /\ UNCHANGED given /\ loop' = IdleLoop /\ store' \in {store, loop.out}
        /\ task' = task \/ task' = [t \in Tasks |-> Overtaken(task[t])]
    BY <1>8, FireSaveEffect
  <2>2. Elements(loop'.due) = {} /\ Elements(loop'.out) = {}
    BY <2>1, Records, EmptyList
  <2>3. \A s \in Tasks : task'[s].out = task[s].out /\ task'[s].id = task[s].id
    <3>1. CASE task' = [t \in Tasks |-> Overtaken(task[t])]
      <4>1. \A s \in Tasks : task[s] \in TaskType /\ task'[s] = Overtaken(task[s])
        BY <3>1, <1>1
      <4> QED
        BY <4>1, Records
    <3> QED
      BY <3>1, <2>1
  <2> QED
    BY <2>1, <2>2, <2>3, <1>2
<1>9. ASSUME Crash PROVE Phases'
  <2>1. UNCHANGED <<store, given>> /\ loop' = IdleLoop /\ task' = [t \in Tasks |-> IdleTask]
    BY <1>9 DEF Crash
  <2>2. Elements(loop'.due) = {} /\ Elements(loop'.out) = {} /\ \A s \in Tasks : task'[s].out = <<>>
    BY <2>1, Records, EmptyList
  <2> QED
    BY <2>1, <2>2, <1>2
<1>10. ASSUME Tick \/ UNCHANGED vars PROVE Phases'
  BY <1>10, <1>2 DEF Tick, vars
<1> QED
  BY <1>3, <1>4, <1>5, <1>6, <1>7, <1>8, <1>9, <1>10 DEF Next, Proceed, Fire, Terminated

-----------------------------------------------------------------------------
(* The theorems. *)

LEMMA CronCorrect == Spec => []CronInv
<1>1. Init => CronInv
  <2>1. Init => BookKept
    BY EmptyList DEF Init, BookKept
  <2> QED
    BY <2>1, InitTyped, InitChanges, InitSends, InitPhases DEF CronInv
<1>2. CronInv /\ [Next]_vars => CronInv'
  <2> SUFFICES ASSUME CronInv, [Next]_vars PROVE CronInv'
    OBVIOUS
  <2>1. Typed /\ Requests /\ Pass /\ Changes /\ BookKept /\ Sends /\ Phases
    BY DEF CronInv
  <2>2. Typed' /\ Requests' /\ Pass'
    BY <2>1, NextTyped
  <2>3. Changes' /\ BookKept' /\ Sends' /\ Phases'
    BY <2>1, <2>2, NextChanges, NextBook, NextSends, NextPhases
  <2> QED
    BY <2>2, <2>3 DEF CronInv
<1> QED
  BY <1>1, <1>2, PTL DEF Spec

\* Whatever messages, failures of Redis and crashes overlap, the list never outgrows
\* MAX_JOBS and never holds an id twice: add_job checks a list it read earlier.
THEOREM CronTypeCorrect == Spec => []TypeOK
<1>1. CronInv => TypeOK
  <2> SUFFICES ASSUME CronInv PROVE TypeOK
    OBVIOUS
  <2>1. Typed
    BY DEF CronInv
  <2>2. store \in Seq(Jobs) /\ Len(store) <= MaxJobs /\ Cardinality(IdsOf(store)) = Len(store)
    BY <2>1, Counting DEF Typed, IsList
  <2>3. loop.pc \in {"idle", "send"} /\ \A t \in Tasks : task[t].pc \in {"idle", "check", "save"}
    BY <2>1 DEF Typed, LoopType, TaskType
  <2> QED
    BY <2>1, <2>2, <2>3 DEF TypeOK, Typed
<1> QED
  BY <1>1, CronCorrect, PTL

\* Until the first stale write the list holds what was stored and neither cancelled nor
\* fired for good, and an occurrence is sent again only after a crash or a failed save;
\* recurring jobs stay in phase with a schedule some user gave them, stale writes or not.
THEOREM CronRemindersKept == Spec => []RemindersKept
<1>1. CronInv => RemindersKept
  <2> SUFFICES ASSUME CronInv PROVE RemindersKept
    OBVIOUS
  <2>1. Typed /\ BookKept /\ Sends /\ Phases
    BY DEF CronInv
  <2>2. RepeatsExplained
    <3> SUFFICES ASSUME ~stale, NEW o \in DOMAIN sent
                 PROVE  sent[o] <= 1 + crashes + badSaves
      BY DEF RepeatsExplained
    <3>1. o \in Ids \X (0..MaxTime)
      BY <2>1 DEF Typed
    <3>2. sent[o] <= Undone + 1
      BY <2>1, <3>1 DEF Sends, SentOnce
    <3>3. crashes \in Nat /\ badSaves \in Nat
      BY <2>1 DEF Typed
    <3>4. Undone + 1 = 1 + crashes + badSaves
      BY <3>3 DEF Undone
    <3> QED
      BY <3>2, <3>4
  <2>3. PhaseKept
    BY <2>1 DEF PhaseKept, Phases, InPhase, Elements
  <2> QED
    BY <2>1, <2>2, <2>3 DEF RemindersKept
<1> QED
  BY <1>1, CronCorrect, PTL

\* Up to the first stale write the storage functions implement the reminder book step
\* by step: each request and each pass is one change of the book, or none.
THEOREM CronStepsOfBook == Spec => StepsOfBook
<1>1. CronInv /\ [Next]_vars => [~stale' => [Book!Next]_(Book!vars)]_vars
  BY NextStepOfBook DEF CronInv
<1> QED
  BY <1>1, CronCorrect, PTL DEF Spec, StepsOfBook
=============================================================================
