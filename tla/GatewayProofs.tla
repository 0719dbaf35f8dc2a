---------------------------- MODULE GatewayProofs ----------------------------
(* Theorems about Gateway, for every value of its constants.               *)
EXTENDS Gateway, SequenceTheorems, FiniteSetTheorems,
        WellFoundedInduction, TLAPS

-----------------------------------------------------------------------------
(* Induction is replaced by least counterexamples. *)

SmallerPair == {pair \in Nat \X Nat : pair[1] < pair[2]}

\* A nonempty set of naturals has a least element.
LEMMA LeastElement ==
  ASSUME NEW numbers \in SUBSET Nat, numbers # {}
  PROVE  \E least \in numbers : \A n \in numbers : least <= n
<1>1. IsWellFoundedOn(SmallerPair, Nat)
  BY NatLessThanWellFounded DEF OpToRel, SmallerPair
<1>2. PICK x \in numbers : \A y \in numbers : ~ (<<y, x>> \in SmallerPair)
  BY <1>1, WFMin, Zenon
<1>3. \A y \in numbers : ~(y < x)
  BY <1>2 DEF SmallerPair
<1> QED
  BY <1>3

-----------------------------------------------------------------------------
\* SlidingWindowRateLimiter._prune returns a suffix of the deque whose first
\* element, if any, is recent.
LEMMA FirstRecentExists ==
  ASSUME NEW k \in Keys, hits[k] \in Seq(Nat), now \in Nat
  PROVE  /\ FirstRecent(k) \in 1 .. Len(hits[k]) + 1
         /\ FirstRecent(k) <= Len(hits[k]) => Recent(hits[k][FirstRecent(k)])
         /\ \A j \in 1 .. FirstRecent(k) - 1 : ~Recent(hits[k][j])
<1> DEFINE Stop == {i \in 1 .. Len(hits[k]) + 1 :
                      i <= Len(hits[k]) => Recent(hits[k][i])}
<1>1. Len(hits[k]) \in Nat
  BY LenProperties
<1>2. Len(hits[k]) + 1 \in Stop /\ Stop \in SUBSET Nat
  BY <1>1
<1>3. PICK m \in Stop : \A n \in Stop : m <= n
  BY <1>2, LeastElement
<1>4. \A j \in 1 .. m - 1 : ~Recent(hits[k][j])
  BY <1>1, <1>3
<1>5. \E i \in 1 .. Len(hits[k]) + 1 :
        /\ i <= Len(hits[k]) => Recent(hits[k][i])
        /\ \A j \in 1 .. i - 1 : ~Recent(hits[k][j])
  BY <1>3, <1>4
<1> QED
  BY <1>5 DEF FirstRecent

LEMMA PrunedType ==
  ASSUME NEW k \in Keys, hits[k] \in Seq(Nat), now \in Nat
  PROVE  /\ Pruned(k) \in Seq(Nat)
         /\ Len(Pruned(k)) <= Len(hits[k])
         /\ Append(Pruned(k), now) \in Seq(Nat)
         /\ Len(Append(Pruned(k), now)) = Len(Pruned(k)) + 1
<1>1. Len(hits[k]) \in Nat /\ \A i \in 1 .. Len(hits[k]) : hits[k][i] \in Nat
  BY LenProperties, ElementOfSeq
<1>2. FirstRecent(k) \in 1 .. Len(hits[k]) + 1
  BY FirstRecentExists
<1>3. \A i \in FirstRecent(k) .. Len(hits[k]) : hits[k][i] \in Nat
  BY <1>1, <1>2
<1>4. /\ Pruned(k) \in Seq(Nat)
      /\ Len(Pruned(k)) = IF FirstRecent(k) <= Len(hits[k])
                          THEN Len(hits[k]) - FirstRecent(k) + 1 ELSE 0
  <2> DEFINE a == FirstRecent(k)
             b == Len(hits[k])
             s == hits[k]
  <2>1. a \in Int /\ b \in Int /\ \A i \in a .. b : s[i] \in Nat
    BY <1>1, <1>2, <1>3
  <2> HIDE DEF a, b, s
  <2>2. /\ SubSeq(s, a, b) \in Seq(Nat)
        /\ Len(SubSeq(s, a, b)) = IF a <= b THEN b - a + 1 ELSE 0
    BY <2>1, SubSeqProperties
  <2> QED
    BY <2>2 DEF a, b, s, Pruned
<1>5. Pruned(k) \in Seq(Nat) /\ Len(Pruned(k)) <= Len(hits[k])
  BY <1>1, <1>2, <1>4
<1> QED
  BY <1>5, AppendProperties

LEMMA ErrorOfType == \A r \in Failing : r \in AllReplies /\ ErrorOf[r] \in ErrorCodes
BY DEF Failing, ErrorOf, AllReplies, ErrorCodes

-----------------------------------------------------------------------------
(* Type correctness.  While a chat call is awaited the position is that of *)
(* a key, and the log has an entry to complete.                            *)

AwaitInv == pc = "await" => idx <= Len(names[pool]) /\ Len(log) > 0
TInv == TypeOK /\ AwaitInv

LEMMA KeyType ==
  ASSUME TypeOK, idx <= Len(names[pool])
  PROVE  Key \in Keys
<1>1. names[pool] \in Seq(Keys)
  BY GatewayAssumption DEF TypeOK
<1>2. idx \in 1 .. Len(names[pool])
  BY <1>1, LenProperties DEF TypeOK
<1> QED
  BY <1>1, <1>2, ElementOfSeq DEF Key

\* Adding an entry to the log keeps its type.
LEMMA AppendedType ==
  ASSUME log \in Seq(Call), NEW c \in Call, log' = Append(log, c)
  PROVE  /\ log' \in Seq(Call)
         /\ Len(log') = Len(log) + 1 /\ Len(log') > 0
         /\ \A i \in 1 .. Len(log') :
               log'[i] = IF i = Len(log') THEN c ELSE log[i]
<1>1. Len(log) \in Nat
  BY LenProperties
<1>2. /\ Append(log, c) \in Seq(Call)
      /\ Len(Append(log, c)) = Len(log) + 1
      /\ \A i \in 1 .. Len(log) : Append(log, c)[i] = log[i]
      /\ Append(log, c)[Len(log) + 1] = c
  BY AppendProperties
<1> QED
  BY <1>1, <1>2

\* Completing the last entry of the log keeps its type.
LEMMA LoggedType ==
  ASSUME TypeOK, Len(log) > 0, NEW r \in AllReplies, Logged(r)
  PROVE  /\ log' \in Seq(Call)
         /\ Len(log') = Len(log)
         /\ \A i \in 1 .. Len(log) :
               log'[i] = IF i = Len(log)
                         THEN [log[i] EXCEPT !.done = now, !.reply = r]
                         ELSE log[i]
<1> DEFINE c == [log[Len(log)] EXCEPT !.done = now, !.reply = r]
<1>1. log \in Seq(Call) /\ Len(log) \in 1 .. Len(log)
  BY EmptySeq DEF TypeOK
<1>2. log[Len(log)] \in Call
  BY <1>1, ElementOfSeq
<1>3. c \in Call
  BY <1>2 DEF Call, TypeOK
<1>4. log' = [log EXCEPT ![Len(log)] = c]
  BY <1>1, <1>2 DEF Logged, Call
<1>5. c = [log[Len(log)] EXCEPT !.done = now, !.reply = r]
  OBVIOUS
<1> HIDE DEF c
<1>6. /\ log' \in Seq(Call)
      /\ Len(log') = Len(log)
      /\ \A i \in 1 .. Len(log) : log'[i] = IF i = Len(log) THEN c ELSE log[i]
  BY <1>1, <1>3, <1>4, ExceptSeq
<1> QED
  BY <1>5, <1>6

LEMMA TypeInit == Init => TInv
BY GatewayAssumption, EmptySeq
   DEF Init, TInv, TypeOK, AwaitInv, FreshKeys, Results, Pools

LEMMA TypeNext == TInv /\ [Next]_vars => TInv'
<1> SUFFICES ASSUME TInv, [Next]_vars
             PROVE  TInv'
  OBVIOUS
<1> USE GatewayAssumption DEF TInv, TypeOK, AwaitInv, keyVars, cbVars, runVars
<1>0. \A p \in Pools : names[p] \in Seq(Keys) /\ Len(names[p]) \in Nat
  BY LenProperties
<1>1. CASE Build
  BY <1>1, EmptySeq DEF Build, FreshKeys, Results
<1>2. CASE Complete
  BY <1>2 DEF Complete, EnterPool, Results
<1>3. CASE CompleteWithoutKeys
  BY <1>3 DEF CompleteWithoutKeys, Results
<1>4. CASE SkipInactive
  BY <1>4 DEF SkipInactive, AtKey
<1>5. CASE SkipLimited
  <2>1. Key \in Keys
    BY <1>5, KeyType DEF SkipLimited, AtKey
  <2>2. Pruned(Key) \in Seq(Nat) /\ Len(Pruned(Key)) <= RateLimit
    BY <2>1, PrunedType, LenProperties
  <2>3. hits' = [hits EXCEPT ![Key] = Pruned(Key)]
    BY <1>5 DEF SkipLimited
  <2>4. /\ hits' \in [Keys -> Seq(Nat)]
        /\ \A k \in Keys : Len(hits'[k]) <= RateLimit
    BY <2>1, <2>2, <2>3
  <2>5. /\ pc = "scan" /\ idx' = idx + 1
        /\ UNCHANGED <<names, keyVars, cbVars, pc, pool, attempts, lastError,
                       result, now, gen, req, log>>
    BY <1>5 DEF SkipLimited, AtKey
  <2> QED
    BY <2>4, <2>5
<1>6. CASE SkipOpen
  <2>1. Key \in Keys
    BY <1>6, KeyType DEF SkipOpen, AtKey
  <2>2. /\ Append(Pruned(Key), now) \in Seq(Nat)
        /\ Len(Append(Pruned(Key), now)) <= RateLimit
    BY <1>6, <2>1, PrunedType, LenProperties DEF SkipOpen, Limited
  <2>3. hits' = [hits EXCEPT ![Key] = Append(Pruned(Key), now)]
    BY <1>6 DEF SkipOpen, TakeToken
  <2>4. /\ hits' \in [Keys -> Seq(Nat)]
        /\ \A k \in Keys : Len(hits'[k]) <= RateLimit
    BY <2>1, <2>2, <2>3
  <2>5. /\ pc = "scan" /\ idx' = idx + 1
        /\ UNCHANGED <<names, keyVars, cbVars, pc, pool, attempts, lastError,
                       result, now, gen, req, log>>
    BY <1>6 DEF SkipOpen, AtKey
  <2> QED
    BY <2>4, <2>5
<1>7. CASE Send
  <2>1. Key \in Keys /\ idx <= Len(names[pool])
    BY <1>7, KeyType DEF Send, AtKey
  <2>2. /\ Append(Pruned(Key), now) \in Seq(Nat)
        /\ Len(Append(Pruned(Key), now)) <= RateLimit
    BY <1>7, <2>1, PrunedType, LenProperties DEF Send, Limited
  <2>3. hits' = [hits EXCEPT ![Key] = Append(Pruned(Key), now)]
    BY <1>7 DEF Send, TakeToken
  <2>4. /\ hits' \in [Keys -> Seq(Nat)]
        /\ \A k \in Keys : Len(hits'[k]) <= RateLimit
    BY <2>1, <2>2, <2>3
  <2>5. cbState' \in [Keys -> {"CLOSED", "OPEN", "HALF_OPEN"}]
    BY <1>7, <2>1 DEF Send, BreakerState
  <2> DEFINE c == [req |-> req, pool |-> pool, pos |-> idx, key |-> Key,
                   sent |-> now, done |-> NoTime, reply |-> "pending"]
  <2>6. c \in Call
    BY <2>1 DEF Call
  <2>7. log' = Append(log, c)
    BY <1>7 DEF Send
  <2> HIDE DEF c
  <2>8. log' \in Seq(Call) /\ Len(log') > 0
    BY <2>6, <2>7, AppendedType
  <2>9. /\ pc' = "await" /\ attempts' = attempts + 1
        /\ UNCHANGED <<names, keyVars, failures, openedAt, pool, idx, lastError,
                       result, now, gen, req>>
    BY <1>7 DEF Send
  <2> QED
    <3>1. TypeOK'
      BY <2>4, <2>5, <2>8, <2>9
    <3>2. AwaitInv'
      BY <2>1, <2>8, <2>9
    <3> QED
      BY <3>1, <3>2
<1>8. CASE AnswerOk
  <2>1. Key \in Keys
    BY <1>8, KeyType DEF AnswerOk
  <2>2. log' \in Seq(Call)
    BY <1>8, LoggedType DEF AnswerOk, AllReplies
  <2>3. keyState' \in [Pools \X Keys -> {"ACTIVE", "COOLDOWN", "DISABLED"}]
    BY <1>8, <2>1 DEF AnswerOk, MarkSuccess
  <2>4. cooldownUntil' \in [Pools \X Keys -> Nat]
    BY <1>8, <2>1 DEF AnswerOk, MarkSuccess
  <2> QED
    BY <1>8, <2>1, <2>2, <2>3, <2>4 DEF AnswerOk, RecordSuccess, Results
<1>9. CASE AnswerError
  <2>1. Key \in Keys
    BY <1>9, KeyType DEF AnswerError
  <2>2. PICK reply \in Replies \cap Failing :
          /\ MarkFailure(pool, Key, ErrorOf[reply])
          /\ RecordFailure(Key)
          /\ lastError' = ErrorOf[reply]
          /\ Logged(reply)
    BY <1>9 DEF AnswerError
  <2>3. log' \in Seq(Call)
    BY <1>9, <2>2, LoggedType, ErrorOfType DEF AnswerError
  <2>4. lastError' \in ErrorCodes
    BY <2>2, ErrorOfType
  <2>5. keyState' \in [Pools \X Keys -> {"ACTIVE", "COOLDOWN", "DISABLED"}]
    BY <2>1, <2>2 DEF MarkFailure
  <2>6. cooldownUntil' \in [Pools \X Keys -> Nat]
    BY <2>1, <2>2 DEF MarkFailure
  <2>7. /\ failures' \in [Keys -> Nat]
        /\ cbState' \in [Keys -> {"CLOSED", "OPEN", "HALF_OPEN"}]
        /\ openedAt' \in [Keys -> Nat \cup {NoTime}]
    BY <2>1, <2>2 DEF RecordFailure
  <2>8. /\ pc' = "scan" /\ idx' = idx + 1
        /\ UNCHANGED <<names, hits, pool, attempts, result, now, gen, req>>
    BY <1>9 DEF AnswerError
  <2> QED
    BY <2>3, <2>4, <2>5, <2>6, <2>7, <2>8
<1>10. CASE AnswerEscapes
  <2>1. log' \in Seq(Call)
    BY <1>10, LoggedType DEF AnswerEscapes, AllReplies
  <2> QED
    BY <1>10, <2>1 DEF AnswerEscapes, Results
<1>11. CASE NextPool
  BY <1>11 DEF NextPool, PoolDone, EnterPool
<1>12. CASE GiveUp
  BY <1>12 DEF GiveUp, PoolDone, PoolCode, Results
<1>13. CASE Tick
  BY <1>13 DEF Tick
<1>14. CASE UNCHANGED vars
  BY <1>14 DEF vars
<1> QED
  BY <1>1, <1>2, <1>3, <1>4, <1>5, <1>6, <1>7, <1>8, <1>9, <1>10, <1>11,
     <1>12, <1>13, <1>14 DEF Next, Scan, Answer, Terminated

\* Every reachable state is well typed, and no key ever holds more than
\* RateLimit tokens.
THEOREM TypeCorrect == Spec => []TypeOK
<1>1. Spec => []TInv
  BY TypeInit, TypeNext, PTL DEF Spec
<1> QED
  BY <1>1, PTL DEF TInv

-----------------------------------------------------------------------------
(* The circuit breaker.                                                    *)

LEMMA BreakerInit == Init => BreakerTracksFailures
BY GatewayAssumption DEF Init, BreakerTracksFailures, NoTime

LEMMA BreakerNext ==
  TInv /\ BreakerTracksFailures /\ [Next]_vars => BreakerTracksFailures'
<1> SUFFICES ASSUME TInv, BreakerTracksFailures, [Next]_vars
             PROVE  BreakerTracksFailures'
  OBVIOUS
<1> USE GatewayAssumption
<1>0. /\ failures \in [Keys -> Nat] /\ now \in Nat
      /\ cbState \in [Keys -> {"CLOSED", "OPEN", "HALF_OPEN"}]
      /\ openedAt \in [Keys -> Nat \cup {NoTime}]
  BY DEF TInv, TypeOK
<1>1. CASE Build
  BY <1>1 DEF Build, BreakerTracksFailures, NoTime
<1>2. CASE Send
  <2>1. Key \in Keys
    BY <1>2, KeyType DEF Send, AtKey, TInv
  <2>2. /\ cbState' = [cbState EXCEPT ![Key] = BreakerState(Key)]
        /\ UNCHANGED <<failures, openedAt, now>>
    BY <1>2 DEF Send
  <2> QED
    BY <1>0, <2>1, <2>2 DEF BreakerTracksFailures, BreakerState
<1>3. CASE AnswerOk
  <2>1. Key \in Keys
    BY <1>3, KeyType DEF AnswerOk, TInv, AwaitInv
  <2>2. RecordSuccess(Key) /\ UNCHANGED now
    BY <1>3 DEF AnswerOk
  <2> QED
    BY <1>0, <2>1, <2>2 DEF RecordSuccess, BreakerTracksFailures
<1>4. CASE AnswerError
  <2>1. Key \in Keys
    BY <1>4, KeyType DEF AnswerError, TInv, AwaitInv
  <2>2. RecordFailure(Key) /\ UNCHANGED now
    BY <1>4 DEF AnswerError
  <2> QED
    BY <1>0, <2>1, <2>2 DEF RecordFailure, Trips, BreakerTracksFailures, NoTime
<1>5. CASE Tick
  <2>1. now' = now + 1 /\ UNCHANGED cbVars
    BY <1>5 DEF Tick
  <2> QED
    BY <1>0, <2>1 DEF BreakerTracksFailures, cbVars, NoTime
<1>6. CASE UNCHANGED <<cbVars, now>>
  BY <1>6 DEF BreakerTracksFailures, cbVars
<1>7. \/ Build \/ Send \/ AnswerOk \/ AnswerError \/ Tick
      \/ UNCHANGED <<cbVars, now>>
  BY DEF Next, Scan, Answer, Terminated, Complete, CompleteWithoutKeys,
         SkipInactive, SkipLimited, SkipOpen, NextPool, GiveUp, AnswerEscapes, vars
<1> QED
  BY <1>1, <1>2, <1>3, <1>4, <1>5, <1>6, <1>7

\* The breaker's state, failure count and opening time agree in every
\* reachable state, whatever the replies and their timing.
THEOREM BreakerCorrect == Spec => []BreakerTracksFailures
<1>1. Spec => []TInv
  BY TypeInit, TypeNext, PTL DEF Spec
<1> QED
  BY <1>1, BreakerInit, BreakerNext, PTL DEF Spec

-----------------------------------------------------------------------------
(* Failover: the order of the calls of one request.                        *)

\* The calls of the running request that are over failed, in places before the
\* one being looked at; an awaited call is the last entry of the log.
OrderInv ==
    /\ FailoverOrder
    /\ \A i \in 1 .. Len(log) : log[i].req <= req
    /\ pc # "idle" =>
          \A i \in 1 .. Len(log) :
             log[i].req = req /\ (pc = "scan" \/ i < Len(log)) =>
                /\ log[i].reply \in Failing
                /\ \/ log[i].pool < pool
                   \/ log[i].pool = pool /\ log[i].pos < idx
    /\ pc = "await" =>
          /\ log[Len(log)].req = req
          /\ log[Len(log)].pool = pool /\ log[Len(log)].pos = idx
          /\ log[Len(log)].key = Key

\* An entry of the log as the arithmetic of the proofs needs it.
LEMMA EntryType ==
  ASSUME TypeOK, NEW i \in 1 .. Len(log)
  PROVE  /\ log[i] \in Call
         /\ log[i].req \in Nat /\ log[i].pool \in Nat /\ log[i].pos \in Nat
         /\ log[i].sent \in Nat /\ log[i].done \in Nat \cup {NoTime}
         /\ log[i].pool \in Pools /\ log[i].key \in Keys
<1>1. log[i] \in Call
  BY ElementOfSeq DEF TypeOK
<1>2. Pools \subseteq Nat
  BY GatewayAssumption DEF Pools
<1> QED
  BY <1>1, <1>2 DEF Call

\* What a completed entry keeps and what it gets.
LEMMA LoggedEntry ==
  ASSUME TypeOK, Len(log) > 0, NEW r \in AllReplies, Logged(r)
  PROVE  /\ Len(log') = Len(log) /\ Len(log) \in Nat
         /\ \A i \in 1 .. Len(log) :
              /\ i < Len(log) => log'[i] = log[i]
              /\ log'[i].req = log[i].req /\ log'[i].pool = log[i].pool
              /\ log'[i].pos = log[i].pos /\ log'[i].key = log[i].key
              /\ log'[i].sent = log[i].sent
         /\ log'[Len(log)].reply = r /\ log'[Len(log)].done = now
<1>1. /\ Len(log') = Len(log) /\ Len(log) \in Nat
      /\ \A i \in 1 .. Len(log) :
            log'[i] = IF i = Len(log)
                      THEN [log[i] EXCEPT !.done = now, !.reply = r]
                      ELSE log[i]
  BY LoggedType, LenProperties DEF TypeOK
<1>2. \A e \in Call :
        LET c == [e EXCEPT !.done = now, !.reply = r] IN
        /\ c.req = e.req /\ c.pool = e.pool /\ c.pos = e.pos
        /\ c.key = e.key /\ c.sent = e.sent
        /\ c.reply = r /\ c.done = now
  BY DEF Call
<1>3. \A i \in 1 .. Len(log) : log[i] \in Call
  BY EntryType
<1>4. Len(log) \in Nat /\ Len(log) \in 1 .. Len(log)
  BY LenProperties DEF TypeOK
<1>5. \A i \in 1 .. Len(log) :
        /\ i < Len(log) => log'[i] = log[i]
        /\ log'[i].req = log[i].req /\ log'[i].pool = log[i].pool
        /\ log'[i].pos = log[i].pos /\ log'[i].key = log[i].key
        /\ log'[i].sent = log[i].sent
  <2>1. SUFFICES ASSUME NEW i \in 1 .. Len(log)
                 PROVE  /\ i < Len(log) => log'[i] = log[i]
                        /\ log'[i].req = log[i].req
                        /\ log'[i].pool = log[i].pool
                        /\ log'[i].pos = log[i].pos
                        /\ log'[i].key = log[i].key
                        /\ log'[i].sent = log[i].sent
    OBVIOUS
  <2>2. CASE i = Len(log)
    <3>1. log'[i] = [log[i] EXCEPT !.done = now, !.reply = r]
      BY <1>1, <2>2
    <3> QED
      BY <1>2, <1>3, <1>4, <2>2, <3>1
  <2>3. CASE i # Len(log)
    BY <1>1, <2>3
  <2> QED
    BY <2>2, <2>3
<1>6. log'[Len(log)].reply = r /\ log'[Len(log)].done = now
  <2>1. log'[Len(log)] = [log[Len(log)] EXCEPT !.done = now, !.reply = r]
    BY <1>1, <1>4
  <2>2. log[Len(log)] \in Call
    BY <1>3, <1>4
  <2> QED
    BY <1>2, <2>1, <2>2
<1> QED
  BY <1>1, <1>5, <1>6

LEMMA OrderInit == Init => OrderInv
BY EmptySeq DEF Init, OrderInv, FailoverOrder

LEMMA OrderNext == TInv /\ OrderInv /\ [Next]_vars => OrderInv'
<1> SUFFICES ASSUME TInv, OrderInv, [Next]_vars
             PROVE  OrderInv'
  OBVIOUS
<1>0. /\ \A i \in 1 .. Len(log) :
            /\ log[i].req \in Nat /\ log[i].pool \in Nat /\ log[i].pos \in Nat
      /\ log \in Seq(Call) /\ Len(log) \in Nat
      /\ req \in Nat /\ pool \in Nat /\ idx \in Nat
      /\ pc \in {"idle", "scan", "await"}
  BY EntryType, GatewayAssumption, LenProperties DEF TInv, TypeOK, Pools
<1>1. CASE Build
  BY <1>1, EmptySeq DEF Build, OrderInv, FailoverOrder
<1>2. CASE Complete
  <2>1. /\ req' = req + 1 /\ pc' = "scan" /\ log' = log
    BY <1>2 DEF Complete
  <2>2. FailoverOrder'
    BY <2>1 DEF OrderInv, FailoverOrder
  <2>3. \A i \in 1 .. Len(log') : log'[i].req <= req' /\ log'[i].req # req'
    BY <1>0, <2>1 DEF OrderInv
  <2> QED
    BY <2>1, <2>2, <2>3 DEF OrderInv
<1>3. CASE Send
  <2>1. idx \in Nat /\ pc = "scan" /\ Key \in Keys
    BY <1>0, <1>3, KeyType DEF Send, AtKey, TInv
  <2> DEFINE c == [req |-> req, pool |-> pool, pos |-> idx, key |-> Key,
                   sent |-> now, done |-> NoTime, reply |-> "pending"]
  <2>2. c \in Call
    BY <2>1 DEF Call, TInv, TypeOK
  <2>3. log' = Append(log, c)
    BY <1>3 DEF Send
  <2>4. /\ c.req = req /\ c.pool = pool /\ c.pos = idx /\ c.key = Key
    OBVIOUS
  <2> HIDE DEF c
  <2>5. /\ Len(log') = Len(log) + 1
        /\ \A i \in 1 .. Len(log') :
              log'[i] = IF i = Len(log') THEN c ELSE log[i]
    BY <1>0, <2>2, <2>3, AppendedType
  <2>6. pc' = "await" /\ UNCHANGED <<req, pool, idx, names>>
    BY <1>3 DEF Send
  <2>7. \A i \in 1 .. Len(log) : log[i].req = req =>
          /\ log[i].reply \in Failing
          /\ \/ log[i].pool < pool
             \/ log[i].pool = pool /\ log[i].pos < idx
    BY <2>1 DEF OrderInv
  <2>8. FailoverOrder'
    <3>1. SUFFICES ASSUME NEW i \in 1 .. Len(log'), NEW j \in 1 .. Len(log'),
                          i < j, log'[i].req = log'[j].req
                   PROVE  /\ log'[i].reply \in Failing
                          /\ \/ log'[i].pool < log'[j].pool
                             \/ /\ log'[i].pool = log'[j].pool
                                /\ log'[i].pos < log'[j].pos
      BY DEF FailoverOrder
    <3>2. i \in 1 .. Len(log) /\ log'[i] = log[i]
      BY <1>0, <2>5, <3>1
    <3>3. CASE j = Len(log')
      <4>1. log'[j] = c
        BY <2>5, <3>1, <3>3
      <4> QED
        BY <2>4, <2>7, <3>1, <3>2, <4>1
    <3>4. CASE j # Len(log')
      <4>1. j \in 1 .. Len(log) /\ log'[j] = log[j]
        BY <1>0, <2>5, <3>1, <3>4
      <4>2. FailoverOrder
        BY DEF OrderInv
      <4> QED
        BY <3>1, <3>2, <4>1, <4>2 DEF FailoverOrder
    <3> QED
      BY <3>3, <3>4
  <2>9. Key' = Key
    BY <2>6 DEF Key
  <2>10. \A i \in 1 .. Len(log') : log'[i].req <= req'
    BY <1>0, <2>4, <2>5, <2>6 DEF OrderInv
  <2>11. \A i \in 1 .. Len(log') : i < Len(log') /\ log'[i].req = req' =>
           /\ log'[i].reply \in Failing
           /\ \/ log'[i].pool < pool'
              \/ log'[i].pool = pool' /\ log'[i].pos < idx'
    BY <1>0, <2>5, <2>6, <2>7
  <2>12. Len(log') \in 1 .. Len(log') /\ log'[Len(log')] = c
    BY <1>0, <2>5
  <2> QED
    BY <2>4, <2>6, <2>8, <2>9, <2>10, <2>11, <2>12 DEF OrderInv
<1>4. CASE AnswerOk \/ AnswerEscapes
  <2>1. /\ pc = "await" /\ pc' = "idle" /\ UNCHANGED req
        /\ \E r \in AllReplies : Logged(r)
    BY <1>4 DEF AnswerOk, AnswerEscapes, AllReplies
  <2>2. PICK r \in AllReplies : Logged(r)
    BY <2>1
  <2>3. Len(log) > 0
    BY <2>1 DEF TInv, AwaitInv
  <2>4. /\ Len(log') = Len(log)
        /\ \A i \in 1 .. Len(log) :
              /\ i < Len(log) => log'[i] = log[i]
              /\ log'[i].req = log[i].req /\ log'[i].pool = log[i].pool
              /\ log'[i].pos = log[i].pos
    BY <2>2, <2>3, LoggedEntry DEF TInv
  <2>5. FailoverOrder'
    <3>1. SUFFICES ASSUME NEW i \in 1 .. Len(log), NEW j \in 1 .. Len(log),
                          i < j, log'[i].req = log'[j].req
                   PROVE  /\ log'[i].reply \in Failing
                          /\ \/ log'[i].pool < log'[j].pool
                             \/ /\ log'[i].pool = log'[j].pool
                                /\ log'[i].pos < log'[j].pos
      BY <2>4 DEF FailoverOrder
    <3>2. log'[i] = log[i]
      BY <1>0, <2>4, <3>1
    <3>3. FailoverOrder
      BY DEF OrderInv
    <3>4. /\ log'[j].req = log[j].req /\ log'[j].pool = log[j].pool
          /\ log'[j].pos = log[j].pos
      BY <2>4
    <3> QED
      BY <3>1, <3>2, <3>3, <3>4 DEF FailoverOrder
  <2>6. \A i \in 1 .. Len(log') : log'[i].req <= req'
    BY <2>1, <2>4 DEF OrderInv
  <2> QED
    BY <2>1, <2>5, <2>6 DEF OrderInv
<1>5. CASE AnswerError
  <2>1. /\ pc = "await" /\ pc' = "scan" /\ idx' = idx + 1
        /\ UNCHANGED <<req, pool>>
    BY <1>5 DEF AnswerError
  <2>2. PICK r \in Failing : Logged(r)
    BY <1>5 DEF AnswerError
  <2>3. Len(log) > 0
    BY <2>1 DEF TInv, AwaitInv
  <2>4. r \in AllReplies
    BY ErrorOfType
  <2>5. /\ Len(log') = Len(log) /\ log'[Len(log)].reply = r
        /\ \A i \in 1 .. Len(log) :
              /\ i < Len(log) => log'[i] = log[i]
              /\ log'[i].req = log[i].req /\ log'[i].pool = log[i].pool
              /\ log'[i].pos = log[i].pos
    BY <2>2, <2>3, <2>4, LoggedEntry DEF TInv
  <2>6. FailoverOrder'
    BY <1>0, <2>5 DEF OrderInv, FailoverOrder
  <2>7. \A i \in 1 .. Len(log) : log'[i].req = req' =>
          /\ log'[i].reply \in Failing
          /\ \/ log'[i].pool < pool'
             \/ log'[i].pool = pool' /\ log'[i].pos < idx'
    <3>1. SUFFICES ASSUME NEW i \in 1 .. Len(log), log'[i].req = req'
                   PROVE  /\ log'[i].reply \in Failing
                          /\ \/ log'[i].pool < pool'
                             \/ log'[i].pool = pool' /\ log'[i].pos < idx'
      OBVIOUS
    <3>2. CASE i = Len(log)
      BY <1>0, <2>1, <2>2, <2>5, <3>1, <3>2 DEF OrderInv
    <3>3. CASE i < Len(log)
      BY <1>0, <2>1, <2>5, <3>1, <3>3 DEF OrderInv
    <3> QED
      BY <1>0, <3>2, <3>3
  <2>8. \A i \in 1 .. Len(log') : log'[i].req <= req'
    BY <2>1, <2>5 DEF OrderInv
  <2> QED
    BY <2>1, <2>5, <2>6, <2>7, <2>8 DEF OrderInv
<1>6. CASE NextPool
  <2>1. PICK p \in Pools : Later(p) /\ EnterPool(p)
    BY <1>6 DEF NextPool
  <2>2. pool' = p /\ pool < p /\ p \in Nat
    BY <2>1, GatewayAssumption DEF Later, EnterPool, Pools
  <2>3. pc = "scan" /\ pc' = "scan" /\ UNCHANGED <<req, log>>
    BY <1>6 DEF NextPool, PoolDone
  <2> QED
    BY <1>0, <2>2, <2>3 DEF OrderInv, FailoverOrder
<1>7. CASE SkipInactive \/ SkipLimited \/ SkipOpen
  <2>1. /\ pc = "scan" /\ idx' = idx + 1
        /\ UNCHANGED <<pc, pool, req, log>>
    BY <1>7 DEF SkipInactive, SkipLimited, SkipOpen, AtKey
  <2> QED
    BY <1>0, <2>1 DEF OrderInv, FailoverOrder
<1>8. CASE GiveUp
  <2>1. pc' = "idle" /\ UNCHANGED <<req, log>>
    BY <1>8 DEF GiveUp
  <2> QED
    BY <2>1 DEF OrderInv, FailoverOrder
<1>9. CASE UNCHANGED <<names, pc, pool, idx, req, log>>
  BY <1>9 DEF OrderInv, FailoverOrder, Key
<1>10. \/ Build \/ Complete \/ Send \/ AnswerOk \/ AnswerEscapes \/ AnswerError
       \/ NextPool \/ SkipInactive \/ SkipLimited \/ SkipOpen \/ GiveUp
       \/ UNCHANGED <<names, pc, pool, idx, req, log>>
  BY DEF Next, Scan, Answer, Terminated, CompleteWithoutKeys, Tick, vars,
         runVars
<1> QED
  BY <1>1, <1>2, <1>3, <1>4, <1>5, <1>6, <1>7, <1>8, <1>9, <1>10

\* Failover never returns to a key it has passed and never goes on after
\* anything but an OllamaError.
THEOREM FailoverCorrect == Spec => []FailoverOrder
<1>1. Spec => []TInv
  BY TypeInit, TypeNext, PTL DEF Spec
<1>2. Spec => []OrderInv
  BY <1>1, OrderInit, OrderNext, PTL DEF Spec
<1> QED
  BY <1>2, PTL DEF OrderInv

-----------------------------------------------------------------------------
(* The log and the clock.  The limits are about the times of calls: calls  *)
(* are logged in the order of the clock, and no time is ahead of it.       *)

TimesInv ==
    /\ \A i \in 1 .. Len(log) :
          /\ log[i].sent <= now
          /\ log[i].reply \in Failing =>
                /\ log[i].done \in Nat
                /\ log[i].sent <= log[i].done /\ log[i].done <= now
    /\ \A i, j \in 1 .. Len(log) : i < j => log[i].sent <= log[j].sent

\* A call that is sent becomes the last entry, which has no reply.
LEMMA SentEntry ==
  ASSUME TInv, Send
  PROVE  /\ Key \in Keys /\ Len(log) \in Nat /\ Len(log') = Len(log) + 1
         /\ \A i \in 1 .. Len(log) : log'[i] = log[i]
         /\ log'[Len(log')].req = req /\ log'[Len(log')].pool = pool
         /\ log'[Len(log')].pos = idx /\ log'[Len(log')].key = Key
         /\ log'[Len(log')].sent = now /\ log'[Len(log')].reply \notin Failing
         /\ log'[Len(log')].reply # "ok"
<1>1. Key \in Keys
  BY KeyType DEF Send, AtKey, TInv
<1> DEFINE c == [req |-> req, pool |-> pool, pos |-> idx, key |-> Key,
                 sent |-> now, done |-> NoTime, reply |-> "pending"]
<1>2. c \in Call /\ Len(log) \in Nat /\ log \in Seq(Call)
  BY <1>1, LenProperties DEF Call, TInv, TypeOK
<1>3. log' = Append(log, c)
  BY DEF Send
<1>4. /\ c.req = req /\ c.pool = pool /\ c.pos = idx /\ c.key = Key
      /\ c.sent = now /\ c.reply = "pending"
  OBVIOUS
<1> HIDE DEF c
<1>5. /\ Len(log') = Len(log) + 1
      /\ \A i \in 1 .. Len(log') : log'[i] = IF i = Len(log') THEN c ELSE log[i]
  BY <1>2, <1>3, AppendedType
<1>6. "pending" \notin Failing /\ "pending" # "ok"
  BY DEF Failing, ErrorOf
<1>7. \A i \in 1 .. Len(log) : i \in 1 .. Len(log') /\ i # Len(log')
  BY <1>2, <1>5
<1>8. log'[Len(log')] = c
  BY <1>2, <1>5
<1> QED
  BY <1>1, <1>2, <1>4, <1>5, <1>6, <1>7, <1>8

\* An answer completes the last entry, which is of the position waited at.
LEMMA AnsweredEntry ==
  ASSUME TInv, OrderInv, Answer
  PROVE  /\ Key \in Keys /\ Len(log) \in Nat \ {0} /\ Len(log') = Len(log)
         /\ \A i \in 1 .. Len(log) :
              /\ i < Len(log) => log'[i] = log[i]
              /\ log'[i].req = log[i].req /\ log'[i].pool = log[i].pool
              /\ log'[i].pos = log[i].pos /\ log'[i].key = log[i].key
              /\ log'[i].sent = log[i].sent
         /\ log'[Len(log)].done = now
         /\ log[Len(log)].req = req
         /\ log[Len(log)].pool = pool /\ log[Len(log)].key = Key
         /\ AnswerOk => log'[Len(log)].reply = "ok"
         /\ AnswerError => /\ log'[Len(log)].reply \in Failing
                           /\ MarkFailure(pool, Key, ErrorOf[log'[Len(log)].reply])
                           /\ lastError' = ErrorOf[log'[Len(log)].reply]
         /\ AnswerEscapes => log'[Len(log)].reply = "garbled"
<1>1. pc = "await" /\ Len(log) \in Nat \ {0} /\ Key \in Keys
  BY KeyType, LenProperties DEF Answer, AnswerOk, AnswerError, AnswerEscapes, TInv, AwaitInv,
     TypeOK
<1>2. /\ log[Len(log)].req = req
      /\ log[Len(log)].pool = pool /\ log[Len(log)].key = Key
  BY <1>1 DEF OrderInv
<1>3. ASSUME NEW r \in AllReplies, Logged(r)
      PROVE  /\ Len(log') = Len(log)
             /\ \A i \in 1 .. Len(log) :
                  /\ i < Len(log) => log'[i] = log[i]
                  /\ log'[i].req = log[i].req /\ log'[i].pool = log[i].pool
                  /\ log'[i].pos = log[i].pos /\ log'[i].key = log[i].key
                  /\ log'[i].sent = log[i].sent
             /\ log'[Len(log)].reply = r /\ log'[Len(log)].done = now
  BY <1>1, <1>3, LoggedEntry DEF TInv
<1>4. CASE AnswerOk
  <2>1. "ok" \in AllReplies /\ Logged("ok") /\ result' = "ok"
    BY <1>4 DEF AnswerOk, AllReplies
  <2>2. ~AnswerError /\ ~AnswerEscapes
    BY <1>4 DEF AnswerOk, AnswerError, AnswerEscapes
  <2> QED
    BY <1>1, <1>2, <1>3, <2>1, <2>2
<1>5. CASE AnswerError
  <2>1. PICK r \in Failing : /\ MarkFailure(pool, Key, ErrorOf[r])
                             /\ lastError' = ErrorOf[r] /\ Logged(r)
    BY <1>5 DEF AnswerError
  <2>2. r \in AllReplies
    BY ErrorOfType
  <2>3. ~AnswerOk /\ ~AnswerEscapes
    BY <1>5 DEF AnswerOk, AnswerError, AnswerEscapes
  <2> QED
    BY <1>1, <1>2, <1>3, <2>1, <2>2, <2>3
<1>6. CASE AnswerEscapes
  <2>1. "garbled" \in AllReplies /\ Logged("garbled") /\ result' = "EXCEPTION"
    BY <1>6 DEF AnswerEscapes, AllReplies
  <2>2. ~AnswerOk /\ ~AnswerError
    BY <1>6 DEF AnswerOk, AnswerError, AnswerEscapes
  <2> QED
    BY <1>1, <1>2, <1>3, <2>1, <2>2
<1> QED
  BY <1>4, <1>5, <1>6 DEF Answer

\* Every other step leaves the log as it is, or builds the next gateway.
LEMMA LogSteps ==
  ASSUME [Next]_vars
  PROVE  \/ Build
         \/ Send
         \/ Answer
         \/ log' = log /\ now' = now + 1 /\ pc # "scan" /\ Tick
         \/ /\ log' = log /\ now' = now /\ UNCHANGED <<keyVars, cbVars>>
            /\ pc' = pc \/ pc' \in {"idle", "scan"}
BY DEF Next, Scan, Answer, Terminated, Complete, CompleteWithoutKeys, Tick, SkipInactive,
       SkipLimited, SkipOpen, NextPool, GiveUp, vars, runVars

LEMMA TimesInit == Init => TimesInv
BY EmptySeq DEF Init, TimesInv

LEMMA TimesNext == TInv /\ OrderInv /\ TimesInv /\ [Next]_vars => TimesInv'
<1> SUFFICES ASSUME TInv, OrderInv, TimesInv, [Next]_vars
             PROVE  TimesInv'
  OBVIOUS
<1>0. /\ now \in Nat /\ Len(log) \in Nat
      /\ \A i \in 1 .. Len(log) : log[i].sent \in Nat
  BY EntryType, LenProperties DEF TInv, TypeOK
<1>1. CASE Build
  BY <1>1, EmptySeq DEF Build, TimesInv
<1>2. CASE Send
  <2>1. now' = now
    BY <1>2 DEF Send
  <2>2. \A i \in 1 .. Len(log') :
          \/ i \in 1 .. Len(log) /\ log'[i] = log[i]
          \/ i = Len(log') /\ log'[i].sent = now /\ log'[i].reply \notin Failing
    BY <1>0, <1>2, SentEntry
  <2>3. \A i, j \in 1 .. Len(log') : i < j => i \in 1 .. Len(log) /\ log'[i] = log[i]
    BY <1>0, <1>2, SentEntry
  <2>4. \A i \in 1 .. Len(log') :
          /\ log'[i].sent <= now'
          /\ log'[i].reply \in Failing =>
                /\ log'[i].done \in Nat
                /\ log'[i].sent <= log'[i].done /\ log'[i].done <= now'
    BY <1>0, <2>1, <2>2 DEF TimesInv
  <2>5. ASSUME NEW i \in 1 .. Len(log'), NEW j \in 1 .. Len(log'), i < j
        PROVE  log'[i].sent <= log'[j].sent
    <3>1. i \in 1 .. Len(log) /\ log'[i] = log[i]
      BY <2>3, <2>5
    <3>2. CASE j = Len(log') /\ log'[j].sent = now
      BY <3>1, <3>2 DEF TimesInv
    <3>3. CASE j \in 1 .. Len(log) /\ log'[j] = log[j]
      BY <2>5, <3>1, <3>3 DEF TimesInv
    <3> QED
      BY <2>2, <3>2, <3>3
  <2> QED
    BY <2>4, <2>5 DEF TimesInv
<1>3. CASE Answer
  <2>1. now' = now
    BY <1>3 DEF Answer, AnswerOk, AnswerError, AnswerEscapes
  <2>2. \A i \in 1 .. Len(log') :
          /\ log'[i].sent = log[i].sent /\ i \in 1 .. Len(log)
          /\ log'[i] = log[i] \/ log'[i].done = now
    BY <1>0, <1>3, AnsweredEntry
  <2> QED
    BY <1>0, <2>1, <2>2 DEF TimesInv
<1>4. CASE log' = log /\ (now' = now + 1 \/ now' = now)
  BY <1>0, <1>4 DEF TimesInv
<1> QED
  BY <1>1, <1>2, <1>3, <1>4, LogSteps

LEMMA GatewayLogged == Spec => [](TInv /\ OrderInv /\ TimesInv)
<1>1. Spec => []TInv
  BY TypeInit, TypeNext, PTL DEF Spec
<1>2. Spec => []OrderInv
  BY <1>1, OrderInit, OrderNext, PTL DEF Spec
<1> QED
  BY <1>1, <1>2, TimesInit, TimesNext, PTL DEF Spec

-----------------------------------------------------------------------------
(* The rest of a key after an error.                                       *)

\* What a failing call left in the key manager of its pool, and has not run out.
Rested(i) ==
    LET code == ErrorOf[log[i].reply]
        at == <<log[i].pool, log[i].key>>
    IN /\ code = "INVALID_CREDENTIALS" => keyState[at] = "DISABLED"
       /\ code \in CooldownErrors =>
             \/ keyState[at] = "DISABLED"
             \/ now - log[i].done >= KeyCooldown
             \/ keyState[at] = "COOLDOWN" /\ cooldownUntil[at] >= log[i].done + KeyCooldown

CoolInv ==
    /\ CooldownRespected
    /\ \A i \in 1 .. Len(log) : log[i].reply \in Failing => Rested(i)

\* Call j comes after the rest that failing call i asks for.
Respects(i, j) ==
    LET code == ErrorOf[log[i].reply] IN
    /\ code # "INVALID_CREDENTIALS"
    /\ code # "OTHER" => log[j].sent - log[i].done >= KeyCooldown

LEMMA Codes ==
  ASSUME NEW r \in Failing
  PROVE  /\ ErrorOf[r] = "INVALID_CREDENTIALS" \/ ErrorOf[r] = "OTHER"
            \/ ErrorOf[r] \in CooldownErrors
         /\ "OTHER" \notin CooldownErrors /\ "INVALID_CREDENTIALS" \notin CooldownErrors
         /\ DisableErrors = {"INVALID_CREDENTIALS"}
BY DEF Failing, ErrorOf, CooldownErrors, DisableErrors

\* The key just called had rested from each earlier call of its pool.
LEMMA CalledRested ==
  ASSUME TInv, TimesInv, CooldownRespected, NEW i \in 1 .. Len(log), i < Len(log),
         log[i].pool = log[Len(log)].pool, log[i].key = log[Len(log)].key,
         log[i].reply \in Failing
  PROVE  /\ ErrorOf[log[i].reply] # "INVALID_CREDENTIALS"
         /\ ErrorOf[log[i].reply] \in CooldownErrors => now - log[i].done >= KeyCooldown
<1>1. Len(log) \in 1 .. Len(log) /\ Len(log) \in Nat
  BY LenProperties DEF TInv, TypeOK
<1>2. /\ ErrorOf[log[i].reply] # "INVALID_CREDENTIALS"
      /\ ErrorOf[log[i].reply] # "OTHER" => log[Len(log)].sent - log[i].done >= KeyCooldown
  BY <1>1 DEF CooldownRespected, Followed
<1>3. /\ log[Len(log)].sent <= now /\ log[Len(log)].sent \in Nat /\ now \in Nat
      /\ log[i].done \in Nat /\ KeyCooldown \in Nat
  BY <1>1, EntryType, GatewayAssumption DEF TimesInv, TInv, TypeOK
<1>4. log[Len(log)].sent - log[i].done >= KeyCooldown => now - log[i].done >= KeyCooldown
  BY <1>3
<1> QED
  BY <1>2, <1>4, Codes

LEMMA CoolInit == Init => CoolInv
BY EmptySeq DEF Init, CoolInv, CooldownRespected

LEMMA CoolNext ==
  TInv /\ OrderInv /\ TimesInv /\ CoolInv /\ [Next]_vars => CoolInv'
<1> SUFFICES ASSUME TInv, OrderInv, TimesInv, CoolInv, [Next]_vars
             PROVE  CoolInv'
  OBVIOUS
<1>0. /\ now \in Nat /\ Len(log) \in Nat /\ KeyCooldown \in Nat
      /\ \A i \in 1 .. Len(log) :
            /\ log[i].sent \in Nat /\ log[i].pool \in Pools /\ log[i].key \in Keys
            /\ log[i].reply \in Failing => log[i].done \in Nat
      /\ keyState \in [Pools \X Keys -> {"ACTIVE", "COOLDOWN", "DISABLED"}]
      /\ cooldownUntil \in [Pools \X Keys -> Nat] /\ pool \in Pools
  BY EntryType, LenProperties, GatewayAssumption DEF TInv, TypeOK, TimesInv
<1>1. CASE Build
  BY <1>1, EmptySeq DEF Build, CoolInv, CooldownRespected
<1>2. CASE Send
  <2>1. /\ UNCHANGED <<keyVars, now>> /\ StateOf(pool, Key) = "ACTIVE"
    BY <1>2 DEF Send
  <2>2. /\ Len(log') = Len(log) + 1
        /\ \A i \in 1 .. Len(log) : log'[i] = log[i]
        /\ log'[Len(log')].pool = pool /\ log'[Len(log')].key = Key
        /\ log'[Len(log')].sent = now /\ log'[Len(log')].reply \notin Failing
        /\ Key \in Keys
    BY <1>2, SentEntry
  <2>3. \A i \in 1 .. Len(log') : log'[i].reply \in Failing => Rested(i)'
    <3>1. SUFFICES ASSUME NEW i \in 1 .. Len(log'), log'[i].reply \in Failing
                   PROVE  Rested(i)'
      OBVIOUS
    <3>2. i \in 1 .. Len(log) /\ log'[i] = log[i]
      BY <1>0, <2>2, <3>1
    <3> QED
      BY <2>1, <3>1, <3>2 DEF CoolInv, Rested, keyVars
  <2>4. CooldownRespected'
    <3>1. SUFFICES ASSUME NEW i \in 1 .. Len(log'), NEW j \in 1 .. Len(log'),
                          i < j, log'[i].key = log'[j].key, log'[i].pool = log'[j].pool,
                          log'[i].reply \in Failing
                   PROVE  Respects(i, j)'
      BY DEF CooldownRespected, Followed, Respects
    <3>2. i \in 1 .. Len(log) /\ log'[i] = log[i]
      BY <1>0, <2>2, <3>1
    <3>3. CASE j \in 1 .. Len(log)
      <4>1. Respects(i, j) /\ log'[j] = log[j]
        BY <2>2, <3>1, <3>2, <3>3 DEF CoolInv, CooldownRespected, Followed, Respects
      <4> QED
        BY <3>2, <4>1 DEF Respects
    <3>4. CASE j = Len(log')
      <4>1. log[i].pool = pool /\ log[i].key = Key /\ log'[j].sent = now
        BY <2>2, <3>1, <3>2, <3>4
      <4>2. Rested(i)
        BY <3>1, <3>2 DEF CoolInv
      <4> DEFINE at == <<pool, Key>>
      <4>3. at \in Pools \X Keys /\ cooldownUntil[at] \in Nat /\ log[i].done \in Nat
        BY <1>0, <2>2, <3>1, <3>2
      <4>4. keyState[at] # "DISABLED" /\ (keyState[at] = "COOLDOWN" => now >= cooldownUntil[at])
        BY <2>1, Zenon DEF StateOf
      <4>7. /\ ErrorOf[log[i].reply] = "INVALID_CREDENTIALS" => keyState[at] = "DISABLED"
            /\ ErrorOf[log[i].reply] \in CooldownErrors =>
                  \/ keyState[at] = "DISABLED"
                  \/ now - log[i].done >= KeyCooldown
                  \/ keyState[at] = "COOLDOWN" /\ cooldownUntil[at] >= log[i].done + KeyCooldown
        BY <4>1, <4>2 DEF Rested
      <4> HIDE DEF at
      <4>5. ErrorOf[log[i].reply] # "INVALID_CREDENTIALS"
        BY <4>4, <4>7
      <4>6. ErrorOf[log[i].reply] \in CooldownErrors => now - log[i].done >= KeyCooldown
        BY <1>0, <4>3, <4>4, <4>7
      <4> QED
        BY <3>1, <3>2, <4>1, <4>5, <4>6, Codes DEF Respects
    <3> QED
      BY <1>0, <2>2, <3>3, <3>4
  <2> QED
    BY <2>3, <2>4 DEF CoolInv
<1>3. CASE Answer
  <2> DEFINE n == Len(log)
  <2>1. /\ n \in 1 .. n /\ Len(log') = n /\ n \in Nat
        /\ \A i \in 1 .. n :
              /\ i < n => log'[i] = log[i]
              /\ log'[i].pool = log[i].pool /\ log'[i].key = log[i].key
              /\ log'[i].sent = log[i].sent
        /\ log'[n].done = now /\ log[n].pool = pool /\ log[n].key = Key /\ Key \in Keys
    BY <1>0, <1>3, AnsweredEntry
  <2>2. now' = now
    BY <1>3 DEF Answer, AnswerOk, AnswerError, AnswerEscapes
  <2>3. CooldownRespected'
    <3>1. SUFFICES ASSUME NEW i \in 1 .. n, NEW j \in 1 .. n,
                          i < j, log'[i].key = log'[j].key, log'[i].pool = log'[j].pool,
                          log'[i].reply \in Failing
                   PROVE  Respects(i, j)'
      BY <2>1 DEF CooldownRespected, Followed, Respects
    <3>2. log'[i] = log[i] /\ log'[j].sent = log[j].sent
      BY <2>1, <3>1
    <3>3. Respects(i, j)
      BY <2>1, <3>1, <3>2 DEF CoolInv, CooldownRespected, Followed, Respects
    <3> QED
      BY <3>2, <3>3 DEF Respects
  <2>4. ASSUME NEW i \in 1 .. n, i < n, log[i].reply \in Failing,
               log[i].pool = pool, log[i].key = Key
        PROVE  Rested(i)'
    <3>1. /\ ErrorOf[log[i].reply] # "INVALID_CREDENTIALS"
          /\ ErrorOf[log[i].reply] \in CooldownErrors => now - log[i].done >= KeyCooldown
      BY <2>1, <2>4, CalledRested DEF CoolInv
    <3> QED
      BY <2>1, <2>2, <2>4, <3>1 DEF Rested
  <2>5. ASSUME NEW i \in 1 .. n, i < n, log[i].reply \in Failing,
               log[i].pool # pool \/ log[i].key # Key
        PROVE  Rested(i)'
    <3> DEFINE at == <<log[i].pool, log[i].key>>
    <3>1. at \in Pools \X Keys /\ at # <<pool, Key>>
      BY <1>0, <2>5
    <3>2. keyState'[at] = keyState[at] /\ cooldownUntil'[at] = cooldownUntil[at]
      <4>1. CASE AnswerOk
        BY <1>0, <3>1, <4>1 DEF AnswerOk, MarkSuccess
      <4>2. CASE AnswerError
        <5>1. PICK r : MarkFailure(pool, Key, ErrorOf[r])
          BY <4>2 DEF AnswerError
        <5> QED
          BY <1>0, <3>1, <5>1 DEF MarkFailure
      <4>3. CASE AnswerEscapes
        BY <4>3 DEF AnswerEscapes, keyVars
      <4> QED
        BY <1>3, <4>1, <4>2, <4>3 DEF Answer
    <3>3. Rested(i) /\ log'[i] = log[i]
      BY <2>1, <2>5 DEF CoolInv
    <3> QED
      BY <2>2, <3>2, <3>3 DEF Rested
  <2>6. ASSUME NEW i \in 1 .. n, i = n, log'[i].reply \in Failing
        PROVE  Rested(i)'
    <3> DEFINE code == ErrorOf[log'[i].reply]
               at == <<pool, Key>>
    <3>1. AnswerError
      BY <1>3, <2>6, AnsweredEntry DEF Answer, Failing, ErrorOf
    <3>2. MarkFailure(pool, Key, code)
      BY <1>3, <2>6, <3>1, AnsweredEntry
    <3>3. at \in Pools \X Keys
      BY <1>0, <2>1
    <3>4. code = "INVALID_CREDENTIALS" => keyState'[at] = "DISABLED"
      BY <1>0, <3>2, <3>3 DEF MarkFailure, DisableErrors
    <3>5. code \in CooldownErrors =>
            keyState'[at] = "COOLDOWN" /\ cooldownUntil'[at] = now + KeyCooldown
      BY <1>0, <3>2, <3>3 DEF MarkFailure, DisableErrors, CooldownErrors
    <3>6. log'[i].pool = pool /\ log'[i].key = Key /\ log'[i].done = now
      BY <2>1, <2>6
    <3>7. cooldownUntil'[at] = now + KeyCooldown => cooldownUntil'[at] >= now + KeyCooldown
      BY <1>0
    <3>8. log'[i].done + KeyCooldown = now + KeyCooldown /\ <<log'[i].pool, log'[i].key>> = at
      BY <3>6
    <3> HIDE DEF at
    <3>9. /\ code = "INVALID_CREDENTIALS" => keyState'[at] = "DISABLED"
          /\ code \in CooldownErrors =>
                /\ keyState'[at] = "COOLDOWN"
                /\ cooldownUntil'[at] >= log'[i].done + KeyCooldown
      BY <3>4, <3>5, <3>7, <3>8
    <3> QED
      BY <3>8, <3>9, Zenon DEF Rested
  <2>7. \A i \in 1 .. n : log'[i].reply \in Failing => Rested(i)'
    BY <2>1, <2>4, <2>5, <2>6
  <2> QED
    BY <2>1, <2>3, <2>7 DEF CoolInv
<1>4. CASE Tick
  <2>1. now' = now + 1 /\ UNCHANGED <<log, keyVars>>
    BY <1>4 DEF Tick
  <2>2. CooldownRespected'
    BY <2>1 DEF CoolInv, CooldownRespected, Followed
  <2>3. ASSUME NEW i \in 1 .. Len(log), log[i].reply \in Failing
        PROVE  Rested(i)'
    <3>1. Rested(i) /\ log[i].done \in Nat
      BY <1>0, <2>3 DEF CoolInv
    <3>2. now - log[i].done >= KeyCooldown => now' - log[i].done >= KeyCooldown
      BY <1>0, <2>1, <3>1
    <3> QED
      BY <2>1, <3>1, <3>2 DEF Rested, keyVars
  <2> QED
    BY <2>1, <2>2, <2>3 DEF CoolInv
<1>5. CASE log' = log /\ now' = now /\ UNCHANGED keyVars
  BY <1>5 DEF CoolInv, CooldownRespected, Followed, Rested, keyVars
<1> QED
  BY <1>1, <1>2, <1>3, <1>4, <1>5, LogSteps

-----------------------------------------------------------------------------
(* The silence of an open circuit.                                         *)

\* The failing calls with key k since its last success: what the breaker counts.
FailRow(k) ==
    {h \in 1 .. Len(log) :
        /\ log[h].key = k /\ log[h].reply \in Failing
        /\ \A g \in h .. Len(log) : Followed(h, g) => log[g].reply # "ok"}

\* The circuit that failing call i opened is open, or its cooldown is over.
Guarded(i) ==
    \/ now - log[i].done >= BreakerCooldown
    \/ cbState[log[i].key] = "OPEN" /\ openedAt[log[i].key] >= log[i].done

Tripping(i) == log[i].reply \in Failing /\ Cardinality(FailuresUpTo(i)) >= Threshold

SpacedInv ==
    /\ ProbesSpaced
    /\ pc = "await" => log[Len(log)].reply \notin Failing \cup {"ok"}
    /\ \A k \in Keys : Cardinality(FailRow(k)) = failures[k]
    /\ \A i \in 1 .. Len(log) : Tripping(i) => Guarded(i)

LEMMA FailRowFinite ==
  ASSUME NEW k, Len(log) \in Nat
  PROVE  IsFiniteSet(FailRow(k)) /\ FailRow(k) \subseteq 1 .. Len(log)
<1>1. IsFiniteSet(1 .. Len(log)) /\ FailRow(k) \in SUBSET (1 .. Len(log))
  BY FS_Interval DEF FailRow
<1> QED
  BY <1>1, FS_Subset

\* The key just called had been silent since each call that opened its circuit.
LEMMA CalledGuarded ==
  ASSUME TInv, TimesInv, ProbesSpaced, NEW i \in 1 .. Len(log), i < Len(log),
         log[i].key = log[Len(log)].key, Tripping(i)
  PROVE  now - log[i].done >= BreakerCooldown
<1>1. Len(log) \in 1 .. Len(log) /\ Len(log) \in Nat
  BY LenProperties DEF TInv, TypeOK
<1>2. log[Len(log)].sent - log[i].done >= BreakerCooldown
  BY <1>1 DEF ProbesSpaced, Followed, Tripping
<1>3. /\ log[Len(log)].sent <= now /\ log[Len(log)].sent \in Nat /\ now \in Nat
      /\ log[i].done \in Nat /\ BreakerCooldown \in Nat
  BY <1>1, EntryType, GatewayAssumption DEF TimesInv, TInv, TypeOK, Tripping
<1> QED
  BY <1>2, <1>3

LEMMA SpacedInit == Init => SpacedInv
<1> SUFFICES ASSUME Init PROVE SpacedInv
  OBVIOUS
<1>1. log = <<>> /\ Len(log) = 0 /\ pc = "idle" /\ failures = [k \in Keys |-> 0]
  BY EmptySeq DEF Init
<1>2. \A k \in Keys : FailRow(k) = {}
  BY <1>1 DEF FailRow
<1> QED
  BY <1>1, <1>2, FS_EmptySet DEF SpacedInv, ProbesSpaced

\* A step that leaves the calls alone leaves the counts alone.
LEMMA RowsKept ==
  ASSUME log' = log
  PROVE  /\ \A k \in Keys : FailRow(k)' = FailRow(k)
         /\ \A i \in 1 .. Len(log) : Tripping(i)' = Tripping(i)
         /\ ProbesSpaced => ProbesSpaced'
BY DEF FailRow, Tripping, FailuresUpTo, Followed, ProbesSpaced

LEMMA SpacedSend ==
  ASSUME TInv, OrderInv, TimesInv, SpacedInv, Send
  PROVE  SpacedInv'
<1>0. /\ now \in Nat /\ Len(log) \in Nat /\ BreakerCooldown \in Nat
      /\ \A i \in 1 .. Len(log) :
            /\ log[i].sent \in Nat /\ log[i].key \in Keys
            /\ log[i].reply \in Failing => log[i].done \in Nat
      /\ cbState \in [Keys -> {"CLOSED", "OPEN", "HALF_OPEN"}]
      /\ openedAt \in [Keys -> Nat \cup {NoTime}]
  BY EntryType, LenProperties, GatewayAssumption DEF TInv, TypeOK, TimesInv
<1>1. /\ UNCHANGED <<openedAt, failures, now>> /\ BreakerAllows(Key)
      /\ cbState' = [cbState EXCEPT ![Key] = BreakerState(Key)]
  BY DEF Send
<1>2. /\ Len(log') = Len(log) + 1
      /\ \A i \in 1 .. Len(log) : log'[i] = log[i]
      /\ log'[Len(log')].key = Key /\ Key \in Keys
      /\ log'[Len(log')].sent = now /\ log'[Len(log')].reply \notin Failing
      /\ log'[Len(log')].reply # "ok"
  BY SentEntry
<1>3. \A i \in 1 .. Len(log') :
        \/ i \in 1 .. Len(log) /\ log'[i] = log[i]
        \/ i = Len(log')
  BY <1>0, <1>2
<1>4. \A h \in 1 .. Len(log), g \in 1 .. Len(log) : Followed(h, g)' <=> Followed(h, g)
  BY <1>2 DEF Followed
<1>5. ASSUME NEW k \in Keys PROVE FailRow(k)' = FailRow(k)
  <2>1. ASSUME NEW h \in FailRow(k) PROVE h \in FailRow(k)'
    <3>1. /\ h \in 1 .. Len(log) /\ log[h].key = k /\ log[h].reply \in Failing
          /\ \A g \in h .. Len(log) : Followed(h, g) => log[g].reply # "ok"
      BY <2>1 DEF FailRow
    <3>2. h \in 1 .. Len(log') /\ log'[h] = log[h]
      BY <1>0, <1>2, <3>1
    <3>3. ASSUME NEW g \in h .. Len(log'), Followed(h, g)' PROVE log'[g].reply # "ok"
      <4>1. CASE g = Len(log')
        BY <1>2, <4>1
      <4>2. CASE g # Len(log')
        <5>1. g \in h .. Len(log) /\ g \in 1 .. Len(log)
          BY <1>0, <1>2, <3>1, <4>2
        <5>2. log'[g] = log[g]
          BY <1>2, <5>1
        <5> QED
          BY <1>4, <3>1, <3>3, <5>1, <5>2
      <4> QED
        BY <4>1, <4>2
    <3> QED
      BY <3>1, <3>2, <3>3 DEF FailRow
  <2>2. ASSUME NEW h \in FailRow(k)' PROVE h \in FailRow(k)
    <3>1. /\ h \in 1 .. Len(log') /\ log'[h].key = k /\ log'[h].reply \in Failing
          /\ \A g \in h .. Len(log') : Followed(h, g)' => log'[g].reply # "ok"
      BY <2>2 DEF FailRow
    <3>2. h \in 1 .. Len(log) /\ log'[h] = log[h]
      BY <1>2, <1>3, <3>1
    <3>3. ASSUME NEW g \in h .. Len(log), Followed(h, g) PROVE log[g].reply # "ok"
      <4>1. g \in 1 .. Len(log) /\ g \in h .. Len(log') /\ log'[g] = log[g]
        BY <1>0, <1>2, <3>2
      <4> QED
        BY <1>4, <3>1, <3>2, <3>3, <4>1
    <3> QED
      BY <3>1, <3>2, <3>3 DEF FailRow
  <2> QED
    BY <2>1, <2>2
<1>6. ASSUME NEW i \in 1 .. Len(log) PROVE FailuresUpTo(i)' = FailuresUpTo(i)
  <2>1. \A h \in 1 .. i : h \in 1 .. Len(log) /\ log'[h] = log[h]
    BY <1>0, <1>2
  <2>2. \A h \in 1 .. i : \A g \in h .. i : g \in 1 .. Len(log)
    BY <1>0
  <2>3. \A h \in 1 .. i : \A g \in h .. i :
          (Followed(h, g)' <=> Followed(h, g)) /\ log'[g] = log[g]
    BY <1>2, <1>4, <2>1, <2>2
  <2> QED
    BY <1>4, <2>1, <2>3 DEF FailuresUpTo
<1>7. \A i \in 1 .. Len(log) : Tripping(i)' <=> Tripping(i)
  BY <1>2, <1>6 DEF Tripping
<1>8. ProbesSpaced'
  <2>1. SUFFICES ASSUME NEW i \in 1 .. Len(log'), NEW j \in 1 .. Len(log'),
                        Followed(i, j)', Tripping(i)'
                 PROVE  log'[j].sent - log'[i].done >= BreakerCooldown
    BY DEF ProbesSpaced, Tripping
  <2>2. i \in 1 .. Len(log) /\ log'[i] = log[i] /\ Tripping(i) /\ i < j
    BY <1>2, <1>3, <1>7, <2>1 DEF Tripping, Followed
  <2>3. CASE j \in 1 .. Len(log)
    <3>1. Followed(i, j) /\ log'[j] = log[j]
      BY <1>2, <1>4, <2>1, <2>2, <2>3
    <3> QED
      BY <2>2, <2>3, <3>1 DEF SpacedInv, ProbesSpaced, Tripping
  <2>4. CASE j = Len(log')
    <3>1. log[i].key = Key /\ log'[j].sent = now
      BY <1>2, <2>1, <2>2, <2>4 DEF Followed
    <3>2. Guarded(i) /\ log[i].done \in Nat
      BY <1>0, <2>2 DEF SpacedInv, Tripping
    <3>3. cbState[Key] = "OPEN" => now - openedAt[Key] >= BreakerCooldown
      BY <1>1, Zenon DEF BreakerAllows, BreakerState
    <3>4. openedAt[Key] \in Nat \/ openedAt[Key] = -1
      BY <1>0, <1>2 DEF NoTime
    <3>5. now - log[i].done >= BreakerCooldown
      BY <1>0, <3>1, <3>2, <3>3, <3>4 DEF Guarded
    <3> QED
      BY <2>2, <3>1, <3>5
  <2> QED
    BY <1>3, <2>3, <2>4
<1>9. ASSUME NEW i \in 1 .. Len(log'), Tripping(i)'
      PROVE  Guarded(i)'
  <2>1. i \in 1 .. Len(log) /\ log'[i] = log[i] /\ Tripping(i)
    BY <1>2, <1>3, <1>7, <1>9 DEF Tripping
  <2>2. Guarded(i) /\ log[i].key \in Keys /\ log[i].done \in Nat
    BY <1>0, <2>1 DEF SpacedInv, Tripping
  <2>3. CASE log[i].key = Key
    <3>1. cbState[Key] = "OPEN" => now - openedAt[Key] >= BreakerCooldown
      BY <1>1, Zenon DEF BreakerAllows, BreakerState
    <3>2. openedAt[Key] \in Nat \/ openedAt[Key] = -1
      BY <1>0, <1>2 DEF NoTime
    <3>3. now - log[i].done >= BreakerCooldown
      BY <1>0, <2>2, <2>3, <3>1, <3>2 DEF Guarded
    <3> QED
      BY <1>1, <2>1, <3>3 DEF Guarded
  <2>4. CASE log[i].key # Key
    <3>1. cbState'[log[i].key] = cbState[log[i].key]
      BY <1>0, <1>1, <2>2, <2>4
    <3> QED
      BY <1>1, <2>1, <2>2, <3>1 DEF Guarded
  <2> QED
    BY <2>3, <2>4
<1> QED
  BY <1>1, <1>2, <1>5, <1>8, <1>9 DEF SpacedInv

\* What the breaker does with an answer: nothing unless it is a success or an error.
LEMMA BreakerAnswers ==
  ASSUME TInv, Answer, Key \in Keys
  PROVE  /\ now' = now /\ pc' # "await"
         /\ \A k \in Keys : k # Key =>
              /\ failures'[k] = failures[k] /\ cbState'[k] = cbState[k]
              /\ openedAt'[k] = openedAt[k]
         /\ AnswerOk => failures'[Key] = 0
         /\ AnswerEscapes => failures'[Key] = failures[Key]
         /\ AnswerError => /\ failures'[Key] = failures[Key] + 1
                           /\ failures[Key] + 1 >= Threshold =>
                                 cbState'[Key] = "OPEN" /\ openedAt'[Key] = now
<1>1. /\ failures \in [Keys -> Nat] /\ openedAt \in [Keys -> Nat \cup {NoTime}]
      /\ cbState \in [Keys -> {"CLOSED", "OPEN", "HALF_OPEN"}]
  BY DEF TInv, TypeOK
<1>2. CASE AnswerOk
  <2>1. RecordSuccess(Key) /\ result' = "ok" /\ UNCHANGED now /\ pc' = "idle"
    BY <1>2 DEF AnswerOk
  <2>2. ~AnswerError /\ ~AnswerEscapes
    BY <1>2 DEF AnswerOk, AnswerError, AnswerEscapes
  <2> QED
    BY <1>1, <2>1, <2>2 DEF RecordSuccess
<1>3. CASE AnswerError
  <2>1. RecordFailure(Key) /\ UNCHANGED now /\ pc' = "scan"
    BY <1>3 DEF AnswerError
  <2>2. ~AnswerOk /\ ~AnswerEscapes
    BY <1>3 DEF AnswerOk, AnswerError, AnswerEscapes
  <2> QED
    BY <1>1, <2>1, <2>2 DEF RecordFailure, Trips
<1>4. CASE AnswerEscapes
  <2>1. UNCHANGED <<cbVars, now>> /\ pc' = "idle"
    BY <1>4 DEF AnswerEscapes
  <2>2. ~AnswerOk /\ ~AnswerError
    BY <1>4 DEF AnswerOk, AnswerError, AnswerEscapes
  <2> QED
    BY <2>1, <2>2 DEF cbVars
<1> QED
  BY <1>2, <1>3, <1>4 DEF Answer

LEMMA SpacedAnswer ==
  ASSUME TInv, OrderInv, TimesInv, SpacedInv, Answer
  PROVE  SpacedInv'
<1>0. PICK n \in Nat \ {0} : n = Len(log) /\ n = Len(log')
  BY AnsweredEntry
<1>1. /\ now \in Nat /\ BreakerCooldown \in Nat /\ Threshold \in Nat
      /\ \A i \in 1 .. n :
            /\ log[i].key \in Keys
            /\ log[i].reply \in Failing => log[i].done \in Nat
      /\ failures \in [Keys -> Nat]
  BY <1>0, EntryType, GatewayAssumption DEF TInv, TypeOK, TimesInv
<1>2. /\ Key \in Keys
      /\ \A i \in 1 .. n :
            /\ i < n => log'[i] = log[i]
            /\ log'[i].key = log[i].key /\ log'[i].sent = log[i].sent
      /\ log'[n].done = now /\ log[n].key = Key
      /\ AnswerOk => log'[n].reply = "ok"
      /\ AnswerError => log'[n].reply \in Failing
      /\ AnswerEscapes => log'[n].reply = "garbled"
  BY <1>0, AnsweredEntry
<1>3. log[n].reply \notin Failing \cup {"ok"}
  BY <1>0 DEF SpacedInv, Answer, AnswerOk, AnswerError, AnswerEscapes
<1>4. /\ now' = now /\ pc' # "await"
      /\ \A k \in Keys : k # Key =>
           /\ failures'[k] = failures[k] /\ cbState'[k] = cbState[k]
           /\ openedAt'[k] = openedAt[k]
      /\ AnswerOk => failures'[Key] = 0
      /\ AnswerEscapes => failures'[Key] = failures[Key]
      /\ AnswerError => /\ failures'[Key] = failures[Key] + 1
                        /\ failures[Key] + 1 >= Threshold =>
                              cbState'[Key] = "OPEN" /\ openedAt'[Key] = now
  BY <1>2, BreakerAnswers
<1>5. "ok" \notin Failing /\ "garbled" \notin Failing /\ "garbled" # "ok"
  BY DEF Failing, ErrorOf
<1>6. \A h, g \in 1 .. n : Followed(h, g)' <=> Followed(h, g)
  BY <1>2 DEF Followed
<1>7. \A h \in 1 .. n : h # n => log'[h] = log[h]
  BY <1>2
<1>8. n \in 1 .. n /\ \A h \in 1 .. n : \A g \in h .. n : g \in 1 .. n
  OBVIOUS
<1>9. ASSUME NEW k \in Keys, k # Key \/ AnswerEscapes
      PROVE  FailRow(k)' = FailRow(k)
  <2>1. ASSUME NEW h \in 1 .. n PROVE h \in FailRow(k)' <=> h \in FailRow(k)
    <3>1. log'[h].key = k /\ log'[h].reply \in Failing
             <=> log[h].key = k /\ log[h].reply \in Failing
      BY <1>2, <1>3, <1>5, <1>7, <1>9
    <3>2. ASSUME NEW g \in h .. n, Followed(h, g), log[h].key = k
          PROVE  log'[g].reply # "ok" <=> log[g].reply # "ok"
      <4>1. CASE g = n
        <5>1. AnswerEscapes
          BY <1>2, <1>9, <3>2, <4>1 DEF Followed
        <5> QED
          BY <1>2, <1>3, <1>5, <4>1, <5>1
      <4>2. CASE g # n
        BY <1>7, <1>8, <4>2
      <4> QED
        BY <4>1, <4>2
    <3>3. log'[h].key = log[h].key
      BY <1>2
    <3> QED
      BY <1>0, <1>6, <1>8, <3>1, <3>2, <3>3 DEF FailRow
  <2> QED
    BY <1>0, <2>1 DEF FailRow
<1>10. ASSUME AnswerOk, NEW k \in Keys, k = Key
       PROVE  FailRow(k)' = {}
  <2>1. SUFFICES ASSUME NEW h \in FailRow(k)' PROVE FALSE
    OBVIOUS
  <2>2. /\ h \in 1 .. n /\ log'[h].key = k /\ log'[h].reply \in Failing
        /\ \A g \in h .. n : Followed(h, g)' => log'[g].reply # "ok"
    BY <1>0, <2>1 DEF FailRow
  <2>3. h # n /\ n \in h .. n
    BY <1>2, <1>5, <1>10, <2>2
  <2>4. Followed(h, n)
    BY <1>2, <1>8, <1>10, <2>2, <2>3 DEF Followed
  <2> QED
    BY <1>2, <1>6, <1>8, <1>10, <2>2, <2>3, <2>4
<1>11. ASSUME AnswerError, NEW k \in Keys, k = Key
       PROVE  /\ FailRow(k)' = FailRow(k) \cup {n} /\ n \notin FailRow(k)
              /\ FailRow(k)' = {h \in 1 .. n :
                   /\ h = n \/ Followed(h, n)'
                   /\ log'[h].reply \in Failing
                   /\ \A g \in h .. n : Followed(h, g)' => log'[g].reply # "ok"}
  <2>1. log'[n].reply \in Failing /\ log'[n].reply # "ok"
    BY <1>2, <1>5, <1>11
  <2>2. n \notin FailRow(k)
    BY <1>3 DEF FailRow
  <2>3. ASSUME NEW h \in 1 .. n, h # n PROVE h \in FailRow(k)' <=> h \in FailRow(k)
    <3>1. \A g \in h .. n : log'[g].reply # "ok" <=> log[g].reply # "ok"
      BY <1>3, <1>7, <1>8, <2>1
    <3>2. log'[h] = log[h]
      BY <1>7, <2>3
    <3> QED
      BY <1>0, <1>6, <1>8, <3>1, <3>2 DEF FailRow
  <2>4. n \in FailRow(k)'
    <3>1. \A g \in n .. n : g = n
      OBVIOUS
    <3> QED
      BY <1>0, <1>2, <1>8, <1>11, <2>1, <3>1 DEF FailRow
  <2>5. FailRow(k)' \subseteq 1 .. n /\ FailRow(k) \subseteq 1 .. n
    BY <1>0 DEF FailRow
  <2>6. \A h \in 1 .. n : log'[h].key = k <=> h = n \/ Followed(h, n)'
    BY <1>2, <1>11 DEF Followed
  <2>7. FailRow(k)' = {h \in 1 .. n :
                   /\ h = n \/ Followed(h, n)'
                   /\ log'[h].reply \in Failing
                   /\ \A g \in h .. n : Followed(h, g)' => log'[g].reply # "ok"}
    BY <1>0, <2>6 DEF FailRow
  <2> QED
    BY <1>8, <2>2, <2>3, <2>4, <2>5, <2>7
<1>12. ASSUME NEW k \in Keys PROVE Cardinality(FailRow(k)') = failures'[k]
  <2>1. Cardinality(FailRow(k)) = failures[k] /\ IsFiniteSet(FailRow(k))
    BY <1>0, FailRowFinite DEF SpacedInv
  <2>2. CASE k # Key \/ AnswerEscapes
    BY <1>4, <1>9, <2>1, <2>2
  <2>3. CASE k = Key /\ AnswerOk
    BY <1>4, <1>10, <2>3, FS_EmptySet
  <2>4. CASE k = Key /\ AnswerError
    <3>1. Cardinality(FailRow(k) \cup {n}) = Cardinality(FailRow(k)) + 1
      BY <1>11, <2>1, <2>4, FS_AddElement
    <3> QED
      BY <1>4, <1>11, <2>1, <2>4, <3>1
  <2> QED
    BY <2>2, <2>3, <2>4 DEF Answer
<1>13. ASSUME NEW i \in 1 .. n, i # n
       PROVE  Tripping(i)' <=> Tripping(i)
  <2>1. \A h \in 1 .. i : h \in 1 .. n /\ h # n
    BY <1>13
  <2>2. \A h \in 1 .. i : \A g \in h .. i : g \in 1 .. n /\ g # n
    BY <1>13
  <2>3. \A h \in 1 .. i : /\ log'[h] = log[h] /\ (Followed(h, i)' <=> Followed(h, i))
                          /\ \A g \in h .. i : /\ log'[g] = log[g]
                                               /\ Followed(h, g)' <=> Followed(h, g)
    BY <1>6, <1>7, <2>1, <2>2
  <2>4. FailuresUpTo(i)' = FailuresUpTo(i)
    BY <2>3 DEF FailuresUpTo
  <2>5. log'[i] = log[i]
    BY <1>7, <1>13
  <2> QED
    BY <2>4, <2>5 DEF Tripping
<1>14. ProbesSpaced'
  <2>1. SUFFICES ASSUME NEW i \in 1 .. n, NEW j \in 1 .. n,
                        Followed(i, j)', Tripping(i)'
                 PROVE  log'[j].sent - log'[i].done >= BreakerCooldown
    BY <1>0 DEF ProbesSpaced, Tripping
  <2>2. Followed(i, j) /\ i < j /\ i # n
    BY <1>6, <2>1 DEF Followed
  <2>3. Tripping(i) /\ log'[i] = log[i] /\ log'[j].sent = log[j].sent
    BY <1>2, <1>7, <1>13, <2>1, <2>2
  <2> QED
    BY <1>0, <2>2, <2>3 DEF SpacedInv, ProbesSpaced, Tripping
<1>15. ASSUME NEW i \in 1 .. n, Tripping(i)' PROVE Guarded(i)'
  <2>1. CASE i # n /\ log[i].key # Key
    <3>1. Guarded(i) /\ log'[i] = log[i]
      BY <1>0, <1>7, <1>13, <1>15, <2>1 DEF SpacedInv
    <3>2. /\ cbState'[log[i].key] = cbState[log[i].key]
          /\ openedAt'[log[i].key] = openedAt[log[i].key]
      BY <1>1, <1>4, <2>1
    <3> QED
      BY <1>4, <3>1, <3>2 DEF Guarded
  <2>2. CASE i # n /\ log[i].key = Key
    <3>1. Tripping(i) /\ i < n /\ log'[i] = log[i]
      BY <1>7, <1>13, <1>15, <2>2
    <3>2. now - log[i].done >= BreakerCooldown
      BY <1>0, <1>2, <2>2, <3>1, CalledGuarded DEF SpacedInv
    <3> QED
      BY <1>4, <3>1, <3>2 DEF Guarded
  <2>3. CASE i = n
    <3>1. log'[n].reply \in Failing /\ Cardinality(FailuresUpTo(i)') >= Threshold
      BY <1>15, <2>3 DEF Tripping
    <3>2. AnswerError
      BY <1>2, <1>5, <3>1 DEF Answer
    <3>3. PICK k \in Keys : k = Key
      BY <1>2
    <3>4. FailuresUpTo(i)' = FailRow(k)'
      BY <1>11, <2>3, <3>2, <3>3 DEF FailuresUpTo
    <3>5. failures'[k] >= Threshold
      BY <1>12, <3>1, <3>3, <3>4
    <3>6. cbState'[Key] = "OPEN" /\ openedAt'[Key] = now
      BY <1>4, <3>2, <3>3, <3>5
    <3> QED
      BY <1>1, <1>2, <2>3, <3>6 DEF Guarded
  <2> QED
    BY <2>1, <2>2, <2>3
<1> QED
  BY <1>0, <1>4, <1>12, <1>14, <1>15 DEF SpacedInv

LEMMA SpacedNext ==
  TInv /\ OrderInv /\ TimesInv /\ SpacedInv /\ [Next]_vars => SpacedInv'
<1> SUFFICES ASSUME TInv, OrderInv, TimesInv, SpacedInv, [Next]_vars
             PROVE  SpacedInv'
  OBVIOUS
<1>1. CASE Build
  <2>1. /\ log' = <<>> /\ Len(log') = 0 /\ pc' = "idle"
        /\ failures' = [k \in Keys |-> 0]
    BY <1>1, EmptySeq DEF Build
  <2>2. \A k \in Keys : FailRow(k)' = {}
    BY <2>1 DEF FailRow
  <2>3. \A k \in Keys : Cardinality(FailRow(k)') = failures'[k]
    BY <2>1, <2>2, FS_EmptySet
  <2>4. 1 .. Len(log') = {}
    BY <2>1
  <2>5. ProbesSpaced' /\ \A i \in 1 .. Len(log') : Tripping(i)' => Guarded(i)'
    BY <2>4 DEF ProbesSpaced
  <2> QED
    BY <2>1, <2>3, <2>5 DEF SpacedInv
<1>2. CASE Tick
  <2>1. /\ now' = now + 1 /\ now \in Nat
        /\ UNCHANGED <<log, pc, failures, cbState, openedAt>>
    BY <1>2 DEF Tick, cbVars, runVars, TInv, TypeOK
  <2>2. ASSUME NEW i \in 1 .. Len(log), Tripping(i) PROVE Guarded(i)'
    <3>1. Guarded(i) /\ log[i].done \in Nat /\ BreakerCooldown \in Nat
      BY <2>2, GatewayAssumption DEF SpacedInv, Tripping, TimesInv
    <3>2. now - log[i].done >= BreakerCooldown => now' - log[i].done >= BreakerCooldown
      BY <2>1, <3>1
    <3> QED
      BY <2>1, <3>1, <3>2 DEF Guarded
  <2> QED
    BY <2>1, <2>2, RowsKept DEF SpacedInv
<1>3. CASE /\ log' = log /\ now' = now /\ UNCHANGED cbVars
           /\ pc' = pc \/ pc' \in {"idle", "scan"}
  BY <1>3, RowsKept DEF SpacedInv, Guarded, cbVars
<1> QED
  BY <1>1, <1>2, <1>3, SpacedSend, SpacedAnswer, LogSteps

-----------------------------------------------------------------------------
(* The rate limiter.  Its deque holds more than the calls: a key that the  *)
(* breaker refuses has taken a token too.                                  *)

CallsSince(k, t) == {i \in 1 .. Len(log) : log[i].key = k /\ log[i].sent >= t}
TokensSince(k, t) == {n \in 1 .. Len(hits[k]) : hits[k][n] >= t}

\* Every call within the window has its token.
RateInv ==
    /\ RateRespected
    /\ \A k \in Keys : \A t \in Int : t >= now - Window =>
          Cardinality(CallsSince(k, t)) <= Cardinality(TokensSince(k, t))

LEMMA FirstNumbers ==
  ASSUME NEW n \in Nat
  PROVE  IsFiniteSet(1 .. n) /\ Cardinality(1 .. n) = n
<1>1. 1 \in Int /\ n \in Int
  OBVIOUS
<1>2. IsFiniteSet(1 .. n) /\ Cardinality(1 .. n) = IF 1 > n THEN 0 ELSE n - 1 + 1
  BY <1>1, FS_Interval
<1> QED
  BY <1>2

LEMMA SinceFinite ==
  ASSUME NEW k, NEW t, Len(log) \in Nat, Len(hits[k]) \in Nat
  PROVE  /\ IsFiniteSet(CallsSince(k, t)) /\ Cardinality(CallsSince(k, t)) \in Nat
         /\ IsFiniteSet(TokensSince(k, t)) /\ Cardinality(TokensSince(k, t)) \in Nat
         /\ Cardinality(TokensSince(k, t)) <= Len(hits[k])
<1>1. /\ IsFiniteSet(1 .. Len(log)) /\ IsFiniteSet(1 .. Len(hits[k]))
      /\ Cardinality(1 .. Len(hits[k])) = Len(hits[k])
  BY FirstNumbers
<1>2. /\ CallsSince(k, t) \in SUBSET (1 .. Len(log))
      /\ TokensSince(k, t) \in SUBSET (1 .. Len(hits[k]))
  BY DEF CallsSince, TokensSince
<1> QED
  BY <1>1, <1>2, FS_Subset, FS_CardinalityType

\* What is pruned lies before the window: the later tokens stay, in their order.
LEMMA PrunedTokens ==
  ASSUME NEW k \in Keys, hits[k] \in Seq(Nat), now \in Nat, Window \in Nat,
         NEW t \in Int, t >= now - Window
  PROVE  /\ IsFiniteSet({n \in 1 .. Len(Pruned(k)) : Pruned(k)[n] >= t})
         /\ Cardinality(TokensSince(k, t))
               <= Cardinality({n \in 1 .. Len(Pruned(k)) : Pruned(k)[n] >= t})
<1> DEFINE f == FirstRecent(k)
           s == hits[k]
           P == Pruned(k)
           New == {n \in 1 .. Len(P) : P[n] >= t}
           shift == [n \in TokensSince(k, t) |-> n - f + 1]
<1>1. Len(s) \in Nat /\ f \in 1 .. Len(s) + 1 /\ f \in Nat
  BY FirstRecentExists, LenProperties
<1>2. \A n \in 1 .. f - 1 : ~Recent(s[n])
  BY FirstRecentExists
<1>3. \A n \in 1 .. Len(s) : s[n] \in Nat
  BY ElementOfSeq
<1>4. /\ Len(P) = Len(s) - f + 1
      /\ \A n \in 1 .. Len(s) - f + 1 : P[n] = s[f + n - 1]
  <2>1. \A n \in f .. Len(s) : s[n] \in Nat
    BY <1>1, <1>3
  <2> HIDE DEF f, s
  <2>2. /\ Len(SubSeq(s, f, Len(s))) = IF f <= Len(s) THEN Len(s) - f + 1 ELSE 0
        /\ \A n \in 1 .. Len(s) - f + 1 : SubSeq(s, f, Len(s))[n] = s[f + n - 1]
    BY <1>1, <2>1, SubSeqProperties
  <2>3. P = SubSeq(s, f, Len(s))
    BY DEF Pruned, f, s
  <2>4. (IF f <= Len(s) THEN Len(s) - f + 1 ELSE 0) = Len(s) - f + 1
    BY <1>1
  <2> QED
    BY <2>2, <2>3, <2>4
<1>5. \A n \in TokensSince(k, t) : n \in 1 .. Len(s) /\ s[n] >= t /\ n >= f
  <2>1. SUFFICES ASSUME NEW n \in TokensSince(k, t)
                 PROVE  n \in 1 .. Len(s) /\ s[n] >= t /\ n >= f
    OBVIOUS
  <2>2. n \in 1 .. Len(s) /\ s[n] >= t
    BY DEF TokensSince
  <2>3. ASSUME n < f PROVE FALSE
    <3>1. ~Recent(s[n]) /\ s[n] \in Nat
      BY <1>1, <1>2, <1>3, <2>2, <2>3
    <3> QED
      BY <2>2, <3>1 DEF Recent
  <2> QED
    BY <1>1, <2>2, <2>3
<1>6. ASSUME NEW n \in TokensSince(k, t) PROVE n - f + 1 \in New
  <2>1. n \in 1 .. Len(s) /\ s[n] >= t /\ n >= f
    BY <1>5
  <2> HIDE DEF f, s, P
  <2>2. n - f + 1 \in 1 .. Len(P) /\ f + (n - f + 1) - 1 = n
    BY <1>1, <1>4, <2>1
  <2>3. P[n - f + 1] = s[n]
    BY <1>4, <2>2
  <2> QED
    BY <2>1, <2>2, <2>3
<1>7. IsFiniteSet(New)
  <2>1. Len(P) \in Nat
    BY <1>1, <1>4
  <2>2. IsFiniteSet(1 .. Len(P)) /\ New \in SUBSET (1 .. Len(P))
    BY <2>1, FS_Interval
  <2> QED
    BY <2>2, FS_Subset
<1>8. shift \in Injection(TokensSince(k, t), New)
  <2>1. shift \in [TokensSince(k, t) -> New]
    BY <1>6
  <2>2. \A m, n \in TokensSince(k, t) : m - f + 1 = n - f + 1 => m = n
    BY <1>1, <1>5
  <2> QED
    BY <2>1, <2>2 DEF Injection, IsInjective
<1> QED
  BY <1>7, <1>8, FS_Injection

\* A token more than what is left of the deque.
LEMMA TakenTokens ==
  ASSUME TInv, NEW k \in Keys, TakeToken(k), NEW t \in Int, t >= now - Window
  PROVE  /\ IsFiniteSet(TokensSince(k, t)')
         /\ Cardinality(TokensSince(k, t)') >=
               Cardinality(TokensSince(k, t)) + (IF now >= t THEN 1 ELSE 0)
<1> DEFINE P == Pruned(k)
           Old == {n \in 1 .. Len(P) : P[n] >= t}
<1>1. /\ hits[k] \in Seq(Nat) /\ now \in Nat /\ Window \in Nat /\ Len(hits[k]) \in Nat
      /\ hits \in [Keys -> Seq(Nat)] /\ Len(log) \in Nat
  BY LenProperties, GatewayAssumption DEF TInv, TypeOK
<1>2. P \in Seq(Nat) /\ Len(P) \in Nat
  BY <1>1, PrunedType, LenProperties
<1>3. hits'[k] = Append(P, now)
  BY <1>1 DEF TakeToken
<1>4. /\ Len(hits'[k]) = Len(P) + 1 /\ hits'[k][Len(P) + 1] = now
      /\ \A n \in 1 .. Len(P) : hits'[k][n] = P[n]
  BY <1>1, <1>2, <1>3, AppendProperties
<1>5. IsFiniteSet(Old) /\ Cardinality(TokensSince(k, t)) <= Cardinality(Old)
  BY <1>1, PrunedTokens
<1>6. Len(P) + 1 \notin Old
  BY <1>2
<1>7. TokensSince(k, t)' = IF now >= t THEN Old \cup {Len(P) + 1} ELSE Old
  <2>1. \A n \in 1 .. Len(hits'[k]) : n \in 1 .. Len(P) \/ n = Len(P) + 1
    BY <1>2, <1>4
  <2>2. \A n \in 1 .. Len(P) : n \in 1 .. Len(hits'[k])
    BY <1>2, <1>4
  <2>3. Len(P) + 1 \in 1 .. Len(hits'[k])
    BY <1>2, <1>4
  <2> HIDE DEF P
  <2>4. TokensSince(k, t)' = {n \in 1 .. Len(hits'[k]) : hits'[k][n] >= t}
    BY DEF TokensSince
  <2> QED
    BY <1>4, <2>1, <2>2, <2>3, <2>4
<1> HIDE DEF Old
<1>8. /\ IsFiniteSet(Old \cup {Len(P) + 1})
      /\ Cardinality(Old \cup {Len(P) + 1}) = Cardinality(Old) + 1
  BY <1>5, <1>6, FS_AddElement
<1>9. Cardinality(Old) \in Nat /\ Cardinality(TokensSince(k, t)) \in Nat
  BY <1>1, <1>5, SinceFinite, FS_CardinalityType
<1> QED
  BY <1>5, <1>7, <1>8, <1>9

Between(i, j) == {h \in i .. j : h = j \/ Followed(h, j)}

LEMMA BetweenKept ==
  ASSUME NEW n \in Nat, \A h \in 1 .. n : log'[h].key = log[h].key,
         NEW i \in 1 .. n, NEW j \in 1 .. n
  PROVE  Between(i, j)' = Between(i, j) /\ (Followed(i, j)' <=> Followed(i, j))
<1>1. \A h \in i .. j : h \in 1 .. n
  OBVIOUS
<1> QED
  BY <1>1 DEF Between, Followed

\* RateRespected, pair by pair.
Paced(i, j) ==
    Followed(i, j) /\ Cardinality(Between(i, j)) > RateLimit
        => log[j].sent - log[i].sent > Window

LEMMA RateIsPaced == RateRespected <=> \A i, j \in 1 .. Len(log) : Paced(i, j)
BY DEF RateRespected, Paced, Between

\* The log has not changed but for replies.
LEMMA RateQuiet ==
  ASSUME RateRespected, Len(log') = Len(log), Len(log) \in Nat,
         \A h \in 1 .. Len(log) : log'[h].key = log[h].key /\ log'[h].sent = log[h].sent
  PROVE  /\ RateRespected'
         /\ \A k \in Keys, t \in Int : CallsSince(k, t)' = CallsSince(k, t)
<1>1. \A k \in Keys, t \in Int : CallsSince(k, t)' = CallsSince(k, t)
  BY DEF CallsSince
<1>2. ASSUME NEW i \in 1 .. Len(log'), NEW j \in 1 .. Len(log') PROVE Paced(i, j)'
  <2>1. i \in 1 .. Len(log) /\ j \in 1 .. Len(log)
    OBVIOUS
  <2>2. Paced(i, j)
    BY <2>1, RateIsPaced
  <2>3. Between(i, j)' = Between(i, j) /\ (Followed(i, j)' <=> Followed(i, j))
    BY <2>1, BetweenKept
  <2> QED
    BY <2>1, <2>2, <2>3 DEF Paced
<1>3. RateRespected'
  BY <1>2 DEF RateRespected, Paced, Between
<1> QED
  BY <1>1, <1>2, <1>3

LEMMA RateSend ==
  ASSUME TInv, TimesInv, RateInv, Send
  PROVE  RateInv'
<1>0. /\ now \in Nat /\ Len(log) \in Nat /\ Window \in Nat /\ RateLimit \in Nat \ {0}
      /\ \A k \in Keys : hits[k] \in Seq(Nat) /\ Len(hits[k]) \in Nat
      /\ hits \in [Keys -> Seq(Nat)] /\ now - Window \in Int
      /\ \A i \in 1 .. Len(log) : log[i].sent \in Nat
  BY EntryType, LenProperties, GatewayAssumption DEF TInv, TypeOK
<1>1. UNCHANGED now /\ TakeToken(Key) /\ ~Limited(Key)
  BY DEF Send
<1>2. PICK n \in Nat \ {0}, c \in Keys :
        /\ n = Len(log') /\ n = Len(log) + 1 /\ c = Key
        /\ \A i \in 1 .. n - 1 : log'[i] = log[i]
        /\ log'[n].key = c /\ log'[n].sent = now
  BY <1>0, SentEntry
<1>3. \A i \in 1 .. n : i \in 1 .. n - 1 \/ i = n
  OBVIOUS
<1>4. ASSUME NEW k \in Keys, NEW t \in Int
      PROVE  /\ CallsSince(k, t)' = IF k = c /\ now >= t THEN CallsSince(k, t) \cup {n}
                                    ELSE CallsSince(k, t)
             /\ n \notin CallsSince(k, t)
  <2>1. CallsSince(k, t) = {i \in 1 .. n - 1 : log[i].key = k /\ log[i].sent >= t}
    BY <1>0, <1>2 DEF CallsSince
  <2>2. CallsSince(k, t)' = {i \in 1 .. n : log'[i].key = k /\ log'[i].sent >= t}
    BY <1>2 DEF CallsSince
  <2>3. n \in 1 .. n /\ \A i \in 1 .. n - 1 : i \in 1 .. n /\ i # n
    OBVIOUS
  <2> QED
    BY <1>2, <1>3, <2>1, <2>2, <2>3
<1>5. ASSUME NEW k \in Keys, NEW t \in Int, t >= now - Window
      PROVE  Cardinality(CallsSince(k, t)') <= Cardinality(TokensSince(k, t)')
  <2>1. /\ Cardinality(CallsSince(k, t)) <= Cardinality(TokensSince(k, t))
        /\ IsFiniteSet(CallsSince(k, t)) /\ Cardinality(CallsSince(k, t)) \in Nat
        /\ IsFiniteSet(TokensSince(k, t)) /\ Cardinality(TokensSince(k, t)) \in Nat
    BY <1>0, <1>5, SinceFinite DEF RateInv
  <2>2. CASE k # c
    <3>1. TokensSince(k, t)' = TokensSince(k, t)
      BY <1>0, <1>1, <1>2, <2>2 DEF TakeToken, TokensSince
    <3> QED
      BY <1>4, <2>1, <2>2, <3>1
  <2>3. CASE k = c
    <3>1. /\ IsFiniteSet(TokensSince(k, t)')
          /\ Cardinality(TokensSince(k, t)') >=
                Cardinality(TokensSince(k, t)) + (IF now >= t THEN 1 ELSE 0)
      BY <1>1, <1>2, <1>5, <2>3, TakenTokens
    <3>2. Cardinality(CallsSince(k, t) \cup {n}) = Cardinality(CallsSince(k, t)) + 1
      BY <1>4, <2>1, FS_AddElement
    <3>3. Cardinality(TokensSince(k, t)') \in Nat
      BY <3>1, FS_CardinalityType
    <3>4. CASE now >= t
      <4>1. Cardinality(TokensSince(k, t)') >= Cardinality(TokensSince(k, t)) + 1
        BY <3>1, <3>4
      <4>2. Cardinality(CallsSince(k, t)') = Cardinality(CallsSince(k, t)) + 1
        BY <1>4, <2>3, <3>2, <3>4
      <4> QED
        BY <2>1, <3>3, <4>1, <4>2
    <3>5. CASE ~(now >= t)
      <4>1. Cardinality(TokensSince(k, t)') >= Cardinality(TokensSince(k, t)) + 0
        BY <3>1, <3>5
      <4>2. CallsSince(k, t)' = CallsSince(k, t)
        BY <1>4, <3>5
      <4> QED
        BY <2>1, <3>3, <4>1, <4>2
    <3> QED
      BY <3>4, <3>5
  <2> QED
    BY <2>2, <2>3
<1>6. ASSUME NEW i \in 1 .. n, NEW j \in 1 .. n PROVE Paced(i, j)'
  <2>1. CASE j # n /\ i # n
    <3>1. i \in 1 .. n - 1 /\ j \in 1 .. n - 1 /\ n - 1 \in Nat /\ n - 1 = Len(log)
      BY <1>0, <1>2, <2>1
    <3>2. Paced(i, j)
      BY <3>1, RateIsPaced DEF RateInv
    <3>3. Between(i, j)' = Between(i, j) /\ (Followed(i, j)' <=> Followed(i, j))
      BY <1>2, <3>1, BetweenKept
    <3> QED
      BY <1>2, <3>1, <3>2, <3>3 DEF Paced
  <2>2. CASE i = n
    BY <2>2 DEF Paced, Followed
  <2>3. CASE j = n /\ i # n
    <3>1. SUFFICES ASSUME log'[i].key = c, Cardinality(Between(i, j)') > RateLimit,
                          log[i].sent >= now - Window
                   PROVE  FALSE
      <4>1. i \in 1 .. n - 1 /\ log'[i] = log[i] /\ log[i].sent \in Nat
        BY <1>0, <1>2, <2>3
      <4>2. ~(log[i].sent >= now - Window) => now - log[i].sent > Window
        BY <1>0, <4>1
      <4> QED
        BY <1>2, <2>3, <4>1, <4>2 DEF Paced, Followed
    <3>a. PICK t \in Int : t = now - Window
      BY <1>0
    <3>b. PICK new : new = CallsSince(c, t)'
      OBVIOUS
    <3>2. i \in 1 .. n - 1 /\ now >= t
      BY <1>0, <2>3, <3>a
    <3>3. ASSUME NEW h \in Between(i, j)' PROVE h \in new
      <4>1. h \in i .. n /\ (h = n \/ Followed(h, j)')
        BY <2>3, <3>3 DEF Between
      <4>2. CASE h = n
        <5>1. n \in CallsSince(c, t)'
          BY <1>4, <3>2
        <5> QED
          BY <3>b, <4>2, <5>1
      <4>3. CASE h # n
        <5>1. h \in 1 .. n - 1 /\ h \in 1 .. Len(log) /\ i \in 1 .. Len(log) /\ i <= h
          BY <1>2, <3>2, <4>1, <4>3
        <5>2. log[h].key = c
          BY <1>2, <2>3, <4>1, <4>3, <5>1 DEF Followed
        <5>3. log[h].sent >= t
          <6>1. i = h \/ log[i].sent <= log[h].sent
            BY <5>1 DEF TimesInv
          <6>2. log[i].sent \in Nat /\ log[h].sent \in Nat /\ log[i].sent >= t
            BY <1>0, <3>1, <3>a, <5>1
          <6> QED
            BY <6>1, <6>2
        <5>4. h \in CallsSince(c, t)
          BY <5>1, <5>2, <5>3 DEF CallsSince
        <5> QED
          BY <1>4, <3>2, <3>b, <5>4
      <4> QED
        BY <4>2, <4>3
    <3>4. new = CallsSince(c, t) \cup {n} /\ n \notin CallsSince(c, t)
      BY <1>4, <3>2, <3>b
    <3>5. /\ IsFiniteSet(CallsSince(c, t)) /\ Cardinality(CallsSince(c, t)) \in Nat
          /\ Cardinality(CallsSince(c, t)) <= Cardinality(TokensSince(c, t))
          /\ Cardinality(TokensSince(c, t)) \in Nat
      BY <1>0, <3>2, <3>a, SinceFinite DEF RateInv
    <3>6. IsFiniteSet(new) /\ Cardinality(new) = Cardinality(CallsSince(c, t)) + 1
      BY <3>4, <3>5, FS_AddElement
    <3>7. /\ IsFiniteSet(Between(i, j)')
          /\ Cardinality(Between(i, j)') <= Cardinality(new)
      <4>1. Between(i, j)' \in SUBSET new
        BY <3>3
      <4> QED
        BY <3>6, <4>1, FS_Subset
    <3>8. Cardinality(Between(i, j)') \in Nat
      BY <3>7, FS_CardinalityType
    <3>9. Cardinality(TokensSince(c, t)) < RateLimit
      <4> DEFINE P == Pruned(c)
                 Left == {m \in 1 .. Len(P) : P[m] >= t}
      <4>1. IsFiniteSet(Left) /\ Cardinality(TokensSince(c, t)) <= Cardinality(Left)
        BY <1>0, <3>2, <3>a, PrunedTokens
      <4>2. Len(P) \in Nat /\ Len(P) < RateLimit
        BY <1>0, <1>1, <1>2, PrunedType, LenProperties DEF Limited
      <4>3. Left \in SUBSET (1 .. Len(P))
        OBVIOUS
      <4> HIDE DEF Left
      <4>a. IsFiniteSet(1 .. Len(P)) /\ Cardinality(1 .. Len(P)) = Len(P)
        BY <4>2, FirstNumbers
      <4>4. Cardinality(Left) <= Len(P) /\ Cardinality(Left) \in Nat
        BY <4>1, <4>3, <4>a, FS_Subset, FS_CardinalityType
      <4> QED
        BY <1>0, <3>5, <4>1, <4>2, <4>4
    <3> QED
      BY <1>0, <3>1, <3>5, <3>6, <3>7, <3>8, <3>9
  <2> QED
    BY <2>1, <2>2, <2>3
<1>7. RateRespected'
  BY <1>2, <1>6 DEF RateRespected, Paced, Between
<1> QED
  BY <1>1, <1>5, <1>7 DEF RateInv

LEMMA RateNext ==
  TInv /\ OrderInv /\ TimesInv /\ RateInv /\ [Next]_vars => RateInv'
<1> SUFFICES ASSUME TInv, OrderInv, TimesInv, RateInv, [Next]_vars
             PROVE  RateInv'
  OBVIOUS
<1>0. /\ now \in Nat /\ Len(log) \in Nat /\ Window \in Nat
      /\ \A k \in Keys : hits[k] \in Seq(Nat) /\ Len(hits[k]) \in Nat
      /\ hits \in [Keys -> Seq(Nat)]
      /\ \A k \in Keys, t \in Int :
            Cardinality(CallsSince(k, t)) \in Nat /\ Cardinality(TokensSince(k, t)) \in Nat
  <2>1. /\ now \in Nat /\ Len(log) \in Nat /\ Window \in Nat
        /\ \A k \in Keys : hits[k] \in Seq(Nat) /\ Len(hits[k]) \in Nat
        /\ hits \in [Keys -> Seq(Nat)]
    BY LenProperties, GatewayAssumption DEF TInv, TypeOK
  <2> QED
    BY <2>1, SinceFinite
<1>1. CASE Build
  <2>1. /\ log' = <<>> /\ Len(log') = 0 /\ now' = now
        /\ \A k \in Keys : Len(hits'[k]) = 0
    BY <1>1, EmptySeq DEF Build
  <2>2. \A k \in Keys, t \in Int : CallsSince(k, t)' = {} /\ TokensSince(k, t)' = {}
    BY <2>1 DEF CallsSince, TokensSince
  <2>3. 1 .. Len(log') = {}
    BY <2>1
  <2>4. RateRespected'
    BY <2>3 DEF RateRespected
  <2> QED
    BY <2>2, <2>4, FS_EmptySet DEF RateInv
<1>2. CASE /\ Len(log') = Len(log) /\ hits' = hits
           /\ now' = now \/ now' = now + 1
           /\ \A h \in 1 .. Len(log) : log'[h].key = log[h].key /\ log'[h].sent = log[h].sent
  <2>1. /\ RateRespected'
        /\ \A k \in Keys, t \in Int : CallsSince(k, t)' = CallsSince(k, t)
    BY <1>0, <1>2, RateQuiet DEF RateInv
  <2>2. \A k \in Keys, t \in Int : TokensSince(k, t)' = TokensSince(k, t)
    BY <1>2 DEF TokensSince
  <2>3. \A t \in Int : t >= now' - Window => t >= now - Window
    BY <1>0, <1>2
  <2> QED
    BY <2>1, <2>2, <2>3 DEF RateInv
<1>3. ASSUME log' = log, now' = now, SkipLimited \/ SkipOpen
      PROVE  RateInv'
  <2>1. /\ RateRespected'
        /\ \A k \in Keys, t \in Int : CallsSince(k, t)' = CallsSince(k, t)
    BY <1>0, <1>3, RateQuiet DEF RateInv
  <2>2. Key \in Keys
    BY <1>3, KeyType DEF SkipLimited, SkipOpen, AtKey, TInv
  <2>3. ASSUME NEW k \in Keys, NEW t \in Int, t >= now - Window
        PROVE  Cardinality(TokensSince(k, t)') >= Cardinality(TokensSince(k, t))
    <3>1. CASE k # Key
      <4>1. hits'[k] = hits[k]
        BY <1>0, <1>3, <2>2, <3>1 DEF SkipLimited, SkipOpen, TakeToken
      <4>2. TokensSince(k, t)' = TokensSince(k, t)
        BY <4>1 DEF TokensSince
      <4> QED
        BY <1>0, <4>2
    <3>2. CASE k = Key /\ SkipLimited
      <4>1. hits'[k] = Pruned(k)
        BY <1>0, <3>2 DEF SkipLimited
      <4>2. TokensSince(k, t)' = {n \in 1 .. Len(Pruned(k)) : Pruned(k)[n] >= t}
        BY <4>1 DEF TokensSince
      <4>3. /\ IsFiniteSet({n \in 1 .. Len(Pruned(k)) : Pruned(k)[n] >= t})
            /\ Cardinality(TokensSince(k, t))
                  <= Cardinality({n \in 1 .. Len(Pruned(k)) : Pruned(k)[n] >= t})
        BY <1>0, <2>3, PrunedTokens
      <4>4. Cardinality(TokensSince(k, t)') \in Nat
        BY <4>2, <4>3, FS_CardinalityType
      <4> QED
        BY <1>0, <4>2, <4>3, <4>4
    <3>3. CASE k = Key /\ SkipOpen
      <4>1. TakeToken(k)
        BY <3>3 DEF SkipOpen
      <4>2. /\ IsFiniteSet(TokensSince(k, t)')
            /\ Cardinality(TokensSince(k, t)') >=
                  Cardinality(TokensSince(k, t)) + (IF now >= t THEN 1 ELSE 0)
        BY <2>3, <4>1, TakenTokens
      <4>3. Cardinality(TokensSince(k, t)') \in Nat
        BY <4>2, FS_CardinalityType
      <4>4. CASE now >= t
        <5>1. Cardinality(TokensSince(k, t)') >= Cardinality(TokensSince(k, t)) + 1
          BY <4>2, <4>4
        <5>2. Cardinality(TokensSince(k, t)) \in Nat
          BY <1>0
        <5> QED
          BY <4>3, <5>1, <5>2
      <4>5. CASE ~(now >= t)
        <5>1. Cardinality(TokensSince(k, t)) \in Nat
          BY <1>0
        <5> QED
          BY <4>2, <4>3, <4>5, <5>1
      <4> QED
        BY <4>4, <4>5
    <3> QED
      BY <1>3, <3>1, <3>2, <3>3
  <2>4. ASSUME NEW k \in Keys, NEW t \in Int, t >= now - Window
        PROVE  Cardinality(CallsSince(k, t)') <= Cardinality(TokensSince(k, t)')
    <3>1. Cardinality(TokensSince(k, t)') >= Cardinality(TokensSince(k, t))
      BY <2>3, <2>4
    <3>2. Cardinality(CallsSince(k, t)) <= Cardinality(TokensSince(k, t))
      BY <2>4 DEF RateInv
    <3>3. IsFiniteSet(TokensSince(k, t)') /\ Cardinality(TokensSince(k, t)') \in Nat
      <4>1. Len(hits'[k]) \in Nat
        BY TypeNext, LenProperties DEF TInv, TypeOK
      <4>2. /\ IsFiniteSet(1 .. Len(hits'[k]))
            /\ TokensSince(k, t)' \in SUBSET (1 .. Len(hits'[k]))
        BY <4>1, FirstNumbers DEF TokensSince
      <4> QED
        BY <4>2, FS_Subset, FS_CardinalityType
    <3>4. Cardinality(CallsSince(k, t)') = Cardinality(CallsSince(k, t))
      BY <2>1
    <3>5. Cardinality(CallsSince(k, t)) \in Nat /\ Cardinality(TokensSince(k, t)) \in Nat
      BY <1>0
    <3> QED
      BY <3>1, <3>2, <3>3, <3>4, <3>5
  <2> QED
    BY <1>3, <2>1, <2>4 DEF RateInv
<1>4. CASE Answer
  <2>1. hits' = hits /\ now' = now
    BY <1>4 DEF Answer, AnswerOk, AnswerError, AnswerEscapes
  <2> QED
    BY <1>2, <1>4, <2>1, AnsweredEntry
<1>5. \/ Build \/ Send \/ Answer
      \/ log' = log /\ hits' = hits /\ (now' = now \/ now' = now + 1)
      \/ log' = log /\ now' = now /\ (SkipLimited \/ SkipOpen)
  BY DEF Next, Scan, Answer, Terminated, Complete, CompleteWithoutKeys, Tick, SkipInactive,
       SkipLimited, SkipOpen, NextPool, GiveUp, vars, runVars
<1> QED
  BY <1>1, <1>2, <1>3, <1>4, <1>5, RateSend

LEMMA RateInit == Init => RateInv
<1> SUFFICES ASSUME Init PROVE RateInv
  OBVIOUS
<1>1. Len(log) = 0 /\ \A k \in Keys : Len(hits[k]) = 0
  BY EmptySeq DEF Init
<1>2. \A k \in Keys, t \in Int : CallsSince(k, t) = {} /\ TokensSince(k, t) = {}
  BY <1>1 DEF CallsSince, TokensSince
<1>3. 1 .. Len(log) = {}
  BY <1>1
<1>4. RateRespected
  BY <1>3 DEF RateRespected
<1> QED
  BY <1>2, <1>4, FS_EmptySet DEF RateInv

-----------------------------------------------------------------------------
(* What a finished request reports.                                        *)

LastPool ==
    CHOOSE p \in Pools : Configured(p) /\ \A q \in Pools : Configured(q) => q <= p
LastCall == CHOOSE i \in CallsOf(req) : \A j \in CallsOf(req) : j <= i

\* A running request is at a pool with keys; it has made no call there, or its
\* last call was made there and raised the error that is remembered.
RunInv ==
    pc # "idle" =>
        /\ Configured(pool)
        /\ attempts = 0 => \A i \in CallsOf(req) : log[i].pool # pool
        /\ pc = "await" => attempts # 0
        /\ pc = "scan" /\ attempts # 0 =>
              /\ Len(log) \in CallsOf(req) /\ log[Len(log)].pool = pool
              /\ lastError \in ErrorCodes /\ lastError = ErrorOf[log[Len(log)].reply]

ResultInv == RunInv /\ ResultMatchesCalls

\* ResultMatchesCalls for a request that has just finished.
Reported ==
    /\ result = "ok" <=> \E i \in CallsOf(req) : log[i].reply = "ok"
    /\ result = "EXHAUSTED" => \A i \in CallsOf(req) : log[i].pool # LastPool
    /\ result \in ErrorCodes =>
          /\ CallsOf(req) # {}
          /\ log[LastCall].pool = LastPool
          /\ ErrorOf[log[LastCall].reply] = result

LEMMA ReportMatches ==
  ResultMatchesCalls <=> (pc = "idle" /\ result \notin {"none", "NO_KEYS"} => Reported)
BY DEF ResultMatchesCalls, Reported, LastPool, LastCall

LEMMA ResultCodes ==
  /\ "ok" \notin Failing /\ "garbled" # "ok"
  /\ "ok" \notin ErrorCodes /\ "EXHAUSTED" \notin ErrorCodes /\ "EXCEPTION" \notin ErrorCodes
  /\ "none" \notin ErrorCodes
BY DEF Failing, ErrorOf, ErrorCodes

LEMMA ResultInit == Init => ResultInv
BY DEF Init, ResultInv, RunInv, ResultMatchesCalls

LEMMA RunNext ==
  TInv /\ OrderInv /\ RunInv /\ [Next]_vars => RunInv'
<1> SUFFICES ASSUME TInv, OrderInv, RunInv, [Next]_vars
             PROVE  RunInv'
  OBVIOUS
<1>0. /\ Len(log) \in Nat /\ req \in Nat /\ pool \in Nat /\ idx \in Nat /\ attempts \in Nat
      /\ \A i \in 1 .. Len(log) : log[i].req \in Nat /\ log[i].pool \in Nat
  <2>1. log \in Seq(Call) /\ req \in Nat /\ pool \in Nat /\ idx \in Nat /\ attempts \in Nat
    BY GatewayAssumption DEF TInv, TypeOK, Pools
  <2> QED
    BY <2>1, EntryType, LenProperties DEF TInv
<1>1. CASE pc' = "idle"
  BY <1>1 DEF RunInv
<1>2. CASE Complete
  <2>1. /\ req' = req + 1 /\ pc' = "scan" /\ log' = log /\ attempts' = 0 /\ names' = names
        /\ Configured(pool')
    BY <1>2 DEF Complete, EnterPool
  <2>2. \A i \in 1 .. Len(log) : log[i].req # req + 1
    BY <1>0 DEF OrderInv
  <2>3. CallsOf(req)' = {}
    BY <2>1, <2>2 DEF CallsOf
  <2>4. Configured(pool)'
    BY <2>1 DEF Configured
  <2> QED
    BY <2>1, <2>3, <2>4 DEF RunInv
<1>3. CASE NextPool
  <2>1. PICK p \in Pools : Later(p) /\ pool' = p
    BY <1>3 DEF NextPool, EnterPool
  <2>2. /\ req' = req /\ pc' = "scan" /\ pc = "scan" /\ log' = log /\ attempts' = 0
        /\ names' = names
    BY <1>3 DEF NextPool, EnterPool, PoolDone
  <2>3. p > pool /\ Configured(p) /\ p \in Nat
    BY <2>1, GatewayAssumption DEF Later, Pools
  <2>4. ASSUME NEW i \in 1 .. Len(log), log[i].req = req PROVE log[i].pool # p
    <3>1. log[i].pool < pool \/ log[i].pool = pool
      BY <2>2, <2>4 DEF OrderInv
    <3> QED
      BY <1>0, <2>3, <3>1
  <2>5. Configured(pool)'
    BY <2>1, <2>2, <2>3 DEF Configured
  <2> QED
    BY <2>1, <2>2, <2>4, <2>5 DEF RunInv, CallsOf
<1>4. CASE Send
  BY <1>0, <1>4 DEF Send, AtKey, RunInv, Configured
<1>5. CASE AnswerError
  <2>1. /\ Answer /\ pc = "await" /\ pc' = "scan" /\ pool' = pool /\ req' = req
        /\ attempts' = attempts /\ names' = names
    BY <1>5 DEF Answer, AnswerError
  <2>2. /\ Len(log) \in Nat \ {0} /\ Len(log') = Len(log)
        /\ log'[Len(log)].req = log[Len(log)].req
        /\ log'[Len(log)].pool = log[Len(log)].pool
        /\ log[Len(log)].req = req /\ log[Len(log)].pool = pool
        /\ log'[Len(log)].reply \in Failing
        /\ lastError' = ErrorOf[log'[Len(log)].reply]
    BY <1>5, <2>1, AnsweredEntry
  <2>3. lastError' \in ErrorCodes
    BY <2>2, ErrorOfType
  <2>4. Len(log') \in CallsOf(req)'
    BY <2>1, <2>2 DEF CallsOf
  <2> QED
    BY <2>1, <2>2, <2>3, <2>4 DEF RunInv, Configured
<1>6. CASE pc' # "idle" /\ UNCHANGED <<pc, pool, attempts, lastError, req, log, names>>
  BY <1>6 DEF RunInv, Configured, CallsOf
<1> QED
  BY <1>1, <1>2, <1>3, <1>4, <1>5, <1>6
     DEF Next, Scan, Answer, Terminated, Build, CompleteWithoutKeys, Tick, SkipInactive,
         SkipLimited, SkipOpen, GiveUp, AnswerOk, AnswerEscapes, vars, runVars, AtKey

LEMMA ResultNext ==
  TInv /\ OrderInv /\ ResultInv /\ [Next]_vars => ResultInv'
<1> SUFFICES ASSUME TInv, OrderInv, ResultInv, [Next]_vars
             PROVE  ResultInv'
  OBVIOUS
<1>0. /\ Len(log) \in Nat /\ req \in Nat /\ pool \in Pools /\ Pools \subseteq Nat
      /\ \A i \in 1 .. Len(log) : log[i].req \in Nat /\ log[i].pool \in Nat
  <2>1. req \in Nat /\ pool \in Pools /\ log \in Seq(Call)
    BY DEF TInv, TypeOK
  <2>2. Len(log) \in Nat /\ \A i \in 1 .. Len(log) : log[i].req \in Nat /\ log[i].pool \in Nat
    BY <2>1, EntryType, LenProperties DEF TInv
  <2>3. Pools \subseteq Nat
    BY GatewayAssumption DEF Pools
  <2> QED
    BY <2>1, <2>2, <2>3
<1>a. RunInv'
  BY RunNext DEF ResultInv
<1> SUFFICES ASSUME pc' = "idle", result' \notin {"none", "NO_KEYS"}
             PROVE  Reported'
  BY <1>a DEF ResultInv, ResultMatchesCalls, Reported, LastPool, LastCall
<1>1. CASE GiveUp
  <2>1. /\ pc = "scan" /\ result' = PoolCode /\ UNCHANGED <<names, pool, req, log>>
        /\ \A p \in Pools : ~Later(p)
    BY <1>1 DEF GiveUp, PoolDone
  <2>2. Configured(pool) /\ \A q \in Pools : Configured(q) => q <= pool
    BY <1>0, <2>1 DEF ResultInv, RunInv, Later
  <2>3. \A p \in Pools : Configured(p) /\ (\A q \in Pools : Configured(q) => q <= p) => p = pool
    <3>1. ASSUME NEW p \in Pools, Configured(p), \A q \in Pools : Configured(q) => q <= p
          PROVE  p = pool
      <4>1. pool <= p /\ p <= pool /\ p \in Nat /\ pool \in Nat
        BY <1>0, <2>2, <3>1
      <4> QED
        BY <4>1
    <3> QED
      BY <3>1
  <2>4. LastPool = pool
    BY <1>0, <2>2, <2>3 DEF LastPool
  <2>5. LastPool' = LastPool /\ CallsOf(req)' = CallsOf(req)
    BY <2>1 DEF LastPool, Configured, CallsOf
  <2>6. LastCall' = LastCall
    BY <2>1, <2>5 DEF LastCall
  <2>7. \A i \in CallsOf(req) : log[i].reply # "ok"
    BY <2>1, ResultCodes DEF OrderInv, CallsOf
  <2>8. CASE attempts = 0
    <3>1. result' = "EXHAUSTED" /\ \A i \in CallsOf(req) : log[i].pool # pool
      BY <2>1, <2>8 DEF PoolCode, ResultInv, RunInv
    <3> QED
      BY <2>1, <2>4, <2>5, <2>6, <2>7, <3>1, ResultCodes DEF Reported
  <2>9. CASE attempts # 0
    <3>1. /\ result' = lastError /\ Len(log) \in CallsOf(req) /\ log[Len(log)].pool = pool
          /\ lastError \in ErrorCodes /\ lastError = ErrorOf[log[Len(log)].reply]
      BY <2>1, <2>9 DEF PoolCode, ResultInv, RunInv
    <3>2. \A j \in CallsOf(req) : j \in Nat /\ j <= Len(log)
      BY <1>0 DEF CallsOf
    <3>3. LastCall = Len(log)
      <4>1. \A i \in CallsOf(req) : (\A j \in CallsOf(req) : j <= i) => i = Len(log)
        BY <1>0, <3>1, <3>2
      <4> QED
        BY <3>1, <3>2, <4>1 DEF LastCall
    <3>4. result' # "ok" /\ result' # "EXHAUSTED"
      BY <3>1, ResultCodes
    <3> QED
      BY <2>1, <2>4, <2>5, <2>6, <2>7, <3>1, <3>3, <3>4 DEF Reported
  <2> QED
    BY <2>8, <2>9
<1>2. CASE AnswerOk
  <2>1. Answer /\ result' = "ok" /\ req' = req
    BY <1>2 DEF Answer, AnswerOk
  <2>2. Len(log) \in CallsOf(req)' /\ log'[Len(log)].reply = "ok"
    <3>1. /\ Len(log) \in Nat \ {0} /\ Len(log') = Len(log)
          /\ log'[Len(log)].req = req /\ log'[Len(log)].reply = "ok"
      BY <1>2, <2>1, AnsweredEntry
    <3> QED
      BY <2>1, <3>1 DEF CallsOf
  <2> QED
    BY <2>1, <2>2, ResultCodes DEF Reported
<1>3. CASE AnswerEscapes
  <2>1. Answer /\ pc = "await" /\ result' = "EXCEPTION" /\ req' = req
    BY <1>3 DEF Answer, AnswerEscapes
  <2>2. /\ Len(log) \in Nat \ {0} /\ Len(log') = Len(log)
        /\ \A i \in 1 .. Len(log) : /\ i < Len(log) => log'[i] = log[i]
                                    /\ log'[i].req = log[i].req
        /\ log'[Len(log)].reply = "garbled"
    BY <1>3, <2>1, AnsweredEntry
  <2>3. ASSUME NEW i \in CallsOf(req)' PROVE log'[i].reply # "ok"
    <3>1. i \in 1 .. Len(log) /\ log[i].req = req
      BY <2>1, <2>2, <2>3 DEF CallsOf
    <3>2. CASE i = Len(log)
      BY <2>2, <3>2, ResultCodes
    <3>3. CASE i # Len(log)
      <4>1. i < Len(log)
        BY <2>2, <3>1, <3>3
      <4>2. log'[i] = log[i] /\ log[i].reply \in Failing
        BY <2>1, <2>2, <3>1, <4>1 DEF OrderInv
      <4> QED
        BY <4>2, ResultCodes
    <3> QED
      BY <3>2, <3>3
  <2> QED
    BY <2>1, <2>3, ResultCodes DEF Reported
<1>4. CASE pc = "idle" /\ UNCHANGED <<result, req, log, names>>
  <2>1. Reported
    BY <1>4, ReportMatches DEF ResultInv
  <2>2. LastPool' = LastPool /\ CallsOf(req)' = CallsOf(req)
    BY <1>4 DEF LastPool, Configured, CallsOf
  <2>3. LastCall' = LastCall
    BY <1>4, <2>2 DEF LastCall
  <2> QED
    BY <1>4, <2>1, <2>2, <2>3 DEF Reported
<1> QED
  BY <1>1, <1>2, <1>3, <1>4
     DEF Next, Scan, Answer, Terminated, Build, Complete, CompleteWithoutKeys, Tick,
         SkipInactive, SkipLimited, SkipOpen, Send, NextPool, PoolDone, AnswerError, vars,
         runVars, AtKey

\* The limits owed to the provider hold of every gateway, whatever its keys,
\* models and settings: a key that failed Threshold times in a row is probed at
\* most once per BreakerCooldown, a pool leaves a key alone as long as its error
\* asks for, and no key is called more than RateLimit times in a Window; and
\* what a finished request reports is what its calls ended in (gateway.py with
\* circuit_breaker.py, key_manager.py and rate_limiter.py).
THEOREM GatewayCallsJustified == Spec => []CallsJustified
<1>1. Spec => [](TInv /\ OrderInv /\ TimesInv)
  BY GatewayLogged
<1>2. Spec => []CoolInv
  BY <1>1, CoolInit, CoolNext, PTL DEF Spec
<1>3. Spec => []SpacedInv
  BY <1>1, SpacedInit, SpacedNext, PTL DEF Spec
<1>4. Spec => []RateInv
  BY <1>1, RateInit, RateNext, PTL DEF Spec
<1>5. Spec => []ResultInv
  BY <1>1, ResultInit, ResultNext, PTL DEF Spec
<1>6. CoolInv /\ SpacedInv /\ RateInv /\ ResultInv => CallsJustified
  BY DEF CoolInv, SpacedInv, RateInv, ResultInv, CallsJustified
<1> QED
  BY <1>2, <1>3, <1>4, <1>5, <1>6, PTL

-----------------------------------------------------------------------------
(* Why a pool is left without a call.                                      *)

Unusable(p, k) == StateOf(p, k) # "ACTIVE" \/ Limited(k) \/ ~BreakerAllows(k)

\* As long as no call was made in a pool, every key the scan has passed could
\* not be called when it was passed, and still cannot: the scan takes no time.
PassedInv ==
    /\ pc = "await" => attempts # 0
    /\ pc = "scan" /\ attempts = 0 =>
          \A j \in 1 .. Len(names[pool]) : j < idx => Unusable(pool, names[pool][j])

\* Pruning a deque twice is pruning it once: a refused key stays refused.
LEMMA LimitedStays ==
  ASSUME NEW k \in Keys, hits[k] \in Seq(Nat), now \in Nat, now' = now,
         Limited(k), hits'[k] = Pruned(k)
  PROVE  Limited(k)'
<1>1. PICK s : s = Pruned(k)
  OBVIOUS
<1>2. /\ s \in Seq(Nat) /\ Len(s) \in Nat /\ Len(s) >= RateLimit /\ RateLimit \in Nat \ {0}
  BY <1>1, PrunedType, LenProperties, GatewayAssumption DEF Limited
<1>3. /\ FirstRecent(k) \in 1 .. Len(hits[k]) + 1
      /\ FirstRecent(k) <= Len(hits[k]) => Recent(hits[k][FirstRecent(k)])
      /\ Len(hits[k]) \in Nat
      /\ \A n \in 1 .. Len(hits[k]) : hits[k][n] \in Nat
  BY FirstRecentExists, LenProperties, ElementOfSeq
<1>4. Recent(s[1])
  <2> DEFINE a == FirstRecent(k)
             b == Len(hits[k])
             q == hits[k]
  <2>1. a \in Int /\ b \in Int /\ a >= 1 /\ \A n \in a .. b : q[n] \in Nat
    BY <1>3
  <2>2. s = SubSeq(q, a, b)
    BY <1>1 DEF Pruned
  <2>3. a <= b => Recent(q[a])
    BY <1>3
  <2> HIDE DEF a, b, q
  <2>4. /\ Len(s) = IF a <= b THEN b - a + 1 ELSE 0
        /\ \A n \in 1 .. Len(s) : s[n] = q[a + n - 1]
    BY <2>1, <2>2, SubSeqProperties
  <2>5. a <= b /\ 1 \in 1 .. Len(s)
    BY <1>2, <2>1, <2>4
  <2>6. s[1] = q[a + 1 - 1] /\ a + 1 - 1 = a
    BY <2>1, <2>4, <2>5
  <2> QED
    BY <2>3, <2>5, <2>6
<1>5. hits'[k] = s /\ hits'[k] \in Seq(Nat) /\ now' \in Nat
  BY <1>1, <1>2
<1>6. FirstRecent(k)' = 1
  <2> DEFINE Starts(i) == /\ i <= Len(s) => Recent(s[i])
                          /\ \A j \in 1 .. i - 1 : ~Recent(s[j])
  <2>1. FirstRecent(k)' = CHOOSE i \in 1 .. Len(s) + 1 : Starts(i)
    BY <1>5 DEF FirstRecent, Recent
  <2>2. 1 \in 1 .. Len(s) + 1 /\ Starts(1)
    BY <1>2, <1>4
  <2>3. ASSUME NEW i \in 1 .. Len(s) + 1, Starts(i) PROVE i = 1
    <3>1. 1 \notin 1 .. i - 1
      BY <1>4, <2>3
    <3> QED
      BY <1>2, <3>1
  <2> HIDE DEF Starts
  <2> QED
    BY <2>1, <2>2, <2>3
<1>7. Len(Pruned(k)') = Len(s)
  <2>1. Pruned(k)' = SubSeq(s, 1, Len(s))
    BY <1>5, <1>6 DEF Pruned
  <2>2. \A n \in 1 .. Len(s) : s[n] \in Nat
    BY <1>2, ElementOfSeq
  <2> QED
    BY <1>2, <2>1, <2>2, SubSeqProperties
<1> QED
  BY <1>2, <1>7 DEF Limited

LEMMA PassedNext ==
  TInv /\ PassedInv /\ [Next]_vars => PassedInv'
<1> SUFFICES ASSUME TInv, PassedInv, [Next]_vars
             PROVE  PassedInv'
  OBVIOUS
<1>a. pc' = "await" => attempts' # 0
  <2>1. attempts \in Nat
    BY DEF TInv, TypeOK
  <2> QED
    BY <2>1 DEF PassedInv, Next, Scan, Answer, Terminated, Build, Complete, CompleteWithoutKeys,
       Tick, SkipInactive, SkipLimited, SkipOpen, Send, NextPool, GiveUp, PoolDone, AnswerOk,
       AnswerError, AnswerEscapes, vars, runVars, AtKey
<1> SUFFICES ASSUME pc' = "scan", attempts' = 0,
                    NEW j \in 1 .. Len(names'[pool']), j < idx'
             PROVE  Unusable(pool, names[pool][j])'
  BY <1>a DEF PassedInv
<1>0. /\ now \in Nat /\ idx \in Nat \ {0} /\ attempts \in Nat /\ pool \in Pools
      /\ names[pool] \in Seq(Keys) /\ Len(names[pool]) \in Nat
      /\ \A m \in 1 .. Len(names[pool]) : names[pool][m] \in Keys
      /\ \A i, m \in 1 .. Len(names[pool]) : names[pool][i] = names[pool][m] => i = m
      /\ \A k \in Keys : hits[k] \in Seq(Nat)
      /\ hits \in [Keys -> Seq(Nat)]
  <2>1. /\ now \in Nat /\ idx \in Nat \ {0} /\ attempts \in Nat /\ pool \in Pools
        /\ names \in PoolConfigs /\ names[pool] \in Seq(Keys)
        /\ hits \in [Keys -> Seq(Nat)]
    BY GatewayAssumption DEF TInv, TypeOK
  <2>2. \A i, m \in 1 .. Len(names[pool]) : names[pool][i] = names[pool][m] => i = m
    BY <2>1, GatewayAssumption
  <2> QED
    BY <2>1, <2>2, LenProperties, ElementOfSeq
<1>1. CASE UNCHANGED <<names, keyVars, hits, cbVars, pc, pool, idx, attempts, now>>
  <2>1. Unusable(pool, names[pool][j])
    BY <1>1 DEF PassedInv
  <2> QED
    BY <1>1, <2>1 DEF Unusable, StateOf, Limited, Pruned, FirstRecent, Recent, BreakerAllows,
       BreakerState, keyVars, cbVars
<1>2. CASE Complete \/ NextPool
  BY <1>2 DEF Complete, NextPool, EnterPool
<1>3. CASE SkipInactive \/ SkipLimited \/ SkipOpen
  <2>1. /\ pc = "scan" /\ idx <= Len(names[pool]) /\ idx' = idx + 1
        /\ UNCHANGED <<names, keyVars, cbVars, pool, attempts, now>>
        /\ Key \in Keys
    BY <1>3, KeyType DEF SkipInactive, SkipLimited, SkipOpen, AtKey, TInv
  <2>2. ASSUME NEW k \in Keys, k # Key, Unusable(pool, k)
        PROVE  Unusable(pool, k)'
    <3>1. hits'[k] = hits[k]
      BY <1>0, <1>3, <2>1, <2>2 DEF SkipInactive, SkipLimited, SkipOpen, TakeToken
    <3>2. StateOf(pool, k)' = StateOf(pool, k) /\ BreakerAllows(k)' = BreakerAllows(k)
      BY <2>1 DEF StateOf, BreakerAllows, BreakerState, keyVars, cbVars
    <3>3. Limited(k)' = Limited(k)
      BY <2>1, <3>1 DEF Limited, Pruned, FirstRecent, Recent
    <3> QED
      BY <2>2, <3>2, <3>3 DEF Unusable
  <2>3. PICK c \in Keys : c = Key
    BY <2>1
  <2>4. Unusable(pool, c)'
    <3>1. CASE SkipInactive
      <4>1. StateOf(pool, c)' = StateOf(pool, c) /\ StateOf(pool, c) # "ACTIVE"
        BY <2>1, <2>3, <3>1 DEF StateOf, SkipInactive, keyVars
      <4> QED
        BY <4>1 DEF Unusable
    <3>2. CASE SkipLimited
      <4>1. Limited(c) /\ hits'[c] = Pruned(c)
        BY <1>0, <2>3, <3>2 DEF SkipLimited
      <4>2. Limited(c)'
        BY <1>0, <2>1, <4>1, LimitedStays
      <4> QED
        BY <4>2 DEF Unusable
    <3>3. CASE SkipOpen
      <4>1. BreakerAllows(c)' = BreakerAllows(c) /\ ~BreakerAllows(c)
        BY <2>1, <2>3, <3>3 DEF SkipOpen, BreakerAllows, BreakerState, cbVars
      <4> QED
        BY <4>1 DEF Unusable
    <3> QED
      BY <1>3, <3>1, <3>2, <3>3
  <2>5. j \in 1 .. Len(names[pool]) /\ j < idx + 1
    BY <2>1
  <2>6. Unusable(pool, names[pool][j])'
    <3>1. CASE j = idx
      <4>1. names[pool][j] = c
        BY <2>3, <3>1 DEF Key
      <4> QED
        BY <2>1, <2>4, <4>1
    <3>2. CASE j # idx
      <4>1. j < idx /\ idx \in 1 .. Len(names[pool])
        BY <1>0, <2>1, <2>5, <3>2
      <4>2. Unusable(pool, names[pool][j])
        BY <2>1, <4>1 DEF PassedInv
      <4>3. PICK k \in Keys : k = names[pool][j]
        BY <1>0, <2>5
      <4>4. k # Key /\ Unusable(pool, k)
        BY <1>0, <3>2, <4>1, <4>2, <4>3 DEF Key
      <4>5. Unusable(pool, k)'
        BY <2>2, <4>4
      <4> QED
        BY <2>1, <4>3, <4>5
    <3> QED
      BY <3>1, <3>2
  <2> QED
    BY <2>6
<1>4. CASE AnswerError
  BY <1>4 DEF AnswerError, PassedInv
<1> QED
  BY <1>1, <1>2, <1>3, <1>4
     DEF Next, Scan, Answer, Terminated, Build, CompleteWithoutKeys, Tick, Send, GiveUp,
         PoolDone, AnswerOk, AnswerEscapes, vars, runVars, AtKey

\* A pool is left without a call only when not one of its keys could be called
\* at that moment (the `continue`s of _complete_with_pool).
THEOREM NoKeyPassedOver == Spec => NoUsableKeyPassedOver
<1>1. Spec => [](TInv /\ PassedInv)
  <2>1. Init => PassedInv
    BY DEF Init, PassedInv
  <2> QED
    BY <2>1, TypeInit, TypeNext, PassedNext, PTL DEF Spec
<1>2. ASSUME TInv, PassedInv, [Next]_vars
      PROVE  [pc = "scan" /\ attempts = 0 /\ (pool' # pool \/ pc' = "idle") =>
                 \A k \in KeysOf(pool) :
                     StateOf(pool, k) # "ACTIVE" \/ Limited(k) \/ ~BreakerAllows(k)]_vars
  <2>1. SUFFICES ASSUME pc = "scan", attempts = 0, pool' # pool \/ pc' = "idle",
                        NEW i \in 1 .. Len(names[pool])
                 PROVE  Unusable(pool, names[pool][i])
    BY DEF KeysOf, Unusable
  <2>2. PoolDone
    BY <1>2, <2>1
       DEF Next, Scan, Answer, Terminated, Build, Complete, CompleteWithoutKeys, Tick,
           SkipInactive, SkipLimited, SkipOpen, Send, NextPool, GiveUp, PoolDone, AnswerOk,
           AnswerError, AnswerEscapes, vars, runVars, AtKey
  <2>3. CASE idx > Len(names[pool])
    <3>1. idx \in Nat /\ Len(names[pool]) \in Nat
      BY <1>2, GatewayAssumption, LenProperties DEF TInv, TypeOK
    <3>2. i < idx
      BY <2>3, <3>1
    <3> QED
      BY <1>2, <2>1, <3>2 DEF PassedInv
  <2>4. CASE ~AvailableKey(pool)
    BY <2>4 DEF AvailableKey, KeysOf, Unusable
  <2> QED
    BY <2>2, <2>3, <2>4 DEF PoolDone
<1> QED
  BY <1>1, <1>2, PTL DEF NoUsableKeyPassedOver, Spec

=============================================================================
