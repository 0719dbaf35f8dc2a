----------------------------- MODULE NoticesProofs -----------------------------
(***************************************************************************)
(* Theorems about what the chat is told unasked: Broadcast, whose pushes   *)
(* are spaced out and whose digest comes every day, and Monitor below it,  *)
(* whose alerts agree with its answers.  The two share no variable.  They  *)
(* hold for all constants that BroadcastConstants and MonitorAssumption    *)
(* admit.                                                                  *)
(***************************************************************************)
EXTENDS Broadcast, Monitor, SequenceTheorems, WellFoundedInduction, TLAPS

-----------------------------------------------------------------------------
(* Days                                                                    *)

LEMMA QuotientAndRest ==
    ASSUME NEW x \in Nat, NEW p \in Nat \ {0}
    PROVE  (x \div p) \in Nat /\ x % p \in 0 .. p - 1 /\ x = p * (x \div p) + (x % p)
<1> DEFINE q == x \div p
           r == x % p
<1>1. x \in Int /\ p \in Int /\ p > 0
  OBVIOUS
<1>2. q \in Int /\ x = p * q + r
  BY <1>1
<1>3. r \in 0 .. p - 1
  BY <1>1
<1> HIDE DEF q, r
<1>4. ASSUME q < 0 PROVE FALSE
  <2>1. p * q <= p * (-1)
    BY <1>1, <1>2, <1>4
  <2> QED
    BY <1>1, <1>2, <1>3, <2>1
<1>5. q \in Nat
  BY <1>2, <1>4
<1> QED
  BY <1>2, <1>3, <1>5 DEF q, r

\* A time is so many whole days and a rest.
LEMMA DayAndRest ==
    ASSUME NEW t \in Nat
    PROVE  /\ DayOf(t) \in Nat /\ t % Day \in 0 .. Day - 1
           /\ t = Day * DayOf(t) + (t % Day)
<1>1. Day \in Nat \ {0}
  BY BroadcastConstants
<1> QED
  BY <1>1, QuotientAndRest DEF DayOf

\* The two are unique.
LEMMA DayIs ==
    ASSUME NEW t \in Nat, NEW k \in Nat, NEW r \in Nat, r < Day, t = k * Day + r
    PROVE  DayOf(t) = k /\ t % Day = r
<1> DEFINE q == DayOf(t)
           s == t % Day
<1>1. q \in Nat /\ s \in 0 .. Day - 1 /\ t = Day * q + s
  BY DayAndRest
<1>2. Day \in Nat \ {0}
  BY BroadcastConstants
<1> HIDE DEF q, s
<1>3. q = k
  <2>1. CASE q > k
    <3>1. q * Day >= (k + 1) * Day
      BY <1>1, <1>2, <2>1
    <3> QED
      BY <3>1, <1>1, <1>2
  <2>2. CASE q < k
    <3>1. k * Day >= (q + 1) * Day
      BY <1>1, <1>2, <2>2
    <3> QED
      BY <3>1, <1>1, <1>2
  <2> QED
    BY <1>1, <2>1, <2>2
<1>4. s = r
  BY <1>1, <1>2, <1>3
<1> QED
  BY <1>3, <1>4 DEF q, s

\* Later times are of later days, or of the same.
LEMMA DaysGrow ==
    ASSUME NEW s \in Nat, NEW t \in Nat, s <= t
    PROVE  DayOf(s) <= DayOf(t)
<1> DEFINE p == DayOf(s)
           q == DayOf(t)
<1>1. /\ p \in Nat /\ s % Day \in 0 .. Day - 1 /\ s = Day * p + (s % Day)
      /\ q \in Nat /\ t % Day \in 0 .. Day - 1 /\ t = Day * q + (t % Day)
  BY DayAndRest
<1>2. Day \in Nat \ {0}
  BY BroadcastConstants
<1> HIDE DEF p, q
<1>3. ASSUME p > q PROVE FALSE
  <2>1. p * Day >= (q + 1) * Day
    BY <1>1, <1>2, <1>3
  <2> QED
    BY <2>1, <1>1, <1>2
<1> QED
  BY <1>1, <1>3 DEF p, q

\* A day later it is another day.
LEMMA NextDay ==
    ASSUME NEW s \in Nat, NEW t \in Nat, s + Day <= t
    PROVE  DayOf(s) < DayOf(t)
<1>1. /\ DayOf(s) \in Nat /\ s % Day \in 0 .. Day - 1
      /\ s = Day * DayOf(s) + (s % Day) /\ Day \in Nat \ {0}
  BY DayAndRest, BroadcastConstants
<1>2. s + Day = (DayOf(s) + 1) * Day + (s % Day)
  BY <1>1
<1>3. DayOf(s + Day) = DayOf(s) + 1
  BY <1>1, <1>2, DayIs
<1>4. DayOf(s + Day) <= DayOf(t)
  BY <1>1, DaysGrow
<1>5. DayOf(t) \in Nat
  BY DayAndRest
<1> QED
  BY <1>1, <1>3, <1>4, <1>5

-----------------------------------------------------------------------------
(* The inductive invariant                                                 *)

\* Types, and that no loop sleeps for longer than Tick allows.
Typed ==
    /\ TypeOK
    /\ last \in Nat /\ stamp \in Nat /\ pushed \in Nat
    /\ date \in [day : Nat, set : Nat]
    /\ news \in [pc : {"boot", "ready", "push", "stamp"}, at : Nat]
    /\ digest \in [pc : {"boot", "ready", "send", "mark"}, at : Nat, blind : BOOLEAN]
    /\ unwritten \subseteq {"push", "digest"}
    /\ now <= news.at + 2 /\ now <= digest.at + 2

\* What Redis and the process remember is not older than the last push, unless that
\* one was not written; a stamp that has expired is older than the interval.
Stamped ==
    /\ news.pc # "boot" => last # Never
    /\ news.pc = "stamp" => "push" \in unwritten /\ pushed <= news.at
    /\ pushed # Never /\ "push" \notin unwritten =>
          /\ IF stamp = Never THEN now >= pushed + Interval ELSE stamp >= pushed
          /\ last = Never \/ last >= pushed
    /\ news.pc = "push" /\ pushed # Never =>
          news.at - pushed >= Interval \/ "push" \in unwritten

\* The date in Redis is the day of a digest that was sent or excused, set on that day
\* or later; it is today's if today's digest was sent and written.
Dated ==
    /\ sent \subseteq 1 .. DayOf(digest.at)
    /\ date.day <= DayOf(date.set)
    /\ date.day # Never => date.day \in sent \cup excused
    /\ digest.pc = "mark" => DayOf(digest.at) \in sent
    /\ "digest" \notin unwritten /\ Today \in sent => date.day = Today
    /\ digest.pc = "send" /\ DayOf(digest.at) \in sent =>
          digest.blind \/ "digest" \in unwritten

\* Day k is settled once the loop has looked in its window or later.
Settled(k) ==
    k * Day + DigestAt <= digest.at =>
        k \in sent \cup excused \/ (digest.pc = "send" /\ DayOf(digest.at) = k)

BInv == Typed /\ Stamped /\ Dated /\ \A k \in Nat \ {0} : Settled(k)


LEMMA Numbers ==
    /\ Interval \in Nat \ {0} /\ StampTtl \in Nat \ {0} /\ Day \in Nat \ {0}
    /\ DigestAt \in Nat \ {0} /\ Minutes \in Nat \ {0} /\ DateTtl \in Nat \ {0}
    /\ MaxTime \in Nat \ {0} /\ MaxTroubles \in Nat
    /\ 2 * Interval <= StampTtl /\ DigestAt + Minutes <= Day /\ 2 <= Minutes
    /\ Day + Minutes <= DateTtl /\ Day <= MaxTime
BY BroadcastConstants

\* The clock starts with day 1.
LEMMA FirstDay ==
    ASSUME NEW t \in Nat, Day <= t
    PROVE  DayOf(t) >= 1 /\ DayOf(t) \in Nat
<1>1. Day = 1 * Day + 0 /\ Day \in Nat /\ 0 < Day
  BY Numbers
<1>2. DayOf(Day) = 1
  BY <1>1, DayIs
<1> QED
  BY <1>1, <1>2, DaysGrow, DayAndRest

LEMMA NoTimeYet == DayOf(0) = 0
<1>1. 0 = 0 * Day + 0 /\ 0 < Day
  BY Numbers
<1> QED
  BY <1>1, DayIs

LEMMA BroadcastInit == Init => BInv
<1> SUFFICES ASSUME Init PROVE BInv
  OBVIOUS
<1>1. Day \in Nat /\ DayOf(Day) = 1
  <2>1. Day = 1 * Day + 0 /\ Day \in Nat /\ 0 < Day
    BY Numbers
  <2> QED
    BY <2>1, DayIs
<1>2. TypeOK
  BY <1>1, Numbers DEF Init, TypeOK, Never, NoDate, Today
<1>3. Typed
  BY <1>1, <1>2 DEF Init, Typed, Never, NoDate
<1>4. Stamped
  BY DEF Init, Stamped, Never
<1>5. Dated
  BY NoTimeYet DEF Init, Dated, Never, NoDate
<1>6. ASSUME NEW k \in Nat \ {0} PROVE Settled(k)
  <2>1. k * Day >= Day
    BY Numbers
  <2> QED
    BY <2>1, Numbers DEF Init, Settled
<1> QED
  BY <1>3, <1>4, <1>5, <1>6 DEF BInv

-----------------------------------------------------------------------------
(* Types                                                                   *)

\* What TypeOK and the days of the times come to.
LEMMA Times ==
    ASSUME Typed
    PROVE  /\ now \in Nat /\ Day <= now /\ Today \in Nat /\ Today >= 1
           /\ news.at \in Nat /\ Day <= news.at /\ news.at <= now
           /\ digest.at \in Nat /\ Day <= digest.at /\ digest.at <= now
           /\ DayOf(digest.at) \in 1 .. Today
           /\ date.day \in Nat /\ date.set \in Nat /\ troubles \in Nat
<1>1. /\ now \in Nat /\ Day <= now /\ news.at \in Nat /\ Day <= news.at /\ news.at <= now
      /\ digest.at \in Nat /\ Day <= digest.at /\ digest.at <= now
      /\ date.day \in Nat /\ date.set \in Nat /\ troubles \in Nat
  BY Numbers DEF Typed, TypeOK
<1>2. Today \in Nat /\ Today >= 1 /\ DayOf(digest.at) \in Nat /\ DayOf(digest.at) >= 1
  BY <1>1, FirstDay DEF Today
<1>3. DayOf(digest.at) <= Today
  BY <1>1, DaysGrow DEF Today
<1> QED
  BY <1>1, <1>2, <1>3

LEMMA TypedTick == Typed /\ Tick => Typed'
<1> SUFFICES ASSUME Typed, Tick PROVE Typed'
  OBVIOUS
<1>1. now' = now + 1 /\ now' \in Nat /\ now' <= MaxTime /\ now <= now' /\ Day <= now'
  BY Times, Numbers DEF Tick
<1>2. Today <= Today' /\ Today' \in Nat
  BY <1>1, Times, DaysGrow, DayAndRest DEF Today
<1>3. now \in Day .. MaxTime
  BY DEF Typed, TypeOK
<1>4. TypeOK'
  BY <1>1, <1>2, <1>3, Times, Numbers
     DEF Tick, Typed, TypeOK, Never, NoDate, histories
<1> QED
  BY <1>1, <1>4, Times DEF Tick, Typed, Never, NoDate, histories

LEMMA TypedNews ==
    ASSUME Typed, NEW ok \in BOOLEAN, NEW set \in BOOLEAN,
           NewsBoot(ok, set) \/ NewsLook(ok) \/ NewsPush \/ NewsFails \/ NewsStamp(ok)
    PROVE  Typed'
<1>1. now' = now /\ digest' = digest /\ date' = date /\ sent' = sent /\ excused' = excused
  BY DEF NewsBoot, NewsLook, NewsPush, NewsFails, NewsStamp, redis, histories
<1>2. troubles' \in 0 .. MaxTroubles
  BY Times, Numbers
     DEF Typed, TypeOK, Redis, Trouble, NewsBoot, NewsLook, NewsPush, NewsFails, NewsStamp
<1>3. Today' = Today
  BY <1>1 DEF Today
<1>4. /\ {last, stamp, pushed} \subseteq 0 .. now
      /\ {last, stamp, pushed}' \subseteq 0 .. now
  BY Times
     DEF Typed, TypeOK, NewsBoot, NewsLook, NewsPush, NewsFails, NewsStamp, LastPush,
         Never, redis, histories
<1>5. /\ news' \in [pc : {"boot", "ready", "push", "stamp"}, at : Nat]
      /\ news'.at \in Day .. now /\ now <= news'.at + 2
      /\ unwritten' \subseteq {"push", "digest"}
  BY Times, Numbers
     DEF Typed, TypeOK, NewsBoot, NewsLook, NewsPush, NewsFails, NewsStamp, histories
<1>6. TypeOK'
  BY <1>1, <1>2, <1>3, <1>4, <1>5 DEF Typed, TypeOK
<1> QED
  BY <1>1, <1>4, <1>5, <1>6, Times DEF Typed

LEMMA TypedDigest ==
    ASSUME Typed, NEW ok \in BOOLEAN, NEW set \in BOOLEAN,
           \/ DigestBoot(ok, set) \/ DigestLook(ok) \/ DigestSend \/ DigestFails
           \/ DigestMark(ok)
    PROVE  Typed'
<1>1. now' = now /\ news' = news /\ last' = last /\ stamp' = stamp /\ pushed' = pushed
  BY DEF DigestBoot, DigestLook, DigestSend, DigestFails, DigestMark, redis, histories
<1>2. troubles' \in 0 .. MaxTroubles
  BY Times, Numbers
     DEF Typed, TypeOK, Redis, Trouble, DigestBoot, DigestLook, DigestSend, DigestFails, DigestMark
<1>3. Today' = Today
  BY <1>1 DEF Today
<1>4. sent' \subseteq 1 .. Today /\ excused' \subseteq 1 .. Today
  BY Times
     DEF Typed, TypeOK, DigestBoot, DigestLook, DigestSend, DigestFails, DigestMark, histories
<1>5. /\ digest' \in [pc : {"boot", "ready", "send", "mark"}, at : Nat, blind : BOOLEAN]
      /\ digest'.at \in {digest.at, now}
  <2>1. digest \in [pc : {"boot", "ready", "send", "mark"}, at : Nat, blind : BOOLEAN]
    BY DEF Typed
  <2>2. CASE DigestBoot(ok, set)
    BY <2>2, Times DEF DigestBoot
  <2>3. CASE DigestLook(ok)
    <3>1. PICK p \in {"send", "ready"} : digest' = [pc |-> p, at |-> now, blind |-> ~ok]
      BY <2>3 DEF DigestLook
    <3> QED
      BY <3>1, Times
  <2>4. CASE DigestSend \/ DigestFails \/ DigestMark(ok)
    BY <2>1, <2>4 DEF DigestSend, DigestFails, DigestMark
  <2> QED
    BY <2>2, <2>3, <2>4
<1>8. digest'.at \in Day .. now /\ now <= digest'.at + 2
  BY <1>5, Times, Numbers DEF Typed
<1>9. unwritten' \subseteq {"push", "digest"}
  BY DEF Typed, DigestBoot, DigestLook, DigestSend, DigestFails, DigestMark, histories
<1>6. /\ date' \in [day : Nat, set : Nat]
      /\ date'.day \in 0 .. Today /\ date'.set \in 0 .. now
  BY Times
     DEF Typed, TypeOK, DigestBoot, DigestLook, DigestSend, DigestFails, DigestMark, redis
<1>7. TypeOK'
  BY <1>1, <1>2, <1>3, <1>4, <1>5, <1>6, <1>8 DEF Typed, TypeOK
<1> QED
  BY <1>1, <1>5, <1>6, <1>7, <1>8, <1>9 DEF Typed

LEMMA TypedCrash == Typed /\ Crash => Typed'
<1> SUFFICES ASSUME Typed, Crash PROVE Typed'
  OBVIOUS
<1>1. now' = now /\ Today' = Today
  BY DEF Crash, Today
<1>2. troubles' \in 0 .. MaxTroubles
  BY Times, Numbers DEF Typed, TypeOK, Trouble, Crash
<1>3. excused' \subseteq 1 .. Today
  <2>1. excused \subseteq 1 .. Today /\ excused' = excused \cup {Today, DayOf(digest.at)}
    BY DEF Typed, TypeOK, Crash
  <2>2. Today \in 1 .. Today /\ DayOf(digest.at) \in 1 .. Today
    BY Times
  <2> QED
    BY <2>1, <2>2
<1>4. TypeOK'
  BY <1>1, <1>2, <1>3, Times DEF Typed, TypeOK, Crash, redis, Never
<1> QED
  BY <1>1, <1>4, Times DEF Typed, Crash, redis, Never


-----------------------------------------------------------------------------
(* The news: stamps and pushes                                             *)

\* Actions of the digest leave the news and what they keep alone.
LEMMA StampedKept ==
    ASSUME Typed, Stamped, UNCHANGED <<now, last, stamp, news, pushed>>,
           ("push" \in unwritten') = ("push" \in unwritten)
    PROVE  Stamped'
BY DEF Stamped

LEMMA StampedTick ==
    ASSUME Typed, Stamped, Tick
    PROVE  Stamped'
<1>1. now' = now + 1 /\ now \in Nat
  BY Times DEF Tick
<1>2. UNCHANGED <<last, news, pushed, unwritten>>
  BY DEF Tick, histories
<1>3. /\ last \in Nat /\ stamp \in Nat /\ pushed \in Nat
      /\ stamp' = stamp \/ (stamp' = Never /\ stamp # Never /\ now' >= stamp + StampTtl)
  BY DEF Tick, Typed
<1>4. pushed # Never /\ "push" \notin unwritten =>
          IF stamp' = Never THEN now' >= pushed + Interval ELSE stamp' >= pushed
  BY <1>1, <1>3, Numbers DEF Stamped
<1> QED
  BY <1>2, <1>4 DEF Stamped

LEMMA StampedBoot ==
    ASSUME Typed, Stamped, NEW get \in BOOLEAN, NEW set \in BOOLEAN, NewsBoot(get, set)
    PROVE  Stamped'
<1>1. /\ now \in Nat /\ now # Never /\ last \in Nat /\ stamp \in Nat /\ pushed \in 0 .. now
      /\ Interval \in Nat
  BY Times, Numbers DEF Typed, TypeOK, Never
<1>2. UNCHANGED <<now, pushed, unwritten>> /\ news'.pc = "ready"
  BY DEF NewsBoot, histories
<1>3. last' # Never
  BY <1>1 DEF NewsBoot
<1>4. ASSUME pushed # Never, "push" \notin unwritten
      PROVE  /\ IF stamp' = Never THEN now >= pushed + Interval ELSE stamp' >= pushed
             /\ last' >= pushed
  <2>1. /\ IF stamp = Never THEN now >= pushed + Interval ELSE stamp >= pushed
        /\ last = Never \/ last >= pushed
    BY <1>4 DEF Stamped
  <2>2. CASE LastPush(get) = Never
    <3>1. last' = now /\ (stamp' = now \/ stamp' = stamp)
      BY <2>2 DEF NewsBoot
    <3> QED
      BY <1>1, <2>1, <3>1
  <2>3. CASE LastPush(get) # Never
    <3>1. last' = LastPush(get) /\ stamp' = stamp
      BY <2>3 DEF NewsBoot
    <3> QED
      BY <1>1, <2>1, <2>3, <3>1 DEF LastPush
  <2> QED
    BY <2>2, <2>3
<1> QED
  BY <1>2, <1>3, <1>4 DEF Stamped

LEMMA StampedLook ==
    ASSUME Typed, Stamped, NEW ok \in BOOLEAN, NewsLook(ok)
    PROVE  Stamped'
<1>1. /\ now \in Nat /\ last \in Nat /\ stamp \in Nat /\ pushed \in Nat
      /\ Interval \in Nat
  BY Times, Numbers DEF Typed
<1>2. /\ UNCHANGED <<now, stamp, pushed, unwritten>> /\ last' = LastPush(ok)
      /\ news'.at = now /\ news'.pc \in {"push", "ready"}
      /\ news'.pc = "push" => NewsDue(last')
  BY DEF NewsLook, redis, histories
<1>3. last # Never
  BY DEF NewsLook, Stamped
<1>4. last' # Never /\ last' \in Nat
  BY <1>1, <1>2, <1>3 DEF LastPush
<1>5. ASSUME pushed # Never, "push" \notin unwritten
      PROVE  /\ IF stamp = Never THEN now >= pushed + Interval ELSE stamp >= pushed
             /\ last' >= pushed
  BY <1>2, <1>3, <1>5 DEF LastPush, Stamped
<1>6. ASSUME pushed # Never, "push" \notin unwritten, news'.pc = "push"
      PROVE  now - pushed >= Interval
  <2>1. now - last' >= Interval
    BY <1>2, <1>4, <1>6 DEF NewsDue
  <2>2. last' >= pushed
    BY <1>5, <1>6
  <2>3. \A l \in Nat : now - l >= Interval /\ l >= pushed => now - pushed >= Interval
    BY <1>1
  <2> QED
    BY <1>4, <2>1, <2>2, <2>3
<1> QED
  BY <1>2, <1>4, <1>5, <1>6 DEF Stamped

LEMMA StampedPush ==
    ASSUME Typed, Stamped, NewsPush \/ NewsFails
    PROVE  Stamped'
<1>1. CASE NewsPush
  <2>1. /\ pushed' = news.at /\ "push" \in unwritten' /\ news'.pc = "stamp"
        /\ news'.at = news.at /\ last' = last /\ last # Never
    BY <1>1 DEF NewsPush, Typed, Stamped
  <2> QED
    BY <2>1, Times DEF Stamped
<1>2. CASE NewsFails
  <2>1. /\ UNCHANGED <<now, last, stamp, pushed, unwritten>> /\ news'.pc = "ready"
        /\ last # Never
    BY <1>2 DEF NewsFails, Typed, Stamped, redis, histories
  <2> QED
    BY <2>1 DEF Stamped
<1> QED
  BY <1>1, <1>2

LEMMA StampedStamp ==
    ASSUME Typed, Stamped, NEW ok \in BOOLEAN, NewsStamp(ok)
    PROVE  Stamped'
<1>1. /\ now \in Nat /\ news.at \in Nat /\ news.at # Never /\ pushed \in Nat
      /\ pushed <= news.at /\ "push" \in unwritten
  BY Times, Numbers DEF Typed, Stamped, NewsStamp, Never
<1>2. /\ UNCHANGED <<now, pushed>> /\ last' = news.at /\ news'.pc = "ready"
  BY DEF NewsStamp, Typed
<1>3. CASE ok
  <2>1. stamp' = news.at
    BY <1>3 DEF NewsStamp
  <2> QED
    BY <1>1, <1>2, <2>1 DEF Stamped
<1>4. CASE ~ok
  <2>1. "push" \in unwritten'
    BY <1>1, <1>4 DEF NewsStamp
  <2> QED
    BY <1>1, <1>2, <2>1 DEF Stamped
<1> QED
  BY <1>3, <1>4

LEMMA StampedCrash ==
    ASSUME Typed, Stamped, Crash
    PROVE  Stamped'
<1>1. /\ UNCHANGED <<now, stamp, pushed, unwritten>> /\ last' = Never
      /\ news'.pc = "boot"
  BY DEF Crash, redis
<1> QED
  BY <1>1 DEF Stamped

\* What Redis keeps of the last push is enough, whatever step is taken.
LEMMA StampedNext ==
    ASSUME Typed, Stamped, Next
    PROVE  Stamped'
<1>1. ASSUME NEW ok \in BOOLEAN, NEW set \in BOOLEAN,
             \/ DigestBoot(ok, set) \/ DigestLook(ok) \/ DigestSend \/ DigestFails
             \/ DigestMark(ok)
      PROVE  Stamped'
  <2>1. UNCHANGED <<now, last, stamp, news, pushed>>
    BY <1>1 DEF DigestBoot, DigestLook, DigestSend, DigestFails, DigestMark, redis, histories
  <2>2. ("push" \in unwritten') = ("push" \in unwritten)
    BY <1>1 DEF DigestBoot, DigestLook, DigestSend, DigestFails, DigestMark, histories
  <2> QED
    BY <2>1, <2>2, StampedKept
<1> QED
  BY <1>1, StampedTick, StampedBoot, StampedLook, StampedPush, StampedStamp, StampedCrash
     DEF Next


-----------------------------------------------------------------------------
(* The digest: its date                                                    *)

\* Actions of the news leave the digest and what it keeps alone.
LEMMA DatedKept ==
    ASSUME Dated, UNCHANGED <<now, date, digest, sent, excused>>,
           ("digest" \in unwritten') = ("digest" \in unwritten)
    PROVE  Dated'
BY DEF Dated, Today

\* The date expires on a later day only.
LEMMA DatedTick ==
    ASSUME Typed, Dated, Tick
    PROVE  Dated'
<1>1. now' = now + 1 /\ UNCHANGED <<digest, sent, excused, unwritten>>
  BY DEF Tick, histories
<1>2. Today <= Today' /\ Today \in Nat /\ Today' \in Nat
  BY <1>1, Times, DaysGrow, DayAndRest DEF Today
<1>3. date' = date \/ (date' = NoDate /\ now' >= date.set + DateTtl)
  BY DEF Tick
<1>4. date'.day <= DayOf(date'.set) /\ (date'.day # Never => date'.day \in sent \cup excused)
  BY <1>3, NoTimeYet DEF Dated, NoDate, Never
<1>5. ASSUME "digest" \notin unwritten, Today' \in sent PROVE date'.day = Today'
  <2>1. Today' = Today
    BY <1>2, <1>5, Times DEF Dated
  <2>2. date.day = Today
    BY <1>5, <2>1 DEF Dated
  <2>3. ASSUME now' >= date.set + DateTtl PROVE FALSE
    <3>1. date.set + Day <= now' /\ date.set \in Nat /\ now' \in Nat
      BY <1>1, <2>3, Times, Numbers
    <3>2. DayOf(date.set) < Today'
      BY <3>1, NextDay DEF Today
    <3>3. Today <= DayOf(date.set) /\ DayOf(date.set) \in Nat
      BY <2>2, <3>1, DayAndRest DEF Dated
    <3> QED
      BY <1>2, <2>1, <3>2, <3>3
  <2> QED
    BY <1>3, <2>1, <2>2, <2>3
<1> QED
  BY <1>1, <1>4, <1>5 DEF Dated

LEMMA DatedBoot ==
    ASSUME Typed, Dated, NEW get \in BOOLEAN, NEW set \in BOOLEAN, DigestBoot(get, set)
    PROVE  Dated'
<1>1. /\ UNCHANGED <<now, sent, unwritten>> /\ digest'.at = now /\ digest'.pc = "ready"
      /\ excused' = excused \cup {Today}
  BY DEF DigestBoot
<1>2. date' = date \/ date' = [day |-> Today, set |-> now]
  BY DEF DigestBoot
<1>3. Today' = Today
  BY <1>1 DEF Today
<1>4. sent' \subseteq 1 .. DayOf(digest'.at)
  BY <1>1, Times DEF Dated, Today
<1>5. /\ date'.day <= DayOf(date'.set)
      /\ date'.day # Never => date'.day \in sent' \cup excused'
      /\ "digest" \notin unwritten /\ Today \in sent => date'.day = Today
  <2>1. CASE date' = date
    BY <1>1, <2>1 DEF Dated
  <2>2. CASE date' = [day |-> Today, set |-> now]
    BY <1>1, <2>2, Times DEF Today
  <2> QED
    BY <1>2, <2>1, <2>2
<1> QED
  BY <1>1, <1>3, <1>4, <1>5 DEF Dated

LEMMA DatedLook ==
    ASSUME Typed, Dated, NEW ok \in BOOLEAN, DigestLook(ok)
    PROVE  Dated'
<1>1. /\ UNCHANGED <<now, date, sent, excused, unwritten>>
      /\ digest'.at = now /\ (digest'.blind = ~ok)
      /\ digest'.pc \in {"send", "ready"}
      /\ digest'.pc = "send" => DigestDue(DigestDate(ok))
  BY DEF DigestLook, redis, histories
<1>2. Today' = Today
  BY <1>1 DEF Today
<1>3. sent' \subseteq 1 .. DayOf(digest'.at)
  BY <1>1, Times DEF Dated, Today
<1>4. ASSUME digest'.pc = "send", Today \in sent, ok PROVE "digest" \in unwritten
  BY <1>1, <1>4 DEF Dated, DigestDue, DigestDate
<1>5. digest'.pc = "send" /\ DayOf(digest'.at) \in sent' =>
          digest'.blind \/ "digest" \in unwritten'
  BY <1>1, <1>4 DEF Today
<1> QED
  BY <1>1, <1>2, <1>3, <1>5 DEF Dated

LEMMA DatedSend ==
    ASSUME Typed, Dated, DigestSend
    PROVE  Dated'
<1>1. /\ UNCHANGED <<now, date, excused>> /\ digest'.at = digest.at /\ digest'.pc = "mark"
      /\ sent' = sent \cup {DayOf(digest.at)} /\ "digest" \in unwritten'
  BY DEF DigestSend, Typed, redis
<1>2. DayOf(digest.at) \in 1 .. DayOf(digest.at)
  BY Times
<1> QED
  BY <1>1, <1>2 DEF Dated

LEMMA DatedFails ==
    ASSUME Typed, Dated, DigestFails
    PROVE  Dated'
<1>1. /\ UNCHANGED <<now, date, sent, unwritten>> /\ digest'.at = digest.at
      /\ digest'.pc = "ready" /\ excused \subseteq excused'
  BY DEF DigestFails, Typed, redis
<1>2. Today' = Today
  BY <1>1 DEF Today
<1> QED
  BY <1>1, <1>2 DEF Dated

\* The mark of a digest that goes out around midnight is of the day it was due.
LEMMA DatedMark ==
    ASSUME Typed, Dated, NEW ok \in BOOLEAN, DigestMark(ok)
    PROVE  Dated'
<1>1. /\ UNCHANGED <<now, sent, excused>> /\ digest'.at = digest.at
      /\ digest'.pc = "ready" /\ DayOf(digest.at) \in sent
  BY DEF DigestMark, Typed, Dated
<1>2. Today' = Today
  BY <1>1 DEF Today
<1>3. CASE ok
  <2>1. date' = [day |-> DayOf(digest.at), set |-> now]
    BY <1>3 DEF DigestMark
  <2>2. DayOf(digest.at) <= DayOf(now)
    BY Times DEF Today
  <2>3. Today \in sent => DayOf(digest.at) = Today
    BY Times DEF Dated
  <2> QED
    BY <1>1, <1>2, <2>1, <2>2, <2>3 DEF Dated
<1>4. CASE ~ok
  <2>1. date' = date /\ unwritten' = unwritten
    BY <1>4 DEF DigestMark
  <2> QED
    BY <1>1, <1>2, <2>1 DEF Dated
<1> QED
  BY <1>3, <1>4

LEMMA DatedCrash ==
    ASSUME Typed, Dated, Crash
    PROVE  Dated'
<1>1. /\ UNCHANGED <<now, date, sent, unwritten>> /\ digest'.at = now
      /\ digest'.pc = "boot" /\ excused \subseteq excused'
  BY DEF Crash, redis
<1>2. Today' = Today
  BY <1>1 DEF Today
<1>3. sent' \subseteq 1 .. DayOf(digest'.at)
  BY <1>1, Times DEF Dated, Today
<1> QED
  BY <1>1, <1>2, <1>3 DEF Dated

\* What Redis keeps of the last digest is enough, whatever step is taken.
LEMMA DatedNext ==
    ASSUME Typed, Dated, Next
    PROVE  Dated'
<1>1. ASSUME NEW ok \in BOOLEAN, NEW set \in BOOLEAN,
             NewsBoot(ok, set) \/ NewsLook(ok) \/ NewsPush \/ NewsFails \/ NewsStamp(ok)
      PROVE  Dated'
  <2>1. UNCHANGED <<now, date, digest, sent, excused>>
    BY <1>1 DEF NewsBoot, NewsLook, NewsPush, NewsFails, NewsStamp, redis, histories
  <2>2. ("digest" \in unwritten') = ("digest" \in unwritten)
    BY <1>1 DEF NewsBoot, NewsLook, NewsPush, NewsFails, NewsStamp, histories
  <2> QED
    BY <2>1, <2>2, DatedKept
<1> QED
  BY <1>1, DatedTick, DatedBoot, DatedLook, DatedSend, DatedFails, DatedMark, DatedCrash
     DEF Next

-----------------------------------------------------------------------------
(* The digest: every day                                                   *)

\* Between two looks that lie within Tick's bound only the first two minutes of a
\* window can begin, and they are in it.
LEMMA WindowSeen ==
    ASSUME Typed, NEW k \in Nat \ {0}, digest.at < k * Day + DigestAt,
           k * Day + DigestAt <= now
    PROVE  Today = k /\ now % Day \in DigestAt .. (DigestAt + Minutes - 1)
<1>1. now <= digest.at + 2 /\ now \in Nat /\ digest.at \in Nat
  BY Times DEF Typed
<1>2. k * Day \in Nat
  BY Numbers
<1> DEFINE r == now - k * Day
<1>3. now = k * Day + r /\ r \in Nat /\ r \in DigestAt .. (DigestAt + Minutes - 1) /\ r < Day
  BY <1>1, <1>2, Numbers
<1> HIDE DEF r
<1>4. DayOf(now) = k /\ now % Day = r
  BY <1>1, <1>3, DayIs
<1> QED
  BY <1>3, <1>4 DEF Today

LEMMA SettledNext ==
    ASSUME Typed, Dated, Next, NEW k \in Nat \ {0}, Settled(k)
    PROVE  Settled(k)'
<1> DEFINE begin == k * Day + DigestAt
<1>1. begin \in Nat /\ now \in Nat /\ digest.at \in Nat /\ digest.at <= now
  BY Times, Numbers
<1>2. ASSUME NEW get \in BOOLEAN, NEW set \in BOOLEAN, DigestBoot(get, set) \/ Crash
      PROVE  Settled(k)'
  <2>1. /\ digest'.at = now /\ sent' = sent /\ excused \cup {Today} \subseteq excused'
        /\ digest.pc = "send" => DayOf(digest.at) \in excused'
    BY <1>2 DEF DigestBoot, Crash
  <2>2. CASE begin <= digest.at
    BY <2>1, <2>2 DEF Settled
  <2>3. CASE digest.at < begin /\ begin <= now
    BY <2>1, <2>3, WindowSeen DEF Settled
  <2>4. CASE now < begin
    BY <1>1, <2>1, <2>4 DEF Settled
  <2> QED
    BY <1>1, <2>2, <2>3, <2>4
<1>3. ASSUME NEW ok \in BOOLEAN, DigestLook(ok)
      PROVE  Settled(k)'
  <2>1. /\ UNCHANGED <<sent, excused>> /\ digest'.at = now /\ digest.pc = "ready"
        /\ DigestDue(DigestDate(ok)) => digest'.pc = "send"
    BY <1>3 DEF DigestLook, histories
  <2>2. CASE begin <= digest.at
    BY <2>1, <2>2 DEF Settled
  <2>3. CASE digest.at < begin /\ begin <= now
    <3>1. Today = k /\ now % Day \in DigestAt .. (DigestAt + Minutes - 1)
      BY <2>3, WindowSeen
    <3>2. CASE DigestDate(ok) = Today
      <4>1. Today \in sent \cup excused
        BY <3>1, <3>2 DEF Dated, DigestDate, Never
      <4> QED
        BY <2>1, <3>1, <4>1 DEF Settled
    <3>3. CASE DigestDate(ok) # Today
      BY <2>1, <3>1, <3>3 DEF Settled, DigestDue, Today
    <3> QED
      BY <3>2, <3>3
  <2>4. CASE now < begin
    BY <1>1, <2>1, <2>4 DEF Settled
  <2> QED
    BY <1>1, <2>2, <2>3, <2>4
<1>4. ASSUME NEW ok \in BOOLEAN, DigestSend \/ DigestFails \/ DigestMark(ok)
      PROVE  Settled(k)'
  <2>1. /\ digest'.at = digest.at /\ sent \subseteq sent' /\ excused \subseteq excused'
        /\ digest.pc = "send" => DayOf(digest.at) \in sent' \cup excused'
    BY <1>4 DEF DigestSend, DigestFails, DigestMark, Typed
  <2> QED
    BY <2>1 DEF Settled
<1>5. ASSUME UNCHANGED <<digest, sent, excused>> PROVE Settled(k)'
  BY <1>5 DEF Settled
<1> QED
  BY <1>2, <1>3, <1>4, <1>5
     DEF Next, Tick, NewsBoot, NewsLook, NewsPush, NewsFails, NewsStamp, histories

-----------------------------------------------------------------------------
(* The theorems                                                            *)

LEMMA BroadcastStep == BInv /\ [Next]_vars => BInv'
<1> SUFFICES ASSUME BInv, [Next]_vars PROVE BInv'
  OBVIOUS
<1>1. CASE UNCHANGED vars
  <2>1. Today' = Today
    BY <1>1 DEF vars, Today
  <2> QED
    BY <1>1, <2>1
       DEF BInv, Typed, TypeOK, Stamped, Dated, Settled, vars, redis, histories
<1>2. CASE Next
  <2>1. Typed'
    BY <1>2, TypedTick, TypedNews, TypedDigest, TypedCrash DEF BInv, Next
  <2>2. Stamped' /\ Dated'
    BY <1>2, StampedNext, DatedNext DEF BInv
  <2>3. \A k \in Nat \ {0} : Settled(k)'
    BY <1>2, SettledNext DEF BInv
  <2> QED
    BY <2>1, <2>2, <2>3 DEF BInv
<1> QED
  BY <1>1, <1>2

LEMMA BroadcastCorrect == Spec => []BInv
BY BroadcastInit, BroadcastStep, PTL DEF Spec

\* The clock, the stamps and the loops keep their types: none is ahead of the clock, and
\* days are recorded as sent or excused only when they have come.
THEOREM BroadcastTypeCorrect == Spec => []TypeOK
<1>1. BInv => TypeOK
  BY DEF BInv, Typed
<1> QED
  BY <1>1, BroadcastCorrect, PTL

\* Two pushes of news_push_loop lie at least NEWS_PUSH_INTERVAL apart and a day has one
\* digest, over any outages of Redis and restarts, unless what was sent last was not
\* written or the date could not be read.
THEOREM BroadcastSpacedOut == Spec => []SpacedOut
<1>1. BInv => SpacedOut
  BY DEF BInv, Stamped, Dated, SpacedOut
<1> QED
  BY <1>1, BroadcastCorrect, PTL

\* daily_digest_loop looks in the window of every day, however its minutes fall: each
\* day has its digest, but for days on which the bot started or building it failed.
THEOREM BroadcastDigestComes == Spec => []DigestComes
<1>1. BInv => DigestComes
  <2> SUFFICES ASSUME BInv, NEW k \in 1 .. Today, now >= k * Day + DigestAt + Minutes
               PROVE  k \in sent \cup excused \/ (digest.pc = "send" /\ DayOf(digest.at) = k)
    BY DEF DigestComes
  <2>1. now <= digest.at + 2 /\ now \in Nat /\ digest.at \in Nat /\ Today \in Nat
    BY Times DEF BInv, Typed
  <2>2. k \in Nat \ {0} /\ k * Day \in Nat
    BY <2>1, Numbers
  <2>3. k * Day + DigestAt <= digest.at
    BY <2>1, <2>2, Numbers
  <2> QED
    BY <2>2, <2>3 DEF BInv, Settled
<1> QED
  BY <1>1, BroadcastCorrect, PTL

-----------------------------------------------------------------------------
(* The inductive invariant of Monitor. *)

Message == [by : {"loop", "start", "stop"}, bucket : Statuses, sent : BOOLEAN, late : BOOLEAN]
LoopState == [pc : {"idle", "pick", "ask", "read", "write", "alert"}, todo : SUBSET Targets,
              target : Targets \cup {NoTarget}, result : Statuses, prev : Statuses]
TaskState == [pc : {"idle", "enable", "optin", "check", "store", "tellStart",
                    "disable", "optout", "forget", "tellStop"},
              target : Targets \cup {NoTarget}, wasOn : BOOLEAN, result : Statuses]

StoresTyped ==
    /\ truth \in [Targets -> Buckets] /\ enabled \in [Targets -> BOOLEAN]
    /\ ids \subseteq Targets
    /\ status \in [Targets -> Statuses] /\ memo \in [Targets -> Statuses]
    /\ said \in [Targets -> Seq(Message)]
    /\ upset \in [Targets -> BOOLEAN] /\ overtaken \in [Targets -> BOOLEAN]
    /\ \A t \in Targets : memo[t] # "none" => upset[t]
    /\ failures \in Nat
LoopTyped ==
    /\ loop \in LoopState
    /\ loop.pc \in {"idle", "pick"} <=> loop.target = NoTarget
    /\ loop.pc \in {"ask", "read", "write", "alert"} => loop.result \in Buckets
    /\ loop.pc = "pick" => loop.todo # {}
    /\ loop.pc = "alert" => loop.prev \in Buckets /\ loop.prev # loop.result
TasksTyped ==
    /\ task \in [Tasks -> TaskState]
    /\ \A n \in Tasks : /\ task[n].pc = "idle" <=> task[n].target = NoTarget
                        /\ task[n].pc \in {"store", "tellStart"} => task[n].result \in Buckets

About(n, t) == task[n].target = t
Handling(t, pcs) == \E n \in Tasks : About(n, t) /\ task[n].pc \in pcs
Looping(t, pcs) == loop.target = t /\ loop.pc \in pcs

\* What the histories `upset` and `overtaken` rule out.
Alone(t) == ~upset[t] => \A m, n \in Tasks : About(m, t) /\ About(n, t) => m = n
Apart(t) == ~overtaken[t] /\ loop.target = t => \A n \in Tasks : ~About(n, t)

\* The stores while a request that nothing upsets goes through its steps
RequestAgrees(n, t) ==
    /\ task[n].pc = "enable" /\ task[n].wasOn => enabled[t]
    /\ task[n].pc \in {"optin", "check", "store", "tellStart"} => enabled[t]
    /\ task[n].pc \in {"check", "store", "tellStart"} => t \in ids
    /\ task[n].pc \in {"disable", "optout"} => LastAnswer(t) = "start"
    /\ task[n].pc \in {"optout", "forget", "tellStop"} => ~enabled[t]
    /\ task[n].pc \in {"forget", "tellStop"} => t \notin ids
RequestsAgree(t) == ~upset[t] =>
    /\ Idle(t) => (enabled[t] <=> t \in ids) /\ (enabled[t] <=> LastAnswer(t) = "start")
    /\ \A n \in Tasks : About(n, t) => RequestAgrees(n, t)

LastBucket(t) == said[t][Len(said[t])].bucket

\* What the loop has read, what Redis holds and what was last said
LoopAgrees(t) == ~upset[t] /\ ~overtaken[t] =>
    /\ Looping(t, {"read", "write", "alert"}) => t \in ids
    /\ Looping(t, {"write"}) => loop.prev = status[t]
    /\ Looping(t, {"alert"}) => status[t] = loop.result
    /\ \A n \in Tasks : About(n, t) /\ task[n].pc = "tellStart" => status[t] = task[n].result
    /\ Idle(t) /\ t \in ids =>
          /\ said[t] # <<>> /\ LastBucket(t) \in Buckets
          /\ LastBucket(t) = IF Looping(t, {"alert"}) THEN loop.prev ELSE status[t]

\* Every message of the loop tells the other status than the one before it.
Alternates(s) ==
    \A i \in 1 .. Len(s) : s[i].by = "loop" =>
        i > 1 /\ s[i - 1].bucket = (IF s[i].bucket = "up" THEN "down" ELSE "up")
AlertsAlternateFor(t) == ~upset[t] /\ ~overtaken[t] => Alternates(said[t])

\* After a late alert there is none until the next answer: the loop would have
\* to find the target opted in.
LateSince(s) == \E i \in 1 .. Len(s) : s[i].late /\ \A k \in i .. Len(s) : s[k].by = "loop"
NoneFollows(t) == ~upset[t] /\ LateSince(said[t]) /\ ~Starting(t) =>
    t \notin ids /\ ~Looping(t, {"read", "write", "alert"})
OneLate(s) ==
    \A i, j \in 1 .. Len(s) : i < j /\ s[i].late /\ s[j].late =>
        \E k \in i .. j : s[k].by = "stop"
OneLateAlertFor(t) == ~upset[t] => OneLate(said[t])

TargetInv(t) ==
    /\ Alone(t) /\ Apart(t) /\ RequestsAgree(t) /\ LoopAgrees(t)
    /\ AlertsAlternateFor(t) /\ NoneFollows(t) /\ OneLateAlertFor(t)

MInv == /\ StoresTyped /\ LoopTyped /\ TasksTyped
        /\ \A t \in Targets : TargetInv(t)

-----------------------------------------------------------------------------
(* What is said: sequences of messages, and one more message at their end.  *)
(* Induction is replaced by last elements.                                  *)

SmallerPair == {pair \in Nat \X Nat : pair[1] < pair[2]}

\* A nonempty set of places of a sequence has a last one.
LEMMA LastPlace ==
  ASSUME NEW top \in Nat, NEW numbers \in SUBSET (1 .. top), numbers # {}
  PROVE  \E end \in numbers : \A m \in numbers : m <= end
<1> DEFINE distances == {top - m : m \in numbers}
<1>1. distances \in SUBSET Nat /\ distances # {}
  <2>1. \A m \in numbers : m \in Int /\ m <= top
    OBVIOUS
  <2>2. \A m \in numbers : top - m \in Nat
    BY <2>1
  <2>3. PICK m \in numbers : TRUE
    OBVIOUS
  <2>4. top - m \in distances
    BY <2>3
  <2> QED
    BY <2>2, <2>4, Zenon
<1>2. IsWellFoundedOn(SmallerPair, Nat)
  BY NatLessThanWellFounded DEF OpToRel, SmallerPair
<1>3. PICK x \in distances : \A y \in distances : ~ (<<y, x>> \in SmallerPair)
  <2> HIDE DEF distances
  <2> QED
    BY <1>1, <1>2, WFMin, Zenon
<1>4. \A y \in distances : ~(y < x)
  BY <1>1, <1>3 DEF SmallerPair
<1>5. PICK end \in numbers : x = top - end
  BY <1>3
<1>6. ASSUME NEW m \in numbers PROVE m <= end
  <2>3. top - m \in distances
    BY Zenon
  <2>1. ~(top - m < x)
    BY <1>4, <2>3, Zenon
  <2>4. m \in 1 .. top /\ end \in 1 .. top
    BY Zenon
  <2>2. m \in Nat /\ end \in Nat
    BY <2>4
  <2> QED
    BY <1>5, <2>1, <2>2
<1> QED
  BY <1>6

\* One more message
LEMMA Appended ==
  ASSUME NEW s \in Seq(Message), NEW m \in Message
  PROVE  /\ Append(s, m) \in Seq(Message) /\ Len(s) \in Nat
         /\ Len(Append(s, m)) = Len(s) + 1 /\ Append(s, m)[Len(s) + 1] = m
         /\ DOMAIN s = 1 .. Len(s) /\ DOMAIN Append(s, m) = 1 .. Len(s) + 1
         /\ \A i \in 1 .. Len(s) : Append(s, m)[i] = s[i] /\ s[i] \in Message
  BY AppendProperties, LenProperties, ElementOfSeq

\* The last answer is the one after which only the loop speaks.
LEMMA LastByIs ==
  ASSUME NEW s \in Seq(Message)
  PROVE  \/ LastBy(s) = "none" /\ \A i \in DOMAIN s : s[i].by = "loop"
         \/ \E a \in DOMAIN s :
              /\ s[a].by # "loop" /\ LastBy(s) = s[a].by
              /\ \A i \in DOMAIN s : i > a => s[i].by = "loop"
<1>1. DOMAIN s = 1 .. Len(s) /\ Len(s) \in Nat
  BY LenProperties
<1>2. CASE AnswersIn(s) = {}
  BY <1>2 DEF LastBy, AnswersIn
<1>3. CASE AnswersIn(s) # {}
  <2> DEFINE a == CHOOSE i \in AnswersIn(s) : \A j \in AnswersIn(s) : j <= i
  <2>1. AnswersIn(s) \in SUBSET (1 .. Len(s))
    BY <1>1 DEF AnswersIn
  <2>2. \E i \in AnswersIn(s) : \A j \in AnswersIn(s) : j <= i
    BY <1>1, <1>3, <2>1, LastPlace
  <2>3. a \in AnswersIn(s) /\ \A j \in AnswersIn(s) : j <= a
    BY <2>2
  <2>4. LastBy(s) = s[a].by
    BY <1>3 DEF LastBy
  <2> HIDE DEF a
  <2>5. a \in DOMAIN s /\ s[a].by # "loop"
    BY <2>3 DEF AnswersIn
  <2>6. ASSUME NEW i \in DOMAIN s, i > a PROVE s[i].by = "loop"
    <3>1. i \in 1 .. Len(s) /\ a \in 1 .. Len(s)
      BY <1>1, <2>5
    <3>2. i \in AnswersIn(s) => i <= a
      BY <2>3
    <3> QED
      BY <1>1, <2>6, <3>1, <3>2 DEF AnswersIn
  <2> QED
    BY <2>4, <2>5, <2>6
<1> QED
  BY <1>2, <1>3

\* An answer becomes the last one, an alert does not.
LEMMA LastByAppended ==
  ASSUME NEW s \in Seq(Message), NEW m \in Message
  PROVE  LastBy(Append(s, m)) = IF m.by = "loop" THEN LastBy(s) ELSE m.by
<1> DEFINE u == Append(s, m)
           n == Len(s)
<1>1. /\ u \in Seq(Message) /\ n \in Nat /\ u[n + 1] = m
      /\ DOMAIN s = 1 .. n /\ DOMAIN u = 1 .. n + 1
      /\ \A i \in 1 .. n : u[i] = s[i]
  BY Appended
<1> HIDE DEF u, n
<1>2. \/ LastBy(u) = "none" /\ \A i \in DOMAIN u : u[i].by = "loop"
      \/ \E a \in DOMAIN u :
           /\ u[a].by # "loop" /\ LastBy(u) = u[a].by
           /\ \A i \in DOMAIN u : i > a => u[i].by = "loop"
  BY <1>1, LastByIs
<1>3. CASE m.by # "loop"
  <2>1. n + 1 \in DOMAIN u /\ u[n + 1].by # "loop"
    BY <1>1, <1>3
  <2>2. PICK a \in DOMAIN u :
           /\ LastBy(u) = u[a].by
           /\ \A i \in DOMAIN u : i > a => u[i].by = "loop"
    BY <1>2, <2>1
  <2>3. a = n + 1
    <3>1. a \in 1 .. n + 1
      BY <1>1
    <3>2. ~(n + 1 > a)
      BY <2>1, <2>2
    <3> QED
      BY <1>1, <3>1, <3>2
  <2> QED
    BY <1>1, <1>3, <2>2, <2>3 DEF u
<1>4. CASE m.by = "loop"
  <2>1. \/ LastBy(s) = "none" /\ \A i \in DOMAIN s : s[i].by = "loop"
        \/ \E a \in DOMAIN s :
             /\ s[a].by # "loop" /\ LastBy(s) = s[a].by
             /\ \A i \in DOMAIN s : i > a => s[i].by = "loop"
    BY LastByIs
  <2>2. \A i \in DOMAIN u : i = n + 1 \/ i \in DOMAIN s
    BY <1>1
  <2>3. CASE \A i \in DOMAIN s : s[i].by = "loop"
    <3>1. \A i \in DOMAIN u : u[i].by = "loop"
      BY <1>1, <1>4, <2>2, <2>3
    <3> QED
      BY <1>2, <1>4, <2>1, <2>3, <3>1 DEF u
  <2>4. ASSUME NEW b \in DOMAIN s, s[b].by # "loop", LastBy(s) = s[b].by,
               \A i \in DOMAIN s : i > b => s[i].by = "loop"
        PROVE  LastBy(u) = LastBy(s)
    <3>1. b \in DOMAIN u /\ u[b].by # "loop" /\ b \in 1 .. n
      BY <1>1, <2>4
    <3>2. PICK a \in DOMAIN u :
             /\ u[a].by # "loop" /\ LastBy(u) = u[a].by
             /\ \A i \in DOMAIN u : i > a => u[i].by = "loop"
      BY <1>2, <3>1
    <3>3. a # n + 1
      BY <1>1, <1>4, <3>2
    <3>4. a \in 1 .. n /\ u[a] = s[a] /\ a \in DOMAIN s
      BY <1>1, <3>3
    <3>5. ~(a > b)
      BY <2>4, <3>2, <3>4
    <3>6. ~(b > a)
      BY <3>1, <3>2
    <3>7. a = b
      BY <1>1, <3>1, <3>4, <3>5, <3>6
    <3> QED
      BY <2>4, <3>2, <3>4, <3>7
  <2> QED
    BY <1>4, <2>1, <2>3, <2>4 DEF u
<1> QED
  BY <1>3, <1>4 DEF u

\* A message that is an answer, or tells the other status, keeps alternation.
LEMMA AlternatesAppended ==
  ASSUME NEW s \in Seq(Message), NEW m \in Message, Alternates(s),
         m.by = "loop" =>
           /\ s # <<>>
           /\ s[Len(s)].bucket = (IF m.bucket = "up" THEN "down" ELSE "up")
  PROVE  Alternates(Append(s, m))
<1> DEFINE u == Append(s, m)
           n == Len(s)
<1>1. /\ n \in Nat /\ Len(u) = n + 1 /\ u[n + 1] = m
      /\ \A i \in 1 .. n : u[i] = s[i]
  BY Appended
<1>2. s # <<>> => n > 0
  BY <1>1, EmptySeq, LenProperties
<1>3. m.by = "loop" => n > 0 /\ s[n].bucket = (IF m.bucket = "up" THEN "down" ELSE "up")
  BY <1>2
<1> HIDE DEF u, n
<1>4. \A i \in 1 .. n : s[i].by = "loop" =>
         i > 1 /\ s[i - 1].bucket = (IF s[i].bucket = "up" THEN "down" ELSE "up")
  BY DEF Alternates, n
<1>5. ASSUME NEW i \in 1 .. n + 1, u[i].by = "loop"
      PROVE  i > 1 /\ u[i - 1].bucket = (IF u[i].bucket = "up" THEN "down" ELSE "up")
  <2>1. CASE i = n + 1
    <3>1. n \in 1 .. n /\ i - 1 = n
      BY <1>1, <1>3, <1>5, <2>1
    <3> QED
      BY <1>1, <1>3, <1>5, <2>1, <3>1
  <2>2. CASE i # n + 1
    <3>1. i \in 1 .. n /\ s[i].by = "loop" /\ u[i] = s[i]
      BY <1>1, <1>5, <2>2
    <3>2. i > 1 /\ s[i - 1].bucket = (IF s[i].bucket = "up" THEN "down" ELSE "up")
      BY <1>4, <3>1
    <3>3. i - 1 \in 1 .. n
      BY <1>1, <3>1, <3>2
    <3> QED
      BY <1>1, <3>1, <3>2, <3>3
  <2> QED
    BY <2>1, <2>2
<1> QED
  BY <1>1, <1>5 DEF Alternates, u

\* An answer clears the late alerts, an alert is late itself or leaves it so.
LEMMA LateSinceAppended ==
  ASSUME NEW s \in Seq(Message), NEW m \in Message, LateSince(Append(s, m))
  PROVE  m.by = "loop" /\ (m.late \/ LateSince(s))
<1> DEFINE u == Append(s, m)
           n == Len(s)
<1>1. /\ n \in Nat /\ Len(u) = n + 1 /\ u[n + 1] = m
      /\ \A i \in 1 .. n : u[i] = s[i]
  BY Appended
<1> HIDE DEF u, n
<1>2. PICK i \in 1 .. n + 1 : u[i].late /\ \A k \in i .. n + 1 : u[k].by = "loop"
  BY <1>1 DEF LateSince, u
<1>3. n + 1 \in i .. n + 1
  BY <1>1
<1>4. m.by = "loop"
  BY <1>1, <1>2, <1>3
<1>5. CASE i = n + 1
  BY <1>1, <1>2, <1>4, <1>5
<1>6. CASE i # n + 1
  <2>1. i \in 1 .. n /\ s[i].late
    BY <1>1, <1>2, <1>6
  <2>2. \A k \in i .. n : k \in 1 .. n /\ k \in i .. n + 1
    BY <1>1, <2>1
  <2>3. \A k \in i .. n : s[k].by = "loop"
    BY <1>1, <1>2, <2>2
  <2>4. LateSince(s)
    BY <2>1, <2>3 DEF LateSince, n
  <2> QED
    BY <1>4, <2>4
<1> QED
  BY <1>5, <1>6

\* A late alert is the only one since an answer if none was late before.
LEMMA OneLateAppended ==
  ASSUME NEW s \in Seq(Message), NEW m \in Message, OneLate(s),
         m.late => ~LateSince(s) /\ LastBy(s) = "stop"
  PROVE  OneLate(Append(s, m))
<1> DEFINE u == Append(s, m)
           n == Len(s)
<1>1. /\ n \in Nat /\ Len(u) = n + 1 /\ u[n + 1] = m /\ DOMAIN s = 1 .. n
      /\ \A i \in 1 .. n : u[i] = s[i]
  BY Appended
<1> HIDE DEF u, n
<1>2. ASSUME NEW i \in 1 .. n + 1, NEW j \in 1 .. n + 1, i < j, u[i].late, u[j].late
      PROVE  \E k \in i .. j : u[k].by = "stop"
  <2>1. i \in 1 .. n /\ s[i].late
    BY <1>1, <1>2
  <2>2. CASE j = n + 1
    <3>1. ~LateSince(s) /\ LastBy(s) = "stop"
      BY <1>1, <1>2, <2>2
    <3>2. PICK k \in i .. n : s[k].by # "loop"
      BY <2>1, <3>1 DEF LateSince, n
    <3>3. k \in 1 .. n
      BY <1>1, <2>1
    <3>4. PICK a \in 1 .. n : s[a].by = "stop" /\ \A h \in 1 .. n : h > a => s[h].by = "loop"
      BY <1>1, <3>1, <3>2, <3>3, LastByIs
    <3>5. ~(k > a)
      BY <3>2, <3>3, <3>4
    <3>6. a \in i .. j
      BY <1>1, <2>1, <2>2, <3>2, <3>3, <3>5
    <3> QED
      BY <1>1, <3>4, <3>6
  <2>3. CASE j # n + 1
    <3>1. j \in 1 .. n /\ s[j].late
      BY <1>1, <1>2, <2>3
    <3>2. PICK k \in i .. j : s[k].by = "stop"
      BY <1>2, <2>1, <3>1 DEF OneLate, n
    <3>3. k \in 1 .. n
      BY <1>1, <2>1, <3>1
    <3> QED
      BY <1>1, <3>2, <3>3
  <2> QED
    BY <2>2, <2>3
<1> QED
  BY <1>1, <1>2 DEF OneLate, u

-----------------------------------------------------------------------------
(* What a step marks, and what it leaves alone.                             *)

Marks(t) ==
    /\ ~upset'[t] => /\ ~upset[t]
                     /\ \A m, n \in Tasks : task'[m].target = t /\ task'[n].target = t => m = n
    /\ ~overtaken'[t] => /\ ~overtaken[t]
                         /\ loop'.target = t => \A n \in Tasks : task'[n].target # t

\* What is not marked was not before, nor is it broken, overlapping or overtaken.
LEMMA FlagMarks ==
  ASSUME NEW broken, Flag(broken)
  PROVE  /\ upset' \in [Targets -> BOOLEAN] /\ overtaken' \in [Targets -> BOOLEAN]
         /\ \A t \in Targets : Marks(t) /\ (t \in broken => upset'[t]) /\ (upset[t] => upset'[t])
<1>1. /\ upset' = [t \in Targets |-> upset[t] \/ t \in broken
                       \/ \E m, n \in RequestsAbout(t, task') : m # n]
      /\ overtaken' = [t \in Targets |->
            overtaken[t] \/ (loop'.target = t /\ RequestsAbout(t, task') # {})]
  BY DEF Flag
<1>2. upset' \in [Targets -> BOOLEAN] /\ overtaken' \in [Targets -> BOOLEAN]
  BY <1>1
<1>3. ASSUME NEW t \in Targets
      PROVE  Marks(t) /\ (t \in broken => upset'[t]) /\ (upset[t] => upset'[t])
  <2>1. upset'[t] <=> (upset[t] \/ t \in broken \/ \E m, n \in RequestsAbout(t, task') : m # n)
    BY <1>1
  <2>2. overtaken'[t] <=> (overtaken[t] \/ (loop'.target = t /\ RequestsAbout(t, task') # {}))
    BY <1>1
  <2> QED
    BY <2>1, <2>2 DEF Marks, RequestsAbout
<1> QED
  BY <1>2, <1>3

\* A failed Redis call about a target marks it.
LEMMA RedisMarks ==
  ASSUME NEW target \in Targets, failures \in Nat, MarkRedis(target)
  PROVE  /\ upset' \in [Targets -> BOOLEAN] /\ overtaken' \in [Targets -> BOOLEAN]
         /\ \A t \in Targets : Marks(t) /\ (upset[t] => upset'[t])
         /\ Fails => upset'[target]
<1>1. PICK broken : Flag(broken) /\ (failures' # failures => target \in broken)
  BY DEF MarkRedis
<1>2. Fails => failures' # failures
  BY DEF Fails
<1> QED
  BY <1>1, <1>2, FlagMarks

\* Nothing about t changes, unless it is marked.
Untouched(t) == ~upset'[t] =>
    /\ \A n \in Tasks : About(n, t) \/ About(n, t)' => task'[n] = task[n]
    /\ said'[t] = said[t] /\ status'[t] = status[t]
    /\ enabled'[t] = enabled[t] /\ (t \in ids' <=> t \in ids)

\* The loop is busy with t as before, or neither before nor after.
LoopStays(t) == \/ loop' = loop
                \/ /\ ~Looping(t, {"read", "write", "alert"})
                   /\ ~Looping(t, {"read", "write", "alert"})'

LEMMA MarksAlone ==
  ASSUME NEW t \in Targets, Marks(t) PROVE Alone(t)' /\ Apart(t)'
  BY DEF Marks, Alone, Apart, About

LEMMA RequestsStay ==
  ASSUME NEW t \in Targets, RequestsAgree(t), Marks(t), Untouched(t)
  PROVE  RequestsAgree(t)'
<1> SUFFICES ASSUME ~upset'[t]
             PROVE  /\ Idle(t)' => /\ enabled'[t] <=> t \in ids'
                                   /\ enabled'[t] <=> LastAnswer(t)' = "start"
                    /\ \A n \in Tasks : About(n, t)' => RequestAgrees(n, t)'
  BY DEF RequestsAgree
<1>1. /\ ~upset[t] /\ said'[t] = said[t] /\ enabled'[t] = enabled[t]
      /\ t \in ids' <=> t \in ids
      /\ \A n \in Tasks : About(n, t) \/ About(n, t)' => task'[n] = task[n]
  BY DEF Marks, Untouched
<1>2. LastAnswer(t)' = LastAnswer(t)
  BY <1>1 DEF LastAnswer
<1>3. \A n \in Tasks : About(n, t)' <=> About(n, t)
  BY <1>1 DEF About
<1>4. Idle(t)' <=> Idle(t)
  BY <1>3 DEF Idle, RequestsAbout, About
<1>5. ASSUME NEW n \in Tasks, About(n, t)' PROVE RequestAgrees(n, t)'
  <2>1. task'[n] = task[n] /\ RequestAgrees(n, t)
    BY <1>1, <1>3, <1>5 DEF RequestsAgree
  <2> QED
    BY <1>1, <1>2, <2>1 DEF RequestAgrees
<1> QED
  BY <1>1, <1>2, <1>4, <1>5 DEF RequestsAgree

LEMMA LoopAgreesStays ==
  ASSUME NEW t \in Targets, LoopAgrees(t), Marks(t), Untouched(t), LoopStays(t)
  PROVE  LoopAgrees(t)'
<1> SUFFICES ASSUME ~upset'[t], ~overtaken'[t]
             PROVE  LoopAgrees(t)'
  BY DEF LoopAgrees
<1>1. /\ ~upset[t] /\ ~overtaken[t] /\ said'[t] = said[t] /\ status'[t] = status[t]
      /\ t \in ids' <=> t \in ids
      /\ \A n \in Tasks : About(n, t) \/ About(n, t)' => task'[n] = task[n]
  BY DEF Marks, Untouched
<1>2. LastBucket(t)' = LastBucket(t)
  BY <1>1 DEF LastBucket
<1>3. \A n \in Tasks : About(n, t)' <=> About(n, t)
  BY <1>1 DEF About
<1>4. Idle(t)' <=> Idle(t)
  BY <1>3 DEF Idle, RequestsAbout, About
<1>5. \A n \in Tasks : About(n, t)' /\ task'[n].pc = "tellStart" => status'[t] = task'[n].result
  BY <1>1, <1>3 DEF LoopAgrees
<1>6. /\ Looping(t, {"read", "write", "alert"})' => t \in ids'
      /\ Looping(t, {"write"})' => loop'.prev = status'[t]
      /\ Looping(t, {"alert"})' => status'[t] = loop'.result
  BY <1>1 DEF LoopAgrees, LoopStays, Looping
<1>7. Idle(t)' /\ t \in ids' =>
          /\ said'[t] # <<>> /\ LastBucket(t)' \in Buckets
          /\ LastBucket(t)' = IF Looping(t, {"alert"})' THEN loop'.prev ELSE status'[t]
  <2>1. Idle(t) /\ t \in ids =>
          /\ said[t] # <<>> /\ LastBucket(t) \in Buckets
          /\ LastBucket(t) = IF Looping(t, {"alert"}) THEN loop.prev ELSE status[t]
    BY <1>1 DEF LoopAgrees
  <2> QED
    BY <1>1, <1>2, <1>4, <2>1 DEF LoopStays, Looping
<1> QED
  BY <1>5, <1>6, <1>7 DEF LoopAgrees, Buckets

\* A late alert stays the last while the loop does not find t opted in.
LEMMA NoneFollowsStays ==
  ASSUME NEW t \in Targets, NoneFollows(t), Marks(t),
         ~upset'[t] => /\ LateSince(said'[t]) => LateSince(said[t])
                       /\ Starting(t) => Starting(t)' \/ ~LateSince(said'[t])
                       /\ t \in ids' => t \in ids \/ Starting(t)'
                       /\ \/ Looping(t, {"read", "write", "alert"})
                          \/ t \in ids
                          \/ ~Looping(t, {"read", "write", "alert"})'
  PROVE  NoneFollows(t)'
<1> SUFFICES ASSUME ~upset'[t], LateSince(said'[t]), ~Starting(t)'
             PROVE  t \notin ids' /\ ~Looping(t, {"read", "write", "alert"})'
  BY DEF NoneFollows
<1>1. ~upset[t] /\ LateSince(said[t]) /\ ~Starting(t)
  BY DEF Marks
<1>2. t \notin ids /\ ~Looping(t, {"read", "write", "alert"})
  BY <1>1 DEF NoneFollows
<1> QED
  BY <1>2

LEMMA SaidStays ==
  ASSUME NEW t \in Targets, Marks(t), ~upset'[t] => said'[t] = said[t],
         AlertsAlternateFor(t), OneLateAlertFor(t)
  PROVE  AlertsAlternateFor(t)' /\ OneLateAlertFor(t)'
  BY DEF Marks, AlertsAlternateFor, OneLateAlertFor

\* What does not touch t keeps all that holds of it.
LEMMA TargetStays ==
  ASSUME NEW t \in Targets, TargetInv(t), Marks(t), Untouched(t), LoopStays(t)
  PROVE  TargetInv(t)'
<1>1. RequestsAgree(t)' /\ LoopAgrees(t)'
  BY RequestsStay, LoopAgreesStays DEF TargetInv
<1>2. Alone(t)' /\ Apart(t)'
  BY MarksAlone
<1>3. NoneFollows(t)'
  <2>1. ~upset'[t] => /\ said'[t] = said[t] /\ (t \in ids' <=> t \in ids)
                      /\ (Starting(t) => Starting(t)')
    BY DEF Untouched, Starting, About
  <2>2. \/ Looping(t, {"read", "write", "alert"})
        \/ ~Looping(t, {"read", "write", "alert"})'
    BY DEF LoopStays, Looping
  <2>3. NoneFollows(t)
    BY DEF TargetInv
  <2> QED
    BY <2>1, <2>2, <2>3, NoneFollowsStays
<1>4. AlertsAlternateFor(t)' /\ OneLateAlertFor(t)'
  BY SaidStays DEF TargetInv, Untouched
<1> QED
  BY <1>1, <1>2, <1>3, <1>4 DEF TargetInv

-----------------------------------------------------------------------------
(* The steps of a request.                                                  *)

StartingPcs == {"enable", "optin", "check", "store", "tellStart"}

\* Request n about t moves; the loop and all that is about other targets stays.
Moves(n, t) ==
    /\ task' \in [Tasks -> TaskState] /\ loop' = loop
    /\ \A m \in Tasks \ {n} : task'[m] = task[m]
    /\ task[n].target \in {t, NoTarget} /\ task'[n].target \in {t, NoTarget}
    /\ task[n].target = t \/ task'[n].target = t
    /\ task'[n].pc = "idle" <=> task'[n].target = NoTarget
    /\ task'[n].pc \in {"store", "tellStart"} => task'[n].result \in Buckets
    /\ \A u \in Targets \ {t} :
          /\ said'[u] = said[u] /\ status'[u] = status[u]
          /\ enabled'[u] = enabled[u] /\ (u \in ids' <=> u \in ids)

\* Nothing else is about t, unless it is marked.
LEMMA OnlyAbout ==
  ASSUME MInv, NEW n \in Tasks, NEW t \in Targets, Moves(n, t), Marks(t)
  PROVE  /\ ~upset'[t] => \A m \in Tasks \ {n} : ~About(m, t) /\ ~About(m, t)'
         /\ ~overtaken'[t] => loop.target # t
<1>1. Alone(t) /\ Apart(t)
  BY DEF MInv, TargetInv
<1>2. \A m \in Tasks \ {n} : About(m, t)' <=> About(m, t)
  BY DEF Moves, About
<1>3. About(n, t) \/ About(n, t)'
  BY DEF Moves, About
<1>4. ~upset'[t] => \A m \in Tasks \ {n} : ~About(m, t) /\ ~About(m, t)'
  BY <1>1, <1>2, <1>3 DEF Marks, Alone, About
<1>5. ~overtaken'[t] => loop.target # t
  BY <1>1, <1>3 DEF Marks, Apart, About, Moves
<1> QED
  BY <1>4, <1>5

\* It remains to see what the request makes of its own target.
LEMMA MoveInv ==
  ASSUME MInv, StoresTyped', NEW n \in Tasks, NEW t \in Targets, Moves(n, t),
         \A u \in Targets : Marks(u),
         RequestsAgree(t)', LoopAgrees(t)', AlertsAlternateFor(t)', NoneFollows(t)',
         OneLateAlertFor(t)'
  PROVE  MInv'
<1>1. LoopTyped'
  BY DEF MInv, LoopTyped, Moves
<1>2. TasksTyped'
  BY DEF MInv, TasksTyped, Moves
<1>3. TargetInv(t)'
  BY MarksAlone DEF TargetInv
<1>4. ASSUME NEW u \in Targets, u # t PROVE TargetInv(u)'
  <2>1. u # NoTarget
    BY MonitorAssumption
  <2>2. Untouched(u) /\ LoopStays(u)
    BY <1>4, <2>1 DEF Untouched, LoopStays, Moves, About
  <2> QED
    BY <2>2, TargetStays DEF MInv
<1> QED
  BY <1>1, <1>2, <1>3, <1>4 DEF MInv

\* A step of a request that is under way and says nothing yet
LEMMA UnderWay ==
  ASSUME MInv, StoresTyped', NEW n \in Tasks, NEW t \in Targets, Moves(n, t),
         \A u \in Targets : Marks(u),
         said' = said, About(n, t)',
         ~upset'[t] => RequestAgrees(n, t)',
         ~upset'[t] /\ task'[n].pc = "tellStart" => status'[t] = task'[n].result,
         About(n, t) /\ task[n].pc \in StartingPcs => task'[n].pc \in StartingPcs,
         t \in ids' => t \in ids \/ task'[n].pc \in StartingPcs
  PROVE  MInv'
<1>1. TargetInv(t) /\ Marks(t)
  BY DEF MInv
<1>2. /\ ~upset'[t] => \A m \in Tasks \ {n} : ~About(m, t) /\ ~About(m, t)'
      /\ ~overtaken'[t] => loop.target # t
  BY OnlyAbout
<1>3. RequestsAgree(t)'
  <2> SUFFICES ASSUME ~upset'[t] PROVE RequestsAgree(t)'
    BY DEF RequestsAgree
  <2>1. ~Idle(t)'
    BY DEF Idle, RequestsAbout, About
  <2>2. \A m \in Tasks : About(m, t)' => m = n
    BY <1>2
  <2> QED
    BY <2>1, <2>2 DEF RequestsAgree
<1>4. LoopAgrees(t)'
  <2> SUFFICES ASSUME ~upset'[t], ~overtaken'[t] PROVE LoopAgrees(t)'
    BY DEF LoopAgrees
  <2>1. ~Idle(t)'
    BY DEF Idle, RequestsAbout, About
  <2>2. \A m \in Tasks : About(m, t)' => m = n
    BY <1>2
  <2>3. loop'.target # t
    BY <1>2 DEF Moves
  <2>4. \A pcs : ~Looping(t, pcs)'
    BY <2>3 DEF Looping
  <2> QED
    BY <2>1, <2>2, <2>3 DEF LoopAgrees, Looping
<1>5. AlertsAlternateFor(t)' /\ OneLateAlertFor(t)'
  BY <1>1, SaidStays DEF TargetInv
<1>6. NoneFollows(t)'
  <2>1. task'[n].pc \in StartingPcs => Starting(t)'
    BY DEF Starting, StartingPcs, About
  <2>2. Starting(t) => Starting(t)'
    <3> SUFFICES ASSUME NEW m \in Tasks, About(m, t), task[m].pc \in StartingPcs
                 PROVE  Starting(t)'
      BY DEF Starting, StartingPcs, About
    <3>1. CASE m = n
      BY <2>1, <3>1
    <3>2. CASE m # n
      <4>1. task'[m] = task[m]
        BY <3>2 DEF Moves
      <4> QED
        BY <4>1 DEF Starting, StartingPcs, About
    <3> QED
      BY <3>1, <3>2
  <2>3. \/ Looping(t, {"read", "write", "alert"})
        \/ ~Looping(t, {"read", "write", "alert"})'
    BY DEF Looping, Moves
  <2> QED
    BY <1>1, <2>1, <2>2, <2>3, NoneFollowsStays DEF TargetInv
<1> QED
  BY <1>3, <1>4, <1>5, <1>6, MoveInv

LEMMA TaskMoves ==
  ASSUME TasksTyped, NEW n \in Tasks, NEW state \in TaskState,
         task' = [task EXCEPT ![n] = state]
  PROVE  /\ task' \in [Tasks -> TaskState] /\ task'[n] = state
         /\ \A m \in Tasks \ {n} : task'[m] = task[m]
<1>1. task \in [Tasks -> TaskState]
  BY DEF TasksTyped
<1> QED
  BY <1>1

LEMMA TaskGoes ==
  ASSUME TasksTyped, NEW n \in Tasks, NEW pc, Go(n, pc),
         pc \in {"optin", "check", "tellStart", "optout", "forget", "tellStop"}
  PROVE  /\ task' \in [Tasks -> TaskState]
         /\ task'[n].pc = pc /\ task'[n].target = task[n].target
         /\ task'[n].wasOn = task[n].wasOn /\ task'[n].result = task[n].result
         /\ \A m \in Tasks \ {n} : task'[m] = task[m]
<1>1. task \in [Tasks -> TaskState] /\ task' = [task EXCEPT ![n].pc = pc]
  BY DEF TasksTyped, Go
<1>2. task[n] \in TaskState
  BY <1>1
<1> DEFINE state == [task[n] EXCEPT !.pc = pc]
<1>3. state \in TaskState
  BY <1>2 DEF TaskState
<1>4. /\ state.pc = pc /\ state.target = task[n].target
      /\ state.wasOn = task[n].wasOn /\ state.result = task[n].result
  BY <1>2 DEF TaskState
<1>5. task' = [task EXCEPT ![n] = state]
  BY <1>1
<1> HIDE DEF state
<1>6. /\ task' \in [Tasks -> TaskState] /\ task'[n] = state
      /\ \A m \in Tasks \ {n} : task'[m] = task[m]
  BY <1>3, <1>5, TaskMoves
<1> QED
  BY <1>4, <1>6

LEMMA RequestInv ==
  ASSUME MInv, NEW n \in Tasks, NEW t \in Targets, Request(n, t)
  PROVE  MInv'
<1>1. PICK pc \in {"enable", "disable"} :
         /\ task[n].pc = "idle" /\ (pc = "disable" => enabled[t])
         /\ task' = [task EXCEPT ![n] = [pc |-> pc, target |-> t,
                                         wasOn |-> enabled[t], result |-> "none"]]
         /\ failures' = failures /\ Flag({})
         /\ UNCHANGED <<truth, enabled, ids, status, memo, loop, said>>
  BY DEF Request, Works, Mark, sharedVars
<1>2. StoresTyped /\ TasksTyped
  BY DEF MInv
<1>3. /\ upset' \in [Targets -> BOOLEAN] /\ overtaken' \in [Targets -> BOOLEAN]
      /\ \A u \in Targets : Marks(u) /\ (upset[u] => upset'[u])
  BY <1>1, FlagMarks
<1>4. StoresTyped'
  BY <1>1, <1>2, <1>3 DEF StoresTyped
<1> DEFINE state == [pc |-> pc, target |-> t, wasOn |-> enabled[t], result |-> "none"]
<1>5. enabled[t] \in BOOLEAN
  BY <1>2 DEF StoresTyped
<1>6. state \in TaskState
  BY <1>5 DEF TaskState, Statuses
<1>7. /\ task' \in [Tasks -> TaskState] /\ task'[n] = state
      /\ \A m \in Tasks \ {n} : task'[m] = task[m]
  BY <1>1, <1>2, <1>6, TaskMoves
<1>8. task'[n].pc = pc /\ task'[n].target = t /\ task'[n].wasOn = enabled[t]
  BY <1>7
<1>9. task[n].target = NoTarget /\ t # NoTarget
  BY <1>1, <1>2, MonitorAssumption DEF TasksTyped
<1>10. Moves(n, t)
  BY <1>1, <1>7, <1>8, <1>9 DEF Moves
<1>11. ~upset'[t] => RequestAgrees(n, t)'
  <2> SUFFICES ASSUME ~upset'[t] PROVE RequestAgrees(n, t)'
    OBVIOUS
  <2>1. \A m \in Tasks : ~About(m, t)
    BY <1>3, <1>9, <1>10, OnlyAbout DEF About
  <2>2. Idle(t) /\ ~upset[t]
    BY <1>3, <2>1 DEF Idle, RequestsAbout, About, Marks
  <2>3. enabled[t] <=> LastAnswer(t) = "start"
    BY <2>2 DEF MInv, TargetInv, RequestsAgree
  <2>4. LastAnswer(t)' = LastAnswer(t) /\ enabled' = enabled
    BY <1>1 DEF LastAnswer
  <2> QED
    BY <1>1, <1>8, <2>3, <2>4 DEF RequestAgrees
<1>12. task'[n].pc # "tellStart" /\ ~About(n, t) /\ About(n, t)'
  BY <1>1, <1>8, <1>9 DEF About
<1> QED
  BY <1>1, <1>3, <1>4, <1>10, <1>11, <1>12, UnderWay

\* A call that may fail, about t
LEMMA CallMarks ==
  ASSUME StoresTyped, NEW t \in Targets, Works \/ Fails, MarkRedis(t)
  PROVE  /\ upset' \in [Targets -> BOOLEAN] /\ overtaken' \in [Targets -> BOOLEAN]
         /\ \A u \in Targets : Marks(u) /\ (upset[u] => upset'[u])
         /\ Fails => upset'[t]
         /\ failures' \in Nat
  BY RedisMarks DEF StoresTyped, Works, Fails

LEMMA WorkMarks ==
  ASSUME StoresTyped, Works \/ Fails, Mark
  PROVE  /\ upset' \in [Targets -> BOOLEAN] /\ overtaken' \in [Targets -> BOOLEAN]
         /\ \A u \in Targets : Marks(u) /\ (upset[u] => upset'[u])
         /\ failures' \in Nat
  BY FlagMarks DEF StoresTyped, Works, Fails, Mark

\* A step of a request from one place to the next
LEMMA GoMoves ==
  ASSUME MInv, NEW n \in Tasks, NEW t \in Targets, NEW from, NEW pc,
         At(n, t, from), Go(n, pc),
         pc \in {"optin", "check", "tellStart", "optout", "forget", "tellStop"},
         pc = "tellStart" => from = "store",
         UNCHANGED <<loop, said>>,
         \A u \in Targets \ {t} :
            status'[u] = status[u] /\ enabled'[u] = enabled[u] /\ (u \in ids' <=> u \in ids)
  PROVE  /\ Moves(n, t) /\ task[n].pc = from
         /\ task'[n].pc = pc /\ About(n, t) /\ About(n, t)'
         /\ task'[n].wasOn = task[n].wasOn /\ task'[n].result = task[n].result
<1>1. TasksTyped /\ task[n].pc = from /\ task[n].target = t
  BY DEF MInv, At
<1>2. /\ task' \in [Tasks -> TaskState]
      /\ task'[n].pc = pc /\ task'[n].target = task[n].target
      /\ task'[n].wasOn = task[n].wasOn /\ task'[n].result = task[n].result
      /\ \A m \in Tasks \ {n} : task'[m] = task[m]
  BY <1>1, TaskGoes
<1>3. t # NoTarget
  BY MonitorAssumption
<1>4. task'[n].pc \in {"store", "tellStart"} => task'[n].result \in Buckets
  BY <1>1, <1>2 DEF TasksTyped
<1> QED
  BY <1>1, <1>2, <1>3, <1>4 DEF Moves, About

\* What holds of a request and its target as long as nothing is upset
LEMMA Agreed ==
  ASSUME MInv, NEW n \in Tasks, NEW t \in Targets, About(n, t), ~upset[t]
  PROVE  RequestAgrees(n, t)
  BY DEF MInv, TargetInv, RequestsAgree

LEMMA EnableInv ==
  ASSUME MInv, NEW n \in Tasks, NEW t \in Targets, Enable(n, t)
  PROVE  MInv'
<1>1. /\ At(n, t, "enable") /\ Go(n, "optin") /\ Works /\ Mark
      /\ enabled' = [enabled EXCEPT ![t] = IF task[n].wasOn THEN @ ELSE TRUE]
      /\ UNCHANGED <<truth, ids, status, memo, loop, said>>
  BY DEF Enable
<1>2. StoresTyped /\ TasksTyped
  BY DEF MInv
<1>3. /\ upset' \in [Targets -> BOOLEAN] /\ overtaken' \in [Targets -> BOOLEAN]
      /\ \A u \in Targets : Marks(u) /\ (upset[u] => upset'[u])
      /\ failures' \in Nat
  BY <1>1, <1>2, WorkMarks
<1>4. /\ enabled' \in [Targets -> BOOLEAN]
      /\ enabled'[t] = (IF task[n].wasOn THEN enabled[t] ELSE TRUE)
      /\ \A u \in Targets \ {t} : enabled'[u] = enabled[u]
  BY <1>1, <1>2 DEF StoresTyped
<1>5. StoresTyped'
  BY <1>1, <1>2, <1>3, <1>4 DEF StoresTyped
<1>6. /\ Moves(n, t) /\ task[n].pc = "enable"
      /\ task'[n].pc = "optin" /\ About(n, t) /\ About(n, t)'
  <2>1. \A u \in Targets \ {t} :
           status'[u] = status[u] /\ enabled'[u] = enabled[u] /\ (u \in ids' <=> u \in ids)
    BY <1>1, <1>4
  <2>2. At(n, t, "enable") /\ Go(n, "optin") /\ UNCHANGED <<loop, said>>
    BY <1>1
  <2> QED
    BY <2>1, <2>2, GoMoves
<1>7. ~upset'[t] => RequestAgrees(n, t)'
  <2> SUFFICES ASSUME ~upset'[t] PROVE RequestAgrees(n, t)'
    OBVIOUS
  <2>1. RequestAgrees(n, t)
    BY <1>3, <1>6, Agreed
  <2>2. enabled'[t]
    BY <1>4, <1>6, <2>1 DEF RequestAgrees
  <2> QED
    BY <1>6, <2>2 DEF RequestAgrees
<1> QED
  BY <1>1, <1>3, <1>5, <1>6, <1>7, UnderWay DEF StartingPcs

LEMMA OptInInv ==
  ASSUME MInv, NEW n \in Tasks, NEW t \in Targets, OptIn(n, t)
  PROVE  MInv'
<1>1. /\ At(n, t, "optin") /\ Go(n, "check") /\ MarkRedis(t)
      /\ \/ ids' = ids \cup {t} /\ Works
         \/ UNCHANGED ids /\ Fails
      /\ UNCHANGED <<truth, enabled, status, memo, loop, said>>
  BY DEF OptIn
<1>2. StoresTyped /\ TasksTyped
  BY DEF MInv
<1>3. /\ upset' \in [Targets -> BOOLEAN] /\ overtaken' \in [Targets -> BOOLEAN]
      /\ \A u \in Targets : Marks(u) /\ (upset[u] => upset'[u])
      /\ Fails => upset'[t]
      /\ failures' \in Nat
  BY <1>1, <1>2, CallMarks
<1>5. StoresTyped'
  BY <1>1, <1>2, <1>3 DEF StoresTyped
<1>6. /\ Moves(n, t) /\ task[n].pc = "optin"
      /\ task'[n].pc = "check" /\ About(n, t) /\ About(n, t)'
  BY <1>1, GoMoves
<1>7. ~upset'[t] => RequestAgrees(n, t)'
  <2> SUFFICES ASSUME ~upset'[t] PROVE RequestAgrees(n, t)'
    OBVIOUS
  <2>1. RequestAgrees(n, t)
    BY <1>3, <1>6, Agreed
  <2>2. t \in ids' /\ enabled'[t]
    BY <1>1, <1>3, <1>6, <2>1 DEF RequestAgrees
  <2> QED
    BY <1>6, <2>2 DEF RequestAgrees
<1> QED
  BY <1>1, <1>3, <1>5, <1>6, <1>7, UnderWay DEF StartingPcs

LEMMA FirstCheckInv ==
  ASSUME MInv, NEW n \in Tasks, NEW t \in Targets, FirstCheck(n, t)
  PROVE  MInv'
<1>1. /\ At(n, t, "check") /\ Works /\ Mark
      /\ task' = [task EXCEPT ![n].pc = "store", ![n].result = truth[t]]
      /\ UNCHANGED <<truth, enabled, ids, status, memo, loop, said>>
  BY DEF FirstCheck, sharedVars
<1>2. StoresTyped /\ TasksTyped
  BY DEF MInv
<1>3. /\ upset' \in [Targets -> BOOLEAN] /\ overtaken' \in [Targets -> BOOLEAN]
      /\ \A u \in Targets : Marks(u) /\ (upset[u] => upset'[u])
      /\ failures' \in Nat
  BY <1>1, <1>2, WorkMarks
<1>4. StoresTyped'
  BY <1>1, <1>2, <1>3 DEF StoresTyped
<1>5. truth[t] \in Buckets /\ task[n] \in TaskState /\ task \in [Tasks -> TaskState]
  BY <1>2 DEF StoresTyped, TasksTyped
<1> DEFINE state == [task[n] EXCEPT !.pc = "store", !.result = truth[t]]
<1>6. /\ state \in TaskState /\ state.pc = "store" /\ state.target = task[n].target
      /\ state.result = truth[t]
  BY <1>5 DEF TaskState, Statuses, Buckets
<1>7. task' = [task EXCEPT ![n] = state]
  BY <1>1, <1>5
<1> HIDE DEF state
<1>8. /\ task' \in [Tasks -> TaskState] /\ task'[n] = state
      /\ \A m \in Tasks \ {n} : task'[m] = task[m]
  BY <1>2, <1>6, <1>7, TaskMoves
<1>9. task[n].pc = "check" /\ task[n].target = t /\ t # NoTarget
  BY <1>1, MonitorAssumption DEF At
<1>10. task'[n].pc = "store" /\ About(n, t) /\ About(n, t)'
  BY <1>6, <1>8, <1>9 DEF About
<1>11. Moves(n, t)
  BY <1>1, <1>5, <1>6, <1>8, <1>9 DEF Moves
<1>12. ~upset'[t] => RequestAgrees(n, t)'
  <2> SUFFICES ASSUME ~upset'[t] PROVE RequestAgrees(n, t)'
    OBVIOUS
  <2>1. RequestAgrees(n, t)
    BY <1>3, <1>10, Agreed
  <2> QED
    BY <1>1, <1>9, <1>10, <2>1 DEF RequestAgrees
<1> QED
  BY <1>1, <1>3, <1>4, <1>10, <1>11, <1>12, UnderWay DEF StartingPcs

LEMMA StoreInv ==
  ASSUME MInv, NEW n \in Tasks, NEW t \in Targets, Store(n, t)
  PROVE  MInv'
<1>1. /\ At(n, t, "store") /\ Go(n, "tellStart") /\ MarkRedis(t)
      /\ \/ status' = [status EXCEPT ![t] = task[n].result] /\ Works
         \/ UNCHANGED status /\ Fails
      /\ UNCHANGED <<truth, enabled, ids, memo, loop, said>>
  BY DEF Store
<1>2. StoresTyped /\ TasksTyped
  BY DEF MInv
<1>3. /\ upset' \in [Targets -> BOOLEAN] /\ overtaken' \in [Targets -> BOOLEAN]
      /\ \A u \in Targets : Marks(u) /\ (upset[u] => upset'[u])
      /\ Fails => upset'[t]
      /\ failures' \in Nat
  BY <1>1, <1>2, CallMarks
<1>4. task[n].result \in Statuses
  BY <1>1, <1>2 DEF TasksTyped, At, Statuses
<1>5. /\ status' \in [Targets -> Statuses]
      /\ \A u \in Targets \ {t} : status'[u] = status[u]
      /\ Works => status'[t] = task[n].result \/ Fails
  BY <1>1, <1>2, <1>4 DEF StoresTyped
<1>6. StoresTyped'
  BY <1>1, <1>2, <1>3, <1>5 DEF StoresTyped
<1>7. /\ Moves(n, t) /\ task[n].pc = "store"
      /\ task'[n].pc = "tellStart" /\ About(n, t) /\ About(n, t)'
      /\ task'[n].result = task[n].result
  BY <1>1, <1>5, GoMoves
<1>8. ~upset'[t] => RequestAgrees(n, t)'
  <2> SUFFICES ASSUME ~upset'[t] PROVE RequestAgrees(n, t)'
    OBVIOUS
  <2>1. RequestAgrees(n, t)
    BY <1>3, <1>7, Agreed
  <2> QED
    BY <1>1, <1>7, <2>1 DEF RequestAgrees
<1>9. ~upset'[t] => status'[t] = task'[n].result
  BY <1>1, <1>3, <1>5, <1>7
<1> QED
  BY <1>1, <1>3, <1>6, <1>7, <1>8, <1>9, UnderWay DEF StartingPcs

LEMMA DisableInv ==
  ASSUME MInv, NEW n \in Tasks, NEW t \in Targets, Disable(n, t)
  PROVE  MInv'
<1>1. /\ At(n, t, "disable") /\ Go(n, "optout") /\ Works /\ Mark
      /\ enabled' = [enabled EXCEPT ![t] = FALSE]
      /\ UNCHANGED <<truth, ids, status, memo, loop, said>>
  BY DEF Disable
<1>2. StoresTyped /\ TasksTyped
  BY DEF MInv
<1>3. /\ upset' \in [Targets -> BOOLEAN] /\ overtaken' \in [Targets -> BOOLEAN]
      /\ \A u \in Targets : Marks(u) /\ (upset[u] => upset'[u])
      /\ failures' \in Nat
  BY <1>1, <1>2, WorkMarks
<1>4. /\ enabled' \in [Targets -> BOOLEAN] /\ ~enabled'[t]
      /\ \A u \in Targets \ {t} : enabled'[u] = enabled[u]
  BY <1>1, <1>2 DEF StoresTyped
<1>5. StoresTyped'
  BY <1>1, <1>2, <1>3, <1>4 DEF StoresTyped
<1>6. /\ Moves(n, t) /\ task[n].pc = "disable"
      /\ task'[n].pc = "optout" /\ About(n, t) /\ About(n, t)'
  <2>1. \A u \in Targets \ {t} :
           status'[u] = status[u] /\ enabled'[u] = enabled[u] /\ (u \in ids' <=> u \in ids)
    BY <1>1, <1>4
  <2>2. At(n, t, "disable") /\ Go(n, "optout") /\ UNCHANGED <<loop, said>>
    BY <1>1
  <2> QED
    BY <2>1, <2>2, GoMoves
<1>7. ~upset'[t] => RequestAgrees(n, t)'
  <2> SUFFICES ASSUME ~upset'[t] PROVE RequestAgrees(n, t)'
    OBVIOUS
  <2>1. RequestAgrees(n, t)
    BY <1>3, <1>6, Agreed
  <2>2. LastAnswer(t)' = LastAnswer(t)
    BY <1>1 DEF LastAnswer
  <2> QED
    BY <1>4, <1>6, <2>1, <2>2 DEF RequestAgrees
<1> QED
  BY <1>1, <1>3, <1>5, <1>6, <1>7, UnderWay DEF StartingPcs

LEMMA OptOutInv ==
  ASSUME MInv, NEW n \in Tasks, NEW t \in Targets, OptOut(n, t)
  PROVE  MInv'
<1>1. PICK pc \in {"forget", "tellStop"} :
      /\ At(n, t, "optout") /\ MarkRedis(t) /\ Go(n, pc)
      /\ \/ ids' = ids \ {t} /\ Works /\ pc = "forget"
         \/ UNCHANGED ids /\ Fails
      /\ UNCHANGED <<truth, enabled, status, memo, loop, said>>
  BY DEF OptOut
<1>2. StoresTyped /\ TasksTyped
  BY DEF MInv
<1>3. /\ upset' \in [Targets -> BOOLEAN] /\ overtaken' \in [Targets -> BOOLEAN]
      /\ \A u \in Targets : Marks(u) /\ (upset[u] => upset'[u])
      /\ Fails => upset'[t]
      /\ failures' \in Nat
  BY <1>1, <1>2, CallMarks
<1>5. StoresTyped'
  BY <1>1, <1>2, <1>3 DEF StoresTyped
<1>6. /\ Moves(n, t) /\ task[n].pc = "optout"
      /\ task'[n].pc = pc /\ About(n, t) /\ About(n, t)'
  BY <1>1, GoMoves
<1>7. ~upset'[t] => RequestAgrees(n, t)'
  <2> SUFFICES ASSUME ~upset'[t] PROVE RequestAgrees(n, t)'
    OBVIOUS
  <2>1. RequestAgrees(n, t)
    BY <1>3, <1>6, Agreed
  <2>2. t \notin ids' /\ ~enabled'[t]
    BY <1>1, <1>3, <1>6, <2>1 DEF RequestAgrees
  <2> QED
    BY <1>6, <2>2 DEF RequestAgrees
<1> QED
  BY <1>1, <1>3, <1>5, <1>6, <1>7, UnderWay DEF StartingPcs

LEMMA ForgetInv ==
  ASSUME MInv, NEW n \in Tasks, NEW t \in Targets, Forget(n, t)
  PROVE  MInv'
<1>1. /\ At(n, t, "forget") /\ MarkRedis(t) /\ Go(n, "tellStop")
      /\ \/ status' = [status EXCEPT ![t] = "none"] /\ Works
         \/ UNCHANGED status /\ Fails
      /\ UNCHANGED <<truth, enabled, ids, memo, loop, said>>
  BY DEF Forget
<1>2. StoresTyped /\ TasksTyped
  BY DEF MInv
<1>3. /\ upset' \in [Targets -> BOOLEAN] /\ overtaken' \in [Targets -> BOOLEAN]
      /\ \A u \in Targets : Marks(u) /\ (upset[u] => upset'[u])
      /\ failures' \in Nat
  BY <1>1, <1>2, CallMarks
<1>4. /\ status' \in [Targets -> Statuses]
      /\ \A u \in Targets \ {t} : status'[u] = status[u]
  BY <1>1, <1>2 DEF StoresTyped, Statuses
<1>5. StoresTyped'
  BY <1>1, <1>2, <1>3, <1>4 DEF StoresTyped
<1>6. /\ Moves(n, t) /\ task[n].pc = "forget"
      /\ task'[n].pc = "tellStop" /\ About(n, t) /\ About(n, t)'
  BY <1>1, <1>4, GoMoves
<1>7. ~upset'[t] => RequestAgrees(n, t)'
  <2> SUFFICES ASSUME ~upset'[t] PROVE RequestAgrees(n, t)'
    OBVIOUS
  <2>1. RequestAgrees(n, t)
    BY <1>3, <1>6, Agreed
  <2> QED
    BY <1>1, <1>6, <2>1 DEF RequestAgrees
<1> QED
  BY <1>1, <1>3, <1>5, <1>6, <1>7, UnderWay DEF StartingPcs

-----------------------------------------------------------------------------
(* What is said, and the end of a request.                                  *)

LEMMA SayFacts ==
  ASSUME StoresTyped, NEW t \in Targets, NEW by \in {"loop", "start", "stop"},
         NEW bucket \in Statuses, NEW arrives \in BOOLEAN, Say(t, by, bucket, arrives)
  PROVE  /\ said' \in [Targets -> Seq(Message)] /\ said[t] \in Seq(Message)
         /\ \A u \in Targets \ {t} : said'[u] = said[u]
         /\ \E m \in Message :
              /\ said'[t] = Append(said[t], m) /\ m.by = by /\ m.bucket = bucket
              /\ m.late <=> by = "loop" /\ LastAnswer(t) = "stop" /\ ~Starting(t)
<1> DEFINE late == by = "loop" /\ LastAnswer(t) = "stop" /\ ~Starting(t)
           m == [by |-> by, bucket |-> bucket, sent |-> arrives, late |-> late]
<1>1. late \in BOOLEAN
  OBVIOUS
<1>2. said' = [said EXCEPT ![t] = Append(said[t], m)]
  BY DEF Say
<1> HIDE DEF late
<1>3. m \in Message
  BY <1>1 DEF Message
<1>4. m.by = by /\ m.bucket = bucket /\ m.late = late
  OBVIOUS
<1> HIDE DEF m
<1>5. said \in [Targets -> Seq(Message)] /\ said[t] \in Seq(Message)
  BY DEF StoresTyped
<1>6. Append(said[t], m) \in Seq(Message)
  BY <1>3, <1>5, Appended
<1>7. /\ said' \in [Targets -> Seq(Message)] /\ said'[t] = Append(said[t], m)
      /\ \A u \in Targets \ {t} : said'[u] = said[u]
  BY <1>2, <1>5, <1>6
<1> QED
  BY <1>3, <1>4, <1>5, <1>7 DEF late

\* The answer that ends a request
LEMMA TellInv ==
  ASSUME MInv, NEW n \in Tasks, NEW t \in Targets, TellStart(n, t) \/ TellStop(n, t)
  PROVE  MInv'
<1>1. PICK by \in {"start", "stop"}, bucket \in Statuses, arrives \in BOOLEAN :
         /\ Say(t, by, bucket, arrives) /\ Finish(n) /\ (Works \/ Fails) /\ Mark
         /\ \/ At(n, t, "tellStart") /\ by = "start" /\ bucket = task[n].result
            \/ At(n, t, "tellStop") /\ by = "stop"
         /\ UNCHANGED <<truth, enabled, ids, status, memo, loop>>
  <2>1. CASE TellStart(n, t)
    <3>1. task[n].result \in Statuses
      BY <2>1 DEF MInv, TasksTyped, TellStart, At, Statuses
    <3> QED
      BY <2>1, <3>1 DEF TellStart, sharedVars
  <2>2. CASE TellStop(n, t)
    BY <2>2 DEF TellStop, sharedVars, Statuses
  <2> QED
    BY <2>1, <2>2
<1>2. StoresTyped /\ TasksTyped
  BY DEF MInv
<1>3. /\ upset' \in [Targets -> BOOLEAN] /\ overtaken' \in [Targets -> BOOLEAN]
      /\ \A u \in Targets : Marks(u) /\ (upset[u] => upset'[u])
      /\ failures' \in Nat
  BY <1>1, <1>2, WorkMarks
<1>4. /\ said' \in [Targets -> Seq(Message)] /\ said[t] \in Seq(Message)
      /\ \A u \in Targets \ {t} : said'[u] = said[u]
      /\ \E m \in Message :
           /\ said'[t] = Append(said[t], m) /\ m.by = by /\ m.bucket = bucket
           /\ m.late <=> by = "loop" /\ LastAnswer(t) = "stop" /\ ~Starting(t)
  BY <1>1, <1>2, SayFacts
<1>5. PICK m \in Message :
         said'[t] = Append(said[t], m) /\ m.by = by /\ m.bucket = bucket /\ ~m.late
  BY <1>4
<1>6. StoresTyped'
  BY <1>1, <1>2, <1>3, <1>4 DEF StoresTyped
<1>7. task[n].pc \in {"tellStart", "tellStop"} /\ task[n].target = t /\ t # NoTarget
  BY <1>1, MonitorAssumption DEF At
<1>8. IdleTask \in TaskState /\ IdleTask.pc = "idle" /\ IdleTask.target = NoTarget
  BY DEF IdleTask, TaskState, Statuses
<1>9. /\ task' \in [Tasks -> TaskState] /\ task'[n] = IdleTask
      /\ \A k \in Tasks \ {n} : task'[k] = task[k]
  BY <1>1, <1>2, <1>8, TaskMoves DEF Finish
<1>10. Moves(n, t)
  BY <1>1, <1>4, <1>7, <1>8, <1>9 DEF Moves
<1>11. /\ ~upset'[t] => ~upset[t] /\ \A k \in Tasks : ~About(k, t)'
       /\ ~overtaken'[t] => loop.target # t /\ ~overtaken[t]
  BY <1>3, <1>7, <1>8, <1>9, <1>10, OnlyAbout DEF About, Marks
<1>12. /\ LastBy(said'[t]) = by
       /\ Len(said[t]) \in Nat /\ said'[t][Len(said'[t])] = m
       /\ said'[t] \in Seq(Message) /\ said'[t] # <<>>
  <2>1. LastBy(said'[t]) = by
    BY <1>4, <1>5, LastByAppended
  <2>2. Len(said[t]) \in Nat /\ Len(said'[t]) = Len(said[t]) + 1 /\ said'[t][Len(said[t]) + 1] = m
    BY <1>4, <1>5, Appended
  <2>3. said'[t] \in Seq(Message) /\ said'[t] # <<>>
    BY <1>4, <2>2, EmptySeq
  <2> QED
    BY <2>1, <2>2, <2>3
<1>13. ~upset[t] => RequestAgrees(n, t)
  BY <1>7, Agreed DEF About
<1>14. RequestsAgree(t)'
  <2> SUFFICES ASSUME ~upset'[t] PROVE RequestsAgree(t)'
    BY DEF RequestsAgree
  <2>1. \A k \in Tasks : ~About(k, t)'
    BY <1>11
  <2>2. LastAnswer(t)' = by
    BY <1>12 DEF LastAnswer
  <2>3. enabled' = enabled /\ ids' = ids
    BY <1>1
  <2>4. (enabled[t] <=> t \in ids) /\ (enabled[t] <=> by = "start")
    BY <1>1, <1>11, <1>13 DEF RequestAgrees, At
  <2> QED
    BY <2>1, <2>2, <2>3, <2>4 DEF RequestsAgree
<1>15. LoopAgrees(t)'
  <2> SUFFICES ASSUME ~upset'[t], ~overtaken'[t] PROVE LoopAgrees(t)'
    BY DEF LoopAgrees
  <2>1. loop'.target # t /\ \A k \in Tasks : ~About(k, t)'
    BY <1>1, <1>11
  <2>2. LastBucket(t)' = bucket
    BY <1>5, <1>12 DEF LastBucket
  <2>3. t \in ids' => At(n, t, "tellStart") /\ status'[t] = task[n].result
    <3>1. RequestAgrees(n, t) /\ LoopAgrees(t)
      BY <1>11, <1>13 DEF MInv, TargetInv
    <3> QED
      BY <1>1, <1>7, <1>11, <3>1 DEF RequestAgrees, LoopAgrees, At, About
  <2>4. t \in ids' => bucket \in Buckets /\ bucket = status'[t]
    BY <1>1, <1>2, <2>3 DEF At, TasksTyped
  <2> QED
    BY <1>12, <2>1, <2>2, <2>4 DEF LoopAgrees, Looping
<1>16. AlertsAlternateFor(t)'
  <2>1. ~upset'[t] /\ ~overtaken'[t] => Alternates(said[t])
    BY <1>11 DEF MInv, TargetInv, AlertsAlternateFor
  <2>2. Alternates(said[t]) => Alternates(said'[t])
    BY <1>1, <1>4, <1>5, AlternatesAppended
  <2> QED
    BY <2>1, <2>2 DEF AlertsAlternateFor
<1>17. OneLateAlertFor(t)'
  <2>1. ~upset'[t] => OneLate(said[t])
    BY <1>11 DEF MInv, TargetInv, OneLateAlertFor
  <2>2. OneLate(said[t]) => OneLate(said'[t])
    BY <1>4, <1>5, OneLateAppended
  <2> QED
    BY <2>1, <2>2 DEF OneLateAlertFor
<1>18. NoneFollows(t)'
  <2>1. ~LateSince(said'[t])
    BY <1>1, <1>4, <1>5, LateSinceAppended
  <2> QED
    BY <2>1 DEF NoneFollows
<1> QED
  BY <1>3, <1>6, <1>10, <1>14, <1>15, <1>16, <1>17, <1>18, MoveInv

LEMMA BotFailsInv ==
  ASSUME MInv, BotFails
  PROVE  MInv'
<1>1. PICK cut \in SUBSET {n \in Tasks : task[n].pc # "idle"} :
         /\ task' = [n \in Tasks |-> IF n \in cut THEN IdleTask ELSE task[n]]
         /\ Fails
         /\ UNCHANGED <<truth, enabled, ids, status, memo, loop, said>>
         /\ Flag({task[n].target : n \in {m \in Tasks : task'[m] # task[m]}})
  BY DEF BotFails, sharedVars
<1>2. StoresTyped /\ TasksTyped /\ LoopTyped
  BY DEF MInv
<1>3. /\ upset' \in [Targets -> BOOLEAN] /\ overtaken' \in [Targets -> BOOLEAN]
      /\ \A u \in Targets : Marks(u) /\ (upset[u] => upset'[u])
      /\ \A u \in Targets : \A n \in Tasks : task'[n] # task[n] /\ task[n].target = u => upset'[u]
  <2> DEFINE broken == {task[n].target : n \in {m \in Tasks : task'[m] # task[m]}}
  <2>1. Flag(broken) /\ \A n \in Tasks : task'[n] # task[n] => task[n].target \in broken
    BY <1>1
  <2> HIDE DEF broken
  <2> QED
    BY <2>1, FlagMarks
<1>4. failures' \in Nat
  BY <1>1, <1>2 DEF Fails, StoresTyped
<1>5. StoresTyped'
  BY <1>1, <1>2, <1>3, <1>4 DEF StoresTyped
<1>6. IdleTask \in TaskState /\ IdleTask.pc = "idle" /\ IdleTask.target = NoTarget
  BY DEF IdleTask, TaskState, Statuses
<1>7. \A n \in Tasks : task'[n] = IdleTask \/ task'[n] = task[n]
  BY <1>1
<1>8. task' \in [Tasks -> TaskState]
  BY <1>1, <1>2, <1>6 DEF TasksTyped
<1>9. TasksTyped'
  BY <1>2, <1>6, <1>7, <1>8 DEF TasksTyped
<1>10. LoopTyped'
  BY <1>1, <1>2 DEF LoopTyped
<1>11. ASSUME NEW u \in Targets PROVE TargetInv(u)'
  <2>1. u # NoTarget
    BY MonitorAssumption
  <2>2. ~upset'[u] => \A n \in Tasks : About(n, u) \/ About(n, u)' => task'[n] = task[n]
    BY <1>3, <1>6, <1>7, <2>1 DEF About
  <2>3. Untouched(u) /\ LoopStays(u)
    BY <1>1, <2>2 DEF Untouched, LoopStays
  <2> QED
    BY <1>3, <2>3, TargetStays DEF MInv
<1> QED
  BY <1>5, <1>9, <1>10, <1>11 DEF MInv

LEMMA FlipInv ==
  ASSUME MInv, Flip
  PROVE  MInv'
<1>1. PICK t \in Targets :
         /\ truth' = [truth EXCEPT ![t] = IF @ = "up" THEN "down" ELSE "up"]
         /\ Works /\ Mark
         /\ UNCHANGED <<enabled, ids, status, memo, loop, task, said>>
  BY DEF Flip, sharedVars
<1>2. StoresTyped /\ TasksTyped /\ LoopTyped
  BY DEF MInv
<1>3. /\ upset' \in [Targets -> BOOLEAN] /\ overtaken' \in [Targets -> BOOLEAN]
      /\ \A u \in Targets : Marks(u) /\ (upset[u] => upset'[u])
      /\ failures' \in Nat
  BY <1>1, <1>2, WorkMarks
<1>4. truth' \in [Targets -> Buckets]
  BY <1>1, <1>2 DEF StoresTyped, Buckets
<1>5. StoresTyped'
  BY <1>1, <1>2, <1>3, <1>4 DEF StoresTyped
<1>6. TasksTyped' /\ LoopTyped'
  BY <1>1, <1>2 DEF TasksTyped, LoopTyped
<1>7. ASSUME NEW u \in Targets PROVE TargetInv(u)'
  <2>1. Untouched(u) /\ LoopStays(u)
    BY <1>1 DEF Untouched, LoopStays
  <2> QED
    BY <1>3, <2>1, TargetStays DEF MInv
<1> QED
  BY <1>5, <1>6, <1>7 DEF MInv

-----------------------------------------------------------------------------
(* The steps of the loop.                                                   *)

Notifying == {"read", "write", "alert"}

\* A step of the loop that is about t or about no target
Cycles(t) ==
    /\ task' = task /\ enabled' = enabled /\ ids' = ids
    /\ loop.target \in {t, NoTarget} /\ loop'.target \in {t, NoTarget}
    /\ \A u \in Targets \ {t} : said'[u] = said[u] /\ status'[u] = status[u]

LEMMA LoopLeaves ==
  ASSUME LoopTyped, Leave
  PROVE  LoopTyped' /\ loop'.pc \in {"idle", "pick"} /\ loop'.target = NoTarget
<1>1. \/ loop' = IdleLoop
      \/ loop.todo # {} /\ loop' = [IdleLoop EXCEPT !.pc = "pick", !.todo = loop.todo]
  BY DEF Leave
<1>2. loop.todo \in SUBSET Targets
  BY DEF LoopTyped, LoopState
<1>3. CASE loop' = IdleLoop
  BY <1>3 DEF LoopTyped, LoopState, IdleLoop, Statuses
<1>4. CASE loop.todo # {} /\ loop' = [IdleLoop EXCEPT !.pc = "pick", !.todo = loop.todo]
  <2>1. loop' = [pc |-> "pick", todo |-> loop.todo, target |-> NoTarget,
                 result |-> "none", prev |-> "none"]
    BY <1>4 DEF IdleLoop
  <2>2. loop' \in LoopState
    BY <1>2, <2>1 DEF LoopState, Statuses
  <2>5. loop.todo # {}
    BY <1>4, Zenon
  <2>3. loop'.pc = "pick" /\ loop'.target = NoTarget /\ loop'.todo # {}
    BY <2>1, <2>5
  <2> QED
    BY <2>2, <2>3 DEF LoopTyped
<1> QED
  BY <1>1, <1>3, <1>4

\* The target at hand
LEMMA AtHand ==
  ASSUME LoopTyped, loop.pc \in {"ask", "read", "write", "alert"}
  PROVE  /\ loop.target \in Targets /\ loop.result \in Buckets
         /\ loop.pc \notin {"idle", "pick"}
  BY DEF LoopTyped, LoopState

\* It remains to see what the step makes of its own target.
LEMMA CycleInv ==
  ASSUME MInv, StoresTyped', LoopTyped', NEW t \in Targets, Cycles(t),
         \A u \in Targets : Marks(u),
         LastAnswer(t)' = LastAnswer(t),
         LoopAgrees(t)', AlertsAlternateFor(t)', NoneFollows(t)', OneLateAlertFor(t)'
  PROVE  MInv'
<1>1. TasksTyped'
  BY DEF MInv, TasksTyped, Cycles
<1>2. RequestsAgree(t)'
  <2> SUFFICES ASSUME ~upset'[t] PROVE RequestsAgree(t)'
    BY DEF RequestsAgree
  <2>1. ~upset[t] /\ RequestsAgree(t)
    BY DEF Marks, MInv, TargetInv
  <2>2. task' = task /\ enabled' = enabled /\ ids' = ids
    BY DEF Cycles
  <2>3. Idle(t)' <=> Idle(t)
    BY <2>2 DEF Idle, RequestsAbout
  <2>4. ASSUME NEW n \in Tasks, About(n, t)' PROVE RequestAgrees(n, t)'
    <3>1. About(n, t)
      BY <2>2, <2>4 DEF About
    <3>2. RequestAgrees(n, t)
      BY <2>1, <3>1 DEF RequestsAgree
    <3> QED
      BY <2>2, <3>2 DEF RequestAgrees
  <2> QED
    BY <2>1, <2>2, <2>3, <2>4 DEF RequestsAgree
<1>3. TargetInv(t)'
  BY <1>2, MarksAlone DEF TargetInv
<1>4. ASSUME NEW u \in Targets, u # t PROVE TargetInv(u)'
  <2>1. u # NoTarget
    BY MonitorAssumption
  <2>2. Untouched(u) /\ LoopStays(u)
    BY <1>4, <2>1 DEF Untouched, LoopStays, Looping, Cycles
  <2> QED
    BY <2>2, TargetStays DEF MInv
<1> QED
  BY <1>1, <1>3, <1>4 DEF MInv

\* The part of the invariant that tells the stores from what was said
LEMMA LoopAlone ==
  ASSUME MInv, NEW t \in Targets, Marks(t), loop.target = t \/ loop'.target = t,
         task' = task, ~upset'[t], ~overtaken'[t], loop'.target \in {t, NoTarget}
  PROVE  /\ \A n \in Tasks : ~About(n, t) /\ ~About(n, t)'
         /\ Idle(t) /\ Idle(t)' /\ ~upset[t] /\ ~overtaken[t] /\ LoopAgrees(t)
<1>1. ~upset[t] /\ ~overtaken[t] /\ LoopAgrees(t) /\ Apart(t)
  BY DEF MInv, TargetInv, Marks
<1>2. \A n \in Tasks : ~About(n, t)
  BY <1>1 DEF Marks, Apart, About
<1>3. \A n \in Tasks : ~About(n, t)'
  BY <1>2 DEF About
<1> QED
  BY <1>1, <1>2, <1>3 DEF Idle, RequestsAbout, About

\* A step of the loop about t that says nothing, from the check to the alert
LEMMA SilentInv ==
  ASSUME MInv, StoresTyped', LoopTyped', NEW t \in Targets, Cycles(t), said' = said,
         loop.target = t, \A u \in Targets : Marks(u),
         loop'.pc \in Notifying => loop.pc \in Notifying \/ t \in ids,
         ~upset'[t] /\ ~overtaken'[t] =>
            /\ Looping(t, {"write"})' => loop'.prev = status'[t]
            /\ Looping(t, {"alert"})' => status'[t] = loop'.result
            /\ t \in ids /\ LastBucket(t) \in Buckets
               /\ LastBucket(t) = (IF Looping(t, {"alert"}) THEN loop.prev ELSE status[t])
               => LastBucket(t) = (IF Looping(t, {"alert"})' THEN loop'.prev ELSE status'[t])
  PROVE  MInv'
<1>1. Marks(t) /\ TargetInv(t) /\ task' = task /\ ids' = ids /\ loop'.target \in {t, NoTarget}
  BY DEF MInv, Cycles
<1>2. LastAnswer(t)' = LastAnswer(t) /\ LastBucket(t)' = LastBucket(t)
  BY DEF LastAnswer, LastBucket
<1>3. LoopAgrees(t)'
  <2> SUFFICES ASSUME ~upset'[t], ~overtaken'[t] PROVE LoopAgrees(t)'
    BY DEF LoopAgrees
  <2>1. /\ \A n \in Tasks : ~About(n, t) /\ ~About(n, t)'
        /\ Idle(t) /\ Idle(t)' /\ ~upset[t] /\ ~overtaken[t] /\ LoopAgrees(t)
    BY <1>1, LoopAlone
  <2>2. Looping(t, Notifying)' => t \in ids'
    BY <1>1, <2>1 DEF LoopAgrees, Looping, Notifying
  <2>3. t \in ids' => /\ said[t] # <<>> /\ LastBucket(t) \in Buckets
                      /\ LastBucket(t) = (IF Looping(t, {"alert"}) THEN loop.prev ELSE status[t])
    BY <1>1, <2>1 DEF LoopAgrees
  <2>4. t \in ids' =>
           LastBucket(t) = (IF Looping(t, {"alert"})' THEN loop'.prev ELSE status'[t])
    BY <1>1, <2>3
  <2>5. /\ Looping(t, {"write"})' => loop'.prev = status'[t]
        /\ Looping(t, {"alert"})' => status'[t] = loop'.result
    OBVIOUS
  <2> QED
    BY <1>2, <2>1, <2>2, <2>3, <2>4, <2>5 DEF LoopAgrees, Notifying
<1>4. AlertsAlternateFor(t)' /\ OneLateAlertFor(t)'
  BY <1>1, SaidStays DEF TargetInv
<1>5. NoneFollows(t)'
  <2>1. Starting(t)' <=> Starting(t)
    BY <1>1 DEF Starting
  <2>2. \/ Looping(t, {"read", "write", "alert"})
        \/ t \in ids
        \/ ~Looping(t, {"read", "write", "alert"})'
    BY <1>1 DEF Looping, Notifying
  <2> QED
    BY <1>1, <2>1, <2>2, NoneFollowsStays DEF TargetInv
<1> QED
  BY <1>2, <1>3, <1>4, <1>5, CycleInv

\* A step of the loop that is not yet, or no longer, asking Redis
LEMMA OutsideInv ==
  ASSUME MInv, StoresTyped', LoopTyped',
         UNCHANGED <<task, enabled, ids, status, said>>, \A u \in Targets : Marks(u),
         loop.pc \notin Notifying, loop'.pc \notin Notifying
  PROVE  MInv'
<1>1. TasksTyped'
  BY DEF MInv, TasksTyped
<1>2. ASSUME NEW u \in Targets PROVE TargetInv(u)'
  <2>1. Untouched(u) /\ LoopStays(u)
    BY DEF Untouched, LoopStays, Looping, Notifying
  <2> QED
    BY <2>1, TargetStays DEF MInv
<1> QED
  BY <1>1, <1>2 DEF MInv

\* An alert, sent or lost
LEMMA AlertedInv ==
  ASSUME MInv, StoresTyped', LoopTyped', loop.pc = "alert", NEW arrives \in BOOLEAN,
         Say(loop.target, "loop", loop.result, arrives),
         UNCHANGED <<task, enabled, ids, status>>, loop'.target = NoTarget,
         \A u \in Targets : Marks(u)
  PROVE  MInv'
<1>1. LoopTyped /\ StoresTyped
  BY DEF MInv
<1>2. /\ loop.target \in Targets /\ loop.result \in Buckets /\ loop.prev \in Buckets
      /\ loop.prev # loop.result
  BY <1>1, AtHand DEF LoopTyped
<1>3. PICK t \in Targets : t = loop.target
  BY <1>2
<1>4. loop.result \in Statuses /\ Say(t, "loop", loop.result, arrives)
  BY <1>2, <1>3 DEF Statuses
<1>5. /\ said' \in [Targets -> Seq(Message)] /\ said[t] \in Seq(Message)
      /\ \A u \in Targets \ {t} : said'[u] = said[u]
      /\ \E m \in Message :
           /\ said'[t] = Append(said[t], m) /\ m.by = "loop" /\ m.bucket = loop.result
           /\ m.late <=> LastAnswer(t) = "stop" /\ ~Starting(t)
  BY <1>1, <1>4, SayFacts
<1>6. PICK m \in Message :
           /\ said'[t] = Append(said[t], m) /\ m.by = "loop" /\ m.bucket = loop.result
           /\ m.late <=> LastAnswer(t) = "stop" /\ ~Starting(t)
  BY <1>5
<1>7. t # NoTarget /\ Marks(t) /\ TargetInv(t) /\ Looping(t, {"alert"})
      /\ Looping(t, {"read", "write", "alert"})
  BY <1>3, MonitorAssumption DEF MInv, Looping
<1>8. Cycles(t)
  BY <1>3, <1>5 DEF Cycles
<1>9. LastAnswer(t)' = LastAnswer(t)
  BY <1>5, <1>6, LastByAppended DEF LastAnswer
<1>10. Len(said[t]) \in Nat /\ said'[t][Len(said'[t])] = m /\ said'[t] # <<>>
  <2>1. Len(said[t]) \in Nat /\ Len(said'[t]) = Len(said[t]) + 1 /\ said'[t][Len(said[t]) + 1] = m
    BY <1>5, <1>6, Appended
  <2> QED
    BY <2>1, EmptySeq
<1>11. ASSUME ~upset'[t], ~overtaken'[t]
       PROVE  /\ Idle(t)' /\ \A n \in Tasks : ~About(n, t)'
              /\ t \in ids /\ status[t] = loop.result
              /\ said[t] # <<>> /\ LastBucket(t) = loop.prev
  <2>1. /\ Idle(t) /\ Idle(t)' /\ ~upset[t] /\ ~overtaken[t] /\ LoopAgrees(t)
        /\ \A n \in Tasks : ~About(n, t)'
    BY <1>3, <1>7, <1>11, LoopAlone
  <2> QED
    BY <1>7, <2>1 DEF LoopAgrees
<1>12. LoopAgrees(t)'
  <2> SUFFICES ASSUME ~upset'[t], ~overtaken'[t] PROVE LoopAgrees(t)'
    BY DEF LoopAgrees
  <2>1. LastBucket(t)' = loop.result
    BY <1>6, <1>10 DEF LastBucket
  <2>2. \A pcs : ~Looping(t, pcs)'
    BY <1>7 DEF Looping
  <2>3. status'[t] = loop.result
    BY <1>11
  <2> QED
    BY <1>2, <1>10, <1>11, <2>1, <2>2, <2>3 DEF LoopAgrees
<1>13. AlertsAlternateFor(t)'
  <2> SUFFICES ASSUME ~upset'[t], ~overtaken'[t] PROVE Alternates(said'[t])
    BY DEF AlertsAlternateFor
  <2>1. Alternates(said[t])
    BY <1>7 DEF TargetInv, AlertsAlternateFor, Marks
  <2>2. said[t] # <<>> /\ said[t][Len(said[t])].bucket = loop.prev
    BY <1>11 DEF LastBucket
  <2>3. loop.prev = (IF m.bucket = "up" THEN "down" ELSE "up")
    BY <1>2, <1>6 DEF Buckets
  <2> QED
    BY <1>5, <1>6, <2>1, <2>2, <2>3, AlternatesAppended
\* The loop is at an alert: nothing late was said before it.
<1>14. ~upset'[t] /\ m.late => ~LateSince(said[t]) /\ LastBy(said[t]) = "stop" /\ t \notin ids
  <2> SUFFICES ASSUME ~upset'[t], m.late
               PROVE  ~LateSince(said[t]) /\ LastBy(said[t]) = "stop" /\ t \notin ids
    OBVIOUS
  <2>1. ~upset[t] /\ LastAnswer(t) = "stop" /\ ~Starting(t)
    BY <1>6, <1>7 DEF Marks
  <2>2. ~LateSince(said[t])
    BY <1>7, <2>1 DEF TargetInv, NoneFollows
  <2>3. t \notin ids
    <3>1. CASE Idle(t)
      BY <1>7, <2>1, <3>1 DEF TargetInv, RequestsAgree
    <3>2. CASE ~Idle(t)
      <4>1. PICK n \in Tasks : About(n, t)
        BY <3>2 DEF Idle, RequestsAbout, About
      <4>2. RequestAgrees(n, t)
        BY <2>1, <4>1, Agreed
      <4>3. /\ task[n] \in TaskState /\ task[n].pc # "idle"
            /\ task[n].pc \notin {"enable", "optin", "check", "store", "tellStart"}
        BY <1>7, <2>1, <4>1 DEF MInv, TasksTyped, About, Starting
      <4>4. task[n].pc \in {"disable", "optout", "forget", "tellStop"}
        BY <4>3 DEF TaskState
      <4> QED
        BY <2>1, <4>2, <4>4 DEF RequestAgrees
    <3> QED
      BY <3>1, <3>2
  <2> QED
    BY <2>1, <2>2, <2>3 DEF LastAnswer
<1>15. OneLateAlertFor(t)'
  <2>1. ~upset'[t] => OneLate(said[t])
    BY <1>7 DEF Marks, TargetInv, OneLateAlertFor
  <2>2. ~upset'[t] => OneLate(said'[t])
    BY <1>5, <1>6, <1>14, <2>1, OneLateAppended
  <2> QED
    BY <2>2 DEF OneLateAlertFor
<1>16. NoneFollows(t)'
  <2> SUFFICES ASSUME ~upset'[t], LateSince(said'[t]), ~Starting(t)'
               PROVE  t \notin ids' /\ ~Looping(t, {"read", "write", "alert"})'
    BY DEF NoneFollows
  <2>1. m.late \/ LateSince(said[t])
    BY <1>5, <1>6, LateSinceAppended
  <2>2. ~Starting(t) /\ ~upset[t]
    BY <1>7 DEF Starting, Marks
  <2>3. ~LateSince(said[t])
    BY <1>7, <2>2 DEF TargetInv, NoneFollows
  <2>4. t \notin ids
    BY <1>14, <2>1, <2>3
  <2> QED
    BY <1>7, <2>4 DEF Looping
<1> QED
  BY <1>8, <1>9, <1>12, <1>13, <1>15, <1>16, CycleInv

LEMMA ListInv ==
  ASSUME MInv, List
  PROVE  MInv'
<1>1. /\ loop.pc = "idle" /\ Works /\ Mark
      /\ \E t \in Targets : enabled[t]
      /\ loop' = [IdleLoop EXCEPT !.pc = "pick", !.todo = {t \in Targets : enabled[t]}]
      /\ UNCHANGED <<truth, enabled, ids, status, memo, task, said>>
  BY DEF List, sharedVars
<1>2. StoresTyped
  BY DEF MInv
<1>3. /\ upset' \in [Targets -> BOOLEAN] /\ overtaken' \in [Targets -> BOOLEAN]
      /\ \A u \in Targets : Marks(u) /\ (upset[u] => upset'[u])
      /\ failures' \in Nat
  BY <1>1, <1>2, WorkMarks
<1>4. StoresTyped'
  BY <1>1, <1>2, <1>3 DEF StoresTyped
<1> DEFINE due == {t \in Targets : enabled[t]}
<1>5. due \in SUBSET Targets /\ due # {}
  BY <1>1
<1> HIDE DEF due
<1>6. loop' = [pc |-> "pick", todo |-> due, target |-> NoTarget,
               result |-> "none", prev |-> "none"]
  BY <1>1 DEF IdleLoop, due
<1>7. loop' \in LoopState
  BY <1>5, <1>6 DEF LoopState, Statuses
<1>8. loop'.pc = "pick" /\ loop'.target = NoTarget /\ loop'.todo # {}
  BY <1>5, <1>6
<1>9. LoopTyped'
  BY <1>7, <1>8 DEF LoopTyped
<1> QED
  BY <1>1, <1>3, <1>4, <1>8, <1>9, OutsideInv DEF Notifying

LEMMA CheckInv ==
  ASSUME MInv, Check
  PROVE  MInv'
<1>1. PICK t \in loop.todo :
      /\ loop.pc = "pick" /\ Works /\ Mark
      /\ loop' = [pc |-> "ask", todo |-> loop.todo \ {t}, target |-> t,
                  result |-> truth[t], prev |-> "none"]
      /\ UNCHANGED <<truth, enabled, ids, status, memo, task, said>>
  BY DEF Check, sharedVars
<1>2. StoresTyped /\ LoopTyped
  BY DEF MInv
<1>3. /\ upset' \in [Targets -> BOOLEAN] /\ overtaken' \in [Targets -> BOOLEAN]
      /\ \A u \in Targets : Marks(u) /\ (upset[u] => upset'[u])
      /\ failures' \in Nat
  BY <1>1, <1>2, WorkMarks
<1>4. StoresTyped'
  BY <1>1, <1>2, <1>3 DEF StoresTyped
<1>5. t \in Targets /\ t # NoTarget /\ loop.todo \ {t} \in SUBSET Targets
  BY <1>2, MonitorAssumption DEF LoopTyped, LoopState
<1>6. truth[t] \in Buckets
  BY <1>2, <1>5 DEF StoresTyped
<1>7. loop' \in LoopState
  BY <1>1, <1>5, <1>6 DEF LoopState, Statuses
<1>8. loop'.pc = "ask" /\ loop'.target = t /\ loop'.result \in Buckets
  BY <1>1, <1>6
<1>9. LoopTyped'
  BY <1>5, <1>7, <1>8 DEF LoopTyped
<1> QED
  BY <1>1, <1>3, <1>4, <1>8, <1>9, OutsideInv DEF Notifying

\* The loop goes on with the target at hand.
LEMMA LoopGoes ==
  ASSUME LoopTyped, NEW t \in Targets, loop.target = t,
         NEW pc \in {"read", "write", "alert"}, NEW prev \in Statuses,
         loop' = [loop EXCEPT !.pc = pc, !.prev = prev],
         pc = "alert" => prev \in Buckets /\ prev # loop.result
  PROVE  /\ LoopTyped' /\ loop'.target = t
         /\ loop'.pc = pc /\ loop'.prev = prev /\ loop'.result = loop.result
<1>1. loop \in LoopState /\ t # NoTarget
  BY MonitorAssumption DEF LoopTyped
<1>2. loop.result \in Buckets
  BY <1>1, AtHand DEF LoopTyped, LoopState
<1>3. loop' \in LoopState
  BY <1>1 DEF LoopState
<1>4. /\ loop'.target = t /\ loop'.pc = pc /\ loop'.prev = prev
      /\ loop'.result = loop.result
  BY <1>1 DEF LoopState
<1> QED
  BY <1>1, <1>2, <1>3, <1>4 DEF LoopTyped

LEMMA AskInv ==
  ASSUME MInv, Ask
  PROVE  MInv'
<1>1. /\ loop.pc = "ask" /\ (Works \/ Fails) /\ MarkRedis(loop.target)
      /\ \/ loop.target \in ids /\ loop' = [loop EXCEPT !.pc = "read"]
         \/ Leave
      /\ UNCHANGED <<truth, enabled, ids, status, memo, task, said>>
  BY DEF Ask, sharedVars, OptedIn
<1>2. StoresTyped /\ LoopTyped
  BY DEF MInv
<1>3. PICK t \in Targets : t = loop.target
  BY <1>1, <1>2, AtHand
<1>4. /\ upset' \in [Targets -> BOOLEAN] /\ overtaken' \in [Targets -> BOOLEAN]
      /\ \A u \in Targets : Marks(u) /\ (upset[u] => upset'[u])
      /\ failures' \in Nat
  BY <1>1, <1>2, <1>3, CallMarks
<1>5. StoresTyped'
  BY <1>1, <1>2, <1>4 DEF StoresTyped
<1>6. CASE Leave
  <2>1. LoopTyped' /\ loop'.pc \in {"idle", "pick"}
    BY <1>2, <1>6, LoopLeaves
  <2> QED
    BY <1>1, <1>4, <1>5, <2>1, OutsideInv DEF Notifying
<1>7. CASE loop.target \in ids /\ loop' = [loop EXCEPT !.pc = "read"]
  <2>1. loop.prev \in Statuses /\ loop' = [loop EXCEPT !.pc = "read", !.prev = loop.prev]
    BY <1>2, <1>7 DEF LoopTyped, LoopState
  <2>2. LoopTyped' /\ loop'.target = t /\ loop'.pc = "read"
    BY <1>2, <1>3, <2>1, LoopGoes
  <2>3. Cycles(t)
    BY <1>1, <1>3, <2>2 DEF Cycles
  <2>4. \A pcs : Looping(t, pcs) => "ask" \in pcs
    BY <1>1 DEF Looping
  <2>5. ~Looping(t, {"write"})' /\ ~Looping(t, {"alert"})' /\ ~Looping(t, {"alert"})
    BY <1>1, <2>2 DEF Looping
  <2> QED
    BY <1>1, <1>3, <1>4, <1>5, <1>7, <2>2, <2>3, <2>5, SilentInv
<1> QED
  BY <1>1, <1>6, <1>7

LEMMA ReadStatusInv ==
  ASSUME MInv, ReadStatus
  PROVE  MInv'
<1>1. PICK prev \in {status[loop.target], memo[loop.target]} :
      /\ loop.pc = "read" /\ MarkRedis(loop.target)
      /\ loop' = [loop EXCEPT !.pc = "write", !.prev = prev]
      /\ (Works /\ prev = status[loop.target]) \/ Fails
      /\ UNCHANGED <<truth, enabled, ids, status, memo, task, said>>
  BY DEF ReadStatus, sharedVars
<1>2. StoresTyped /\ LoopTyped
  BY DEF MInv
<1>3. PICK t \in Targets : t = loop.target
  BY <1>1, <1>2, AtHand
<1>4. /\ upset' \in [Targets -> BOOLEAN] /\ overtaken' \in [Targets -> BOOLEAN]
      /\ \A u \in Targets : Marks(u) /\ (upset[u] => upset'[u])
      /\ Fails => upset'[t]
      /\ failures' \in Nat
  BY <1>1, <1>2, <1>3, CallMarks
<1>5. StoresTyped'
  BY <1>1, <1>2, <1>4 DEF StoresTyped
<1>6. prev \in Statuses
  BY <1>1, <1>2, <1>3 DEF StoresTyped
<1>7. LoopTyped' /\ loop'.target = t /\ loop'.pc = "write" /\ loop'.prev = prev
  BY <1>1, <1>2, <1>3, <1>6, LoopGoes
<1>8. Cycles(t)
  BY <1>1, <1>3, <1>7 DEF Cycles
<1>9. ~Looping(t, {"alert"})' /\ ~Looping(t, {"alert"}) /\ loop.pc \in Notifying
  BY <1>1, <1>7 DEF Looping, Notifying
<1>10. ~upset'[t] => loop'.prev = status'[t]
  BY <1>1, <1>3, <1>4, <1>7
<1> QED
  BY <1>1, <1>3, <1>4, <1>5, <1>7, <1>8, <1>9, <1>10, SilentInv

LEMMA WriteStatusInv ==
  ASSUME MInv, WriteStatus
  PROVE  MInv'
<1>1. /\ loop.pc = "write" /\ MarkRedis(loop.target)
      /\ \/ IsTransition(loop.prev, loop.result) /\ loop' = [loop EXCEPT !.pc = "alert"]
         \/ ~IsTransition(loop.prev, loop.result) /\ Leave
      /\ \/ /\ status' = [status EXCEPT ![loop.target] = loop.result]
            /\ UNCHANGED memo /\ Works
         \/ /\ memo' = [memo EXCEPT ![loop.target] = loop.result]
            /\ UNCHANGED status /\ Fails
      /\ UNCHANGED <<truth, enabled, ids, task, said>>
  BY DEF WriteStatus
<1>2. StoresTyped /\ LoopTyped
  BY DEF MInv
<1>3. PICK t \in Targets : t = loop.target
  BY <1>1, <1>2, AtHand
<1>4. /\ upset' \in [Targets -> BOOLEAN] /\ overtaken' \in [Targets -> BOOLEAN]
      /\ \A u \in Targets : Marks(u) /\ (upset[u] => upset'[u])
      /\ Fails => upset'[t]
      /\ failures' \in Nat
  BY <1>1, <1>2, <1>3, CallMarks
<1>5. loop.result \in Buckets /\ loop.result \in Statuses /\ loop.prev \in Statuses
  BY <1>1, <1>2, AtHand DEF Statuses, LoopTyped, LoopState
<1>6. /\ status' \in [Targets -> Statuses] /\ memo' \in [Targets -> Statuses]
      /\ \A u \in Targets \ {t} : status'[u] = status[u] /\ memo'[u] = memo[u]
      /\ (status'[t] = loop.result /\ memo' = memo) \/ Fails
  BY <1>1, <1>2, <1>3, <1>5 DEF StoresTyped
<1>7. StoresTyped'
  <2>1. \A u \in Targets : memo'[u] # "none" => upset'[u]
    BY <1>2, <1>4, <1>6 DEF StoresTyped
  <2> QED
    BY <1>1, <1>2, <1>4, <1>6, <2>1 DEF StoresTyped
<1>8. /\ LoopTyped' /\ loop'.target \in {t, NoTarget} /\ loop'.pc \in {"alert", "idle", "pick"}
      /\ loop'.pc = "alert" => /\ loop'.prev = loop.prev /\ loop'.result = loop.result
      /\ loop'.pc # "alert" => ~IsTransition(loop.prev, loop.result)
  <2>1. CASE Leave /\ ~IsTransition(loop.prev, loop.result)
    BY <1>2, <2>1, LoopLeaves
  <2>2. CASE IsTransition(loop.prev, loop.result) /\ loop' = [loop EXCEPT !.pc = "alert"]
    <3>1. loop' = [loop EXCEPT !.pc = "alert", !.prev = loop.prev]
      BY <1>2, <2>2 DEF LoopTyped, LoopState
    <3>2. loop.prev \in Buckets /\ loop.prev # loop.result
      BY <1>5, <2>2 DEF IsTransition, Statuses
    <3> QED
      BY <1>2, <1>3, <1>5, <3>1, <3>2, LoopGoes
  <2> QED
    BY <1>1, <2>1, <2>2
<1>9. Cycles(t)
  BY <1>1, <1>3, <1>6, <1>8 DEF Cycles
<1>10. /\ ~Looping(t, {"write"})' /\ ~Looping(t, {"alert"}) /\ loop.pc \in Notifying
       /\ Looping(t, {"alert"})' => loop'.pc = "alert"
       /\ loop'.pc = "alert" => Looping(t, {"alert"})'
  <2>1. loop'.pc = "alert" => loop'.target # NoTarget
    BY <1>8 DEF LoopTyped
  <2> QED
    BY <1>1, <1>8, <2>1 DEF Looping, Notifying
<1>11. ASSUME ~upset'[t], ~overtaken'[t]
       PROVE  /\ Looping(t, {"alert"})' => status'[t] = loop'.result
              /\ t \in ids /\ LastBucket(t) \in Buckets /\ LastBucket(t) = status[t]
                 => LastBucket(t) = (IF Looping(t, {"alert"})' THEN loop'.prev ELSE status'[t])
  <2>1. status'[t] = loop.result
    BY <1>4, <1>6, <1>11
  <2>2. loop.prev = status[t]
    BY <1>1, <1>3, <1>4, <1>11 DEF MInv, TargetInv, LoopAgrees, Looping, Marks
  <2>3. ASSUME LastBucket(t) \in Buckets, LastBucket(t) = status[t]
        PROVE  LastBucket(t) = (IF Looping(t, {"alert"})' THEN loop'.prev ELSE status'[t])
    <3>1. CASE loop'.pc = "alert"
      BY <1>8, <1>10, <2>2, <2>3, <3>1
    <3>2. CASE loop'.pc # "alert"
      <4>1. loop.prev # "none"
        BY <2>2, <2>3 DEF Buckets
      <4>2. loop.prev = loop.result
        BY <1>8, <3>2, <4>1 DEF IsTransition
      <4> QED
        BY <1>10, <2>1, <2>2, <2>3, <3>2, <4>2
    <3> QED
      BY <3>1, <3>2
  <2> QED
    BY <1>8, <1>10, <2>1, <2>3
<1> QED
  BY <1>1, <1>3, <1>4, <1>7, <1>8, <1>9, <1>10, <1>11, SilentInv

LEMMA AlertInv ==
  ASSUME MInv, Alert
  PROVE  MInv'
<1>1. PICK arrives \in BOOLEAN :
      /\ loop.pc = "alert" /\ Leave /\ Mark /\ (Works \/ Fails)
      /\ Say(loop.target, "loop", loop.result, arrives)
      /\ UNCHANGED <<truth, enabled, ids, status, memo, task>>
  BY DEF Alert, sharedVars
<1>2. StoresTyped /\ LoopTyped
  BY DEF MInv
<1>3. /\ upset' \in [Targets -> BOOLEAN] /\ overtaken' \in [Targets -> BOOLEAN]
      /\ \A u \in Targets : Marks(u) /\ (upset[u] => upset'[u])
      /\ failures' \in Nat
  BY <1>1, <1>2, WorkMarks
<1>4. said' \in [Targets -> Seq(Message)]
  <2>1. loop.target \in Targets /\ loop.result \in Statuses
    BY <1>1, <1>2, AtHand DEF Statuses
  <2> QED
    BY <1>1, <1>2, <2>1, SayFacts
<1>5. StoresTyped'
  BY <1>1, <1>2, <1>3, <1>4 DEF StoresTyped
<1>6. LoopTyped' /\ loop'.target = NoTarget
  BY <1>1, <1>2, LoopLeaves
<1> QED
  BY <1>1, <1>3, <1>5, <1>6, AlertedInv

LEMMA SchedulerFailsInv ==
  ASSUME MInv, SchedulerFails
  PROVE  MInv'
<1>1. /\ loop' = IdleLoop /\ Fails /\ Mark
      /\ memo' \in {memo, [t \in Targets |-> "none"]}
      /\ \/ loop.pc = "alert" /\ Say(loop.target, "loop", loop.result, FALSE)
         \/ loop.pc # "alert" /\ said' = said
      /\ UNCHANGED <<truth, enabled, ids, status, task>>
  BY DEF SchedulerFails, sharedVars
<1>2. StoresTyped /\ LoopTyped
  BY DEF MInv
<1>3. /\ upset' \in [Targets -> BOOLEAN] /\ overtaken' \in [Targets -> BOOLEAN]
      /\ \A u \in Targets : Marks(u) /\ (upset[u] => upset'[u])
      /\ failures' \in Nat
  BY <1>1, <1>2, WorkMarks
<1>4. said' \in [Targets -> Seq(Message)]
  <2>1. CASE loop.pc = "alert" /\ Say(loop.target, "loop", loop.result, FALSE)
    <3>1. loop.target \in Targets /\ loop.result \in Statuses
      BY <1>2, <2>1, AtHand DEF Statuses
    <3> QED
      BY <1>2, <2>1, <3>1, SayFacts
  <2>2. CASE said' = said
    BY <1>2, <2>2 DEF StoresTyped
  <2> QED
    BY <1>1, <2>1, <2>2
<1>5. memo' \in [Targets -> Statuses] /\ \A u \in Targets : memo'[u] # "none" => memo[u] # "none"
  BY <1>1, <1>2 DEF StoresTyped, Statuses
<1>6. StoresTyped'
  BY <1>1, <1>2, <1>3, <1>4, <1>5 DEF StoresTyped
<1>7. LoopTyped' /\ loop'.target = NoTarget /\ loop'.pc = "idle"
  BY <1>1 DEF LoopTyped, LoopState, IdleLoop, Statuses
<1>8. CASE loop.pc = "alert"
  BY <1>1, <1>3, <1>6, <1>7, <1>8, AlertedInv
<1>9. CASE loop.pc \in {"read", "write"}
  <2>1. PICK t \in Targets : t = loop.target
    BY <1>2, <1>9, AtHand
  <2>2. Cycles(t) /\ said' = said
    BY <1>1, <1>7, <1>9, <2>1 DEF Cycles
  <2>3. \A pcs : "idle" \notin pcs => ~Looping(t, pcs)'
    BY <1>7 DEF Looping
  <2>4. ~Looping(t, {"write"})' /\ ~Looping(t, {"alert"})' /\ ~Looping(t, {"alert"})
    BY <1>7, <1>9 DEF Looping
  <2>5. loop'.pc \notin Notifying /\ status' = status
    BY <1>1, <1>7 DEF Notifying
  <2> QED
    BY <1>3, <1>6, <1>7, <2>1, <2>2, <2>4, <2>5, SilentInv
<1>10. CASE loop.pc \notin Notifying
  BY <1>1, <1>3, <1>6, <1>7, <1>10, OutsideInv DEF Notifying
<1> QED
  BY <1>8, <1>9, <1>10 DEF Notifying

-----------------------------------------------------------------------------
(* The theorems. *)

LEMMA MonitorInitInv == MonitorInit => MInv
<1> SUFFICES ASSUME MonitorInit PROVE MInv
  OBVIOUS
<1>1. /\ truth \in [Targets -> Buckets]
      /\ enabled = [t \in Targets |-> FALSE] /\ ids = {}
      /\ status = [t \in Targets |-> "none"]
      /\ memo = [t \in Targets |-> "none"]
      /\ loop = IdleLoop /\ task = [n \in Tasks |-> IdleTask] /\ failures = 0
      /\ said = [t \in Targets |-> <<>>]
      /\ upset = [t \in Targets |-> FALSE] /\ overtaken = [t \in Targets |-> FALSE]
  BY DEF MonitorInit
<1>2. StoresTyped
  <2>1. <<>> \in Seq(Message)
    BY EmptySeq
  <2> QED
    BY <1>1, <2>1 DEF StoresTyped, Statuses
<1>3. LoopTyped
  BY <1>1 DEF LoopTyped, LoopState, IdleLoop, Statuses
<1>4. TasksTyped
  BY <1>1 DEF TasksTyped, TaskState, IdleTask, Statuses
<1>5. ASSUME NEW t \in Targets PROVE TargetInv(t)
  <2>1. t # NoTarget
    BY MonitorAssumption
  <2>2. \A n \in Tasks : ~About(n, t)
    BY <1>1, <2>1 DEF About, IdleTask
  <2>3. \A pcs : ~Looping(t, pcs)
    BY <1>1, <2>1 DEF Looping, IdleLoop
  <2>4. said[t] = <<>> /\ t \notin ids /\ ~enabled[t]
    BY <1>1
  <2>5. <<>> \in Seq(Message) /\ Len(<<>>) = 0 /\ DOMAIN <<>> = {}
    BY EmptySeq
  <2>6. LastAnswer(t) = "none"
    BY <2>4, <2>5, LastByIs DEF LastAnswer
  <2>7. Alternates(<<>>) /\ ~LateSince(<<>>) /\ OneLate(<<>>)
    BY <2>5 DEF Alternates, LateSince, OneLate
  <2>8. RequestsAgree(t)
    BY <2>2, <2>4, <2>6 DEF RequestsAgree
  <2>9. LoopAgrees(t)
    BY <2>2, <2>3, <2>4 DEF LoopAgrees
  <2>10. Alone(t) /\ Apart(t)
    BY <2>2 DEF Alone, Apart
  <2>11. AlertsAlternateFor(t) /\ NoneFollows(t) /\ OneLateAlertFor(t)
    BY <2>4, <2>7 DEF AlertsAlternateFor, NoneFollows, OneLateAlertFor
  <2> QED
    BY <2>8, <2>9, <2>10, <2>11 DEF TargetInv
<1> QED
  BY <1>2, <1>3, <1>4, <1>5 DEF MInv

LEMMA MonitorNextInv == MInv /\ [MonitorNext]_monitorVars => MInv'
<1> SUFFICES ASSUME MInv, [MonitorNext]_monitorVars PROVE MInv'
  OBVIOUS
<1>1. CASE UNCHANGED monitorVars
  <2>1. UNCHANGED <<truth, enabled, ids, status, memo, loop, task, failures, said,
                    upset, overtaken>>
    BY <1>1 DEF monitorVars, sharedVars, boundVars, flagVars
  <2>2. StoresTyped' /\ LoopTyped' /\ TasksTyped'
    BY <2>1 DEF MInv, StoresTyped, LoopTyped, TasksTyped
  <2>3. ASSUME NEW t \in Targets PROVE TargetInv(t)'
    <3>1. TargetInv(t)
      BY DEF MInv
    <3>2. Marks(t)
      BY <2>1, <3>1 DEF TargetInv, Marks, Alone, Apart, About
    <3>3. Untouched(t) /\ LoopStays(t)
      BY <2>1 DEF Untouched, LoopStays
    <3> QED
      BY <3>1, <3>2, <3>3, TargetStays
  <2> QED
    BY <2>2, <2>3 DEF MInv
<1>2. CASE Loop
  BY <1>2, ListInv, CheckInv, AskInv, ReadStatusInv, WriteStatusInv, AlertInv DEF Loop
<1>3. CASE SchedulerFails \/ BotFails \/ Flip
  BY <1>3, SchedulerFailsInv, BotFailsInv, FlipInv
<1>4. CASE Terminated
  BY <1>1, <1>4 DEF Terminated
<1>5. ASSUME NEW n \in Tasks, NEW t \in Targets, Request(n, t) \/ Handle(n, t) PROVE MInv'
  BY <1>5, RequestInv, EnableInv, OptInInv, FirstCheckInv, StoreInv, TellInv, DisableInv,
     OptOutInv, ForgetInv DEF Handle
<1> QED
  BY <1>1, <1>2, <1>3, <1>4, <1>5 DEF MonitorNext

LEMMA MonitorInv == MonitorSpec => []MInv
<1>1. MonitorInit => MInv
  BY MonitorInitInv
<1>2. MInv /\ [MonitorNext]_monitorVars => MInv'
  BY MonitorNextInv
<1> QED
  BY <1>1, <1>2, PTL DEF MonitorSpec

LEMMA MInvGives == MInv => MonitorTypeOK /\ MonitoringHolds
<1> SUFFICES ASSUME MInv PROVE MonitorTypeOK /\ MonitoringHolds
  OBVIOUS
<1>1. MonitorTypeOK
  BY DEF MInv, MonitorTypeOK, StoresTyped, LoopTyped, LoopState
<1>2. AnswersHold
  BY DEF MInv, AnswersHold, TargetInv, RequestsAgree
<1>3. AlertsAlternate
  BY DEF MInv, AlertsAlternate, TargetInv, AlertsAlternateFor, Alternates
<1>4. NothingUnsaid
  <2> SUFFICES ASSUME NEW t \in Targets, Idle(t), t \in ids, ~upset[t], ~overtaken[t],
                      ~(loop.target = t /\ loop.pc = "alert")
               PROVE  said[t] # <<>> /\ status[t] = said[t][Len(said[t])].bucket
    BY DEF NothingUnsaid
  <2>1. LoopAgrees(t) /\ ~Looping(t, {"alert"})
    BY DEF MInv, TargetInv, Looping
  <2> QED
    BY <2>1 DEF LoopAgrees, LastBucket
<1>5. OneLateAlertAtMost
  BY DEF MInv, OneLateAlertAtMost, TargetInv, OneLateAlertFor, OneLate
<1> QED
  BY <1>1, <1>2, <1>3, <1>4, <1>5 DEF MonitoringHolds

\* MonitorTypeOK for any targets, tasks and bounds: above all, the scheduler's
\* fallback dict holds nothing of a target whose Redis calls never failed
\* (monitoring.py).
THEOREM MonitorTypeCorrect == MonitorSpec => []MonitorTypeOK
<1>1. MInv => MonitorTypeOK
  BY MInvGives
<1> QED
  BY <1>1, MonitorInv, PTL

\* What users may rely on, for any targets, overlapping requests, flips of the
\* hosts and failures: the answers hold, the loop's alerts alternate with what
\* was said, no transition is swallowed, and at most one alert comes after the
\* answer that monitoring has stopped (monitoring.py, scheduler.py).
THEOREM MonitorMonitoringHolds == MonitorSpec => []MonitoringHolds
<1>1. MInv => MonitoringHolds
  BY MInvGives
<1> QED
  BY <1>1, MonitorInv, PTL

=============================================================================
