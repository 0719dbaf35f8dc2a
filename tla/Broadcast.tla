------------------------------- MODULE Broadcast -------------------------------
(***************************************************************************)
(* What the bot sends of its own accord (telegram.py): the news push, at   *)
(* most every Interval, and the digest, once a day in the first minutes of *)
(* an hour.  Each loop keeps one value in Redis to know what it has sent:  *)
(* the time of the last push, which the process remembers too, and the day *)
(* of the last digest, which it does not.                                  *)
(*                                                                         *)
(* Time is in minutes.  A loop looks again a minute after its last look    *)
(* ended, so that less than two minutes lie between the looks.             *)
(***************************************************************************)
EXTENDS Integers

CONSTANTS
    Interval,    \* NEWS_PUSH_INTERVAL
    StampTtl,    \* max(2 * Interval, 3600): life of the stamp in Redis
    Day,         \* minutes of a day
    DigestAt,    \* minute of the day at which DIGEST_HOUR begins
    Minutes,     \* minutes in which the digest is due (5)
    DateTtl,     \* life of the date in Redis (26 hours)
    MaxTime,     \* bound
    MaxTroubles  \* bound: failed calls of Redis or of the database, crashes

ASSUME BroadcastConstants ==
    /\ {Interval, StampTtl, Day, DigestAt, Minutes, DateTtl, MaxTime} \subseteq Nat \ {0}
    /\ MaxTroubles \in Nat
    /\ 2 * Interval <= StampTtl /\ DigestAt + Minutes <= Day /\ 2 <= Minutes
    /\ Day + Minutes <= DateTtl /\ Day <= MaxTime

VARIABLES
    now,
    last,      \* _last_news_push_ts of the process; 0 is never
    stamp,     \* bot:last_news_push in Redis
    date,      \* bot:last_digest in Redis: [day, set]
    news,      \* the news loop: [pc, at], at is the time of its last look
    digest,    \* the digest loop: [pc, at, blind]
    pushed,    \* time of the look that led to the last push; 0 is never
    sent,      \* days of which a digest was sent
    unwritten, \* of "push" and "digest", whose last sending is not in Redis
    excused,   \* days that began to run, crashed or failed
    troubles

redis == <<stamp, date>>
histories == <<pushed, sent, unwritten, excused>>
vars == <<now, last, redis, news, digest, histories, troubles>>

-----------------------------------------------------------------------------
DayOf(t) == t \div Day
Today == DayOf(now)
Never == 0
NoDate == [day |-> Never, set |-> 0]

\* The first minute is in day 1, so that 0 is before all.
Init ==
    /\ now = Day /\ last = Never /\ stamp = Never /\ date = NoDate
    /\ news = [pc |-> "boot", at |-> now] /\ digest = [pc |-> "boot", at |-> now, blind |-> FALSE]
    /\ pushed = Never /\ sent = {} /\ unwritten = {} /\ excused = {1} /\ troubles = 0

Trouble == troubles < MaxTroubles /\ troubles' = troubles + 1
Redis(ok) == IF ok THEN UNCHANGED troubles ELSE Trouble

Tick ==
    /\ now < MaxTime /\ now - news.at < 2 /\ now - digest.at < 2
    /\ now' = now + 1
    \* what has outlived its time is gone from Redis
    /\ stamp' = IF stamp # Never /\ now' >= stamp + StampTtl THEN Never ELSE stamp
    /\ date' = IF date # NoDate /\ now' >= date.set + DateTtl THEN NoDate ELSE date
    /\ UNCHANGED <<last, news, digest, histories, troubles>>

-----------------------------------------------------------------------------
(* news_push_loop *)

\* _get_last_news_push: what Redis has replaces what the process remembers.
LastPush(ok) == IF ok /\ stamp # Never THEN stamp ELSE last

NewsBoot(get, set) ==
    /\ news.pc = "boot"
    /\ get \/ set                       \* one trouble at most in a step
    /\ Redis(get /\ set)
    /\ IF LastPush(get) = Never
       THEN last' = now /\ stamp' = IF set THEN now ELSE stamp
       ELSE last' = LastPush(get) /\ UNCHANGED stamp
    /\ news' = [pc |-> "ready", at |-> now]
    /\ UNCHANGED <<now, date, digest, histories>>

NewsDue(l) == l = Never \/ now - l >= Interval

NewsLook(ok) ==
    /\ news.pc = "ready" /\ now > news.at
    /\ Redis(ok)
    /\ last' = LastPush(ok)
    /\ news' = [pc |-> IF NewsDue(last') THEN "push" ELSE "ready", at |-> now]
    /\ UNCHANGED <<now, redis, digest, histories>>

\* A failure to send is swallowed: the push counts.
NewsPush ==
    /\ news.pc = "push"
    /\ pushed' = news.at /\ unwritten' = unwritten \cup {"push"}
    /\ news' = [news EXCEPT !.pc = "stamp"]
    /\ UNCHANGED <<now, last, redis, digest, sent, excused, troubles>>

\* The news cannot be read: the loop tries again in a minute.
NewsFails ==
    /\ news.pc = "push" /\ Trouble
    /\ news' = [news EXCEPT !.pc = "ready"]
    /\ UNCHANGED <<now, last, redis, digest, histories>>

NewsStamp(ok) ==
    /\ news.pc = "stamp"
    /\ Redis(ok)
    /\ last' = news.at /\ stamp' = IF ok THEN news.at ELSE stamp
    /\ unwritten' = IF ok THEN unwritten \ {"push"} ELSE unwritten
    /\ news' = [news EXCEPT !.pc = "ready"]
    /\ UNCHANGED <<now, date, digest, pushed, sent, excused>>

-----------------------------------------------------------------------------
(* daily_digest_loop *)

\* _get_digest_date: nothing if Redis fails.
DigestDate(ok) == IF ok THEN date.day ELSE Never

\* A bot that finds no date lets the day pass.
DigestBoot(get, set) ==
    /\ digest.pc = "boot"
    /\ get \/ set
    /\ Redis(get /\ set)
    /\ date' = IF DigestDate(get) = Never /\ set THEN [day |-> Today, set |-> now] ELSE date
    /\ digest' = [pc |-> "ready", at |-> now, blind |-> FALSE]
    /\ excused' = excused \cup {Today}
    /\ UNCHANGED <<now, last, stamp, news, pushed, sent, unwritten>>

\* A slip of DigestDue: the date is not looked at.
DigestDueAlways(d) == now % Day \in DigestAt..(DigestAt + Minutes - 1)

DigestDue(d) == now % Day \in DigestAt..(DigestAt + Minutes - 1) /\ d # Today

\* A slip of DigestLook: due in the very first minute only.
DigestLookSharp(ok) ==
    /\ digest.pc = "ready" /\ now > digest.at
    /\ Redis(ok)
    /\ digest' = [pc |-> IF DigestDue(DigestDate(ok)) /\ now % Day = DigestAt
                         THEN "send" ELSE "ready", at |-> now, blind |-> ~ok]
    /\ UNCHANGED <<now, last, redis, news, histories>>

DigestLook(ok) ==
    /\ digest.pc = "ready" /\ now > digest.at
    /\ Redis(ok)
    /\ digest' = [pc |-> IF DigestDue(DigestDate(ok)) THEN "send" ELSE "ready",
                  at |-> now, blind |-> ~ok]
    /\ UNCHANGED <<now, last, redis, news, histories>>

DigestSend ==
    /\ digest.pc = "send"
    /\ sent' = sent \cup {DayOf(digest.at)} /\ unwritten' = unwritten \cup {"digest"}
    /\ digest' = [digest EXCEPT !.pc = "mark"]
    /\ UNCHANGED <<now, last, redis, news, pushed, excused, troubles>>

DigestFails ==
    /\ digest.pc = "send" /\ Trouble
    /\ excused' = excused \cup {DayOf(digest.at)}
    /\ digest' = [digest EXCEPT !.pc = "ready"]
    /\ UNCHANGED <<now, last, redis, news, pushed, sent, unwritten>>

\* A slip of DigestMark: the day after is marked.
DigestMarkNext(ok) ==
    /\ digest.pc = "mark"
    /\ Redis(ok)
    /\ date' = IF ok THEN [day |-> DayOf(digest.at) + 1, set |-> now] ELSE date
    /\ unwritten' = IF ok THEN unwritten \ {"digest"} ELSE unwritten
    /\ digest' = [digest EXCEPT !.pc = "ready"]
    /\ UNCHANGED <<now, last, stamp, news, pushed, sent, excused>>

DigestMark(ok) ==
    /\ digest.pc = "mark"
    /\ Redis(ok)
    /\ date' = IF ok THEN [day |-> DayOf(digest.at), set |-> now] ELSE date
    /\ unwritten' = IF ok THEN unwritten \ {"digest"} ELSE unwritten
    /\ digest' = [digest EXCEPT !.pc = "ready"]
    /\ UNCHANGED <<now, last, stamp, news, pushed, sent, excused>>

\* The process ends and docker starts it again within the minute.
Crash ==
    /\ Trouble
    /\ last' = Never
    /\ news' = [pc |-> "boot", at |-> now]
    /\ digest' = [pc |-> "boot", at |-> now, blind |-> FALSE]
    /\ excused' = excused \cup {Today, DayOf(digest.at)}
    /\ UNCHANGED <<now, redis, pushed, sent, unwritten>>

Next ==
    \/ Tick \/ Crash \/ NewsPush \/ NewsFails \/ DigestSend \/ DigestFails
    \/ \E ok \in BOOLEAN : NewsLook(ok) \/ NewsStamp(ok) \/ DigestLook(ok) \/ DigestMark(ok)
    \/ \E get, set \in BOOLEAN : NewsBoot(get, set) \/ DigestBoot(get, set)

Spec == Init /\ [][Next]_vars

-----------------------------------------------------------------------------
TypeOK ==
    /\ now \in Day..MaxTime /\ {last, stamp, pushed} \subseteq 0..now
    /\ date.day \in 0..Today /\ date.set \in 0..now
    /\ news.pc \in {"boot", "ready", "push", "stamp"} /\ news.at \in Day..now
    /\ digest.pc \in {"boot", "ready", "send", "mark"} /\ digest.at \in Day..now
    /\ sent \subseteq 1..Today /\ excused \subseteq 1..Today /\ troubles \in 0..MaxTroubles

\* Pushes are Interval apart, and a day has one digest, over restarts and outages
\* of Redis too, unless what was sent last did not get into Redis or, for the
\* digest, the look could not read it.
SpacedOut ==
    /\ news.pc = "push" /\ pushed # Never =>
          news.at - pushed >= Interval \/ "push" \in unwritten
    /\ digest.pc = "send" /\ DayOf(digest.at) \in sent =>
          digest.blind \/ "digest" \in unwritten

\* Every day brings its digest, whatever Redis does, but for days on which the
\* bot started or the digest could not be built.
DigestComes ==
    \A k \in 1..Today : now >= k * Day + DigestAt + Minutes =>
        k \in sent \cup excused \/ (digest.pc = "send" /\ DayOf(digest.at) = k)

=============================================================================
