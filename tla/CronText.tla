------------------------------- MODULE CronText -------------------------------
(***************************************************************************)
(* How a sentence becomes a reminder (cron.py): whether it asks for one,   *)
(* at which time, on which day, saying what.  A sentence is what the       *)
(* regular expressions find in it:                                         *)
(*    intent, infra   it speaks of reminding, of servers and scripts       *)
(*    clock, digits   the first "jam H[.MM]" and the first "H.MM": a pair  *)
(*                    of numbers or NoTime                                 *)
(*    periods         the words for parts of the day, in their order       *)
(*    daily, tomorrow "tiap hari", "besok"                                 *)
(*    weekday         the first "tiap <weekday>", or NoDay                 *)
(*    manage          "edit", "cancel", "list" or "none"; id its job       *)
(* Time is in minutes since some Monday's midnight.                        *)
(***************************************************************************)
EXTENDS Integers, Sequences, SequencesExt, FiniteSetsExt

NoTime == <<>>
NoDay == -1
DayLength == 24 * 60
HasTime(t) == t # NoTime

Periods == {"tengah malam", "subuh", "pagi", "siang", "sore", "malam"}
PeriodTime ==
    [p \in Periods |-> CASE p = "tengah malam" -> <<0, 0>> [] p = "subuh" -> <<4, 30>>
                         [] p = "pagi" -> <<6, 0>> [] p = "siang" -> <<12, 0>>
                         [] p = "sore" -> <<17, 0>> [] p = "malam" -> <<20, 0>>]

\* "malam" is found in "tengah malam", too.
AtNight(text) == \E i \in DOMAIN text.periods : text.periods[i] \in {"malam", "sore", "tengah malam"}

\* _extract_time.  The clock's hour is not compared with 24.
ClockTime(text) ==
    LET h == text.clock[1] IN
    IF text.clock[2] >= 60 THEN NoTime
    ELSE << IF ~AtNight(text) \/ h > 12 THEN h ELSE IF h = 12 THEN 0 ELSE h + 12, text.clock[2] >>

DigitTime(text) ==
    LET h == text.digits[1] IN
    IF h >= 24 \/ text.digits[2] >= 60 THEN NoTime
    ELSE << IF AtNight(text) /\ h < 12 THEN h + 12 ELSE h, text.digits[2] >>

TimeOf(text) ==
    IF HasTime(text.clock) THEN ClockTime(text)
    ELSE IF HasTime(text.digits) THEN DigitTime(text)
    ELSE IF text.periods # <<>> THEN PeriodTime[Head(text.periods)]
    ELSE NoTime

\* _extract_day
DayOf(text) ==
    IF text.daily THEN <<"daily", NoDay>>
    ELSE IF text.weekday # NoDay THEN <<"weekly", text.weekday>>
    ELSE IF text.tomorrow THEN <<"tomorrow", NoDay>>
    ELSE <<"today", NoDay>>

Weekday(t) == (t \div DayLength) % 7

\* compute_next_run
NextRun(day, time, now) ==
    LET today == (now \div DayLength) * DayLength + 60 * time[1] + time[2]
        there == today + DayLength * ((day[2] - Weekday(now)) % 7) IN
    CASE day[1] = "tomorrow" -> today + DayLength
      [] day[1] = "daily"    -> IF today > now THEN today ELSE today + DayLength
      [] day[1] = "weekly"   -> IF there > now THEN there ELSE there + 7 * DayLength
      [] day[1] = "today"    -> today

Repeat(day) == IF day \in {"daily", "weekly"} THEN day ELSE "once"

\* _extract_message: without the first clock, the first digits and all the words
\* of _INTENT_WORDS and _FILLER_WORDS, those for days and parts of the day too.
Dropped == {"intent", "filler"}
WithoutFirst(words, kind) ==
    IF ~Contains(words, kind) THEN words
    ELSE RemoveAt(words, Min({i \in DOMAIN words : words[i] = kind}))
DefaultMessage == <<"Pengingat dari KELA">>
Message(words) ==
    LET said == SelectSeq(WithoutFirst(WithoutFirst(words, "clock"), "digits"),
                          LAMBDA w : w \notin Dropped)
    IN  IF said = <<>> THEN DefaultMessage ELSE said

\* build_cron_from_text.  now.replace refuses an hour that no day has.
Nothing(kind) == [kind |-> kind]
Build(text, now) ==
    LET time == TimeOf(text)
        day  == DayOf(text)
        run  == NextRun(day, time, now) IN
    IF ~text.intent \/ text.infra THEN Nothing("not_cron")
    ELSE IF time = NoTime THEN Nothing("no_time")
    ELSE IF time[1] >= 24 THEN Nothing("raises")
    ELSE IF day[1] = "today" /\ run <= now THEN Nothing("past")
    ELSE [kind |-> "ok", next |-> run, repeat |-> Repeat(day[1]), weekday |-> day[2],
          message |-> Message(text.words)]

\* edit_job: "cron" is put before the payload, so that the intent is there; a
\* payload without a time is the new message, of the same schedule.
Edited(job, text, now) ==
    LET new == Build([text EXCEPT !.intent = TRUE], now) IN
    CASE text.words = <<>>     -> Nothing("no_time")
      [] new.kind = "no_time"  -> [job EXCEPT !.message = text.words]
      [] OTHER                 -> new

\* _handle_cron_request: an edit before a cancellation or a list before a new
\* reminder.  What is not for cron goes on to the AI.
Handled(text, jobs, now) ==
    LET named == {j \in jobs : j.id = text.id} IN
    CASE text.manage \in {"edit", "cancel"} /\ named = {} -> Nothing("missing")
      [] text.manage = "edit" /\ named # {} -> Edited((CHOOSE j \in named : TRUE).job, text, now)
      [] text.manage = "cancel" /\ named # {} -> Nothing("deleted")
      [] text.manage = "list"   -> Nothing("list")
      [] text.manage = "none"   -> Build(text, now)

-----------------------------------------------------------------------------
(* What a sentence means, by a definition of its own. *)

\* The minutes at which a day's reminder may be meant: those of the hour that was
\* said, at most half a day off, or of the part of the day that was named.
Said(text) == IF HasTime(text.clock) THEN text.clock ELSE text.digits
MeantAt(text, t) ==
    IF HasTime(text.clock) \/ HasTime(text.digits)
    THEN /\ t % 60 = Said(text)[2]
         /\ (t \div 60) % 12 = Said(text)[1] % 12
         /\ AtNight(text) /\ HasTime(text.clock) => (t \div 60) % 24 \in {0} \cup 12..23
    ELSE t % DayLength = 60 * PeriodTime[Head(text.periods)][1] + PeriodTime[Head(text.periods)][2]

MeantOn(text, now, t) ==
    CASE text.daily            -> TRUE
      [] ~text.daily /\ text.weekday # NoDay -> Weekday(t) = text.weekday
      [] ~text.daily /\ text.weekday = NoDay /\ text.tomorrow -> t \div DayLength = now \div DayLength + 1
      [] OTHER                 -> t \div DayLength = now \div DayLength

\* A reminder comes at a time that was meant; none that has its hour was passed
\* over on the way; it says what the sentence says; it comes back if and only if
\* the sentence says so.
ReadWell(job, text, now) ==
    /\ job.next > now /\ MeantAt(text, job.next) /\ MeantOn(text, now, job.next)
    /\ \A d \in 1..7 : LET t == job.next - d * DayLength IN t > now => ~MeantOn(text, now, t)
    /\ (job.repeat = "once") = (~text.daily /\ text.weekday = NoDay)
    /\ job.repeat = "weekly" => job.weekday = Weekday(job.next)
    /\ Contains(text.words, "word") => Contains(job.message, "word")

\* What comes of a sentence was read well.  An edit with a time is a new reading;
\* one without leaves the schedule alone.
Understood(text, jobs, now) ==
    LET job == Handled(text, jobs, now)
        old == {j.job : j \in {k \in jobs : k.id = text.id}} IN
    job.kind = "ok" =>
        IF TimeOf(text) # NoTime THEN ReadWell(job, text, now)
        ELSE /\ text.manage = "edit" /\ text.words = job.message
             /\ \E j \in old : job = [j EXCEPT !.message = job.message]

=============================================================================
