------------------------------- MODULE Context --------------------------------
(***************************************************************************)
(* The conversation of a chat (context.py) and its running summary         *)
(* (telegram._maybe_summarize): a list and a text in Redis, each with a    *)
(* fallback in the process when a call to Redis fails.  push_history reads *)
(* the list and writes it back; a summary is asked of the gateway from one *)
(* reading of the list.                                                    *)
(*                                                                         *)
(* An exchange is its number in the order of the writes, so that a list is *)
(* in order if it is increasing.  A summary is the newest exchange it      *)
(* tells.  There is one chat: the bot answers only TELEGRAM_CHAT_ID.       *)
(***************************************************************************)
EXTENDS Naturals, Sequences, SequencesExt

CONSTANTS
    Talkers,  \* tasks of the bot
    Limit     \* telegram_chat_context_limit: exchanges kept, two rows each

ASSUME ContextConstants == Limit \in Nat \ {0}

VARIABLES
    history,      \* bot:chat:<id> in Redis
    spare,        \* _history_fallback of the process
    summary,      \* bot:chat_summary:<id> in Redis
    spareSummary, \* _summary_fallback of the process
    marked,       \* the chat is in _summarizing
    c,            \* each task's call: [pc, read, crossed]
    pushes,       \* exchanges written so far
    disturbed,    \* a push has overlapped another, or Redis has failed or expired
    astray        \* a summary was asked of a list that is not Redis'

contextVars == <<history, spare, summary, spareSummary, marked, c, pushes, disturbed,
                 astray>>

-----------------------------------------------------------------------------
Silent == [pc |-> "idle", read |-> << >>, crossed |-> FALSE]
Is(t, pc) == c[t].pc = pc
Goes(t, pc) == c' = [c EXCEPT ![t].pc = pc]

LastOf(s, n) == IF Len(s) <= n THEN s ELSE SubSeq(s, Len(s) - n + 1, Len(s))
Newer(s) == IF s = << >> THEN 0 ELSE Last(s)
Increasing(s) == \A i \in 1..(Len(s) - 1) : s[i] < s[i + 1]

\* A conversation that an earlier life has begun.
ContextInit ==
    /\ history = <<1>> /\ pushes = 1 /\ spare = << >>
    /\ summary = 0 /\ spareSummary = 0 /\ marked = FALSE
    /\ c = [t \in Talkers |-> Silent] /\ disturbed = FALSE /\ astray = FALSE

-----------------------------------------------------------------------------
(* push_history.  ok: the call to Redis succeeds; otherwise get_history    *)
(* falls back to the process' list, and a failed write, which may have     *)
(* reached Redis all the same, appends to that list.                       *)

PushRead(t, ok) ==
    /\ Is(t, "idle")
    /\ c' = [c EXCEPT ![t] = [Silent EXCEPT !.pc = "write",
                                            !.read = IF ok THEN history ELSE spare]]
    /\ disturbed' = (disturbed \/ ~ok \/ \E s \in Talkers : Is(s, "write"))
    /\ UNCHANGED <<history, spare, summary, spareSummary, marked, pushes, astray>>

\* A slip of Appended: the oldest exchanges are kept in place of the newest.
AppendedOldest(s) == SubSeq(Append(s, pushes + 1), 1, IF Len(s) < Limit THEN Len(s) + 1 ELSE Limit)

Appended(s) == LastOf(Append(s, pushes + 1), Limit)

PushWrite(t, ok) ==
    /\ Is(t, "write")
    /\ IF ok THEN history' = Appended(c[t].read) /\ UNCHANGED spare
             ELSE history' \in {history, Appended(c[t].read)} /\ spare' = Appended(spare)
    /\ pushes' = pushes + 1
    /\ disturbed' = (disturbed \/ ~ok)
    /\ c' = [c EXCEPT ![t] = [Silent EXCEPT !.pc = "pushed"]]
    /\ UNCHANGED <<summary, spareSummary, marked, astray>>

-----------------------------------------------------------------------------
(* _maybe_summarize.  The mark is looked at before the history is awaited, *)
(* set after it, and taken off by whoever ends first.                      *)

Summing(t) == Is(t, "sum")

SumCheck(t) ==
    /\ Is(t, "pushed")
    /\ Goes(t, IF marked THEN "end" ELSE "look")
    /\ UNCHANGED <<history, spare, summary, spareSummary, marked, pushes, disturbed, astray>>

\* The finally clause takes the mark off even where it was not this task's.
SumLook(t, ok) ==
    /\ Is(t, "look")
    /\ LET read == IF ok THEN history ELSE spare
       IN IF Len(read) < Limit - 1
          THEN Goes(t, "end") /\ marked' = FALSE /\ UNCHANGED astray
          ELSE /\ marked' = TRUE /\ astray' = (astray \/ ~ok)
               /\ c' = [s \in Talkers |->
                          IF s = t THEN [pc |-> "sum", read |-> read,
                                         crossed |-> ~ok \/ \E r \in Talkers : Summing(r)]
                          ELSE IF Summing(s) THEN [c[s] EXCEPT !.crossed = TRUE] ELSE c[s]]
    /\ disturbed' = (disturbed \/ ~ok)
    /\ UNCHANGED <<history, spare, summary, spareSummary, pushes>>

\* The gateway answers and the text is stored ...
SumStore(t, ok) ==
    /\ Summing(t)
    /\ IF ok THEN summary' = Newer(c[t].read) /\ UNCHANGED spareSummary
             ELSE summary' \in {summary, Newer(c[t].read)} /\ spareSummary' = Newer(c[t].read)
    /\ disturbed' = (disturbed \/ ~ok)
    /\ Goes(t, "end") /\ marked' = FALSE
    /\ UNCHANGED <<history, spare, pushes, astray>>

\* ... or it fails or answers nothing.
SumNothing(t) ==
    /\ Summing(t)
    /\ Goes(t, "end") /\ marked' = FALSE
    /\ UNCHANGED <<history, spare, summary, spareSummary, pushes, disturbed, astray>>

\* CHAT_TTL passes without a write.
Expire ==
    /\ history' = << >> /\ disturbed' = TRUE
    /\ UNCHANGED <<spare, summary, spareSummary, marked, c, pushes, astray>>

\* The process dies: Redis is what is left.
ContextDies ==
    /\ spare' = << >> /\ spareSummary' = 0 /\ marked' = FALSE
    /\ c' = [t \in Talkers |-> Silent]
    /\ UNCHANGED <<history, summary, pushes, disturbed, astray>>

-----------------------------------------------------------------------------
ContextTypeOK ==
    /\ \A s \in {history, spare} : s \in Seq(1..pushes) /\ Len(s) <= Limit
    /\ summary \in 0..pushes /\ spareSummary \in 0..pushes
    /\ \A t \in Talkers : c[t].pc \in {"idle", "write", "pushed", "look", "sum", "end"}

\* Whatever overlaps or fails, no list has an exchange twice or out of order.
HistoryInOrder == Increasing(history) /\ Increasing(spare)

\* Without an overlap or a failure the list is the latest exchanges, none missing.
HistoryComplete ==
    ~disturbed => history = LastOf([i \in 1..pushes |-> i], Limit)

\* Two summaries are under way at once only if the mark, looked at before an
\* await, did not keep them apart; a summary that was alone is marked throughout.
MarkHeld == \A t \in Talkers : Summing(t) /\ ~c[t].crossed => marked

\* A stored summary gives way to one of an older conversation only if its writer
\* was crossed by another's, or once a summary was asked of a list that is not
\* Redis', which may tell of exchanges that Redis never got.  (Where one exchange
\* is kept, an expired list is summarised too, and tells nothing.)
SummaryAdvances(t) ==
    Summing(t) /\ ~c[t].crossed /\ ~astray /\ c[t].read # << >>
        => summary <= Newer(c[t].read)

=============================================================================
