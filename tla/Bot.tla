---------------------------------- MODULE Bot ----------------------------------
(***************************************************************************)
(* The Telegram bot (interfaces/telegram.py): the poll loop, the task it   *)
(* starts for every message, and what the tasks share: the memories table  *)
(* (Memory) and the conversation (Context).                                *)
(*                                                                         *)
(* Telegram hands out the updates it has not been told to forget; asking   *)
(* with an offset makes it forget those below.  The offset lives in the    *)
(* process.  A message is routed to a command, to a memory of its own, to  *)
(* an action that is remembered afterwards, or to the AI.                  *)
(***************************************************************************)
EXTENDS Memory, Context

CONSTANTS
    NumUpdates,  \* bound: messages that are sent
    Messages,    \* what they may be: [kind, text]; text "" where nothing is remembered
    MaxTroubles  \* bound: failed calls, crashes, expiries, rows grown stale

Updates == 1..NumUpdates

\* Whoever remembers or talks is the task of an update.
ASSUME BotConstants ==
    /\ NumUpdates \in Nat /\ MaxTroubles \in Nat
    /\ Tasks = Updates /\ Talkers = Updates

VARIABLES
    sent,       \* updates Telegram has received
    message,    \* what each of them is
    confirmed,  \* updates below are forgotten by Telegram
    offset,     \* the poll loop's
    at,         \* where each update's task is
    troubles

botVars == <<sent, message, confirmed, offset, at, troubles>>
vars == <<botVars, memoryVars, contextVars>>

-----------------------------------------------------------------------------
Kinds == {"foreign", "forget", "note", "action", "chat"}

Init ==
    /\ MemoryInit /\ ContextInit
    /\ sent = 0 /\ message = << >> /\ confirmed = 1 /\ offset = 0
    /\ at = [u \in Updates |-> "nowhere"]
    /\ troubles = 0

Trouble == troubles < MaxTroubles /\ troubles' = troubles + 1
\* A call to Redis succeeds, or fails as a trouble.
Redis(ok) == IF ok THEN UNCHANGED troubles ELSE Trouble
Open(u) == at[u] \notin {"nowhere", "done", "lost"}
Move(u, pc) == at' = [at EXCEPT ![u] = pc]
Alone(u, from, to) ==   \* a step of the task that touches nothing shared
    /\ at[u] = from /\ Move(u, to)
    /\ UNCHANGED <<sent, message, confirmed, offset>>

-----------------------------------------------------------------------------
Send ==
    /\ sent < NumUpdates /\ sent' = sent + 1
    /\ \E msg \in Messages : message' = Append(message, msg)
    /\ UNCHANGED <<confirmed, offset, at, troubles, memoryVars, contextVars>>

MaxOf(a, b) == IF a < b THEN b ELSE a
Delivered == MaxOf(confirmed, offset)..sent

\* A slip of Poll: the offset is the last update's number.
PollNoStep ==
    /\ Delivered # {}
    /\ confirmed' = MaxOf(confirmed, offset)
    /\ offset' = sent
    /\ at' = [u \in Updates |-> IF u \notin Delivered THEN at[u]
                                ELSE IF message[u].kind = "foreign" THEN "done" ELSE "route"]
    /\ UNCHANGED <<sent, message, troubles, memoryVars, contextVars>>

\* getUpdates answers: every update gets its task before the next await; foreign
\* chats and messages without a text get none.
Poll ==
    /\ Delivered # {}
    /\ confirmed' = MaxOf(confirmed, offset)
    /\ offset' = sent + 1
    /\ at' = [u \in Updates |-> IF u \notin Delivered THEN at[u]
                                ELSE IF message[u].kind = "foreign" THEN "done" ELSE "route"]
    /\ UNCHANGED <<sent, message, troubles, memoryVars, contextVars>>

\* A slip of PollFails: the offset advances although no answer was read.
PollFailsAhead ==
    /\ Trouble
    /\ confirmed' = MaxOf(confirmed, offset)
    /\ offset' = sent + 1
    /\ UNCHANGED <<sent, message, at, memoryVars, contextVars>>

\* The call fails, before or after Telegram has seen its offset; the loop backs
\* off and asks again.  With nothing to deliver a poll does the same.
PollFails ==
    /\ Trouble
    /\ confirmed' \in {confirmed, MaxOf(confirmed, offset)}
    /\ UNCHANGED <<sent, message, offset, at, memoryVars, contextVars>>

PollNothing ==
    /\ Delivered = {} /\ confirmed < offset
    /\ confirmed' = offset
    /\ UNCHANGED <<sent, message, offset, at, troubles, memoryVars, contextVars>>

Crash ==
    /\ Trouble
    /\ offset' = 0
    /\ at' = [u \in Updates |-> IF Open(u) THEN "lost" ELSE at[u]]
    /\ MemoryDies(Tasks) /\ ContextDies
    /\ UNCHANGED <<sent, message, confirmed>>

-----------------------------------------------------------------------------
(* The tasks. *)

\* /forget <id>
RouteForget(u) ==
    /\ Alone(u, "route", "done") /\ message[u].kind = "forget"
    /\ \E id \in Ids(rows) \cup {0} : Forget(u, id)
    /\ UNCHANGED <<troubles, contextVars>>

\* "inget ...": remember and reply; a preference found in a chat is remembered
\* first; an action is replied to first.
RouteRemember(u) ==
    /\ Alone(u, "route", "remember")
    /\ message[u].kind \in {"note", "action", "chat"} /\ message[u].text # ""
    /\ Remember(u, message[u].text, message[u].kind)
    /\ UNCHANGED <<troubles, contextVars>>

RoutePlain(u) ==
    /\ Alone(u, "route", "ask") /\ message[u].kind = "chat" /\ message[u].text = ""
    /\ UNCHANGED <<troubles, memoryVars, contextVars>>

RememberWorks(u) ==
    /\ at[u] = "remember" /\ RememberStep(u)
    /\ UNCHANGED <<botVars, contextVars>>

RememberFailsAs(u) ==
    /\ at[u] = "remember" /\ RememberFails(u) /\ Trouble
    /\ UNCHANGED <<sent, message, confirmed, offset, at, contextVars>>

\* A failed memory ends a note's task without a reply, and nothing else.
Remembered(u) ==
    /\ at[u] = "remember" /\ Ended(u)
    /\ Alone(u, "remember", IF message[u].kind = "chat" THEN "ask" ELSE "done")
    /\ m' = [m EXCEPT ![u] = Idle]
    /\ UNCHANGED <<rows, lastId, killed, troubles, contextVars>>

\* The gateway answers and the parts are sent, or there is no answer, an empty
\* one or no gateway, and the reply says so.
Ask(u) ==
    /\ \/ Alone(u, "ask", "push") \/ Alone(u, "ask", "done")
    /\ UNCHANGED <<troubles, memoryVars, contextVars>>

Push(u) ==
    /\ at[u] = "push"
    /\ \E ok \in BOOLEAN : Redis(ok) /\ (PushRead(u, ok) \/ PushWrite(u, ok) \/ SumLook(u, ok)
                                         \/ SumStore(u, ok))
    /\ UNCHANGED <<sent, message, confirmed, offset, at, memoryVars>>

PushAside(u) ==
    /\ at[u] = "push" /\ (SumCheck(u) \/ SumNothing(u))
    /\ UNCHANGED <<botVars, memoryVars>>

\* The file that the message asked for is rendered and sent, failures swallowed.
PushEnd(u) ==
    /\ Is(u, "end") /\ Alone(u, "push", "done")
    /\ c' = [c EXCEPT ![u] = Silent]
    /\ UNCHANGED <<troubles, memoryVars, history, spare, summary, spareSummary, marked,
                   pushes, disturbed, astray>>

TaskStep(u) ==
    \/ RouteForget(u) \/ RouteRemember(u) \/ RoutePlain(u)
    \/ RememberWorks(u) \/ Remembered(u) \/ Ask(u) \/ Push(u) \/ PushAside(u) \/ PushEnd(u)

\* Time passes for a row, or for the conversation.
Ages(id) ==
    /\ GrowStale(id) /\ Trouble
    /\ UNCHANGED <<sent, message, confirmed, offset, at, contextVars>>

Lapse ==
    /\ Expire /\ Trouble
    /\ UNCHANGED <<sent, message, confirmed, offset, at, memoryVars>>

Next ==
    \/ Send \/ Poll \/ PollFails \/ PollNothing \/ Crash \/ Lapse
    \/ \E u \in Updates : TaskStep(u) \/ RememberFailsAs(u)
    \/ \E id \in Ids(rows) : Ages(id)

Spec == Init /\ [][Next]_vars
\* The loop sleeps and asks again; a task's awaits end, the gateway's by timeouts.
FairSpec == Spec /\ WF_vars(Poll) /\ \A u \in Updates : WF_vars(TaskStep(u))

-----------------------------------------------------------------------------
TypeOK ==
    /\ MemoryTypeOK /\ ContextTypeOK
    /\ sent \in 0..NumUpdates /\ Len(message) = sent /\ confirmed \in 1..(sent + 1)
    /\ offset \in 0..(sent + 1) /\ troubles \in 0..MaxTroubles
    /\ \A u \in Updates : at[u] \in {"nowhere", "route", "remember", "ask", "push", "done", "lost"}
    \* an update that is not handed out has no task, and no task's call outlives it
    /\ \A u \in Updates : /\ u >= offset => ~Open(u)
                          /\ m[u].pc # "idle" => at[u] = "remember"
                          /\ c[u].pc # "idle" => at[u] = "push"

\* What remember keeps and loses under overlapping tasks, failures and crashes:
\* no twin without its excuse, a table no larger than the calls under way
\* explain, and no trim that cuts deeper than others' deletions explain.
MemoryKept == TwinsExplained /\ SizeBounded /\ TrimSpares

\* What push_history and _maybe_summarize keep: the lists in order and without
\* repetition, complete if nothing overlapped or failed, and summaries that go
\* back, or run without their mark, only where two of them were under way.
ChatKept ==
    /\ HistoryInOrder /\ HistoryComplete
    /\ disturbed \/ MarkHeld
    /\ \A u \in Updates : SummaryAdvances(u)

\* The poll loop and its tasks implement the inbox: where an update is seen from
\* outside follows from Telegram's offset, the process' and the task.
Whereabouts(u) ==
    IF u > sent THEN "unsent"
    ELSE IF u \in Delivered THEN "waiting"
    ELSE IF Open(u) THEN "open"
    ELSE IF at[u] = "done" THEN "closed" ELSE "lost"
TheInbox == INSTANCE Inbox WITH box <- [u \in Updates |-> Whereabouts(u)]
ImplementsInbox == TheInbox!Spec

=============================================================================
