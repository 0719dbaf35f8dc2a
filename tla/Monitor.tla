------------------------------- MODULE Monitor -------------------------------
(***************************************************************************)
(* Network monitoring asked for in the chat (app/monitoring.py).  Two      *)
(* processes share its state: the bot, which starts and stops monitoring   *)
(* in tasks of their own, and the network loop of the scheduler, which     *)
(* checks the enabled targets and announces transitions.  The state is a   *)
(* row in the database, a Redis set of the targets opted in, a Redis key   *)
(* with the last status of each and, where Redis fails, a dict in the      *)
(* process.  Every call to them is an await: the others run in between.    *)
(*                                                                         *)
(* Statuses are kept as _bucket sees them, up or down.  Every enabled      *)
(* target is due in every cycle: intervals only skip cycles.               *)
(***************************************************************************)
EXTENDS Integers, Sequences

CONSTANTS
    Targets,      \* hosts users monitor
    Tasks,        \* tasks of the bot
    NoTarget,     \* what is not a target
    MaxFlips,     \* bound: how often hosts go up or down
    MaxRequests,  \* bound: requests of users
    MaxFailures   \* bound: failed Redis calls, lost messages, crashes

ASSUME MonitorAssumption ==
    /\ NoTarget \notin Targets
    /\ MaxFlips \in Nat /\ MaxRequests \in Nat /\ MaxFailures \in Nat

VARIABLES
    truth,      \* truth[t]: what a check of host t finds
    enabled,    \* enabled[t]: NetworkTarget.enabled; FALSE without a row
    ids,        \* the Redis set of targets opted in
    status,     \* status[t]: the Redis key with t's last status, or "none"
    memo,       \* memo[t]: the same in the scheduler's _MEM_FALLBACK
    loop,       \* the network loop, between two awaits
    task,       \* task[n]: what task n of the bot holds between two awaits
    flips, requests, failures,  \* bounds
    said,       \* history: said[t]: answers and alerts about t, in order
    upset,      \* history: upset[t]: requests about t overlapped, or one was
                \* cut off, or a Redis call about t failed
    overtaken   \* history: overtaken[t]: the loop and a request overlapped on t

sharedVars == <<enabled, ids, status>>
boundVars == <<flips, requests, failures>>
flagVars == <<upset, overtaken>>
monitorVars == <<truth, sharedVars, memo, loop, task, boundVars, said, flagVars>>

Buckets == {"up", "down"}
IdleLoop == [pc |-> "idle", todo |-> {}, target |-> NoTarget,
             result |-> "none", prev |-> "none"]
IdleTask == [pc |-> "idle", target |-> NoTarget, wasOn |-> FALSE, result |-> "none"]

MonitorInit ==
    /\ truth \in [Targets -> Buckets]
    /\ enabled = [t \in Targets |-> FALSE] /\ ids = {}
    /\ status = [t \in Targets |-> "none"]
    /\ memo = [t \in Targets |-> "none"]
    /\ loop = IdleLoop /\ task = [n \in Tasks |-> IdleTask]
    /\ flips = 0 /\ requests = 0 /\ failures = 0
    /\ said = [t \in Targets |-> <<>>]
    /\ upset = [t \in Targets |-> FALSE] /\ overtaken = [t \in Targets |-> FALSE]

-----------------------------------------------------------------------------
(* Histories and failures                                                  *)

RequestsAbout(t, tasks) == {n \in Tasks : tasks[n].target = t}

Flag(broken) ==
    /\ upset' = [t \in Targets |-> upset[t] \/ t \in broken
                     \/ \E m, n \in RequestsAbout(t, task') : m # n]
    /\ overtaken' = [t \in Targets |->
          overtaken[t] \/ (loop'.target = t /\ RequestsAbout(t, task') # {})]

\* A call to Redis, or a message to the user, that succeeds or fails.
Works == UNCHANGED failures
Fails == failures < MaxFailures /\ failures' = failures + 1

Mark == Flag({})
MarkRedis(t) == Flag(IF failures' = failures THEN {} ELSE {t})

AnswersIn(s) == {i \in DOMAIN s : s[i].by # "loop"}
LastBy(s) == IF AnswersIn(s) = {} THEN "none"
             ELSE s[CHOOSE i \in AnswersIn(s) : \A j \in AnswersIn(s) : j <= i].by
LastAnswer(t) == LastBy(said[t])
Starting(t) == \E n \in Tasks : task[n].target = t /\
                  task[n].pc \in {"enable", "optin", "check", "store", "tellStart"}

\* A message about t: who sends it, what it says of t, whether it arrives, and
\* whether it is an alert after the answer that monitoring has stopped.
Say(t, by, bucket, sent) ==
    said' = [said EXCEPT ![t] = Append(@, [by |-> by, bucket |-> bucket, sent |-> sent,
        late |-> by = "loop" /\ LastAnswer(t) = "stop" /\ ~Starting(t)])]

-----------------------------------------------------------------------------
(* The scheduler: _loop_network and maybe_notify_monitor                   *)

\* The loop is through with the target at hand.
Leave == loop' = IF loop.todo = {} THEN IdleLoop
                 ELSE [IdleLoop EXCEPT !.pc = "pick", !.todo = loop.todo]

\* list_enabled_targets, once per cycle
List ==
    /\ loop.pc = "idle"
    /\ \E t \in Targets : enabled[t]
    /\ loop' = [IdleLoop EXCEPT !.pc = "pick", !.todo = {t \in Targets : enabled[t]}]
    /\ Works
    /\ UNCHANGED <<truth, sharedVars, memo, task, flips, requests, said>>
    /\ Mark

\* run_check and store_network_check
Check ==
    /\ loop.pc = "pick"
    /\ \E t \in loop.todo :
          loop' = [pc |-> "ask", todo |-> loop.todo \ {t}, target |-> t,
                   result |-> truth[t], prev |-> "none"]
    /\ Works
    /\ UNCHANGED <<truth, sharedVars, memo, task, flips, requests, said>>
    /\ Mark

OptedIn(t) == t \in ids

\* is_monitored.  The scheduler opts nobody in: its fallback set is empty.
Ask ==
    /\ loop.pc = "ask"
    /\ \/ OptedIn(loop.target) /\ loop' = [loop EXCEPT !.pc = "read"] /\ Works
       \/ ~OptedIn(loop.target) /\ Leave /\ Works
       \/ Leave /\ Fails
    /\ UNCHANGED <<truth, sharedVars, memo, task, flips, requests, said>>
    /\ MarkRedis(loop.target)

\* get_monitor_status
ReadStatus ==
    /\ loop.pc = "read"
    /\ \/ loop' = [loop EXCEPT !.pc = "write", !.prev = status[loop.target]] /\ Works
       \/ /\ loop' = [loop EXCEPT !.pc = "write", !.prev = memo[loop.target]]
          /\ Fails
    /\ UNCHANGED <<truth, sharedVars, memo, task, flips, requests, said>>
    /\ MarkRedis(loop.target)

\* Fault: the status is announced at every check.
Always(prev, bucket) == TRUE
IsTransition(prev, bucket) == prev # "none" /\ prev # bucket

\* Fault: the first status of a target is never stored.
WriteStatusLater ==
    /\ loop.pc = "write"
    /\ \/ /\ status' = [status EXCEPT ![loop.target] =
                IF loop.prev = "none" THEN @ ELSE loop.result]
          /\ UNCHANGED memo /\ Works
       \/ memo' = [memo EXCEPT ![loop.target] = loop.result]
          /\ UNCHANGED status /\ Fails
    /\ IF IsTransition(loop.prev, loop.result)
       THEN loop' = [loop EXCEPT !.pc = "alert"] ELSE Leave
    /\ UNCHANGED <<truth, enabled, ids, task, flips, requests, said>>
    /\ MarkRedis(loop.target)

\* set_monitor_status, ahead of the alert
WriteStatus ==
    /\ loop.pc = "write"
    /\ IF IsTransition(loop.prev, loop.result)
       THEN loop' = [loop EXCEPT !.pc = "alert"] ELSE Leave
    /\ \/ /\ status' = [status EXCEPT ![loop.target] = loop.result]
          /\ UNCHANGED memo /\ Works
       \/ /\ memo' = [memo EXCEPT ![loop.target] = loop.result]
          /\ UNCHANGED status /\ Fails
    /\ UNCHANGED <<truth, enabled, ids, task, flips, requests, said>>
    /\ MarkRedis(loop.target)

\* send_monitor_alert: an alert that fails is not sent again.
Alert ==
    /\ loop.pc = "alert"
    /\ Leave
    /\ \/ Say(loop.target, "loop", loop.result, TRUE) /\ Works
       \/ Say(loop.target, "loop", loop.result, FALSE) /\ Fails
    /\ UNCHANGED <<truth, sharedVars, memo, task, flips, requests>>
    /\ Mark

\* The cycle ends by an exception, or with the process and its memory.
SchedulerFails ==
    /\ loop # IdleLoop \/ \E t \in Targets : memo[t] # "none"
    /\ loop' = IdleLoop
    /\ memo' \in {memo, [t \in Targets |-> "none"]}
    /\ IF loop.pc = "alert" THEN Say(loop.target, "loop", loop.result, FALSE)
       ELSE UNCHANGED said
    /\ Fails
    /\ UNCHANGED <<truth, sharedVars, task, flips, requests>>
    /\ Mark

-----------------------------------------------------------------------------
(* The bot: start_monitoring and stop_monitoring                           *)

At(n, t, pc) == task[n].pc = pc /\ task[n].target = t
Go(n, pc) == task' = [task EXCEPT ![n].pc = pc]
Finish(n) == task' = [task EXCEPT ![n] = IdleTask]

\* Fault: stopping answers and does nothing.
RequestOnlyAnswers(n, t) ==
    /\ task[n].pc = "idle"
    /\ requests < MaxRequests
    /\ requests' = requests + 1
    /\ \E pc \in {"enable", "tellStop"} :
          /\ pc = "tellStop" => enabled[t]
          /\ task' = [task EXCEPT ![n] = [pc |-> pc, target |-> t,
                                          wasOn |-> enabled[t], result |-> "none"]]
    /\ Works
    /\ UNCHANGED <<truth, sharedVars, memo, loop, flips, said>>
    /\ Mark

\* get_target_by_string, for either request.  Stopping ends here unless the
\* target is enabled.  Tasks are interchangeable: any idle one will do.
Request(n, t) ==
    /\ task[n].pc = "idle"
    /\ n = CHOOSE m \in Tasks : task[m].pc = "idle"
    /\ requests < MaxRequests
    /\ requests' = requests + 1
    /\ \E pc \in {"enable", "disable"} :
          /\ pc = "disable" => enabled[t]
          /\ task' = [task EXCEPT ![n] = [pc |-> pc, target |-> t,
                                          wasOn |-> enabled[t], result |-> "none"]]
    /\ Works
    /\ UNCHANGED <<truth, sharedVars, memo, loop, flips, said>>
    /\ Mark

\* The rest of upsert_monitor_target: a row that was read as enabled is left.
Enable(n, t) ==
    /\ At(n, t, "enable")
    /\ enabled' = [enabled EXCEPT ![t] = IF task[n].wasOn THEN @ ELSE TRUE]
    /\ Go(n, "optin")
    /\ Works
    /\ UNCHANGED <<truth, ids, status, memo, loop, flips, requests, said>>
    /\ Mark

\* set_monitored
OptIn(n, t) ==
    /\ At(n, t, "optin")
    /\ Go(n, "check")
    /\ \/ ids' = ids \cup {t} /\ Works
       \/ UNCHANGED ids /\ Fails
    /\ UNCHANGED <<truth, enabled, status, memo, loop, flips, requests, said>>
    /\ MarkRedis(t)

FirstCheck(n, t) ==
    /\ At(n, t, "check")
    /\ task' = [task EXCEPT ![n].pc = "store", ![n].result = truth[t]]
    /\ Works
    /\ UNCHANGED <<truth, sharedVars, memo, loop, flips, requests, said>>
    /\ Mark

\* set_monitor_status
Store(n, t) ==
    /\ At(n, t, "store")
    /\ Go(n, "tellStart")
    /\ \/ status' = [status EXCEPT ![t] = task[n].result] /\ Works
       \/ UNCHANGED status /\ Fails
    /\ UNCHANGED <<truth, enabled, ids, memo, loop, flips, requests, said>>
    /\ MarkRedis(t)

\* The alert, if the host is down, and the answer, which says so as well.
TellStart(n, t) ==
    /\ At(n, t, "tellStart")
    /\ Finish(n)
    /\ \/ Say(t, "start", task[n].result, TRUE) /\ Works
       \/ Say(t, "start", task[n].result, FALSE) /\ Fails
    /\ UNCHANGED <<truth, sharedVars, memo, loop, flips, requests>>
    /\ Mark

\* disable_monitor_target
Disable(n, t) ==
    /\ At(n, t, "disable")
    /\ enabled' = [enabled EXCEPT ![t] = FALSE]
    /\ Go(n, "optout")
    /\ Works
    /\ UNCHANGED <<truth, ids, status, memo, loop, flips, requests, said>>
    /\ Mark

\* remove_monitor_state: a failed SREM leaves the DEL out as well.
OptOut(n, t) ==
    /\ At(n, t, "optout")
    /\ \/ ids' = ids \ {t} /\ Go(n, "forget") /\ Works
       \/ UNCHANGED ids /\ Go(n, "tellStop") /\ Fails
    /\ UNCHANGED <<truth, enabled, status, memo, loop, flips, requests, said>>
    /\ MarkRedis(t)

Forget(n, t) ==
    /\ At(n, t, "forget")
    /\ Go(n, "tellStop")
    /\ \/ status' = [status EXCEPT ![t] = "none"] /\ Works
       \/ UNCHANGED status /\ Fails
    /\ UNCHANGED <<truth, enabled, ids, memo, loop, flips, requests, said>>
    /\ MarkRedis(t)

TellStop(n, t) ==
    /\ At(n, t, "tellStop")
    /\ Finish(n)
    /\ \/ Say(t, "stop", "none", TRUE) /\ Works
       \/ Say(t, "stop", "none", FALSE) /\ Fails
    /\ UNCHANGED <<truth, sharedVars, memo, loop, flips, requests>>
    /\ Mark

\* The bot dies, or a database error ends one of its tasks.
BotFails ==
    /\ \E cut \in (SUBSET {n \in Tasks : task[n].pc # "idle"}) \ {{}} :
          /\ task' = [n \in Tasks |-> IF n \in cut THEN IdleTask ELSE task[n]]
          /\ Fails
    /\ UNCHANGED <<truth, sharedVars, memo, loop, flips, requests, said>>
    /\ Flag({task[n].target : n \in {m \in Tasks : task'[m] # task[m]}})

-----------------------------------------------------------------------------

Flip ==
    /\ flips < MaxFlips
    /\ flips' = flips + 1
    /\ \E t \in Targets :
          truth' = [truth EXCEPT ![t] = IF @ = "up" THEN "down" ELSE "up"]
    /\ Works
    /\ UNCHANGED <<sharedVars, memo, loop, task, requests, said>>
    /\ Mark

\* Nothing is monitored and the bounds are used up: the model stops here.
Terminated ==
    /\ requests = MaxRequests /\ loop = IdleLoop
    /\ \A t \in Targets : ~enabled[t]
    /\ \A n \in Tasks : task[n] = IdleTask
    /\ UNCHANGED monitorVars

Loop == List \/ Check \/ Ask \/ ReadStatus \/ WriteStatus \/ Alert

Handle(n, t) ==
    \/ Enable(n, t) \/ OptIn(n, t) \/ FirstCheck(n, t) \/ Store(n, t)
    \/ TellStart(n, t) \/ Disable(n, t) \/ OptOut(n, t) \/ Forget(n, t)
    \/ TellStop(n, t)

MonitorNext ==
    \/ Loop \/ SchedulerFails \/ BotFails \/ Flip \/ Terminated
    \/ \E n \in Tasks, t \in Targets :
          Request(n, t) \/ Handle(n, t)

MonitorSpec == MonitorInit /\ [][MonitorNext]_monitorVars

\* `while True`, and every await of the loop has a timeout.
FairMonitorSpec == MonitorSpec /\ WF_monitorVars(Loop)

-----------------------------------------------------------------------------
(* Properties                                                              *)

Statuses == Buckets \cup {"none"}

Idle(t) == RequestsAbout(t, task) = {}

\* Every variable stays in its range, and a failed Redis call leaves the mark
\* of the target that the scheduler's fallback dict holds a status of.
MonitorTypeOK ==
    /\ truth \in [Targets -> Buckets] /\ enabled \in [Targets -> BOOLEAN]
    /\ ids \subseteq Targets
    /\ status \in [Targets -> Statuses] /\ memo \in [Targets -> Statuses]
    /\ loop.pc \in {"idle", "pick", "ask", "read", "write", "alert"}
    /\ loop.pc = "pick" => loop.todo # {}
    /\ loop.pc = "alert" => loop.prev \in Buckets /\ loop.prev # loop.result
    /\ \A t \in Targets : memo[t] # "none" => upset[t]

\* Once the answers are out, a target is enabled and opted in if the last one
\* was that it is monitored, and neither if it was not, unless a request was
\* upset (start_monitoring and stop_monitoring change two stores each).
AnswersHold ==
    \A t \in Targets :
        Idle(t) /\ ~upset[t] =>
            /\ enabled[t] <=> t \in ids
            /\ enabled[t] <=> LastAnswer(t) = "start"

\* monitoring.py: "fires a Telegram alert ONLY on a real up <-> down
\* transition": the loop never repeats what was last said of a target, unless
\* a request about it overlapped with the loop or was upset.
AlertsAlternate ==
    \A t \in Targets : ~upset[t] /\ ~overtaken[t] =>
        \A i \in 1 .. Len(said[t]) : said[t][i].by = "loop" =>
            i > 1 /\ said[t][i - 1].bucket = (IF said[t][i].bucket = "up" THEN "down" ELSE "up")

\* Between two requests what Redis holds of a monitored target is what its
\* user was last told, or would have been had the message not been lost, so
\* that no transition is swallowed; again unless requests overlapped.
NothingUnsaid ==
    \A t \in Targets :
        Idle(t) /\ t \in ids /\ ~upset[t] /\ ~overtaken[t]
            /\ ~(loop.target = t /\ loop.pc = "alert")
        => /\ said[t] # <<>>
           /\ status[t] = said[t][Len(said[t])].bucket

\* After the answer "gak bakal ditegur lagi" at most one more alert comes: the
\* one of a check under way (maybe_notify_monitor asks for the opt-in after
\* the check, and the loop lists the enabled targets anew in every cycle).
OneLateAlertAtMost ==
    \A t \in Targets : ~upset[t] =>
        \A i, j \in 1 .. Len(said[t]) :
            i < j /\ said[t][i].late /\ said[t][j].late =>
                \E k \in i .. j : said[t][k].by = "stop"

\* What a user who starts and stops monitoring may rely on.
MonitoringHolds == AnswersHold /\ AlertsAlternate /\ NothingUnsaid /\ OneLateAlertAtMost

\* Whatever overlapped or failed, once hosts and users are quiet the status in
\* Redis of each monitored target becomes, and stays, what a check finds.
StatusCatchesUp ==
    \A t \in Targets : <>[](enabled[t] /\ t \in ids => status[t] = truth[t])

=============================================================================
