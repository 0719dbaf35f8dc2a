------------------------------- MODULE Alerts -------------------------------
(***************************************************************************)
(* The alert engine (app/alert_engine): the loop of the scheduler that     *)
(* turns events into alert threads, next to the collectors and the event   *)
(* engine that change those events in sessions of their own.               *)
(*                                                                         *)
(* The loop's session reads one InnoDB snapshot from its first SELECT to   *)
(* its next COMMIT (REPEATABLE READ, the server's default), which `view`   *)
(* holds; the Event objects themselves are loaded once per cycle and never *)
(* refreshed (expire_on_commit=False), so their status is kept in `todo`.  *)
(***************************************************************************)
EXTENDS Integers, Sequences, FiniteSets

CONSTANTS
    News,          \* ids of the events that wrap news articles
    Quakes,        \* ids of the events that wrap earthquakes
    Capacity,      \* alert_max_events_per_cycle
    MinSources,    \* alert_update_min_new_sources
    MinArticles,   \* alert_update_min_new_articles
    Cooldown,      \* alert_update_cooldown_seconds
    Sizes,         \* the magnitudes, by the thresholds they pass
    EndStatuses,   \* the final statuses an operator uses
    MaxArticles,   \* bound: articles linked to an event
    MaxChanges,    \* bound: changes of events by the rest of the system
    MaxAborts,     \* bound: crashes and database errors
    MaxTime        \* bound: last instant of the clock

Events == News \cup Quakes
Ended == {"resolved", "closed"}
Priorities == {"P1", "P2", "P3", "P4"}
Kinds == {"initial", "update", "severity", "resolved"}

\* _earthquake_priority: unknown and small, above the lower and above the
\* upper of the two magnitude thresholds.
PriorityOf == [small |-> "P3", high |-> "P2", significant |-> "P1"]

ASSUME AlertsAssumption ==
    /\ News \cap Quakes = {}
    /\ Capacity \in Nat \ {0} /\ MinSources \in Nat /\ MinArticles \in Nat
    /\ "small" \in Sizes /\ Sizes \subseteq DOMAIN PriorityOf
    /\ EndStatuses \subseteq Ended
    /\ Cooldown \in Nat /\ MaxArticles \in Nat /\ MaxChanges \in Nat
    /\ MaxAborts \in Nat /\ MaxTime \in Nat

VARIABLES
    ev,       \* the rows of `events`, with what the engine derives from them
    recency,  \* the events by updated_at, the latest first
    alert,    \* alert[e]: the row of `alerts` of event e, or NoAlert
    thread,   \* thread[e]: the rows of `alert_messages` of that alert
    pc,       \* the loop: "idle", "plan", "announce" or "deliver"
    todo,     \* the events of this cycle still to do, as they were loaded
    planned,  \* the action plan_alert returned for a new alert
    view,     \* the snapshot the session reads, or NoView
    now,      \* the clock
    changes,  \* bound: changes made so far
    aborts    \* bound: crashes and errors so far

envVars == <<ev, recency, changes>>
loopVars == <<pc, todo, planned, view>>
vars == <<envVars, alert, thread, loopVars, now, aborts>>

NoAlert == [prio |-> "none", status |-> "none", sig |-> <<>>, sentAt |-> -1]
NoPlan == <<>>
NoView == <<>>
HasAlert(e) == alert[e] # NoAlert

Init ==
    /\ ev = [e \in Events |-> [status |-> "absent", size |-> "small",
                               articles |-> 0, sources |-> 0]]
    /\ recency = <<>>
    /\ alert = [e \in Events |-> NoAlert]
    /\ thread = [e \in Events |-> <<>>]
    /\ pc = "idle" /\ todo = <<>> /\ planned = NoPlan /\ view = NoView
    /\ now = 0 /\ changes = 0 /\ aborts = 0

-----------------------------------------------------------------------------
(* The rest of the system                                                  *)

\* The events at these places of `recency`, in their order.
InOrder(at) ==
    [k \in 1 .. Cardinality(at) |->
        recency[CHOOSE i \in at : Cardinality({j \in at : j <= i}) = k]]

Touched(e) == recency' = <<e>> \o InOrder({i \in DOMAIN recency : recency[i] # e})

Change ==
    /\ changes < MaxChanges
    /\ changes' = changes + 1
    /\ UNCHANGED <<alert, thread, loopVars, now, aborts>>

\* cluster_new_articles and link_earthquake_events insert events.
NewEvent(e, size) ==
    /\ ev[e].status = "absent"
    /\ e \in News => size = "small"
    /\ ev' = [ev EXCEPT ![e].status = "active", ![e].size = size]
    /\ Touched(e)
    /\ Change

\* upsert_earthquake rewrites the magnitude: the event row is not touched.
Revise(e, size) ==
    /\ e \in Quakes
    /\ ev[e].status # "absent"
    /\ size # ev[e].size
    /\ ev' = [ev EXCEPT ![e].size = size]
    /\ UNCHANGED recency
    /\ Change

\* Nothing under app/ ends an event or links articles to one that is not
\* news: an operator does, in the database.  The event row is touched if its
\* status changes, or its confidence (refresh_event_confidences).
EndEvent(e, status) ==
    /\ ev[e].status \in {"active", "updated", "resolved"} \ {status}
    /\ ev' = [ev EXCEPT ![e].status = status]
    /\ Touched(e)
    /\ Change

LinkArticle(e, independent) ==
    /\ ev[e].status \in {"active", "updated"}
    /\ ev[e].articles < MaxArticles
    /\ ev' = [ev EXCEPT ![e].articles = @ + 1,
                        ![e].sources = @ + independent,
                        ![e].status = "updated"]
    /\ \/ Touched(e)
       \/ ev[e].status = "updated" /\ UNCHANGED recency
    /\ Change

-----------------------------------------------------------------------------
(* A cycle of run_alert_intelligence                                       *)

\* The places of the latest events in S, as many as one cycle takes.
Latest(S) == {i \in DOMAIN recency :
                 /\ recency[i] \in S
                 /\ Cardinality({j \in 1 .. i : recency[j] \in S}) <= Capacity}

\* Fault: the budget is taken before asking which events have no alert.
MissingAmongFirst == {i \in DOMAIN recency : i <= Capacity /\ ~HasAlert(recency[i])}
MissingAlerts == Latest({e \in Events : ~HasAlert(e)})
WithAlerts == Latest({e \in Events : HasAlert(e)})

\* What the filter on the type of the event leaves of a list.
Alertable(at) == InOrder({i \in at : recency[i] \notin News})
Load(s) == [i \in 1 .. Len(s) |-> [event |-> s[i], status |-> ev[s[i]].status]]

\* Fault: the events that have an alert already are not selected.
SelectOnlyMissing ==
    /\ pc = "idle"
    /\ todo' = Load(Alertable(MissingAlerts))
    /\ view' = ev
    /\ pc' = "plan"
    /\ UNCHANGED <<envVars, alert, thread, planned, now, aborts>>

\* The two SELECTs, then the filter on the type of the event.
Select ==
    /\ pc = "idle"
    /\ todo' = Load(Alertable(MissingAlerts) \o Alertable(WithAlerts))
    /\ view' = ev
    /\ pc' = "plan"
    /\ UNCHANGED <<envVars, alert, thread, planned, now, aborts>>

Current == todo[1].event
Status == todo[1].status
Seen == IF view = NoView THEN ev ELSE view
Priority == PriorityOf[Seen[Current].size]
Signature == <<Priority, Status, Seen[Current].articles, Seen[Current].sources>>

\* _parse_counts: no signature counts as no articles and no sources.
LastArticles(sig) == IF sig = <<>> THEN 0 ELSE sig[3]
LastSources(sig) == IF sig = <<>> THEN 0 ELSE sig[4]

Grown(sig, last) ==
    \/ LastSources(sig) - LastSources(last) >= MinSources
    \/ LastArticles(sig) - LastArticles(last) >= MinArticles

\* only updates ask for it
Cooled(a) == a.sentAt = -1 \/ now - a.sentAt >= Cooldown

\* Fault: neither the last signature nor the last status is looked at.
WantsUnchanged(kind) ==
    LET a == alert[Current] IN
    \/ kind = "initial" /\ ~HasAlert(Current) /\ Status \notin Ended
    \/ HasAlert(Current) /\ \/ kind = "resolved" /\ Status \in Ended
                            \/ kind = "severity" /\ Status \notin Ended
                               /\ Priority # a.prio
                            \/ kind = "update" /\ Status \notin Ended
                               /\ Priority = a.prio
                               /\ Grown(Signature, a.sig) /\ Cooled(a)

\* plan_alert
Wants(kind) ==
    LET a == alert[Current] IN
    \/ kind = "initial" /\ ~HasAlert(Current) /\ Status \notin Ended
    \/ /\ HasAlert(Current) /\ a.sig # Signature
       /\ \/ kind = "resolved" /\ Status \in Ended /\ a.status # Status
          \/ kind = "severity" /\ Status \notin Ended /\ Priority # a.prio
          \/ kind = "update" /\ Status \notin Ended /\ Priority = a.prio
             /\ Grown(Signature, a.sig) /\ Cooled(a)

Message(kind, prio, sig) ==
    [kind |-> kind, prio |-> IF kind = "resolved" THEN "P4" ELSE prio,
     sig |-> sig, at |-> now, delivered |-> FALSE]

\* Fault: the signature is not stored.
NotifyUnsigned(kind, prio, sig) ==
    /\ thread' = [thread EXCEPT ![Current] = Append(@, Message(kind, prio, sig))]
    /\ alert' = [alert EXCEPT ![Current] =
          [prio |-> IF kind \in {"initial", "severity"} THEN prio ELSE @.prio,
           status |-> Status, sig |-> @.sig, sentAt |-> now]]
    /\ view' = NoView
    /\ pc' = "deliver"

\* The commit of a message and of the alert it belongs to.
Notify(kind, prio, sig) ==
    /\ thread' = [thread EXCEPT ![Current] = Append(@, Message(kind, prio, sig))]
    /\ alert' = [alert EXCEPT ![Current] =
          [prio |-> IF kind \in {"initial", "severity"} THEN prio ELSE @.prio,
           status |-> Status, sig |-> sig, sentAt |-> now]]
    /\ view' = NoView
    /\ pc' = "deliver"

Skip ==
    /\ pc = "plan" /\ todo # <<>>
    /\ \A kind \in Kinds : ~Wants(kind)
    /\ todo' = Tail(todo) /\ view' = Seen
    /\ UNCHANGED <<envVars, alert, thread, pc, planned, now, aborts>>

\* The row of `alerts` is committed before its first message is written.
Open ==
    /\ pc = "plan" /\ todo # <<>>
    /\ Wants("initial")
    /\ alert' = [alert EXCEPT ![Current] =
          [prio |-> Priority, status |-> Status, sig |-> <<>>, sentAt |-> -1]]
    /\ planned' = <<Priority, Signature>>
    /\ view' = NoView /\ pc' = "announce"
    /\ UNCHANGED <<envVars, thread, todo, now, aborts>>

Announce ==
    /\ pc = "announce"
    /\ Notify("initial", planned[1], planned[2])
    /\ planned' = NoPlan
    /\ UNCHANGED <<envVars, todo, now, aborts>>

Note ==
    /\ pc = "plan" /\ todo # <<>>
    /\ \E kind \in Kinds \ {"initial"} :
          Wants(kind) /\ Notify(kind, Priority, Signature)
    /\ UNCHANGED <<envVars, todo, planned, now, aborts>>

\* deliver_message and the rows of `alert_deliveries`.  A channel that fails
\* gets its row too; nothing is ever sent again.
Deliver ==
    /\ pc = "deliver"
    /\ thread' = [thread EXCEPT ![Current][Len(thread[Current])].delivered = TRUE]
    /\ todo' = Tail(todo) /\ pc' = "plan" /\ view' = NoView
    /\ UNCHANGED <<envVars, alert, planned, now, aborts>>

EndCycle ==
    /\ pc = "plan" /\ todo = <<>>
    /\ pc' = "idle" /\ view' = NoView
    /\ UNCHANGED <<envVars, alert, thread, todo, planned, now, aborts>>

\* The scheduler dies, or a database error ends the cycle: what was not
\* committed is gone, and so is the list of events.
Abort ==
    /\ pc # "idle"
    /\ aborts < MaxAborts
    /\ aborts' = aborts + 1
    /\ pc' = "idle" /\ todo' = <<>> /\ planned' = NoPlan /\ view' = NoView
    /\ UNCHANGED <<envVars, alert, thread, now>>

Tick ==
    /\ now < MaxTime
    /\ now' = now + 1
    /\ UNCHANGED <<envVars, alert, thread, loopVars, aborts>>

Environment ==
    \E e \in Events :
        \/ \E size \in Sizes : NewEvent(e, size) \/ Revise(e, size)
        \/ \E status \in EndStatuses : EndEvent(e, status)
        \/ \E independent \in {0, 1} : LinkArticle(e, independent)

Loop == Select \/ Skip \/ Open \/ Announce \/ Note \/ Deliver \/ EndCycle

Next == Environment \/ Loop \/ Abort \/ Tick

Spec == Init /\ [][Next]_vars

\* The loop never stops (`while True`), and everything it awaits has a timeout.
FairSpec == Spec /\ WF_vars(Loop)

-----------------------------------------------------------------------------
(* Properties                                                              *)

EventRow == [status : {"absent", "active", "updated"} \cup Ended, size : Sizes,
             articles : Nat, sources : Nat]

\* Every variable stays in its range; an alert row that has been used carries
\* the signature and the time of its last message (run_alert_intelligence).
TypeOK ==
    /\ ev \in [Events -> EventRow]
    /\ recency \in Seq(Events)
    /\ \A e \in Events :
          /\ alert[e].prio \in Priorities \cup {"none"}
          /\ thread[e] # <<>> =>
                LET last == thread[e][Len(thread[e])]
                IN  alert[e].sig = last.sig /\ alert[e].sentAt = last.at
    /\ pc \in {"idle", "plan", "announce", "deliver"}
    /\ now \in Nat /\ changes \in Nat /\ aborts \in Nat

\* An event is announced at most once, whatever crashes happen in between,
\* and a news event never (alerts.event_id and the commit before the message).
AnnouncedOnce ==
    \A e \in Events :
        /\ Cardinality({i \in 1 .. Len(thread[e]) :
                           thread[e][i].kind = "initial"}) <= 1
        /\ e \in News => thread[e] = <<>>

Consecutive(e) == {i \in 1 .. Len(thread[e]) : i + 1 <= Len(thread[e])}

\* An update comes at least Cooldown after the message before it, of any kind,
\* and the event gained enough sources or articles since that message.
UpdatesEarned ==
    \A e \in Events : \A i \in Consecutive(e) :
        LET before == thread[e][i]
            next == thread[e][i + 1]
        IN  next.kind = "update" =>
               /\ next.at - before.at >= Cooldown
               /\ Grown(next.sig, before.sig)

\* dedup.py: "new messages are added only when the event genuinely changed
\* since the last notified state".  A priority note names another priority
\* than the one last named, and an end is told once per final status.
MessagesMeanChange ==
    \A e \in Events : \A i \in Consecutive(e) :
        LET before == thread[e][i]
            next == thread[e][i + 1]
        IN  /\ before.sig # next.sig
            /\ before.kind = "resolved" /\ next.kind = "resolved" =>
                  before.sig[2] # next.sig[2]
            /\ before.kind \in {"initial", "severity"} /\ next.kind = "severity" =>
                  before.prio # next.prio

\* The messages, by event and place, and those with no delivery recorded.
Sent == UNION {{e} \X DOMAIN thread[e] : e \in Events}
Undelivered == {m \in Sent : ~thread[m[1]][m[2]].delivered}

\* A message whose delivery was not recorded is the trace of a crash: there
\* are never more of them than crashes, but for the one being delivered.
UndeliveredOnlyByCrash ==
    Cardinality(Undelivered) <= aborts + (IF pc = "deliver" THEN 1 ELSE 0)

\* What a thread of messages may be, whatever crashed or overlapped.
ThreadsMakeSense ==
    AnnouncedOnce /\ UpdatesEarned /\ MessagesMeanChange /\ UndeliveredOnlyByCrash

Live(e) == e \in Quakes /\ ev[e].status \in {"active", "updated"}

\* Events that never get an alert and yet stand in line for one: the news, and
\* what ended before its alert.
InTheWay(e) == /\ ev[e].status # "absent" /\ ~HasAlert(e)
               /\ e \in News \/ ev[e].status \in Ended

\* The events that the queries return before e: updated after it.
Before(e) == {x \in Events : \E i, j \in DOMAIN recency :
                                i < j /\ recency[i] = x /\ recency[j] = e}

\* An earthquake event gets its alert unless it ends first, as long as the events
\* in the way that were updated after it leave room in a cycle (missing_alerts).
BudgetServesQuakes ==
    \A e \in Events :
        Live(e) ~> \/ HasAlert(e) \/ ~Live(e)
                   \/ Cardinality({x \in Before(e) : InTheWay(x)}) >= Capacity

\* Once events stop changing, what the alert of a live earthquake says of its
\* priority is what the priority rules say (compute_priority, plan_alert), unless
\* the alerted events that were updated after it fill each cycle (with_alerts):
\* a revised magnitude does not bring an event to the front.
PriorityCatchesUp ==
    <>[](\A e \in Events :
            Live(e) /\ HasAlert(e)
            /\ Cardinality({x \in Before(e) : HasAlert(x)}) < Capacity =>
                alert[e].prio = PriorityOf[ev[e].size])

=============================================================================
