-------------------------------- MODULE Naming --------------------------------
(***************************************************************************)
(* How the chat names and numbers what it monitors (monitoring.py,         *)
(* commands.py, telegram._reply_ai): starting a target without a label     *)
(* asks for a name and leaves a pending prompt; the next message is tried  *)
(* as its answer; the list gives every target a number that stop accepts;  *)
(* an edit changes name and interval.  Every message has a task of its     *)
(* own, so that a message can be read before an earlier one has ended.     *)
(*                                                                         *)
(* A task keeps what its sender meant (`meant`): the target of the last    *)
(* question, or the target that had the number in the last list; `crossed` *)
(* says that this has changed since, or that Redis has failed.  Both are   *)
(* histories.                                                              *)
(***************************************************************************)
EXTENDS Naturals, Sequences, FiniteSets, SequencesExt, Functions

CONSTANTS
    Targets,     \* IPs and domains, each a positive number
    Old,         \* those an earlier life of the bot has started, in order of id
    Names,       \* labels users give
    Tasks,       \* tasks of the bot
    MaxMessages, \* bound: messages sent
    MaxTroubles  \* bound: failed calls of Redis, expiries of the prompt

ASSUME NamingConstants ==
    Targets \subseteq Nat \ {0} /\ Old \in Seq(Targets) /\ IsInjective(Old) /\ MaxMessages \in Nat /\ MaxTroubles \in Nat

VARIABLES
    row,       \* network_targets: [id, enabled, name, interval]; id 0 is no row
    ids,       \* bot:monitor:ids in Redis
    spareIds,  \* _MEM_FALLBACK["ids"] of the bot
    pending,   \* bot:monitor:pending_name in Redis: a target or NoTarget
    spare,     \* _PENDING_FALLBACK of the bot
    noted,     \* names that memories tell: <<target, name>>
    asked,     \* the target the user was last asked to name
    shown,     \* the targets of the list the user saw last
    task,      \* each task
    jumbled,   \* history: two questions were on their way at once
    sent, troubles

stored == <<row, ids, spareIds, pending, spare, noted>>
namingVars == <<stored, asked, shown, task, jumbled, sent, troubles>>

-----------------------------------------------------------------------------
NoTarget == 0
Index(s, t) == CHOOSE i \in DOMAIN s : s[i] = t
Default == "default"   \* the name a row is inserted with: its target
Good == {60, 120}      \* intervals inside 10..3600, and one outside
Bad == 5

Free == [pc |-> "free", kind |-> "none", target |-> NoTarget, name |-> Default,
         interval |-> 60, number |-> 0, meant |-> NoTarget, crossed |-> FALSE,
         before |-> Default, new |-> FALSE]

\* The old targets have been named and been given back their first names, or not.
NamingInit ==
    /\ row = [t \in Targets |-> [id |-> IF Contains(Old, t) THEN Index(Old, t) ELSE 0,
                                 enabled |-> Contains(Old, t), name |-> Default, interval |-> 60]]
    /\ ids = DOMAIN Old /\ spareIds = {} /\ pending = NoTarget /\ spare = NoTarget
    /\ noted \in {{}, ToSet(Old) \X Names}
    /\ asked = NoTarget /\ shown = << >>
    /\ task = [n \in Tasks |-> Free] /\ jumbled = FALSE /\ sent = 0 /\ troubles = 0

Trouble == troubles < MaxTroubles /\ troubles' = troubles + 1
Redis(ok) == IF ok THEN UNCHANGED troubles ELSE Trouble

Rows == {t \in Targets : row[t].id # 0}
ById(ts, idOf) == SetToSortSeq(ts, LAMBDA a, b : idOf[a] < idOf[b])
IdOf == [t \in Targets |-> row[t].id]
\* list_monitored_ids: sorted, of Redis or, when it fails, of the process
Listed(ok) == ById({t \in Rows : row[t].id \in (IF ok THEN ids ELSE spareIds)}, IdOf)

\* What a sender meant has changed for the tasks that have not looked yet.
Crossing(tasks, kind) ==
    [n \in Tasks |-> IF tasks[n].pc = "begin" /\ tasks[n].kind = kind
                     THEN [tasks[n] EXCEPT !.crossed = TRUE] ELSE tasks[n]]
\* A target's name is written while other tasks edit it.
Touching(tasks, n, t) ==
    [m \in Tasks |-> IF m # n /\ tasks[m].kind = "edit" /\ tasks[m].target = t
                     THEN [tasks[m] EXCEPT !.crossed = TRUE] ELSE tasks[m]]
Keep(n, fields) == [task EXCEPT ![n] = fields]
At(n, pc, kind) == task[n].pc = pc /\ task[n].kind = kind
End(n) == task' = Keep(n, Free)

-----------------------------------------------------------------------------
(* Messages.  A reply to the prompt declines, agrees ("ya"), gives a name  *)
(* ("ya, nama X", "nama X") or is anything else, a bare name too.          *)

Replies == {"decline", "agree", "name", "other"}
Asking == \E n \in Tasks : task[n].pc = "ask"   \* the question is on its way

Send(n) ==
    /\ task[n].pc = "free" /\ sent < MaxMessages /\ sent' = sent + 1
    /\ \/ \E t \in Targets, x \in Names \cup {Default} :
             task' = Keep(n, [Free EXCEPT !.pc = "begin", !.kind = "start", !.target = t, !.name = x])
       \/ \E k \in Replies, x \in Names :
             task' = Keep(n, [Free EXCEPT !.pc = "begin", !.kind = k, !.meant = asked,
                                          !.name = IF k = "name" THEN x ELSE Default,
                                          !.crossed = Asking \/ jumbled \/ troubles > 0])
       \/ \E i \in DOMAIN shown :
             task' = Keep(n, [Free EXCEPT !.pc = "begin", !.kind = "stop", !.number = i,
                                          !.meant = shown[i],
                                          !.crossed = troubles > 0 \/ Listed(TRUE) # shown])
       \/ \E t \in Targets, x \in Names, i \in Good \cup {Bad} :
             task' = Keep(n, [Free EXCEPT !.pc = "begin", !.kind = "edit", !.target = t,
                                          !.name = x, !.interval = i])
       \/ task' = Keep(n, [Free EXCEPT !.pc = "begin", !.kind = "list"])
    /\ UNCHANGED <<stored, asked, shown, jumbled, troubles>>

-----------------------------------------------------------------------------
(* start_monitoring *)

NewId == Cardinality(Rows) + 1
\* A slip of Started: a target that has a row gets a further one.
StartedAnew(t, x) ==
    [id |-> NewId, enabled |-> TRUE, name |-> x, interval |-> row[t].interval]

Started(t, x) ==
    [id |-> IF t \in Rows THEN row[t].id ELSE NewId, enabled |-> TRUE,
     name |-> IF x = Default THEN row[t].name ELSE x, interval |-> row[t].interval]

\* upsert_monitor_target, the label, set_monitored; a check follows
StartRow(n, ok) ==
    /\ At(n, "begin", "start") /\ Redis(ok)
    /\ LET t == task[n].target IN
          /\ row' = [row EXCEPT ![t] = Started(t, task[n].name)]
          /\ IF ok THEN ids' = ids \cup {row'[t].id} /\ UNCHANGED spareIds
                   ELSE spareIds' = spareIds \cup {row'[t].id} /\ UNCHANGED ids
    /\ task' = Touching(Crossing(Keep(n, IF task[n].name = Default
                                         THEN [task[n] EXCEPT !.pc = "prompt"] ELSE Free), "stop"),
                        n, task[n].target)
    /\ UNCHANGED <<pending, spare, noted, asked, shown, jumbled, sent>>

\* set_monitor_name_pending, after the check
StartPrompt(n, ok) ==
    /\ At(n, "prompt", "start") /\ Redis(ok)
    /\ IF ok THEN pending' = task[n].target /\ UNCHANGED spare
             ELSE spare' = task[n].target /\ UNCHANGED pending
    /\ task' = [m \in Tasks |-> IF m = n THEN [task[n] EXCEPT !.pc = "ask"]
                                ELSE IF task[m].kind \in Replies
                                THEN [task[m] EXCEPT !.crossed = TRUE] ELSE task[m]]
    /\ jumbled' = (jumbled \/ Asking)
    /\ UNCHANGED <<row, ids, spareIds, noted, asked, shown, sent>>

StartAsk(n) ==
    /\ At(n, "ask", "start")
    /\ asked' = task[n].target
    /\ End(n)
    /\ UNCHANGED <<stored, shown, jumbled, sent, troubles>>

-----------------------------------------------------------------------------
(* The answer to a prompt, tried first for every text. *)

\* get_monitor_name_pending: the fallback, too, when Redis has none
Pending(ok) == IF ok /\ pending # NoTarget THEN pending ELSE spare

\* resolve_monitor_name_prompt; without a prompt the text is routed on
ReplyRead(n, ok) ==
    /\ task[n].pc = "begin" /\ task[n].kind \in Replies /\ Redis(ok)
    /\ task' = Keep(n, IF Pending(ok) = NoTarget \/ task[n].kind = "agree" THEN Free
                       ELSE [task[n] EXCEPT !.pc = IF task[n].kind = "name" THEN "name" ELSE "clear",
                                            !.target = Pending(ok),
                                            !.crossed = @ \/ ~ok])
    /\ UNCHANGED <<stored, asked, shown, jumbled, sent>>

\* set_monitor_name
ReplyName(n) ==
    /\ task[n].pc = "name"
    /\ LET t == task[n].target IN
          IF row[t].enabled
          THEN row' = [row EXCEPT ![t].name = task[n].name] /\ noted' = noted \cup {<<t, task[n].name>>}
          ELSE UNCHANGED <<row, noted>>
    /\ task' = Touching(Keep(n, [task[n] EXCEPT !.pc = "clear"]), n, task[n].target)
    /\ UNCHANGED <<ids, spareIds, pending, spare, asked, shown, jumbled, sent, troubles>>

\* clear_monitor_name_pending: the process' prompt goes in any case
ReplyClear(n, ok) ==
    /\ task[n].pc = "clear" /\ Redis(ok)
    /\ pending' = (IF ok THEN NoTarget ELSE pending) /\ spare' = NoTarget
    /\ End(n)
    /\ UNCHANGED <<row, ids, spareIds, noted, asked, shown, jumbled, sent>>

PromptExpires ==
    /\ pending # NoTarget /\ Trouble
    /\ pending' = NoTarget
    /\ UNCHANGED <<row, ids, spareIds, spare, noted, asked, shown, jumbled, task, sent>>

-----------------------------------------------------------------------------
(* /monitor list and /monitor stop <number> *)

List(n, ok) ==
    /\ At(n, "begin", "list") /\ Redis(ok)
    /\ shown' = Listed(ok)
    /\ task' = [Crossing(task, "stop") EXCEPT ![n] = Free]
    /\ UNCHANGED <<stored, asked, jumbled, sent>>

\* A slip of NumberedIn: the numbers count the enabled targets, opted in or not.
NumberedInEnabled(ok) == ById({t \in Rows : row[t].enabled}, IdOf)

\* resolve_monitor_number counts what list_monitored_ids returns.
NumberedIn(ok) == Listed(ok)

StopResolve(n, ok) ==
    /\ At(n, "begin", "stop") /\ Redis(ok)
    /\ LET list == NumberedIn(ok) IN
          task' = Keep(n, IF task[n].number \in DOMAIN list
                          THEN [task[n] EXCEPT !.pc = "stop", !.target = list[task[n].number],
                                               !.crossed = @ \/ ~ok]
                          ELSE Free)
    /\ UNCHANGED <<stored, asked, shown, jumbled, sent>>

\* stop_monitoring: the row, then the opt-in
StopRow(n) ==
    /\ task[n].pc = "stop"
    /\ row' = [row EXCEPT ![task[n].target].enabled = FALSE]
    /\ task' = Keep(n, IF row[task[n].target].enabled THEN [task[n] EXCEPT !.pc = "optout"] ELSE Free)
    /\ UNCHANGED <<ids, spareIds, pending, spare, noted, asked, shown, jumbled, sent, troubles>>

StopOptOut(n, ok) ==
    /\ task[n].pc = "optout" /\ Redis(ok)
    /\ LET i == row[task[n].target].id IN
          IF ok THEN ids' = ids \ {i} /\ UNCHANGED spareIds
                ELSE spareIds' = spareIds \ {i} /\ UNCHANGED ids
    /\ task' = Crossing(Keep(n, Free), "stop")
    /\ UNCHANGED <<row, pending, spare, noted, asked, shown, jumbled, sent>>

-----------------------------------------------------------------------------
(* update_monitor_target.  Remembering the new name commits the session,   *)
(* the name with it, before the interval is looked at; a memory there      *)
(* already is leaves the name uncommitted.                                 *)

EditBegin(n) ==
    /\ At(n, "begin", "edit")
    /\ LET t == task[n].target IN
          task' = Keep(n, IF row[t].enabled
                          THEN [task[n] EXCEPT !.pc = "remember", !.before = row[t].name]
                          ELSE Free)
    /\ UNCHANGED <<stored, asked, shown, jumbled, sent, troubles>>

EditRemember(n) ==
    /\ task[n].pc = "remember"
    /\ LET t == task[n].target
           new == <<t, task[n].name>> \notin noted
       IN /\ noted' = noted \cup {<<t, task[n].name>>}
          /\ row' = IF new THEN [row EXCEPT ![t].name = task[n].name] ELSE row
          /\ task' = Touching(Keep(n, [task[n] EXCEPT !.pc = "finish", !.new = new]), n, t)
    /\ UNCHANGED <<ids, spareIds, pending, spare, asked, shown, jumbled, sent, troubles>>

\* update_monitor_target goes on after the note of the name: the interval may be
\* refused, and what was set before is not taken back.
EditFinish(n) ==
    /\ task[n].pc = "finish"
    /\ LET t == task[n].target IN
          row' = IF task[n].interval = Bad THEN row
                 ELSE [row EXCEPT ![t].name = IF ~task[n].new /\ task[n].name # task[n].before
                                               THEN task[n].name ELSE @,
                                  ![t].interval = task[n].interval]
    /\ task' = Touching(Keep(n, [task[n] EXCEPT !.pc = IF task[n].interval = Bad
                                                       THEN "refused" ELSE "changed"]),
                        n, task[n].target)
    /\ UNCHANGED <<ids, spareIds, pending, spare, noted, asked, shown, jumbled, sent, troubles>>

\* The answer is sent.
EditTell(n) ==
    /\ task[n].pc \in {"refused", "changed"}
    /\ End(n)
    /\ UNCHANGED <<stored, asked, shown, jumbled, sent, troubles>>

NamingNext ==
    \/ PromptExpires
    \/ \E n \in Tasks :
          \/ Send(n) \/ StartAsk(n) \/ ReplyName(n) \/ StopRow(n)
          \/ EditBegin(n) \/ EditRemember(n) \/ EditFinish(n) \/ EditTell(n)
          \/ \E ok \in BOOLEAN :
                \/ StartRow(n, ok) \/ StartPrompt(n, ok) \/ ReplyRead(n, ok) \/ ReplyClear(n, ok)
                \/ List(n, ok) \/ StopResolve(n, ok) \/ StopOptOut(n, ok)

NamingSpec == NamingInit /\ [][NamingNext]_namingVars

-----------------------------------------------------------------------------
NamingTypeOK ==
    /\ \A t \in Targets : /\ row[t].id \in 0..Cardinality(Rows)
                          /\ row[t].name \in Names \cup {Default} /\ row[t].interval \in Good
                          /\ row[t].id = 0 => ~row[t].enabled
    /\ \A t, u \in Rows : row[t].id = row[u].id => t = u
    /\ {pending, spare, asked} \subseteq Targets \cup {NoTarget}
    /\ ids \cup spareIds \subseteq {row[t].id : t \in Rows}
    /\ noted \subseteq Targets \X Names /\ sent \in 0..MaxMessages /\ troubles \in 0..MaxTroubles

\* A name answers the question it was given to: it goes to another target only if
\* a further question overtook the answer, or Redis failed.
NamesMeant == \A n \in Tasks : task[n].pc = "name" => task[n].target = task[n].meant \/ task[n].crossed

\* A number means the target it had in the list its sender saw, unless targets
\* came or went since, or Redis failed.
NumbersMeant == \A n \in Tasks : task[n].pc = "stop" => task[n].target = task[n].meant \/ task[n].crossed

\* An edit that is refused for its interval leaves the target as it was, unless the
\* name was new to the memories (it is kept then), or another task came between.
RefusalsExplained ==
    \A n \in Tasks : task[n].pc = "refused" =>
        row[task[n].target].name = task[n].before \/ task[n].new \/ task[n].crossed

ChatUnderstood == NamesMeant /\ NumbersMeant /\ RefusalsExplained

=============================================================================
