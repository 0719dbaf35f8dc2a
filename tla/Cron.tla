-------------------------------- MODULE Cron --------------------------------
(***************************************************************************)
(* The reminders of the Telegram bot (app/cron.py): one JSON list under    *)
(* one Redis key, which the handlers of messages and the cron loop read    *)
(* and later write back as a whole.  Every message is handled in a task of *)
(* its own (poll_loop), so that between the read and the write of one task *)
(* the others run.  Redis may fail any single call: a failed read counts   *)
(* as an empty list, a failed write is reported, and may have reached      *)
(* Redis all the same.                                                     *)
(***************************************************************************)
EXTENDS Integers, Sequences, FiniteSets

CONSTANTS
    Ids,        \* job ids, uuid4().hex[:6]
    Tasks,      \* the tasks that handle messages
    Repeats,    \* the repetitions in use, of "once", "daily", "weekly"
    Delays,     \* how far ahead the users schedule: a week at most (compute_next_run)
    MaxJobs,    \* MAX_JOBS
    Day,        \* a day, in units of the clock
    MaxTime,    \* bound: last instant of the clock
    MaxOps,     \* bound: requests of users
    MaxTroubles \* bound: Redis calls that fail and crashes of the bot

ASSUME CronAssumption ==
    /\ Repeats \subseteq {"once", "daily", "weekly"}
    /\ Delays \subseteq 1 .. 7 * Day
    /\ MaxJobs \in Nat \ {0} /\ Day \in Nat \ {0}
    /\ MaxTime \in Nat /\ MaxOps \in Nat /\ MaxTroubles \in Nat

VARIABLES
    store,      \* the list under CRON_KEY
    task,       \* task[t]: what the task holds between two awaits
    loop,       \* what fire_due_crons holds between two awaits
    now,        \* time.time()
    used,       \* ids handed out
    ops, faults, crashes,  \* bounds
    added, cancelled, done,  \* history: ids stored, cancelled, fired for good
    given,      \* history: given[i]: the schedules users gave job i
    sent,       \* history: how often an occurrence <<id, due>> was sent
    badSaves,   \* history: saves of the loop that failed
    stale       \* history: some write replaced a list its writer had not read, or
                \* was reported as failed and was not

boundVars == <<ops, faults, crashes>>
histVars == <<added, cancelled, done, given, sent, badSaves, stale>>
vars == <<store, task, loop, now, used, boundVars, histVars>>

Horizon == MaxTime + 7 * Day
Jobs == [id : Ids, next : 0 .. Horizon, repeat : Repeats]

\* basis: the list as read; out: the list to be written; fresh (a history): Redis
\* still holds what was read.
IdleTask == [pc |-> "idle", op |-> "none", id |-> "none", out |-> <<>>, fresh |-> FALSE]
IdleLoop == [pc |-> "idle", due |-> <<>>, basis |-> <<>>, out |-> <<>>, fresh |-> FALSE]

Init ==
    /\ store = <<>>
    /\ task = [t \in Tasks |-> IdleTask] /\ loop = IdleLoop
    /\ now = 0 /\ used = {}
    /\ ops = 0 /\ faults = 0 /\ crashes = 0
    /\ added = {} /\ cancelled = {} /\ done = {}
    /\ given = [i \in Ids |-> {}]
    /\ sent = [o \in Ids \X (0 .. MaxTime) |-> 0]
    /\ badSaves = 0 /\ stale = FALSE

-----------------------------------------------------------------------------
(* Redis                                                                   *)

\* list_jobs: what a read may return, and whether it failed.
Read(l, fails) ==
    /\ l = IF fails THEN <<>> ELSE store
    /\ fails => faults + crashes < MaxTroubles
    /\ faults' = faults + (IF fails THEN 1 ELSE 0)

\* save_jobs: whoever else has read the list has now read an old one.
Write(fresh, out) ==
    /\ store' = out
    /\ stale' = (stale \/ ~fresh)
    /\ UNCHANGED faults

WriteFails(out) ==
    /\ faults + crashes < MaxTroubles
    /\ faults' = faults + 1
    /\ \/ UNCHANGED <<store, stale>>
       \/ store' = out /\ stale' = TRUE

Overtaken(x) == [x EXCEPT !.fresh = FALSE]

-----------------------------------------------------------------------------
(* The handlers: add_job, delete_job, edit_job                             *)

Elements(l) == {l[i] : i \in 1 .. Len(l)}
IdsOf(l) == {j.id : j \in Elements(l)}

\* The jobs of l that are in S, in their order.
Kept(l, S) ==
    LET upTo[n \in 0 .. Len(l)] ==
            IF n = 0 THEN <<>>
            ELSE IF l[n] \in S THEN Append(upTo[n - 1], l[n]) ELSE upTo[n - 1]
    IN upTo[Len(l)]

\* Fault: cancelling cuts the list at the job.
Cut(l, id) == SubSeq(l, 1, Cardinality({i \in 1 .. Len(l) : \A j \in 1 .. i : l[j].id # id}))
Without(l, id) == Kept(l, {j \in Elements(l) : j.id # id})

\* Fault: one job too many.
FullLate(l) == Len(l) > MaxJobs
Full(l) == Len(l) >= MaxJobs

Replaced(l, job) == [i \in 1 .. Len(l) |-> IF l[i].id = job.id THEN job ELSE l[i]]

Begin(t) ==
    /\ task[t].pc = "idle"
    /\ ops < MaxOps
    /\ ops' = ops + 1
    /\ UNCHANGED <<store, loop, now, crashes, histVars>>

Hold(t, pc, op, id, read, out) ==
    task' = [task EXCEPT ![t] =
        [pc |-> pc, op |-> op, id |-> id, out |-> out, fresh |-> read = store]]

\* Ids are random; as they are interchangeable, any that is new will do.
NewId == CHOOSE id \in Ids : id \notin used

\* add_job of a request built by build_cron_from_text: its time is ahead.
AddRead(t) ==
    /\ Begin(t)
    /\ used # Ids
    /\ \E l \in {store, <<>>}, fails \in BOOLEAN :
          /\ Read(l, fails)
          /\ \E delay \in Delays, repeat \in Repeats :
                LET job == [id |-> NewId, next |-> now + delay, repeat |-> repeat] IN
                IF Full(l) THEN UNCHANGED task
                ELSE Hold(t, "save", "add", NewId, l, Append(l, job))
    /\ used' = used \cup {NewId}

\* edit_job with a new schedule, or with a text alone: then the list is
\* written back as it was read.  Users know the ids that were acknowledged; one
\* that is not in the list ends the request.
EditRead(t) ==
    /\ Begin(t)
    /\ \E l \in {store, <<>>}, fails \in BOOLEAN :
          /\ Read(l, fails)
          /\ \E id \in added :
                IF id \notin IdsOf(l) THEN UNCHANGED task
                ELSE \/ Hold(t, "save", "edit", id, l, l)
                     \/ \E delay \in Delays, repeat \in Repeats :
                           Hold(t, "save", "edit", id, l, Replaced(l,
                              [id |-> id, next |-> now + delay, repeat |-> repeat]))
    /\ UNCHANGED used

\* delete_job reads twice.
CancelRead(t) ==
    /\ Begin(t)
    /\ \E l \in {store, <<>>}, fails \in BOOLEAN :
          /\ Read(l, fails)
          /\ \E id \in added : Hold(t, "check", "cancel", id, l, Without(l, id))
    /\ UNCHANGED used

\* The second read: lists of the same length mean that there is no such job.
CancelCheck(t) ==
    /\ task[t].pc = "check"
    /\ \E l \in {store, <<>>}, fails \in BOOLEAN :
          /\ Read(l, fails)
          /\ task' = [task EXCEPT ![t] =
                IF Len(task[t].out) = Len(l) THEN IdleTask
                ELSE [@ EXCEPT !.pc = "save"]]
    /\ UNCHANGED <<store, loop, now, used, ops, crashes, histVars>>

ScheduleOf(l, id) == {[next |-> j.next, repeat |-> j.repeat] :
                          j \in {k \in Elements(l) : k.id = id}}

\* The write, and with it the answer to the user.
Save(t) ==
    /\ task[t].pc = "save"
    /\ LET id == task[t].id
           op == task[t].op
       IN \/ /\ Write(task[t].fresh, task[t].out)
             /\ added' = IF op = "add" THEN added \cup {id} ELSE added
             /\ cancelled' = IF op = "cancel" THEN cancelled \cup {id} ELSE cancelled
             /\ task' = [s \in Tasks |-> IF s = t THEN IdleTask ELSE Overtaken(task[s])]
             /\ loop' = Overtaken(loop)
          \/ /\ WriteFails(task[t].out)
             /\ task' = [task EXCEPT ![t] = IdleTask]
             /\ UNCHANGED <<added, cancelled, loop>>
    /\ given' = [given EXCEPT ![task[t].id] = @ \cup ScheduleOf(task[t].out, task[t].id)]
    /\ UNCHANGED <<now, used, ops, crashes, done, sent, badSaves>>

-----------------------------------------------------------------------------
(* The cron loop: fire_due_crons                                           *)

\* _next_after
NextAfter(j) ==
    [j EXCEPT !.next = @ + (IF j.repeat = "daily" THEN Day ELSE 7 * Day)]

IsDue(j) == j.next <= now

\* Fault: the jobs that are due are kept.
RemainingAll(l) == l
Remaining(l) == Kept(l, {j \in Elements(l) : ~IsDue(j)})
DueJobs(l) == Kept(l, {j \in Elements(l) : IsDue(j)})

\* A read that fails finds nothing due.
FireRead ==
    /\ loop.pc = "idle"
    /\ DueJobs(store) # <<>>
    /\ loop' = [pc |-> "send", due |-> DueJobs(store), basis |-> store,
                out |-> Remaining(store), fresh |-> TRUE]
    /\ UNCHANGED <<store, task, now, used, boundVars, histVars>>

\* One reminder is sent.  The send the loop passes (send_message) keeps its
\* errors to itself, so the branch that would keep a failed job never runs.
FireSend ==
    /\ loop.pc = "send"
    /\ loop.due # <<>>
    /\ LET j == loop.due[1] IN
       /\ sent' = [sent EXCEPT ![<<j.id, j.next>>] = @ + 1]
       /\ loop' = [loop EXCEPT !.due = Tail(@),
             !.out = IF j.repeat = "once" THEN @ ELSE Append(@, NextAfter(j))]
    /\ UNCHANGED <<store, task, now, used, boundVars, added, cancelled, done,
                   given, badSaves, stale>>

Truncated(l) == SubSeq(l, 1, IF Len(l) < MaxJobs THEN Len(l) ELSE MaxJobs)

\* The jobs sent once and for all by the pass that is about to be saved.
FiredForGood ==
    {j.id : j \in {k \in Elements(loop.basis) : k.repeat = "once"}} \ IdsOf(loop.out)

\* Fault: a failed save ends the loop.
FireSaveDies ==
    /\ loop.pc = "send" /\ loop.due = <<>>
    /\ \/ /\ Write(loop.fresh, Truncated(loop.out))
          /\ done' = done \cup FiredForGood
          /\ task' = [t \in Tasks |-> Overtaken(task[t])] /\ loop' = IdleLoop
          /\ UNCHANGED badSaves
       \/ /\ WriteFails(Truncated(loop.out))
          /\ badSaves' = badSaves + 1
          /\ loop' = [IdleLoop EXCEPT !.pc = "dead"]
          /\ UNCHANGED <<done, task>>
    /\ UNCHANGED <<now, used, ops, crashes, added, cancelled, given, sent>>

FireSave ==
    /\ loop.pc = "send" /\ loop.due = <<>>
    /\ \/ /\ Write(loop.fresh, Truncated(loop.out))
          /\ done' = done \cup FiredForGood
          /\ task' = [t \in Tasks |-> Overtaken(task[t])]
          /\ UNCHANGED badSaves
       \/ /\ WriteFails(Truncated(loop.out))
          /\ badSaves' = badSaves + 1
          /\ UNCHANGED <<done, task>>
    /\ loop' = IdleLoop
    /\ UNCHANGED <<now, used, ops, crashes, added, cancelled, given, sent>>

-----------------------------------------------------------------------------

\* The bot dies with work in flight: that is gone, Redis keeps the list.
Crash ==
    /\ loop # IdleLoop \/ \E t \in Tasks : task[t] # IdleTask
    /\ faults + crashes < MaxTroubles
    /\ crashes' = crashes + 1
    /\ task' = [t \in Tasks |-> IdleTask] /\ loop' = IdleLoop
    /\ UNCHANGED <<store, now, used, ops, faults, histVars>>

Tick ==
    /\ now < MaxTime
    /\ now' = now + 1
    /\ UNCHANGED <<store, task, loop, used, boundVars, histVars>>

\* The bounds are used up: the model stops here, the bot would not.
Terminated ==
    /\ now = MaxTime /\ loop.pc = "idle" /\ DueJobs(store) = <<>>
    /\ UNCHANGED vars

Handle(t) == AddRead(t) \/ EditRead(t) \/ CancelRead(t)
Proceed(t) == CancelCheck(t) \/ Save(t)
Fire == FireRead \/ FireSend \/ FireSave

Next ==
    \/ \E t \in Tasks : Handle(t) \/ Proceed(t)
    \/ Fire \/ Crash \/ Tick \/ Terminated

Spec == Init /\ [][Next]_vars

\* Every await of the loop ends, by a timeout at the latest, and the loop
\* catches what a pass raises (cron_loop).
FairSpec == Spec /\ WF_vars(Fire)

-----------------------------------------------------------------------------
(* Properties                                                              *)

\* The list never outgrows MAX_JOBS and never holds an id twice, however the
\* tasks overlap (add_job checks a list it read earlier).
TypeOK ==
    /\ store \in Seq(Jobs)
    /\ Len(store) <= MaxJobs
    /\ Cardinality(IdsOf(store)) = Len(store)
    /\ added \subseteq used /\ cancelled \subseteq used /\ done \subseteq used
    /\ loop.pc \in {"idle", "send"}
    /\ \A t \in Tasks : task[t].pc \in {"idle", "check", "save"}

\* As long as no write was stale, the list holds the jobs that were stored and
\* neither cancelled nor fired for good, and no others: what the answers
\* "Cron dihapus" and the acknowledgements of add_job tell the user.
BookKept == ~stale => IdsOf(store) = added \ (cancelled \cup done)

\* As long as no write was stale, one occurrence of a reminder is sent again
\* only after a crash or a save that failed (fire_due_crons saves last).
RepeatsExplained ==
    ~stale => \A o \in DOMAIN sent : sent[o] <= 1 + crashes + badSaves

\* A recurring job stays in phase with a schedule some user gave it, whatever
\* delays, crashes or stale writes there were (_next_after).
PhaseKept ==
    \A i \in 1 .. Len(store) : \E s \in given[store[i].id] :
        /\ s.repeat = store[i].repeat
        /\ s.next <= store[i].next
        /\ store[i].next = s.next \/
              (store[i].next - s.next) % (IF s.repeat = "daily" THEN Day ELSE 7 * Day) = 0

\* What users may rely on: the list, how often they are reminded, and when.
RemindersKept == BookKept /\ RepeatsExplained /\ PhaseKept

Book == INSTANCE ReminderBook WITH book <- Elements(store)

\* Up to the first stale write each step is a step of the abstract book, or
\* changes nothing in it: stale writes are the only way in which the list
\* departs from it (the storage functions of app/cron.py).
StepsOfBook == [][~stale' => [Book!Next]_(Book!vars)]_vars

\* Jobs that are due do not stay in the list: a pass sends them, or someone
\* takes them away, until none is left (cron_loop retries after every failure).
DueGetsFired == DueJobs(store) # <<>> ~> DueJobs(store) = <<>>

=============================================================================
