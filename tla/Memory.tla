-------------------------------- MODULE Memory --------------------------------
(***************************************************************************)
(* The memories table (memory.py).  remember looks for a twin among the    *)
(* newest Window rows, inserts, prunes stale actions, counts, picks the    *)
(* oldest rows above Cap and deletes them: five transactions or snapshots, *)
(* between which the other tasks of the bot run.                           *)
(*                                                                         *)
(* A row keeps the newest id its writer had seen (`basis`); `gone` counts, *)
(* per task, the rows others deleted since the task's count.  Both are     *)
(* histories.                                                              *)
(***************************************************************************)
EXTENDS Naturals, FiniteSets, FiniteSetsExt, Functions

CONSTANTS
    Tasks,   \* tasks that may remember
    Cap,     \* max(memory_max_items, 50), scaled down
    Window,  \* the 50 rows the search for twins reads, scaled down
    Old      \* Cap different texts, the rows that an earlier life of the bot left

ASSUME MemoryConstants ==
    /\ Cap \in Nat \ {0} /\ Window \in 1..Cap
    /\ DOMAIN Old = 1..Cap /\ IsInjective(Old)

VARIABLES
    rows,    \* committed rows: [id, text, kind, stale, basis]
    lastId,  \* the id sequence
    m,       \* each task's call of remember
    killed   \* calls that ended after the insertion and before the trim

memoryVars == <<rows, lastId, m, killed>>

-----------------------------------------------------------------------------
Idle == [pc |-> "idle", text |-> "", kind |-> "note", basis |-> 0, excess |-> 0,
         gone |-> 0, doomed |-> {}]

Ids(rs) == {r.id : r \in rs}
Younger(r) == {q \in rows : q.id > r.id}
Newest(n) == {r \in rows : Cardinality(Younger(r)) < n}
Oldest(n) == {r \in rows : Cardinality({q \in rows : q.id < r.id}) < n}

MemoryInit ==
    /\ rows = {[id |-> i, text |-> Old[i], kind |-> "note", stale |-> FALSE,
                basis |-> i - 1] : i \in 1..Cap}
    /\ lastId = Cap
    /\ m = [t \in Tasks |-> Idle]
    /\ killed = 0

At(t, pc) == m[t].pc = pc
Set(t, pc) == m' = [m EXCEPT ![t].pc = pc]

\* The rows rs are deleted by task t: those that others had counted are gone.
Deleted(t, rs, pc) ==
    /\ rows' = rows \ rs
    /\ m' = [s \in Tasks |-> IF s = t THEN [m[s] EXCEPT !.pc = pc]
                             ELSE IF m[s].pc \in {"pick", "trim"}
                             THEN [m[s] EXCEPT !.gone = @ + Cardinality(rs \cap rows)]
                             ELSE m[s]]

-----------------------------------------------------------------------------
\* Equal after _normalize_text; a text is its normal form.
Twin(text) == \E r \in Newest(Window) : r.text = text

Remember(t, text, kind) ==
    /\ At(t, "idle")
    /\ m' = [m EXCEPT ![t] = [Idle EXCEPT !.pc = IF Twin(text) THEN "known" ELSE "insert",
                                          !.text = text, !.kind = kind, !.basis = lastId]]
    /\ UNCHANGED <<rows, lastId, killed>>

Insert(t) ==
    /\ At(t, "insert")
    /\ lastId' = lastId + 1
    /\ rows' = rows \cup {[id |-> lastId + 1, text |-> m[t].text, kind |-> m[t].kind,
                           stale |-> FALSE, basis |-> m[t].basis]}
    /\ Set(t, "prune")
    /\ UNCHANGED killed

\* prune_stale_actions: only rows of kind "action" grow stale.
Prune(t) ==
    /\ At(t, "prune")
    /\ Deleted(t, {r \in rows : r.stale}, "count")
    /\ UNCHANGED <<lastId, killed>>

Count(t) ==
    /\ At(t, "count")
    /\ m' = IF Cardinality(rows) > Cap
            THEN [m EXCEPT ![t].pc = "pick", ![t].excess = Cardinality(rows) - Cap,
                           ![t].gone = 0]
            ELSE [m EXCEPT ![t].pc = "stored"]
    /\ UNCHANGED <<rows, lastId, killed>>

\* A slip of Pick: one row more than counted.
PickOneMore(t) ==
    /\ At(t, "pick")
    /\ m' = [m EXCEPT ![t].pc = "trim", ![t].doomed = Ids(Oldest(m[t].excess + 1))]
    /\ UNCHANGED <<rows, lastId, killed>>

Pick(t) ==
    /\ At(t, "pick")
    /\ m' = [m EXCEPT ![t].pc = "trim", ![t].doomed = Ids(Oldest(m[t].excess))]
    /\ UNCHANGED <<rows, lastId, killed>>

Trim(t) ==
    /\ At(t, "trim")
    /\ Deleted(t, {r \in rows : r.id \in m[t].doomed}, "stored")
    /\ UNCHANGED <<lastId, killed>>

\* The database fails.  After a failed prune the transaction is unusable, so
\* that the count fails too.
RememberFails(t) ==
    /\ m[t].pc \in {"insert", "prune", "count", "pick", "trim"}
    /\ killed' = IF At(t, "insert") THEN killed ELSE killed + 1
    /\ Set(t, "failed")
    /\ UNCHANGED <<rows, lastId>>

RememberStep(t) == Insert(t) \/ Prune(t) \/ Count(t) \/ Pick(t) \/ Trim(t)
Ended(t) == m[t].pc \in {"stored", "known", "failed"}

Forget(t, id) ==
    /\ Deleted(t, {r \in rows : r.id = id}, "idle")
    /\ UNCHANGED <<lastId, killed>>

\* memory_action_ttl_days pass for a row.
GrowStale(id) ==
    /\ \E r \in rows : /\ r.id = id /\ r.kind = "action" /\ ~r.stale
                       /\ rows' = (rows \ {r}) \cup {[r EXCEPT !.stale = TRUE]}
    /\ UNCHANGED <<lastId, m, killed>>

\* The tasks ts die with their process.
MemoryDies(ts) ==
    /\ killed' = killed + Cardinality({t \in ts : m[t].pc \in {"prune", "count", "pick", "trim"}})
    /\ m' = [t \in Tasks |-> IF t \in ts THEN Idle ELSE m[t]]
    /\ UNCHANGED <<rows, lastId>>

-----------------------------------------------------------------------------
MemoryTypeOK ==
    /\ IsFiniteSet(rows) /\ Ids(rows) \subseteq 1..lastId
    /\ \A r, q \in rows : r.id = q.id => r = q
    /\ \A t \in Tasks : m[t].pc \in {"idle", "insert", "prune", "count", "pick", "trim",
                                     "stored", "known", "failed"}

\* Two rows tell the same only if the later one's writer looked before the
\* earlier one was committed, or had a full window of newer rows in view.
TwinsExplained ==
    \A r, q \in rows : r.id < q.id /\ r.text = q.text =>
        q.basis < r.id \/ q.basis - r.id >= Window

\* The table is above its cap only by the rows of calls that have not trimmed yet
\* or never will.
Trimming == {t \in Tasks : m[t].pc \in {"prune", "count", "pick", "trim"}}
SizeBounded == Cardinality(rows) <= Cap + Cardinality(Trimming) + killed

\* A trim leaves the Cap newest rows, but for those that others deleted between
\* its count and its deletion: overlapping trims cut deeper than the cap.
TrimSpares ==
    \A t \in Tasks : At(t, "trim") =>
        Cardinality({r \in rows : r.id \notin m[t].doomed}) + m[t].gone >= Cap

=============================================================================
