---------------------------- MODULE ReminderBook ----------------------------
(***************************************************************************)
(* What the bot promises of its reminders: a book in which each request    *)
(* of the user and each firing is one indivisible change.                  *)
(***************************************************************************)
EXTENDS Integers, FiniteSets

CONSTANTS
    Ids,       \* job ids
    Repeats,   \* the repetitions in use
    MaxJobs,   \* MAX_JOBS
    Day,       \* a day, in units of the clock
    Horizon    \* bound: last instant a job is scheduled at

VARIABLES book, now

vars == <<book, now>>

Jobs == [id : Ids, next : 0 .. Horizon, repeat : Repeats]
IdsIn(b) == {j.id : j \in b}

Period == [daily |-> Day, weekly |-> 7 * Day]
Advanced(j) == [j EXCEPT !.next = @ + Period[j.repeat]]

Init == book = {} /\ now = 0

Add == \E j \in Jobs :
    /\ j.id \notin IdsIn(book)
    /\ Cardinality(book) < MaxJobs
    /\ book' = book \cup {j}
    /\ UNCHANGED now

Cancel == \E j \in book :
    /\ book' = book \ {j}
    /\ UNCHANGED now

Edit == \E j \in book, k \in Jobs :
    /\ k.id = j.id /\ k.next > 0
    /\ book' = (book \ {j}) \cup {k}
    /\ UNCHANGED now

\* Jobs that are due fire: once, or moved on by a period.
Fire == \E fired \in SUBSET {j \in book : j.next <= now} :
    /\ book' = (book \ fired)
                  \cup {Advanced(j) : j \in {k \in fired : k.repeat # "once"}}
    /\ UNCHANGED now

Tick == now' = now + 1 /\ UNCHANGED book

Next == Add \/ Cancel \/ Edit \/ Fire \/ Tick

Spec == Init /\ [][Next]_vars
=============================================================================
