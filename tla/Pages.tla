--------------------------------- MODULE Pages ---------------------------------
(***************************************************************************)
(* Reading a table page by page (list_documents and list_alerts of repo.py *)
(* behind GET /documents and GET /alerts): each page is a query of its own *)
(* with LIMIT and OFFSET, while rows are inserted, removed or, in the case *)
(* of an alert that gets a further message, brought up to date.  Rows are  *)
(* sorted by a time stamp, so that rows of one instant come in any order.  *)
(***************************************************************************)
EXTENDS Naturals, Sequences, FiniteSets, SequencesExt

CONSTANTS
    Ids,       \* rows
    StoredAt,  \* the time stamps of those that are there before the reader begins
    PageSize,  \* limit, min(limit, 100) for the caller
    MaxWrites  \* bound: rows written while the reader reads

ASSUME PagesConstants ==
    /\ DOMAIN StoredAt \subseteq Ids /\ IsFiniteSet(DOMAIN StoredAt)
    /\ StoredAt \in [DOMAIN StoredAt -> Nat \ {0}]
    /\ PageSize \in Nat \ {0} /\ MaxWrites \in Nat

VARIABLES
    at,       \* at[i]: created_at or updated_at of row i; 0 is no row
    reader,   \* [pc, offset, seen, twice]
    removed,  \* history: time stamps of rows removed since the reader began
    fronted,  \* history: rows inserted or brought up to date since
    writes

pageVars == <<at, reader, removed, fronted, writes>>

Stored == DOMAIN StoredAt
Present == {i \in Ids : at[i] # 0}
Latest == CHOOSE t \in {at[i] : i \in Ids} : \A i \in Ids : at[i] <= t

PagesInit ==
    /\ at = [i \in Ids |-> IF i \in Stored THEN StoredAt[i] ELSE 0]
    /\ reader = [pc |-> "off", offset |-> 0, seen |-> {}, twice |-> {}]
    /\ removed = {} /\ fronted = {} /\ writes = 0

\* A slip of Sorted: the oldest first.
SortedUp(s) == \A i, j \in DOMAIN s : i < j => at[s[i]] <= at[s[j]]
\* order_by(....desc())
Sorted(s) == \A i, j \in DOMAIN s : i < j => at[s[i]] >= at[s[j]]

\* offset(...).limit(...)
Page(s, offset) == SubSeq(s, offset + 1, IF offset + PageSize < Len(s) THEN offset + PageSize ELSE Len(s))

Read ==
    /\ reader.pc \in {"off", "on"}
    /\ \E s \in SetToSeqs(Present) :
          /\ Sorted(s)
          /\ LET page == Page(s, reader.offset) IN
                reader' = [pc     |-> IF Len(page) < PageSize THEN "done" ELSE "on",
                           offset |-> reader.offset + PageSize,
                           seen   |-> reader.seen \cup ToSet(page),
                           twice  |-> reader.twice \cup (reader.seen \cap ToSet(page))]
    /\ UNCHANGED <<at, removed, fronted, writes>>

\* A row is written now, which may be the instant of the last write.
Now == {Latest, Latest + 1} \ {0}

Write(i, t) ==
    /\ reader.pc = "on" /\ writes < MaxWrites
    /\ writes' = writes + 1
    /\ at' = [at EXCEPT ![i] = t]

Insert(i) ==
    /\ i \notin Present
    /\ \E t \in Now : Write(i, t)
    /\ fronted' = fronted \cup {i} /\ UNCHANGED <<reader, removed>>

\* _apply_update of the alert engine: the row's updated_at
Touch(i) ==
    /\ i \in Present
    /\ \E t \in Now : Write(i, t)
    /\ fronted' = fronted \cup {i} /\ UNCHANGED <<reader, removed>>

\* delete_document
RemoveRow(i) ==
    /\ i \in Present
    /\ Write(i, 0)
    /\ removed' = removed \cup {at[i]} /\ UNCHANGED <<reader, fronted>>

PagesNext == Read \/ \E i \in Ids : Insert(i) \/ Touch(i) \/ RemoveRow(i)

PagesSpec == PagesInit /\ [][PagesNext]_pageVars

-----------------------------------------------------------------------------
\* Two rows of one instant come in another order on each page.
Tied(i) == \E j \in Stored \ {i} : StoredAt[j] = StoredAt[i]

\* Whoever pages to the end has seen every row that was there all the time and was
\* not written, unless a newer row was removed meanwhile or it shares its instant
\* with one that was there before; and a row appears twice only if it shares its
\* instant or another row has come before it meanwhile.
PagesMissNothing ==
    /\ reader.pc = "done" =>
          \A i \in (Stored \cap Present) \ fronted :
              i \in reader.seen \/ (\E t \in removed : t >= at[i]) \/ Tied(i)
    /\ \A i \in reader.twice : fronted # {} \/ Tied(i)

=============================================================================
