----------------------------- MODULE AIServices -----------------------------
(***************************************************************************)
(* The AI tasks of kela_ai/services.py: for one event, run the wanted      *)
(* tasks through the gateway one after the other, keep an audit row per    *)
(* call (ai_requests) and the latest artifact per event and task           *)
(* (ai_interpretations).  They are started by POST /ai/process of main.py, *)
(* several at a time if clients ask so.                                    *)
(*                                                                         *)
(* The facts of an event are their version, counted by the event engine's  *)
(* changes; an artifact is the version it tells and the run that made it.  *)
(* `answered`, `ends` and `overlapped` are histories.                      *)
(***************************************************************************)
EXTENDS Naturals, Sequences, FiniteSets, SequencesExt

CONSTANTS
    Kind,         \* Kind[e]: the type of each event there is
    NumRuns,      \* bound: requests
    MaxVersion,   \* bound: changes of an event's facts
    MaxTroubles   \* bound: failures of the database, crashes

ASSUME AIConstants == NumRuns \in Nat /\ MaxVersion \in Nat /\ MaxTroubles \in Nat

Events == DOMAIN Kind
Runs == 1..NumRuns
Missing == 0

VARIABLES
    version,      \* the facts of each event
    audit,        \* committed rows of ai_requests
    artifacts,    \* rows of ai_interpretations, by <<event, task>>
    run,          \* each run of process_event
    started,      \* runs begun so far
    answered,     \* <<run, task>> pairs the gateway has answered with a text
    overlapped,   \* pairs of runs of which one began before the other ended
    troubles

vars == <<version, audit, artifacts, run, started, answered, overlapped, troubles>>

-----------------------------------------------------------------------------
AllTasks == {"summary", "classification", "verification", "explanation"}

\* A slip of WantedTasks: types without tasks of their own get none.
WantedTasksNone(kind) ==
    CASE kind = "earthquake" -> <<"summary", "explanation">>
      [] kind = "news" -> <<"summary", "classification", "verification">>
      [] OTHER -> << >>

\* wanted_tasks: by the type of the event
WantedTasks(kind) ==
    CASE kind = "earthquake" -> <<"summary", "explanation">>
      [] kind = "news" -> <<"summary", "classification", "verification">>
      [] OTHER -> <<"summary">>

\* What a client may ask for: nothing, nothing but commas (an empty list, which
\* counts as nothing), one task, one task twice, or a task that does not exist.
Asked == {"unset", "blank"} \cup AllTasks \cup {"twice", "unknown"}
Ordered(e, asked) ==
    CASE asked \in {"unset", "blank"} -> WantedTasks(Kind[e])
      [] asked = "twice" -> <<"summary", "summary">>
      [] OTHER -> <<asked>>

\* build_event_payload: the event's row and its articles, as they are when read
FactsOf(e) == version[e]

NoRun == [pc |-> "new", event |-> Missing, todo |-> << >>, facts |-> 0,
          found |-> FALSE, done |-> << >>]

Init ==
    /\ version = [e \in Events |-> 0]
    /\ audit = {} /\ artifacts = << >>
    /\ run = [r \in Runs |-> NoRun]
    /\ started = 0 /\ answered = {} /\ overlapped = {} /\ troubles = 0

Live(r) == run[r].pc \in {"call", "succeeded", "failed", "look", "store"}
End(r, how) == run' = [run EXCEPT ![r].pc = how, ![r].found = FALSE]
Trouble == troubles < MaxTroubles /\ troubles' = troubles + 1

-----------------------------------------------------------------------------
\* ai_process up to the first call: 404 and 400 end it, otherwise the facts are
\* read once, for all tasks, and the first audit row is flushed as running.
Start(r) ==
    /\ r = started + 1 /\ started' = r
    /\ overlapped' = overlapped \cup {<<s, r>> : s \in {x \in Runs : Live(x)}}
    /\ \E e \in Events \cup {Missing}, asked \in Asked :
          run' = [run EXCEPT ![r] =
              IF e = Missing THEN [NoRun EXCEPT !.pc = "404"]
              ELSE IF asked = "unknown" THEN [NoRun EXCEPT !.pc = "400"]
              ELSE [NoRun EXCEPT !.pc = "call", !.event = e, !.todo = Ordered(e, asked),
                                 !.facts = FactsOf(e)]]
    /\ UNCHANGED <<version, audit, artifacts, answered, troubles>>

\* gateway.complete answers, or raises AIUnavailable (any other exception is
\* turned into one).
Answer(r) ==
    /\ run[r].pc = "call"
    /\ \/ /\ run' = [run EXCEPT ![r].pc = "succeeded"]
          /\ answered' = answered \cup {<<r, Head(run[r].todo)>>}
       \/ run' = [run EXCEPT ![r].pc = "failed"] /\ UNCHANGED answered
    /\ UNCHANGED <<version, audit, artifacts, started, overlapped, troubles>>

Row(r, status) == [run |-> r, event |-> run[r].event, task |-> Head(run[r].todo),
                   nth |-> Len(run[r].done), status |-> status]

\* A slip of FinishFailed: the failed call is taken for the artifact's row.
FinishFailedAsDone(r) ==
    /\ run[r].pc = "failed"
    /\ audit' = audit \cup {Row(r, "failed")}
    /\ run' = [run EXCEPT ![r].pc = "look"]
    /\ UNCHANGED <<version, artifacts, started, answered, overlapped, troubles>>

\* finish_ai_request commits the audit row with its outcome.
FinishFailed(r) ==
    /\ run[r].pc = "failed"
    /\ audit' = audit \cup {Row(r, "failed")}
    /\ End(r, "503")
    /\ UNCHANGED <<version, artifacts, started, answered, overlapped, troubles>>

FinishSucceeded(r) ==
    /\ run[r].pc = "succeeded"
    /\ audit' = audit \cup {Row(r, "succeeded")}
    /\ run' = [run EXCEPT ![r].pc = "look"]
    /\ UNCHANGED <<version, artifacts, started, answered, overlapped, troubles>>

-----------------------------------------------------------------------------
(* upsert_ai_interpretation: look for the row, then update or insert it.   *)

Place(r) == <<run[r].event, Head(run[r].todo)>>

Look(r) ==
    /\ run[r].pc = "look"
    /\ run' = [run EXCEPT ![r].pc = "store", ![r].found = Place(r) \in DOMAIN artifacts]
    /\ UNCHANGED <<version, audit, artifacts, started, answered, overlapped, troubles>>

Artifact(r) == [facts |-> run[r].facts, request |-> Row(r, "succeeded")]

Stored(r) == [p \in DOMAIN artifacts \cup {Place(r)} |->
                 IF p = Place(r) THEN Artifact(r) ELSE artifacts[p]]
Advance(r) ==
    LET rest == Tail(run[r].todo)
    IN run' = [run EXCEPT ![r].pc = IF rest = << >> THEN "200" ELSE "call", ![r].todo = rest,
                          ![r].found = FALSE, ![r].done = Append(@, Head(run[r].todo))]

StoreArtifact(r) ==
    /\ run[r].pc = "store"
    /\ run[r].found \/ Place(r) \notin DOMAIN artifacts
    /\ artifacts' = Stored(r)
    /\ Advance(r)
    /\ UNCHANGED <<version, audit, started, answered, overlapped, troubles>>

\* A slip of StoreConflict: the insertion is tried again without a new look.
StoreConflictAgain(r) ==
    /\ run[r].pc = "store" /\ ~run[r].found /\ Place(r) \in DOMAIN artifacts
    /\ UNCHANGED vars

\* Another run inserted the row first: the unique key makes the commit fail and
\* the exception ends the request.
StoreConflict(r) ==
    /\ run[r].pc = "store" /\ ~run[r].found /\ Place(r) \in DOMAIN artifacts
    /\ End(r, "500")
    /\ UNCHANGED <<version, audit, artifacts, started, answered, overlapped, troubles>>

\* The database fails or the process dies: what was flushed and not committed,
\* the audit row of the call under way too, is gone.
Abort(r) ==
    /\ Live(r) /\ Trouble
    /\ End(r, "500")
    /\ UNCHANGED <<version, audit, artifacts, started, answered, overlapped>>

\* The event engine and the collectors change the event meanwhile.
Change(e) ==
    /\ version[e] < MaxVersion
    /\ version' = [version EXCEPT ![e] = @ + 1]
    /\ UNCHANGED <<audit, artifacts, run, started, answered, overlapped, troubles>>

Step(r) == Answer(r) \/ FinishFailed(r) \/ FinishSucceeded(r) \/ Look(r)
           \/ StoreArtifact(r) \/ StoreConflict(r)

Next ==
    \/ \E r \in Runs : Start(r) \/ Step(r) \/ Abort(r)
    \/ \E e \in Events : Change(e)

\* A run's steps follow by themselves, and a call carries a timeout.
Spec == Init /\ [][Next]_vars
FairSpec == Spec /\ \A r \in Runs : WF_vars(Step(r))

-----------------------------------------------------------------------------
TypeOK ==
    /\ version \in [Events -> 0..MaxVersion]
    /\ \A a \in audit : /\ a.run \in 1..started /\ a.event \in Events /\ a.task \in AllTasks
                       /\ a.status \in {"succeeded", "failed"}
    /\ DOMAIN artifacts \subseteq Events \X AllTasks
    /\ \A r \in Runs :
          /\ run[r].pc \in {"new", "call", "succeeded", "failed", "look", "store",
                            "200", "400", "404", "500", "503"}
          /\ Live(r) => run[r].todo # << >> /\ run[r].event \in Events
    /\ started \in 0..NumRuns /\ troubles \in 0..MaxTroubles

\* Part of InsightsHold: every insight can be traced to the call that made it, for
\* the same event and task, and that call did answer.  A call that succeeded has its artifact, or
\* another run's, unless its request ended in an error or is still under way.
InsightsTraced ==
    /\ \A p \in DOMAIN artifacts :
          LET req == artifacts[p].request
          IN req \in audit /\ <<req.event, req.task>> = p /\ req.status = "succeeded"
    /\ \A a \in audit : a.status = "succeeded" =>
          /\ <<a.run, a.task>> \in answered
          /\ <<a.event, a.task>> \in DOMAIN artifacts \/ run[a.run].pc \in {"look", "store", "500"}

\* Part of InsightsHold: what a run has stored gives way to an earlier run only if
\* the two were under way together; and of an event's artifacts those of a later
\* run tell no older facts.
Together(r, s) == <<r, s>> \in overlapped \/ <<s, r>> \in overlapped
LatestUnlessTogether ==
    /\ \A r \in Runs : \A i \in DOMAIN run[r].done :
          LET p == <<run[r].event, run[r].done[i]>>
          IN p \in DOMAIN artifacts /\
             LET by == artifacts[p].request.run IN by >= r \/ Together(r, by)
    /\ \A p, q \in DOMAIN artifacts :
          artifacts[p].request.run > artifacts[q].request.run /\ p[1] = q[1]
             => artifacts[p].facts >= artifacts[q].facts

\* What is kept of the AI calls is right while requests overlap, fail and crash and
\* the events change underneath: each insight is traced to its call, and newer
\* facts give way to older ones only between requests under way together.
InsightsHold == InsightsTraced /\ LatestUnlessTogether

\* Every request ends, with all its tasks or with the first failure.
RunsEnd == \A r \in Runs : Live(r) ~> ~Live(r)

=============================================================================
