-------------------------- MODULE AIServicesProofs --------------------------
(* Theorems about AIServices, for every set of events and number of runs.   *)
EXTENDS AIServices, SequenceTheorems, TLAPS

-----------------------------------------------------------------------------
(* The inductive invariant. *)

Positions == {"new", "call", "succeeded", "failed", "look", "store",
              "200", "400", "404", "500", "503"}
RunType == [pc : Positions, event : Events \cup {Missing}, todo : Seq(AllTasks),
            facts : 0..MaxVersion, found : BOOLEAN, done : Seq(AllTasks)]
RowType == [run : Runs, event : Events, task : AllTasks, nth : Nat,
            status : {"succeeded", "failed"}]

Typed ==
    /\ TypeOK
    /\ run \in [Runs -> RunType]
    /\ audit \subseteq RowType
    /\ answered \subseteq Runs \X AllTasks
    /\ \A p \in DOMAIN artifacts : artifacts[p] \in [facts : 0..MaxVersion, request : RowType]

\* Runs are started in order, and nothing is known of one that is not.
InOrder == \A r \in Runs : r > started => run[r] = NoRun

\* A run that is still live was live when any later one began.
LiveOverlap == \A s, r \in Runs : s < r /\ r <= started /\ Live(s) => <<s, r>> \in overlapped

\* The runs that were admitted, and what they read.
Admitted(r) == run[r].pc \notin {"new", "400", "404"}
FactsGrow ==
    /\ \A r \in Runs : Admitted(r) => run[r].event \in Events /\ run[r].facts <= version[run[r].event]
    /\ \A s, r \in Runs : s < r /\ Admitted(s) /\ Admitted(r) /\ run[s].event = run[r].event =>
          run[s].facts <= run[r].facts

\* A run between an answer and its artifact has committed the row of the call.
RowFirst ==
    \A r \in Runs :
        /\ run[r].pc = "succeeded" => <<r, Head(run[r].todo)>> \in answered
        /\ run[r].pc \in {"look", "store"} => Row(r, "succeeded") \in audit

\* An audit row is that of its run, and one that succeeded has its artifact unless
\* it is the row of the task at hand.
RowsKept ==
    \A a \in audit :
        /\ Admitted(a.run) /\ a.event = run[a.run].event
        /\ a.status = "succeeded" =>
              /\ <<a.run, a.task>> \in answered
              /\ \/ <<a.event, a.task>> \in DOMAIN artifacts
                 \/ run[a.run].pc = "500"
                 \/ run[a.run].pc \in {"look", "store"} /\ a.task = Head(run[a.run].todo)

\* An artifact is what its run has read.
ArtifactsTraced ==
    \A p \in DOMAIN artifacts :
        LET by == artifacts[p].request IN
        /\ by \in audit /\ <<by.event, by.task>> = p /\ by.status = "succeeded"
        /\ artifacts[p].facts = run[by.run].facts

StoredBy(p, r) ==
    /\ p \in DOMAIN artifacts
    /\ artifacts[p].request.run >= r \/ Together(r, artifacts[p].request.run)
DoneStored ==
    \A r \in Runs : \A i \in DOMAIN run[r].done :
        Admitted(r) /\ StoredBy(<<run[r].event, run[r].done[i]>>, r)

AInv == /\ Typed /\ InOrder /\ LiveOverlap /\ FactsGrow
        /\ RowFirst /\ RowsKept /\ ArtifactsTraced /\ DoneStored

-----------------------------------------------------------------------------
\* wanted_tasks and the tasks of a request are sequences of tasks, not empty.
LEMMA OrderedType ==
  ASSUME NEW e \in Events, NEW asked \in Asked \ {"unknown"}
  PROVE  Ordered(e, asked) \in Seq(AllTasks) /\ Ordered(e, asked) # << >>
<1>1. \A a, b, c \in AllTasks : /\ <<a>> \in Seq(AllTasks) /\ <<a>> # << >>
                               /\ <<a, b>> \in Seq(AllTasks) /\ <<a, b>> # << >>
                               /\ <<a, b, c>> \in Seq(AllTasks) /\ <<a, b, c>> # << >>
  OBVIOUS
<1>2. {"summary", "classification", "verification", "explanation"} = AllTasks
  BY DEF AllTasks
<1>3. "summary" \in AllTasks /\ "classification" \in AllTasks
      /\ "verification" \in AllTasks /\ "explanation" \in AllTasks
  BY DEF AllTasks
<1>4. \A k : WantedTasks(k) \in Seq(AllTasks) /\ WantedTasks(k) # << >>
  <2> SUFFICES ASSUME NEW k
               PROVE  WantedTasks(k) \in Seq(AllTasks) /\ WantedTasks(k) # << >>
    OBVIOUS
  <2>1. CASE k = "earthquake"
    <3>1. WantedTasks(k) = <<"summary", "explanation">>
      BY <2>1 DEF WantedTasks
    <3> QED
      BY <3>1, <1>1, <1>3
  <2>2. CASE k = "news"
    <3>1. WantedTasks(k) = <<"summary", "classification", "verification">>
      BY <2>2 DEF WantedTasks
    <3> QED
      BY <3>1, <1>1, <1>3
  <2>3. CASE k # "earthquake" /\ k # "news"
    <3>1. WantedTasks(k) = <<"summary">>
      BY <2>3 DEF WantedTasks
    <3> QED
      BY <3>1, <1>1, <1>3
  <2> QED
    BY <2>1, <2>2, <2>3
<1>5. CASE asked \in {"unset", "blank"}
  <2>1. Ordered(e, asked) = WantedTasks(Kind[e])
    BY <1>5 DEF Ordered
  <2> QED
    BY <2>1, <1>4
<1>6. CASE asked = "twice"
  <2>1. Ordered(e, asked) = <<"summary", "summary">>
    BY <1>6 DEF Ordered
  <2> QED
    BY <2>1, <1>1, <1>3
<1>7. CASE asked \in AllTasks
  <2>1. Ordered(e, asked) = <<asked>>
    BY <1>7 DEF Ordered, AllTasks
  <2> QED
    BY <2>1, <1>1, <1>7
<1> QED
  BY <1>5, <1>6, <1>7 DEF Asked

LEMMA AIInit == Init => AInv
<1> SUFFICES ASSUME Init PROVE AInv
  OBVIOUS
<1>1. DOMAIN artifacts = {} /\ DOMAIN NoRun.done = {}
  BY DEF Init, NoRun
<1>2. NoRun \in RunType
  <2>1. << >> \in Seq(AllTasks)
    OBVIOUS
  <2> QED
    BY <2>1, AIConstants DEF NoRun, RunType, Positions
<1>3. \A r \in Runs : run[r] = NoRun /\ run[r].pc = "new"
  BY DEF Init, NoRun
<1>4. Typed
  <2>1. TypeOK
    BY <1>1, <1>3, AIConstants DEF Init, TypeOK, Live
  <2> QED
    BY <1>1, <1>2, <2>1 DEF Init, Typed
<1> QED
  BY <1>1, <1>3, <1>4 DEF Init, AInv, InOrder, LiveOverlap, FactsGrow, RowFirst, RowsKept,
     ArtifactsTraced, DoneStored, StoredBy, Admitted, Live

-----------------------------------------------------------------------------
(* Most steps move one run on: its pc changes, and maybe what it has found. *)

Moves(r, how) ==
    /\ run' \in [Runs -> RunType]
    /\ run'[r].pc = how
    /\ \A s \in Runs : /\ s # r => run'[s] = run[s]
                       /\ run'[s].event = run[s].event /\ run'[s].todo = run[s].todo
                       /\ run'[s].facts = run[s].facts /\ run'[s].done = run[s].done

LEMMA MovesPc ==
  ASSUME Typed, NEW r \in Runs, NEW how \in Positions, run' = [run EXCEPT ![r].pc = how]
  PROVE  Moves(r, how)
BY DEF Typed, Moves, RunType

LEMMA MovesPcFound ==
  ASSUME Typed, NEW r \in Runs, NEW how \in Positions, NEW b \in BOOLEAN,
         run' = [run EXCEPT ![r].pc = how, ![r].found = b]
  PROVE  Moves(r, how)
<1>1. run[r] \in RunType /\ run' = [run EXCEPT ![r] = [run[r] EXCEPT !.pc = how, !.found = b]]
  BY DEF Typed
<1>2. [run[r] EXCEPT !.pc = how, !.found = b] \in RunType
  BY <1>1 DEF RunType
<1> QED
  BY <1>1, <1>2 DEF Typed, Moves, RunType

\* What the type says of a run that is live.
LEMMA LiveTyped ==
  ASSUME AInv, NEW r \in Runs, Live(r)
  PROVE  /\ r \in Nat /\ r <= started /\ Admitted(r)
         /\ run[r].event \in Events /\ run[r].todo \in Seq(AllTasks) /\ run[r].todo # << >>
         /\ Head(run[r].todo) \in AllTasks /\ Tail(run[r].todo) \in Seq(AllTasks)
         /\ run[r].done \in Seq(AllTasks) /\ Len(run[r].done) \in Nat
         /\ \A status \in {"succeeded", "failed"} : Row(r, status) \in RowType
<1>1. run[r] \in RunType /\ run[r].event \in Events /\ run[r].todo # << >>
  BY DEF AInv, Typed, TypeOK
<1>2. run[r].todo \in Seq(AllTasks) /\ run[r].done \in Seq(AllTasks)
  BY <1>1 DEF RunType
<1>3. Head(run[r].todo) \in AllTasks /\ Tail(run[r].todo) \in Seq(AllTasks)
      /\ Len(run[r].done) \in Nat
  BY <1>1, <1>2
<1>4. r \in Nat /\ r <= started
  <2>1. r \in Nat /\ started \in Nat /\ run[r] # NoRun
    BY AIConstants DEF Live, NoRun, Runs, AInv, Typed, TypeOK
  <2> QED
    BY <2>1 DEF AInv, InOrder
<1> QED
  BY <1>1, <1>2, <1>3, <1>4 DEF Admitted, Live, Row, RowType

\* A step that only moves a run on keeps what no audit row is about.
LEMMA MovesKeep ==
  ASSUME AInv, NEW r \in Runs, Live(r), NEW how \in Positions \ {"new", "400", "404"},
         Moves(r, how), UNCHANGED <<version, artifacts, started, overlapped>>
  PROVE  /\ InOrder' /\ LiveOverlap' /\ FactsGrow' /\ DoneStored'
         /\ \A s \in Runs : Live(s)' => Live(s)
         /\ \A s \in Runs : Admitted(s)' <=> Admitted(s)
         /\ \A s \in Runs : Live(s)' => run'[s].todo # << >> /\ run'[s].event \in Events
         /\ \A s \in Runs : run'[s].pc \in Positions
<1>1. \A s \in Runs : Live(s)' => Live(s)
  BY DEF Moves, Live
<1>2. \A s \in Runs : Admitted(s)' <=> Admitted(s)
  BY DEF Moves, Live, Admitted
<1>3. \A s \in Runs : Live(s)' => run'[s].todo # << >> /\ run'[s].event \in Events
  BY <1>1 DEF Moves, AInv, Typed, TypeOK
<1>4. \A s \in Runs : run'[s].pc \in Positions
  BY DEF Moves, RunType
<1>5. InOrder'
  <2>1. ~(r > started)
    BY LiveTyped DEF AInv, Typed, TypeOK
  <2> QED
    BY <2>1 DEF Moves, AInv, InOrder
<1>6. LiveOverlap'
  BY <1>1 DEF AInv, LiveOverlap
<1>7. FactsGrow'
  BY <1>2 DEF AInv, FactsGrow, Moves
<1>8. DoneStored'
  BY <1>2 DEF AInv, DoneStored, StoredBy, Moves, Together
<1> QED
  BY <1>1, <1>2, <1>3, <1>4, <1>5, <1>6, <1>7, <1>8

\* Nor does it change what is told of the artifacts, if no audit row is lost.
LEMMA MovesTraced ==
  ASSUME AInv, NEW r \in Runs, NEW how, Moves(r, how), audit \subseteq audit', artifacts' = artifacts
  PROVE  ArtifactsTraced'
BY DEF AInv, Typed, RowType, ArtifactsTraced, Moves

\* The rows there were stay explained, if the step leaves those of its run so.
LEMMA MovesRows ==
  ASSUME AInv, NEW r \in Runs, Live(r), NEW how \in Positions \ {"new", "400", "404"},
         Moves(r, how), UNCHANGED <<version, artifacts, started, overlapped>>,
         answered \subseteq answered',
         \/ run[r].pc \notin {"look", "store"} \/ how \in {"look", "store", "500"}
  PROVE  \A a \in audit :
            /\ Admitted(a.run)' /\ a.event = run'[a.run].event
            /\ a.status = "succeeded" =>
                  /\ <<a.run, a.task>> \in answered'
                  /\ \/ <<a.event, a.task>> \in DOMAIN artifacts'
                     \/ run'[a.run].pc = "500"
                     \/ run'[a.run].pc \in {"look", "store"} /\ a.task = Head(run'[a.run].todo)
<1> SUFFICES ASSUME NEW a \in audit
             PROVE  /\ Admitted(a.run)' /\ a.event = run'[a.run].event
                    /\ a.status = "succeeded" =>
                          /\ <<a.run, a.task>> \in answered'
                          /\ \/ <<a.event, a.task>> \in DOMAIN artifacts'
                             \/ run'[a.run].pc = "500"
                             \/ /\ run'[a.run].pc \in {"look", "store"}
                                /\ a.task = Head(run'[a.run].todo)
  OBVIOUS
<1>1. a.run \in Runs
  BY DEF AInv, Typed, RowType
<1>2. Admitted(a.run)' /\ a.event = run'[a.run].event
  BY <1>1, MovesKeep DEF AInv, RowsKept, Moves
<1>3. CASE a.run = r
  BY <1>2, <1>3 DEF AInv, RowsKept, Moves, Live
<1>4. CASE a.run # r
  BY <1>1, <1>2, <1>4 DEF AInv, RowsKept, Moves
<1> QED
  BY <1>3, <1>4

-----------------------------------------------------------------------------
\* The type, for a step that moves a run on and adds to the audit rows.
LEMMA MovesTyped ==
  ASSUME AInv, NEW r \in Runs, Live(r), NEW how \in Positions \ {"new", "400", "404"},
         Moves(r, how), UNCHANGED <<version, artifacts, started, overlapped>>,
         troubles' \in 0..MaxTroubles, answered' \subseteq Runs \X AllTasks,
         \A a \in audit' \ audit : a = Row(r, "succeeded") \/ a = Row(r, "failed")
  PROVE  Typed'
<1>1. \A a \in audit' \ audit :
         /\ a \in RowType /\ a.run \in 1..started /\ a.event \in Events
         /\ a.task \in AllTasks /\ a.status \in {"succeeded", "failed"}
  <2>1. \A a \in audit' \ audit : a \in RowType /\ a.run = r
    <3>1. Row(r, "succeeded") \in RowType /\ Row(r, "failed") \in RowType
      BY LiveTyped
    <3>2. Row(r, "succeeded").run = r /\ Row(r, "failed").run = r
      BY DEF Row
    <3> QED
      BY <3>1, <3>2
  <2>2. r \in 1..started
    BY LiveTyped, AIConstants DEF Runs, AInv, Typed, TypeOK
  <2> QED
    BY <2>1, <2>2 DEF RowType
<1>2. TypeOK'
  <2>1. \A s \in Runs : Live(s)' => run'[s].todo # << >> /\ run'[s].event \in Events
    BY MovesKeep
  <2>2. \A s \in Runs : run'[s].pc \in Positions
    BY MovesKeep
  <2>3. /\ version' \in [Events -> 0..MaxVersion] /\ DOMAIN artifacts' \subseteq Events \X AllTasks
        /\ started' \in 0..NumRuns /\ troubles' \in 0..MaxTroubles
    BY DEF TypeOK, AInv, Typed
  <2>4. \A a \in audit' : /\ a.run \in 1..started' /\ a.event \in Events /\ a.task \in AllTasks
                          /\ a.status \in {"succeeded", "failed"}
    BY <1>1 DEF TypeOK, AInv, Typed
  <2> QED
    BY <2>1, <2>2, <2>3, <2>4 DEF TypeOK, Positions
<1> QED
  BY <1>1, <1>2 DEF AInv, Typed, Moves

LEMMA AnswerKeeps == ASSUME AInv, NEW r \in Runs, Answer(r) PROVE AInv'
<1>1. Live(r) /\ Head(run[r].todo) \in AllTasks
  BY LiveTyped DEF Answer, Live
<1>2. PICK how \in {"succeeded", "failed"} :
         /\ run' = [run EXCEPT ![r].pc = how]
         /\ how = "succeeded" => <<r, Head(run[r].todo)>> \in answered'
  BY DEF Answer
<1>3. /\ answered \subseteq answered' /\ answered' \subseteq Runs \X AllTasks
      /\ audit' = audit /\ run[r].pc = "call"
      /\ UNCHANGED <<version, artifacts, started, overlapped, troubles>>
  BY <1>1 DEF Answer, AInv, Typed
<1>4. Moves(r, how)
  BY <1>2, MovesPc DEF AInv, Positions
<1>5. how \in Positions \ {"new", "400", "404"} /\ troubles' \in 0..MaxTroubles
  BY <1>3 DEF AInv, Typed, TypeOK, Positions
<1>6. Typed'
  BY <1>1, <1>3, <1>4, <1>5, MovesTyped
<1>7. InOrder' /\ LiveOverlap' /\ FactsGrow' /\ DoneStored'
  BY <1>1, <1>3, <1>4, <1>5, MovesKeep
<1>8. ArtifactsTraced'
  BY <1>3, <1>4, MovesTraced
<1>9. RowFirst'
  <2>1. \A s \in Runs : s # r => run'[s] = run[s]
    BY <1>4 DEF Moves
  <2>2. \A s \in Runs : \A st : Row(s, st)' = Row(s, st)
    BY <1>4 DEF Moves, Row
  <2>3. run'[r].pc = how /\ run'[r].todo = run[r].todo
    BY <1>4 DEF Moves
  <2> QED
    BY <1>2, <1>3, <2>1, <2>2, <2>3 DEF AInv, RowFirst
<1>10. RowsKept'
  BY <1>1, <1>3, <1>4, <1>5, MovesRows DEF RowsKept
<1> QED
  BY <1>6, <1>7, <1>8, <1>9, <1>10 DEF AInv

LEMMA FinishKeeps ==
  ASSUME AInv, NEW r \in Runs, FinishFailed(r) \/ FinishSucceeded(r)
  PROVE  AInv'
<1>1. Live(r) /\ run[r].pc \in {"failed", "succeeded"}
  BY DEF FinishFailed, FinishSucceeded, Live
<1>2. PICK how \in {"503", "look"}, status \in {"failed", "succeeded"} :
         /\ audit' = audit \cup {Row(r, status)} /\ status = run[r].pc
         /\ (how = "look") <=> (status = "succeeded")
         /\ Moves(r, how)
  <2>1. CASE FinishFailed(r)
    <3>1. Moves(r, "503")
      BY <2>1, MovesPcFound DEF FinishFailed, End, AInv, Positions
    <3> QED
      BY <2>1, <3>1 DEF FinishFailed
  <2>2. CASE FinishSucceeded(r)
    <3>1. Moves(r, "look")
      BY <2>2, MovesPc DEF FinishSucceeded, AInv, Positions
    <3> QED
      BY <2>2, <3>1 DEF FinishSucceeded
  <2> QED
    BY <2>1, <2>2
<1>3. UNCHANGED <<version, artifacts, started, answered, overlapped, troubles>>
  BY DEF FinishFailed, FinishSucceeded
<1>4. /\ how \in Positions \ {"new", "400", "404"} /\ troubles' \in 0..MaxTroubles
      /\ answered' \subseteq Runs \X AllTasks /\ audit \subseteq audit'
  BY <1>2, <1>3 DEF AInv, Typed, TypeOK, Positions
<1>5. Typed'
  BY <1>1, <1>2, <1>3, <1>4, MovesTyped
<1>6. InOrder' /\ LiveOverlap' /\ FactsGrow' /\ DoneStored'
  BY <1>1, <1>2, <1>3, <1>4, MovesKeep
<1>7. ArtifactsTraced'
  BY <1>2, <1>3, <1>4, MovesTraced
<1>8. RowFirst'
  <2>1. \A s \in Runs : s # r => run'[s] = run[s]
    BY <1>2 DEF Moves
  <2>2. \A s \in Runs : \A st : Row(s, st)' = Row(s, st)
    BY <1>2 DEF Moves, Row
  <2>3. run'[r].pc = how /\ how # "succeeded"
    BY <1>2 DEF Moves
  <2>4. how = "look" => Row(r, "succeeded") \in audit'
    BY <1>2
  <2> QED
    BY <1>2, <1>3, <1>4, <2>1, <2>2, <2>3, <2>4 DEF AInv, RowFirst
<1>9. RowsKept'
  <2>1. \A a \in audit : /\ Admitted(a.run)' /\ a.event = run'[a.run].event
                         /\ a.status = "succeeded" =>
                            /\ <<a.run, a.task>> \in answered'
                            /\ \/ <<a.event, a.task>> \in DOMAIN artifacts'
                               \/ run'[a.run].pc = "500"
                               \/ /\ run'[a.run].pc \in {"look", "store"}
                                  /\ a.task = Head(run'[a.run].todo)
    BY <1>1, <1>2, <1>3, <1>4, MovesRows
  <2>2. /\ Admitted(r)' /\ run'[r].event = run[r].event /\ run'[r].todo = run[r].todo
        /\ run'[r].pc = how
    BY <1>2 DEF Moves, Admitted
  <2>3. status = "succeeded" => <<r, Head(run[r].todo)>> \in answered'
    BY <1>2, <1>3 DEF AInv, RowFirst
  <2>4. /\ Row(r, status).run = r /\ Row(r, status).event = run[r].event
        /\ Row(r, status).task = Head(run[r].todo) /\ Row(r, status).status = status
    BY DEF Row
  <2> SUFFICES ASSUME NEW a \in audit'
               PROVE  /\ Admitted(a.run)' /\ a.event = run'[a.run].event
                      /\ a.status = "succeeded" =>
                         /\ <<a.run, a.task>> \in answered'
                         /\ \/ <<a.event, a.task>> \in DOMAIN artifacts'
                            \/ run'[a.run].pc = "500"
                            \/ /\ run'[a.run].pc \in {"look", "store"}
                               /\ a.task = Head(run'[a.run].todo)
    BY DEF RowsKept
  <2>5. CASE a \in audit
    BY <2>1, <2>5
  <2>6. CASE a = Row(r, status)
    <3>1. a.run = r /\ a.event = run[r].event /\ a.task = Head(run[r].todo) /\ a.status = status
      BY <2>4, <2>6
    <3> QED
      BY <1>2, <2>2, <2>3, <3>1
  <2> QED
    BY <1>2, <2>5, <2>6
<1> QED
  BY <1>5, <1>6, <1>7, <1>8, <1>9 DEF AInv

LEMMA LookEndKeeps ==
  ASSUME AInv, NEW r \in Runs, Look(r) \/ StoreConflict(r) \/ Abort(r)
  PROVE  AInv'
<1>1. Live(r)
  BY DEF Look, StoreConflict, Abort, Live
<1>2. PICK how \in {"store", "500"} : Moves(r, how) /\ (how = "store" => run[r].pc = "look")
  <2>1. CASE Look(r)
    <3>1. run' = [run EXCEPT ![r].pc = "store", ![r].found = Place(r) \in DOMAIN artifacts]
      BY <2>1 DEF Look
    <3>2. (Place(r) \in DOMAIN artifacts) \in BOOLEAN /\ "store" \in Positions
      BY DEF Positions
    <3>3. Moves(r, "store")
      BY <3>1, <3>2, MovesPcFound DEF AInv
    <3> QED
      BY <2>1, <3>3 DEF Look
  <2>2. CASE StoreConflict(r) \/ Abort(r)
    BY <2>2, MovesPcFound DEF StoreConflict, Abort, End, AInv, Positions
  <2> QED
    BY <2>1, <2>2
<1>3. UNCHANGED <<version, audit, artifacts, started, answered, overlapped>>
  BY DEF Look, StoreConflict, Abort
<1>4. /\ how \in Positions \ {"new", "400", "404"} /\ troubles' \in 0..MaxTroubles
      /\ answered' \subseteq Runs \X AllTasks /\ audit' = audit
  <2>1. troubles' = troubles \/ (troubles < MaxTroubles /\ troubles' = troubles + 1)
    BY DEF Look, StoreConflict, Abort, Trouble
  <2>2. troubles' \in 0..MaxTroubles
    BY <2>1, AIConstants DEF AInv, Typed, TypeOK
  <2> QED
    BY <1>2, <1>3, <2>2 DEF AInv, Typed, Positions
<1>5. Typed'
  BY <1>1, <1>2, <1>3, <1>4, MovesTyped
<1>6. InOrder' /\ LiveOverlap' /\ FactsGrow' /\ DoneStored'
  BY <1>1, <1>2, <1>3, <1>4, MovesKeep
<1>7. ArtifactsTraced'
  BY <1>2, <1>3, MovesTraced
<1>8. RowFirst'
  <2>1. \A s \in Runs : s # r => run'[s] = run[s]
    BY <1>2 DEF Moves
  <2>2. \A s \in Runs : \A st : Row(s, st)' = Row(s, st)
    BY <1>2 DEF Moves, Row
  <2>3. run'[r].pc = how
    BY <1>2 DEF Moves
  <2> QED
    BY <1>2, <1>3, <2>1, <2>2, <2>3 DEF AInv, RowFirst
<1>9. RowsKept'
  BY <1>1, <1>2, <1>3, <1>4, MovesRows DEF RowsKept
<1> QED
  BY <1>5, <1>6, <1>7, <1>8, <1>9 DEF AInv

-----------------------------------------------------------------------------
(* The steps that do more than move a run on. *)

LEMMA StartKeeps == ASSUME AInv, NEW r \in Runs, Start(r) PROVE AInv'
<1>1. /\ r = started + 1 /\ started' = r /\ started \in Nat /\ r \in Nat /\ run[r] = NoRun
      /\ \A s \in Runs : s \in Nat
  BY AIConstants DEF Start, AInv, Typed, TypeOK, Runs, InOrder
<1>2. /\ run' \in [Runs -> RunType] /\ run'[r].done = << >> /\ run'[r].pc \in {"call", "400", "404"}
      /\ run'[r].pc = "call" => /\ run'[r].event \in Events /\ run'[r].todo # << >>
                                /\ run'[r].facts = version[run'[r].event]
      /\ \A s \in Runs : s # r => run'[s] = run[s]
  <2>1. PICK e \in Events \cup {Missing}, asked \in Asked :
           run' = [run EXCEPT ![r] =
              IF e = Missing THEN [NoRun EXCEPT !.pc = "404"]
              ELSE IF asked = "unknown" THEN [NoRun EXCEPT !.pc = "400"]
              ELSE [NoRun EXCEPT !.pc = "call", !.event = e, !.todo = Ordered(e, asked),
                                 !.facts = FactsOf(e)]]
    BY DEF Start
  <2>2. run \in [Runs -> RunType] /\ << >> \in Seq(AllTasks)
    BY DEF AInv, Typed
  <2>3. NoRun \in RunType /\ NoRun.done = << >>
    BY <2>2, AIConstants DEF NoRun, RunType, Positions
  <2>4. CASE e = Missing
    <3> DEFINE x == [NoRun EXCEPT !.pc = "404"]
    <3>1. x \in RunType /\ x.pc = "404" /\ x.done = << >>
      BY <2>3 DEF RunType, Positions
    <3>2. run' = [run EXCEPT ![r] = x]
      BY <2>1, <2>4
    <3> HIDE DEF x
    <3> QED
      BY <2>2, <3>1, <3>2
  <2>5. CASE e # Missing /\ asked = "unknown"
    <3> DEFINE x == [NoRun EXCEPT !.pc = "400"]
    <3>1. x \in RunType /\ x.pc = "400" /\ x.done = << >>
      BY <2>3 DEF RunType, Positions
    <3>2. run' = [run EXCEPT ![r] = x]
      BY <2>1, <2>5
    <3> HIDE DEF x
    <3> QED
      BY <2>2, <3>1, <3>2
  <2>6. CASE e # Missing /\ asked # "unknown"
    <3>1. e \in Events /\ Ordered(e, asked) \in Seq(AllTasks) /\ Ordered(e, asked) # << >>
          /\ version[e] \in 0..MaxVersion
      BY <2>6, OrderedType DEF AInv, Typed, TypeOK
    <3> DEFINE x == [NoRun EXCEPT !.pc = "call", !.event = e, !.todo = Ordered(e, asked),
                                  !.facts = FactsOf(e)]
    <3>2. /\ x \in RunType /\ x.pc = "call" /\ x.done = << >> /\ x.event = e
          /\ x.todo = Ordered(e, asked) /\ x.facts = version[e]
      BY <2>2, <3>1, AIConstants DEF NoRun, RunType, Positions, FactsOf
    <3>3. run' = [run EXCEPT ![r] = x]
      BY <2>1, <2>6
    <3> HIDE DEF x
    <3> QED
      BY <2>2, <3>1, <3>2, <3>3
  <2> QED
    BY <2>4, <2>5, <2>6
<1>3. /\ UNCHANGED <<version, audit, artifacts, answered, troubles>>
      /\ overlapped' = overlapped \cup {<<s, r>> : s \in {x \in Runs : Live(x)}}
  BY DEF Start
<1>4. \A a \in audit : a.run \in Runs /\ a.run # r /\ a.run \in 1..started'
  BY <1>1 DEF AInv, Typed, TypeOK, RowType
<1>5. TypeOK'
  <2>1. \A s \in Runs : /\ run'[s].pc \in Positions
                        /\ Live(s)' => run'[s].todo # << >> /\ run'[s].event \in Events
    BY <1>2 DEF AInv, Typed, TypeOK, Live, RunType
  <2>2. started' \in 0..NumRuns
    BY <1>1, AIConstants DEF Runs
  <2> QED
    BY <1>3, <1>4, <2>1, <2>2 DEF AInv, Typed, TypeOK, Positions
<1>6. Typed'
  BY <1>2, <1>3, <1>5 DEF AInv, Typed
<1>7. InOrder'
  <2> SUFFICES ASSUME NEW s \in Runs, s > started' PROVE run'[s] = NoRun
    BY DEF InOrder
  <2>1. s # r /\ s > started
    BY <1>1
  <2> QED
    BY <1>2, <2>1 DEF AInv, InOrder
<1>8. LiveOverlap'
  <2> SUFFICES ASSUME NEW s \in Runs, NEW q \in Runs, s < q, q <= started', Live(s)'
               PROVE  <<s, q>> \in overlapped'
    BY DEF LiveOverlap
  <2>1. Live(s)
    BY <1>1, <1>2 DEF Live
  <2>2. CASE q = r
    BY <1>3, <2>1, <2>2
  <2>3. CASE q # r
    BY <1>1, <1>3, <2>1, <2>3 DEF AInv, LiveOverlap
  <2> QED
    BY <2>2, <2>3
<1>9. FactsGrow'
  <2>1. \A s \in Runs : s # r => (Admitted(s)' <=> Admitted(s))
    BY <1>2 DEF Admitted
  <2>2. Admitted(r)' => run'[r].event \in Events /\ run'[r].facts = version[run'[r].event]
    BY <1>2 DEF Admitted
  <2>3. \A s \in Runs : Admitted(s)' => /\ run'[s].event \in Events
                                        /\ run'[s].facts <= version'[run'[s].event]
    <3>1. \A e \in Events : version[e] <= version[e]
      BY AIConstants DEF AInv, Typed, TypeOK
    <3> QED
      BY <1>2, <1>3, <2>1, <2>2, <3>1 DEF AInv, FactsGrow
  <2>4. \A q \in Runs : q > r => ~Admitted(q)'
    BY <1>1, <1>2 DEF AInv, InOrder, NoRun, Admitted
  <2> SUFFICES ASSUME NEW s \in Runs, NEW q \in Runs, s < q, Admitted(s)', Admitted(q)',
                      run'[s].event = run'[q].event
               PROVE  run'[s].facts <= run'[q].facts
    BY <2>3 DEF FactsGrow
  <2>5. CASE q = r
    BY <1>1, <1>3, <2>2, <2>3, <2>5
  <2>6. CASE q # r
    <3>1. s # r
      BY <1>1, <2>4
    <3> QED
      BY <1>2, <2>1, <2>6, <3>1 DEF AInv, FactsGrow
  <2> QED
    BY <2>5, <2>6
<1>10. RowFirst'
  <2>1. \A s \in Runs : \A st : s # r => Row(s, st)' = Row(s, st)
    BY <1>2 DEF Row
  <2> QED
    BY <1>2, <1>3, <2>1 DEF AInv, RowFirst
<1>11. RowsKept'
  BY <1>2, <1>3, <1>4 DEF AInv, RowsKept, Admitted
<1>12. ArtifactsTraced'
  BY <1>2, <1>3, <1>4 DEF AInv, ArtifactsTraced
<1>13. DoneStored'
  <2>1. \A s, q : Together(s, q) => Together(s, q)'
    BY <1>3 DEF Together
  <2>2. DOMAIN run'[r].done = {}
    BY <1>2
  <2>3. \A s \in Runs : s # r => (Admitted(s)' <=> Admitted(s))
    BY <1>2 DEF Admitted
  <2> QED
    BY <1>2, <1>3, <2>1, <2>2, <2>3 DEF AInv, DoneStored, StoredBy
<1> QED
  BY <1>6, <1>7, <1>8, <1>9, <1>10, <1>11, <1>12, <1>13 DEF AInv

LEMMA StoreKeeps == ASSUME AInv, NEW r \in Runs, StoreArtifact(r) PROVE AInv'
<1> DEFINE task == Head(run[r].todo)
           rest == Tail(run[r].todo)
           new == IF rest = << >> THEN "200" ELSE "call"
<1>1. /\ Live(r) /\ run[r].pc = "store" /\ run[r] \in RunType /\ run \in [Runs -> RunType]
      /\ run[r].event \in Events /\ task \in AllTasks /\ rest \in Seq(AllTasks)
      /\ run[r].done \in Seq(AllTasks) /\ Row(r, "succeeded") \in RowType
  <2>1. Live(r) /\ run[r].pc = "store"
    BY DEF StoreArtifact, Live
  <2> QED
    BY <2>1, LiveTyped DEF AInv, Typed
<1>2. UNCHANGED <<version, audit, started, answered, overlapped, troubles>>
  BY DEF StoreArtifact
<1>3. /\ DOMAIN artifacts' = DOMAIN artifacts \cup {<<run[r].event, task>>}
      /\ artifacts'[<<run[r].event, task>>] = [facts |-> run[r].facts, request |-> Row(r, "succeeded")]
      /\ \A p \in DOMAIN artifacts : p # <<run[r].event, task>> => artifacts'[p] = artifacts[p]
  BY DEF StoreArtifact, Stored, Place, Artifact
<1>4. run' = [run EXCEPT ![r].pc = new, ![r].todo = rest, ![r].found = FALSE,
                         ![r].done = Append(run[r].done, task)]
  BY <1>1 DEF StoreArtifact, Advance
<1>5. Append(run[r].done, task) \in Seq(AllTasks) /\ new \in Positions
  BY <1>1 DEF Positions
<1>6. /\ run' \in [Runs -> RunType] /\ \A s \in Runs : s # r => run'[s] = run[s]
      /\ run'[r].pc = new /\ run'[r].todo = rest /\ run'[r].done = Append(run[r].done, task)
      /\ run'[r].event = run[r].event /\ run'[r].facts = run[r].facts
  <2> HIDE DEF new, rest, task
  <2> QED
    BY <1>1, <1>4, <1>5 DEF RunType
<1>7. /\ \A s \in Runs : Live(s)' => Live(s)
      /\ \A s \in Runs : Admitted(s)' <=> Admitted(s)
      /\ \A s \in Runs : run'[s].event = run[s].event /\ run'[s].facts = run[s].facts
  BY <1>1, <1>6 DEF Live, Admitted
<1>8. TypeOK'
  <2>1. \A s \in Runs : run'[s].pc \in Positions
    BY <1>6 DEF RunType
  <2>2. \A s \in Runs : Live(s)' => run'[s].todo # << >> /\ run'[s].event \in Events
    <3>1. \A s \in Runs : Live(s) => run[s].todo # << >> /\ run[s].event \in Events
      BY DEF AInv, Typed, TypeOK, Live
    <3>2. Live(r)' => rest # << >>
      BY <1>1, <1>6 DEF Live
    <3> HIDE DEF new, rest, task
    <3> QED
      BY <1>6, <1>7, <3>1, <3>2
  <2>3. DOMAIN artifacts' \subseteq Events \X AllTasks
    BY <1>1, <1>3 DEF AInv, Typed, TypeOK
  <2> QED
    BY <1>2, <2>1, <2>2, <2>3 DEF AInv, Typed, TypeOK, Positions
<1>9. Typed'
  <2>1. [facts |-> run[r].facts, request |-> Row(r, "succeeded")]
           \in [facts : 0..MaxVersion, request : RowType]
    BY <1>1 DEF RunType
  <2>2. \A p \in DOMAIN artifacts' : artifacts'[p] \in [facts : 0..MaxVersion, request : RowType]
    BY <1>3, <2>1 DEF AInv, Typed
  <2> QED
    BY <1>2, <1>6, <1>8, <2>2 DEF AInv, Typed
<1>10. InOrder'
  <2>1. ~(r > started)
    BY <1>1, LiveTyped DEF AInv, Typed, TypeOK
  <2> QED
    BY <1>2, <1>6, <2>1 DEF AInv, InOrder
<1>11. LiveOverlap'
  BY <1>2, <1>7 DEF AInv, LiveOverlap
<1>12. FactsGrow'
  BY <1>2, <1>7 DEF AInv, FactsGrow
<1>13. RowFirst'
  <2>1. \A s \in Runs : \A st : s # r => Row(s, st)' = Row(s, st)
    BY <1>6 DEF Row
  <2> QED
    BY <1>2, <1>6, <2>1 DEF AInv, RowFirst
<1>14. RowsKept'
  <2> SUFFICES ASSUME NEW a \in audit
               PROVE  /\ Admitted(a.run)' /\ a.event = run'[a.run].event
                      /\ a.status = "succeeded" =>
                            /\ <<a.run, a.task>> \in answered'
                            /\ \/ <<a.event, a.task>> \in DOMAIN artifacts'
                               \/ run'[a.run].pc = "500"
                               \/ /\ run'[a.run].pc \in {"look", "store"}
                                  /\ a.task = Head(run'[a.run].todo)
    BY <1>2 DEF RowsKept
  <2>1. a.run \in Runs
    BY DEF AInv, Typed, RowType
  <2>2. CASE a.run = r
    BY <1>1, <1>2, <1>3, <1>7, <2>1, <2>2 DEF AInv, RowsKept
  <2>3. CASE a.run # r
    BY <1>2, <1>3, <1>6, <1>7, <2>1, <2>3 DEF AInv, RowsKept
  <2> QED
    BY <2>2, <2>3
<1>15. ArtifactsTraced'
  <2>1. /\ Row(r, "succeeded") \in audit /\ Row(r, "succeeded").run = r
        /\ Row(r, "succeeded").event = run[r].event /\ Row(r, "succeeded").task = task
        /\ Row(r, "succeeded").status = "succeeded"
    BY <1>1 DEF AInv, RowFirst, Row
  <2>2. \A p \in DOMAIN artifacts : artifacts[p].request.run \in Runs
    BY DEF AInv, Typed, RowType
  <2> QED
    BY <1>2, <1>3, <1>7, <2>1, <2>2 DEF AInv, ArtifactsTraced
<1>16. DoneStored'
  <2> SUFFICES ASSUME NEW s \in Runs, NEW i \in DOMAIN run'[s].done
               PROVE  Admitted(s)' /\ StoredBy(<<run[s].event, run[s].done[i]>>, s)'
    BY DEF DoneStored
  <2> DEFINE p == <<run'[s].event, run'[s].done[i]>>
  <2>1. \/ i \in DOMAIN run[s].done /\ p = <<run[s].event, run[s].done[i]>>
        \/ s = r /\ p = <<run[r].event, task>>
    <3>1. CASE s = r
      <4> HIDE DEF task
      <4>1. run'[r].done = Append(run[r].done, task) /\ i \in DOMAIN run'[r].done
        BY <1>6, <3>1
      <4>2. \/ i \in DOMAIN run[r].done /\ run'[r].done[i] = run[r].done[i]
            \/ run'[r].done[i] = task
        BY <1>1, <4>1
      <4> QED
        BY <1>6, <3>1, <4>2
    <3>2. CASE s # r
      BY <1>6, <3>2
    <3> QED
      BY <3>1, <3>2
  <2>2. Admitted(s)' /\ Admitted(s)
    BY <1>1, <1>7, <2>1 DEF AInv, DoneStored, Admitted
  <2>3. s \in Nat /\ r \in Nat /\ started \in Nat /\ s <= started /\ Row(r, "succeeded").run = r
    BY <2>2, AIConstants DEF AInv, Typed, TypeOK, Runs, InOrder, NoRun, Admitted, Row
  <2>4. CASE p = <<run[r].event, task>>
    <3>1. p \in DOMAIN artifacts' /\ artifacts'[p].request.run = r
      BY <1>3, <2>3, <2>4
    <3>2. r < s => <<r, s>> \in overlapped'
      BY <1>1, <1>2, <2>3 DEF AInv, LiveOverlap
    <3> QED
      BY <2>2, <2>3, <3>1, <3>2 DEF Together, StoredBy
  <2>5. CASE p # <<run[r].event, task>>
    <3>1. StoredBy(p, s)
      BY <2>1, <2>5 DEF AInv, DoneStored
    <3>2. p \in DOMAIN artifacts /\ artifacts'[p] = artifacts[p] /\ p \in DOMAIN artifacts'
      BY <1>3, <2>5, <3>1 DEF StoredBy
    <3> QED
      BY <1>2, <2>2, <3>1, <3>2 DEF StoredBy, Together
  <2> QED
    BY <2>4, <2>5
<1> QED
  BY <1>9, <1>10, <1>11, <1>12, <1>13, <1>14, <1>15, <1>16 DEF AInv

LEMMA ChangeKeeps == ASSUME AInv, NEW e \in Events, Change(e) PROVE AInv'
<1>1. UNCHANGED <<audit, artifacts, run, started, answered, overlapped, troubles>>
  BY DEF Change
<1>2. /\ version' \in [Events -> 0..MaxVersion]
      /\ \A f \in Events : version[f] <= version'[f]
  BY AIConstants DEF Change, AInv, Typed, TypeOK
<1>3. Typed'
  BY <1>1, <1>2 DEF AInv, Typed, TypeOK, Live
<1>4. FactsGrow'
  <2>1. \A r \in Runs : Admitted(r) => run[r].facts <= version'[run[r].event]
    <3> SUFFICES ASSUME NEW r \in Runs, Admitted(r)
                 PROVE  run[r].facts <= version'[run[r].event]
      OBVIOUS
    <3>1. run[r].facts \in 0..MaxVersion /\ run[r].event \in Events
      BY DEF AInv, Typed, RunType, FactsGrow
    <3>2. version[run[r].event] \in 0..MaxVersion /\ version'[run[r].event] \in 0..MaxVersion
      BY <1>2, <3>1 DEF AInv, Typed, TypeOK
    <3> QED
      BY <1>2, <3>1, <3>2, AIConstants DEF AInv, FactsGrow
  <2> QED
    BY <1>1, <2>1 DEF AInv, FactsGrow, Admitted
<1> QED
  BY <1>1, <1>3, <1>4 DEF AInv, InOrder, LiveOverlap, RowFirst, RowsKept, ArtifactsTraced,
     DoneStored, StoredBy, Admitted, Live, Together, Row

-----------------------------------------------------------------------------
LEMMA AINext == AInv /\ [Next]_vars => AInv'
<1> SUFFICES ASSUME AInv, [Next]_vars PROVE AInv'
  OBVIOUS
<1>1. CASE Next
  BY <1>1, StartKeeps, AnswerKeeps, FinishKeeps, LookEndKeeps, StoreKeeps, ChangeKeeps
     DEF Next, Step
<1>2. CASE UNCHANGED vars
  BY <1>2 DEF vars, AInv, Typed, TypeOK, InOrder, LiveOverlap, FactsGrow, RowFirst, RowsKept,
     ArtifactsTraced, DoneStored, StoredBy, Admitted, Live, Together, Row
<1> QED
  BY <1>1, <1>2

\* The inductive invariant holds in every state of the service.
THEOREM AIServicesCorrect == Spec => []AInv
BY AIInit, AINext, PTL DEF Spec

\* What the service keeps has its type: rows and artifacts are of events there are
\* and tasks there are, and a live run has a task at hand.
THEOREM AITypeCorrect == Spec => []TypeOK
<1>1. AInv => TypeOK
  BY DEF AInv, Typed
<1> QED
  BY <1>1, AIServicesCorrect, PTL

\* upsert_ai_interpretation and finish_ai_request of kela_ai: every insight can be traced to
\* the committed row of a call that answered, and newer facts give way to older ones only
\* between requests under way together, for any number of overlapping requests.
THEOREM AIInsightsHold == Spec => []InsightsHold
<1>1. AInv => InsightsTraced
  BY DEF AInv, ArtifactsTraced, RowsKept, InsightsTraced
<1>2. AInv => LatestUnlessTogether
  <2> SUFFICES ASSUME AInv PROVE LatestUnlessTogether
    OBVIOUS
  <2>1. \A p, q \in DOMAIN artifacts :
           artifacts[p].request.run > artifacts[q].request.run /\ p[1] = q[1]
              => artifacts[p].facts >= artifacts[q].facts
    <3> SUFFICES ASSUME NEW p \in DOMAIN artifacts, NEW q \in DOMAIN artifacts, p[1] = q[1],
                        artifacts[p].request.run > artifacts[q].request.run
                 PROVE  artifacts[p].facts >= artifacts[q].facts
      OBVIOUS
    <3> DEFINE bp == artifacts[p].request
               bq == artifacts[q].request
    <3>1. /\ bp \in audit /\ bq \in audit /\ bp.event = p[1] /\ bq.event = q[1]
          /\ artifacts[p].facts = run[bp.run].facts /\ artifacts[q].facts = run[bq.run].facts
      BY DEF AInv, ArtifactsTraced
    <3>2. /\ bp.run \in Runs /\ bq.run \in Runs /\ bp.run \in Nat /\ bq.run \in Nat
          /\ run[bp.run].facts \in Nat /\ run[bq.run].facts \in Nat
      BY <3>1, AIConstants DEF AInv, Typed, RowType, RunType, Runs
    <3>3. /\ Admitted(bp.run) /\ Admitted(bq.run) /\ run[bq.run].event = run[bp.run].event
      BY <3>1 DEF AInv, RowsKept
    <3>4. bq.run < bp.run
      BY <3>2
    <3> QED
      BY <3>1, <3>2, <3>3, <3>4 DEF AInv, FactsGrow
  <2> QED
    BY <2>1 DEF AInv, DoneStored, StoredBy, LatestUnlessTogether
<1> QED
  BY <1>1, <1>2, AIServicesCorrect, PTL DEF InsightsHold
=============================================================================
