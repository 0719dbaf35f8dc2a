--------------------------------- MODULE Inbox ---------------------------------
(***************************************************************************)
(* What the bot promises to the people who write to it (poll_loop of       *)
(* telegram.py): messages are taken up in the order in which they were     *)
(* sent, each once, and every one of them is brought to an end.  Only a    *)
(* crash loses a message that was taken up, or has one taken up again.     *)
(***************************************************************************)
EXTENDS Naturals

CONSTANT NumUpdates

VARIABLE box   \* each message: unsent, waiting, open, closed or lost

Updates == 1..NumUpdates

Init == box = [u \in Updates |-> "unsent"]

Send(u) ==
    /\ box[u] = "unsent" /\ \A v \in 1..(u - 1) : box[v] # "unsent"
    /\ box' = [box EXCEPT ![u] = "waiting"]

\* All that wait are taken up; what nobody may see or answer is closed at once.
TakeUp ==
    /\ \E u \in Updates : box[u] = "waiting"
    /\ box' \in [Updates -> {"unsent", "open", "closed", "lost"}]
    /\ \A u \in Updates : IF box[u] = "waiting" THEN box'[u] \in {"open", "closed"}
                          ELSE box'[u] = box[u]

Close(u) == box[u] = "open" /\ box' = [box EXCEPT ![u] = "closed"]

Crash ==
    /\ box' \in [Updates -> {"unsent", "waiting", "closed", "lost"}]
    /\ \A u \in Updates :
          CASE box[u] = "open" -> box'[u] \in {"waiting", "lost"}
            [] box[u] = "closed" -> box'[u] \in {"waiting", "closed"}
            [] OTHER -> box'[u] = box[u]
    \* What was taken up last comes again, and nothing older without it.
    /\ \A u, v \in Updates : u < v /\ box'[u] = "waiting" => box'[v] \in {"waiting", "unsent"}

Next == TakeUp \/ Crash \/ \E u \in Updates : Send(u) \/ Close(u)

Spec == Init /\ [][Next]_box /\ WF_box(TakeUp) /\ \A u \in Updates : WF_box(Close(u))

=============================================================================
