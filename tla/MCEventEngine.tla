--------------------------- MODULE MCEventEngine ---------------------------
(* Small instances of EventEngine for TLC.                                  *)
EXTENDS EventEngine

\* Two copies of one text; three texts similar to it but not to each other,
\* two of them from one site.  Three sites may agree in their dates or not.
Item(text, domain, date) == [text |-> text, domain |-> domain, date |-> date]
MCFacts == [older |-> Item("quake", "antara", 0),
            newer |-> Item("quake", "kompas", NoDate),
            relief |-> Item("relief", "cnn", 0),
            tsunami |-> Item("tsunami", "detik", 1),
            follow |-> Item("follow", "detik", NoDate)]
MCItems == DOMAIN MCFacts

Ranked(s, t, score) == {<<<<s, t>>, score>>, <<<<t, s>>, score>>}
MCRanks == Ranked("quake", "relief", 2) \cup Ranked("quake", "tsunami", 1)
              \cup Ranked("quake", "follow", 1)
MCScore == [pair \in Texts \X Texts |->
              IF pair[1] = pair[2] THEN 3
              ELSE IF \E r \in MCRanks : r[1] = pair
                   THEN (CHOOSE r \in MCRanks : r[1] = pair)[2] ELSE 0]
=============================================================================
