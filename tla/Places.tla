-------------------------------- MODULE Places --------------------------------
(***************************************************************************)
(* The search for an area of the weather service by name (LocationIndex in *)
(* collectors/weather/locations.py).  A code is a sequence of numbers, one *)
(* for each level: province, regency or city, district, village; a name is *)
(* a sequence of words, of which a leading "kota" (city) or another prefix *)
(* does not count.  A query is a sequence of words, too, or a code.        *)
(***************************************************************************)
EXTENDS Integers, Sequences, FiniteSets, SequencesExt

CONSTANT
    Levels   \* 4

ASSUME PlacesConstants == Levels \in Nat \ {0}

\* An index maps the codes of the file to names.
Titles == {"kota", "desa"}
Normal(name) == IF Len(name) > 1 /\ name[1] \in Titles THEN Tail(name) ELSE name

\* load: the names on the way from the province down, as far as there are rows
OnTheWay(index, code) == {n \in 1..Len(code) : SubSeq(code, 1, n) \in DOMAIN index}
Label(index, code) == {index[SubSeq(code, 1, n)] : n \in OnTheWay(index, code)}

Children(index, code) == {c \in DOMAIN index : Len(c) = Len(code) + 1 /\ IsPrefix(code, c)}
FirstChild(index, code) ==
    CHOOSE c \in Children(index, code) : \A d \in Children(index, code) : c[Len(c)] <= d[Len(d)]

NoVillage == <<>>
IsVillage(code) == Len(code) = Levels

\* first_village goes down to the first child, and never up again.
RECURSIVE FirstVillage(_, _)
FirstVillage(index, code) ==
    IF Children(index, code) # {} THEN FirstVillage(index, FirstChild(index, code))
    ELSE IF IsVillage(code) THEN code ELSE NoVillage

-----------------------------------------------------------------------------
(* search: the score of an area is the sum of what speaks for it.  Words   *)
(* are compared as wholes.                                                 *)

\* the words stand in the name, one after the other
StandsIn(words, name) == \E i, j \in DOMAIN name : SubSeq(name, i, j) = words

Exact(index, code, query) == Normal(index[code]) = Normal(query)
Whole(index, code, query) == \E name \in Label(index, code) : StandsIn(Normal(query), Normal(name))
Matched(index, code, query) ==
    Cardinality({w \in ToSet(Normal(query)) :
                     \E name \in Label(index, code) : w \in ToSet(Normal(name))})
\* the name stands in that of an area above; a city is on the way, below the province
Doubled(index, code) ==
    \E n \in OnTheWay(index, code) \ {Len(code)} : StandsIn(index[code], index[SubSeq(code, 1, n)])
InCity(index, code) ==
    \E m, n \in OnTheWay(index, code) : m < n /\ index[SubSeq(code, 1, n)][1] = "kota"

Points(yes, n) == IF yes THEN n ELSE 0
Weight(index, code, query) ==
    Points(Exact(index, code, query), 100) + Points(Whole(index, code, query), 50)
    + 10 * Matched(index, code, query)
    + Points(Doubled(index, code), 20) + Points(InCity(index, code), 25)

\* Of equal weight the shorter code, then the first of the file.
Before(c, d) == \E i \in DOMAIN c : c[i] < d[i] /\ SubSeq(c, 1, i - 1) = SubSeq(d, 1, i - 1)
Better(index, c, d, query) ==
    LET l == Weight(index, c, query)
        r == Weight(index, d, query) IN
    l > r \/ (l = r /\ (Len(c) < Len(d) \/ (Len(c) = Len(d) /\ Before(c, d))))

PlaceHits(index, query) == {c \in DOMAIN index : Matched(index, c, query) > 0}

\* match, for a name; and for the code of a village, which is looked up
NoArea == [code |-> <<>>, village |-> <<>>]
Entry(index, code) == [code |-> code, village |-> FirstVillage(index, code)]
Match(index, query) ==
    IF PlaceHits(index, query) = {} THEN NoArea
    ELSE Entry(index, CHOOSE c \in PlaceHits(index, query) :
                          \A d \in PlaceHits(index, query) \ {c} : Better(index, c, d, query))
MatchCode(index, code) == IF IsVillage(code) /\ code \in DOMAIN index THEN Entry(index, code) ELSE NoArea

-----------------------------------------------------------------------------
\* An area that has the very name is never lost to one that has not; of those that
\* have it, none in a city is lost to a higher one that is in none; the village
\* whose forecast is fetched lies in the area; and there is one, unless an area on
\* the way down has no rows below it.
PlacesHold(index, query) ==
    LET area == Match(index, query)
        Named(c) == Normal(index[c]) = Normal(query) IN
    /\ (\E c \in DOMAIN index : Named(c)) =>
          /\ area # NoArea /\ Named(area.code)
          /\ (\E c \in DOMAIN index : Named(c) /\ InCity(index, c)) =>
                InCity(index, area.code) \/ Doubled(index, area.code)
    /\ area.village # NoVillage => IsPrefix(area.code, area.village) /\ Len(area.village) = Levels
    /\ area # NoArea /\ area.village = NoVillage =>
          \E c \in DOMAIN index : Len(c) < Levels /\ Children(index, c) = {}
    /\ \A c \in DOMAIN index : Len(c) = Levels => MatchCode(index, c).village = c

=============================================================================
