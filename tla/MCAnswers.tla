------------------------------- MODULE MCAnswers -------------------------------
EXTENDS Answers

Flag(b, w) == IF b THEN <<w>> ELSE <<>>

\* "ingetin" (or an edit of job 1, or of 2, which there is not), a time as clock
\* or digits, days, and something to say or nothing
Sentence(m, i, c, d, ps, ds, w) ==
    [intent |-> m = "none", infra |-> FALSE, clock |-> c, digits |-> d, periods |-> ps,
     daily |-> "daily" \in ds, tomorrow |-> "tomorrow" \in ds,
     weekday |-> IF "monday" \in ds THEN 0 ELSE IF "thursday" \in ds THEN 3 ELSE NoDay,
     manage |-> m, id |-> i,
     words |-> Flag(m = "none", "intent") \o Flag(c # NoTime, "clock") \o Flag(d # NoTime, "digits")
               \o Flag(ds # {}, "filler") \o w]

MCSentences ==
    {Sentence(m, i, c, d, ps, ds, w) :
        m \in {"none", "edit", "cancel"}, i \in {1, 2},
        c \in {NoTime, <<8, 0>>, <<12, 30>>, <<17, 60>>, <<24, 0>>, <<23, 59>>},
        d \in {NoTime, <<7, 15>>, <<24, 0>>},
        ps \in {<<>>, <<"pagi">>, <<"tengah malam">>, <<"siang", "malam">>},
        ds \in {{}, {"daily"}, {"tomorrow"}, {"monday"}, {"thursday", "tomorrow"}, {"daily", "tomorrow"}},
        w \in {<<"word">>, <<"filler", "word">>}}
MCJobs == {[id |-> 1, job |-> [kind |-> "ok", next |-> 5000, repeat |-> "once", weekday |-> NoDay,
                               message |-> <<"word">>]]}
\* Monday 8.00, to the minute; Thursday 20.00; Sunday 23.59
MCMoments == {8 * 60, 3 * DayLength + 20 * 60, 7 * DayLength - 1}

\* What a text is marked with: two things at most, and an edit
MCMarks == {s \cup t : s \in {{}} \cup {{m} : m \in Marks}, t \in {{m} : m \in Marks}}
           \cup {{"edit", "intent", "monitor"} \cup t : t \in {{}} \cup {{m} : m \in Marks}} \cup {{}}
Word(s) == [i \in DOMAIN s |-> <<s[i]>>]
\* Nothing, each target, two of them, one of two pieces, names, and up to seven words
MCWords == {Word(s) : s \in {<<>>, <<"public">>, <<"private">>, <<"loopback">>, <<"special">>, <<"domain">>,
                             <<"url">>, <<"number">>, <<"as", "number">>, <<"loopback", "domain">>,
                             <<"domain", "public">>, <<"univ", "domain">>, <<"switch", "univ">>,
                             <<"ke", "univ", "bios", "x", "y", "z", "public">>}}
           \cup {<<<<"as", "number">>>>}
MCMarkedTexts == [marks : MCMarks, kind : Kinds, words : MCWords, count : {1, 2, 3, 8}]

\* Words that tell the monitors apart, in any order, after each kind of tool; two
\* names without their sign are one word
MCNames == {<<"router">>, <<"sw">>, <<"switch">>, <<"univ">>, <<"bios">>, <<"sw", "univ">>,
            <<"ping">>, <<"ke">>, <<"loopback">>, <<"domain">>}
MCNamingTexts == {[marks |-> {"tool"}, kind |-> k, words |-> w, count |-> Len(w) + 1] :
                     k \in {"ping", "asn"}, w \in UNION {[1..n -> MCNames] : n \in 1..3}}
                 \cup {[marks |-> {"tool", m}, kind |-> "route", words |-> <<w>>, count |-> 2] :
                          m \in {"config", "outage", "long"}, w \in MCNames}
MCTexts == MCMarkedTexts \cup MCNamingTexts

\* Names that share words, one with the word of a tool, and one of a loopback address
MCMonitors == <<[name |-> Word(<<"univ", "ping">>), target |-> "public"],
                [name |-> Word(<<"sw", "bios", "univ">>), target |-> "domain"],
                [name |-> Word(<<"sw", "univ">>), target |-> "private"],
                [name |-> Word(<<"ro", "univ">>), target |-> "public"],
                [name |-> Word(<<"bios">>), target |-> "loopback"]>>

\* Answers of up to five lines; a line of text, of a block, or of both its ends
LineTags == {<<>>, <<"open">>, <<"close">>, <<"open", "close">>}
MCReplies ==
    UNION {{[i \in 1..n |-> [id |-> i, size |-> z[i], tags |-> t[i]]] :
               z \in [1..n -> {4, 9}], t \in [1..n -> LineTags]} : n \in 1..4}
    \cup {[i \in 1..5 |-> [id |-> i, size |-> z[i], tags |-> IF i = o THEN <<"open">> ELSE
                            IF i = c THEN <<"close">> ELSE <<>>]] :
             z \in [1..5 -> {4, 9, 40}], o \in 1..4, c \in 2..5}

\* Rows with ids from 1 on, each of one of the given kinds
Rows3(kinds) == UNION {{{[id |-> i] @@ f[i] : i \in 1..n} : f \in [1..n -> kinds]} : n \in 0..3}
MCArticleSets == Rows3([published : {None, 2, 9}, scraped : {3, 10}, source : {"sport", "other"}, title : {"football"}])
MCQuakeSets == Rows3([at : {1, 5, 6, 9}, mag : {None, 4, 5}])
MCForecastSets == Rows3([place : {"a", "b"}, at : {2, 5, 7, 9}, wind : {None, 3}])
MCLinkSets == Rows3([relation : {"primary", "duplicate", "supporting"}, domain : {None, 1, 2}])
MCCheckSets == Rows3([target : {"t1", "t2", "gone"}, status : {"up", "timeout"}])
MCEventSets == Rows3([type : {"news", "earthquake"}, status : {"active", "closed"}, at : {1, 2},
                      have : {{}, {"summary", "explanation"}}])
MCMemorySets == Rows3([kind : {"note", "scrape"}, words : {{}, {"ro"}, {"ro", "sw"}}, age : {0, 30}])
MCQueries == {{}, {"ro"}, {"ro", "sw"}}

\* Two provinces, a city, districts and villages, of which any may lack; two names
\* are equal but for the title, and one stands in that of an area above
PlaceName == <<1>> :> <<"barat">> @@ <<2>> :> <<"depok">> @@ <<1, 1>> :> <<"kota", "depok">>
             @@ <<1, 2>> :> <<"bogor">> @@ <<1, 1, 1>> :> <<"depok">> @@ <<1, 1, 2>> :> <<"tapos">>
             @@ <<1, 2, 1>> :> <<"desa", "tapos">> @@ <<1, 1, 1, 1>> :> <<"depok", "baru">>
             @@ <<1, 1, 2, 1>> :> <<"tapos">> @@ <<1, 2, 1, 1>> :> <<"bogor">>
MCIndexes == {Restrict(PlaceName, d) : d \in SUBSET DOMAIN PlaceName}
MCPlaceNames == {<<"depok">>, <<"kota", "depok">>, <<"tapos">>, <<"bogor", "barat">>, <<"kota">>, <<>>}

\* Two rows of one instant, one before and one after them
MCStoredAt == <<1, 2, 2, 3>>

=============================================================================
