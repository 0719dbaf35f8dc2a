-------------------------------- MODULE Routing --------------------------------
(***************************************************************************)
(* Who answers a text of the chat: telegram._reply_ai tries one detector   *)
(* after the other, and the first that finds what it looks for takes the   *)
(* text.  A text is what the detectors look for:                           *)
(*    marks    the regular expressions that match, by name                 *)
(*    kind     the tool that _KIND_RE finds, or "none"                     *)
(*    words    its letters and digits but for the tool's, in order: what   *)
(*             stands between other characters, and each as the pieces     *)
(*             that it is made of ("sw-univ" is <<"sw">>, <<"univ">> and   *)
(*             "swuniv" is <<"sw", "univ">>); an address, a domain, a URL  *)
(*             or a number is a piece, the last of its word                *)
(*    count    how many words it has between spaces, the tool's included   *)
(***************************************************************************)
EXTENDS Naturals, FiniteSets, Sequences, SequencesExt

CONSTANTS
    Monitors   \* the enabled targets by name, in the order of the query, without
               \* names shorter than three characters: a sequence of [name: words,
               \* one at least, target: an address, "domain" or "url"]

\* The words of each tool in a text: "cek rute" and "ip a" are two, and only a bare
\* "rute" or "route" asks whether the text is about configuring one.
ToolWords == [ping |-> 1, trace |-> 1, cekrute |-> 2, route |-> 1, asn |-> 1,
              ipinfo |-> 1, ipa |-> 2, none |-> 0]
Kinds == DOMAIN ToolWords
Info == {"ipinfo", "ipa"}
Addresses == {"public", "private", "loopback",
              "special"}   \* multicast or unspecified; link-local ones are as private
Marks == {
    "slash",     \* begins with "/"
    "long",      \* more than 160 characters
    "command",   \* begins with ping or traceroute, or is ifconfig, "ip a" or alike
    "edit",      \* "ubah monitor <target> jadi nama/interval/timeout ..."
    "config",    \* _CONFIG_RE: about configuring a route
    "interpret", \* _DIAG_INTERPRET_RE: explain it
    "list",      \* _MONITOR_LIST_RE
    "host",      \* detect_hostcmd_request finds a command for the host
    "cancel",    \* _MONITOR_CANCEL
    "intent",    \* _MONITOR_INTENT
    "monitor",   \* _WHOIS_MONITOR_WORD_RE
    "store",     \* begins with "ingat", "catat", ... and goes on
    "scrape",    \* a URL and a word for reading it
    "whois",     \* the word, or nothing but the target
    "tool",      \* _WHOIS_DIAG_WORD_RE
    "look",      \* "cek", "ip", "domain"
    "question",  \* _WHOIS_QUESTION_RE
    "cron",      \* _handle_cron_request takes it
    "sysinfo",   \* detect_sysinfo_request
    "outage"}    \* of the database, which makes a list of no monitors
MaxTokens == 6   \* _WHOIS_MAX_TOKENS

Has(text, mark) == mark \in text.marks
Finds(text, piece) == \E i \in DOMAIN text.words : Last(text.words[i]) = piece

\* extract_ip, extract_domain
Ip(text) ==
    LET ips == SelectSeq(text.words, LAMBDA w : Last(w) \in Addresses)
    IN  IF ips = <<>> THEN "none" ELSE Last(ips[1])
Domain(text) == IF Finds(text, "domain") \/ Finds(text, "url") THEN "domain" ELSE "none"

\* _extract_target and is_monitor_target: an address before a domain, and no URL
MonitorTarget(text) ==
    IF Ip(text) = "none" THEN Finds(text, "domain") ELSE Ip(text) \in {"public", "private"}

\* _traceroute_target_ok
Reachable == (Addresses \ {"loopback"}) \cup {"domain"}

\* parse_server_request of the whole text: a tool and its target, nothing else
Shell(text) ==
    /\ Has(text, "command")
    /\ text.kind \in {"ping", "trace"} =>
          /\ text.count = 2
          /\ Ip(text) \in Reachable \/ Finds(text, "domain")

\* _target_valid
Valid(kind, target) == target \in (IF kind = "asn" THEN Addresses \cup {"number"} ELSE Reachable)

\* What both detectors of a diagnosis pass over
Ignored(text) == Has(text, "long") \/ (text.kind = "route" /\ Has(text, "config"))

\* netdiag._extract_target
Named(text) ==
    IF Ip(text) \notin {"none", "loopback"} THEN Ip(text)
    ELSE IF Domain(text) # "none" THEN Domain(text)
    ELSE IF text.kind = "asn" /\ Finds(text, "number") THEN "number" ELSE "none"

\* detect_diag_request: what the tool is run on; an AS number by itself is for asn
DiagTarget(text) ==
    IF Ignored(text) THEN "none"
    ELSE IF text.kind = "none" THEN
             IF FlattenSeq(text.words) = <<"as", "number">> THEN "number" ELSE "none"
    ELSE IF text.kind \in Info THEN "host"
    ELSE IF Valid(text.kind, Named(text)) THEN Named(text) ELSE "none"

\* _name_tokens, with the stopwords and synonyms of the instances
Stopwords == {<<"ke">>}
Synonym(w) == CASE w = <<"switch">> -> <<"sw">> [] w = <<"router">> -> <<"ro">> [] OTHER -> w
NameTokens(words) == {Synonym(w) : w \in ToSet(words) \ Stopwords}

Shared(text, i) == NameTokens(text.words) \cap NameTokens(Monitors[i].name)

\* raw_norm in masked_norm: the name as it is written, spaces and signs aside
Stands(text, i) == FlattenSeq(Monitors[i].name) \in SubSeqs(FlattenSeq(text.words))

\* detect_mention_diag: the monitor of the highest score, of equals the first, if
\* the tool can be run on it
MentionScore(text, i) == Cardinality(Shared(text, i)) + (IF Stands(text, i) THEN 50 ELSE 0)
Best(text) ==
    {i \in DOMAIN Monitors :
        /\ MentionScore(text, i) > 0
        /\ \A j \in DOMAIN Monitors :
              /\ MentionScore(text, j) <= MentionScore(text, i)
              /\ j < i => MentionScore(text, j) < MentionScore(text, i)}
Mention(text) ==
    IF text.kind \in Info \cup {"none"} \/ Ignored(text) \/ Has(text, "outage") THEN {}
    ELSE {i \in Best(text) : Valid(text.kind, Monitors[i].target)}

\* A text is run on a named monitor only if the first detector has found nothing.
DiagOf(text) ==
    IF DiagTarget(text) # "none" THEN {DiagTarget(text)}
    ELSE {Monitors[i].target : i \in Mention(text)}

\* _detect_whois_request
Whois(text) ==
    /\ Ip(text) = "public" \/ Domain(text) # "none"
    /\ \/ Has(text, "whois")
       \/ /\ ~Has(text, "monitor") /\ ~Has(text, "tool")
          /\ text.count <= MaxTokens /\ ~Has(text, "question") /\ Has(text, "look")

\* resolve_monitor_name_prompt while a name is asked for; other texts go on.
PromptAnswers == {"decline", "yes", "name"}
Prompted(answer, asked) == asked /\ answer \in PromptAnswers

\* The detectors from the first to the interpretation of a diagnosis, which goes
\* on with what the tool has found: if no detector takes it, to the AI.
Early(text) ==
    IF Has(text, "edit") /\ MonitorTarget(text) THEN "edit"
    ELSE IF Shell(text) THEN "shell"
    ELSE IF DiagOf(text) # {} /\ ~Has(text, "interpret") THEN "diag"
    ELSE IF Has(text, "list") THEN "list"
    ELSE IF Has(text, "host") THEN "host"
    ELSE "none"

\* The detectors after it, down to the AI
Late(text) ==
    IF Has(text, "cancel") /\ MonitorTarget(text) THEN "stop"
    ELSE IF ~Has(text, "cancel") /\ Has(text, "intent") /\ MonitorTarget(text) THEN "start"
    ELSE IF Has(text, "store") THEN "remember"
    ELSE IF Has(text, "scrape") THEN "scrape"
    ELSE IF Whois(text) THEN "whois"
    ELSE IF Has(text, "cron") THEN "cron"
    ELSE IF Has(text, "sysinfo") THEN "sysinfo"
    ELSE "ai"

\* _dispatch_text and _reply_ai
Route(text, answer, asked) ==
    IF Has(text, "slash") THEN "command"
    ELSE IF Prompted(answer, asked) THEN answer
    ELSE IF Early(text) # "none" THEN Early(text)
    ELSE Late(text)

-----------------------------------------------------------------------------
\* Texts that exist: an edit and a command have the words they are known by, a text
\* of a target only is a WHOIS, who reads a page names it, and the words of a tool
\* are words.
Possible(text) ==
    /\ text.count <= Len(text.words) + ToolWords[text.kind]
    /\ text.count >= ToolWords[text.kind] + (IF text.words = <<>> THEN 0 ELSE 1)
    /\ Has(text, "edit") => {"intent", "monitor"} \subseteq text.marks
    /\ Has(text, "command") => text.kind \in {"ping", "trace", "ipinfo", "ipa"}
    /\ text.count = 1 /\ (Ip(text) = "public" \/ Finds(text, "domain")) =>
          Has(text, "whois") /\ text.kind = "none"
    /\ Has(text, "scrape") => Finds(text, "url")
    /\ text.kind \in {"trace", "cekrute", "route", "asn", "ipinfo"} => Has(text, "tool")

\* A monitor is named in full by words if the text has each of them, in any order
\* and with synonyms.
InWords(text, j) == NameTokens(Monitors[j].name) \subseteq NameTokens(text.words)

\* A tool that sends packets is run on no loopback address, be it asked for or
\* monitored.  A monitor that a tool is run on is named in the text, by one of its
\* words at least; one whose name stands there as it is written is preferred to all
\* others; and one whose words are all there gives way only to such a one or to one
\* that has as many words there (detect_mention_diag).
DiagHolds(text) ==
    /\ text.kind # "asn" => "loopback" \notin DiagOf(text)
    /\ \A i \in Mention(text) :
          /\ Stands(text, i) \/ Shared(text, i) # {}
          /\ \A j \in DOMAIN Monitors :
                /\ Stands(text, j) => Stands(text, i)
                /\ InWords(text, j) =>
                      \/ Stands(text, i) /\ ~Stands(text, j)
                      \/ Cardinality(Shared(text, i)) >= Cardinality(NameTokens(Monitors[j].name))

\* A text that says to stop starts nothing; nothing is asked of the monitor about a
\* loopback address, and no command is run on one; a WHOIS is of something public,
\* and who speaks of monitoring gets it only on asking for one; and a diagnosis is
\* of what the text names.
RouteHolds(text, answer, asked) ==
    LET to == Route(text, answer, asked) IN
    /\ to = "start" => ~Has(text, "cancel")
    /\ to \in {"start", "stop", "edit"} => Ip(text) # "loopback"
    /\ to = "shell" /\ Ip(text) = "loopback" => text.kind \in Info \/ Finds(text, "domain")
    /\ to = "whois" => /\ Ip(text) = "public" \/ Finds(text, "domain") \/ Finds(text, "url")
                       /\ Has(text, "monitor") => Has(text, "whois")
    /\ DiagHolds(text)

=============================================================================
