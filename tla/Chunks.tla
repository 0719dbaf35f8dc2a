-------------------------------- MODULE Chunks --------------------------------
(***************************************************************************)
(* How an answer of the AI is cut into messages (formatter.chunk_html) and *)
(* whether Telegram takes them: a message of more than Cap characters, or  *)
(* whose <pre> tags do not match, is refused, which send_message only logs.*)
(*                                                                         *)
(* A line is [id, size, tags]: its characters without the tags, and the    *)
(* tags "open" and "close" of its <pre> blocks, in order.                  *)
(***************************************************************************)
EXTENDS Naturals, Sequences, SequencesExt

CONSTANTS
    MaxChars,  \* max_chars of chunk_html
    Cap        \* what Telegram takes

OpenSize == 5
CloseSize == 6
ASSUME ChunksConstants == {MaxChars, Cap} \subseteq Nat /\ MaxChars + OpenSize + CloseSize <= Cap

TagSize(t) == IF t = "open" THEN OpenSize ELSE CloseSize
LineSize(line) == FoldLeft(LAMBDA n, t : n + TagSize(t), line.size, line.tags)
\* joined with a newline each
Size(lines) == FoldLeft(LAMBDA n, l : n + LineSize(l) + 1, 0, lines) - (IF lines = <<>> THEN 0 ELSE 1)

Tagged(line, tag) == Contains(line.tags, tag)
Closed(lines) ==
    [lines EXCEPT ![Len(lines)].tags = Append(@, "close")]
Reopened(line) == [line EXCEPT !.tags = <<"open">> \o @]

\* Where the loop stands: the chunks that are done, the lines of the next one,
\* and in_pre.
Start == [done |-> <<>>, cur |-> <<>>, pre |-> FALSE]

\* A slip of InPre: only a line that opens changes it.
InPreForGood(pre, line) == pre \/ Tagged(line, "open")

\* in_pre after a line.  A line that opens and closes a block sets it; one that
\* closes a block and opens one, too, as one that was just reopened, leaves it.
InPre(pre, line) ==
    IF ~pre THEN Tagged(line, "open") ELSE ~(Tagged(line, "close") /\ ~Tagged(line, "open"))

Put(s, orig) ==
    LET split == s.cur # <<>> /\ Size(Append(s.cur, orig)) > MaxChars
        line  == IF split /\ s.pre THEN Reopened(orig) ELSE orig
        chunk == IF s.pre THEN Closed(s.cur) ELSE s.cur IN
    [done |-> IF split THEN Append(s.done, chunk) ELSE s.done,
     cur  |-> IF split THEN <<line>> ELSE Append(s.cur, line),
     pre  |-> InPre(s.pre, line)]

EndsClosed(lines) == LET tags == lines[Len(lines)].tags IN tags # <<>> /\ tags[Len(tags)] = "close"

\* chunk_html
ChunkHtml(lines) ==
    LET s == FoldLeft(Put, Start, lines)
        last == IF s.pre /\ ~EndsClosed(s.cur) THEN Closed(s.cur) ELSE s.cur
    IN  IF s.cur = <<>> THEN s.done ELSE Append(s.done, last)

-----------------------------------------------------------------------------
Tags(lines) == FlattenSeq([i \in DOMAIN lines |-> lines[i].tags])
\* Blocks do not nest: the tags are an "open" and a "close" in turn.
Balanced(lines) ==
    LET tags == Tags(lines) IN
    Len(tags) % 2 = 0 /\ \A i \in DOMAIN tags : tags[i] = (IF i % 2 = 1 THEN "open" ELSE "close")

Taken(chunk) == Balanced(chunk) /\ Size(chunk) <= Cap

\* The code block of an answer begins and ends on one line, or a message would
\* begin at the line that ends a block: then the tags go wrong.
OneLiner(line) == Tagged(line, "open") /\ Tagged(line, "close")
Awkward(lines) ==
    \/ \E i \in DOMAIN lines : OneLiner(lines[i])
    \/ \E c \in ToSet(ChunkHtml(lines)) : OneLiner(c[1])

\* Of an answer with matching tags every line is in one message, in order; and all
\* messages are taken, but for a line that is too long by itself and for the two
\* awkward cases.
ChunksHold(lines) ==
    LET chunks == ChunkHtml(lines)
        LineIds(ls) == [i \in DOMAIN ls |-> ls[i].id] IN
    Balanced(lines) =>
        /\ LineIds(FlattenSeq(chunks)) = LineIds(lines)
        /\ \A c \in ToSet(chunks) : Size(c) > MaxChars + OpenSize + CloseSize => Len(c) = 1
        /\ \A c \in ToSet(chunks) : Taken(c) \/ Awkward(lines) \/ (Balanced(c) /\ Len(c) = 1)

=============================================================================
