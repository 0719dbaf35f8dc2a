------------------------------ MODULE Documents ------------------------------
(***************************************************************************)
(* The document endpoints of the HTTP API (main.py): a document is a file  *)
(* on disk and a row of the table `documents`, written one after the other *)
(* by requests that overlap at their awaits.                               *)
(*                                                                         *)
(* Each upload gets a file name of its own (uuid4), so a document stands   *)
(* for both its file and its row.  A text is "some" or "none": only        *)
(* processing_status depends on it.  `promised`, `asked`, `cut`, `stuck`   *)
(* and `undone` are histories, read by the properties only.                *)
(***************************************************************************)
EXTENDS Naturals, FiniteSets

CONSTANTS
    Docs,         \* documents that may be uploaded
    Requests,     \* slots for overlapping HTTP requests
    NoDoc,        \* a slot that works on no document
    MaxTroubles   \* bound on failures of the disk or database, and crashes

ASSUME DocumentsConstants == NoDoc \notin Docs /\ MaxTroubles \in Nat

VARIABLES
    disk,      \* documents whose file exists
    rows,      \* the committed rows
    req,       \* what each request is doing
    reply,     \* the last HTTP answer of each slot
    promised, asked, cut, stuck, undone,
    troubles

vars == <<disk, rows, req, reply, promised, asked, cut, stuck, undone, troubles>>
histories == <<promised, asked, cut, stuck, undone>>

-----------------------------------------------------------------------------
\* _EXT_MAP: the file types with a reader; any other extension is "other".
Readable == {"pdf", "docx", "txt", "markdown"}
Kinds == Readable \cup {"image"}
Row == [kind : Kinds, status : {"processed", "pending"}]
Idle == [pc |-> "idle", doc |-> NoDoc]
NoReply == [op |-> "none", code |-> 0, doc |-> NoDoc]
Codes == {0, 200, 400, 404, 413, 415, 422, 500}

Init ==
    /\ disk = {} /\ rows = << >>
    /\ req = [r \in Requests |-> Idle]
    /\ reply = [r \in Requests |-> NoReply]
    /\ promised = {} /\ asked = {} /\ cut = {} /\ stuck = {} /\ undone = {}
    /\ troubles = 0

Fresh(d) == d \notin disk \cup DOMAIN rows \cup promised \cup asked \cup cut
Trouble == troubles < MaxTroubles /\ troubles' = troubles + 1
Answer(r, op, d, code) == reply' = [reply EXCEPT ![r] = [op |-> op, code |-> code, doc |-> d]]
Finish(r, op, d, code) == Answer(r, op, d, code) /\ req' = [req EXCEPT ![r] = Idle]

-----------------------------------------------------------------------------
(* Uploads.  Reading, writing the file and parsing it is one step: the     *)
(* code has no await between them.                                         *)

\* A slip of Refusal: the type is not looked at.
RefusalUntyped(kind, size, declared) ==
    CASE size = "large" /\ declared -> 413
      [] size = "empty" -> 400
      [] OTHER -> 0

\* 413, 415 and 400 are answered before anything is written.  The size is
\* checked only when the client declared one.
Refusal(kind, size, declared) ==
    CASE size = "large" /\ declared -> 413
      [] kind \notin Readable -> 415
      [] size = "empty" -> 400
      [] OTHER -> 0

\* process a document further: the file exists, the row is to be stored.
Accept(r, d, kind, text, event) ==
    /\ disk' = disk \cup {d}
    /\ req' = [req EXCEPT ![r] =
                  [pc |-> "store", doc |-> d, kind |-> kind, text |-> text, event |-> event]]
    /\ UNCHANGED <<rows, reply, histories, troubles>>

Upload(r, d) ==
    /\ req[r].pc = "idle" /\ Fresh(d)
    /\ \E kind \in Readable \cup {"other"}, size \in {"empty", "fits", "large"}, declared \in BOOLEAN,
          text \in {"some", "none"}, event \in {"none", "known", "missing"} :
          IF Refusal(kind, size, declared) # 0
          THEN /\ Answer(r, "upload", NoDoc, Refusal(kind, size, declared))
               /\ UNCHANGED <<disk, rows, req, histories, troubles>>
          ELSE Accept(r, d, kind, text, event)

\* parse_document raises: 422, and the file stays behind.  Plain text is read
\* with errors="replace" and cannot fail.
UploadUnparsable(r, d) ==
    /\ req[r].pc = "idle" /\ Fresh(d)
    /\ disk' = disk \cup {d} /\ cut' = cut \cup {d}
    /\ Answer(r, "upload", NoDoc, 422)
    /\ UNCHANGED <<rows, req, promised, asked, stuck, undone, troubles>>

\* ocr_image: without tesseract, and for an unreadable image, the text is empty.
OcrTexts == {"some", "none"}

\* analyze_image: the gateway's client is not set before its first completion,
\* so the branch of the vision model is never taken and the text comes from OCR.
AnalyzedTexts == OcrTexts

\* Both image endpoints write the file, read its text and store a row.
VisionAnalyze(r, d) ==
    /\ req[r].pc = "idle" /\ Fresh(d)
    /\ \E text \in AnalyzedTexts : Accept(r, d, "image", text, "none")

VisionOcr(r, d) ==
    /\ req[r].pc = "idle" /\ Fresh(d)
    /\ \E text \in OcrTexts : Accept(r, d, "image", text, "none")

ImageEmpty(r) ==
    /\ req[r].pc = "idle"
    /\ Answer(r, "upload", NoDoc, 400)
    /\ UNCHANGED <<disk, rows, req, histories, troubles>>

\* store_document: the flush and the commit that follows it.
Status(text) == IF text = "some" THEN "processed" ELSE "pending"
NewRow(q) == [kind |-> q.kind, status |-> Status(q.text)]
With(d, row) == [x \in DOMAIN rows \cup {d} |-> IF x = d THEN row ELSE rows[x]]

Store(r) ==
    LET q == req[r] IN
    /\ q.pc = "store" /\ q.event # "missing"
    /\ rows' = With(q.doc, NewRow(q))
    /\ promised' = promised \cup {q.doc}
    /\ Finish(r, "upload", q.doc, 200)
    /\ UNCHANGED <<disk, asked, cut, stuck, undone, troubles>>

\* A slip of StoreFails: the failure is logged and the upload is answered as done.
StoreFailsQuietly(r) ==
    LET q == req[r] IN
    /\ q.pc = "store"
    /\ IF q.event = "missing" THEN UNCHANGED troubles ELSE Trouble
    /\ promised' = promised \cup {q.doc}
    /\ Finish(r, "upload", q.doc, 200)
    /\ UNCHANGED <<disk, rows, asked, cut, stuck, undone>>

\* An event_id that names no event breaks the foreign key; a failing database
\* ends the same way.  Nothing removes the file.
StoreFails(r) ==
    LET q == req[r] IN
    /\ q.pc = "store"
    /\ IF q.event = "missing" THEN UNCHANGED troubles ELSE Trouble
    /\ cut' = cut \cup {q.doc}
    /\ Finish(r, "upload", NoDoc, 500)
    /\ UNCHANGED <<disk, rows, promised, asked, stuck, undone>>

-----------------------------------------------------------------------------
(* Deletion: the row is loaded, the file unlinked, the deletion committed. *)

\* get_document, called by delete_document, too.
Found(d) == d \in DOMAIN rows

DeleteLoad(r, d) ==
    /\ req[r].pc = "idle"
    /\ IF Found(d)
       THEN /\ req' = [req EXCEPT ![r] = [pc |-> "unlink", doc |-> d]]
            /\ asked' = asked \cup {d}
            /\ UNCHANGED reply
       ELSE Finish(r, "delete", NoDoc, 404) /\ UNCHANGED asked
    /\ UNCHANGED <<disk, rows, promised, cut, stuck, undone, troubles>>

\* A slip of DeleteUnlink: the file is looked for under another name, and
\* missing_ok hides that it was not found.
DeleteUnlinkNothing(r) ==
    /\ req[r].pc = "unlink"
    /\ req' = [req EXCEPT ![r].pc = "commit"]
    /\ UNCHANGED <<disk, rows, reply, histories, troubles>>

\* unlink(missing_ok=True): a file that is gone already is no error.
DeleteUnlink(r) ==
    /\ req[r].pc = "unlink"
    /\ disk' = disk \ {req[r].doc}
    /\ req' = [req EXCEPT ![r].pc = "commit"]
    /\ UNCHANGED <<rows, reply, histories, troubles>>

\* An OSError is logged and the deletion goes on.
UnlinkFails(r) ==
    /\ req[r].pc = "unlink" /\ req[r].doc \in disk
    /\ Trouble
    /\ stuck' = stuck \cup {req[r].doc}
    /\ req' = [req EXCEPT ![r].pc = "commit"]
    /\ UNCHANGED <<disk, rows, reply, promised, asked, cut, undone>>

\* The DELETE of a row that another request removed meanwhile affects nothing
\* and is answered as a deletion, too.
DeleteCommit(r) ==
    /\ req[r].pc = "commit"
    /\ rows' = [x \in DOMAIN rows \ {req[r].doc} |-> rows[x]]
    /\ undone' = undone \ {req[r].doc}
    /\ Finish(r, "delete", req[r].doc, 200)
    /\ UNCHANGED <<disk, promised, asked, cut, stuck, troubles>>

DeleteFails(r) ==
    /\ req[r].pc = "commit"
    /\ Trouble
    /\ undone' = undone \cup {req[r].doc}
    /\ Finish(r, "delete", NoDoc, 500)
    /\ UNCHANGED <<disk, rows, promised, asked, cut, stuck>>

-----------------------------------------------------------------------------
Get(r, d) ==
    /\ req[r].pc = "idle"
    /\ Answer(r, "get", d, IF Found(d) THEN 200 ELSE 404)
    /\ UNCHANGED <<disk, rows, req, histories, troubles>>

\* The process dies: requests vanish, uncommitted rows with them, files do not.
Crash ==
    /\ Trouble
    /\ req' = [r \in Requests |-> Idle]
    /\ reply' = [r \in Requests |-> NoReply]
    /\ cut' = cut \cup {req[r].doc : r \in {s \in Requests : req[s].pc = "store"}}
    /\ undone' = undone \cup {req[r].doc : r \in {s \in Requests : req[s].pc = "commit"}}
    /\ UNCHANGED <<disk, rows, promised, asked, stuck>>

Next ==
    \/ Crash
    \/ \E r \in Requests :
        \/ ImageEmpty(r) \/ Store(r) \/ StoreFails(r)
        \/ DeleteUnlink(r) \/ UnlinkFails(r) \/ DeleteCommit(r) \/ DeleteFails(r)
        \/ \E d \in Docs :
            \/ Upload(r, d) \/ UploadUnparsable(r, d)
            \/ VisionAnalyze(r, d) \/ VisionOcr(r, d)
            \/ DeleteLoad(r, d) \/ Get(r, d)

Spec == Init /\ [][Next]_vars

-----------------------------------------------------------------------------
\* Types: among them, that no row has a type without a reader ("other" is turned
\* away at the door) and that every row belongs to an upload that was stored.
TypeOK ==
    /\ disk \subseteq Docs
    /\ DOMAIN rows \subseteq promised /\ \A d \in DOMAIN rows : rows[d] \in Row
    /\ \A r \in Requests :
          /\ req[r].pc \in {"idle", "store", "unlink", "commit"}
          /\ req[r].doc \in Docs \cup {NoDoc}
          /\ reply[r].code \in Codes /\ reply[r].doc \in Docs \cup {NoDoc}
    /\ promised \cup asked \cup cut \cup stuck \cup undone \subseteq Docs
    /\ troubles \in 0..MaxTroubles

\* What a client was told stays true while requests overlap, fail and crash: an
\* uploaded document has its row and its file until somebody asks to delete it,
\* and after the answer of a deletion the row is gone, the file too unless the
\* disk refused.
AnswersKept ==
    /\ promised \ asked \subseteq disk \cap DOMAIN rows
    /\ \A r \in Requests : reply[r].op = "delete" /\ reply[r].code = 200 =>
          /\ reply[r].doc \notin DOMAIN rows
          /\ reply[r].doc \notin disk \ stuck

\* A file without a row, and a row without a file, come only from where the two
\* writes can be torn apart: an upload under way or cut short, a file the disk
\* would not remove; a deletion under way or not committed.
StraysExplained ==
    /\ \A d \in disk \ DOMAIN rows :
          d \in cut \cup stuck \/ \E r \in Requests : req[r].pc = "store" /\ req[r].doc = d
    /\ \A d \in DOMAIN rows \ disk :
          d \in undone \/ \E r \in Requests : req[r].pc = "commit" /\ req[r].doc = d

=============================================================================
