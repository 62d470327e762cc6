----------------------------- MODULE CanvasEditor -----------------------------
(***************************************************************************)
(* The visual editor: parse_canvas and save_canvas (app/routes/            *)
(* pdf_routes.py) with _parse_canvas_sync and _save_canvas_sync            *)
(* (engines/pdf_engine.py), run by the request threads of one web worker.  *)
(*                                                                         *)
(* The threads share _PAGE_UNICODE_FONT_CACHE, keyed by id(page).  A page  *)
(* object lives until the variable that holds it is assigned again, and a  *)
(* later one may get its address: an allocation is the choice of an        *)
(* address no live page object has.                                        *)
(*                                                                         *)
(* A change is abstracted to the page it names, whether its box can be     *)
(* read, whether it puts text, and its face; of its other values any may   *)
(* be one that float() or int() raises on.  Pages are numbered from 0.     *)
(***************************************************************************)
EXTENDS Integers, Sequences, FiniteSets

\* A page number that int() cannot read, and no page object.
CONSTANTS Unreadable, None

CONSTANTS
    Threads,    \* the request threads of the process
    Ids,        \* the addresses page objects can have
    Requests,   \* what the clients send
    MaxPages,   \* _CANVAS_MAX_PAGES
    MaxChanges, \* _CANVAS_MAX_CHANGES
    MaxCalls,   \* bound: the requests a thread serves
    MaxRefused  \* bound: the texts PyMuPDF refuses to draw for a thread's request

ASSUME IdsAssumption ==
    IsFiniteSet(Ids) /\ Cardinality(Threads) < Cardinality(Ids) /\ None \notin Ids

ASSUME BoundsAssumption == MaxPages \in Nat /\ MaxChanges \in Nat /\ MaxCalls \in Nat
                             /\ MaxRefused \in Nat

VARIABLES
    cache,   \* _PAGE_UNICODE_FONT_CACHE: the faces noted under each address
    pc,      \* where each thread stands
    calls,   \* how many requests it has taken
    request, \* the one it serves
    temp,    \* whether that request's copy of the PDF is in TEMP_FOLDER
    todo,    \* the pages of by_page that have not been visited; in the finally
             \* clause, those of the document that have not been forgotten
    page,    \* the variable page: the address of the object it holds
    pno,     \* the number of that page
    left,    \* the changes of the page that have not been inserted
    text,    \* what stands in the place of each change: "old", "gone" or "new"
    touched, \* the pages whose content has changed
    fonts,   \* the face embedded on each page under each alias
    refused, \* history: the changes whose text PyMuPDF itself refused to draw,
             \* in a font the page had
    victim,  \* an address whose entry is about to be popped
    answer,  \* the answer to the last request
    alone,   \* history: the save found an empty cache and no save beside it
    clean    \* history: its pages that got an address without an entry

upload == <<calls, request, temp>>
edit   == <<todo, page, pno, left, victim>>
output == <<text, touched, fonts, refused>>
past   == <<alone, clean>>
vars   == <<cache, pc, upload, edit, output, answer, past>>

-----------------------------------------------------------------------------
(* Values. *)

Faces == {"regular", "bold", "italic", "bolditalic"}

\* f"UNI_{face_key[:2]}"
Alias(face) == IF face = "bolditalic" THEN "bo" ELSE
               [regular |-> "re", bold |-> "bo", italic |-> "it"][face]

ASSUME RequestsAssumption ==
    \A r \in Requests :
        r.pages \in Nat /\ \A i \in DOMAIN r.changes : r.changes[i].face \in Faces

changes(t) == request[t].changes
Indices(t) == DOMAIN changes(t)
PagesOf(t) == 0 .. request[t].pages - 1

\* int(ch["page"]) raises for some changes; they are left out of by_page.
Usable(chs) == {i \in DOMAIN chs : chs[i].page # Unreadable}

\* The keys of by_page.
ByPage(chs) == {chs[i].page : i \in Usable(chs)}

\* The next of them: by_page keeps the order of the pages' first changes.
Upcoming(t) ==
    {p \in todo[t] : \E i \in Usable(changes(t)) :
        /\ changes(t)[i].page = p
        /\ \A j \in Usable(changes(t)) : changes(t)[j].page \in todo[t] => i <= j}

Live == {page[t] : t \in Threads} \ {None}

Saving == {"visit", "redact", "insert", "finally", "pop"}

\* A new page object does not lie where a live one does.
Fresh == Ids \ Live

-----------------------------------------------------------------------------
(* Plausible faults of this code; no behaviour of Spec uses them. *)

\* The page is let go of before the next one is loaded.
FreshReleasedFirst(t) == Ids \ {page[u] : u \in Threads \ {t}}

\* Only pno >= npages is skipped: doc[-1] is the last page.
NegativeWraps(t, p) == IF p < 0 THEN p >= -request[t].pages ELSE p \in PagesOf(t)

\* The upload is removed on the good path only.
RemovedAfterGoodSave(t, how) ==
    temp' = IF how = "pdf" THEN [temp EXCEPT ![t] = FALSE] ELSE temp

-----------------------------------------------------------------------------
(* The request: _canvas_take_upload and the checks of the two routes. *)

Go(t, where) == pc' = [pc EXCEPT ![t] = where]
Answer(t, how) == answer' = [answer EXCEPT ![t] = how]

\* finally: os.remove(path)
Removed(t, how) == temp' = [temp EXCEPT ![t] = FALSE]

TakeUpload(t, r) ==
    /\ pc[t] = "idle" /\ calls[t] < MaxCalls
    /\ calls' = [calls EXCEPT ![t] = @ + 1]
    /\ request' = [request EXCEPT ![t] = r]
    /\ temp' = [temp EXCEPT ![t] = TRUE]
    /\ text' = [text EXCEPT ![t] = [i \in DOMAIN r.changes |-> "old"]]
    /\ touched' = [touched EXCEPT ![t] = {}]
    /\ fonts' = [fonts EXCEPT ![t] = [p \in 0 .. r.pages - 1 |-> {}]]
    /\ refused' = [refused EXCEPT ![t] = {}]
    /\ answer' = [answer EXCEPT ![t] = "none"]
    /\ clean' = [clean EXCEPT ![t] = {}]
    /\ Go(t, "upload")
    /\ UNCHANGED <<cache, edit, alone>>

\* The copy cannot be written (a full disk): nothing removes what mkstemp made.
CopyFails(t) ==
    /\ pc[t] = "upload"
    /\ Answer(t, "lost") /\ Go(t, "idle")
    /\ UNCHANGED <<cache, upload, edit, output, past>>

\* An empty file, or one of more than _CANVAS_MAX_UPLOAD bytes.
RefuseFile(t) ==
    /\ pc[t] = "upload" /\ request[t].pages = 0
    /\ Removed(t, "refused")
    /\ Answer(t, "refused") /\ Go(t, "idle")
    /\ UNCHANGED <<cache, calls, request, edit, output, past>>

\* save_canvas and the start of _save_canvas_sync: no changes, too many of
\* them, or none that names a page.
Refusable(t) ==
    LET chs == changes(t) IN chs = <<>> \/ Len(chs) > MaxChanges \/ Usable(chs) = {}

RefuseChanges(t) ==
    /\ pc[t] = "upload" /\ request[t].pages > 0
    /\ request[t].kind = "save" /\ Refusable(t)
    /\ Removed(t, "refused")
    /\ Answer(t, "refused") /\ Go(t, "idle")
    /\ UNCHANGED <<cache, calls, request, edit, output, past>>

\* parse_canvas: a document of at most _CANVAS_MAX_PAGES is rendered page by
\* page and its spans are returned; no page gets a font.
Parse(t) ==
    /\ pc[t] = "upload" /\ request[t].kind = "parse" /\ request[t].pages > 0
    /\ \/ request[t].pages <= MaxPages /\ Answer(t, "spans")
       \/ request[t].pages > MaxPages /\ Answer(t, "refused")
       \/ Answer(t, "failed")
    /\ Removed(t, answer'[t])
    /\ Go(t, "idle")
    /\ UNCHANGED <<cache, calls, request, edit, output, past>>

\* fitz.open raises, before there is a document to close.
OpenFails(t) ==
    /\ pc[t] = "upload" /\ request[t].kind = "save" /\ request[t].pages > 0
    /\ ~Refusable(t)
    /\ Removed(t, "failed")
    /\ Answer(t, "failed") /\ Go(t, "idle")
    /\ UNCHANGED <<cache, calls, request, edit, output, past>>

OpenDocument(t) ==
    /\ pc[t] = "upload" /\ request[t].kind = "save" /\ request[t].pages > 0
    /\ ~Refusable(t)
    /\ todo' = [todo EXCEPT ![t] = ByPage(changes(t))]
    /\ alone' = [u \in Threads |->
            /\ u = t
            /\ \A id \in Ids : cache[id] = {}
            /\ \A v \in Threads \ {t} : pc[v] \notin Saving]
    /\ Go(t, "visit")
    /\ UNCHANGED <<cache, upload, page, pno, left, victim, output, answer, clean>>

-----------------------------------------------------------------------------
(* _save_canvas_sync: the pages of by_page, one after the other. *)

InRange(t, p) == p \in PagesOf(t)

\* The page p names: a negative index counts from the end.
Numbered(t, p) == IF p < 0 THEN request[t].pages + p ELSE p

SkipPage(t) ==
    /\ pc[t] = "visit"
    /\ \E p \in Upcoming(t) : ~InRange(t, p) /\ todo' = [todo EXCEPT ![t] = @ \ {p}]
    /\ UNCHANGED <<cache, pc, upload, page, pno, left, victim, output, answer, past>>

\* page = doc[pno]: the object it held is let go of once the new one exists.
NewId(t) == Fresh

LoadPage(t) ==
    /\ pc[t] = "visit"
    /\ \E p \in Upcoming(t), id \in NewId(t) :
          /\ InRange(t, p)
          /\ page' = [page EXCEPT ![t] = id]
          /\ pno' = [pno EXCEPT ![t] = Numbered(t, p)]
          /\ clean' = [clean EXCEPT ![t] =
                 IF cache[id] = {} THEN @ \cup {Numbered(t, p)} ELSE @ \ {Numbered(t, p)}]
          /\ left' = [left EXCEPT ![t] =
                 {i \in Usable(changes(t)) : changes(t)[i].page = p}]
          /\ todo' = [todo EXCEPT ![t] = @ \ {p}]
    /\ Go(t, "redact")
    /\ UNCHANGED <<cache, upload, victim, output, answer, alone>>

\* Step A: every box that can be read is painted over.
Redact(t) ==
    LET Boxes == {i \in left[t] : changes(t)[i].box}
    IN  /\ pc[t] = "redact"
        /\ text' = [text EXCEPT ![t] =
                [i \in Indices(t) |-> IF i \in Boxes THEN "gone" ELSE @[i]]]
        /\ touched' = [touched EXCEPT ![t] =
                IF Boxes = {} THEN @ ELSE @ \cup {pno[t]}]
        /\ Go(t, "insert")
        /\ UNCHANGED <<cache, upload, edit, fonts, refused, answer, past>>

\* The face embedded on the page under an alias, if there is one.
Embedded(t, alias) == {f \in fonts[t][pno[t]] : Alias(f) = alias}

\* insert_font leaves a page alone that has a font of that name.
Embed(t, face) ==
    IF Embedded(t, Alias(face)) # {} THEN UNCHANGED fonts
    ELSE fonts' = [fonts EXCEPT ![t][pno[t]] = @ \cup {face}]

\* page.insert_text in a font that is there, the page's or a base-14 one: it is
\* drawn, or the exception is a warning in the log, with the old text gone.
InsertText(t, i) ==
    \/ text' = [text EXCEPT ![t][i] = "new"] /\ UNCHANGED refused
    \/ /\ Cardinality(refused[t]) < MaxRefused
       /\ refused' = [refused EXCEPT ![t] = @ \cup {i}] /\ UNCHANGED text

Next1(t, i) == i \in left[t] /\ \A j \in left[t] : i <= j

Inserted(t, i) ==
    /\ left' = [left EXCEPT ![t] = @ \ {i}]
    /\ Go(t, IF left[t] = {i} THEN "visit" ELSE "insert")

\* A pure deletion returns before it reads the box; it counts as edited.
InsertNothing(t, i) ==
    /\ pc[t] = "insert" /\ Next1(t, i) /\ changes(t)[i].blank
    /\ Inserted(t, i)
    /\ UNCHANGED <<cache, upload, todo, page, pno, victim, output, answer, past>>

\* On every way out of the try the finally clause is next.
Leave(t, how) ==
    /\ Answer(t, how) /\ Go(t, "finally")
    /\ todo' = [todo EXCEPT ![t] = PagesOf(t)]
    /\ UNCHANGED <<upload, page, pno, left, victim, past>>

\* The face is not noted under the page's address: it is embedded and noted.
Note(t, face) ==
    /\ face \notin cache[page[t]]
    /\ Embed(t, face)
    /\ cache' = [cache EXCEPT ![page[t]] = @ \cup {face}]

\* float() or int() of the box, the size or the flags raises, and the whole save
\* with it; that of ox and oy does so once the face has been noted.
BadChange(t, i) ==
    /\ pc[t] = "insert" /\ Next1(t, i) /\ ~changes(t)[i].blank
    /\ Leave(t, "failed")
    /\ \/ UNCHANGED <<cache, output>>
       \/ /\ changes(t)[i].box /\ Note(t, changes(t)[i].face)
          /\ UNCHANGED <<text, touched, refused>>

\* The face is noted under the page's address: insert_text asks for the alias,
\* whether the page has it or not.  Without a Font object to measure with, a
\* base-14 font is used all the same.
InsertNoted(t, i) ==
    LET face == changes(t)[i].face
    IN  /\ pc[t] = "insert" /\ Next1(t, i)
        /\ ~changes(t)[i].blank /\ changes(t)[i].box
        /\ face \in cache[page[t]]
        /\ \/ InsertText(t, i)
           \/ Embedded(t, Alias(face)) = {} /\ UNCHANGED <<text, refused>>
        /\ Inserted(t, i)
        /\ UNCHANGED <<cache, upload, todo, page, pno, victim, touched, fonts, answer, past>>

\* A plausible fault, which no behaviour of Spec has: the face is noted before
\* it is embedded, which may fail.
InsertNewNotedFirst(t, i) ==
    LET face == changes(t)[i].face
    IN  /\ pc[t] = "insert" /\ Next1(t, i)
        /\ ~changes(t)[i].blank /\ changes(t)[i].box
        /\ face \notin cache[page[t]]
        /\ cache' = [cache EXCEPT ![page[t]] = @ \cup {face}]
        /\ Embed(t, face) \/ UNCHANGED fonts
        /\ InsertText(t, i) /\ Inserted(t, i)
        /\ UNCHANGED <<upload, todo, page, pno, victim, touched, answer, past>>

\* It is not: the face is embedded and noted, or cannot be and a base-14 font
\* is used.
InsertNew(t, i) ==
    LET face == changes(t)[i].face
    IN  /\ pc[t] = "insert" /\ Next1(t, i)
        /\ ~changes(t)[i].blank /\ changes(t)[i].box
        /\ face \notin cache[page[t]]
        /\ Note(t, face) \/ UNCHANGED <<fonts, cache>>
        /\ InsertText(t, i) /\ Inserted(t, i)
        /\ UNCHANGED <<upload, todo, page, pno, victim, touched, answer, past>>

\* No change named a page of the document: "No valid changes to apply".
Applied(t) == \E i \in Usable(changes(t)) : InRange(t, changes(t)[i].page)

Save(t) ==
    /\ pc[t] = "visit" /\ todo[t] = {}
    /\ Leave(t, IF Applied(t) THEN "pdf" ELSE "refused")
    /\ UNCHANGED <<cache, output>>

\* PyMuPDF raises: on the document, a page, a redaction or the save.
Raise(t) ==
    /\ pc[t] \in {"visit", "redact"}
    /\ Leave(t, "failed")
    /\ UNCHANGED <<cache, output>>

\* id(doc[pno]): the page object is made for this and gone at once, so that its
\* address is free again when its entry is popped.  It is none of a page that is
\* being edited: the variable page still holds the last one.
NamePage(t) ==
    /\ pc[t] = "finally"
    /\ \E id \in Fresh : victim' = [victim EXCEPT ![t] = id]
    /\ \E p \in todo[t] :
          (\A q \in todo[t] : p <= q) /\ todo' = [todo EXCEPT ![t] = @ \ {p}]
    /\ Go(t, "pop")
    /\ UNCHANGED <<cache, upload, page, pno, left, output, answer, past>>

ForgetPage(t) ==
    /\ pc[t] = "pop"
    /\ cache' = [cache EXCEPT ![victim[t]] = {}]
    /\ victim' = [victim EXCEPT ![t] = None]
    /\ Go(t, "finally")
    /\ UNCHANGED <<upload, todo, page, pno, left, output, answer, past>>

\* The loop is over, or an exception has ended it: doc.close().
Finally(t) ==
    /\ pc[t] = "finally"
    /\ page' = [page EXCEPT ![t] = None]
    /\ pno' = [pno EXCEPT ![t] = None]
    /\ left' = [left EXCEPT ![t] = {}]
    /\ fonts' = [fonts EXCEPT ![t] = [p \in PagesOf(t) |-> {}]]
    /\ todo' = [todo EXCEPT ![t] = {}]
    /\ Removed(t, answer[t])
    /\ Go(t, "idle")
    /\ UNCHANGED <<cache, calls, request, victim, text, touched, refused, answer, past>>

-----------------------------------------------------------------------------

NoRequest == [kind |-> "none", pages |-> 0, changes |-> <<>>]

Init ==
    /\ cache = [id \in Ids |-> {}]
    /\ pc = [t \in Threads |-> "idle"]
    /\ calls = [t \in Threads |-> 0]
    /\ request = [t \in Threads |-> NoRequest]
    /\ temp = [t \in Threads |-> FALSE]
    /\ todo = [t \in Threads |-> {}]
    /\ page = [t \in Threads |-> None]
    /\ pno = [t \in Threads |-> None]
    /\ left = [t \in Threads |-> {}]
    /\ text = [t \in Threads |-> <<>>]
    /\ touched = [t \in Threads |-> {}]
    /\ fonts = [t \in Threads |-> <<>>]
    /\ refused = [t \in Threads |-> {}]
    /\ answer = [t \in Threads |-> "none"]
    /\ victim = [t \in Threads |-> None]
    /\ alone = [t \in Threads |-> FALSE]
    /\ clean = [t \in Threads |-> {}]

Step(t) ==
    \/ \E r \in Requests : TakeUpload(t, r)
    \/ CopyFails(t) \/ RefuseFile(t) \/ RefuseChanges(t)
    \/ Parse(t) \/ OpenFails(t) \/ OpenDocument(t)
    \/ SkipPage(t) \/ LoadPage(t) \/ Redact(t)
    \/ \E i \in Indices(t) :
        InsertNothing(t, i) \/ BadChange(t, i) \/ InsertNoted(t, i) \/ InsertNew(t, i)
    \/ Save(t) \/ Raise(t) \/ NamePage(t) \/ ForgetPage(t) \/ Finally(t)

Next == \E t \in Threads : Step(t)

Spec == Init /\ [][Next]_vars

===============================================================================
