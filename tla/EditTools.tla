------------------------------- MODULE EditTools -------------------------------
(***************************************************************************)
(* The tools of engines/pdf_engine.py that change a document and save it   *)
(* under another name: the edits are made in memory, one after the other,  *)
(* and doc.save comes after the last one.                                  *)
(*                                                                         *)
(* An edit is a record: the page it is on, what it does there (does) and,  *)
(* where a property is about it, with what (of).                           *)
(***************************************************************************)
EXTENDS ToolCall

CONSTANTS
    MaxOps,      \* _EDIT_MAX_OPS_TOTAL
    MaxPassword  \* 127 bytes

\* Tools whose loop goes on after a part of the document has refused an edit.
Forgiving == {"fill_form", "add_header_footer", "remove_metadata"}

EditTool == Forgiving \cup
    {"rotate_pdf", "watermark_pdf", "page_numbers", "crop_pdf", "edit_pdf",
     "redact_pdf", "protect_pdf", "unlock_pdf", "sign_pdf", "flatten_pdf"}

\* Pages and form fields are counted; a list of pages is one of this document.
ASSUME EditsAssumption ==
    \A c \in Calls :
        /\ c.tool \in EditTool => c.pages \in Nat
        /\ c.tool = "rotate_pdf" => c.named \subseteq 1 .. c.pages
        /\ c.tool = "page_numbers" => c.start \in Int
        /\ c.tool = "add_header_footer" => c.header \in BOOLEAN /\ c.footer \in BOOLEAN
        /\ c.tool = "remove_metadata" => c.xmp_stays \in BOOLEAN
        /\ c.tool = "fill_form" =>
              /\ Len(c.widgets) \in Nat /\ DOMAIN c.widgets = 1 .. Len(c.widgets)
              /\ \A k \in DOMAIN c.widgets : c.widgets[k].blank \in BOOLEAN

\* The page an operation is for is the client's: any integer.
Operation ==
    [page : Int, does : {"text", "highlight", "annotation", "image"}, of : STRING,
     blank : BOOLEAN]

ASSUME OperationsAssumption ==
    \A c \in Calls : c.tool = "edit_pdf" => c.ops \in Seq(Operation)

-----------------------------------------------------------------------------
(* What each tool checks and plans. *)

Editable(tool) == pc = "check" /\ Tool = tool /\ call.pages > 0

Edit(p, does, of) == [page |-> p, does |-> does, of |-> of, blank |-> FALSE]

\* One edit per page, in the order of the pages.
OnEvery(does, of(_)) == [p \in 1 .. call.pages |-> Edit(p, does, of(p))]

\* The pages of a set, in their order.
OnPages(S, does, of) == [k \in 1 .. Cardinality(S) |-> Edit(Ascending(S)[k], does, of)]

\* call.named: what parse_page_ranges makes of the request, or all pages.
RotatePdf ==
    /\ Editable("rotate_pdf") /\ call.angle \in {0, 90, 180, 270} /\ call.named # {}
    /\ Start(OnPages(call.named, "rotate", call.angle))

\* The image is validated before the document is opened.
WatermarkPdf ==
    /\ Editable("watermark_pdf") /\ call.image # "invalid"
    /\ Start(OnEvery("mark", LAMBDA p : call.image))

\* The label counts from start.
PageNumbers ==
    /\ Editable("page_numbers")
    /\ Start(OnEvery("number", LAMBDA p : call.start + p - 1))

CropPdf ==
    /\ Editable("crop_pdf") /\ call.margin >= 0
    /\ Start(OnEvery("crop", LAMBDA p : call.margin))

\* sign_pdf: all, the first, the last or the n-th page.
SignedPages ==
    CASE call.which = "all" -> 1 .. call.pages
      [] call.which = "first" -> {1}
      [] call.which = "last" -> {call.pages}
      [] OTHER -> {call.target}

SignPdf ==
    /\ Editable("sign_pdf") /\ call.image # "invalid"
    /\ SignedPages \subseteq 1 .. call.pages
    /\ Start(OnPages(SignedPages, "sign", call.image))

\* A password that AES-256 would cut is refused.
ProtectPdf ==
    /\ Editable("protect_pdf") /\ call.password \in 1 .. MaxPassword
    /\ Start(<<Edit(0, "encrypt", call.password)>>)

\* An unprotected document is saved as it is; a protected one must open, with
\* the user's or the owner's password.
UnlockPdf ==
    /\ pc = "check" /\ Tool = "unlock_pdf" /\ call.password > 0
    /\ call.key # 0 => call.password = call.key
    /\ Start(<<Edit(0, "decrypt", call.password)>>)

\* The information dictionary, then the XMP stream.
RemoveMetadata ==
    /\ Editable("remove_metadata")
    /\ Start(<<Edit(0, "clear", "info"), Edit(0, "clear", "xmp")>>)

\* On each page the header, then the footer; a text that is empty stamps
\* nothing, and one of them must not be.
Stamps ==
    (IF call.header THEN <<"header">> ELSE <<>>) \o (IF call.footer THEN <<"footer">> ELSE <<>>)

StampPlan ==
    LET each == Len(Stamps)
    IN  [k \in 1 .. call.pages * each |->
            Edit((k - 1) \div each + 1, "stamp", Stamps[((k - 1) % each) + 1])]

AddHeaderFooter ==
    /\ Editable("add_header_footer") /\ (call.header \/ call.footer)
    /\ Start(StampPlan)

\* The form fields of the document that the request has a value for.
FillForm ==
    /\ Editable("fill_form")
    /\ Start(At(call.widgets, {k \in DOMAIN call.widgets : call.widgets[k].of \in call.fields}))

FlattenPdf ==
    /\ Editable("flatten_pdf")
    /\ Start(<<Edit(0, "bake", call.pages)>>)

\* redact_pdf: a mode of three, each with its argument.
Redactable ==
    \/ call.mode = "text" /\ call.wanted # "nothing"
    \/ call.mode = "regex" /\ call.wanted \notin {"nothing", "unsafe"}
    \/ call.mode = "preset" /\ call.wanted = "known"

RedactPdf ==
    /\ Editable("redact_pdf") /\ Redactable
    /\ Start(OnEvery("redact", LAMBDA p : "matches"))

\* edit_pdf, _edit_parse_payload: between one and _EDIT_MAX_OPS_TOTAL
\* operations, which are done by kind.
Kinds == <<"text", "highlight", "annotation", "image">>

OfKind(k) == Ascending({i \in DOMAIN call.ops : call.ops[i].does = Kinds[k]})

InTurn == OfKind(1) \o OfKind(2) \o OfKind(3) \o OfKind(4)

ByKind == [e \in DOMAIN InTurn |-> call.ops[InTurn[e]]]

EditPdf ==
    /\ Editable("edit_pdf") /\ Len(call.ops) \in 1 .. MaxOps
    /\ Start(ByKind)

EditPlan ==
    /\ \/ RotatePdf \/ WatermarkPdf \/ PageNumbers \/ CropPdf \/ SignPdf
       \/ ProtectPdf \/ UnlockPdf \/ RemoveMetadata \/ AddHeaderFooter
       \/ FillForm \/ FlattenPdf \/ RedactPdf \/ EditPdf
    /\ UNCHANGED <<file, temps>>

-----------------------------------------------------------------------------
(* The loops. *)

Plain == EditTool \ {"edit_pdf", "redact_pdf", "crop_pdf"}

\* A field that cannot be set, an XMP stream that cannot be deleted, and, as
\* nobody looks at what insert_textbox returns, a text that does not fit its box.
Refused(edit) ==
    \/ Tool = "fill_form" /\ edit.blank
    \/ Tool = "remove_metadata" /\ edit.of = "xmp" /\ call.xmp_stays
    \/ Tool = "add_header_footer" /\ <<edit.page, edit.of>> \in call.narrow

MakeEdit ==
    /\ Tool \in Plain
    /\ todo # <<>> /\ ~Refused(Head(todo)) /\ Pass(<<Head(todo)>>)
    /\ InMemory(built')
    /\ UNCHANGED temps

\* The loop goes on without it.
LeaveOut ==
    /\ Tool \in Forgiving
    /\ todo # <<>> /\ Refused(Head(todo)) /\ Pass(<<>>)
    /\ UNCHANGED <<file, temps>>

\* crop_pdf: a page that would get smaller than 10 points ends the call.
CropPage ==
    /\ Tool = "crop_pdf"
    /\ todo # <<>> /\ Head(todo).page \in call.large /\ Pass(<<Head(todo)>>)
    /\ InMemory(built')
    /\ UNCHANGED temps

\* redact_pdf: on a page, every place that shows the text of a match.  A text
\* is searched for in the whole page, a pattern in its first 100000 characters.
Matched(p) ==
    {m \in call.matches[p] :
        \/ call.mode = "text"
        \/ \E n \in call.matches[p] : n.early /\ n.shows = m.shows}

RedactPage ==
    /\ Tool = "redact_pdf"
    /\ todo # <<>>
    /\ LET p == Head(todo).page IN Pass(<<Edit(p, "redact", Matched(p))>>)
    /\ InMemory(built')
    /\ UNCHANGED temps

\* _resolve_page: a negative index counts from the last page, once.
Resolved(p) == IF p < 0 THEN p + call.pages + 1 ELSE p

OnAPage(op) == Resolved(op.page) \in 1 .. call.pages

\* An empty text, a rectangle without area; their page is looked up before.
Blank(op) == op.blank

DoOperation ==
    /\ Tool = "edit_pdf"
    /\ todo # <<>> /\ OnAPage(Head(todo)) /\ ~Blank(Head(todo))
    /\ Pass(<<[Head(todo) EXCEPT !.page = Resolved(@)]>>)
    /\ InMemory(built')
    /\ UNCHANGED temps

SkipOperation ==
    /\ Tool = "edit_pdf"
    /\ todo # <<>> /\ OnAPage(Head(todo)) /\ Blank(Head(todo))
    /\ Pass(<<>>)
    /\ UNCHANGED <<file, temps>>

BreakEdits == Tool \in EditTool /\ Break /\ UNCHANGED <<file, temps>>

FinishEdits == Tool \in EditTool /\ Finish(built) /\ UNCHANGED temps

FailEdits == Tool \in EditTool /\ FailToWrite /\ UNCHANGED temps

RefuseEdits == Tool \in EditTool /\ Refuse

EditNext ==
    \/ EditPlan
    \/ MakeEdit \/ LeaveOut \/ CropPage \/ RedactPage
    \/ DoOperation \/ SkipOperation
    \/ BreakEdits \/ FinishEdits \/ FailEdits \/ RefuseEdits

===============================================================================
