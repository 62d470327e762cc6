----------------------------- MODULE OptimizeTools -----------------------------
(***************************************************************************)
(* The tools of engines/pdf_engine.py that hand the whole document to      *)
(* programs outside (qpdf, Ghostscript) or to PyMuPDF, one after the       *)
(* other, and keep what one of them made: compress, repair, linearize and  *)
(* PDF/A.                                                                  *)
(*                                                                         *)
(* What a program makes is a version of the document: who made it (by),    *)
(* its size, how many pages it has and which of them cannot be rendered    *)
(* (broken), and how many widgets and bookmarks it kept (features).  The   *)
(* programs are outside src/: a version may be anything they could leave.  *)
(***************************************************************************)
EXTENDS ToolCall

OptimizeTool == {"compress_pdf", "repair_pdf", "linearize_pdf", "pdf_to_pdfa"}

\* len(doc) and os.path.getsize.
ASSUME SizesAssumption ==
    \A c \in Calls : c.tool = "compress_pdf" => c.pages \in Nat /\ c.size \in Nat

-----------------------------------------------------------------------------
(* Versions. *)

Version(by, size, pages, broken, features) ==
    [by |-> by, size |-> size, pages |-> pages, broken |-> broken,
     features |-> features]

Original == Version("nobody", call.size, call.pages, {}, call.features)

\* A program may lose a page, make one that cannot be rendered, or lose a
\* feature (Ghostscript writes the form fields into the pages); one such page is
\* enough.
MadeBy(by) ==
    LET whole == {<<call.pages, {}>>, <<call.pages - 1, {}>>}
        broken == {<<call.pages, {p}>> : p \in 1 .. call.pages}
    IN  {Version(by, size, made[1], made[2], features) :
            size \in 1 .. call.size, made \in whole \cup broken,
            features \in 0 .. call.features}

\* A plausible fault of this code, which no behaviour of Spec has: the last page
\* is not looked at, nor one of those in between.
FirstFew(n) == {0, n \div 2} \cup (IF n > 3 THEN {n \div 4} ELSE {})

\* _pdf_renders_ok: the pages it renders, counted from 0.
Sampled(n) ==
    {0, n \div 2, n - 1} \cup (IF n > 3 THEN {n \div 4, (3 * n) \div 4} ELSE {})

\* One without pages does not render.
RendersOk(v) == v.pages > 0 /\ \A i \in Sampled(v.pages) : i + 1 \notin v.broken

\* _feature_preserved
KeepsFeatures(v) == v.features >= call.features

-----------------------------------------------------------------------------
(* compress_pdf: three programs, none of which must succeed. *)

AtWork(tool) == pc = "work" /\ Tool = tool

CompressPdf ==
    /\ pc = "check" /\ Tool = "compress_pdf" /\ call.pages > 0
    /\ Start(<<"qpdf", "pymupdf", "ghostscript">>)
    /\ temps' = {"cpdf"}
    /\ UNCHANGED file

\* The program has made a version and its file is not empty.
AddCandidate ==
    /\ AtWork("compress_pdf")
    /\ todo # <<>> /\ \E v \in MadeBy(Head(todo)) : Pass(<<v>>)
    /\ UNCHANGED <<file, temps>>

\* It is not installed, fails, or runs out of time; no image was worth
\* changing; whatever is raised here is logged and no more.
NoCandidate ==
    /\ AtWork("compress_pdf")
    /\ todo # <<>> /\ Pass(<<>>)
    /\ UNCHANGED <<file, temps>>

Acceptable == {k \in DOMAIN built :
    /\ built[k].size < call.size
    /\ RendersOk(built[k]) /\ KeepsFeatures(built[k])}

\* The smallest, and the first of the smallest.
Chosen ==
    IF Acceptable = {} THEN Original
    ELSE built[CHOOSE k \in Acceptable : \A other \in Acceptable :
                  \/ built[k].size < built[other].size
                  \/ built[k].size = built[other].size /\ k <= other]

\* The work directory goes in any case.
KeepSmallest ==
    /\ AtWork("compress_pdf") /\ Finish(<<Chosen>>)
    /\ CleanUp

CompressFails ==
    /\ AtWork("compress_pdf")
    /\ \/ Break /\ UNCHANGED file
       \/ FailToWrite
    /\ CleanUp

-----------------------------------------------------------------------------
(* repair_pdf: PyMuPDF, then Ghostscript, then a copy. *)

MadeWhole(by) == Version(by, call.size, call.pages, {}, call.features)

\* The program's result becomes the file, and the call returns.
Answer(by) == Return(<<MadeWhole(by)>>)

RepairPdf ==
    /\ pc = "check" /\ Tool = "repair_pdf"
    /\ Start(<<"pymupdf", "ghostscript">>)
    /\ UNCHANGED <<file, temps>>

\* The document opens and has no pages.
RepairRefused ==
    /\ AtWork("repair_pdf") /\ Len(todo) = 2 /\ call.opens /\ call.pages = 0
    /\ Break /\ UNCHANGED <<file, temps>>

\* Saved as .tmp, which os.replace turns into the output.
RepairBySaving ==
    /\ AtWork("repair_pdf") /\ Len(todo) = 2 /\ call.opens /\ call.pages > 0
    /\ Answer("pymupdf")
    /\ UNCHANGED temps

\* What doc.save has written by then stays: nothing removes the .tmp.
SavingFails ==
    /\ AtWork("repair_pdf") /\ Len(todo) = 2
    /\ ~(call.opens /\ call.pages = 0)
    /\ Pass(<<>>)
    /\ temps' \in {temps} \cup (IF call.opens THEN {temps \cup {".tmp"}} ELSE {})
    /\ UNCHANGED file

RepairByGhostscript ==
    /\ AtWork("repair_pdf") /\ Len(todo) = 1
    /\ Answer("ghostscript")
    /\ UNCHANGED temps

\* Any exception is logged; what there is of the _gs.pdf is removed.
GhostscriptFails ==
    /\ AtWork("repair_pdf") /\ Len(todo) = 1
    /\ Pass(<<>>)
    /\ UNCHANGED <<file, temps>>

CopyThrough ==
    /\ AtWork("repair_pdf") /\ Finish(<<Original>>)
    /\ UNCHANGED temps

CopyThroughFails ==
    /\ AtWork("repair_pdf") /\ FailToWrite
    /\ UNCHANGED temps

-----------------------------------------------------------------------------
(* linearize_pdf: qpdf writes the output itself, and so does Ghostscript. *)

LinearizePdf ==
    /\ pc = "check" /\ Tool = "linearize_pdf" /\ call.pages > 0
    /\ Start(<<"qpdf", "ghostscript">>)
    /\ UNCHANGED <<file, temps>>

Linearize ==
    /\ AtWork("linearize_pdf") /\ todo # <<>>
    /\ Answer(Head(todo))
    /\ UNCHANGED temps

\* Not installed, or an exit code that is not 0: also the 3 with which qpdf
\* says that it has written the file, and has warnings.
QpdfUnused ==
    /\ AtWork("linearize_pdf") /\ Len(todo) = 2
    /\ Pass(<<>>)
    /\ file' \in {file, Opened(<<>>), Closed(<<MadeWhole("qpdf")>>)}
    /\ UNCHANGED temps

\* A timeout of either, or a Ghostscript that fails, which leaves what is there
\* or nothing.
LinearizeFails ==
    /\ AtWork("linearize_pdf") /\ Break
    /\ file' \in {file, Opened(<<>>), NoFile}
    /\ UNCHANGED temps

-----------------------------------------------------------------------------
(* pdf_to_pdfa: one run of Ghostscript, with its prefix in a directory. *)

PdfToPdfa ==
    /\ pc = "check" /\ Tool = "pdf_to_pdfa" /\ call.part \in 1 .. 3
    /\ Start(<<"pdfa">>)
    /\ temps' = {"pdfa"}
    /\ UNCHANGED file

\* _pdfa_def_ps: without the stock prefix or a colour profile the document is
\* converted all the same, and does not say that it is PDF/A.
Identity == IF call.prefix /\ call.profile THEN "pdfa" ELSE "plain"

ConvertToPdfa ==
    /\ AtWork("pdf_to_pdfa")
    /\ Answer(Identity)
    /\ CleanUp

PdfaFails ==
    /\ AtWork("pdf_to_pdfa") /\ Break
    /\ file' \in {file, Opened(<<>>)}
    /\ CleanUp

-----------------------------------------------------------------------------

OptimizeNext ==
    \/ CompressPdf \/ AddCandidate \/ NoCandidate \/ KeepSmallest \/ CompressFails
    \/ RepairPdf \/ RepairRefused \/ RepairBySaving \/ SavingFails
    \/ RepairByGhostscript \/ GhostscriptFails \/ CopyThrough \/ CopyThroughFails
    \/ LinearizePdf \/ Linearize \/ QpdfUnused \/ LinearizeFails
    \/ PdfToPdfa \/ ConvertToPdfa \/ PdfaFails
    \/ Tool \in OptimizeTool /\ Refuse

===============================================================================
