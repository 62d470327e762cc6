-------------------------- MODULE PdfToWordProperties --------------------------
(* What pdf_to_word owes to the reader of the Word file and to the disk. *)
EXTENDS PdfToWord

Documents == [pages : SUBSET Pages, lost : SUBSET Moving, art : Artwork]

\* Types of all variables.
TypeOK ==
    /\ pdf.pages \in 1 .. MaxPages
    /\ main \in MainPC
    /\ ci \in Nat /\ chunks \subseteq 1 .. ci /\ refused \subseteq Pages
    /\ vg_src \in BOOLEAN
    /\ scratch \subseteq {"chunks", "redacted"}
    /\ output \in [file : {"absent", "whole", "torn"}, doc : Documents]
    /\ doc \in Documents /\ mode \in {"own", "live"}
    /\ n \in 1 .. Len(Passes) + 1
    /\ engine \in {"none", "pdf2docx", "docling", "ocr"}
    /\ verdict \in {"none", "completed", "error"}

\* The text of every page the answer counts, but for those a library gave nothing of.
HasText(ps) == \A p \in Pages : p <= Told /\ p \notin refused => p \in ps

\* "Fail loudly": a conversion that is reported as done has the text of every page that
\* the answer counts, however the chunks were put together and whatever fell back to
\* what, through all passes, unless the library that was given the page made nothing of
\* it: a page Tesseract fails on, or a chunk that pdf2docx leaves no file for
\* (NothingIsLostSilently has them).  The answer counts all pages, or as many as MAX_OCR_PAGES lets
\* OCR read.
NoSilentTruncation ==
    verdict = "completed" /\ output.file = "whole" => HasText(output.doc.pages)

\* A pass that opens the file itself is all or nothing: an exception in the
\* middle of it never reaches the file.
OwnPassesAreAtomic ==
    mode = "own" => output.doc.lost = {}

\* "Open the DOCX once, run every post pass against the live object, save once":
\* no pass writes the file of a shared document.
SharedDocumentSavedOnce ==
    [][mode = "live" /\ main \in {"pass", "edit", "put", "store"} => output' = output]_vars

\* The directory of the chunks goes on every way out; the redacted copy goes when
\* the call returns.
ScratchReleased ==
    /\ main \in {"done", "raised"} => "chunks" \notin scratch
    /\ main = "done" /\ vg_src => "redacted" \notin scratch

\* Every call returns or raises.
Returns == <>(main \in {"done", "raised"})

\* "Do NOT silently ship only the first chunk - that drops the majority of the document
\* without telling the user.  Fail loudly" (engines/pdf_engine.py:4025), "Additive,
\* high-confidence, never raises" (engines/pdf_engine.py:3563): a file that is stored
\* and reported as done has every page of what pdf2docx converted in chunks, and a
\* pass that ended early has cost it none of its own text.
NothingIsLostSilently ==
    verdict = "completed" /\ output.file = "whole" =>
        /\ output.doc.lost = {}
        /\ ci > 0 => output.doc.pages = Pages

=============================================================================
