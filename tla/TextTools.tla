------------------------------- MODULE TextTools -------------------------------
(***************************************************************************)
(* engines/pdf_edit_text.py, the text editor: a PDF becomes HTML, by way   *)
(* of a Word file, and the edited HTML a PDF again, by LibreOffice.  Both  *)
(* run in the web process.  file stands for the answer of the first, which *)
(* writes none.                                                            *)
(***************************************************************************)
EXTENDS OfficeTools

CONSTANTS
    MaxLoadBytes,  \* _MAX_LOAD_PDF_BYTES
    MaxLoadPages,  \* _MAX_LOAD_PAGE_COUNT
    MaxHtml        \* _MAX_HTML_BYTES

TextTool == {"edit_text_load", "edit_text_save"}

\* counted: PyMuPDF can open the document; if it cannot, it has 0 pages here.
PageCount == IF call.counted THEN call.pages ELSE 0

LoadText ==
    /\ Requested({"edit_text_load"})
    /\ call.size <= MaxLoadBytes /\ PageCount <= MaxLoadPages
    /\ Start(<<Unit("docx", 0), Unit("html", 0)>>)
    /\ temps' = {"work"}
    /\ UNCHANGED file

\* pdf2docx reads at most page_count or _MAX_LOAD_PAGE_COUNT pages.
Loaded ==
    LET most == IF PageCount = 0 THEN MaxLoadPages ELSE PageCount
    IN  Units("page", UpTo(call.pages, most))

TextToWord ==
    /\ Tool = "edit_text_load" /\ built = <<>>
    /\ todo # <<>> /\ Head(todo).does = "docx" /\ Pass(Loaded)
    /\ UNCHANGED <<file, temps>>

\* mammoth, and what is left of it by the sanitiser.
WordToHtml ==
    /\ Tool = "edit_text_load"
    /\ todo # <<>> /\ Head(todo).does = "html" /\ Pass(<<>>)
    /\ UNCHANGED <<file, temps>>

SaveText ==
    /\ Requested({"edit_text_save"}) /\ call.size \in 1 .. MaxHtml
    /\ Start(<<Unit("render", 0)>>)
    /\ temps' = {"work", "profile"}
    /\ UNCHANGED file

\* _libre, which has no export filter for HTML.
RenderText ==
    /\ Tool = "edit_text_save"
    /\ todo # <<>> /\ Pass(<<Head(todo)>>)
    /\ temps' = {"work"}
    /\ UNCHANGED file

BreakText ==
    /\ Tool \in TextTool /\ Break
    /\ CleanUp
    /\ UNCHANGED file

\* The answer with the HTML, or the move to output_path.
FinishText == Tool \in TextTool /\ Finish(built) /\ CleanUp

FailText == Tool = "edit_text_save" /\ FailToWrite /\ CleanUp

TextNext ==
    \/ LoadText \/ TextToWord \/ WordToHtml
    \/ SaveText \/ RenderText
    \/ BreakText \/ FinishText \/ FailText
    \/ Tool \in TextTool /\ Refuse

===============================================================================
