------------------------------- MODULE PdfToWord -------------------------------
(***************************************************************************)
(* One call of pdf_to_word (engines/pdf_engine.py): the router, the        *)
(* converters with their fallbacks, the post passes over the document they *)
(* leave, and the last save.                                               *)
(*                                                                         *)
(* Of a document the model keeps what the properties tell apart: which     *)
(* pages' text it has, which pieces of text a pass has taken out of it and *)
(* not put back, and what has become of the vector artwork.                *)
(***************************************************************************)
EXTENDS Integers, Sequences, FiniteSets

CONSTANTS
    MaxPages,        \* bound: documents have 1 .. MaxPages pages
    DoclingMaxPages, \* _DOCLING_MAX_PAGES
    MaxOcrPages,     \* Config.MAX_OCR_PAGES
    ChunkThreshold,  \* CHUNK_THRESHOLD
    ChunkSize        \* chunk_size

ASSUME PageCountsAssumption ==
    /\ {MaxPages, ChunkSize} \subseteq Nat \ {0}
    /\ {DoclingMaxPages, MaxOcrPages, ChunkThreshold} \subseteq Nat

VARIABLES
    pdf,       \* the source: pages, a scan or not, artwork, and whether lang is valid
    main,      \* where the call stands
    ci,        \* chunks tried so far
    chunks,    \* chunk_docxs: the chunks whose file is not empty
    refused,   \* history: the pages that a library was given and made nothing of
    vg_src,    \* whether _vg_collect returned a redacted copy (and its rasters)
    scratch,   \* temporary files and directories that exist
    output,    \* the file at output_path
    doc,       \* the document in memory
    mode,      \* whether the passes share one document (live) or open their own
    n,         \* the pass that is running or comes next
    engine,    \* the converter that produced the output
    verdict    \* what the pipeline gets from the call

conversion == <<ci, chunks, refused, vg_src, engine>>
work == <<scratch, output, doc, mode, n>>
vars == <<pdf, main, conversion, work, verdict>>

-----------------------------------------------------------------------------
(* Values. *)

Pages == 1 .. pdf.pages

\* The artwork of a Word file: none; drawn by pdf2docx; redacted before pdf2docx
\* saw it; inserted as a raster.
Artwork == {"none", "drawn", "missing", "raster"}

\* pages: whose text it has.  lost: the passes that took text out and did not
\* put it back.
NewDoc(ps, art) == [pages |-> ps, lost |-> {}, art |-> art]
Blank == NewDoc({}, "none")

Whole(d) == [file |-> "whole", doc |-> d]
Absent == [file |-> "absent", doc |-> Blank]
Torn   == [file |-> "torn", doc |-> Blank]

\* What an attempt to write output_path leaves when it raises: the archive is
\* opened for writing, which empties the file, before its parts go into it.
Interrupted == {output, Torn}

n_chunks == (pdf.pages + ChunkSize - 1) \div ChunkSize
PagesOf(k) == {p \in Pages : (k - 1) * ChunkSize < p /\ p <= k * ChunkSize}

\* The pages of the chunks that gave a file.
ChunkedPages == UNION {PagesOf(k) : k \in chunks}

\* The pages OCR looks at; a limit of 0 is none.
OcrPages == {p \in Pages : MaxOcrPages = 0 \/ p <= MaxOcrPages}

\* The "pages" of the answer.
Told == IF engine = "ocr" /\ MaxOcrPages > 0 /\ MaxOcrPages < pdf.pages
          THEN MaxOcrPages ELSE pdf.pages

\* The artwork in what pdf2docx makes of pdf2docx_input.
ConvertedArt == IF ~pdf.art THEN "none" ELSE IF vg_src THEN "missing" ELSE "drawn"

(* The post passes.  takes: it takes text out of the document and puts it       *)
(* elsewhere later.  saves: whether one that opened its own document saves it   *)
(* always or only if it changed something.                                      *)
RepairDocx            == [name |-> "repair",       takes |-> FALSE, saves |-> "always"]
ReflowDocx            == [name |-> "reflow",       takes |-> FALSE, saves |-> "always"]
SplitHeaderDocx       == [name |-> "header",       takes |-> TRUE,  saves |-> "changed"]
RecoverRulesDocx      == [name |-> "rules",        takes |-> FALSE, saves |-> "changed"]
FixSuperscriptsDocx   == [name |-> "superscripts", takes |-> FALSE, saves |-> "changed"]
SemanticDocx          == [name |-> "semantic",     takes |-> TRUE,  saves |-> "always"]
RecoverHyperlinks     == [name |-> "links",        takes |-> FALSE, saves |-> "changed"]
HybridOcrDocx         == [name |-> "hybrid",       takes |-> FALSE, saves |-> "changed"]
RecoverHeadersFooters == [name |-> "running",      takes |-> TRUE,  saves |-> "always"]
FixRtlDocx            == [name |-> "rtl",          takes |-> FALSE, saves |-> "changed"]
RecoverFormFields     == [name |-> "forms",        takes |-> FALSE, saves |-> "changed"]
FixPageGeometry       == [name |-> "geometry",     takes |-> FALSE, saves |-> "changed"]
MapFontsDocx          == [name |-> "fonts",        takes |-> FALSE, saves |-> "always"]
VgInsert              == [name |-> "artwork",      takes |-> FALSE, saves |-> "always"]

WordPasses ==
    <<RepairDocx, ReflowDocx, SplitHeaderDocx, RecoverRulesDocx, FixSuperscriptsDocx,
      SemanticDocx, RecoverHyperlinks, HybridOcrDocx, RecoverHeadersFooters, FixRtlDocx,
      RecoverFormFields, FixPageGeometry, MapFontsDocx, VgInsert>>

PassesOf(e) == CASE e = "pdf2docx" -> WordPasses
                 [] e = "docling"  -> <<RepairDocx, MapFontsDocx>>
                 [] e = "ocr"      -> <<RepairDocx>>
                 [] OTHER          -> <<>>
Passes == PassesOf(engine)
Pass == Passes[n]
Moving == {"header", "semantic", "running"}

MainPC == {"open", "docling", "ocr", "collect", "single", "chunk", "compose", "append",
           "check", "pass", "edit", "put", "store", "save", "unlink", "done", "raised"}

\* Outside of every try whose handler goes on.
Exposed == {"open", "ocr", "collect", "single", "chunk", "append", "check", "pass", "unlink"}

-----------------------------------------------------------------------------
(* How steps end. *)

GoTo(pc) == main' = pc /\ UNCHANGED verdict

\* The call raises; the finally clause removes the directory of the chunks.
Fails ==
    /\ main' = "raised" /\ verdict' = "error"
    /\ scratch' = scratch \ {"chunks"}

Returned == main' = "done" /\ verdict' = "completed"

NextPass == n' = n + 1 /\ GoTo("pass")

\* A converter has written the file.
Converted(e, d) == output' = Whole(d) /\ engine' = e

-----------------------------------------------------------------------------
\* The output path is new (a fresh uuid).  A scan has no vector artwork.
Init ==
    /\ pdf \in [pages : 1 .. MaxPages, scanned : BOOLEAN, art : BOOLEAN, lang : BOOLEAN]
    /\ pdf.scanned => ~pdf.art
    /\ main = "open"
    /\ ci = 0 /\ chunks = {} /\ refused = {} /\ vg_src = FALSE
    /\ scratch = {} /\ output = Absent
    /\ doc = Blank /\ mode = "own" /\ n = 1
    /\ engine = "none" /\ verdict = "none"

-----------------------------------------------------------------------------
(* Plausible faults of this code; no behaviour of Spec uses them. *)

\* When the merge fails the first chunk is shipped.
AppendOrShipFirst ==
    /\ main = "append"
    /\ \E k \in chunks :
        /\ \A j \in chunks : k <= j
        /\ Converted("pdf2docx", NewDoc(PagesOf(k), ConvertedArt))
    /\ scratch' = scratch \ {"chunks"} /\ GoTo("check")
    /\ UNCHANGED <<pdf, ci, chunks, refused, vg_src, doc, mode, n>>

\* The save of a pass stands in a finally clause.
SkippedButSaved ==
    /\ main \in {"edit", "put"} /\ NextPass
    /\ output' = IF mode = "own" THEN Whole(doc) ELSE output
    /\ UNCHANGED <<pdf, conversion, scratch, doc, mode>>

\* A pass saves the document it was given.
PutAndSave ==
    /\ main = "put"
    /\ doc' = [doc EXCEPT !.lost = @ \ {Pass.name}]
    /\ output' = Whole(doc') /\ NextPass
    /\ UNCHANGED <<pdf, conversion, scratch, mode>>

\* The redacted copy is forgotten.
KeepRedactedCopy ==
    /\ main = "unlink" /\ Returned
    /\ UNCHANGED <<pdf, conversion, work>>

\* A pass that failed is tried again.
TryAgain ==
    /\ main \in {"edit", "put"} /\ GoTo("edit")
    /\ UNCHANGED <<pdf, conversion, work>>

-----------------------------------------------------------------------------
(* The router. *)

\* The page count and the test for a scan, whose handler takes any exception
\* for "not a scan"; refused parameters and unreadable files raise.
Route ==
    /\ main = "open"
    /\ \E scanned \in {pdf.scanned, FALSE} :
        \/ scanned /\ pdf.pages <= DoclingMaxPages /\ GoTo("docling")
        \/ scanned /\ pdf.pages > DoclingMaxPages /\ GoTo("ocr")
        \/ ~scanned /\ GoTo("collect")
    /\ UNCHANGED <<pdf, conversion, work>>

\* Docling's whole document.
Docling ==
    /\ main = "docling"
    /\ Converted("docling", NewDoc(Pages, "none"))
    /\ GoTo("pass")
    /\ UNCHANGED <<pdf, ci, chunks, refused, vg_src, scratch, doc, mode, n>>

\* Docling is not installed or raises, perhaps while it saves; or the soft time
\* limit strikes between its passes: on to OCR.
DoclingFails ==
    /\ \/ main = "docling" /\ output' \in Interrupted
       \/ main = "pass" /\ engine = "docling" /\ UNCHANGED output
    /\ engine' = "none" /\ n' = 1 /\ GoTo("ocr")
    /\ UNCHANGED <<pdf, ci, chunks, refused, vg_src, scratch, doc, mode>>

\* Tesseract reads the first MAX_OCR_PAGES pages; one it fails on is empty.
Ocr ==
    /\ main = "ocr" /\ pdf.lang
    /\ \E read \in SUBSET OcrPages :
        Converted("ocr", NewDoc(read, "none")) /\ refused' = OcrPages \ read
    /\ GoTo("pass")
    /\ UNCHANGED <<pdf, ci, chunks, vg_src, scratch, doc, mode, n>>

\* A bad language code, or the document cannot be built or saved.
OcrFails ==
    /\ main = "ocr" /\ Fails
    /\ output' \in Interrupted
    /\ UNCHANGED <<pdf, conversion, doc, mode, n>>

-----------------------------------------------------------------------------
(* pdf2docx. *)

\* _vg_collect: nothing found or switched off; artwork redacted from a copy; or
\* an exception, after which the copy may stay although it is not used.
Collect ==
    /\ main = "collect"
    /\ \/ UNCHANGED <<scratch, vg_src>>
       \/ pdf.art /\ scratch' = scratch \union {"redacted"} /\ vg_src' \in BOOLEAN
    /\ GoTo("single")
    /\ UNCHANGED <<pdf, ci, chunks, refused, engine, output, doc, mode, n>>

\* A long document goes in chunks, to a directory of their own.
StartChunks ==
    /\ main = "single" /\ pdf.pages > ChunkThreshold
    /\ scratch' = scratch \union {"chunks"} /\ GoTo("chunk")
    /\ UNCHANGED <<pdf, conversion, output, doc, mode, n>>

\* In one piece; pdf2docx may leave no file.
Single ==
    /\ main = "single" /\ pdf.pages <= ChunkThreshold
    /\ \/ Converted("pdf2docx", NewDoc(Pages, ConvertedArt))
       \/ engine' = "pdf2docx" /\ UNCHANGED output
    /\ GoTo("check")
    /\ UNCHANGED <<pdf, ci, chunks, refused, vg_src, scratch, doc, mode, n>>

\* A chunk without a file, or with an empty one, is passed over.
ConvertChunk ==
    /\ main = "chunk" /\ ci < n_chunks
    /\ ci' = ci + 1
    /\ \/ chunks' = chunks \union {ci'} /\ UNCHANGED refused
       \/ refused' = refused \union PagesOf(ci') /\ UNCHANGED chunks
    /\ UNCHANGED <<pdf, main, verdict, vg_src, engine, work>>

\* The only chunk is copied, several are composed.
ChunksConverted ==
    /\ main = "chunk" /\ ci = n_chunks /\ chunks # {}
    /\ IF Cardinality(chunks) > 1
         THEN GoTo("compose") /\ UNCHANGED <<scratch, output, engine>>
         ELSE /\ Converted("pdf2docx", NewDoc(ChunkedPages, ConvertedArt))
              /\ scratch' = scratch \ {"chunks"} /\ GoTo("check")
    /\ UNCHANGED <<pdf, ci, chunks, refused, vg_src, doc, mode, n>>

\* docxcompose, and the raw merge of the bodies.
Merge ==
    /\ main \in {"compose", "append"}
    /\ Converted("pdf2docx", NewDoc(ChunkedPages, ConvertedArt))
    /\ scratch' = scratch \ {"chunks"} /\ GoTo("check")
    /\ UNCHANGED <<pdf, ci, chunks, refused, vg_src, doc, mode, n>>

ComposeFails ==
    /\ main = "compose" /\ GoTo("append")
    /\ output' \in Interrupted
    /\ UNCHANGED <<pdf, conversion, scratch, doc, mode, n>>

\* "Do NOT silently ship only the first chunk."
AppendFails ==
    /\ main = "append" /\ Fails
    /\ output' \in Interrupted
    /\ UNCHANGED <<pdf, conversion, doc, mode, n>>

\* pdf2docx raises; the last chunk is in and none has a file; the copy raises.
ConversionFails ==
    /\ main \in {"single", "chunk"} /\ Fails
    /\ output' \in IF main = "chunk" /\ (ci < n_chunks \/ chunks = {})
                   THEN {output} ELSE Interrupted
    /\ UNCHANGED <<pdf, conversion, doc, mode, n>>

\* Empty output raises; otherwise the document is opened once for all passes, or,
\* if it cannot be, by each of them.
Check ==
    /\ main = "check"
    /\ IF output.file = "absent" THEN Fails /\ UNCHANGED <<doc, mode>>
       ELSE /\ \/ mode' = "live" /\ doc' = output.doc
               \/ UNCHANGED <<mode, doc>>
            /\ GoTo("pass") /\ UNCHANGED scratch
    /\ UNCHANGED <<pdf, conversion, output, n>>

-----------------------------------------------------------------------------
(* The post passes. *)

\* The language is looked at before the hybrid pass, outside of its try.
LanguageRefused == Pass = HybridOcrDocx /\ ~pdf.lang

BadLanguage ==
    /\ main = "pass" /\ n <= Len(Passes) /\ LanguageRefused
    /\ Fails
    /\ UNCHANGED <<pdf, conversion, output, doc, mode, n>>

\* A pass without a shared document opens the file.
OpenDoc ==
    /\ main = "pass" /\ n <= Len(Passes) /\ ~LanguageRefused
    /\ mode = "own" => output.file = "whole"
    /\ doc' = IF mode = "own" THEN output.doc ELSE doc
    /\ GoTo("edit")
    /\ UNCHANGED <<pdf, conversion, scratch, output, mode, n>>

\* A pass that opened its own document saves it, some only if they changed it.
EndPass(changed) ==
    IF mode = "own" /\ (changed \/ Pass.saves = "always")
      THEN GoTo("store") /\ UNCHANGED n ELSE NextPass

\* The edits that leave all text in its place, or nothing to edit.
Edit ==
    /\ main = "edit"
    /\ doc' = [doc EXCEPT !.art = IF Pass = VgInsert /\ vg_src THEN "raster" ELSE @]
    /\ \E changed \in BOOLEAN : EndPass(changed)
    /\ UNCHANGED <<pdf, conversion, scratch, output, mode>>

\* Runs, list items or running lines leave their paragraphs ...
TakeOut ==
    /\ main = "edit" /\ Pass.takes
    /\ Pass = RecoverHeadersFooters => pdf.pages >= 3
    /\ doc' = [doc EXCEPT !.lost = @ \union {Pass.name}]
    /\ GoTo("put")
    /\ UNCHANGED <<pdf, conversion, scratch, output, mode, n>>

\* ... and go to the new paragraph, list or header.
PutBack ==
    /\ main = "put"
    /\ doc' = [doc EXCEPT !.lost = @ \ {Pass.name}]
    /\ EndPass(TRUE)
    /\ UNCHANGED <<pdf, conversion, scratch, output, mode>>

\* A pass returns early, there being nothing to do; or, by its "except Exception",
\* on whatever was raised in it, the soft time limit included.  A shared document
\* stays as the pass left it.
Skipped ==
    /\ main \in {"pass", "edit", "put"} /\ n <= Len(Passes)
    /\ ~(main = "pass" /\ LanguageRefused)
    /\ NextPass
    /\ UNCHANGED <<pdf, conversion, scratch, output, doc, mode>>

Store ==
    /\ main = "store" /\ NextPass
    /\ output' \in {Whole(doc)} \union Interrupted
    /\ UNCHANGED <<pdf, conversion, scratch, doc, mode>>

\* After the last pass.
PassesDone ==
    /\ main = "pass" /\ n > Len(Passes)
    /\ IF engine # "pdf2docx" THEN Returned
       ELSE GoTo(IF mode = "live" THEN "save" ELSE "unlink")
    /\ UNCHANGED <<pdf, conversion, work>>

\* live.save; an exception is logged.
Save ==
    /\ main = "save"
    /\ output' \in {Whole(doc)} \union Interrupted
    /\ GoTo("unlink")
    /\ UNCHANGED <<pdf, conversion, scratch, doc, mode, n>>

\* The redacted copy is removed and the call returns.
Unlink ==
    /\ main = "unlink" /\ Returned
    /\ scratch' = IF vg_src THEN scratch \ {"redacted"} ELSE scratch
    /\ UNCHANGED <<pdf, conversion, output, doc, mode, n>>

-----------------------------------------------------------------------------
\* An exception, mostly the soft time limit, where no handler goes on.
Raised ==
    /\ main \in Exposed /\ ~(main = "pass" /\ engine = "docling")
    /\ Fails
    /\ UNCHANGED <<pdf, conversion, output, doc, mode, n>>

Convert == Route \/ Docling \/ DoclingFails \/ Ocr \/ OcrFails \/ Collect \/ StartChunks
           \/ Single \/ ConvertChunk \/ ChunksConverted \/ Merge \/ ComposeFails
           \/ AppendFails \/ ConversionFails \/ Check
Finish == BadLanguage \/ OpenDoc \/ Edit \/ TakeOut \/ PutBack \/ Skipped
          \/ Store \/ PassesDone \/ Save \/ Unlink

Next == Convert \/ Finish \/ Raised

Spec == Init /\ [][Next]_vars

\* The libraries the call waits for come back, or a time limit makes them.
FairSpec == Spec /\ WF_vars(Next)

=============================================================================
