-------------------------------- MODULE OcrPdf --------------------------------
(***************************************************************************)
(* One call of ocr_pdf (engines/pdf_engine.py).                            *)
(*                                                                         *)
(* The calling thread classifies the pages, then takes the image pages a   *)
(* chunk at a time: it renders them, hands their rasters to a pool of      *)
(* Tesseract threads, collects the results as they finish and closes the   *)
(* rasters.  Afterwards it rebuilds the document page by page.             *)
(*                                                                         *)
(* Pages are numbered from 1.  What is on a page is abstracted to whether  *)
(* it carries a text layer; what Tesseract returns, to words or nothing.   *)
(***************************************************************************)
EXTENDS Integers, Sequences, FiniteSets

CONSTANTS
    MaxTotal,     \* bound: documents have 0 .. MaxTotal pages
    MaxOcrPages,  \* Config.MAX_OCR_PAGES
    Workers,      \* max(1, min(Config.OCR_WORKERS, 2))
    ChunkSize     \* max(workers * 4, 8)

ASSUME BoundsAssumption == MaxTotal \in Nat /\ MaxOcrPages \in Nat
ASSUME PoolAssumption == Workers \in Nat \ {0} /\ ChunkSize \in Nat \ {0}

VARIABLES
    layer,        \* the document: whether each page has a text layer
    main,         \* where the calling thread stands
    limit,        \* the soft time limit: armed, swallowed by a handler, raised
    seen,         \* how many pages have been classified
    text_pages,   \* the pages found to carry text
    todo,         \* the image pages that have not been rendered yet
    chunk,        \* the pages of the current chunk
    raster,       \* the pages whose image is open
    job,          \* the future of each page
    ocr_results,  \* what has been collected for each page
    progress,     \* ctx.progress
    out,          \* out_doc: the pages built so far
    verdict       \* what the pipeline gets from the call

scan == <<layer, limit, seen, text_pages>>
work == <<todo, chunk, raster, job, ocr_results>>
end  == <<out, verdict>>
vars == <<scan, main, work, progress, end>>

-----------------------------------------------------------------------------
(* Values. *)

total == Len(layer)
Pages == 1 .. total

MainPC == {"open", "classify", "render", "submit", "collect",
           "shutdown", "assemble", "done", "raised"}

Active == {"classify", "render", "submit", "collect", "assemble"}

Future == {"none", "queued", "running", "read", "failed"}

Busy(p) == job[p] \in {"queued", "running"}
Finished(p) == job[p] \in {"read", "failed"}

ocr_targets == Pages \ text_pages

Collected == {p \in Pages : ocr_results[p] # "absent"}

\* 15 + int(completed / max(n_targets, 1) * 70), but for the rounding of the
\* float; there is a target wherever it is used.
Percent(completed) == 15 + (completed * 70) \div Cardinality(ocr_targets)

\* p is the first page of S.
First(p, S) == p \in S /\ \A q \in S : p <= q

Refused ==
    /\ main' = "raised"
    /\ verdict' = "error"
    /\ UNCHANGED <<seen, text_pages, work, progress, out>>

-----------------------------------------------------------------------------
\* Pipeline.run has marked the job as processing (progress 5).
Init ==
    /\ layer \in UNION {[1 .. n -> {"text", "image"}] : n \in 0 .. MaxTotal}
    /\ main = "open" /\ limit = "armed"
    /\ seen = 0 /\ text_pages = {} /\ todo = {} /\ chunk = {} /\ raster = {}
    /\ job = [p \in Pages |-> "none"]
    /\ ocr_results = [p \in Pages |-> "absent"]
    /\ progress = 5 /\ out = <<>> /\ verdict = "none"

-----------------------------------------------------------------------------
(* Plausible faults of this code; no behaviour of Spec uses them. *)

\* The k-th future to finish is taken for the k-th page of the chunk.
CollectInOrder ==
    /\ main = "collect"
    /\ \E p, first \in chunk :
        /\ Finished(p) /\ First(first, chunk \ Collected)
        /\ ocr_results' = [ocr_results EXCEPT ![first] = job[p]]
        /\ progress' = Percent(Cardinality(Collected) + 1)
    /\ UNCHANGED <<scan, main, todo, chunk, raster, job, end>>

\* Only pages with words come back.
CollectOnlyRead ==
    /\ main = "collect"
    /\ \E p \in chunk :
        /\ job[p] = "read" /\ p \notin Collected
        /\ ocr_results' = [ocr_results EXCEPT ![p] = job[p]]
        /\ progress' = Percent(Cardinality(Collected) + 1)
    /\ UNCHANGED <<scan, main, todo, chunk, raster, job, end>>

\* Without the finally clause: the images of a chunk are left open.
LeaveRastersOpen ==
    /\ main = "collect" /\ chunk \subseteq Collected
    /\ chunk' = {} /\ main' = "render"
    /\ UNCHANGED <<scan, todo, raster, job, ocr_results, progress, end>>

\* The images are closed as soon as the futures are submitted.
CloseBeforeCollecting ==
    /\ main = "collect" /\ raster \cap chunk # {}
    /\ raster' = raster \ chunk
    /\ UNCHANGED <<scan, main, todo, chunk, job, ocr_results, progress, end>>

\* shutdown(wait=False)
LeaveThreadsBehind ==
    /\ main = "shutdown"
    /\ main' = "raised" /\ verdict' = "error"
    /\ UNCHANGED <<scan, work, progress, out>>

-----------------------------------------------------------------------------
(* The calling thread. *)

\* Bad parameters, an empty file, a document that is too long or unreadable.
Refuse == main = "open" /\ Refused /\ UNCHANGED <<layer, limit>>

Open ==
    /\ main = "open" /\ total <= MaxOcrPages
    /\ main' = "classify"
    /\ UNCHANGED <<scan, work, progress, end>>

\* A page whose text cannot be read counts as an image page.
ClassifyPage ==
    /\ main = "classify" /\ seen < total
    /\ seen' = seen + 1
    /\ \/ layer[seen'] = "text" /\ text_pages' = text_pages \union {seen'}
       \/ UNCHANGED text_pages
    /\ UNCHANGED <<layer, limit, main, work, progress, end>>

OpenPool ==
    /\ main = "classify" /\ seen = total
    /\ main' = "render"
    /\ todo' = ocr_targets
    /\ progress' = 15
    /\ UNCHANGED <<scan, chunk, raster, job, ocr_results, end>>

RenderPage ==
    /\ main = "render" /\ todo # {} /\ Cardinality(chunk) < ChunkSize
    /\ \E p \in todo :
        /\ First(p, todo)
        /\ todo' = todo \ {p}
        /\ chunk' = chunk \union {p}
        /\ raster' = raster \union {p}
    /\ UNCHANGED <<scan, main, job, ocr_results, progress, end>>

ChunkRendered ==
    /\ main = "render" /\ chunk # {}
    /\ todo = {} \/ Cardinality(chunk) = ChunkSize
    /\ main' = "submit"
    /\ UNCHANGED <<scan, work, progress, end>>

Submit ==
    /\ main = "submit"
    /\ \E p \in chunk :
        LET waiting == {q \in chunk : job[q] = "none"} IN
        /\ First(p, waiting)
        /\ job' = [job EXCEPT ![p] = "queued"]
        /\ main' = IF waiting = {p} THEN "collect" ELSE main
    /\ UNCHANGED <<scan, todo, chunk, raster, ocr_results, progress, end>>

\* as_completed hands out the finished futures in any order.
Collect ==
    /\ main = "collect"
    /\ \E p \in chunk :
        /\ Finished(p) /\ p \notin Collected
        /\ ocr_results' = [ocr_results EXCEPT ![p] = job[p]]
        /\ progress' = Percent(Cardinality(Collected) + 1)
    /\ UNCHANGED <<scan, main, todo, chunk, raster, job, end>>

CloseChunk ==
    /\ main = "collect" /\ chunk \subseteq Collected
    /\ raster' = raster \ chunk
    /\ chunk' = {} /\ main' = "render"
    /\ UNCHANGED <<scan, todo, job, ocr_results, progress, end>>

LeavePool ==
    /\ main = "render" /\ todo = {} /\ chunk = {}
    /\ main' = "assemble"
    /\ progress' = 85
    /\ UNCHANGED <<scan, work, end>>

AssemblePage ==
    /\ main = "assemble" /\ Len(out) < total
    /\ LET p == Len(out) + 1 IN
        out' = Append(out,
                 [page |-> p,
                  how  |-> IF p \in text_pages THEN "copied"
                           ELSE IF ocr_results[p] = "read" THEN "searchable" ELSE "shown"])
    /\ UNCHANGED <<scan, main, work, progress, verdict>>

Save ==
    /\ main = "assemble" /\ Len(out) = total /\ total > 0
    /\ main' = "done" /\ verdict' = "completed" /\ progress' = 100
    /\ UNCHANGED <<scan, work, out>>

\* "OCR produced no output - all pages failed": pages_processed counts every page,
\* so this is a document without pages.
NoOutput ==
    /\ main = "assemble" /\ total = 0
    /\ Refused /\ UNCHANGED <<layer, limit>>

-----------------------------------------------------------------------------
(* Exceptions in the calling thread. *)

\* Where an exception goes: the finally clause around the futures closes the
\* chunk's images, then the executor's __exit__ waits for every submitted
\* future; outside of the pool it leaves the call at once.
Raise ==
    /\ IF main \in {"render", "submit", "collect"}
         THEN main' = "shutdown" /\ UNCHANGED verdict
         ELSE main' = "raised" /\ verdict' = "error"
    /\ raster' = IF main \in {"submit", "collect"} THEN raster \ chunk ELSE raster
    /\ UNCHANGED <<layer, seen, text_pages, todo, chunk, job, ocr_results, progress, out>>

\* PyMuPDF raises while a page is rendered, inserted or the file is saved.
LibraryRaises ==
    /\ main \in {"render", "assemble"}
    /\ main = "render" => todo # {} /\ Cardinality(chunk) < ChunkSize
    /\ Raise /\ UNCHANGED limit

\* SoftTimeLimitExceeded, raised wherever the thread is.
SoftLimit ==
    /\ limit = "armed" /\ main \in Active
    /\ limit' = "raised"
    /\ Raise

\* It is an Exception: the try around get_text drops it, the page counts as an image.
SoftLimitSwallowed ==
    /\ limit = "armed" /\ main = "classify" /\ seen < total
    /\ limit' = "swallowed"
    /\ seen' = seen + 1
    /\ UNCHANGED <<layer, main, text_pages, work, progress, end>>

LeaveCall ==
    /\ main = "shutdown" /\ \A p \in Pages : ~Busy(p)
    /\ main' = "raised" /\ verdict' = "error"
    /\ UNCHANGED <<scan, work, progress, out>>

-----------------------------------------------------------------------------
(* The pool: futures start in the order they were submitted. *)

Start(p) ==
    /\ First(p, {q \in Pages : job[q] = "queued"})
    /\ Cardinality({q \in Pages : job[q] = "running"}) < Workers
    /\ job' = [job EXCEPT ![p] = "running"]
    /\ UNCHANGED <<scan, main, todo, chunk, raster, ocr_results, progress, end>>

\* _ocr_page catches what Tesseract raises and returns None for the words.
OcrPage(p) ==
    /\ job[p] = "running"
    /\ \E o \in {"read", "failed"} : job' = [job EXCEPT ![p] = o]
    /\ UNCHANGED <<scan, main, todo, chunk, raster, ocr_results, progress, end>>

-----------------------------------------------------------------------------
Main ==
    \/ Refuse \/ Open \/ ClassifyPage \/ OpenPool
    \/ RenderPage \/ ChunkRendered \/ Submit \/ Collect \/ CloseChunk \/ LeavePool
    \/ AssemblePage \/ Save \/ NoOutput \/ LeaveCall

Next ==
    \/ Main
    \/ LibraryRaises \/ SoftLimit \/ SoftLimitSwallowed
    \/ \E p \in Pages : Start(p) \/ OcrPage(p)

Spec == Init /\ [][Next]_vars

\* The thread goes on, a free pool thread takes the next future, Tesseract ends.
FairSpec ==
    /\ Spec
    /\ WF_vars(Main)
    /\ \A p \in 1 .. MaxTotal : WF_vars(p \in Pages /\ (Start(p) \/ OcrPage(p)))

=============================================================================
