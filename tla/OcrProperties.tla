----------------------------- MODULE OcrProperties -----------------------------
(* What ocr_pdf owes its caller, the other jobs of the worker and the reader. *)
EXTENDS OcrPdf

\* Types of all variables.
TypeOK ==
    /\ layer \in Seq({"text", "image"})
    /\ main \in MainPC /\ limit \in {"armed", "swallowed", "raised"}
    /\ seen \in 0 .. total
    /\ text_pages \subseteq Pages /\ todo \subseteq Pages
    /\ chunk \subseteq Pages /\ raster \subseteq Pages
    /\ job \in [Pages -> Future]
    /\ ocr_results \in [Pages -> {"absent", "read", "failed"}]
    /\ progress \in Nat
    /\ out \in Seq([page : Pages, how : {"copied", "searchable", "shown"}])
    /\ verdict \in {"none", "completed", "error"}

\* A searchable document has every page at its place: text pages copied as they
\* are, and on each image page the words of that page and of no other, whatever
\* the order in which the futures finished.
EveryPageGetsItsOwnText ==
    verdict = "completed" =>
        /\ Len(out) = total
        /\ \A p \in Pages :
            /\ out[p].page = p
            /\ out[p].how = "copied" <=> p \in text_pages
            /\ out[p].how = "searchable" <=> job[p] = "read"

\* "Peak RAM is ONE chunk of page images": whatever is rendered or submitted
\* belongs to one chunk, so an exception waits for at most a chunk of pages.
OneChunkInFlight ==
    /\ Cardinality(chunk) <= ChunkSize
    /\ raster \subseteq chunk
    /\ {p \in Pages : Busy(p)} \subseteq chunk

\* A page's image stays open while Tesseract works on it, unless the calling
\* thread is on its way out of the call.
RasterOpenWhileRead ==
    \A p \in Pages : Busy(p) => p \in raster \/ main = "shutdown"

\* No thread of the pool is left when the call returns or raises: the worker
\* child takes its next job with its cores to itself.
NoThreadOutlivesCall ==
    main \in {"assemble", "done", "raised"} => \A p \in Pages : ~Busy(p)

\* The progress never goes back.
ProgressForward == [][progress' >= progress]_vars

\* Every call returns or raises.
Returns == <>(main \in {"done", "raised"})

=============================================================================
