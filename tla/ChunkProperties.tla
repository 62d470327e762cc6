--------------------------- MODULE ChunkProperties ---------------------------
(***************************************************************************)
(* What a call of chunked_pdf_processor promises, over ChunkedProcessor.   *)
(***************************************************************************)
EXTENDS ChunkedProcessor

PageRange == [first : 0 .. TotalPages, end : 0 .. TotalPages]

\* Every variable stays within the values the code gives it.
TypeOK ==
    /\ main \in MainPC
    /\ chunk_ranges \in Seq(PageRange) /\ N <= MaxChunks
    /\ chunk_pdfs \subseteq 1 .. N
    /\ fut \in [1 .. MaxChunks -> FutureState]
    /\ attempts \in [1 .. MaxChunks -> 0 .. ChunkRetry + 1]
    /\ collected \subseteq 1 .. N
    /\ ordered_outs \in Seq(0 .. N) /\ Len(ordered_outs) <= N
    /\ chunk_outs \in Seq(1 .. N)
    /\ chunk_failed \in BOOLEAN /\ escape \in Escape
    /\ disk \subseteq {In(i) : i \in 1 .. N} \cup {Out(i) : i \in 1 .. N} \cup {Tmp}
    /\ hash \in [progress : 0 .. 100, status : {"processing", "merging"}]
    /\ output \in Seq(PageRange)
    /\ result \in {"none", "true", "false"}

Caller == INSTANCE SinglePass
    WITH TotalPages <- TotalPages, output <- output, result <- result

\* Whatever the order in which the chunks finish, are retried or fail, the call
\* is a single pass that may give up: True only with every page at its place in
\* output_path, False only with output_path untouched.
ActsAsSinglePass == Caller!Spec

\* The cleanup never takes the input of a chunk away from a pool thread, nor an
\* output from the merge: whoever reads a temporary file finds it, unless the soft
\* limit has cut short the executor's wait for its threads.
ReadersFindTheirFiles ==
    /\ escape # "abandoned" => \A i \in 1 .. N : Busy(i) => In(i) \in disk
    /\ main \in {"merge", "replace"} => \A i \in 1 .. N : Out(i) \in disk

\* utils/pdf_utils.py:102 promises more than the code keeps, "ALL temp files deleted in
\* finally - guaranteed even on crash": the finally clause knows neither the outputs
\* nobody collected after a chunk failed, nor an input whose save raised, nor the
\* temporary file of the merge.  What it does keep: a call that succeeds leaves nothing;
\* one that fails leaves no input it had saved and no output it had collected, whatever
\* raised and wherever.
KnownFilesDeleted ==
    main = "done" =>
        /\ result = "true" => disk = {}
        /\ \A i \in 1 .. N : In(i) \in disk => i \notin chunk_pdfs
        /\ \A i \in 1 .. N : i \in collected /\ fut[i] = "done" => Out(i) \notin disk

\* The reported progress does not go back, whatever reports Redis refuses, but for
\* the 5 of mark_processing: one chunk of nineteen, or two of thirty-seven whose
\* first report was lost, are a smaller share than that.
ProgressForward ==
    [][hash.progress # 5 => hash'.progress >= hash.progress]_vars

\* The call returns, however the chunks end.
Returns == <>(main = "done")

=============================================================================
