--------------------------- MODULE ChunkedProcessor ---------------------------
(***************************************************************************)
(* One call of chunked_pdf_processor (utils/pdf_utils.py).                 *)
(*                                                                         *)
(* The calling thread cuts the source into chunk files, submits one future *)
(* per chunk to a ThreadPoolExecutor, collects the futures as they finish, *)
(* stops collecting at the first chunk that failed for good, waits in the  *)
(* executor's __exit__, merges the chunk outputs and removes the temporary *)
(* files.  The pool threads run _run_chunk_with_retry meanwhile.           *)
(*                                                                         *)
(* process_chunk_func is the caller's: it either leaves an output file for *)
(* the pages of its chunk and returns, or raises and may leave what it had *)
(* written.                                                                *)
(***************************************************************************)
EXTENDS Integers, Sequences, FiniteSets

CONSTANTS
    TotalPages,   \* total_pages
    ChunkSize,    \* chunk_size
    MaxWorkers,   \* max_workers
    ChunkRetry,   \* chunk_retry
    RedisFaults,  \* may a job_update raise?
    SoftLimits    \* may the soft time limit of a Celery task fire during the call?

ASSUME SizesAssumption == {TotalPages, ChunkSize, MaxWorkers} \subseteq Nat \ {0}
ASSUME RetryAssumption == ChunkRetry \in Nat /\ {RedisFaults, SoftLimits} \subseteq BOOLEAN

VARIABLES
    main,         \* where the calling thread stands
    chunk_ranges, \* the page range of each chunk cut so far
    chunk_pdfs,   \* the chunks whose input file the call remembers
    fut,          \* the future of each chunk
    attempts,     \* how often process_chunk_func was called for each chunk
    collected,    \* the chunks whose future as_completed has handed out
    ordered_outs, \* the output of each chunk at its place, 0 for None
    chunk_outs,   \* the outputs in the order they were collected
    chunk_failed, \* the flag
    escape,       \* what left the with block, or the wait at its end, before its time
    disk,         \* the temporary files that exist
    hash,         \* progress and status in job:<id>
    output,       \* the page ranges in the file at output_path
    result        \* what the call is going to return

pool == <<fut, attempts>>
collection == <<collected, ordered_outs, chunk_outs, chunk_failed, escape>>
vars == <<main, chunk_ranges, chunk_pdfs, pool, collection, disk, hash, output, result>>

-----------------------------------------------------------------------------
(* Values. *)

N == Len(chunk_ranges)

MaxChunks == (TotalPages + ChunkSize - 1) \div ChunkSize

MainPC == {"check", "split", "pool", "drain", "merge", "replace", "cleanup", "done"}

FutureState == {"none", "queued", "running", "done", "failed"}

\* "raised": what pool.submit raises; "limit": the soft limit in the with block;
\* "abandoned": the soft limit in the executor's __exit__.
Escape == {"none", "raised", "limit", "abandoned"}

Busy(i) == fut[i] \in {"queued", "running"}

In(i)  == <<"in", i>>
Out(i) == <<"out", i>>
Tmp    == <<"merge_tmp", 0>>    \* output_path + ".merge_tmp"

\* The page after the last one that was cut.
Start == IF N = 0 THEN 0 ELSE chunk_ranges[N].end

NextRange ==
    [first |-> Start,
     end   |-> IF Start + ChunkSize < TotalPages THEN Start + ChunkSize ELSE TotalPages]

\* int(completed / n_chunks * 90), but for the rounding of the float.
Percent(done) == (done * 90) \div N

\* What a list of chunk outputs is merged to, in its order.
Merged(outs) == [k \in 1 .. Len(outs) |-> chunk_ranges[outs[k]]]

\* A job_update of these fields, or one that raised and was swallowed.
Report(fields) ==
    \/ hash' = fields
    \/ RedisFaults /\ UNCHANGED hash

GiveUp ==
    /\ main' = "cleanup"
    /\ result' = "false"

-----------------------------------------------------------------------------
\* Pipeline.run has marked the job as processing (progress 5).
Init ==
    /\ main = "check"
    /\ chunk_ranges = <<>> /\ chunk_pdfs = {}
    /\ fut = [i \in 1 .. MaxChunks |-> "none"]
    /\ attempts = [i \in 1 .. MaxChunks |-> 0]
    /\ collected = {} /\ ordered_outs = <<>> /\ chunk_outs = <<>> /\ chunk_failed = FALSE
    /\ escape = "none"
    /\ disk = {} /\ hash = [progress |-> 5, status |-> "processing"]
    /\ output = <<>> /\ result = "none"

-----------------------------------------------------------------------------
(* Plausible faults of this code; no behaviour of Spec uses them. *)

\* merge_func gets the outputs in the order the chunks finished.
MergeAsCompleted ==
    /\ main = "replace"
    /\ output' = Merged(chunk_outs)
    /\ disk' = disk \ {Tmp}
    /\ hash' = [hash EXCEPT !.progress = 100]
    /\ main' = "cleanup"
    /\ result' = "true"
    /\ UNCHANGED <<chunk_ranges, chunk_pdfs, pool, collection>>

\* merge_func writes output_path itself, and raises half way.
MergeInPlaceRaises ==
    /\ main \in {"merge", "replace"}
    /\ output' = <<chunk_ranges[1]>>
    /\ GiveUp
    /\ UNCHANGED <<chunk_ranges, chunk_pdfs, pool, collection, disk, hash>>

\* shutdown(wait=False)
ShutdownWithoutWaiting ==
    /\ main = "drain"
    /\ IF chunk_failed \/ escape # "none"
         THEN GiveUp
         ELSE main' = "merge" /\ UNCHANGED result
    /\ UNCHANGED <<chunk_ranges, chunk_pdfs, pool, collection, disk, hash, output>>

\* The counter of the attempts starts again when it has reached chunk_retry.
RetriesForEver(i) ==
    /\ fut[i] = "running"
    /\ attempts' = [attempts EXCEPT ![i] = IF @ < ChunkRetry THEN @ + 1 ELSE 0]
    /\ UNCHANGED fut
    /\ UNCHANGED <<main, chunk_ranges, chunk_pdfs, collection, disk, hash, output, result>>

\* The percentage is that of the chunk's place in the document.
CollectReportsIndex(i) ==
    /\ main = "pool" /\ fut[i] = "done" /\ i \notin collected
    /\ collected' = collected \cup {i}
    /\ ordered_outs' = [ordered_outs EXCEPT ![i] = i]
    /\ chunk_outs' = Append(chunk_outs, i)
    /\ Report([hash EXCEPT !.progress = Percent(i)])
    /\ UNCHANGED <<main, chunk_ranges, chunk_pdfs, pool, chunk_failed, escape, disk, output,
                   result>>

\* The finally clause forgets the outputs.
CleanupInputsOnly ==
    /\ main = "cleanup"
    /\ disk' = disk \ {In(i) : i \in chunk_pdfs}
    /\ main' = "done"
    /\ UNCHANGED <<chunk_ranges, chunk_pdfs, pool, collection, hash, output, result>>

-----------------------------------------------------------------------------
(* The calling thread. *)

\* check_disk_space: on too little space the job gets a warning and the call ends.
DiskCheck ==
    /\ main = "check"
    /\ \/ main' = "split" /\ UNCHANGED result
       \/ GiveUp
    /\ UNCHANGED <<chunk_ranges, chunk_pdfs, pool, collection, disk, hash, output>>

\* One round of the split loop.
Split ==
    /\ main = "split" /\ Start < TotalPages
    /\ chunk_ranges' = Append(chunk_ranges, NextRange)
    /\ chunk_pdfs' = chunk_pdfs \cup {N + 1}
    /\ disk' = disk \cup {In(N + 1)}
    /\ UNCHANGED <<main, pool, collection, hash, output, result>>

\* c_doc.save raises; what it wrote so far is not in chunk_pdfs.
SplitRaises ==
    /\ main = "split" /\ Start < TotalPages
    /\ chunk_ranges' = Append(chunk_ranges, NextRange)
    /\ disk' \in {disk, disk \cup {In(N + 1)}}
    /\ GiveUp
    /\ UNCHANGED <<chunk_pdfs, pool, collection, hash, output>>

\* pool.submit for each chunk.  It may raise (no thread can be started), at the first
\* chunk or later: what is submitted runs.
Submit ==
    /\ main = "split" /\ Start >= TotalPages
    /\ \E submitted \in 0 .. N :
          /\ fut' = [i \in DOMAIN fut |-> IF i <= submitted THEN "queued" ELSE "none"]
          /\ \/ submitted = N /\ main' = "pool" /\ UNCHANGED escape
             \/ main' = "drain" /\ escape' = "raised"
    /\ ordered_outs' = [i \in 1 .. N |-> 0]
    /\ UNCHANGED <<chunk_ranges, chunk_pdfs, attempts, collected, chunk_outs, chunk_failed,
                   disk, hash, output, result>>

\* as_completed hands out a chunk that succeeded.
Collect(i) ==
    /\ main = "pool" /\ fut[i] = "done" /\ i \notin collected
    /\ collected' = collected \cup {i}
    /\ ordered_outs' = [ordered_outs EXCEPT ![i] = i]
    /\ chunk_outs' = Append(chunk_outs, i)
    /\ Report([hash EXCEPT !.progress = Percent(Len(chunk_outs'))])
    /\ UNCHANGED <<main, chunk_ranges, chunk_pdfs, pool, chunk_failed, escape, disk, output,
                   result>>

\* ... or one that failed: flag and break.
CollectFailure(i) ==
    /\ main = "pool" /\ fut[i] = "failed"
    /\ collected' = collected \cup {i}
    /\ chunk_failed' = TRUE
    /\ main' = "drain"
    /\ UNCHANGED <<chunk_ranges, chunk_pdfs, pool, ordered_outs, chunk_outs, escape, disk,
                   hash, output, result>>

\* SoftTimeLimitExceeded while as_completed waits: it leaves the with block, whose
\* __exit__ waits for the pool.
LimitWhileCollecting ==
    /\ SoftLimits
    /\ main = "pool" /\ main' = "drain"
    /\ escape' = "limit"
    /\ UNCHANGED <<chunk_ranges, chunk_pdfs, pool, collected, ordered_outs, chunk_outs,
                   chunk_failed, disk, hash, output, result>>

AllCollected ==
    /\ main = "pool" /\ collected = 1 .. N
    /\ main' = "drain"
    /\ UNCHANGED <<chunk_ranges, chunk_pdfs, pool, collection, disk, hash, output, result>>

\* ThreadPoolExecutor.__exit__ is shutdown(wait=True), which cancels nothing.
Shutdown ==
    /\ main = "drain"
    /\ \A i \in 1 .. N : ~Busy(i)
    /\ IF chunk_failed \/ escape # "none" \/ 0 \in {ordered_outs[i] : i \in 1 .. N}
         THEN GiveUp /\ UNCHANGED hash
         ELSE /\ main' = "merge"
              /\ Report([progress |-> 92, status |-> "merging"])
              /\ UNCHANGED result
    /\ UNCHANGED <<chunk_ranges, chunk_pdfs, pool, collection, disk, output>>

\* SoftTimeLimitExceeded while shutdown waits: the call goes on to its finally clause
\* and leaves the pool threads to themselves.  The limit fires once.
LimitWhileWaiting ==
    /\ SoftLimits /\ escape # "limit"
    /\ main = "drain"
    /\ \E i \in 1 .. N : Busy(i)
    /\ GiveUp
    /\ escape' = "abandoned"
    /\ UNCHANGED <<chunk_ranges, chunk_pdfs, pool, collected, ordered_outs, chunk_outs,
                   chunk_failed, disk, hash, output>>

\* merge_func writes output_path + ".merge_tmp" ...
MergeSave ==
    /\ main = "merge"
    /\ disk' = disk \cup {Tmp}
    /\ main' = "replace"
    /\ UNCHANGED <<chunk_ranges, chunk_pdfs, pool, collection, hash, output, result>>

\* ... renames it to output_path, and the call reports 100 and returns True.
MergeReplace ==
    /\ main = "replace"
    /\ output' = Merged(ordered_outs)
    /\ disk' = disk \ {Tmp}
    /\ Report([hash EXCEPT !.progress = 100])
    /\ main' = "cleanup"
    /\ result' = "true"
    /\ UNCHANGED <<chunk_ranges, chunk_pdfs, pool, collection>>

\* merge_func raises.  merge_zip_chunks removes its temporary file, merge_pdf_chunks
\* does not.
MergeRaises ==
    /\ main \in {"merge", "replace"}
    /\ disk' \in {disk, disk \ {Tmp}}
    /\ GiveUp
    /\ UNCHANGED <<chunk_ranges, chunk_pdfs, pool, collection, hash, output>>

\* The finally clause.
Cleanup ==
    /\ main = "cleanup"
    /\ disk' = disk \ (      {In(i) : i \in chunk_pdfs}
                       \cup {Out(chunk_outs[k]) : k \in DOMAIN chunk_outs})
    /\ main' = "done"
    /\ UNCHANGED <<chunk_ranges, chunk_pdfs, pool, collection, hash, output, result>>

-----------------------------------------------------------------------------
(* The pool threads. *)

\* A free thread takes the oldest future.
Take(i) ==
    /\ fut[i] = "queued"
    /\ \A k \in 1 .. i - 1 : fut[k] # "queued"
    /\ Cardinality({k \in 1 .. N : fut[k] = "running"}) < MaxWorkers
    /\ fut' = [fut EXCEPT ![i] = "running"]
    /\ UNCHANGED <<main, chunk_ranges, chunk_pdfs, attempts, collection, disk, hash, output, result>>

\* process_chunk_func reads the input, unless it had opened it before it was removed.
ChunkReturns(i) ==
    /\ fut[i] = "running"
    /\ In(i) \in disk \/ escape = "abandoned"
    /\ attempts' = [attempts EXCEPT ![i] = @ + 1]
    /\ disk' = disk \cup {Out(i)}
    /\ fut' = [fut EXCEPT ![i] = "done"]
    /\ UNCHANGED <<main, chunk_ranges, chunk_pdfs, collection, hash, output, result>>

\* Tried again, up to ChunkRetry times; then the exception goes to the future.
ChunkRaises(i) ==
    /\ fut[i] = "running"
    /\ attempts' = [attempts EXCEPT ![i] = @ + 1]
    /\ disk' \in {disk, disk \cup {Out(i)}}
    /\ IF attempts[i] < ChunkRetry
         THEN UNCHANGED fut
         ELSE fut' = [fut EXCEPT ![i] = "failed"]
    /\ UNCHANGED <<main, chunk_ranges, chunk_pdfs, collection, hash, output, result>>

-----------------------------------------------------------------------------
MainStep ==
    \/ DiskCheck \/ Split \/ SplitRaises \/ Submit \/ AllCollected
    \/ \E i \in 1 .. N : Collect(i) \/ CollectFailure(i)
    \/ Shutdown \/ MergeSave \/ MergeReplace \/ MergeRaises \/ Cleanup

SoftLimit == LimitWhileCollecting \/ LimitWhileWaiting

PoolStep == \E i \in 1 .. N : Take(i) \/ ChunkReturns(i) \/ ChunkRaises(i)

Done == main = "done" /\ UNCHANGED vars

Next == MainStep \/ SoftLimit \/ PoolStep \/ Done

Spec == Init /\ [][Next]_vars

\* The calling thread and the pool run; process_chunk_func and merge_func end.
FairSpec == Spec /\ WF_vars(MainStep) /\ WF_vars(PoolStep)

=============================================================================
