----------------------------- MODULE ChunkProofs -----------------------------
(***************************************************************************)
(* chunked_pdf_processor implements SinglePass, and loses no temporary     *)
(* file, for every number of pages, chunk size, number of pool threads and *)
(* number of retries.                                                      *)
(***************************************************************************)
EXTENDS ChunkProperties, FiniteSetTheorems, TLAPS

\* The chunks cut so far are pieces of at least one page, one after the other.
CutInv ==
    /\ chunk_ranges \in Seq(PageRange)
    /\ N > 0 => chunk_ranges[1].first = 0
    /\ \A i \in 1 .. N : chunk_ranges[i].first < chunk_ranges[i].end
    /\ \A i \in 1 .. N - 1 : chunk_ranges[i].end = chunk_ranges[i + 1].first

Pooling == {"pool", "drain", "merge", "replace"}

\* Once the pool is open all the pages are cut, and the place of a chunk in
\* ordered_outs holds its own output or none; when the merge begins, all do.
OrderInv ==
    main \in Pooling =>
        /\ Start >= TotalPages
        /\ ordered_outs \in Seq(Nat) /\ Len(ordered_outs) = N
        /\ \A i \in 1 .. N :
               /\ ordered_outs[i] \in {0, i}
               /\ main \in {"merge", "replace"} => ordered_outs[i] = i

\* The outcome is decided on the way to the cleanup, not before and not again.
OutcomeInv ==
    /\ main \in MainPC
    /\ main \in {"cleanup", "done"} <=> result # "none"

IInv == CutInv /\ OrderInv /\ OutcomeInv

USE DEF N

\* The last page cut is a page of the document.
LEMMA LastCut ==
  ASSUME chunk_ranges \in Seq(PageRange), N > 0
  PROVE  chunk_ranges[N].end \in 0 .. TotalPages
<1>1. chunk_ranges[N] \in PageRange
  OBVIOUS
<1> QED
  BY <1>1 DEF PageRange

\* The next chunk is not empty and starts where the last one ended.
LEMMA NextRangeFollows ==
  ASSUME CutInv, Start < TotalPages
  PROVE  /\ NextRange \in PageRange
         /\ NextRange.first = Start
         /\ NextRange.first < NextRange.end
<1>1. /\ Start \in 0 .. TotalPages
      /\ TotalPages \in Nat \ {0} /\ ChunkSize \in Nat \ {0}
  BY SizesAssumption, LastCut DEF CutInv, Start
<1> QED
  BY <1>1 DEF NextRange, PageRange

\* Cutting a chunk keeps the chunks in a row.
LEMMA CutKept ==
  ASSUME CutInv, Start < TotalPages, chunk_ranges' = Append(chunk_ranges, NextRange)
  PROVE  CutInv'
<1>1. /\ NextRange \in PageRange /\ NextRange.first = Start
      /\ NextRange.first < NextRange.end
  BY NextRangeFollows
<1>2. /\ chunk_ranges' \in Seq(PageRange) /\ Len(chunk_ranges') = N + 1 /\ N \in Nat
      /\ chunk_ranges'[N + 1] = NextRange
      /\ \A i \in 1 .. N : chunk_ranges'[i] = chunk_ranges[i]
  BY <1>1 DEF CutInv
<1>3. chunk_ranges'[1].first = 0
  BY <1>1, <1>2 DEF CutInv, Start
<1>4. \A i \in 1 .. N + 1 : chunk_ranges'[i].first < chunk_ranges'[i].end
  BY <1>1, <1>2 DEF CutInv
<1>5. \A i \in 1 .. N : chunk_ranges'[i].end = chunk_ranges'[i + 1].first
  BY <1>1, <1>2 DEF CutInv, Start
<1> QED
  BY <1>2, <1>3, <1>4, <1>5 DEF CutInv

LEMMA IInvInit == Init => IInv
  BY DEF Init, IInv, CutInv, OrderInv, OutcomeInv, Pooling, MainPC, PageRange

LEMMA IInvStep == IInv /\ [Next]_vars => IInv'
<1> SUFFICES ASSUME IInv, [Next]_vars
             PROVE  IInv'
  OBVIOUS
<1> USE DEF IInv, Pooling, MainPC
<1>1. CASE Split
  BY <1>1, CutKept DEF Split, OrderInv, OutcomeInv
<1>2. CASE SplitRaises
  BY <1>2, CutKept DEF SplitRaises, GiveUp, OrderInv, OutcomeInv
<1>3. CASE Submit
  BY <1>3 DEF Submit, CutInv, OrderInv, OutcomeInv, Start
<1>4. ASSUME NEW i \in 1 .. N, Collect(i)
      PROVE  IInv'
  BY <1>4 DEF Collect, CutInv, OrderInv, OutcomeInv, Start
<1>5. CASE Shutdown
  BY <1>5 DEF Shutdown, GiveUp, collection, CutInv, OrderInv, OutcomeInv, Start
<1>8. CASE SoftLimit
  BY <1>8 DEF SoftLimit, LimitWhileCollecting, LimitWhileWaiting, GiveUp, CutInv, OrderInv,
              OutcomeInv, Start
<1>6. CASE \/ DiskCheck \/ AllCollected \/ MergeSave \/ MergeReplace \/ MergeRaises
           \/ Cleanup \/ Done \/ UNCHANGED vars
           \/ \E i \in 1 .. N : CollectFailure(i)
  BY <1>6 DEF DiskCheck, AllCollected, MergeSave, MergeReplace, MergeRaises, Cleanup,
              Done, CollectFailure, GiveUp, vars, collection, CutInv, OrderInv,
              OutcomeInv, Start
<1>7. CASE PoolStep
  BY <1>7 DEF PoolStep, Take, ChunkReturns, ChunkRaises, collection, CutInv, OrderInv,
              OutcomeInv, Start
<1> QED
  BY <1>1, <1>2, <1>3, <1>4, <1>5, <1>6, <1>7, <1>8 DEF Next, MainStep

\* All pages are cut and the chunks are merged in the order of the document.
LEMMA MergeTiles ==
  ASSUME IInv, main = "replace"
  PROVE  Caller!Tiles(Merged(ordered_outs))
<1>1. /\ Start >= TotalPages /\ chunk_ranges \in Seq(PageRange)
      /\ ordered_outs \in Seq(Nat) /\ Len(ordered_outs) = N
      /\ \A i \in 1 .. N : ordered_outs[i] = i
  BY DEF IInv, OrderInv, CutInv, Pooling
<1>2. Merged(ordered_outs) = chunk_ranges
  BY <1>1 DEF Merged
<1>3. N > 0 /\ chunk_ranges[N].end = TotalPages
  <2>1. N \in Nat /\ TotalPages \in Nat \ {0}
    BY <1>1, SizesAssumption
  <2>2. N > 0
    BY <1>1, <2>1 DEF Start
  <2>3. chunk_ranges[N].end \in 0 .. TotalPages
    BY <1>1, <2>2, LastCut
  <2> QED
    BY <1>1, <2>1, <2>2, <2>3 DEF Start
<1> QED
  BY <1>2, <1>3 DEF IInv, CutInv, Caller!Tiles

\* Whatever the order in which the chunks finish, are retried or fail, the call is
\* a single pass that may give up.
THEOREM ImplementsSinglePass == Spec => ActsAsSinglePass
<1>1. Init => Caller!Init
  BY DEF Init, Caller!Init
<1>2. IInv /\ [Next]_vars
        => [Caller!Succeed \/ Caller!GiveUp]_<<output, result>>
  <2> SUFFICES ASSUME IInv, [Next]_vars
               PROVE  [Caller!Succeed \/ Caller!GiveUp]_<<output, result>>
    OBVIOUS
  <2>1. CASE MergeReplace
    BY <2>1, MergeTiles DEF MergeReplace, IInv, OutcomeInv, Caller!Succeed
  <2>2. CASE DiskCheck \/ SplitRaises \/ Shutdown \/ MergeRaises \/ SoftLimit
    BY <2>2 DEF DiskCheck, SplitRaises, Shutdown, MergeRaises, SoftLimit,
                LimitWhileCollecting, LimitWhileWaiting, GiveUp, IInv, OutcomeInv,
                Caller!GiveUp
  <2>3. CASE \/ Split \/ Submit \/ AllCollected \/ MergeSave \/ Cleanup \/ Done
             \/ UNCHANGED vars
             \/ \E i \in 1 .. N : Collect(i) \/ CollectFailure(i)
    BY <2>3 DEF Split, Submit, AllCollected, MergeSave, Cleanup, Done, Collect,
                CollectFailure, vars
  <2>4. CASE PoolStep
    BY <2>4 DEF PoolStep, Take, ChunkReturns, ChunkRaises
  <2> QED
    BY <2>1, <2>2, <2>3, <2>4 DEF Next, MainStep
<1> QED
  BY <1>1, <1>2, IInvInit, IInvStep, PTL DEF Spec, ActsAsSinglePass, Caller!Spec

-----------------------------------------------------------------------------
(* The temporary files. *)

\* Each chunk has its place, so that no more are cut than there are futures.
PlaceInv ==
    \A i \in 1 .. N :
        /\ chunk_ranges[i].first = (i - 1) * ChunkSize
        /\ chunk_ranges[i].first < TotalPages
        /\ chunk_ranges[i].end \in {i * ChunkSize, TotalPages}

\* Before the pool opens there are inputs only, and each that was cut is remembered.
QuietInv ==
    main \in {"check", "split"} =>
        /\ \A i \in 1 .. MaxChunks : fut[i] = "none"
        /\ collected = {} /\ chunk_outs = <<>> /\ ~chunk_failed /\ escape = "none"
        /\ chunk_pdfs = 1 .. N
        /\ disk = {In(i) : i \in 1 .. N}

\* While the pool is open, and until the clean-up, every input is there, and every
\* output that was finished; afterwards nothing runs, unless the wait was cut short.
PoolInv ==
    /\ main \in Pooling =>
         /\ chunk_pdfs = 1 .. N
         /\ \A i \in 1 .. N : In(i) \in disk /\ (fut[i] = "done" => Out(i) \in disk)
    /\ main \notin {"pool", "drain"} /\ escape # "abandoned" => \A i \in 1 .. N : ~Busy(i)
    /\ escape = "abandoned" => main \in {"cleanup", "done"} /\ result = "false"
    /\ \A i \in 1 .. MaxChunks : fut[i] \notin {"done", "failed"} => attempts[i] <= ChunkRetry

\* An output that was handed out is that of a finished chunk and is in both lists; what
\* is merged is all of them.
OutputInv ==
    /\ \A i \in 1 .. N :
          /\ i \in collected => fut[i] \in {"done", "failed"}
          /\ i \in collected /\ fut[i] = "done" => \E k \in DOMAIN chunk_outs : chunk_outs[k] = i
          /\ main \in Pooling => (ordered_outs[i] = i => fut[i] = "done")
    /\ main = "pool" =>
         ~chunk_failed /\ escape = "none" /\ Len(chunk_outs) = Cardinality(collected)
    /\ main \in {"drain", "merge", "replace"} =>
         chunk_failed \/ escape # "none" \/ collected = 1 .. N
    /\ main \in {"merge", "replace"} => ~chunk_failed /\ escape = "none"
    /\ main = "cleanup" /\ result = "true" =>
         /\ chunk_pdfs = 1 .. N /\ Tmp \notin disk
         /\ collected = 1 .. N /\ \A i \in 1 .. N : fut[i] = "done"

FileInv == TypeOK /\ PlaceInv /\ QuietInv /\ PoolInv /\ OutputInv /\ KnownFilesDeleted

\* The names of the temporary files are all different.
LEMMA NamesDiffer ==
  /\ \A i, j : In(i) # Out(j) /\ In(i) # Tmp /\ Out(i) # Tmp
  /\ \A i, j : (In(i) = In(j) <=> i = j) /\ (Out(i) = Out(j) <=> i = j)
BY DEF In, Out, Tmp

\* What \div does, and the two facts on products it is used with.
LEMMA DivFact ==
  ASSUME NEW a \in Nat, NEW c \in Nat \ {0}
  PROVE  a \div c \in Nat /\ (a \div c) * c <= a /\ a < (a \div c + 1) * c
OBVIOUS

LEMMA ProductGrows ==
  ASSUME NEW q \in Nat, NEW m \in Nat, NEW c \in Nat \ {0}, q <= m
  PROVE  q * c <= m * c
OBVIOUS

\* As long as the n-th chunk begins inside the document, there is a future for it.
LEMMA FutureForEach ==
  ASSUME NEW n \in Nat \ {0}, (n - 1) * ChunkSize < TotalPages
  PROVE  n <= MaxChunks
<1>1. TotalPages \in Nat \ {0} /\ ChunkSize \in Nat \ {0} /\ TotalPages + ChunkSize - 1 \in Nat
  BY SizesAssumption
<1>2. MaxChunks \in Nat /\ TotalPages + ChunkSize - 1 < (MaxChunks + 1) * ChunkSize
  BY <1>1, DivFact DEF MaxChunks
<1> HIDE DEF MaxChunks
<1>3. (MaxChunks + 1) * ChunkSize = MaxChunks * ChunkSize + ChunkSize
  BY <1>1, <1>2
<1>4. MaxChunks * ChunkSize \in Nat /\ (n - 1) * ChunkSize \in Nat
  BY <1>1, <1>2
<1>5. MaxChunks * ChunkSize > (n - 1) * ChunkSize
  BY <1>1, <1>2, <1>3, <1>4
<1>6. ~(MaxChunks <= n - 1)
  BY <1>1, <1>2, <1>5, ProductGrows
<1> QED
  BY <1>2, <1>6

\* The share of at most n chunks among n is at most ninety.
LEMMA PercentType ==
  ASSUME N \in Nat \ {0}, NEW done \in Nat, done <= N
  PROVE  Percent(done) \in 0 .. 100 /\ Percent(done) <= 90
<1>1. done * 90 \in Nat /\ done * 90 <= N * 90
  OBVIOUS
<1>2. Percent(done) \in Nat /\ Percent(done) * N <= done * 90
  BY <1>1, DivFact DEF Percent
<1> DEFINE q == Percent(done)
           n == N
<1>3. q \in Nat /\ n \in Nat \ {0} /\ q * n <= n * 90
  BY <1>1, <1>2
<1> HIDE DEF q, n
<1>4. q <= 90
  <2> SUFFICES ASSUME 91 <= q PROVE FALSE
    BY <1>3
  <2>1. 91 * n <= q * n
    BY <1>3, ProductGrows
  <2>2. 91 * n = 90 * n + n /\ n * 90 = 90 * n /\ n > 0
    BY <1>3
  <2> QED
    BY <1>3, <2>1, <2>2
<1>5. q \in 0 .. 100 /\ q <= 90
  BY <1>3, <1>4
<1> QED
  BY <1>5 DEF q

\* While the splitting goes on, every chunk cut so far is of full size.
LEMMA NextPlace ==
  ASSUME CutInv, PlaceInv, Start < TotalPages
  PROVE  /\ NextRange.first = N * ChunkSize /\ NextRange.first < TotalPages
         /\ NextRange.end \in {(N + 1) * ChunkSize, TotalPages}
         /\ N + 1 <= MaxChunks
<1>1. /\ N \in Nat /\ TotalPages \in Nat \ {0} /\ ChunkSize \in Nat \ {0}
      /\ NextRange.first = Start
  BY SizesAssumption, NextRangeFollows DEF CutInv
<1>2. Start = N * ChunkSize
  BY <1>1 DEF Start, PlaceInv
<1>3. (N + 1) * ChunkSize = N * ChunkSize + ChunkSize /\ N * ChunkSize \in Nat
  BY <1>1
<1>4. NextRange.end \in {(N + 1) * ChunkSize, TotalPages}
  BY <1>2, <1>3 DEF NextRange
<1>5. N + 1 <= MaxChunks
  BY <1>1, <1>2, FutureForEach
<1> QED
  BY <1>1, <1>2, <1>4, <1>5

\* The sizes, and the members of the lists.
LEMMA Sizes ==
  ASSUME TypeOK
  PROVE  /\ N \in Nat /\ MaxChunks \in Nat /\ N <= MaxChunks /\ chunk_ranges \in Seq(PageRange)
         /\ TotalPages \in Nat \ {0} /\ ChunkSize \in Nat \ {0} /\ ChunkRetry \in Nat
<1>1. TotalPages \in Nat \ {0} /\ ChunkSize \in Nat \ {0} /\ ChunkRetry \in Nat
  BY SizesAssumption, RetryAssumption
<1>2. TotalPages + ChunkSize - 1 \in Nat
  BY <1>1
<1>3. MaxChunks \in Nat
  BY <1>1, <1>2, DivFact DEF MaxChunks
<1> QED
  BY <1>1, <1>3 DEF TypeOK

LEMMA FileInit == Init => FileInv
<1> SUFFICES ASSUME Init PROVE FileInv
  OBVIOUS
<1>1. N = 0 /\ chunk_ranges = << >> /\ ChunkRetry \in Nat /\ TotalPages \in Nat \ {0}
  BY RetryAssumption, SizesAssumption DEF Init
<1>2. MaxChunks \in Nat
  <2>1. TotalPages + ChunkSize - 1 \in Nat /\ ChunkSize \in Nat \ {0}
    BY SizesAssumption
  <2> QED
    BY <2>1, DivFact DEF MaxChunks
<1>3. TypeOK
  <2>1. chunk_ranges \in Seq(PageRange) /\ ordered_outs \in Seq(0 .. N)
        /\ chunk_outs \in Seq(1 .. N) /\ output \in Seq(PageRange)
    BY <1>1 DEF Init
  <2>2. attempts \in [1 .. MaxChunks -> 0 .. ChunkRetry + 1]
    BY <1>1, <1>2 DEF Init
  <2>3. fut \in [1 .. MaxChunks -> FutureState]
    BY DEF Init, FutureState
  <2>4. chunk_pdfs = {} /\ collected = {} /\ disk = {} /\ chunk_failed = FALSE
        /\ escape = "none" /\ hash = [progress |-> 5, status |-> "processing"] /\ result = "none" /\ main = "check"
    BY DEF Init
  <2>5. ordered_outs = << >>
    BY DEF Init
  <2>6. Len(ordered_outs) <= N /\ N <= MaxChunks
    BY <1>1, <1>2, <2>5
  <2>7. hash \in [progress : 0 .. 100, status : {"processing", "merging"}]
    BY <2>4
  <2> QED
    BY <2>1, <2>2, <2>3, <2>4, <2>6, <2>7 DEF TypeOK, MainPC, Escape
<1> QED
  BY <1>1, <1>3 DEF Init, FileInv, PlaceInv, QuietInv, PoolInv, OutputInv, Pooling,
     Busy, KnownFilesDeleted

\* A round of the split loop adds one input, which is remembered once it is saved.
LEMMA SplitFiles ==
  ASSUME IInv, FileInv, Split \/ SplitRaises
  PROVE  FileInv'
<1> USE DEF collection, pool
<1>1. /\ main = "split" /\ chunk_ranges' = Append(chunk_ranges, NextRange)
      /\ fut' = fut /\ attempts' = attempts /\ collected' = collected
      /\ ordered_outs' = ordered_outs /\ chunk_outs' = chunk_outs
      /\ chunk_failed' = chunk_failed /\ escape' = escape /\ hash' = hash /\ output' = output
  BY DEF Split, SplitRaises
<1>2. /\ N \in Nat /\ chunk_ranges \in Seq(PageRange) /\ NextRange \in PageRange
      /\ N + 1 <= MaxChunks /\ MaxChunks \in Nat
      /\ NextRange.first = N * ChunkSize /\ NextRange.first < TotalPages
      /\ NextRange.end \in {(N + 1) * ChunkSize, TotalPages}
  BY Sizes, NextRangeFollows, NextPlace DEF FileInv, IInv, Split, SplitRaises
<1> DEFINE n == N
<1>3. /\ Len(chunk_ranges') = n + 1 /\ chunk_ranges' \in Seq(PageRange)
      /\ chunk_ranges'[n + 1] = NextRange
      /\ \A i \in 1 .. n : chunk_ranges'[i] = chunk_ranges[i]
  BY <1>1, <1>2
<1>4. /\ \A i \in 1 .. MaxChunks : fut[i] = "none"
      /\ collected = {} /\ chunk_outs = << >> /\ ~chunk_failed /\ escape = "none"
      /\ chunk_pdfs = 1 .. n /\ disk = {In(i) : i \in 1 .. n}
  BY <1>1 DEF FileInv, QuietInv
<1>5. \/ /\ main' = "split" /\ result' = result
         /\ chunk_pdfs' = chunk_pdfs \cup {n + 1} /\ disk' = disk \cup {In(n + 1)}
      \/ /\ main' = "cleanup" /\ result' = "false"
         /\ chunk_pdfs' = chunk_pdfs /\ disk' \in {disk, disk \cup {In(n + 1)}}
  BY DEF Split, SplitRaises, GiveUp
<1>6. 1 .. n + 1 = (1 .. n) \cup {n + 1} /\ n \in Nat /\ n + 1 \in 1 .. MaxChunks
      /\ 1 .. n \subseteq 1 .. MaxChunks
  BY <1>2
<1> HIDE DEF n
<1>7. TypeOK'
  <2>1. /\ chunk_pdfs' \subseteq 1 .. n + 1 /\ disk' \subseteq {In(i) : i \in 1 .. n + 1}
        /\ collected' = {} /\ chunk_outs' = << >>
    BY <1>1, <1>4, <1>5, <1>6
  <2>2. ordered_outs' \in Seq(0 .. n + 1) /\ Len(ordered_outs') <= n + 1
    <3>1. ordered_outs \in Seq(0 .. n) /\ Len(ordered_outs) <= n
      BY DEF FileInv, TypeOK, n
    <3> QED
      BY <1>1, <1>6, <3>1
  <2>3. main' \in MainPC /\ result' \in {"none", "true", "false"}
    BY <1>5 DEF MainPC, FileInv, TypeOK
  <2> QED
    BY <1>1, <1>2, <1>3, <1>6, <2>1, <2>2, <2>3 DEF FileInv, TypeOK
<1>8. PlaceInv'
  <2>1. \A i \in 1 .. n : /\ chunk_ranges[i].first = (i - 1) * ChunkSize
                          /\ chunk_ranges[i].first < TotalPages
                          /\ chunk_ranges[i].end \in {i * ChunkSize, TotalPages}
    BY DEF FileInv, PlaceInv, n
  <2>2. (n + 1) - 1 = n /\ n = N
    BY <1>6 DEF n
  <2> QED
    BY <1>2, <1>3, <1>6, <2>1, <2>2 DEF PlaceInv
<1>9. QuietInv'
  BY <1>1, <1>3, <1>4, <1>5, <1>6 DEF QuietInv
<1>10. PoolInv'
  BY <1>1, <1>3, <1>4, <1>5, <1>6 DEF PoolInv, Pooling, FileInv, Busy
<1>11. OutputInv'
  <2>1. \A i : Out(i) \notin disk' /\ Tmp \notin disk'
    BY <1>4, <1>5, NamesDiffer
  <2> QED
    BY <1>1, <1>4, <1>5, <2>1 DEF OutputInv, Pooling
<1>12. KnownFilesDeleted'
  BY <1>5 DEF KnownFilesDeleted
<1> QED
  BY <1>7, <1>8, <1>9, <1>10, <1>11, <1>12 DEF FileInv

\* When all is cut the futures are submitted, one for each input.
LEMMA SubmitFiles ==
  ASSUME IInv, FileInv, Submit
  PROVE  FileInv'
<1>1. /\ main = "split" /\ chunk_ranges' = chunk_ranges
      /\ chunk_pdfs' = chunk_pdfs /\ attempts' = attempts /\ collected' = collected
      /\ chunk_outs' = chunk_outs /\ chunk_failed' = chunk_failed /\ disk' = disk
      /\ hash' = hash /\ output' = output /\ result' = result
      /\ ordered_outs' = [i \in 1 .. N |-> 0]
      /\ \/ main' = "pool" /\ escape' = escape
         \/ main' = "drain" /\ escape' = "raised"
  BY DEF Submit
<1>2. N \in Nat /\ N <= MaxChunks /\ MaxChunks \in Nat
  BY Sizes DEF FileInv
<1>3. fut' \in [1 .. MaxChunks -> {"none", "queued"}]
  BY DEF Submit, FileInv, TypeOK
<1>4. /\ \A i \in 1 .. MaxChunks : fut[i] = "none"
      /\ collected = {} /\ chunk_outs = << >> /\ ~chunk_failed /\ escape = "none"
      /\ chunk_pdfs = 1 .. N /\ disk = {In(i) : i \in 1 .. N}
  BY <1>1 DEF FileInv, QuietInv
<1>5. TypeOK'
  <2>1. ordered_outs' \in Seq(0 .. N) /\ Len(ordered_outs') = N
    BY <1>1, <1>2
  <2>2. fut' \in [1 .. MaxChunks -> FutureState]
    BY <1>3 DEF FutureState
  <2> QED
    BY <1>1, <1>2, <1>4, <2>1, <2>2 DEF FileInv, TypeOK, MainPC, Escape
<1>6. PlaceInv' /\ QuietInv' /\ KnownFilesDeleted'
  BY <1>1 DEF FileInv, PlaceInv, QuietInv, KnownFilesDeleted
<1>7. PoolInv'
  <2>1. \A i \in 1 .. MaxChunks : fut'[i] # "done" /\ attempts'[i] <= ChunkRetry
    BY <1>1, <1>3, <1>4 DEF FileInv, PoolInv
  <2> QED
    BY <1>1, <1>2, <1>4, <2>1 DEF PoolInv, Pooling
<1>8. OutputInv'
  <2>1. \A i \in 1 .. N : ordered_outs'[i] # i
    BY <1>1
  <2> QED
    BY <1>1, <1>2, <1>4, <2>1, FS_EmptySet DEF OutputInv, Pooling
<1> QED
  BY <1>5, <1>6, <1>7, <1>8 DEF FileInv

\* A report keeps the type of the hash if what it says has it.
LEMMA ReportType ==
  ASSUME hash \in [progress : 0 .. 100, status : {"processing", "merging"}],
         NEW fields \in [progress : 0 .. 100, status : {"processing", "merging"}],
         Report(fields)
  PROVE  hash' \in [progress : 0 .. 100, status : {"processing", "merging"}]
BY DEF Report

\* A chunk that is handed out had finished, and gets into both lists.
LEMMA CollectFiles ==
  ASSUME IInv, FileInv, NEW i \in 1 .. N, Collect(i)
  PROVE  FileInv'
<1>1. /\ main = "pool" /\ fut[i] = "done" /\ i \notin collected
      /\ collected' = collected \cup {i}
      /\ ordered_outs' = [ordered_outs EXCEPT ![i] = i]
      /\ chunk_outs' = Append(chunk_outs, i)
      /\ main' = main /\ chunk_ranges' = chunk_ranges /\ chunk_pdfs' = chunk_pdfs
      /\ fut' = fut /\ attempts' = attempts /\ chunk_failed' = chunk_failed
      /\ escape' = escape /\ disk' = disk /\ output' = output /\ result' = result
      /\ Report([hash EXCEPT !.progress = Percent(Len(chunk_outs'))])
  BY DEF Collect, pool
<1>2. N \in Nat \ {0} /\ N <= MaxChunks /\ MaxChunks \in Nat
  BY Sizes DEF FileInv
<1>3. /\ chunk_outs \in Seq(1 .. N) /\ ordered_outs \in Seq(0 .. N)
      /\ Len(ordered_outs) = N /\ collected \subseteq 1 .. N
      /\ hash \in [progress : 0 .. 100, status : {"processing", "merging"}]
  BY <1>1 DEF FileInv, TypeOK, IInv, OrderInv, Pooling
<1>4. /\ Len(chunk_outs') = Cardinality(collected') /\ Len(chunk_outs') <= N
      /\ Len(chunk_outs') \in Nat
  <2>1. IsFiniteSet(1 .. N) /\ Cardinality(1 .. N) = N
    <3> DEFINE n == N
    <3>1. n \in Nat \ {0}
      BY <1>2
    <3> HIDE DEF n
    <3>2. IsFiniteSet(1 .. n) /\ Cardinality(1 .. n) = n
      BY <3>1, FS_Interval
    <3> QED
      BY <3>2 DEF n
  <2>2. IsFiniteSet(collected)
    BY <1>3, <2>1, FS_Subset
  <2>3. Cardinality(collected') = Cardinality(collected) + 1
    BY <1>1, <2>2, FS_AddElement
  <2>4. collected' \subseteq 1 .. N
    BY <1>1, <1>3
  <2>5. Cardinality(collected') <= N
    BY <2>1, <2>4, FS_Subset
  <2>6. Len(chunk_outs') = Len(chunk_outs) + 1 /\ Len(chunk_outs) \in Nat
    BY <1>1, <1>3
  <2>7. Len(chunk_outs) = Cardinality(collected)
    BY <1>1 DEF FileInv, OutputInv
  <2> QED
    BY <2>3, <2>5, <2>6, <2>7
<1>5. /\ chunk_outs' \in Seq(1 .. N) /\ chunk_outs'[Len(chunk_outs) + 1] = i
      /\ Len(chunk_outs) + 1 \in DOMAIN chunk_outs'
      /\ \A k \in DOMAIN chunk_outs : k \in DOMAIN chunk_outs' /\ chunk_outs'[k] = chunk_outs[k]
  BY <1>1, <1>3
<1>6. /\ ordered_outs' \in Seq(0 .. N) /\ Len(ordered_outs') = N
      /\ \A k \in 1 .. N : k # i => ordered_outs'[k] = ordered_outs[k]
  BY <1>1, <1>2, <1>3
<1>7. hash' \in [progress : 0 .. 100, status : {"processing", "merging"}]
  <2>1. Percent(Len(chunk_outs')) \in 0 .. 100
    BY <1>2, <1>4, PercentType
  <2> DEFINE p == Percent(Len(chunk_outs'))
  <2> HIDE DEF p
  <2>2. [hash EXCEPT !.progress = p] \in [progress : 0 .. 100, status : {"processing", "merging"}]
    BY <1>3, <2>1 DEF p
  <2>3. Report([hash EXCEPT !.progress = p])
    BY <1>1 DEF p
  <2> QED
    BY <1>3, <2>2, <2>3, ReportType
<1>8. TypeOK'
  BY <1>1, <1>2, <1>3, <1>5, <1>6, <1>7 DEF FileInv, TypeOK
<1>9. PlaceInv' /\ QuietInv' /\ KnownFilesDeleted'
  BY <1>1 DEF FileInv, PlaceInv, QuietInv, KnownFilesDeleted
<1>10. PoolInv'
  BY <1>1 DEF FileInv, PoolInv, Busy
<1>11. OutputInv'
  <2>1. \A k \in 1 .. N : k \in collected' /\ fut[k] = "done" => \E m \in DOMAIN chunk_outs' : chunk_outs'[m] = k
    BY <1>1, <1>5 DEF FileInv, OutputInv
  <2>2. \A k \in 1 .. N : ordered_outs'[k] = k => fut[k] = "done"
    BY <1>1, <1>6 DEF FileInv, OutputInv, Pooling
  <2> QED
    BY <1>1, <1>4, <2>1, <2>2 DEF FileInv, OutputInv, Pooling
<1> QED
  BY <1>8, <1>9, <1>10, <1>11 DEF FileInv

\* A failed chunk ends the collecting; so do the last one and the soft limit.
LEMMA DrainFiles ==
  ASSUME IInv, FileInv,
         AllCollected \/ LimitWhileCollecting \/ \E i \in 1 .. N : CollectFailure(i)
  PROVE  FileInv'
<1>1. /\ main = "pool" /\ main' = "drain" /\ chunk_ranges' = chunk_ranges
      /\ chunk_pdfs' = chunk_pdfs /\ fut' = fut /\ attempts' = attempts
      /\ ordered_outs' = ordered_outs /\ chunk_outs' = chunk_outs /\ disk' = disk
      /\ hash' = hash /\ output' = output /\ result' = result
  BY DEF AllCollected, CollectFailure, LimitWhileCollecting, collection, pool
<1>2. \/ /\ collected' = collected /\ chunk_failed' = chunk_failed
         /\ (collected = 1 .. N /\ escape' = escape) \/ escape' = "limit"
      \/ /\ chunk_failed' = TRUE /\ escape' = escape
         /\ \E i \in 1 .. N : fut[i] = "failed" /\ collected' = collected \cup {i}
  BY DEF AllCollected, CollectFailure, LimitWhileCollecting, collection, pool
<1>3. TypeOK'
  BY <1>1, <1>2 DEF FileInv, TypeOK, MainPC, Escape
<1>4. PlaceInv' /\ QuietInv' /\ KnownFilesDeleted'
  BY <1>1 DEF FileInv, PlaceInv, QuietInv, KnownFilesDeleted
<1>5. PoolInv'
  BY <1>1, <1>2 DEF FileInv, PoolInv, Pooling
<1>6. OutputInv'
  BY <1>1, <1>2 DEF FileInv, OutputInv, Pooling
<1> QED
  BY <1>3, <1>4, <1>5, <1>6 DEF FileInv

\* What the pool threads do to the futures, the attempts and the outputs.
LEMMA PoolFiles ==
  ASSUME IInv, FileInv, PoolStep
  PROVE  FileInv'
<1>1. PICK i \in 1 .. N : Take(i) \/ ChunkReturns(i) \/ ChunkRaises(i)
  BY DEF PoolStep
<1>2. /\ main' = main /\ chunk_ranges' = chunk_ranges /\ chunk_pdfs' = chunk_pdfs
      /\ collected' = collected /\ ordered_outs' = ordered_outs /\ chunk_outs' = chunk_outs
      /\ chunk_failed' = chunk_failed /\ escape' = escape /\ hash' = hash /\ output' = output /\ result' = result
  BY <1>1 DEF Take, ChunkReturns, ChunkRaises, collection
<1>3. /\ i \in 1 .. MaxChunks /\ fut[i] \in {"queued", "running"}
      /\ N \in Nat /\ N <= MaxChunks /\ MaxChunks \in Nat
  BY <1>1, Sizes DEF Take, ChunkReturns, ChunkRaises, FileInv
<1>4. \/ main \in {"pool", "drain"} /\ escape # "abandoned"
      \/ main \in {"cleanup", "done"} /\ escape = "abandoned" /\ result = "false"
  BY <1>3 DEF FileInv, PoolInv, Busy
<1>5. /\ fut \in [1 .. MaxChunks -> FutureState]
      /\ attempts \in [1 .. MaxChunks -> 0 .. ChunkRetry + 1]
      /\ attempts[i] \in 0 .. ChunkRetry /\ ChunkRetry \in Nat
  <2>1. ChunkRetry \in Nat
    BY RetryAssumption
  <2>2. attempts[i] <= ChunkRetry
    BY <1>3 DEF FileInv, PoolInv
  <2>3. /\ fut \in [1 .. MaxChunks -> FutureState]
        /\ attempts \in [1 .. MaxChunks -> 0 .. ChunkRetry + 1]
    BY DEF FileInv, TypeOK
  <2> HIDE DEF N
  <2> QED
    BY <1>3, <2>1, <2>2, <2>3
<1>6. \A k \in 1 .. MaxChunks : k # i => fut'[k] = fut[k] /\ attempts'[k] = attempts[k]
  BY <1>1, <1>5 DEF Take, ChunkReturns, ChunkRaises
<1>7. /\ disk' \in {disk, disk \cup {Out(i)}}
      /\ \/ fut'[i] = "running" /\ attempts'[i] <= ChunkRetry
         \/ fut'[i] = "done" /\ disk' = disk \cup {Out(i)}
         \/ fut'[i] = "failed"
  <2>1. CASE Take(i)
    BY <1>3, <1>5, <2>1 DEF Take
  <2>2. CASE ChunkReturns(i)
    BY <1>3, <1>5, <2>2 DEF ChunkReturns
  <2>3. CASE ChunkRaises(i)
    BY <1>3, <1>5, <2>3 DEF ChunkRaises
  <2> QED
    BY <1>1, <2>1, <2>2, <2>3
<1>8. fut' \in [1 .. MaxChunks -> FutureState] /\ attempts' \in [1 .. MaxChunks -> 0 .. ChunkRetry + 1]
  <2>1. fut' \in [1 .. MaxChunks -> FutureState]
    BY <1>1, <1>5 DEF Take, ChunkReturns, ChunkRaises, FutureState
  <2>2. attempts' = attempts \/ attempts' = [attempts EXCEPT ![i] = @ + 1]
    BY <1>1 DEF Take, ChunkReturns, ChunkRaises
  <2>3. attempts[i] + 1 \in 0 .. ChunkRetry + 1
    BY <1>5
  <2>4. attempts' \in [1 .. MaxChunks -> 0 .. ChunkRetry + 1]
    BY <1>5, <2>2, <2>3
  <2> QED
    BY <2>1, <2>4
<1>9. TypeOK'
  <2>1. disk' \subseteq {In(k) : k \in 1 .. N} \cup {Out(k) : k \in 1 .. N} \cup {Tmp}
    BY <1>7 DEF FileInv, TypeOK
  <2> QED
    BY <1>2, <1>8, <2>1 DEF FileInv, TypeOK
<1>10. PlaceInv' /\ QuietInv'
  BY <1>2, <1>4 DEF FileInv, PlaceInv, QuietInv
<1>11. PoolInv'
  <2>1. ASSUME NEW k \in 1 .. N, main \in Pooling
        PROVE  In(k) \in disk' /\ (fut'[k] = "done" => Out(k) \in disk')
    <3>1. In(k) \in disk /\ (fut[k] = "done" => Out(k) \in disk)
      BY <2>1 DEF FileInv, PoolInv
    <3>2. k \in 1 .. MaxChunks
      BY <1>3
    <3> QED
      BY <1>6, <1>7, <3>1, <3>2
  <2>2. \A k \in 1 .. MaxChunks : fut'[k] \notin {"done", "failed"} => attempts'[k] <= ChunkRetry
    BY <1>6, <1>7 DEF FileInv, PoolInv
  <2> QED
    BY <1>2, <1>4, <2>1, <2>2 DEF FileInv, PoolInv, Pooling
<1>12. i \notin collected /\ (main \in Pooling => ordered_outs[i] # i)
  BY <1>3, <1>4 DEF FileInv, OutputInv
<1>13. OutputInv'
  <2>1. ASSUME NEW k \in 1 .. N
        PROVE  /\ main \in Pooling => (ordered_outs[k] = k => fut'[k] = "done")
               /\ k \in collected => fut'[k] = fut[k]
    <3>1. k \in 1 .. MaxChunks
      BY <1>3
    <3> QED
      BY <1>6, <1>12, <3>1 DEF FileInv, OutputInv
  <2> QED
    BY <1>2, <1>4, <2>1 DEF FileInv, OutputInv, Pooling
<1>14. KnownFilesDeleted'
  <2>1. ASSUME main = "done", NEW k \in 1 .. N, k \in collected, fut'[k] = "done"
        PROVE  Out(k) \notin disk'
    <3>1. k # i /\ k \in 1 .. MaxChunks
      BY <1>3, <1>12, <2>1
    <3>2. fut[k] = "done" /\ Out(k) \notin disk
      BY <1>6, <2>1, <3>1 DEF FileInv, KnownFilesDeleted
    <3> QED
      BY <1>7, <3>1, <3>2, NamesDiffer
  <2>2. \A k \in 1 .. N : In(k) \in disk' => In(k) \in disk
    BY <1>7, NamesDiffer
  <2> QED
    BY <1>2, <1>4, <2>1, <2>2 DEF FileInv, KnownFilesDeleted
<1> QED
  BY <1>9, <1>10, <1>11, <1>13, <1>14 DEF FileInv

\* The steps between the last chunk and the clean-up take no file but the merge's own.
LEMMA MergeFiles ==
  ASSUME IInv, FileInv,
         \/ DiskCheck \/ Shutdown \/ LimitWhileWaiting
         \/ MergeSave \/ MergeReplace \/ MergeRaises
  PROVE  FileInv'
<1>1. /\ chunk_ranges' = chunk_ranges /\ chunk_pdfs' = chunk_pdfs /\ fut' = fut
      /\ attempts' = attempts /\ collected' = collected /\ ordered_outs' = ordered_outs
      /\ chunk_outs' = chunk_outs /\ chunk_failed' = chunk_failed
  BY DEF DiskCheck, Shutdown, LimitWhileWaiting, MergeSave, MergeReplace, MergeRaises,
         collection, pool
<1>2. hash \in [progress : 0 .. 100, status : {"processing", "merging"}]
  BY DEF FileInv, TypeOK
<1>3. PlaceInv'
  BY <1>1 DEF FileInv, PlaceInv
<1>9. CASE LimitWhileWaiting
  <2>1. /\ main = "drain" /\ main' = "cleanup" /\ result' = "false" /\ escape' = "abandoned"
        /\ disk' = disk /\ hash' = hash /\ output' = output
    BY <1>9 DEF LimitWhileWaiting, GiveUp
  <2>2. TypeOK'
    BY <1>1, <2>1 DEF FileInv, TypeOK, MainPC, Escape
  <2>3. QuietInv' /\ PoolInv'
    BY <1>1, <2>1 DEF FileInv, QuietInv, PoolInv, Pooling, Busy
  <2>4. OutputInv' /\ KnownFilesDeleted'
    BY <1>1, <2>1 DEF FileInv, PoolInv, OutputInv, Pooling, Busy, KnownFilesDeleted
  <2> QED
    BY <1>3, <2>2, <2>3, <2>4 DEF FileInv
<1>4. CASE DiskCheck
  <2>1. /\ main = "check" /\ escape' = escape /\ disk' = disk /\ hash' = hash /\ output' = output
        /\ \/ main' = "split" /\ result' = result
           \/ main' = "cleanup" /\ result' = "false"
    BY <1>4 DEF DiskCheck, GiveUp, collection
  <2>2. TypeOK'
    BY <1>1, <2>1 DEF FileInv, TypeOK, MainPC
  <2>3. QuietInv' /\ PoolInv'
    BY <1>1, <2>1 DEF FileInv, QuietInv, PoolInv, Pooling, Busy
  <2>4. OutputInv' /\ KnownFilesDeleted'
    BY <1>1, <2>1 DEF FileInv, PoolInv, OutputInv, Pooling, Busy, KnownFilesDeleted
  <2> QED
    BY <1>3, <2>2, <2>3, <2>4 DEF FileInv
<1>5. CASE Shutdown
  <2>1. /\ main = "drain" /\ \A i \in 1 .. N : ~Busy(i)
        /\ disk' = disk /\ output' = output /\ escape' = escape
        /\ \/ main' = "cleanup" /\ result' = "false" /\ hash' = hash
           \/ /\ main' = "merge" /\ result' = result /\ ~chunk_failed /\ escape = "none"
              /\ Report([progress |-> 92, status |-> "merging"])
    BY <1>5 DEF Shutdown, GiveUp, collection
  <2>2. hash' \in [progress : 0 .. 100, status : {"processing", "merging"}]
    BY <1>2, <2>1, ReportType
  <2>3. TypeOK'
    BY <1>1, <2>1, <2>2 DEF FileInv, TypeOK, MainPC
  <2>4. QuietInv' /\ PoolInv'
    BY <1>1, <2>1 DEF FileInv, QuietInv, PoolInv, Pooling, Busy
  <2>5. OutputInv' /\ KnownFilesDeleted'
    BY <1>1, <2>1 DEF FileInv, PoolInv, OutputInv, Pooling, Busy, KnownFilesDeleted
  <2> QED
    BY <1>3, <2>3, <2>4, <2>5 DEF FileInv
<1>6. CASE MergeSave
  <2>1. /\ main = "merge" /\ main' = "replace" /\ escape' = escape /\ disk' = disk \cup {Tmp}
        /\ hash' = hash /\ output' = output /\ result' = result
    BY <1>6 DEF MergeSave, collection
  <2>2. TypeOK'
    BY <1>1, <2>1 DEF FileInv, TypeOK, MainPC
  <2>3. \A i : Out(i) \in disk' => Out(i) \in disk
    BY <2>1, NamesDiffer
  <2>4. QuietInv' /\ PoolInv'
    BY <1>1, <2>1, <2>3 DEF FileInv, QuietInv, PoolInv, Pooling, Busy
  <2>5. OutputInv' /\ KnownFilesDeleted'
    BY <1>1, <2>1, <2>3 DEF FileInv, PoolInv, OutputInv, Pooling, Busy, KnownFilesDeleted
  <2> QED
    BY <1>3, <2>2, <2>4, <2>5 DEF FileInv
<1>7. CASE MergeReplace
  <2>1. /\ main = "replace" /\ main' = "cleanup" /\ escape' = escape /\ disk' = disk \ {Tmp}
        /\ output' = Merged(ordered_outs) /\ result' = "true"
        /\ Report([hash EXCEPT !.progress = 100])
    BY <1>7 DEF MergeReplace, collection
  <2>2. hash' \in [progress : 0 .. 100, status : {"processing", "merging"}]
    <3>1. [hash EXCEPT !.progress = 100] \in [progress : 0 .. 100, status : {"processing", "merging"}]
      BY <1>2
    <3> QED
      BY <1>2, <2>1, <3>1, ReportType
  <2>3. Merged(ordered_outs) = chunk_ranges
    BY <2>1 DEF IInv, OrderInv, CutInv, Pooling, Merged
  <2>4. TypeOK'
    BY <1>1, <2>1, <2>2, <2>3 DEF FileInv, TypeOK, MainPC
  <2>5. QuietInv' /\ PoolInv'
    BY <1>1, <2>1 DEF FileInv, QuietInv, PoolInv, Pooling, Busy
  <2>6. /\ chunk_pdfs = 1 .. N /\ collected = 1 .. N /\ Tmp \notin disk'
        /\ \A i \in 1 .. N : fut[i] = "done"
    <3>1. \A i \in 1 .. N : ordered_outs[i] = i
      BY <2>1 DEF IInv, OrderInv, Pooling
    <3> QED
      BY <2>1, <3>1 DEF FileInv, PoolInv, OutputInv, Pooling
  <2>7. OutputInv' /\ KnownFilesDeleted'
    BY <1>1, <2>1, <2>6 DEF FileInv, OutputInv, Pooling, KnownFilesDeleted
  <2> QED
    BY <1>3, <2>4, <2>5, <2>7 DEF FileInv
<1>8. CASE MergeRaises
  <2>1. /\ main \in {"merge", "replace"} /\ main' = "cleanup" /\ escape' = escape /\ disk' \subseteq disk
        /\ hash' = hash /\ output' = output /\ result' = "false"
    BY <1>8 DEF MergeRaises, GiveUp, collection
  <2>2. TypeOK'
    BY <1>1, <2>1 DEF FileInv, TypeOK, MainPC
  <2>3. QuietInv' /\ PoolInv'
    BY <1>1, <2>1 DEF FileInv, QuietInv, PoolInv, Pooling, Busy
  <2>4. OutputInv' /\ KnownFilesDeleted'
    BY <1>1, <2>1 DEF FileInv, PoolInv, OutputInv, Pooling, Busy, KnownFilesDeleted
  <2> QED
    BY <1>3, <2>2, <2>3, <2>4 DEF FileInv
<1> QED
  BY <1>4, <1>5, <1>6, <1>7, <1>8, <1>9

\* The clean-up takes every input that is remembered and every output that was handed
\* out; after a success that is all there is.
LEMMA CleanupFiles ==
  ASSUME IInv, FileInv, Cleanup
  PROVE  FileInv'
<1>1. /\ main = "cleanup" /\ main' = "done" /\ chunk_ranges' = chunk_ranges
      /\ chunk_pdfs' = chunk_pdfs /\ fut' = fut
      /\ attempts' = attempts /\ collected' = collected /\ ordered_outs' = ordered_outs
      /\ chunk_outs' = chunk_outs /\ chunk_failed' = chunk_failed /\ escape' = escape /\ hash' = hash
      /\ output' = output /\ result' = result
      /\ disk' = disk \ ({In(i) : i \in chunk_pdfs} \cup {Out(chunk_outs[k]) : k \in DOMAIN chunk_outs})
  BY DEF Cleanup, collection, pool
<1>2. TypeOK'
  BY <1>1 DEF FileInv, TypeOK, MainPC
<1>3. PlaceInv' /\ QuietInv' /\ PoolInv'
  BY <1>1 DEF FileInv, PlaceInv, QuietInv, PoolInv, Pooling, Busy
<1>4. OutputInv'
  BY <1>1 DEF FileInv, OutputInv, Pooling
<1>5. ASSUME NEW i \in 1 .. N, i \in collected, fut[i] = "done" PROVE Out(i) \notin disk'
  <2>1. PICK k \in DOMAIN chunk_outs : chunk_outs[k] = i
    BY <1>5 DEF FileInv, OutputInv
  <2> QED
    BY <1>1, <2>1
<1>6. ASSUME result = "true" PROVE disk' = {}
  <2>1. /\ chunk_pdfs = 1 .. N /\ Tmp \notin disk
        /\ collected = 1 .. N /\ \A i \in 1 .. N : fut[i] = "done"
    BY <1>1, <1>6 DEF FileInv, OutputInv
  <2>2. disk \subseteq {In(i) : i \in 1 .. N} \cup {Out(i) : i \in 1 .. N} \cup {Tmp}
    BY DEF FileInv, TypeOK
  <2>3. \A i \in 1 .. N : Out(i) \notin disk'
    BY <1>5, <2>1
  <2> QED
    BY <1>1, <2>1, <2>2, <2>3
<1>7. KnownFilesDeleted'
  BY <1>1, <1>5, <1>6 DEF KnownFilesDeleted
<1> QED
  BY <1>2, <1>3, <1>4, <1>7 DEF FileInv

\* The call never loses track of a file: this needs the places of the chunks, so that
\* every one has a future, and the order of the steps of the call.
THEOREM FileInvariance == Spec => [](IInv /\ FileInv)
<1>1. Init => IInv /\ FileInv
  BY IInvInit, FileInit
<1>2. IInv /\ FileInv /\ [Next]_vars => IInv' /\ FileInv'
  <2> SUFFICES ASSUME IInv, FileInv, [Next]_vars
               PROVE  FileInv'
    BY IInvStep
  <2>1. CASE MainStep
    <3>1. ASSUME NEW i \in 1 .. N, Collect(i) PROVE FileInv'
      BY <3>1, CollectFiles
    <3> QED
      BY <2>1, <3>1, SplitFiles, SubmitFiles, DrainFiles, MergeFiles, CleanupFiles DEF MainStep
  <2>2. CASE PoolStep
    BY <2>2, PoolFiles
  <2>3. CASE UNCHANGED vars
    <3> USE DEF vars, pool, collection
    <3>1. TypeOK'
      BY <2>3 DEF FileInv, TypeOK
    <3>2. PlaceInv' /\ QuietInv' /\ KnownFilesDeleted'
      BY <2>3 DEF FileInv, PlaceInv, QuietInv, KnownFilesDeleted
    <3>3. PoolInv' /\ OutputInv'
      BY <2>3 DEF FileInv, PoolInv, OutputInv, Pooling, Busy
    <3> QED
      BY <3>1, <3>2, <3>3 DEF FileInv
  <2>4. CASE SoftLimit
    BY <2>4, DrainFiles, MergeFiles DEF SoftLimit
  <2> QED
    BY <2>1, <2>2, <2>3, <2>4 DEF Next, Done
<1> QED
  BY <1>1, <1>2, PTL DEF Spec

\* Every variable has its type; no chunk is cut that has no future.
THEOREM TypeCorrect == Spec => []TypeOK
<1>1. FileInv => TypeOK
  BY DEF FileInv
<1> QED
  BY <1>1, FileInvariance, PTL

\* Pool threads and the merge find the files they read.
THEOREM ReadersAreServed == Spec => []ReadersFindTheirFiles
<1>1. IInv /\ FileInv => ReadersFindTheirFiles
  <2> SUFFICES ASSUME IInv, FileInv PROVE ReadersFindTheirFiles
    OBVIOUS
  <2>1. ASSUME NEW i \in 1 .. N, escape # "abandoned", Busy(i) PROVE In(i) \in disk
    BY <2>1 DEF FileInv, PoolInv, Pooling
  <2>2. ASSUME NEW i \in 1 .. N, main \in {"merge", "replace"} PROVE Out(i) \in disk
    <3>1. main \in Pooling
      BY <2>2 DEF Pooling
    <3>2. ordered_outs[i] = i
      BY <2>2, <3>1 DEF IInv, OrderInv
    <3> QED
      BY <3>1, <3>2 DEF FileInv, PoolInv, OutputInv
  <2> QED
    BY <2>1, <2>2 DEF ReadersFindTheirFiles
<1> QED
  BY <1>1, FileInvariance, PTL

\* The finally clause deletes all it knows of: the inputs that were saved and the
\* outputs that were collected; after a success that is every temporary file.
THEOREM KnownFilesAreDeleted == Spec => []KnownFilesDeleted
<1>1. FileInv => KnownFilesDeleted
  BY DEF FileInv
<1> QED
  BY <1>1, FileInvariance, PTL

-----------------------------------------------------------------------------
(* The reported progress. *)

\* One more chunk is no smaller a share.
LEMMA PercentGrows ==
  ASSUME N \in Nat \ {0}, NEW done \in Nat
  PROVE  Percent(done) \in Nat /\ Percent(done + 1) \in Nat /\ Percent(done) <= Percent(done + 1)
<1> DEFINE a == done * 90
           b == (done + 1) * 90
           q == Percent(done)
           r == Percent(done + 1)
           n == N
<1>1. a \in Nat /\ b \in Nat /\ a <= b
  OBVIOUS
<1>2. q \in Nat /\ q * n <= a
  BY <1>1, DivFact DEF Percent
<1>3. r \in Nat /\ b < (r + 1) * n
  BY <1>1, DivFact DEF Percent
<1>4. n \in Nat \ {0}
  OBVIOUS
<1> HIDE DEF a, b, q, r, n
<1>5. q <= r
  <2> SUFFICES ASSUME r + 1 <= q PROVE FALSE
    BY <1>2, <1>3
  <2>1. (r + 1) * n <= q * n
    BY <1>2, <1>3, <1>4, ProductGrows
  <2>2. (r + 1) * n \in Nat /\ q * n \in Nat
    BY <1>2, <1>3, <1>4
  <2> QED
    BY <1>1, <1>2, <1>3, <2>1, <2>2
<1> QED
  BY <1>2, <1>3, <1>5 DEF q, r

\* Until the chunks are in, the hash has the 5 it began with or a share reported
\* for no more chunks than those.
ProgressInv ==
    /\ main \in {"check", "split"} => hash.progress = 5
    /\ main \in {"pool", "drain"} =>
         \/ hash.progress = 5
         \/ hash.progress <= 90 /\ hash.progress <= Percent(Len(chunk_outs))

\* The share that is reported with a chunk.
LEMMA NextShare ==
  ASSUME IInv, FileInv, NEW i \in 1 .. N, Collect(i)
  PROVE  LET now  == Percent(Len(chunk_outs))
             then == Percent(Len(chunk_outs'))
         IN  now \in Nat /\ then \in Nat /\ now <= then /\ then <= 90
<1>1. N \in Nat \ {0} /\ chunk_outs \in Seq(1 .. N) /\ chunk_outs' = Append(chunk_outs, i)
  BY Sizes DEF FileInv, TypeOK, Collect
<1>2. Len(chunk_outs) \in Nat /\ Len(chunk_outs') = Len(chunk_outs) + 1
  BY <1>1
<1>3. Len(chunk_outs') <= N
  <2>1. FileInv' /\ main' = "pool" /\ chunk_ranges' = chunk_ranges
    BY CollectFiles DEF Collect
  <2>2. Len(chunk_outs') = Cardinality(collected') /\ collected' \in SUBSET (1 .. N)
    BY <2>1 DEF FileInv, OutputInv, TypeOK
  <2> DEFINE n == N
  <2>3. n \in Nat
    BY <1>1
  <2>4. collected' \in SUBSET (1 .. n)
    BY <2>2
  <2> HIDE DEF n
  <2>5. Cardinality(collected') <= n
    <3>1. IsFiniteSet(1 .. n) /\ Cardinality(1 .. n) = n
      BY <2>3, FS_Interval
    <3> QED
      BY <2>4, <3>1, FS_Subset
  <2> QED
    BY <2>2, <2>5 DEF n
<1>4. Percent(Len(chunk_outs')) <= 90
  BY <1>1, <1>2, <1>3, PercentType
<1>5. /\ Percent(Len(chunk_outs)) \in Nat /\ Percent(Len(chunk_outs) + 1) \in Nat
      /\ Percent(Len(chunk_outs)) <= Percent(Len(chunk_outs) + 1)
  BY <1>1, <1>2, PercentGrows
<1> QED
  BY <1>2, <1>4, <1>5

\* Every step keeps that, and reports nothing smaller, unless the hash has the 5.
LEMMA ProgressStep ==
  ASSUME IInv, FileInv, ProgressInv, [Next]_vars
  PROVE  ProgressInv' /\ (hash.progress # 5 => hash'.progress >= hash.progress)
<1> DEFINE p == hash.progress
           q == hash'.progress
           now  == Percent(Len(chunk_outs))
           then == Percent(Len(chunk_outs'))
           Goal == ProgressInv' /\ (p # 5 => q >= p)
<1>1. hash \in [progress : 0 .. 100, status : {"processing", "merging"}] /\ p \in 0 .. 100
  BY DEF FileInv, TypeOK
<1>2. ProgressInv <=>
        /\ main \in {"check", "split"} => p = 5
        /\ main \in {"pool", "drain"} => p = 5 \/ (p <= 90 /\ p <= now)
  BY DEF ProgressInv
<1>3. chunk_ranges' = chunk_ranges =>
        (ProgressInv' <=>
           /\ main' \in {"check", "split"} => q = 5
           /\ main' \in {"pool", "drain"} => q = 5 \/ (q <= 90 /\ q <= then))
  BY DEF ProgressInv, Percent
<1> HIDE DEF p, q, now, then
<1>4. ASSUME NEW i \in 1 .. N, Collect(i) PROVE Goal
  <2>1. /\ main = "pool" /\ main' = "pool" /\ chunk_ranges' = chunk_ranges
        /\ Report([hash EXCEPT !.progress = then])
    BY <1>4 DEF Collect, then
  <2>2. now \in Nat /\ then \in Nat /\ now <= then /\ then <= 90
    BY <1>4, NextShare DEF now, then
  <2>3. q = then \/ q = p
    BY <1>1, <2>1 DEF Report, p, q
  <2>4. p = 5 \/ p <= now
    BY <1>2, <2>1
  <2>5. p # 5 => q >= p
    BY <1>1, <2>2, <2>3, <2>4
  <2>6. q = 5 \/ (q <= 90 /\ q <= then)
    BY <1>1, <2>2, <2>3, <2>4
  <2> QED
    BY <1>3, <2>1, <2>5, <2>6
<1>5. ASSUME Shutdown PROVE Goal
  <2>1. /\ main = "drain" /\ main' \in {"merge", "cleanup"} /\ chunk_ranges' = chunk_ranges
        /\ Report([progress |-> 92, status |-> "merging"]) \/ hash' = hash
    BY <1>5 DEF Shutdown, GiveUp
  <2>2. q \in {92, p}
    BY <2>1 DEF Report, p, q
  <2>3. p <= 90
    BY <1>1, <1>2, <2>1
  <2>4. q >= p
    BY <1>1, <2>2, <2>3
  <2> QED
    BY <1>3, <2>1, <2>4
<1>6. ASSUME MergeReplace PROVE Goal
  <2>1. /\ main' = "cleanup" /\ chunk_ranges' = chunk_ranges
        /\ Report([hash EXCEPT !.progress = 100])
    BY <1>6 DEF MergeReplace
  <2>2. q \in {100, p}
    BY <1>1, <2>1 DEF Report, p, q
  <2>3. q >= p
    BY <1>1, <2>2
  <2> QED
    BY <1>3, <2>1, <2>3
<1>7. ASSUME hash' = hash, chunk_outs' = chunk_outs, chunk_ranges' = chunk_ranges,
             \/ main' = main
             \/ main' \notin {"check", "split", "pool", "drain"}
             \/ main \in {"check", "split"} /\ main' \in {"split", "pool", "drain"}
             \/ main = "pool" /\ main' = "drain"
      PROVE  Goal
  <2>1. q = p /\ then = now
    BY <1>7 DEF Percent, p, q, now, then
  <2>2. q >= p
    BY <1>1, <2>1
  <2> QED
    BY <1>2, <1>3, <1>7, <2>1, <2>2
<1>8. ASSUME Split \/ SplitRaises PROVE Goal
  <2>1. /\ main = "split" /\ main' \in {"split", "cleanup"} /\ hash' = hash
    BY <1>8 DEF Split, SplitRaises, GiveUp
  <2>2. ProgressInv'
    BY <1>2, <2>1 DEF ProgressInv, p
  <2>3. q = p
    BY <2>1 DEF p, q
  <2> QED
    BY <1>1, <2>2, <2>3
<1> HIDE DEF Goal
<1>9. ASSUME DiskCheck \/ Submit \/ AllCollected \/ MergeSave \/ MergeRaises \/ Cleanup PROVE Goal
  <2>1. ASSUME DiskCheck \/ Submit \/ AllCollected PROVE Goal
    BY <1>7, <2>1 DEF DiskCheck, Submit, AllCollected, GiveUp, collection
  <2>2. ASSUME MergeSave \/ MergeRaises \/ Cleanup PROVE Goal
    BY <1>7, <2>2 DEF MergeSave, MergeRaises, Cleanup, GiveUp, collection
  <2> QED
    BY <1>9, <2>1, <2>2
<1>10. ASSUME NEW i \in 1 .. N, CollectFailure(i) PROVE Goal
  <2> QED
    BY <1>7, <1>10 DEF CollectFailure
<1>12. ASSUME SoftLimit PROVE Goal
  <2> QED
    BY <1>7, <1>12 DEF SoftLimit, LimitWhileCollecting, LimitWhileWaiting, GiveUp
<1>11. ASSUME PoolStep \/ Done \/ UNCHANGED vars PROVE Goal
  <2> QED
    BY <1>7, <1>11 DEF PoolStep, Take, ChunkReturns, ChunkRaises, Done, vars, collection
<1> QED
  BY <1>4, <1>5, <1>6, <1>8, <1>9, <1>10, <1>11, <1>12
     DEF Next, MainStep, Goal, p, q

\* Whatever reports Redis loses and in whatever order the chunks end, the progress a
\* client reads goes back at most once: from the 5 of the job's start.
THEOREM ProgressNeverDrops == Spec => ProgressForward
<1>1. Init => ProgressInv
  BY DEF Init, ProgressInv
<1>2. IInv /\ FileInv /\ ProgressInv /\ [Next]_vars => ProgressInv'
  BY ProgressStep
<1>3. IInv /\ FileInv /\ ProgressInv /\ [Next]_vars
        => [hash.progress # 5 => hash'.progress >= hash.progress]_vars
  BY ProgressStep
<1> QED
  BY <1>1, <1>2, <1>3, FileInvariance, PTL DEF Spec, ProgressForward

=============================================================================
