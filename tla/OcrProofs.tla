------------------------------- MODULE OcrProofs -------------------------------
(***************************************************************************)
(* What OcrProperties states of ocr_pdf, for documents of any length, any   *)
(* pool and any chunk size.                                                 *)
(***************************************************************************)
EXTENDS OcrProperties, FiniteSetTheorems, TLAPS

\* Before the pool is opened nothing has been rendered, submitted or built.
QuietInv ==
    main \in {"open", "classify"} =>
        todo = {} /\ chunk = {} /\ raster = {} /\ out = <<>>
        /\ \A p \in Pages : job[p] = "none" /\ ocr_results[p] = "absent"

\* A page is where the loop over the chunks has it: still to be rendered, in the
\* current chunk, or collected; a text page is in none of the three places.
PlaceInv ==
    /\ todo \subseteq ocr_targets /\ chunk \subseteq ocr_targets
    /\ \A p \in todo : job[p] = "none" /\ p \notin chunk
    /\ \A p \in Pages : job[p] = "none" \/ p \in chunk \/ ocr_results[p] # "absent"
    /\ \A p \in Pages : ocr_results[p] # "absent" => ocr_results[p] = job[p]
    /\ \A p \in text_pages : job[p] = "none"
    /\ main \in {"render", "submit", "collect", "assemble", "done"} =>
         \A p \in ocr_targets : p \in todo \/ p \in chunk \/ ocr_results[p] # "absent"

\* What the current chunk looks like in each part of the loop.
ChunkInv ==
    /\ IsFiniteSet(chunk) /\ Cardinality(chunk) <= ChunkSize
    /\ raster \subseteq chunk
    /\ main \in {"render", "submit", "collect"} => raster = chunk
    /\ main = "render" => \A p \in chunk : job[p] = "none"
    /\ main = "collect" => \A p \in chunk : job[p] # "none"
    /\ main \in {"assemble", "done"} => todo = {} /\ chunk = {}
    /\ main = "raised" => \A p \in Pages : ~Busy(p)

\* The document is built in the order of its pages.
OutInv ==
    /\ out # <<>> => main \in {"assemble", "done", "raised"}
    /\ Len(out) <= total
    /\ \A p \in 1 .. Len(out) :
        /\ out[p].page = p
        /\ out[p].how = "copied" <=> p \in text_pages
        /\ out[p].how = "searchable" <=> p \notin text_pages /\ ocr_results[p] = "read"
    /\ verdict = "completed" => main = "done"
    /\ main = "done" => Len(out) = total

IInv == TypeOK /\ QuietInv /\ PlaceInv /\ ChunkInv /\ OutInv

-----------------------------------------------------------------------------
(* Facts about the pages. *)

\* There are finitely many pages, and as many collected ones as the progress counts.
LEMMA PagesFinite ==
  ASSUME TypeOK
  PROVE  /\ total \in Nat
         /\ \A S \in SUBSET Pages : IsFiniteSet(S) /\ Cardinality(S) \in Nat
<1>1. total \in Nat
  BY DEF TypeOK, total
<1>2. IsFiniteSet(Pages)
  BY <1>1, FS_Interval DEF Pages
<1>3. ASSUME NEW S \in SUBSET Pages PROVE IsFiniteSet(S) /\ Cardinality(S) \in Nat
  BY <1>2, <1>3, FS_Subset, FS_CardinalityType
<1> QED
  BY <1>1, <1>3

\* The progress reported for a collected page is a number.
LEMMA PercentType ==
  ASSUME TypeOK, ocr_targets # {}
  PROVE  Percent(Cardinality(Collected) + 1) \in Nat
<1>1. ocr_targets \in SUBSET Pages /\ Collected \in SUBSET Pages
  BY DEF ocr_targets, Collected
<1>2. Cardinality(Collected) \in Nat /\ Cardinality(ocr_targets) \in Nat
  BY <1>1, PagesFinite
<1>3. Cardinality(ocr_targets) > 0
  BY <1>1, <1>2, PagesFinite, FS_EmptySet
<1> DEFINE c == (Cardinality(Collected) + 1) * 70
           d == Cardinality(ocr_targets)
<1>4. c \in Nat /\ d \in Nat \ {0}
  BY <1>2, <1>3
<1> HIDE DEF c, d
<1>5. c \div d \in Nat
  BY <1>4
<1> QED
  BY <1>5 DEF Percent, c, d

-----------------------------------------------------------------------------
(* The inductive invariant. *)

LEMMA InitInv == Init => IInv
<1> SUFFICES ASSUME Init PROVE IInv
  OBVIOUS
<1> USE DEF Init, Pages, total
<1>1. TypeOK
  <2>1. PICK n \in 0 .. MaxTotal : layer \in [1 .. n -> {"text", "image"}]
    OBVIOUS
  <2>2. layer \in Seq({"text", "image"})
    BY <2>1, BoundsAssumption
  <2> QED
    BY <2>2 DEF TypeOK, MainPC, Future
<1>2. IsFiniteSet(chunk) /\ Cardinality(chunk) <= ChunkSize
  BY FS_EmptySet, PoolAssumption
<1> QED
  BY <1>1, <1>2 DEF IInv, TypeOK, QuietInv, PlaceInv, ChunkInv, OutInv, ocr_targets

LEMMA NextInv == IInv /\ [Next]_vars => IInv'
<1> SUFFICES ASSUME IInv, [Next]_vars PROVE IInv'
  OBVIOUS
<1> USE DEF IInv, vars, scan, work, end, Pages, total
<1>1. CASE Refuse
  <2>1. TypeOK'
    BY <1>1, PoolAssumption DEF Refuse, Refused, TypeOK, MainPC, Future, ocr_targets
  <2>2. QuietInv'
    BY <1>1, PoolAssumption DEF Refuse, Refused, TypeOK, QuietInv
  <2>3. PlaceInv'
    BY <1>1, PoolAssumption DEF Refuse, Refused, TypeOK, QuietInv, PlaceInv, ChunkInv, ocr_targets
  <2>4. ChunkInv'
    BY <1>1, PoolAssumption DEF Refuse, Refused, TypeOK, QuietInv, PlaceInv, ChunkInv, Busy
  <2>5. OutInv'
    BY <1>1, PoolAssumption DEF Refuse, Refused, TypeOK, QuietInv, PlaceInv, OutInv, ChunkInv, ocr_targets
  <2> QED
    BY <2>1, <2>2, <2>3, <2>4, <2>5
<1>2. CASE Open
  <2>1. TypeOK'
    BY <1>2, PoolAssumption DEF Open, TypeOK, MainPC, Future, ocr_targets
  <2>2. QuietInv'
    BY <1>2, PoolAssumption DEF Open, TypeOK, QuietInv
  <2>3. PlaceInv'
    BY <1>2, PoolAssumption DEF Open, TypeOK, QuietInv, PlaceInv, ChunkInv, ocr_targets
  <2>4. ChunkInv'
    BY <1>2, PoolAssumption DEF Open, TypeOK, QuietInv, PlaceInv, ChunkInv, Busy
  <2>5. OutInv'
    BY <1>2, PoolAssumption DEF Open, TypeOK, QuietInv, PlaceInv, OutInv, ChunkInv, ocr_targets
  <2> QED
    BY <2>1, <2>2, <2>3, <2>4, <2>5
<1>3. CASE ClassifyPage
  <2>a. seen' \in 1 .. total
    <3>1. seen \in Nat /\ seen < total /\ seen' = seen + 1 /\ total \in Nat
      BY <1>3, PagesFinite DEF ClassifyPage, TypeOK
    <3> QED
      BY <3>1
  <2>b. text_pages' \in SUBSET Pages
    <3>1. text_pages' = text_pages \union {seen'} \/ text_pages' = text_pages
      BY <1>3 DEF ClassifyPage
    <3> QED
      BY <3>1, <2>a DEF TypeOK
  <2>1. TypeOK'
    <3>1. UNCHANGED <<layer, limit, main, todo, chunk, raster, job, ocr_results, progress, out, verdict>>
      BY <1>3 DEF ClassifyPage
    <3> QED
      BY <2>a, <2>b, <3>1 DEF TypeOK
  <2>2. QuietInv'
    BY <1>3, PoolAssumption DEF ClassifyPage, TypeOK, QuietInv
  <2>3. PlaceInv'
    <3>1. todo = {} /\ chunk = {} /\ \A p \in Pages : job[p] = "none" /\ ocr_results[p] = "absent"
      BY <1>3 DEF ClassifyPage, QuietInv
    <3>2. main' = "classify" /\ UNCHANGED <<layer, todo, chunk, job, ocr_results>>
      BY <1>3 DEF ClassifyPage
    <3> QED
      BY <3>1, <3>2, <2>b DEF PlaceInv, ocr_targets
  <2>4. ChunkInv'
    BY <1>3, PoolAssumption DEF ClassifyPage, TypeOK, QuietInv, PlaceInv, ChunkInv, Busy
  <2>5. OutInv'
    BY <1>3, PoolAssumption DEF ClassifyPage, TypeOK, QuietInv, PlaceInv, OutInv, ChunkInv, ocr_targets
  <2> QED
    BY <2>1, <2>2, <2>3, <2>4, <2>5
<1>4. CASE OpenPool
  <2>1. TypeOK'
    BY <1>4, PoolAssumption DEF OpenPool, TypeOK, MainPC, Future, ocr_targets
  <2>2. QuietInv'
    BY <1>4, PoolAssumption DEF OpenPool, TypeOK, QuietInv
  <2>3. PlaceInv'
    BY <1>4, PoolAssumption DEF OpenPool, TypeOK, QuietInv, PlaceInv, ChunkInv, ocr_targets
  <2>4. ChunkInv'
    BY <1>4, PoolAssumption DEF OpenPool, TypeOK, QuietInv, PlaceInv, ChunkInv, Busy
  <2>5. OutInv'
    BY <1>4, PoolAssumption DEF OpenPool, TypeOK, QuietInv, PlaceInv, OutInv, ChunkInv, ocr_targets
  <2> QED
    BY <2>1, <2>2, <2>3, <2>4, <2>5
<1>5. CASE RenderPage
  <2>1. TypeOK'
    BY <1>5, PoolAssumption DEF RenderPage, First, TypeOK, MainPC, Future, ocr_targets
  <2>2. QuietInv'
    BY <1>5, PoolAssumption DEF RenderPage, First, TypeOK, QuietInv
  <2>3. PlaceInv'
    BY <1>5, PoolAssumption DEF RenderPage, First, TypeOK, QuietInv, PlaceInv, ChunkInv, ocr_targets
  <2>4. ChunkInv'
    <3>1. PICK p \in todo : chunk' = chunk \union {p} /\ raster' = raster \union {p}
      BY <1>5 DEF RenderPage
    <3>2. Cardinality(chunk) < ChunkSize /\ Cardinality(chunk) \in Nat
      BY <1>5, FS_CardinalityType DEF RenderPage, ChunkInv
    <3>3. IsFiniteSet(chunk') /\ Cardinality(chunk') <= ChunkSize
      <4>1. IsFiniteSet(chunk)
        BY DEF ChunkInv
      <4>2. IsFiniteSet(chunk') /\ Cardinality(chunk') \in {Cardinality(chunk), Cardinality(chunk) + 1}
        BY <3>1, <4>1, FS_AddElement
      <4>. QED BY <3>2, <4>2, PoolAssumption
    <3>4. main = "render" /\ UNCHANGED <<layer, main, job>>
      BY <1>5 DEF RenderPage
    <3> QED
      BY <3>1, <3>3, <3>4 DEF ChunkInv, PlaceInv
  <2>5. OutInv'
    BY <1>5, PoolAssumption DEF RenderPage, First, TypeOK, QuietInv, PlaceInv, OutInv, ChunkInv, ocr_targets
  <2> QED
    BY <2>1, <2>2, <2>3, <2>4, <2>5
<1>6. CASE ChunkRendered
  <2>1. TypeOK'
    BY <1>6, PoolAssumption DEF ChunkRendered, TypeOK, MainPC, Future, ocr_targets
  <2>2. QuietInv'
    BY <1>6, PoolAssumption DEF ChunkRendered, TypeOK, QuietInv
  <2>3. PlaceInv'
    BY <1>6, PoolAssumption DEF ChunkRendered, TypeOK, QuietInv, PlaceInv, ChunkInv, ocr_targets
  <2>4. ChunkInv'
    BY <1>6, PoolAssumption DEF ChunkRendered, TypeOK, QuietInv, PlaceInv, ChunkInv, Busy
  <2>5. OutInv'
    BY <1>6, PoolAssumption DEF ChunkRendered, TypeOK, QuietInv, PlaceInv, OutInv, ChunkInv, ocr_targets
  <2> QED
    BY <2>1, <2>2, <2>3, <2>4, <2>5
<1>7. CASE Submit
  <2>1. TypeOK'
    BY <1>7, PoolAssumption DEF Submit, First, TypeOK, MainPC, Future, ocr_targets
  <2>2. QuietInv'
    BY <1>7, PoolAssumption DEF Submit, First, TypeOK, QuietInv
  <2>3. PlaceInv'
    <3>1. PICK p \in chunk : job[p] = "none" /\ job' = [job EXCEPT ![p] = "queued"]
      BY <1>7 DEF Submit, First
    <3>2. main = "submit" /\ main' \in {"submit", "collect"}
      BY <1>7 DEF Submit
    <3>3. UNCHANGED <<layer, text_pages, todo, chunk, ocr_results>>
      BY <1>7 DEF Submit
    <3>4. ocr_results[p] = "absent"
      BY <3>1 DEF PlaceInv, TypeOK
    <3> QED
      BY <3>1, <3>2, <3>3, <3>4 DEF PlaceInv, TypeOK, ocr_targets
  <2>4. ChunkInv'
    <3>1. PICK p \in chunk :
             /\ job' = [job EXCEPT ![p] = "queued"]
             /\ main' = IF {q \in chunk : job[q] = "none"} = {p} THEN "collect" ELSE main
      BY <1>7 DEF Submit
    <3>2. main = "submit" /\ UNCHANGED <<layer, chunk, raster>>
      BY <1>7 DEF Submit
    <3>3. main' = "collect" => \A q \in chunk : job'[q] # "none"
      BY <3>1, <3>2 DEF TypeOK
    <3> QED
      BY <3>1, <3>2, <3>3 DEF ChunkInv
  <2>5. OutInv'
    BY <1>7, PoolAssumption DEF Submit, First, TypeOK, QuietInv, PlaceInv, OutInv, ChunkInv, ocr_targets
  <2> QED
    BY <2>1, <2>2, <2>3, <2>4, <2>5
<1>8. CASE Collect
  <2>1. TypeOK'
    <3>1. PICK p \in chunk : Finished(p) /\ ocr_results' = [ocr_results EXCEPT ![p] = job[p]]
      BY <1>8 DEF Collect
    <3>2. progress' \in Nat
      BY <1>8, <3>1, PercentType DEF Collect, PlaceInv
    <3>3. ocr_results' \in [Pages -> {"absent", "read", "failed"}]
      BY <3>1 DEF Finished, TypeOK
    <3>4. UNCHANGED <<layer, limit, seen, text_pages, main, todo, chunk, raster, job, out, verdict>>
      BY <1>8 DEF Collect
    <3> QED
      BY <3>2, <3>3, <3>4 DEF TypeOK
  <2>2. QuietInv'
    BY <1>8, PoolAssumption DEF Collect, Finished, Collected, TypeOK, QuietInv
  <2>3. PlaceInv'
    BY <1>8, PoolAssumption DEF Collect, Finished, Collected, TypeOK, QuietInv, PlaceInv, ChunkInv, ocr_targets
  <2>4. ChunkInv'
    BY <1>8, PoolAssumption DEF Collect, Finished, Collected, TypeOK, QuietInv, PlaceInv, ChunkInv, Busy
  <2>5. OutInv'
    BY <1>8, PoolAssumption DEF Collect, Finished, Collected, TypeOK, QuietInv, PlaceInv, OutInv, ChunkInv, ocr_targets
  <2> QED
    BY <2>1, <2>2, <2>3, <2>4, <2>5
<1>9. CASE CloseChunk
  <2>1. TypeOK'
    BY <1>9, PoolAssumption DEF CloseChunk, Collected, TypeOK, MainPC, Future, ocr_targets
  <2>2. QuietInv'
    BY <1>9, PoolAssumption DEF CloseChunk, Collected, TypeOK, QuietInv
  <2>3. PlaceInv'
    BY <1>9, PoolAssumption DEF CloseChunk, Collected, TypeOK, QuietInv, PlaceInv, ChunkInv, ocr_targets
  <2>4. ChunkInv'
    <3>1. chunk' = {} /\ raster' = {} /\ main' = "render"
      BY <1>9 DEF CloseChunk, ChunkInv
    <3> QED
      BY <3>1, FS_EmptySet, PoolAssumption DEF ChunkInv
  <2>5. OutInv'
    BY <1>9, PoolAssumption DEF CloseChunk, Collected, TypeOK, QuietInv, PlaceInv, OutInv, ChunkInv, ocr_targets
  <2> QED
    BY <2>1, <2>2, <2>3, <2>4, <2>5
<1>10. CASE LeavePool
  <2>1. TypeOK'
    BY <1>10, PoolAssumption DEF LeavePool, TypeOK, MainPC, Future, ocr_targets
  <2>2. QuietInv'
    BY <1>10, PoolAssumption DEF LeavePool, TypeOK, QuietInv
  <2>3. PlaceInv'
    BY <1>10, PoolAssumption DEF LeavePool, TypeOK, QuietInv, PlaceInv, ChunkInv, ocr_targets
  <2>4. ChunkInv'
    BY <1>10, PoolAssumption DEF LeavePool, TypeOK, QuietInv, PlaceInv, ChunkInv, Busy
  <2>5. OutInv'
    BY <1>10, PoolAssumption DEF LeavePool, TypeOK, QuietInv, PlaceInv, OutInv, ChunkInv, ocr_targets
  <2> QED
    BY <2>1, <2>2, <2>3, <2>4, <2>5
<1>11. CASE AssemblePage
  <2>1. TypeOK'
    BY <1>11, PoolAssumption DEF AssemblePage, TypeOK, MainPC, Future, ocr_targets
  <2>2. QuietInv'
    BY <1>11, PoolAssumption DEF AssemblePage, TypeOK, QuietInv
  <2>3. PlaceInv'
    BY <1>11, PoolAssumption DEF AssemblePage, TypeOK, QuietInv, PlaceInv, ChunkInv, ocr_targets
  <2>4. ChunkInv'
    BY <1>11, PoolAssumption DEF AssemblePage, TypeOK, QuietInv, PlaceInv, ChunkInv, Busy
  <2>5. OutInv'
    BY <1>11, PoolAssumption DEF AssemblePage, TypeOK, QuietInv, PlaceInv, OutInv, ChunkInv, ocr_targets
  <2> QED
    BY <2>1, <2>2, <2>3, <2>4, <2>5
<1>12. CASE Save
  <2>1. TypeOK'
    BY <1>12, PoolAssumption DEF Save, TypeOK, MainPC, Future, ocr_targets
  <2>2. QuietInv'
    BY <1>12, PoolAssumption DEF Save, TypeOK, QuietInv
  <2>3. PlaceInv'
    BY <1>12, PoolAssumption DEF Save, TypeOK, QuietInv, PlaceInv, ChunkInv, ocr_targets
  <2>4. ChunkInv'
    BY <1>12, PoolAssumption DEF Save, TypeOK, QuietInv, PlaceInv, ChunkInv, Busy
  <2>5. OutInv'
    BY <1>12, PoolAssumption DEF Save, TypeOK, QuietInv, PlaceInv, OutInv, ChunkInv, ocr_targets
  <2> QED
    BY <2>1, <2>2, <2>3, <2>4, <2>5
<1>13a. CASE NoOutput
  <2>1. TypeOK'
    BY <1>13a, PoolAssumption DEF NoOutput, Refused, TypeOK, MainPC, Future, ocr_targets
  <2>2. QuietInv'
    BY <1>13a, PoolAssumption DEF NoOutput, Refused, TypeOK, QuietInv
  <2>3. PlaceInv'
    BY <1>13a, PoolAssumption DEF NoOutput, Refused, TypeOK, QuietInv, PlaceInv, ChunkInv, ocr_targets
  <2>4. ChunkInv'
    BY <1>13a, PoolAssumption DEF NoOutput, Refused, TypeOK, QuietInv, PlaceInv, ChunkInv, Busy
  <2>5. OutInv'
    BY <1>13a, PoolAssumption DEF NoOutput, Refused, TypeOK, QuietInv, PlaceInv, OutInv, ChunkInv, ocr_targets
  <2> QED
    BY <2>1, <2>2, <2>3, <2>4, <2>5
<1>13. CASE LeaveCall
  <2>1. TypeOK'
    BY <1>13, PoolAssumption DEF LeaveCall, TypeOK, MainPC, Future, ocr_targets
  <2>2. QuietInv'
    BY <1>13, PoolAssumption DEF LeaveCall, TypeOK, QuietInv
  <2>3. PlaceInv'
    BY <1>13, PoolAssumption DEF LeaveCall, TypeOK, QuietInv, PlaceInv, ChunkInv, ocr_targets
  <2>4. ChunkInv'
    BY <1>13, PoolAssumption DEF LeaveCall, TypeOK, QuietInv, PlaceInv, ChunkInv, Busy
  <2>5. OutInv'
    BY <1>13, PoolAssumption DEF LeaveCall, TypeOK, QuietInv, PlaceInv, OutInv, ChunkInv, ocr_targets
  <2> QED
    BY <2>1, <2>2, <2>3, <2>4, <2>5
<1>14. CASE LibraryRaises
  <2>1. TypeOK'
    BY <1>14, PoolAssumption DEF LibraryRaises, Raise, TypeOK, MainPC, Future, ocr_targets
  <2>2. QuietInv'
    BY <1>14, PoolAssumption DEF LibraryRaises, Raise, TypeOK, QuietInv
  <2>3. PlaceInv'
    BY <1>14, PoolAssumption DEF LibraryRaises, Raise, TypeOK, QuietInv, PlaceInv, ChunkInv, ocr_targets
  <2>4. ChunkInv'
    BY <1>14, PoolAssumption DEF LibraryRaises, Raise, TypeOK, QuietInv, PlaceInv, ChunkInv, Busy
  <2>5. OutInv'
    BY <1>14, PoolAssumption DEF LibraryRaises, Raise, TypeOK, QuietInv, PlaceInv, OutInv, ChunkInv, ocr_targets
  <2> QED
    BY <2>1, <2>2, <2>3, <2>4, <2>5
<1>15. CASE SoftLimit
  <2>1. TypeOK'
    BY <1>15, PoolAssumption DEF SoftLimit, Raise, Active, TypeOK, MainPC, Future, ocr_targets
  <2>2. QuietInv'
    BY <1>15, PoolAssumption DEF SoftLimit, Raise, Active, TypeOK, QuietInv
  <2>3. PlaceInv'
    BY <1>15, PoolAssumption DEF SoftLimit, Raise, Active, TypeOK, QuietInv, PlaceInv, ChunkInv, ocr_targets
  <2>4. ChunkInv'
    BY <1>15, PoolAssumption DEF SoftLimit, Raise, Active, TypeOK, QuietInv, PlaceInv, ChunkInv, Busy
  <2>5. OutInv'
    BY <1>15, PoolAssumption DEF SoftLimit, Raise, Active, TypeOK, QuietInv, PlaceInv, OutInv, ChunkInv, ocr_targets
  <2> QED
    BY <2>1, <2>2, <2>3, <2>4, <2>5
<1>16. CASE SoftLimitSwallowed
  <2>1. TypeOK'
    BY <1>16, PoolAssumption DEF SoftLimitSwallowed, TypeOK, MainPC, Future, ocr_targets
  <2>2. QuietInv'
    BY <1>16, PoolAssumption DEF SoftLimitSwallowed, TypeOK, QuietInv
  <2>3. PlaceInv'
    BY <1>16, PoolAssumption DEF SoftLimitSwallowed, TypeOK, QuietInv, PlaceInv, ChunkInv, ocr_targets
  <2>4. ChunkInv'
    BY <1>16, PoolAssumption DEF SoftLimitSwallowed, TypeOK, QuietInv, PlaceInv, ChunkInv, Busy
  <2>5. OutInv'
    BY <1>16, PoolAssumption DEF SoftLimitSwallowed, TypeOK, QuietInv, PlaceInv, OutInv, ChunkInv, ocr_targets
  <2> QED
    BY <2>1, <2>2, <2>3, <2>4, <2>5
<1>17. ASSUME NEW p \in Pages, Start(p) PROVE IInv'
  <2>1. TypeOK'
    BY <1>17, PoolAssumption DEF Start, First, TypeOK, MainPC, Future, ocr_targets
  <2>2. QuietInv'
    BY <1>17, PoolAssumption DEF Start, First, TypeOK, QuietInv
  <2>3. PlaceInv'
    BY <1>17, PoolAssumption DEF Start, First, TypeOK, QuietInv, PlaceInv, ChunkInv, ocr_targets
  <2>4. ChunkInv'
    BY <1>17, PoolAssumption DEF Start, First, TypeOK, QuietInv, PlaceInv, ChunkInv, Busy
  <2>5. OutInv'
    BY <1>17, PoolAssumption DEF Start, First, TypeOK, QuietInv, PlaceInv, OutInv, ChunkInv, ocr_targets
  <2> QED
    BY <2>1, <2>2, <2>3, <2>4, <2>5
<1>18. ASSUME NEW p \in Pages, OcrPage(p) PROVE IInv'
  <2>1. TypeOK'
    BY <1>18, PoolAssumption DEF OcrPage, TypeOK, MainPC, Future, ocr_targets
  <2>2. QuietInv'
    BY <1>18, PoolAssumption DEF OcrPage, TypeOK, QuietInv
  <2>3. PlaceInv'
    BY <1>18, PoolAssumption DEF OcrPage, TypeOK, QuietInv, PlaceInv, ChunkInv, ocr_targets
  <2>4. ChunkInv'
    BY <1>18, PoolAssumption DEF OcrPage, TypeOK, QuietInv, PlaceInv, ChunkInv, Busy
  <2>5. OutInv'
    BY <1>18, PoolAssumption DEF OcrPage, TypeOK, QuietInv, PlaceInv, OutInv, ChunkInv, ocr_targets
  <2> QED
    BY <2>1, <2>2, <2>3, <2>4, <2>5
<1>19. CASE UNCHANGED vars
  <2>1. TypeOK'
    BY <1>19, PoolAssumption DEF TypeOK, MainPC, Future, ocr_targets
  <2>2. QuietInv'
    BY <1>19, PoolAssumption DEF TypeOK, QuietInv
  <2>3. PlaceInv'
    BY <1>19, PoolAssumption DEF TypeOK, QuietInv, PlaceInv, ChunkInv, ocr_targets
  <2>4. ChunkInv'
    BY <1>19, PoolAssumption DEF TypeOK, QuietInv, PlaceInv, ChunkInv, Busy
  <2>5. OutInv'
    BY <1>19, PoolAssumption DEF TypeOK, QuietInv, PlaceInv, OutInv, ChunkInv, ocr_targets
  <2> QED
    BY <2>1, <2>2, <2>3, <2>4, <2>5
<1> QED
  BY <1>1, <1>2, <1>3, <1>4, <1>5, <1>6, <1>7, <1>8, <1>9, <1>10, <1>11, <1>12, <1>13, <1>13a, <1>14, <1>15, <1>16, <1>17, <1>18, <1>19 DEF Next, Main

\* The invariant that ties the loop over the chunks, the futures and the pages
\* built together holds for every document, pool and chunk size.
THEOREM Invariance == Spec => []IInv
  BY InitInv, NextInv, PTL DEF Spec

-----------------------------------------------------------------------------
(* What follows from it. *)

\* Every variable keeps its type.
THEOREM TypeCorrect == Spec => []TypeOK
<1>1. IInv => TypeOK
  BY DEF IInv
<1> QED
  BY <1>1, Invariance, PTL

\* A searchable document has all pages in order, each with its own words.
THEOREM PagesGetTheirText == Spec => []EveryPageGetsItsOwnText
<1>1. IInv => EveryPageGetsItsOwnText
  BY DEF IInv, TypeOK, PlaceInv, ChunkInv, OutInv, EveryPageGetsItsOwnText,
         Pages, total, ocr_targets
<1> QED
  BY <1>1, Invariance, PTL

\* At most one chunk of pages is rendered, queued or being read.
THEOREM MemoryIsBounded == Spec => []OneChunkInFlight
<1>1. IInv => OneChunkInFlight
  BY DEF IInv, TypeOK, PlaceInv, ChunkInv, OneChunkInFlight, Busy
<1> QED
  BY <1>1, Invariance, PTL

\* Nothing of the pool outlives the call.
THEOREM PoolEndsWithCall == Spec => []NoThreadOutlivesCall
<1>1. IInv => NoThreadOutlivesCall
  BY DEF IInv, TypeOK, PlaceInv, ChunkInv, NoThreadOutlivesCall, Busy
<1> QED
  BY <1>1, Invariance, PTL

\* Tesseract never reads an image that has been closed under it, but for a call
\* that is being abandoned.
THEOREM RastersStayOpen == Spec => []RasterOpenWhileRead
<1>1. IInv => RasterOpenWhileRead
  BY DEF IInv, TypeOK, QuietInv, PlaceInv, ChunkInv, RasterOpenWhileRead, MainPC, Busy
<1> QED
  BY <1>1, Invariance, PTL

=============================================================================
