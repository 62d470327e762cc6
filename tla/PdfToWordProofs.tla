---------------------------- MODULE PdfToWordProofs ----------------------------
(* Proofs about pdf_to_word, for documents of any length and any thresholds. *)
EXTENDS PdfToWordProperties, TLAPS

\* Where the call may be with which converter and which kind of document.
RouteInv ==
    /\ main \in {"open", "docling", "ocr", "collect", "single", "chunk", "compose", "append"}
          => engine = "none" /\ mode = "own"
    /\ main \in {"open", "docling", "collect", "single", "chunk", "compose"} => output = Absent
    /\ main = "check" => output.file # "torn"
    /\ main \in {"compose", "append"} => ci > 0
    /\ main \in {"check", "save", "unlink"} => engine = "pdf2docx"
    /\ main \in {"pass", "edit", "put", "store"} => engine # "none"
    /\ main \in {"edit", "put", "store"} => n <= Len(Passes)
    /\ main = "check" => n = 1
    /\ main \in {"open", "docling", "ocr", "collect", "single"} => ci = 0 /\ chunks = {}
    /\ main \in {"open", "docling", "ocr"} => ~vg_src
    /\ engine \in {"docling", "ocr"} => ~vg_src /\ mode = "own" /\ ci = 0 /\ chunks = {}
    /\ main = "store" => mode = "own"
    /\ main = "save" => mode = "live"
    /\ verdict = "completed" => main = "done" /\ engine # "none"
    /\ main = "done" => verdict = "completed"

\* The temporary directory belongs to the three steps that use it.
ScratchInv ==
    /\ "chunks" \in scratch => main \in {"chunk", "compose", "append"}
    /\ main = "done" /\ vg_src => "redacted" \notin scratch

\* What a pass with a document of its own has taken out is never in the file.
LossInv ==
    mode = "own" =>
        /\ output.doc.lost = {}
        /\ main \in {"edit", "store"} => doc.lost = {}
        /\ main = "put" => doc.lost \subseteq {Pass.name}

\* The text of every page the answer is going to count is in the file, and in the
\* document in memory, unless a library made nothing of the page.
TextInv ==
    /\ engine # "none" /\ output.file = "whole" => HasText(output.doc.pages)
    /\ main \in {"edit", "put", "store"} => HasText(doc.pages)
    /\ mode = "live" => HasText(doc.pages)

\* While the chunks are converted, every page up to the last chunk tried is in a chunk
\* that gave a file or in one that did not; all chunks are tried before they are merged.
ChunkInv ==
    main \in {"chunk", "compose", "append"} =>
        /\ \A p \in Pages : p <= ci * ChunkSize => p \in ChunkedPages \/ p \in refused
        /\ main # "chunk" => ci = n_chunks

IInv == TypeOK /\ RouteInv /\ ScratchInv /\ LossInv /\ TextInv

\* Every converter has its passes.
LEMMA PassesLen == (\A e : Len(PassesOf(e)) \in Nat) /\ Len(PassesOf("none")) = 0
BY DEF PassesOf, WordPasses

\* What takes text out is one of three passes.
LEMMA TakingPasses ==
  \A e : \A i \in 1 .. Len(PassesOf(e)) :
      PassesOf(e)[i].takes => PassesOf(e)[i].name \in Moving
BY DEF PassesOf, WordPasses, Moving, RepairDocx, ReflowDocx, SplitHeaderDocx, RecoverRulesDocx,
       FixSuperscriptsDocx, SemanticDocx, RecoverHyperlinks, HybridOcrDocx,
       RecoverHeadersFooters, FixRtlDocx, RecoverFormFields, FixPageGeometry, MapFontsDocx,
       VgInsert

\* A pass changes parts of a document.
LEMMA DocParts ==
  ASSUME NEW d \in Documents
  PROVE  /\ \A x : [d EXCEPT !.lost = x] = [pages |-> d.pages, lost |-> x, art |-> d.art]
         /\ \A x : [d EXCEPT !.art = x] = [pages |-> d.pages, lost |-> d.lost, art |-> x]
         /\ d.pages \subseteq Pages /\ d.lost \subseteq Moving /\ d.art \in Artwork
BY DEF Documents

LEMMA InitInv == Init => IInv
<1> SUFFICES ASSUME Init PROVE IInv
  OBVIOUS
<1>1. Blank \in Documents /\ Blank.lost = {}
  BY DEF Blank, NewDoc, Documents, Artwork
<1>2. TypeOK
  <2>1. 1 \in 1 .. Len(PassesOf("none")) + 1
    BY PassesLen
  <2>2. pdf.pages \in 1 .. MaxPages
    BY DEF Init
  <2>3. output \in [file : {"absent", "whole", "torn"}, doc : Documents]
    BY <1>1 DEF Init, Absent
  <2> QED
    BY <1>1, <2>1, <2>2, <2>3 DEF Init, TypeOK, MainPC, Passes
<1>3. RouteInv /\ ScratchInv /\ LossInv /\ TextInv
  BY <1>1 DEF Init, RouteInv, ScratchInv, LossInv, TextInv, Absent
<1> QED
  BY <1>2, <1>3 DEF IInv

\* What \div does.
LEMMA Division ==
  ASSUME NEW a \in Nat, NEW c \in Nat \ {0}
  PROVE  a \div c \in Nat /\ (a \div c) * c <= a /\ a < (a \div c + 1) * c
  OBVIOUS

\* The last chunk ends at or after the last page.
LEMMA AllPagesTried == TypeOK => \A p \in Pages : p <= n_chunks * ChunkSize
<1> SUFFICES ASSUME TypeOK, NEW p \in Pages PROVE p <= n_chunks * ChunkSize
  OBVIOUS
<1>1. pdf.pages \in Nat /\ p \in Nat /\ p <= pdf.pages
  BY PageCountsAssumption DEF TypeOK, Pages
<1>2. ChunkSize \in Nat \ {0}
  BY PageCountsAssumption
<1> DEFINE a == pdf.pages + ChunkSize - 1
           q == a \div ChunkSize
<1>3. a \in Nat
  BY <1>1, <1>2
<1>4. q \in Nat /\ a < (q + 1) * ChunkSize
  BY <1>2, <1>3, Division
<1>5. (q + 1) * ChunkSize = q * ChunkSize + ChunkSize /\ q * ChunkSize \in Int
  BY <1>2, <1>4
<1>6. q = n_chunks
  BY DEF n_chunks
<1> HIDE DEF q
<1> QED
  BY <1>1, <1>2, <1>4, <1>5, <1>6

\* A chunk that is tried gives a file or is refused; no other step touches the chunks
\* while they are converted.
LEMMA ChunkStep == IInv /\ ChunkInv /\ [Next]_vars => ChunkInv'
<1> SUFFICES ASSUME IInv, ChunkInv, [Next]_vars PROVE ChunkInv'
  OBVIOUS
<1> USE DEF conversion, work
<1>1. CASE ConvertChunk
  <2>1. /\ main = "chunk" /\ main' = main /\ pdf' = pdf /\ ci' = ci + 1
        /\ \/ chunks' = chunks \union {ci'} /\ refused' = refused
           \/ refused' = refused \union PagesOf(ci') /\ chunks' = chunks
    BY <1>1 DEF ConvertChunk
  <2>2. ci \in Nat /\ ChunkSize \in Nat
    BY PageCountsAssumption DEF IInv, TypeOK
  <2>3. ASSUME NEW p \in Pages, p <= ci' * ChunkSize
        PROVE  p \in ChunkedPages' \/ p \in refused'
    <3>1. CASE p <= ci * ChunkSize
      <4>1. p \in ChunkedPages \/ p \in refused
        BY <2>1, <3>1 DEF ChunkInv
      <4> QED
        BY <2>1, <4>1 DEF ChunkedPages, PagesOf, Pages
    <3>2. CASE ~(p <= ci * ChunkSize)
      <4>1. p \in Nat /\ ci * ChunkSize \in Nat
        BY <2>2 DEF Pages
      <4>2. ci' - 1 = ci
        BY <2>1, <2>2
      <4>3. p \in PagesOf(ci')
        BY <2>3, <3>2, <4>1, <4>2 DEF PagesOf
      <4> QED
        BY <2>1, <4>3 DEF ChunkedPages, PagesOf, Pages
    <3> QED
      BY <3>1, <3>2
  <2> QED
    BY <2>1, <2>3 DEF ChunkInv, Pages
<1>2. CASE StartChunks
  <2>1. main' = "chunk" /\ pdf' = pdf /\ ci' = 0
    BY <1>2 DEF StartChunks, GoTo, IInv, RouteInv
  <2>2. \A p \in Pages' : ~(p <= ci' * ChunkSize)
    BY <2>1, PageCountsAssumption DEF Pages
  <2> QED
    BY <2>1, <2>2 DEF ChunkInv
<1>3. CASE ChunksConverted \/ ComposeFails
  <2>1. /\ main \in {"chunk", "compose"} /\ ci = n_chunks
        /\ UNCHANGED <<pdf, ci, chunks, refused>>
    BY <1>3 DEF ChunksConverted, ComposeFails, ChunkInv
  <2> QED
    BY <2>1 DEF ChunkInv, ChunkedPages, PagesOf, Pages, n_chunks
<1>4. CASE ~(ConvertChunk \/ StartChunks \/ ChunksConverted \/ ComposeFails)
  <2>1. \/ main' \notin {"chunk", "compose", "append"}
        \/ UNCHANGED vars
    <3>1. CASE Convert
      BY <1>4, <3>1 DEF Convert, Route, Docling, DoclingFails, Ocr, OcrFails, Collect, Single,
                        Merge, AppendFails, ConversionFails, Check, GoTo, Fails
    <3>2. CASE Finish
      BY <3>2 DEF Finish, BadLanguage, OpenDoc, Edit, TakeOut, PutBack, Skipped, Store,
                  PassesDone, Save, Unlink, EndPass, NextPass, GoTo, Fails, Returned
    <3>3. CASE Raised
      BY <3>3 DEF Raised, Fails
    <3> QED
      BY <3>1, <3>2, <3>3 DEF Next
  <2>2. CASE UNCHANGED vars
    BY <2>2 DEF vars, ChunkInv, ChunkedPages, PagesOf, Pages, n_chunks
  <2> QED
    BY <2>1, <2>2 DEF ChunkInv
<1> QED
  BY <1>1, <1>2, <1>3, <1>4

LEMMA NextInv == IInv /\ ChunkInv /\ [Next]_vars => IInv'
<1> SUFFICES ASSUME IInv, ChunkInv, [Next]_vars PROVE IInv'
  OBVIOUS
<1> USE DEF IInv, conversion, work
<1>1. CASE Route
  <2>0. TypeOK'
    BY <1>1, PageCountsAssumption, PassesLen DEF Route, GoTo, Absent, Blank, NewDoc, TypeOK,
       RouteInv, Documents, Artwork, MainPC, Pages, Passes, Moving
  <2>1. RouteInv'
    BY <1>1, PassesLen DEF Route, GoTo, Absent, Blank, NewDoc, TypeOK, RouteInv, Passes
  <2>2. ScratchInv'
    BY <1>1 DEF Route, GoTo, Absent, Blank, NewDoc, TypeOK, RouteInv, ScratchInv
  <2>3. LossInv'
    BY <1>1 DEF Route, GoTo, Absent, Blank, NewDoc, TypeOK, RouteInv, LossInv, Documents
  <2>4. TextInv'
    BY <1>1 DEF Route, GoTo, Absent, Blank, NewDoc, TypeOK, RouteInv, TextInv, HasText, Told, Pages,
       ChunkedPages, OcrPages, PagesOf, Documents
  <2> QED
    BY <2>0, <2>1, <2>2, <2>3, <2>4
<1>2. CASE Docling
  <2>0. TypeOK'
    BY <1>2, PageCountsAssumption, PassesLen DEF Docling, GoTo, Converted, NewDoc, Whole,
       Absent, Blank, TypeOK, RouteInv, Documents, Artwork, MainPC, Pages, Passes, Moving
  <2>1. RouteInv'
    BY <1>2, PassesLen DEF Docling, GoTo, Converted, NewDoc, Whole, Absent, Blank, TypeOK,
       RouteInv, Passes
  <2>2. ScratchInv'
    BY <1>2 DEF Docling, GoTo, Converted, NewDoc, Whole, Absent, Blank, TypeOK, RouteInv,
       ScratchInv
  <2>3. LossInv'
    BY <1>2 DEF Docling, GoTo, Converted, NewDoc, Whole, Absent, Blank, TypeOK, RouteInv,
       LossInv, Documents
  <2>4. TextInv'
    BY <1>2 DEF Docling, GoTo, Converted, NewDoc, Whole, Absent, Blank, TypeOK, RouteInv,
       TextInv, HasText, Told, Pages, ChunkedPages, OcrPages, PagesOf, Documents
  <2> QED
    BY <2>0, <2>1, <2>2, <2>3, <2>4
<1>3. CASE DoclingFails
  <2>0. TypeOK'
    BY <1>3, PageCountsAssumption, PassesLen DEF DoclingFails, GoTo, Interrupted, Torn, Blank,
       NewDoc, Absent, TypeOK, RouteInv, Documents, Artwork, MainPC, Pages, Passes, Moving
  <2>1. RouteInv'
    BY <1>3, PassesLen DEF DoclingFails, GoTo, Interrupted, Torn, Blank, NewDoc, Absent,
       TypeOK, RouteInv, Passes
  <2>2. ScratchInv'
    BY <1>3 DEF DoclingFails, GoTo, Interrupted, Torn, Blank, NewDoc, Absent, TypeOK, RouteInv,
       ScratchInv
  <2>3. LossInv'
    BY <1>3 DEF DoclingFails, GoTo, Interrupted, Torn, Blank, NewDoc, Absent, TypeOK, RouteInv,
       LossInv, Documents
  <2>4. TextInv'
    BY <1>3 DEF DoclingFails, GoTo, Interrupted, Torn, Blank, NewDoc, Absent, TypeOK, RouteInv,
       TextInv, HasText, Told, Pages, ChunkedPages, OcrPages, PagesOf, Documents
  <2> QED
    BY <2>0, <2>1, <2>2, <2>3, <2>4
<1>4. CASE Ocr
  <2>0. TypeOK'
    BY <1>4, PageCountsAssumption, PassesLen DEF Ocr, OcrPages, GoTo, Converted, NewDoc, Whole, Absent,
       Blank, TypeOK, RouteInv, Documents, Artwork, MainPC, Pages, Passes, Moving
  <2>1. RouteInv'
    BY <1>4, PassesLen DEF Ocr, GoTo, Converted, NewDoc, Whole, Absent, Blank, TypeOK,
       RouteInv, Passes
  <2>2. ScratchInv'
    BY <1>4 DEF Ocr, GoTo, Converted, NewDoc, Whole, Absent, Blank, TypeOK, RouteInv, ScratchInv
  <2>3. LossInv'
    BY <1>4 DEF Ocr, GoTo, Converted, NewDoc, Whole, Absent, Blank, TypeOK, RouteInv, LossInv,
       Documents
  <2>4. TextInv'
    <3>1. PICK read \in SUBSET OcrPages :
            Converted("ocr", NewDoc(read, "none")) /\ refused' = OcrPages \ read
      BY <1>4 DEF Ocr
    <3>2. main' = "pass" /\ mode' = "own" /\ pdf' = pdf /\ engine' = "ocr"
      BY <1>4, <3>1 DEF Ocr, GoTo, Converted, RouteInv
    <3>3. output'.doc.pages = read
      BY <3>1 DEF Converted, Whole, NewDoc
    <3>4. ASSUME NEW p \in Pages, p <= Told' PROVE p \in OcrPages
      BY <3>2, <3>4, PageCountsAssumption DEF Told, OcrPages, Pages, TypeOK
    <3>5. HasText(output.doc.pages)'
      BY <3>1, <3>2, <3>3, <3>4 DEF HasText, Pages
    <3> QED
      BY <3>2, <3>5 DEF TextInv
  <2> QED
    BY <2>0, <2>1, <2>2, <2>3, <2>4
<1>5. CASE OcrFails
  <2>0. TypeOK'
    BY <1>5, PageCountsAssumption, PassesLen DEF OcrFails, Fails, Interrupted, Torn, Blank,
       NewDoc, Absent, TypeOK, RouteInv, Documents, Artwork, MainPC, Pages, Passes, Moving
  <2>1. RouteInv'
    BY <1>5, PassesLen DEF OcrFails, Fails, Interrupted, Torn, Blank, NewDoc, Absent, TypeOK,
       RouteInv, Passes
  <2>2. ScratchInv'
    BY <1>5 DEF OcrFails, Fails, Interrupted, Torn, Blank, NewDoc, Absent, TypeOK, RouteInv,
       ScratchInv
  <2>3. LossInv'
    BY <1>5 DEF OcrFails, Fails, Interrupted, Torn, Blank, NewDoc, Absent, TypeOK, RouteInv,
       LossInv, Documents
  <2>4. TextInv'
    BY <1>5 DEF OcrFails, Fails, Interrupted, Torn, Blank, NewDoc, Absent, TypeOK, RouteInv,
       TextInv, HasText, Told, Pages, ChunkedPages, OcrPages, PagesOf, Documents
  <2> QED
    BY <2>0, <2>1, <2>2, <2>3, <2>4
<1>6. CASE Collect
  <2>0. TypeOK'
    BY <1>6, PageCountsAssumption, PassesLen DEF Collect, GoTo, Absent, Blank, NewDoc, TypeOK,
       RouteInv, Documents, Artwork, MainPC, Pages, Passes, Moving
  <2>1. RouteInv'
    BY <1>6, PassesLen DEF Collect, GoTo, Absent, Blank, NewDoc, TypeOK, RouteInv, Passes
  <2>2. ScratchInv'
    BY <1>6 DEF Collect, GoTo, Absent, Blank, NewDoc, TypeOK, RouteInv, ScratchInv
  <2>3. LossInv'
    BY <1>6 DEF Collect, GoTo, Absent, Blank, NewDoc, TypeOK, RouteInv, LossInv, Documents
  <2>4. TextInv'
    BY <1>6 DEF Collect, GoTo, Absent, Blank, NewDoc, TypeOK, RouteInv, TextInv, HasText, Told, Pages,
       ChunkedPages, OcrPages, PagesOf, Documents
  <2> QED
    BY <2>0, <2>1, <2>2, <2>3, <2>4
<1>7. CASE StartChunks
  <2>0. TypeOK'
    BY <1>7, PageCountsAssumption, PassesLen DEF StartChunks, GoTo, Absent, Blank, NewDoc,
       TypeOK, RouteInv, Documents, Artwork, MainPC, Pages, Passes, Moving
  <2>1. RouteInv'
    BY <1>7, PassesLen DEF StartChunks, GoTo, Absent, Blank, NewDoc, TypeOK, RouteInv, Passes
  <2>2. ScratchInv'
    BY <1>7 DEF StartChunks, GoTo, Absent, Blank, NewDoc, TypeOK, RouteInv, ScratchInv
  <2>3. LossInv'
    BY <1>7 DEF StartChunks, GoTo, Absent, Blank, NewDoc, TypeOK, RouteInv, LossInv, Documents
  <2>4. TextInv'
    BY <1>7 DEF StartChunks, GoTo, Absent, Blank, NewDoc, TypeOK, RouteInv, TextInv, HasText, Told,
       Pages, ChunkedPages, OcrPages, PagesOf, Documents
  <2> QED
    BY <2>0, <2>1, <2>2, <2>3, <2>4
<1>8. CASE Single
  <2>0. TypeOK'
    <3>1. NewDoc(Pages, ConvertedArt) \in Documents
      BY DEF NewDoc, Documents, ConvertedArt, Artwork, Pages, ChunkedPages, OcrPages, PagesOf
    <3>2. /\ pdf' = pdf /\ UNCHANGED <<ci, chunks, refused, vg_src, doc, mode, n>>
          /\ engine' \in {engine, "pdf2docx"}
      BY <1>8 DEF Single, Converted
    <3>3. output' \in {output, Whole(NewDoc(Pages, ConvertedArt))}
      BY <1>8 DEF Single, Converted
    <3>4. output' \in [file : {"absent", "whole", "torn"}, doc : Documents]
      BY <3>1, <3>3 DEF TypeOK, Whole
    <3>5. Documents' = Documents
      BY <3>2 DEF Documents, Pages
    <3>6. n = 1
      BY <1>8, PassesLen DEF Single, RouteInv, TypeOK, Passes
    <3>7. n' \in 1 .. Len(Passes') + 1
      BY <3>2, <3>6, PassesLen DEF Passes
    <3>8. main' \in MainPC /\ verdict' = verdict /\ scratch' \subseteq scratch
      BY <1>8 DEF Single, GoTo, MainPC
    <3> QED
      BY <3>2, <3>4, <3>5, <3>7, <3>8 DEF TypeOK, Pages
  <2>1. RouteInv'
    BY <1>8, PassesLen DEF Single, GoTo, Converted, NewDoc, Whole, Absent, Blank, TypeOK,
       RouteInv, Passes
  <2>2. ScratchInv'
    BY <1>8 DEF Single, GoTo, Converted, NewDoc, Whole, Absent, Blank, TypeOK, RouteInv,
       ScratchInv
  <2>3. LossInv'
    BY <1>8 DEF Single, GoTo, Converted, NewDoc, Whole, Absent, Blank, TypeOK, RouteInv,
       LossInv, Documents
  <2>4. TextInv'
    BY <1>8 DEF Single, GoTo, Converted, NewDoc, Whole, Absent, Blank, TypeOK, RouteInv,
       TextInv, HasText, Told, Pages, ChunkedPages, OcrPages, PagesOf, Documents
  <2> QED
    BY <2>0, <2>1, <2>2, <2>3, <2>4
<1>9. CASE ConvertChunk
  <2>0. TypeOK'
    <3>1. refused' \subseteq Pages /\ pdf' = pdf /\ chunks' \subseteq 1 .. ci'
          /\ ci' \in Nat
      <4>1. ci \in Nat /\ chunks \subseteq 1 .. ci /\ refused \subseteq Pages
        BY DEF TypeOK
      <4>2. PagesOf(ci') \subseteq Pages
        BY DEF PagesOf
      <4>3. /\ ci' = ci + 1 /\ pdf' = pdf
            /\ chunks' \subseteq chunks \union {ci'}
            /\ refused' \subseteq refused \union PagesOf(ci')
        BY <1>9 DEF ConvertChunk
      <4> HIDE <1>9
      <4> QED
        BY <4>1, <4>2, <4>3
    <3> QED
      BY <1>9, <3>1 DEF ConvertChunk, TypeOK, Documents, Pages, Passes
  <2>1. RouteInv'
    BY <1>9, PassesLen DEF ConvertChunk, Absent, Blank, NewDoc, TypeOK, RouteInv, Passes
  <2>2. ScratchInv'
    BY <1>9 DEF ConvertChunk, Absent, Blank, NewDoc, TypeOK, RouteInv, ScratchInv
  <2>3. LossInv'
    BY <1>9 DEF ConvertChunk, Absent, Blank, NewDoc, TypeOK, RouteInv, LossInv, Documents
  <2>4. TextInv'
    BY <1>9 DEF ConvertChunk, Absent, Blank, NewDoc, TypeOK, RouteInv, TextInv, HasText, Told, Pages,
       ChunkedPages, OcrPages, PagesOf, Documents
  <2> QED
    BY <2>0, <2>1, <2>2, <2>3, <2>4
<1>10. CASE ChunksConverted
  <2>0. TypeOK'
    <3>1. NewDoc(ChunkedPages, ConvertedArt) \in Documents
      BY DEF NewDoc, Documents, ConvertedArt, Artwork, Pages, ChunkedPages, OcrPages, PagesOf
    <3>2. /\ pdf' = pdf /\ UNCHANGED <<ci, chunks, refused, vg_src, doc, mode, n>>
          /\ engine' \in {engine, "pdf2docx"}
      BY <1>10 DEF ChunksConverted, Converted
    <3>3. output' \in {output, Whole(NewDoc(ChunkedPages, ConvertedArt))}
      BY <1>10 DEF ChunksConverted, Converted
    <3>4. output' \in [file : {"absent", "whole", "torn"}, doc : Documents]
      BY <3>1, <3>3 DEF TypeOK, Whole
    <3>5. Documents' = Documents
      BY <3>2 DEF Documents, Pages
    <3>6. n = 1
      BY <1>10, PassesLen DEF ChunksConverted, RouteInv, TypeOK, Passes
    <3>7. n' \in 1 .. Len(Passes') + 1
      BY <3>2, <3>6, PassesLen DEF Passes
    <3>8. main' \in MainPC /\ verdict' = verdict /\ scratch' \subseteq scratch
      BY <1>10 DEF ChunksConverted, GoTo, MainPC
    <3> QED
      BY <3>2, <3>4, <3>5, <3>7, <3>8 DEF TypeOK, Pages
  <2>1. RouteInv'
    <3>a. PICK k \in chunks : k \in 1 .. ci
      BY <1>10 DEF ChunksConverted, TypeOK
    <3>b. n = 1
      BY <1>10, PassesLen DEF ChunksConverted, TypeOK, RouteInv, Passes
    <3>1. ci > 0 /\ n = 1
      BY <3>a, <3>b DEF TypeOK
    <3>2. CASE Cardinality(chunks) > 1
      BY <1>10, <3>1, <3>2 DEF ChunksConverted, GoTo, TypeOK, RouteInv, Passes
    <3>3. CASE ~(Cardinality(chunks) > 1)
      BY <1>10, <3>1, <3>3 DEF ChunksConverted, GoTo, Converted, Whole, TypeOK, RouteInv, Passes
    <3> QED
      BY <3>2, <3>3
  <2>2. ScratchInv'
    BY <1>10 DEF ChunksConverted, GoTo, Converted, NewDoc, Whole, Absent, Blank, TypeOK,
       RouteInv, ScratchInv
  <2>3. LossInv'
    BY <1>10 DEF ChunksConverted, GoTo, Converted, NewDoc, Whole, Absent, Blank, TypeOK,
       RouteInv, LossInv, Documents
  <2>4. TextInv'
    <3>1. /\ engine = "none" /\ mode = "own" /\ mode' = mode /\ pdf' = pdf
          /\ refused' = refused /\ main' \in {"compose", "check"}
          /\ \/ engine' = engine
             \/ output' = Whole(NewDoc(ChunkedPages, ConvertedArt))
      BY <1>10 DEF ChunksConverted, GoTo, Converted, RouteInv
    <3>2. ci = n_chunks /\ main \in {"chunk", "compose", "append"}
      BY <1>10 DEF ChunksConverted, ChunkInv
    <3>3. \A p \in Pages : p \in ChunkedPages \/ p \in refused
      BY <3>2, AllPagesTried DEF ChunkInv
    <3> QED
      BY <3>1, <3>3 DEF TextInv, HasText, Whole, NewDoc, Pages
  <2> QED
    BY <2>0, <2>1, <2>2, <2>3, <2>4
<1>11. CASE Merge
  <2>0. TypeOK'
    <3>1. NewDoc(ChunkedPages, ConvertedArt) \in Documents
      BY DEF NewDoc, Documents, ConvertedArt, Artwork, Pages, ChunkedPages, OcrPages, PagesOf
    <3>2. /\ pdf' = pdf /\ UNCHANGED <<ci, chunks, refused, vg_src, doc, mode, n>>
          /\ engine' \in {engine, "pdf2docx"}
      BY <1>11 DEF Merge, Converted
    <3>3. output' \in {output, Whole(NewDoc(ChunkedPages, ConvertedArt))}
      BY <1>11 DEF Merge, Converted
    <3>4. output' \in [file : {"absent", "whole", "torn"}, doc : Documents]
      BY <3>1, <3>3 DEF TypeOK, Whole
    <3>5. Documents' = Documents
      BY <3>2 DEF Documents, Pages
    <3>6. n = 1
      BY <1>11, PassesLen DEF Merge, RouteInv, TypeOK, Passes
    <3>7. n' \in 1 .. Len(Passes') + 1
      BY <3>2, <3>6, PassesLen DEF Passes
    <3>8. main' \in MainPC /\ verdict' = verdict /\ scratch' \subseteq scratch
      BY <1>11 DEF Merge, GoTo, MainPC
    <3> QED
      BY <3>2, <3>4, <3>5, <3>7, <3>8 DEF TypeOK, Pages
  <2>1. RouteInv'
    BY <1>11, PassesLen DEF Merge, GoTo, Converted, NewDoc, Whole, Absent, Blank, TypeOK,
       RouteInv, Passes
  <2>2. ScratchInv'
    BY <1>11 DEF Merge, GoTo, Converted, NewDoc, Whole, Absent, Blank, TypeOK, RouteInv,
       ScratchInv
  <2>3. LossInv'
    BY <1>11 DEF Merge, GoTo, Converted, NewDoc, Whole, Absent, Blank, TypeOK, RouteInv,
       LossInv, Documents
  <2>4. TextInv'
    <3>1. /\ engine = "none" /\ mode = "own" /\ mode' = mode /\ pdf' = pdf
          /\ refused' = refused /\ main' \in {"compose", "check"}
          /\ \/ engine' = engine
             \/ output' = Whole(NewDoc(ChunkedPages, ConvertedArt))
      BY <1>11 DEF Merge, GoTo, Converted, RouteInv
    <3>2. ci = n_chunks /\ main \in {"chunk", "compose", "append"}
      BY <1>11 DEF Merge, ChunkInv
    <3>3. \A p \in Pages : p \in ChunkedPages \/ p \in refused
      BY <3>2, AllPagesTried DEF ChunkInv
    <3> QED
      BY <3>1, <3>3 DEF TextInv, HasText, Whole, NewDoc, Pages
  <2> QED
    BY <2>0, <2>1, <2>2, <2>3, <2>4
<1>12. CASE ComposeFails
  <2>0. TypeOK'
    BY <1>12, PageCountsAssumption, PassesLen DEF ComposeFails, GoTo, Interrupted, Torn, Blank,
       NewDoc, Absent, TypeOK, RouteInv, Documents, Artwork, MainPC, Pages, Passes, Moving
  <2>1. RouteInv'
    BY <1>12, PassesLen DEF ComposeFails, GoTo, Interrupted, Torn, Blank, NewDoc, Absent,
       TypeOK, RouteInv, Passes
  <2>2. ScratchInv'
    BY <1>12 DEF ComposeFails, GoTo, Interrupted, Torn, Blank, NewDoc, Absent, TypeOK,
       RouteInv, ScratchInv
  <2>3. LossInv'
    BY <1>12 DEF ComposeFails, GoTo, Interrupted, Torn, Blank, NewDoc, Absent, TypeOK,
       RouteInv, LossInv, Documents
  <2>4. TextInv'
    BY <1>12 DEF ComposeFails, GoTo, Interrupted, Torn, Blank, NewDoc, Absent, TypeOK,
       RouteInv, TextInv, HasText, Told, Pages, ChunkedPages, OcrPages, PagesOf, Documents
  <2> QED
    BY <2>0, <2>1, <2>2, <2>3, <2>4
<1>13. CASE AppendFails
  <2>0. TypeOK'
    BY <1>13, PageCountsAssumption, PassesLen DEF AppendFails, Fails, Interrupted, Torn, Blank,
       NewDoc, Absent, TypeOK, RouteInv, Documents, Artwork, MainPC, Pages, Passes, Moving
  <2>1. RouteInv'
    BY <1>13, PassesLen DEF AppendFails, Fails, Interrupted, Torn, Blank, NewDoc, Absent,
       TypeOK, RouteInv, Passes
  <2>2. ScratchInv'
    BY <1>13 DEF AppendFails, Fails, Interrupted, Torn, Blank, NewDoc, Absent, TypeOK,
       RouteInv, ScratchInv
  <2>3. LossInv'
    BY <1>13 DEF AppendFails, Fails, Interrupted, Torn, Blank, NewDoc, Absent, TypeOK,
       RouteInv, LossInv, Documents
  <2>4. TextInv'
    BY <1>13 DEF AppendFails, Fails, Interrupted, Torn, Blank, NewDoc, Absent, TypeOK,
       RouteInv, TextInv, HasText, Told, Pages, ChunkedPages, OcrPages, PagesOf, Documents
  <2> QED
    BY <2>0, <2>1, <2>2, <2>3, <2>4
<1>14. CASE ConversionFails
  <2>0. TypeOK'
    BY <1>14, PageCountsAssumption, PassesLen DEF ConversionFails, Fails, Interrupted, Torn,
       Blank, NewDoc, Absent, TypeOK, RouteInv, Documents, Artwork, MainPC, Pages, Passes,
       Moving
  <2>1. RouteInv'
    BY <1>14, PassesLen DEF ConversionFails, Fails, Interrupted, Torn, Blank, NewDoc, Absent,
       TypeOK, RouteInv, Passes
  <2>2. ScratchInv'
    BY <1>14 DEF ConversionFails, Fails, Interrupted, Torn, Blank, NewDoc, Absent, TypeOK,
       RouteInv, ScratchInv
  <2>3. LossInv'
    BY <1>14 DEF ConversionFails, Fails, Interrupted, Torn, Blank, NewDoc, Absent, TypeOK,
       RouteInv, LossInv, Documents
  <2>4. TextInv'
    BY <1>14 DEF ConversionFails, Fails, Interrupted, Torn, Blank, NewDoc, Absent, TypeOK,
       RouteInv, TextInv, HasText, Told, Pages, ChunkedPages, OcrPages, PagesOf, Documents
  <2> QED
    BY <2>0, <2>1, <2>2, <2>3, <2>4
<1>15. CASE Check
  <2>0. TypeOK'
    BY <1>15, PageCountsAssumption, PassesLen DEF Check, GoTo, Fails, Absent, Blank, NewDoc,
       TypeOK, RouteInv, Documents, Artwork, MainPC, Pages, Passes, Moving
  <2>1. RouteInv'
    BY <1>15, PassesLen DEF Check, GoTo, Fails, Absent, Blank, NewDoc, TypeOK, RouteInv, Passes
  <2>2. ScratchInv'
    BY <1>15 DEF Check, GoTo, Fails, Absent, Blank, NewDoc, TypeOK, RouteInv, ScratchInv
  <2>3. LossInv'
    BY <1>15 DEF Check, GoTo, Fails, Absent, Blank, NewDoc, TypeOK, RouteInv, LossInv, Documents
  <2>4. TextInv'
    BY <1>15 DEF Check, GoTo, Fails, Absent, Blank, NewDoc, TypeOK, RouteInv, TextInv, HasText, Told,
       Pages, ChunkedPages, OcrPages, PagesOf, Documents
  <2> QED
    BY <2>0, <2>1, <2>2, <2>3, <2>4
<1>16. CASE BadLanguage
  <2>0. TypeOK'
    BY <1>16, PageCountsAssumption, PassesLen DEF BadLanguage, Fails, Absent, Blank, NewDoc,
       TypeOK, RouteInv, Documents, Artwork, MainPC, Pages, Passes, Moving
  <2>1. RouteInv'
    BY <1>16, PassesLen DEF BadLanguage, Fails, Absent, Blank, NewDoc, TypeOK, RouteInv, Passes
  <2>2. ScratchInv'
    BY <1>16 DEF BadLanguage, Fails, Absent, Blank, NewDoc, TypeOK, RouteInv, ScratchInv
  <2>3. LossInv'
    BY <1>16 DEF BadLanguage, Fails, Absent, Blank, NewDoc, TypeOK, RouteInv, LossInv, Documents
  <2>4. TextInv'
    BY <1>16 DEF BadLanguage, Fails, Absent, Blank, NewDoc, TypeOK, RouteInv, TextInv, HasText, Told,
       Pages, ChunkedPages, OcrPages, PagesOf, Documents
  <2> QED
    BY <2>0, <2>1, <2>2, <2>3, <2>4
<1>17. CASE OpenDoc
  <2>0. TypeOK'
    BY <1>17, PageCountsAssumption, PassesLen DEF OpenDoc, GoTo, Absent, Blank, NewDoc, TypeOK,
       RouteInv, Documents, Artwork, MainPC, Pages, Passes, Moving
  <2>1. RouteInv'
    BY <1>17, PassesLen DEF OpenDoc, GoTo, Absent, Blank, NewDoc, TypeOK, RouteInv, Passes
  <2>2. ScratchInv'
    BY <1>17 DEF OpenDoc, GoTo, Absent, Blank, NewDoc, TypeOK, RouteInv, ScratchInv
  <2>3. LossInv'
    BY <1>17 DEF OpenDoc, GoTo, Absent, Blank, NewDoc, TypeOK, RouteInv, LossInv, Documents
  <2>4. TextInv'
    BY <1>17 DEF OpenDoc, GoTo, Absent, Blank, NewDoc, TypeOK, RouteInv, TextInv, HasText, Told, Pages,
       ChunkedPages, OcrPages, PagesOf, Documents
  <2> QED
    BY <2>0, <2>1, <2>2, <2>3, <2>4
<1>18. CASE Edit
  <2>0. TypeOK'
    BY <1>18, PageCountsAssumption, PassesLen DEF Edit, EndPass, GoTo, NextPass, Absent, Blank,
       NewDoc, TypeOK, RouteInv, Documents, Artwork, MainPC, Pages, Passes, Moving
  <2>1. RouteInv'
    BY <1>18, PassesLen DEF Edit, EndPass, GoTo, NextPass, Absent, Blank, NewDoc, TypeOK,
       RouteInv, Passes
  <2>2. ScratchInv'
    BY <1>18 DEF Edit, EndPass, GoTo, NextPass, Absent, Blank, NewDoc, TypeOK, RouteInv,
       ScratchInv
  <2>3. LossInv'
    BY <1>18 DEF Edit, EndPass, GoTo, NextPass, Absent, Blank, NewDoc, TypeOK, RouteInv,
       LossInv, Documents
  <2>4. TextInv'
    BY <1>18 DEF Edit, EndPass, GoTo, NextPass, Absent, Blank, NewDoc, TypeOK, RouteInv,
       TextInv, HasText, Told, Pages, ChunkedPages, OcrPages, PagesOf, Documents
  <2> QED
    BY <2>0, <2>1, <2>2, <2>3, <2>4
<1>19. CASE TakeOut
  <2>0. TypeOK'
    <3>1. n \in 1 .. Len(Passes) /\ Pass.takes /\ doc \in Documents
      BY <1>19, PassesLen DEF TakeOut, TypeOK, RouteInv, Passes
    <3>2. Pass.name \in Moving
      BY <3>1, TakingPasses DEF Pass, Passes
    <3>3. doc' = [pages |-> doc.pages, lost |-> doc.lost \union {Pass.name}, art |-> doc.art]
      BY <1>19, <3>1, DocParts DEF TakeOut
    <3>4. doc' \in Documents
      BY <3>1, <3>2, <3>3 DEF Documents
    <3>5. /\ UNCHANGED <<pdf, conversion, scratch, output, mode, n>>
          /\ main' = "put" /\ verdict' = verdict
      BY <1>19 DEF TakeOut, GoTo
    <3> QED
      BY <3>4, <3>5 DEF TypeOK, Documents, Pages, Passes, MainPC
  <2>1. RouteInv'
    BY <1>19, PassesLen DEF TakeOut, GoTo, Absent, Blank, NewDoc, TypeOK, RouteInv, Passes
  <2>2. ScratchInv'
    BY <1>19 DEF TakeOut, GoTo, Absent, Blank, NewDoc, TypeOK, RouteInv, ScratchInv
  <2>3. LossInv'
    <3>1. doc'.lost = doc.lost \union {Pass.name} /\ main = "edit" /\ main' = "put"
      BY <1>19, DocParts DEF TakeOut, GoTo, TypeOK
    <3>2. UNCHANGED <<output, mode, n, engine>>
      BY <1>19 DEF TakeOut
    <3> QED
      BY <3>1, <3>2 DEF LossInv, Pass, Passes
  <2>4. TextInv'
    BY <1>19 DEF TakeOut, GoTo, Absent, Blank, NewDoc, TypeOK, RouteInv, TextInv, HasText, Told, Pages,
       ChunkedPages, OcrPages, PagesOf, Documents
  <2> QED
    BY <2>0, <2>1, <2>2, <2>3, <2>4
<1>20. CASE PutBack
  <2>0. TypeOK'
    BY <1>20, PageCountsAssumption, PassesLen DEF PutBack, EndPass, GoTo, NextPass, Absent,
       Blank, NewDoc, TypeOK, RouteInv, Documents, Artwork, MainPC, Pages, Passes, Moving
  <2>1. RouteInv'
    BY <1>20, PassesLen DEF PutBack, EndPass, GoTo, NextPass, Absent, Blank, NewDoc, TypeOK,
       RouteInv, Passes
  <2>2. ScratchInv'
    BY <1>20 DEF PutBack, EndPass, GoTo, NextPass, Absent, Blank, NewDoc, TypeOK, RouteInv,
       ScratchInv
  <2>3. LossInv'
    BY <1>20 DEF PutBack, EndPass, GoTo, NextPass, Absent, Blank, NewDoc, TypeOK, RouteInv,
       LossInv, Documents
  <2>4. TextInv'
    BY <1>20 DEF PutBack, EndPass, GoTo, NextPass, Absent, Blank, NewDoc, TypeOK, RouteInv,
       TextInv, HasText, Told, Pages, ChunkedPages, OcrPages, PagesOf, Documents
  <2> QED
    BY <2>0, <2>1, <2>2, <2>3, <2>4
<1>21. CASE Skipped
  <2>0. TypeOK'
    BY <1>21, PageCountsAssumption, PassesLen DEF Skipped, NextPass, GoTo, Absent, Blank,
       NewDoc, TypeOK, RouteInv, Documents, Artwork, MainPC, Pages, Passes, Moving
  <2>1. RouteInv'
    BY <1>21, PassesLen DEF Skipped, NextPass, GoTo, Absent, Blank, NewDoc, TypeOK, RouteInv,
       Passes
  <2>2. ScratchInv'
    BY <1>21 DEF Skipped, NextPass, GoTo, Absent, Blank, NewDoc, TypeOK, RouteInv, ScratchInv
  <2>3. LossInv'
    BY <1>21 DEF Skipped, NextPass, GoTo, Absent, Blank, NewDoc, TypeOK, RouteInv, LossInv,
       Documents
  <2>4. TextInv'
    BY <1>21 DEF Skipped, NextPass, GoTo, Absent, Blank, NewDoc, TypeOK, RouteInv, TextInv,
       HasText, Told, Pages, ChunkedPages, OcrPages, PagesOf, Documents
  <2> QED
    BY <2>0, <2>1, <2>2, <2>3, <2>4
<1>22. CASE Store
  <2>0. TypeOK'
    BY <1>22, PageCountsAssumption, PassesLen DEF Store, NextPass, Whole, Interrupted, GoTo,
       Torn, Blank, NewDoc, Absent, TypeOK, RouteInv, Documents, Artwork, MainPC, Pages,
       Passes, Moving
  <2>1. RouteInv'
    BY <1>22, PassesLen DEF Store, NextPass, Whole, Interrupted, GoTo, Torn, Blank, NewDoc,
       Absent, TypeOK, RouteInv, Passes
  <2>2. ScratchInv'
    BY <1>22 DEF Store, NextPass, Whole, Interrupted, GoTo, Torn, Blank, NewDoc, Absent,
       TypeOK, RouteInv, ScratchInv
  <2>3. LossInv'
    BY <1>22 DEF Store, NextPass, Whole, Interrupted, GoTo, Torn, Blank, NewDoc, Absent,
       TypeOK, RouteInv, LossInv, Documents
  <2>4. TextInv'
    BY <1>22 DEF Store, NextPass, Whole, Interrupted, GoTo, Torn, Blank, NewDoc, Absent,
       TypeOK, RouteInv, TextInv, HasText, Told, Pages, ChunkedPages, OcrPages, PagesOf, Documents
  <2> QED
    BY <2>0, <2>1, <2>2, <2>3, <2>4
<1>23. CASE PassesDone
  <2>0. TypeOK'
    BY <1>23, PageCountsAssumption, PassesLen DEF PassesDone, GoTo, Returned, Absent, Blank,
       NewDoc, TypeOK, RouteInv, Documents, Artwork, MainPC, Pages, Passes, Moving
  <2>1. RouteInv'
    BY <1>23, PassesLen DEF PassesDone, GoTo, Returned, Absent, Blank, NewDoc, TypeOK,
       RouteInv, Passes
  <2>2. ScratchInv'
    BY <1>23 DEF PassesDone, GoTo, Returned, Absent, Blank, NewDoc, TypeOK, RouteInv, ScratchInv
  <2>3. LossInv'
    BY <1>23 DEF PassesDone, GoTo, Returned, Absent, Blank, NewDoc, TypeOK, RouteInv, LossInv,
       Documents
  <2>4. TextInv'
    BY <1>23 DEF PassesDone, GoTo, Returned, Absent, Blank, NewDoc, TypeOK, RouteInv, TextInv,
       HasText, Told, Pages, ChunkedPages, OcrPages, PagesOf, Documents
  <2> QED
    BY <2>0, <2>1, <2>2, <2>3, <2>4
<1>24. CASE Save
  <2>0. TypeOK'
    BY <1>24, PageCountsAssumption, PassesLen DEF Save, GoTo, Whole, Interrupted, Torn, Blank,
       NewDoc, Absent, TypeOK, RouteInv, Documents, Artwork, MainPC, Pages, Passes, Moving
  <2>1. RouteInv'
    BY <1>24, PassesLen DEF Save, GoTo, Whole, Interrupted, Torn, Blank, NewDoc, Absent,
       TypeOK, RouteInv, Passes
  <2>2. ScratchInv'
    BY <1>24 DEF Save, GoTo, Whole, Interrupted, Torn, Blank, NewDoc, Absent, TypeOK, RouteInv,
       ScratchInv
  <2>3. LossInv'
    BY <1>24 DEF Save, GoTo, Whole, Interrupted, Torn, Blank, NewDoc, Absent, TypeOK, RouteInv,
       LossInv, Documents
  <2>4. TextInv'
    BY <1>24 DEF Save, GoTo, Whole, Interrupted, Torn, Blank, NewDoc, Absent, TypeOK, RouteInv,
       TextInv, HasText, Told, Pages, ChunkedPages, OcrPages, PagesOf, Documents
  <2> QED
    BY <2>0, <2>1, <2>2, <2>3, <2>4
<1>25. CASE Unlink
  <2>0. TypeOK'
    BY <1>25, PageCountsAssumption, PassesLen DEF Unlink, Returned, Absent, Blank, NewDoc,
       TypeOK, RouteInv, Documents, Artwork, MainPC, Pages, Passes, Moving
  <2>1. RouteInv'
    BY <1>25, PassesLen DEF Unlink, Returned, Absent, Blank, NewDoc, TypeOK, RouteInv, Passes
  <2>2. ScratchInv'
    BY <1>25 DEF Unlink, Returned, Absent, Blank, NewDoc, TypeOK, RouteInv, ScratchInv
  <2>3. LossInv'
    BY <1>25 DEF Unlink, Returned, Absent, Blank, NewDoc, TypeOK, RouteInv, LossInv, Documents
  <2>4. TextInv'
    BY <1>25 DEF Unlink, Returned, Absent, Blank, NewDoc, TypeOK, RouteInv, TextInv, HasText, Told,
       Pages, ChunkedPages, OcrPages, PagesOf, Documents
  <2> QED
    BY <2>0, <2>1, <2>2, <2>3, <2>4
<1>26. CASE Raised
  <2>0. TypeOK'
    BY <1>26, PageCountsAssumption, PassesLen DEF Raised, Fails, Absent, Blank, NewDoc, TypeOK,
       RouteInv, Documents, Artwork, MainPC, Pages, Passes, Moving
  <2>1. RouteInv'
    BY <1>26, PassesLen DEF Raised, Fails, Absent, Blank, NewDoc, TypeOK, RouteInv, Passes
  <2>2. ScratchInv'
    BY <1>26 DEF Raised, Fails, Absent, Blank, NewDoc, TypeOK, RouteInv, ScratchInv
  <2>3. LossInv'
    BY <1>26 DEF Raised, Fails, Absent, Blank, NewDoc, TypeOK, RouteInv, LossInv, Documents
  <2>4. TextInv'
    BY <1>26 DEF Raised, Fails, Absent, Blank, NewDoc, TypeOK, RouteInv, TextInv, HasText, Told, Pages,
       ChunkedPages, OcrPages, PagesOf, Documents
  <2> QED
    BY <2>0, <2>1, <2>2, <2>3, <2>4
<1>27. CASE UNCHANGED vars
  BY <1>27 DEF vars, TypeOK, Documents, Pages, RouteInv, ScratchInv, LossInv, TextInv, HasText, Told,
     Pages, ChunkedPages, OcrPages, PagesOf, Pass, Passes
<1> QED
  BY <1>1, <1>2, <1>3, <1>4, <1>5, <1>6, <1>7, <1>8, <1>9, <1>10, <1>11, <1>12, <1>13, <1>14,
     <1>15, <1>16, <1>17, <1>18, <1>19, <1>20, <1>21, <1>22, <1>23, <1>24, <1>25, <1>26, <1>27
     DEF Next, Convert, Finish

\* The invariant that follows the document through converters, passes and saves.
THEOREM Invariance == Spec => [](IInv /\ ChunkInv)
<1>1. Init => IInv /\ ChunkInv
  BY InitInv DEF Init, ChunkInv
<1>2. IInv /\ ChunkInv /\ [Next]_vars => IInv' /\ ChunkInv'
  BY NextInv, ChunkStep
<1> QED
  BY <1>1, <1>2, PTL DEF Spec

\* Every variable stays within its values.
THEOREM TypeCorrect == Spec => []TypeOK
<1>1. IInv => TypeOK
  BY DEF IInv
<1> QED
  BY <1>1, Invariance, PTL

\* A conversion that is reported as done has the text of every page the answer counts,
\* but for those a library made nothing of: no merge, fallback, pass or save drops any.
THEOREM TextIsComplete == Spec => []NoSilentTruncation
<1>1. IInv => NoSilentTruncation
  BY DEF IInv, RouteInv, TextInv, NoSilentTruncation
<1> QED
  BY <1>1, Invariance, PTL

\* A pass that opens the file itself is all or nothing.
THEOREM OwnPassesLoseNothing == Spec => []OwnPassesAreAtomic
<1>1. IInv => OwnPassesAreAtomic
  BY DEF IInv, LossInv, OwnPassesAreAtomic
<1> QED
  BY <1>1, Invariance, PTL

\* No temporary file survives a call that returns, no directory one that raises.
THEOREM ScratchIsReleased == Spec => []ScratchReleased
<1>1. IInv => ScratchReleased
  BY DEF IInv, ScratchInv, ScratchReleased
<1> QED
  BY <1>1, Invariance, PTL

\* No pass writes the file of a shared document.
THEOREM SharedDocumentIsSavedOnce == Spec => SharedDocumentSavedOnce
<1>1. ASSUME IInv, Next, mode = "live", main \in {"pass", "edit", "put", "store"}
      PROVE  output' = output
  <2>1. Convert => output' = output
    BY <1>1 DEF IInv, RouteInv, Convert, Route, Docling, DoclingFails, Ocr, OcrFails, Collect,
                StartChunks, Single, ConvertChunk, ChunksConverted, Merge, ComposeFails,
                AppendFails, ConversionFails, Check
  <2>2. Finish => output' = output
    BY <1>1 DEF IInv, RouteInv, Finish, BadLanguage, OpenDoc, Edit, TakeOut, PutBack, Skipped,
                Store, PassesDone, Save, Unlink, work
  <2>3. Raised => output' = output
    BY DEF Raised
  <2> QED
    BY <1>1, <2>1, <2>2, <2>3 DEF Next
<1>2. IInv /\ [Next]_vars
      => [mode = "live" /\ main \in {"pass", "edit", "put", "store"} => output' = output]_vars
  BY <1>1 DEF vars, work
<1> QED
  BY <1>2, Invariance, PTL DEF Spec, SharedDocumentSavedOnce

=============================================================================
