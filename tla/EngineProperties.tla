---------------------------- MODULE EngineProperties ----------------------------
(***************************************************************************)
(* What an engine function must have put at output_path when it returns,   *)
(* and what it must never leave behind.  What was asked is stated here     *)
(* from the request, not from the plan the code makes of it.               *)
(***************************************************************************)
EXTENDS Engines

Returned == pc = "returned"
Holds == file.holds

-----------------------------------------------------------------------------
(* Pages. *)

Shown == FlattenSeq(Holds)

AllPages == UNION {{<<d, p>> : p \in 1 .. Total(d)} : d \in DOMAIN docs}

\* a comes before b in the inputs.
Before(a, b) == a[1] < b[1] \/ (a[1] = b[1] /\ a[2] < b[2])

\* Each page of S, once, in the order of the inputs, and no other.
Each(S) ==
    /\ {Shown[k] : k \in DOMAIN Shown} = S
    /\ \A i, j \in DOMAIN Shown : i < j => Before(Shown[i], Shown[j])

\* The same, each on an entry of its own.
EachAlone(S) ==
    /\ \A k \in DOMAIN Holds : Len(Holds[k]) = 1
    /\ {Holds[k][1] : k \in DOMAIN Holds} = S
    /\ \A i, j \in DOMAIN Holds : i < j => Before(Holds[i][1], Holds[j][1])

In(p) == <<1, p>>

\* A page is named if a readable part of the request contains it.
IsNamed(p) == \E k \in DOMAIN call.ranges :
    LET r == call.ranges[k] IN 0 < r.from /\ r.from <= p /\ p <= r.to

PagesWhere(Test(_)) == {In(p) : p \in {q \in 1 .. total : Test(q)}}

\* The first part of the request that contains it.
AskedFirst(p) == CHOOSE k \in DOMAIN call.ranges :
    /\ call.ranges[k].from <= p /\ p <= call.ranges[k].to
    /\ \A j \in DOMAIN call.ranges :
          j < k => ~(call.ranges[j].from <= p /\ p <= call.ranges[j].to)

\* The pages that are named, each on an entry of its own, in the order of the
\* request.
InTheOrderAsked ==
    /\ Holds # <<>> /\ \A k \in DOMAIN Holds : Len(Holds[k]) = 1
    /\ {Holds[k][1] : k \in DOMAIN Holds} = PagesWhere(IsNamed)
    /\ \A i, j \in DOMAIN Holds : i < j =>
          LET a == Holds[i][1][2]
              b == Holds[j][1][2]
          IN  \/ AskedFirst(a) < AskedFirst(b)
              \/ AskedFirst(a) = AskedFirst(b) /\ a < b

\* Each part begins at a bookmark and ends before the next one of the outline;
\* together they show every page from the earliest bookmark on.
CutAtBookmarks ==
    /\ Len(Holds) = Len(Tops)
    /\ \A k \in DOMAIN Holds :
          /\ Holds[k][1] = In(Tops[k])
          /\ \A j \in 1 .. Len(Holds[k]) - 1 : Holds[k][j + 1][2] = Holds[k][j][2] + 1
          /\ k < Len(Holds) => \A j \in 2 .. Len(Holds[k]) : Holds[k][j][2] < Tops[k + 1]
    /\ {Shown[k] : k \in DOMAIN Shown} =
          PagesWhere(LAMBDA p : \E k \in DOMAIN Tops : Tops[k] <= p)

\* Each part is within the limit, or is a single page; none could have taken
\* the page that comes after it.
CutBySize ==
    /\ Each(AllPages)
    /\ \A k \in DOMAIN Holds :
          /\ Len(Holds[k]) > 0
          /\ Bytes(Holds[k]) <= MaxBytes \/ Len(Holds[k]) = 1
          /\ k < Len(Holds) => Bytes(Append(Holds[k], Holds[k + 1][1])) > MaxBytes

Taken(d, k) == IF d = 2 /\ call.reverse_second THEN <<d, Total(d) + 1 - k>> ELSE <<d, k>>

\* The two documents take turns until one has no pages left.
TakingTurns ==
    LET longer == IF Total(1) > Total(2) THEN 1 ELSE 2
        turns == Total(3 - longer)
    IN  /\ Len(Holds) = Total(1) + Total(2)
        /\ \A k \in 1 .. turns :
              Holds[2 * k - 1] = <<Taken(1, k)>> /\ Holds[2 * k] = <<Taken(2, k)>>
        /\ \A k \in turns + 1 .. Total(longer) : Holds[turns + k] = <<Taken(longer, k)>>

HasTables == \E p \in 1 .. total : call.tables[p] > 0

\* A sheet per table, in the order of the pages; without a table, the text of
\* all pages on one.
TablesOrText ==
    IF HasTables
    THEN /\ \A k \in DOMAIN Holds : \E p \in 1 .. total : Holds[k] = <<In(p)>>
         /\ \A p \in 1 .. total :
               Cardinality({k \in DOMAIN Holds : Holds[k] = <<In(p)>>}) = call.tables[p]
         /\ \A i, j \in DOMAIN Holds : i < j => Holds[i][1][2] <= Holds[j][1][2]
    ELSE Holds = <<[p \in 1 .. total |-> In(p)]>>

\* The pages that both have, side by side, and then the summary.
ComparedSideBySide ==
    /\ Holds # <<>> /\ Holds[Len(Holds)] = <<>>
    /\ \A k \in 1 .. Len(Holds) - 1 : Holds[k] = <<<<1, k>>, <<2, k>>>>
    /\ \E d \in {1, 2} : Len(Holds) - 1 = Total(d)
    /\ \A d \in {1, 2} : Len(Holds) - 1 <= Total(d)

PagesAsAsked ==
    CASE Tool = "split_by_bookmarks" -> CutAtBookmarks
      [] Tool = "split_by_size" -> CutBySize
      [] Tool = "alternate_mix" -> TakingTurns
      [] Tool = "pdf_to_excel" -> TablesOrText
      [] Tool = "compare_pdf" -> ComparedSideBySide
      [] Tool = "merge_pdf" -> EachAlone(AllPages)
      [] Tool = "remove_pages" \/ (Tool = "organize_pdf" /\ call.action = "delete") ->
            EachAlone(PagesWhere(LAMBDA p : ~IsNamed(p))) /\ Holds # <<>>
      [] Tool = "organize_pdf" /\ call.action # "delete" -> InTheOrderAsked
      [] Tool = "extract_pages" \/ (Tool = "split_pdf" /\ call.mode # "all") ->
            EachAlone(PagesWhere(IsNamed)) /\ Holds # <<>>
      [] Tool = "resize_pdf" ->
            EachAlone(PagesWhere(LAMBDA p : docs[1][p] > 0))
      [] OTHER -> EachAlone(PagesWhere(LAMBDA p : TRUE))

-----------------------------------------------------------------------------
(* Edits. *)

\* On each page of S, once, in the order of the pages, and nothing else.
OnceOnEach(S) ==
    /\ {Holds[k].page : k \in DOMAIN Holds} = S
    /\ \A i, j \in DOMAIN Holds : i < j => Holds[i].page < Holds[j].page

EveryPage == OnceOnEach(1 .. call.pages)

SignedWhereAsked ==
    CASE call.which = "all" -> EveryPage
      [] call.which = "first" -> OnceOnEach({1})
      [] call.which = "last" -> OnceOnEach({call.pages})
      [] OTHER -> OnceOnEach({call.target})

\* A stamp for every page and each of the texts that are given.
Stamped == (1 .. call.pages) \X
    ((IF call.header THEN {"header"} ELSE {}) \cup (IF call.footer THEN {"footer"} ELSE {}))

\* Each stamp of S, once, page by page, the header before the footer.
StampedOn(S) ==
    /\ {<<Holds[k].page, Holds[k].of>> : k \in DOMAIN Holds} = S
    /\ \A i, j \in DOMAIN Holds : i < j =>
          \/ Holds[i].page < Holds[j].page
          \/ /\ Holds[i].page = Holds[j].page
             /\ Holds[i].of = "header" /\ Holds[j].of = "footer"

\* For each entry the place of the request it was asked for at: each place once.
Asked(places) ==
    {asked \in [DOMAIN Holds -> places] :
        \A i, j \in DOMAIN Holds : i # j => asked[i] # asked[j]}

\* Every field the request has a value for and that takes it, in their order, and
\* none twice.
FilledAsAsked ==
    \E asked \in Asked({k \in DOMAIN call.widgets : ~call.widgets[k].blank}) :
        /\ \A k \in DOMAIN call.widgets :
              call.widgets[k].of \in call.fields /\ ~call.widgets[k].blank =>
                  \E e \in DOMAIN Holds : asked[e] = k
        /\ \A k \in DOMAIN Holds :
              Holds[k] = call.widgets[asked[k]] /\ Holds[k].of \in call.fields
        /\ \A i, j \in DOMAIN Holds : i < j => asked[i] < asked[j]

\* Every match on the page, for a text; for a pattern, at least every match in
\* the part of the page that is searched.
RedactedAsAsked ==
    /\ EveryPage
    /\ \A k \in DOMAIN Holds :
          LET matches == call.matches[Holds[k].page]
          IN  /\ Holds[k].of \subseteq matches
              /\ {m \in matches : m.early \/ call.mode = "text"} \subseteq Holds[k].of

\* edit_pdf does the kinds one after the other.
Turn(op) ==
    CASE op.does = "text" -> 1 [] op.does = "highlight" -> 2
      [] op.does = "annotation" -> 3 [] op.does = "image" -> 4

\* Every operation that shows something is done, once, on the page it names; those of
\* a kind in the order of the request, the kinds in the order text, highlight,
\* annotation, image.  No operation is on a page that does not exist.
EditedAsAsked ==
    /\ \A k \in DOMAIN call.ops : OnAPage(call.ops[k])
    /\ \E asked \in Asked({k \in DOMAIN call.ops : ~call.ops[k].blank}) :
          /\ \A k \in DOMAIN call.ops :
                ~call.ops[k].blank => \E e \in DOMAIN Holds : asked[e] = k
          /\ \A e \in DOMAIN Holds :
                LET op == call.ops[asked[e]]
                IN  /\ Holds[e].does = op.does /\ Holds[e].of = op.of
                    /\ (Holds[e].page - op.page) \in {0, call.pages + 1}
                    /\ Holds[e].page \in 1 .. call.pages
          /\ \A i, j \in DOMAIN Holds : i < j =>
                \/ Turn(Holds[i]) < Turn(Holds[j])
                \/ Turn(Holds[i]) = Turn(Holds[j]) /\ asked[i] < asked[j]

Cleared == [k \in DOMAIN Holds |-> Holds[k].of]

EditsAsAsked ==
    CASE Tool = "rotate_pdf" -> OnceOnEach(call.named)
      [] Tool \in {"watermark_pdf", "crop_pdf"} -> EveryPage
      [] Tool = "page_numbers" ->
            EveryPage /\ \A k \in DOMAIN Holds : Holds[k].of = call.start + k - 1
      [] Tool = "sign_pdf" -> SignedWhereAsked
      [] Tool = "add_header_footer" -> StampedOn(Stamped)
      [] Tool = "fill_form" -> FilledAsAsked
      [] Tool = "redact_pdf" -> RedactedAsAsked
      [] Tool = "edit_pdf" -> EditedAsAsked
      [] Tool = "remove_metadata" -> Cleared = <<"info", "xmp">>
      [] OTHER -> Len(Holds) = 1

-----------------------------------------------------------------------------
(* Versions and pictures. *)

\* Never larger than the original; smaller, and with its features, if it is not
\* the original itself.
CompressedAsAsked ==
    \/ Holds = <<Original>>
    \/ Len(Holds) = 1 /\ Holds[1].size < call.size /\ Holds[1].features >= call.features

VersionsAsAsked ==
    IF Tool = "compress_pdf" THEN CompressedAsAsked
    ELSE Len(Holds) = 1 /\ Holds[1].pages = call.pages

\* images_to_pdf: the pictures that can be opened, among those that fit.
InThePdf == {k \in DOMAIN inputs : k <= MaxPages /\ inputs[k].opens}

PicturesAsAsked ==
    CASE Tool = "merge_images" ->
            /\ Len(Holds) = 1
            /\ {Holds[1].shows[k] : k \in DOMAIN Holds[1].shows} =
                  {k \in DOMAIN inputs : inputs[k].opens}
      [] Tool = "images_to_pdf" ->
            /\ {Holds[k].shows[1] : k \in DOMAIN Holds} = InThePdf
            /\ \A i, j \in DOMAIN Holds : i < j => Holds[i].shows[1] < Holds[j].shows[1]
      [] OTHER -> Len(Holds) = 1 /\ Holds[1].shows = <<1>>

-----------------------------------------------------------------------------
(* Office files. *)

\* The k-th unit of n, each in its turn.
Counting(does, n) == Len(Holds) = n /\ \A k \in 1 .. n : Holds[k] = Unit(does, k)

\* No part twice, tables and sheets in their order, and none with more rows than
\* it has; the text of a document is always there.
PartsAsAsked ==
    /\ \A i, j \in DOMAIN Holds : i < j =>
          /\ Holds[i].part # Holds[j].part
          /\ 0 \in {Holds[i].part, Holds[j].part} \/ Holds[i].part < Holds[j].part
    /\ \A k \in DOMAIN Holds : Holds[k].rows <= Rows(Holds[k].part)
    /\ Tool \in FromWord \ {"word_to_ppt"} => \E k \in DOMAIN Holds : Holds[k].part = 0
    /\ Tool = "excel_to_csv" =>
          {Holds[k].part : k \in DOMAIN Holds} =
              IF call.all_sheets THEN DOMAIN call.sheets ELSE {call.chosen}

\* Every hit within a run, in their order, and no other.
ReplacedAsAsked ==
    \E asked \in Asked({k \in DOMAIN call.hits : call.hits[k].does = "run"}) :
        /\ \A k \in DOMAIN call.hits :
              call.hits[k].does = "run" => \E e \in DOMAIN Holds : asked[e] = k
        /\ \A e \in DOMAIN Holds : Holds[e] = call.hits[asked[e]]
        /\ \A i, j \in DOMAIN Holds : i < j => asked[i] < asked[j]

OfficeAsAsked ==
    CASE Tool \in Rendered -> Counting("page", call.pages)
      [] Tool \in Slimmed ->
            /\ Len(Holds) = call.media
            /\ \A k \in DOMAIN Holds : Holds[k].of = k
      [] Tool \in Counted /\ ~ByLibre -> PartsAsAsked
      [] Tool = "edit_word" -> ReplacedAsAsked
      [] Tool \in Unlocked -> Holds = <<Unit("cipher", call.key)>>
      [] Tool \in Protected -> Holds = <<Unit("cipher", call.pair)>>
      [] OTHER -> Len(Holds) = 1 /\ Holds[1].does # "invalid"

TextAsAsked ==
    CASE Tool = "edit_text_save" -> Len(Holds) = 1
      [] OTHER -> Counting("page", call.pages)

AsAsked ==
    CASE Tool \in PageTool -> PagesAsAsked
      [] Tool \in EditTool -> EditsAsAsked
      [] Tool \in OptimizeTool -> VersionsAsAsked
      [] Tool \in ImageTool -> PicturesAsAsked
      [] Tool \in OfficeTool -> OfficeAsAsked
      [] Tool \in TextTool -> TextAsAsked

-----------------------------------------------------------------------------
(* What four of the tools deliver instead of what they promise.                 *)

\* organize_pdf sorts the pages it is to reorder.
Sorted ==
    /\ Tool = "organize_pdf" /\ call.action # "delete"
    /\ EachAlone(PagesWhere(IsNamed)) /\ Holds # <<>>

\* add_header_footer leaves out exactly the texts that do not fit their box.
StampedWhereItFits ==
    /\ Tool = "add_header_footer" /\ Stamped \cap call.narrow # {}
    /\ StampedOn(Stamped \ call.narrow)

\* remove_metadata leaves an XMP stream it cannot delete, and no other part.
LeftXmp == Tool = "remove_metadata" /\ call.xmp_stays /\ Cleared = <<"info">>

\* edit_text_load takes the first pages of a document it cannot count.
LoadedTheFirst ==
    /\ Tool = "edit_text_load" /\ ~call.counted /\ call.pages > MaxLoadPages
    /\ Counting("page", MaxLoadPages)

FallsShort == Sorted \/ StampedWhereItFits \/ LeftXmp \/ LoadedTheFirst

Delivered == AsAsked \/ FallsShort

-----------------------------------------------------------------------------
(* What the code promises and these four do not keep. *)

\* organize_pdf "Reorder or delete pages" (pdf_engine.py:504), add_header_footer "on
\* every page" (pdf_engine.py:4909), remove_metadata "and any XMP metadata stream"
\* (pdf_engine.py:4884), edit_text_load "refuse to load huge books" (pdf_edit_text.py:80):
\* what a tool returns is what it promises, in the order and on the pages asked for.
PromisesAreKept == Returned => AsAsked

-----------------------------------------------------------------------------
(* The contract. *)

OutputIs ==
    CASE file.state = "absent" -> "absent"
      [] file.state = "closed" /\ Delivered -> "whole"
      [] OTHER -> "torn"

ResultIs == IF pc \in Settled THEN pc ELSE "none"

Contract == INSTANCE EngineCall
    WITH output <- OutputIs, result <- ResultIs,
         Absent <- "absent", Torn <- "torn", Whole <- "whole"

\* Every engine function keeps the contract the task and the pipeline rely on:
\* it settles, and where it returns, all of what was asked is at output_path (but
\* for the four known shortfalls, and then exactly what they say), whatever an
\* earlier run of the job has left there.
HonoursContract == Contract!Spec /\ Contract!Settles

-----------------------------------------------------------------------------
(* Safety. *)

InMemoryTool ==
    PageDocs \cup EditTool \cup (Counted \ {"excel_to_csv"}) \cup {"edit_word"}

\* A document that is made in memory is at output_path as a whole or not at
\* all: also the functions that fail half way leave no document with some of
\* the pages or edits, which a later reader could take for the result.  Where a
\* tool falls short of what it promises, the document is all of what it makes then.
NoPartialDocument ==
    Tool \in InMemoryTool /\ file.state = "closed" => Delivered

\* A call that has settled has removed what it made beside its output.  Some do
\* not: repair_pdf leaves the .tmp of a save that failed, compress_excel, too,
\* images_to_pdf the batches of a call that failed, and compress_word and
\* compress_ppt the directory an old format is converted in, if they fail before
\* their try begins or cannot remove the converted document.
OnlyKnownLeftovers ==
    pc \in Settled /\ temps # {} =>
        \/ Tool = "repair_pdf" /\ temps = {".tmp"} /\ Holds # <<MadeWhole("pymupdf")>>
        \/ Tool = "images_to_pdf" /\ pc = "raised"
        \/ Tool = "compress_excel" /\ pc = "raised" /\ temps = {".tmp.xlsx"}
        \/ Tool \in Slimmed /\ call.legacy /\ temps = {"converted"}

\* compress_pdf renders samples.  For a document of up to five pages these are
\* all of them: the compressed one has no page that does not render.
CompressedRenders ==
    Tool = "compress_pdf" /\ Returned /\ Holds[1].pages <= 5 => Holds[1].broken = {}

\* The parts an Office document has that could be in the result.
InputParts ==
    CASE Tool = "word_to_txt" -> {0}
      [] Tool = "word_to_ppt" -> 1 .. SlideCount
      [] Tool \in {"word_to_json", "word_to_excel"} -> 0 .. Len(call.tables)
      [] Tool = "excel_to_csv" /\ ~call.all_sheets -> {call.chosen}
      [] Tool = "excel_to_ppt" -> {k \in DOMAIN call.sheets : call.sheets[k] > 0}
      [] OTHER -> DOMAIN call.sheets

\* word_to_excel says nothing of paragraphs and of tables it leaves out.
Untold == IF Tool = "word_to_excel" THEN {k \in InputParts : k = 0 \/ k > MaxTables} ELSE {}

\* The answer says "truncated" exactly if a part is missing or has lost rows.
\* (That excel_to_json cuts columns is not told either.)
CutsAreTold ==
    Tool \in Counted /\ ~ByLibre /\ Returned =>
        (Truncated <=> \E k \in InputParts \ Untold :
                          \A e \in DOMAIN Holds : Holds[e].part = k => Holds[e].rows < Rows(k))

===============================================================================
