------------------------------- MODULE PageTools -------------------------------
(***************************************************************************)
(* The tools of engines/pdf_engine.py that make new documents, archives or *)
(* files out of the pages of old ones.                                     *)
(*                                                                         *)
(* Pages are numbered from 1; <<d, p>> is page p of the d-th input.  A     *)
(* page is abstracted to its size when written, 0 for one without area.    *)
(* An entry of an archive or a page of a document is the sequence of the   *)
(* pages it shows.                                                         *)
(***************************************************************************)
EXTENDS ToolCall, SequencesExt

CONSTANT MaxBytes  \* split_by_size: max_mb

PageZips == {"split_pdf", "split_by_bookmarks", "split_by_size",
             "pdf_to_image", "compare_pdf"}
PageDocs == {"merge_pdf", "organize_pdf", "remove_pages", "extract_pages",
             "alternate_mix", "resize_pdf", "pdf_to_excel", "pdf_to_html"}
PageTool == PageZips \cup PageDocs \cup {"pdf_to_ppt"}

\* A document is a list of pages; what a client asks for are numbers, whatever
\* they are.  Only merge_pdf can be called without an input.
ASSUME PagesAssumption ==
    \A c \in Calls :
        /\ c.tool \in PageTool => c.docs \in Seq(Seq(Nat))
        /\ c.tool \in PageTool \ {"merge_pdf"} => c.docs # <<>>
        /\ c.tool \in {"organize_pdf", "remove_pages", "extract_pages"} =>
              \A k \in DOMAIN c.ranges : c.ranges[k].from \in Int /\ c.ranges[k].to \in Int
        /\ c.tool = "pdf_to_excel" => c.tables \in [1 .. Len(c.docs[1]) -> Nat]

-----------------------------------------------------------------------------
(* Plausible faults of this code; no behaviour of Spec uses them. *)

\* The part is closed with the page that tips it over.
TippedWith(part, p) == Append(part, p)

-----------------------------------------------------------------------------
(* Pages and page ranges. *)

docs == call.docs
Total(d) == Len(docs[d])
total == Total(1)

PagesOfDoc(d) == [p \in 1 .. Total(d) |-> <<d, p>>]

\* The entries that show one page each.
OneByOne(pages) == [k \in DOMAIN pages |-> <<pages[k]>>]

\* parse_page_ranges: the pages the readable tokens of the text name, as a
\* sorted list.  "3" is the range 3-3; one that begins below 1 counts for
\* nothing, one that ends beyond the last page is cut.
Named(tokens, last) ==
    {p \in 1 .. last : \E k \in DOMAIN tokens :
        /\ tokens[k].from >= 1 /\ tokens[k].to >= 1
        /\ tokens[k].from <= p /\ p <= tokens[k].to}

\* The pages of S, one after the other.
InOrder(S) == [k \in 1 .. Cardinality(S) |-> <<1, Ascending(S)[k]>>]

\* _guard_empty
HasPages == total > 0

-----------------------------------------------------------------------------
(* What each tool checks and plans. *)

Is(tool) == pc = "check" /\ Tool = tool

\* Each input is opened once before any is read: none may be empty or locked.
Mergeable == docs # <<>> /\ ~call.locked /\ \A d \in DOMAIN docs : Total(d) > 0

MergePdf ==
    /\ Is("merge_pdf") /\ Mergeable
    /\ Start([d \in DOMAIN docs |-> PagesOfDoc(d)])
    /\ UNCHANGED file

SplitIndices ==
    IF call.mode = "all" THEN 1 .. total ELSE Named(call.ranges, total)

SplitPdf ==
    /\ Is("split_pdf") /\ HasPages /\ SplitIndices # {}
    /\ Start(OneByOne(InOrder(SplitIndices)))
    /\ OpenZip(Cardinality(SplitIndices))

\* action=delete keeps the pages that are not named, and must keep one; any
\* other keeps those that are, in the order parse_page_ranges returns them.
Organized ==
    IF call.action = "delete" THEN (1 .. total) \ Named(call.ranges, total)
    ELSE Named(call.ranges, total)

OrganizePdf ==
    /\ Is("organize_pdf") /\ HasPages
    /\ call.action = "delete" => Organized # {}
    /\ Start(OneByOne(InOrder(Organized)))
    /\ UNCHANGED file

Remaining == (1 .. total) \ Named(call.ranges, total)

RemovePages ==
    /\ Is("remove_pages") /\ HasPages /\ Remaining # {}
    /\ Start(OneByOne(InOrder(Remaining)))
    /\ UNCHANGED file

ExtractPages ==
    /\ Is("extract_pages") /\ HasPages /\ Named(call.ranges, total) # {}
    /\ Start(OneByOne(InOrder(Named(call.ranges, total))))
    /\ UNCHANGED file

\* The top-level bookmarks that point at a page, in the order of the outline.
Tops == SelectSeq(call.bookmarks, LAMBDA b : b >= 1 /\ b <= total)

\* A section ends before the next bookmark, which may come earlier in the
\* document: it has its first page in any case.
SectionEnd(k) ==
    LET before == IF k < Len(Tops) THEN Tops[k + 1] - 1 ELSE total
    IN  IF before < Tops[k] THEN Tops[k] ELSE before

Section(k) == [j \in 1 .. SectionEnd(k) - Tops[k] + 1 |-> <<1, Tops[k] + j - 1>>]

SplitByBookmarks ==
    /\ Is("split_by_bookmarks") /\ HasPages /\ Tops # <<>>
    /\ Start([k \in DOMAIN Tops |-> Section(k)])
    /\ OpenZip(Len(Tops))

SplitBySize ==
    /\ Is("split_by_size") /\ HasPages /\ MaxBytes > 0
    /\ Start(OneByOne(PagesOfDoc(1)))
    /\ OpenZip(total)

\* Page i of the one, page i of the other, and the rest of the longer one.
Interleaved ==
    LET back(i) == IF call.reverse_second THEN Total(2) + 1 - i ELSE i
        both(i) == (IF i <= Total(1) THEN <<<<1, i>>>> ELSE <<>>) \o
                   (IF i <= Total(2) THEN <<<<2, back(i)>>>> ELSE <<>>)
        longer == IF Total(1) > Total(2) THEN Total(1) ELSE Total(2)
    IN  [i \in 1 .. longer |-> both(i)]

AlternateMix ==
    /\ Is("alternate_mix") /\ Len(docs) >= 2 /\ Total(1) > 0 /\ Total(2) > 0
    /\ Start(Interleaved)
    /\ UNCHANGED file

\* A page without area is left out.
Resizable == {p \in 1 .. total : docs[1][p] > 0}

ResizePdf ==
    /\ Is("resize_pdf") /\ HasPages /\ call.page_size # "unknown"
    /\ Start(OneByOne(InOrder(Resizable)))
    /\ UNCHANGED file

PdfToImage ==
    /\ Is("pdf_to_image") /\ HasPages
    /\ Start(OneByOne(PagesOfDoc(1)))
    /\ OpenZip(total)

PdfToHtml ==
    /\ Is("pdf_to_html") /\ HasPages
    /\ Start(OneByOne(PagesOfDoc(1)))
    /\ UNCHANGED file

PdfToPpt ==
    /\ Is("pdf_to_ppt") /\ HasPages
    /\ Start(OneByOne(PagesOfDoc(1)))
    /\ UNCHANGED file

PdfToExcel ==
    /\ Is("pdf_to_excel") /\ HasPages
    /\ Start(OneByOne(PagesOfDoc(1)))
    /\ UNCHANGED file

\* As many pages as both have; what the longer one has more is not compared.
Compared == IF Total(1) < Total(2) THEN Total(1) ELSE Total(2)

ComparePdf ==
    /\ Is("compare_pdf") /\ Len(docs) >= 2 /\ Total(1) > 0 /\ Total(2) > 0
    /\ Start([i \in 1 .. Compared |-> <<<<1, i>>, <<2, i>>>>])
    /\ OpenZip(Compared)

PagePlan ==
    /\ \/ MergePdf \/ SplitPdf \/ OrganizePdf \/ RemovePages \/ ExtractPages
       \/ SplitByBookmarks \/ SplitBySize \/ AlternateMix \/ ResizePdf
       \/ PdfToImage \/ PdfToHtml \/ PdfToPpt \/ PdfToExcel \/ ComparePdf
    /\ UNCHANGED temps

-----------------------------------------------------------------------------
(* The loops. *)

\* pdf_to_excel: a sheet per table.
Tables(p) == [k \in 1 .. call.tables[p] |-> <<<<1, p>>>>]

\* The pages of a merged document are its entries, one each.
EntriesOf(unit) ==
    CASE Tool \in {"merge_pdf", "alternate_mix"} -> OneByOne(unit)
      [] Tool = "pdf_to_excel" -> Tables(unit[1][2])
      [] OTHER -> <<unit>>

PageLoop ==
    /\ Tool \in PageDocs
    /\ todo # <<>> /\ Pass(EntriesOf(Head(todo)))
    /\ InMemory(built')
    /\ UNCHANGED temps

ZipLoop ==
    /\ Tool \in PageZips \ {"split_by_size"}
    /\ todo # <<>> /\ Pass(<<Head(todo)>>)
    /\ InZip(built')
    /\ UNCHANGED temps

\* split_by_size: the part that has not been written yet.
Current ==
    LET written == Len(FlattenSeq(built))
    IN  SubSeq(PagesOfDoc(1), written + 1, total - Len(todo))

Bytes(part) == FoldSeq(LAMBDA q, n : n + docs[1][q[2]], 0, part)

\* Everything before the page that tips the part over the limit.
Tipped(part, p) == part

SizeLoop ==
    /\ Tool = "split_by_size"
    /\ todo # <<>>
    /\ LET p == Head(todo)[1]
           over == Bytes(Append(Current, p)) > MaxBytes /\ Current # <<>>
       IN  Pass(IF over THEN <<Tipped(Current, p)>> ELSE <<>>)
    /\ InZip(built')
    /\ UNCHANGED temps

\* pdf_to_ppt: each slide's picture is a temporary file until the loop ends.
SlideLoop ==
    /\ Tool = "pdf_to_ppt"
    /\ todo # <<>> /\ Pass(<<Head(todo)>>)
    /\ InMemory(built')
    /\ temps' = temps \cup {<<"png", Head(todo)[1][2]>>}

BreakPages ==
    /\ \/ Tool \in PageZips /\ BreakZip
       \/ Tool \in PageDocs \cup {"pdf_to_ppt"} /\ Break /\ UNCHANGED file
    /\ CleanUp

-----------------------------------------------------------------------------
(* The end of the loops. *)

LastPart(part) == IF Len(part) > 0 THEN <<part>> ELSE <<>>

\* What is there in the end: the last part; the summary of a comparison, which
\* shows no page; of a document without tables, one sheet with all the text.
Completed ==
    CASE Tool = "split_by_size" -> built \o LastPart(Current)
      [] Tool = "compare_pdf" -> Append(built, <<>>)
      [] Tool = "pdf_to_excel" /\ built = <<>> -> <<PagesOfDoc(1)>>
      [] OTHER -> built

\* PyMuPDF does not save a document without pages.
FinishPages ==
    /\ Tool \in PageTool
    /\ Tool \in PageDocs \ {"pdf_to_excel"} => built # <<>>
    /\ Finish(Completed)
    /\ CleanUp

FailPages ==
    /\ Tool \in PageTool
    /\ FailToWrite
    /\ CleanUp

PageNext ==
    \/ PagePlan \/ PageLoop \/ ZipLoop \/ SizeLoop \/ SlideLoop
    \/ BreakPages \/ FinishPages \/ FailPages
    \/ Tool \in PageTool /\ Refuse

===============================================================================
