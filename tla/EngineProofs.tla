------------------------------ MODULE EngineProofs ------------------------------
(***************************************************************************)
(* What is proved of the engine functions, for every set of calls and      *)
(* every limit.  A lemma takes the actions of one family of tools.         *)
(***************************************************************************)
EXTENDS EngineProperties, SequenceTheorems, FiniteSetTheorems, WellFoundedInduction, TLAPS

-----------------------------------------------------------------------------
(* Whose actions apply. *)

\* A step of a family is one of a call of its tools; it leaves the call as it is,
\* and past its checks.
LEMMA PageSteps == PageNext => Tool \in PageTool /\ call' = call /\ pc' # "check"
  <1> SUFFICES ASSUME PageNext PROVE Tool \in PageTool /\ call' = call /\ pc' # "check"
    OBVIOUS
  <1>1. Tool \in PageTool
    BY DEF PageNext, PagePlan, MergePdf, SplitPdf, OrganizePdf, RemovePages, ExtractPages,
           SplitByBookmarks, SplitBySize, AlternateMix, ResizePdf, PdfToImage, PdfToHtml,
           PdfToPpt, PdfToExcel, ComparePdf, Is, PageTool, PageZips, PageDocs,
           PageLoop, ZipLoop, SizeLoop, SlideLoop, BreakPages, FinishPages, FailPages
  <1>2. call' = call /\ pc' # "check"
    BY DEF PageNext, PagePlan, MergePdf, SplitPdf, OrganizePdf, RemovePages, ExtractPages,
           SplitByBookmarks, SplitBySize, AlternateMix, ResizePdf, PdfToImage, PdfToHtml,
           PdfToPpt, PdfToExcel, ComparePdf, PageLoop, ZipLoop, SizeLoop, SlideLoop,
           BreakPages, FinishPages, FailPages, Start, Pass, Break, BreakZip, Finish, Return,
           FailToWrite, Refuse
  <1>. QED BY <1>1, <1>2

LEMMA EditSteps == EditNext => Tool \in EditTool /\ call' = call /\ pc' # "check"
  <1> SUFFICES ASSUME EditNext PROVE Tool \in EditTool /\ call' = call /\ pc' # "check"
    OBVIOUS
  <1>1. Tool \in EditTool
    BY DEF EditNext, EditPlan, RotatePdf, WatermarkPdf, PageNumbers, CropPdf, SignPdf,
           ProtectPdf, UnlockPdf, RemoveMetadata, AddHeaderFooter, FillForm, FlattenPdf,
           RedactPdf, EditPdf, Editable, EditTool, Forgiving, MakeEdit, Plain, LeaveOut,
           CropPage, RedactPage, DoOperation, SkipOperation, BreakEdits, FinishEdits,
           FailEdits, RefuseEdits
  <1>2. call' = call /\ pc' # "check"
    BY DEF EditNext, EditPlan, RotatePdf, WatermarkPdf, PageNumbers, CropPdf, SignPdf,
           ProtectPdf, UnlockPdf, RemoveMetadata, AddHeaderFooter, FillForm, FlattenPdf,
           RedactPdf, EditPdf, MakeEdit, LeaveOut, CropPage, RedactPage, DoOperation,
           SkipOperation, BreakEdits, FinishEdits, FailEdits, RefuseEdits, Start, Pass, Break,
           Finish, Return, FailToWrite, Refuse
  <1>. QED BY <1>1, <1>2

LEMMA OptimizeSteps == OptimizeNext => Tool \in OptimizeTool /\ call' = call /\ pc' # "check"
  <1> SUFFICES ASSUME OptimizeNext
               PROVE  Tool \in OptimizeTool /\ call' = call /\ pc' # "check"
    OBVIOUS
  <1>. QED
    BY DEF OptimizeNext, CompressPdf, AddCandidate, NoCandidate, KeepSmallest, CompressFails,
           RepairPdf, RepairRefused, RepairBySaving, SavingFails, RepairByGhostscript,
           GhostscriptFails, CopyThrough, CopyThroughFails, LinearizePdf, Linearize,
           QpdfUnused, LinearizeFails, PdfToPdfa, ConvertToPdfa, PdfaFails, AtWork,
           OptimizeTool, Start, Pass, Break, Finish, Answer, Return, FailToWrite, Refuse

LEMMA ImageSteps == ImageNext => Tool \in ImageTool /\ call' = call /\ pc' # "check"
  <1> SUFFICES ASSUME ImageNext PROVE Tool \in ImageTool /\ call' = call /\ pc' # "check"
    OBVIOUS
  <1>1. Tool \in ImageTool
    BY DEF ImageNext, ImagePlan, ResizeImage, CropImage, FlipImage, EnhanceImage, WatermarkImage,
           AddTextImage, RemoveBg, ImageToPdf, ImageToExcel, ImageToWord, CompressImage,
           ConvertImage, RotateImage, GrayscaleImage, MergeImages, ImagesToPdf, Asks,
           SavePicture, CopyPicture, WriteCutOut, ReencodePicture, ComparePicture, FinishPicture,
           BreakPicture, PastePicture, SaveMerged, FailMerged, SaveBatch, JoinBatches, FailBatches, ImageStep,
           ImageTool, OneImage, Redrawn, Rewritten, MaybeCopied
  <1>2. call' = call /\ pc' # "check"
    BY DEF ImageNext, ImagePlan, ResizeImage, CropImage, FlipImage, EnhanceImage, WatermarkImage,
           AddTextImage, RemoveBg, ImageToPdf, ImageToExcel, ImageToWord, CompressImage,
           ConvertImage, RotateImage, GrayscaleImage, MergeImages, ImagesToPdf, SavePicture,
           CopyPicture, WriteCutOut, ReencodePicture, ComparePicture, FinishPicture,
           BreakPicture, PastePicture, SaveMerged, FailMerged, SaveBatch, JoinBatches, FailBatches, Start, Pass, Break, Finish, Return,
           FailToWrite, Refuse
  <1>. QED BY <1>1, <1>2

LEMMA OfficeSteps == OfficeNext => Tool \in OfficeTool /\ call' = call /\ pc' # "check"
  <1> SUFFICES ASSUME OfficeNext PROVE Tool \in OfficeTool /\ call' = call /\ pc' # "check"
    OBVIOUS
  <1>1. Tool \in OfficeTool
    BY DEF OfficeNext, BeginConversion, Convert, RetryPlain, ConversionFails, ConversionRaises,
           RenderPage, BeginParts, WritePart, EditWord, ReplaceHit, BeginSlimming, Unpack,
           UnpackFails, Unpacked, SlimImage, CompressExcel, TrimBook, TrimFails, BeginCipher,
           Cipher, RepairExcel, PassThrough, RoundTrip, RoundTripping, RoundTripFails,
           BreakOffice, FinishOffice, FailOffice, Attempting, Trimming, Requested, OfficeTool
  <1>2. call' = call /\ pc' # "check"
    BY DEF OfficeNext, BeginConversion, Convert, RetryPlain, ConversionFails, ConversionRaises,
           RenderPage, BeginParts, WritePart, EditWord, ReplaceHit, BeginSlimming, Unpack,
           UnpackFails, SlimImage, CompressExcel, TrimBook, TrimFails, BeginCipher, Cipher,
           RepairExcel, PassThrough, RoundTrip, RoundTripFails, BreakOffice, FinishOffice,
           FailOffice, Attempting, Start, Pass, Break, BreakZip, Finish, Return, FailToWrite, Refuse
  <1>. QED BY <1>1, <1>2

LEMMA TextSteps == TextNext => Tool \in TextTool /\ call' = call /\ pc' # "check"
  <1> SUFFICES ASSUME TextNext PROVE Tool \in TextTool /\ call' = call /\ pc' # "check"
    OBVIOUS
  <1>. QED
    BY DEF TextNext, LoadText, TextToWord, WordToHtml, SaveText, RenderText, BreakText,
           FinishText, FailText, TextTool, Requested, Start, Pass, Break, Finish, Return,
           FailToWrite, Refuse

\* No step is one of two families.
LEMMA OneFamily ==
    /\ Tool \in PageTool => Tool \notin EditTool \cup OptimizeTool \cup ImageTool \cup OfficeTool \cup TextTool
    /\ Tool \in EditTool => Tool \notin OptimizeTool \cup ImageTool \cup OfficeTool \cup TextTool
    /\ Tool \in OptimizeTool => Tool \notin ImageTool \cup OfficeTool \cup TextTool
    /\ Tool \in ImageTool => Tool \notin OfficeTool \cup TextTool
    /\ Tool \in OfficeTool => Tool \notin TextTool
  BY DEF PageTool, PageZips, PageDocs, EditTool, Forgiving, OptimizeTool, ImageTool, OneImage,
         Redrawn, Rewritten, MaybeCopied, OfficeTool, Converted, Rendered, Counted, FromWord,
         Slimmed, Unlocked, Protected, TextTool

LEMMA NextKeepsCall == Next => call' = call /\ pc' # "check"
  BY PageSteps, EditSteps, OptimizeSteps, ImageSteps, OfficeSteps, TextSteps DEF Next

-----------------------------------------------------------------------------
(* What is beside the output. *)

\* Tools that make nothing beside their output.
Tidy == EditTool \cup OneImage \cup {"merge_images", "linearize_pdf"}

Fresh == temps = {} /\ todo = <<>> /\ built = <<>> /\ file.holds = <<>>

\* repair_pdf: PyMuPDF comes first, and only its .tmp may be there afterwards.
RepairingPdf ==
    /\ built = <<>> /\ file.holds = <<>>
    /\ todo \in {<<"pymupdf", "ghostscript">>, <<"ghostscript">>, <<>>}
    /\ Len(todo) = 2 => temps = {}
    /\ temps \in {{}, {".tmp"}}

\* repair_excel: nothing is there before LibreOffice runs, and a workbook with
\* macros is never given to it.
RepairingExcel ==
    /\ todo \in {<<Unit("openpyxl", 0), Unit("plain", 0)>>, <<Unit("plain", 0)>>, <<>>}
    /\ Len(todo) = 2 => temps = {}
    /\ call.ext = "xlsm" => todo = <<>> /\ temps = {}

\* compress_word and compress_ppt: LibreOffice runs before the document is unpacked.
Slimming ==
    \/ /\ call.legacy /\ temps = {"converted", "profile"}
       /\ todo = <<Unit("plain", 0)>>
    \/ /\ temps \subseteq (IF call.legacy THEN {"converted", "work"} ELSE {"work"})
       /\ todo \in Seq({Unit("image", n) : n \in Nat})

TempsInv ==
    /\ call \in Calls
    /\ pc = "check" => Fresh
    /\ Tool \in Tidy => temps = {}
    /\ Tool \in Slimmed /\ pc = "work" => Slimming
    /\ Tool = "repair_pdf" /\ pc = "work" => RepairingPdf
    /\ Tool = "repair_excel" /\ pc = "work" => RepairingExcel
    /\ OnlyKnownLeftovers

\* At work, only these must look at what they have.
Watched == {"repair_pdf", "repair_excel"} \cup Slimmed

LEMMA TempsAtWork ==
    ASSUME TempsInv, call' = call, pc' = "work",
           Tool \notin Watched, Tool \in Tidy => temps' = temps
    PROVE  TempsInv'
  BY DEF TempsInv, Watched, Tool, OnlyKnownLeftovers, Settled

\* The end is clean.
LEMMA TempsAtEnd ==
    ASSUME TempsInv, call' = call, pc' \in Settled, temps' = {}
    PROVE  TempsInv'
  BY DEF TempsInv, Tool, OnlyKnownLeftovers, Settled

\* So is a refusal: nothing has been made by then.
LEMMA TempsRefused ==
    ASSUME TempsInv, Refuse
    PROVE  TempsInv'
  BY TempsAtEnd DEF TempsInv, Fresh, Refuse, Settled

LEMMA PageTemps ==
    ASSUME TempsInv, PageNext
    PROVE  TempsInv'
  <1>1. Tool \in PageTool
    BY PageSteps
  <1>2. Tool \notin Tidy /\ Tool \notin Watched
    BY <1>1 DEF PageTool, PageZips, PageDocs, Watched, Slimmed, Tidy, EditTool, Forgiving, OneImage, Redrawn,
                Rewritten, MaybeCopied
  <1>3. CASE PagePlan
    <2>1. call' = call /\ pc' = "work"
      BY <1>3 DEF PagePlan, MergePdf, SplitPdf, OrganizePdf, RemovePages, ExtractPages,
           SplitByBookmarks, SplitBySize, AlternateMix, ResizePdf, PdfToImage, PdfToHtml,
           PdfToPpt, PdfToExcel, ComparePdf, Start
    <2>. QED BY <1>2, <2>1, TempsAtWork
  <1>4. CASE PageLoop \/ ZipLoop \/ SizeLoop \/ SlideLoop
    <2>1. call' = call /\ pc' = "work"
      BY <1>4 DEF PageLoop, ZipLoop, SizeLoop, SlideLoop, Pass
    <2>. QED BY <1>2, <2>1, TempsAtWork
  <1>5. CASE BreakPages \/ FinishPages \/ FailPages
    <2>1. call' = call /\ pc' \in Settled /\ temps' = {}
      BY <1>5 DEF BreakPages, FinishPages, FailPages, BreakZip, Break, Finish, Return,
                  FailToWrite, CleanUp, Settled
    <2>. QED BY <2>1, TempsAtEnd
  <1>6. CASE Tool \in PageTool /\ Refuse
    BY <1>6, TempsRefused
  <1>. QED BY <1>3, <1>4, <1>5, <1>6 DEF PageNext

LEMMA EditTemps ==
    ASSUME TempsInv, EditNext
    PROVE  TempsInv'
  <1>1. Tool \in EditTool
    BY EditSteps
  <1>2. Tool \in Tidy /\ temps = {} /\ Tool \notin Watched
    BY <1>1 DEF EditTool, Forgiving, Watched, Slimmed, Tidy, TempsInv
  <1>3. CASE EditPlan
    <2>1. call' = call /\ pc' = "work" /\ temps' = temps
      BY <1>3 DEF EditPlan, RotatePdf, WatermarkPdf, PageNumbers, CropPdf, SignPdf,
           ProtectPdf, UnlockPdf, RemoveMetadata, AddHeaderFooter, FillForm, FlattenPdf,
           RedactPdf, EditPdf, Start
    <2>. QED BY <1>2, <2>1, TempsAtWork
  <1>4. CASE MakeEdit \/ LeaveOut \/ CropPage \/ RedactPage \/ DoOperation \/ SkipOperation
    <2>1. call' = call /\ pc' = "work" /\ temps' = temps
      BY <1>4 DEF MakeEdit, LeaveOut, CropPage, RedactPage, DoOperation, SkipOperation, Pass
    <2>. QED BY <1>2, <2>1, TempsAtWork
  <1>5. CASE BreakEdits \/ FinishEdits \/ FailEdits
    <2>1. call' = call /\ pc' \in Settled /\ temps' = {}
      BY <1>2, <1>5 DEF BreakEdits, FinishEdits, FailEdits, Break, Finish, Return,
                        FailToWrite, Settled
    <2>. QED BY <2>1, TempsAtEnd
  <1>6. CASE RefuseEdits
    BY <1>6, TempsRefused DEF RefuseEdits
  <1>. QED BY <1>3, <1>4, <1>5, <1>6 DEF EditNext

\* What a write that fails leaves of nothing is nothing.
LEMMA NothingTorn == \A torn \in TornFiles(<<>>) : torn.holds = <<>>
  <1>1. \A k \in 0 .. Len(<<>>) : SubSeq(<<>>, 1, k) = <<>>
    OBVIOUS
  <1>. QED BY <1>1 DEF TornFiles, Opened

\* What a list of at most two is, by its length.
LEMMA ShortLists ==
    ASSUME NEW t, NEW a, NEW b, NEW c, t \in {<<a, b>>, <<c>>, <<>>}
    PROVE  /\ Len(t) = 2 => t = <<a, b>> /\ Tail(t) = <<b>>
           /\ Len(t) = 1 => t = <<c>> /\ Tail(t) = <<>>
  <1>1. CASE t = <<a, b>>
    BY <1>1
  <1>2. CASE t = <<c>>
    BY <1>2
  <1>3. CASE t = <<>>
    BY <1>3
  <1>. QED BY <1>1, <1>2, <1>3

\* repair_pdf, step by step.
LEMMA RepairTemps ==
    ASSUME TempsInv, Tool = "repair_pdf",
           \/ RepairPdf \/ RepairRefused \/ RepairBySaving \/ SavingFails
           \/ RepairByGhostscript \/ GhostscriptFails \/ CopyThrough \/ CopyThroughFails
    PROVE  TempsInv'
  <1> USE DEF TempsInv, Tool
  <1>1. Tool \notin Tidy /\ Tool # "repair_excel" /\ Tool \notin Slimmed
    BY DEF EditTool, Forgiving, OneImage, Redrawn, Rewritten, MaybeCopied, Tidy, Slimmed
  <1>2. call' = call
    BY DEF RepairPdf, RepairRefused, RepairBySaving, SavingFails, RepairByGhostscript,
           GhostscriptFails, CopyThrough, CopyThroughFails, Start, Break, Answer, Return,
           Pass, Finish, FailToWrite
  <1>3. CASE RepairPdf
    <2>1. pc' = "work" /\ RepairingPdf'
      BY <1>3 DEF RepairPdf, Start, Fresh, RepairingPdf
    <2>. QED BY <1>1, <1>2, <2>1 DEF OnlyKnownLeftovers, Settled
  <1>4. CASE RepairRefused
    <2>1. pc' \in Settled /\ temps' = {}
      BY <1>4 DEF RepairRefused, AtWork, Break, RepairingPdf, Settled
    <2>. QED BY <1>2, <2>1, TempsAtEnd
  <1>5. CASE RepairBySaving
    <2>1. pc' \in Settled /\ temps' = {}
      BY <1>5 DEF RepairBySaving, AtWork, Answer, Return, RepairingPdf, Settled
    <2>. QED BY <1>2, <2>1, TempsAtEnd
  <1>6. CASE SavingFails
    <2>1. RepairingPdf /\ pc' = "work" /\ Len(todo) = 2
      BY <1>6 DEF SavingFails, AtWork, Pass
    <2>2. todo' = <<"ghostscript">> /\ built' = <<>> /\ file' = file
      <3>1. todo = <<"pymupdf", "ghostscript">> /\ built = <<>>
        <4>1. todo \in {<<"pymupdf", "ghostscript">>, <<"ghostscript">>, <<>>} /\ built = <<>>
          BY <2>1 DEF RepairingPdf
        <4>. QED BY <2>1, <4>1, ShortLists
      <3>2. todo' = Tail(todo) /\ built' = built \o <<>> /\ file' = file
        BY <1>6 DEF SavingFails, Pass
      <3>. QED BY <3>1, <3>2
    <2>3. RepairingPdf'
      BY <1>6, <2>1, <2>2 DEF SavingFails, RepairingPdf
    <2>. QED BY <1>1, <1>2, <2>1, <2>3 DEF OnlyKnownLeftovers, Settled
  <1>7. CASE RepairByGhostscript
    <2>1. RepairingPdf
      BY <1>7 DEF RepairByGhostscript, AtWork
    <2>2. pc' = "returned" /\ temps' = temps /\ Holds' = <<MadeWhole("ghostscript")>>
      BY <1>7 DEF RepairByGhostscript, Answer, Return, Closed, Holds, MadeWhole, Version
    <2>3. MadeWhole("ghostscript") # MadeWhole("pymupdf")'
      BY DEF MadeWhole, Version
    <2>4. Holds' # <<MadeWhole("pymupdf")>>'
      BY <2>2, <2>3
    <2>. QED BY <1>1, <1>2, <2>1, <2>2, <2>4 DEF OnlyKnownLeftovers, RepairingPdf
  <1>8. CASE GhostscriptFails
    <2>1. RepairingPdf /\ pc' = "work" /\ Len(todo) = 1
      BY <1>8 DEF GhostscriptFails, AtWork, Pass
    <2>2. todo' = <<>> /\ built' = <<>> /\ file' = file /\ temps' = temps
      <3>1. todo \in {<<"pymupdf", "ghostscript">>, <<"ghostscript">>, <<>>} /\ built = <<>>
        BY <2>1 DEF RepairingPdf
      <3>2. Tail(todo) = <<>>
        BY <2>1, <3>1, ShortLists
      <3>3. todo' = Tail(todo) /\ built' = built \o <<>> /\ file' = file /\ temps' = temps
        BY <1>8 DEF GhostscriptFails, Pass
      <3>. QED BY <3>1, <3>2, <3>3
    <2>3. RepairingPdf'
      BY <2>1, <2>2 DEF RepairingPdf
    <2>. QED BY <1>1, <1>2, <2>1, <2>3 DEF OnlyKnownLeftovers, Settled
  <1>9. CASE CopyThrough
    <2>1. RepairingPdf
      BY <1>9 DEF CopyThrough, AtWork
    <2>2. pc' = "returned" /\ temps' = temps /\ Holds' = <<Original>>
      BY <1>9 DEF CopyThrough, Finish, Return, Closed, Holds
    <2>3. Original # MadeWhole("pymupdf")'
      BY DEF MadeWhole, Original, Version
    <2>4. Holds' # <<MadeWhole("pymupdf")>>'
      BY <2>2, <2>3
    <2>. QED BY <1>1, <1>2, <2>1, <2>2, <2>4 DEF OnlyKnownLeftovers, RepairingPdf
  <1>10. CASE CopyThroughFails
    <2>1. RepairingPdf
      BY <1>10 DEF CopyThroughFails, AtWork
    <2>2. pc' = "raised" /\ temps' = temps /\ file' \in {file} \cup TornFiles(<<>>)
      BY <1>10, <2>1 DEF CopyThroughFails, FailToWrite, RepairingPdf
    <2>3. Holds' = <<>>
      BY <2>1, <2>2, NothingTorn DEF Holds, RepairingPdf
    <2>4. Holds' # <<MadeWhole("pymupdf")>>'
      BY <2>3
    <2>. QED BY <1>1, <1>2, <2>1, <2>2, <2>4 DEF OnlyKnownLeftovers, RepairingPdf
  <1>. QED BY <1>3, <1>4, <1>5, <1>6, <1>7, <1>8, <1>9, <1>10

LEMMA OptimizeTemps ==
    ASSUME TempsInv, OptimizeNext
    PROVE  TempsInv'
  <1>1. CASE CompressPdf \/ AddCandidate \/ NoCandidate
    <2>1. call' = call /\ pc' = "work" /\ Tool = "compress_pdf"
      BY <1>1 DEF CompressPdf, AddCandidate, NoCandidate, Start, Pass, AtWork
    <2>2. Tool \notin Tidy /\ Tool \notin Watched
      BY <2>1 DEF EditTool, Forgiving, OneImage, Redrawn, Rewritten, MaybeCopied, Tidy, Watched,
                  Slimmed
    <2>. QED BY <2>1, <2>2, TempsAtWork
  <1>2. CASE KeepSmallest \/ CompressFails \/ ConvertToPdfa \/ PdfaFails
    <2>1. call' = call /\ pc' \in Settled /\ temps' = {}
      BY <1>2 DEF KeepSmallest, CompressFails, ConvertToPdfa, PdfaFails, Finish, Answer, Return,
                  Break, FailToWrite, CleanUp, Settled
    <2>. QED BY <2>1, TempsAtEnd
  <1>3. CASE \/ RepairPdf \/ RepairRefused \/ RepairBySaving \/ SavingFails
             \/ RepairByGhostscript \/ GhostscriptFails \/ CopyThrough \/ CopyThroughFails
    <2>1. Tool = "repair_pdf"
      BY <1>3 DEF RepairPdf, RepairRefused, RepairBySaving, SavingFails, RepairByGhostscript,
                  GhostscriptFails, CopyThrough, CopyThroughFails, AtWork
    <2>. QED BY <1>3, <2>1, RepairTemps
  <1>4. CASE LinearizePdf \/ QpdfUnused
    <2>1. call' = call /\ pc' = "work" /\ Tool = "linearize_pdf" /\ temps' = temps
      BY <1>4 DEF LinearizePdf, QpdfUnused, Start, Pass, AtWork
    <2>2. Tool \notin Watched
      BY <2>1 DEF Watched, Slimmed
    <2>. QED BY <2>1, <2>2, TempsAtWork
  <1>5. CASE Linearize \/ LinearizeFails
    <2>1. call' = call /\ pc' \in Settled /\ Tool = "linearize_pdf" /\ temps' = temps
      BY <1>5 DEF Linearize, LinearizeFails, Answer, Return, Break, AtWork, Settled
    <2>2. temps = {}
      BY <2>1 DEF TempsInv, Tidy
    <2>. QED BY <2>1, <2>2, TempsAtEnd
  <1>6. CASE PdfToPdfa
    <2>1. call' = call /\ pc' = "work" /\ Tool = "pdf_to_pdfa"
      BY <1>6 DEF PdfToPdfa, Start
    <2>2. Tool \notin Tidy /\ Tool \notin Watched
      BY <2>1 DEF EditTool, Forgiving, OneImage, Redrawn, Rewritten, MaybeCopied, Tidy, Watched,
                  Slimmed
    <2>. QED BY <2>1, <2>2, TempsAtWork
  <1>7. CASE Tool \in OptimizeTool /\ Refuse
    BY <1>7, TempsRefused
  <1>. QED BY <1>1, <1>2, <1>3, <1>4, <1>5, <1>6, <1>7 DEF OptimizeNext

LEMMA ImageTemps ==
    ASSUME TempsInv, ImageNext
    PROVE  TempsInv'
  <1>1. CASE ImagePlan
    <2>1. call' = call /\ pc' = "work" /\ temps' = temps /\ Tool \in ImageTool
      BY <1>1 DEF ImagePlan, ResizeImage, CropImage, FlipImage, EnhanceImage, WatermarkImage,
           AddTextImage, RemoveBg, ImageToPdf, ImageToExcel, ImageToWord, CompressImage,
           ConvertImage, RotateImage, GrayscaleImage, MergeImages, ImagesToPdf, Start, Asks,
           ImageTool, OneImage, Redrawn, Rewritten, MaybeCopied
    <2>2. Tool \notin Watched
      BY <2>1 DEF ImageTool, OneImage, Redrawn, Rewritten, MaybeCopied, Watched, Slimmed
    <2>. QED BY <2>1, <2>2, TempsAtWork
  <1>2. CASE \/ SavePicture \/ CopyPicture \/ WriteCutOut \/ ReencodePicture \/ ComparePicture
             \/ PastePicture
    <2>1. call' = call /\ pc' = "work" /\ temps' = temps /\ Tool \in ImageTool
      BY <1>2 DEF SavePicture, CopyPicture, WriteCutOut, ReencodePicture, ComparePicture,
                  PastePicture, ImageStep, Pass, ImageTool
    <2>2. Tool \notin Watched
      BY <2>1 DEF ImageTool, OneImage, Redrawn, Rewritten, MaybeCopied, Watched, Slimmed
    <2>. QED BY <2>1, <2>2, TempsAtWork
  <1>3. CASE FinishPicture \/ BreakPicture \/ SaveMerged \/ FailMerged
    <2>1. call' = call /\ pc' \in Settled /\ temps' = temps /\ Tool \in Tidy
      BY <1>3 DEF FinishPicture, BreakPicture, SaveMerged, FailMerged, Finish, Return, Break,
                  FailToWrite, Tidy, Settled
    <2>2. temps = {}
      BY <2>1 DEF TempsInv
    <2>. QED BY <2>1, <2>2, TempsAtEnd
  <1>4. CASE SaveBatch
    <2>1. call' = call /\ pc' = "work" /\ Tool = "images_to_pdf"
      BY <1>4 DEF SaveBatch, Pass
    <2>2. Tool \notin Tidy /\ Tool \notin Watched
      BY <2>1 DEF EditTool, Forgiving, OneImage, Redrawn, Rewritten, MaybeCopied, Tidy, Watched,
                  Slimmed
    <2>. QED BY <2>1, <2>2, TempsAtWork
  <1>5. CASE JoinBatches
    <2>1. call' = call /\ pc' \in Settled /\ temps' = {}
      BY <1>5 DEF JoinBatches, Finish, Return, Settled
    <2>. QED BY <2>1, TempsAtEnd
  <1>6. CASE FailBatches
    <2>1. call' = call /\ pc' = "raised" /\ Tool = "images_to_pdf"
      BY <1>6 DEF FailBatches, Break, FailToWrite
    <2>2. Tool \notin Tidy
      BY <2>1 DEF EditTool, Forgiving, OneImage, Redrawn, Rewritten, MaybeCopied, Tidy
    <2>. QED BY <2>1, <2>2 DEF TempsInv, Tool, OnlyKnownLeftovers
  <1>7. CASE Tool \in ImageTool /\ Refuse
    BY <1>7, TempsRefused
  <1>. QED BY <1>1, <1>2, <1>3, <1>4, <1>5, <1>6, <1>7 DEF ImageNext

\* repair_excel, step by step; what it shares with the other tools of the office
\* engine is LibreOffice and the end.
LEMMA RepairExcelTemps ==
    ASSUME TempsInv, Tool = "repair_excel", OfficeNext
    PROVE  TempsInv'
  <1> USE DEF TempsInv, Tool
  <1>1. /\ Tool \notin Tidy /\ Tool # "repair_pdf"
        /\ Tool \notin Converted \cup Rendered \cup Counted \cup Slimmed \cup Unlocked
        /\ Tool \notin Protected
        /\ ~Zipping /\ ~Ciphering /\ ~ByLibre
    BY DEF EditTool, Forgiving, OneImage, Redrawn, Rewritten, MaybeCopied, Tidy, Converted,
           Rendered, Counted, FromWord, Slimmed, Unlocked, Protected, Zipping, Ciphering,
           Archives, ByLibre
  <1>2. pc = "work" => RepairingExcel
    OBVIOUS
  <1>3. CASE Convert
    <2>1. pc = "work" /\ pc' = "work" /\ call' = call /\ Head(todo).does \in {"filtered", "plain"}
          /\ todo # <<>>
      BY <1>3 DEF Convert, Attempting
    <2>2. todo = <<Unit("plain", 0)>>
      BY <1>2, <2>1 DEF RepairingExcel, Unit
    <2>3. todo' = <<>>
      BY <1>1, <1>3 DEF Convert, AfterConversion
    <2>4. RepairingExcel'
      BY <1>2, <2>1, <2>2, <2>3 DEF RepairingExcel
    <2>. QED BY <1>1, <2>1, <2>4 DEF OnlyKnownLeftovers, Settled
  <1>4. CASE RetryPlain
    <2>1. pc = "work" /\ Head(todo).does \in {"filtered", "plain"} /\ Len(todo) = 2
      BY <1>4 DEF RetryPlain, Attempting
    <2>. QED BY <1>2, <2>1 DEF RepairingExcel, Unit
  <1>5. CASE ConversionFails \/ BreakOffice \/ FinishOffice \/ FailOffice \/ TrimFails
    <2>1. call' = call /\ pc' \in Settled /\ temps' = {}
      BY <1>1, <1>5 DEF ConversionFails, BreakOffice, FinishOffice, FailOffice, CleanUpOffice,
                  TrimFails, Trimming, Break, BreakZip, Finish, Return, FailToWrite, CleanUp, Settled
    <2>. QED BY <2>1, TempsAtEnd
  <1>6. CASE RepairExcel
    <2>1. pc' = "work" /\ call' = call /\ RepairingExcel'
      BY <1>6 DEF RepairExcel, Requested, Start, Fresh, RepairingExcel
    <2>. QED BY <1>1, <2>1 DEF OnlyKnownLeftovers, Settled
  <1>7. CASE PassThrough \/ RoundTrip
    <2>1. call' = call /\ pc' \in Settled /\ temps' = temps /\ temps = {}
      BY <1>2, <1>7 DEF PassThrough, RoundTrip, RoundTripping, Finish, Return, RepairingExcel,
                        Settled
    <2>. QED BY <2>1, TempsAtEnd
  <1>8. CASE RoundTripFails
    <2>1. pc = "work" /\ pc' = "work" /\ call' = call /\ Len(todo) = 2 /\ todo' = Tail(todo)
      BY <1>8 DEF RoundTripFails, RoundTripping, Pass
    <2>2. todo = <<Unit("openpyxl", 0), Unit("plain", 0)>> /\ call.ext # "xlsm"
      <3>1. todo \in {<<Unit("openpyxl", 0), Unit("plain", 0)>>, <<Unit("plain", 0)>>, <<>>}
        BY <1>2, <2>1 DEF RepairingExcel
      <3>2. todo = <<Unit("openpyxl", 0), Unit("plain", 0)>>
        BY <2>1, <3>1, ShortLists
      <3>3. todo # <<>>
        BY <3>2
      <3>. QED BY <1>2, <2>1, <3>2, <3>3 DEF RepairingExcel
    <2>3. todo' = <<Unit("plain", 0)>>
      BY <2>1, <2>2
    <2>4. RepairingExcel'
      BY <2>1, <2>2, <2>3 DEF RepairingExcel
    <2>. QED BY <1>1, <2>1, <2>4 DEF OnlyKnownLeftovers, Settled
  <1>9. CASE Refuse
    BY <1>9, TempsRefused
  <1>10. ~(\/ BeginConversion \/ RenderPage \/ BeginParts \/ WritePart \/ EditWord \/ ReplaceHit
           \/ BeginSlimming \/ Unpack \/ UnpackFails \/ SlimImage \/ ConversionRaises
           \/ CompressExcel \/ TrimBook \/ BeginCipher \/ Cipher)
    BY <1>1 DEF BeginConversion, RenderPage, BeginParts, WritePart, EditWord, ReplaceHit,
                BeginSlimming, Unpack, UnpackFails, Unpacked, SlimImage, ConversionRaises, CompressExcel, TrimBook, Trimming, BeginCipher, Cipher,
                Requested
  <1>. QED BY <1>3, <1>4, <1>5, <1>6, <1>7, <1>8, <1>9, <1>10 DEF OfficeNext

\* compress_word and compress_ppt, step by step: the directory of the conversion is
\* there until the end, and stays if the call does not come to its try.
LEMMA SlimmingTemps ==
    ASSUME TempsInv, Tool \in Slimmed, OfficeNext
    PROVE  TempsInv'
  <1> USE DEF TempsInv, Tool
  <1>1. /\ Tool \notin Tidy /\ Tool # "repair_pdf" /\ Tool # "repair_excel"
        /\ Tool \notin Converted \cup Rendered \cup Counted \cup Unlocked \cup Protected
        /\ Tool \notin {"edit_word", "compress_excel"}
        /\ ~ByLibre
    BY DEF EditTool, Forgiving, OneImage, Redrawn, Rewritten, MaybeCopied, Tidy, Converted,
           Rendered, Counted, FromWord, Slimmed, Unlocked, Protected, ByLibre
  <1>2. pc = "work" => Slimming
    OBVIOUS
  <1> DEFINE Images == Seq({Unit("image", n) : n \in Nat})
  <1>3. call.media \in Nat
    BY CountsAssumption
  <1>4. Units("image", call.media) \in Images
    BY <1>3 DEF Units
  <1>5. \A t \in Images : t # <<>> => Head(t).does = "image" /\ Tail(t) \in Images
    BY DEF Unit
  <1>6. ASSUME Attempting
        PROVE  call.legacy /\ temps = {"converted", "profile"} /\ todo = <<Unit("plain", 0)>>
    <2>1. Slimming /\ todo # <<>> /\ Head(todo).does # "image"
      BY <1>2, <1>6 DEF Attempting
    <2>. QED BY <1>5, <2>1 DEF Slimming
  <1>7. ASSUME pc = "work", ~Attempting
        PROVE  /\ temps \subseteq (IF call.legacy THEN {"converted", "work"} ELSE {"work"})
               /\ todo \in Images
    <2>1. todo # <<Unit("plain", 0)>>
      <3>1. <<Unit("plain", 0)>> # <<>> /\ Head(<<Unit("plain", 0)>>).does = "plain"
        BY DEF Unit
      <3>. QED BY <1>7, <3>1 DEF Attempting, OfficeTool
    <2>. QED BY <1>2, <1>7, <2>1 DEF Slimming
  <1> HIDE DEF Images
  <1>8. CASE BeginSlimming
    <2>1. call' = call /\ pc' = "work" /\ Slimming'
      BY <1>4, <1>8 DEF BeginSlimming, Requested, Start, Slimming, Fresh, Images
    <2>. QED BY <1>1, <2>1 DEF OnlyKnownLeftovers, Settled
  <1>9. CASE Convert
    <2>1. call' = call /\ pc' = "work" /\ todo' = Units("image", call.media)
      BY <1>1, <1>9 DEF Convert, AfterConversion, Attempting
    <2>2. call.legacy /\ temps' = {"converted"}
      BY <1>6, <1>9 DEF Convert
    <2>3. Slimming'
      BY <1>4, <2>1, <2>2 DEF Slimming, Images
    <2>. QED BY <1>1, <2>1, <2>3 DEF OnlyKnownLeftovers, Settled
  <1>10. ~RetryPlain
    <2>1. RetryPlain => todo = <<Unit("plain", 0)>> /\ Len(todo) = 2
      BY <1>6 DEF RetryPlain
    <2>2. Len(<<Unit("plain", 0)>>) = 1
      OBVIOUS
    <2>. QED BY <2>1, <2>2
  <1>11. CASE ConversionRaises
    <2>1. call.legacy /\ temps' = {"converted"} /\ call' = call /\ pc' = "raised"
      BY <1>6, <1>11 DEF ConversionRaises, Break
    <2>. QED BY <1>1, <2>1 DEF OnlyKnownLeftovers
  <1>12. CASE ConversionFails
    <2>1. call' = call /\ pc' \in Settled /\ temps' = {}
      BY <1>12 DEF ConversionFails, Break, CleanUp, Settled
    <2>. QED BY <2>1, TempsAtEnd
  <1>13. CASE Unpack
    <2>1. /\ temps' \subseteq (IF call.legacy THEN {"converted", "work"} ELSE {"work"})
          /\ todo' \in Images /\ call' = call /\ pc' = "work"
      BY <1>7, <1>13 DEF Unpack
    <2>2. Slimming'
      BY <2>1 DEF Slimming, Images
    <2>. QED BY <1>1, <2>1, <2>2 DEF OnlyKnownLeftovers, Settled
  <1>14. CASE UnpackFails
    <2>1. /\ temps \subseteq (IF call.legacy THEN {"converted", "work"} ELSE {"work"})
          /\ "work" \notin temps /\ temps' = temps /\ call' = call /\ pc' = "raised"
      BY <1>7, <1>14 DEF UnpackFails, Unpacked, Break
    <2>2. temps' # {} => call.legacy /\ temps' = {"converted"}
      BY <2>1
    <2>. QED BY <1>1, <2>1, <2>2 DEF OnlyKnownLeftovers
  <1>15. CASE SlimImage
    <2>1. pc = "work" /\ pc' = "work" /\ call' = call /\ ~Attempting
          /\ todo # <<>> /\ todo' = Tail(todo) /\ temps' = temps
      BY <1>15 DEF SlimImage, Pass
    <2>2. todo' \in Images
      BY <1>5, <1>7, <2>1 DEF Images
    <2>3. Slimming'
      BY <1>7, <2>1, <2>2 DEF Slimming, Images
    <2>. QED BY <1>1, <2>1, <2>3 DEF OnlyKnownLeftovers, Settled
  <1>16. CASE BreakOffice \/ FinishOffice \/ FailOffice
    <2>1. call' = call /\ pc' \in Settled /\ pc = "work"
          /\ (temps' = {} \/ ("converted" \in temps /\ temps' = {"converted"}))
      BY <1>16 DEF BreakOffice, FinishOffice, FailOffice, CleanUpOffice, CleanUp, Break,
                   BreakZip, Finish, Return, FailToWrite, Settled
    <2>2. "converted" \in temps => call.legacy
      BY <1>2, <2>1 DEF Slimming
    <2>3. CASE temps' = {}
      BY <2>1, <2>3, TempsAtEnd
    <2>4. CASE call.legacy /\ temps' = {"converted"}
      BY <1>1, <2>1, <2>4 DEF OnlyKnownLeftovers, Settled
    <2>. QED BY <2>1, <2>2, <2>3, <2>4
  <1>17. CASE Refuse
    BY <1>17, TempsRefused
  <1>18. ~(\/ BeginConversion \/ RenderPage \/ BeginParts \/ WritePart \/ EditWord \/ ReplaceHit
           \/ CompressExcel \/ TrimBook \/ TrimFails \/ BeginCipher \/ Cipher
           \/ RepairExcel \/ PassThrough \/ RoundTrip \/ RoundTripFails)
    BY <1>1 DEF BeginConversion, RenderPage, BeginParts, WritePart, EditWord, ReplaceHit,
                CompressExcel, TrimBook, TrimFails, Trimming, BeginCipher, Cipher, RepairExcel,
                PassThrough, RoundTrip, RoundTripping, RoundTripFails, Requested
  <1>. QED BY <1>8, <1>9, <1>10, <1>11, <1>12, <1>13, <1>14, <1>15, <1>16, <1>17, <1>18
           DEF OfficeNext

LEMMA OfficeTemps ==
    ASSUME TempsInv, OfficeNext
    PROVE  TempsInv'
  <1>1. Tool \in OfficeTool
    BY OfficeSteps
  <1>2. Tool \notin Tidy /\ Tool # "repair_pdf"
    BY <1>1 DEF EditTool, Forgiving, OneImage, Redrawn, Rewritten, MaybeCopied, Tidy,
                OfficeTool, Converted, Rendered, Counted, FromWord, Slimmed, Unlocked, Protected
  <1>3. CASE Tool = "repair_excel"
    BY <1>3, RepairExcelTemps
  <1>4. CASE Tool \in Slimmed
    BY <1>4, SlimmingTemps
  <1>5. ASSUME Tool # "repair_excel", Tool \notin Slimmed PROVE TempsInv'
    <2> Tool \notin Watched
      BY <1>2, <1>5 DEF Watched
    <2>1. CASE \/ BeginConversion \/ Convert \/ RetryPlain \/ RenderPage \/ BeginParts
               \/ WritePart \/ EditWord \/ ReplaceHit
               \/ CompressExcel \/ TrimBook \/ BeginCipher \/ Cipher
      <3>1. call' = call /\ pc' = "work"
        BY <2>1 DEF BeginConversion, Convert, RetryPlain, RenderPage, BeginParts, WritePart,
           EditWord, ReplaceHit, CompressExcel, TrimBook,
           BeginCipher, Cipher, Attempting, Start, Pass
      <3>. QED BY <1>2, <3>1, TempsAtWork
    <2>2. CASE ConversionFails \/ BreakOffice \/ FinishOffice \/ FailOffice
      <3>1. call' = call /\ pc' \in Settled /\ temps' = {}
        BY <1>5, <2>2 DEF ConversionFails, BreakOffice, FinishOffice, FailOffice, CleanUpOffice,
                    Break, BreakZip, Finish, Return, FailToWrite, CleanUp, Settled
      <3>. QED BY <3>1, TempsAtEnd
    <2>3. CASE TrimFails
      <3>1. call' = call /\ pc' = "raised" /\ Tool = "compress_excel"
            /\ temps' \in {{}, {".tmp.xlsx"}}
        BY <2>3 DEF TrimFails, Trimming, Break
      <3>. QED BY <1>2, <3>1 DEF TempsInv, Tool, OnlyKnownLeftovers
    <2>4. ~(\/ RepairExcel \/ PassThrough \/ RoundTrip \/ RoundTripFails
            \/ BeginSlimming \/ Unpack \/ UnpackFails \/ SlimImage \/ ConversionRaises)
      BY <1>5 DEF RepairExcel, Requested, PassThrough, RoundTrip, RoundTripFails, RoundTripping,
                  BeginSlimming, Unpack, UnpackFails, Unpacked, SlimImage, ConversionRaises
    <2>5. CASE Refuse
      BY <2>5, TempsRefused
    <2>. QED BY <2>1, <2>2, <2>3, <2>4, <2>5 DEF OfficeNext
  <1>. QED BY <1>3, <1>4, <1>5

LEMMA TextTemps ==
    ASSUME TempsInv, TextNext
    PROVE  TempsInv'
  <1>1. Tool \in TextTool
    BY TextSteps
  <1>2. Tool \notin Tidy /\ Tool \notin Watched
    BY <1>1 DEF TextTool, Watched, Slimmed, Tidy, EditTool, Forgiving, OneImage, Redrawn, Rewritten, MaybeCopied
  <1>3. CASE LoadText \/ TextToWord \/ WordToHtml \/ SaveText \/ RenderText
    <2>1. call' = call /\ pc' = "work"
      BY <1>3 DEF LoadText, TextToWord, WordToHtml, SaveText, RenderText, Start, Pass
    <2>. QED BY <1>2, <2>1, TempsAtWork
  <1>4. CASE BreakText \/ FinishText \/ FailText
    <2>1. call' = call /\ pc' \in Settled /\ temps' = {}
      BY <1>4 DEF BreakText, FinishText, FailText, Break, Finish, Return, FailToWrite,
                  CleanUp, Settled
    <2>. QED BY <2>1, TempsAtEnd
  <1>5. CASE Refuse
    BY <1>5, TempsRefused
  <1>. QED BY <1>3, <1>4, <1>5 DEF TextNext

\* Nothing stays beside the output, whatever raises and wherever, but what five
\* tools are known to leave: repair_pdf the .tmp of a save that failed (and never
\* when it was PyMuPDF that repaired the document), images_to_pdf its batches and
\* compress_excel its .tmp.xlsx when they raise, compress_word and compress_ppt the
\* directory of a converted .doc or .ppt, and nothing else.  A function without a finally is
\* clean only because nothing of it is there yet when it can still raise: that is
\* what the invariant says of the tools that repair.
THEOREM OnlyKnownAreLeft == Spec => []OnlyKnownLeftovers
  <1>1. Init => TempsInv
    BY DEF Init, TempsInv, Fresh, NoFile, StaleFile, OnlyKnownLeftovers, Settled
  <1>2. TempsInv /\ [Next]_vars => TempsInv'
    <2> SUFFICES ASSUME TempsInv, [Next]_vars PROVE TempsInv'
      OBVIOUS
    <2>1. CASE Next
      BY <2>1, PageTemps, EditTemps, OptimizeTemps, ImageTemps, OfficeTemps, TextTemps DEF Next
    <2>2. CASE UNCHANGED vars
      BY <2>2 DEF vars, TempsInv, Fresh, RepairingPdf, RepairingExcel, Slimming,
                  OnlyKnownLeftovers, Tool, Holds, MadeWhole
    <2>. QED BY <2>1, <2>2
  <1>3. TempsInv => OnlyKnownLeftovers
    BY DEF TempsInv
  <1>. QED BY <1>1, <1>2, <1>3, PTL DEF Spec

-----------------------------------------------------------------------------
(* compress_pdf. *)

LEMMA LeastNatural ==
    ASSUME NEW T \in SUBSET Nat, T # {}
    PROVE  \E m \in T : \A n \in T : m <= n
  <1>1. \E m \in T : \A n \in T : <<n, m>> \notin OpToRel(<, Nat)
    BY WFMin, NatLessThanWellFounded
  <1>2. PICK m \in T : \A n \in T : <<n, m>> \notin OpToRel(<, Nat)
    BY <1>1
  <1>3. \A n \in T : ~(n < m)
    BY <1>2 DEF OpToRel
  <1>. QED BY <1>3

Programs == {"qpdf", "pymupdf", "ghostscript"}

Made == UNION {MadeBy(by) : by \in Programs}

\* The version the call keeps is one that a program has made, and that renders,
\* or the original.
RendersInv ==
    /\ call \in Calls
    /\ pc = "check" => built = <<>>
    /\ Tool = "compress_pdf" /\ pc = "work" => todo \in Seq(Programs) /\ built \in Seq(Made)
    /\ CompressedRenders

\* Up to five pages, every one is among the samples.
LEMMA SamplesAreAll ==
    ASSUME NEW n \in 1 .. 5, NEW p \in 1 .. n
    PROVE  p - 1 \in Sampled(n)
  <1>1. CASE n = 1 BY <1>1 DEF Sampled
  <1>2. CASE n = 2 BY <1>2 DEF Sampled
  <1>3. CASE n = 3
    <2>1. 3 \div 2 = 1 OBVIOUS
    <2>. QED BY <1>3, <2>1 DEF Sampled
  <1>4. CASE n = 4
    <2>1. 4 \div 2 = 2 /\ 4 \div 4 = 1 /\ 12 \div 4 = 3 OBVIOUS
    <2>. QED BY <1>4, <2>1 DEF Sampled
  <1>5. CASE n = 5
    <2>1. 5 \div 2 = 2 /\ 5 \div 4 = 1 /\ 15 \div 4 = 3 OBVIOUS
    <2>. QED BY <1>5, <2>1 DEF Sampled
  <1>. QED BY <1>1, <1>2, <1>3, <1>4, <1>5

\* So a version that renders, as far as it is looked at, is sound.
LEMMA RendersIsSound ==
    ASSUME call \in Calls, Tool = "compress_pdf", NEW v \in Made, RendersOk(v), v.pages <= 5
    PROVE  v.broken = {}
  <1>1. call.pages \in Nat
    BY SizesAssumption DEF Tool
  <1>2. PICK by \in Programs : v \in MadeBy(by)
    BY DEF Made
  <1>3. /\ v.pages \in Nat
        /\ v.broken = {} \/ \E p \in 1 .. v.pages : v.broken = {p}
    <2>1. PICK size \in 1 .. call.size,
               made \in {<<call.pages, {}>>, <<call.pages - 1, {}>>}
                          \cup {<<call.pages, {p}>> : p \in 1 .. call.pages},
               features \in 0 .. call.features :
                  v = Version(by, size, made[1], made[2], features)
      BY <1>2 DEF MadeBy
    <2>2. v.pages = made[1] /\ v.broken = made[2]
      BY <2>1 DEF Version
    <2>3. v.pages \in Int /\ v.pages > 0
      BY <1>1, <2>1, <2>2 DEF RendersOk
    <2>. QED BY <1>1, <2>1, <2>2, <2>3
  <1>4. v.pages \in 1 .. 5
    BY <1>3 DEF RendersOk
  <1>5. ASSUME NEW p \in 1 .. v.pages, v.broken = {p} PROVE FALSE
    <2>1. p - 1 \in Sampled(v.pages)
      BY <1>4, SamplesAreAll
    <2>2. (p - 1) + 1 \notin v.broken
      BY <2>1 DEF RendersOk
    <2>. QED BY <1>5, <2>2
  <1>. QED BY <1>3, <1>5

\* Among the versions that will do there is a smallest, and a first of those.
LEMMA ChosenIsAcceptable ==
    ASSUME call \in Calls, Tool = "compress_pdf", built \in Seq(Made), Acceptable # {}
    PROVE  \E k \in Acceptable : Chosen = built[k]
  <1>1. /\ Acceptable \subseteq 1 .. Len(built)
        /\ \A k \in Acceptable : built[k] \in Made
    BY DEF Acceptable
  <1>2. \A v \in Made : v.size \in Nat
    BY SizesAssumption DEF Made, MadeBy, Version, Tool
  <1> DEFINE Sizes == {built[k].size : k \in Acceptable}
  <1>3. Sizes \subseteq Nat /\ Sizes # {}
    BY <1>1, <1>2
  <1>4. PICK least \in Sizes : \A n \in Sizes : least <= n
    BY <1>3, LeastNatural
  <1> DEFINE Least == {k \in Acceptable : built[k].size = least}
  <1>5. Least \subseteq Nat /\ Least # {}
    <2>1. PICK k \in Acceptable : built[k].size = least
      OBVIOUS
    <2>2. k \in Least /\ Acceptable \subseteq Nat
      BY <1>1, <2>1
    <2>. QED BY <2>2
  <1>6. PICK first \in Least : \A k \in Least : first <= k
    BY <1>5, LeastNatural
  <1>7. \E k \in Acceptable : \A other \in Acceptable :
           \/ built[k].size < built[other].size
           \/ built[k].size = built[other].size /\ k <= other
    <2>1. \A other \in Acceptable : built[other].size \in Sizes
      OBVIOUS
    <2>2. first \in Acceptable /\ built[first].size = least
      OBVIOUS
    <2> WITNESS first \in Acceptable
    <2> TAKE other \in Acceptable
    <2>3. least <= built[other].size /\ least \in Nat /\ built[other].size \in Nat
      BY <1>3, <1>4, <2>1
    <2>4. CASE least = built[other].size
      BY <1>6, <2>2, <2>4
    <2>5. CASE least # built[other].size
      BY <2>2, <2>3, <2>5
    <2>. QED BY <2>4, <2>5
  <1>. QED BY <1>7 DEF Chosen

LEMMA KeptRenders ==
    ASSUME call \in Calls, Tool = "compress_pdf", built \in Seq(Made)
    PROVE  Chosen.pages <= 5 => Chosen.broken = {}
  <1>1. CASE Acceptable = {}
    BY <1>1 DEF Chosen, Original, Version
  <1>2. CASE Acceptable # {}
    <2>1. PICK k \in Acceptable : Chosen = built[k]
      BY <1>2, ChosenIsAcceptable
    <2>2. built[k] \in Made /\ RendersOk(built[k])
      BY <2>1 DEF Acceptable
    <2>. QED BY <2>1, <2>2, RendersIsSound
  <1>. QED BY <1>1, <1>2

\* Another tool has nothing to do with it.
LEMMA RendersOfOthers ==
    ASSUME RendersInv, call' = call, pc' # "check", Tool # "compress_pdf"
    PROVE  RendersInv'
  BY DEF RendersInv, Tool, CompressedRenders

LEMMA SameMade == call' = call => Made' = Made
  BY DEF Made, MadeBy

LEMMA CompressRenders ==
    ASSUME RendersInv, Tool = "compress_pdf", Next
    PROVE  RendersInv'
  <1>1. OptimizeNext
    BY PageSteps, EditSteps, ImageSteps, OfficeSteps, TextSteps, OneFamily
       DEF Next, OptimizeTool
  <1>2. CASE CompressPdf
    <2>1. call' = call /\ pc' = "work" /\ todo' \in Seq(Programs) /\ built' = <<>>
      BY <1>2 DEF CompressPdf, Start, RendersInv, Programs
    <2>. QED BY <2>1 DEF RendersInv, Tool, CompressedRenders, Returned
  <1>3. CASE AddCandidate
    <2>1. pc = "work" /\ todo # <<>> /\ \E v \in MadeBy(Head(todo)) : Pass(<<v>>)
      BY <1>3 DEF AddCandidate, AtWork
    <2>2. todo \in Seq(Programs) /\ built \in Seq(Made)
      BY <2>1 DEF RendersInv
    <2>3. PICK v \in MadeBy(Head(todo)) : Pass(<<v>>)
      BY <2>1
    <2>4. v \in Made
      BY <2>1, <2>2, <2>3 DEF Made
    <2>5. todo' \in Seq(Programs) /\ built' \in Seq(Made)
      BY <2>1, <2>2, <2>3, <2>4 DEF Pass
    <2>6. call' = call /\ pc' = "work"
      BY <2>3 DEF Pass
    <2>. QED BY <2>5, <2>6, SameMade DEF RendersInv, Tool, CompressedRenders, Returned
  <1>4. CASE NoCandidate
    <2>1. pc = "work" /\ todo # <<>> /\ Pass(<<>>)
      BY <1>4 DEF NoCandidate, AtWork
    <2>2. todo \in Seq(Programs) /\ built \in Seq(Made)
      BY <2>1 DEF RendersInv
    <2>3. todo' \in Seq(Programs) /\ built' \in Seq(Made)
      BY <2>1, <2>2 DEF Pass
    <2>4. call' = call /\ pc' = "work"
      BY <2>1 DEF Pass
    <2>. QED BY <2>3, <2>4, SameMade DEF RendersInv, Tool, CompressedRenders, Returned
  <1>5. CASE KeepSmallest
    <2>1. pc = "work" /\ call' = call /\ pc' = "returned" /\ Holds' = <<Chosen>>
      BY <1>5 DEF KeepSmallest, AtWork, Finish, Return, Closed, Holds
    <2>2. Chosen.pages <= 5 => Chosen.broken = {}
      BY <2>1, KeptRenders DEF RendersInv
    <2>. QED BY <2>1, <2>2 DEF RendersInv, Tool, CompressedRenders
  <1>6. CASE CompressFails \/ Refuse
    <2>1. call' = call /\ pc' = "raised"
      BY <1>6 DEF CompressFails, Break, FailToWrite, Refuse
    <2>. QED BY <2>1 DEF RendersInv, Tool, CompressedRenders, Returned
  <1>7. CompressPdf \/ AddCandidate \/ NoCandidate \/ KeepSmallest \/ CompressFails \/ Refuse
    BY <1>1 DEF OptimizeNext, RepairPdf, RepairRefused, RepairBySaving, SavingFails,
           RepairByGhostscript, GhostscriptFails, CopyThrough, CopyThroughFails,
           LinearizePdf, Linearize, QpdfUnused, LinearizeFails, PdfToPdfa, ConvertToPdfa,
           PdfaFails, AtWork
  <1>. QED BY <1>2, <1>3, <1>4, <1>5, <1>6, <1>7

\* A compressed document of up to five pages, all of which are rendered, has none
\* that does not: neither what the three programs made of it, nor the choice
\* among them, lets one through that the samples have not shown.
THEOREM CompressedAreRendered == Spec => []CompressedRenders
  <1>1. Init => RendersInv
    BY DEF Init, RendersInv, CompressedRenders, Returned
  <1>2. RendersInv /\ [Next]_vars => RendersInv'
    <2> SUFFICES ASSUME RendersInv, [Next]_vars PROVE RendersInv'
      OBVIOUS
    <2>1. CASE Next
      BY <2>1, NextKeepsCall, RendersOfOthers, CompressRenders
    <2>2. CASE UNCHANGED vars
      BY <2>2, SameMade DEF vars, RendersInv, CompressedRenders, Tool, Returned, Holds
    <2>. QED BY <2>1, <2>2
  <1>3. RendersInv => CompressedRenders
    BY DEF RendersInv
  <1>. QED BY <1>1, <1>2, <1>3, PTL DEF Spec

-----------------------------------------------------------------------------
(* The numbers of a set, in order. *)

Below(n, S) == {m \in S : m < n}

\* Ascending(S) lists S: each of its numbers, once, the smaller before the larger.
LEMMA AscendingLists ==
    ASSUME NEW S, S \subseteq Nat, IsFiniteSet(S)
    PROVE  /\ Cardinality(S) \in Nat
           /\ Ascending(S) \in [1 .. Cardinality(S) -> S]
           /\ Ascending(S) \in Seq(Nat)
           /\ Len(Ascending(S)) = Cardinality(S)
           /\ \A n \in S : \E k \in 1 .. Cardinality(S) : Ascending(S)[k] = n
           /\ \A i, j \in 1 .. Cardinality(S) : i # j => Ascending(S)[i] # Ascending(S)[j]
           /\ \A i, j \in 1 .. Cardinality(S) : i < j => Ascending(S)[i] < Ascending(S)[j]
  <1> DEFINE count == Cardinality(S)
             rank(n) == Cardinality(Below(n, S))
  <1>1. count \in Nat
    BY FS_CardinalityType
  <1>2. \A n \in S : Below(n, S) \in SUBSET S /\ IsFiniteSet(Below(n, S)) /\ rank(n) \in Nat
    <2> TAKE n \in S
    <2>1. Below(n, S) \in SUBSET S
      BY DEF Below
    <2>2. IsFiniteSet(Below(n, S))
      BY <2>1, FS_Subset
    <2>. QED BY <2>1, <2>2, FS_CardinalityType
  <1>3. \A m, n \in S : m < n => rank(m) < rank(n)
    <2> SUFFICES ASSUME NEW m \in S, NEW n \in S, m < n PROVE rank(m) < rank(n)
      OBVIOUS
    <2>1. IsFiniteSet(Below(n, S) \ {m})
          /\ Cardinality(Below(n, S) \ {m}) = Cardinality(Below(n, S)) - 1
      <3>1. m \in Below(n, S) /\ IsFiniteSet(Below(n, S))
        BY <1>2 DEF Below
      <3>. QED BY <3>1, FS_RemoveElement
    <2>2. Below(m, S) \in SUBSET (Below(n, S) \ {m})
      <3> SUFFICES ASSUME NEW x \in Below(m, S) PROVE x \in Below(n, S) /\ x # m
        OBVIOUS
      <3>1. x \in S /\ x < m /\ x \in Nat /\ m \in Nat /\ n \in Nat
        BY DEF Below
      <3>. QED BY <3>1 DEF Below
    <2>3. Cardinality(Below(m, S)) <= Cardinality(Below(n, S) \ {m})
      BY <2>1, <2>2, FS_Subset
    <2>. QED BY <1>2, <2>1, <2>3
  <1>4. \A m, n \in S : rank(m) = rank(n) => m = n
    <2> SUFFICES ASSUME NEW m \in S, NEW n \in S, rank(m) = rank(n) PROVE m = n
      OBVIOUS
    <2>1. rank(m) \in Nat /\ rank(n) \in Nat /\ m \in Nat /\ n \in Nat
      BY <1>2
    <2>2. ~(m < n) /\ ~(n < m)
      BY <1>3, <2>1
    <2>. QED BY <2>1, <2>2
  <1>5. \A n \in S : rank(n) \in 0 .. count - 1
    <2> SUFFICES ASSUME NEW n \in S PROVE rank(n) \in 0 .. count - 1
      OBVIOUS
    <2>1. IsFiniteSet(S \ {n}) /\ Cardinality(S \ {n}) = count - 1
      BY FS_RemoveElement
    <2>2. Below(n, S) \in SUBSET (S \ {n})
      BY DEF Below
    <2>3. rank(n) <= count - 1
      BY <2>1, <2>2, FS_Subset
    <2>. QED BY <1>1, <1>2, <2>3
  <1> DEFINE place == [n \in S |-> rank(n)]
  <1>6. \A k \in 0 .. count - 1 : \E n \in S : rank(n) = k
    <2>1. place \in [S -> 0 .. count - 1]
      BY <1>5
    <2>2. \A m, n \in S : place[m] = place[n] => m = n
      BY <1>4
    <2>3. place \in Injection(S, 0 .. count - 1)
      BY <2>1, <2>2 DEF Injection, IsInjective
    <2>4. IsFiniteSet(0 .. count - 1) /\ Cardinality(0 .. count - 1) = count
      <3>1. 0 \in Int /\ count - 1 \in Int
        BY <1>1
      <3>2. IsFiniteSet(0 .. count - 1)
            /\ Cardinality(0 .. count - 1) = IF 0 > count - 1 THEN 0 ELSE (count - 1) - 0 + 1
        BY <3>1, FS_Interval
      <3>. QED BY <1>1, <3>2
    <2>5. place \in Surjection(S, 0 .. count - 1)
      BY <2>3, <2>4, FS_Injection
    <2>. QED BY <2>5 DEF Surjection
  <1>7. \A k \in 1 .. count : Ascending(S)[k] \in S /\ rank(Ascending(S)[k]) = k - 1
    <2> SUFFICES ASSUME NEW k \in 1 .. count
                 PROVE  Ascending(S)[k] \in S /\ rank(Ascending(S)[k]) = k - 1
      OBVIOUS
    <2>1. Ascending(S)[k] = CHOOSE n \in S : rank(n) = k - 1
      BY DEF Ascending, Below
    <2>2. \E n \in S : rank(n) = k - 1
      BY <1>1, <1>6
    <2>. QED BY <2>1, <2>2
  <1>8. Ascending(S) \in [1 .. count -> S]
    BY <1>7 DEF Ascending
  <1>9. \A n \in S : \E k \in 1 .. count : Ascending(S)[k] = n
    <2> SUFFICES ASSUME NEW n \in S PROVE \E k \in 1 .. count : Ascending(S)[k] = n
      OBVIOUS
    <2>1. rank(n) + 1 \in 1 .. count
      BY <1>1, <1>5
    <2> DEFINE m == Ascending(S)[rank(n) + 1]
    <2>2. m \in S /\ rank(m) = rank(n)
      BY <1>2, <1>7, <2>1
    <2>3. m = n
      BY <1>4, <2>2
    <2>. QED BY <2>1, <2>3
  <1>10. \A i, j \in 1 .. count : i # j => Ascending(S)[i] # Ascending(S)[j]
    BY <1>7
  <1>11. Ascending(S) \in Seq(Nat) /\ Len(Ascending(S)) = count
    <2>1. Ascending(S) \in [1 .. count -> Nat]
      BY <1>8
    <2>. QED BY <1>1, <2>1
  <1>12. \A i, j \in 1 .. count : i < j => Ascending(S)[i] < Ascending(S)[j]
    <2> SUFFICES ASSUME NEW i \in 1 .. count, NEW j \in 1 .. count, i < j
                 PROVE  Ascending(S)[i] < Ascending(S)[j]
      OBVIOUS
    <2> DEFINE m == Ascending(S)[i]
               n == Ascending(S)[j]
    <2>1. m \in S /\ n \in S /\ rank(m) = i - 1 /\ rank(n) = j - 1
      BY <1>7
    <2> HIDE DEF m, n, rank
    <2>2. m # n /\ ~(n < m)
      BY <1>1, <1>3, <2>1
    <2>3. m \in Nat /\ n \in Nat
      BY <2>1
    <2>. QED BY <2>2, <2>3 DEF m, n
  <1>. QED BY <1>1, <1>8, <1>9, <1>10, <1>11, <1>12

\* The same for the members of an interval that pass a test.
LEMMA IntervalIsFinite ==
    ASSUME NEW n \in Nat, NEW S \in SUBSET (1 .. n)
    PROVE  S \subseteq Nat /\ IsFiniteSet(S)
  <1>1. IsFiniteSet(1 .. n)
    <2>1. 1 \in Int /\ n \in Int
      OBVIOUS
    <2>. QED BY <2>1, FS_Interval
  <1>2. IsFiniteSet(S)
    BY <1>1, FS_Subset
  <1>. QED BY <1>2

\* Torn files are open.
LEMMA TornIsOpen == \A entries : \A torn \in TornFiles(entries) : torn.state # "closed"
  BY DEF TornFiles, Opened

-----------------------------------------------------------------------------
(* The parts of Office documents. *)

ByParts == Tool \in Counted /\ ~ByLibre

\* The plan is done from its first part to its last; what is in memory are the
\* parts so far.
SoFar(entries) ==
    /\ entries \in Seq({Part(p) : p \in Nat})
    /\ Len(entries) <= Len(Parts)
    /\ \A k \in 1 .. Len(entries) : entries[k] = Part(Parts[k])

ToDo ==
    /\ todo \in Seq({Unit("part", p) : p \in Nat})
    /\ Len(todo) = Len(Parts) - Len(built)
    /\ \A k \in 1 .. Len(todo) : todo[k] = Unit("part", Parts[Len(built) + k])

PartsInv ==
    /\ call \in Calls
    /\ pc = "check" => built = <<>>
    /\ ByParts /\ pc = "work" => SoFar(built) /\ ToDo
    /\ ByParts /\ Returned => SoFar(Holds) /\ Len(Holds) = Len(Parts)
    /\ ByParts /\ Tool # "excel_to_csv" /\ file.state = "closed" =>
          SoFar(Holds) /\ Len(Holds) = Len(Parts)

LEMMA SameParts ==
    call' = call =>
        /\ Parts' = Parts /\ (ByParts' <=> ByParts) /\ \A k : Part(k)' = Part(k)
        /\ \A entries : SoFar(entries)' <=> SoFar(entries)
  <1> SUFFICES ASSUME call' = call
               PROVE  /\ Parts' = Parts /\ (ByParts' <=> ByParts) /\ \A k : Part(k)' = Part(k)
                      /\ \A entries : SoFar(entries)' <=> SoFar(entries)
    OBVIOUS
  <1>1. ByParts' <=> ByParts
    BY DEF ByParts, ByLibre, Tool
  <1>2. Parts' = Parts
    BY DEF Parts, FilledSheets, Ascending, SlideCount, FirstParts, Tool
  <1>3. \A k : Part(k)' = Part(k)
    BY DEF Part, Kept, Rows, RowsAllowed, Columns, UpTo, Tool
  <1>4. \A entries : SoFar(entries)' <=> SoFar(entries)
    BY <1>2, <1>3 DEF SoFar
  <1>. QED BY <1>1, <1>2, <1>3, <1>4

\* How many slides the paragraphs of a document need.
LEMMA SlidesType ==
    ASSUME call \in Calls, Tool \in FromWord
    PROVE  SlideCount \in Nat
  <1>1. call.paragraphs \in Nat /\ SlideRows \in Nat /\ SlideRows > 0
    BY CountsAssumption, SlideAssumption DEF Tool
  <1>2. call.paragraphs + SlideRows - 1 \in Nat
    BY <1>1
  <1>. QED BY <1>1, <1>2 DEF SlideCount

\* The sheets with something on them, in the order of the workbook.
Filled == {k \in DOMAIN call.sheets : call.sheets[k] > 0}

LEMMA FilledSheetsList ==
    ASSUME call \in Calls, Tool \in Counted \ FromWord
    PROVE  /\ FilledSheets \in Seq(Nat)
           /\ \A k \in 1 .. Len(FilledSheets) : FilledSheets[k] \in Filled
           /\ \A p \in Filled : \E k \in 1 .. Len(FilledSheets) : FilledSheets[k] = p
           /\ \A i, j \in 1 .. Len(FilledSheets) : i # j => FilledSheets[i] # FilledSheets[j]
           /\ \A i, j \in 1 .. Len(FilledSheets) : i < j => FilledSheets[i] < FilledSheets[j]
  <1>1. call.sheets \in Seq(Nat)
    BY CountsAssumption DEF Tool
  <1>2. Len(call.sheets) \in Nat /\ Filled \in SUBSET (1 .. Len(call.sheets))
    BY <1>1 DEF Filled
  <1>3. FilledSheets = Ascending(Filled)
    BY DEF FilledSheets, Filled
  <1>4. Filled \subseteq Nat /\ IsFiniteSet(Filled)
    BY <1>2, IntervalIsFinite
  <1> DEFINE size == Cardinality(Filled)
  <1>5. /\ FilledSheets \in [1 .. size -> Filled]
        /\ FilledSheets \in Seq(Nat)
        /\ Len(FilledSheets) = size
        /\ \A n \in Filled : \E k \in 1 .. size : FilledSheets[k] = n
        /\ \A i, j \in 1 .. size : i # j => FilledSheets[i] # FilledSheets[j]
        /\ \A i, j \in 1 .. size : i < j => FilledSheets[i] < FilledSheets[j]
    BY <1>3, <1>4, AscendingLists
  <1> HIDE DEF size
  <1>. QED BY <1>5

LEMMA PartsType ==
    ASSUME call \in Calls, ByParts
    PROVE  Parts \in Seq(Nat)
  <1> USE DEF Tool
  <1>0. \A n \in Nat : FirstParts(n) \in Seq(Nat)
    BY DEF FirstParts
  <1>1. CASE Tool \in {"word_to_json", "word_to_excel"}
    <2>1. Len(call.tables) \in Nat /\ MaxTables \in Nat
      <3>1. call.tables \in Seq(Nat) /\ MaxTables \in Nat
        BY <1>1, CountsAssumption DEF FromWord
      <3>. QED BY <3>1
    <2>2. UpTo(Len(call.tables), MaxTables) \in Nat
      BY <2>1 DEF UpTo
    <2> DEFINE tables == FirstParts(UpTo(Len(call.tables), MaxTables))
    <2>3. tables \in Seq(Nat)
      BY <1>0, <2>2
    <2> HIDE DEF tables
    <2>4. <<0>> \o tables \in Seq(Nat) /\ tables \o <<0>> \in Seq(Nat)
      BY <2>3
    <2>. QED BY <1>1, <2>4 DEF Parts, tables
  <1>2. CASE Tool = "word_to_ppt"
    <2>1. SlideCount \in Nat /\ MaxSlides \in Nat
      BY <1>2, SlidesType, CountsAssumption DEF FromWord
    <2>2. UpTo(SlideCount, MaxSlides) \in Nat
      BY <2>1 DEF UpTo
    <2>. QED BY <1>0, <1>2, <2>2 DEF Parts
  <1>3. CASE Tool = "word_to_txt"
    BY <1>3 DEF Parts
  <1>4. CASE Tool = "excel_to_ppt"
    <2>1. FilledSheets \in Seq(Nat) /\ MaxSlides \in Nat
      BY <1>4, FilledSheetsList, CountsAssumption DEF Counted, FromWord
    <2> DEFINE last == UpTo(Len(FilledSheets), MaxSlides)
    <2>2. last \in Nat /\ last <= Len(FilledSheets)
      BY <2>1 DEF UpTo
    <2>3. \A i \in 1 .. last : i \in 1 .. Len(FilledSheets)
      BY <2>1, <2>2
    <2> HIDE DEF last
    <2>4. SubSeq(FilledSheets, 1, last) \in Seq(Nat)
      BY <2>1, <2>2, <2>3, SubSeqProperties
    <2>. QED BY <1>4, <2>4 DEF Parts, last
  <1>5. CASE Tool \in {"excel_to_word", "excel_to_json", "excel_to_csv"}
    <2>1. call.sheets \in Seq(Nat) /\ (Tool = "excel_to_csv" => call.chosen \in DOMAIN call.sheets)
      BY <1>5, CountsAssumption DEF Counted, FromWord
    <2>2. Len(call.sheets) \in Nat /\ (Tool = "excel_to_csv" => call.chosen \in Nat)
      BY <2>1
    <2>. QED BY <1>0, <1>5, <2>2 DEF Parts
  <1>. QED BY <1>1, <1>2, <1>3, <1>4, <1>5 DEF ByParts, Counted, FromWord

LEMMA OfficeParts ==
    ASSUME PartsInv, OfficeNext, ByParts
    PROVE  PartsInv'
  <1> USE SameParts
  <1>1. call' = call /\ pc' # "check" /\ Tool \in Counted /\ ~ByLibre
    BY OfficeSteps DEF ByParts
  <1>2. /\ Tool \notin Converted \cup Rendered \cup Slimmed \cup Unlocked \cup Protected
        /\ Tool \notin {"edit_word", "compress_excel", "repair_excel"}
    BY <1>1 DEF Counted, FromWord, Converted, Rendered, Slimmed, Unlocked, Protected
  <1>3. Parts \in Seq(Nat)
    BY PartsType DEF PartsInv
  <1>4. ~Attempting
    <2> SUFFICES ASSUME Attempting PROVE FALSE
      OBVIOUS
    <2>1. ToDo /\ SoFar(built) /\ todo # <<>>
      BY DEF Attempting, PartsInv
    <2>2. Head(todo) = Unit("part", Parts[Len(built) + 1])
      BY <2>1 DEF ToDo
    <2>. QED BY <2>2 DEF Attempting, Unit
  <1>5. CASE BeginParts
    <2>1. pc' = "work" /\ built' = <<>> /\ todo' = [k \in DOMAIN Parts |-> Unit("part", Parts[k])]
      BY <1>5 DEF BeginParts, Requested, Start, PartsInv
    <2>2. SoFar(built')
      BY <1>3, <2>1 DEF SoFar
    <2>3. ToDo'
      <3>1. /\ todo' \in Seq({Unit("part", p) : p \in Nat})
            /\ Len(todo') = Len(Parts) /\ \A k \in 1 .. Len(todo') : todo'[k] = Unit("part", Parts[k])
        <4> DEFINE U == {Unit("part", p) : p \in Nat}
        <4>1. Len(Parts) \in Nat /\ DOMAIN Parts = 1 .. Len(Parts)
              /\ \A k \in 1 .. Len(Parts) : Unit("part", Parts[k]) \in U
          BY <1>3
        <4> HIDE DEF U
        <4>2. todo' = [k \in 1 .. Len(Parts) |-> Unit("part", Parts[k])]
          BY <2>1, <4>1
        <4>3. todo' \in Seq(U) /\ Len(todo') = Len(Parts)
          BY <4>1, <4>2
        <4>. QED BY <4>1, <4>2, <4>3 DEF U
      <3>. QED BY <1>1, <1>3, <2>1, <3>1 DEF ToDo
    <2>4. Tool = "excel_to_csv" \/ file' = file \/ file'.state # "closed"
      BY <1>5 DEF BeginParts, Opened, Archives
    <2>5. Tool' = Tool /\ (file' = file => Holds' = Holds)
      BY <1>1 DEF Tool, Holds
    <2>. QED BY <1>1, <2>1, <2>2, <2>3, <2>4, <2>5 DEF PartsInv, Returned
  <1>6. CASE WritePart
    <2>1. /\ pc = "work" /\ pc' = "work" /\ todo # <<>> /\ todo' = Tail(todo)
          /\ built' = built \o <<Part(Head(todo).of)>>
      BY <1>6 DEF WritePart, Pass
    <2>2. SoFar(built) /\ ToDo
      BY <2>1 DEF PartsInv
    <2> DEFINE n == Len(built)
    <2>3. n \in Nat /\ n + 1 \in 1 .. Len(Parts) /\ Head(todo).of = Parts[n + 1]
      <3>1. Len(todo) \in Nat /\ Len(todo) > 0 /\ n \in Nat /\ Len(todo) = Len(Parts) - n
        BY <2>1, <2>2 DEF SoFar, ToDo
      <3>2. Len(Parts) \in Nat
        BY <1>3
      <3>3. Head(todo) = Unit("part", Parts[n + 1])
        BY <2>2, <3>1 DEF ToDo
      <3>. QED BY <3>1, <3>2, <3>3 DEF Unit
    <2>4. SoFar(built')
      <3> DEFINE V == {Part(p) : p \in Nat}
      <3>1. Parts[n + 1] \in Nat
        BY <1>3, <2>3
      <3>2. Part(Parts[n + 1]) \in V /\ built \in Seq(V)
        BY <2>2, <3>1 DEF SoFar
      <3> HIDE DEF V
      <3>3. built' = built \o <<Part(Parts[n + 1])>>
        BY <2>1, <2>3
      <3>4. built' \in Seq(V) /\ Len(built') = n + 1
        BY <3>2, <3>3
      <3>5. \A k \in 1 .. n + 1 : built'[k] = Part(Parts[k])
        <4> TAKE k \in 1 .. n + 1
        <4>1. CASE k \in 1 .. n
          <5>1. built'[k] = built[k]
            BY <3>2, <3>3, <4>1
          <5>. QED BY <2>2, <4>1, <5>1 DEF SoFar
        <4>2. CASE k = n + 1
          BY <2>3, <3>2, <3>3, <4>2
        <4>. QED BY <2>3, <4>1, <4>2
      <3>. QED BY <1>3, <2>3, <3>4, <3>5 DEF SoFar, V
    <2>5. ToDo'
      <3> DEFINE U == {Unit("part", p) : p \in Nat}
      <3>1. todo \in Seq(U) /\ Len(todo) = Len(Parts) - n
        BY <2>2 DEF ToDo
      <3> HIDE DEF U
      <3>2. todo' \in Seq(U) /\ Len(todo') = Len(todo) - 1
            /\ \A k \in 1 .. Len(todo) - 1 : todo'[k] = todo[k + 1]
        BY <2>1, <3>1
      <3>3. Len(built') = n + 1
        BY <2>1, <2>2 DEF SoFar
      <3>4. Len(todo') = Len(Parts) - Len(built')
        BY <1>3, <2>3, <3>1, <3>2, <3>3
      <3>5. \A k \in 1 .. Len(todo') : todo'[k] = Unit("part", Parts[Len(built') + k])
        <4> TAKE k \in 1 .. Len(todo')
        <4>1. k \in 1 .. Len(todo) - 1 /\ k + 1 \in 1 .. Len(todo) /\ k \in Nat
          BY <3>1, <3>2
        <4>2. todo'[k] = Unit("part", Parts[n + (k + 1)])
          BY <2>2, <3>2, <4>1 DEF ToDo
        <4>3. n + (k + 1) = Len(built') + k
          BY <2>3, <3>3, <4>1
        <4>. QED BY <4>2, <4>3
      <3>. QED BY <1>1, <3>2, <3>4, <3>5 DEF ToDo, U
    <2>6. Tool = "excel_to_csv" \/ file' = file \/ file'.state # "closed"
      BY <1>6 DEF WritePart, Opened, Archives, InMemory
    <2>7. Tool' = Tool /\ (file' = file => Holds' = Holds)
      BY <1>1 DEF Tool, Holds
    <2>. QED BY <1>1, <2>1, <2>4, <2>5, <2>6, <2>7 DEF PartsInv, Returned
  <1>7. CASE FinishOffice
    <2>1. pc = "work" /\ todo = <<>> /\ pc' = "returned" /\ Holds' = built
      BY <1>7 DEF FinishOffice, Finish, Return, Closed, Holds
    <2>2. SoFar(built) /\ ToDo
      BY <2>1 DEF PartsInv
    <2>3. Len(built) = Len(Parts)
      BY <1>3, <2>1, <2>2 DEF SoFar, ToDo
    <2>. QED BY <1>1, <2>1, <2>2, <2>3 DEF PartsInv, Returned
  <1>8. CASE BreakOffice \/ FailOffice \/ Refuse
    <2>1. pc' = "raised"
      BY <1>8 DEF BreakOffice, FailOffice, Refuse, Break, BreakZip, FailToWrite
    <2>2. \/ Tool = "excel_to_csv" \/ file' = file \/ file'.state # "closed"
          \/ pc = "work" /\ todo = <<>> /\ file' = Closed(built)
      BY <1>2, <1>8, TornIsOpen DEF BreakOffice, FailOffice, Refuse, Break, BreakZip, FailToWrite,
           Zipping, Archives, Ciphering
    <2>3. Tool' = Tool /\ (file' = file => Holds' = Holds)
      BY <1>1 DEF Tool, Holds
    <2>4. CASE pc = "work" /\ todo = <<>> /\ file' = Closed(built)
      <3>1. SoFar(built) /\ ToDo
        BY <2>4 DEF PartsInv
      <3>2. Len(built) = Len(Parts) /\ Holds' = built
        BY <1>3, <2>4, <3>1 DEF SoFar, ToDo, Holds, Closed
      <3>. QED BY <1>1, <2>1, <3>1, <3>2 DEF PartsInv, Returned
    <2>. QED BY <1>1, <2>1, <2>2, <2>3, <2>4 DEF PartsInv, Returned
  <1>. QED BY <1>1, <1>2, <1>4, <1>5, <1>6, <1>7, <1>8
       DEF OfficeNext, BeginConversion, Convert, RetryPlain, ConversionFails, ConversionRaises,
           RenderPage, EditWord, ReplaceHit, BeginSlimming, Unpack, UnpackFails, Unpacked,
           SlimImage, CompressExcel, TrimBook, TrimFails, Trimming, BeginCipher, Cipher,
           RepairExcel, PassThrough, RoundTrip, RoundTripping, RoundTripFails, Requested

LEMMA PartsOfOthers ==
    ASSUME PartsInv, call' = call, pc' # "check", ~ByParts
    PROVE  PartsInv'
  BY SameParts DEF PartsInv

\* The parts a complete result has: those of the plan, with the rows they keep.
LEMMA PartsOfResult ==
    ASSUME PartsInv, ByParts, Returned, NEW k
    PROVE  (\A e \in DOMAIN Holds : Holds[e].part = k => Holds[e].rows < Rows(k))
               <=> (\A e \in 1 .. Len(Parts) : Parts[e] = k => Kept(k) < Rows(k))
  <1>1. SoFar(Holds) /\ Len(Holds) = Len(Parts)
    BY DEF PartsInv
  <1>2. DOMAIN Holds = 1 .. Len(Parts)
    BY <1>1 DEF SoFar
  <1>3. \A p : Part(p).part = p /\ Part(p).rows = Kept(p)
    BY DEF Part
  <1>4. \A e \in 1 .. Len(Parts) : Holds[e].part = Parts[e] /\ Holds[e].rows = Kept(Parts[e])
    BY <1>1, <1>3 DEF SoFar
  <1>. QED BY <1>2, <1>4

\* A limit cuts exactly what is longer than it.
LEMMA UpToCuts ==
    ASSUME NEW n \in Int, NEW limit \in Int
    PROVE  UpTo(n, limit) \in Int /\ (UpTo(n, limit) < n <=> n > limit)
  BY DEF UpTo

\* A part that is cut: it is asked for and told of, and not in the plan as a whole.
Cut(k) == \A e \in 1 .. Len(Parts) : Parts[e] = k => Kept(k) < Rows(k)

LEMMA FirstPartsAre ==
    ASSUME NEW n \in Nat
    PROVE  Len(FirstParts(n)) = n /\ \A k \in 1 .. n : FirstParts(n)[k] = k
  BY DEF FirstParts

LEMMA CutInWord ==
    ASSUME call \in Calls, Tool \in FromWord, ByParts
    PROVE  Truncated <=> \E k \in InputParts \ Untold : Cut(k)
  <1>1. /\ call.paragraphs \in Nat /\ call.tables \in Seq(Nat)
        /\ MaxParagraphs \in Nat /\ MaxTables \in Nat /\ MaxSlides \in Nat
        /\ SlideRows \in Nat /\ SlideRows > 0
    BY CountsAssumption, SlideAssumption DEF Tool
  <1> DEFINE n == Len(call.tables)
             m == UpTo(n, MaxTables)
  <1>2. /\ n \in Nat /\ m \in Nat /\ m <= n /\ m <= MaxTables /\ (m < n => m = MaxTables)
        /\ \A k \in 1 .. n : call.tables[k] \in Nat
    BY <1>1 DEF UpTo
  <1>3. CASE Tool = "word_to_txt"
    <2>1. InputParts \ Untold = {0} /\ ~Truncated
      BY <1>3 DEF InputParts, Untold, Truncated
    <2>2. Parts = <<0>> /\ Kept(0) = Rows(0) /\ Rows(0) = call.paragraphs
      BY <1>3 DEF Parts, Kept, Rows, FromWord
    <2>3. ~Cut(0)
      BY <1>1, <2>2 DEF Cut
    <2>. QED BY <2>1, <2>3
  <1>4. CASE Tool = "word_to_json"
    <2>1. InputParts \ Untold = 0 .. n
          /\ (Truncated <=> call.paragraphs > MaxParagraphs \/ n > MaxTables)
      BY <1>4 DEF InputParts, Untold, Truncated, FromWord
    <2>2. Parts = <<0>> \o FirstParts(m)
      BY <1>4 DEF Parts
    <2>3. FirstParts(m) \in Seq(Nat) /\ Len(FirstParts(m)) = m
          /\ \A k \in 1 .. m : FirstParts(m)[k] = k
      BY <1>2, FirstPartsAre DEF FirstParts
    <2> HIDE DEF n, m
    <2>4. Len(Parts) = m + 1 /\ \A e \in 1 .. m + 1 : Parts[e] = e - 1
      BY <1>2, <2>2, <2>3
    <2>5. Rows(0) = call.paragraphs /\ Kept(0) = UpTo(call.paragraphs, MaxParagraphs)
      BY <1>4 DEF Rows, Kept, FromWord
    <2>6. \A k \in 1 .. n : Rows(k) = call.tables[k] /\ Kept(k) = call.tables[k]
      BY <1>2, <1>4 DEF Rows, Kept, FromWord
    <2>7. Cut(0) <=> call.paragraphs > MaxParagraphs
      <3>1. 1 \in 1 .. Len(Parts) /\ Parts[1] = 0
        BY <1>2, <2>4
      <3>2. Cut(0) <=> Kept(0) < Rows(0)
        BY <3>1 DEF Cut
      <3>3. UpTo(call.paragraphs, MaxParagraphs) < call.paragraphs
               <=> call.paragraphs > MaxParagraphs
        <4>1. call.paragraphs \in Int /\ MaxParagraphs \in Int
          BY <1>1
        <4>. QED BY <4>1, UpToCuts
      <3>. QED BY <2>5, <3>2, <3>3
    <2>8. \A k \in 1 .. n : Cut(k) <=> k > m
      <3> TAKE k \in 1 .. n
      <3>1. ~(Kept(k) < Rows(k))
        BY <1>2, <2>6
      <3>2. CASE k \in 1 .. m
        <4>1. k + 1 \in 1 .. m + 1 /\ Parts[k + 1] = k
          BY <1>2, <2>4, <3>2
        <4>. QED BY <1>2, <2>4, <3>1, <3>2, <4>1 DEF Cut
      <3>3. CASE k > m
        <4>1. \A e \in 1 .. Len(Parts) : Parts[e] # k
          BY <1>2, <2>4, <3>3
        <4>. QED BY <3>3, <4>1 DEF Cut
      <3>. QED BY <1>2, <3>2, <3>3
    <2>9. (\E k \in 1 .. n : Cut(k)) <=> n > MaxTables
      <3>1. CASE n > MaxTables
        <4>1. n \in 1 .. n /\ n > m
          BY <1>1, <1>2, <3>1
        <4>. QED BY <2>8, <3>1, <4>1
      <3>2. CASE ~(n > MaxTables)
        <4>1. m = n
          BY <1>1, <1>2, <3>2
        <4>. QED BY <1>2, <2>8, <3>2, <4>1
      <3>. QED BY <3>1, <3>2
    <2>10. 0 .. n = {0} \cup (1 .. n)
      BY <1>2
    <2>. QED BY <2>1, <2>7, <2>9, <2>10
  <1>5. CASE Tool = "word_to_excel"
    <2>1. InputParts \ Untold = {k \in 0 .. n : k # 0 /\ ~(k > MaxTables)}
          /\ (Truncated <=> \E k \in 1 .. m : call.tables[k] > RowsAllowed)
      BY <1>5 DEF InputParts, Untold, Truncated, FromWord
    <2>2. Parts = FirstParts(m) \o <<0>>
      BY <1>5 DEF Parts
    <2>3. FirstParts(m) \in Seq(Nat) /\ Len(FirstParts(m)) = m
          /\ \A k \in 1 .. m : FirstParts(m)[k] = k
      BY <1>2, FirstPartsAre DEF FirstParts
    <2>4. \A k \in 1 .. n : Rows(k) = call.tables[k] /\ Kept(k) = UpTo(call.tables[k], RowsAllowed)
      BY <1>2, <1>5 DEF Rows, Kept, FromWord
    <2> HIDE DEF n, m
    <2>5. Len(Parts) = m + 1 /\ \A e \in 1 .. m : Parts[e] = e
      BY <1>2, <2>2, <2>3
    <2>6. Parts[m + 1] = 0
      BY <1>2, <2>2, <2>3
    <2>7. RowsAllowed \in Int
      BY <1>5, CountsAssumption DEF RowsAllowed, Tool
    <2>8. {k \in 0 .. n : k # 0 /\ ~(k > MaxTables)} = 1 .. m
      BY <1>1, <1>2 DEF UpTo, m
    <2>9. \A k \in 1 .. m : Cut(k) <=> call.tables[k] > RowsAllowed
      <3> TAKE k \in 1 .. m
      <3>1. k \in 1 .. Len(Parts) /\ Parts[k] = k /\ k \in 1 .. n
        BY <1>2, <2>5
      <3>2. Cut(k) <=> Kept(k) < Rows(k)
        BY <3>1 DEF Cut
      <3>3. call.tables[k] \in Int
        BY <1>2, <3>1
      <3>4. UpTo(call.tables[k], RowsAllowed) < call.tables[k] <=> call.tables[k] > RowsAllowed
        BY <2>7, <3>3, UpToCuts
      <3>. QED BY <2>4, <3>1, <3>2, <3>4
    <2>. QED BY <2>1, <2>8, <2>9
  <1>6. CASE Tool = "word_to_ppt"
    <2> DEFINE last == UpTo(SlideCount, MaxSlides)
    <2>1. SlideCount \in Nat
      BY SlidesType
    <2>2. last \in Nat /\ last <= SlideCount /\ (last < SlideCount <=> SlideCount > MaxSlides)
      BY <1>1, <2>1 DEF UpTo
    <2>3. InputParts \ Untold = 1 .. SlideCount /\ (Truncated <=> SlideCount > MaxSlides)
      BY <1>6 DEF InputParts, Untold, Truncated
    <2>4. Parts = FirstParts(last)
      BY <1>6 DEF Parts
    <2> HIDE DEF last
    <2>5. Len(Parts) = last /\ \A e \in 1 .. last : Parts[e] = e
      BY <2>2, <2>4, FirstPartsAre
    <2>6. \A k \in 1 .. SlideCount : ~(Kept(k) < Rows(k))
      <3> TAKE k \in 1 .. SlideCount
      <3>1. Kept(k) = Rows(k)
        BY <1>6 DEF Kept
      <3>2. Rows(k) = UpTo(call.paragraphs - (k - 1) * SlideRows, SlideRows)
        BY <1>6 DEF Rows
      <3>3. (k - 1) * SlideRows \in Int
        BY <1>1, <2>1
      <3>4. call.paragraphs - (k - 1) * SlideRows \in Int
        BY <1>1, <3>3
      <3>5. Rows(k) \in Int
        BY <1>1, <3>2, <3>4, UpToCuts
      <3>. QED BY <3>1, <3>5
    <2>7. \A k \in 1 .. SlideCount : Cut(k) <=> k > last
      BY <2>1, <2>2, <2>5, <2>6 DEF Cut
    <2>8. (\E k \in 1 .. SlideCount : k > last) <=> last < SlideCount
      <3>1. CASE last < SlideCount
        <4>1. SlideCount \in 1 .. SlideCount
          BY <2>1, <2>2, <3>1
        <4>. QED BY <3>1, <4>1
      <3>2. CASE ~(last < SlideCount)
        BY <2>1, <2>2, <3>2
      <3>. QED BY <3>1, <3>2
    <2>. QED BY <2>2, <2>3, <2>7, <2>8
  <1>. QED BY <1>3, <1>4, <1>5, <1>6 DEF FromWord

LEMMA CutInExcel ==
    ASSUME call \in Calls, Tool \in Counted \ FromWord
    PROVE  Truncated <=> \E k \in InputParts \ Untold : Cut(k)
  <1>1. /\ call.sheets \in Seq(Nat) /\ SlideRows \in Nat /\ MaxSlides \in Nat /\ RowLimit \in Nat
    BY CountsAssumption, SlideAssumption DEF Tool
  <1> DEFINE n == Len(call.sheets)
  <1>2. n \in Nat /\ DOMAIN call.sheets = 1 .. n /\ \A k \in 1 .. n : call.sheets[k] \in Nat
    BY <1>1
  <1>3. Len(FirstParts(n)) = n /\ \A k \in 1 .. n : FirstParts(n)[k] = k
    BY <1>2, FirstPartsAre
  <1> HIDE DEF n
  <1>4. Untold = {} /\ Tool \notin FromWord
        /\ Tool \in {"excel_to_word", "excel_to_ppt", "excel_to_json", "excel_to_csv"}
    BY DEF Untold, Counted, FromWord
  <1>5. CASE Tool = "excel_to_word"
    <2>1. InputParts = 1 .. n /\ (Truncated <=> \E k \in 1 .. n : call.sheets[k] > RowsAllowed)
      BY <1>2, <1>5 DEF InputParts, Truncated, FromWord
    <2>2. Parts = FirstParts(n)
      BY <1>5 DEF Parts, n
    <2>3. RowsAllowed \in Int
      BY <1>5, CountsAssumption DEF RowsAllowed, Tool
    <2>4. \A k \in 1 .. n : Rows(k) = call.sheets[k] /\ Kept(k) = UpTo(call.sheets[k], RowsAllowed)
      BY <1>5 DEF Rows, Kept, FromWord
    <2>5. \A k \in 1 .. n : Cut(k) <=> call.sheets[k] > RowsAllowed
      <3> TAKE k \in 1 .. n
      <3>1. Cut(k) <=> Kept(k) < Rows(k)
        BY <1>2, <1>3, <2>2 DEF Cut
      <3>2. call.sheets[k] \in Int
        BY <1>2
      <3>3. UpTo(call.sheets[k], RowsAllowed) < call.sheets[k] <=> call.sheets[k] > RowsAllowed
        BY <2>3, <3>2, UpToCuts
      <3>. QED BY <2>4, <3>1, <3>3
    <2>. QED BY <1>4, <2>1, <2>5
  <1>6. CASE Tool = "excel_to_json"
    <2>1. InputParts = 1 .. n /\ (Truncated <=> \E k \in 1 .. n : Rows(k) > RowLimit)
      BY <1>2, <1>6 DEF InputParts, Truncated, FromWord
    <2>2. Parts = FirstParts(n)
      BY <1>6 DEF Parts, n
    <2>3. \A k \in 1 .. n : Rows(k) \in Int /\ Kept(k) = UpTo(Rows(k), RowLimit)
      BY <1>2, <1>6 DEF Rows, Kept, FromWord
    <2>4. \A k \in 1 .. n : Cut(k) <=> Rows(k) > RowLimit
      <3> TAKE k \in 1 .. n
      <3>1. Cut(k) <=> Kept(k) < Rows(k)
        BY <1>2, <1>3, <2>2 DEF Cut
      <3>2. UpTo(Rows(k), RowLimit) < Rows(k) <=> Rows(k) > RowLimit
        <4>1. Rows(k) \in Int /\ RowLimit \in Int
          BY <1>1, <2>3
        <4>. QED BY <4>1, UpToCuts
      <3>. QED BY <2>3, <3>1, <3>2
    <2>. QED BY <1>4, <2>1, <2>4
  <1>7. CASE Tool = "excel_to_csv"
    <2>1. call.chosen \in 1 .. n
      BY <1>2, <1>7, CountsAssumption DEF Tool
    <2>2. ~Truncated /\ \A k \in 1 .. n : Kept(k) = call.sheets[k] /\ Rows(k) = call.sheets[k]
      BY <1>7 DEF Truncated, Kept, Rows, FromWord
    <2>3. \A k \in InputParts : k \in 1 .. n /\ \E e \in 1 .. Len(Parts) : Parts[e] = k
      <3>1. CASE call.all_sheets
        <4>1. InputParts = 1 .. n /\ Parts = FirstParts(n)
          BY <1>2, <1>7, <3>1 DEF InputParts, Parts, FromWord, n
        <4>. QED BY <1>3, <4>1
      <3>2. CASE ~call.all_sheets
        <4>1. InputParts = {call.chosen} /\ Parts = <<call.chosen>>
          BY <1>7, <3>2 DEF InputParts, Parts, FromWord
        <4>2. 1 \in 1 .. Len(Parts) /\ Parts[1] = call.chosen
          BY <4>1
        <4>. QED BY <2>1, <4>1, <4>2
      <3>. QED BY <3>1, <3>2
    <2>4. \A k \in InputParts : ~Cut(k)
      <3> TAKE k \in InputParts
      <3>1. k \in 1 .. n /\ \E e \in 1 .. Len(Parts) : Parts[e] = k
        BY <2>3
      <3>2. ~(Kept(k) < Rows(k))
        BY <1>2, <2>2, <3>1
      <3>. QED BY <3>1, <3>2 DEF Cut
    <2>. QED BY <1>4, <2>2, <2>4
  <1>8. CASE Tool = "excel_to_ppt"
    <2> DEFINE size == Len(FilledSheets)
               last == UpTo(size, MaxSlides)
    <2>1. /\ FilledSheets \in Seq(Nat)
          /\ \A k \in 1 .. size : FilledSheets[k] \in Filled
          /\ \A p \in Filled : \E k \in 1 .. size : FilledSheets[k] = p
          /\ \A i, j \in 1 .. size : i # j => FilledSheets[i] # FilledSheets[j]
      BY FilledSheetsList
    <2>2. size \in Nat /\ last \in Nat /\ last <= size /\ (last < size <=> size > MaxSlides)
          /\ (last = size \/ last = MaxSlides)
      BY <1>1, <2>1 DEF UpTo
    <2>3. InputParts = Filled
          /\ (Truncated <=> size > MaxSlides \/ \E k \in 1 .. n : call.sheets[k] > SlideRows)
      BY <1>2, <1>8 DEF InputParts, Truncated, FromWord, Filled
    <2>4. Parts = SubSeq(FilledSheets, 1, last)
      BY <1>8 DEF Parts
    <2> HIDE DEF size, last
    <2>5. Len(Parts) = last /\ \A e \in 1 .. last : Parts[e] = FilledSheets[e]
      BY <2>1, <2>2, <2>4 DEF size
    <2>6. \A k \in Filled : /\ k \in 1 .. n /\ Rows(k) = call.sheets[k]
                            /\ Kept(k) = UpTo(call.sheets[k], SlideRows)
      BY <1>2, <1>8 DEF Rows, Kept, FromWord, Filled
    <2>7. \A k \in Filled : Kept(k) < Rows(k) <=> call.sheets[k] > SlideRows
      <3> TAKE k \in Filled
      <3>1. call.sheets[k] \in Int /\ SlideRows \in Int
        BY <1>1, <1>2, <2>6
      <3>2. UpTo(call.sheets[k], SlideRows) < call.sheets[k] <=> call.sheets[k] > SlideRows
        BY <3>1, UpToCuts
      <3>. QED BY <2>6, <3>2
    <2>8. \A k \in 1 .. n : call.sheets[k] > SlideRows => k \in Filled
      BY <1>1, <1>2 DEF Filled
    <2>9. ASSUME size > MaxSlides PROVE \E k \in Filled : Cut(k)
      <3>1. last + 1 \in 1 .. size
        BY <2>2, <2>9
      <3> DEFINE lost == FilledSheets[last + 1]
      <3>2. lost \in Filled
        BY <2>1, <3>1
      <3>3. \A e \in 1 .. last : e \in 1 .. size /\ e # last + 1
        BY <2>2
      <3>4. \A e \in 1 .. Len(Parts) : Parts[e] # lost
        BY <2>1, <2>5, <3>1, <3>3
      <3>5. Cut(lost)
        BY <3>4 DEF Cut
      <3>. QED BY <3>2, <3>5
    <2>10. ASSUME NEW k \in 1 .. n, call.sheets[k] > SlideRows PROVE \E q \in Filled : Cut(q)
      <3>1. k \in Filled
        BY <2>8, <2>10
      <3>2. Cut(k)
        BY <2>7, <2>10, <3>1 DEF Cut
      <3>. QED BY <3>1, <3>2
    <2>11. ASSUME NEW k \in Filled, Cut(k)
           PROVE  size > MaxSlides \/ \E q \in 1 .. n : call.sheets[q] > SlideRows
      <3>1. CASE Kept(k) < Rows(k)
        BY <2>6, <2>7, <3>1
      <3>2. CASE ~(Kept(k) < Rows(k))
        <4>1. PICK e \in 1 .. size : FilledSheets[e] = k
          BY <2>1
        <4>2. ~(e \in 1 .. last)
          BY <2>5, <2>11, <3>2, <4>1 DEF Cut
        <4>. QED BY <2>2, <4>2
      <3>. QED BY <3>1, <3>2
    <2>. QED BY <1>4, <2>3, <2>9, <2>10, <2>11
  <1>. QED BY <1>4, <1>5, <1>6, <1>7, <1>8

LEMMA PartsInvariance == Spec => []PartsInv
  <1>1. Init => PartsInv
    BY DEF Init, PartsInv, Returned, NoFile, StaleFile
  <1>2. PartsInv /\ [Next]_vars => PartsInv'
    <2> SUFFICES ASSUME PartsInv, [Next]_vars PROVE PartsInv'
      OBVIOUS
    <2>1. CASE Next /\ ByParts
      <3>1. Tool \in OfficeTool
        BY <2>1 DEF ByParts, OfficeTool
      <3>2. OfficeNext
        BY <2>1, <3>1, PageSteps, EditSteps, OptimizeSteps, ImageSteps, TextSteps, OneFamily
           DEF Next
      <3>. QED BY <2>1, <3>2, OfficeParts
    <2>2. CASE Next /\ ~ByParts
      BY <2>2, NextKeepsCall, PartsOfOthers
    <2>3. CASE UNCHANGED vars
      <3>1. Tool' = Tool /\ Holds' = Holds
        BY <2>3 DEF vars, Tool, Holds
      <3>. QED BY <2>3, <3>1, SameParts DEF vars, PartsInv, ToDo, Returned
    <2>. QED BY <2>1, <2>2, <2>3
  <1>. QED BY <1>1, <1>2, PTL DEF Spec

\* Outside word_to_excel the answer tells of a cut exactly if there is one, for
\* documents of any size and whatever the limits are: also a document that reaches
\* a limit to the row is told to be whole, and a sheet that is lost because of the
\* sheets before it is not passed over.  Of what word_to_excel cuts only the rows of
\* its first tables are told: not the paragraphs and not the tables beyond the
\* limit (office_engine.py:568, 590), which are Untold.
THEOREM CutsAreAlwaysTold == Spec => []CutsAreTold
  <1>1. PartsInv => CutsAreTold
    <2> SUFFICES ASSUME PartsInv, ByParts, Returned
                 PROVE  Truncated <=> \E k \in InputParts \ Untold :
                            \A e \in DOMAIN Holds : Holds[e].part = k => Holds[e].rows < Rows(k)
      BY DEF CutsAreTold, ByParts
    <2>1. Truncated <=> \E k \in InputParts \ Untold : Cut(k)
      BY CutInWord, CutInExcel DEF PartsInv, ByParts
    <2>. QED BY <2>1, PartsOfResult DEF Cut
  <1>. QED BY <1>1, PartsInvariance, PTL

-----------------------------------------------------------------------------
(* Documents made unit by unit. *)

\* Tools of which a unit of the plan makes one entry, or none.
UnitWise == EditTool \cup {"organize_pdf", "remove_pages", "extract_pages", "resize_pdf",
                           "pdf_to_html", "edit_word"}

\* The pages these tools keep.
KeptPages ==
    CASE Tool = "organize_pdf" -> Organized
      [] Tool = "remove_pages" -> Remaining
      [] Tool = "extract_pages" -> Named(call.ranges, total)
      [] Tool = "resize_pdf" -> Resizable

Plan ==
    CASE Tool \in {"organize_pdf", "remove_pages", "extract_pages", "resize_pdf"} ->
            OneByOne(InOrder(KeptPages))
      [] Tool = "pdf_to_html" -> OneByOne(PagesOfDoc(1))
      [] Tool = "rotate_pdf" -> OnPages(call.named, "rotate", call.angle)
      [] Tool = "watermark_pdf" -> OnEvery("mark", LAMBDA p : call.image)
      [] Tool = "page_numbers" -> OnEvery("number", LAMBDA p : call.start + p - 1)
      [] Tool = "crop_pdf" -> OnEvery("crop", LAMBDA p : call.margin)
      [] Tool = "sign_pdf" -> OnPages(SignedPages, "sign", call.image)
      [] Tool = "protect_pdf" -> <<Edit(0, "encrypt", call.password)>>
      [] Tool = "unlock_pdf" -> <<Edit(0, "decrypt", call.password)>>
      [] Tool = "remove_metadata" -> <<Edit(0, "clear", "info"), Edit(0, "clear", "xmp")>>
      [] Tool = "add_header_footer" -> StampPlan
      [] Tool = "fill_form" ->
            At(call.widgets, {k \in DOMAIN call.widgets : call.widgets[k].of \in call.fields})
      [] Tool = "flatten_pdf" -> <<Edit(0, "bake", call.pages)>>
      [] Tool = "redact_pdf" -> OnEvery("redact", LAMBDA p : "matches")
      [] Tool = "edit_pdf" -> ByKind
      [] Tool = "edit_word" -> call.hits

\* What is made of a unit, which units something is made of, and which may be left
\* out.
EntryOf(unit) ==
    CASE Tool = "edit_pdf" -> [unit EXCEPT !.page = Resolved(@)]
      [] Tool = "redact_pdf" -> Edit(unit.page, "redact", Matched(unit.page))
      [] OTHER -> unit

MadeOf(unit) ==
    CASE Tool = "edit_pdf" -> OnAPage(unit) /\ ~unit.blank
      [] Tool = "edit_word" -> unit.does = "run"
      [] Tool \in Forgiving -> ~Refused(unit)
      [] OTHER -> TRUE

LeftOut(unit) ==
    CASE Tool = "edit_pdf" -> OnAPage(unit) /\ unit.blank
      [] Tool = "edit_word" -> unit.does # "run"
      [] Tool \in Forgiving -> Refused(unit)
      [] OTHER -> FALSE

\* Each entry that is done and each unit that is left has its place in the plan, one
\* after the other, and what has none may be left out.
Threaded(done, left) ==
    /\ done \in Seq({EntryOf(Plan[k]) : k \in 1 .. Len(Plan)})
    /\ left \in Seq({Plan[k] : k \in 1 .. Len(Plan)})
    /\ \E from \in [1 .. Len(done) + Len(left) -> 1 .. Len(Plan)] :
          /\ \A i, j \in 1 .. Len(done) + Len(left) : i < j => from[i] < from[j]
          /\ \A e \in 1 .. Len(done) :
                done[e] = EntryOf(Plan[from[e]]) /\ MadeOf(Plan[from[e]])
          /\ \A e \in 1 .. Len(left) : left[e] = Plan[from[Len(done) + e]]
          /\ \A k \in 1 .. Len(Plan) :
                LeftOut(Plan[k]) \/ \E e \in 1 .. Len(done) + Len(left) : from[e] = k
          /\ (\A k \in 1 .. Len(Plan) : ~LeftOut(Plan[k])) =>
                /\ Len(done) + Len(left) = Len(Plan)
                /\ \A e \in 1 .. Len(Plan) : from[e] = e

\* A plan is a list.
Listed == Len(Plan) \in Nat /\ Plan \in Seq({Plan[k] : k \in 1 .. Len(Plan)})

LEMMA ThreadStarts ==
    ASSUME Listed
    PROVE  Threaded(<<>>, Plan)
  <1> DEFINE n == Len(Plan)
             from == [e \in 1 .. n |-> e]
  <1>1. n \in Nat /\ Plan \in Seq({Plan[k] : k \in 1 .. n})
    BY DEF Listed
  <1>2. <<>> \in Seq({EntryOf(Plan[k]) : k \in 1 .. n}) /\ Len(<<>>) = 0
    OBVIOUS
  <1>3. from \in [1 .. n -> 1 .. n] /\ \A e \in 1 .. n : from[e] = e
    OBVIOUS
  <1> HIDE DEF n, from
  <1>4. 0 + n = n /\ \A e \in 1 .. n : 0 + e = e
    BY <1>1
  <1>. QED BY <1>1, <1>2, <1>3, <1>4 DEF Threaded, n

LEMMA TailIs ==
    ASSUME NEW S, NEW left \in Seq(S), left # <<>>
    PROVE  /\ Tail(left) \in Seq(S) /\ Len(left) \in Nat /\ Len(left) > 0
           /\ Len(Tail(left)) = Len(left) - 1 /\ Head(left) = left[1]
           /\ Head(left) \in S
           /\ \A e \in 1 .. Len(left) - 1 : Tail(left)[e] = left[e + 1]
  OBVIOUS

LEMMA ThreadGrows ==
    ASSUME Listed, NEW done, NEW left, Threaded(done, left), left # <<>>, MadeOf(Head(left))
    PROVE  Threaded(done \o <<EntryOf(Head(left))>>, Tail(left))
  <1> DEFINE n == Len(Plan)
             E == {EntryOf(Plan[k]) : k \in 1 .. n}
             U == {Plan[k] : k \in 1 .. n}
             b == Len(done)
             t == Len(left)
             grown == done \o <<EntryOf(Head(left))>>
             rest == Tail(left)
  <1>1. n \in Nat /\ done \in Seq(E) /\ left \in Seq(U)
    BY DEF Listed, Threaded
  <1>2. PICK from \in [1 .. b + t -> 1 .. n] :
          /\ \A i, j \in 1 .. b + t : i < j => from[i] < from[j]
          /\ \A e \in 1 .. b : done[e] = EntryOf(Plan[from[e]]) /\ MadeOf(Plan[from[e]])
          /\ \A e \in 1 .. t : left[e] = Plan[from[b + e]]
          /\ \A k \in 1 .. n : LeftOut(Plan[k]) \/ \E e \in 1 .. b + t : from[e] = k
          /\ (\A k \in 1 .. n : ~LeftOut(Plan[k])) =>
                b + t = n /\ \A e \in 1 .. n : from[e] = e
    BY DEF Threaded
  <1>3. b \in Nat /\ t \in Nat /\ t > 0
    BY <1>1, TailIs
  <1>4. rest \in Seq(U) /\ Len(rest) = t - 1 /\ Head(left) = left[1]
        /\ \A e \in 1 .. t - 1 : rest[e] = left[e + 1]
    BY <1>1, TailIs
  <1>5. b + 1 \in 1 .. b + t /\ Head(left) = Plan[from[b + 1]] /\ from[b + 1] \in 1 .. n
    <2> HIDE DEF n, b, t
    <2>1. 1 \in 1 .. t /\ b + 1 \in 1 .. b + t
      BY <1>3
    <2>2. left[1] = Plan[from[b + 1]]
      BY <1>2, <2>1
    <2>3. from[b + 1] \in 1 .. n
      BY <1>2, <2>1
    <2>. QED BY <1>4, <2>1, <2>2, <2>3
  <1> DEFINE entry == EntryOf(Head(left))
  <1>6. entry \in E
    BY <1>5
  <1> HIDE DEF n, E, U, entry
  <1>7. grown \in Seq(E) /\ Len(grown) = b + 1 /\ grown[b + 1] = entry
        /\ \A e \in 1 .. b : grown[e] = done[e]
    BY <1>1, <1>6 DEF entry
  <1>8. Len(grown) + Len(rest) = b + t
    BY <1>3, <1>4, <1>7
  <1>9. \A e \in 1 .. b + 1 : grown[e] = EntryOf(Plan[from[e]]) /\ MadeOf(Plan[from[e]])
    <2> TAKE e \in 1 .. b + 1
    <2>1. CASE e \in 1 .. b
      BY <1>2, <1>7, <2>1
    <2>2. CASE e = b + 1
      BY <1>5, <1>7, <2>2 DEF entry
    <2>. QED BY <1>3, <2>1, <2>2
  <1>10. \A e \in 1 .. t - 1 : rest[e] = Plan[from[(b + 1) + e]]
    <2> TAKE e \in 1 .. t - 1
    <2>1. e + 1 \in 1 .. t /\ b + (e + 1) = (b + 1) + e
      BY <1>3
    <2>. QED BY <1>2, <1>4, <2>1
  <1> HIDE DEF b, t, grown, rest
  <1>11. /\ grown \in Seq(E) /\ rest \in Seq(U)
         /\ \E f \in [1 .. Len(grown) + Len(rest) -> 1 .. n] :
               /\ \A i, j \in 1 .. Len(grown) + Len(rest) : i < j => f[i] < f[j]
               /\ \A e \in 1 .. Len(grown) :
                     grown[e] = EntryOf(Plan[f[e]]) /\ MadeOf(Plan[f[e]])
               /\ \A e \in 1 .. Len(rest) : rest[e] = Plan[f[Len(grown) + e]]
               /\ \A k \in 1 .. n :
                     LeftOut(Plan[k]) \/ \E e \in 1 .. Len(grown) + Len(rest) : f[e] = k
               /\ (\A k \in 1 .. n : ~LeftOut(Plan[k])) =>
                     /\ Len(grown) + Len(rest) = n
                     /\ \A e \in 1 .. n : f[e] = e
    <2>1. /\ from \in [1 .. Len(grown) + Len(rest) -> 1 .. n]
          /\ \A i, j \in 1 .. Len(grown) + Len(rest) : i < j => from[i] < from[j]
          /\ \A k \in 1 .. n :
                LeftOut(Plan[k]) \/ \E e \in 1 .. Len(grown) + Len(rest) : from[e] = k
          /\ (\A k \in 1 .. n : ~LeftOut(Plan[k])) =>
                Len(grown) + Len(rest) = n /\ \A e \in 1 .. n : from[e] = e
      BY <1>2, <1>8
    <2>2. /\ \A e \in 1 .. Len(grown) : grown[e] = EntryOf(Plan[from[e]]) /\ MadeOf(Plan[from[e]])
          /\ \A e \in 1 .. Len(rest) : rest[e] = Plan[from[Len(grown) + e]]
      BY <1>4, <1>7, <1>9, <1>10
    <2>. QED BY <1>4, <1>7, <2>1, <2>2
  <1>. QED BY <1>11 DEF Threaded, n, E, U, grown, rest

LEMMA ThreadSkips ==
    ASSUME Listed, NEW done, NEW left, Threaded(done, left), left # <<>>, LeftOut(Head(left))
    PROVE  Threaded(done, Tail(left))
  <1> DEFINE n == Len(Plan)
             E == {EntryOf(Plan[k]) : k \in 1 .. n}
             U == {Plan[k] : k \in 1 .. n}
             b == Len(done)
             t == Len(left)
             rest == Tail(left)
  <1>1. n \in Nat /\ done \in Seq(E) /\ left \in Seq(U)
    BY DEF Listed, Threaded
  <1>2. PICK from \in [1 .. b + t -> 1 .. n] :
          /\ \A i, j \in 1 .. b + t : i < j => from[i] < from[j]
          /\ \A e \in 1 .. b : done[e] = EntryOf(Plan[from[e]]) /\ MadeOf(Plan[from[e]])
          /\ \A e \in 1 .. t : left[e] = Plan[from[b + e]]
          /\ \A k \in 1 .. n : LeftOut(Plan[k]) \/ \E e \in 1 .. b + t : from[e] = k
          /\ (\A k \in 1 .. n : ~LeftOut(Plan[k])) =>
                b + t = n /\ \A e \in 1 .. n : from[e] = e
    BY DEF Threaded
  <1>3. b \in Nat /\ t \in Nat /\ t > 0
    BY <1>1, TailIs
  <1>4. rest \in Seq(U) /\ Len(rest) = t - 1 /\ Head(left) = left[1]
        /\ \A e \in 1 .. t - 1 : rest[e] = left[e + 1]
    BY <1>1, TailIs
  <1>5. b + 1 \in 1 .. b + t /\ Head(left) = Plan[from[b + 1]] /\ from[b + 1] \in 1 .. n
    <2> HIDE DEF n, b, t
    <2>1. 1 \in 1 .. t /\ b + 1 \in 1 .. b + t
      BY <1>3
    <2>2. left[1] = Plan[from[b + 1]]
      BY <1>2, <2>1
    <2>3. from[b + 1] \in 1 .. n
      BY <1>2, <2>1
    <2>. QED BY <1>4, <2>1, <2>2, <2>3
  <1> DEFINE f == [e \in 1 .. b + (t - 1) |-> IF e <= b THEN from[e] ELSE from[e + 1]]
  <1> HIDE DEF n, E, U, b, t, rest, f
  <1>6. /\ \A e \in 1 .. b + (t - 1) : e \in 1 .. b + t /\ e + 1 \in 1 .. b + t
        /\ \A e \in 1 .. b : e \in 1 .. b + (t - 1) /\ f[e] = from[e]
        /\ \A e \in 1 .. b + (t - 1) : e > b => f[e] = from[e + 1]
    BY <1>3 DEF f
  <1>7. f \in [1 .. b + (t - 1) -> 1 .. n]
    BY <1>2, <1>3, <1>6 DEF f
  <1>8. \A i, j \in 1 .. b + (t - 1) : i < j => f[i] < f[j]
    <2> SUFFICES ASSUME NEW i \in 1 .. b + (t - 1), NEW j \in 1 .. b + (t - 1), i < j
                 PROVE  f[i] < f[j]
      OBVIOUS
    <2>1. CASE i <= b /\ j <= b
      BY <1>2, <1>3, <1>6, <2>1
    <2>2. CASE i <= b /\ j > b
      <3>1. f[i] = from[i] /\ f[j] = from[j + 1] /\ i < j + 1
        BY <1>3, <1>6, <2>2
      <3>. QED BY <1>2, <1>6, <3>1
    <2>3. CASE i > b /\ j > b
      <3>1. f[i] = from[i + 1] /\ f[j] = from[j + 1] /\ i + 1 < j + 1
        BY <1>3, <1>6, <2>3
      <3>. QED BY <1>2, <1>6, <3>1
    <2>. QED BY <1>3, <2>1, <2>2, <2>3
  <1>9. \A e \in 1 .. b : done[e] = EntryOf(Plan[f[e]]) /\ MadeOf(Plan[f[e]])
    BY <1>2, <1>6
  <1>10. \A e \in 1 .. t - 1 : rest[e] = Plan[f[b + e]]
    <2> TAKE e \in 1 .. t - 1
    <2>1. e + 1 \in 1 .. t /\ b + (e + 1) = (b + e) + 1 /\ b + e \in 1 .. b + (t - 1) /\ b + e > b
      BY <1>3
    <2>2. f[b + e] = from[b + (e + 1)]
      BY <1>6, <2>1
    <2>. QED BY <1>2, <1>4, <2>1, <2>2
  <1>11. \A k \in 1 .. n : LeftOut(Plan[k]) \/ \E e \in 1 .. b + (t - 1) : f[e] = k
    <2> SUFFICES ASSUME NEW k \in 1 .. n, ~LeftOut(Plan[k])
                 PROVE  \E e \in 1 .. b + (t - 1) : f[e] = k
      OBVIOUS
    <2>1. PICK e \in 1 .. b + t : from[e] = k
      BY <1>2
    <2>2. e # b + 1
      BY <1>5, <2>1
    <2>3. CASE e <= b
      <3>1. e \in 1 .. b
        BY <1>3, <2>3
      <3>. QED BY <1>6, <2>1, <3>1
    <2>4. CASE e > b + 1
      <3>1. e - 1 \in 1 .. b + (t - 1) /\ e - 1 > b /\ (e - 1) + 1 = e
        BY <1>3, <2>4
      <3>2. f[e - 1] = from[e]
        BY <1>6, <3>1
      <3>. QED BY <2>1, <3>1, <3>2
    <2>. QED BY <1>3, <2>2, <2>3, <2>4
  <1>12. ~(\A k \in 1 .. n : ~LeftOut(Plan[k]))
    BY <1>5
  <1>13. /\ done \in Seq(E) /\ rest \in Seq(U)
         /\ \E g \in [1 .. b + Len(rest) -> 1 .. n] :
               /\ \A i, j \in 1 .. b + Len(rest) : i < j => g[i] < g[j]
               /\ \A e \in 1 .. b : done[e] = EntryOf(Plan[g[e]]) /\ MadeOf(Plan[g[e]])
               /\ \A e \in 1 .. Len(rest) : rest[e] = Plan[g[b + e]]
               /\ \A k \in 1 .. n :
                     LeftOut(Plan[k]) \/ \E e \in 1 .. b + Len(rest) : g[e] = k
               /\ (\A k \in 1 .. n : ~LeftOut(Plan[k])) =>
                     b + Len(rest) = n /\ \A e \in 1 .. n : g[e] = e
    <2>1. /\ f \in [1 .. b + Len(rest) -> 1 .. n]
          /\ \A i, j \in 1 .. b + Len(rest) : i < j => f[i] < f[j]
          /\ \A k \in 1 .. n : LeftOut(Plan[k]) \/ \E e \in 1 .. b + Len(rest) : f[e] = k
      BY <1>4, <1>7, <1>8, <1>11
    <2>2. \A e \in 1 .. Len(rest) : rest[e] = Plan[f[b + e]]
      BY <1>4, <1>10
    <2>. QED BY <1>1, <1>4, <1>9, <1>12, <2>1, <2>2
  <1>. QED BY <1>13 DEF Threaded, n, E, U, b, rest

\* When nothing is left, the entries are those of the plan, or of some of it.
LEMMA ThreadEnds ==
    ASSUME Listed, NEW done, Threaded(done, <<>>)
    PROVE  /\ Len(done) \in Nat /\ DOMAIN done = 1 .. Len(done)
           /\ \E from \in [1 .. Len(done) -> 1 .. Len(Plan)] :
                /\ \A i, j \in 1 .. Len(done) : i < j => from[i] < from[j]
                /\ \A e \in 1 .. Len(done) :
                      done[e] = EntryOf(Plan[from[e]]) /\ MadeOf(Plan[from[e]])
                /\ \A k \in 1 .. Len(Plan) :
                      LeftOut(Plan[k]) \/ \E e \in 1 .. Len(done) : from[e] = k
           /\ (\A k \in 1 .. Len(Plan) : ~LeftOut(Plan[k])) =>
                /\ Len(done) = Len(Plan)
                /\ \A k \in 1 .. Len(Plan) : done[k] = EntryOf(Plan[k])
  <1> DEFINE E == {EntryOf(Plan[k]) : k \in 1 .. Len(Plan)}
             b == Len(done)
  <1>1. done \in Seq(E) /\ Len(<<>>) = 0
    BY DEF Threaded
  <1> HIDE DEF E
  <1>2. b \in Nat /\ DOMAIN done = 1 .. b /\ b + 0 = b
    BY <1>1
  <1>3. PICK from \in [1 .. b + 0 -> 1 .. Len(Plan)] :
          /\ \A i, j \in 1 .. b + 0 : i < j => from[i] < from[j]
          /\ \A e \in 1 .. b : done[e] = EntryOf(Plan[from[e]]) /\ MadeOf(Plan[from[e]])
          /\ \A k \in 1 .. Len(Plan) : LeftOut(Plan[k]) \/ \E e \in 1 .. b + 0 : from[e] = k
          /\ (\A k \in 1 .. Len(Plan) : ~LeftOut(Plan[k])) =>
                b + 0 = Len(Plan) /\ \A e \in 1 .. Len(Plan) : from[e] = e
    BY <1>1 DEF Threaded
  <1> HIDE DEF b
  <1>4. \E f \in [1 .. b -> 1 .. Len(Plan)] :
          /\ \A i, j \in 1 .. b : i < j => f[i] < f[j]
          /\ \A e \in 1 .. b : done[e] = EntryOf(Plan[f[e]]) /\ MadeOf(Plan[f[e]])
          /\ \A k \in 1 .. Len(Plan) : LeftOut(Plan[k]) \/ \E e \in 1 .. b : f[e] = k
    <2>1. /\ from \in [1 .. b -> 1 .. Len(Plan)]
          /\ \A i, j \in 1 .. b : i < j => from[i] < from[j]
          /\ \A k \in 1 .. Len(Plan) : LeftOut(Plan[k]) \/ \E e \in 1 .. b : from[e] = k
      BY <1>2, <1>3
    <2>. QED BY <1>3, <2>1
  <1>5. (\A k \in 1 .. Len(Plan) : ~LeftOut(Plan[k])) =>
          b = Len(Plan) /\ \A k \in 1 .. Len(Plan) : done[k] = EntryOf(Plan[k])
    BY <1>2, <1>3
  <1>. QED BY <1>2, <1>4, <1>5 DEF b

LEMMA SamePlan ==
    call' = call =>
        /\ Tool' = Tool /\ Plan' = Plan /\ (Listed' <=> Listed)
        /\ \A done, left : Threaded(done, left)' <=> Threaded(done, left)
  <1> SUFFICES ASSUME call' = call
               PROVE  /\ Tool' = Tool /\ Plan' = Plan /\ (Listed' <=> Listed)
                      /\ \A done, left : Threaded(done, left)' <=> Threaded(done, left)
    OBVIOUS
  <1>1. Tool' = Tool
    BY DEF Tool
  <1>2. KeptPages' = KeptPages
    BY <1>1 DEF KeptPages, Organized, Remaining, Named, Resizable, total, Total, docs, Tool
  <1>3. OneByOne(PagesOfDoc(1))' = OneByOne(PagesOfDoc(1))
    BY DEF OneByOne, PagesOfDoc, Total, docs
  <1>4. OneByOne(InOrder(KeptPages))' = OneByOne(InOrder(KeptPages))
    BY <1>2 DEF OneByOne, InOrder, Ascending
  <1>5. StampPlan' = StampPlan
    BY DEF StampPlan, Stamps, Edit
  <1>6. ByKind' = ByKind
    BY DEF ByKind, InTurn, OfKind, Ascending, Kinds
  <1>7. SignedPages' = SignedPages
    BY DEF SignedPages
  <1>8. Plan' = Plan
    BY <1>1, <1>3, <1>4, <1>5, <1>6, <1>7
       DEF Plan, OnPages, OnEvery, Edit, At, Ascending
  <1>9. /\ \A unit : EntryOf(unit)' = EntryOf(unit)
        /\ \A unit : MadeOf(unit)' <=> MadeOf(unit)
        /\ \A unit : LeftOut(unit)' <=> LeftOut(unit)
    BY <1>1 DEF EntryOf, MadeOf, LeftOut, Refused, Resolved, OnAPage, Matched, Edit
  <1>10. Listed' <=> Listed
    BY <1>8 DEF Listed
  <1>11. \A done, left : Threaded(done, left)' <=> Threaded(done, left)
    BY <1>1, <1>8 DEF Threaded, EntryOf, MadeOf, LeftOut, Refused, Resolved, OnAPage, Matched,
                      Edit
  <1>. QED BY <1>1, <1>8, <1>10, <1>11

LEMMA ListOf ==
    ASSUME NEW n \in Nat, NEW list, list = [k \in 1 .. n |-> list[k]]
    PROVE  Len(list) = n /\ list \in Seq({list[k] : k \in 1 .. n})
  <1> DEFINE S == {list[k] : k \in 1 .. n}
  <1>1. \A k \in 1 .. n : list[k] \in S
    OBVIOUS
  <1> HIDE DEF S
  <1>2. list \in [1 .. n -> S]
    BY <1>1
  <1>3. list \in Seq(S) /\ Len(list) = n
    BY <1>2
  <1>. QED BY <1>3 DEF S

\* The guards of the plans that the plans need: sign_pdf is given pages there are.
Planned == Tool = "sign_pdf" => SignedPages \subseteq 1 .. call.pages

\* How many pages a set of them is.
LEMMA CountPages ==
    ASSUME NEW n \in Nat, NEW S \in SUBSET (1 .. n)
    PROVE  Cardinality(S) \in Nat
  BY IntervalIsFinite, FS_CardinalityType

\* The first document.
LEMMA FirstDocument ==
    ASSUME call \in Calls, Tool \in PageTool, docs # <<>>
    PROVE  total \in Nat /\ docs[1] \in Seq(Nat) /\ docs[1] = [p \in 1 .. total |-> docs[1][p]]
  <1>1. docs \in Seq(Seq(Nat))
    BY PagesAssumption DEF Tool, docs
  <1>2. 1 \in 1 .. Len(docs)
    BY <1>1
  <1>3. docs[1] \in Seq(Nat)
    BY <1>1, <1>2
  <1>. QED BY <1>3 DEF total, Total

LEMMA KeptAreCounted ==
    ASSUME call \in Calls,
           Tool \in {"organize_pdf", "remove_pages", "extract_pages", "resize_pdf"}
    PROVE  total \in Nat /\ KeptPages \in SUBSET (1 .. total) /\ Cardinality(KeptPages) \in Nat
  <1>1. total \in Nat
    <2>1. Tool \in PageTool /\ docs # <<>>
      BY PagesAssumption DEF Tool, PageTool, PageDocs, docs
    <2>. QED BY <2>1, FirstDocument
  <1>2. KeptPages \in SUBSET (1 .. total)
    BY DEF KeptPages, Organized, Remaining, Named, Resizable
  <1>. QED BY <1>1, <1>2, CountPages

LEMMA JoinTwo ==
    ASSUME NEW x, NEW y
    PROVE  <<x>> \o <<y>> = <<x, y>>
  <1> DEFINE S == {x, y}
             joined == <<x>> \o <<y>>
             both == <<x, y>>
  <1>1. <<x>> \in Seq(S) /\ <<y>> \in Seq(S) /\ both \in Seq(S)
    OBVIOUS
  <1>2. joined \in Seq(S) /\ Len(joined) = 2 /\ Len(both) = 2
    BY <1>1
  <1>3. \A k \in 1 .. 2 : joined[k] = both[k]
    BY <1>1
  <1> HIDE DEF S, joined, both
  <1>4. joined = both
    BY <1>1, <1>2, <1>3, SeqEqual
  <1>. QED BY <1>4 DEF joined, both

LEMMA StampsAreListed ==
    ASSUME call \in Calls, Tool = "add_header_footer"
    PROVE  /\ call.pages \in Nat /\ Len(Stamps) \in {0, 1, 2}
           /\ call.pages * Len(Stamps) \in Nat
           /\ \A k \in 1 .. Len(Stamps) :
                (Stamps[k] = "header" /\ call.header) \/ (Stamps[k] = "footer" /\ call.footer)
           /\ call.header => \E k \in 1 .. Len(Stamps) : Stamps[k] = "header"
           /\ call.footer => \E k \in 1 .. Len(Stamps) : Stamps[k] = "footer"
           /\ Len(Stamps) = 2 => Stamps = <<"header", "footer">>
  <1>1. call.pages \in Nat /\ call.header \in BOOLEAN /\ call.footer \in BOOLEAN
    BY EditsAssumption DEF Tool, EditTool, Forgiving
  <1>2. Stamps \in {<<>>, <<"header">>, <<"footer">>, <<"header", "footer">>}
        /\ (Stamps \in {<<"header">>, <<"header", "footer">>} <=> call.header)
        /\ (Stamps \in {<<"footer">>, <<"header", "footer">>} <=> call.footer)
    <2>1. CASE call.header /\ call.footer
      <3>1. <<"header">> \o <<"footer">> = <<"header", "footer">>
        BY JoinTwo
      <3>2. Stamps = <<"header">> \o <<"footer">>
        BY <2>1 DEF Stamps
      <3>. QED BY <2>1, <3>1, <3>2
    <2>2. CASE call.header /\ ~call.footer
      BY <2>2 DEF Stamps
    <2>3. CASE ~call.header /\ call.footer
      BY <2>3 DEF Stamps
    <2>4. CASE ~call.header /\ ~call.footer
      BY <2>4 DEF Stamps
    <2>. QED BY <2>1, <2>2, <2>3, <2>4
  <1>3. CASE Stamps = <<>>
    <2>1. ~call.header /\ ~call.footer /\ Len(Stamps) = 0
      BY <1>2, <1>3
    <2>. QED BY <1>1, <2>1
  <1>4. CASE Stamps = <<"header">>
    <2>1. Len(Stamps) = 1 /\ Stamps[1] = "header" /\ call.header /\ ~call.footer
      BY <1>2, <1>4
    <2>2. call.pages * Len(Stamps) \in Nat
      BY <1>1, <2>1
    <2>3. \A k \in 1 .. Len(Stamps) : Stamps[k] = "header"
      BY <2>1
    <2>4. 1 \in 1 .. Len(Stamps)
      BY <2>1
    <2>. QED BY <1>1, <2>1, <2>2, <2>3, <2>4
  <1>5. CASE Stamps = <<"footer">>
    <2>1. Len(Stamps) = 1 /\ Stamps[1] = "footer" /\ call.footer /\ ~call.header
      BY <1>2, <1>5
    <2>2. call.pages * Len(Stamps) \in Nat
      BY <1>1, <2>1
    <2>3. \A k \in 1 .. Len(Stamps) : Stamps[k] = "footer"
      BY <2>1
    <2>4. 1 \in 1 .. Len(Stamps)
      BY <2>1
    <2>. QED BY <1>1, <2>1, <2>2, <2>3, <2>4
  <1>6. CASE Stamps = <<"header", "footer">>
    BY <1>1, <1>2, <1>6
  <1>. QED BY <1>2, <1>3, <1>4, <1>5, <1>6

\* The operations of edit_pdf.
LEMMA OperationsListed ==
    ASSUME call \in Calls, Tool = "edit_pdf"
    PROVE  /\ call.ops \in Seq(Operation) /\ Len(call.ops) \in Nat
           /\ DOMAIN call.ops = 1 .. Len(call.ops)
           /\ \A k \in DOMAIN call.ops : call.ops[k] \in Operation
  BY OperationsAssumption DEF Tool

LEMMA KindsListed ==
    ASSUME call \in Calls, Tool = "edit_pdf", NEW k \in 1 .. 4
    PROVE  LET S == {i \in DOMAIN call.ops : call.ops[i].does = Kinds[k]}
           IN  /\ OfKind(k) \in Seq(Nat)
               /\ \A e \in 1 .. Len(OfKind(k)) : OfKind(k)[e] \in S
               /\ \A i \in S : \E e \in 1 .. Len(OfKind(k)) : OfKind(k)[e] = i
               /\ \A i, j \in 1 .. Len(OfKind(k)) : i < j => OfKind(k)[i] < OfKind(k)[j]
  <1> DEFINE S == {i \in DOMAIN call.ops : call.ops[i].does = Kinds[k]}
  <1>1. S \in SUBSET (1 .. Len(call.ops)) /\ Len(call.ops) \in Nat
    BY OperationsListed
  <1>2. S \subseteq Nat /\ IsFiniteSet(S)
    BY <1>1, IntervalIsFinite
  <1>3. OfKind(k) = Ascending(S)
    BY DEF OfKind
  <1> HIDE DEF S
  <1>4. /\ Ascending(S) \in [1 .. Cardinality(S) -> S] /\ Ascending(S) \in Seq(Nat)
        /\ Len(Ascending(S)) = Cardinality(S)
        /\ \A n \in S : \E e \in 1 .. Cardinality(S) : Ascending(S)[e] = n
        /\ \A i, j \in 1 .. Cardinality(S) : i < j => Ascending(S)[i] < Ascending(S)[j]
    BY <1>2, AscendingLists
  <1>5. /\ OfKind(k) \in Seq(Nat)
        /\ \A e \in 1 .. Len(OfKind(k)) : OfKind(k)[e] \in S
        /\ \A i \in S : \E e \in 1 .. Len(OfKind(k)) : OfKind(k)[e] = i
        /\ \A i, j \in 1 .. Len(OfKind(k)) : i < j => OfKind(k)[i] < OfKind(k)[j]
    BY <1>3, <1>4
  <1>. QED BY <1>5 DEF S

LEMMA PlanIsListed ==
    ASSUME call \in Calls, Tool \in UnitWise, Planned
    PROVE  Listed
  <1> SUFFICES ASSUME TRUE PROVE \E n \in Nat : Plan = [k \in 1 .. n |-> Plan[k]]
    BY ListOf DEF Listed
  <1>1. CASE Tool \in {"organize_pdf", "remove_pages", "extract_pages", "resize_pdf"}
    <2> DEFINE n == Cardinality(KeptPages)
    <2>1. n \in Nat
      BY <1>1, KeptAreCounted
    <2>2. Plan = [k \in 1 .. n |-> <<InOrder(KeptPages)[k]>>]
      BY <1>1 DEF Plan, OneByOne, InOrder
    <2>. QED BY <2>1, <2>2
  <1>2. CASE Tool = "pdf_to_html"
    <2>1. total \in Nat
      <3>1. Tool \in PageTool /\ docs # <<>>
        BY <1>2, PagesAssumption DEF Tool, PageTool, PageDocs, docs
      <3>. QED BY <3>1, FirstDocument
    <2>2. Plan = [k \in 1 .. total |-> <<PagesOfDoc(1)[k]>>]
      BY <1>2 DEF Plan, OneByOne, PagesOfDoc, total
    <2>. QED BY <2>1, <2>2
  <1>3. CASE Tool \in {"rotate_pdf", "sign_pdf"}
    <2> DEFINE S == IF Tool = "sign_pdf" THEN SignedPages ELSE call.named
               n == Cardinality(S)
    <2>1. call.pages \in Nat /\ S \in SUBSET (1 .. call.pages)
      BY <1>3, EditsAssumption DEF Tool, EditTool, Planned
    <2>2. n \in Nat
      BY <2>1, CountPages
    <2>3. CASE Tool = "rotate_pdf"
      <3>1. Plan = [k \in 1 .. n |-> Edit(Ascending(S)[k], "rotate", call.angle)]
        BY <2>3 DEF Plan, OnPages
      <3>. QED BY <2>2, <3>1
    <2>4. CASE Tool = "sign_pdf"
      <3>1. Plan = [k \in 1 .. n |-> Edit(Ascending(S)[k], "sign", call.image)]
        BY <2>4 DEF Plan, OnPages
      <3>. QED BY <2>2, <3>1
    <2>. QED BY <1>3, <2>3, <2>4
  <1>4. CASE Tool \in {"watermark_pdf", "page_numbers", "crop_pdf", "redact_pdf"}
    <2>1. call.pages \in Nat
      BY <1>4, EditsAssumption DEF Tool, EditTool
    <2>2. Plan = [k \in 1 .. call.pages |-> Plan[k]]
      BY <1>4 DEF Plan, OnEvery
    <2>. QED BY <2>1, <2>2
  <1>5. CASE Tool \in {"protect_pdf", "unlock_pdf", "flatten_pdf"}
    <2>1. \A x : <<x>> = [k \in 1 .. 1 |-> <<x>>[k]]
      OBVIOUS
    <2>2. \E x : Plan = <<x>>
      BY <1>5 DEF Plan
    <2>. QED BY <2>1, <2>2
  <1>6. CASE Tool = "remove_metadata"
    <2>1. \A x, y : <<x, y>> = [k \in 1 .. 2 |-> <<x, y>>[k]]
      OBVIOUS
    <2>2. \E x, y : Plan = <<x, y>>
      BY <1>6 DEF Plan
    <2>. QED BY <2>1, <2>2
  <1>7. CASE Tool = "add_header_footer"
    <2> DEFINE n == call.pages * Len(Stamps)
    <2>1. n \in Nat
      BY <1>7, StampsAreListed
    <2>2. StampPlan = [k \in 1 .. n |-> StampPlan[k]]
      BY DEF StampPlan
    <2>3. Plan = StampPlan
      BY <1>7 DEF Plan
    <2>. QED BY <2>1, <2>2, <2>3
  <1>8. CASE Tool = "fill_form"
    <2> DEFINE S == {k \in DOMAIN call.widgets : call.widgets[k].of \in call.fields}
               n == Cardinality(S)
    <2>1. S \in SUBSET (1 .. Len(call.widgets)) /\ Len(call.widgets) \in Nat
      BY <1>8, EditsAssumption DEF Tool
    <2>2. n \in Nat
      BY <2>1, CountPages
    <2>3. Plan = [k \in 1 .. n |-> call.widgets[Ascending(S)[k]]]
      BY <1>8 DEF Plan, At
    <2>. QED BY <2>2, <2>3
  <1>9. CASE Tool = "edit_pdf"
    <2>1. OfKind(1) \in Seq(Nat) /\ OfKind(2) \in Seq(Nat) /\ OfKind(3) \in Seq(Nat)
          /\ OfKind(4) \in Seq(Nat)
      BY <1>9, KindsListed
    <2>2. InTurn \in Seq(Nat)
      BY <2>1 DEF InTurn
    <2>3. Len(InTurn) \in Nat /\ DOMAIN InTurn = 1 .. Len(InTurn)
      BY <2>2
    <2>4. Plan = [e \in 1 .. Len(InTurn) |-> call.ops[InTurn[e]]]
      BY <1>9, <2>3 DEF Plan, ByKind
    <2>. QED BY <2>3, <2>4
  <1>10. CASE Tool = "edit_word"
    <2>1. Plan \in Seq([does : {"run", "split"}, of : Nat])
      BY <1>10, HitsAssumption DEF Plan, Tool
    <2>2. Len(Plan) \in Nat /\ Plan = [k \in 1 .. Len(Plan) |-> Plan[k]]
      BY <2>1
    <2>. QED BY <2>2
  <1>. QED BY <1>1, <1>2, <1>3, <1>4, <1>5, <1>6, <1>7, <1>8, <1>9, <1>10
       DEF UnitWise, EditTool, Forgiving

\* What the tools that work unit by unit have in memory and at output_path.
UnitInv ==
    /\ call \in Calls
    /\ pc = "check" => built = <<>>
    /\ Tool \in UnitWise /\ pc = "work" => Planned /\ Threaded(built, todo)
    /\ Tool \in UnitWise /\ file.state = "closed" =>
          Planned /\ Threaded(Holds, <<>>) /\ (Tool \in PageDocs => Holds # <<>>)

\* The kinds of steps there are, as the invariant sees them.
LEMMA UnitBegins ==
    ASSUME UnitInv, Tool \in UnitWise, Planned, pc = "check",
           call' = call, pc' = "work", built' = built, todo' = Plan, file' = file
    PROVE  UnitInv'
  <1>1. Threaded(<<>>, Plan)
    BY PlanIsListed, ThreadStarts DEF UnitInv
  <1>2. (Planned' <=> Planned) /\ built' = <<>> /\ Holds' = Holds
    BY DEF Planned, SignedPages, Tool, UnitInv, Holds
  <1>3. Threaded(built', todo')
    BY <1>1, <1>2
  <1>. QED BY <1>2, <1>3, SamePlan DEF UnitInv

LEMMA UnitIsMade ==
    ASSUME UnitInv, Tool \in UnitWise, pc = "work", todo # <<>>, MadeOf(Head(todo)),
           call' = call, pc' = "work", todo' = Tail(todo),
           built' = built \o <<EntryOf(Head(todo))>>, file' = file
    PROVE  UnitInv'
  <1>1. Threaded(built \o <<EntryOf(Head(todo))>>, Tail(todo))
    BY PlanIsListed, ThreadGrows DEF UnitInv
  <1>2. (Planned' <=> Planned) /\ Holds' = Holds
    BY DEF Planned, SignedPages, Tool, UnitInv, Holds
  <1>3. Threaded(built', todo')
    BY <1>1
  <1>. QED BY <1>2, <1>3, SamePlan DEF UnitInv

LEMMA UnitIsLeftOut ==
    ASSUME UnitInv, Tool \in UnitWise, pc = "work", todo # <<>>, LeftOut(Head(todo)),
           call' = call, pc' = "work", todo' = Tail(todo), built' = built \o <<>>, file' = file
    PROVE  UnitInv'
  <1>1. Threaded(built, Tail(todo))
    BY PlanIsListed, ThreadSkips DEF UnitInv
  <1>2. (Planned' <=> Planned) /\ Holds' = Holds
    BY DEF Planned, SignedPages, Tool, UnitInv, Holds
  <1>3. built' = built
    BY DEF UnitInv, Threaded
  <1>4. Threaded(built', todo')
    BY <1>1, <1>3
  <1>. QED BY <1>2, <1>4, SamePlan DEF UnitInv

LEMMA UnitsAreDone ==
    ASSUME UnitInv, Tool \in UnitWise, pc = "work", todo = <<>>, call' = call,
           pc' \in Settled, file' = Closed(built), Tool \in PageDocs => built # <<>>
    PROVE  UnitInv'
  <1>1. Threaded(built, <<>>) /\ Planned
    BY DEF UnitInv
  <1>2. (Planned' <=> Planned) /\ Holds' = built
    BY DEF Planned, SignedPages, Tool, Holds, Closed
  <1>3. Threaded(Holds', <<>>)
    BY <1>1, <1>2
  <1>. QED BY <1>1, <1>2, <1>3, SamePlan DEF UnitInv, Settled

LEMMA UnitsEnd ==
    ASSUME UnitInv, call' = call, pc' \in Settled, file' = file \/ file'.state # "closed"
    PROVE  UnitInv'
  <1>1. Planned' <=> Planned
    BY DEF Planned, SignedPages, Tool
  <1>. QED BY <1>1, SamePlan DEF UnitInv, Settled, Holds

LEMMA UnitsOfOthers ==
    ASSUME UnitInv, call' = call, pc' # "check", Tool \notin UnitWise
    PROVE  UnitInv'
  BY SamePlan DEF UnitInv

LEMMA EditUnits ==
    ASSUME UnitInv, EditNext
    PROVE  UnitInv'
  <1>1. Tool \in EditTool /\ Tool \in UnitWise /\ Tool \notin PageDocs /\ Tool # "edit_word"
    BY EditSteps DEF UnitWise, EditTool, Forgiving, PageDocs
  <1>2. CASE EditPlan
    <2>1. /\ call' = call /\ pc = "check" /\ pc' = "work" /\ built' = built /\ file' = file
          /\ todo' = Plan /\ Planned
      BY <1>2 DEF EditPlan, RotatePdf, WatermarkPdf, PageNumbers, CropPdf, SignPdf,
           ProtectPdf, UnlockPdf, RemoveMetadata, AddHeaderFooter, FillForm, FlattenPdf,
           RedactPdf, EditPdf, Editable, Start, Plan, Planned
    <2>. QED BY <1>1, <2>1, UnitBegins
  <1>3. CASE MakeEdit \/ CropPage
    <2>1. /\ pc = "work" /\ todo # <<>> /\ call' = call /\ pc' = "work" /\ todo' = Tail(todo)
          /\ built' = built \o <<Head(todo)>> /\ file' = file
          /\ Tool \in Plain \cup {"crop_pdf"} /\ (Tool \in Forgiving => ~Refused(Head(todo)))
      BY <1>3 DEF MakeEdit, CropPage, Forgiving, Pass, InMemory
    <2>2. EntryOf(Head(todo)) = Head(todo) /\ MadeOf(Head(todo))
      BY <1>1, <2>1 DEF EntryOf, MadeOf, Plain
    <2>. QED BY <1>1, <2>1, <2>2, UnitIsMade
  <1>4. CASE LeaveOut
    <2>1. /\ pc = "work" /\ todo # <<>> /\ call' = call /\ pc' = "work" /\ todo' = Tail(todo)
          /\ built' = built \o <<>> /\ file' = file /\ LeftOut(Head(todo))
      BY <1>4 DEF LeaveOut, Pass, LeftOut, Forgiving
    <2>. QED BY <1>1, <2>1, UnitIsLeftOut
  <1>5. CASE RedactPage
    <2>1. /\ pc = "work" /\ todo # <<>> /\ call' = call /\ pc' = "work" /\ todo' = Tail(todo)
          /\ built' = built \o <<EntryOf(Head(todo))>> /\ file' = file /\ MadeOf(Head(todo))
      BY <1>5 DEF RedactPage, Pass, EntryOf, MadeOf, Forgiving, InMemory
    <2>. QED BY <1>1, <2>1, UnitIsMade
  <1>6. CASE DoOperation
    <2>1. /\ pc = "work" /\ todo # <<>> /\ call' = call /\ pc' = "work" /\ todo' = Tail(todo)
          /\ built' = built \o <<EntryOf(Head(todo))>> /\ file' = file /\ MadeOf(Head(todo))
      BY <1>6 DEF DoOperation, Blank, Pass, EntryOf, MadeOf, Forgiving, InMemory
    <2>. QED BY <1>1, <2>1, UnitIsMade
  <1>7. CASE SkipOperation
    <2>1. /\ pc = "work" /\ todo # <<>> /\ call' = call /\ pc' = "work" /\ todo' = Tail(todo)
          /\ built' = built \o <<>> /\ file' = file /\ LeftOut(Head(todo))
      BY <1>7 DEF SkipOperation, Blank, Pass, LeftOut, Forgiving
    <2>. QED BY <1>1, <2>1, UnitIsLeftOut
  <1>8. CASE FinishEdits
    <2>1. pc = "work" /\ todo = <<>> /\ call' = call /\ pc' \in Settled /\ file' = Closed(built)
      BY <1>8 DEF FinishEdits, Finish, Return, Settled
    <2>. QED BY <1>1, <2>1, UnitsAreDone
  <1>9. CASE BreakEdits \/ FailEdits \/ RefuseEdits
    <2>1. call' = call /\ pc' \in Settled /\ (file' = file \/ file'.state # "closed")
      BY <1>9, TornIsOpen DEF BreakEdits, FailEdits, RefuseEdits, Break, FailToWrite, Refuse,
                              Settled
    <2>. QED BY <2>1, UnitsEnd
  <1>. QED BY <1>2, <1>3, <1>4, <1>5, <1>6, <1>7, <1>8, <1>9 DEF EditNext

LEMMA PageUnits ==
    ASSUME UnitInv, PageNext, Tool \in UnitWise
    PROVE  UnitInv'
  <1>1. /\ Tool \in {"organize_pdf", "remove_pages", "extract_pages", "resize_pdf", "pdf_to_html"}
        /\ Tool \in PageDocs
    BY PageSteps DEF UnitWise, EditTool, Forgiving, PageTool, PageDocs, PageZips
  <1>2. CASE PagePlan
    <2>1. /\ call' = call /\ pc = "check" /\ pc' = "work" /\ built' = built /\ file' = file
          /\ todo' = Plan /\ Planned
      BY <1>1, <1>2
         DEF PagePlan, MergePdf, SplitPdf, OrganizePdf, RemovePages, ExtractPages,
           SplitByBookmarks, SplitBySize, AlternateMix, ResizePdf, PdfToImage, PdfToHtml,
           PdfToPpt, PdfToExcel, ComparePdf, Is, Start, Plan, KeptPages, Planned
    <2>. QED BY <2>1, UnitBegins
  <1>3. CASE PageLoop
    <2>1. /\ pc = "work" /\ todo # <<>> /\ call' = call /\ pc' = "work" /\ todo' = Tail(todo)
          /\ built' = built \o EntriesOf(Head(todo)) /\ file' = file
      BY <1>3 DEF PageLoop, Pass, InMemory
    <2>2. EntriesOf(Head(todo)) = <<EntryOf(Head(todo))>> /\ MadeOf(Head(todo))
      BY <1>1 DEF EntriesOf, EntryOf, MadeOf, Forgiving
    <2>. QED BY <2>1, <2>2, UnitIsMade
  <1>4. CASE FinishPages
    <2>1. pc = "work" /\ todo = <<>> /\ call' = call /\ pc' \in Settled /\ file' = Closed(built)
          /\ built # <<>>
      BY <1>1, <1>4 DEF FinishPages, Completed, Finish, Return, Settled
    <2>. QED BY <2>1, UnitsAreDone
  <1>5. CASE BreakPages \/ FailPages \/ Refuse
    <2>1. call' = call /\ pc' \in Settled /\ (file' = file \/ file'.state # "closed")
      BY <1>1, <1>5, TornIsOpen
         DEF BreakPages, PageZips, FailPages, Break, FailToWrite, Refuse, Settled
    <2>. QED BY <2>1, UnitsEnd
  <1>6. ~ZipLoop /\ ~SizeLoop /\ ~SlideLoop
    BY <1>1 DEF ZipLoop, SizeLoop, SlideLoop, PageZips
  <1>. QED BY <1>2, <1>3, <1>4, <1>5, <1>6 DEF PageNext

LEMMA OfficeUnits ==
    ASSUME UnitInv, OfficeNext, Tool = "edit_word"
    PROVE  UnitInv'
  <1>1. Tool \in UnitWise /\ Tool \notin PageDocs
    BY DEF UnitWise, PageDocs
  <1>2. /\ Tool \notin Converted \cup Rendered \cup Counted \cup Slimmed \cup Unlocked \cup Protected
        /\ Tool \notin {"compress_excel", "repair_excel"} /\ ~ByLibre
    BY DEF Counted, FromWord, Converted, Rendered, Slimmed, Unlocked, Protected, ByLibre
  <1>3. ASSUME Attempting PROVE FALSE
    <2>1. Threaded(built, todo) /\ todo # <<>> /\ Plan = call.hits
      BY <1>1, <1>3 DEF Attempting, UnitInv, Plan
    <2> DEFINE H == [does : {"run", "split"}, of : Nat]
    <2>2. Plan \in Seq(H)
      BY <2>1, HitsAssumption DEF UnitInv, Tool
    <2>3. Head(todo) \in {Plan[k] : k \in 1 .. Len(Plan)}
      BY <2>1, TailIs DEF Threaded
    <2> HIDE DEF H
    <2>4. \A k \in 1 .. Len(Plan) : Plan[k] \in H
      BY <2>2
    <2>5. Head(todo) \in H
      BY <2>3, <2>4
    <2>. QED BY <1>3, <2>5 DEF Attempting, H
  <1>4. CASE EditWord
    <2>1. /\ call' = call /\ pc = "check" /\ pc' = "work" /\ built' = built /\ file' = file
          /\ todo' = Plan /\ Planned
      BY <1>4 DEF EditWord, Requested, Start, Plan, Planned
    <2>. QED BY <1>1, <2>1, UnitBegins
  <1>5. CASE ReplaceHit
    <2>1. /\ pc = "work" /\ todo # <<>> /\ call' = call /\ pc' = "work" /\ todo' = Tail(todo)
          /\ built' = built \o (IF Head(todo).does = "run" THEN <<Head(todo)>> ELSE <<>>)
          /\ file' = file
      BY <1>5 DEF ReplaceHit, Pass, InMemory
    <2>2. CASE Head(todo).does = "run"
      <3>1. EntryOf(Head(todo)) = Head(todo) /\ MadeOf(Head(todo))
        BY <2>2 DEF EntryOf, MadeOf, Forgiving
      <3>. QED BY <1>1, <2>1, <2>2, <3>1, UnitIsMade
    <2>3. CASE Head(todo).does # "run"
      <3>1. LeftOut(Head(todo))
        BY <2>3 DEF LeftOut, Forgiving
      <3>. QED BY <1>1, <2>1, <2>3, <3>1, UnitIsLeftOut
    <2>. QED BY <2>2, <2>3
  <1>6. CASE FinishOffice \/ FailOffice
    <2>1. call' = call /\ pc' \in Settled
      BY <1>6 DEF FinishOffice, FailOffice, Finish, Return, FailToWrite, Settled
    <2>2. \/ pc = "work" /\ todo = <<>> /\ file' = Closed(built)
          \/ file' = file \/ file'.state # "closed"
      BY <1>6, TornIsOpen DEF FinishOffice, FailOffice, Finish, Return, FailToWrite
    <2>. QED BY <1>1, <2>1, <2>2, UnitsAreDone, UnitsEnd
  <1>7. CASE BreakOffice \/ Refuse
    <2>1. call' = call /\ pc' \in Settled /\ file' = file
      BY <1>2, <1>7 DEF BreakOffice, Zipping, Archives, Ciphering, Break, Refuse, Settled
    <2>. QED BY <2>1, UnitsEnd
  <1>. QED BY <1>2, <1>3, <1>4, <1>5, <1>6, <1>7
       DEF OfficeNext, BeginConversion, Convert, RetryPlain, ConversionFails, ConversionRaises,
           RenderPage, BeginParts, WritePart, BeginSlimming, Unpack, UnpackFails, Unpacked,
           SlimImage, CompressExcel, TrimBook, TrimFails, Trimming, BeginCipher, Cipher,
           RepairExcel, PassThrough, RoundTrip, RoundTripping, RoundTripFails, Requested,
           OfficeTool

LEMMA UnitInvariance == Spec => []UnitInv
  <1>1. Init => UnitInv
    BY DEF Init, UnitInv, NoFile, StaleFile
  <1>2. UnitInv /\ [Next]_vars => UnitInv'
    <2> SUFFICES ASSUME UnitInv, [Next]_vars PROVE UnitInv'
      OBVIOUS
    <2>1. CASE Next /\ Tool \in EditTool
      <3>1. EditNext
        BY <2>1, PageSteps, OptimizeSteps, ImageSteps, OfficeSteps, TextSteps, OneFamily DEF Next
      <3>. QED BY <3>1, EditUnits
    <2>2. CASE Next /\ Tool \in PageTool /\ Tool \in UnitWise
      <3>1. PageNext
        BY <2>2, EditSteps, OptimizeSteps, ImageSteps, OfficeSteps, TextSteps, OneFamily DEF Next
      <3>. QED BY <2>2, <3>1, PageUnits
    <2>3. CASE Next /\ Tool = "edit_word"
      <3>1. Tool \in OfficeTool
        BY <2>3 DEF OfficeTool
      <3>2. OfficeNext
        BY <2>3, <3>1, PageSteps, EditSteps, OptimizeSteps, ImageSteps, TextSteps, OneFamily
           DEF Next
      <3>. QED BY <2>3, <3>2, OfficeUnits
    <2>4. CASE Next /\ Tool \notin UnitWise
      BY <2>4, NextKeepsCall, UnitsOfOthers
    <2>5. CASE UNCHANGED vars
      <3>1. Planned' <=> Planned
        BY <2>5 DEF vars, Planned, SignedPages, Tool
      <3>. QED BY <2>5, <3>1, SamePlan DEF vars, UnitInv, Holds
    <2>. QED BY <2>1, <2>2, <2>3, <2>4, <2>5
         DEF UnitWise, PageTool, PageDocs
  <1>. QED BY <1>1, <1>2, PTL DEF Spec

\* What is complete, if nothing is to be left out, is the plan.
LEMMA AllIsDone ==
    ASSUME UnitInv, Tool \in UnitWise, file.state = "closed",
           \A k \in 1 .. Len(Plan) : ~LeftOut(Plan[k])
    PROVE  /\ Len(Plan) \in Nat /\ Len(Holds) = Len(Plan) /\ DOMAIN Holds = 1 .. Len(Plan)
           /\ \A k \in 1 .. Len(Plan) : Holds[k] = EntryOf(Plan[k])
  <1>1. Listed /\ Threaded(Holds, <<>>)
    BY PlanIsListed DEF UnitInv
  <1>. QED BY <1>1, ThreadEnds DEF Listed

LEMMA PlanIsDone ==
    ASSUME UnitInv, Tool \in UnitWise, file.state = "closed",
           Tool \notin Forgiving \cup {"edit_pdf", "edit_word"}
    PROVE  /\ Len(Plan) \in Nat /\ Len(Holds) = Len(Plan) /\ DOMAIN Holds = 1 .. Len(Plan)
           /\ \A k \in 1 .. Len(Plan) : Holds[k] = EntryOf(Plan[k])
  <1>1. \A k \in 1 .. Len(Plan) : ~LeftOut(Plan[k])
    BY DEF LeftOut
  <1>. QED BY <1>1, AllIsDone

LEMMA EveryPageIsDone ==
    ASSUME UnitInv, file.state = "closed",
           Tool \in {"watermark_pdf", "page_numbers", "crop_pdf", "redact_pdf"}
    PROVE  /\ EveryPage /\ DOMAIN Holds = 1 .. call.pages
           /\ \A k \in 1 .. call.pages : Holds[k] = EntryOf(Plan[k]) /\ Plan[k].page = k
  <1>1. Tool \in UnitWise /\ Tool \notin Forgiving \cup {"edit_pdf", "edit_word"}
        /\ Tool \in EditTool
    BY DEF UnitWise, EditTool, Forgiving
  <1>2. call.pages \in Nat
    BY <1>1, EditsAssumption DEF UnitInv, Tool
  <1>3. Plan = [p \in 1 .. call.pages |-> Plan[p]] /\ \A p \in 1 .. call.pages : Plan[p].page = p
    BY DEF Plan, OnEvery, Edit
  <1>4. Len(Plan) = call.pages
    BY <1>2, <1>3, ListOf
  <1>5. DOMAIN Holds = 1 .. call.pages /\ \A k \in 1 .. call.pages : Holds[k] = EntryOf(Plan[k])
    BY <1>1, <1>4, PlanIsDone
  <1>6. \A k \in 1 .. call.pages : EntryOf(Plan[k]).page = k
    BY <1>3 DEF EntryOf, Edit
  <1>7. EveryPage
    <2>1. \A k \in 1 .. call.pages : Holds[k].page = k
      BY <1>5, <1>6
    <2>2. {Holds[k].page : k \in DOMAIN Holds} = 1 .. call.pages
      BY <1>5, <2>1
    <2>. QED BY <1>5, <2>1, <2>2 DEF EveryPage, OnceOnEach
  <1>. QED BY <1>3, <1>5, <1>7

\* The pages of a set, in their order.
LEMMA PagesAreDone ==
    ASSUME UnitInv, file.state = "closed", Tool \in {"rotate_pdf", "sign_pdf"}
    PROVE  OnceOnEach(IF Tool = "sign_pdf" THEN SignedPages ELSE call.named)
  <1> DEFINE S == IF Tool = "sign_pdf" THEN SignedPages ELSE call.named
             n == Cardinality(S)
  <1>1. Tool \in UnitWise /\ Tool \notin Forgiving \cup {"edit_pdf", "edit_word"}
        /\ Tool \in EditTool /\ call \in Calls /\ Planned
    BY DEF UnitWise, EditTool, Forgiving, UnitInv
  <1>2. call.pages \in Nat /\ S \in SUBSET (1 .. call.pages)
    BY <1>1, EditsAssumption DEF Tool, Planned
  <1>3. S \subseteq Nat /\ IsFiniteSet(S)
    BY <1>2, IntervalIsFinite
  <1>4. /\ n \in Nat /\ Ascending(S) \in [1 .. n -> S]
        /\ \A p \in S : \E k \in 1 .. n : Ascending(S)[k] = p
        /\ \A i, j \in 1 .. n : i < j => Ascending(S)[i] < Ascending(S)[j]
    BY <1>3, AscendingLists
  <1>5. Plan = [k \in 1 .. n |-> Plan[k]] /\ \A k \in 1 .. n : Plan[k].page = Ascending(S)[k]
    <2>1. CASE Tool = "rotate_pdf"
      BY <2>1 DEF Plan, OnPages, Edit
    <2>2. CASE Tool = "sign_pdf"
      BY <2>2 DEF Plan, OnPages, Edit
    <2>. QED BY <2>1, <2>2
  <1>6. Len(Plan) = n
    BY <1>4, <1>5, ListOf
  <1> HIDE DEF S, n
  <1>7. DOMAIN Holds = 1 .. n /\ \A k \in 1 .. n : Holds[k] = Plan[k]
    BY <1>1, <1>6, PlanIsDone DEF EntryOf
  <1>8. \A k \in 1 .. n : Holds[k].page = Ascending(S)[k]
    BY <1>5, <1>7
  <1>9. {Holds[k].page : k \in DOMAIN Holds} = S
    BY <1>4, <1>7, <1>8
  <1>10. \A i, j \in DOMAIN Holds : i < j => Holds[i].page < Holds[j].page
    BY <1>4, <1>7, <1>8
  <1>11. OnceOnEach(S)
    BY <1>9, <1>10 DEF OnceOnEach
  <1>. QED BY <1>11 DEF S

LEMMA RedactedIsDone ==
    ASSUME UnitInv, file.state = "closed", Tool = "redact_pdf"
    PROVE  RedactedAsAsked
  <1>1. /\ EveryPage /\ DOMAIN Holds = 1 .. call.pages
        /\ \A k \in 1 .. call.pages : Holds[k] = EntryOf(Plan[k])
    BY EveryPageIsDone
  <1>2. \A k \in 1 .. call.pages : Holds[k].of = Matched(Holds[k].page)
    <2> TAKE k \in 1 .. call.pages
    <2>1. Holds[k] = Edit(Plan[k].page, "redact", Matched(Plan[k].page))
      BY <1>1 DEF EntryOf
    <2>2. Holds[k].page = Plan[k].page /\ Holds[k].of = Matched(Plan[k].page)
      BY <2>1 DEF Edit
    <2>. QED BY <2>2
  <1>3. \A p : /\ Matched(p) \subseteq call.matches[p]
               /\ {m \in call.matches[p] : m.early \/ call.mode = "text"} \subseteq Matched(p)
    BY DEF Matched
  <1>. QED BY <1>1, <1>2, <1>3 DEF RedactedAsAsked

\* The tools that leave something out.
LEMMA SomeIsDone ==
    ASSUME UnitInv, Tool \in UnitWise, file.state = "closed"
    PROVE  /\ Listed /\ Len(Holds) \in Nat /\ DOMAIN Holds = 1 .. Len(Holds)
           /\ \E from \in [1 .. Len(Holds) -> 1 .. Len(Plan)] :
                /\ \A i, j \in 1 .. Len(Holds) : i < j => from[i] < from[j]
                /\ \A e \in 1 .. Len(Holds) :
                      Holds[e] = EntryOf(Plan[from[e]]) /\ MadeOf(Plan[from[e]])
                /\ \A k \in 1 .. Len(Plan) :
                      LeftOut(Plan[k]) \/ \E e \in 1 .. Len(Holds) : from[e] = k
  <1>1. Listed /\ Threaded(Holds, <<>>)
    BY PlanIsListed DEF UnitInv
  <1>. QED BY <1>1, ThreadEnds

LEMMA MetadataIsDone ==
    ASSUME UnitInv, file.state = "closed", Tool = "remove_metadata"
    PROVE  Cleared = IF call.xmp_stays THEN <<"info">> ELSE <<"info", "xmp">>
  <1>1. Tool \in UnitWise /\ Tool \in Forgiving
    BY DEF UnitWise, EditTool, Forgiving
  <1>2. Plan = <<Edit(0, "clear", "info"), Edit(0, "clear", "xmp")>>
    BY DEF Plan
  <1>3. Len(Plan) = 2 /\ Plan[1].of = "info" /\ Plan[2].of = "xmp"
    BY <1>2 DEF Edit
  <1>4. \A unit : /\ LeftOut(unit) <=> (unit.of = "xmp" /\ call.xmp_stays)
                  /\ MadeOf(unit) <=> ~(unit.of = "xmp" /\ call.xmp_stays)
                  /\ EntryOf(unit) = unit
    BY <1>1 DEF LeftOut, MadeOf, EntryOf, Refused
  <1>5. CASE ~call.xmp_stays
    <2>1. \A k \in 1 .. Len(Plan) : ~LeftOut(Plan[k])
      BY <1>4, <1>5
    <2>2. DOMAIN Holds = 1 .. 2 /\ \A k \in 1 .. 2 : Holds[k] = Plan[k]
      BY <1>1, <1>3, <1>4, <2>1, AllIsDone
    <2>3. Holds[1].of = "info" /\ Holds[2].of = "xmp"
      BY <1>3, <2>2
    <2>4. Cleared = [k \in 1 .. 2 |-> IF k = 1 THEN "info" ELSE "xmp"]
      BY <2>2, <2>3 DEF Cleared
    <2>5. [k \in 1 .. 2 |-> IF k = 1 THEN "info" ELSE "xmp"] = <<"info", "xmp">>
      OBVIOUS
    <2>. QED BY <1>5, <2>4, <2>5
  <1>6. CASE call.xmp_stays
    <2> DEFINE m == Len(Holds)
    <2>1. m \in Nat /\ DOMAIN Holds = 1 .. m
      BY <1>1, SomeIsDone
    <2>2. PICK from \in [1 .. m -> 1 .. Len(Plan)] :
            /\ \A i, j \in 1 .. m : i < j => from[i] < from[j]
            /\ \A e \in 1 .. m : Holds[e] = EntryOf(Plan[from[e]]) /\ MadeOf(Plan[from[e]])
            /\ \A k \in 1 .. Len(Plan) : LeftOut(Plan[k]) \/ \E e \in 1 .. m : from[e] = k
      BY <1>1, SomeIsDone
    <2> HIDE DEF m
    <2>3. \A e \in 1 .. m : from[e] = 1 /\ Holds[e].of = "info"
      <3> SUFFICES ASSUME NEW e \in 1 .. m PROVE from[e] = 1 /\ Holds[e].of = "info"
        OBVIOUS
      <3>1. from[e] \in 1 .. 2
        BY <1>3, <2>2
      <3>2. from[e] # 2
        BY <1>3, <1>4, <1>6, <2>2
      <3>3. from[e] = 1
        BY <3>1, <3>2
      <3>. QED BY <1>3, <1>4, <2>2, <3>3
    <2>4. ~LeftOut(Plan[1])
      BY <1>3, <1>4
    <2>5. \E e \in 1 .. m : from[e] = 1
      BY <1>3, <2>2, <2>4
    <2>6. ~(m >= 2)
      <3> SUFFICES ASSUME m >= 2 PROVE FALSE
        OBVIOUS
      <3>1. 1 \in 1 .. m /\ 2 \in 1 .. m
        BY <2>1
      <3>2. from[1] < from[2]
        BY <2>2, <3>1
      <3>3. from[1] = 1 /\ from[2] = 1
        BY <2>3, <3>1
      <3>. QED BY <3>2, <3>3
    <2>7. m = 1
      BY <2>1, <2>5, <2>6
    <2>8. Cleared = [k \in 1 .. 1 |-> "info"]
      BY <2>1, <2>3, <2>7 DEF Cleared
    <2>9. [k \in 1 .. 1 |-> "info"] = <<"info">>
      OBVIOUS
    <2>. QED BY <1>6, <2>8, <2>9
  <1>. QED BY <1>5, <1>6

LEMMA FilledIsDone ==
    ASSUME UnitInv, file.state = "closed", Tool = "fill_form"
    PROVE  FilledAsAsked
  <1> DEFINE S == {k \in DOMAIN call.widgets : call.widgets[k].of \in call.fields}
             n == Cardinality(S)
             m == Len(Holds)
  <1>1. Tool \in UnitWise /\ Tool \in Forgiving
    BY DEF UnitWise, EditTool, Forgiving
  <1>2. S \in SUBSET (1 .. Len(call.widgets)) /\ Len(call.widgets) \in Nat
    BY EditsAssumption DEF Tool, UnitInv
  <1>3. S \subseteq Nat /\ IsFiniteSet(S)
    BY <1>2, IntervalIsFinite
  <1>4. /\ n \in Nat /\ Ascending(S) \in [1 .. n -> S]
        /\ \A s \in S : \E k \in 1 .. n : Ascending(S)[k] = s
        /\ \A i, j \in 1 .. n : i < j => Ascending(S)[i] < Ascending(S)[j]
    BY <1>3, AscendingLists
  <1>5. Plan = [k \in 1 .. n |-> call.widgets[Ascending(S)[k]]]
    BY DEF Plan, At
  <1>6. Len(Plan) = n /\ \A k \in 1 .. n : Plan[k] = call.widgets[Ascending(S)[k]]
    BY <1>4, <1>5, ListOf
  <1>7. PICK from \in [1 .. m -> 1 .. Len(Plan)] :
          /\ \A i, j \in 1 .. m : i < j => from[i] < from[j]
          /\ \A e \in 1 .. m : Holds[e] = EntryOf(Plan[from[e]]) /\ MadeOf(Plan[from[e]])
          /\ \A k \in 1 .. Len(Plan) : LeftOut(Plan[k]) \/ \E e \in 1 .. m : from[e] = k
    BY <1>1, SomeIsDone
  <1>8. m \in Nat /\ DOMAIN Holds = 1 .. m
    BY <1>1, SomeIsDone
  <1> DEFINE asked == [e \in 1 .. m |-> Ascending(S)[from[e]]]
  <1>9. /\ \A s \in S : s \in DOMAIN call.widgets /\ call.widgets[s].of \in call.fields
        /\ \A s \in DOMAIN call.widgets : call.widgets[s].of \in call.fields => s \in S
    OBVIOUS
  <1> HIDE DEF S, n, m
  <1>10. \A e \in 1 .. m : from[e] \in 1 .. n /\ asked[e] = Ascending(S)[from[e]] /\ asked[e] \in S
    BY <1>4, <1>6, <1>7
  <1>11. \A i, j \in 1 .. m : i < j => asked[i] < asked[j]
    BY <1>4, <1>7, <1>10
  <1>12. \A i, j \in 1 .. m : i # j => asked[i] # asked[j]
    <2> SUFFICES ASSUME NEW i \in 1 .. m, NEW j \in 1 .. m, i # j PROVE asked[i] # asked[j]
      OBVIOUS
    <2>1. asked[i] \in Nat /\ asked[j] \in Nat
      BY <1>3, <1>10
    <2>2. i < j \/ j < i
      BY <1>8
    <2>. QED BY <1>11, <2>1, <2>2
  <1>13. \A e \in 1 .. m : Holds[e] = call.widgets[asked[e]] /\ Holds[e].of \in call.fields
    <2> TAKE e \in 1 .. m
    <2>1. EntryOf(Plan[from[e]]) = Plan[from[e]]
      BY DEF EntryOf
    <2>2. Holds[e] = call.widgets[asked[e]]
      BY <1>6, <1>7, <1>10, <2>1
    <2>. QED BY <1>9, <1>10, <2>2
  <1> DEFINE Open == {k \in DOMAIN call.widgets : ~call.widgets[k].blank}
  <1>14. \A unit : (MadeOf(unit) <=> ~unit.blank) /\ (LeftOut(unit) <=> unit.blank)
    BY <1>1 DEF MadeOf, LeftOut, Refused
  <1>15. asked \in [1 .. m -> Open]
    <2> SUFFICES ASSUME NEW e \in 1 .. m PROVE asked[e] \in Open
      OBVIOUS
    <2>1. asked[e] \in S /\ Plan[from[e]] = call.widgets[asked[e]]
      BY <1>6, <1>10
    <2>2. ~Plan[from[e]].blank
      BY <1>7, <1>14
    <2>. QED BY <1>9, <2>1, <2>2
  <1>16. \A k \in DOMAIN call.widgets :
            call.widgets[k].of \in call.fields /\ ~call.widgets[k].blank =>
                \E e \in DOMAIN Holds : asked[e] = k
    <2> SUFFICES ASSUME NEW k \in DOMAIN call.widgets, call.widgets[k].of \in call.fields,
                        ~call.widgets[k].blank
                 PROVE  \E e \in 1 .. m : asked[e] = k
      BY <1>8
    <2>1. PICK q \in 1 .. n : Ascending(S)[q] = k
      BY <1>4, <1>9
    <2>2. ~LeftOut(Plan[q])
      BY <1>6, <1>14, <2>1
    <2>3. PICK e \in 1 .. m : from[e] = q
      BY <1>6, <1>7, <2>2
    <2>. QED BY <1>10, <2>1, <2>3
  <1> HIDE DEF asked, Open
  <1>17. asked \in Asked(Open)
    BY <1>8, <1>12, <1>15 DEF Asked
  <1>. QED BY <1>8, <1>11, <1>13, <1>16, <1>17 DEF FilledAsAsked, Open

\* The tools with a plan of one edit.
LEMMA OneIsDone ==
    ASSUME UnitInv, file.state = "closed", Tool \in {"protect_pdf", "unlock_pdf", "flatten_pdf"}
    PROVE  Len(Holds) = 1
  <1>1. Tool \in UnitWise /\ Tool \notin Forgiving \cup {"edit_pdf", "edit_word"}
    BY DEF UnitWise, EditTool, Forgiving
  <1>2. \E x : Plan = <<x>>
    BY DEF Plan
  <1>3. Len(Plan) = 1
    BY <1>2
  <1>. QED BY <1>1, <1>3, PlanIsDone

\* The stamps of the plan are in order.
LEMMA StampsInOrder ==
    ASSUME call \in Calls, Tool = "add_header_footer"
    PROVE  LET n == call.pages * Len(Stamps)
           IN  /\ n \in Nat /\ StampPlan = [k \in 1 .. n |-> StampPlan[k]]
               /\ \A k \in 1 .. n :
                     <<StampPlan[k].page, StampPlan[k].of>> \in Stamped
               /\ \A s \in Stamped : \E k \in 1 .. n :
                     <<StampPlan[k].page, StampPlan[k].of>> = s
               /\ \A i, j \in 1 .. n : i < j =>
                     \/ StampPlan[i].page < StampPlan[j].page
                     \/ /\ StampPlan[i].page = StampPlan[j].page
                        /\ StampPlan[i].of = "header" /\ StampPlan[j].of = "footer"
  <1> DEFINE each == Len(Stamps)
             n == call.pages * each
             Page(k) == (k - 1) \div each + 1
             Turned(k) == ((k - 1) % each) + 1
  <1>1. /\ call.pages \in Nat /\ each \in {0, 1, 2} /\ n \in Nat
        /\ \A t \in 1 .. each :
             (Stamps[t] = "header" /\ call.header) \/ (Stamps[t] = "footer" /\ call.footer)
        /\ call.header => \E t \in 1 .. each : Stamps[t] = "header"
        /\ call.footer => \E t \in 1 .. each : Stamps[t] = "footer"
        /\ each = 2 => Stamps[1] = "header" /\ Stamps[2] = "footer"
    BY StampsAreListed
  <1>2. StampPlan = [k \in 1 .. n |-> Edit(Page(k), "stamp", Stamps[Turned(k)])]
    BY DEF StampPlan
  <1>3. \A k \in 1 .. n : StampPlan[k].page = Page(k) /\ StampPlan[k].of = Stamps[Turned(k)]
    BY <1>2 DEF Edit
  <1>4. \A k \in 1 .. n : Page(k) \in 1 .. call.pages /\ Turned(k) \in 1 .. each
    <2> SUFFICES ASSUME NEW k \in 1 .. n
                 PROVE  Page(k) \in 1 .. call.pages /\ Turned(k) \in 1 .. each
      OBVIOUS
    <2> HIDE DEF each
    <2>1. CASE each = 1
      BY <1>1, <2>1
    <2>2. CASE each = 2
      BY <1>1, <2>2
    <2>3. CASE each = 0
      BY <1>1, <2>3
    <2>. QED BY <1>1, <2>1, <2>2, <2>3
  <1>5. \A i, j \in 1 .. n : i < j =>
           Page(i) < Page(j)
             \/ (Page(i) = Page(j) /\ each = 2 /\ Turned(i) = 1 /\ Turned(j) = 2)
    <2> SUFFICES ASSUME NEW i \in 1 .. n, NEW j \in 1 .. n, i < j
                 PROVE  Page(i) < Page(j)
                          \/ (Page(i) = Page(j) /\ each = 2 /\ Turned(i) = 1 /\ Turned(j) = 2)
      OBVIOUS
    <2> HIDE DEF each
    <2>1. CASE each = 1
      BY <1>1, <2>1
    <2>2. CASE each = 2
      BY <1>1, <2>2
    <2>3. CASE each = 0
      BY <1>1, <2>3
    <2>. QED BY <1>1, <2>1, <2>2, <2>3
  <1>9. \A p \in 1 .. call.pages, t \in 1 .. each :
           \E k \in 1 .. n : Page(k) = p /\ Turned(k) = t
    <2> SUFFICES ASSUME NEW p \in 1 .. call.pages, NEW t \in 1 .. each
                 PROVE  \E k \in 1 .. n : Page(k) = p /\ Turned(k) = t
      OBVIOUS
    <2> HIDE DEF each
    <2>1. CASE each = 1
      <3>1. p \in 1 .. n /\ Page(p) = p /\ Turned(p) = t
        BY <1>1, <2>1
      <3>. QED BY <3>1
    <2>2. CASE each = 2
      <3>1. 2 * (p - 1) + t \in 1 .. n
        BY <1>1, <2>2
      <3>2. Page(2 * (p - 1) + t) = p /\ Turned(2 * (p - 1) + t) = t
        BY <1>1, <2>2
      <3>. QED BY <3>1, <3>2
    <2>3. CASE each = 0
      BY <2>3
    <2>. QED BY <1>1, <2>1, <2>2, <2>3
  <1> HIDE DEF each, n, Page, Turned
  <1>6. StampPlan = [k \in 1 .. n |-> StampPlan[k]]
    BY <1>2
  <1>7. \A k \in 1 .. n :
           <<StampPlan[k].page, StampPlan[k].of>> \in Stamped
    BY <1>1, <1>3, <1>4 DEF Stamped
  <1>8. \A i, j \in 1 .. n : i < j =>
           \/ StampPlan[i].page < StampPlan[j].page
           \/ /\ StampPlan[i].page = StampPlan[j].page
              /\ StampPlan[i].of = "header" /\ StampPlan[j].of = "footer"
    BY <1>1, <1>3, <1>5
  <1>10. \A s \in Stamped : \E k \in 1 .. n : <<StampPlan[k].page, StampPlan[k].of>> = s
    <2> TAKE s \in Stamped
    <2>1. PICK p \in 1 .. call.pages, of \in {"header", "footer"} :
            s = <<p, of>> /\ (of = "header" => call.header) /\ (of = "footer" => call.footer)
      BY DEF Stamped
    <2>2. PICK t \in 1 .. each : Stamps[t] = of
      BY <1>1, <2>1
    <2>3. PICK k \in 1 .. n : Page(k) = p /\ Turned(k) = t
      BY <1>9
    <2>. QED BY <1>3, <2>1, <2>2, <2>3
  <1>. QED BY <1>1, <1>6, <1>7, <1>8, <1>10 DEF n, each

LEMMA StampedIsDone ==
    ASSUME UnitInv, file.state = "closed", Tool = "add_header_footer"
    PROVE  StampedOn(Stamped \ call.narrow)
  <1> DEFINE n == call.pages * Len(Stamps)
             m == Len(Holds)
             Stamp(e) == <<Holds[e].page, Holds[e].of>>
  <1>1. Tool \in UnitWise /\ Tool \in Forgiving /\ call \in Calls
    BY DEF UnitWise, EditTool, Forgiving, UnitInv
  <1>2. /\ n \in Nat /\ StampPlan = [k \in 1 .. n |-> StampPlan[k]]
        /\ \A k \in 1 .. n : <<StampPlan[k].page, StampPlan[k].of>> \in Stamped
        /\ \A s \in Stamped : \E k \in 1 .. n : <<StampPlan[k].page, StampPlan[k].of>> = s
        /\ \A i, j \in 1 .. n : i < j =>
              \/ StampPlan[i].page < StampPlan[j].page
              \/ /\ StampPlan[i].page = StampPlan[j].page
                 /\ StampPlan[i].of = "header" /\ StampPlan[j].of = "footer"
    BY <1>1, StampsInOrder
  <1>3. Plan = StampPlan
    BY DEF Plan
  <1>4. Len(Plan) = n
    BY <1>2, <1>3, ListOf
  <1>5. m \in Nat /\ DOMAIN Holds = 1 .. m
    BY <1>1, SomeIsDone
  <1>6. PICK from \in [1 .. m -> 1 .. Len(Plan)] :
          /\ \A i, j \in 1 .. m : i < j => from[i] < from[j]
          /\ \A e \in 1 .. m : Holds[e] = EntryOf(Plan[from[e]]) /\ MadeOf(Plan[from[e]])
          /\ \A k \in 1 .. Len(Plan) : LeftOut(Plan[k]) \/ \E e \in 1 .. m : from[e] = k
    BY <1>1, SomeIsDone
  <1> HIDE DEF n, m
  <1>7. \A unit : /\ LeftOut(unit) <=> <<unit.page, unit.of>> \in call.narrow
                  /\ MadeOf(unit) <=> <<unit.page, unit.of>> \notin call.narrow
                  /\ EntryOf(unit) = unit
    BY <1>1 DEF LeftOut, MadeOf, EntryOf, Refused
  <1>8. \A e \in 1 .. m : /\ from[e] \in 1 .. n /\ Holds[e] = StampPlan[from[e]]
                          /\ Stamp(e) \notin call.narrow
    BY <1>3, <1>4, <1>6, <1>7
  <1>9. \A i, j \in 1 .. m : i < j =>
           \/ Holds[i].page < Holds[j].page
           \/ /\ Holds[i].page = Holds[j].page
              /\ Holds[i].of = "header" /\ Holds[j].of = "footer"
    <2> SUFFICES ASSUME NEW i \in 1 .. m, NEW j \in 1 .. m, i < j
                 PROVE  \/ Holds[i].page < Holds[j].page
                        \/ /\ Holds[i].page = Holds[j].page
                           /\ Holds[i].of = "header" /\ Holds[j].of = "footer"
      OBVIOUS
    <2>1. from[i] < from[j]
      BY <1>6
    <2>2. from[i] \in 1 .. n /\ from[j] \in 1 .. n
      BY <1>8
    <2>3. Holds[i] = StampPlan[from[i]] /\ Holds[j] = StampPlan[from[j]]
      BY <1>8
    <2>. QED BY <1>2, <2>1, <2>2, <2>3
  <1>10. \A e \in 1 .. m : Stamp(e) \in Stamped \ call.narrow
    BY <1>2, <1>8
  <1>11. \A s \in Stamped \ call.narrow : \E e \in 1 .. m : Stamp(e) = s
    <2> TAKE s \in Stamped \ call.narrow
    <2>1. PICK k \in 1 .. n : <<StampPlan[k].page, StampPlan[k].of>> = s
      BY <1>2
    <2>2. ~LeftOut(Plan[k])
      BY <1>3, <1>7, <2>1
    <2>3. PICK e \in 1 .. m : from[e] = k
      BY <1>4, <1>6, <2>2
    <2>. QED BY <1>8, <2>1, <2>3
  <1>12. {Stamp(e) : e \in 1 .. m} = Stamped \ call.narrow
    BY <1>10, <1>11
  <1>. QED BY <1>5, <1>9, <1>12 DEF StampedOn

LEMMA ReplacedIsDone ==
    ASSUME UnitInv, file.state = "closed", Tool = "edit_word"
    PROVE  ReplacedAsAsked
  <1> DEFINE m == Len(Holds)
             n == Len(call.hits)
             Runs == {k \in DOMAIN call.hits : call.hits[k].does = "run"}
  <1>1. Tool \in UnitWise /\ call \in Calls /\ Plan = call.hits
    BY DEF UnitWise, UnitInv, Plan
  <1>2. call.hits \in Seq([does : {"run", "split"}, of : Nat])
    BY <1>1, HitsAssumption DEF Tool
  <1>3. n \in Nat /\ DOMAIN call.hits = 1 .. n
    BY <1>2
  <1>4. m \in Nat /\ DOMAIN Holds = 1 .. m
    BY <1>1, SomeIsDone
  <1>5. PICK from \in [1 .. m -> 1 .. Len(Plan)] :
          /\ \A i, j \in 1 .. m : i < j => from[i] < from[j]
          /\ \A e \in 1 .. m : Holds[e] = EntryOf(Plan[from[e]]) /\ MadeOf(Plan[from[e]])
          /\ \A k \in 1 .. Len(Plan) : LeftOut(Plan[k]) \/ \E e \in 1 .. m : from[e] = k
    BY <1>1, SomeIsDone
  <1> HIDE DEF n, m
  <1>6. \A e \in 1 .. m : from[e] \in 1 .. n /\ Holds[e] = call.hits[from[e]]
                          /\ call.hits[from[e]].does = "run"
    BY <1>1, <1>5 DEF EntryOf, MadeOf, Forgiving, n
  <1>7. \A i, j \in 1 .. m : i # j => from[i] # from[j]
    <2> SUFFICES ASSUME NEW i \in 1 .. m, NEW j \in 1 .. m, i # j PROVE from[i] # from[j]
      OBVIOUS
    <2>1. i < j \/ j < i
      BY <1>4
    <2>. QED BY <1>5, <1>6, <2>1
  <1>8. \A k \in 1 .. n : call.hits[k].does = "run" => \E e \in 1 .. m : from[e] = k
    BY <1>1, <1>5 DEF LeftOut, Forgiving, n
  <1>9. from \in [1 .. m -> Runs]
    BY <1>3, <1>5, <1>6
  <1> HIDE DEF Runs
  <1>10. from \in Asked(Runs)
    BY <1>4, <1>7, <1>9 DEF Asked
  <1>. QED BY <1>3, <1>4, <1>5, <1>6, <1>8, <1>10 DEF ReplacedAsAsked, Runs

\* A list of operations of the first kinds: all of them, each once, the kinds one
\* after the other and those of a kind in the order of the request.
Ordered(list, kinds) ==
    /\ list \in Seq(Nat)
    /\ \A e \in 1 .. Len(list) :
          list[e] \in DOMAIN call.ops /\ Turn(call.ops[list[e]]) <= kinds
    /\ \A i \in DOMAIN call.ops :
          Turn(call.ops[i]) <= kinds => \E e \in 1 .. Len(list) : list[e] = i
    /\ \A i, j \in 1 .. Len(list) : i < j =>
          \/ Turn(call.ops[list[i]]) < Turn(call.ops[list[j]])
          \/ Turn(call.ops[list[i]]) = Turn(call.ops[list[j]]) /\ list[i] < list[j]

LEMMA TurnsAre ==
    ASSUME NEW op \in Operation
    PROVE  /\ Turn(op) \in 1 .. 4
           /\ \A k \in 1 .. 4 : op.does = Kinds[k] <=> Turn(op) = k
  <1>1. op.does \in {"text", "highlight", "annotation", "image"}
    BY DEF Operation
  <1>2. Kinds[1] = "text" /\ Kinds[2] = "highlight" /\ Kinds[3] = "annotation"
        /\ Kinds[4] = "image"
    BY DEF Kinds
  <1>3. CASE op.does = "text"
    BY <1>2, <1>3 DEF Turn
  <1>4. CASE op.does = "highlight"
    BY <1>2, <1>4 DEF Turn
  <1>5. CASE op.does = "annotation"
    BY <1>2, <1>5 DEF Turn
  <1>6. CASE op.does = "image"
    BY <1>2, <1>6 DEF Turn
  <1>. QED BY <1>1, <1>3, <1>4, <1>5, <1>6

\* The operations of the next kind come after those of the first ones.
LEMMA OneKindMore ==
    ASSUME call \in Calls, Tool = "edit_pdf", NEW k \in 1 .. 4, NEW list, Ordered(list, k - 1)
    PROVE  Ordered(list \o OfKind(k), k)
  <1> DEFINE next == OfKind(k)
             a == Len(list)
             b == Len(next)
             all == list \o next
             T(i) == Turn(call.ops[i])
  <1>1. \A i \in DOMAIN call.ops : T(i) \in 1 .. 4 /\ (call.ops[i].does = Kinds[k] <=> T(i) = k)
    BY OperationsListed, TurnsAre
  <1>2. /\ next \in Seq(Nat)
        /\ \A e \in 1 .. b : next[e] \in DOMAIN call.ops /\ call.ops[next[e]].does = Kinds[k]
        /\ \A i \in DOMAIN call.ops :
              call.ops[i].does = Kinds[k] => \E e \in 1 .. b : next[e] = i
        /\ \A i, j \in 1 .. b : i < j => next[i] < next[j]
    BY KindsListed
  <1>3. /\ list \in Seq(Nat)
        /\ \A e \in 1 .. a : list[e] \in DOMAIN call.ops /\ T(list[e]) <= k - 1
        /\ \A i \in DOMAIN call.ops : T(i) <= k - 1 => \E e \in 1 .. a : list[e] = i
        /\ \A i, j \in 1 .. a : i < j =>
              T(list[i]) < T(list[j]) \/ (T(list[i]) = T(list[j]) /\ list[i] < list[j])
    BY DEF Ordered
  <1> HIDE DEF next, T
  <1>4. /\ a \in Nat /\ b \in Nat /\ all \in Seq(Nat) /\ Len(all) = a + b
        /\ \A e \in 1 .. a : all[e] = list[e]
        /\ \A e \in 1 .. b : all[a + e] = next[e]
    BY <1>2, <1>3
  <1> HIDE DEF a, b, all
  <1>5. \A e \in 1 .. a + b : e \in 1 .. a \/ (e - a \in 1 .. b /\ e = a + (e - a))
    BY <1>4
  <1>6. \A e \in 1 .. a :
           all[e] \in DOMAIN call.ops /\ T(all[e]) <= k - 1 /\ T(all[e]) \in 1 .. 4
    BY <1>1, <1>3, <1>4
  <1>7. \A e \in 1 .. b : all[a + e] \in DOMAIN call.ops /\ T(all[a + e]) = k
    BY <1>1, <1>2, <1>4
  <1>8. \A e \in 1 .. a + b : all[e] \in DOMAIN call.ops /\ T(all[e]) <= k
    <2> TAKE e \in 1 .. a + b
    <2>1. CASE e \in 1 .. a
      BY <1>6, <2>1
    <2>2. CASE e - a \in 1 .. b /\ e = a + (e - a)
      BY <1>7, <2>2
    <2>. QED BY <1>5, <2>1, <2>2
  <1>9. \A i \in DOMAIN call.ops : T(i) <= k => \E e \in 1 .. a + b : all[e] = i
    <2> SUFFICES ASSUME NEW i \in DOMAIN call.ops, T(i) <= k
                 PROVE  \E e \in 1 .. a + b : all[e] = i
      OBVIOUS
    <2>1. CASE T(i) <= k - 1
      <3>1. PICK e \in 1 .. a : list[e] = i
        BY <1>3, <2>1
      <3>2. e \in 1 .. a + b /\ all[e] = i
        BY <1>4, <3>1
      <3>. QED BY <3>2
    <2>2. CASE T(i) = k
      <3>1. PICK e \in 1 .. b : next[e] = i
        BY <1>1, <1>2, <2>2
      <3>2. a + e \in 1 .. a + b /\ all[a + e] = i
        BY <1>4, <3>1
      <3>. QED BY <3>2
    <2>. QED BY <1>1, <2>1, <2>2
  <1>10. \A i, j \in 1 .. a + b : i < j =>
            T(all[i]) < T(all[j]) \/ (T(all[i]) = T(all[j]) /\ all[i] < all[j])
    <2> SUFFICES ASSUME NEW i \in 1 .. a + b, NEW j \in 1 .. a + b, i < j
                 PROVE  T(all[i]) < T(all[j]) \/ (T(all[i]) = T(all[j]) /\ all[i] < all[j])
      OBVIOUS
    <2>1. CASE j \in 1 .. a
      <3>1. i \in 1 .. a
        BY <1>4, <2>1
      <3>. QED BY <1>3, <1>4, <2>1, <3>1
    <2>2. CASE i \in 1 .. a /\ j - a \in 1 .. b /\ j = a + (j - a)
      <3>1. T(all[i]) <= k - 1 /\ T(all[i]) \in 1 .. 4
        BY <1>6, <2>2
      <3>2. T(all[j]) = k
        BY <1>7, <2>2
      <3>. QED BY <3>1, <3>2
    <2>3. CASE /\ i - a \in 1 .. b /\ i = a + (i - a)
               /\ j - a \in 1 .. b /\ j = a + (j - a)
      <3>1. all[i] = next[i - a] /\ all[j] = next[j - a]
        BY <1>4, <2>3
      <3>2. T(all[i]) = k /\ T(all[j]) = k
        BY <1>7, <2>3
      <3>3. i - a < j - a
        BY <1>4
      <3>. QED BY <1>2, <2>3, <3>1, <3>2, <3>3
    <2>. QED BY <1>5, <2>1, <2>2, <2>3
  <1>. QED BY <1>4, <1>8, <1>9, <1>10 DEF Ordered, T, a, b, all, next

LEMMA InTurnIsOrdered ==
    ASSUME call \in Calls, Tool = "edit_pdf"
    PROVE  Ordered(InTurn, 4)
  <1> DEFINE none == <<>>
  <1>1. Ordered(none, 1 - 1)
    <2>1. \A i \in DOMAIN call.ops : Turn(call.ops[i]) \in 1 .. 4
      BY OperationsListed, TurnsAre
    <2>. QED BY <2>1 DEF Ordered
  <1>2. OfKind(1) \in Seq(Nat)
    BY KindsListed
  <1>3. none \o OfKind(1) = OfKind(1)
    BY <1>2
  <1> HIDE DEF none
  <1>4. Ordered(OfKind(1), 2 - 1)
    <2>1. Ordered(none \o OfKind(1), 1)
      BY <1>1, OneKindMore
    <2>2. Ordered(OfKind(1), 1)
      BY <1>3, <2>1
    <2>3. 2 - 1 = 1
      OBVIOUS
    <2>. QED BY <2>2, <2>3
  <1>5. Ordered(OfKind(1) \o OfKind(2), 3 - 1)
    BY <1>4, OneKindMore
  <1>6. Ordered(OfKind(1) \o OfKind(2) \o OfKind(3), 4 - 1)
    BY <1>5, OneKindMore
  <1>7. Ordered(OfKind(1) \o OfKind(2) \o OfKind(3) \o OfKind(4), 4)
    BY <1>6, OneKindMore
  <1>. QED BY <1>7 DEF InTurn

LEMMA EditedIsDone ==
    ASSUME UnitInv, file.state = "closed", Tool = "edit_pdf"
    PROVE  EditedAsAsked
  <1> DEFINE m == Len(Holds)
             n == Len(InTurn)
             T(i) == Turn(call.ops[i])
             Shows == {k \in DOMAIN call.ops : ~call.ops[k].blank}
  <1>1. Tool \in UnitWise /\ call \in Calls /\ Tool \in EditTool
    BY DEF UnitWise, EditTool, Forgiving, UnitInv
  <1>2. call.pages \in Nat /\ \A k \in DOMAIN call.ops : call.ops[k] \in Operation
    BY <1>1, EditsAssumption, OperationsListed DEF Tool
  <1>3. /\ InTurn \in Seq(Nat)
        /\ \A e \in 1 .. n : InTurn[e] \in DOMAIN call.ops
        /\ \A i \in DOMAIN call.ops : T(i) \in 1 .. 4
        /\ \A i \in DOMAIN call.ops : T(i) <= 4 => \E e \in 1 .. n : InTurn[e] = i
        /\ \A i, j \in 1 .. n : i < j =>
              T(InTurn[i]) < T(InTurn[j])
                \/ (T(InTurn[i]) = T(InTurn[j]) /\ InTurn[i] < InTurn[j])
    BY <1>1, <1>2, InTurnIsOrdered, TurnsAre DEF Ordered
  <1>4. \A i \in DOMAIN call.ops : \E e \in 1 .. n : InTurn[e] = i
    BY <1>3
  <1>5. n \in Nat /\ DOMAIN InTurn = 1 .. n
    BY <1>3
  <1>6. Plan = [e \in 1 .. n |-> call.ops[InTurn[e]]]
    BY <1>5 DEF Plan, ByKind
  <1> HIDE DEF n, T, m, Shows
  <1>7. Len(Plan) = n /\ \A e \in 1 .. n : Plan[e] = call.ops[InTurn[e]]
    BY <1>5, <1>6, ListOf
  <1>8. m \in Nat /\ DOMAIN Holds = 1 .. m
    BY <1>1, SomeIsDone DEF m
  <1>9. PICK from \in [1 .. m -> 1 .. Len(Plan)] :
          /\ \A i, j \in 1 .. m : i < j => from[i] < from[j]
          /\ \A e \in 1 .. m : Holds[e] = EntryOf(Plan[from[e]]) /\ MadeOf(Plan[from[e]])
          /\ \A k \in 1 .. Len(Plan) : LeftOut(Plan[k]) \/ \E e \in 1 .. m : from[e] = k
    BY <1>1, SomeIsDone DEF m
  <1> DEFINE asked == [e \in 1 .. m |-> InTurn[from[e]]]
             Op(e) == call.ops[asked[e]]
  <1>10. \A e \in 1 .. m :
           /\ from[e] \in 1 .. n /\ asked[e] \in DOMAIN call.ops
           /\ asked[e] = InTurn[from[e]] /\ Plan[from[e]] = Op(e)
    BY <1>3, <1>7, <1>9
  <1> HIDE DEF asked
  <1>11. \A e \in 1 .. m :
           /\ Holds[e] = [Op(e) EXCEPT !.page = Resolved(@)]
           /\ OnAPage(Op(e)) /\ ~Op(e).blank /\ Op(e) \in Operation
    BY <1>2, <1>9, <1>10 DEF EntryOf, MadeOf, Forgiving
  <1>12. \A k \in DOMAIN call.ops :
           \/ OnAPage(call.ops[k]) /\ call.ops[k].blank
           \/ \E e \in 1 .. m : asked[e] = k
    <2> TAKE k \in DOMAIN call.ops
    <2>1. PICK p \in 1 .. n : InTurn[p] = k
      BY <1>4
    <2>2. Plan[p] = call.ops[k] /\ p \in 1 .. Len(Plan)
      BY <1>7, <2>1
    <2>3. CASE LeftOut(Plan[p])
      BY <2>2, <2>3 DEF LeftOut, Forgiving
    <2>4. CASE \E e \in 1 .. m : from[e] = p
      BY <1>10, <2>1, <2>4
    <2>. QED BY <1>9, <2>2, <2>3, <2>4
  <1>13. \A k \in DOMAIN call.ops : OnAPage(call.ops[k])
    BY <1>11, <1>12
  <1>14. \A k \in DOMAIN call.ops : ~call.ops[k].blank => \E e \in 1 .. m : asked[e] = k
    BY <1>12
  <1>15. \A e \in 1 .. m :
            /\ Holds[e].does = Op(e).does /\ Holds[e].of = Op(e).of
            /\ (Holds[e].page - Op(e).page) \in {0, call.pages + 1}
            /\ Holds[e].page \in 1 .. call.pages
    <2> TAKE e \in 1 .. m
    <2> DEFINE op == Op(e)
    <2>1. op \in Operation /\ Holds[e] = [op EXCEPT !.page = Resolved(@)] /\ OnAPage(op)
      BY <1>11
    <2> HIDE DEF op
    <2>2. Holds[e].does = op.does /\ Holds[e].of = op.of /\ Holds[e].page = Resolved(op.page)
          /\ op.page \in Int
      BY <2>1 DEF Operation
    <2>3. Holds[e].page \in 1 .. call.pages
      BY <2>1, <2>2 DEF OnAPage
    <2>4. (Holds[e].page - op.page) \in {0, call.pages + 1}
      BY <1>2, <2>2 DEF Resolved
    <2>. QED BY <2>2, <2>3, <2>4 DEF op
  <1>16. \A e \in 1 .. m : Turn(Holds[e]) = T(asked[e])
    BY <1>15 DEF Turn, T
  <1>17. \A i, j \in 1 .. m : i < j =>
            \/ T(asked[i]) < T(asked[j])
            \/ T(asked[i]) = T(asked[j]) /\ asked[i] < asked[j]
    <2> SUFFICES ASSUME NEW i \in 1 .. m, NEW j \in 1 .. m, i < j
                 PROVE  \/ T(asked[i]) < T(asked[j])
                        \/ T(asked[i]) = T(asked[j]) /\ asked[i] < asked[j]
      OBVIOUS
    <2>1. from[i] < from[j]
      BY <1>9
    <2>2. from[i] \in 1 .. n /\ from[j] \in 1 .. n
      BY <1>10
    <2>. QED BY <1>3, <1>10, <2>1, <2>2
  <1>18. \A i, j \in 1 .. m : i # j => asked[i] # asked[j]
    <2> SUFFICES ASSUME NEW i \in 1 .. m, NEW j \in 1 .. m, i # j, asked[i] = asked[j]
                 PROVE  FALSE
      OBVIOUS
    <2>1. i < j \/ j < i
      BY <1>8
    <2>2. T(asked[i]) \in 1 .. 4 /\ T(asked[j]) = T(asked[i])
      BY <1>3, <1>10
    <2>3. asked[i] \in Nat
      <3>1. from[i] \in DOMAIN InTurn
        BY <1>5, <1>10
      <3>2. InTurn[from[i]] \in Nat
        BY <1>3, <3>1
      <3>. QED BY <1>10, <3>2
    <2>. QED BY <1>17, <2>1, <2>2, <2>3
  <1>19. asked \in [1 .. m -> Shows]
    <2>1. asked = [e \in 1 .. m |-> asked[e]]
      BY DEF asked
    <2>2. \A e \in 1 .. m : asked[e] \in Shows
      BY <1>10, <1>11 DEF Shows
    <2>. QED BY <2>1, <2>2
  <1>20. asked \in Asked(Shows)
    BY <1>8, <1>18, <1>19 DEF Asked
  <1>21. \A i, j \in 1 .. m : i < j =>
            \/ Turn(Holds[i]) < Turn(Holds[j])
            \/ Turn(Holds[i]) = Turn(Holds[j]) /\ asked[i] < asked[j]
    BY <1>16, <1>17
  <1>. QED BY <1>8, <1>13, <1>14, <1>15, <1>20, <1>21 DEF EditedAsAsked, Shows

\* What the tools that change a document have saved is what was asked, or what is
\* known to be delivered instead.
LEMMA EditsAreDone ==
    ASSUME UnitInv, file.state = "closed", Tool \in EditTool
    PROVE  Delivered
  <1> USE DEF Delivered
  <1>1. AsAsked <=> EditsAsAsked
    <2>1. Tool \notin PageTool \cup OptimizeTool \cup ImageTool \cup OfficeTool \cup TextTool
      BY OneFamily
    <2>. QED BY <2>1 DEF AsAsked
  <1>2. CASE Tool = "rotate_pdf"
    BY <1>1, <1>2, PagesAreDone DEF EditsAsAsked
  <1>3. CASE Tool = "sign_pdf"
    <2>1. OnceOnEach(SignedPages)
      BY <1>3, PagesAreDone
    <2>2. SignedWhereAsked
      BY <2>1 DEF SignedPages, SignedWhereAsked, EveryPage
    <2>. QED BY <1>1, <1>3, <2>2 DEF EditsAsAsked
  <1>4. CASE Tool \in {"watermark_pdf", "crop_pdf"}
    BY <1>1, <1>4, EveryPageIsDone DEF EditsAsAsked
  <1>5. CASE Tool = "page_numbers"
    <2>1. /\ EveryPage /\ DOMAIN Holds = 1 .. call.pages
          /\ \A k \in 1 .. call.pages : Holds[k] = EntryOf(Plan[k])
      BY <1>5, EveryPageIsDone
    <2>2. Plan = OnEvery("number", LAMBDA p : call.start + p - 1)
      BY <1>5 DEF Plan
    <2>3. \A k \in 1 .. call.pages : Plan[k].of = call.start + k - 1
      BY <2>2 DEF OnEvery, Edit
    <2>4. \A k \in 1 .. call.pages : Holds[k].of = call.start + k - 1
      BY <1>5, <2>1, <2>3 DEF EntryOf
    <2>. QED BY <1>1, <1>5, <2>1, <2>4 DEF EditsAsAsked
  <1>6. CASE Tool = "add_header_footer"
    <2>1. StampedOn(Stamped \ call.narrow)
      BY <1>6, StampedIsDone
    <2>2. CASE Stamped \cap call.narrow = {}
      <3>1. Stamped \ call.narrow = Stamped
        BY <2>2
      <3>2. StampedOn(Stamped)
        BY <2>1, <3>1
      <3>. QED BY <1>1, <1>6, <3>2 DEF EditsAsAsked, Delivered
    <2>3. CASE Stamped \cap call.narrow # {}
      BY <1>6, <2>1, <2>3 DEF StampedWhereItFits, FallsShort, Delivered
    <2>. QED BY <2>2, <2>3
  <1>7. CASE Tool = "fill_form"
    BY <1>1, <1>7, FilledIsDone DEF EditsAsAsked
  <1>8. CASE Tool = "redact_pdf"
    BY <1>1, <1>8, RedactedIsDone DEF EditsAsAsked
  <1>9. CASE Tool = "edit_pdf"
    BY <1>1, <1>9, EditedIsDone DEF EditsAsAsked
  <1>10. CASE Tool = "remove_metadata"
    BY <1>1, <1>10, MetadataIsDone DEF EditsAsAsked, LeftXmp, FallsShort, Delivered
  <1>11. CASE Tool \in {"protect_pdf", "unlock_pdf", "flatten_pdf"}
    BY <1>1, <1>11, OneIsDone DEF EditsAsAsked
  <1>. QED BY <1>2, <1>3, <1>4, <1>5, <1>6, <1>7, <1>8, <1>9, <1>10, <1>11
       DEF EditTool, Forgiving

-----------------------------------------------------------------------------
(* Documents made of pages. *)

\* Entries of one page each, of ascending numbers.
LEMMA AloneAre ==
    ASSUME NEW n \in Nat, NEW S \in SUBSET Nat, NEW f \in [1 .. n -> S],
           \A p \in S : \E k \in 1 .. n : f[k] = p,
           \A i, j \in 1 .. n : i < j => f[i] < f[j],
           DOMAIN Holds = 1 .. n, \A k \in 1 .. n : Holds[k] = <<<<1, f[k]>>>>
    PROVE  EachAlone({In(p) : p \in S})
  <1>1. \A k \in 1 .. n : Len(Holds[k]) = 1 /\ Holds[k][1] = <<1, f[k]>>
    <2>1. \A x : Len(<<x>>) = 1 /\ <<x>>[1] = x
      OBVIOUS
    <2>2. \A k \in 1 .. n : \E x : Holds[k] = <<x>> /\ x = <<1, f[k]>>
      OBVIOUS
    <2>. QED BY <2>1, <2>2
  <1>2. {Holds[k][1] : k \in 1 .. n} = {In(p) : p \in S}
    <2>1. \A k \in 1 .. n : f[k] \in S /\ Holds[k][1] = In(f[k])
      BY <1>1 DEF In
    <2>2. \A p \in S : \E k \in 1 .. n : Holds[k][1] = In(p)
      BY <2>1
    <2>3. \A x \in {Holds[k][1] : k \in 1 .. n} : x \in {In(p) : p \in S}
      <3> TAKE x \in {Holds[k][1] : k \in 1 .. n}
      <3>1. PICK k \in 1 .. n : x = Holds[k][1]
        OBVIOUS
      <3>2. f[k] \in S /\ x = In(f[k])
        BY <2>1, <3>1
      <3>. QED BY <3>2
    <2>4. \A x \in {In(p) : p \in S} : x \in {Holds[k][1] : k \in 1 .. n}
      BY <2>2
    <2>. QED BY <2>3, <2>4
  <1>3. \A i, j \in 1 .. n : i < j => Before(<<1, f[i]>>, <<1, f[j]>>)
    BY DEF Before
  <1>4. \A i, j \in 1 .. n : i < j => Before(Holds[i][1], Holds[j][1])
    BY <1>1, <1>3
  <1>. QED BY <1>1, <1>2, <1>4 DEF EachAlone

LEMMA KeptAreDone ==
    ASSUME UnitInv, file.state = "closed",
           Tool \in {"organize_pdf", "remove_pages", "extract_pages", "resize_pdf"}
    PROVE  EachAlone({In(p) : p \in KeptPages}) /\ Holds # <<>>
  <1> DEFINE S == KeptPages
             n == Cardinality(S)
  <1>1. /\ Tool \in UnitWise /\ Tool \notin Forgiving \cup {"edit_pdf", "edit_word"}
        /\ call \in Calls /\ Tool \in PageDocs
    BY DEF UnitWise, Forgiving, UnitInv, PageDocs
  <1>2. S \in SUBSET (1 .. total) /\ total \in Nat
    BY <1>1, KeptAreCounted
  <1>3. S \subseteq Nat /\ IsFiniteSet(S)
    BY <1>2, IntervalIsFinite
  <1>4. /\ n \in Nat /\ Ascending(S) \in [1 .. n -> S]
        /\ \A p \in S : \E k \in 1 .. n : Ascending(S)[k] = p
        /\ \A i, j \in 1 .. n : i < j => Ascending(S)[i] < Ascending(S)[j]
    BY <1>3, AscendingLists
  <1>5. Plan = [k \in 1 .. n |-> <<<<1, Ascending(S)[k]>>>>]
    BY DEF Plan, OneByOne, InOrder
  <1> HIDE DEF S, n
  <1>6. Len(Plan) = n
    BY <1>4, <1>5, ListOf
  <1>7. DOMAIN Holds = 1 .. n /\ \A k \in 1 .. n : Holds[k] = <<<<1, Ascending(S)[k]>>>>
    BY <1>1, <1>5, <1>6, PlanIsDone DEF EntryOf
  <1>8. EachAlone({In(p) : p \in S})
    BY <1>3, <1>4, <1>7, AloneAre
  <1>. QED BY <1>1, <1>8 DEF UnitInv, S

LEMMA HtmlIsDone ==
    ASSUME UnitInv, file.state = "closed", Tool = "pdf_to_html"
    PROVE  EachAlone({In(p) : p \in 1 .. total})
  <1>1. Tool \in UnitWise /\ Tool \notin Forgiving \cup {"edit_pdf", "edit_word"}
    BY DEF UnitWise, Forgiving
  <1>2. total \in Nat
    <2>1. Tool \in PageTool /\ docs # <<>> /\ call \in Calls
      BY PagesAssumption DEF Tool, PageTool, PageDocs, docs, UnitInv
    <2>. QED BY <2>1, FirstDocument
  <1> DEFINE f == [p \in 1 .. total |-> p]
  <1>3. Plan = [k \in 1 .. total |-> <<<<1, f[k]>>>>]
    BY DEF Plan, OneByOne, PagesOfDoc, total
  <1>4. f \in [1 .. total -> 1 .. total] /\ \A k \in 1 .. total : f[k] = k
    OBVIOUS
  <1> HIDE DEF f
  <1>5. Len(Plan) = total
    BY <1>2, <1>3, ListOf
  <1>6. DOMAIN Holds = 1 .. total /\ \A k \in 1 .. total : Holds[k] = <<<<1, f[k]>>>>
    BY <1>1, <1>3, <1>5, PlanIsDone DEF EntryOf
  <1>7. /\ \A p \in 1 .. total : \E k \in 1 .. total : f[k] = p
        /\ \A i, j \in 1 .. total : i < j => f[i] < f[j]
    BY <1>4
  <1>8. 1 .. total \in SUBSET Nat
    OBVIOUS
  <1>. QED BY <1>2, <1>4, <1>6, <1>7, <1>8, AloneAre

\* The pages parse_page_ranges returns are the ones the request names.
LEMMA NamedAre ==
    ASSUME call \in Calls, Tool \in {"organize_pdf", "remove_pages", "extract_pages"},
           NEW p \in 1 .. total
    PROVE  p \in Named(call.ranges, total) <=> IsNamed(p)
  <1>1. \A k \in DOMAIN call.ranges : call.ranges[k].from \in Int /\ call.ranges[k].to \in Int
    BY PagesAssumption DEF Tool
  <1>2. p \in Int
    BY DEF total
  <1>. QED BY <1>1, <1>2 DEF Named, IsNamed

LEMMA UnitPagesAreDone ==
    ASSUME UnitInv, file.state = "closed", Tool \in PageDocs, Tool \in UnitWise
    PROVE  Delivered
  <1> USE DEF Delivered
  <1>1. call \in Calls
    BY DEF UnitInv
  <1>2. AsAsked <=> PagesAsAsked
    <2>1. Tool \in PageTool
      BY DEF PageTool
    <2>. QED BY <2>1, OneFamily DEF AsAsked
  <1>3. CASE Tool = "resize_pdf"
    <2>1. EachAlone({In(p) : p \in KeptPages})
      BY <1>3, KeptAreDone
    <2>2. {In(p) : p \in KeptPages} = PagesWhere(LAMBDA p : docs[1][p] > 0)
      BY <1>3 DEF KeptPages, Resizable, PagesWhere
    <2>. QED BY <1>2, <1>3, <2>1, <2>2 DEF PagesAsAsked
  <1>4. CASE Tool = "pdf_to_html"
    <2>1. {In(p) : p \in 1 .. total} = PagesWhere(LAMBDA p : TRUE)
      BY DEF PagesWhere
    <2>. QED BY <1>2, <1>4, <2>1, HtmlIsDone DEF PagesAsAsked
  <1>5. CASE Tool = "remove_pages" \/ (Tool = "organize_pdf" /\ call.action = "delete")
    <2>1. EachAlone({In(p) : p \in KeptPages}) /\ Holds # <<>>
      BY <1>5, KeptAreDone
    <2>2. KeptPages = {q \in 1 .. total : ~IsNamed(q)}
      BY <1>1, <1>5, NamedAre DEF KeptPages, Organized, Remaining
    <2>3. {In(p) : p \in KeptPages} = PagesWhere(LAMBDA p : ~IsNamed(p))
      BY <2>2 DEF PagesWhere
    <2>. QED BY <1>2, <1>5, <2>1, <2>3 DEF PagesAsAsked
  <1>6. CASE Tool = "extract_pages" \/ (Tool = "organize_pdf" /\ call.action # "delete")
    <2>1. EachAlone({In(p) : p \in KeptPages}) /\ Holds # <<>>
      BY <1>6, KeptAreDone
    <2>2. Named(call.ranges, total) \subseteq 1 .. total
      BY DEF Named
    <2>3. KeptPages = {q \in 1 .. total : IsNamed(q)}
      BY <1>1, <1>6, <2>2, NamedAre DEF KeptPages, Organized
    <2>4. {In(p) : p \in KeptPages} = PagesWhere(IsNamed)
      BY <2>3 DEF PagesWhere
    <2>. QED BY <1>2, <1>6, <2>1, <2>4 DEF PagesAsAsked, Sorted, FallsShort, Delivered
  <1>7. Tool \in {"organize_pdf", "remove_pages", "extract_pages", "resize_pdf", "pdf_to_html"}
    BY DEF PageDocs, UnitWise, EditTool, Forgiving
  <1>. QED BY <1>3, <1>4, <1>5, <1>6, <1>7

\* Documents of which a unit of the plan makes several entries.
ByMany == {"merge_pdf", "alternate_mix", "pdf_to_excel"}

ManyPlan ==
    CASE Tool = "merge_pdf" -> [d \in DOMAIN docs |-> PagesOfDoc(d)]
      [] Tool = "alternate_mix" -> Interleaved
      [] Tool = "pdf_to_excel" -> OneByOne(PagesOfDoc(1))

\* alternate_mix is given two documents.
BothGiven == Tool = "alternate_mix" => Len(docs) >= 2

\* What is left of the plan after n of its units.
Rest(left, n) ==
    /\ n \in 0 .. Len(ManyPlan)
    /\ left \in Seq({ManyPlan[k] : k \in 1 .. Len(ManyPlan)})
    /\ Len(left) = Len(ManyPlan) - n
    /\ \A e \in 1 .. Len(left) : left[e] = ManyPlan[n + e]

Alone == {<<<<d, p>>>> : d \in Nat, p \in Nat}

\* The pages of the first n documents, in their order.
Merged(entries, n) ==
    /\ entries \in Seq(Alone)
    /\ \A k \in 1 .. Len(entries) : \E d \in 1 .. n : \E p \in 1 .. Total(d) :
          entries[k] = <<<<d, p>>>>
    /\ \A d \in 1 .. n : \A p \in 1 .. Total(d) : \E k \in 1 .. Len(entries) :
          entries[k] = <<<<d, p>>>>
    /\ \A i, j \in 1 .. Len(entries) : i < j => Before(entries[i][1], entries[j][1])

LEMMA JoinIs ==
    ASSUME NEW S, NEW x \in Seq(S), NEW y \in Seq(S)
    PROVE  /\ x \o y \in Seq(S) /\ Len(x \o y) = Len(x) + Len(y)
           /\ \A k \in 1 .. Len(x) : (x \o y)[k] = x[k]
           /\ \A k \in 1 .. Len(y) : (x \o y)[Len(x) + k] = y[k]
  OBVIOUS

LEMMA TotalsAre ==
    ASSUME call \in Calls, Tool \in PageTool
    PROVE  /\ docs \in Seq(Seq(Nat)) /\ Len(docs) \in Nat /\ DOMAIN docs = 1 .. Len(docs)
           /\ \A d \in 1 .. Len(docs) : Total(d) \in Nat
  <1>1. docs \in Seq(Seq(Nat))
    BY PagesAssumption DEF Tool, docs
  <1>2. \A d \in 1 .. Len(docs) : docs[d] \in Seq(Nat)
    BY <1>1
  <1>. QED BY <1>1, <1>2 DEF Total

LEMMA MergedGrows ==
    ASSUME call \in Calls, Tool = "merge_pdf", NEW n \in Nat, n < Len(docs),
           NEW entries, Merged(entries, n)
    PROVE  Merged(entries \o OneByOne(PagesOfDoc(n + 1)), n + 1)
  <1> DEFINE d0 == n + 1
             t == Total(d0)
             more == OneByOne(PagesOfDoc(d0))
             a == Len(entries)
             grown == entries \o more
  <1>1. Len(docs) \in Nat /\ \A d \in 1 .. Len(docs) : Total(d) \in Nat
    <2>1. Tool \in PageTool
      BY DEF PageTool, PageDocs
    <2>. QED BY <2>1, TotalsAre
  <1>2. t \in Nat /\ d0 \in Nat
    BY <1>1
  <1>3. more = [p \in 1 .. t |-> <<<<d0, p>>>>]
    BY DEF OneByOne, PagesOfDoc
  <1>4. entries \in Seq(Alone) /\ a \in Nat
    BY DEF Merged
  <1> HIDE DEF t, d0
  <1>5. more \in Seq(Alone) /\ Len(more) = t /\ \A p \in 1 .. t : more[p] = <<<<d0, p>>>>
    <2>1. \A p \in 1 .. t : <<<<d0, p>>>> \in Alone
      BY <1>2 DEF Alone
    <2> HIDE DEF more
    <2>2. more \in [1 .. t -> Alone]
      BY <1>3, <2>1
    <2>. QED BY <1>2, <1>3, <2>2
  <1> HIDE DEF more, a
  <1>6. /\ grown \in Seq(Alone) /\ Len(grown) = a + t
        /\ \A k \in 1 .. a : grown[k] = entries[k]
        /\ \A p \in 1 .. t : grown[a + p] = <<<<d0, p>>>>
    <2>1. /\ grown \in Seq(Alone) /\ Len(grown) = Len(entries) + Len(more)
          /\ \A k \in 1 .. Len(entries) : grown[k] = entries[k]
          /\ \A p \in 1 .. Len(more) : grown[Len(entries) + p] = more[p]
      <3>1. entries \in Seq(Alone) /\ more \in Seq(Alone)
        BY <1>4, <1>5
      <3>. QED BY <3>1, JoinIs
    <2> HIDE DEF grown
    <2>. QED BY <1>5, <2>1 DEF a
  <1> HIDE DEF grown
  <1>7. \A k \in 1 .. a + t : k \in 1 .. a \/ (k - a \in 1 .. t /\ k = a + (k - a))
    BY <1>2, <1>4
  <1>8. d0 = n + 1 /\ t = Total(d0)
    BY DEF d0, t
  <1>9. \A k \in 1 .. a : \E d \in 1 .. n : \E p \in 1 .. Total(d) : grown[k] = <<<<d, p>>>>
    BY <1>6 DEF Merged, a
  <1>10. \A k \in 1 .. a + t : \E d \in 1 .. d0 : \E p \in 1 .. Total(d) : grown[k] = <<<<d, p>>>>
    <2> TAKE k \in 1 .. a + t
    <2>1. CASE k \in 1 .. a
      <3>1. PICK d \in 1 .. n : \E p \in 1 .. Total(d) : grown[k] = <<<<d, p>>>>
        BY <1>9, <2>1
      <3>2. d \in 1 .. d0
        BY <1>8
      <3>. QED BY <3>1, <3>2
    <2>2. CASE k - a \in 1 .. t /\ k = a + (k - a)
      <3>1. grown[k] = <<<<d0, k - a>>>> /\ k - a \in 1 .. Total(d0) /\ d0 \in 1 .. d0
        BY <1>2, <1>6, <1>8, <2>2
      <3>. QED BY <3>1
    <2>. QED BY <1>7, <2>1, <2>2
  <1>11. \A d \in 1 .. d0 : \A p \in 1 .. Total(d) : \E k \in 1 .. a + t : grown[k] = <<<<d, p>>>>
    <2> TAKE d \in 1 .. d0
    <2> TAKE p \in 1 .. Total(d)
    <2>1. CASE d \in 1 .. n
      <3>1. PICK k \in 1 .. a : entries[k] = <<<<d, p>>>>
        BY <2>1 DEF Merged, a
      <3>2. k \in 1 .. a + t /\ grown[k] = <<<<d, p>>>>
        BY <1>2, <1>4, <1>6, <3>1
      <3>. QED BY <3>2
    <2>2. CASE d = d0
      <3>1. p \in 1 .. t /\ a + p \in 1 .. a + t
        BY <1>2, <1>4, <1>8, <2>2
      <3>2. grown[a + p] = <<<<d, p>>>>
        BY <1>6, <2>2, <3>1
      <3>. QED BY <3>1, <3>2
    <2>. QED BY <1>8, <2>1, <2>2
  <1>12. \A i, j \in 1 .. a + t : i < j => Before(grown[i][1], grown[j][1])
    <2> SUFFICES ASSUME NEW i \in 1 .. a + t, NEW j \in 1 .. a + t, i < j
                 PROVE  Before(grown[i][1], grown[j][1])
      OBVIOUS
    <2>0. \A x : <<x>>[1] = x
      OBVIOUS
    <2>1. CASE j \in 1 .. a
      <3>1. i \in 1 .. a
        BY <1>4, <2>1
      <3>. QED BY <1>6, <2>1, <3>1 DEF Merged, a
    <2>2. CASE i \in 1 .. a /\ j - a \in 1 .. t /\ j = a + (j - a)
      <3>1. PICK d \in 1 .. n : \E p \in 1 .. Total(d) : grown[i] = <<<<d, p>>>>
        BY <1>9, <2>2
      <3>2. PICK p \in 1 .. Total(d) : grown[i] = <<<<d, p>>>>
        BY <3>1
      <3>3. grown[i][1] = <<d, p>> /\ grown[j][1] = <<d0, j - a>>
        BY <1>6, <2>0, <2>2, <3>2
      <3>4. d < d0
        BY <1>8
      <3>. QED BY <3>3, <3>4 DEF Before
    <2>3. CASE /\ i - a \in 1 .. t /\ i = a + (i - a)
               /\ j - a \in 1 .. t /\ j = a + (j - a)
      <3>1. grown[i][1] = <<d0, i - a>> /\ grown[j][1] = <<d0, j - a>>
        BY <1>6, <2>0, <2>3
      <3>2. i - a < j - a
        BY <1>4
      <3>. QED BY <3>1, <3>2 DEF Before
    <2>. QED BY <1>7, <2>1, <2>2, <2>3
  <1>13. Merged(grown, d0)
    BY <1>6, <1>10, <1>11, <1>12 DEF Merged
  <1>. QED BY <1>13 DEF grown, more, d0

\* The first n turns of two documents.
Shorter == IF Total(1) > Total(2) THEN Total(2) ELSE Total(1)

LongerDoc == IF Total(1) > Total(2) THEN 1 ELSE 2

Mixed(entries, n) ==
    /\ entries \in Seq(Alone)
    /\ Len(entries) = IF n <= Shorter THEN 2 * n ELSE Shorter + n
    /\ \A k \in 1 .. n : k <= Shorter =>
          entries[2 * k - 1] = <<Taken(1, k)>> /\ entries[2 * k] = <<Taken(2, k)>>
    /\ \A k \in Shorter + 1 .. n : entries[Shorter + k] = <<Taken(LongerDoc, k)>>

\* What alternate_mix makes of a turn.
LEMMA TurnsMix ==
    ASSUME call \in Calls, Tool = "alternate_mix", Len(docs) >= 2
    PROVE  /\ Total(1) \in Nat /\ Total(2) \in Nat /\ Total(LongerDoc) \in Nat
           /\ Interleaved = [k \in 1 .. Total(LongerDoc) |-> Interleaved[k]]
           /\ \A k \in 1 .. Total(LongerDoc) :
                /\ k <= Shorter => <<Taken(1, k)>> \in Alone /\ <<Taken(2, k)>> \in Alone
                /\ k > Shorter => <<Taken(LongerDoc, k)>> \in Alone
                /\ OneByOne(Interleaved[k]) =
                     IF k <= Shorter THEN <<<<Taken(1, k)>>, <<Taken(2, k)>>>>
                     ELSE <<<<Taken(LongerDoc, k)>>>>
  <1>1. Total(1) \in Nat /\ Total(2) \in Nat
    <2>1. Tool \in PageTool
      BY DEF PageTool, PageDocs
    <2>2. /\ Len(docs) \in Nat /\ \A d \in 1 .. Len(docs) : Total(d) \in Nat
      BY <2>1, TotalsAre
    <2>. QED BY <2>2
  <1> DEFINE long == Total(LongerDoc)
  <1>2. long \in Nat /\ Shorter \in Nat /\ Shorter <= long
        /\ long = IF Total(1) > Total(2) THEN Total(1) ELSE Total(2)
    BY <1>1 DEF LongerDoc, Shorter
  <1> DEFINE back(k) == IF call.reverse_second THEN Total(2) + 1 - k ELSE k
             both(k) == (IF k <= Total(1) THEN <<<<1, k>>>> ELSE <<>>) \o
                        (IF k <= Total(2) THEN <<<<2, back(k)>>>> ELSE <<>>)
  <1>3. Interleaved = [k \in 1 .. long |-> both(k)]
    BY <1>2 DEF Interleaved
  <1>4. \A k : Taken(1, k) = <<1, k>> /\ Taken(2, k) = <<2, back(k)>>
    BY DEF Taken
  <1>5. \A k \in 1 .. long : k <= Shorter => both(k) = <<Taken(1, k), Taken(2, k)>>
    <2> SUFFICES ASSUME NEW k \in 1 .. long, k <= Shorter
                 PROVE  both(k) = <<Taken(1, k), Taken(2, k)>>
      OBVIOUS
    <2>1. k <= Total(1) /\ k <= Total(2)
      BY <1>1, <1>2 DEF Shorter
    <2>2. both(k) = <<<<1, k>>>> \o <<<<2, back(k)>>>>
      BY <2>1
    <2>3. <<<<1, k>>>> \o <<<<2, back(k)>>>> = <<<<1, k>>, <<2, back(k)>>>>
      BY JoinTwo
    <2>. QED BY <1>4, <2>2, <2>3
  <1>6. \A k \in 1 .. long : k > Shorter => both(k) = <<Taken(LongerDoc, k)>>
    <2> SUFFICES ASSUME NEW k \in 1 .. long, k > Shorter
                 PROVE  both(k) = <<Taken(LongerDoc, k)>>
      OBVIOUS
    <2>0. \A x : <<x>> \o <<>> = <<x>> /\ <<>> \o <<x>> = <<x>>
      OBVIOUS
    <2>1. CASE Total(1) > Total(2)
      <3>1. k <= Total(1) /\ ~(k <= Total(2))
        BY <1>1, <1>2, <2>1 DEF Shorter
      <3>2. both(k) = <<<<1, k>>>> \o <<>>
        BY <3>1
      <3>3. both(k) = <<<<1, k>>>>
        BY <2>0, <3>2
      <3>. QED BY <1>4, <2>1, <3>3 DEF LongerDoc
    <2>2. CASE ~(Total(1) > Total(2))
      <3>1. k <= Total(2) /\ ~(k <= Total(1))
        BY <1>1, <1>2, <2>2 DEF Shorter
      <3>2. both(k) = <<>> \o <<<<2, back(k)>>>>
        BY <3>1
      <3>3. both(k) = <<<<2, back(k)>>>>
        BY <2>0, <3>2
      <3>. QED BY <1>4, <2>2, <3>3 DEF LongerDoc
    <2>. QED BY <2>1, <2>2
  <1>7. \A k \in 1 .. long : Interleaved[k] = both(k)
    BY <1>3
  <1>8. \A x : OneByOne(<<x>>) = <<<<x>>>>
    BY DEF OneByOne
  <1>9. \A x, y : OneByOne(<<x, y>>) = <<<<x>>, <<y>>>>
    BY DEF OneByOne
  <1> HIDE DEF both
  <1>10. Interleaved = [k \in 1 .. long |-> Interleaved[k]]
    BY <1>3
  <1>11. \A k \in 1 .. long : OneByOne(Interleaved[k]) =
                     IF k <= Shorter THEN <<<<Taken(1, k)>>, <<Taken(2, k)>>>>
                     ELSE <<<<Taken(LongerDoc, k)>>>>
    <2> TAKE k \in 1 .. long
    <2>1. CASE k <= Shorter
      <3>1. Interleaved[k] = <<Taken(1, k), Taken(2, k)>>
        BY <1>5, <1>7, <2>1
      <3>. QED BY <1>9, <2>1, <3>1
    <2>2. CASE ~(k <= Shorter)
      <3>1. k > Shorter
        BY <1>2, <2>2
      <3>2. Interleaved[k] = <<Taken(LongerDoc, k)>>
        BY <1>6, <1>7, <3>1
      <3>. QED BY <1>8, <2>2, <3>2
    <2>. QED BY <2>1, <2>2
  <1>12. \A k \in 1 .. long :
            /\ k <= Shorter => <<Taken(1, k)>> \in Alone /\ <<Taken(2, k)>> \in Alone
            /\ k > Shorter => <<Taken(LongerDoc, k)>> \in Alone
    <2> TAKE k \in 1 .. long
    <2>1. \A d \in Nat, p \in Nat : <<<<d, p>>>> \in Alone
      BY DEF Alone
    <2>2. k \in Nat
      BY <1>2
    <2>3. <<Taken(1, k)>> \in Alone
      BY <1>4, <2>1, <2>2
    <2>4. k <= Total(2) => back(k) \in Nat
      BY <1>1, <2>2
    <2>5. k <= Total(2) => <<Taken(2, k)>> \in Alone
      BY <1>4, <2>1, <2>4
    <2>6. CASE Total(1) > Total(2)
      BY <1>1, <1>2, <2>2, <2>3, <2>5, <2>6 DEF Shorter, LongerDoc
    <2>7. CASE ~(Total(1) > Total(2))
      BY <1>1, <1>2, <2>2, <2>3, <2>5, <2>7 DEF Shorter, LongerDoc
    <2>. QED BY <2>6, <2>7
  <1>. QED BY <1>1, <1>2, <1>10, <1>11, <1>12

LEMMA MixedGrows ==
    ASSUME call \in Calls, Tool = "alternate_mix", Len(docs) >= 2, NEW n \in Nat,
           n < Total(LongerDoc), NEW entries, Mixed(entries, n)
    PROVE  Mixed(entries \o OneByOne(Interleaved[n + 1]), n + 1)
  <1> DEFINE more == OneByOne(Interleaved[n + 1])
             grown == entries \o more
             s == Shorter
  <1>1. n + 1 \in 1 .. Total(LongerDoc) /\ Total(LongerDoc) \in Nat /\ s \in Nat
    <2>1. Total(1) \in Nat /\ Total(2) \in Nat /\ Total(LongerDoc) \in Nat
      BY TurnsMix
    <2>. QED BY <2>1 DEF Shorter
  <1> HIDE DEF s
  <1>2. CASE n + 1 <= s
    <2> DEFINE x == <<Taken(1, n + 1)>>
               y == <<Taken(2, n + 1)>>
    <2>1. more = <<x, y>> /\ x \in Alone /\ y \in Alone
      BY <1>1, <1>2, TurnsMix DEF s
    <2> HIDE DEF x, y, more
    <2>2. more \in Seq(Alone) /\ Len(more) = 2 /\ more[1] = x /\ more[2] = y
      BY <2>1
    <2>3. entries \in Seq(Alone) /\ Len(entries) = 2 * n
      BY <1>1, <1>2 DEF Mixed, s
    <2>4. /\ grown \in Seq(Alone) /\ Len(grown) = Len(entries) + Len(more)
          /\ \A k \in 1 .. Len(entries) : grown[k] = entries[k]
          /\ \A k \in 1 .. Len(more) : grown[Len(entries) + k] = more[k]
      <3>1. entries \in Seq(Alone) /\ more \in Seq(Alone)
        BY <2>2, <2>3
      <3>. QED BY <3>1, JoinIs
    <2> HIDE DEF grown
    <2>5. Len(grown) = 2 * (n + 1) /\ grown[2 * (n + 1) - 1] = x /\ grown[2 * (n + 1)] = y
      <3>1. 1 \in 1 .. Len(more) /\ 2 \in 1 .. Len(more)
        BY <2>2
      <3>2. grown[2 * n + 1] = x /\ grown[2 * n + 2] = y
        BY <2>2, <2>3, <2>4, <3>1
      <3>3. 2 * (n + 1) - 1 = 2 * n + 1 /\ 2 * (n + 1) = 2 * n + 2
        OBVIOUS
      <3>. QED BY <2>2, <2>3, <2>4, <3>2, <3>3
    <2>6. \A k \in 1 .. n + 1 :
             grown[2 * k - 1] = <<Taken(1, k)>> /\ grown[2 * k] = <<Taken(2, k)>>
      <3> TAKE k \in 1 .. n + 1
      <3>1. CASE k \in 1 .. n
        <4>1. 2 * k - 1 \in 1 .. Len(entries) /\ 2 * k \in 1 .. Len(entries) /\ k <= Shorter
          BY <1>1, <1>2, <2>3, <3>1 DEF s
        <4>2. entries[2 * k - 1] = <<Taken(1, k)>> /\ entries[2 * k] = <<Taken(2, k)>>
          BY <3>1, <4>1 DEF Mixed
        <4>. QED BY <2>4, <4>1, <4>2
      <3>2. CASE k = n + 1
        BY <2>5, <3>2 DEF x, y
      <3>. QED BY <3>1, <3>2
    <2>7. \A k \in Shorter + 1 .. n + 1 : FALSE
      BY <1>1, <1>2 DEF s
    <2>8. Mixed(grown, n + 1)
      BY <1>2, <2>4, <2>5, <2>6, <2>7 DEF Mixed, s
    <2>. QED BY <2>8 DEF grown, more
  <1>3. CASE ~(n + 1 <= s)
    <2> DEFINE x == <<Taken(LongerDoc, n + 1)>>
    <2>1. more = <<x>>
      BY <1>1, <1>3, TurnsMix DEF s
    <2>2. x \in Alone
      <3>1. n + 1 > s
        BY <1>1, <1>3
      <3>. QED BY <1>1, <3>1, TurnsMix DEF s
    <2> HIDE DEF x, more
    <2>3. more \in Seq(Alone) /\ Len(more) = 1 /\ more[1] = x
      BY <2>1, <2>2
    <2>4. entries \in Seq(Alone) /\ Len(entries) = s + n
      <3>1. n <= s => n = s
        BY <1>1, <1>3
      <3>2. 2 * n = n + n
        OBVIOUS
      <3>. QED BY <1>1, <3>1, <3>2 DEF Mixed, s
    <2>5. /\ grown \in Seq(Alone) /\ Len(grown) = Len(entries) + Len(more)
          /\ \A k \in 1 .. Len(entries) : grown[k] = entries[k]
          /\ \A k \in 1 .. Len(more) : grown[Len(entries) + k] = more[k]
      <3>1. entries \in Seq(Alone) /\ more \in Seq(Alone)
        BY <2>3, <2>4
      <3>. QED BY <3>1, JoinIs
    <2> HIDE DEF grown
    <2>6. Len(grown) = s + (n + 1) /\ grown[s + (n + 1)] = x
      <3>1. 1 \in 1 .. Len(more) /\ Len(entries) + 1 = s + (n + 1)
        BY <1>1, <2>3, <2>4
      <3>. QED BY <2>3, <2>5, <3>1
    <2>7. \A k \in 1 .. n + 1 : k <= Shorter =>
             grown[2 * k - 1] = <<Taken(1, k)>> /\ grown[2 * k] = <<Taken(2, k)>>
      <3> SUFFICES ASSUME NEW k \in 1 .. n + 1, k <= s
                   PROVE  grown[2 * k - 1] = <<Taken(1, k)>> /\ grown[2 * k] = <<Taken(2, k)>>
        BY DEF s
      <3>1. k \in 1 .. n /\ 2 * k - 1 \in 1 .. s + n /\ 2 * k \in 1 .. s + n
        BY <1>1, <1>3
      <3>2. entries[2 * k - 1] = <<Taken(1, k)>> /\ entries[2 * k] = <<Taken(2, k)>>
        BY <3>1 DEF Mixed, s
      <3>. QED BY <2>4, <2>5, <3>1, <3>2
    <2>8. \A k \in Shorter + 1 .. n + 1 : grown[Shorter + k] = <<Taken(LongerDoc, k)>>
      <3> SUFFICES ASSUME NEW k \in s + 1 .. n + 1
                   PROVE  grown[s + k] = <<Taken(LongerDoc, k)>>
        BY DEF s
      <3>1. CASE k = n + 1
        BY <2>6, <3>1 DEF x
      <3>2. CASE k # n + 1
        <4>1. k \in s + 1 .. n /\ s + k \in 1 .. Len(entries)
          BY <1>1, <2>4, <3>2
        <4>2. entries[s + k] = <<Taken(LongerDoc, k)>>
          BY <4>1 DEF Mixed, s
        <4>. QED BY <2>5, <4>1, <4>2
      <3>. QED BY <3>1, <3>2
    <2>9. Mixed(grown, n + 1)
      BY <1>3, <2>5, <2>6, <2>7, <2>8 DEF Mixed, s
    <2>. QED BY <2>9 DEF grown, more
  <1>. QED BY <1>2, <1>3

\* The tables of the first n pages.
PageAlone(p) == <<In(p)>>

Sheets(entries, n) ==
    /\ entries \in Seq({PageAlone(p) : p \in 1 .. total})
    /\ \A k \in 1 .. Len(entries) : \E p \in 1 .. n : entries[k] = PageAlone(p)
    /\ \A p \in 1 .. n :
          Cardinality({k \in 1 .. Len(entries) : entries[k] = PageAlone(p)}) = call.tables[p]
    /\ \A i, j \in 1 .. Len(entries) : i < j => entries[i][1][2] <= entries[j][1][2]

LEMMA TablesAre ==
    ASSUME call \in Calls, Tool = "pdf_to_excel"
    PROVE  total \in Nat /\ call.tables \in [1 .. total -> Nat]
  <1>1. Tool \in PageTool /\ docs # <<>>
    BY PagesAssumption DEF Tool, PageTool, PageDocs, docs
  <1>. QED BY <1>1, FirstDocument, PagesAssumption DEF Tool, docs, total, Total

LEMMA SheetsGrow ==
    ASSUME call \in Calls, Tool = "pdf_to_excel", NEW n \in Nat, n < total,
           NEW entries, Sheets(entries, n)
    PROVE  Sheets(entries \o Tables(n + 1), n + 1)
  <1> DEFINE q == n + 1
             t == call.tables[q]
             S == {PageAlone(p) : p \in 1 .. total}
             more == Tables(q)
             a == Len(entries)
             grown == entries \o more
  <1>0. /\ \A p : PageAlone(p)[1][2] = p
        /\ \A p, r : PageAlone(p) = PageAlone(r) => p = r
    <2>1. \A p : PageAlone(p)[1] = <<1, p>>
      BY DEF PageAlone, In
    <2>2. \A p : <<1, p>>[2] = p
      OBVIOUS
    <2>3. \A p : PageAlone(p)[1][2] = p
      BY <2>1, <2>2
    <2>. QED BY <2>3
  <1>1. q \in 1 .. total /\ total \in Nat /\ t \in Nat /\ q = n + 1
    BY TablesAre
  <1>2. more = [k \in 1 .. t |-> PageAlone(q)]
    BY DEF Tables, PageAlone, In
  <1>3. entries \in Seq(S) /\ PageAlone(q) \in S
    BY <1>1 DEF Sheets
  <1> HIDE DEF t, S, more, q
  <1>4. more \in Seq(S) /\ Len(more) = t /\ \A k \in 1 .. t : more[k] = PageAlone(q)
    <2>1. more \in [1 .. t -> S]
      BY <1>2, <1>3
    <2>. QED BY <1>1, <1>2, <2>1
  <1>5. a \in Nat
    BY <1>3
  <1>6. /\ grown \in Seq(S) /\ Len(grown) = a + t
        /\ \A k \in 1 .. a : grown[k] = entries[k]
        /\ \A k \in 1 .. t : grown[a + k] = PageAlone(q)
    <2>1. /\ grown \in Seq(S) /\ Len(grown) = Len(entries) + Len(more)
          /\ \A k \in 1 .. Len(entries) : grown[k] = entries[k]
          /\ \A k \in 1 .. Len(more) : grown[Len(entries) + k] = more[k]
      <3>1. entries \in Seq(S) /\ more \in Seq(S)
        BY <1>3, <1>4
      <3>. QED BY <3>1, JoinIs
    <2> HIDE DEF grown
    <2>. QED BY <1>4, <2>1
  <1>7. \A k \in 1 .. a : \E p \in 1 .. n : entries[k] = PageAlone(p)
    BY DEF Sheets
  <1>8. \A i, j \in 1 .. a : i < j => entries[i][1][2] <= entries[j][1][2]
    BY DEF Sheets
  <1>9. \A p \in 1 .. n :
           Cardinality({k \in 1 .. a : entries[k] = PageAlone(p)}) = call.tables[p]
    BY DEF Sheets
  <1> HIDE DEF grown, a
  <1>10. \A k \in 1 .. a + t : k \in 1 .. a \/ (k - a \in 1 .. t /\ k = a + (k - a))
    BY <1>1, <1>5
  <1>11. \A k \in 1 .. a : grown[k] # PageAlone(q) /\ \E p \in 1 .. n : grown[k] = PageAlone(p)
    <2> TAKE k \in 1 .. a
    <2>1. PICK p \in 1 .. n : entries[k] = PageAlone(p)
      BY <1>7
    <2>2. grown[k] = PageAlone(p) /\ p # q
      BY <1>1, <1>6, <2>1
    <2>. QED BY <1>0, <2>2
  <1>12. \A k \in 1 .. a + t : k \notin 1 .. a => grown[k] = PageAlone(q)
    BY <1>6, <1>10
  <1>13. \A k \in 1 .. a + t : \E p \in 1 .. q : grown[k] = PageAlone(p)
    <2> TAKE k \in 1 .. a + t
    <2>1. CASE k \in 1 .. a
      <3>1. PICK p \in 1 .. n : grown[k] = PageAlone(p)
        BY <1>11, <2>1
      <3>2. p \in 1 .. q
        BY <1>1
      <3>. QED BY <3>1, <3>2
    <2>2. CASE k \notin 1 .. a
      BY <1>1, <1>12, <2>2
    <2>. QED BY <2>1, <2>2
  <1>14. \A p \in 1 .. q :
            Cardinality({k \in 1 .. a + t : grown[k] = PageAlone(p)}) = call.tables[p]
    <2> TAKE p \in 1 .. q
    <2>1. CASE p \in 1 .. n
      <3>1. p # q
        BY <1>1, <2>1
      <3>2. \A k \in 1 .. a + t : grown[k] = PageAlone(p) => k \in 1 .. a /\ entries[k] = PageAlone(p)
        BY <1>0, <1>6, <1>12, <3>1
      <3>3. \A k \in 1 .. a : entries[k] = PageAlone(p) => k \in 1 .. a + t /\ grown[k] = PageAlone(p)
        BY <1>1, <1>5, <1>6
      <3>4. {k \in 1 .. a + t : grown[k] = PageAlone(p)} = {k \in 1 .. a : entries[k] = PageAlone(p)}
        BY <3>2, <3>3
      <3>. QED BY <1>9, <2>1, <3>4
    <2>2. CASE p = q
      <3>1. \A k \in 1 .. a + t : grown[k] = PageAlone(q) <=> k \in a + 1 .. a + t
        <4> TAKE k \in 1 .. a + t
        <4>1. k \in 1 .. a <=> k \notin a + 1 .. a + t
          BY <1>1, <1>5
        <4>. QED BY <1>11, <1>12, <4>1
      <3>2. a + 1 .. a + t \subseteq 1 .. a + t
        BY <1>1, <1>5
      <3>3. {k \in 1 .. a + t : grown[k] = PageAlone(q)} = a + 1 .. a + t
        BY <3>1, <3>2
      <3>4. Cardinality(a + 1 .. a + t) = t
        <4>1. a + 1 \in Int /\ a + t \in Int
          BY <1>1, <1>5
        <4>2. Cardinality(a + 1 .. a + t) =
                IF a + 1 > a + t THEN 0 ELSE (a + t) - (a + 1) + 1
          BY <4>1, FS_Interval
        <4>. QED BY <1>1, <1>5, <4>2
      <3>. QED BY <2>2, <3>3, <3>4 DEF t
    <2>. QED BY <1>1, <2>1, <2>2
  <1>15. \A i, j \in 1 .. a + t : i < j => grown[i][1][2] <= grown[j][1][2]
    <2> SUFFICES ASSUME NEW i \in 1 .. a + t, NEW j \in 1 .. a + t, i < j
                 PROVE  grown[i][1][2] <= grown[j][1][2]
      OBVIOUS
    <2>1. CASE j \in 1 .. a
      <3>1. i \in 1 .. a
        BY <1>5, <2>1
      <3>. QED BY <1>6, <1>8, <2>1, <3>1
    <2>2. CASE j \notin 1 .. a
      <3>1. grown[j] = PageAlone(q)
        BY <1>12, <2>2
      <3>2. PICK p \in 1 .. q : grown[i] = PageAlone(p)
        BY <1>13
      <3>. QED BY <1>0, <1>1, <3>1, <3>2
    <2>. QED BY <2>1, <2>2
  <1>16. Sheets(grown, q)
    BY <1>6, <1>13, <1>14, <1>15 DEF Sheets, S
  <1>. QED BY <1>16 DEF grown, more, q

\* What the entries of the first n units are.
Grown(entries, n) ==
    CASE Tool = "merge_pdf" -> Merged(entries, n)
      [] Tool = "alternate_mix" -> Mixed(entries, n)
      [] Tool = "pdf_to_excel" -> Sheets(entries, n)

LEMMA SameGrown ==
    call' = call =>
        /\ Tool' = Tool /\ ManyPlan' = ManyPlan /\ (BothGiven' <=> BothGiven)
        /\ \A list, n : Rest(list, n)' <=> Rest(list, n)
        /\ \A list, n : Grown(list, n)' <=> Grown(list, n)
        /\ PagesOfDoc(1)' = PagesOfDoc(1)
  <1> SUFFICES ASSUME call' = call
               PROVE  /\ Tool' = Tool /\ ManyPlan' = ManyPlan /\ (BothGiven' <=> BothGiven)
                      /\ \A list, n : Rest(list, n)' <=> Rest(list, n)
                      /\ \A list, n : Grown(list, n)' <=> Grown(list, n)
                      /\ PagesOfDoc(1)' = PagesOfDoc(1)
    OBVIOUS
  <1>1. Tool' = Tool /\ docs' = docs /\ total' = total
    BY DEF Tool, docs, total, Total
  <1>2. \A d : Total(d)' = Total(d) /\ PagesOfDoc(d)' = PagesOfDoc(d)
    BY DEF docs, Total, PagesOfDoc
  <1>3. OneByOne(PagesOfDoc(1))' = OneByOne(PagesOfDoc(1))
    BY DEF OneByOne, PagesOfDoc, Total, docs
  <1>4. Interleaved' = Interleaved
    BY DEF Interleaved, Total, docs
  <1>5. ManyPlan' = ManyPlan
    BY <1>1, <1>2, <1>3, <1>4 DEF ManyPlan
  <1>6. \A list, n : Rest(list, n)' <=> Rest(list, n)
    BY <1>5 DEF Rest
  <1>7. \A list, n : Merged(list, n)' <=> Merged(list, n)
    BY <1>2 DEF Merged
  <1>8. \A list, n : Mixed(list, n)' <=> Mixed(list, n)
    BY DEF Mixed, Shorter, LongerDoc, Taken, Total, docs
  <1>9. \A list, n : Sheets(list, n)' <=> Sheets(list, n)
    BY <1>1 DEF Sheets
  <1>10. \A list, n : Grown(list, n)' <=> Grown(list, n)
    BY <1>1, <1>7, <1>8, <1>9 DEF Grown
  <1>. QED BY <1>1, <1>2, <1>5, <1>6, <1>10 DEF BothGiven

LEMMA ManyAreListed ==
    ASSUME call \in Calls, Tool \in ByMany, BothGiven
    PROVE  /\ Len(ManyPlan) \in Nat
           /\ ManyPlan \in Seq({ManyPlan[k] : k \in 1 .. Len(ManyPlan)})
           /\ Tool = "merge_pdf" => Len(ManyPlan) = Len(docs)
           /\ Tool = "alternate_mix" => Len(ManyPlan) = Total(LongerDoc)
           /\ Tool = "pdf_to_excel" => Len(ManyPlan) = total
  <1>1. CASE Tool = "merge_pdf"
    <2>1. Len(docs) \in Nat /\ DOMAIN docs = 1 .. Len(docs)
      <3>1. Tool \in PageTool
        BY <1>1 DEF PageTool, PageDocs
      <3>. QED BY <3>1, TotalsAre
    <2>2. ManyPlan = [d \in 1 .. Len(docs) |-> ManyPlan[d]]
      BY <1>1, <2>1 DEF ManyPlan
    <2>. QED BY <1>1, <2>1, <2>2, ListOf
  <1>2. CASE Tool = "alternate_mix"
    <2>1. /\ Total(LongerDoc) \in Nat
          /\ Interleaved = [k \in 1 .. Total(LongerDoc) |-> Interleaved[k]]
      BY <1>2, TurnsMix DEF BothGiven
    <2>2. ManyPlan = Interleaved
      BY <1>2 DEF ManyPlan
    <2>. QED BY <1>2, <2>1, <2>2, ListOf
  <1>3. CASE Tool = "pdf_to_excel"
    <2>1. total \in Nat
      BY <1>3, TablesAre
    <2>2. ManyPlan = [k \in 1 .. total |-> ManyPlan[k]]
      BY <1>3 DEF ManyPlan, OneByOne, PagesOfDoc, total
    <2>. QED BY <1>3, <2>1, <2>2, ListOf
  <1>. QED BY <1>1, <1>2, <1>3 DEF ByMany

LEMMA GrownStarts ==
    ASSUME call \in Calls, Tool \in ByMany, BothGiven
    PROVE  Grown(<<>>, 0) /\ Rest(ManyPlan, 0)
  <1>1. Rest(ManyPlan, 0)
    <2> DEFINE n == Len(ManyPlan)
               S == {ManyPlan[k] : k \in 1 .. n}
    <2>1. n \in Nat /\ ManyPlan \in Seq(S)
      BY ManyAreListed
    <2> HIDE DEF S, n
    <2>2. 0 \in 0 .. n /\ n = n - 0 /\ \A e \in 1 .. n : 0 + e = e
      BY <2>1
    <2>. QED BY <2>1, <2>2 DEF Rest, S, n
  <1>2. CASE Tool = "merge_pdf"
    <2>1. Merged(<<>>, 0)
      BY DEF Merged
    <2>. QED BY <1>1, <1>2, <2>1 DEF Grown
  <1>3. CASE Tool = "alternate_mix"
    <2>1. Shorter \in Nat
      BY <1>3, TurnsMix DEF BothGiven, Shorter
    <2>2. Mixed(<<>>, 0)
      BY <2>1 DEF Mixed
    <2>. QED BY <1>1, <1>3, <2>2 DEF Grown
  <1>4. CASE Tool = "pdf_to_excel"
    <2>1. Sheets(<<>>, 0)
      BY DEF Sheets
    <2>. QED BY <1>1, <1>4, <2>1 DEF Grown
  <1>. QED BY <1>2, <1>3, <1>4 DEF ByMany

LEMMA GrownGrows ==
    ASSUME call \in Calls, Tool \in ByMany, BothGiven, NEW n, NEW left, NEW entries,
           Rest(left, n), Grown(entries, n), left # <<>>
    PROVE  /\ Rest(Tail(left), n + 1) /\ Grown(entries \o EntriesOf(Head(left)), n + 1)
  <1> DEFINE last == Len(ManyPlan)
             S == {ManyPlan[k] : k \in 1 .. last}
             rest == Tail(left)
  <1>1. last \in Nat
    BY ManyAreListed
  <1>2. /\ left \in Seq(S) /\ n \in 0 .. last /\ Len(left) = last - n
        /\ \A e \in 1 .. Len(left) : left[e] = ManyPlan[n + e]
    BY DEF Rest
  <1> HIDE DEF S, last
  <1>3. /\ rest \in Seq(S) /\ Len(left) \in Nat /\ Len(left) > 0 /\ Len(rest) = Len(left) - 1
        /\ Head(left) = left[1] /\ \A e \in 1 .. Len(left) - 1 : rest[e] = left[e + 1]
    BY <1>2, TailIs
  <1> HIDE DEF rest
  <1>4. n \in Nat /\ n < last /\ n + 1 \in 0 .. last /\ Len(rest) = last - (n + 1)
    BY <1>1, <1>2, <1>3
  <1>5. \A e \in 1 .. Len(rest) : rest[e] = ManyPlan[(n + 1) + e]
    <2> TAKE e \in 1 .. Len(rest)
    <2>1. e + 1 \in 1 .. Len(left) /\ e \in 1 .. Len(left) - 1 /\ n + (e + 1) = (n + 1) + e
      BY <1>3, <1>4
    <2>. QED BY <1>2, <1>3, <2>1
  <1>6. Rest(rest, n + 1)
    BY <1>3, <1>4, <1>5 DEF Rest, S, last
  <1>7. Head(left) = ManyPlan[n + 1]
    <2>1. 1 \in 1 .. Len(left)
      BY <1>3
    <2>. QED BY <1>2, <1>3, <2>1
  <1>8. CASE Tool = "merge_pdf"
    <2>1. last = Len(docs) /\ DOMAIN docs = 1 .. Len(docs)
      <3>1. Tool \in PageTool
        BY <1>8 DEF PageTool, PageDocs
      <3>. QED BY <1>8, <3>1, ManyAreListed, TotalsAre DEF last
    <2>2. n + 1 \in 1 .. Len(docs)
      BY <1>1, <1>4, <2>1
    <2>3. ManyPlan[n + 1] = PagesOfDoc(n + 1)
      BY <1>8, <2>1, <2>2 DEF ManyPlan
    <2>4. EntriesOf(Head(left)) = OneByOne(PagesOfDoc(n + 1))
      BY <1>7, <1>8, <2>3 DEF EntriesOf
    <2>5. Merged(entries \o OneByOne(PagesOfDoc(n + 1)), n + 1)
      BY <1>4, <1>8, <2>1, MergedGrows DEF Grown
    <2>. QED BY <1>6, <1>8, <2>4, <2>5 DEF Grown, rest
  <1>9. CASE Tool = "alternate_mix"
    <2>1. last = Total(LongerDoc)
      BY <1>9, ManyAreListed DEF last
    <2>2. ManyPlan[n + 1] = Interleaved[n + 1]
      BY <1>9 DEF ManyPlan
    <2>3. EntriesOf(Head(left)) = OneByOne(Interleaved[n + 1])
      BY <1>7, <1>9, <2>2 DEF EntriesOf
    <2>4. Mixed(entries \o OneByOne(Interleaved[n + 1]), n + 1)
      BY <1>4, <1>9, <2>1, MixedGrows DEF Grown, BothGiven
    <2>. QED BY <1>6, <1>9, <2>3, <2>4 DEF Grown, rest
  <1>10. CASE Tool = "pdf_to_excel"
    <2>1. last = total
      BY <1>10, ManyAreListed DEF last
    <2>2. n + 1 \in 1 .. total
      BY <1>1, <1>4, <2>1
    <2>3. ManyPlan[n + 1] = <<<<1, n + 1>>>>
      BY <1>10, <2>2 DEF ManyPlan, OneByOne, PagesOfDoc, total
    <2>4. ManyPlan[n + 1][1][2] = n + 1
      BY <2>3
    <2>5. EntriesOf(Head(left)) = Tables(n + 1)
      BY <1>7, <1>10, <2>4 DEF EntriesOf
    <2>6. Sheets(entries \o Tables(n + 1), n + 1)
      BY <1>4, <1>10, <2>1, SheetsGrow DEF Grown
    <2>. QED BY <1>6, <1>10, <2>5, <2>6 DEF Grown, rest
  <1>. QED BY <1>8, <1>9, <1>10 DEF ByMany

\* What the tools that make several entries of a unit have in memory and at
\* output_path.
GrownInv ==
    /\ call \in Calls
    /\ pc = "check" => built = <<>>
    /\ Tool \in ByMany /\ pc = "work" =>
          BothGiven /\ \E n \in 0 .. Len(ManyPlan) : Rest(todo, n) /\ Grown(built, n)
    /\ Tool \in ByMany /\ file.state = "closed" =>
          /\ BothGiven
          /\ \/ Grown(Holds, Len(ManyPlan)) /\ Holds # <<>>
             \/ /\ Tool = "pdf_to_excel" /\ Holds = <<PagesOfDoc(1)>>
                /\ Grown(<<>>, Len(ManyPlan))

LEMMA GrownEnds ==
    ASSUME GrownInv, call' = call, pc' \in Settled, file' = file \/ file'.state # "closed"
    PROVE  GrownInv'
  BY SameGrown DEF GrownInv, Settled, Holds

LEMMA GrownOfOthers ==
    ASSUME GrownInv, call' = call, pc' # "check", Tool \notin ByMany
    PROVE  GrownInv'
  BY SameGrown DEF GrownInv

LEMMA PagesGrow ==
    ASSUME GrownInv, PageNext, Tool \in ByMany
    PROVE  GrownInv'
  <1>0. call \in Calls /\ Tool \in PageDocs /\ Tool \notin PageZips \cup {"pdf_to_ppt"}
    BY DEF GrownInv, ByMany, PageDocs, PageZips
  <1>1. CASE PagePlan
    <2>1. /\ call' = call /\ pc = "check" /\ pc' = "work" /\ built' = <<>> /\ file' = file
          /\ todo' = ManyPlan /\ BothGiven
      BY <1>1 DEF GrownInv, ByMany,
           PagePlan, MergePdf, SplitPdf, OrganizePdf, RemovePages, ExtractPages,
           SplitByBookmarks, SplitBySize, AlternateMix, ResizePdf, PdfToImage, PdfToHtml,
           PdfToPpt, PdfToExcel, ComparePdf, Is, Start, ManyPlan, BothGiven
    <2>2. Grown(<<>>, 0) /\ Rest(ManyPlan, 0)
      BY <1>0, <2>1, GrownStarts
    <2>3. 0 \in 0 .. Len(ManyPlan)
      BY <2>2 DEF Rest
    <2>4. Rest(todo', 0) /\ Grown(built', 0)
      BY <2>1, <2>2
    <2>. QED BY <2>1, <2>3, <2>4, SameGrown DEF GrownInv, Holds
  <1>2. CASE PageLoop
    <2>1. /\ pc = "work" /\ todo # <<>> /\ call' = call /\ pc' = "work" /\ todo' = Tail(todo)
          /\ built' = built \o EntriesOf(Head(todo)) /\ file' = file
      BY <1>2 DEF PageLoop, Pass, InMemory
    <2>2. BothGiven
      BY <2>1 DEF GrownInv
    <2>3. PICK n \in 0 .. Len(ManyPlan) : Rest(todo, n) /\ Grown(built, n)
      BY <2>1 DEF GrownInv
    <2>4. Rest(Tail(todo), n + 1) /\ Grown(built \o EntriesOf(Head(todo)), n + 1)
      BY <1>0, <2>1, <2>2, <2>3, GrownGrows
    <2>5. n + 1 \in 0 .. Len(ManyPlan)
      BY <2>4 DEF Rest
    <2>6. Rest(todo', n + 1) /\ Grown(built', n + 1)
      BY <2>1, <2>4
    <2>. QED BY <2>1, <2>2, <2>5, <2>6, SameGrown DEF GrownInv, Holds
  <1>3. CASE FinishPages
    <2>1. /\ pc = "work" /\ todo = <<>> /\ call' = call /\ pc' = "returned"
          /\ file' = Closed(Completed) /\ (Tool # "pdf_to_excel" => built # <<>>)
      BY <1>0, <1>3 DEF FinishPages, Finish, Return
    <2>2. BothGiven
      BY <2>1 DEF GrownInv
    <2>3. PICK n \in 0 .. Len(ManyPlan) : Rest(todo, n) /\ Grown(built, n)
      BY <2>1 DEF GrownInv
    <2>4. n = Len(ManyPlan)
      <3>1. Len(todo) = 0
        BY <2>1
      <3>2. Len(ManyPlan) \in Nat
        BY <1>0, <2>2, ManyAreListed
      <3>. QED BY <2>3, <3>1, <3>2 DEF Rest
    <2>5. Holds' = Completed
      BY <2>1 DEF Holds, Closed
    <2>6. CASE Tool = "pdf_to_excel" /\ built = <<>>
      <3>1. Holds' = <<PagesOfDoc(1)>>
        BY <2>5, <2>6 DEF Completed
      <3>2. Grown(<<>>, Len(ManyPlan))
        BY <2>3, <2>4, <2>6
      <3>. QED BY <1>0, <2>1, <2>2, <2>6, <3>1, <3>2, SameGrown DEF GrownInv
    <2>7. CASE built # <<>>
      <3>1. Holds' = built
        BY <2>5, <2>7 DEF Completed, ByMany
      <3>2. Grown(Holds', Len(ManyPlan)) /\ Holds' # <<>>
        BY <2>3, <2>4, <2>7, <3>1
      <3>. QED BY <1>0, <2>1, <2>2, <3>2, SameGrown DEF GrownInv
    <2>. QED BY <2>1, <2>6, <2>7
  <1>4. CASE BreakPages \/ FailPages \/ Refuse
    <2>1. call' = call /\ pc' \in Settled /\ (file' = file \/ file'.state # "closed")
      BY <1>0, <1>4, TornIsOpen
         DEF BreakPages, FailPages, Break, FailToWrite, Refuse, Settled
    <2>. QED BY <2>1, GrownEnds
  <1>5. ~ZipLoop /\ ~SizeLoop /\ ~SlideLoop
    BY <1>0 DEF ZipLoop, SizeLoop, SlideLoop, PageZips
  <1>. QED BY <1>1, <1>2, <1>3, <1>4, <1>5 DEF PageNext

LEMMA GrownInvariance == Spec => []GrownInv
  <1>1. Init => GrownInv
    BY DEF Init, GrownInv, NoFile, StaleFile
  <1>2. GrownInv /\ [Next]_vars => GrownInv'
    <2> SUFFICES ASSUME GrownInv, [Next]_vars PROVE GrownInv'
      OBVIOUS
    <2>1. CASE Next /\ Tool \in ByMany
      <3>1. Tool \in PageTool
        BY <2>1 DEF ByMany, PageTool, PageDocs
      <3>2. PageNext
        BY <2>1, <3>1, EditSteps, OptimizeSteps, ImageSteps, OfficeSteps, TextSteps, OneFamily
           DEF Next
      <3>. QED BY <2>1, <3>2, PagesGrow
    <2>2. CASE Next /\ Tool \notin ByMany
      BY <2>2, NextKeepsCall, GrownOfOthers
    <2>3. CASE UNCHANGED vars
      BY <2>3, SameGrown DEF vars, GrownInv, Holds
    <2>. QED BY <2>1, <2>2, <2>3
  <1>. QED BY <1>1, <1>2, PTL DEF Spec

LEMMA MergedIsDone ==
    ASSUME GrownInv, file.state = "closed", Tool = "merge_pdf"
    PROVE  EachAlone(AllPages)
  <1>1. Tool \in ByMany /\ Tool \in PageTool /\ call \in Calls /\ BothGiven
    BY DEF ByMany, PageTool, PageDocs, GrownInv
  <1> DEFINE n == Len(docs)
             m == Len(Holds)
  <1>2. n \in Nat /\ DOMAIN docs = 1 .. n /\ Len(ManyPlan) = n
    BY <1>1, TotalsAre, ManyAreListed
  <1>3. Merged(Holds, n)
    BY <1>1, <1>2 DEF GrownInv, Grown
  <1>4. m \in Nat /\ DOMAIN Holds = 1 .. m
    <2>1. Holds \in Seq(Alone)
      BY <1>3 DEF Merged
    <2>. QED BY <2>1
  <1> HIDE DEF n, m
  <1>5. \A k \in 1 .. m : \E d \in 1 .. n : \E p \in 1 .. Total(d) : Holds[k] = <<<<d, p>>>>
    BY <1>3 DEF Merged, m
  <1>6. \A d \in 1 .. n : \A p \in 1 .. Total(d) : \E k \in 1 .. m : Holds[k] = <<<<d, p>>>>
    BY <1>3 DEF Merged, m
  <1>7. \A i, j \in 1 .. m : i < j => Before(Holds[i][1], Holds[j][1])
    BY <1>3 DEF Merged, m
  <1>8. \A x : Len(<<x>>) = 1 /\ <<x>>[1] = x
    OBVIOUS
  <1>9. \A k \in 1 .. m : Len(Holds[k]) = 1
    BY <1>5, <1>8
  <1>10. {Holds[k][1] : k \in 1 .. m} = AllPages
    <2>1. \A x \in {Holds[k][1] : k \in 1 .. m} : x \in AllPages
      <3> TAKE x \in {Holds[k][1] : k \in 1 .. m}
      <3>1. PICK k \in 1 .. m : x = Holds[k][1]
        OBVIOUS
      <3>2. PICK d \in 1 .. n : \E p \in 1 .. Total(d) : Holds[k] = <<<<d, p>>>>
        BY <1>5
      <3>3. PICK p \in 1 .. Total(d) : Holds[k] = <<<<d, p>>>>
        BY <3>2
      <3>4. x = <<d, p>>
        BY <1>8, <3>1, <3>3
      <3>. QED BY <1>2, <3>4 DEF AllPages
    <2>2. \A x \in AllPages : x \in {Holds[k][1] : k \in 1 .. m}
      <3> TAKE x \in AllPages
      <3>1. PICK d \in 1 .. n : x \in {<<d, p>> : p \in 1 .. Total(d)}
        BY <1>2 DEF AllPages
      <3>2. PICK p \in 1 .. Total(d) : x = <<d, p>>
        BY <3>1
      <3>3. PICK k \in 1 .. m : Holds[k] = <<<<d, p>>>>
        BY <1>6
      <3>4. x = Holds[k][1]
        BY <1>8, <3>2, <3>3
      <3>. QED BY <3>4
    <2>. QED BY <2>1, <2>2
  <1>. QED BY <1>4, <1>7, <1>9, <1>10 DEF EachAlone

LEMMA MixedIsDone ==
    ASSUME GrownInv, file.state = "closed", Tool = "alternate_mix"
    PROVE  TakingTurns
  <1>1. Tool \in ByMany /\ call \in Calls /\ BothGiven /\ Len(docs) >= 2
    BY DEF ByMany, GrownInv, BothGiven
  <1>2. Total(1) \in Nat /\ Total(2) \in Nat /\ Len(ManyPlan) = Total(LongerDoc)
    BY <1>1, ManyAreListed, TurnsMix
  <1>3. Mixed(Holds, Total(LongerDoc))
    BY <1>1, <1>2 DEF GrownInv, Grown
  <1>4. Shorter = Total(3 - LongerDoc) /\ Shorter \in Nat /\ Shorter <= Total(LongerDoc)
        /\ Shorter + Total(LongerDoc) = Total(1) + Total(2)
    <2>1. CASE Total(1) > Total(2)
      <3>1. LongerDoc = 1 /\ Shorter = Total(2) /\ 3 - LongerDoc = 2
        BY <2>1 DEF LongerDoc, Shorter
      <3>. QED BY <1>2, <2>1, <3>1
    <2>2. CASE ~(Total(1) > Total(2))
      <3>1. LongerDoc = 2 /\ Shorter = Total(1) /\ 3 - LongerDoc = 1
        BY <2>2 DEF LongerDoc, Shorter
      <3>. QED BY <1>2, <2>2, <3>1
    <2>. QED BY <2>1, <2>2
  <1>5. Total(LongerDoc) \in Nat
    BY <1>2 DEF LongerDoc
  <1>6. Len(Holds) = Total(1) + Total(2)
    <2>1. Total(LongerDoc) <= Shorter => 2 * Total(LongerDoc) = Shorter + Total(LongerDoc)
      BY <1>4, <1>5
    <2>. QED BY <1>3, <1>4, <2>1 DEF Mixed
  <1>7. \A k \in 1 .. Shorter :
           Holds[2 * k - 1] = <<Taken(1, k)>> /\ Holds[2 * k] = <<Taken(2, k)>>
    BY <1>3, <1>4, <1>5 DEF Mixed
  <1>8. \A k \in Shorter + 1 .. Total(LongerDoc) : Holds[Shorter + k] = <<Taken(LongerDoc, k)>>
    BY <1>3 DEF Mixed
  <1>. QED BY <1>4, <1>6, <1>7, <1>8 DEF TakingTurns, LongerDoc

LEMMA SheetsAreDone ==
    ASSUME GrownInv, file.state = "closed", Tool = "pdf_to_excel"
    PROVE  TablesOrText
  <1>1. Tool \in ByMany /\ call \in Calls /\ BothGiven
    BY DEF ByMany, GrownInv
  <1>2. total \in Nat /\ call.tables \in [1 .. total -> Nat] /\ Len(ManyPlan) = total
    BY <1>1, TablesAre, ManyAreListed
  <1>3. CASE Grown(Holds, Len(ManyPlan)) /\ Holds # <<>>
    <2> DEFINE m == Len(Holds)
               S == {PageAlone(p) : p \in 1 .. total}
    <2>1. /\ Holds \in Seq(S)
          /\ \A k \in 1 .. m : \E p \in 1 .. total : Holds[k] = PageAlone(p)
          /\ \A p \in 1 .. total :
                Cardinality({k \in 1 .. m : Holds[k] = PageAlone(p)}) = call.tables[p]
          /\ \A i, j \in 1 .. m : i < j => Holds[i][1][2] <= Holds[j][1][2]
      BY <1>2, <1>3 DEF Grown, Sheets
    <2> HIDE DEF S
    <2>2. m \in Nat /\ DOMAIN Holds = 1 .. m /\ m # 0
      BY <1>3, <2>1
    <2> HIDE DEF m
    <2>3. HasTables
      <3>1. PICK p \in 1 .. total : Holds[1] = PageAlone(p)
        BY <2>1, <2>2
      <3> DEFINE T == {k \in 1 .. m : Holds[k] = PageAlone(p)}
      <3>2. T \in SUBSET (1 .. m) /\ T # {}
        BY <2>2, <3>1
      <3>3. IsFiniteSet(T)
        BY <2>2, <3>2, IntervalIsFinite
      <3>4. Cardinality(T) # 0
        BY <3>2, <3>3, FS_EmptySet
      <3>5. call.tables[p] # 0 /\ call.tables[p] \in Nat
        BY <1>2, <2>1, <3>4
      <3>. QED BY <3>5 DEF HasTables
    <2>4. \A p : PageAlone(p) = <<In(p)>>
      BY DEF PageAlone
    <2>. QED BY <2>1, <2>2, <2>3, <2>4 DEF TablesOrText
  <1>4. CASE Holds = <<PagesOfDoc(1)>> /\ Grown(<<>>, Len(ManyPlan))
    <2>1. \A p \in 1 .. total :
             Cardinality({k \in 1 .. Len(<<>>) : <<>>[k] = PageAlone(p)}) = call.tables[p]
      BY <1>2, <1>4 DEF Grown, Sheets
    <2>2. \A p \in 1 .. total : {k \in 1 .. Len(<<>>) : <<>>[k] = PageAlone(p)} = {}
      OBVIOUS
    <2>3. \A p \in 1 .. total : call.tables[p] = 0
      BY <2>1, <2>2, FS_EmptySet
    <2>4. ~HasTables
      BY <2>3 DEF HasTables
    <2>5. PagesOfDoc(1) = [p \in 1 .. total |-> In(p)]
      BY DEF PagesOfDoc, total, In
    <2>. QED BY <1>4, <2>4, <2>5 DEF TablesOrText
  <1>. QED BY <1>1, <1>3, <1>4 DEF GrownInv

\* What the tools that make a document of pages have saved is what was asked, or the
\* pages that organize_pdf sorts.
LEMMA PagesAreDoneAsAsked ==
    ASSUME UnitInv, GrownInv, file.state = "closed", Tool \in PageDocs
    PROVE  Delivered
  <1> USE DEF Delivered
  <1>1. AsAsked <=> PagesAsAsked
    <2>1. Tool \in PageTool
      BY DEF PageTool
    <2>. QED BY <2>1, OneFamily DEF AsAsked
  <1>2. CASE Tool = "merge_pdf"
    BY <1>1, <1>2, MergedIsDone DEF PagesAsAsked
  <1>3. CASE Tool = "alternate_mix"
    BY <1>1, <1>3, MixedIsDone DEF PagesAsAsked
  <1>4. CASE Tool = "pdf_to_excel"
    BY <1>1, <1>4, SheetsAreDone DEF PagesAsAsked
  <1>5. CASE Tool \in UnitWise
    BY <1>5, UnitPagesAreDone
  <1>. QED BY <1>2, <1>3, <1>4, <1>5 DEF PageDocs, UnitWise

-----------------------------------------------------------------------------
(* Documents made of the parts of others. *)

\* The parts of a plan come in their order, and none has more rows than there are.
LEMMA UpToKeeps ==
    ASSUME NEW n \in Int, NEW limit \in Int
    PROVE  UpTo(n, limit) \in Int /\ UpTo(n, limit) <= n
  BY DEF UpTo

PartsInOrder ==
    /\ \A i, j \in 1 .. Len(Parts) : i < j =>
          /\ Parts[i] # Parts[j]
          /\ 0 \in {Parts[i], Parts[j]} \/ Parts[i] < Parts[j]
    /\ \A k \in 1 .. Len(Parts) : Kept(Parts[k]) <= Rows(Parts[k])
    /\ Tool \in FromWord \ {"word_to_ppt"} => \E k \in 1 .. Len(Parts) : Parts[k] = 0

LEMMA WordInOrder ==
    ASSUME call \in Calls, ByParts, Tool \in FromWord
    PROVE  PartsInOrder
  <1>1. /\ call.paragraphs \in Nat /\ call.tables \in Seq(Nat)
        /\ MaxParagraphs \in Nat /\ MaxTables \in Nat /\ MaxSlides \in Nat
        /\ SlideRows \in Nat /\ SlideCount \in Nat
    BY CountsAssumption, SlideAssumption, SlidesType DEF Tool
  <1> DEFINE n == Len(call.tables)
             m == UpTo(n, MaxTables)
  <1>2. n \in Nat /\ m \in Nat /\ m <= n /\ \A k \in 1 .. n : call.tables[k] \in Nat
    BY <1>1 DEF UpTo
  <1>3. FirstParts(m) \in Seq(Nat) /\ Len(FirstParts(m)) = m
        /\ \A k \in 1 .. m : FirstParts(m)[k] = k
    BY <1>2, FirstPartsAre DEF FirstParts
  <1> HIDE DEF n, m
  <1>4. CASE Tool = "word_to_txt"
    <2>1. Parts = <<0>> /\ Kept(0) = Rows(0) /\ Rows(0) = call.paragraphs
      BY <1>4 DEF Parts, Kept, Rows, FromWord
    <2>. QED BY <1>1, <2>1 DEF PartsInOrder
  <1>5. CASE Tool = "word_to_json"
    <2>1. Parts = <<0>> \o FirstParts(m)
      BY <1>5 DEF Parts, m, n
    <2>2. Len(Parts) = m + 1 /\ \A e \in 1 .. m + 1 : Parts[e] = e - 1
      BY <1>2, <1>3, <2>1
    <2>3. /\ Rows(0) = call.paragraphs /\ Kept(0) = UpTo(call.paragraphs, MaxParagraphs)
          /\ \A k \in 1 .. n : Rows(k) = call.tables[k] /\ Kept(k) = call.tables[k]
      BY <1>2, <1>5 DEF Rows, Kept, FromWord
    <2>4. Kept(0) <= Rows(0)
      <3>1. call.paragraphs \in Int /\ MaxParagraphs \in Int
        BY <1>1
      <3>. QED BY <2>3, <3>1, UpToKeeps
    <2>5. \A k \in 1 .. m : Kept(k) <= Rows(k)
      BY <1>2, <2>3
    <2>6. \A e \in 1 .. m + 1 : Kept(Parts[e]) <= Rows(Parts[e])
      BY <1>2, <2>2, <2>4, <2>5
    <2>7. \A i, j \in 1 .. m + 1 : i < j => Parts[i] < Parts[j] /\ Parts[i] # Parts[j]
      BY <1>2, <2>2
    <2>8. 1 \in 1 .. m + 1 /\ Parts[1] = 0
      BY <1>2, <2>2
    <2>. QED BY <2>2, <2>6, <2>7, <2>8 DEF PartsInOrder
  <1>6. CASE Tool = "word_to_excel"
    <2>1. Parts = FirstParts(m) \o <<0>>
      BY <1>6 DEF Parts, m, n
    <2>2. Len(Parts) = m + 1 /\ Parts[m + 1] = 0 /\ \A e \in 1 .. m : Parts[e] = e
      BY <1>2, <1>3, <2>1
    <2>3. RowsAllowed \in Int
      BY <1>6, CountsAssumption DEF RowsAllowed, Tool
    <2>4. /\ Rows(0) = call.paragraphs /\ Kept(0) = UpTo(Rows(0), RowsAllowed)
          /\ \A k \in 1 .. n : Rows(k) = call.tables[k] /\ Kept(k) = UpTo(Rows(k), RowsAllowed)
      BY <1>2, <1>6 DEF Rows, Kept, FromWord
    <2>5. Kept(0) <= Rows(0)
      <3>1. Rows(0) \in Int
        BY <1>1, <2>4
      <3>. QED BY <2>3, <2>4, <3>1, UpToKeeps
    <2>6. \A k \in 1 .. m : Kept(k) <= Rows(k)
      <3> TAKE k \in 1 .. m
      <3>1. k \in 1 .. n /\ Rows(k) \in Int
        BY <1>2, <2>4
      <3>. QED BY <2>3, <2>4, <3>1, UpToKeeps
    <2>7. \A e \in 1 .. m + 1 : e = m + 1 \/ e \in 1 .. m
      BY <1>2
    <2>8. \A e \in 1 .. m + 1 : Kept(Parts[e]) <= Rows(Parts[e])
      BY <2>2, <2>5, <2>6, <2>7
    <2>9. \A i, j \in 1 .. m + 1 : i < j =>
             Parts[i] # Parts[j] /\ (0 \in {Parts[i], Parts[j]} \/ Parts[i] < Parts[j])
      BY <1>2, <2>2, <2>7
    <2>10. m + 1 \in 1 .. m + 1
      BY <1>2
    <2>. QED BY <2>2, <2>8, <2>9, <2>10 DEF PartsInOrder
  <1>7. CASE Tool = "word_to_ppt"
    <2> DEFINE s == UpTo(SlideCount, MaxSlides)
    <2>1. s \in Nat
      BY <1>1 DEF UpTo
    <2>2. Parts = FirstParts(s)
      BY <1>7 DEF Parts
    <2> HIDE DEF s
    <2>3. Len(Parts) = s /\ \A k \in 1 .. s : Parts[k] = k
      BY <2>1, <2>2, FirstPartsAre
    <2>4. \A k \in 1 .. s : Kept(k) <= Rows(k)
      <3> TAKE k \in 1 .. s
      <3>1. Kept(k) = Rows(k) /\ Rows(k) = UpTo(call.paragraphs - (k - 1) * SlideRows, SlideRows)
        BY <1>7 DEF Kept, Rows
      <3>2. call.paragraphs - (k - 1) * SlideRows \in Int
        BY <1>1
      <3>3. Rows(k) \in Int
        BY <1>1, <3>1, <3>2, UpToKeeps
      <3>. QED BY <3>1, <3>3
    <2>. QED BY <1>7, <2>1, <2>3, <2>4 DEF PartsInOrder
  <1>. QED BY <1>4, <1>5, <1>6, <1>7 DEF FromWord

LEMMA ExcelInOrder ==
    ASSUME call \in Calls, ByParts, Tool \in Counted \ (FromWord \cup {"excel_to_csv"})
    PROVE  PartsInOrder
  <1> DEFINE n == Len(call.sheets)
  <1>1. /\ call.sheets \in Seq(Nat) /\ n \in Nat /\ DOMAIN call.sheets = 1 .. n
        /\ \A k \in 1 .. n : call.sheets[k] \in Nat
        /\ RowLimit \in Nat /\ MaxSlides \in Nat /\ SlideRows \in Nat
    BY CountsAssumption, SlideAssumption DEF Tool
  <1>2. Tool \in {"excel_to_word", "excel_to_ppt", "excel_to_json"}
    BY DEF Counted
  <1> HIDE DEF n
  <1>3. \A k \in 1 .. n : Rows(k) \in Int /\ Kept(k) <= Rows(k)
    <2> TAKE k \in 1 .. n
    <2>1. CASE Tool = "excel_to_word"
      <3>1. RowsAllowed \in Int
        BY <2>1, CountsAssumption DEF RowsAllowed, Tool
      <3>2. Rows(k) = call.sheets[k] /\ Kept(k) = UpTo(Rows(k), RowsAllowed)
        BY <2>1 DEF Rows, Kept, FromWord
      <3>3. Rows(k) \in Int
        BY <1>1, <3>2
      <3>. QED BY <3>1, <3>2, <3>3, UpToKeeps
    <2>2. CASE Tool = "excel_to_ppt"
      <3>1. Rows(k) = call.sheets[k] /\ Kept(k) = UpTo(Rows(k), SlideRows)
        BY <2>2 DEF Rows, Kept, FromWord
      <3>2. Rows(k) \in Int /\ SlideRows \in Int /\ RowLimit \in Int
        BY <1>1, <3>1
      <3>. QED BY <3>1, <3>2, UpToKeeps
    <2>3. CASE Tool = "excel_to_json"
      <3>1. Rows(k) \in {call.sheets[k], call.sheets[k] - 1} /\ Kept(k) = UpTo(Rows(k), RowLimit)
        BY <2>3 DEF Rows, Kept, FromWord
      <3>2. Rows(k) \in Int /\ SlideRows \in Int /\ RowLimit \in Int
        BY <1>1, <3>1
      <3>. QED BY <3>1, <3>2, UpToKeeps
    <2>. QED BY <1>2, <2>1, <2>2, <2>3
  <1>4. CASE Tool \in {"excel_to_word", "excel_to_json"}
    <2>1. Parts = FirstParts(n)
      BY <1>4 DEF Parts, n
    <2>2. Len(Parts) = n /\ \A k \in 1 .. n : Parts[k] = k
      BY <1>1, <2>1, FirstPartsAre
    <2>. QED BY <1>1, <1>3, <2>2 DEF PartsInOrder, FromWord
  <1>5. CASE Tool = "excel_to_ppt"
    <2> DEFINE last == UpTo(Len(FilledSheets), MaxSlides)
    <2>1. /\ FilledSheets \in Seq(Nat)
          /\ \A k \in 1 .. Len(FilledSheets) : FilledSheets[k] \in Filled
          /\ \A i, j \in 1 .. Len(FilledSheets) : i < j => FilledSheets[i] < FilledSheets[j]
      BY FilledSheetsList
    <2>2. last \in Nat /\ last <= Len(FilledSheets) /\ Len(FilledSheets) \in Nat
      BY <1>1, <2>1 DEF UpTo
    <2>3. Parts = SubSeq(FilledSheets, 1, last)
      BY <1>5 DEF Parts
    <2> HIDE DEF last
    <2>4. \A i \in 1 .. last : i \in 1 .. Len(FilledSheets)
      BY <2>2
    <2>5. Len(Parts) = last /\ \A e \in 1 .. last : Parts[e] = FilledSheets[e]
      BY <2>1, <2>2, <2>3
    <2>6. \A e \in 1 .. last : Parts[e] \in 1 .. n /\ Parts[e] \in Nat
      BY <1>1, <2>1, <2>4, <2>5 DEF Filled
    <2>7. \A i, j \in 1 .. last : i < j => Parts[i] < Parts[j] /\ Parts[i] # Parts[j]
      <3> SUFFICES ASSUME NEW i \in 1 .. last, NEW j \in 1 .. last, i < j
                   PROVE  Parts[i] < Parts[j] /\ Parts[i] # Parts[j]
        OBVIOUS
      <3>1. Parts[i] < Parts[j]
        BY <2>1, <2>4, <2>5
      <3>. QED BY <2>6, <3>1
    <2>. QED BY <1>3, <1>5, <2>5, <2>6, <2>7 DEF PartsInOrder, FromWord
  <1>. QED BY <1>2, <1>4, <1>5

LEMMA PartsAreDone ==
    ASSUME PartsInv, ByParts, Tool # "excel_to_csv", file.state = "closed"
    PROVE  PartsAsAsked
  <1>1. SoFar(Holds) /\ Len(Holds) = Len(Parts) /\ call \in Calls
    BY DEF PartsInv
  <1>2. DOMAIN Holds = 1 .. Len(Parts)
    BY <1>1 DEF SoFar
  <1>3. \A k \in 1 .. Len(Parts) : Holds[k].part = Parts[k] /\ Holds[k].rows = Kept(Parts[k])
    <2>1. \A p : Part(p).part = p /\ Part(p).rows = Kept(p)
      BY DEF Part
    <2>. QED BY <1>1, <2>1 DEF SoFar
  <1>4. PartsInOrder
    BY <1>1, WordInOrder, ExcelInOrder DEF ByParts
  <1>5. \A i, j \in 1 .. Len(Parts) : i < j =>
           /\ Holds[i].part # Holds[j].part
           /\ 0 \in {Holds[i].part, Holds[j].part} \/ Holds[i].part < Holds[j].part
    BY <1>3, <1>4 DEF PartsInOrder
  <1>6. \A k \in 1 .. Len(Parts) : Holds[k].rows <= Rows(Holds[k].part)
    BY <1>3, <1>4 DEF PartsInOrder
  <1>7. Tool \in FromWord \ {"word_to_ppt"} => \E k \in 1 .. Len(Parts) : Holds[k].part = 0
    BY <1>3, <1>4 DEF PartsInOrder
  <1>. QED BY <1>2, <1>5, <1>6, <1>7 DEF PartsAsAsked

\* word_to_txt of a document that python-docx cannot read: LibreOffice makes one file
\* or none.
LegacyText == Tool = "word_to_txt" /\ call.legacy

ByFilter == Unit("filtered", 0)
Plainly == Unit("plain", 0)

LibreInv ==
    /\ call \in Calls
    /\ pc = "check" => built = <<>>
    /\ LegacyText /\ pc = "work" =>
          \/ todo \in {<<ByFilter, Plainly>>, <<Plainly>>} /\ built = <<>>
          \/ todo = <<>> /\ built \in {<<ByFilter>>, <<Plainly>>}
    /\ LegacyText /\ file.state = "closed" => Holds \in {<<ByFilter>>, <<Plainly>>}

LEMMA LegacyGoesOn ==
    ASSUME LibreInv, OfficeNext, LegacyText
    PROVE  LibreInv'
  <1>1. /\ call' = call /\ pc' # "check" /\ (LegacyText' <=> LegacyText)
        /\ (file' = file => Holds' = Holds)
    BY OfficeSteps DEF LegacyText, Tool, Holds
  <1>2. Tool = "word_to_txt" /\ ByLibre /\ Tool \in Counted /\ Tool \in OfficeTool
        /\ Tool \notin Converted \cup Rendered \cup Slimmed \cup Unlocked \cup Protected
        /\ Tool \notin {"edit_word", "compress_excel", "repair_excel", "excel_to_csv"}
    BY DEF LegacyText, ByLibre, Counted, FromWord, OfficeTool, Converted, Rendered, Slimmed,
           Unlocked, Protected
  <1>3. pc = "work" /\ todo # <<>> =>
          /\ Attempting /\ built = <<>>
          /\ \/ todo = <<ByFilter, Plainly>> /\ Head(todo) = ByFilter /\ Tail(todo) = <<Plainly>>
             \/ todo = <<Plainly>> /\ Head(todo) = Plainly /\ Len(todo) = 1
    <2> SUFFICES ASSUME pc = "work", todo # <<>>
                 PROVE  /\ Attempting /\ built = <<>>
                        /\ \/ todo = <<ByFilter, Plainly>> /\ Head(todo) = ByFilter
                              /\ Tail(todo) = <<Plainly>>
                           \/ todo = <<Plainly>> /\ Head(todo) = Plainly /\ Len(todo) = 1
      OBVIOUS
    <2>1. todo \in {<<ByFilter, Plainly>>, <<Plainly>>} /\ built = <<>>
      BY DEF LibreInv
    <2>2. \A x, y : Head(<<x, y>>) = x /\ Tail(<<x, y>>) = <<y>>
      OBVIOUS
    <2>3. \A x : Head(<<x>>) = x /\ Len(<<x>>) = 1
      OBVIOUS
    <2>4. Head(todo) \in {ByFilter, Plainly}
      BY <2>1, <2>2, <2>3
    <2>5. Attempting
      BY <1>2, <2>4 DEF Attempting, ByFilter, Plainly, Unit
    <2>. QED BY <2>1, <2>2, <2>3, <2>5
  <1>4. CASE BeginConversion
    <2>1. pc' = "work" /\ todo' = Attempts /\ built' = <<>> /\ file' = file
      BY <1>4 DEF BeginConversion, Requested, Start, LibreInv
    <2>2. Attempts \in {<<ByFilter, Plainly>>, <<Plainly>>}
      <3>1. CASE call.filter
        BY <3>1, JoinTwo DEF Attempts, ByFilter, Plainly
      <3>2. CASE ~call.filter
        <4>1. \A x : <<>> \o <<x>> = <<x>>
          OBVIOUS
        <4>. QED BY <3>2, <4>1 DEF Attempts, Plainly
      <3>. QED BY <3>1, <3>2
    <2>. QED BY <1>1, <2>1, <2>2 DEF LibreInv
  <1>5. CASE Convert
    <2>1. pc = "work" /\ pc' = "work" /\ todo # <<>>
      BY <1>5 DEF Convert, Attempting
    <2>2. AfterConversion = <<>>
      BY <1>2 DEF AfterConversion
    <2>3. todo' = <<>> /\ built' = <<Head(todo)>> /\ file' = file
      BY <1>2, <1>5, <2>2 DEF Convert
    <2>. QED BY <1>1, <1>3, <2>1, <2>3 DEF LibreInv
  <1>6. CASE RetryPlain
    <2>1. /\ pc = "work" /\ pc' = "work" /\ todo # <<>> /\ todo' = Tail(todo) /\ Len(todo) = 2
          /\ built' = built \o <<>> /\ file' = file
      BY <1>6 DEF RetryPlain, Attempting, Pass
    <2>2. built' = <<>> /\ todo' = <<Plainly>>
      BY <1>3, <2>1
    <2>. QED BY <1>1, <2>1, <2>2 DEF LibreInv
  <1>7. CASE FinishOffice
    <2>1. pc = "work" /\ todo = <<>> /\ pc' = "returned" /\ Holds' = built
      BY <1>7 DEF FinishOffice, Finish, Return, Closed, Holds
    <2>. QED BY <1>1, <2>1 DEF LibreInv
  <1>8. CASE ConversionFails \/ BreakOffice \/ FailOffice \/ Refuse
    <2>1. pc' = "raised"
      BY <1>8 DEF ConversionFails, BreakOffice, FailOffice, Refuse, Break, BreakZip, FailToWrite
    <2>2. \/ file' = file \/ file'.state # "closed"
          \/ pc = "work" /\ todo = <<>> /\ Holds' = built
      BY <1>2, <1>8, TornIsOpen DEF ConversionFails, BreakOffice, FailOffice, Refuse, Break,
           BreakZip, FailToWrite, Zipping, Archives, Ciphering, Holds, Closed
    <2>. QED BY <1>1, <2>1, <2>2 DEF LibreInv
  <1>9. ~WritePart
    BY <1>3 DEF WritePart, Pass
  <1>. QED BY <1>2, <1>4, <1>5, <1>6, <1>7, <1>8, <1>9
       DEF OfficeNext, ConversionRaises, BeginParts, RenderPage, Requested,
           EditWord, ReplaceHit, BeginSlimming, Unpack, UnpackFails, Unpacked, SlimImage,
           CompressExcel, TrimBook, TrimFails, Trimming, BeginCipher, Cipher, RepairExcel,
           PassThrough, RoundTrip, RoundTripping, RoundTripFails

LEMMA LibreInvariance == Spec => []LibreInv
  <1>1. Init => LibreInv
    BY DEF Init, LibreInv, NoFile, StaleFile
  <1>2. LibreInv /\ [Next]_vars => LibreInv'
    <2> SUFFICES ASSUME LibreInv, [Next]_vars PROVE LibreInv'
      OBVIOUS
    <2>1. CASE Next /\ LegacyText
      <3>1. Tool \in OfficeTool
        BY <2>1 DEF LegacyText, OfficeTool, Counted, FromWord
      <3>2. OfficeNext
        BY <2>1, <3>1, PageSteps, EditSteps, OptimizeSteps, ImageSteps, TextSteps, OneFamily
           DEF Next
      <3>. QED BY <2>1, <3>2, LegacyGoesOn
    <2>2. CASE Next /\ ~LegacyText
      BY <2>2, NextKeepsCall DEF LibreInv, LegacyText, Tool
    <2>3. CASE UNCHANGED vars
      BY <2>3 DEF vars, LibreInv, LegacyText, Tool, Holds
    <2>. QED BY <2>1, <2>2, <2>3
  <1>. QED BY <1>1, <1>2, PTL DEF Spec

\* A document that is made in memory and is at output_path is all of what was
\* asked, whatever the call, however many pages, edits or parts it has and
\* wherever its function ends: no function saves a document it has not finished.
\* Three of these functions promise more than they do; what they leave is all of
\* what they do instead: organize_pdf the pages that are named, sorted,
\* add_header_footer every stamp that fits, and remove_metadata a document without
\* its information dictionary where the XMP stream cannot be deleted.
THEOREM NoHalfDocument == Spec => []NoPartialDocument
  <1>1. UnitInv /\ GrownInv /\ PartsInv /\ LibreInv => NoPartialDocument
    <2> SUFFICES ASSUME UnitInv, GrownInv, PartsInv, LibreInv, Tool \in InMemoryTool,
                        file.state = "closed"
                 PROVE  Delivered
      BY DEF NoPartialDocument
    <2> USE DEF Delivered
    <2>1. CASE Tool \in PageDocs
      BY <2>1, PagesAreDoneAsAsked
    <2>2. CASE Tool \in EditTool
      BY <2>2, EditsAreDone
    <2>3. CASE Tool \in (Counted \ {"excel_to_csv"}) \cup {"edit_word"}
      <3>1. AsAsked <=> OfficeAsAsked
        <4>1. Tool \in OfficeTool
          BY <2>3 DEF OfficeTool
        <4>2. Tool \notin PageTool \cup EditTool \cup OptimizeTool \cup ImageTool \cup TextTool
          BY <4>1, OneFamily
        <4>. QED BY <4>1, <4>2 DEF AsAsked
      <3>2. Tool \notin Converted \cup Rendered \cup Slimmed \cup Unlocked \cup Protected
        BY <2>3 DEF Counted, FromWord, Converted, Rendered, Slimmed, Unlocked, Protected
      <3>3. CASE Tool = "edit_word"
        <4>1. ReplacedAsAsked
          BY <3>3, ReplacedIsDone
        <4>2. Tool \notin Counted
          BY <3>3 DEF Counted, FromWord
        <4>. QED BY <3>1, <3>2, <3>3, <4>1, <4>2 DEF OfficeAsAsked
      <3>4. CASE ByParts
        <4>1. PartsAsAsked
          BY <2>3, <3>4, PartsAreDone DEF ByParts, Counted, FromWord
        <4>2. Tool # "edit_word"
          BY <3>4 DEF ByParts, Counted, FromWord
        <4>. QED BY <3>1, <3>2, <3>4, <4>1, <4>2 DEF OfficeAsAsked, ByParts
      <3>5. CASE Tool \in Counted /\ ~ByParts
        <4>1. LegacyText /\ ByLibre /\ Tool # "edit_word"
          BY <3>2, <3>5 DEF ByParts, ByLibre, LegacyText
        <4>2. Holds \in {<<ByFilter>>, <<Plainly>>}
          BY <4>1 DEF LibreInv
        <4>3. Len(Holds) = 1 /\ Holds[1].does # "invalid"
          BY <4>2 DEF ByFilter, Plainly, Unit
        <4>. QED BY <3>1, <3>2, <4>1, <4>3 DEF OfficeAsAsked
      <3>. QED BY <2>3, <3>3, <3>4, <3>5
    <2>. QED BY <2>1, <2>2, <2>3 DEF InMemoryTool
  <1>. QED BY <1>1, UnitInvariance, GrownInvariance, PartsInvariance, LibreInvariance, PTL

=================================================================================
