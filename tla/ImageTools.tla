------------------------------ MODULE ImageTools ------------------------------
(***************************************************************************)
(* engines/image_engine.py: pictures, alone or several at a time.          *)
(*                                                                         *)
(* An input is a record: its format, the format its name tells (named),    *)
(* whether Pillow opens it (opens), whether it is in shades of grey, and   *)
(* the length of its side.  What the tools make shows some of the inputs,  *)
(* has a format, and may be a copy of the input's bytes.                   *)
(***************************************************************************)
EXTENDS ToolCall, SequencesExt

CONSTANTS
    Formats,    \* ALLOWED_FORMATS
    MaxSide,    \* MAX_DIMENSION
    MinCrop,    \* 8 pixels
    MaxPages,   \* Config.MAX_PDF_PAGES
    BatchSize   \* pictures per batch of images_to_pdf

ASSUME BatchAssumption == BatchSize \in Nat \ {0}

\* ctx.input_paths is a list.
ASSUME InputsAssumption ==
    /\ MaxPages \in Nat
    /\ \A c \in Calls : c.tool = "images_to_pdf" => Len(c.inputs) \in Nat

Redrawn == {"resize_image", "crop_image", "flip_image", "enhance_image",
            "watermark_image", "add_text_image"}
Rewritten == {"image_to_pdf", "image_to_excel", "image_to_word"}
MaybeCopied == {"compress_image", "convert_image", "rotate_image", "grayscale_image"}
OneImage == Redrawn \cup Rewritten \cup MaybeCopied \cup {"remove_bg"}
ImageTool == OneImage \cup {"merge_images", "images_to_pdf"}

-----------------------------------------------------------------------------
(* Pictures. *)

inputs == call.inputs

Picture(shows, format, copied) ==
    [shows |-> shows, format |-> format, copied |-> copied]

\* _ext_from_path and _save: the output's name tells the format.
Drawn(shows) == Picture(shows, call.ext, FALSE)

\* shutil.copy2: the input's bytes, under the output's name.
Copied == Picture(<<1>>, inputs[1].format, TRUE)

\* _open_image
Openable(k) == inputs[k].opens

-----------------------------------------------------------------------------
(* What each tool checks and plans. *)

Asks(tool) == pc = "check" /\ Tool = tool

\* asked: the side that the width, the height or the percentage comes to.
ResizeImage ==
    /\ Asks("resize_image") /\ Openable(1) /\ call.asked \in 1 .. MaxSide
    /\ Start(<<"save">>)

\* The region is cut at the edge of the picture.
CropImage ==
    /\ Asks("crop_image") /\ Openable(1)
    /\ call.from \in 0 .. inputs[1].side - 1 /\ call.asked > 0
    /\ LET edge == IF call.from + call.asked < inputs[1].side
                   THEN call.from + call.asked ELSE inputs[1].side
       IN  edge - call.from >= MinCrop
    /\ Start(<<"save">>)

FlipImage ==
    /\ Asks("flip_image") /\ Openable(1)
    /\ call.direction \in {"horizontal", "vertical"}
    /\ Start(<<"save">>)

EnhanceImage == Asks("enhance_image") /\ Openable(1) /\ Start(<<"save">>)

WatermarkImage == Asks("watermark_image") /\ Openable(1) /\ Start(<<"save">>)

AddTextImage ==
    /\ Asks("add_text_image") /\ Openable(1) /\ call.text # "" /\ Start(<<"save">>)

\* What rembg returns is written; a name that ends in .jpeg has it saved again.
RemoveBg ==
    /\ Asks("remove_bg") /\ Openable(1)
    /\ Start(IF call.ext = "JPEG" THEN <<"cut out", "reencode">> ELSE <<"cut out">>)

ImageToPdf ==
    /\ Asks("image_to_pdf") /\ call.ext = "PDF" /\ Openable(1) /\ Start(<<"save">>)

ImageToExcel == Asks("image_to_excel") /\ Openable(1) /\ Start(<<"save">>)

ImageToWord == Asks("image_to_word") /\ Openable(1) /\ Start(<<"save">>)

\* Saved first, and replaced by the input if that has not made it smaller.
CompressImage ==
    /\ Asks("compress_image") /\ Openable(1) /\ Start(<<"save", "compare">>)

\* An input whose name tells the format that is wanted is copied, unopened.
ConvertImage ==
    /\ Asks("convert_image") /\ call.ext \in Formats
    /\ IF inputs[1].named = call.ext THEN Start(<<"copy">>)
       ELSE Openable(1) /\ Start(<<"save">>)

\* So is one that is turned full circle.
RotateImage ==
    /\ Asks("rotate_image")
    /\ IF call.angle % 360 = 0 THEN Start(<<"copy">>)
       ELSE Openable(1) /\ Start(<<"save">>)

GrayscaleImage ==
    /\ Asks("grayscale_image") /\ Openable(1)
    /\ Start(IF inputs[1].grey THEN <<"copy">> ELSE <<"save">>)

\* A picture that cannot be opened is left out; the canvas may be four times as
\* wide as a picture.
Pasted == Ascending({k \in DOMAIN inputs : Openable(k)})

Side(k) == IF inputs[k].side > MaxSide THEN MaxSide ELSE inputs[k].side

Width == FoldSeq(LAMBDA k, w : w + Side(k), 0, Pasted)

MergeImages ==
    /\ Asks("merge_images") /\ Pasted # <<>>
    /\ Width <= 4 * MaxSide
    /\ Start(Pasted)

\* The pictures beyond MAX_PDF_PAGES are cut off, then those that cannot be
\* opened are left out; what remains is done in batches.
Bound ==
    LET last == IF Len(inputs) < MaxPages THEN Len(inputs) ELSE MaxPages
    IN  Ascending({k \in 1 .. last : Openable(k)})

Batch(k, pictures) ==
    LET end == k * BatchSize
    IN  SubSeq(pictures, (k - 1) * BatchSize + 1,
               IF end < Len(pictures) THEN end ELSE Len(pictures))

Batches(pictures) ==
    [k \in 1 .. (Len(pictures) + BatchSize - 1) \div BatchSize |-> Batch(k, pictures)]

ImagesToPdf ==
    /\ Asks("images_to_pdf") /\ call.ext = "PDF" /\ Bound # <<>>
    /\ Start(Batches(Bound))

ImagePlan ==
    /\ \/ ResizeImage \/ CropImage \/ FlipImage \/ EnhanceImage \/ WatermarkImage
       \/ AddTextImage \/ RemoveBg \/ ImageToPdf \/ ImageToExcel \/ ImageToWord
       \/ CompressImage \/ ConvertImage \/ RotateImage \/ GrayscaleImage
       \/ MergeImages \/ ImagesToPdf
    /\ UNCHANGED <<file, temps>>

-----------------------------------------------------------------------------
(* One picture. *)

ImageStep(step) == Tool \in OneImage /\ todo # <<>> /\ Head(todo) = step

SavePicture ==
    /\ ImageStep("save") /\ Pass(<<Drawn(<<1>>)>>)
    /\ file' = Closed(built')
    /\ UNCHANGED temps

CopyPicture ==
    /\ ImageStep("copy") /\ Pass(<<Copied>>)
    /\ file' = Closed(built')
    /\ UNCHANGED temps

\* rembg returns the bytes of a PNG.
CutOut == Picture(<<1>>, "PNG", FALSE)

WriteCutOut ==
    /\ ImageStep("cut out") /\ Pass(<<CutOut>>)
    /\ file' = Closed(built')
    /\ UNCHANGED temps

ReencodePicture ==
    /\ ImageStep("reencode")
    /\ pc = "work" /\ todo' = Tail(todo)
    /\ built' = <<Drawn(<<1>>)>> /\ file' = Closed(built')
    /\ UNCHANGED <<call, pc, temps>>

\* compress_image: the saved picture is smaller, or the input takes its place.
ComparePicture ==
    /\ ImageStep("compare")
    /\ pc = "work" /\ todo' = Tail(todo)
    /\ \/ UNCHANGED <<built, file>>
       \/ built' = <<Copied>> /\ file' = Closed(built')
    /\ UNCHANGED <<call, pc, temps>>

\* _check_output
FinishPicture ==
    /\ Tool \in OneImage
    /\ Finish(built)
    /\ UNCHANGED temps

BreakPicture ==
    /\ Tool \in OneImage
    /\ Break
    /\ file' \in {file, Opened(<<>>)}
    /\ UNCHANGED temps

-----------------------------------------------------------------------------
(* Several pictures. *)

\* One is opened again and pasted; if that fails, so does the call.
PastePicture ==
    /\ Tool = "merge_images"
    /\ todo # <<>> /\ Pass(<<Head(todo)>>)
    /\ InMemory(built')
    /\ UNCHANGED temps

SaveMerged ==
    /\ Tool = "merge_images"
    /\ Finish(<<Drawn(built)>>)
    /\ UNCHANGED temps

FailMerged ==
    /\ Tool = "merge_images"
    /\ \/ Break /\ UNCHANGED file
       \/ FailToWrite
    /\ UNCHANGED temps

\* images_to_pdf: the pictures of a batch become a file beside the output.
SaveBatch ==
    /\ Tool = "images_to_pdf"
    /\ todo # <<>> /\ Pass([k \in DOMAIN Head(todo) |-> Drawn(<<Head(todo)[k]>>)])
    /\ temps' = temps \cup {<<"batch", Head(todo)[1]>>}
    /\ UNCHANGED file

\* One batch is moved to the output, several are merged into it; then there are
\* no batches left.
JoinBatches ==
    /\ Tool = "images_to_pdf"
    /\ Finish(built)
    /\ temps' = {}

\* The batches that have been saved stay, and nothing removes them.
FailBatches ==
    /\ Tool = "images_to_pdf"
    /\ \/ Break /\ UNCHANGED file
       \/ FailToWrite
    /\ UNCHANGED temps

-----------------------------------------------------------------------------

ImageNext ==
    \/ ImagePlan
    \/ SavePicture \/ CopyPicture \/ WriteCutOut \/ ReencodePicture \/ ComparePicture
    \/ FinishPicture \/ BreakPicture
    \/ PastePicture \/ SaveMerged \/ FailMerged
    \/ SaveBatch \/ JoinBatches \/ FailBatches
    \/ Tool \in ImageTool /\ Refuse

===============================================================================
