------------------------------ MODULE OfficeTools ------------------------------
(***************************************************************************)
(* engines/office_engine.py: conversions by LibreOffice, the documents     *)
(* made from the paragraphs, tables and sheets of others, and the tools    *)
(* that write an Office file again.                                        *)
(*                                                                         *)
(* A part of a document is its text (0), its k-th table or its k-th sheet; *)
(* it is abstracted to the number of its rows.                             *)
(***************************************************************************)
EXTENDS ToolCall

CONSTANTS
    MaxParagraphs,  \* _MAX_WORD_PARAGRAPHS
    MaxTables,      \* _MAX_WORD_TABLES
    RowLimit,       \* _EXCEL_ROW_LIMIT
    ColLimit,       \* _EXCEL_COL_LIMIT
    MaxSlides,      \* _MAX_PPT_SLIDES
    SlideRows,      \* _MAX_PPT_SLIDE_ROWS
    MaxKey          \* _MAX_PASSWORD_LEN

ASSUME SlideAssumption == SlideRows \in Nat \ {0}

Converted == {"word_to_pdf", "word_to_html", "excel_to_pdf", "excel_to_html",
              "ppt_to_pdf", "html_to_pdf"}
Rendered == {"word_to_jpg", "word_to_png", "excel_to_jpg", "excel_to_png", "ppt_to_jpg"}
FromWord == {"word_to_txt", "word_to_json", "word_to_excel", "word_to_ppt"}
Counted == FromWord \cup {"excel_to_word", "excel_to_ppt", "excel_to_json", "excel_to_csv"}
Slimmed == {"compress_word", "compress_ppt"}
Unlocked == {"unlock_word", "unlock_excel", "unlock_ppt"}
Protected == {"protect_word", "protect_excel", "protect_ppt"}
OfficeTool == Converted \cup Rendered \cup Counted \cup Slimmed \cup Unlocked
                \cup Protected \cup {"edit_word", "compress_excel", "repair_excel"}

\* What python-docx and openpyxl count; the one sheet that excel_to_csv writes is
\* the one that was named, if the workbook has it, or its active one.
ASSUME CountsAssumption ==
    /\ {MaxParagraphs, MaxTables, RowLimit, MaxSlides} \subseteq Nat
    /\ \A c \in Calls :
          /\ c.tool \in FromWord => c.paragraphs \in Nat /\ c.tables \in Seq(Nat)
          /\ c.tool \in Counted \ FromWord => c.sheets \in Seq(Nat)
          /\ c.tool \in {"word_to_excel", "excel_to_word"} => c.row_limit \in Int
          /\ c.tool \in Slimmed => c.media \in Nat
          /\ c.tool = "excel_to_csv" => c.chosen \in DOMAIN c.sheets

\* A hit is within a run or split over several.
ASSUME HitsAssumption ==
    \A c \in Calls : c.tool = "edit_word" =>
        c.hits \in Seq([does : {"run", "split"}, of : Nat])

Unit(does, of) == [does |-> does, of |-> of]

Units(does, n) == [k \in 1 .. n |-> Unit(does, k)]

Requested(tools) == pc = "check" /\ Tool \in tools

-----------------------------------------------------------------------------
(* _libre. *)

\* The plain format, or before it the one with an export filter, which there is
\* for PDF and the extensions the table knows.
Attempts == (IF call.filter THEN <<Unit("filtered", 0)>> ELSE <<>>) \o <<Unit("plain", 0)>>

Attempting ==
    /\ pc = "work" /\ Tool \in OfficeTool
    /\ todo # <<>> /\ Head(todo).does \in {"filtered", "plain"}

\* legacy: not a .docx, so that python-docx cannot read it.
ByLibre == Tool \in Converted \cup Rendered \/ (Tool = "word_to_txt" /\ call.legacy)

\* html_to_pdf looks at the extension first.
BeginConversion ==
    /\ Requested(OfficeTool) /\ ByLibre /\ (Tool = "html_to_pdf" => call.ext = "html")
    /\ Start(Attempts)
    /\ temps' = {"out", "profile"}
    /\ UNCHANGED file

\* What is done with the conversion: an archive of its pages, its images made
\* smaller, or nothing.
AfterConversion ==
    CASE Tool \in Rendered -> Units("page", call.pages)
      [] Tool \in Slimmed -> Units("image", call.media)
      [] OTHER -> <<>>

Convert ==
    /\ Attempting
    /\ todo' = AfterConversion
    /\ built' = IF AfterConversion = <<>> THEN <<Head(todo)>> ELSE <<>>
    /\ temps' = temps \ {"profile"}
    /\ IF Tool \in Rendered THEN OpenZip(call.pages) ELSE UNCHANGED file
    /\ UNCHANGED <<call, pc>>

\* With the filter it failed: what it has left is removed, and the plain format
\* is tried.
RetryPlain ==
    /\ Attempting /\ Len(todo) = 2 /\ Pass(<<>>)
    /\ UNCHANGED <<file, temps>>

\* It failed again, ran out of time, or made next to nothing.
ConversionFails ==
    /\ Attempting /\ Break
    /\ CleanUp
    /\ UNCHANGED file

\* What _libre raises itself, before its try: compress_word and compress_ppt call
\* it before theirs.
ConversionRaises ==
    /\ Attempting /\ Tool \in Slimmed /\ Break
    /\ temps' = temps \ {"profile"}
    /\ UNCHANGED file

RenderPage ==
    /\ Tool \in Rendered /\ ~Attempting
    /\ todo # <<>> /\ Pass(<<Head(todo)>>)
    /\ InZip(built')
    /\ UNCHANGED temps

-----------------------------------------------------------------------------
(* Documents made from the parts of others. *)

\* A plausible fault of this code, which no behaviour of Spec has: the limit is
\* reached one too early.
OneTooFew(n, limit) == IF n >= limit THEN limit - 1 ELSE n

UpTo(n, limit) == IF n > limit THEN limit ELSE n

\* Slides of SlideRows paragraphs each.
SlideCount == (call.paragraphs + SlideRows - 1) \div SlideRows

Rows(k) ==
    CASE Tool = "word_to_ppt" -> UpTo(call.paragraphs - (k - 1) * SlideRows, SlideRows)
      [] Tool \in FromWord \ {"word_to_ppt"} ->
            IF k = 0 THEN call.paragraphs ELSE call.tables[k]
      [] Tool = "excel_to_json" /\ call.header /\ call.sheets[k] > 0 -> call.sheets[k] - 1
      [] OTHER -> call.sheets[k]

\* row_limit is the client's: one below zero keeps what zero keeps.
RowsAllowed == IF call.row_limit < 0 THEN 0 ELSE call.row_limit

Kept(k) ==
    CASE Tool = "word_to_json" /\ k = 0 -> UpTo(Rows(k), MaxParagraphs)
      [] Tool \in {"word_to_excel", "excel_to_word"} -> UpTo(Rows(k), RowsAllowed)
      [] Tool = "excel_to_ppt" -> UpTo(Rows(k), SlideRows)
      [] Tool = "excel_to_json" -> UpTo(Rows(k), RowLimit)
      [] OTHER -> Rows(k)

\* excel_to_json cuts the columns, too.
Columns == IF Tool = "excel_to_json" THEN UpTo(call.cols, ColLimit) ELSE call.cols

Part(k) == [part |-> k, rows |-> Kept(k), cols |-> Columns]

FilledSheets == Ascending({k \in DOMAIN call.sheets : call.sheets[k] > 0})

FirstParts(n) == [k \in 1 .. n |-> k]

Parts ==
    CASE Tool = "word_to_txt" -> <<0>>
      [] Tool = "word_to_json" -> <<0>> \o FirstParts(UpTo(Len(call.tables), MaxTables))
      [] Tool = "word_to_excel" -> FirstParts(UpTo(Len(call.tables), MaxTables)) \o <<0>>
      [] Tool = "word_to_ppt" -> FirstParts(UpTo(SlideCount, MaxSlides))
      [] Tool = "excel_to_ppt" ->
            SubSeq(FilledSheets, 1, UpTo(Len(FilledSheets), MaxSlides))
      [] Tool = "excel_to_csv" /\ ~call.all_sheets -> <<call.chosen>>
      [] OTHER -> FirstParts(Len(call.sheets))

\* The "truncated" of the answer.
Truncated ==
    CASE Tool = "word_to_json" ->
            call.paragraphs > MaxParagraphs \/ Len(call.tables) > MaxTables
      [] Tool = "word_to_excel" ->
            \E k \in 1 .. UpTo(Len(call.tables), MaxTables) : call.tables[k] > RowsAllowed
      [] Tool = "word_to_ppt" -> SlideCount > MaxSlides
      [] Tool = "excel_to_word" -> \E k \in DOMAIN call.sheets : call.sheets[k] > RowsAllowed
      [] Tool = "excel_to_ppt" ->
            \/ Len(FilledSheets) > MaxSlides
            \/ \E k \in DOMAIN call.sheets : call.sheets[k] > SlideRows
      [] Tool = "excel_to_json" -> \E k \in DOMAIN call.sheets : Rows(k) > RowLimit
      [] OTHER -> FALSE

\* Written to output_path row by row; a sheet per entry, from a temporary file
\* that is removed before the next; or made in memory.
Streams == Tool = "excel_to_json" \/ (Tool = "excel_to_csv" /\ ~call.all_sheets)
Archives == Tool = "excel_to_csv" /\ call.all_sheets

BeginParts ==
    /\ Requested(Counted) /\ ~ByLibre
    /\ Start([k \in DOMAIN Parts |-> Unit("part", Parts[k])])
    /\ \/ Streams /\ file' = Opened(<<>>)
       \/ Archives /\ OpenZip(Len(call.sheets))
       \/ ~Streams /\ ~Archives /\ UNCHANGED file
    /\ UNCHANGED temps

WritePart ==
    /\ Tool \in Counted /\ ~Attempting
    /\ todo # <<>> /\ Pass(<<Part(Head(todo).of)>>)
    /\ \/ Streams /\ file' = Opened(built')
       \/ Archives /\ InZip(built')
       \/ ~Streams /\ ~Archives /\ InMemory(built')
    /\ UNCHANGED temps

-----------------------------------------------------------------------------
(* Office files written again. *)

\* edit_word: a text that lies within one run is replaced; one that is split
\* over several is not found.
EditWord ==
    /\ Requested({"edit_word"}) /\ call.text # ""
    /\ Start(call.hits)
    /\ UNCHANGED <<file, temps>>

ReplaceHit ==
    /\ Tool = "edit_word"
    /\ todo # <<>> /\ Pass(IF Head(todo).does = "run" THEN <<Head(todo)>> ELSE <<>>)
    /\ InMemory(built')
    /\ UNCHANGED temps

\* compress_word, compress_ppt: a .doc or .ppt is converted first.
BeginSlimming ==
    /\ Requested(Slimmed)
    /\ IF call.legacy
       THEN Start(<<Unit("plain", 0)>>) /\ temps' = {"converted", "profile"}
       ELSE Start(Units("image", call.media)) /\ UNCHANGED temps
    /\ UNCHANGED file

\* The second mkdtemp; the try whose finally removes both directories comes after.
Unpacked == Tool \in Slimmed => "work" \in temps

Unpack ==
    /\ pc = "work" /\ ~Attempting /\ ~Unpacked
    /\ temps' = temps \cup {"work"}
    /\ UNCHANGED <<call, pc, todo, built, file>>

UnpackFails ==
    /\ pc = "work" /\ ~Attempting /\ ~Unpacked /\ Break
    /\ UNCHANGED <<file, temps>>

\* An image that cannot be made smaller is left as it is.
SlimImage ==
    /\ Tool \in Slimmed /\ ~Attempting /\ Unpacked
    /\ todo # <<>> /\ \E how \in {"slim", "as it was"} : Pass(<<Unit(how, Head(todo).of)>>)
    /\ UNCHANGED <<file, temps>>

\* compress_excel: the workbook without its empty last rows becomes a .tmp.xlsx,
\* which is compressed again, or copied.
CompressExcel ==
    /\ Requested({"compress_excel"})
    /\ Start(<<Unit("trim", 0)>>)
    /\ UNCHANGED <<file, temps>>

Trimming == pc = "work" /\ Tool = "compress_excel" /\ todo # <<>>

TrimBook ==
    /\ Trimming /\ Pass(<<Head(todo)>>)
    /\ temps' = {".tmp.xlsx"}
    /\ UNCHANGED file

\* wb.save comes before the try that removes the file.
TrimFails ==
    /\ Trimming /\ Break
    /\ temps' \in {{}, {".tmp.xlsx"}}
    /\ UNCHANGED file

\* The password, the second one, the extension, the first bytes of the file.
BeginCipher ==
    /\ Requested(Unlocked \cup Protected)
    /\ call.password \in 1 .. MaxKey
    /\ call.office
    /\ Tool \in Protected => call.pair = call.password /\ ~call.legacy
    /\ Start(<<Unit("cipher", call.password)>>)
    /\ UNCHANGED <<file, temps>>

\* load_key raises on the wrong password, before the output is opened.
Cipher ==
    /\ Tool \in Unlocked \cup Protected
    /\ Tool \in Unlocked => call.key = call.password
    /\ todo # <<>> /\ Pass(<<Head(todo)>>)
    /\ file' = Opened(<<>>)
    /\ UNCHANGED temps

\* repair_excel: a workbook with macros is copied; another is read and saved by
\* openpyxl, or else converted.
RepairExcel ==
    /\ Requested({"repair_excel"})
    /\ Start(IF call.ext = "xlsm" THEN <<>> ELSE <<Unit("openpyxl", 0), Unit("plain", 0)>>)
    /\ UNCHANGED <<file, temps>>

PassThrough ==
    /\ Tool = "repair_excel" /\ built = <<>> /\ call.ext = "xlsm"
    /\ Finish(<<Unit("copy", 0)>>)
    /\ UNCHANGED temps

RoundTripping == pc = "work" /\ Tool = "repair_excel" /\ Len(todo) = 2

\* What has been saved opens again.
RoundTrip ==
    /\ RoundTripping
    /\ Return(<<Head(todo)>>)
    /\ UNCHANGED temps

\* It does not open, or nothing could be saved; it stays where it is.
RoundTripFails ==
    /\ RoundTripping /\ Pass(<<>>)
    /\ file' \in {file, Opened(<<>>), Closed(<<Unit("invalid", 0)>>)}
    /\ temps' = {"out", "profile"}

-----------------------------------------------------------------------------
(* The end. *)

Zipping == Tool \in Rendered \/ Archives
Ciphering == Tool \in Unlocked \cup Protected

\* finally; if the converted document cannot be removed, its directory stays.
CleanUpOffice ==
    CleanUp \/ (Tool \in Slimmed /\ "converted" \in temps /\ temps' = {"converted"})

BreakOffice ==
    /\ Tool \in OfficeTool /\ ~Attempting /\ ~Trimming /\ Unpacked
    /\ \/ Zipping /\ BreakZip
       \/ Ciphering /\ Break /\ file' \in {file, Opened(<<>>)}
       \/ ~Zipping /\ ~Ciphering /\ Break /\ UNCHANGED file
    /\ CleanUpOffice

FinishOffice ==
    /\ Tool \in OfficeTool /\ (Tool = "repair_excel" => built # <<>>) /\ Unpacked
    /\ Finish(built)
    /\ CleanUpOffice

\* _validate_output may also find that what has been written is too small.
FailOffice ==
    /\ Tool \in OfficeTool /\ Unpacked
    /\ \/ FailToWrite
       \/ pc = "work" /\ todo = <<>> /\ pc' = "raised" /\ file' = Closed(built)
          /\ UNCHANGED <<call, todo, built>>
    /\ CleanUpOffice

OfficeNext ==
    \/ BeginConversion \/ Convert \/ RetryPlain \/ ConversionFails \/ ConversionRaises
    \/ RenderPage
    \/ BeginParts \/ WritePart
    \/ EditWord \/ ReplaceHit
    \/ BeginSlimming \/ Unpack \/ UnpackFails \/ SlimImage
    \/ CompressExcel \/ TrimBook \/ TrimFails
    \/ BeginCipher \/ Cipher
    \/ RepairExcel \/ PassThrough \/ RoundTrip \/ RoundTripFails
    \/ BreakOffice \/ FinishOffice \/ FailOffice
    \/ Tool \in OfficeTool /\ Refuse

===============================================================================
