------------------------------- MODULE MCEngines -------------------------------
(* Requests that reach every branch of every tool, on documents of a few pages. *)
EXTENDS EngineProperties

\* With StreamAbove = 2 an archive of three entries is written to the disk as it
\* grows; with MaxBytes = 10, 10 fits and 11 does not.
Small == <<3, 4, 6>>
Mixed == <<4, 6, 1, 12, 0, 2>>

Range_(a, b) == [from |-> a, to |-> b]

\* Nothing readable; out of order; below the first page, beyond the last one.
Ranges == {<<>>, <<Range_(3, 3), Range_(1, 1)>>, <<Range_(0, 2), Range_(2, 9)>>,
           <<Range_(1, 3)>>}

\* A request gives the fields of its tool; the others have these values.
PageCall(tool) ==
    [tool |-> tool, docs |-> <<Small>>, locked |-> FALSE, mode |-> "all",
     ranges |-> <<>>, action |-> "none", bookmarks |-> <<>>,
     reverse_second |-> FALSE, page_size |-> "A4", tables |-> <<0, 0, 0>>]

On(tool, d) == [PageCall(tool) EXCEPT !.docs = d]

PageCalls ==
    {On("merge_pdf", d) : d \in {<<>>, <<<<1>>, <<>>>>, <<<<1, 1>>, <<1>>, Small>>}}
    \cup {[On("merge_pdf", <<Small>>) EXCEPT !.locked = TRUE]}
    \cup {PageCall("split_pdf")}
    \cup {[PageCall("split_pdf") EXCEPT !.mode = "ranges", !.ranges = r] : r \in Ranges}
    \cup {[PageCall("organize_pdf") EXCEPT !.action = a, !.ranges = r] :
             a \in {"delete", "reorder"}, r \in Ranges}
    \cup {[PageCall(t) EXCEPT !.ranges = r] : t \in {"remove_pages", "extract_pages"},
             r \in Ranges}
    \cup {[On("split_by_bookmarks", <<<<1, 1, 1, 1, 1>>>>) EXCEPT !.bookmarks = b] :
             b \in {<<>>, <<2, 4>>, <<4, 1, 2>>, <<-1, 3, 3, 9>>, <<2, 4, 3>>}}
    \cup {On("split_by_size", <<d>>) : d \in {Small, Mixed, <<12>>}}
    \cup {[On("alternate_mix", d) EXCEPT !.reverse_second = r] :
             d \in {<<Small, <<1, 1>>>>, <<<<1>>, Small>>, <<Small>>}, r \in BOOLEAN}
    \cup {On("resize_pdf", <<d>>) : d \in {Small, <<1, 0, 1>>, <<0>>}}
    \cup {On(t, <<d>>) : t \in {"pdf_to_image", "pdf_to_html", "pdf_to_ppt"},
             d \in {<<>>, <<1, 1>>, Small}}
    \cup {[PageCall("pdf_to_excel") EXCEPT !.tables = t] :
             t \in {<<0, 0, 0>>, <<2, 0, 1>>}}
    \cup {On("compare_pdf", d) : d \in {<<Small, <<1, 1>>>>, <<<<1, 1, 1>>, <<1, 1, 1, 1>>>>}}

Op(p, does, of, blank) == [page |-> p, does |-> does, of |-> of, blank |-> blank]

Match(n, shows, early) == [n |-> n, shows |-> shows, early |-> early]

EditCall(tool) ==
    [tool |-> tool, pages |-> 3, angle |-> 90, named |-> {}, image |-> "none",
     start |-> 5, margin |-> 10, large |-> {1, 2, 3}, which |-> "all", target |-> 1,
     password |-> 8, key |-> 0, header |-> FALSE, footer |-> FALSE, narrow |-> {},
     xmp_stays |-> FALSE, widgets |-> <<>>, fields |-> {}, mode |-> "text", wanted |-> "nothing",
     matches |-> <<{}, {}, {}>>, ops |-> <<>>]

\* The second match on a page shows what the first one does; the third is only
\* found by a search for a text.
SomeMatches == <<{Match(1, "a", TRUE), Match(2, "a", FALSE), Match(3, "b", FALSE)}, {},
                 {Match(4, "b", TRUE)}>>

Widgets == <<Op(1, "fill", "name", FALSE), Op(1, "fill", "date", FALSE),
             Op(2, "fill", "name", TRUE), Op(3, "fill", "city", FALSE)>>

SomeOps == <<Op(2, "image", "i", FALSE), Op(-1, "text", "t", FALSE),
             Op(1, "highlight", "h", FALSE), Op(1, "text", "u", FALSE),
             Op(3, "annotation", "a", FALSE), Op(2, "text", "empty", TRUE)>>

EditCalls ==
    {[EditCall("rotate_pdf") EXCEPT !.named = n, !.angle = a] :
        n \in {{}, {1, 3}}, a \in {45, 180}}
    \cup {[EditCall("watermark_pdf") EXCEPT !.image = i] : i \in {"none", "valid", "invalid"}}
    \cup {EditCall("page_numbers"), EditCall("flatten_pdf")}
    \cup {[EditCall("remove_metadata") EXCEPT !.xmp_stays = x] : x \in BOOLEAN}
    \cup {[EditCall("flatten_pdf") EXCEPT !.pages = 0]}
    \cup {[EditCall("crop_pdf") EXCEPT !.large = l, !.margin = m] :
             l \in {{1, 2, 3}, {1, 3}}, m \in {-1, 10}}
    \cup {[EditCall("sign_pdf") EXCEPT !.which = w] : w \in {"all", "first", "last"}}
    \cup {[EditCall("sign_pdf") EXCEPT !.which = "page", !.target = t] : t \in {0, 2, 4}}
    \cup {[EditCall(t) EXCEPT !.password = w, !.key = k] :
             t \in {"protect_pdf", "unlock_pdf"}, w \in {0, 8, MaxPassword, MaxPassword + 1},
             k \in {0, 8}}
    \cup {[EditCall("add_header_footer") EXCEPT !.header = h, !.footer = f, !.narrow = n] :
             h \in BOOLEAN, f \in BOOLEAN,
             n \in {{}, {<<2, "header">>}, (1 .. 3) \X {"footer"}}}
    \cup {[EditCall("fill_form") EXCEPT !.widgets = Widgets, !.fields = f] :
             f \in {{}, {"name", "city", "other"}}}
    \cup {[EditCall("redact_pdf") EXCEPT !.mode = m, !.wanted = w, !.matches = SomeMatches] :
             m \in {"text", "regex", "preset", "other"}, w \in {"nothing", "unsafe", "known"}}
    \cup {[EditCall("edit_pdf") EXCEPT !.ops = o] :
             o \in {<<>>, SomeOps, SomeOps \o SomeOps,
                    <<Op(1, "text", "t", FALSE), Op(4, "text", "empty", TRUE)>>,
                    <<Op(-4, "text", "t", FALSE)>>}}

\* Five pages are all rendered, of six one is not.
OptimizeCalls ==
    {[tool |-> "compress_pdf", pages |-> n[1], size |-> n[2], features |-> n[3]] :
        n \in {<<0, 2, 0>>, <<2, 3, 1>>, <<5, 2, 0>>, <<6, 2, 0>>}}
    \cup {[tool |-> "repair_pdf", pages |-> n, opens |-> o, size |-> 2, features |-> 0] :
             n \in {0, 3}, o \in BOOLEAN}
    \cup {[tool |-> "linearize_pdf", pages |-> 3, size |-> 2, features |-> 0]}
    \cup {[tool |-> "pdf_to_pdfa", pages |-> 3, size |-> 2, features |-> 0, part |-> v,
           prefix |-> p, profile |-> q] : v \in {2, 4}, p \in BOOLEAN, q \in BOOLEAN}

Image(format, opens) ==
    [format |-> format, named |-> format, opens |-> opens, grey |-> FALSE, side |-> 40]

ImageCall(tool) ==
    [tool |-> tool, ext |-> "JPEG", inputs |-> <<Image("PNG", TRUE)>>, asked |-> 20,
     from |-> 0, direction |-> "vertical", text |-> "some", angle |-> 90]

Album == <<Image("PNG", TRUE), Image("JPEG", FALSE), Image("JPEG", TRUE),
           Image("PNG", TRUE), Image("PNG", TRUE), Image("PNG", TRUE)>>

ImageCalls ==
    {[ImageCall(t) EXCEPT !.inputs = <<i>>] :
        t \in {"flip_image", "enhance_image", "watermark_image", "add_text_image",
               "compress_image"},
        i \in {Image("PNG", TRUE), Image("JPEG", TRUE), Image("PNG", FALSE)}}
    \cup {[ImageCall("resize_image") EXCEPT !.asked = a] : a \in {0, MaxSide, MaxSide + 1}}
    \cup {[ImageCall("crop_image") EXCEPT !.from = f, !.asked = a] :
             f \in {0, 33, 40}, a \in {0, 7, 20}}
    \cup {[ImageCall("flip_image") EXCEPT !.direction = "other"],
          [ImageCall("add_text_image") EXCEPT !.text = ""]}
    \cup {[ImageCall("remove_bg") EXCEPT !.ext = e] : e \in {"PNG", "JPEG", "WEBP"}}
    \cup {[ImageCall("image_to_pdf") EXCEPT !.ext = "PDF"],
          [ImageCall("image_to_excel") EXCEPT !.ext = "XLSX"],
          [ImageCall("image_to_word") EXCEPT !.ext = "DOCX"]}
    \cup {[ImageCall("convert_image") EXCEPT !.ext = e, !.inputs = <<i>>] :
             e \in {"JPEG", "PNG", "GIF"},
             i \in {Image("PNG", TRUE), [Image("PNG", TRUE) EXCEPT !.named = "JPEG"]}}
    \cup {[ImageCall("rotate_image") EXCEPT !.angle = a] : a \in {90, 360}}
    \cup {[ImageCall("grayscale_image") EXCEPT !.inputs = <<[Image("PNG", TRUE) EXCEPT !.grey = g]>>] :
             g \in BOOLEAN}
    \cup {[ImageCall("merge_images") EXCEPT !.inputs = a] :
             a \in {Album, <<Image("PNG", FALSE)>>,
                    [k \in 1 .. 5 |-> [Image("PNG", TRUE) EXCEPT !.side = MaxSide + k]]}}
    \cup {[ImageCall("images_to_pdf") EXCEPT !.ext = "PDF", !.inputs = a] :
             a \in {Album, <<Image("PNG", TRUE)>>, <<Image("PNG", FALSE)>>}}

OfficeCall(tool) ==
    [tool |-> tool, ext |-> "other", filter |-> FALSE, legacy |-> FALSE, pages |-> 3,
     paragraphs |-> 0, tables |-> <<>>, sheets |-> <<>>, cols |-> 2, row_limit |-> 2,
     header |-> FALSE, all_sheets |-> FALSE, chosen |-> 1, text |-> "some",
     hits |-> <<>>, media |-> 2, office |-> TRUE, password |-> 8, pair |-> 8, key |-> 8]

Counts == {0, 1, 2, 3, 5}

OfficeCalls ==
    {[OfficeCall(t) EXCEPT !.filter = f] :
        t \in (Converted \cup Rendered) \ {"html_to_pdf"}, f \in BOOLEAN}
    \cup {[OfficeCall("html_to_pdf") EXCEPT !.ext = e] : e \in {"html", "other"}}
    \cup {[OfficeCall("ppt_to_jpg") EXCEPT !.pages = 1]}
    \cup {[OfficeCall("word_to_txt") EXCEPT !.legacy = l, !.paragraphs = 3] : l \in BOOLEAN}
    \cup {[OfficeCall(t) EXCEPT !.paragraphs = n, !.tables = b] :
             t \in FromWord, n \in Counts, b \in {<<>>, <<2, 0>>, <<1, 3, 1>>}}
    \cup {[OfficeCall(t) EXCEPT !.sheets = s, !.header = h] :
             t \in {"excel_to_word", "excel_to_ppt", "excel_to_json"},
             s \in {<<0>>, <<2, 3>>, <<2, 0, 1>>, <<1, 1, 0, 3>>, <<4, 1>>}, h \in BOOLEAN}
    \cup {[OfficeCall(t) EXCEPT !.sheets = <<2, 0>>, !.tables = <<0, 1>>, !.paragraphs = 1,
              !.row_limit = n] : t \in {"excel_to_word", "word_to_excel"}, n \in {-1, 0}}
    \cup {[OfficeCall("excel_to_json") EXCEPT !.sheets = <<2>>, !.cols = ColLimit + 1]}
    \cup {[OfficeCall("excel_to_csv") EXCEPT !.sheets = s, !.all_sheets = a, !.chosen = 2] :
             s \in {<<2, 5>>, <<2, 0, 1>>}, a \in BOOLEAN}
    \cup {[OfficeCall("edit_word") EXCEPT !.text = x,
              !.hits = <<Unit("run", 1), Unit("split", 2), Unit("run", 3)>>] : x \in {"", "some"}}
    \cup {[OfficeCall(t) EXCEPT !.legacy = l] : t \in Slimmed, l \in BOOLEAN}
    \cup {OfficeCall("compress_excel")}
    \cup {[OfficeCall("repair_excel") EXCEPT !.ext = e] : e \in {"xlsm", "other"}}
    \cup {[OfficeCall(t) EXCEPT !.password = w, !.pair = p, !.office = o, !.legacy = l] :
             t \in Unlocked \cup Protected, w \in {0, 8, MaxKey + 1}, p \in {8, 9},
             o \in BOOLEAN, l \in BOOLEAN}
    \cup {[OfficeCall(t) EXCEPT !.password = MaxKey] : t \in Unlocked}

\* Five megabytes are 5 here.
TextCalls ==
    {[tool |-> "edit_text_load", pages |-> n, counted |-> c, size |-> z] :
        n \in {0, 2, 3, 4}, c \in BOOLEAN, z \in {5, 6}}
    \cup {[tool |-> "edit_text_save", size |-> z] : z \in {0, 1, 5, 6}}

MCCalls ==
    PageCalls \cup EditCalls \cup OptimizeCalls \cup ImageCalls
        \cup OfficeCalls \cup TextCalls

\* The calls that are to put pages in another order.
MCReorders == {c \in PageCalls : c.tool = "organize_pdf" /\ c.action = "reorder"}

MCFormats == {"JPEG", "PNG", "WEBP", "BMP", "TIFF"}

===============================================================================
