--------------------------- MODULE CanvasProperties ---------------------------
(* What the visual editor owes its clients. *)
EXTENDS CanvasEditor

\* Types of all variables.
TypeOK ==
    /\ cache \in [Ids -> SUBSET Faces]
    /\ pc \in [Threads -> Saving \cup {"idle", "upload"}]
    /\ calls \in [Threads -> 0 .. MaxCalls]
    /\ request \in [Threads -> Requests \cup {NoRequest}]
    /\ temp \in [Threads -> BOOLEAN]
    /\ page \in [Threads -> Ids \cup {None}]
    /\ victim \in [Threads -> Ids \cup {None}]
    /\ alone \in [Threads -> BOOLEAN]
    /\ \A t \in Threads :
        /\ left[t] \subseteq Indices(t) /\ refused[t] \subseteq Indices(t)
        /\ touched[t] \subseteq PagesOf(t)
        /\ fonts[t] \in [PagesOf(t) -> SUBSET Faces]
        /\ text[t] \in [Indices(t) -> {"old", "gone", "new"}]

\* The changes that put text on a page of the document.
Replacements(t) ==
    {i \in Usable(changes(t)) : InRange(t, changes(t)[i].page) /\ ~changes(t)[i].blank}

\* The pages that get a page object.
Visited(t) == {changes(t)[i].page : i \in {j \in Usable(changes(t)) : InRange(t, changes(t)[j].page)}}

\* The change shows on its page.
Shown(t, i) == text[t][i] = "new"

\* It was drawn in a font its page has, or PyMuPDF refused to draw it in one;
\* not so where insert_text was asked for a font the page has not.
Tried(t, i) == Shown(t, i) \/ i \in refused[t]

\* "Surgically replace only the edited spans" (_save_canvas_sync): in a document
\* that is returned, every edited span has been drawn anew, or PyMuPDF refused
\* its text in a font that was there.
ReplacedTextIsThere ==
    \A t \in Threads : answer[t] = "pdf" => \A i \in Replacements(t) : Tried(t, i)

\* It has in a save that finds the registry empty, has no other save beside it
\* and visits at most two pages: page = doc[pno] keeps the first page's address
\* taken until the second page has one.
TwoPagesAreSafe ==
    \A t \in Threads :
        /\ answer[t] = "pdf" /\ alone[t]
        /\ Cardinality(Visited(t)) <= 2
        => \A i \in Replacements(t) : Tried(t, i)

\* A page no change names stays as it is, whatever other page numbers the
\* client sends: negative ones, ones past the end, ones that are no numbers.
OtherPagesStay ==
    \A t \in Threads : touched[t] \subseteq {changes(t)[i].page : i \in Usable(changes(t))}

\* A request that has been answered has no copy of the PDF left, unless that
\* copy could not be written.
UploadsReleased ==
    \A t \in Threads : pc[t] = "idle" /\ temp[t] => answer[t] = "lost"

\* A page whose object lies where nothing is noted is never asked for a font it
\* has not, whatever other saves embed, forget or break off meanwhile: every text
\* its changes put there is drawn, but for one PyMuPDF itself refuses.
CleanPagesShow ==
    \A t \in Threads : answer[t] = "pdf" =>
        \A i \in Replacements(t) : changes(t)[i].page \in clean[t] => Tried(t, i)

===============================================================================
