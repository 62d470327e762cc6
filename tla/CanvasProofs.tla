----------------------------- MODULE CanvasProofs -----------------------------
(***************************************************************************)
(* What CanvasProperties states of the visual editor, for any number of    *)
(* threads and addresses and for any requests.                             *)
(***************************************************************************)
EXTENDS CanvasProperties, FiniteSetTheorems, TLAPS

Editing == {"redact", "insert"}

\* A function of the threads, of whatever values.
IsFor(f) == f = [t \in Threads |-> f[t]]

\* What the threads share, and the types that hang on no other variable.
SharedInv ==
    /\ cache \in [Ids -> SUBSET Faces]
    /\ pc \in [Threads -> Saving \cup {"idle", "upload"}]
    /\ calls \in [Threads -> 0 .. MaxCalls]
    /\ request \in [Threads -> Requests \cup {NoRequest}]
    /\ temp \in [Threads -> BOOLEAN]
    /\ page \in [Threads -> Ids \cup {None}]
    /\ victim \in [Threads -> Ids \cup {None}]
    /\ alone \in [Threads -> BOOLEAN]
    /\ IsFor(todo) /\ IsFor(pno) /\ IsFor(left) /\ IsFor(text)
    /\ IsFor(touched) /\ IsFor(fonts) /\ IsFor(refused) /\ IsFor(answer) /\ IsFor(clean)

\* Two threads hold page objects at two addresses.
AddressInv ==
    \A t, u \in Threads : t # u /\ page[t] \in Ids => page[u] # page[t]

\* The types of a thread's variables that depend on its request.
ShapeInv(t) ==
    /\ left[t] \subseteq Indices(t) /\ refused[t] \subseteq Indices(t)
    /\ touched[t] \subseteq PagesOf(t)
    /\ fonts[t] \in [PagesOf(t) -> SUBSET Faces]
    /\ text[t] \in [Indices(t) -> {"old", "gone", "new"}]

\* A thread that edits a page has its object, and only changes of that page.
PageInv(t) ==
    pc[t] \in Editing =>
        /\ page[t] \in Ids /\ pno[t] \in PagesOf(t)
        /\ \A i \in left[t] : i \in Usable(changes(t)) /\ changes(t)[i].page = pno[t]

\* Of a clean page, every face that is noted has a font under its alias.
FontInv(t) ==
    pc[t] \in Editing /\ pno[t] \in clean[t] =>
        \A f \in cache[page[t]] : Embedded(t, Alias(f)) # {}

\* What has been done on clean pages has been tried; the rest is still to be
\* inserted.
ShownInv(t) ==
    /\ pc[t] = "upload" => clean[t] = {} /\ answer[t] = "none"
    /\ pc[t] \in {"visit"} \cup Editing \/ answer[t] = "pdf" =>
         \A i \in Replacements(t) :
            changes(t)[i].page \in clean[t] =>
                Tried(t, i) \/ (pc[t] \in Editing /\ i \in left[t])
    /\ answer[t] = "pdf" => pc[t] \notin {"visit"} \cup Editing

\* Only pages of changes are touched, and an answered request has no copy.
TraceInv(t) ==
    /\ touched[t] \subseteq {changes(t)[i].page : i \in Usable(changes(t))}
    /\ pc[t] = "idle" /\ temp[t] => answer[t] = "lost"
    /\ pc[t] = "pop" => victim[t] \in Ids
    /\ pc[t] \in {"idle", "upload"} => left[t] = {}

ThreadInv(t) ==
    ShapeInv(t) /\ PageInv(t) /\ FontInv(t) /\ ShownInv(t) /\ TraceInv(t)

IInv == SharedInv /\ AddressInv /\ \A t \in Threads : ThreadInv(t)

-----------------------------------------------------------------------------
(* One thread's step and the others. *)

\* Everything of thread u is as before.
Same(u) ==
    /\ pc'[u] = pc[u] /\ request'[u] = request[u] /\ temp'[u] = temp[u]
    /\ page'[u] = page[u] /\ pno'[u] = pno[u] /\ left'[u] = left[u]
    /\ text'[u] = text[u] /\ touched'[u] = touched[u] /\ fonts'[u] = fonts[u]
    /\ refused'[u] = refused[u]
    /\ answer'[u] = answer[u] /\ clean'[u] = clean[u] /\ victim'[u] = victim[u]

\* A thread of which nothing changes keeps its invariant while the entry of its
\* page stays or is forgotten.
LEMMA Frame ==
  ASSUME SharedInv, NEW u \in Threads, ThreadInv(u), Same(u),
         page[u] \in Ids => cache'[page[u]] \in {cache[page[u]], {}}
  PROVE  ThreadInv(u)'
<1> USE DEF Same
<1>1. ShapeInv(u)'
  BY DEF ThreadInv, ShapeInv, Indices, changes, PagesOf
<1>2. PageInv(u)'
  BY DEF ThreadInv, PageInv, Usable, changes, PagesOf
<1>3. FontInv(u)'
  BY DEF ThreadInv, PageInv, FontInv, Embedded
<1>4. ShownInv(u)'
  BY DEF ThreadInv, ShownInv, Replacements, InRange, PagesOf, Shown, Tried, Usable, changes
<1>5. TraceInv(u)'
  BY DEF ThreadInv, TraceInv, Usable, changes
<1> QED
  BY <1>1, <1>2, <1>3, <1>4, <1>5 DEF ThreadInv

\* A thread's step leaves everything of the other threads as it is.
LEMMA StepsAreOwn ==
  ASSUME SharedInv, NEW t \in Threads, NEW u \in Threads \ {t}, Step(t)
  PROVE  Same(u)
<1> USE DEF SharedInv, IsFor, Same, Go, Answer, Removed, upload, edit, output, past
<1>1. ASSUME NEW r \in Requests, TakeUpload(t, r) PROVE Same(u)
  BY <1>1 DEF TakeUpload
<1>2. CASE CopyFails(t) \/ RefuseFile(t) \/ RefuseChanges(t) \/ OpenFails(t)
  BY <1>2 DEF CopyFails, RefuseFile, RefuseChanges, OpenFails
<1>3. CASE Parse(t)
  BY <1>3 DEF Parse
<1>4. CASE OpenDocument(t)
  BY <1>4 DEF OpenDocument
<1>5. CASE SkipPage(t)
  BY <1>5 DEF SkipPage
<1>6. CASE LoadPage(t)
  BY <1>6 DEF LoadPage
<1>7. CASE Redact(t)
  BY <1>7 DEF Redact
<1>8. ASSUME NEW i \in Indices(t), InsertNothing(t, i) \/ InsertNoted(t, i) PROVE Same(u)
  BY <1>8 DEF InsertNothing, InsertNoted, Inserted, InsertText
<1>9. ASSUME NEW i \in Indices(t), InsertNew(t, i) PROVE Same(u)
  BY <1>9 DEF InsertNew, Inserted, InsertText, Note, Embed
<1>10. ASSUME NEW i \in Indices(t), BadChange(t, i) PROVE Same(u)
  BY <1>10 DEF BadChange, Leave, Note, Embed
<1>11. CASE Save(t) \/ Raise(t)
  BY <1>11 DEF Save, Raise, Leave
<1>12. CASE NamePage(t) \/ ForgetPage(t) \/ Finally(t)
  BY <1>12 DEF NamePage, ForgetPage, Finally
<1> QED
  BY <1>1, <1>2, <1>3, <1>4, <1>5, <1>6, <1>7, <1>8, <1>9, <1>10, <1>11, <1>12 DEF Step

\* Faces are noted under the address of one's own page only.
LEMMA OthersKeepFonts ==
  ASSUME SharedInv, AddressInv, \A v \in Threads : PageInv(v), NEW t \in Threads,
         Step(t), NEW u \in Threads \ {t}, page[u] \in Ids
  PROVE  cache'[page[u]] \in {cache[page[u]], {}}
<1> USE DEF SharedInv, upload, edit, output, past
<1>1. ASSUME NEW i \in Indices(t), InsertNew(t, i) \/ BadChange(t, i)
      PROVE  cache'[page[u]] = cache[page[u]]
  <2>1. page[t] # page[u]
    BY DEF AddressInv
  <2> QED
    BY <1>1, <2>1 DEF InsertNew, BadChange, Note
<1>2. CASE ForgetPage(t)
  BY <1>2 DEF ForgetPage
<1>3. ASSUME NEW i \in Indices(t), InsertNothing(t, i) \/ InsertNoted(t, i)
      PROVE  cache' = cache
  BY <1>3 DEF InsertNothing, InsertNoted
<1>4. ASSUME \/ \E r \in Requests : TakeUpload(t, r)
             \/ CopyFails(t) \/ RefuseFile(t) \/ RefuseChanges(t) \/ Parse(t)
             \/ OpenFails(t) \/ OpenDocument(t) \/ SkipPage(t) \/ LoadPage(t)
             \/ Redact(t) \/ Save(t) \/ Raise(t) \/ NamePage(t) \/ Finally(t)
      PROVE  cache' = cache
  BY <1>4 DEF TakeUpload, CopyFails, RefuseFile, RefuseChanges, Parse, OpenFails,
     OpenDocument, SkipPage, LoadPage, Redact, Save, Raise, Leave, NamePage, Finally
<1> QED
  BY <1>1, <1>2, <1>3, <1>4 DEF Step

-----------------------------------------------------------------------------
(* Types and addresses. *)

\* What every request has, the empty one included.
LEMMA RequestFacts ==
  ASSUME SharedInv, NEW t \in Threads
  PROVE  /\ request[t].pages \in Nat
         /\ \A i \in Indices(t) : changes(t)[i].face \in Faces
<1>1. CASE request[t] = NoRequest
  <2>1. request[t].changes = << >> /\ request[t].pages = 0
    BY <1>1 DEF NoRequest
  <2>2. Indices(t) = {}
    BY <2>1 DEF Indices, changes
  <2> QED
    BY <2>1, <2>2
<1>2. CASE request[t] \in Requests
  BY <1>2, RequestsAssumption DEF Indices, changes
<1> QED
  BY <1>1, <1>2 DEF SharedInv

\* The types that hang on no other variable are kept.
LEMMA SharedKept ==
  ASSUME SharedInv, NEW t \in Threads, PageInv(t), TraceInv(t), Step(t)
  PROVE  SharedInv'
<1> USE BoundsAssumption DEF SharedInv, IsFor, Go, Answer, Removed, upload, edit, output, past, Saving
<1>1. ASSUME NEW r \in Requests, TakeUpload(t, r) PROVE SharedInv'
  <2>1. calls' \in [Threads -> 0 .. MaxCalls]
    BY <1>1 DEF TakeUpload
  <2>2. request' \in [Threads -> Requests \cup {NoRequest}] /\ temp' \in [Threads -> BOOLEAN]
    BY <1>1 DEF TakeUpload
  <2>3. IsFor(text') /\ IsFor(touched') /\ IsFor(fonts') /\ IsFor(answer') /\ IsFor(clean')
        /\ IsFor(refused')
    BY <1>1 DEF TakeUpload
  <2> QED
    BY <1>1, <2>1, <2>2, <2>3 DEF TakeUpload
<1>2. CASE CopyFails(t) \/ RefuseFile(t) \/ RefuseChanges(t) \/ OpenFails(t)
  BY <1>2 DEF CopyFails, RefuseFile, RefuseChanges, OpenFails
<1>3. CASE Parse(t)
  BY <1>3 DEF Parse
<1>4. CASE OpenDocument(t)
  BY <1>4 DEF OpenDocument
<1>5. CASE SkipPage(t)
  BY <1>5 DEF SkipPage
<1>6. CASE LoadPage(t)
  <2>1. PICK p \in Upcoming(t), id \in Fresh :
          /\ page' = [page EXCEPT ![t] = id]
          /\ pno' = [pno EXCEPT ![t] = Numbered(t, p)]
          /\ clean' = [clean EXCEPT ![t] = IF cache[id] = {} THEN @ \cup {Numbered(t, p)}
                                                         ELSE @ \ {Numbered(t, p)}]
          /\ left' = [left EXCEPT ![t] = {i \in Usable(changes(t)) : changes(t)[i].page = p}]
          /\ todo' = [todo EXCEPT ![t] = @ \ {p}]
    BY <1>6 DEF LoadPage, NewId
  <2>2. page' \in [Threads -> Ids \cup {None}]
    BY <2>1 DEF Fresh
  <2>3. IsFor(pno') /\ IsFor(clean') /\ IsFor(left') /\ IsFor(todo')
    BY <2>1
  <2> QED
    BY <1>6, <2>2, <2>3 DEF LoadPage
<1>7. CASE Redact(t)
  BY <1>7 DEF Redact
<1>8. ASSUME NEW i \in Indices(t), InsertNothing(t, i) \/ InsertNoted(t, i) PROVE SharedInv'
  BY <1>8 DEF InsertNothing, InsertNoted, Inserted, InsertText
<1>9. ASSUME NEW i \in Indices(t), InsertNew(t, i) PROVE SharedInv'
  <2>1. changes(t)[i].face \in Faces /\ page[t] \in Ids
    BY <1>9, RequestFacts DEF PageInv, Editing, InsertNew
  <2>2. cache' \in [Ids -> SUBSET Faces]
    BY <1>9, <2>1 DEF InsertNew, Note
  <2> QED
    BY <1>9, <2>2 DEF InsertNew, Inserted, InsertText, Note, Embed
<1>10. ASSUME NEW i \in Indices(t), BadChange(t, i) PROVE SharedInv'
  <2>1. changes(t)[i].face \in Faces /\ page[t] \in Ids
    BY <1>10, RequestFacts DEF PageInv, Editing, BadChange
  <2>2. cache' \in [Ids -> SUBSET Faces] /\ IsFor(fonts')
    BY <1>10, <2>1 DEF BadChange, Note, Embed
  <2> QED
    BY <1>10, <2>2 DEF BadChange, Leave
<1>11. CASE Save(t) \/ Raise(t)
  BY <1>11 DEF Save, Raise, Leave
<1>12. CASE NamePage(t) \/ Finally(t)
  <2>1. CASE NamePage(t)
    <3>1. PICK p \in todo[t], id \in Fresh :
            todo' = [todo EXCEPT ![t] = @ \ {p}] /\ victim' = [victim EXCEPT ![t] = id]
      BY <2>1 DEF NamePage
    <3>2. IsFor(todo') /\ victim' \in [Threads -> Ids \cup {None}]
      BY <3>1 DEF Fresh
    <3> QED
      BY <2>1, <3>2 DEF NamePage
  <2>2. CASE Finally(t)
    <3>1. page' \in [Threads -> Ids \cup {None}] /\ IsFor(pno') /\ IsFor(left') /\ IsFor(todo')
          /\ IsFor(fonts')
      BY <2>2 DEF Finally
    <3> QED
      BY <2>2, <3>1 DEF Finally
  <2> QED
    BY <1>12, <2>1, <2>2
<1>13. CASE ForgetPage(t)
  <2>1. victim[t] \in Ids
    BY <1>13 DEF ForgetPage, TraceInv
  <2>2. cache' \in [Ids -> SUBSET Faces]
    BY <1>13, <2>1 DEF ForgetPage
  <2> QED
    BY <1>13, <2>2 DEF ForgetPage
<1> QED
  BY <1>1, <1>2, <1>3, <1>4, <1>5, <1>6, <1>7, <1>8, <1>9, <1>10, <1>11, <1>12, <1>13 DEF Step

\* A page object is made where no other thread has one.
LEMMA AddressesApart ==
  ASSUME SharedInv, AddressInv, NEW t \in Threads, Step(t), SharedInv'
  PROVE  AddressInv'
<1>1. page'[t] \in {page[t], None} \cup Fresh
  <2> USE DEF SharedInv, upload, edit, output, past
  <2>1. CASE LoadPage(t)
    BY <2>1 DEF LoadPage, NewId
  <2>2. CASE Finally(t)
    BY <2>2 DEF Finally
  <2>3. ASSUME \E i \in Indices(t) :
                  InsertNothing(t, i) \/ InsertNoted(t, i) \/ InsertNew(t, i) \/ BadChange(t, i)
        PROVE  page' = page
    BY <2>3 DEF InsertNothing, InsertNoted, InsertNew, BadChange, Leave
  <2>4. ASSUME \/ \E r \in Requests : TakeUpload(t, r)
               \/ CopyFails(t) \/ RefuseFile(t) \/ RefuseChanges(t) \/ Parse(t)
               \/ OpenFails(t) \/ OpenDocument(t) \/ SkipPage(t) \/ Redact(t)
               \/ Save(t) \/ Raise(t) \/ NamePage(t) \/ ForgetPage(t)
        PROVE  page' = page
    BY <2>4 DEF TakeUpload, CopyFails, RefuseFile, RefuseChanges, Parse, OpenFails,
       OpenDocument, SkipPage, Redact, Save, Raise, Leave, NamePage, ForgetPage
  <2> QED
    BY <2>1, <2>2, <2>3, <2>4 DEF Step
<1>2. \A u \in Threads \ {t} : page'[u] = page[u]
  BY StepsAreOwn DEF Same
<1>3. ASSUME NEW u \in Threads, NEW v \in Threads, u # v, page'[u] \in Ids
      PROVE  page'[v] # page'[u]
  <2>1. CASE u = t
    <3>1. page'[t] \in {page[t]} \cup Fresh /\ page'[v] = page[v]
      BY <1>1, <1>2, <1>3, <2>1, IdsAssumption
    <3>2. page[v] \notin Fresh
      BY <1>3, IdsAssumption DEF Fresh, Live, SharedInv
    <3> QED
      BY <1>3, <2>1, <3>1, <3>2 DEF AddressInv
  <2>2. CASE v = t
    <3>1. page'[t] \in {page[t], None} \cup Fresh /\ page'[u] = page[u]
      BY <1>1, <1>2, <1>3, <2>2
    <3>2. page[u] \notin Fresh /\ page[u] # None
      BY <1>3, <3>1, IdsAssumption DEF Fresh, Live
    <3> QED
      BY <1>3, <2>2, <3>1, <3>2 DEF AddressInv
  <2>3. CASE u # t /\ v # t
    BY <1>2, <1>3, <2>3 DEF AddressInv
  <2> QED
    BY <2>1, <2>2, <2>3
<1> QED
  BY <1>3 DEF AddressInv

-----------------------------------------------------------------------------
(* The thread that steps. *)

\* A thread that is away from the pages, or leaves them, keeps what it has done.
LEMMA Away ==
  ASSUME NEW t \in Threads, ThreadInv(t),
         request'[t] = request[t], text'[t] = text[t], touched'[t] = touched[t],
         fonts'[t] \in [PagesOf(t) -> SUBSET Faces], refused'[t] = refused[t],
         clean'[t] = clean[t], left'[t] \in {left[t], {}},
         pc'[t] \in {"finally", "pop", "idle"},
         pc'[t] = "idle" => left'[t] = {} /\ (temp'[t] => answer'[t] = "lost"),
         pc'[t] = "pop" => victim'[t] \in Ids,
         answer'[t] = "pdf" => answer[t] = "pdf" \/ pc[t] \in {"visit", "upload"},
         answer[t] = "pdf" => pc[t] \notin Editing
  PROVE  ThreadInv(t)'
<1>1. ShapeInv(t)'
  BY DEF ThreadInv, ShapeInv, Indices, changes, PagesOf
<1>2. PageInv(t)' /\ FontInv(t)'
  BY DEF PageInv, FontInv, Editing
<1>3. ShownInv(t)'
  <2>1. changes(t)' = changes(t) /\ Replacements(t)' = Replacements(t)
    BY DEF changes, Replacements, InRange, PagesOf, Usable
  <2>2. ASSUME answer'[t] = "pdf", NEW i \in Replacements(t), changes(t)[i].page \in clean[t]
        PROVE  Tried(t, i)
    BY <2>2 DEF ThreadInv, ShownInv, Editing
  <2> QED
    BY <2>1, <2>2 DEF ShownInv, Editing, Shown, Tried
<1>4. TraceInv(t)'
  BY DEF ThreadInv, TraceInv, Usable, changes
<1> QED
  BY <1>1, <1>2, <1>3, <1>4 DEF ThreadInv

\* The steps of the request before the document is open, and those after the loop.
LEMMA AwaySteps ==
  ASSUME SharedInv, NEW t \in Threads, ThreadInv(t),
         \/ CopyFails(t) \/ RefuseFile(t) \/ RefuseChanges(t) \/ Parse(t)
         \/ OpenFails(t) \/ Save(t) \/ Raise(t) \/ NamePage(t) \/ ForgetPage(t)
         \/ Finally(t) \/ \E i \in Indices(t) : BadChange(t, i)
  PROVE  ThreadInv(t)'
<1> USE DEF SharedInv, IsFor, Go, Answer, Removed, upload, edit, output, past
<1>0. answer[t] = "pdf" => pc[t] \notin {"visit"} \cup Editing
  BY DEF ThreadInv, ShownInv
<1>9. pc[t] = "upload" => left[t] = {}
  BY DEF ThreadInv, TraceInv
<1>10. fonts[t] \in [PagesOf(t) -> SUBSET Faces]
  BY DEF ThreadInv, ShapeInv
<1>1. CASE CopyFails(t) \/ RefuseFile(t) \/ RefuseChanges(t) \/ OpenFails(t)
  BY <1>0, <1>9, <1>10, <1>1, Away DEF CopyFails, RefuseFile, RefuseChanges, OpenFails
<1>2. CASE Parse(t)
  BY <1>0, <1>9, <1>10, <1>2, Away DEF Parse
<1>3. CASE Save(t)
  BY <1>0, <1>10, <1>3, Away DEF Save, Leave
<1>4. CASE Raise(t)
  BY <1>0, <1>10, <1>4, Away DEF Raise, Leave
<1>5. CASE NamePage(t)
  BY <1>0, <1>10, <1>5, Away DEF NamePage, Fresh
<1>6. CASE ForgetPage(t)
  BY <1>0, <1>10, <1>6, Away DEF ForgetPage
<1>7. CASE Finally(t)
  <2>1. fonts'[t] \in [PagesOf(t) -> SUBSET Faces]
    BY <1>7 DEF Finally
  <2> QED
    BY <1>0, <1>7, <2>1, Away DEF Finally
<1>8. ASSUME NEW i \in Indices(t), BadChange(t, i) PROVE ThreadInv(t)'
  <2>1. changes(t)[i].face \in Faces /\ pno[t] \in PagesOf(t)
    BY <1>8, RequestFacts DEF ThreadInv, PageInv, Editing, BadChange
  <2>2. fonts'[t] \in [PagesOf(t) -> SUBSET Faces]
    BY <1>8, <1>10, <2>1 DEF BadChange, Note, Embed
  <2>3. text'[t] = text[t] /\ touched'[t] = touched[t] /\ refused'[t] = refused[t]
    BY <1>8 DEF BadChange
  <2> QED
    BY <1>0, <1>8, <2>2, <2>3, Away DEF BadChange, Leave
<1> QED
  BY <1>1, <1>2, <1>3, <1>4, <1>5, <1>6, <1>7, <1>8

\* A new request, the opened document and a page that is skipped.
LEMMA OpeningSteps ==
  ASSUME SharedInv, NEW t \in Threads, ThreadInv(t),
         (\E r \in Requests : TakeUpload(t, r)) \/ OpenDocument(t) \/ SkipPage(t)
  PROVE  ThreadInv(t)'
<1> USE DEF SharedInv, IsFor, Go, Answer, Removed, upload, edit, output, past
<1>1. ASSUME NEW r \in Requests, TakeUpload(t, r) PROVE ThreadInv(t)'
  <2>1. /\ pc'[t] = "upload" /\ request'[t] = r /\ touched'[t] = {} /\ answer'[t] = "none"
        /\ text'[t] = [i \in DOMAIN r.changes |-> "old"]
        /\ fonts'[t] = [p \in 0 .. r.pages - 1 |-> {}]
        /\ clean'[t] = {} /\ left'[t] = left[t] /\ refused'[t] = {}
    BY <1>1 DEF TakeUpload
  <2>2. left[t] = {}
    BY <1>1 DEF TakeUpload, ThreadInv, TraceInv
  <2>3. ShapeInv(t)'
    BY <2>1, <2>2 DEF ShapeInv, Indices, changes, PagesOf
  <2> QED
    BY <2>1, <2>2, <2>3 DEF ThreadInv, PageInv, FontInv, ShownInv, TraceInv, Editing
<1>2. CASE OpenDocument(t)
  <2>1. /\ pc[t] = "upload" /\ pc'[t] = "visit" /\ request' = request /\ left' = left
        /\ text' = text /\ touched' = touched /\ fonts' = fonts /\ clean' = clean
        /\ answer' = answer /\ refused' = refused
    BY <1>2 DEF OpenDocument
  <2>2. ShapeInv(t)'
    BY <2>1 DEF ThreadInv, ShapeInv, Indices, changes, PagesOf
  <2>3. ShownInv(t)'
    BY <2>1 DEF ThreadInv, ShownInv
  <2>4. TraceInv(t)'
    BY <2>1 DEF ThreadInv, TraceInv, Usable, changes
  <2> QED
    BY <2>1, <2>2, <2>3, <2>4 DEF ThreadInv, PageInv, FontInv, Editing
<1>3. CASE SkipPage(t)
  BY <1>3, Frame DEF SkipPage, Same
<1> QED
  BY <1>1, <1>2, <1>3

\* A page that is loaded is clean exactly if nothing is noted under its address,
\* and all its changes are still to be made.
LEMMA LoadStep ==
  ASSUME SharedInv, NEW t \in Threads, ThreadInv(t), LoadPage(t)
  PROVE  ThreadInv(t)'
<1> USE DEF SharedInv, IsFor, upload, output
<1>1. PICK p \in Upcoming(t), id \in Fresh :
        /\ InRange(t, p)
        /\ page' = [page EXCEPT ![t] = id]
        /\ pno' = [pno EXCEPT ![t] = Numbered(t, p)]
        /\ clean' = [clean EXCEPT ![t] = IF cache[id] = {} THEN @ \cup {Numbered(t, p)}
                                                       ELSE @ \ {Numbered(t, p)}]
        /\ left' = [left EXCEPT ![t] = {i \in Usable(changes(t)) : changes(t)[i].page = p}]
  BY DEF LoadPage, NewId
<1>2. p \in PagesOf(t) /\ Numbered(t, p) = p
  BY <1>1, RequestFacts DEF InRange, PagesOf, Numbered
<1>3. /\ pc[t] = "visit" /\ pc'[t] = "redact" /\ page'[t] = id /\ pno'[t] = p
      /\ left'[t] = {i \in Usable(changes(t)) : changes(t)[i].page = p}
      /\ request' = request /\ text' = text /\ touched' = touched /\ fonts' = fonts
      /\ answer' = answer /\ cache' = cache /\ refused' = refused
      /\ clean'[t] = IF cache[id] = {} THEN clean[t] \cup {p} ELSE clean[t] \ {p}
  BY <1>1, <1>2 DEF LoadPage, Go
<1> HIDE DEF SharedInv, IsFor, upload, output
<1>4. left'[t] \subseteq Usable(changes(t)) /\ Usable(changes(t)) \subseteq Indices(t)
  BY <1>3 DEF Usable, Indices
<1>5. ShapeInv(t)'
  BY <1>3, <1>4 DEF ThreadInv, ShapeInv, Indices, changes, PagesOf
<1>6. PageInv(t)'
  BY <1>1, <1>2, <1>3 DEF PageInv, PagesOf, Usable, changes, Fresh
<1>7. FontInv(t)'
  BY <1>3 DEF FontInv
<1>8. ShownInv(t)'
  <2>1. \A i \in Replacements(t) : changes(t)[i].page \in clean'[t] =>
            Tried(t, i) \/ i \in left'[t]
    BY <1>3 DEF ThreadInv, ShownInv, Replacements, Editing
  <2>2. changes(t)' = changes(t) /\ Replacements(t)' = Replacements(t)
    BY <1>3 DEF changes, Replacements, InRange, PagesOf, Usable
  <2> QED
    BY <1>3, <2>1, <2>2 DEF ThreadInv, ShownInv, Shown, Tried, Editing
<1>9. TraceInv(t)'
  BY <1>3 DEF ThreadInv, TraceInv, Usable, changes
<1> QED
  BY <1>5, <1>6, <1>7, <1>8, <1>9 DEF ThreadInv

\* The redaction touches the page of the changes it makes, and none of their text
\* has been put there yet.
LEMMA RedactStep ==
  ASSUME SharedInv, NEW t \in Threads, ThreadInv(t), Redact(t)
  PROVE  ThreadInv(t)'
<1> DEFINE Boxes == {i \in left[t] : changes(t)[i].box}
<1> USE DEF SharedInv, IsFor, upload, edit
<1>1. /\ pc[t] = "redact" /\ pc'[t] = "insert" /\ page' = page /\ pno' = pno
      /\ left' = left /\ request' = request /\ fonts' = fonts /\ answer' = answer
      /\ clean' = clean /\ cache' = cache /\ refused' = refused
  BY DEF Redact, Go, past
<1>2. text'[t] = [i \in Indices(t) |-> IF i \in Boxes THEN "gone" ELSE text[t][i]]
  BY DEF Redact
<1>3. touched'[t] = IF Boxes = {} THEN touched[t] ELSE touched[t] \cup {pno[t]}
  BY DEF Redact
<1>4. /\ pno[t] \in PagesOf(t) /\ page[t] \in Ids
      /\ \A i \in Boxes : i \in Usable(changes(t)) /\ changes(t)[i].page = pno[t]
  BY <1>1 DEF ThreadInv, PageInv, Editing
<1> HIDE DEF SharedInv, IsFor, upload, edit
<1>5. ShapeInv(t)'
  <2>1. text'[t] \in [Indices(t) -> {"old", "gone", "new"}]
    BY <1>2 DEF ThreadInv, ShapeInv
  <2>2. touched'[t] \subseteq PagesOf(t)
    BY <1>3, <1>4 DEF ThreadInv, ShapeInv
  <2> QED
    BY <1>1, <2>1, <2>2 DEF ThreadInv, ShapeInv, Indices, changes, PagesOf
<1>6. PageInv(t)'
  BY <1>1 DEF ThreadInv, PageInv, PagesOf, Usable, changes, Editing
<1>7. FontInv(t)'
  BY <1>1 DEF ThreadInv, FontInv, Embedded, Editing
<1>8. ShownInv(t)'
  <2>1. ASSUME NEW i \in Replacements(t), changes(t)[i].page \in clean[t], i \notin left[t]
        PROVE  Tried(t, i)'
    <3>1. Tried(t, i)
      BY <1>1, <2>1 DEF ThreadInv, ShownInv, Editing
    <3>2. text'[t][i] = text[t][i]
      BY <1>2, <2>1 DEF Replacements, Usable, Indices
    <3> QED
      BY <1>1, <3>1, <3>2 DEF Shown, Tried
  <2>2. changes(t)' = changes(t) /\ Replacements(t)' = Replacements(t)
    BY <1>1 DEF changes, Replacements, InRange, PagesOf, Usable
  <2> QED
    BY <1>1, <2>1, <2>2 DEF ThreadInv, ShownInv, Editing
<1>9. TraceInv(t)'
  <2>1. touched'[t] \subseteq {changes(t)[i].page : i \in Usable(changes(t))}
    BY <1>3, <1>4 DEF ThreadInv, TraceInv
  <2> QED
    BY <1>1, <2>1 DEF TraceInv, Usable, changes
<1> QED
  BY <1>5, <1>6, <1>7, <1>8, <1>9 DEF ThreadInv

\* An insertion keeps the invariant if the change is tried, should its page be clean,
\* and the page then has a font for every face that is noted.
LEMMA Inserting ==
  ASSUME SharedInv, NEW t \in Threads, ThreadInv(t), NEW i \in Indices(t),
         pc[t] = "insert", i \in left[t], Inserted(t, i),
         request' = request, page' = page, pno' = pno, touched' = touched,
         answer' = answer, clean' = clean,
         fonts'[t] \in [PagesOf(t) -> SUBSET Faces],
         text'[t] \in [Indices(t) -> {"old", "gone", "new"}],
         refused'[t] \subseteq Indices(t), refused[t] \subseteq refused'[t],
         \A j \in Indices(t) \ {i} : text'[t][j] = text[t][j],
         pno[t] \in clean[t] =>
            /\ ~changes(t)[i].blank => text'[t][i] = "new" \/ i \in refused'[t]
            /\ \A f \in cache'[page[t]] : \E g \in fonts'[t][pno[t]] : Alias(g) = Alias(f)
  PROVE  ThreadInv(t)'
<1>1. pc'[t] \in {"visit", "insert"} /\ left'[t] = left[t] \ {i} /\ (pc'[t] = "visit" <=> left'[t] = {})
  BY DEF Inserted, Go, SharedInv, IsFor
<1>2. changes(t)' = changes(t) /\ Replacements(t)' = Replacements(t)
      /\ Usable(changes(t))' = Usable(changes(t)) /\ PagesOf(t)' = PagesOf(t)
      /\ Indices(t)' = Indices(t)
  BY DEF changes, Replacements, InRange, PagesOf, Usable, Indices
<1>3. /\ page[t] \in Ids /\ pno[t] \in PagesOf(t)
      /\ \A j \in left[t] : j \in Usable(changes(t)) /\ changes(t)[j].page = pno[t]
  BY DEF ThreadInv, PageInv, Editing
<1>4. ShapeInv(t)'
  BY <1>1, <1>2 DEF ThreadInv, ShapeInv
<1>5. PageInv(t)'
  BY <1>1, <1>2, <1>3 DEF PageInv
<1>6. FontInv(t)'
  BY DEF FontInv, Embedded
<1>7. ShownInv(t)'
  <2>1. ASSUME NEW j \in Replacements(t), changes(t)[j].page \in clean[t], j \notin left'[t]
        PROVE  text'[t][j] = "new" \/ j \in refused'[t]
    <3>1. CASE j = i
      BY <1>3, <2>1, <3>1 DEF Replacements
    <3>2. CASE j # i
      <4>1. j \notin left[t] /\ j \in Indices(t)
        BY <1>1, <2>1, <3>2 DEF Replacements, Usable, Indices
      <4>2. Tried(t, j)
        BY <2>1, <4>1 DEF ThreadInv, ShownInv, Editing
      <4> QED
        BY <3>2, <4>1, <4>2 DEF Shown, Tried
    <3> QED
      BY <3>1, <3>2
  <2>2. answer[t] # "pdf"
    BY DEF ThreadInv, ShownInv, Editing
  <2> QED
    BY <1>1, <1>2, <2>1, <2>2 DEF ShownInv, Shown, Tried, Editing
<1>8. TraceInv(t)'
  BY <1>1, <1>2 DEF ThreadInv, TraceInv
<1> QED
  BY <1>4, <1>5, <1>6, <1>7, <1>8 DEF ThreadInv

\* Each of the three ways to insert a change is such an insertion.
LEMMA InsertSteps ==
  ASSUME SharedInv, NEW t \in Threads, ThreadInv(t), NEW i \in Indices(t),
         InsertNothing(t, i) \/ InsertNoted(t, i) \/ InsertNew(t, i)
  PROVE  ThreadInv(t)'
<1> USE DEF upload
<1> DEFINE face == changes(t)[i].face
           texts == [Indices(t) -> {"old", "gone", "new"}]
<1>1. pc[t] = "insert" /\ i \in left[t]
  BY DEF InsertNothing, InsertNoted, InsertNew, Next1
<1>2. page[t] \in Ids /\ pno[t] \in PagesOf(t) /\ face \in Faces
  BY <1>1, RequestFacts DEF ThreadInv, PageInv, Editing
<1>3. /\ text[t] \in texts /\ fonts[t] \in [PagesOf(t) -> SUBSET Faces]
      /\ refused[t] \subseteq Indices(t)
  BY DEF ThreadInv, ShapeInv
<1>4. pno[t] \in clean[t] =>
        \A f \in cache[page[t]] : \E g \in fonts[t][pno[t]] : Alias(g) = Alias(f)
  BY <1>1 DEF ThreadInv, FontInv, Embedded, Editing
<1>5. ASSUME InsertText(t, i)
      PROVE  /\ text'[t] \in texts /\ refused'[t] \subseteq Indices(t)
             /\ refused[t] \subseteq refused'[t]
             /\ text'[t][i] = "new" \/ i \in refused'[t]
             /\ \A j \in Indices(t) \ {i} : text'[t][j] = text[t][j]
  <2>1. CASE text' = [text EXCEPT ![t][i] = "new"] /\ refused' = refused
    BY <1>3, <2>1 DEF SharedInv, IsFor
  <2>2. CASE refused' = [refused EXCEPT ![t] = @ \cup {i}] /\ text' = text
    BY <1>3, <2>2 DEF SharedInv, IsFor
  <2> QED
    BY <1>5, <2>1, <2>2 DEF InsertText
<1>6. CASE InsertNothing(t, i)
  BY <1>1, <1>3, <1>4, <1>6, Inserting DEF InsertNothing, output, past
<1>7. CASE InsertNoted(t, i)
  <2>1. /\ Inserted(t, i) /\ request' = request /\ page' = page /\ pno' = pno
        /\ touched' = touched /\ answer' = answer /\ clean' = clean
        /\ fonts' = fonts /\ cache' = cache /\ face \in cache[page[t]]
    BY <1>7 DEF InsertNoted, past
  <2>2. CASE InsertText(t, i)
    BY <1>1, <1>3, <1>4, <1>5, <2>1, <2>2, Inserting
  <2>3. CASE Embedded(t, Alias(face)) = {} /\ text' = text /\ refused' = refused
    <3>1. pno[t] \notin clean[t]
      BY <1>4, <2>1, <2>3 DEF Embedded
    <3> QED
      BY <1>1, <1>3, <2>1, <2>3, <3>1, Inserting
  <2> QED
    BY <1>7, <2>2, <2>3 DEF InsertNoted
<1>8. CASE InsertNew(t, i)
  <2>1. /\ Inserted(t, i) /\ request' = request /\ page' = page /\ pno' = pno
        /\ touched' = touched /\ answer' = answer /\ clean' = clean
        /\ InsertText(t, i)
    BY <1>8 DEF InsertNew, past
  <2>2. CASE Note(t, face)
    <3>1. Embed(t, face) /\ cache' = [cache EXCEPT ![page[t]] = @ \cup {face}]
      BY <2>2 DEF Note
    <3>2. /\ fonts'[t] \in [PagesOf(t) -> SUBSET Faces]
          /\ fonts[t][pno[t]] \subseteq fonts'[t][pno[t]]
          /\ \E g \in fonts'[t][pno[t]] : Alias(g) = Alias(face)
      <4>1. CASE Embedded(t, Alias(face)) # {}
        BY <1>3, <3>1, <4>1 DEF Embed, Embedded
      <4>2. CASE Embedded(t, Alias(face)) = {}
        <5>1. fonts'[t] = [fonts[t] EXCEPT ![pno[t]] = @ \cup {face}]
          BY <3>1, <4>2 DEF Embed, SharedInv, IsFor
        <5> QED
          BY <1>2, <1>3, <5>1
      <4> QED
        BY <4>1, <4>2
    <3>3. cache'[page[t]] = cache[page[t]] \cup {face}
      BY <1>2, <3>1 DEF SharedInv
    <3> QED
      BY <1>1, <1>4, <1>5, <2>1, <3>2, <3>3, Inserting
  <2>3. CASE fonts' = fonts /\ cache' = cache
    BY <1>1, <1>3, <1>4, <1>5, <2>1, <2>3, Inserting
  <2> QED
    BY <1>8, <2>2, <2>3 DEF InsertNew
<1> QED
  BY <1>6, <1>7, <1>8

-----------------------------------------------------------------------------
(* The invariant. *)

\* Every step of a thread keeps that thread's part of the invariant.
LEMMA OwnSteps ==
  ASSUME SharedInv, NEW t \in Threads, ThreadInv(t), Step(t)
  PROVE  ThreadInv(t)'
<1>1. CASE \/ CopyFails(t) \/ RefuseFile(t) \/ RefuseChanges(t) \/ Parse(t)
           \/ OpenFails(t) \/ Save(t) \/ Raise(t) \/ NamePage(t) \/ ForgetPage(t)
           \/ Finally(t) \/ \E i \in Indices(t) : BadChange(t, i)
  BY <1>1, AwaySteps
<1>2. CASE (\E r \in Requests : TakeUpload(t, r)) \/ OpenDocument(t) \/ SkipPage(t)
  BY <1>2, OpeningSteps
<1>3. CASE LoadPage(t)
  BY <1>3, LoadStep
<1>4. CASE Redact(t)
  BY <1>4, RedactStep
<1>5. ASSUME NEW i \in Indices(t),
             InsertNothing(t, i) \/ InsertNoted(t, i) \/ InsertNew(t, i)
      PROVE  ThreadInv(t)'
  BY <1>5, InsertSteps
<1> QED
  BY <1>1, <1>2, <1>3, <1>4, <1>5 DEF Step

\* Types, addresses and each thread's part are invariant together: what a thread has
\* noted under its page's address is its own only as long as no other page lies there.
THEOREM Invariance == Spec => []IInv
<1>1. Init => IInv
  <2> SUFFICES ASSUME Init PROVE IInv
    OBVIOUS
  <2>1. SharedInv
    BY BoundsAssumption DEF Init, SharedInv, IsFor, Saving
  <2>2. AddressInv
    BY IdsAssumption DEF Init, AddressInv
  <2>3. ASSUME NEW t \in Threads PROVE ThreadInv(t)
    <3>1. request[t] = NoRequest /\ NoRequest.changes = << >> /\ NoRequest.pages = 0
      BY DEF Init, NoRequest
    <3>2. PagesOf(t) = {} /\ Indices(t) = {}
      BY <3>1 DEF PagesOf, Indices, changes
    <3>3. ShapeInv(t)
      BY <3>2 DEF Init, ShapeInv
    <3> QED
      BY <3>3 DEF Init, ThreadInv, PageInv, FontInv, ShownInv, TraceInv, Editing
  <2> QED
    BY <2>1, <2>2, <2>3 DEF IInv
<1>2. IInv /\ [Next]_vars => IInv'
  <2> SUFFICES ASSUME IInv, [Next]_vars PROVE IInv'
    OBVIOUS
  <2>1. ASSUME NEW t \in Threads, Step(t) PROVE IInv'
    <3>1. SharedInv'
      BY <2>1, SharedKept DEF IInv, ThreadInv
    <3>2. AddressInv'
      BY <2>1, <3>1, AddressesApart DEF IInv
    <3>3. ASSUME NEW u \in Threads \ {t} PROVE ThreadInv(u)'
      <4>1. page[u] \in Ids => cache'[page[u]] \in {cache[page[u]], {}}
        BY <2>1, <3>3, OthersKeepFonts DEF IInv, ThreadInv
      <4> QED
        BY <2>1, <3>3, <4>1, StepsAreOwn, Frame DEF IInv
    <3>4. ThreadInv(t)'
      BY <2>1, OwnSteps DEF IInv
    <3> QED
      BY <3>1, <3>2, <3>3, <3>4 DEF IInv
  <2>2. CASE UNCHANGED vars
    <3>1. SharedInv'
      BY <2>2 DEF IInv, SharedInv, IsFor, vars, upload, edit, output, past
    <3>2. AddressInv'
      BY <2>2 DEF IInv, AddressInv, vars, edit
    <3>3. ASSUME NEW u \in Threads PROVE ThreadInv(u)'
      BY <2>2, Frame DEF IInv, Same, vars, upload, edit, output, past
    <3> QED
      BY <3>1, <3>2, <3>3 DEF IInv
  <2> QED
    BY <2>1, <2>2 DEF Next
<1> QED
  BY <1>1, <1>2, PTL DEF Spec

\* Every variable has its type.
THEOREM TypeCorrect == Spec => []TypeOK
<1>1. IInv => TypeOK
  BY DEF IInv, SharedInv, ThreadInv, ShapeInv, TypeOK
<1> QED
  BY <1>1, Invariance, PTL

\* A page whose object lies where nothing is noted is never asked for a font it has
\* not: other threads' saves, and what they leave behind, cannot spoil it, and what
\* is missing there PyMuPDF refused to draw.
THEOREM CleanPagesAreWhole == Spec => []CleanPagesShow
<1>1. IInv => CleanPagesShow
  BY DEF IInv, ThreadInv, ShownInv, CleanPagesShow, Editing
<1> QED
  BY <1>1, Invariance, PTL

\* A save changes no page that none of its changes names.
THEOREM OnlyNamedPages == Spec => []OtherPagesStay
<1>1. IInv => OtherPagesStay
  BY DEF IInv, ThreadInv, TraceInv, OtherPagesStay
<1> QED
  BY <1>1, Invariance, PTL

\* Whatever a request ends with, its copy of the PDF is gone, unless the copy itself
\* could not be written.
THEOREM UploadsAreReleased == Spec => []UploadsReleased
<1>1. IInv => UploadsReleased
  BY DEF IInv, ThreadInv, TraceInv, UploadsReleased
<1> QED
  BY <1>1, Invariance, PTL

-----------------------------------------------------------------------------
(* A save that is alone. *)

Looping == {"visit"} \cup Editing

Two(t) == Cardinality(Visited(t)) <= 2

\* The pages that have had a page object.
Seen(t) == Visited(t) \ todo[t]

\* With at most one page seen, nothing is noted but under that page's address,
\* which is taken until the next page has one.
NotedInv(t) ==
    (\A p, q \in Seen(t) : p = q) =>
        \A id \in Ids : cache[id] # {} => Seen(t) # {} /\ id = page[t]

\* While a save that began alone is at its pages it still is: of two pages each
\* got an address where nothing was noted.
AloneInv(t) ==
    alone[t] =>
        /\ pc[t] \in Looping =>
              /\ \A u \in Threads \ {t} : pc[u] \notin Saving
              /\ NotedInv(t)
              /\ Two(t) => Seen(t) \subseteq clean[t]
        /\ pc[t] \in Editing => pno[t] \in Seen(t)
        /\ answer[t] = "pdf" => (Two(t) => Visited(t) \subseteq clean[t])

\* Three pages are more than two.
LEMMA NoThirdPage ==
  ASSUME SharedInv, NEW t \in Threads, Two(t),
         NEW p \in Visited(t), NEW q \in Visited(t), NEW r \in Visited(t),
         p # q, q # r
  PROVE  p = r
<1>1. IsFiniteSet(Visited(t))
  <2>1. 0 \in Int /\ request[t].pages - 1 \in Int
    BY RequestFacts
  <2>2. IsFiniteSet(0 .. request[t].pages - 1)
    BY <2>1, FS_Interval
  <2>3. Visited(t) \in SUBSET (0 .. request[t].pages - 1)
    BY DEF Visited, InRange, PagesOf
  <2> QED
    BY <2>2, <2>3, FS_Subset
<1> SUFFICES ASSUME p # r PROVE FALSE
  OBVIOUS
<1> DEFINE one == Visited(t) \ {p}
           two == one \ {q}
           three == two \ {r}
<1>2. IsFiniteSet(one) /\ Cardinality(one) = Cardinality(Visited(t)) - 1
  BY <1>1, FS_RemoveElement
<1>3. IsFiniteSet(two) /\ Cardinality(two) = Cardinality(one) - 1
  <2>1. q \in one
    OBVIOUS
  <2> QED
    BY <1>2, <2>1, FS_RemoveElement
<1>4. IsFiniteSet(three) /\ Cardinality(three) = Cardinality(two) - 1
  <2>1. r \in two
    OBVIOUS
  <2> QED
    BY <1>3, <2>1, FS_RemoveElement
<1>5. Cardinality(three) \in Nat /\ Cardinality(two) \in Nat
      /\ Cardinality(one) \in Nat /\ Cardinality(Visited(t)) \in Nat
  BY <1>1, <1>2, <1>3, <1>4, FS_CardinalityType
<1> QED
  BY <1>2, <1>3, <1>4, <1>5 DEF Two

\* What a step leaves of the loops and histories of the other threads.
LEMMA OthersStayAlone ==
  ASSUME SharedInv, NEW t \in Threads, NEW u \in Threads \ {t}, Step(t), alone'[u]
  PROVE  /\ todo'[u] = todo[u] /\ alone[u]
         /\ pc[t] \notin Saving => pc'[t] \notin Saving /\ cache' = cache
<1> USE DEF SharedInv, IsFor, Go, Answer, Removed, upload, edit, output, past, Saving
<1>1. ASSUME NEW r \in Requests, TakeUpload(t, r)
      PROVE  todo' = todo /\ alone' = alone /\ pc'[t] \notin Saving /\ cache' = cache
  BY <1>1 DEF TakeUpload
<1>2. ASSUME CopyFails(t) \/ RefuseFile(t) \/ RefuseChanges(t) \/ OpenFails(t) \/ Parse(t)
      PROVE  todo' = todo /\ alone' = alone /\ pc'[t] \notin Saving /\ cache' = cache
  BY <1>2 DEF CopyFails, RefuseFile, RefuseChanges, OpenFails, Parse
<1>3. ASSUME OpenDocument(t) PROVE FALSE
  BY <1>3 DEF OpenDocument
<1>4. ASSUME SkipPage(t) \/ LoadPage(t) \/ Save(t) \/ Raise(t) \/ NamePage(t) \/ Finally(t)
      PROVE  todo'[u] = todo[u] /\ alone' = alone /\ pc[t] \in Saving
  BY <1>4 DEF SkipPage, LoadPage, Save, Raise, Leave, NamePage, Finally
<1>5. ASSUME NEW i \in Indices(t),
             InsertNothing(t, i) \/ InsertNoted(t, i) \/ InsertNew(t, i) \/ BadChange(t, i)
      PROVE  todo'[u] = todo[u] /\ alone' = alone /\ pc[t] \in Saving
  BY <1>5 DEF InsertNothing, InsertNoted, InsertNew, BadChange, Leave
<1>6. ASSUME Redact(t) \/ ForgetPage(t)
      PROVE  todo'[u] = todo[u] /\ alone' = alone /\ pc[t] \in Saving
  BY <1>6 DEF Redact, ForgetPage
<1> QED
  BY <1>1, <1>2, <1>3, <1>4, <1>5, <1>6 DEF Step

\* So a thread that is alone stays as it was in the others' steps.
LEMMA AloneFrame ==
  ASSUME SharedInv, NEW t \in Threads, NEW u \in Threads \ {t}, Step(t), AloneInv(u)
  PROVE  AloneInv(u)'
<1> SUFFICES ASSUME alone'[u] PROVE AloneInv(u)'
  BY DEF AloneInv
<1>1. Same(u)
  BY StepsAreOwn
<1>2. todo'[u] = todo[u] /\ alone[u]
      /\ (pc[t] \notin Saving => pc'[t] \notin Saving /\ cache' = cache)
  BY OthersStayAlone
<1>3. Visited(u)' = Visited(u) /\ Two(u)' = Two(u) /\ Seen(u)' = Seen(u)
  BY <1>1, <1>2 DEF Same, Visited, Two, Seen, Usable, changes, InRange, PagesOf
<1>4. \A v \in Threads \ {t} : pc'[v] = pc[v]
  BY StepsAreOwn DEF Same
<1>5. ASSUME pc[u] \in Looping
      PROVE  /\ \A v \in Threads \ {u} : pc'[v] \notin Saving
             /\ NotedInv(u)'
  <2>1. pc[t] \notin Saving /\ \A v \in Threads \ {u} : pc[v] \notin Saving
    BY <1>2, <1>5 DEF AloneInv
  <2>2. cache' = cache /\ NotedInv(u)
    BY <1>2, <1>5, <2>1 DEF AloneInv
  <2> QED
    BY <1>1, <1>2, <1>3, <1>4, <2>1, <2>2 DEF NotedInv, Same
<1> QED
  BY <1>1, <1>2, <1>3, <1>5 DEF AloneInv, Same

\* A thread that leaves its pages, or has not begun with them.
LEMMA AloneAway ==
  ASSUME NEW t \in Threads, AloneInv(t), alone'[t] = alone[t], request'[t] = request[t],
         clean'[t] = clean[t], pc'[t] \notin Looping,
         answer'[t] = "pdf" => answer[t] = "pdf" \/ (pc[t] = "visit" /\ todo[t] = {})
  PROVE  AloneInv(t)'
<1>1. Visited(t)' = Visited(t) /\ Two(t)' = Two(t)
  BY DEF Visited, Two, Usable, changes, InRange, PagesOf
<1>2. ASSUME alone[t], answer'[t] = "pdf", Two(t) PROVE Visited(t) \subseteq clean[t]
  BY <1>2 DEF AloneInv, Seen, Looping
<1> QED
  BY <1>1, <1>2 DEF AloneInv, Looping

LEMMA AloneAwaySteps ==
  ASSUME SharedInv, NEW t \in Threads, ThreadInv(t), AloneInv(t),
         \/ CopyFails(t) \/ RefuseFile(t) \/ RefuseChanges(t) \/ Parse(t)
         \/ OpenFails(t) \/ Save(t) \/ Raise(t) \/ NamePage(t) \/ ForgetPage(t)
         \/ Finally(t) \/ \E i \in Indices(t) : BadChange(t, i)
  PROVE  AloneInv(t)'
<1> USE DEF SharedInv, IsFor, Go, Answer, Removed, Looping, Editing, upload, edit, output, past
<1>1. CASE CopyFails(t) \/ RefuseFile(t) \/ RefuseChanges(t) \/ OpenFails(t)
  BY <1>1, AloneAway DEF CopyFails, RefuseFile, RefuseChanges, OpenFails
<1>2. CASE Parse(t)
  BY <1>2, AloneAway DEF Parse
<1>3. CASE Save(t)
  BY <1>3, AloneAway DEF Save, Leave
<1>4. CASE Raise(t) \/ \E i \in Indices(t) : BadChange(t, i)
  BY <1>4, AloneAway DEF Raise, BadChange, Leave
<1>5. CASE NamePage(t) \/ ForgetPage(t) \/ Finally(t)
  BY <1>5, AloneAway DEF NamePage, ForgetPage, Finally
<1> QED
  BY <1>1, <1>2, <1>3, <1>4, <1>5

\* A save that begins has seen no page.
LEMMA AloneOpening ==
  ASSUME SharedInv, NEW t \in Threads, ThreadInv(t), OpenDocument(t)
  PROVE  AloneInv(t)'
<1> SUFFICES ASSUME alone'[t] PROVE AloneInv(t)'
  BY DEF AloneInv
<1>1. /\ pc[t] = "upload" /\ pc' = [pc EXCEPT ![t] = "visit"]
      /\ request' = request /\ cache' = cache /\ answer' = answer
      /\ todo'[t] = ByPage(changes(t))
      /\ \A id \in Ids : cache[id] = {}
      /\ \A v \in Threads \ {t} : pc[v] \notin Saving
  BY DEF OpenDocument, SharedInv, IsFor, upload, Go
<1>2. Seen(t)' = {}
  <2>1. Visited(t)' = Visited(t) /\ Visited(t) \subseteq ByPage(changes(t))
    BY <1>1 DEF Visited, ByPage, Usable, changes, InRange, PagesOf
  <2> QED
    BY <1>1, <2>1 DEF Seen
<1>3. answer[t] = "none"
  BY <1>1 DEF ThreadInv, ShownInv
<1>4. \A v \in Threads \ {t} : pc'[v] \notin Saving
  BY <1>1 DEF SharedInv
<1>5. NotedInv(t)' /\ pc'[t] = "visit"
  BY <1>1 DEF NotedInv, SharedInv
<1> QED
  BY <1>1, <1>2, <1>3, <1>4, <1>5 DEF AloneInv, Editing

\* A request that comes in has no answer yet.
LEMMA AloneUpload ==
  ASSUME SharedInv, NEW t \in Threads, NEW r \in Requests, TakeUpload(t, r)
  PROVE  AloneInv(t)'
<1>1. pc'[t] = "upload" /\ answer'[t] = "none"
  BY DEF TakeUpload, Go, SharedInv, IsFor
<1> QED
  BY <1>1 DEF AloneInv, Looping, Editing

\* A page that is left out was never one to be seen.
LEMMA AloneSkip ==
  ASSUME SharedInv, NEW t \in Threads, AloneInv(t), SkipPage(t)
  PROVE  AloneInv(t)'
<1>1. PICK p \in Upcoming(t) : ~InRange(t, p) /\ todo' = [todo EXCEPT ![t] = @ \ {p}]
  BY DEF SkipPage
<1>2. /\ pc' = pc /\ request' = request /\ cache' = cache /\ answer' = answer
      /\ page' = page /\ pno' = pno /\ clean' = clean /\ alone' = alone
      /\ todo'[t] = todo[t] \ {p}
  BY <1>1 DEF SkipPage, SharedInv, IsFor, upload, past
<1>3. Visited(t)' = Visited(t) /\ Two(t)' = Two(t) /\ p \notin Visited(t)
  BY <1>1, <1>2 DEF Visited, Two, Usable, changes, InRange, PagesOf
<1>4. Seen(t)' = Seen(t)
  BY <1>2, <1>3 DEF Seen
<1> QED
  BY <1>2, <1>3, <1>4 DEF AloneInv, NotedInv

\* A page that is loaded does not lie where the last one did.
LEMMA AloneLoad ==
  ASSUME SharedInv, NEW t \in Threads, ThreadInv(t), AloneInv(t), LoadPage(t)
  PROVE  AloneInv(t)'
<1> SUFFICES ASSUME alone'[t] PROVE AloneInv(t)'
  BY DEF AloneInv
<1>1. PICK p \in Upcoming(t), id \in Fresh :
        /\ InRange(t, p)
        /\ page' = [page EXCEPT ![t] = id]
        /\ pno' = [pno EXCEPT ![t] = Numbered(t, p)]
        /\ clean' = [clean EXCEPT ![t] = IF cache[id] = {} THEN @ \cup {Numbered(t, p)}
                                                       ELSE @ \ {Numbered(t, p)}]
        /\ todo' = [todo EXCEPT ![t] = @ \ {p}]
  BY DEF LoadPage, NewId
<1>2. Numbered(t, p) = p
  BY <1>1, RequestFacts DEF InRange, PagesOf, Numbered
<1>3. /\ pc[t] = "visit" /\ pc' = [pc EXCEPT ![t] = "redact"] /\ alone' = alone
      /\ request' = request /\ cache' = cache /\ answer' = answer
      /\ page'[t] = id /\ pno'[t] = p /\ todo'[t] = todo[t] \ {p}
      /\ clean'[t] = IF cache[id] = {} THEN clean[t] \cup {p} ELSE clean[t] \ {p}
  BY <1>1, <1>2 DEF LoadPage, Go, upload, SharedInv, IsFor
<1>4. p \in Visited(t) /\ p \in todo[t]
  BY <1>1 DEF Upcoming, Visited
<1>5. Visited(t)' = Visited(t) /\ Two(t)' = Two(t)
  BY <1>3 DEF Visited, Two, Usable, changes, InRange, PagesOf
<1>6. Seen(t)' = Seen(t) \cup {p} /\ p \notin Seen(t) /\ Seen(t) \subseteq Visited(t)
  BY <1>3, <1>4, <1>5 DEF Seen
<1>7. /\ \A u \in Threads \ {t} : pc[u] \notin Saving
      /\ NotedInv(t)
      /\ Two(t) => Seen(t) \subseteq clean[t]
  BY <1>3 DEF AloneInv, Looping
<1>8. id # page[t] /\ id \in Ids
  BY <1>1, IdsAssumption DEF Fresh, Live
<1>9. answer[t] # "pdf"
  BY <1>3 DEF ThreadInv, ShownInv
<1>10. \A u \in Threads \ {t} : pc'[u] \notin Saving
  BY <1>3, <1>7 DEF SharedInv
<1>11. NotedInv(t)'
  <2> SUFFICES ASSUME \A q, r \in Seen(t)' : q = r, NEW at \in Ids
               PROVE  cache[at] = {}
    BY <1>3 DEF NotedInv
  <2>1. Seen(t) = {}
    BY <1>6
  <2> QED
    BY <1>7, <2>1 DEF NotedInv
<1>12. Two(t) => Seen(t)' \subseteq clean'[t]
  <2> SUFFICES ASSUME Two(t) PROVE Seen(t)' \subseteq clean'[t]
    OBVIOUS
  <2>1. ASSUME NEW q \in Seen(t), NEW r \in Seen(t) PROVE q = r
    BY <1>4, <1>6, <2>1, NoThirdPage
  <2>2. cache[id] = {}
    BY <1>7, <1>8, <2>1 DEF NotedInv
  <2> QED
    BY <1>3, <1>6, <1>7, <2>2
<1> QED
  BY <1>3, <1>5, <1>6, <1>9, <1>10, <1>11, <1>12 DEF AloneInv

\* At a page, notes are made under its address only.
LEMMA AloneEditing ==
  ASSUME SharedInv, NEW t \in Threads, ThreadInv(t), AloneInv(t),
         Redact(t) \/ \E i \in Indices(t) :
            InsertNothing(t, i) \/ InsertNoted(t, i) \/ InsertNew(t, i)
  PROVE  AloneInv(t)'
<1> SUFFICES ASSUME alone'[t] PROVE AloneInv(t)'
  BY DEF AloneInv
<1> USE DEF SharedInv, IsFor, Go, upload, edit, output, past
<1> DEFINE AtItsPage ==
             /\ pc[t] \in Editing /\ pc'[t] \in Looping /\ alone' = alone /\ request' = request
             /\ page' = page /\ pno' = pno /\ todo' = todo /\ answer' = answer
             /\ clean' = clean /\ \A u \in Threads \ {t} : pc'[u] = pc[u]
<1>1. AtItsPage
  <2>1. CASE Redact(t)
    BY <2>1 DEF Redact, Looping, Editing
  <2>2. ASSUME NEW i \in Indices(t), InsertNothing(t, i) \/ InsertNoted(t, i) \/ InsertNew(t, i)
        PROVE  AtItsPage
    BY <2>2 DEF InsertNothing, InsertNoted, InsertNew, Inserted, Looping, Editing
  <2> HIDE DEF AtItsPage
  <2> QED
    BY <2>1, <2>2
<1>2. \A id \in Ids \ {page[t]} : cache'[id] = cache[id]
  BY DEF Redact, InsertNothing, InsertNoted, InsertNew, Note
<1> HIDE DEF SharedInv, IsFor, Go, upload, edit, output, past
<1>3. Visited(t)' = Visited(t) /\ Two(t)' = Two(t) /\ Seen(t)' = Seen(t)
  BY <1>1 DEF Visited, Two, Seen, Usable, changes, InRange, PagesOf
<1>4. /\ \A u \in Threads \ {t} : pc[u] \notin Saving
      /\ NotedInv(t) /\ pno[t] \in Seen(t) /\ (Two(t) => Seen(t) \subseteq clean[t])
  BY <1>1 DEF AloneInv, Looping
<1>5. NotedInv(t)'
  BY <1>1, <1>2, <1>3, <1>4 DEF NotedInv
<1>6. answer[t] # "pdf"
  BY <1>1 DEF ThreadInv, ShownInv
<1> QED
  BY <1>1, <1>3, <1>4, <1>5, <1>6 DEF AloneInv

\* A save that finds the registry empty and has no other beside it draws every edit
\* of two pages in a font the page has, or PyMuPDF refuses it: the second page
\* cannot lie where the first one does.
THEOREM TwoPagesKeepTheirText == Spec => []TwoPagesAreSafe
<1>1. Init => \A t \in Threads : AloneInv(t)
  BY DEF Init, AloneInv
<1>2. IInv /\ (\A t \in Threads : AloneInv(t)) /\ [Next]_vars => (\A t \in Threads : AloneInv(t))'
  <2> SUFFICES ASSUME IInv, \A t \in Threads : AloneInv(t), [Next]_vars, NEW u \in Threads
               PROVE  AloneInv(u)'
    OBVIOUS
  <2>1. ASSUME NEW t \in Threads, Step(t), t # u PROVE AloneInv(u)'
    BY <2>1, AloneFrame DEF IInv
  <2>2. ASSUME Step(u) PROVE AloneInv(u)'
    BY <2>2, AloneAwaySteps, AloneOpening, AloneUpload, AloneSkip, AloneLoad, AloneEditing
       DEF IInv, Step
  <2>3. CASE UNCHANGED vars
    <3>1. /\ alone' = alone /\ pc' = pc /\ request' = request /\ todo' = todo
          /\ cache' = cache /\ page' = page /\ pno' = pno /\ clean' = clean
          /\ answer' = answer
      BY <2>3 DEF vars, upload, edit, output, past
    <3>2. Visited(u)' = Visited(u) /\ Two(u)' = Two(u) /\ Seen(u)' = Seen(u)
      BY <3>1 DEF Two, Seen, Visited, Usable, changes, InRange, PagesOf
    <3> QED
      BY <3>1, <3>2 DEF AloneInv, NotedInv
  <2> QED
    BY <2>1, <2>2, <2>3 DEF Next
<1>3. IInv /\ (\A t \in Threads : AloneInv(t)) => TwoPagesAreSafe
  BY DEF IInv, ThreadInv, ShownInv, AloneInv, Two, TwoPagesAreSafe, Replacements, Visited
<1> QED
  BY <1>1, <1>2, <1>3, Invariance, PTL DEF Spec

=============================================================================
