# TLA+ verification of PDFWala

PDFWala is a Flask service that processes PDF, office and image files, in the web
process or on Celery workers that share Redis and a disk with it.  This directory
holds TLA+ modules translated from its source, TLC configurations that check them
on small instances, and TLAPS proofs of what matters most.

## The system

| part | source | state | operations |
|---|---|---|---|
| Job controller | `app/controllers/job_controller.py` | none of its own; one web thread per request | rate check, `run_or_enqueue`, `_run_sync`, `_enqueue` |
| Upload intake | `services/file_service.py`, `app/routes/tool_factory.py` | files under `UPLOAD_FOLDER` | save one or several, refuse, 501 |
| Job context | `core/context.py` | `JobContext`, its copy in the Redis hash `job:<id>` | `to_redis`, `from_redis`, `mark_*` |
| Pipeline | `core/pipeline.py` | engine registry | `run`: persist, engine, persist, remove inputs |
| Tasks | `tasks/*_tasks.py` | one child process per running job | `_run_job`, `on_failure` |
| Celery application | `workers/celery_app.py`, `docker-compose.yml` | broker queues, unacknowledged messages, timers | deliver, redeliver, soft and hard limits, beat |
| Redis service | `services/redis_service.py` | job hashes, `rl:<ip>` sorted sets | job CRUD, rate limit |
| Cleanup | `tasks/system_tasks.py` | none | sweeps of uploads, scratch, outputs |
| Chunked processor | `utils/pdf_utils.py` | chunk files, futures, a thread pool | split, process, retry, merge, clean up |
| OCR | `engines/pdf_engine.py`, `ocr_pdf` | rasters, futures, a pool of Tesseract threads | classify, render, read, reassemble |
| PDF to Word | `engines/pdf_engine.py`, `pdf_to_word` | the Word file, a shared live document, scratch files | route, convert, merge, fourteen passes, save |
| Visual editor | `app/routes/pdf_routes.py`, `engines/pdf_engine.py` | one font registry per process, an uploaded copy per request | parse, save, by the request threads of one web worker |
| Page and edit tools | `engines/pdf_engine.py` | a document in memory, archives | merge, split, organize, compare, convert, rotate, stamp, redact, sign, ... |
| Optimizers | `engines/pdf_engine.py` | candidates and `.tmp` files, subprocesses | compress, repair, linearize, PDF/A |
| Text editor | `engines/pdf_edit_text.py` | a scratch directory per call | PDF to HTML, HTML to PDF |
| Office engine | `engines/office_engine.py` | LibreOffice profiles and scratch directories | conversions, exports with limits, slimming, ciphers, repair |
| Image engine | `engines/image_engine.py` | batches | compress, convert, draw, merge, to PDF |
| Catalog | `catalog/*.py` | `tools.build.json` | build, audit, look up |
| Storage, metrics, visitors | `core/storage.py`, `core/metrics.py`, `services/visitors.py` | registries and counters | library helpers |

How they interact: a web thread saves the upload, writes the job's hash and either
runs the pipeline inline or publishes a message that carries only the job id.  A
worker child reads the hash, runs the same pipeline, writes the hash again and is
acknowledged last (`task_acks_late`).  The two processes meet only in Redis and on
the disk; nothing locks a job.  An hourly task deletes files by age, whatever
their job is doing.

The visual and the text editor are not jobs: they run in the web process, the
visual editor on threads that share a dictionary of fonts.  Every other engine function is
called by `Pipeline.run` with a context that names its inputs and its `output_path`, and
tells it by an exception whether there is anything at that path.

What is hard about it: the order of the two writers of a hash, redelivery after a
worker's death or a refused acknowledgement when the first run has already removed the input, exceptions that
fire anywhere (the soft time limit) or that no handler sees (the hard limit), Redis
calls that may raise or whose keys may vanish (`allkeys-lru`, no persistence),
files removed by age, futures that finish in any order and fail in any order, page objects
whose addresses are used again, engine functions that fail between two writes or find the
output of an earlier run of the same job.
`PROJECT.json` lists each of these under "hazards", at its line.

What makes each part correct, in a line: the *controller* publishes nothing without
a whole hash and its input; a *task* starts the engine at most once more than deliveries ended without the
broker learning it, and settles its message; the *pipeline* says completed only for a whole output, and keeps the
verdict; the *limiter* neither lets a burst through nor refuses a quiet client; the
*cleanup* takes nothing that is in use and in the end takes everything else; the
*chunked processor* is indistinguishable from a single pass that may give up; *OCR* gives
every page its own words, within the memory of one chunk, and leaves no thread behind;
the *Word conversion* returns the text of every page it counts but for pages a library
made nothing of, whatever else failed on the way; the *visual
editor* replaces the text it was asked to and no other; every *engine function* settles, and
where it returns, all of what was asked is at `output_path`, with four shortfalls that are
known and four cases of files that stay beside it.

## Modules

| module | models | proofs |
|---|---|---|
| `JobLifecycle` | one request from the HTTP handler to its last trace | |
| `JobProperties` | what it promises, its inductive invariant | `JobProofs` |
| `JobTimers` | the clocks around a job, with the configured values | `TimerProofs` |
| `RateLimiter` (`MCRateLimiter`) | the sliding window of one client | `RateProofs` |
| `SinglePass` | abstract: what a caller of the chunked processor relies on | |
| `ChunkedProcessor`, `ChunkProperties` | the chunked processor and its threads | `ChunkProofs` |
| `OcrPdf`, `OcrProperties` | one call of `ocr_pdf` and its Tesseract threads | `OcrProofs` |
| `PdfToWord`, `PdfToWordProperties` | one call of `pdf_to_word` | `PdfToWordProofs` |
| `CanvasEditor`, `CanvasProperties` (`MCCanvas`) | the request threads of the visual editor | `CanvasProofs` |
| `EngineCall` | abstract: what the pipeline and the task rely on when they call an engine | |
| `ToolCall` | what the engine functions share: check, plan, pass, archive, write, clean up | |
| `PageTools`, `EditTools`, `OptimizeTools`, `ImageTools`, `OfficeTools`, `TextTools` | the engine functions, by family | |
| `Engines`, `EngineProperties` (`MCEngines`) | one call of any of them; what it owes; the refinement of `EngineCall` | `EngineProofs` |

### JobLifecycle

One process per variable group: `web[j]` is where the request's thread stands, `run[j]`
where the process inside the task body or `Pipeline.run` stands (the web thread
itself when the job runs inline), `msg[j]` the Celery message, `ctx[j]` the context the
running process holds, `hash[j]` the Redis hash, `upload[j]` and `output[j]` the two
files.  Every Redis call is an action of its own, because the other process may step
in between; the actions carry the names of the code's functions (`RunOrEnqueue`,
`EnqueuePersist`, `Dispatch`, `Confirm`, `Begin`, `Complete`, `Cleanup`, `Load`,
`MarkFailed`, `OnFailureRead`, `OnFailureWrite`).  Of the hash the model keeps the
status, the kind of error text, `is_async` and whether it has all its fields: a
`job_update` on a lost key creates a hash of two fields, and a redelivery reads it.

Environment steps: a refused Redis call (`RedisFaults`), an evicted or expired hash and
a Redis restart (`HashLoss`), a dying gunicorn worker (`WebCrashes`), a dying Celery
worker, the two time limits, the two sweeps.  Which of the first three a behaviour may meet is
chosen in its first state, from the constant `Environments`, and kept in `faults`: some
promises hold under any fault, others as long as Redis takes and keeps what it is given.

Redis is the broker, too, so `RedisFaults` also refuses what Celery asks of it.
* An acknowledgement (`Acknowledge`) may be refused: the message comes back
  (`DeliveredAgain`) as it does after a death.  `losses[j]` counts the deliveries whose end
  the broker did not learn, by either cause, and `MaxLoss` bounds them.  So the engine may
  start again, and a completed job may fail on the input that is gone, without any death:
  `EngineStartsBounded` and `CompletedFailsOnlyAfterLoss` are stated in `losses`.
* `apply_async` retries a publish, whose answer may be lost (`Published(j, copies)`): the
  message may be there although the call raises, and may be there twice (`twice[j]`).  One
  copy takes the actions above.  The child that works on the other is `TwinStep`, at any
  moment anything it can do to what the two share: what its pipeline and its task write to the
  hash (`WrittenByTwin`), the output, the input.  Properties that a second copy breaks say
  `~twice[j]`; what is left of them with it is what the runs with faults check.

`PlainJobs` are jobs of the image and office tasks, whose `on_failure` writes without
reading first.  The runs have a PDF job; the proofs are for jobs of both kinds.

Four choices of the environment are narrower than "anything":
`HardLimit` strikes in the engine only (300 s after the soft limit; every other step
takes seconds), `SweepUpload` waits until the request is routed and `SweepOutput`
until the steps after the engine are over (files must be an hour, or two, old), and a
message is published at most twice.
`JobTimers` has the clocks and shows that the configured values justify the one
assumption that is not obvious: that a message does not come back while its first
child is still running (`OneRunAtATime`).

### JobTimers

Ticks of five minutes, the values of `config.py`: soft limit 6, hard limit 7, uploads
and scratch 12, outputs 24, hash 48, fragments 2.  `Child` are the children of all workers,
any set of them.  Up to `MaxDelay` ticks may pass before a fast worker picks up the cleanup
(three in the run), `MaxLoss` deliveries may end unlearnt: a death either puts the message back
at once (`reject_on_worker_lost`) or, with the whole host gone, leaves it to the visibility
timeout, and so does a refused acknowledgement.

### RateLimiter

Threads read the clock and run one transaction later, at most `Lag` ticks apart.  A
reading is a tick and one of two moments in it, because the member of the sorted set is
the reading itself and equal readings collapse.  `CheckFails` is the fail-open path.

### ChunkedProcessor and SinglePass

The calling thread (`main`) and the pool threads (`fut`) share `disk`, `attempts` and
the list of outputs.  `SinglePass` says what the docstring promises: `True` only with
every page at its place, `False` only with the output untouched.  `ChunkProperties`
instantiates it over the same `output` and `result` (`ActsAsSinglePass`).  No engine calls
the processor at this commit; it is library code with its own documentation.

Besides a chunk that fails, `pool.submit` may raise (no thread can be started), and the soft
limit of a Celery task may fire while the call submits or collects, or while it waits in the
executor's `__exit__` for its threads (`SoftLimits`, `escape`); in the last case the clean-up
goes on beside threads that still read.  The caller's function may raise before or after it has
written its output, a save or a merge may leave half a file.  The docstring says "ALL temp files
deleted in finally - guaranteed even on crash", which the code does not keep: after a chunk has
failed for good, the outputs of the chunks that nobody collected stay, and so do an input whose
save raised and the `.merge_tmp` of a merge that failed.  `KnownFilesDeleted` is what does hold:
everything goes from a call that succeeds, and from any other every input it had saved and every
output it had collected.

### OcrPdf

`main` is the calling thread: it classifies the pages (`seen`, `text_pages`), renders the
image pages of a chunk (`todo`, `chunk`, `raster`), submits them (`job`), collects what
is finished in any order (`ocr_results`), closes the rasters, and rebuilds the document
(`out`).  The pool threads are the two actions `Start` and `OcrPage`.  An exception in the
`with` block goes to `shutdown`, which waits for every submitted future; outside it leaves
at once.  The soft limit is an exception like any other and may fire anywhere
(`SoftLimit`), also inside the `try` of the classification, which drops it
(`SoftLimitSwallowed`).  A page is a number; of its content the model keeps whether it
has a text layer, and of Tesseract's answer whether there are words.

### PdfToWord

One sequential call in which nearly every step may fail.  `main` follows the function:
`open`, Docling or OCR for scans, `collect` (artwork redacted to a copy), conversion in one
piece or in chunks, `compose` and `append`, `check`, the passes, `save`, `unlink`.  A pass is
`pass` (open or skip), `edit`, for the passes that move text `put`, and for a pass that
opened the file itself `store`.  `mode` tells whether the passes share one live document
(`doc`) or open their own; the records `RepairDocx` ... `VgInsert` say of each pass whether
it takes text out and whether it always saves.  Of a document the model keeps the pages
whose text it has, the passes that took text out of it (`lost`) and its artwork.  The soft
limit needs no variable: inside a handler it is the failure of that step (`Skipped`,
`DoclingFails`, ...), elsewhere it is `Raised`.  A save that raises leaves the file as it
was or torn (`Interrupted`), since python-docx opens the archive before it writes the parts.
`refused` are the pages a library made nothing of: those of a chunk that pdf2docx leaves no
file for, which the loop passes over, and those Tesseract fails on.  The answer tells how many
pages it counts (`Told`): all, or as many as `MAX_OCR_PAGES` lets OCR read, which the field
"pages" says.  `NoSilentTruncation` is the text of every page that is counted and not refused;
that a refused chunk should have failed the call, and that a pass that breaks off should cost the
document nothing, is `NothingIsLostSilently`, which the run `text_lost` violates.
What a pass recognises in a page is left out, and a limit that strikes inside the `finally`
clause that removes the chunks.

### CanvasEditor

The threads of one gunicorn worker (`gthread`) share `_PAGE_UNICODE_FONT_CACHE`, whose key is
`id(page)`.  CPython gives the address of an object that is gone to the next one that fits,
so the model has addresses (`Ids`) and one rule: a new page object gets any address no live
one has (`Fresh`).  A page object lives until the variable `page` is assigned again, which
`page = doc[pno]` does after the new object exists.  Per thread the module has the request, its
copy of the PDF (`temp`), the loop over `by_page` (`todo`, the pages to come, of which the next is
`Upcoming`; `page`, `pno`, `left`), and of the
document what is drawn for each change (`text`), which pages were touched and which fonts each
page has (`fonts`).  One page's redaction, one insertion and one look into the registry are
actions of their own.  The `finally` clause names each page of the document again
(`NamePage`: the new object is gone at once, its address may become that of a page another
thread edits) and pops the entry (`ForgetPage`).  `alone` and `clean` are history: they
say when the registry could not have misled the thread.

`insert_text` may raise.  It does when it is asked for a font the page has not, which is what
a wrong entry leads to, and it may for reasons of PyMuPDF's own, at most `MaxRefused` times in a
request; both are caught and logged, and the text is gone from the page (`refused` is the
history of the second kind).  The registry's properties (`ReplacedTextIsThere`, `CleanPagesShow`,
`TwoPagesAreSafe`) are about the first kind: every text was *tried* in a font its page has
(`Tried`).  A text of the second kind is lost from a document that is returned as edited, with the
old text gone.  A value of a change that `float()` or `int()` raises on ends the
save (`BadChange`).  Of a text the model has whether it is the old one, gone or the new one.

Left out: how text is fitted into its box, colours, and what `parse_canvas` reads.

### EngineCall, ToolCall and the families

`EngineCall` is the contract: a call settles; until then anything may be at `output_path`,
also what an earlier run of the same job left there; when it returns, the whole of what was
asked is there.  `JobLifecycle` relies on that in `EngineReturns`, which has the whole output, and in
`EngineRaises`, which promises nothing of it.

`ToolCall` is the shape nearly all engine functions have: checks (`Refuse`), a plan
(`Start`), passes of a loop (`Pass`), the write (`Finish`, `FailToWrite`), an exception
anywhere (`Break`, which the soft limit is, too).  An archive of more than `StreamAbove`
entries is on the disk while it grows (`OpenZip`, `InZip`), and is closed by a `finally`
clause also when the loop was interrupted (`BreakZip`).  `temps` are the files and
directories the call made beside its output.

A family says of each of its functions what it checks, what plan it makes of the request and
what one pass does; where a function differs in the way it works, it has actions of its own:
* `PageTools`: page ranges, sections between bookmarks, parts by size (with the page that is
  taken back), documents that take turns, tables or else text, side-by-side comparison,
  slides.
* `EditTools`: edits in memory, saved at the end; loops that go on after a refusal
  (`Forgiving`), because an exception or the answer of a call is passed over (`Refused`); redaction by text and by pattern; `edit_pdf` with its four kinds in order.
* `OptimizeTools`: programs that leave a *version* of the document (size, pages, pages that do
  not render, features), anything they could leave; the gates and the choice among candidates;
  the three ways of `repair_pdf`.
* `ImageTools`: what is redrawn, rewritten, or copied when nothing was gained; pictures pasted
  together; the batches of `images_to_pdf`; the bytes of `remove_bg`, which are a PNG under any name but
  `.jpeg`.
* `OfficeTools`: LibreOffice with a filter and then without, its profile directory, and what it
  raises before its own `try` (`ConversionRaises`); the second directory of `compress_word` and
  `compress_ppt`, made after the conversion and before the `try` that removes both; exports of
  text, tables, sheets and slides with their row, column, table and slide limits; slimming,
  ciphers, repair.
* `TextTools`: the PDF to a Word file to HTML, within the limits of size and pages; the HTML by
  LibreOffice to a PDF.

What the properties say of the result is stated in `EngineProperties` from the request
(`AsAsked`: which pages, in which order, which edits, which parts), not from the plan the code
makes of it.  Where the docstring of a function and its code differ, `AsAsked` is the docstring:
pages in the order that was asked for, a stamp on every page, the XMP stream gone, every page
of the text.  `FallsShort` is what the code is known to deliver instead, to the letter (`Sorted`,
`StampedWhereItFits`, `LeftXmp`, `LoadedTheFirst`), and `Delivered` either of the two.
`HonoursContract` instantiates `EngineCall` with `output` and `result` computed
from the file and `Delivered`, so it says for every function at once: it refines the
contract and settles.  `PromisesAreKept` is the promise without the exceptions, and the run
`pages_sorted` violates it.

Of a compressed document `AsAsked` says that it is smaller than the original and has its
features.  It does not say that it has all its pages: a program that leaves a version with fewer
pages that render passes the gates of `compress_pdf`, which count no pages.

## Runs

| run | question | bounds |
|---|---|---|
| `jobs` | safety of a request, agreement of hash, output, message and answer, settlement of its message, drainage of its upload | one PDF job, 1 delivery lost (a death or a refused acknowledgement), 2 copies; every fault on, or dying processes alone; `FairSpec` |
| `late_confirm` | *violated*: the write after the dispatch touches only the dispatch fields | no faults needed |
| `chunks` | refinement of `SinglePass`, file lifetimes, progress, termination | 4 chunks, 2 threads, 1 retry |
| `rate` | burst bound and honest refusals | 4 requests, limit 2, window 3, lag 1, time 6 |
| `timers` | what the configured times exclude | configured values, 3 ticks of delay, 1 delivery lost, 2 children |
| `ocr` | right words, memory, no thread left, progress, termination | up to 5 pages, chunks of 2, 2 threads, 4 pages allowed |
| `to_word` | no silent truncation, atomic passes, one save, scratch files, termination | up to 5 pages, chunks of 2 from 3 pages on, Docling up to 2, OCR up to 4 |
| `text_lost` | *violated*: a conversion that is reported as done has lost nothing | as `to_word` |
| `canvas` | pages nobody named, copies of uploads, edits on clean pages and of lone small saves | 2 threads, 3 addresses, 13 requests on up to 3 pages, at most 3 changes, one request per thread, one refused text in each |
| `canvas_edit_lost` | *violated*: an edited span has been drawn, or refused, in a font its page has | as `canvas` |
| `engines` | the contract of every engine function, no half documents, leftovers, honest answers | documents of a few pages, limits of 2 to 10 in place of the configured ones |
| `pages_sorted` | *violated*: `organize_pdf` returns the pages in the order that was asked for | its calls among those of `engines` |

Why these bounds are enough.  Jobs touch each other only through a Redis restart, which
takes all hashes at once, so one job shows every behaviour of a job; the proofs are for
any number.  One delivery lost and one copy bring together a run, a redelivery and a run beside it; a
further redelivery starts from what the first one can leave.  Two
threads and four chunks let chunks overtake each other, fail while others run, and wait
in the queue.  Four requests are the limit and two more, a window of three ticks passes
twice before time stops; shortening the span of `PassedBounded` by less than `Lag` makes
TLC find a counterexample, so the bound is tight.  Five pages with chunks of two give
full chunks and a short one, more chunks than one is open at a time, a document above
every threshold of the router and one below; all layouts of text and image pages are
initial states.

Two threads are one that leaves an entry and one that inherits it; with three addresses
one is always free while both hold a page, and a page of three can come back to the
first one's address.  The requests of `MCCanvas` have every kind the code tells apart:
deletions, boxes that cannot be read, negative and unreadable page numbers, too many changes,
two faces that share an alias.  A thread serves one request, since an entry that outlives a
request is already inherited by the other thread's.

`MCEngines` enumerates the requests: for each function those that pass and those that fail
each of its checks, those at, below and above each of its limits (the limits are constants of
the families, small here), and documents on which the algorithms could go wrong (empty
sections, a page alone above the size limit, tables on some pages only).  The programs outside
`src/` are not enumerated but chosen step by step: what they leave, or that they fail.

`CHECK_DEADLOCK FALSE` is given where the system really stops: a call that has returned, a
thread of the editor that has served its requests, a job whose files are swept, and the clock
of `RateLimiter` at its bound have no step left.

### Fairness

`FairSpec` of `JobLifecycle`: a live web thread goes on, a queued message is fetched, a
running process steps (the engine ends because its subprocesses and the task have time
limits), and the hourly cleanup comes back.  Nothing is assumed about requests, faults or
deaths.  `FairSpec` of `ChunkedProcessor`: the calling thread and the pool run, and the two
callbacks end.  `OcrPdf`: the calling thread goes on and each page's future is started and
finished; a Tesseract that hangs is ended by the hard limit with the whole process, which
`JobLifecycle` has.  `PdfToWord`: the call goes on.  `Engines`: a call goes on while it can
(`WF_vars(Next)`): the functions are sequential, their loops are over finite plans, and the
programs they start end by themselves or at the timeout they are started with.  Nothing is
assumed about the threads of `CanvasEditor`; it has safety properties only.  The soft limit is
never assumed to fire.

## What disagrees with the code's own words

Shown by a run:
* `late_confirm`: `_enqueue` writes the whole stale context after the dispatch
  (`job_controller.py:95-96`); a job that finished in between polls as pending.
* `text_lost`: a pass that was interrupted after it took text out of the shared document
  is logged as skipped, and `live.save` writes the document without that text
  ("additive, never raises", `pdf_engine.py:3563`, `4083`).  The property fails, too, of a chunk
  that pdf2docx leaves no file for: it is passed over, and the answer counts its pages ("Do NOT
  silently ship only the first chunk", `pdf_engine.py:4025-4027`).
* `canvas_edit_lost`: the registry of the visual editor forgets addresses of page objects it
  has just made, not of those it used (`pdf_engine.py:5684-5690`); the next page object at
  such an address is asked for a font it does not have, after its old text was removed.
  `TwoPagesAreSafe` and `CleanPagesShow` say when that cannot happen.
* `pages_sorted`: `organize_pdf` never reorders, because `parse_page_ranges` sorts
  ("Reorder or delete pages", `pdf_engine.py:504`).  `PromisesAreKept` fails of three more tools,
  each with the calls `MCEngines` has of it: `add_header_footer` does not look whether
  `insert_textbox` found room ("on every page", `pdf_engine.py:4909`); `remove_metadata` logs that
  it could not delete the XMP stream and returns the document ("and any XMP metadata stream",
  `pdf_engine.py:4884`); `edit_text_load` takes a document it cannot count for one of no pages and
  loads its first fifty ("refuse to load huge books for edit", `pdf_edit_text.py:80`).  What each
  of the four delivers instead is stated in `FallsShort`, exactly, and checked by `engines`.

Met while modelling, and part of what the models do, without a run of their own:
* `Pipeline.run` wraps `SoftTimeLimitExceeded` (`pipeline.py:99-101`), so the handler that
  names the time limit (`pdf_tasks.py:55-59`) is reached from the `finally` clause only.
* `pages_processed` counts pages Tesseract failed on, so "OCR produced no output - all pages
  failed" (`pdf_engine.py:4599`) is not raised when all pages fail.
* The same alias is made for bold and bold italic (`f"UNI_{face_key[:2]}"`,
  `pdf_engine.py:5341`): on a page that has one of them, the other is drawn with it.
* A pure deletion counts as an edited span, and `word_to_excel` leaves out tables and paragraphs
  above its limits without saying so (`Untold`).
* Four cases of files that stay: `OnlyKnownLeftovers` lists them.
* The chunked processor leaves temporary files after a failure ("ALL temp files deleted in
  finally", `pdf_utils.py:102`): `KnownFilesDeleted` says which do go.
* A text that `insert_text` raises on is logged (`pdf_engine.py:5535`) after the old one was
  redacted, and the document is returned with neither ("everything else is untouched",
  `pdf_engine.py:5628`).
* `remove_bg` writes a PNG under any name but `.jpeg` ("Output format controlled by
  ctx.output_path extension", `image_engine.py:950`); the shipped catalogue asks for png only.

## Proofs

`JobProofs` proves, for every set of jobs, every `MaxLoss` and every choice of faults, that
`IInv` is invariant and that it implies `EngineStartsBounded`, `InputsOutliveQueue`,
`DispatchedJobHasHash`, and with it the action properties `FriendlyErrorKept` and
`CompletedFailsOnlyAfterLoss`.  None of these is inductive alone.  `IInv` adds: a waiting
message has no process (`MessageInv`), so a start that may still come has been paid for by
a loss (`StartInv`), a worker's death or an acknowledgement that Redis refused; the input is on
disk until the message is out (`InputInv`); what may go wrong is chosen once (`FaultsStay`); while
Redis keeps its keys the hash of a routed job is whole (`HashInv`); and once a hash says
completed, with no delivery lost and no second copy, the process that wrote it has nothing left to
write that could spoil it (`VerdictInv`).  `TypeCorrect` comes first, `Invariance` has one step per action, and the
lemmas on the helpers (`MarkFailedWith`, `Persist`, ...) are stated once.  The
assumptions are those of the module: `PlainJobs \subseteq Jobs`, a natural bound, environments
that are sets of the three faults, and `NoHash \notin Hash`.

`ChunkProofs` proves `ImplementsSinglePass` for every number of pages, chunk size, pool
size and number of retries: its invariant says that the ranges cut so far tile the pages
up to `Start`, that the loop leaves only when they reach `TotalPages`, and that a merge is
reached only with every chunk's output at the chunk's own place.  A second invariant,
`FileInv`, follows the temporary files (`FileInvariance`): every chunk begins at a multiple of
the chunk size and so has a future (`FutureForEach`), an input stays until the clean-up, an
output belongs to a finished chunk, and one that was handed out is in the list the clean-up
goes through.  `PoolInv` has the one exception: threads that a shutdown was not allowed to wait
for (`escape = "abandoned"`).  From it come `ReadersFindTheirFiles`, `KnownFilesDeleted`
(`KnownFilesAreDeleted`) and the types.

`OcrProofs` proves, for documents, chunks and pools of any size, the type invariant and the
four safety properties of `OcrProperties`.  The invariant's parts: nothing has been rendered
before the pool opens (`QuietInv`); every image page is waiting, in the chunk or collected,
and a collected page has the result of its own future (`PlaceInv`); what is open or submitted
belongs to the chunk, which is finite and at most `ChunkSize` (`ChunkInv`); the pages built so
far are the first ones, in order (`OutInv`).

`PdfToWordProofs` proves, for any number of pages and any thresholds, the type invariant and
all four other safety and action properties of `PdfToWordProperties`.  `RouteInv` says where the call
may be with which converter, `LossInv` that what a pass has taken out is only ever in memory,
`TextInv` that file and document in memory have the text of every page that is counted and not
refused, `ChunkInv` that every page of the chunks tried so far is in one that gave a file or is
refused, `ScratchInv` which steps own the temporary directory.

`CanvasProofs` proves, for any number of threads and addresses and any requests, the type
invariant and all four properties of the run `canvas`.  First `CleanPagesShow`, `OtherPagesStay`
and `UploadsReleased`.  `SharedInv` has the
types, `AddressInv` says that two threads never hold page objects at one address; what is left
is per thread (`ThreadInv`): it edits only changes of the page it holds (`PageInv`), of a clean
page every noted face has a font under its alias (`FontInv`), and what has been done on clean
pages shows or was refused in a font that was there (`ShownInv`).  The argument is one of non-interference: a step of one thread
leaves the variables of the others alone (`StepsAreOwn`) and can only take faces away from
their entries (`OthersKeepFonts`), which keeps their part (`Frame`).  The assumptions are those
of the module: more addresses than threads, natural limits, requests with a number of
pages and known faces.

`TwoPagesAreSafe` needs a second invariant, `AloneInv`, and no other thread's help: while a
save that began alone is at its pages nobody else is saving (`OthersStayAlone`); up to its first
page nothing is noted, and after it only under that page's address (`NotedInv`), which is
taken until the second page has one of its own (`AloneLoad`).  The bound of two is where the
argument ends: `NoThirdPage` is the one place that uses it.

The outcomes of `JobProperties` have an invariant of their own on top of `IInv`, `OutcomeInv`.
`OutputInv` ties the hash to the output: a completed hash is not contradicted by an engine that
writes again.  `AnswerInv` is about requests that ran inline, `AgreeInv` about the worker: a context with
`is_async` was read after the web thread's last write, so from there on the hash follows the
context, step by step through completion, failure and `on_failure`.  From it come
`CompletedHasOutput`, `HashAgreesWhenAcked` and `SyncAnswerAgrees`.

`TimerProofs` proves the three properties of `JobTimers` for every setting of the clocks that
has a task end before its temporary files are old, and outputs swept before hashes expire
(`OrderAssumption`; the configured values are far within it: 2100 s against 3600 s, and
7200 + 3600 s against 14400 s).  The invariant says how old things can be: a run is as old
as its delivery and its files (`RunInv`), an output no older than `FileTTL` and the time to the
next beat of the cleanup, or the time that cleanup has been late (`OutputInv`), and the hash
of a completed job is as old as the output (`HashInv`).

`RateProofs` proves both properties of the limiter for any number of requests, any limit and
any window longer than `Lag`.  The invariant: a transaction is at most `Lag` ticks behind its
reading (`LagInv`), what is in the set came from a request and is not lost with the key before it
is older than the window (`OriginInv`, `ExpiryInv`), and what was counted stays as long as a window of
the clock (`KeptInv`).  The rest is counting: the moments that were let through in a short
enough span were all in the set when the last of them was counted.

`EngineProofs` proves all four safety properties of the run `engines`, for every set of calls
and every limit.  The six families have one lemma each that says what their actions leave alone
(`PageSteps` to `TextSteps`), and `OneFamily` that a call is in the hands of one family only, so
that a property of some tools needs the steps of those tools only.
* `OnlyKnownLeftovers`: `TempsInv` says which tools have never anything beside the output while
  they work, for the two `repair` functions what is there before each of their ways, and for
  `compress_word` and `compress_ppt` what the conversion has left when the document is unpacked
  (`Slimming`).
* `CompressedRenders`: `RendersInv` keeps the candidates among those a program can make.  The
  lemmas are on the choice: a least acceptable size exists (`LeastNatural`), so the version chosen
  passed the gate (`ChosenIsAcceptable`), and up to five pages the gate saw them all (`SamplesAreAll`).
* `CutsAreTold`: `PartsInv` compares what is built with the parts of the request, place by place.
  It says nothing of what `word_to_excel` never tells (`Untold`).
* `NoPartialDocument` (`NoHalfDocument`) has an invariant for each way a document grows in memory, and
  a proof that what it says at the end of the plan is what was asked (`AsAsked`), or, for
  `organize_pdf`, `add_header_footer` and `remove_metadata`, that or exactly their shortfall
  (`Delivered`).
  `UnitInv`, for the edits, the page selections and `edit_word`: what is done and what is left of the
  plan, one after the other, have places in the plan that ascend (`Threaded`), and a place that
  none of them has is of a unit the function may leave out: an operation that shows nothing, a hit split
  over runs, a refusal that is forgiven.  A pass moves a unit over (`ThreadGrows`) or drops it
  (`ThreadSkips`).  `GrownInv`, for the three functions that make several entries or none of a unit:
  after n units the document is the pages of the first n inputs (`Merged`), n turns of two
  documents of different length (`Mixed`), the tables of the first n pages (`Sheets`).
  `PartsInv` again for the exports, and `LibreInv` for the one export LibreOffice makes.
  `edit_pdf` needs a lemma of its own: the four loops together go through the operations once each,
  by kind and then by place (`InTurnIsOrdered`).
The assumptions are types of what the calls carry (`SizesAssumption`, `InputsAssumption`,
`CountsAssumption`, `PagesAssumption`, `EditsAssumption`, `OperationsAssumption`, `HitsAssumption`):
sizes, counts and lengths of lists are natural numbers, pages chosen by `parse_page_ranges` are
pages of the document, and what a client sends as a page or as a limit is any integer
(`RowsAllowed`: below zero is as zero).

`ProgressForward` has the invariant `ProgressInv`: what is in the hash is the 5 of
`mark_processing` or a share of no more chunks than are in, and shares grow (`PercentGrows`).  The
exception for the 5 is part of the statement because the proof asked for it: without it the property
fails from thirty-seven chunks on, when Redis refuses the first report and takes the second.

Every safety invariant that a passing run checks is proved.  Model-checked only: liveness
(`PublishedSettles`, `UploadsDrain`, `Returns`, the settling in `HonoursContract`), which is out of
the prover's reach, and of the refinement `HonoursContract` the functions that write archives, pictures or versions of
a file.  What was asked of `split_by_size` and `split_by_bookmarks` is stated with `FlattenSeq` and
`FoldSeq`, recursive definitions whose value for every input would take an induction over data.
The type invariants of `JobProperties`, `ChunkProperties`, `OcrProperties`,
`PdfToWordProperties` and `CanvasProperties` are proved and not run.

## Not modelled

* Rendering and parsing of documents, the geometry of text, cell values, styles, pixels, the
  HTML the sanitiser keeps: data no property tells apart.
* In the modelled engines: the pngquant branch of `compress_image`, the size limit of
  `remove_bg`'s model, the second close of `unlock_pdf`, `pdf_info`, and the hint
  `edit_text_load` writes to Redis, which nothing reads.
* Upload intake of several files at once, the sizes that decide between inline and queued,
  the queue names and the concurrency of each worker: `JobLifecycle` has one upload
  per job and takes the decision as a choice.
* `core/storage.py`, which nothing imports; the metrics and the visitor counter, best-effort
  counters on which nothing depends; validators, authentication and the office helpers,
  functions without state; the catalog, a compiler from YAML to JSON that runs at build time.
* The static site, nginx, the benchmark and logging.

What is left of the plan:
1. *Proofs*: the safety part of `HonoursContract` for the functions `NoHalfDocument` does not
   cover and whose result is stated without a fold: the other archives, pictures, ciphers.
2. *Upload intake* with several files, queue routing and worker pools, as refinements of the
   steps of `JobLifecycle` that stand for them.
3. *Storage registry* and *metrics*: locks, fallbacks and lost updates, should they get users.
