# Formal models of the invoice service

TLA+ models of the invoice service in `src/`: what happens to an invoice between
`POST /invoices/upload` and the answers clients read. TLC checks the models on
small instances, and TLAPS proves the main results for all values of the
constants. Paths below are relative to `src/app/` unless they begin with `src/`.

## 1. The system

A FastAPI process answers requests and a Celery worker processes uploads. They
share a PostgreSQL database, a Redis broker and an upload directory.

```
  client --- POST /upload --> API ---- INSERT users, invoices ----> PostgreSQL
                               |------ write_bytes ---------------> files
                               '------ .delay() ------> Redis
                                                          |
                        worker slots <--- messages -------'
                          '-- process_invoice: OCR, LLM, LLM, UPDATEs --> PostgreSQL
  client --- POST /{id}/process --> API: the same process_invoice in the request
  client --- GET ... -------------> API: reads committed rows
```

| Component | State it keeps | Operations | Interaction and what is hard |
|---|---|---|---|
| Upload (`api/v1/endpoints/invoices.py`, `services/invoice_service.py`) | users row, file, invoices row | validate, get_or_create_user, write_bytes, create, `.delay()`, commit | four resources and no common transaction: the task is enqueued before the commit; concurrent uploads of one user or one file |
| Processing (`invoice_service.py`, `celery_tasks.py`) | the invoices row: status, fields, `duplicate_of` | update_status, update_extracted_data, mark_duplicate, commit or rollback | one transaction over minutes of work; a worker and requests on one row; FAILED is written in the transaction that rolls back |
| Broker and task options (`celery_tasks.py`, `src/docker/docker-compose.yml`) | messages, retry counters | deliver, acknowledge, retry, return after a death, evict | at-least-once delivery: any run may be repeated after it has committed |
| Duplicate detection (`_score_duplicate`, `find_potential_duplicates`) | none | screen in SQL, score in Python | two tests written separately must agree; LIMIT without order; other sessions' uncommitted rows |
| OCR (`infrastructure/ocr`) | none | native text, rasterization, binarization, recognition | fallbacks that hide failures, the worker's time limit included; goes by the suffix; the one-pass threshold |
| AI client (`infrastructure/ai`) | attempts of a call | `_chat`, `_chat_vision`, conversion of the answers | goes by the MIME type; which exceptions are retried, which escape; which values fail at once, which at the flush, which only in a response |
| Listing (`list_by_user`, `count_by_user`) | the client's offset | a page, a total | two statements and many requests over a table that changes |
| Monthly summary (`get_monthly_aggregates`, `_build_summary_stats`, the endpoint) | dictionaries of one request | group, add up, rank, narrative, shares | groups in any order, NULLs, negative sums, a total of zero |
| Errors (`domain/exceptions`, `core/exception_handlers.py`) | none | exception to envelope | the nearest handler along the class hierarchy; exceptions without one |
| Sessions (`db/database.py`) | transaction, pool of connections | connect, commit, rollback | visibility; connections held during OCR and LLM calls, and while waiting for locks of others |
| Schemas, entities (`schemas`, `_to_entity`, `_to_detail_response`) | none | row to entity to response | the only check of the extracted values, and it comes last |
| Identity (`core/dependencies.py`) | none | header to user id | a refusal before anything else |
| Anomaly, settings, middleware, logging, health, migrations | none that matters | | not modelled, see section 8 |

What makes them correct:

- *Processing*: what a run finds becomes visible at once; a settled invoice
  stays settled; a row is one reading of its file; only the owner's runs change
  it; success means a settled row, with the values that were returned; the life
  cycle of `InvoiceLifecycle` is implemented.
- *Broker*: no committed upload is forgotten; every task ends; an upload is
  extracted if nothing but worker deaths goes wrong.
- *Duplicates*: the screen is never narrower than the score; copies are found; a
  duplicate points to a settled invoice of the same user; two matching invoices
  are both counted only if their runs overlapped, and none of a group of copies
  only if one of them was run again.
- *Upload*: files of committed invoices are whole; every upload ends; the steps
  happen in the order `InvoicePipeline` assumes.
- *Sessions*: whoever waits for a connection gets one; a run never reads a file
  that its own upload has not written.
- *Extraction*: the model is shown all words of the document but those lost for a
  known reason; every call has its attempts; the threshold is Otsu's.
- *Answers*: malformed values are dropped without a trace elsewhere, conforming
  ones come through; what a request commits can be read again.
- *Listing*: following `has_more` skips nothing. *Summary*: exact sums, shares
  that make a whole, and a correct selection of vendors.

`PROJECT.json` lists the hazards of the code one by one with the properties that
watch them.

## 2. Modules

| Module | Models | Builds on |
|---|---|---|
| `DuplicateScoring` | `_score_duplicate` and the conditions of `find_potential_duplicates`, as operators | |
| `DuplicateReport` | `GET /{id}/duplicates` | `DuplicateScoring` |
| `InvoicePipeline` | upload, task, synchronous endpoint, broker, committed rows and drafts | `DuplicateScoring` |
| `InvoiceLifecycle` | abstract: what clients are promised about an invoice | |
| `PipelineProperties` | the properties of `InvoicePipeline`, fairness, and the refinement of `InvoiceLifecycle` | `InvoicePipeline`, instance of `InvoiceLifecycle` |
| `PipelineInvariant` | its inductive invariant | `PipelineProperties` |
| `PipelineHistory` | the pipeline with a record of what each duplicate check has not seen and of what was run again | `PipelineInvariant` |
| `InvoiceUpload` | `POST /upload` in detail | implements `InvoicePipeline` (instance without processes) |
| `ApiSessions` | uploads next to runs of `process_invoice`: connections, row locks, and the file both use | `InvoiceUpload` |
| `ApiErrors` | exception classes, handlers, and the choice among them, as functions | |
| `OtsuThreshold` | the loop of `_otsu_threshold` | |
| `Extraction` | steps 1-4 of `process_invoice`: OCR, the two model calls, errors, the soft time limit | `ApiErrors`, instance of `OtsuThreshold`; the single step `Extract` of `InvoicePipeline` in detail, without a formal refinement |
| `AnswerFields` | every field of an answer from its conversion to the response of a GET | |
| `InvoiceListing`, `MonthlySummary` | pagination, the monthly report | |
| `DuplicateProofs`, `PipelineProofs`, `UploadProofs` (uploads, and `ApiSessions`), `ExtractionProofs` (with the threshold), `AnswerProofs`, `ListingProofs`, `SummaryProofs` | theorems | the modules they are about |
| `SumTheorems` | what sums over finite sets obey, for `ExtractionProofs` and `SummaryProofs` | |
| `MCDuplicateReport`, `MCPipeline`, `MCHistory`, `MCUpload`, `MCAnswers`, `MCListing`, `MCSummary` | constants of the runs | |

Definitions named `Bad...` are faulty variants of the definition that follows
them. No specification uses them: substituted for it, each makes TLC refute a
property, which shows that the property is not vacuous (`PROJECT.json`,
"mutants").

### How state corresponds to code

`InvoicePipeline`:

| Variable | Code |
|---|---|
| `rows` | the committed `invoices` table, as other sessions see it. `fields` reduces the extracted columns to the three that duplicate detection reads; `original` is `duplicate_of` |
| `draft[p]` | what process `p` has written in its open transaction (`absent`: nothing yet) |
| `broken` | transactions PostgreSQL has aborted after an error the code swallowed |
| `pc`, `job` | the position of `process_invoice_task` or of the request; its arguments and `self.request.retries` |
| `reply` | the entity `process_invoice` returns |
| `queue[i][r]` | number of messages for invoice `i` on their `r`-th retry |
| `upload` | position of the upload request |
| `gaveUp` | history: tasks that ended without a commit and without a retry |
| `crashes` | bound on worker deaths |

One action stands for a handler up to the next point at which another session
can see or change something. `Load` is `get_by_id`. `Lock` is
`update_status(PROCESSING)`, which waits for the row lock of any other
transaction that has written the row. `Extract` is OCR, both model calls and
`update_extracted_data`, which selects the row again under that lock and assigns
every column; the reply is built here. `ExtractFails` is the `except` branch.
`CheckDuplicates` reads the other rows as they are committed at that moment and
marks the draft. `Commit` publishes the draft, or nothing if the transaction is
broken. `RollbackAndRetry`, `Republish` and `Acknowledge` are `self.retry` and
late acknowledgement as three steps, because the worker can die between them.

Two facts about the libraries matter. FastAPI leaves `yield` dependencies before
it sends the response, so an upload's 202 means that its commit succeeded.
SQLAlchemy's identity map is weak: when `update_extracted_data` selects the row,
the instance of `get_by_id` is gone, and the values are read anew under the lock.

`PipelineHistory` adds history variables that no step depends on: `missed[p]` and
`unseen[i]`, the invoices whose committed row the check of `p`, or of the run that
wrote `i`, has not seen (because LIMIT may have cut it off, the check failed, or
the row was written between the check and the commit), and `repeated`, the
invoices a run has locked after they were settled.

`InvoiceUpload` splits an upload into `SelectUser`, `InsertUser` (waits for
another uncommitted insert of the same key, fails if it was committed meanwhile),
`OpenFile` (truncates), `WriteFile`, `CreateInvoice`, `Enqueue` and `Commit`.
`content[f]` is `missing`, `whole`, or the request that truncated the file last.
`Progress` maps a request to the upload state of `InvoicePipeline`.

`ApiSessions` adds to it `run[r]`, the position of a run of `process_invoice` (a
worker's or a request's), and `saw[r]`, whether what it has read of its file is
whole or torn. A session takes its connection with its first statement and keeps
it to its end: `Using` counts the uploads past `SelectUser` and the requests past
`Load`. A worker has an engine of its own and no share in the pool. `Truncates` is
`OpenFile` together with what it does to readings in progress. The steps between
`OpenToRead` and `Extracted` or `ExtractionFails` are OCR and both model calls.

`Extraction` represents texts by the pages whose words they contain; an attempt
is one call of the OpenAI SDK, with whatever the SDK repeats on its own. The
suffix, the MIME type and the content of a document are independent, as they are
for the client that chooses the first two. `OpenPage` is `_preprocess_image` up to
the histogram, `Binarize` an iteration of the Otsu loop, `Recognize` the three
Tesseract modes. The pages of an image are the frames of a TIFF, of which only the
first is opened. `SoftTimeLimit` raises where the code is: some of the places drop
it, and `struck` is the page whose recognition did and may have lost its words.
`requests` is a history of the calls of the model.

`AnswerFields` keeps for each column a class of JSON values ("formatted" is text
that is no number, "nan" a NaN, "large" exceeds the column), one column for those
the code treats alike. A list of line items is the set of its elements, each of
which is converted, stored and shown by itself. `row` is the instance in the session, `stored` the committed
one; `Storable` is what PostgreSQL takes, `Readable` what `_to_entity` and the
response model take.

`InvoiceListing` has the page of a request as the set of the rows whose `Position`
in the ordered result lies between the offset and the limit; their order within
the response is left out.

`MonthlySummary` has the rows as `table`, the groups the loop has not seen yet as
`pending`, the dictionaries of the loop as `stats`, and the answer as `response`.

`DuplicateScoring` writes amounts as integers in units of `Numeric(18, 4)` and
scores in percent. The scores the code can produce are multiples of ten, so the
rounding of `0.5 + 0.3 + 0.2` never decides the comparison with 0.85.

## 3. Runs

Passing runs. All faults are named in `KnownFaults` of the module.

| Run | Properties | Bounds |
|---|---|---|
| `PipelineCore` | `PipelineInv`, `ExtractionIsAtomic`, `OriginalIsSettled`, `SuccessIsVisible`, `NoTaskLost`, `SettledForever`, `ReplyIsCommitted`, `ImplementsLifecycle` | 2 invoices that are copies, the LLM may find the number only; 2 slots, 1 retry, 1 worker death, all faults but "statement", "republish" and "evict" |
| `PipelineRequests` | `PipelineInv`, `RowIsOneReading`, `OwnerWrites`, no deadlock | 2 users, 2 invoices, each read in two ways; a slot, and requests by anyone for any invoice; 1 retry, 1 death, LIMIT 1, all faults but "commit_ack" and "slow_upload" |
| `PipelineOverlap` | `TwinsOverlapped`, `OriginalOrRepeat` | 3 invoices whose amounts match pairwise (1%) but not transitively, 2 slots, no retry, 1 death, LIMIT 2, failing extractions and checks, lost answers to a commit |
| `PipelineLiveness` | `TasksDrain`, `UploadSettles`, no deadlock | 1 invoice, 2 slots, 1 request, 1 retry, 1 death, aborted uploads, a failing duplicate check, lost answers to a commit |
| `Upload` | `FilesAreWhole`, `TornByAnother`, `UploadsEnd`, `RunsEnd`, `ImplementsUpload` | 3 uploads of 1 user: 2 of the same file, 1 rejected; 2 synchronous runs and 1 worker; 2 API processes with 1 connection each; pool, broker, commit and API process may fail |
| `DuplicateReport` | `ScreenCoversSignals`, `CopyIsFound`, `NeedsEverySignal` | the invoice and 2 rows over 2 numbers, 4 vendor names (two spellings of one, a longer one, one with a backslash), 4 amounts (credit note, 0, 1, 1.0099) |
| `Extraction` | `NothingElseUnread`, `EachCallHasItsAttempts`, `ThresholdIsOtsu`, `InkSurvives` | every document of 2 pages or frames, every histogram of 4 levels with 0 to 2 pixels each for every page that is binarized, Tesseract working or not, every sequence of answers to 2 calls of 3 attempts, one soft time limit |
| `Answers` | `MalformedIsDropped`, `ConformingIsStored`, `RequestStoresReadable` | every combination of the classes of values; no line item, any one, or any one next to one that conforms; a worker or a request |
| `Listing` | `NothingSkipped` | 4 invoices, pages of 2, any interleaving of commits and status changes |
| `Summary` | `SummaryIsExact`, `SharesMakeWhole`, `TopVendorsAreTop` | every table of 3 rows over 2 categories, 2 vendors, 2 amounts, NULLs; top 1 |

Why the bounds are enough to be of interest: every conflict in the code is
between two parties (two runs on one row, two copies, two uploads of a file, a
message and its successor), and two processes, two invoices, one retry and one
death produce all of these, in every order. Three invoices are needed where the
order of several matters (chains of near-duplicates). One retry distinguishes an
attempt that is retried from the last one, and the code compares its counter
with the maximum only. `PipelineCore` and `PipelineOverlap` use the symmetry of
their two slots: they check safety only, and no property of theirs singles out a
slot. In `Upload` a single connection per process is the pool at its limit, and
the two requests are served by the process that serves the upload of the other
invoice, so that waits for connections, row locks and users rows can form every
chain between the two.
Two pages make the first page of a scan run into the second with the state the
threshold loop left; one line item next to one that conforms shows what a bad item
does to a good one, and the proofs cover every list.
`PipelineRequests` has the faults "statement", "republish" and "evict", so there
`PipelineInv` is checked without its parts `SuccessInv` and `TaskInv`;
`PipelineCore` checks it with them.

`CHECK_DEADLOCK FALSE` appears where the system may stop: when all uploads have
ended and no request comes. In `PipelineRequests` and `PipelineLiveness` a
client may always come back, so there a deadlock would be one.

Violations: `PROJECT.json` lists two, each a disagreement of the code with its own
documentation. The quotations are under "findings".

| Run | Property | What happens |
|---|---|---|
| `FindPolling` | `PollingEnds` | after the last retry the row stays pending: FAILED was rolled back |
| `FindUnreadable` | `ProcessedIsReadable` | a line item's price that is text, or a NaN, is committed by a worker; every GET of the processed invoice, and of a list page with it, is a 500 |

The other configurations `Find*.cfg` are to be read next to a passing run. Each
makes TLC refute one statement of the source, and shows what the passing run's
property has to except, or what a proof has to assume.

| Configuration, module | Property | What the source says | What happens |
|---|---|---|---|
| `FindTwins`, `MCPipeline` | `TwinIsMarked` | `src/README.md:3`: the system "detects duplicates"; `src/README.md:220` has the check among what is done for every upload | `invoice_service.py:280` reads what others have committed: two copies processed at once (`--concurrency=4`) are both left processed, and both counted by the summary |
| `FindCycle`, `MCPipeline` | `OriginalSurvives` | `src/README.md:270`: "Duplicate of another invoice"; `celery_tasks.py:40`: "at-least-once" | an original that is delivered again becomes a duplicate of its own duplicate (`invoice_service.py:283`); the summary counts neither |
| `FindSwallowed`, `MCPipeline` | `SuccessIsVisible` | `invoice_service.py:278`: "never fails the pipeline" | a database error in the duplicate check turns COMMIT into ROLLBACK; the task succeeds, the invoice stays pending |
| `FindLostRetry`, `MCPipeline` | `NoTaskLost` | `celery_tasks.py:40`: "ack only after success" | the broker refuses the next attempt (`celery_tasks.py:96`); the message is rejected, the invoice stays pending |
| `FindCreditNote`, `MCDuplicateReport` | `SharedFieldIsCandidate` | `repositories/__init__.py:278`: "share any of the three key fields" | the amount's interval is empty for a negative amount (`:293`) |
| `FindCutOff`, `MCDuplicateReport` | `CopyIsReported` | `src/README.md:313`: "Upload the same invoice file twice, then call:" | LIMIT without ORDER BY (`repositories/__init__.py:307`) hides the copy from the report |
| `FindOcrFailure`, `Extraction` | `ProviderFailureIsReported` | `ocr/__init__.py:35`: "Raises OCRError on provider failure." | without Tesseract (`ocr/__init__.py:193`) a scan is processed as an empty text |
| `FindErrorStatus`, `Extraction` | `FailedExtractionIs422` | `src/README.md:434`: "422", `EXTRACTION_FAILED` | an error of the provider is a 500 `INTERNAL_ERROR` (`exception_handlers.py:73`) |
| `FindUnretried`, `Extraction` | `ApiErrorsAreRetried` | `ai/__init__.py:10`: "Tenacity handles transient API errors" | an APIError is wrapped (`ai/__init__.py:263`) before tenacity sees it |
| `FindEnvelope`, `Extraction` | `EveryErrorHasEnvelope` | `src/README.md:414`: "All errors return the same envelope" | ValueError and RateLimitError have no handler, and FastAPI answers 401 and 422 in its own form |
| `FindCurrency`, `MCAnswers` | `CurrencyIsStored` | `ai/__init__.py:71` and `:94` tell the model to answer "AUD" | `Currency` (`domain/enums/__init__.py:26`) lacks AUD: it is dropped |
| `FindQuantity`, `MCAnswers` | `QuantityIsStored` | `ai/__init__.py:81`: "numeric value from Quantity column" | `item.get("quantity") or 1` (`:463`) makes one of zero |

`FindTwins` and `FindCycle` are the counterparts of `PipelineOverlap`: the promise
fails, and the passing run says exactly when.

More disagreements, each refuted by TLC after the stated change to a run's
configuration:

| Property | Change | What the source says | What happens |
|---|---|---|---|
| `NoTaskLost` | `PipelineCore` with the fault "evict" | `celery_tasks.py:40`; `src/docker/docker-compose.yml:97` sets `allkeys-lru` | the broker drops the queue, the invoice stays pending |
| `ReplyMatchesRow` | added to `PipelineCore` as a PROPERTY | `api/v1/endpoints/invoices.py:85`: "returns the extracted invoice" | the call answers processed and commits duplicate |
| `PendingIsNotStarted` | added to `PipelineCore` as an INVARIANT | `src/README.md:266`, on pending: "worker hasn't started yet" | PROCESSING is never visible: a started invoice reads as pending |
| `UserIsEnsured` | added to `Upload` as an INVARIANT | `repositories/__init__.py:148`: "Ensure a user row exists." | one of a new user's simultaneous uploads fails |

Seen in the tables and definitions of the models rather than by a run:

- `ApiErrors.Handlers` against the table at `src/README.md:427`: 401 has no code
  `UNAUTHORIZED`, bad parameters are 422 and not 400, a failing OCR is
  `OCR_FAILED`.
- The documented statuses processing and failed are never committed
  (`FindPolling`, `PendingIsNotStarted`). `ExtractionIsAtomic` does not rely on it:
  it would hold as well if the code showed them.
- `services/invoice_service.py:346` says that "the AI step will catch obvious
  outliers", but that step is reached only if the statistical check fires, which
  it never does.
- A summary whose narrative fails is an error as a whole (`NarrativeFails`),
  although its numbers are there.

## 4. Assumptions about the environment

- PostgreSQL runs at READ COMMITTED; an UPDATE holds its row lock until the end
  of the transaction; a session's death rolls its transaction back.
- The broker delivers a message as long as it is not acknowledged, in any order.
  A retried message is at least 30 seconds old (`default_retry_delay`) and finds
  the upload ended, unless "slow_upload" is among the faults.
- `Crash` returns the message at once. The code leaves that to
  `task_reject_on_worker_lost` or to the broker's visibility timeout.
- "republish": `self.retry` raises if the message of the next attempt cannot be
  published, and Celery then rejects the old message without requeueing it.
- "time_limit" is Celery's behaviour with the prefork pool, the default that
  `celery_tasks.py` describes. `docker-compose.yml` selects the threads pool,
  which has no hard limit: there the fault does not occur.

## 5. Fairness

`FairSpec` of `PipelineProperties` assumes that a handler or worker that can go
on does so (weak fairness of an upload's steps, of `Process`, of a worker's
`Settle` and of `Respond`); that a message which is deliverable again and again
is delivered, because consumers take the head of a list (strong fairness of
`Deliver`); and that a lock is granted to a session that asks again and again,
because PostgreSQL queues waiters (strong fairness of `Lock`). Nobody owes an
upload, a request, a crash or a fault.

`SessionsFairSpec` of `ApiSessions` assumes strong fairness of the steps of each
upload that has been received and of each run that has started. Strong, because
a connection, a row lock or another's insert of the same key is available and
taken again before a waiter gets it: SQLAlchemy's pool and PostgreSQL both serve
waiters in order. That a torn reading fails, that a wait times out, or that
anything arrives at all is not assumed: `RunsEnd` and `UploadsEnd` hold although
every party may hold what another waits for. They do because the two kinds of
waiting are ordered: who waits for a connection holds nothing, and who holds a
row lock or an uncommitted users row holds a connection already.

## 6. Proofs

`PipelineProofs` proves `PipelineInv` inductive, and from it the safety
properties. `PipelineInv` consists of:

- `TypeOK`.
- `RowInv`. The properties of the visible rows, as `OriginalIsSettled`, say
  nothing of drafts, and a commit publishes a draft. So `ProgramInv` ties the
  status of a draft to the position of its process; `DraftInv` says that a draft
  belongs to an existing row, was made for its owner, and carries either the
  committed `duplicate_of` or one that points to a settled row of the same user;
  `LockInv` says that there is one draft per row, without which a commit could
  invalidate what another draft carries; `UploadInv` ties rows to uploads, and
  `BlankInv` says that a row which is not settled shows nothing of an extraction.
- `SuccessInv`: without "statement", no transaction is broken.
- `RetryInv` and `TaskInv`: once enqueued, an invoice is settled, given up, in a
  message, or held by a worker that has not handed over yet. `NoTaskLost` alone
  is not inductive: a worker in `done` or `release` would satisfy it and then
  disappear.

| Theorem | States | Assumes |
|---|---|---|
| `TypeCorrect`, `RowsCorrect`, `InvariantHolds` | `TypeOK`, `RowInv`, `PipelineInv` | the module's assumptions |
| `ExtractionsAreAtomic` | `ExtractionIsAtomic` | |
| `OriginalsCorrect` | `OriginalIsSettled` | |
| `SettledStays` | `SettledForever` | |
| `Implementation` | `ImplementsLifecycle`: each step maps to a step of `InvoiceLifecycle` or a stutter | |
| `SuccessMeansSettled` | `SuccessIsVisible` | no "statement" fault |
| `TasksAreKept` | `NoTaskLost` | no "statement", no "republish", no "evict" |
| `CopiesAreReported` (`DuplicateProofs`) | `CopyIsFound` | |
| `ScreenIsComplete` | `ScreenCoversSignals` | |
| `EverySignalIsNeeded` | `NeedsEverySignal` | threshold above 0.8 |
| `RowsAreReadings` (`PipelineProofs`) | `RowIsOneReading` | |
| `RepliesAreCommitted` | `ReplyIsCommitted` | |
| `OwnersWrite` | `OwnerWrites` | |
| `TwinsOverlap` | `TwinsOverlapped` | threshold above 0.5 |
| `OriginalsOrRepeats` | `OriginalOrRepeat` | |
| `FilesStayWhole` (`UploadProofs`) | `FilesAreWhole`: whole, unless another upload of the document is writing it or died doing so | |
| `UploadRefinesPipeline` | `ImplementsUpload`: each step of an upload maps to one of `InvoicePipeline`'s upload steps or a stutter | |
| `SessionsImplementUpload` | `ApiSessions` implements `InvoiceUpload` | |
| `SessionsKeepFiles` | `FilesAreWhole` next to runs | |
| `ReadingsTornByAnother` | `TornByAnother` | |
| `ThresholdsAreOtsu` (`ExtractionProofs`) | `ThresholdIsOtsu` | |
| `InkIsNeverLost` | `InkSurvives` | |
| `EverythingElseIsRead` | `NothingElseUnread` | |
| `CallsHaveTheirAttempts` | `EachCallHasItsAttempts` | |
| `MalformedValuesAreDropped` (`AnswerProofs`) | `MalformedIsDropped`, for every list of line items | |
| `ConformingAnswersAreStored` | `ConformingIsStored` | |
| `RequestsStoreReadableRows` | `RequestStoresReadable` | |
| `FollowingHasMoreSuffices` (`ListingProofs`) | `NothingSkipped` | |
| `SummariesAreExact` (`SummaryProofs`) | `SummaryIsExact` | |
| `SharesAddUp` | `SharesMakeWhole` | |
| `TopVendorsAreLargest` | `TopVendorsAreTop` | |

Every safety invariant and every action property that a passing run checks is
stated by one of these theorems. "Assumes" names what a theorem needs beyond the
named assumptions of the modules. Those are without exception conditions the
models have no meaning without: a page size of at least one, finite tables, no two
invoices of a user created in the same microsecond, NULL distinct from any value.

### The pipeline

`RowsAreReadings` and `RepliesAreCommitted` need `ReadingInv`: from the extraction
to the commit a draft's fields are one of the file's readings and those of the
reply. It rests on `LockInv`, because only the row lock keeps another run from
publishing its fields in between.

`TwinsOverlap` and `OriginalsOrRepeats` are about `HistorySpec`, the pipeline with
its record, and restrict neither the processes nor the faults; `HistoryStep` says
that the record restrains nothing, so that all that holds of the pipeline holds
there. Neither property is inductive. For the first, `CheckInv` says that a draft
about to be committed without a mark matches no processed row of the user, except
those in `missed`; whoever commits in between adds what it writes to everybody's
`missed`, and a commit turns its own into `unseen`. For the second, `RepeatInv`
says that a draft of a settled row belongs to a repeated invoice. So the commit
that would close a cycle, which needs a row some `duplicate_of` already points to,
is one of a repeated invoice, because originals are settled (`OriginalIsSettled`).

The bound on the threshold in `TwinsOverlap`, and that of `EverySignalIsNeeded`,
are conditions on the setting `duplicate_similarity_threshold`. At 0.5 the vendor
and the amount alone make a duplicate, and a credit note whose vendor has a
backslash in its name is then not screened by either. `ScreenIsComplete` needs no
bound, as it is about the signals and names these two exceptions itself: its
arithmetic is that 100 times the distance below the larger of the amount and a
cent implies both bounds of the SQL interval, on either side of one cent.

### Uploads

`FilesStayWhole` needs the strengthening `FileInv`: who truncated a file last is
still writing it, and a request past its write has found its file present.
`UploadRefinesPipeline` needs that an upload's task is in the broker only from
its `Enqueue` on, which makes the pipeline's counter of messages agree with the
detailed module's set; the users row and the file are what it abstracts from.
`ReadingsTornByAnother` needs `RunInv` (a run past `Load` has found a committed
row) and that the file of a committed invoice is whole or another upload's.

### Extraction and answers

`OtsuInv` says of the loop over grey levels that its running sums are the number
and the sum of the pixels below the level it has reached, and (`Found`) that its
threshold is the least level seen so far with the greatest variance between the
classes. That the running sums are sums over the histogram is where `SumTheorems`
comes in. The code compares variances between the classes; `ThresholdIsOtsu` is
stated with the part of the scatter that a split explains. `ScatterSplits` and
`Comparable` prove, in integers, that the two order the splits alike.

`EverythingElseIsRead` needs `ReadInv`, which ties what has been collected to the
position within the document: the pages before the current one have given their
words, or are `Lost`. That a page with words is legible once it is binarized comes
from `InkIsNeverLost`, so the threshold is no reason to lose any. The six reasons
the property leaves are: words outside ASCII; the later frames of an image on the
text path; scanned pages next to native ones; no Tesseract; the page struck by the
soft time limit; the end of a text of more than 6000 characters.
`CallsHaveTheirAttempts` needs `AttemptInv`: the last `tries` requests are
refused attempts of the current call. Without it the history of the requests and
the counter that `tenacity` keeps have nothing to do with each other.

`AnswerInv` says that from the parser on the row is the converted answer with a
category, that a run fails only for a value listed in `Unusable` or for the answer
about the category, and that whatever is committed for a request has passed the
response.
The run enumerates lists of at most two items; the theorems hold for every list.

### Listing and summary

`ListingInv` says where the invoices are that the client has not got yet: at its
next offset or below. `PositionsGrow` (a commit moves rows down at most),
`PageBound` (a page has at most `Limit` rows, because positions differ) and
`PositionBound` (a position is less than the total) make every step keep it; the
last makes `has_more` true as long as anything is below the page.

`SummaryInv` says that the dictionaries of the loop hold the sums and counts of
the invoices in the groups it has seen (`StatsOf(Seen)`), whatever their order,
and that the vendors chosen are among them and have the largest sums.

The library defines `SumFunctionOnSet` by a fold, and its induction theorems take
the induction hypothesis as an operator, which no installed prover can
instantiate. `SumTheorems` does without: if a law failed for some subset of a
finite set, there would be a minimal one for which it fails (`MinimalSet`, from the
fact that strict inclusion is well-founded on finite sets), and adding or removing
an element contradicts that.

### Only model-checked

- All liveness properties (`TasksDrain`, `UploadSettles`, `UploadsEnd`, `RunsEnd`)
  and the absence of deadlock: fairness and ENABLED are beyond the prover.
- The properties of `Find*.cfg` and those in the last table of section 3 are
  statements of the source and its documentation that do not hold, or not under
  that configuration.

## 7. Plan

Done: duplicate scoring, pipeline, life cycle, invariant and proofs, upload,
extraction, listing, summary, threshold; then the file's readers and the
connection pool composed with the uploads (`ApiSessions`), the fields of the
answers (`AnswerFields`), the errors (`ApiErrors`), the threshold inside the
extraction, the response of the summary; the record of overlapping and repeated
runs (`PipelineHistory`); and a proof of every safety invariant and action property
the passing runs check.

Next, in this order:

1. `Extraction` composed with `InvoicePipeline`, so that its outcomes are the
   pipeline's `Reads` and faults, shown as a refinement; `AnswerFields` likewise
   as the values behind `Fields`.
2. A client that pages through a filtered list while rows leave the filter, if a
   document says what it may expect.

## 8. Not modelled

- Anomaly detection: `_statistical_anomaly` always returns `(None, False, None)`,
  so the LLM is never asked, `mark_anomaly` is never called and the report is a
  constant.
- `processing_jobs`: declared in the models, never read or written.
- Settings, middleware, logging, health and migrations: no state, or none a
  property could be about. The readiness probe is one statement on a session.
- Prompts and images, the white space of texts, the wording of messages, the text
  of the narrative: data no modelled decision depends on.
- Currencies in the summary, which adds amounts of all of them and labels the sum
  USD, as the code says itself; a NULL `invoice_date` belongs to no month.
- The event loop: OCR is synchronous, so that a synchronous run delays every other
  request of its process. It does not change what they do.
- The end of a text of more than 6000 characters, scanned pages in a PDF that has
  text, and the later frames of a TIFF on the text path are not shown to the model.
  `NothingElseUnread` names these as reasons; no document says anything about them.
- A client that pages through a filtered list while rows leave the filter misses
  others. `NothingSkipped` excludes that case.

## 9. Running

```
tlc -workers 2 -config PipelineCore.cfg MCPipeline
tlapm PipelineProofs.tla
```

Each run's module is in `PROJECT.json`, or in section 3; every run finishes within half a minute.
