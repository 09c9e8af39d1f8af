# TaxLens AI in TLA+

TLA+ models of the parts of TaxLens AI in which order, failure and concurrency
matter, checked with TLC on small instances, and theorems about them proved with
TLAPS for every value of the constants. Paths are relative to the repository.

    tlc -workers 2 -config AirflowJobs.cfg MCAirflowJobs     # one run
    tlapm AirflowJobs_proofs.tla                             # one module's proofs

`PROJECT.json` lists the runs, the mutants that show that each property can fail,
the source lines of every definition (`map`), hazards, findings and theorems.

## 1. The system

TaxLens AI collects Vietnamese tax law from two government portals, extracts its
text (with OCR where needed), cuts it into passages, embeds them, and answers
questions with citations. PostgreSQL (with pgvector) holds everything but files,
which are in a blob store. The work is done by scripts, which the API starts in
subprocesses when Airflow asks for them.

| Component | State it keeps | Operations | Module |
|---|---|---|---|
| API job runner (`api/routes/internal_jobs.py`) | `_jobs` in memory, subprocesses, log files | POST a job, GET a job, kill, forget | `JobRunner`, `JobService`, `JobOutput` |
| Airflow client (`airflow/dags/taxlens_jobs.py`) | one call of `run_api_job` per task | post, poll, retry, give up | `AirflowJobs`, `JobOutput` |
| DAGs (`airflow/dags/*.py`) | task states | daily chain, maintenance actions | `Pipeline`, `AirflowJobs` |
| Processing (`scripts/process_corpus.py`, `document_processing/process.py`) | text, job, passages and vectors of a version; blobs | claim, extract, re-chunk, record failures | `Processing`, `Pipeline` |
| Text extraction and chunking (`document_processing/*.py`) | none | read RTF, Word and PDF, cut a text into passages | `WordText`, `PageText`, `Chunking` |
| Embedding (`scripts/embed_corpus.py`, `retrieval/embeddings.py`) | vectors of passages | scan pages, embed batches | `Embedding`, `Pipeline` |
| Collection (`scripts/collect_sources.py`, `seed.py`, `ingest_sources.py`, `ingestion/*.py`) | documents, versions, source records, raw files, the cached listing | list, crawl, choose, download, ingest | `Listing`, `Catalog`, `Collection` |
| Maintenance scripts (`prune_non_tax_documents.py`, `correct_document_numbers.py`) | the same | delete, renumber | `Collection` |
| Retrieval (`retrieval/*.py`, `api/routes/search.py`) | none | rank, fuse, deduplicate, page, infer repeals | `Retrieval`, `Repeals`, `Evaluation` |
| Question answering (`intelligence/*`, `api/routes/questions.py`) | one request | plan, retrieve, assess, generate | `Answering` |
| Accounts and limits (`api/auth.py`, `api/routes/auth.py`, the web proxy) | accounts, browser sessions, sliding windows | log in, administer, limit | `Accounts`, `Limits` |
| Start-up (`api/main.py`, `api/migrations.py`) | schema revision, state of each container | migrate, become ready | `StartUp` |
| Document pages (`api/routes/documents.py`) | none | list, filter, page, count, export, preview | `Library`, `Previews` |
| Evaluation (`scripts/evaluate_tax_retrieval.py`, `evaluation/*.py`, `retrieval/issues.py`) | frozen manifest | interleave, match provisions, compare, gate | `Evaluation` |
| Storage, web pages, infrastructure | | | not modelled, see section 8 |

How they meet. Airflow talks to the API by HTTP, with requests that can be lost,
late or repeated. The API and its scripts share nothing but the subprocess, its log
file and its exit code. Scripts share the database: processing runs by row locks,
collectors by unique constraints, embedding runs by a unique constraint and by
keyset pages over rows that processing replaces. A question reads the corpus in two
statements while all of this goes on. A release restarts the API container and with
it all scripts.

What is hard: the verdict on a job is decided by whoever asks; several clocks
(job limit, task deadline, request patience, retention) must fit together; output is
read in bytes while a process writes and exits; a run may be killed between any two
statements; snapshots are older than the locks taken on their rows; transactions of
overlapping scripts meet only in constraints; lists are made before they are acted
on, and read page by page while the portal changes; stored text is cut again by a later
release and should give the same passages; citation numbers and evidence are computed
apart; two administrators act on each other; several sign-ins pass a limit before one is
counted; containers migrate one database at the same time. `hazards` in `PROJECT.json`
has each of these at its line.

## 2. Modules

    JobService  <-- refines --  JobRunner  <-- EXTENDS --  AirflowJobs
    Processing  <-- EXTENDS --  Embedding  <-- EXTENDS --  Pipeline
    Retrieval   <-- EXTENDS --  Answering
    Chunking    <-- EXTENDS --  Previews
    Collection

    MCAlgorithms:  Chunking and Previews, Library, WordText, PageText, Listing,
                   Catalog, Repeals, Evaluation
    MCApi:         Accounts, Limits, StartUp, JobOutput

The modules of the last two lines share nothing; a variable of the MC module (`family`,
`part`) says which of them moves in a behaviour, so that one run covers them side by side.
`MC<Module>` gives small instances. The theorems are in eight modules, by what they extend:

| Theorems in | About |
|---|---|
| `AirflowJobs_proofs` | `JobRunner`, `AirflowJobs` |
| `Embedding_proofs` | `Processing`, `Embedding` |
| `Collection_proofs` | `Collection`, `Listing`, `Catalog` |
| `Answering_proofs` | `Retrieval` (lemmas), `Answering` |
| `Api_proofs` | `Accounts`, `Limits`, `StartUp`, `JobOutput` |
| `Algorithms_proofs` | `Evaluation`, `PageText`, `Repeals`, `WordText`, `Library` |
| `Chunking_proofs` | `Chunking`, `Previews` |
| `Ranks_proofs` | places in a sorted answer, greatest and least of a set, for all of these (lemmas) |

**JobService / JobRunner.** `JobService` is what a caller may rely on: per key (script
and arguments) at most one job in flight, and a verdict that comes once and stands.
`JobRunner` is the registry as coded. Both routes hold `_jobs_lock`, so each is one
action: `Observe` (GET), `Reattach`/`Launch`/`LaunchFails` (POST, with the
`_forget_old_jobs` and the `_is_running` calls of the loop inside). `Settle` is what
`_is_running` records, `StillRunning` what it answers. `Exit`, `Restart` and `Tick` are
the world. A clock that is only compared with a limit saturates above it.

**AirflowJobs.** `run_api_job` composed with the runner: the POST, the loop, the
`_request_json` retries, the 404 after a restart, the task's deadline, Airflow's own
retry, and POSTs that arrive after their sender gave up (`LateArrives`). `Prompt`
says that the worker is not suspended between an answer and the next check.

**JobOutput.** `_read_output` and `_show_new_output` on a log of bytes: plain, newline,
and head and tail bytes of longer characters, so that `decode(errors="replace")` is
modelled by which characters come out whole. Writes split anywhere; an answer may be
lost; the script may exit between the status and the read.

**Processing.** One run is a state machine per statement that matters: the query's
snapshot, the lock on a row (`FOR UPDATE SKIP LOCKED`, which re-checks only the
version's own columns), the stored or extracted text, the blob, the commit, the
rollback and the separate failure record. Six kinds of runs (`AllModes`) share it.
A text stands for its hash, key and bytes; `Split` gives its passages under each
chunker edition.

**Embedding.** Extends `Processing`, so that rows come and go beside the scan. A page
is any set of rows not yet passed, which is what a scan over random ids can return;
`owed` remembers the rows a run found when it began.

**Pipeline.** The daily DAG over `Embedding` (and so over `Processing`): `After` has the
order and the trigger rules, `Ended` the retries, `Ask`/`Answered`/`LoseSight` what
`run_api_job` comes to for a caller: it starts a job or joins the running one, and ends
when that does or when the API is out of sight; a job that is killed or ends with an
exception turns the task that waits for it red. The runs go on whether their task waits or
not. `Collect`, `Works`, `Embeds` are the steps of the three kinds of jobs.

**Collection.** Collectors, corrections and a prune on documents (number, title) and
versions (named by file hash). `Look`, `Store` and `Commit` are the three moments of
`ingest_seed_document` between which other transactions commit; `Allowed` is what the
unique and foreign keys let through. A run is over one source (`KindsOf`): the daily one
over the portal, others, started by hand, over the ministry's listing, both, or the samples of
`seed.py`. Corrections are one transaction; a prune is a list and then a commit per
document. `NonTax` has the branches of `_documents_to_remove` in their order: the curated
numbers, documents with a sample among their versions (which go whatever their issuer), the
finance issuers, the title.

**Listing.** How a collector learns what there is. The ministry's search is read page by
page, newest first, while records are published and withdrawn; failed requests are
repeated, a finished listing is kept for a day and an unfinished one never. The portal
is a set of records; a record is on a page by how many newer ones are before it. The
government's search shows at most `Cap` results, so a full year is asked for again for
each of nine issuers (`Issuers`); what is left out by its code are the local ones (`Local`).
The two are different lists: other issuers are in neither.

**Catalog.** The breadth-first walk of `OfficialPortalConnector`, its limit, its retries,
the choice of a row's file, the order of the links where a page does not mark its numbers
(`InLinks`), and the removal of duplicates. A document is the place of its
row: page and row number, so that the order of the list is that of places. The pages
within n links of the first are a recursive function of n (`Within`), and the number of
links to a page its distance; both speak of the portal and not of the walk.

**Chunking.** `build_article_chunks` with everything below it, as operators on sequences of
symbols: headings and their increasing numbers, the end of the operative text, clauses,
spans, pages. A heading, a clause number or a signature line is one symbol. Each loop of the
code over the text is a recursive function of how far it has come (`ReadArticle`,
`ReadSection`, `ReadClause` are what one turn does), a heading is where its line starts, and
the text is first a list of parts (`TextParts`: preamble, articles or their clauses, what
follows the last article), each of which is then cut to size (`SplitSpan`). Texts grow line by line,
so that the states are all texts up to the bound, and the invariants compare what the
operators give with where a reader would say things are. `TrueArticles` are the article
lines that are not citations of another text (`cited`, which the code cannot see);
`ArticlesGoUp` says of which texts the code's rule of increasing numbers finds them.

**Library, Previews.** The routes of `documents.py` as operators on the rows of the corpus,
each request an element of `Requests`. ORDER BY is `InOrder`: the place of a row is the number
of rows ahead of it. A sum is the number of rows it counts (`SumOf`), as in SQL. `Previews`
reads the preview of a version off the passages of `Chunking`.

**WordText, PageText.** `_rtf_text` token by token with its stack, `_clean_word_text`
character by character, and the passes of `process_document_version` over the pages of a
PDF: own layer, OCR of what lacks or cannot be trusted, conversion of TCVN3 lines. A
character that comes out carries where it stood, so that loss, order and font can be
compared.

What a file means is said without a stack: the depth of a token counts groups, a setting
holds while its group is open (`InForce`), and text and fallbacks are counted from there.

**Repeals.** `infer_repeals`: explicit statements, then rounds of guidance and amendment by
cited numbers and named laws. Each pass over the statements, the titles or the rounds is a
recursive function of how far it has come; the code stops at a round that changes nothing,
the model makes as many as there are titles, and the proof shows that this is enough.

**Evaluation.** `interleave`, `provision_ranks`, coverage, the comparison of two methods,
the gate, and the comparison of the corpus with a frozen manifest. The two loops of
`interleave` are an order of turns (a place of a ranking each): the n-th passage of the
merged ranking is that of the n-th turn whose passage is unseen.

**Accounts.** A request of an administrator is three statements (authenticate, load,
commit) between which others commit; a row that did not look changed is not written, as
SQLAlchemy does. Browser sessions outlive their accounts. `revoked` is history.

**Limits.** The dictionary of a `SlidingWindowRateLimiter` with its order of insertion and
its eviction: a key has its place in the dictionary (0 when it is not there) and the ages of
its events inside the window, newest first. A question is checked and counted at once, a sign-in before and after the
password check. `spent` is history.

**StartUp.** Containers with their `_state`, upgrades as one transaction each that fits
only the revision it read.

**Retrieval.** Operators: keyword ranking with its pruning bound, semantic ranking,
reciprocal rank fusion (as exact fractions, by cross-multiplication), the removal of
forms and of second versions, and the page of `GET /search`.

**Answering.** The graph of `intelligence/qa.py` over `Retrieval`. Statuses and rows may
change between the keyword and the semantic statement (`Refresh`, `CutAgain`); a row
read twice in one session keeps its first status. The model's answer is any claim of
`Claims`; "supported" is taken for exact.

## 3. Runs

| Run | Asks | Bounds |
|---|---|---|
| `airflow_jobs` | one live process per key, refinement of `JobService`, green means done, polled jobs are kept, the time limits fit | 2 tasks on 1 key, 3 jobs, 1 late POST each, limits of 1 tick |
| `airflow_liveness` | every task ends | 1 task, 1 retry, 2 jobs |
| `unwatched_job` (violation) | "killed after six hours" | 1 task |
| `processing` | two overlapping runs of five kinds, kills, errors, a release | 2 versions, 3 texts, 2 chunker editions, `--limit` 2 |
| `lost_hole` (violation) | the record that OCR failed | 1 version, 1 run |
| `embedding` | two embedding runs beside a processing run | 1 version with 3 passages, pages of 2, batches of 1 |
| `pipeline` | the daily chain ends with everything processed and embedded | 2 versions, 1 run of each script, limits of 1, 2 attempts, 2 editions |
| `collection` | a daily and a manual run, corrections, prune | 6 items of three sources, 5 files, 4 document ids, `--limit` 2 |
| `answering` | from ranking to answer | 5 rows, 4 texts, 3 versions, 2 documents, 4 settings of statuses, 4 claims |
| `search_pages` (violation) | pages agree | the same, pages of 1, 1 candidate |
| `algorithms` | eleven families of inputs, see below | below |
| `api` | accounts, limiters, start-up, job output | below |

Why the bounds are enough for what they ask. Two tasks, runs or collectors are the
smallest number that interleave; three job ids let a key be started, lost in a
restart and started again. Ticks only need limits in the right order. Two chunker
editions and a text that splits differently show re-chunking; one passage more than a
page shows paging. The listings in `MCCollection` have two files under one number, one
wrongly, a number both sources list with one file between them, so that it is held under
another number until it is corrected, a link that is dead every time, and a sample that
carries the number of a finance issuer.
In `answering` every assignment of term matches 0, 2, 3 with ties and of the allowed
distances is an initial state, so that all rankings of the texts that these tell apart
occur.

In `pipeline` two versions are collected before or after the second edition is released,
and with a limit of 1 the older may keep the newer from its turn, by failing each re-chunking
or by taking each run down.

`algorithms` (about 200 000 states): texts of up to 4 lines and 2 pages in two styles,
passages of 5 characters (lines of one to six, so that articles split, clauses count and
introductions are set apart); corpora of 3 versions of 3 documents under every filter and
pages of 1 and 2; a portal of 4 records, 2 on a page, in 2 selections; 3 years with a cap
of 2 and 4 issuers (two asked for, one local, one neither); catalogs of 5 pages, one without
marked numbers, with every choice of links of three of them, and 3 visits; 4 titles and 2 statements over 3 days; RTF of 5 tokens; Word texts of 6
characters; 2 pages with every layer of 4 lines; 3 rankings of 4 passages in all; 3 changes
of a corpus.

`api` (about 380 000 states): 2 founding administrators, a third id and 2 names, 2
requests at once (a request that changes nothing or is too old is under way alone:
`Apart`); 3 keys for a table of 2, a limit and a window of 2, 2 sign-ins at once; an old and
a new container; logs of 8 bytes, which hold two lines with a split character and a tail
that falls behind.

`airflow_jobs`, `processing`, `embedding` and `api` use symmetry sets; none of them has a
liveness property. Deadlock checking is off where the system may stop: the tasks have ended,
the script has exited and its pollers have their final answer, the question is
answered, an input is at its bound.

### Properties

- `SingleFlight`, `ImplementsService` (runner); `GreenMeansDone`, `DeadlineIsSpare`,
  `PolledIsKept`, `TasksEnd` (tasks).
- `OutputIsRight`: what pollers show is the tail of the output, each character whole and
  once, and exact when the job is over. `collect_selected` decides on the final tail
  whether to stop.
- `NothingIsMissing` (stored texts never dangle, no version drops out of sight),
  `NothingIsStale` (passages, job and text agree; what is chunked again is current),
  `TextStands` (processing); `CompleteMeansEmbedded`, `UnchangedKeepVectors` (embedding);
  `CatchesUp`, `AllEmbedded` (the daily chain).
- `EveryDocumentHasAFile`, `RawIsStored`, `CollectedStays`, `EveryNumberIsCollected`
  (collection). `ListingMissesNothing`: a finished listing holds every wanted record that
  was there all the time, unless a withdrawal shifted the pages; `YearsAreWhole`: what no local
  issuer published in a year is listed if the year is below the cap, and above it if the issuer is
  one of the nine and below the cap alone; `CrawlIsWhole`.
- `PassagesHoldTheText`, `LocatorsAreRight` (chunking, and chunking the stored text again);
  `WordTextIsRight`, `PageTextIsRight` (extraction).
- `RankingIsRight` (reading only the passages near the n-th best gives what reading all
  would; what both rankings agree on is first; one version per place), `CitesWhatItRead`,
  `CurrentLaw`, `CaveatShown` (answers); `RepealsAreJustified`.
- `ListsAgree`, `PreviewOpens` (document pages).
- `InterleaveIsFair`, `ScoresAreEarned`, `ComparisonTells` (evaluation).
- `LastAdminStands`, `RevokedChangesNothing`, `WindowsHold`, `LiveCountsStay`,
  `ReadyMeansMigrated` (API).

Each property has a mutant in `PROJECT.json`: a plausible error in the code under which
the same run finds it violated.

### Fairness

- `AirflowJobs`: a task in its loop takes its next step and time passes. Nothing is
  assumed of scripts, of the API or of requests: `TasksEnd` holds although a script may
  hang and the API never answer. Time is strongly fair because every poll sleeps.
- `Pipeline`: Airflow goes on with the DAG and starts it every day (weak fairness of
  `DagGoesOn`, `Ask`, `Answered`), a living run goes on (weak fairness of `Works` and of
  `Embeds` or `EmbeddingFails`), and while versions are missing one is collected on some day
  (strong, as `Collect` is enabled only now and then). That is all. What must be assumed of
  kills, which nothing in the code bounds, is a premise of the property that needs it:
  `RunsGetToWork` (runs of each mode are not all killed before they have looked for and
  claimed their first, second ... version), `LetsRunsLive(v)` (version v does not kill every
  run that takes it up) for a version and the older ones, `BatchesGetDone` (embedding runs
  are not all killed before they have fetched a page with work and stored a batch).
  Extraction and re-chunking may fail every time. `CatchesUp` claims of each version for
  which this holds that in the end it is collected and has its FAILED record or its text with
  the passages of the latest edition, but for versions behind as many that fail each
  re-chunking as a run may take (`Blocked`); see section 6.
- `Collection`: the daily run over the portal is started again and again and goes on
  (`Steady`). Nothing is assumed of runs over the ministry's listing, which are started by
  hand, and nothing is claimed of its documents. `EveryNumberIsCollected` is stated for
  behaviours that become calm (`<>[][Calm]_vars`): nobody starts to prune, daily runs
  are not killed and fail only at dead links or collisions. A number whose file is held under
  another number is excepted, and so is one behind `--limit` items with dead links or such
  files (`Blocked`): pending documents are taken from the head of the list, and nothing
  passes over those that bring nothing. The portal's items are those it lists all along; the
  daily listing goes by year over the last 60 days, and what leaves it before its turn is left
  to a backfill.

## 4. Findings

- `unwatched_job`: docs/architecture.md:87 says jobs "are killed after six hours". The
  limit is checked only in `_is_running`, which runs when somebody polls or posts. A job
  whose task gave up runs on.
- `lost_hole`: docs/retrieval.md:20 says a page OCR failed on is "left empty and recorded
  as `OCR_PAGES_FAILED`". `_complete_job` clears `error_code`, and re-chunking does not
  set it again: after the next chunker release the record is gone, the page still empty.
- `search_pages`: the docstring of `GET /search` says that "pages stay consistent with each
  other". The number of candidates is `max(50, offset + limit)` and the fused order
  depends on it, so past 50 every page is cut from another list.

## 5. Proofs

All theorems hold for any values of the constants that meet the named assumptions.

| Theorem | Says |
|---|---|
| `RunnerSafety`, `RunnerVerdicts`, `RunnerImplements` | the registry's type, `AliveIsTracked`, `SingleFlight`, `OneUnsettled`; `VerdictStands`; refinement of `JobService` |
| `TasksKeepTheRunner`, `GreenTasks` | the composed system drives the registry only by its own steps; `GreenMeansDone` |
| `NothingGoesMissing`, `NothingGoesStale`, `FinishedTextStands` | `NothingIsMissing`, `NothingIsStale`; `TextStands` |
| `CompleteIsComplete`, `UnchangedTextKeeps` | `CompleteMeansEmbedded`; `UnchangedKeepVectors` |
| `DocumentsHaveFiles`, `FilesAreStored`, `CollectedIsKept` | `EveryDocumentHasAFile`, `RawIsStored`, `CollectedStays` |
| `DeadlineNeverFires`, `PolledJobsStay` | `DeadlineIsSpare`; `PolledIsKept` |
| `MinistryIsListed`, `YearsAreListed` | `ListingMissesNothing`; `YearsAreWhole` |
| `CatalogIsWalked` | `CrawlIsWhole` |
| `RankingsAreRight`, `CitesCurrentLaw`, `WarnsOfUnverified` | `RankingIsRight`; `CurrentLaw`; `CaveatShown` |
| `FactsAreRead` | `CitesWhatItRead` |
| `LimitsAreKept`, `CountsAreKept` | `WindowsHold`; `LiveCountsStay` |
| `OutputIsShown` | `OutputIsRight` |
| `SomeAdminStays`, `RevokedIsPowerless` | `LastAdminStands`; `RevokedChangesNothing` |
| `SchemaIsThere` | `ReadyMeansMigrated` |
| `InterleavingIsFair`, `ScoresAreRight`, `ManifestsTell` | `InterleaveIsFair`; `ScoresAreEarned`; `ComparisonTells` |
| `PagesAreInvariant`, `PageTextIsRightAlways` | the invariant of a PDF's pages; `PageTextIsRight` |
| `WordTextIsRightAlways` | `WordTextIsRight` (`FieldCodesHiddenAlways` is its half about Word 97) |
| `RepealsAreJustifiedAlways` | `RepealsAreJustified` |
| `ListsAgreeAlways` | `ListsAgree` |
| `PassagesHoldTheTextAlways`, `LocatorsAreRightAlways`, `PreviewOpensAlways` | `PassagesHoldTheText`; `LocatorsAreRight`; `PreviewOpens` |

Two of them have hypotheses of their own. `DeadlineNeverFires` takes `Prompt` and
`Deadline >= MaxJob + WarmUp + 1`: the code waits 370 minutes for a job that may run for
360, and `WarmUp` (how long a request is repeated) is at most 7 minutes. `PolledJobsStay`
takes `Prompt` and `Retention > WarmUp`: ended jobs are kept for a day. A worker
that is suspended (not `Prompt`) may sleep through any limit.

The inductive invariants and why they are needed:

- *Runner.* `SingleFlight` alone is not inductive: a live process outside the registry,
  or one already recorded as ended, could be started again. `AliveIsTracked` excludes
  both. `OneUnsettled` is what makes the loop of `_start_job` right to stop at the first
  running job. The three together are preserved by every action. Refinement
  then needs only them: a launch is a take-off, an observation a landing, the rest stutters.
- *Tasks.* A green task's verdict must stand: the invariant says that a finished,
  not timed out job with exit code 0 stays so, also over restarts, and that a task's job
  has the task's key.
- *Clocks.* A task's deadline, the age of its job and the patience of its request start at
  different moments. `TimelyInv` ties them: a task began at most a warm-up before its job
  did; the job of a task that polls was inside its limit at the last answer; and one whose end
  is recorded has been over for no longer than the task has waited for its next answer.
- *Processing.* `ProcessingInv` adds row locks (`Exclusive`: two runs never hold one
  version), what each run knows (`SoundIn`: a run that is not forced holds a version
  without text; a run about to save has its text in the store and, when it chunks again,
  the current one), and that a version without a job has no text. `RechunkIsCurrent`
  needs `Exclusive`: otherwise another run replaces the text between read and commit.
- *Embedding.* `EmbeddingInv` adds to `ProcessingInv` that the rows a run found at its
  start are of generations that are there or gone (`Aged`), so that rows made since are
  none of them, and that what it passed over is embedded, to do, or reported as remaining
  (`Dealt`). What the queue does to a version's rows is one lemma (`QueueAges`): they stay
  with their vectors, become a later generation, or go. `ReuseInv` says that only a run
  about to save remembers vectors, and of its own version; with `Exclusive` it is the one
  that replaces the rows.
- *Collection.* `CorpusInv` adds that numbers are unique, that a run about to commit
  has its file in the store, that every version has its source, and that whatever is on a
  prune list may still go (`ListedMayGo`): it is not curated, and has a sample among its
  versions or no finance issuer. Corrections move files to another document rather than rename
  the listed one, move no sample away from it alone, and new ids are not on the list.
- *Listing.* `MinistryInv` says what a listing under way has read (`ReadSoFar`): every wanted
  record that was there from its start and is not read yet is at the present page or behind
  it, unless one was withdrawn since. Newer records push others back, to pages not yet read;
  a withdrawal pulls them forward, which is why only then one can be missed. A listing that
  was kept was whole when it was made. `GovernmentInv` says the same of the years before the
  present one, and of the issuers before the present one of a full year.
- *Catalog.* That nearer pages come first says nothing about the pages still pending, and
  is not inductive. `CrawlInv` is about the visited and the pending as one sequence
  (`Ordered`): no page twice, distances never falling, nothing more than one link farther than
  what is pending, and every link of a visited page somewhere in it. Then whatever is
  nearer than the next page was visited (`NearerIsVisited`, counting up the distances), so that
  a new link of the next page is exactly one further than it; and with nothing pending the
  visited are closed under links, hence all there are. That `Within` stops growing before
  there are as many links as pages (`ReachableIsClosed`) is a count of its sizes.
- *Rankings.* `Retrieval` orders passages by how many are ahead of each; lemmas of
  `Ranks_proofs` (n elements take the places 1 to n, one each) give the ranking without a
  recursion. What a pruned ranking leaves out is behind `Limit` others, with the same
  order among the rest. `RequestInv` ties the rankings of a request to the rows and statuses
  as they were when each was read (`ReadingsHeld`), and the evidence to them
  (`EvidenceHeld`): a status read once stays the one the request uses, so that what is cited
  was allowed at the first or at the second search, and two versions of a document cannot
  both have been.
- *Answering.* Citation n and evidence n are the same passage whenever there is evidence
  (`CitationsFollowEvidence`); then a checked claim's number leads to the text it was
  checked against.
- *Accounts.* A request that was admitted is not against its sender and not of a revoked
  one; a sender marked as revoked is no administrator (`Sound`). A commit then takes an
  administrator away only if that is its target, hence not its sender. Ids are used once
  (`Exists(a)` implies `a \in Used`), so that a new account never takes another's place.
- *Limits.* The theorem is about `spent`, which the code does not keep. `LimitsInv` says
  that the events of a key cover it (`Covers`): once the
  wrong passwords not yet counted are set aside, each thing spent has an event that is no
  older, and so leaves the window no sooner. An attempt is
  counted only if it passed the check, so no more are outside the events than may be under
  way. For `LiveCountsStay` it also says that the keys in the dictionary have the places 1 to
  n, and that only they have events.
- *Job output.* `OutputInv` says of a poller that what it has shown is the end of a text:
  what it had when it last skipped to a byte `a`, and all characters from `a` to its offset
  (`Follows`); a poller told that the script has ended was told the truth; and the file is
  whole characters but perhaps for the last (`FileIsText`). The lemmas are about decoding: a part
  and the rest give the whole (`DecodeInParts`), and enough bytes hold enough characters
  (`EnoughChars`, `TailIsEnough`), which is why skipping loses nothing of the tail.
- *Evaluation.* The measures are functions of the rankings, so that the invariant
  (`EvaluationInv`) is only their type, and the work is in the lemmas. Every found passage has
  a first turn and no two of these show the same; numbered by how many fresh turns are before
  them they are the merged ranking, and a turn at place p of n rankings has fewer than n * p
  turns before it. `ScoresAreRight` rests on `LawAssumption`: a passage with a clause number,
  whole or a piece of a clause cut to size, holds text of that clause (the two clause parts of
  `PlacesAreRight` in `Chunking`: the clause opens where a passage of it does, and what is
  before the next clause is part of it), and a provision of the gold set is in its article.
  Without the second, an article that is one passage would be credited with a clause it does
  not have. Nothing is assumed of the numbers that start the lines of a passage (`lines`):
  they may be no clause's, and `Misread` says where the code credits them all the same.
- *Pages of a PDF.* `PageTextInv` says where each page is: not yet looked at, waiting, or
  done with, once (`EachPageOnce`), with the reading that decided it kept (`shares`). For the lines, a pass
  over n of them knows the last that told (`LatestTold`), so that the nearer of the two
  passes is the nearest line, the one above on a tie (`NearestDecides`).
- *Word files.* The code's stack has no history. For Word 97 `FieldsInv` gives each entry the
  mark that opened its field (`OpenFields`): the d-th open field began at height d, nothing fell
  below since, and its flag is still up exactly when no separator came at that height. For RTF
  `RtfInv` says the same of groups (`OpenGroups`) and adds that an entry holds the settings
  in force where its group opened (`Holds`), that the reader's settings are those in force
  behind what was read, `pending` the fallback that is left, and the output with the bytes
  that wait, decoded with the present font, the text so far. A group that closes leaves in
  force what was before it opened (`InForceReturns`), which is why restoring is right; bytes
  are flushed at every other token, so that a font never changes under them.
- *Repeals.* What is found at any moment is justified (`Reasoned`: one end for each document,
  the earliest statement or a parent that takes it along), and stays so as more is
  found, because an end once found is not replaced after the statements. A round either ends a
  title or changes nothing, and as many titles cannot end more often than there are
  titles, so that the last round changes nothing.
- *Chunking.* The invariant (`PagesInv`) says little: each page is lines without form feeds.
  The work is a chain of facts about every such text, one for each stage of the code. A scan
  gives places in the order of the text with the numbers it promises; pieces of a span
  (`SplitSpan`) are trimmed, apart, at most `MaxChunk` long and leave only white space
  (`SplitSpanIs`). An article's segments follow each other from its heading to its end and count
  its clauses (`AreSegments`), the parts cover the text from the preamble on and have the
  last true heading before them (`AreParts`), and every passage belongs to a part, passages of
  earlier parts coming first (`ArePassages`). Where article numbers go up, the headings
  the code finds are the true ones (`TrueAreRecords`), and `LocatorsAreRight` follows from the
  last two. For `PreviewOpens`, the first article's heading opens a part (`OpeningPart`), the
  passage there sorts before all others but those of its own clause on its own page
  (`PreviewsAre`), and a part has a second passage only if its text is over the limit
  (`IsLong`). Form feeds are counted to place a passage on its pages. For chunking
  the stored text again, the text read is the stored one with white space behind it, on lines
  of its own (`StartsAs`): every scan reads nothing there (`SameScan`), headings and clauses
  are the same, and a part ends at the same place or both end with their texts
  (`SameEnd`), so that the parts differ at most in the end of the last (`Alike`), which
  trimming takes away. The one thing that can differ is whether the last article is over the
  limit (`KeptShort`), which `RechunkAgrees` excludes.
- *Library.* The rows are versions that may be filed (`VersionsAreFilings`); the rest are facts
  about every such corpus. An order without ties is a bijection from places to rows
  (`InOrderIsWhole`), so that counting and adding up in any order gives the same
  (`CountInOrder`, `SumInOrder`); a set counted group by group is counted whole
  (`SumIsCount`); and page n begins where page n - 1 ended, so that the pages together are
  the list (`TurningShowsAll`).
- *Start-up.* An upgrade leads to a newer revision than it began from (`Forward`), so that
  a revision somebody upgraded from is below the present one for good (`LeftBehind`).

Only model-checked: liveness (`TasksEnd`, `CatchesUp`, `AllEmbedded`,
`EveryNumberIsCollected`) and ENABLED, which the prover does not reach. Every invariant and
every action property of the passing runs is a theorem. No definition is a RECURSIVE operator; a
recursive function is shown to exist step by step (`StepByStep`), so that its equation
holds, and what it gives is counted up to (`CountingUp`: were there a number that fails,
there would be a least one).

## 6. Met while modelling

Behaviour of the code that a reader of the models should know, without a run of its own.

Processing and embedding:

- "One broken document must not stop the batch or block later runs"
  (scripts/process_corpus.py:117) has two exceptions. A document that takes its run down
  (memory, six hours) leaves no record and is first in the order of the next run.
  `--rechunk-outdated` takes the oldest outdated versions and does not pass over FAILED ones
  (`_outdated_query`, lines 189-199): with `--limit` n (1000 in the daily DAG), n versions
  whose re-chunking always raises keep all newer ones from the current chunker. Both are
  exceptions of `CatchesUp` (`LetsRunsLive`, `Blocked`).
- `--reocr` selects every scanned version each time, oldest first: a run that is cut off
  starts again from the beginning.
- A failure in a later step overwrites the stage `OCR_CHUNKED`, so that the version is no
  longer selected by `--reocr`; re-chunking then calls it `CHUNKED`.
- A version with text whose re-chunking raises is FAILED with its text; `--retry-failed`
  selects only versions without text.

Extraction and chunking:

- "Điều 5a" behind "Điều 5" is no article of its own (process.py:566): numbers must
  increase, and both read as 5.
- In `_articles_are_real` the case of an attached regulation (process.py:525-529) cannot
  arise: headings behind a signature whose numbers start again were never accepted
  (process.py:564-567). Of a decision with Articles 1 to m that approves a regulation with
  more, the regulation's Articles 1 to m are filed under the decision's last article and
  only those from m + 1 on are found; of a shorter regulation none. The comment at
  process.py:473-480 calls them all real.
  The article part of `LocatorsAreRight` is claimed of texts whose numbers go up
  (`ArticlesGoUp`), so that it does not contradict this; clauses and pages are claimed of all.
- Stored text has lost empty pages at its end; a last article that is at the size limit
  only with them is cut in two the first time and not the second. `RechunkAgrees` leaves
  this case out.
- A page that OCR fails on gives up a short text layer of its own (process.py:193-197).
- When OCR replaces pages, fewer than three TCVN3 lines may be left, and the remaining ones
  are then not converted.
- In RTF the fallback count of `\u` is set, not added, and outlives the end of its group.
- The comment on nested Word fields (formats.py:107-108) describes a flag; the code keeps a
  stack.

Collection:

- Prune does not look again at its list: a document whose title was improved after the
  list was made is deleted. What it deletes is collected again while the portal lists it.
- A portal document whose file is held under another number is UNCHANGED, gets no record of its
  own, and is downloaded again by every run, as a dead link is tried: each takes one of the
  `--limit` places.
- A sample of `seed.py` that carries the number of a real document makes prune delete all of
  it, its real versions too (tests/test_prune_documents.py asserts it for a finance
  issuer); the daily run then collects those again.
- `collect_selected` stops at "0 remaining for later runs", which leaves out the documents
  that failed in this very run (scripts/collect_sources.py:103).
- In a run over all sources a ministry item with a dead link masks the portal's copy of its
  number every time, as it comes first in the listing (scripts/collect_sources.py:360); only
  a run of `--source government` collects the copy.
- An issuer that fills the government's cap alone is cut off without a word. So are, in a
  year at the cap, the documents of issuers that are neither local nor among the nine
  asked for by themselves (`NATIONAL_ISSUER_IDS`), though they are kept in every other year:
  only what the first full answer showed of them comes in. The cached
  listing is written in place, not atomically (scripts/collect_sources.py:337).

Retrieval, answers and evaluation:

- The gate counts NOT_YET_EFFECTIVE as current evidence (intelligence/evidence.py:9).
- `"²".isdigit()` is true and `int("²")` raises ValueError, so that one such citation
  number makes `parse_generated_answer` reject the whole answer (intelligence/qa.py:520).
- A passage cut again between the two searches can be found under its old row and its new
  one; without a heading and article both are kept.
- repeals.py:124 says the earliest end of a document wins; of several parents that ended the
  one cited first decides (the `break` at 153-159).
- `interleave` says "next unseen passage from each ranking in turn"; a ranking whose next
  passage was seen loses its turn.
- `_clause_hit` credits an article's introduction for any clause, `_passage_locators` does
  not; a clause inserted behind one that was split for size may be credited to another part.
- `_passage_locators` (scripts/evaluate_tax_retrieval.py:580) takes every number that starts a line
  of an article's part for a clause, without the rule of process.py:621-626: list items, wrapped
  lines and quoted amendments are credited as clauses of the article. `ScoresAreEarned` lets
  just these through (`Misread`), and a clause cut to size is credited to each of its pieces.
- `compare_runs` uses the `in_corpus` flags of each run; the frozen corpus is compared only
  at the start of a run.

Document pages and accounts:

- A kind of which nothing is stored is no filter when a document type is given too.
- The list puts undated versions last, a document's page puts them first.
- The comment at api/routes/documents.py:413 promises as the preview the opening words of the
  first article, or of the preamble where there is none. If the first clause is too long for one
  passage, any of its pieces on its first page may be shown, and of a text without articles any
  passage of the first page (of a Word file any at all, its pages being NULL): the order is
  that of random ids. `PreviewOpens` claims the first, with its exception, and nothing of
  texts without articles.
- Two administrators may disable each other at the same moment, leaving none.
- A container that lost the race to migrate is FAILED, and not ready until it is restarted.

## 7. Plan

Done: the modules of section 2. What is left, in this order:

1. The maintenance DAG's actions as sequences of jobs (`run_maintenance`), on `AirflowJobs`.
2. `normalize_document_numbers`, `repair_document_metadata` and `ingest_manifest` as further
   actors of `Collection`.
3. `references.py`, and the expansion of a question by what its passages cite.

## 8. Not modelled

Blob stores (a put is atomic); Terraform, Compose and Alembic scripts; the pages of the web
UI; the piece tables, XML and font tables of Word files, the OCR engine and the PDF
libraries; regular expressions over portal pages, names and prompts; downloads, the list of
a version's passages and excerpts; averages, the sign test, nDCG and the layout of reports.
Their results are inputs of the models. Bounds that only TLC needs are constants named as
such: `JobIds`, `MaxLate`, `MaxBytes`, `MaxEdition`, `MaxMade`, `DocIds`,
`MaxLines`, `MaxPages`, `MaxVersions`, `MaxTitles`, `MaxStatements`, `MaxTokens`, `MaxMarks`,
`MaxLayers`, `MaxRanking`, `MaxRanked`, `MaxChanges`, `Requests`.
