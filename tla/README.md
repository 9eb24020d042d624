# A verification project for careerkit

TLA+ models of careerkit's state-changing core, TLC runs that check them on
small instances, and TLAPS proofs, for every value of the constants, of every
safety property those runs check. careerkit keeps a job search in plain files:
records of job postings and their screenings, the state of automation runs,
links between postings, information about companies, portfolio texts with the
proposals that change them, the research behind those, and the evaluation of the
filters. Nothing serves those files. A CLI, a console server, a browser
extension with its native host and the user's own editor all work on them, at
once and with no daemon to order them. Most of what can go wrong lies between
two file operations.

Paths below are relative to `src/src/careerkit/` unless they start with `ext/`,
`docs/`, `tests/` or are a document of the repository root.

## 1. Inventory

### Components modelled

| component (source) | state | operations | talks to |
|---|---|---|---|
| Record store (`jobs/adapters/storage/file_records.py`, `jobs/domain/model.py`) | per record: `.lock`, `record.json`, `content/<revision>/` | create, save (refresh), update_screening_result, replace_jd, update_verdict, update_prescreen, update_status, get, get_metadata | called by every jobs component; exclusion by `flock` |
| Publication (`resume/application/portfolio_research.py`, `publish_transaction`) | target files, one journal per transaction ID | publish, reconcile, compensate, ensure_readable | the user edits the targets with any editor |
| Proposal application (same file, `apply_proposals`) | sources and proposal records, as targets of a publication | apply a batch, walk over earlier attempts | publication |
| Proposal preparation, review, supersession (same file) | sources, snapshots, proposal records, reviews | prepare, compensate a partial record, supersede, apply | proposal application; the user, who decides in the record itself |
| Git catalog of the research (same file, `validate_research`; `resume/adapters/git_portfolio.py`) | catalog, dispositions, lanes (hand-written); the repositories | discover, observe, list commits, compare, over everything or one lane | git, and the user who works in the repositories |
| Automation (`jobs/application/automation.py`, `search.py`, `maintenance.py`) | seen keys, pending URL file, records | search, run from files, resume, extraction and screening stages | record store, screening; the extension collects beside it |
| Screening (`jobs/application/screening.py`, `jobs/adapters/screening/cli_provider.py`, `jobs/cli.py`, `pipeline.py`) | the record; snapshot and result journal of `queue fallback --run-snapshot` | run_screening with its provider chain and retries, rescreens, classification, snapshot rescreen | record store, once per read and once per write; paid providers |
| Quality gate (`requirement_manifest.py`, `screening_assessment.py`, `screening_quality.py`, `evidence_checks.py` and the guard in `screening.py`, all in `jobs/application/`; `jobs/domain/verdict.py`) | none: from a job description and an answer to a document | requirement extraction, gate, demotion, counts, guard | inside one call of screening |
| Links (`jobs/application/linking.py`, `jobs/adapters/storage/link_store.py`, `jobs/domain/link_model.py`) | group files, lock file, statuses of the member records | add, remove, sync | record store; everybody who sets a status |
| Posting checks (`jobs/application/maintenance.py`, `jobs/adapters/status_probes.py`) | posting state of the records; the answers of seven sites | check_closed with retries, breaker and rechecks, backfill_closed | record store; the sites; the user |
| Native host (`ext/native-host/careerkit_host.py`) | in-flight set, bounded queue, pipes | answer, accept, work, restart the worker, end at EOF | record store; the extension |
| Service worker, badge, panel (`ext/background/service-worker.js`, `ext/content/badge.js`, `ext/sidepanel/panel.js`) | pending requests, tracked screenings, their copy in session storage, the badge of a tab | connect, match answers, rehydrate, collect, poll, navigate | native host; the browser, which ends it at will |
| Storage migration (`jobs/application/storage_migration.py`) | legacy folders, stage, active root, report | preflight, activate | the user edits the legacy folders |
| Company information (`jobs/application/company_info.py`, `company_enrichment.py`) | one file per company, its lock, its stage | apply_candidate, enrich, validate --fix | the user's editor |
| Query index, console (`jobs/adapters/storage/sqlite_index.py`, `jobs/console/server.py`) | database, temporary databases, lock file | rebuild, search with refresh, status change | record store, which it only reads |
| Semantic evaluation, filter (`jobs/application/semantic_eval.py`, `jobs/adapters/semantic_filter.py`, `semantic_eval_files.py`) | dataset with its seal, reports, queue of captured titles, whether the scorer is disabled | capture, run, compare | search; the human who labels and seals |

### Components not modelled

Search adapters, HTTP, notifications, configuration, preflight, publish guard,
resume build, install and probe scripts: stateless scraping, parsing, formatting
or one-off scripts. `PROJECT.json` has the reason for each.

### What makes each modelled component correct

- *Record store*: what `record.json` points at is there in full, whatever died
  or lost power; an answer is the record as it is and is durable; an update is
  never computed from a record somebody has replaced; no path keeps the lock.
- *Publication*: an answer is true of the files; putting back destroys nobody's
  text written before the comparison; unfinished files cannot be read, but for a
  commit whose own call takes it back; a transaction comes to an end.
- *Proposals*: a batch is applied at most once; what is applied is what was
  approved, for the text it was approved for; revisions form one history as long
  as the user puts no earlier text back; what a proposal replaces can be put back
  from its snapshot.
- *Catalog*: a validation that passes leaves out no commit, whatever the
  repositories did while it looked.
- *Automation*: no posting a run was given gets lost, whatever stage fails or
  dies; the search forgets nothing it did not hand on.
- *Screening*: a stored document judges the stored JD, unless a save kept it
  beside a new one; weak or failed answers replace nothing better.
- *Quality gate*: no requirement is dropped silently; the verdict rests on the
  table it is published with; the caps of the policy hold for every answer.
- *Links*: a posting is in one group; syncs move members forward only and bring
  a group together.
- *Posting checks*: what is written of a posting was true when its site answered.
- *Host and extension*: nothing is in work twice; each answer settles its own
  request; a screening the user waits for is reported; a closed host ends.
- *Migration*: what is activated is all of the legacy.
- *Company information*: of the facts above the rule line an enrichment loses
  none that it can write.
- *Index*: who was told that it is refreshed finds what had been saved.
- *Evaluation*: what authorises a change in production rests on sealed labels;
  a queue is a sample of everything; a scorer that failed authorises nothing.

`PROJECT.json` "hazards" lists what is hard to test, at the line where it bites,
with the properties that would catch it, or the reason why none does.

## 2. Modules

| module | what it is |
|---|---|
| `RecordModel` | the record and what each write operation makes of it, as pure operators; used by `RecordSpec`, `RecordStore` and `ScreeningRuns` |
| `RecordSpec` | abstract specification: an atomic record with a durable shadow |
| `RecordStore` | the file operations under `flock`, crashes, power losses; implements `RecordSpec` |
| `RecordStoreInv`, `RecordStoreProofs` | inductive invariant; proofs, the refinement of `RecordSpec` included |
| `PublishTransaction`; `PublishInv`, `PublishProofs` | the publication protocol; invariant and proofs |
| `ProposalBatch`; `BatchInv` | extends `PublishTransaction` with `apply_proposals` (replaces its `Publish` by `Apply` and `Walk`); invariant, with the proofs in `PublishProofs` |
| `AutoRun`; `AutoProofs` | automation runs; invariant and proofs |
| `ScreeningRuns`; `ScreeningInv`, `ScreeningProofs` | screening calls, over `RecordModel`; invariant and proofs |
| `LinkSync`; `LinkInv`, `LinkProofs` | link groups and syncs; invariant and proofs |
| `NativeHost` | the host processes, thread by thread |
| `ServiceWorker` | extends `NativeHost` with the extension at the other end of the pipes |
| `ExtensionProofs` | invariants and proofs of both together |
| `PostingChecks` | posting checks and the answers of the sites |
| `StorageMigration` | migration of a legacy tree |
| `CompanyInfo` | the writers of a company file |
| `IndexRefresh` | rebuilds of the index beside writers of records |
| `RequirementManifest` | the extraction of requirements, line by line |
| `AssessmentGate` | extends it with the way from an answer to the published document |
| `JobsProofs` | invariants and proofs of the five parts of `MCJobs`: posting checks, migration, company file, index, gate |
| `Proposals` | the life of a proposal; an application compares its targets in one step and replaces them in the next |
| `ResearchCatalog` | validations of the git catalog |
| `SemanticCapture`, `SemanticEval` | capture of titles; runs and comparisons over a labelled dataset |
| `HumanProofs` | invariants and proofs of the four parts of `MCHuman`: proposals, catalog, capture, evaluation |
| `MC*` | constants of the TLC instances; `MCJobs` and `MCHuman` look at one of several independent components per behaviour, `MCRecordStore` at one of two sets of operations, with the first free name for each new revision |

Operators under a comment "mutation:" are faults a maintainer could plausibly
introduce (a dropped guard, an off-by-one, a swapped order). No specification
uses them. Each property has one, listed in `PROJECT.json`: put in place of the
definition that follows it, it makes the property fail, which shows that the
property depends on the code.

### RecordStore

One record directory. `disk` is `content/`, `manifest` is `record.json`, `temp`
is `record.tmp`; `savedDisk` and `savedManifest` are what the fsyncs so far
guarantee after a power loss. `lock` is the `flock` mode of each process, `pc`
the statement it is at. Each statement that touches a file is an action:
`Begin` (the existence test outside the lock), `OpenLock`, `Acquire`,
`ReadManifest`, `ReadContent` (files and hashes), `Decide` (preconditions),
`MakeRevision`, `WriteFiles`, `SyncRevision`, `OpenTemp`, `FillTemp`, `Rename`,
`SyncManifest`, `RemoveRevision`, `SyncCleanup`, `Release`. `Crash` is a process
death or an exception at any of them. `PowerLoss` may keep or lose everything
not fsynced; until the kernel has written the parent directory back
(`Writeback`) it may take the whole record (`PowerLossBeforePlaced`).

### PublishTransaction, ProposalBatch, Proposals

`file` is what is at each target, `journal` the journal of each ID. `run.at` is
the statement being executed: the prepared journal (`Prepare`), one replacement
(`Replace`), its journal update (`Mark`), the except clause (`Caught`, `Judge`,
`Restore`, `Finish`), which reconciliation shares (`run.was` is the state of the
loaded journal). `atomic_write` can fail before or after its `os.replace`. The
user may edit at any moment; `edited` remembers where, and `raced` that an edit
came between a digest comparison and the write that followed. `ProposalBatch`
has two writes per proposal (source, record): `Apply` makes the state and digest
tests, `Walk` looks at the journals of earlier attempts. Its history variable
`doubtful` has the attempts whose commit reached the disk although the write of
the journal raised, so that the except clause takes back what is committed.

`Proposals` is what comes before: `PrepareReads`, `PrepareChecks`,
`PrepareSnapshots`, `PrepareRecords`, `Compensates` and `Unlinks` of
`prepare_proposal`, `SupersedeReads` and `SupersedeWrites`, `ApplyReads`,
`Compares` (the pre-state of all targets) and `Publishes` (their replacement,
whatever they hold by then). Two commands and the user interleave at these
statements, since nothing locks the research root. Texts are values of a
constant set: proposals may propose any, and the user may write any of them back
at any time. The history variables are `past` (the texts a source has had),
`disturbed` (what changed since an application compared) and `tangled` (the
sources to which a text came back, or of which a change was overwritten unseen).

### ResearchCatalog

`git` is what the repositories are (directories, common directories of
worktrees, one branch, a HEAD per worktree, attached or not), `catalog` what was
recorded of them, with dispositions, lanes and the state of the journals.
`validation` goes through `validate_research` git command by git command:
`WalkRoot`, `Observe` (HEAD, refs, rev-list, one step each) or `FindBroken`,
`ObserveAgain` in a full validation, `CompareInventory`, `ListCommits`,
`JudgeGroups`. `UserWorks` changes a repository between any two of them;
`during` remembers what could be reached all the time, and what at some moment.

### AutoRun

`seen` and `pending` are the two files, `record` the screening state of each
posting. `run.at` is the stage; `Extract` and `Screen` take one URL per step,
and every failure and company warning of the code is a disjunct. A run by
search persists its keys before anything else (`Persist`), saves its URLs
(`SavePending`), and writes back what has to be repeated (`Complete`).

### ScreeningRuns, RequirementManifest, AssessmentGate

One record under `RecordModel`'s operations, each a single step (`RecordStore`
is shown to implement that). `call[p].at` is where a call of `run_screening` is:
asking (`Ask`: all provider attempts of one chain, with contract and quality
retries), `Gate` (quality gate and verdict guard), `CheckStored`, `Publish` with
its preconditions, `Confirm`, and, for the queue commands, `Classify` and
`WriteVerdict`. The process `Runner` is the snapshot rescreen (`TakeSnapshot`,
`BeginRunner`, `Eligible`, `Load`, `Report`). `Edit` is what refreshes and
changes of status do; `Save` is an extraction that saves over a record another
process has created or screened meanwhile, which keeps the screening (`kept`
remembers it). What a provider answers, what the quality gate finds and the facts
the guard looks at are choices.

The other two modules open the gate. `ReadLine` takes one line of a job
description and changes what `extract_requirement_manifest` knows (section,
open parent, subgroup, drafts); lines are classes, not words. `Screen` takes any
answer with a match for every requirement through citations, quality rules,
counts, table, demotions and the guard to the published document, or to none;
what the résumé lacks for a row, its words or the file it cites, is a choice.

### LinkSync

`groups` are the group files, `holder` the exclusive holder of the lock file.
`add` is `Add`, `Create` (the test under the lock), `SaveGroup`; `remove` is
`Remove`, `Unlink`, `RemoveMember`. A sync reads its members one by one
(`StartSync`, `ReadMember`), computes what to raise and what to close from that
snapshot, and for each member looks a second time (`Look`) and updates
(`UpdateMember`): two lock sections in the code and two steps here. `Collect`,
`SetStatus` and `SetPosting` are the other writers of status. `calm` is a
history variable: since no sync was running, nothing but syncs has changed a
status or a group.

### NativeHost, ServiceWorker

Every connection has its own host process with two threads: `serve` reads a
request, tests and enlarges the in-flight set, puts the item in the queue and
writes the answer; `worker` takes an item, collects and screens it, pushes the
result and shrinks the set. A failing item, a dying worker and its restart, a
pipe that breaks and the end of stdin are actions. `ServiceWorker` has the
requests that wait, a set whose IDs are their order, the tracked screenings with their copy in
the session storage, one tab with its badge, the reconnection, and the browser
that ends the service worker (`WorkerEnds`). Requests and answers travel through
`stdin` and `stdout`, which keep what a dead end leaves behind.

### PostingChecks, StorageMigration, CompanyInfo, IndexRefresh

`PostingChecks` has, per platform, the answers its probe takes for open, for
closed and for neither; `check` goes through the records listed at the start,
probe by probe and retry by retry, while sites and records change.
`StorageMigration` has the legacy tree and its rules of identity, rivalry and
pairing as operators, and `Preflight` and `Activate` hash by hash, file by file,
up to the report after the rename; any reading or staging of a file may fail. In
`CompanyInfo` a writer inspects, locks, reads and compares, stages, and replaces;
`validate --fix` opens and writes without the lock. The file is the facts in
sections above its first rule line and behind it, and `Rendered` are the facts
enrich writes in a form that is read back. In `IndexRefresh` a caller waits for the lock, lists the
directories lazily, reads record by record into its temporary database and
replaces; `promised` is what callers were told the index shows.

### SemanticCapture, SemanticEval

A query of a platform is one step of capture; `PublishQueue` writes the queue or
withholds it. A run or comparison reads the dataset, scores, reads the reports
and publishes in separate steps, between which a human labels and seals. The
exact binomial bounds are two tables (`Tolerated`, `Significant`).

## 3. Runs

The violation runs check one property the repository itself states.

| run | instance | shows |
|---|---|---|
| `record_store` | 2 processes, 3 revisions, 1 status event; per behaviour create, refresh, screening, replace, status and get, or create, fallback screening, verdict and metadata | `ManifestIntact`, `NoTornRead`, `AnswerIsCurrent`, `AnswerIsDurable`, `LockIsReleased`, `ImplementsAtomicRecord` (refinement of `RecordSpec`) |
| `publish` | 3 writes (one a new file), 3 faults, 2 crashes, 1 edit | `AnswerIsTrue`, `RestoresOnlyItsOwn`, `Settles` |
| `batch` | 2 proposals, 2 attempts, 1 fault before or after the rename of a target or a journal, 1 crash, 4 edits | `ReadableIsWhole`, `OneCommit` |
| `auto` | 2 postings, cap 1, 1 crash | `RunIsPending`, `SeenWasHandedOn`, `ResumeKeepsUnrecorded`, `RunAccountsForAll`, `PendingIsExtracted` |
| `screening` | 2 callers and the runner, 2 JDs, 1 CLI provider before the local one, 2 calls, 2 edits or saves, 1 crash | `JudgesStoredJd`, `LocalNeverRecommends`, `SnapshotReplacesItsFallback` |
| `links` | 3 postings (one without a record at first), 2 processes, 3 edits, 2 link commands, 1 stop | `LinkedOnce`, `Progress`, `Together` |
| `extension` | 2 postings, one of which may be collected under the URL of the other, 3 requests, 2 connections, 1 death | `InWorkOnce`, `BadgeShowsItsPage`, `OwnAnswer`, `TrackedIsReported`, `ClosedHostEnds` |
| `jobs` | one of five parts per behaviour: checks (6 records, 3 platforms, 2 changes), migration (trees of two JDs and two screenings, 1 edit, 1 death or failed reading), company file (2 writers, 2 calls, 1 edit, 1 death), index (2 keys, 2 callers, 2 writes, 3 rebuilds), gate (job descriptions of up to 4 lines) | `WritesWhatWasTrue`, `ActivatedIsComplete`, `EnrichmentKeepsFacts`, `RefreshedShowsIt`, `RequiredIsExtractedOrFlagged`, `CapIsEnforced`, `VerdictRestsOnTable` |
| `human` | one of four tools per behaviour: proposals (2 proposals of one source, 3 texts, 2 commands, 4 calls, 1 edit, 1 fault), catalog (2 directories, 2 commits, 2 changes), capture (2 platforms, 2 queries each), evaluation (4 cases, 2 changes of labels, 3 runs) | `RevisionsFormAHistory`, `SnapshotsBehindRecords`, `AppliesToWhatWasApproved`, `ValidatedIsTrue`, `QueueIsWhole`, `AuthorizedIsSealed` |
| `screening_fallback` | 2 calls, no edit, no crash | violates `AssessmentSurvives` |
| `screening_verdict` | 2 calls, no edit, no crash | violates `VerdictIsTheDocuments` |
| `eval_unavailable` | 1 run over the dataset of `human` | violates `UnavailableDoesNotPass` |

The inductive invariants of the proofs were model-checked on these instances
too. Adding `IInv`, `BInv`, `AutoInv`, `CheckInv`, `GateInv`, `IndexInv`,
`CompanyInv`, `BadgeInv`, `WorkInv`, `CaptureInv` or `EvalInv` to the invariants
of an instance that extends the proof module does it again. `MigrationInv`,
`ProposalInv`, `CatalogInv` and `AnswerInv` hold conjuncts about types that TLC
cannot evaluate (large or unbounded sets); it evaluates the others, for
`ProposalInv` with `Nat` cut to a few numbers and on a part of the states.

### Why the bounds are enough

- *Record store.* Two processes give every pair of a writer and a reader or
  another writer; under `flock` a third only waits. Three revisions are the
  published one, one being written and one orphan of a crash; `Crash` is guarded
  by `RevisionsRemain`, so the supply of names never ends a behaviour by itself.
  A new revision takes the first free name: names are only compared with each
  other.
- *Publication.* Three writes have a first, a middle and a last one, one of
  them a file that did not exist. Three faults allow a failure, a failure of its
  compensation, and one of the journal; two crashes allow one in the
  reconciliation of another. In a batch, four edits can put all four files back,
  which a second attempt needs; one fault can be a failure of a target or the
  doubtful commit, whose taking back the crash can interrupt.
- *Automation.* Two postings under a cap of one are the one handled and the one
  cut off; one crash meets every stage.
- *Screening.* Two calls and a runner give each race between the test and the
  publication of one call and the publication of another; two JDs are the judged
  and the refreshed one, two edits a save that keeps a screening and a refresh
  that drops it.
- *Links.* Three postings are needed for a group that stays a group when a
  member leaves, for two overlapping groups, and for a member that is neither
  the first nor the last to be updated. The third is collected late, so that a
  sync meets a member without a record.
- *Extension.* A limit of two in flight is reached by two postings; three
  requests let one be refused while another is queued and a third answered late;
  two hosts are an old connection that goes on working and its successor.
- *Checks.* Four of the six records are of one platform, so that three unknown
  answers trip its breaker before the fourth; the others are of a platform that
  may be rechecked and of one that is not probed.
- *Migration.* Two JDs are rivals or strangers, two screenings fight for one JD
  or stand alone; their names and URLs cover agreement and disagreement of name
  and content.
- *Company file and index.* Two writers; one finds what the other is about to
  replace. Two directories have one that was listed and one that was not when a
  record is written.
- *Gate.* Every change of section takes a title, the bullet before it and the
  one after it; four lines also have an indented bullet under a parent that was
  closed. Three job descriptions are assessed: two with several requirements in
  two sections, one that is ambiguous.
- *Proposals.* Two proposals of one source are a revision and its successor, or
  two rivals; three texts are the original and two outputs, and one edit brings
  an earlier one back. Four calls prepare and apply both.
- *Catalog.* Two directories are worktrees of one repository, clones of one
  remote, or strangers; of two commits one qualifies; one change can come before
  a validation and one between two of its commands. At first the first
  directory is there and a detached HEAD is at the second commit.
- *Evaluation.* Four cases are two of one title, a second family of the holdout
  and a family of the calibration split. One family stands for the 299 trials
  and the 5 discordant families the code wants, which the tables say.

The theorems of section 5 do not depend on these bounds. Symmetry is used where
no definition names an element of the set, and never with liveness.

### Fairness

`Step(p)` of the record store, `Step` of a publication, `Work` of automation and
(in `FairSpec`, of `screening_fallback` only) the steps of a screening call are
weakly fair: a process that does not die runs
on; provider runs have timeouts; the lock is waited for only while another
living process holds it, and the kernel drops the locks of the dead. `Settles`
also assumes that a transaction left nonterminal is run again (`RerunOf`, strong
fairness): the journal is there for that. `PendingIsExtracted` assumes that the
user resumes while something is pending, and that a posting is not unreachable
every time it is tried. The extension assumes only that the event loop of the
service worker and the threads of the hosts, taken together, go on when they
can; users, timers, faults and the browser's decision to end the worker are not
fair. Nothing assumes that a fault, a crash or an edit occurs or stops
occurring, other than by the bounds.

## 4. Findings and observations

Three runs reproduce a disagreement with what the repository says:

1. `screening_fallback`. `jobs/application/screening.py:855-856` withholds a
   fallback document that "would destroy an assessment no provider can
   reproduce"; the test and the publication are two lock sections and the
   publication states no precondition on the document.
2. `screening_verdict`. `jobs/application/screening_lint.py:97-99` calls it a
   violation ("verdict-metadata-mismatch") when the verdict in the metadata of
   an open, pending record is not that of its document. `classify_record` reads
   the document and writes its verdict in two lock sections; a screening
   published in between is left with the verdict of the one it replaced.
3. `eval_unavailable`. `ARCHITECTURE.md:187` names the status "`unavailable`:
   the scorer or provenance is unavailable". A scorer that fails in the middle
   of a run is disabled and rejects nothing from there on; the run asks it only
   at its start, misses no family and passes.

What follows was met while modelling and has no run of its own; the models
reach these states, and the properties are worded so as not to claim more than
the code does.

*Publication and proposals.*
- A reconciliation that dies after it restored a target persists nothing of
  that (its write records come at the end): the next one finds neither the
  output nor a record of the restoration and asks for manual recovery, though
  nobody touched a file. `Settles` counts that as settled.
- The update of a journal to "committed" can reach the disk and then raise
  (`AtomicWriteCommitUncertain`, an interrupt). The documents and tests speak of
  failures before that (`tests/resume/test_portfolio_research.py:1702` fails the
  writes of targets). The code has the transaction compensated here too, and so
  it ends; but while the except clause puts the
  targets back, the journal on disk says committed and blocks no reader, and if
  a crash or a second failure stops it there, for good. `ReadableIsWhole`
  excepts it (`InDoubt`).
- Both the publication and the compensation compare digests and then write:
  what an editor saves in between is overwritten (`disturbed`, `raced`). Two
  applications of the same proposal at once can both pass the comparison.
- `apply_proposals` compares digests only. A user who puts a source back to an
  earlier text lets a second approved proposal for that text apply, so that one
  text is replaced twice; `RevisionsFormAHistory` excepts such sources
  (`tangled`).
- After a crash in the middle of a batch the retry is refused by the digest and
  state tests, or answered as applied, before it looks at the journals.
- `publish_transaction` leaves journals of other IDs to its caller, and two
  publishers with one ID find no journal and both prepare it.
- When a draft that is itself a successor was superseded, no replacement under
  an ID of its own can be prepared: its predecessor "already has a successor"
  (`portfolio_research.py:790`). The docstring of `supersede_draft` (line 870),
  "Retain a persisted, unapplied draft before a replacement proposal.", does not
  say so. After a hand edit of an applied source no further proposal can be
  prepared at all.
- `supersede_draft` writes back the record it read, and with that undoes a
  decision the user made in between.

*Catalog.*
- A full validation compares the recorded commit set with one observation and
  the dispositions with a later listing. A catalog whose dispositions name a
  commit outside its own commit set can pass while the branch moves between the
  two; `ValidatedIsTrue` therefore speaks of what could be reached during the
  validation. When nothing moves the two agree.
- `classify_refresh` runs after the refs were found equal, so it always answers
  "incremental" there; and its map of refs by name keeps one HEAD of several
  worktrees.

*Automation and screening.*
- `--resume` takes every URL with a record for a duplicate and clears it, also
  when its screening never happened. A new run replaces a pending file that was
  not worked off (`docs/config-state-contract.md:32`). A run that dies between
  marking its keys and saving its URLs loses them; seen keys are merged without
  a lock.
- A save publishes a new JD and keeps the stored screening
  (`file_records.py:357-381`). An extraction that found no record when it looked
  (`automation.py:459`, `1756`) saves over one that another process has created
  and screened since; the screening then judges a JD that is gone, until the next
  one. `JudgesStoredJd` excepts it (`kept`).
- A member rejected between the second look and the update of a sync loses its
  rejection (`tests/jobs/application/test_linking.py:365-367` rejects it before
  the look).

*Gate.*
- An indented bullet under a bullet that was skipped as administrative attaches
  to the parent before it. `_inject_ambiguous_placeholder_row` is not reached
  from `run_screening`, nor is the branch for an unsupported rejection after the
  quality gate. A hold the guard makes carries no conditions. A sub-heading
  nobody listed, under a title of required qualifications, ends the section
  without a flag (`requirement_manifest.py:238-246`); here it is a title of its
  own. The fallback document of a screening without an assessment is a hold,
  whatever the cap on experience says.

*Index, company, checks, extension, evaluation.*
- One record directory without a manifest, from a creation under way or a
  leftover, makes every rebuild fail, the one at the start of the console
  included. The temporary database of a dead process is never removed. A search
  without a database creates an empty file and raises an SQLite error.
- An enrichment renders the whole file anew and merges it section by section. It
  never writes the salary percentile (parsed at `company_info.py:190-192`), writes
  the monthly change in a form the parser cannot read
  (`company_enrichment.py:164`, `company_info.py:180`) and large revenues with six
  digits (`:g`), so those facts are lost with the section they stood in; and
  `_replace_footer` cuts all that is behind the first rule line.
  `EnrichmentKeepsFacts` claims only the rest.
- A check of postings writes what the site said over a change the user made
  between the answer and the write.
- `validate --fix` writes a company file without the lock and overwrites a merge
  published in between. An enrichment that found no file compares no digest.
- A worker thread of the host that dies over a closed pipe with items in the
  queue leaves a host that never ends; `ClosedHostEnds` excludes just that.
- A capture while the filter is absent captures nothing and publishes an empty
  queue.

## 5. Proofs

All theorems hold for any number of processes, files, records, IDs, groups and
any bounds. What they assume are the named `ASSUME`s of the modules, which TLC
evaluates in the runs: sentinels differ from values, bounds are natural numbers,
the operations offered are operations of the model.

### RecordStoreProofs

`TypeCorrect`, `ManifestAlwaysIntact`, `ReadsAreWhole`, `AnswersAreCurrent`,
`AnswersAreDurable`, `LatestOnly` (old revisions do not pile up).
`ManifestIntact` alone is not inductive: that renaming `record.tmp` keeps it
true depends on what the writer put into the revision, on the fsync before, and
on nobody else having written in between. `IInv` adds: an exclusive holder of
the lock is alone (`LockInv`); a process inside the lock holds what it read as
the published manifest (`SeenInv`); a revision being written is referenced by no
manifest and complete before it is published (`RevisionInv`); both the published
and the durable manifest point at revisions that are complete and durable
(`DiskInv`), which is what a power loss needs.

`ImplementsAtomic` is the refinement of `RecordSpec`: the record clients see is
the document of `record.json`, the durable one that of the last fsync. Under
`IInv` an operation takes effect at its `Rename` (`RenameWrites`: what it
publishes was computed from the record that is still published), the three
fsyncs are `MakeDurable`, both power losses `PowerLoss`, and no other step
changes anything of the atomic record (`StepRefines`).

### PublishProofs

`AnswersAreTrue`, `RestoresOwn`, `TypeCorrect` (with the consistency of every
journal on disk) for any number of writes and any faults. `IInv` says what each
statement of a running call finds at the targets the user left alone: a prefix
replaced (`ReplacedTo`), with or without the write that failed (`MaybeDone`),
and on the way back a suffix restored or recorded for manual recovery
(`PutBack`). The batch theorems (`ReadsAreWhole`, `CommittedOnce`,
`NewIdsAfterCompensation`, `FinalJournals`) hold for faults of journals and
targets on either side of the rename. `BInv` adds that an attempt is begun only
when all earlier ones are compensated (`AttemptsInOrder`, `WalkedOver`), and
that targets change only under an unfinished journal or a doubtful commit whose
own call is still taking it back (`JournalFirst`, `TakenBack`).

### AutoProofs

`AutoTypeCorrect`, `RunsArePending`, `MarkedIsHandedOn`, `ResumeDropsRecorded`,
`RunsAccountForAll`, for any finite set of postings, any caps and any number of
runs and crashes. `AutoInv` says of each stage what the pending file is
(`PendingOK`: while a run works, exactly its URLs and the rest beyond the cap),
that the lists name no posting twice and the run's sets are about what it has
behind it (`RunTypeOK`), and that every posting behind the extraction was
recorded or failed, every one behind the screening stage was assessed or has to
be repeated (`ProgressOK`). `RunAccountsForAll` is an action property and needs
just that at the moment a run ends. What the code does to a list (the first
occurrences, the part of a list in a set) is proved about its recursive
function by well-founded induction on finite sets (`LeastNumber`): if it went
wrong, it would at a least index (`AmongExists`, `AmongIsSelection`).

### ScreeningProofs

`Invariant`, `TypeCorrect`, `ScreeningJudgesJd`, `LocalIsGuarded`,
`PaidIsJournaled`, `StrongRescreens`, `SnapshotRescreens`, `CapsAreKept`,
`StartsAreKept`, for any list of CLI providers and any number of callers. The
strengthening (`CallOK`, `FilesOK`) says what the document carried by a call
was made from, and that the runner works only under a journal that says
"started"; `JudgesStoredJd` is kept by publications through their precondition,
by refreshes because they drop the screening, and lost by a save, which marks
the record (`kept`).

### LinkProofs

`Invariant`, `TypeCorrect`, `OneGroupEach`, `SyncsProgress`,
`SyncsBringTogether`, for any number of postings, processes and overlapping
syncs. The invariant `Undisturbed` of a running sync is the interesting part:
what it has read is part of one whole group (`Whole`), members have only moved
on since they were read (`Advanced`), none is beyond the furthest that the sync
has read or will read (`Bounded`), and those it has dealt with are there
(`Done`). `Bounded` is what makes overlapping syncs harmless: each of them is
heading for the same status, so no update puts back what another one raised
(`MovedUp`, `MovedTogether`). It needs that two groups are disjoint, and thereby
`LinkedOnce`. `LeastMember` proves from well-founded induction on finite sets
that the next member to read exists, so `Min` is defined.

### JobsProofs

Five components that share nothing, each with an invariant of its own.

*Index*: `IndexTypeCorrect`, `OneBuilder`, `RefreshesShow`, `DatabaseAdvances`,
for any keys, directories, callers and processes. `CallerOK` says of a caller
that builds, and thereby holds the lock: for each record, either a listing or a
reading of it is still to come (`Pending`), or its row is as new as the caller
needs and as the database shows (`Covers`). Since listing is lazy and rows are
read under the lock, a database is replaced only by one that is nowhere older;
what was promised stays.

*Company file*: `CompanyInvariant`, `FactsKept`, for any writers, files and
facts, whichever of them enrich can write.
`Good` says of a writer between its comparison and its replacement that it holds
the lock, that the file is still the one it compared unless somebody wrote
outside the lock, and that its stage is the merge of that file with what it
wants.

*Gate*: `GateInvariant`, `RequirementsKept`, `CapEnforced`, `VerdictRests`, for
job descriptions of any length and any answer. Extraction needs an invariant
about the reader: while nothing is ambiguous, the section the scan is in is the
one the last title names (`SectionIsSeen`), and the parent that takes indented
bullets belongs to it (`ParentIsOpen`). The theorems about verdicts follow the
answer through demotion: a demoted row counts with all its leaves, so what the
text counts is true of the table that is published.

*Migration*: `MigrationInvariant`, `ActivatedAreComplete`, for any legacy trees
and any number of edits, failed readings and deaths. `StageOK` says at which stage which pairs of
JD and screening are staged (`StagedFor`), and that a stage which may be
activated holds all of them, with the texts that were hashed, of a tree that
blocks nothing (`ReadyStage`). That these pairs leave nothing of the legacy out
is a fact about the rules of pairing and rivalry alone, proved of any tree.

*Posting checks*: `ChecksWriteTruth`, for any records, platforms and answers.
`AnswersTellTruth` says of every probe that its answers, faults and pages of
other postings included, are taken for "closed" only when the posting is, and
for "active" only when it is or the platform is not one that may be rechecked;
`CheckInv` keeps that of the outcome a run is about to write.

### HumanProofs

Four components that share nothing.

*Proposals*: `ProposalInvariant`, `RevisionsAreOneHistory`,
`SnapshotsAreBehind`, `AppliedWhatWasApproved`, for any number of proposals,
sources, commands and edits, any of which may bring an earlier text back. That no
source is replaced twice is not decided where a proposal is applied, which
compares digests, but where it was prepared, any number of steps of other
commands before. The invariant carries it over: a text that was replaced is one
the source has had and is not there any more, as far as the source is not
tangled (`Gone`); what the check at the preparation found, that the text a
proposal supersedes is still applied or its source has moved on, stays true of
the record (`MayCome`, `Rests`) up to its application, when it excludes a rival
(`Distinct`). `LocalHolds` says what each command holds in between; of an
application that has compared its targets, that a source has the text it
compared unless it changed since (`WriteHolds`). The exception is `lost`:
records that changed while a supersession was under way, which writes back what
it had read.

*Catalog*: `CatalogInvariant`, `ValidationsAreTrue`, for any repositories,
commits and changes while a validation looks. `HistoryIsTrue` is about `during`,
what could be reached always and ever since it began; each list of commits taken
so far lies between the two (`AllWithin`), and so do those of the groups that
were compared (`GroupsMatch`).

*Capture*: `QueuesAreWhole`, for any platforms, titles and queries.

*Evaluation*: `AuthorizedAreSealed`, for any dataset, any tables and any number
of commands and seals. A seal is never withdrawn: what was sealed when a command read it is
still so when its report is published, or compared (`Sealed`).

### ExtensionProofs

`BadgeShowsOnlyItsPage` (with `BadgeInvariant`), `InWorkOnlyOnce` (with
`WorkInvariant`), `AnswersAreOwn` (with `AnswerInvariant`), for any postings,
connections, requests, limits and deaths.

`WorkInv` holds the queue, the worker's hands, the request being answered and
the set of URLs in flight of each host against each other (`Alone`): no posting
is in two of them, a worker that is not dead has in flight just what is in the
queue and its hands, and the limit counts a request that was accepted and is not
yet queued. A worker that dies leaves in flight what it had; only its restart, which
drops the queue, starts from nothing again (`StartsAgain`).

`AnswerInv` is about the way stdin, answering thread, stdout: the requests that
wait are exactly those on their way (`Coming`), in the order in which they were
sent, and none overtakes another (`InOrder`). An answer without an ID, which the
extension gives to its oldest request, is therefore an answer to that one. When
a host ends, what it left in its pipe is still in order; when the extension
connects anew, no request waits.

### Model-checked only

- Liveness (`LockIsReleased`, `Settles`, `PendingIsExtracted`,
  `TrackedIsReported`, `ClosedHostEnds`): the prover has no rules for `ENABLED`
  and fairness. Every other property of a passing run is a theorem.

## 6. What the models leave out

Text: prompts, rendering, parsing and wording are abstracted to opaque values,
lines and answers to classes, a verdict line to its verdict. Hash collisions,
equal revision and group IDs. Read-only commands. Dry runs other than those of
posting checks.

- `PublishTransaction`: a second publisher at the same time and power losses.
- `AutoRun`: two runs at once and power losses; the fallback of a first resumed
  run to the state files of an older release (`automation.py:359-378`).
- `LinkSync`: the group note, warnings, unreadable group files.
- `ScreeningRuns`: a document is read and published by single steps, which
  `ImplementsAtomicRecord` justifies.
- `NativeHost`, `ServiceWorker`: rendering, notifications, lookups that only
  read are one kind of request; one tab; the check of the form of a company
  answer (`isValidCompanyInfoResult`), which every answer the host makes passes.
- `StorageMigration`: statuses told from directory names, the rewriting of
  runtime files (abstracted to whether a file has an owner).
- `CompanyInfo`: finding the file of a company name; text that is no fact.
- `IndexRefresh`: the conditions of a query, the columns.
- `RequirementManifest`, `AssessmentGate`: words; the lint that looks at
  published documents again.
- `Proposals`: two commands never prepare one ID at once; the replacements of a
  publication are one step here, after the comparison (they are taken apart, with
  their faults and crashes, in `ProposalBatch`).
- `ResearchCatalog`: files are read in one step; one branch stands for all
  refs; a directory keeps its kind and common directory; periods and authors are
  a set of commits; the checks of evidence texts, proposals and the index, which
  only read files.
- `SemanticEval`, `SemanticCapture`: a title is scored in one step; the bounds
  are tables; reports are not tampered with; path rules, the git-clean test,
  removal of orphaned temporary files, version digests; the gold flag of a
  dataset is fixed.

Not modelled at all are the components section 1 lists: they keep no state and
nothing runs beside them, so that a model would repeat their text.

## 7. Plan

What would add most from here:

1. An abstract publication (all originals or all outputs) that
   `PublishTransaction` implements while no user edits; a second publisher.
2. Two runs of automation at once, over the seen keys.
3. The lint of published documents, composed with `AssessmentGate`.
