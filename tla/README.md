# MediaDock: TLA+ models, model checks and proofs

MediaDock reads torrent RSS feeds, resolves each entry to a film or series with
OMDb, and files it in a Firestore catalogue that a React client shows. This
directory models the parts of it whose correctness turns on the order of steps and
on what happens when one of them fails: the repair of misfiled entries (leases,
plans, commits, overlapping runs), the scanner (staged writes, flushes, retries,
reparsing, the published page "latest"), the decision on each entry (cache, request
budget, match policy, AI), the audit of what has been filed (stamps, the aggregate
flag, proposals), and the worker of the PostgreSQL server that is to follow it
(advisory lock, daily request budget, ingestion, Oscar enrichment). TLC checks the
models on small instances; TLAPS proves the main theorems for every value of the
constants.

Paths below are relative to the repository; `movies_feed/` stands for
`backend/src/movies_feed/`, the worker's code is in `next/server/src/`.

## 1. The system

| Component | Code | State | Operations |
|---|---|---|---|
| Scanner run | `movies_feed/scanner.py`, `cli.py` | `scanRuns/{id}`, phase metrics in memory | prune old logs, phases by mode (`rss`, `recheck-existing`, `reparse-unfound`, `apply-proposals`, `all`), final flush, publication, close |
| RSS ingestion | `rss_ingestion.py`, `rss_entry_processor.py` | counters of the run | fetch a feed, decide on each entry (date, parse, mapping, OMDb, policy), stage, flush per feed |
| Write buffer | `scan_write_buffer.py` | pending logs, titles, occurrences, mappings; session caches; loaded mappings | stage, flush in four loops, consume a mapping |
| Parse logs | `models.py`, `repository.py`, `firestore_codecs.py` | `parseLogs/{id}`: retry state, resolution | merge on write, refuse on read, retention, retry pages |
| Reparsing | `reparse_service.py`, `reparse_lifecycle.py`, `reparse_persistence.py` | cursor, page | resolve a log by mapping or AI; write title, occurrence, log, mapping |
| Latest snapshot | `rss_snapshot.py`, `firestore_repository.py` | `rssSnapshots/{id}` and items, `rssSnapshotState/current` | collect candidates, sort, stage, write batches, promote |
| Metadata resolver | `metadata_resolver.py`, `omdb_client.py` | session and stored cache, request budget | resolve by title or id, prefetch, dated and undated request, store the answer |
| Match policy | `match_policy.py` | none | classify, compare kind and year, exclude |
| AI matcher | `ai_matcher.py`, `ai_validator.py` | availability, cool-down | batched questions with retries, all-or-nothing validation of the answer |
| Title audit | `existing_title_audit.py` | validation stamps, `aiValidated`, `auditProposals/{id}` | select titles, ask about clusters, stamp, propose, flag |
| Audit proposals | `audit_proposal.py`, `proposal_application*.py`, `firestore_proposal_application_store.py` | `auditProposals/{id}`, `proposalApplicationLeases/{title}` | plan, lease, commit, clean up, reject, recover an expired lease |
| Parser, ids, feeds | `rutracker_parser.py`, `ids.py`, `feed_fetcher.py` | none | pure functions and HTTP |
| React client | `src/application/*.ts`, `src/adapters/*.ts` | pages, cursors, request ids, optimistic statuses | load, page, retry, set a status, save a mapping |
| Next worker | `MediaDock.Worker/Program.cs`, `PostgresAdvisoryScanLock.cs` | the advisory lock, the settings row | take the lock, ingest, enrich, release |
| Next ingestion | `RssIngestionService.cs`, `PostgresRssIngestionRepository.cs` | `scan_runs`, `parse_logs`, titles and occurrences | start a run, fetch, decide on each entry, upsert, flush logs three times over, complete |
| Next lookup | `OmdbClient.cs`, `PostgresMetadataCacheStore.cs`, `PostgresOmdbRequestBudget.cs` | `metadata_cache`, `omdb_daily_usage` | read and expire the cache, reserve, send, fall back without the year, mark the quota, store |
| Oscar enrichment | `OscarEnrichmentService.cs`, `PostgresOscarEnrichmentRepository.cs` | `oscar_films`, `oscar_enrichment_runs` | candidates that are due, outcomes, retry schedule, progress |
| Next API, import, web | the rest of `next` | the same database, read; identity | queries, one-shot import |

How they interact. A run is one process and one thread; phases are calls in
sequence and share the write buffer, the resolver with its budget, and the AI
matcher. Processes share only Firestore. Two runs may overlap: the workflow's
concurrency group excludes it for runs it starts, a run started from the command
line is not in the group. The operator approves, rejects and requeues proposals and
saves manual mappings while runs go on. The client reads the catalogue and the
snapshot the pointer names. The next worker is another process altogether: one
thread that ingests and then enriches, started by a timer twice a day or by hand,
sharing PostgreSQL with its like and, through one DbContext, every tracked row among
its own parts.

What is hard, and where: plans made by plain reads and used in a later
transaction; leases that expire while their owner works; clean-ups and
rejections that arrive late; commits whose answer is lost; a job killed at its
15 minute limit between any two writes; four flush loops that raise half-way and
are taken up by the next flush; records that one path may write and another
refuses to read; mappings edited while they are being used up; retention
racing with retries; publications that overlap; one request budget over several phases
and over the two requests of one lookup; a session's copy of a cache that the
run itself goes on writing; answers of an AI that are short, doubled, unsure or
missing; validation stamps and a flag that scans, audits, repairs and reparsing
write over one another's old copies; requests of two purposes, with
fallbacks and repeated answers, on one daily budget that changes at midnight; rows
tracked by a unit of work that failed and written by whichever succeeds next;
stops that reach a process anywhere. `PROJECT.json` lists each such
hazard at its line with the properties that cover it.

What makes each component right, in one line each: a *repair* applies what was
approved, to what was shown, once, and loses nothing; a *lease* has one owner and
ends; a *run* that says it is over has written what it accepted, and one that says
it succeeded had every question answered; a *resolution*
is backed by the catalogue; a *mapping* goes only after it was applied; *work to be
retried* is kept; *latest* is whole, clean and in order; a *lookup* costs no request
that the cache or the budget forbids; what is *accepted* fits; a *stamp* is earned and a
*flag* covers what was scanned; a *budget* is never
exceeded; a *page* of the client belongs to the query that is shown.

## 2. Modules

| Module | Models | Extends |
|---|---|---|
| `Fingerprints` | the fields a proposal pins down of a document, by how a write merges them | |
| `CatalogRepair` | what a repair promises: one atomic step per applied proposal (abstract specification) | `Fingerprints` |
| `ProposalApplication` | the protocol: audit, operator, scans, planning in four reads, lease, commit, clean-up, crash, clock | `Fingerprints`; instantiates `CatalogRepair` |
| `ProposalApplicationProofs` | type correctness, leases, status graph, no lease left behind | `ProposalApplication`, `TLAPS` |
| `RepairProofs` | applied as approved, refinement, whole moves | `ProposalApplicationProofs` |
| `ParseLogs` | the log record, its merge and its read check | |
| `ScannerStore` | shared collections, memory of a run, Firestore calls and their answers | `ParseLogs` |
| `WriteBuffer` | staging and the four flush loops | `ScannerStore` |
| `RssPhase` | feeds and entries | `WriteBuffer` |
| `ReparsePhase` | retry page, outcomes, persistence | `ScannerStore` |
| `LatestSnapshot` | sorted items, staging, batches, promotion | `ScannerStore` |
| `Scanner` | the run: open, prune, phases, final flush, publish, close; overlap, crashes, weeks, the administrator | all of these |
| `ScannerProofs` | type correctness, order of writes, closed runs, resolved logs | `Scanner`, `TLAPS` |
| `ScannerOutcomeProofs` | the page "latest", mappings, retention | `ScannerProofs` |
| `MatchPolicy` | payloads as read, the decision, and the documented matrix to hold it against | |
| `MetadataResolver` | session and stored cache, budget, forms of a lookup, answers | `MatchPolicy` |
| `AiMatcher` | availability, retries, replies and their validation | |
| `EntryMatching` | the runs' phases as decisions on entries: RSS, audit candidates, reparsing; several runs, days and modes | the last two |
| `EntryMatchingProofs` | type correctness, budget, quota, cache, whole answers; the policy against the matrix, mappings, honest statuses | `EntryMatching`, `TLAPS` |
| `CatalogRecords` | titles and occurrences with flag and stamp, their merges, the staged pair | |
| `AuditStore` | memory of a run, upserts, the RSS phase's staging and flushes | `CatalogRecords` |
| `TitleAudit` | the audit in batches, with scans, reparsing, repairs, overlap and kills | `AuditStore` |
| `TitleAuditProofs` | type correctness, earned stamps, repairs that stay done, flags that cover what scans file | `TitleAudit`, `TLAPS` |
| `NextStore` | the worker's tables, a process's memory, calls and where their exceptions land, the unit of work | |
| `NextLookup` | cache, budget, request, fallback, stored answer | `NextStore` |
| `NextIngestion` | the run over feeds and entries, its logs | `NextLookup` |
| `OscarEnrichment` | candidates, outcomes, retry delays, progress | `NextLookup` |
| `NextWorker` | processes, lock, stops, kills, connections, time; the properties | the last two |
| `NextBudgetProofs` | the daily budget, the provider's quota | `NextWorker`, `TLAPS` |
| `NextOutcomeProofs` | type correctness, what Oscar runs report, films that stay settled, the entries and logs of succeeded scans | `NextBudgetProofs` |
| `MCProposalApplication`, `MCScanner`, `MCEntryMatching`, `MCTitleAudit`, `MCNextWorker` | instances for TLC | |

One run of the program appears in three models, each with what its questions need:
`Scanner` has what a run stores and when, with any decision on an entry;
`EntryMatching` has how it decides, with any contents of the logs it keeps;
`TitleAudit` has what titles and occurrences come to when scans, audits, repairs
and reparsing write over one another.

### ProposalApplication and the code

| Model | Code |
|---|---|
| `title`, `occ` | `titles/{t}` and `titles/{t}/occurrences/{o}`, by fingerprint (the fields a proposal pins down) or absent |
| `proposal`, `lease` | `auditProposals/{p}` and `proposalApplicationLeases/{source}` |
| `run[r]` | the local variables of `apply_proposal` and its program counter |
| `clock`, `run[r].now` | real time; the time a run froze at its start |
| `RefreshFromAudit`, `Approve`, `Requeue` | audit upsert of a proposal; the operator |
| `FlushTitle`, `FlushOccurrence`, `ScanDies` | the two flush loops of a scan, and a scan killed between them |
| `StartApply`, `StartReject`, `MarkRejected` | `_apply_proposals`, the reject branch and its whole-record write |
| `PlanProposal`, `PlanTitle`, `PlanOccurrences`, `PlanCount` | the reads and checks of planning, each its own step |
| `RefuseLease`, `RecoverLease`, `AcquireLease` | the outcomes of the `acquire_lease` transaction; when its answer is lost after it landed, nothing catches the exception |
| `CallRaises` | any other call of `apply_proposal` but the commit's raises: `Scanner.run` ends the run as fatal |
| `CommitDenied`, `CommitStale`, `CommitMove`, `CommitRaises` | the outcomes of the commit transaction, with the answer lost or not |
| `MarkAborted`, `AbortLost`, `Crash`, `Tick` | clean-up, its failure, a killed job, time |

A Firestore transaction is one step, since it is serializable; everything outside
a transaction is a step per read or write. A source title and its occurrences are
kept to fingerprints because that is all the protocol compares. A write to a
document that is there merges: `Fingerprints` has one field for each of the three
ways, replaced by every write (`identity`), replaced unless the incoming one is null
(`detail`: quality, ripType, year), kept once it is there (`origin`: feedType,
sourcePublishedAt). A scan's writes, a commit's and the abstract repair's use the same
`Stored`; that it loses nothing is stated apart from it (`Carries`, in
`OccurrencesMoveWhole`).

### Scanner and the code

| Model | Code |
|---|---|
| `titles`, `occs`, `logs`, `mappings`, `runDoc`, `snaps`, `pointer` | the Firestore collections of section 1 |
| `aged` | the logs whose `processedAt` lies before the retention cutoff |
| `scan[r]` | a run's write buffer, session caches, snapshot candidates, loop counters and program counter |
| `LoadMappings` .. `PruneRaises` | `ScannerService.run` up to the phases, where an exception ends the process |
| `FetchFeed`, `Entry*` | one feed and the ways an entry ends: too old, logged only, over quota, accepted, unreadable store |
| `FlushLog`, `FlushTitle`, `FlushOccurrence`, `FlushMapping` | one write of a flush loop; the list is cleared when all of it was written |
| `ReloadMappings`, `ReadPage`, `RecordOutcome`, `AcceptCandidate`, `Save*` | `ReparseService.run`, the lifecycle, and `ReparsePersistence.persist` write by write |
| `FinalFlush`, `StageSnapshot`, `StageItems`, `Promote`, `CloseRun` | `_finalize_run` and `publish` |
| `Crash`, `AWeekPasses`, `SaveManualMapping` | killed jobs, time, the administrator |

Every call to Firestore answers `ok`, or raises having written nothing
(`refused`), or raises having written (`lost`); a log that `ParseLog.__post_init__`
rejects makes the calls that read it raise (`unreadable`). What OMDb, the AI and
the match policy say of an entry is any answer. `accepted` and `troubled` only
observe, for stating properties.

### EntryMatching and the code

| Model | Code |
|---|---|
| `cache`, `session` | `omdbCache/{key}` and `OmdbResolver._session_cache`; entries keep their status, payload and the day they last until |
| `budget` | `RequestBudget`: attempts and the exhausted latch |
| `call` | the lookup under way: before its request, or done with a status and a payload |
| `Prefetch`, `Lookup`, `LookupRaises` | `prefetch`; `_resolve` up to the first request, a found entry of another id being dropped |
| `Forms` | the dated and the undated request of `get_movie_info`, the one by id |
| `RequestNotAdmitted`, `AnswerFound`, `AnswerNotFound`, `AnswerLimitReached`, `AnswerFails` | `RequestBudget.acquire` and what OMDb answers; a write to the cache that is not kept |
| `normalize_payload`, `evaluate_match` | `OmdbClient._normalize_payload`, `match_policy.py` |
| `ai`, `question`; `Ask`, `Reply`, `TryAgain`, `Forbidden`, `Fatal` | `GeminiMatcher`: availability, retries, cool-down, disabling |
| `Validated` | `validate_ai_batch_structure` and the checks of each entry |
| `run` | mode, phase, place in the feeds, whether an error was counted; `EndRun` is `_calculate_final_status` |
| `ReadFeed`, `FeedFails`, `Entry*` | `RssIngestionService.run` and `RssEntryProcessor` |
| `ListTitles`, `AuditBatch` .. `AuditValidated` | `ExistingTitleAuditService` as to what it looks up; what it writes is `TitleAudit`'s |
| `ListRetryable`, `MappedLookup`, `ReparseBatch` .. `ReparseValidated` | `ReparseService.run`: mapped logs first, then a batch, then candidates |
| `log`, `mapped` | the retry state of the entries' logs, the mappings still there |

An entry is what the parser made of a title; a lookup is a record of title,
year, kind and id; a payload has what the policy reads of it. Requests and answers
are steps, and everything between two of them is one. `judged`, `troubles`, `sent`,
`refused` and `denied` only observe. A run is a process of its own, as the workflow
has it, so that the session, the budget and the matcher start anew with each.

### TitleAudit and the code

| Model | Code |
|---|---|
| `titles`, `occs` | metadata and `aiValidated` of titles; raw title and stamp (status "valid" with the current policy version) of occurrences |
| `MergeTitles`, `MergeOccurrences` | `merge_titles`, `merge_occurrences` of `repository.py` |
| `StagedPair`, `StageEntry`, `StageHalf` | `stage_title_and_occurrence` over session copies, whole or up to a read that raises |
| `FlushTitle`, `FlushOccurrence`, `Finalize` | the flush loops after a feed and at the end |
| `ListTitles`, `NextBatch`, `ReadTitle` | selection: not flagged, not of this run unless chaining; clusters by raw title, those seen of late, those stamped |
| `AskAi`, `WriteStamp`, `WriteProposal` | the answer of a batch, all or nothing; stamps over the occurrences as listed; proposals |
| `CheckTitle`, `FlagTitle` | `_check_aggregate_validity`: occurrences listed again, title as listed at the start |
| `ReparseTitle`, `ReparseOccurrence` | `ReparsePersistence.persist` without the session |
| `ApplyProposal` | the commit of an approved proposal, in one step; its protocol is `ProposalApplication`'s |
| `judged` | observed: what the AI has found right |

### The next worker and the code

| Model | Code |
|---|---|
| `lock`; `Acquire`, `Exit`, `DropConnection` | `PostgresAdvisoryScanLock.TryAcquireAsync`, its `DisposeAsync`; a session lock goes with its connection, and the retrying context opens another |
| `proc[w]` | one process: local variables, program counter, and `unit`, the rows its DbContext tracks |
| `Replies`, `Thrown` | the ways a call ends, and the catch clause that is next on the stack |
| `SaveChanges`, `Clashes` | `SaveChangesAsync` of every tracked row; concurrency and key conflicts |
| `ReadCache`, `Reserve`, `Send`, `Mark`, `Store` | the lookup, each database call and request a step |
| `StartRun` .. `CompleteRun` | `RssIngestionService.RunAsync` and its repository |
| `OscarStart` .. `Finish` | `OscarEnrichmentService.RunAsync` and its repository |
| `usage`, `sent`, `told` | the row of today in `omdb_daily_usage`; the requests and the quota answer of today, observed |
| `muted`, `ahead` | observed: whether a process that heard that answer failed to record it; who had a reserved request to send when it was recorded |
| `p.today` | whether the day a request was dated with, before it was sent, is still the current one |
| `film[f].wait`, `hour` | `next_attempt_at` as hours ahead; UTC at 0, 5 and 16: midnight, and the timer's 07:00 and 18:00 in Sofia by winter time (in summer an hour earlier) |
| `Stop`, `Kill`, `StartManual`, `Midnight`, `TimerTick` | the host, the administrator, the systemd timer |

The DbContext matters: a row added before a failed `SaveChanges` stays tracked, so
the logs of a feed whose flush failed are written by the flush of the next
feed or the completion of the run, or block both when they conflict.
`UpsertCatalogItem` alone clears the tracker when it fails, unless its transaction could not
begin or its rollback raises too.

## 3. What the runs check

Bounds are named constants and appear in the configurations. Deadlock is not
checked for the models of the scanner and of the repair, whose instances stop by
exhausting their runs and bounds; for the worker, where time always goes on, it is.

| Run | Instance | Shows |
|---|---|---|
| `pa_race` | 2 overlapping runs, 2 proposals of one source, a scan into source or target with other metadata, 1 tick, crashes, calls that raise | `TypeOK`, `LeasesAgree`: lease documents and lease fields never come apart, so a source has one attempt at a time; `AppliedAsApproved`: claim and catalogue at the commit are those approved; `OccurrencesMoveWhole`: a document that leaves a title is under the target, unchanged, or merged with what the target had so that no field of either is lost; `ImplementsRepair`: the protocol implements `CatalogRepair`; `StatusesMoveLegally`, `NoLeaseLeftBehind` although a late clean-up or rejection follows recovery, requeue and a new owner; a lease stays only with a run that was killed, did not hear that it had it, or lost its clean-up |
| `pa_serial` | serialized runs, more scan writes, fairness | `OccurrencesHaveTitles`: no occurrence under a missing title; `LeasesEnd`: who holds a lease gives it back unless killed, or it never learnt of it, or its clean-up was lost |
| `pa_same_target` | an audit that suggests the source itself | a finding (section 4) |
| `sc_flush` | an RSS run and a run of all phases that may overlap, 2 feeds, a movie and, met by the first run only, a series and a title of unknown kind; 1 raising call, 1 kill | `TypeOK`; `FiledUnderStoredTitles`; `ClosedRunsAreDurable`: what a closed run accepted is in the catalogue, retried flushes included; `LatestIsWhole`: the pointer names a ready, complete page of a run without errors; `LatestFollowsFeeds`: that page has each accepted movie and series once and no other title, movies first, in feed order |
| `sc_reparse` | RSS, reparse, RSS over 1 entry; 1 raising call, 1 saved mapping, weeks; fairness | `ResolutionsAreDurable`, `MappingsAppliedBeforeConsumed`, `RetryableWorkKept`; `RunsEnd`: every started run ends |
| `sc_poison` | RSS, reparse, RSS over 1 entry | a finding (section 4) |
| `em_match` | 2 runs of any modes; a film and, in a second feed, a season with a manual mapping; 3 payloads, 5 caches to begin with; 2 requests, 2 attempts at the AI, 1 failure or kill; fairness | `TypeOK`, with whole answers of the AI; `RequestsWithinBudget`, `QuietAfterQuota` over all phases; `NotFoundIsWhole`: "not found" is stored only when every form of the lookup was denied; `NoNeedlessRequests`: the session's copy never hides what the cache could answer; `AcceptedAsDocumented`: a movie or series that is accepted fits the documented matrix; `MappingsAreObeyed`; `TroubleShows`: a run that met trouble does not say it succeeded; `RunsEnd` |
| `em_unknown` | an RSS run and an audit over 1 film, a game of its title | a finding (section 4) |
| `ta_audit` | 2 serialized runs of the modes `all`, `recheck-existing` and `apply-proposals` over 2 titles, 2 entries (one to be reparsed), 2 raw titles; a repair waiting; 1 raising call or kill | `TypeOK`; `FlagsCoverScannedEntries`: a flagged title has only stamped occurrences, but for what reparsing filed; `StampsAreEarned`: a stamp belongs to the raw title the AI found right, through every merge; `RepairsAreNotUndone`: no audit brings back what a repair moved |
| `ta_reparse` | an audit and a reparse | a finding (section 4) |
| `nx_scan` | a scheduled and a manual process, 1 entry and 1 film that are one title, 2 requests a day of which 1 for Oscar; one trouble: a raising call, a stop, a kill or a lost connection | `TypeOK`; `BudgetRespected`: requests stay within reservations and these within limits; `QuietAfterQuota`: once it is recorded that the provider's quota is used up, nothing is sent but what another process had reserved, and before that nothing but around a process that heard it; `SettledFilmsStaySettled`: a film with metadata is not turned back by a run that read it earlier; `SucceededRunsAreComplete`: what was accepted is stored and each entry has one log; `OscarRunsReportWhatTheyStored` |
| `nx_oscar` | 1 process twice a day, 3 films, 1 per run; fairness | `FilmsEventuallyTried`: the newest films, as many as a day has turns, each get theirs, though all of them may go on failing |

Why these bounds are enough to be interesting. Two runs are the least that
race, and a late clean-up meets a recovery and a requeue. Two
occurrences in one title are the least for a move that leaves and a move that
empties it. One tick makes every lease expire once, with the duration at one
tick. One proposal may be made from a reading between the two writes of a scan, the other
only from before it (`OneReadBetween`). In the scanner, two feeds are the least for a flush that fails and is
taken up by the next, and three runs for a log to be made, resolved and met again. Batches hold one
item, so that publications have several; the code's 450 is only a size. `OneRunHasAll`
lets the second run meet the movie only, which keeps `sc_flush` within reach; the first
run's page has both kinds of titles, whichever feed has which. That the first of two places of a
title counts needs three entries and is left to the theorem `LatestPageFollowsFeeds`.

In `em_match`, two requests are the least for a fallback that meets the limit; a dated
film has two forms, a season and a mapping one. The caches begin empty or with one
payload under every key, expired that day or not, whole or without a title, as an
older program may have left it. Three payloads are a film, a series that has ended and
an excluded film; every year of the matrix that matters (inside, at the end, one off,
unknown) occurs between them and the lookups. The AI may name any of three readings, of
either kind or none. Payloads that are neither movie nor series are met in `em_unknown`
only. Two runs let one file what the other audits, or fail what the other
reparses.

In `ta_audit`, two titles let a repair move and an audit of one meet the other; two
entries are the least for a title that keeps one and loses one; batches hold one
title, so that the audit has several. Runs, titles, raw titles and metadata are
symmetric.

In the worker, two requests are the least for a fallback that meets the limit, and a film
and an entry of one title the least for a cache entry that both write; one trouble
at a time keeps two processes within reach. `nx_scan` explores one day on which
something was stored, and the runs that outlive its midnight, up to the first attempt at its
film, with overlap around the timer's second hour (`OneDay`): longer schedules are the
question of `nx_oscar`. There the timer's two runs of one film each (`RunsADay`, `MaxFilms`)
give the two newest films a turn each day; the third film is the first that they can keep
from ever being tried, and its own attempts are bounded to one (`LastFilmOnce`).
Attempts are capped at 6, where the delay has reached its largest value. The rows
of a run that has ended are dropped when time passes, since no step reads them. A
run is assumed to end before the timer fires again, but may outlive midnight. Each
property was seen to fail on a changed model (section 6), within its bounds.

Fairness. A run is one thread whose calls time out, so a started process takes
its next step unless it is killed: weak fairness of `RunStep(r)` (`Scanner`,
`ProposalApplication`), of `Step` (`EntryMatching`) and nothing
else. Starting, crashing, time, scans, audits and the operator get no fairness.
A step that calls Firestore, OMDb or the AI
includes its raising answers; fairness never picks the answer. In `NextWorker`
fairness is that of each process (`ProcessStep`) and of time. `FilmsEventuallyTried`
assumes in its statement that the quota lasts from some day on: nothing in
the code can grant a request that the provider refuses.

## 4. What the code does against its documents

The documents' words are quoted in `PROJECT.json` under `findings`.

| Run | Claim of a document | What the run shows |
|---|---|---|
| `pa_same_target` | a proposal whose target is its source is a no-op | the named occurrences are deleted |
| `sc_poison` | a retryable log has no resolution | resolved by reparsing, then met again and failed: it has, and can no longer be read |
| `em_unknown` | a known kind against an unknown one of OMDb's is ambiguous, never silently accepted as the known | the audit's correction of a film without a kind resolves to a game, which is accepted as a movie and proposed |
| `ta_reparse` | the flag is set only when every occurrence is valid | reparsing files an unstamped occurrence under a flagged title, which no audit looks at again |

Consequences of an unreadable log, all in the model: a later flush of that log
raises, so the run's final flush may end the process with `scanRuns/{id}` still
`running`; the retry page fails; and a week later the prune ends every run at
its start. `sc_reparse` reaches these states and its properties hold in them.

Met while modelling, without a run of their own:

* An expired lease is recovered by `acquire_lease`, but planning comes first and
  returns when the catalogue has changed; the lease then stays
  (`docs/ai/DATA_CONTRACTS.md:470` has every expired lease cleared). In the model of
  `pa_race`.
* A mapping edited after the run loaded it is deleted by id once the old one was applied
  (`docs/ai/DATA_CONTRACTS.md:342` has mappings consumed after their own success). In the
  model of `sc_reparse`, whose property says what does hold: the run applied one.
* Retention keeps retryable logs, but a log made retryable by an overlapping run after the
  query for expired ones is deleted with them. `RetryableWorkKept` is checked with
  serialized runs, as the deployed workflow has them.
* When the AI gives no verdict on a candidate of reparsing, the candidate is filed and no error
  counted (`reparse_service.py:503`), where `docs/ai/ARCHITECTURE.md:170` has AI error
  states produce a non-success result. `TroubleShows` leaves out this one case, by name.
* With no AI to ask, or a title that reads the same, the audit proposes its candidate
  unvalidated (`AuditDecides`).
* A quota that OMDb reports by HTTP status alone is a transport error to
  `OmdbClient` and does not latch the budget.
* A mapping is consumed with its first use; an entry the feed still lists is resolved by its
  title in the next run.
* A lease that was taken by a call whose answer got lost, or whose holder was killed, leaves its
  proposal applying until the lease has expired and another run of it recovers it;
  `apply_proposal` catches only what the commit raises (`proposal_application.py:570`). In the
  model of `pa_race`.
* The call that records the provider's quota can be refused, or its process stopped or killed
  there (`OmdbClient.cs:134`, `:152`); the day then stays open, where `next/README.md:99` and
  `next/docs/ai/DATA_CONTRACTS.md:71` have it blocked, also after a restart. In the model of
  `nx_scan`; `QuietAfterQuota` names these cases (`muted`) and holds in all others, restarts,
  overlaps and lost connections included.
* Delays grow to 24 hours and no further (`OscarEnrichmentService.cs:219`), candidates are taken
  newest first: with two runs a day and `MaxFilms` films each, that many newer films that fail
  for ever keep every older one from being tried. In the model; `FilmsEventuallyTried` claims no
  more than the code gives, the films those turns reach.
* With `allow_same_run_chaining` an audit may flag a title from copies that the same run's
  final flush writes over; `ta_audit` has chaining off, as the program's default is.
* A change of metadata alone clears the stamp in the staged copy, but
  `merge_occurrences` (`repository.py:177`) keeps the stored one, so the stamp stays.
  `StampsAreEarned` is therefore about raw titles.
* An applied proposal moves occurrences with their stamps, and a scan that meets a moved entry
  again files it under its old title again (`RepairsAreNotUndone` says so).

Only of serialized runs, as the workflow's concurrency group has them, the following are
stated: `OccurrencesHaveTitles`, `RetryableWorkKept`, `RepairsAreNotUndone`,
`FlagsCoverScannedEntries`, `MappingsAppliedBeforeConsumed`. They say nothing of the same
hazards between overlapping runs, where several are false; `PROJECT.json` marks those
hazards as not covered. `RunsEnd` of `sc_reparse` is about a retry page of one batch, not
about the cursor over many.

## 5. What is proved

### The repair

For all constants satisfying `ConstantsAssumption` (finite named sets, distinct
null values, positive lease duration):

| Theorem | States |
|---|---|
| `TypeCorrect` | `Spec => []TypeOK` |
| `LeasesAlwaysAgree` | `Spec => []LeasesAgree` |
| `StatusesAlwaysMoveLegally` | `Spec => StatusesMoveLegally` |
| `NoLeaseEverLeftBehind` | `Spec => []NoLeaseLeftBehind` |
| `AlwaysAppliedAsApproved` | `Spec => AppliedAsApproved` |
| `RefinesRepair` | `Spec => ImplementsRepair` |
| `OccurrencesAlwaysMoveWhole` | whole moves, merges at the target included, if no audit suggests a proposal's own source |
| `OccurrencesAlwaysHaveTitles` | `Serialized => (Spec => []OccurrencesHaveTitles)` |

The argument. `TypeOK` is not inductive alone: a step uses `run[r].job` as a
proposal, so `Assigned` (a run past idle has a job) goes with it. `LeasesAgree` is
then inductive; lemmas per writer say what a step does to a proposal and to the
lease of its source, so that the two transactions that delete a lease without
reading it are seen to do so only with its applying proposal. The status graph
follows from `Inv == TypeOK /\ Assigned /\ LeasesAgree`, because each writer but
the rejection checks the status in its transaction, and a rejected record read
earlier can only have moved legally to rejected. `NoLeaseLeftBehind` needs `Owned`: a
run that a record names as owner is at its commit, at its clean-up, killed, or
lost its clean-up, or lost the answer that gave it the lease; `MayOwn` names those
places. `AppliedAsApproved` needs
`Claims`: an open proposal describes documents that existed (`Described`), between approval
and application its claim is the approved one (`ClaimKept`), and a run past its
first read has a target (`Targeted`). The refinement maps an applying proposal to
an approved one; every action but the commit and the writers of statuses
stutters or is a step of a scan, and `CountTellsEmptied` relates the counted
documents to the deletion of the source. `OccurrencesMoveWhole` fails for a proposal whose
target is its source (`pa_same_target`), hence the premise `Elsewhere`.
`OccurrencesHaveTitles` goes with `ScansAlone`: while a scan is between its two writes, no
repair is under way. `Serialized` is needed for that; without it TLC finds a repair that
deletes the title a scan is about to file an occurrence under.

### The scanner

For all constants satisfying `StoreAssumption` and `ParseLogsAssumption`: any titles, entries
and feeds, any runs in any modes, any batch size, any number of calls that raise, of kills and
of mappings saved. `DistinctEntriesAssumption` is not needed.

| Theorem | States |
|---|---|
| `ScannerTypes` | `Spec => []TypeOK` of `Scanner` |
| `OccurrencesFollowTitles` | `Spec => []FiledUnderStoredTitles` |
| `ClosedRunsStoredAll` | `Spec => []ClosedRunsAreDurable` |
| `ResolvedLogsAreFiled` | `Spec => []ResolutionsAreDurable` |
| `LatestPageIsWhole` | `Spec => []LatestIsWhole` |
| `LatestPageFollowsFeeds` | `Spec => []LatestFollowsFeeds` |
| `MappingsAreApplied` | `Serialized => (Spec => MappingsAppliedBeforeConsumed)` |
| `RetriesAreKept` | `Serialized => (Spec => RetryableWorkKept)` |

The argument. Two inductive invariants, one on the other. `IInv` says of each run's memory what
its program point has behind it and what it still holds (`Good`): what is staged or is a
candidate is stored or waits in the buffer (`Sound`), and so is what the run accepted (`Kept`);
every loop is at something that is there (`Placed`); a flush comes to a list only when
those before it are empty (`Emptied`), and a loop's finished part is stored (`Written`). An
occurrence is therefore written only after its title, and a run that closes has an empty buffer.
All this speaks of one run and a store that only grows in titles and occurrences, so it
holds however runs overlap.

`Told` adds what the outside sees. `Traced` relates the candidates to what was accepted: the
same titles, in the order of first acceptance, which holds because positions only rise
while a run goes through its feeds (`Placed`). A page under way has exactly the items of the
batches written so far (`Telling`, `Laid`), and the page pointed at is one that was written to
its end (`Shown`). That `BuiltItems` has a value at all is a lemma: a finite set can be laid out
in a strict total order, each element at the number of those before it, plus one
(`FiniteSetsAreSorted`), and `Before` is such an order on candidates at distinct positions.
Both are lemmas that the properties of the page rest on; without them a `CHOOSE` over no
sorted sequence would prove anything.

The last two theorems need the workflow's concurrency group: an overlapping run could prune
the log of an entry, or make retryable a log that a query has returned. With one run at a time
(`Alone`), an entry whose mapping was used has its log stored or in the buffer until mappings
are flushed, last of all (`Noted`, `Backed`), and what a query returned for pruning stays
what it was. The part of `MappingsAreApplied` that says the entry was filed under the title is
proved without it (`FlushedMappingIsFiled`, `SavedMappingIsFiled`).

### The decision on entries

For all constants satisfying `ResolverAssumption` and `MatchingAssumption`: any entries, any
non-empty list of feeds, lookups with a year and a kind, payloads whose years are read (at most
two, positive), any limits, and any caches whose rows are answers OMDb may give or, where an
older program stored them, payloads without a title (`Kept`).

| Theorem | States |
|---|---|
| `MatchingTypes` | `Spec => []TypeOK`, with what a finished lookup carries |
| `RequestsAlwaysWithinBudget` | `Spec => []RequestsWithinBudget` |
| `NeverNeedlessRequests` | `Spec => []NoNeedlessRequests` |
| `AlwaysQuietAfterQuota` | `Spec => QuietAfterQuota` |
| `NotFoundAlwaysWhole` | `Spec => NotFoundIsWhole` |
| `AnswersAreWhole` | what `Validated` returns answers each item asked about with something an entry may say |
| `PolicyAsDocumented` | what `evaluate_match` accepts is not excluded and, if it is a movie or a series and not mapped, fits `DocumentedFit` |
| `AlwaysAcceptedAsDocumented` | `Spec => []AcceptedAsDocumented` |
| `MappingsAlwaysObeyed` | `Spec => []MappingsAreObeyed` |
| `TroubleAlwaysShows` | `Spec => []TroubleShows` |

The argument. `Shape` says that a run is at a feed and an entry that exist, that what a phase
waits for is what it asked, and that what it looks up is a lookup: with it each step
of a run is one of five to the resolver (`ResolverStep`), so that the resolver's own
invariant is proved once for all phases. That invariant has `Counted` (attempts are the
requests sent; a limit reported is latched), `UnderWay` (the forms asked so far were
denied), and `Following` (wherever the cache is usable the session's copy is), without
which `NoNeedlessRequests` is not inductive: a lookup reads the copy and the property
speaks of the cache. For what is accepted, each step is one of eight to the entry under way
(`MatchingStep`); `Pursued` says that the payload a lookup ends with is of the task's own
lookup, `Held` that a candidate held for the AI's verdict was accepted by the policy, and the
rest is `PolicyAsDocumented`, a statement about two functions. For `TroubleShows`, `Covered`
says that a trouble the run has not counted yet is `Pending`: at the lookup or at the
question the next step takes up; a step is `Settling` if it leaves nothing pending.

`TypeOK` says more than types: a lookup ends as found with a payload of OMDb's and as anything
else with none, from the caches as from a request, and an entry is decided on exactly while a
lookup is under way or over. `Answering` has the rows of both copies of the cache `Kept`, and
the check of a title before a row is used makes an older row as good as an answer; `Led` has
where a run is while it decides and while it asks the AI, without which a question could
outlive its run.

### The audit

For all constants satisfying `RecordsAssumption` and `AuditAssumption`: any titles, entries,
runs, modes, batch sizes, and any number of failures.

| Theorem | States |
|---|---|
| `TypeCorrect` | `Spec => []TypeOK` of `TitleAudit` |
| `StampsAlwaysEarned` | `Spec => []StampsAreEarned` |
| `RepairsStayDone` | `Serialized => (Spec => RepairsAreNotUndone)` |
| `FlagsAlwaysCover` | `Serialized /\ ~Chaining => (Spec => []FlagsCoverScannedEntries)` |

The argument. The stamps and the types hold however runs overlap. `IInv` has `Orderly`
(what is pending has been staged, what is still to be checked was listed, and a phase leaves
nothing behind that the next would misread) and `Honest`: not only the stored stamps but every
stamped copy in any run's memory, staged or listed, is earned, because any of them may be
written later; answers of the AI are only added to. The other two need the workflow's
concurrency group. `Alone` says that one run is active and that
the occurrences it has listed are still there until it has written its stamps (`Present`), so
that its upserts make none. `Careful` relates the session copies of the one run to what is
stored: a copy that is flagged or stamped is so in the store as well; where a copy without a
stamp waits to be written, its title is not flagged or a copy that takes the flag back waits
too (`Guarded`: titles are flushed first, and their list is kept until the loop ends);
titles still to be audited are not among those staged. This last part is what
`~Chaining` is for: with chaining TLC finds the flag set from copies that the final flush
writes over.

### The worker

For all constants satisfying `NextAssumption` and `NoFilmAssumption` (finitely many workers,
feeds of known sources, films ordered without repetition, natural limits):

| Theorem | States |
|---|---|
| `BudgetAlwaysRespected` | `Spec => []BudgetRespected` of `NextWorker` |
| `AlwaysQuietAfterQuota` | `Spec => QuietAfterQuota` of `NextWorker` |
| `WorkerTypes` | `Spec => []TypeOK` of `NextWorker` |
| `RunsReportWhatTheyStored` | `Spec => []OscarRunsReportWhatTheyStored` |
| `SettledFilmsAlwaysStay` | `Spec => SettledFilmsStaySettled` |
| `SucceededRunsStoreAll` | `Ample => (Spec => []SucceededRunsAreComplete)` |

The first invariant (`Funded`) adds to the requests sent today the processes that hold a
reservation of today and have not sent it (`InFlight`), in all and for Oscar. A
reservation adds one process and one to the row; a request moves one from the set
to the count; a stop, an exception or a kill only shrinks the set; midnight empties
all. No lock is needed: the bound holds for processes that overlap.

The second theorem needs no lock either. `Heeded`: once the provider has reported its quota
today, this is recorded, or a process is at the call that records it, or one that was there did
not get to (`muted`). `Foreseen`: once it is recorded, whoever is about to send holds a
reservation from before (`ahead`), since no further one is granted. `QuotaInv` is these two with
the first invariant, and the property reads off them what a request may follow: under
a recorded quota its sender is in `ahead` and leaves it, so each such process sends one
request at most; with none recorded somebody heard of it and is `Marking`, or `muted` says that
it could not. Nothing is assumed of failures, stops, kills or connections.

`TypeInv` adds to the types where a process can be (`Placed`): an index into a feed exists
wherever the feed is read, a lookup has its key, a film in hand an outcome or a result that
gives it one; a film that is tracked is never pending (`Units`). That the list of candidates
names films that are due, each once, rests on a lemma about `Candidate`: in a finite set of
numbers there is an n-th for every n up to its size (`NthOf`).

`Tallied` relates an Oscar run's row and its process to what it has stored: in the loop the
counter is the number of films stored, none of those left is among them (`Ahead`), and
nothing of a film is tracked between films (`FilmFree`). After a save that raised, the
process is at its last save, where the film is still tracked and may be stored a second time or for
the first time, but only with a verdict other than succeeded: hence "no more than" in general
and "exactly" for a run that succeeded. It holds however runs overlap. Most steps need
one argument: they leave the films alone (`Quiet`) and the process goes where its tally is
the same (`Follows`).

`Undisturbed` says that, while no connection is lost, the films a process has still to try
are not settled and what it tracks at its last save agrees with those that are (`Held`).
Another process could falsify it, hence `LockInv`: while no connection is lost, a
process between its lock and its exit holds it (`Exclusive`), so who works, works alone. With
a lost connection TLC finds a second run that settles a film the first has read as a candidate.

`SucceededRunsStoreAll` holds however runs overlap, for any feeds, failures, stops and kills.
Its hypothesis `Ample` is a condition on the feeds and the cap: no entry stands in two places
of them, and `MaximumParseLogsPerRun` is at least their number. Without it the code itself
leaves two logs about an entry, or none; `MCNextWorker` assumes it too, so that TLC finds it
true of both instances. `Booked` has two parts. Once an error is counted (`erred`), no verdict
that is still to come is "succeeded". Until then the run is `Faultless`: of the entries behind
it (`Passed`), and of no others, each has one log, in the table or in hand, and there are as
many of these as the counter that the cap is compared with says; no log is left
tracked, so that no later save of the process writes one again; and what the policy
accepted is in the catalog or is the entry in hand. The lemmas on `Before` say how the entries
behind a run grow, by one with each entry and by none from the end of a feed to the next.
Every place where an exception lands is looked up in `ThrownErred`: it counts an error, or the
process ends. TLC checked the invariant on the two-process
instance and on one process with two feeds and a cap that is just met.

### Only model-checked

`LeasesEnd`, `RunsEnd` and `FilmsEventuallyTried`: liveness under fairness is beyond the
prover. Every invariant and every action property that a passing run checks has a theorem,
some of them under the hypothesis the tables above name.

## 6. Mutants

Each property of a passing run has a mutant: a definition marked "Mutant" beside
the one it changes, in the way a slip in the code would (a rejected check, a list
cleared early, the loops in another order). With it the property fails.

## 7. Not modelled

* Titles are parsed already in `EntryMatching`, and an entry that does not parse is one that
  is logged only in `Scanner`: `rutracker_parser.py` and `ids.py` are text processing.
* Fetching: HTTP with redirects, sizes and retries; a feed is there or raises.
* In `Scanner` the contents of titles and occurrences, which are `TitleAudit`'s matter; in
  `EntryMatching` what is stored, which is theirs.
* Dry runs and parse-only runs, which write nothing; mappings matched by title text;
  retry pages beyond the first, and of a page more than one batch; one id twice in a feed
  (`DistinctEntriesAssumption`).
* "Partial" stands for partial and failed: how many phases failed tells them apart.
* `proposal_application_store.py` and `in_memory_repository.py`: the store's interface, and
  doubles for tests and local runs.
* `cli.py` and the settings, but for the modes and that an exception ends the process.
* In the next worker: the contents of titles, hence what an outcome writes to them;
  the match policy and the parsers, which may answer anything; settings, assumed
  present and valid; sources edited while a run goes on.
* In the match policy, payloads of kinds other than movie and series but for `em_unknown`.
* The client: planned below. The security rules, the next server's API and import,
  the legacy scripts: declarations, queries, or programs run once.

## 8. Plan

1. `CatalogRepair`, `ProposalApplication`, their proofs (done).
2. `ParseLogs`, `ScannerStore`, `WriteBuffer`, `RssPhase`, `ReparsePhase`,
   `LatestSnapshot`, `Scanner`, `ScannerProofs`, `ScannerOutcomeProofs` (done).
3. `MatchPolicy`, `MetadataResolver`, `AiMatcher`, `EntryMatching` (done), their proofs
   (done).
4. `CatalogRecords`, `AuditStore`, `TitleAudit`, `TitleAuditProofs` (done);
   the composition with the lease protocol of `ProposalApplication`, whose
   commit is one step here.
5. `CatalogPages` and `UserTitles`: requests overtaken by a reload, paging over a
   snapshot, optimistic updates against a subscription. Abstract view: the list shown
   is a prefix of one query's result.
6. `NextStore`, `NextLookup`, `NextIngestion`, `OscarEnrichment`, `NextWorker` (done),
   `NextBudgetProofs`, `NextOutcomeProofs` (done).
