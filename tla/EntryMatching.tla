---------------------------- MODULE EntryMatching ----------------------------
(***************************************************************************)
(* How one run decides on entries: RSS ingestion, the audit's candidates   *)
(* and reparsing share one resolver, one budget and one AI matcher.  What  *)
(* is decided is kept as the retry state of the entries' logs; the storage *)
(* of it is the matter of Scanner and TitleAudit.  Entries are those whose *)
(* titles parse.                                                           *)
(***************************************************************************)
EXTENDS MetadataResolver, AiMatcher

CONSTANTS
    Entries,
    Feeds,        \* the configured feeds, each a sequence of entries
    Parsed,       \* of each entry: what to look it up as, without an id
    MapOf,        \* of each entry: the id of its manual mapping, or NoId
    Readings,     \* what the AI may take a title for: lookups without an id
    InitialCaches,
    Modes,        \* of scan runs
    MaxRuns,
    Gaps          \* days between runs

NoLookup == [title |-> Blank, year |-> NoYear, type |-> "unknown", id |-> NoId]

(* A row of the cache: an answer OMDb may give, of today's program or, when *)
(* it has no title, of an older one's.                                      *)
Kept(entry) ==
    /\ entry.until \in Nat
    /\ entry.status = "found" =>
          /\ PayloadRead(entry.payload)
          /\ entry.payload.title # Blank => entry.payload \in Payloads
    /\ entry.status = "confirmed_not_found" => entry.payload = NoPayload

ASSUME MatchingAssumption ==
    /\ Feeds \in Seq(Seq(Entries)) \ {<<>>}
    /\ \A e \in Entries : /\ Parsed[e] \in Lookups /\ Parsed[e].id = NoId
                          /\ [Parsed[e] EXCEPT !.id = MapOf[e]] \in Lookups
    /\ Readings \subseteq Lookups
    /\ \A k \in Readings : /\ k.id = NoId
                           /\ \A t \in {"movie", "series"} : [k EXCEPT !.type = t] \in Lookups
    /\ \A c \in InitialCaches :
          /\ c = [k \in Lookups |-> c[k]]
          /\ \A k \in Lookups : Kept(c[k])
    /\ Modes \subseteq {"rss", "all", "recheck-existing", "reparse-unfound"}
    /\ MaxRuns \in Nat /\ Gaps \subseteq Nat

VARIABLES
    run,      \* where the run is, and whether it has counted an error
    log,      \* retry state of each entry's log
    mapped,   \* entries whose manual mapping is still there
    fresh,    \* entries this run has written a log of
    todo,     \* entries the present phase has still to decide on
    said,     \* what the AI said of them
    task,     \* the entry being decided on
    runs,     \* runs started
    judged,   \* observed: the last acceptance
    troubles  \* observed: what went wrong in this run

books == <<log, mapped, fresh>>
work == <<todo, said>>
vars == <<resolver, ai, question, run, log, mapped, fresh, todo, said, task, runs, judged, troubles>>

Idle == [pc |-> "idle", mode |-> "rss", feed |-> 0, entry |-> 0, erred |-> FALSE, status |-> "none"]
NoTask == [pc |-> "none", entry |-> NoPayload, key |-> NoLookup, expected |-> "unknown"]
NoJudgement == [payload |-> NoPayload, key |-> NoLookup, expected |-> "unknown"]

-----------------------------------------------------------------------------
(* ScannerService.run *)

Init ==
    /\ cache \in InitialCaches
    /\ now = 1 /\ session = [k \in Lookups |-> Unread]
    /\ budget = [attempts |-> 0, exhausted |-> FALSE]
    /\ call = Waiting /\ failures = 0
    /\ sent = 0 /\ refused = FALSE /\ denied = 0
    /\ ai = FreshAi /\ question = Quiet
    /\ run = Idle /\ runs = 0
    /\ log = [e \in Entries |-> "none"]
    /\ mapped = {e \in Entries : MapOf[e] # NoId}
    /\ fresh = {} /\ todo = {} /\ said = NoAnswers /\ task = NoTask
    /\ judged = NoJudgement /\ troubles = {}

Finalize(s) == [s EXCEPT !.pc = "end"]

(* The phases a mode selects, in their order. *)
AfterReparse(s) == Finalize(s)
AfterAudit(s) == IF s.mode = "all" THEN [s EXCEPT !.pc = "page"] ELSE Finalize(s)
AfterRss(s) == IF s.mode = "all" THEN [s EXCEPT !.pc = "list"] ELSE Finalize(s)

StartRun(mode, gap) ==
    /\ run.pc = "idle"
    /\ runs < MaxRuns
    /\ runs' = runs + 1
    /\ run' = [Idle EXCEPT !.mode = mode, !.feed = IF mode \in {"rss", "all"} THEN 1 ELSE 0,
               !.pc = CASE mode \in {"rss", "all"} -> "feed" [] mode = "recheck-existing" -> "list"
                        [] mode = "reparse-unfound" -> "page"]
    /\ ResetResolver(now + gap)
    /\ ai' = FreshAi /\ question' = Quiet
    /\ fresh' = {} /\ todo' = {} /\ said' = NoAnswers /\ task' = NoTask /\ troubles' = {}
    /\ UNCHANGED <<cache, failures, log, mapped, judged>>

(* _finalize_run and _calculate_final_status: an error makes it partial, or *)
(* failed, which is not told apart here.                                    *)
EndRun ==
    /\ run.pc = "end"
    /\ run' = [run EXCEPT !.pc = "idle", !.status = IF run.erred THEN "partial" ELSE "succeeded"]
    /\ todo' = {} /\ said' = NoAnswers
    /\ UNCHANGED <<resolver, ai, question, books, task, runs, judged, troubles>>

(* The process dies: its session, budget and matcher go with it. *)
Killed ==
    /\ run.pc # "idle"
    /\ failures < MaxFailures
    /\ failures' = failures + 1
    /\ run' = [run EXCEPT !.pc = "idle", !.status = "running"]
    /\ call' = Waiting /\ question' = Quiet /\ task' = NoTask
    /\ todo' = {} /\ said' = NoAnswers
    /\ UNCHANGED <<now, stores, budget, observed, ai, books, runs, judged, troubles>>

Erred(s) == [s EXCEPT !.erred = TRUE]

(* What a call that has just ended adds to the troubles of the run. *)
Noticed ==
    troubles' = IF call'.pc = "done" /\ call'.status \notin {"found", "confirmed_not_found"}
                THEN troubles \cup {"omdb"} ELSE troubles

(* A lookup of the resolver for the entry the run decides on. *)
Start(e, key, expected) ==
    /\ task' = [pc |-> "lookup", entry |-> e, key |-> key, expected |-> expected]
    /\ Lookup(key) \/ LookupRaises(key)
    /\ Noticed

(* The metadata of the present outcome, and what the policy says of it. *)
Metadata == normalize_payload(call.payload)
Decision == evaluate_match(task.expected, Metadata, task.key.year, task.key.id # NoId)

(* clean_title_for_comparison of what was looked up and what was found. *)
TitlesDiffer == call.payload.title # task.key.title

Judge == judged' = [payload |-> call.payload, key |-> task.key, expected |-> task.expected]

LogOfFailure == "retryable"

-----------------------------------------------------------------------------
(* RssIngestionService.run and RssEntryProcessor *)

NextFeed(s) ==
    IF s.feed < Len(Feeds) THEN [s EXCEPT !.pc = "feed", !.feed = @ + 1, !.entry = 0] ELSE AfterRss(s)
NextEntry(s) ==
    IF s.entry < Len(Feeds[s.feed]) THEN [s EXCEPT !.pc = "entry", !.entry = @ + 1] ELSE NextFeed(s)

Present == Feeds[run.feed][run.entry]

(* The feed is fetched and parsed, and the cache asked for all its titles. *)
ReadFeed ==
    /\ run.pc = "feed"
    /\ Prefetch({Parsed[Feeds[run.feed][i]] : i \in DOMAIN Feeds[run.feed]})
    /\ run' = NextEntry(run)
    /\ UNCHANGED <<now, cache, budget, call, failures, observed, ai, question, books, work, task,
                   runs, judged, troubles>>

(* The feed cannot be had, or the cache cannot be read. *)
FeedFails ==
    /\ run.pc = "feed"
    /\ failures < MaxFailures
    /\ failures' = failures + 1
    /\ run' = Erred(NextFeed(run))
    /\ troubles' = troubles \cup {"feed"}
    /\ UNCHANGED <<now, stores, budget, call, observed, ai, question, books, work, task, runs, judged>>

(* Published before the cutoff. *)
EntryTooOld ==
    /\ run.pc = "entry" /\ task.pc = "none"
    /\ run' = NextEntry(run)
    /\ UNCHANGED <<resolver, ai, question, books, work, task, runs, judged, troubles>>

(* A mapping is looked up by its id, under the entry's title. *)
KeyOf(e) == IF e \in mapped THEN [Parsed[e] EXCEPT !.id = MapOf[e]] ELSE Parsed[e]

EntryLookup ==
    /\ run.pc = "entry" /\ task.pc = "none"
    /\ Start(Present, KeyOf(Present), Parsed[Present].type)
    /\ UNCHANGED <<ai, question, run, books, work, runs, judged>>

Log(e, state) == log' = [log EXCEPT ![e] = state] /\ fresh' = fresh \cup {e}

(* Mutant: an error of the provider is the entry's matter alone. *)
UncountedFailure(s) == IF call.status = "unexpected_error" THEN s ELSE Erred(s)

CountedFailure(s) == Erred(s)

(* _persist_accepted_entry *)
EntryAccepted ==
    /\ run.pc = "entry" /\ task.pc = "lookup"
    /\ call.status = "found" /\ Decision = "accepted"
    /\ TakeOutcome
    /\ Log(task.entry, "resolved")
    /\ mapped' = mapped \ {task.entry}
    /\ Judge
    /\ run' = NextEntry(run)
    /\ task' = NoTask
    /\ UNCHANGED <<now, stores, budget, failures, observed, ai, question, work, runs, troubles>>

(* _handle_match_rejection *)
EntryRejected ==
    /\ run.pc = "entry" /\ task.pc = "lookup"
    /\ call.status = "found" /\ Decision # "accepted"
    /\ TakeOutcome
    /\ Log(task.entry, "terminal")
    /\ run' = NextEntry(run)
    /\ task' = NoTask
    /\ UNCHANGED <<now, stores, budget, failures, observed, ai, question, mapped, work, runs, judged, troubles>>

(* _handle_metadata_failure: the run's limit leaves out the rest of a feed. *)
EntryNotResolved ==
    /\ run.pc = "entry" /\ task.pc = "lookup"
    /\ call.status # "found"
    /\ TakeOutcome
    /\ Log(task.entry, LogOfFailure)
    /\ CASE call.status = "confirmed_not_found" -> run' = NextEntry(run)
         [] call.status = "quota_exhausted" -> run' = CountedFailure(NextFeed(run))
         [] OTHER -> run' = CountedFailure(NextEntry(run))
    /\ task' = NoTask
    /\ UNCHANGED <<now, stores, budget, failures, observed, ai, question, mapped, work, runs, judged, troubles>>

-----------------------------------------------------------------------------
(* Questions about the present phase's entries. *)

Saying(says, key) == [says |-> says, key |-> key]
Verdicts == {Saying("match", NoLookup), Saying("other", NoLookup)}

(* The batch is asked about as a whole, if the matcher can be asked. *)
AskBatch(ids, sayings, next, after) ==
    IF is_available
    THEN /\ Ask(ids, sayings)
         /\ run' = [run EXCEPT !.pc = next]
         /\ UNCHANGED troubles
    ELSE /\ run' = Erred(after)
         /\ troubles' = troubles \cup {"ai"}
         /\ UNCHANGED question

(* Its answers are taken up, or the phase ends without any. *)
TakeAnswers(next, after) ==
    /\ question.pc = "answered"
    /\ question' = Quiet
    /\ IF question.answers = NoAnswers THEN run' = Erred(after) /\ said' = NoAnswers
       ELSE run' = [run EXCEPT !.pc = next] /\ said' = question.answers

Validate == is_available /\ task.key.id = NoId /\ TitlesDiffer

AskCandidate ==
    /\ call.status = "found" /\ Decision = "accepted"
    /\ Validate
    /\ call.pc = "done"
    /\ Ask({task.entry}, Verdicts)
    /\ task' = [task EXCEPT !.pc = "validate"]

SaidOfCandidate ==
    IF question.answers = NoAnswers THEN "nothing" ELSE question.answers[task.entry].says

(* The entry's turn is over. *)
Over(after) == IF todo \ {task.entry} = {} THEN after ELSE run
Done == todo' = todo \ {task.entry} /\ task' = NoTask /\ UNCHANGED said

-----------------------------------------------------------------------------
(* ExistingTitleAuditService.recheck_existing_titles, as to the candidates  *)
(* it looks up (_inspect_recheck_suggestion)                                *)

Corrections == {Saying("is", k) : k \in Readings}
              \cup {Saying("valid", NoLookup), Saying("wrong", NoLookup)}

ListTitles ==
    LET filed == {e \in Entries : log[e] = "resolved"} \ fresh IN
    /\ run.pc = "list"
    /\ todo' = filed
    /\ run' = IF filed = {} THEN AfterAudit(run) ELSE [run EXCEPT !.pc = "audit_batch"]
    /\ UNCHANGED <<resolver, ai, question, books, said, task, runs, judged, troubles>>

AuditBatch ==
    /\ run.pc = "audit_batch"
    /\ AskBatch(todo, Corrections, "audit_asked", AfterAudit(run))
    /\ UNCHANGED <<resolver, ai, books, work, task, runs, judged>>

AuditAnswers ==
    /\ run.pc = "audit_asked"
    /\ TakeAnswers("audit", AfterAudit(run))
    /\ UNCHANGED <<resolver, ai, books, todo, task, runs, judged, troubles>>

(* A cluster that is right, or wrong without a correction. *)
AuditUnchanged(e) ==
    /\ run.pc = "audit" /\ task.pc = "none" /\ e \in todo
    /\ said[e].says # "is"
    /\ todo' = todo \ {e}
    /\ run' = IF todo = {e} THEN AfterAudit(run) ELSE run
    /\ UNCHANGED <<resolver, ai, question, books, said, task, runs, judged, troubles>>

AuditLookup(e) ==
    LET key == said[e].key IN
    /\ run.pc = "audit" /\ task.pc = "none" /\ e \in todo
    /\ said[e].says = "is"
    /\ Start(e, key, IF key.type # "unknown" THEN key.type ELSE Parsed[e].type)
    /\ UNCHANGED <<ai, question, run, books, work, runs, judged>>

AuditAsks ==
    /\ run.pc = "audit" /\ task.pc = "lookup"
    /\ AskCandidate
    /\ UNCHANGED <<resolver, ai, run, books, work, runs, judged, troubles>>

(* With no one to ask, or nothing to ask, the candidate is proposed.  No    *)
(* one catches an unreadable cache here but the run itself.                 *)
AuditDecides ==
    /\ run.pc = "audit" /\ task.pc = "lookup"
    /\ TakeOutcome
    /\ CASE call.status = "found" ->
              /\ Decision = "accepted" => ~Validate
              /\ IF Decision = "accepted" THEN Judge ELSE judged' = judged
              /\ run' = Over(AfterAudit(run))
         [] call.status = "confirmed_not_found" ->
              judged' = judged /\ run' = Over(AfterAudit(run))
         [] call.status = "raised" -> judged' = judged /\ run' = Erred(Finalize(run))
         [] OTHER -> judged' = judged /\ run' = CountedFailure(Over(AfterAudit(run)))
    /\ Done
    /\ UNCHANGED <<now, stores, budget, failures, observed, ai, question, books, runs, troubles>>

(* Without an answer the candidate is not proposed. *)
AuditValidated ==
    /\ run.pc = "audit" /\ task.pc = "validate"
    /\ question.pc = "answered"
    /\ question' = Quiet
    /\ TakeOutcome
    /\ IF SaidOfCandidate = "match" THEN Judge ELSE judged' = judged
    /\ run' = IF SaidOfCandidate = "nothing" THEN Erred(Over(AfterAudit(run)))
              ELSE Over(AfterAudit(run))
    /\ Done
    /\ UNCHANGED <<now, stores, budget, failures, observed, ai, books, runs, troubles>>

-----------------------------------------------------------------------------
(* ReparseService.run *)

Extractions == {Saying("is", k) : k \in {r \in Readings : r.type # "unknown"}}

(* All entries fit one page and one batch.  Those with a mapping go first.  *)
ListRetryable ==
    LET retryable == {e \in Entries : log[e] = "retryable"} \ fresh IN
    /\ run.pc = "page"
    /\ todo' = retryable
    /\ run' = IF retryable = {} THEN AfterReparse(run) ELSE [run EXCEPT !.pc = "mapped"]
    /\ UNCHANGED <<resolver, ai, question, books, said, task, runs, judged, troubles>>

MappedLookup(e) ==
    /\ run.pc = "mapped" /\ task.pc = "none" /\ e \in todo \cap mapped
    /\ Start(e, KeyOf(e), Parsed[e].type)
    /\ UNCHANGED <<ai, question, run, books, work, runs, judged>>

ReparseBatch ==
    /\ run.pc = "mapped" /\ task.pc = "none" /\ todo \cap mapped = {}
    /\ AskBatch(todo, Extractions, "reparse_asked", AfterReparse(run))
    /\ UNCHANGED <<resolver, ai, books, work, task, runs, judged>>

ReparseAnswers ==
    /\ run.pc = "reparse_asked"
    /\ TakeAnswers("reparse", AfterReparse(run))
    /\ UNCHANGED <<resolver, ai, books, todo, task, runs, judged, troubles>>

(* The feed's type, when it has one, stands against the AI's. *)
ReparseLookup(e) ==
    LET type == IF Parsed[e].type # "unknown" THEN Parsed[e].type ELSE said[e].key.type IN
    /\ run.pc = "reparse" /\ task.pc = "none" /\ e \in todo
    /\ Start(e, [said[e].key EXCEPT !.type = type], type)
    /\ UNCHANGED <<ai, question, run, books, work, runs, judged>>

ReparseAsks ==
    /\ run.pc = "reparse" /\ task.pc = "lookup"
    /\ AskCandidate
    /\ UNCHANGED <<resolver, ai, run, books, work, runs, judged, troubles>>

Filed ==
    /\ Judge
    /\ Log(task.entry, "resolved")
    /\ mapped' = mapped \ {task.entry}

NotFiled(state) ==
    /\ Log(task.entry, state)
    /\ UNCHANGED <<judged, mapped>>

ReparseDecides ==
    /\ run.pc \in {"mapped", "reparse"} /\ task.pc = "lookup"
    /\ TakeOutcome
    /\ CASE call.status = "found" ->
              /\ Decision = "accepted" => ~Validate
              /\ IF Decision = "accepted" THEN Filed ELSE NotFiled("terminal")
              /\ run' = Over(AfterReparse(run))
         [] call.status = "confirmed_not_found" ->
              NotFiled(LogOfFailure) /\ run' = Over(AfterReparse(run))
         [] OTHER -> NotFiled(LogOfFailure) /\ run' = CountedFailure(Over(AfterReparse(run)))
    /\ Done
    /\ UNCHANGED <<now, stores, budget, failures, observed, ai, question, runs, troubles>>

(* _process_candidate: only a plain no keeps the candidate out. *)
ReparseValidated ==
    /\ run.pc = "reparse" /\ task.pc = "validate"
    /\ question.pc = "answered"
    /\ question' = Quiet
    /\ TakeOutcome
    /\ IF SaidOfCandidate = "other" THEN NotFiled("terminal") ELSE Filed
    /\ run' = Over(AfterReparse(run))
    /\ Done
    /\ UNCHANGED <<now, stores, budget, failures, observed, ai, runs, troubles>>

-----------------------------------------------------------------------------
Rss == ReadFeed \/ FeedFails \/ EntryTooOld \/ EntryLookup \/ EntryAccepted \/ EntryRejected
       \/ EntryNotResolved
Audit == ListTitles \/ AuditBatch \/ AuditAnswers \/ AuditAsks \/ AuditDecides \/ AuditValidated
         \/ \E e \in Entries : AuditUnchanged(e) \/ AuditLookup(e)
Reparse == ListRetryable \/ ReparseBatch \/ ReparseAnswers \/ ReparseAsks \/ ReparseDecides
           \/ ReparseValidated \/ \E e \in Entries : MappedLookup(e) \/ ReparseLookup(e)

Requests == Resolve /\ Noticed /\ UNCHANGED <<ai, question, run, books, work, task, runs, judged>>

(* Observed apart: a candidate of reparsing the AI had nothing to say of. *)
Questions ==
    /\ Answer
    /\ troubles' = IF question'.pc = "answered" /\ question'.answers = NoAnswers
                   THEN troubles \cup {IF run.pc = "reparse" THEN "candidate" ELSE "ai"}
                   ELSE troubles
    /\ UNCHANGED <<resolver, run, books, work, task, runs, judged>>

(* What the run itself does next. *)
Step == EndRun \/ Rss \/ Audit \/ Reparse \/ Requests \/ Questions

TimePasses == CooldownEnds /\ UNCHANGED <<resolver, run, books, work, task, runs, judged, troubles>>

Next ==
    \/ Step
    \/ TimePasses
    \/ Killed
    \/ \E mode \in Modes, gap \in Gaps : StartRun(mode, gap)

(* The process goes on as long as it lives. *)
Spec == Init /\ [][Next]_vars /\ WF_vars(Step)

-----------------------------------------------------------------------------
Answered == {"found", "confirmed_not_found"}
EntryStates == {"none", "retryable", "resolved", "terminal"}
EntriesOf(status) == IF status = "found" THEN Payloads ELSE {NoPayload}

(* Types, with what they leave out: what a finished lookup carries.         *)
TypeOK ==
    /\ now \in Nat /\ sent \in Nat /\ failures \in 0 .. MaxFailures
    /\ \A k \in Lookups : cache[k].until \in Nat /\ session[k].until \in Nat
    /\ budget \in [attempts : 0 .. RequestLimit, exhausted : BOOLEAN]
    /\ call.pc = "request" => call.key \in Lookups /\ call.form \in DOMAIN Forms(call.key)
    /\ call.pc = "done" => call.status \in Statuses /\ call.payload \in EntriesOf(call.status)
    /\ question.attempt \in 0 .. MaxRetries
    /\ question.answers # NoAnswers => DOMAIN question.answers = question.ids
    /\ log \in [Entries -> EntryStates]
    /\ mapped \subseteq Entries /\ fresh \subseteq Entries /\ todo \subseteq Entries
    /\ refused \in BOOLEAN /\ denied \in 0 .. 2
    /\ (task.pc = "none") = (call.pc = "none") /\ (question.pc # "none" => run.pc # "idle")

(* A run sends OMDb no more requests than its limit, whatever its phases    *)
(* and however many requests its lookups come to (RequestBudget: one budget *)
(* for the run, asked before each HTTP attempt).                            *)
RequestsWithinBudget == sent <= RequestLimit

(* Once OMDb has said that its limit is reached, the run sends it nothing   *)
(* more, in this phase or a later one, by title or by a mapping's id.       *)
QuietAfterQuota == [][refused => sent' <= sent]_vars

(* A title is remembered as not found only when every form of its lookup    *)
(* was answered so: a limit, a timeout or an error on the way to the last   *)
(* request leaves nothing in the cache.                                     *)
NotFoundIsWhole ==
    [][\A k \in Lookups :
          cache'[k] # cache[k] /\ cache'[k].status = "confirmed_not_found" => denied' = Len(Forms(k))]_vars

(* OMDb is not asked for what the stored cache could have answered: the     *)
(* session's copy, taken before, never hides what the run has stored since. *)
NoNeedlessRequests == call.pc = "request" => ~Usable(cache[call.key], call.key)

(* A movie or series filed or proposed by title fits what was expected as   *)
(* the compatibility matrix says, whichever phase accepted it, from the     *)
(* cache or from OMDb; and nothing else that is excluded is accepted.       *)
AcceptedAsDocumented ==
    judged # NoJudgement /\ judged.key.id = NoId =>
        /\ KnownType(judged.payload) =>
              DocumentedFit(judged.expected, judged.payload, judged.key.year)
        /\ NotExcluded(judged.payload)

(* The matrix's row "known | unknown": where a movie or a series is         *)
(* expected, nothing else OMDb may have is accepted as one.                 *)
UnknownTypeIsAmbiguous ==
    judged # NoJudgement /\ judged.key.id = NoId /\ judged.expected # "unknown" =>
        KnownType(judged.payload)

(* What is filed by a manual mapping is the title of its id and is not      *)
(* excluded, although a cache from before or OMDb may say otherwise.        *)
MappingsAreObeyed ==
    judged.key.id # NoId =>
        judged.payload.id = judged.key.id /\ NotExcluded(judged.payload)

(* A run in which a feed, a lookup or a question to the AI got no answer    *)
(* does not end as succeeded, save for the AI's failure to judge a          *)
(* candidate of reparsing, which the code passes over.                      *)
TroubleShows == run.status = "succeeded" => troubles \subseteq {"candidate"}

(* A run that is not killed ends, whatever OMDb and the AI answer: retries, *)
(* fallback requests and batches all come to an end.                        *)
RunsEnd == run.pc # "idle" ~> run.pc = "idle"

=============================================================================
