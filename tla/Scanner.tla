------------------------------ MODULE Scanner -------------------------------
(***************************************************************************)
(* ScannerService.run: load the manual mappings, open the run document,    *)
(* prune old logs, go through the phases the mode selects, flush what is   *)
(* left, publish the page "latest" and close the run document.             *)
(* Modes: "rss", "reparse-unfound", and "all" without its audit phase,     *)
(* which writes proposals and validation stamps that this model has not.   *)
(***************************************************************************)
EXTENDS RssPhase, ReparsePhase, LatestSnapshot

Closed == {"succeeded", "partial", "failed"}

Init ==
    /\ titles = {} /\ occs = {}
    /\ logs = [i \in Items |-> NoLog] /\ aged = {}
    /\ mappings = [i \in Items |-> NoTitle]
    /\ runDoc = [r \in Runs |-> "absent"]
    /\ snaps = [r \in Runs |-> NoSnapshot] /\ pointer = NoRun
    /\ scan = [r \in Runs |-> Blank("idle")]
    /\ failures = 0 /\ crashes = 0 /\ edits = 0
    /\ accepted = [r \in Runs |-> <<>>] /\ troubled = {}

-----------------------------------------------------------------------------
(* Before the phases: an exception here ends the process. *)

LoadMappings(r) ==
    /\ scan[r].pc = "idle"
    /\ Serialized => \A q \in Runs : ~Active(q)
    /\ \E answer \in Answers \ {"lost"} :
          Continue(r, answer, [Blank("open") EXCEPT !.loaded = mappings], Blank("dead"))
    /\ UNCHANGED <<catalog, diagnostics, mappings, runDoc, latest, crashes, edits, observed>>

OpenRun(r) ==
    /\ scan[r].pc = "open"
    /\ \E answer \in Answers :
          /\ runDoc' = IF Landed(answer) THEN [runDoc EXCEPT ![r] = "running"] ELSE runDoc
          /\ Continue(r, answer, [scan[r] EXCEPT !.pc = "query"], Blank("dead"))
    /\ UNCHANGED <<catalog, diagnostics, mappings, latest, crashes, edits, observed>>

FirstPhase(r, s) ==
    IF HasRss(r) THEN NextFeed(r, s) ELSE [s EXCEPT !.pc = "reload"]

AgedUnreadable == {i \in aged : ~Readable(logs[i])}

(* Mutant: old logs are pruned whatever their state. *)
VictimsAnyState == {i \in aged : Readable(logs[i])}

(* The old logs that are not to be retried, as the query returned them. *)
Victims == {i \in aged : Readable(logs[i]) /\ logs[i].state # "retryable"}

QueryOldLogs(r) ==
    LET s == [scan[r] EXCEPT !.victims = Victims] IN
    /\ s.pc = "query"
    /\ \E answer \in Answers \ {"lost"} :
          Continue(r, answer,
                   IF Victims = {} /\ AgedUnreadable = {} THEN FirstPhase(r, s)
                   ELSE [s EXCEPT !.pc = "prune"],
                   Blank("dead"))
    /\ UNCHANGED <<catalog, diagnostics, mappings, runDoc, latest, crashes, edits, observed>>

(* Mutant: a pruned log still counts as stored. *)
PruneLogStillAged(r) ==
    /\ scan[r].pc = "prune"
    /\ \E i \in scan[r].victims, answer \in Answers :
          LET s == [scan[r] EXCEPT !.victims = @ \ {i}] IN
          /\ logs' = IF Landed(answer) THEN [logs EXCEPT ![i] = NoLog] ELSE logs
          /\ UNCHANGED aged
          /\ Continue(r, answer,
                      IF s.victims = {} /\ AgedUnreadable = {} THEN FirstPhase(r, s) ELSE s,
                      Blank("dead"))
    /\ UNCHANGED <<catalog, mappings, runDoc, latest, crashes, edits, observed>>

PruneLog(r) ==
    /\ scan[r].pc = "prune"
    /\ \E i \in scan[r].victims, answer \in Answers :
          LET s == [scan[r] EXCEPT !.victims = @ \ {i}] IN
          /\ IF Landed(answer)
             THEN logs' = [logs EXCEPT ![i] = NoLog] /\ aged' = aged \ {i}
             ELSE UNCHANGED diagnostics
          /\ Continue(r, answer,
                      IF s.victims = {} /\ AgedUnreadable = {} THEN FirstPhase(r, s) ELSE s,
                      Blank("dead"))
    /\ UNCHANGED <<catalog, mappings, runDoc, latest, crashes, edits, observed>>

(* Somewhere in the query's results is a log that cannot be read back. *)
PruneRaises(r) ==
    /\ scan[r].pc = "prune"
    /\ AgedUnreadable # {}
    /\ scan' = [scan EXCEPT ![r] = Blank("dead")]
    /\ UNCHANGED <<catalog, diagnostics, mappings, runDoc, latest, failures, crashes,
                   edits, observed>>

-----------------------------------------------------------------------------
(* After the phases: _finalize_run *)

FinalFlush(r) ==
    /\ scan[r].pc = "finish"
    /\ scan' = [scan EXCEPT ![r] = ToLogs(r, [@ EXCEPT !.final = TRUE])]
    /\ UNCHANGED <<catalog, diagnostics, mappings, runDoc, latest, failures, crashes,
                   edits, observed>>

CloseRun(r) ==
    /\ scan[r].pc = "close"
    /\ \E answer \in Answers :
          /\ runDoc' = IF Landed(answer) THEN [runDoc EXCEPT ![r] = scan[r].status]
                       ELSE runDoc
          /\ Continue(r, answer, Blank("done"), Blank("dead"))
    /\ UNCHANGED <<catalog, diagnostics, mappings, latest, crashes, edits, observed>>

-----------------------------------------------------------------------------
(* Around the runs *)

(* The job's time limit, a cancelled workflow, a lost machine. *)
Crash(r) ==
    /\ Active(r)
    /\ crashes < MaxCrashes
    /\ crashes' = crashes + 1
    /\ scan' = [scan EXCEPT ![r] = Blank("dead")]
    /\ UNCHANGED <<catalog, diagnostics, mappings, runDoc, latest, failures, edits, observed>>

(* Runs last minutes: a week passes between them. *)
AWeekPasses ==
    LET stored == {i \in Items : logs[i] # NoLog} IN
    /\ \A r \in Runs : ~Active(r)
    /\ aged # stored
    /\ aged' = stored
    /\ UNCHANGED <<catalog, logs, mappings, runDoc, latest, scan, failures, crashes,
                   edits, observed>>

(* The administrator saves a mapping for an entry that is shown, as a log   *)
(* or as an occurrence, or saves it again.                                  *)
SaveManualMapping(i, t) ==
    /\ edits < MaxEdits
    /\ logs[i] # NoLog \/ \E u \in Titles : <<u, i>> \in occs
    /\ mappings[i] # t
    /\ mappings' = [mappings EXCEPT ![i] = t]
    /\ edits' = edits + 1
    /\ UNCHANGED <<catalog, diagnostics, runDoc, latest, scan, failures, crashes, observed>>

-----------------------------------------------------------------------------
Flushing(r) == FlushLog(r) \/ FlushTitle(r) \/ FlushOccurrence(r) \/ FlushMapping(r)

RssStep(r) ==
    \/ FetchFeed(r)
    \/ EntryTooOld(r)
    \/ \E state \in {"retryable", "terminal"}, erred \in BOOLEAN : EntryLogged(r, state, erred)
    \/ EntryOverQuota(r)
    \/ \E t \in Titles : EntryAccepted(r, t)
    \/ \E t \in Titles, readTitle \in BOOLEAN : EntryUnread(r, t, readTitle)

ReparseStep(r) ==
    \/ ReloadMappings(r) \/ ReadPage(r)
    \/ \E erred \in BOOLEAN : RecordOutcome(r, RetryLog, erred)
    \/ RecordOutcome(r, TerminalLog, FALSE)
    \/ AcceptCandidate(r)
    \/ SaveTitle(r) \/ SaveOccurrence(r) \/ SaveLog(r) \/ SaveMapping(r) \/ SaveRetry(r)

PublishStep(r) == StageSnapshot(r) \/ StageItems(r) \/ Promote(r)

(* What a started run does next. *)
RunStep(r) ==
    \/ OpenRun(r) \/ QueryOldLogs(r) \/ PruneLog(r) \/ PruneRaises(r)
    \/ RssStep(r) \/ ReparseStep(r) \/ Flushing(r)
    \/ FinalFlush(r) \/ PublishStep(r) \/ CloseRun(r)

Next ==
    \/ \E r \in Runs : LoadMappings(r) \/ RunStep(r) \/ Crash(r)
    \/ AWeekPasses
    \/ \E i \in Items, t \in Titles : SaveManualMapping(i, t)

Spec == Init /\ [][Next]_vars

(* The process of a run is one thread that nothing blocks. *)
FairSpec == Spec /\ \A r \in Runs : WF_vars(RunStep(r))

-----------------------------------------------------------------------------
TypeOK ==
    /\ titles \subseteq Titles
    /\ occs \subseteq Titles \X Items
    /\ logs \in [Items -> Logs]
    /\ aged \subseteq {i \in Items : logs[i] # NoLog}
    /\ mappings \in [Items -> Titles \cup {NoTitle}]
    /\ runDoc \in [Runs -> {"absent", "running"} \cup Closed]
    /\ snaps \in [Runs -> Snapshots]
    /\ pointer \in Runs \cup {NoRun}
    /\ scan \in [Runs -> RunMemory]
    /\ failures \in 0 .. MaxFailures
    /\ crashes \in 0 .. MaxCrashes
    /\ edits \in 0 .. MaxEdits
    /\ accepted \in [Runs -> Seq(Titles \X Items)]
    /\ troubled \subseteq Runs

InCatalog(t, i) == t \in titles /\ <<t, i>> \in occs

(* No occurrence is ever stored under a title that is not, at any point of  *)
(* any flush or reparse, whatever call raises and whenever a run dies: the  *)
(* order of the two loops of flush_pending_db_upserts and of the two        *)
(* upserts of ReparsePersistence.persist, kept across retried flushes.      *)
FiledUnderStoredTitles == \A occ \in occs : occ[1] \in titles

(* A run document that says the run is over, well or not, means that all    *)
(* its RSS phase accepted is in the catalogue: what a failed flush left     *)
(* behind was written by a later one, or the run never closed.              *)
ClosedRunsAreDurable ==
    \A r \in Runs : runDoc[r] \in Closed =>
        \A n \in DOMAIN accepted[r] : InCatalog(accepted[r][n][1], accepted[r][n][2])

(* A log whose resolution names a title is about an entry that is filed     *)
(* under that title: persist writes the log after title and occurrence, and *)
(* merging keeps a resolution through later observations and retries.       *)
ResolutionsAreDurable ==
    \A i \in Items : logs[i].outcome = "matched" => InCatalog(logs[i].title, i)

(* A manual mapping goes away only when some run has filed the entry under  *)
(* the title that run loaded for it (DATA_CONTRACTS: consumed only after    *)
(* durable writes), on both paths that consume mappings.                    *)
MappingsAppliedBeforeConsumed ==
    [][\A i \in Items : mappings[i] # NoTitle /\ mappings'[i] = NoTitle =>
         \E r \in Runs, t \in Titles :
            /\ \/ scan[r].pc = "used" /\ Head(scan[r].used) = <<i, t>>
               \/ scan[r].pc = "saveUsed" /\ <<scan[r].item, scan[r].title>> = <<i, t>>
            /\ InCatalog(t, i)
            /\ logs[i] # NoLog]_vars

(* Retention never deletes work that is to be retried, however old. *)
RetryableWorkKept ==
    [][\A i \in Items : logs[i].state = "retryable" => logs'[i] # NoLog]_vars

(* What "latest" points at is ready and whole: as many items as announced,  *)
(* in dense positions, all of them titles of the catalogue, from a run      *)
(* whose RSS phase met no error in any feed.                                *)
LatestIsWhole ==
    pointer # NoRun =>
        LET snap == snaps[pointer] IN
        /\ snap.status = "ready"
        /\ snap.count = Cardinality(snap.items)
        /\ {item[2] : item \in snap.items} = 1 .. snap.count
        /\ \A item \in snap.items : item[1] \in titles
        /\ pointer \notin troubled

(* "Latest" lists every accepted movie and series exactly once, movies      *)
(* first, in the order the run came upon them over all feeds.               *)
LatestFollowsFeeds ==
    pointer # NoRun =>
        LET seen(t) == {n \in DOMAIN accepted[pointer] : accepted[pointer][n][1] = t}
            first(t) == CHOOSE n \in seen(t) : \A m \in seen(t) : n <= m
            place(t) == CHOOSE p \in 1 .. snaps[pointer].count : <<t, p>> \in snaps[pointer].items
            shown == {t \in Titles : seen(t) # {} /\ Kind[t] # "unknown"}
        IN
        /\ {item[1] : item \in snaps[pointer].items} = shown
        /\ \A t, u \in shown :
              place(t) < place(u) <=>
                 \/ Kind[t] = "movie" /\ Kind[u] = "series"
                 \/ Kind[t] = Kind[u] /\ first(t) < first(u)

(* Every run that has started comes to an end, over any number of feeds,    *)
(* failing flushes and logs that fail to be reparsed: while one goes on,    *)
(* none going on is still to come.                                          *)
RunsEnd == (\E r \in Runs : Active(r)) ~> (\A r \in Runs : ~Active(r))

-----------------------------------------------------------------------------
(* What the documents say and the code does not do *)

(* DATA_CONTRACTS: resolution is never present on retryable records. *)
RetryableHasNoResolution ==
    \A i \in Items : logs[i].state = "retryable" => logs[i].outcome = "none"

=============================================================================
