---------------------------- MODULE ScannerStore ----------------------------
(***************************************************************************)
(* What scanner runs share and what each keeps to itself.                  *)
(*                                                                         *)
(* A run stages logs, titles, occurrences and used manual mappings in its  *)
(* ScanWriteBuffer and flushes them document by document.  Every call to   *)
(* Firestore is a step of its own: it may raise before it has written      *)
(* ("refused") or after ("lost"), and the process may die between any two. *)
(* WriteBuffer, RssPhase, ReparsePhase and LatestSnapshot add the steps,   *)
(* Scanner composes them.                                                  *)
(***************************************************************************)
EXTENDS ParseLogs, Naturals, Sequences, FiniteSets

CONSTANTS
    Runs,        \* scanner runs
    Items,       \* feed entries: source item ids
    Feeds,       \* the configured feeds: a sequence of sequences of entries
    Kind,        \* [Titles -> "movie", "series" or "unknown"]: source type
    ModeOf,      \* [Runs -> "rss", "reparse-unfound" or "all"]
    BatchSize,   \* _MAX_BATCH_WRITES
    MaxFailures, \* bound on calls that raise
    MaxCrashes,  \* bound on runs that are killed
    MaxEdits,    \* bound on mappings the administrator saves
    Serialized,  \* TRUE: at most one run at a time (workflow concurrency)
    NoRun, NoItem

ASSUME StoreAssumption ==
    /\ Feeds \in Seq(Seq(Items))
    /\ Kind \in [Titles -> {"movie", "series", "unknown"}]
    /\ ModeOf \in [Runs -> {"rss", "reparse-unfound", "all"}]
    /\ BatchSize \in Nat \ {0}
    /\ MaxFailures \in Nat /\ MaxCrashes \in Nat /\ MaxEdits \in Nat
    /\ Serialized \in BOOLEAN
    /\ NoRun \notin Runs
    /\ NoItem \notin Items

(* An entry is in one place of one feed: its id is a digest of the feed's   *)
(* id and its own.                                                          *)
ASSUME DistinctEntriesAssumption ==
    \A f, g \in DOMAIN Feeds : \A d \in DOMAIN Feeds[f], e \in DOMAIN Feeds[g] :
        Feeds[f][d] = Feeds[g][e] => <<f, d>> = <<g, e>>

VARIABLES
    titles,    \* titles/{t}: the documents that exist
    occs,      \* titles/{t}/occurrences/{i}: the documents that exist
    logs,      \* parseLogs/{i}
    aged,      \* the logs whose processedAt is older than seven days
    mappings,  \* manualMappings/{i}: the title the administrator chose
    runDoc,    \* scanRuns/{r}: its status
    snaps,     \* rssSnapshots/{r} with its items
    pointer,   \* rssSnapshotState/current
    scan,      \* the memory of each run
    failures, crashes, edits, \* counters for the bounds
    accepted,  \* observed only: what each run's RSS phase accepted, in order
    troubled   \* observed only: the runs whose RSS phase met an error

catalog == <<titles, occs>>
diagnostics == <<logs, aged>>
latest == <<snaps, pointer>>
observed == <<accepted, troubled>>
vars == <<titles, occs, logs, aged, mappings, runDoc, snaps, pointer, scan,
          failures, crashes, edits, accepted, troubled>>

-----------------------------------------------------------------------------
(* Memory of a run *)

(* Where an accepted title was first seen: <<feed order, entry order>>. *)
Positions == Nat \X Nat
NoPosition == <<0, 0>>

Phases == {"idle", "open", "query", "prune", "fetch", "entry", "reload", "page",
           "reparse", "saveTitle", "saveOcc", "saveLog", "saveUsed",
           "saveRetry", "finish", "logs", "titles", "occs", "used", "stage",
           "items", "promote", "close", "done", "dead"}

RunMemory == [pc : Phases,
              feed : Nat, entry : Nat,             \* loop counters
              newLogs : Seq(Items \X Logs),        \* _pending_parse_logs
              newTitles : Seq(Titles),             \* _pending_titles
              newOccs : Seq(Titles \X Items),      \* _pending_occurrences
              used : Seq(Items \X Titles),         \* _pending_manual_mappings
              at : Nat,                            \* next document of a flush
              final : BOOLEAN,                     \* the flush of _finalize_run
              loaded : [Items -> Titles \cup {NoTitle}], \* mappings by id
              read : SUBSET Titles,                \* _session_titles
              cands : [Titles -> Positions],       \* snapshot candidates
              wrote : SUBSET Items,                \* written_parse_log_ids
              victims : SUBSET Items,              \* logs to prune
              page : SUBSET Items,                 \* retry page left to do
              item : Items \cup {NoItem},          \* entry being persisted
              title : Titles \cup {NoTitle},       \* and its title
              clean : BOOLEAN,                     \* no error in the RSS phase
              status : {"succeeded", "partial", "failed"}]

Blank(pc) ==
    [pc |-> pc, feed |-> 0, entry |-> 0, newLogs |-> <<>>, newTitles |-> <<>>,
     newOccs |-> <<>>, used |-> <<>>, at |-> 1, final |-> FALSE,
     loaded |-> [i \in Items |-> NoTitle], read |-> {},
     cands |-> [t \in Titles |-> NoPosition], wrote |-> {}, victims |-> {},
     page |-> {}, item |-> NoItem, title |-> NoTitle, clean |-> TRUE,
     status |-> "succeeded"]

Active(r) == scan[r].pc \notin {"idle", "done", "dead"}

HasRss(r) == ModeOf[r] \in {"rss", "all"}

(* run.error_count has become positive. *)
Erred(s) == [s EXCEPT !.status = IF @ = "failed" THEN @ ELSE "partial"]
RssErred(s) == [Erred(s) EXCEPT !.clean = FALSE]

(* find_manual_mapping: what is loaded and not already waiting to be        *)
(* consumed.                                                                *)
Usable(s, i) ==
    IF \E n \in DOMAIN s.used : s.used[n][1] = i THEN NoTitle ELSE s.loaded[i]

-----------------------------------------------------------------------------
(* A call to Firestore *)

Answers == {"ok"} \cup (IF failures < MaxFailures THEN {"refused", "lost"} ELSE {})
LogAnswers(i) == IF Readable(logs[i]) THEN Answers ELSE {"unreadable"}
Landed(answer) == answer \in {"ok", "lost"}
Raised(answer) == answer # "ok"

(* The run goes on as ok or, when the call raises, as failed. *)
Continue(r, answer, ok, failed) ==
    /\ scan' = [scan EXCEPT ![r] = IF Raised(answer) THEN failed ELSE ok]
    /\ failures' = failures + (IF answer \in {"refused", "lost"} THEN 1 ELSE 0)

(* FirestoreParseLogRepository.add *)
AddLog(answer, i, log) ==
    IF Landed(answer)
    THEN /\ logs' = [logs EXCEPT ![i] = Merged(@, log)]
         /\ aged' = aged \ {i}
    ELSE UNCHANGED diagnostics

(* FirestoreTitleRepository.upsert and FirestoreOccurrenceRepository.upsert *)
UpsertTitle(answer, t) ==
    titles' = IF Landed(answer) THEN titles \cup {t} ELSE titles
UpsertOccurrence(answer, t, i) ==
    occs' = IF Landed(answer) THEN occs \cup {<<t, i>>} ELSE occs

(* FirestoreManualMappingRepository.delete, by id alone. *)
DeleteMapping(answer, i) ==
    mappings' = IF Landed(answer) THEN [mappings EXCEPT ![i] = NoTitle] ELSE mappings

(* consume_manual_mapping forgets the loaded mapping it was given. *)
Forget(s, i, t) ==
    [s EXCEPT !.loaded[i] = IF @ = t THEN NoTitle ELSE @]

=============================================================================
