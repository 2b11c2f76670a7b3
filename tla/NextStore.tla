----------------------------- MODULE NextStore -----------------------------
(***************************************************************************)
(* What the processes of the next worker share in PostgreSQL, and what     *)
(* each keeps to itself.                                                   *)
(*                                                                         *)
(* A process is one thread with one DbContext for everything it does.  A   *)
(* row that it adds or changes is tracked until a SaveChanges that has it  *)
(* succeeds: after one that raised, the next SaveChanges, of whatever      *)
(* part of the process, writes the row again.  Every call is a step.  It   *)
(* may raise before it has written ("refused") or after ("lost"), and once *)
(* the process is told to stop, calls that take its token raise.           *)
(* NextLookup, NextIngestion and OscarEnrichment add the steps, NextWorker *)
(* composes them.                                                          *)
(***************************************************************************)
EXTENDS Naturals, Sequences, FiniteSets, FiniteSetsExt

CONSTANTS
    Workers,      \* processes of MediaDock.Worker
    Entries,      \* feed entries
    Sources,      \* sources, enabled, in the order of their keys:
    FeedOf,       \*   a sequence of sources, and [Sources -> Seq(Entries)]
    Keys,         \* metadata lookups: title, year and type
    Dated,        \* those with a year that a fallback may drop
    KeyOf,        \* [Entries \cup Films -> Keys]
    Films,        \* Oscar films
    FilmOrder,    \* newest first
    MaxFilms,     \* OscarEnrichmentMaxFilmsPerRun
    DailyLimit,   \* OmdbDailyRequestLimit
    OscarLimit,   \* OscarEnrichmentMaxRequestsPerDay
    LogCap,       \* MaximumParseLogsPerRun
    MaxFailures,  \* bound on calls that raise
    MaxStops,     \* bound on processes told to stop
    MaxKills,     \* bound on processes killed
    MaxDrops,     \* bound on connections lost
    MaxTroubles,  \* bound on all of these together
    MaxManual,    \* bound on runs started by hand
    Scheduled,    \* the process of the systemd unit
    NoWorker, NoKey, NoFilm

Items == Entries \cup Sources      \* what a parse log is about

ASSUME NextAssumption ==
    /\ IsFiniteSet(Workers)
    /\ FeedOf \in Seq(Sources \X Seq(Entries))
    /\ FilmOrder \in Seq(Films)
    /\ \A m, n \in DOMAIN FilmOrder : FilmOrder[m] = FilmOrder[n] => m = n
    /\ Dated \subseteq Keys
    /\ KeyOf \in [Entries \cup Films -> Keys]
    /\ {MaxFilms, OscarLimit, LogCap} \subseteq Nat /\ DailyLimit \in Nat \ {0}
    /\ {MaxFailures, MaxStops, MaxKills, MaxDrops, MaxTroubles, MaxManual} \subseteq Nat
    /\ Scheduled \in Workers /\ NoWorker \notin Workers /\ NoKey \notin Keys

VARIABLES
    lock,       \* who holds the advisory lock
    catalog,    \* entries stored with their title
    cache,      \* metadata_cache: [Keys -> answer]
    usage,      \* omdb_daily_usage: the row of today
    parseLogs,  \* parse_logs: rows per worker, of its last run, and item
    scanRun,    \* scan_runs: status of each worker's last run
    oscarRun,   \* oscar_enrichment_runs: likewise, with processed_films
    film,       \* oscar_films
    proc,       \* the memory of each process
    hour,       \* UTC
    failures, stops, kills, drops, manual, \* counters for the bounds
    sent,       \* observed only: the HTTP requests of today
    told,       \* observed only: the provider reported its quota today
    muted,      \* observed only: a process that heard so could not record it
    ahead,      \* observed only: who had reserved a request when it was recorded
    accepted,   \* observed only: what each run's policy accepted
    saved       \* observed only: the outcomes each Oscar run has stored

rows == <<catalog, cache, parseLogs, film, saved>>
runRows == <<scanRun, oscarRun>>
others == <<stops, kills, drops, manual>>
bounds == <<failures, others>>
requests == <<sent, told, muted, ahead>>
observed == <<requests, accepted>>
vars == <<lock, catalog, cache, usage, parseLogs, scanRun, oscarRun, film, proc,
          hour, failures, stops, kills, drops, manual, sent, told, muted, ahead,
          accepted, saved>>

-----------------------------------------------------------------------------
(* Records *)

Answers == {"found", "not_found"}
CacheState == Answers \cup {"none", "stale"}

FilmDoc == [status : {"pending", "enriched", "not_found", "temporary_error"},
            attempts : 0..6,   \* capped: the delay grows no more
            wait : 0..24]      \* hours until the next attempt is due

ASSUME NoFilmAssumption == NoFilm \notin FilmDoc

(* The rows the context tracks: added entries with their titles, added      *)
(* logs, added, changed and removed cache entries, changed films.           *)
Unit == [entries : SUBSET Entries, logs : [Items -> Nat],
         added : SUBSET Keys, gone : SUBSET Keys,
         answer : [Keys -> Answers \cup {"none"}],
         films : [Films -> FilmDoc \cup {NoFilm}]]
Clean == [entries |-> {}, logs |-> [i \in Items |-> 0], added |-> {}, gone |-> {},
          answer |-> [k \in Keys |-> "none"], films |-> [f \in Films |-> NoFilm]]

Lookup == {"cache", "reserve", "send", "mark", "store", "answered"}
RssOnly == {"startRun", "sources", "fetch", "entry", "upsert", "flush", "final",
            "complete", "cancelFlush", "cancelComplete"}
OscarOnly == {"oscarStart", "candidates", "eligible", "nextFilm", "saveFilm",
              "progress", "finish"}
Results == Answers \cup {"none", "budget", "quota", "failure"}
ScanStatus == {"none", "running", "succeeded", "partial", "failed"}
OscarStatus == {"none", "running", "succeeded", "partial", "quota_stopped",
                "failed", "cancelled"}

Memory == [pc : Lookup \cup RssOnly \cup OscarOnly
                \cup {"idle", "acquire", "settings", "exit"},
           task : {"rss", "oscar"},
           stopping : BOOLEAN,               \* ApplicationStopping
           unit : Unit,
           source : Nat, entry : Nat,        \* loop counters of the ingestion
           pending : SUBSET Items,           \* pendingLogs
           written : Nat,                    \* ParseLogsWritten
           erred : BOOLEAN,                  \* ErrorCount > 0
           fed : BOOLEAN,                    \* FeedsProcessed > 0
           exhausted : BOOLEAN,              \* OmdbBudgetExhausted
           key : Keys \cup {NoKey},          \* the lookup under way
           dated : BOOLEAN,                  \* it still asks with its year
           begun : BOOLEAN,                  \* its attempt is dated today,
           today : BOOLEAN,                  \* and its last request
           result : Results,
           films : Seq([film : Films, attempts : 0..6]), \* candidates left
           processed : Nat,                  \* AttemptedFilms
           soft : BOOLEAN,                   \* TemporaryErrors > 0
           verdict : ScanStatus \cup OscarStatus]

Fresh == [pc |-> "idle", task |-> "rss", stopping |-> FALSE, unit |-> Clean,
          source |-> 0, entry |-> 0, pending |-> {}, written |-> 0,
          erred |-> FALSE, fed |-> FALSE, exhausted |-> FALSE, key |-> NoKey,
          dated |-> FALSE, begun |-> TRUE, today |-> TRUE, result |-> "none",
          films |-> <<>>, processed |-> 0, soft |-> FALSE, verdict |-> "none"]

NoOscarRun == [status |-> "none", processed |-> 0]
NoLogs == [i \in Items |-> 0]
NothingSaved == [f \in Films |-> "none"]

At(w, pc) == proc[w].pc = pc
Active(w) == proc[w].pc # "idle"
InRss(w, pc) == At(w, pc) /\ proc[w].task = "rss"
InOscar(w, pc) == At(w, pc) /\ proc[w].task = "oscar"

(* No lookup under way. *)
Unasked(p) == [p EXCEPT !.key = NoKey, !.dated = FALSE, !.begun = TRUE,
                        !.today = TRUE, !.result = "none"]

(* AddLog: nothing is kept beyond the cap. *)
Logged(p, item) ==
    IF p.written + Cardinality(p.pending) >= LogCap THEN p
    ELSE [p EXCEPT !.pending = @ \cup {item}]

-----------------------------------------------------------------------------
(* A call and its exceptions *)

(* Within the bounds. *)
MayHappen(count, max) ==
    count < max /\ failures + stops + kills + drops < MaxTroubles

(* Calls made with CancellationToken.None. *)
Unstoppable == {"cancelFlush", "cancelComplete", "finish"}

Cancelled(w) == proc[w].stopping /\ proc[w].pc \notin Unstoppable

Replies(w) ==
    IF Cancelled(w) THEN {"cancelled"}
    ELSE {"ok"} \cup (IF MayHappen(failures, MaxFailures) THEN {"refused", "lost"} ELSE {})

Landed(reply) == reply \in {"ok", "lost"}
Counted(reply) == failures' = failures + (IF reply \in {"refused", "lost"} THEN 1 ELSE 0)

(* The catch clause around the feed loop and what follows it: the verdict   *)
(* is fixed before the last flush.                                          *)
Judged(p) ==
    [p EXCEPT !.pc = "final",
              !.verdict = IF ~p.erred THEN "succeeded"
                          ELSE IF p.fed THEN "partial" ELSE "failed"]

(* Where an exception lands.  In a feed's try it costs the rest of that     *)
(* feed and leaves a log about the source; a stop leaves for the clean-up;  *)
(* outside every try it ends the process.                                   *)
ThrownInRss(p, reply) ==
    CASE p.pc \in {"startRun", "final", "complete", "cancelFlush", "cancelComplete"}
           -> [p EXCEPT !.pc = "exit"]
      [] p.pc \notin {"startRun", "final", "complete", "cancelFlush", "cancelComplete"}
         /\ reply = "cancelled"
           -> [p EXCEPT !.pc = "cancelFlush", !.erred = TRUE]
      [] p.pc \in {"sources", "flush"} /\ reply # "cancelled"
           -> Judged([p EXCEPT !.erred = TRUE])
      [] OTHER
           -> Logged([p EXCEPT !.pc = "flush", !.erred = TRUE], FeedOf[p.source][1])

ThrownInOscar(p, reply) ==
    IF p.pc \in {"oscarStart", "finish"} THEN [p EXCEPT !.pc = "exit"]
    ELSE [p EXCEPT !.pc = "finish",
                   !.verdict = IF reply = "cancelled" THEN "cancelled" ELSE "failed"]

Thrown(p, reply) ==
    LET q == IF p.pc \in {"acquire", "settings"} THEN [p EXCEPT !.pc = "exit"]
             ELSE IF p.task = "rss" THEN ThrownInRss(p, reply) ELSE ThrownInOscar(p, reply)
    IN  Unasked(q)

(* The process goes on as ok or, when the call raises, where p's exception  *)
(* lands.                                                                   *)
Continue(w, reply, ok, p) ==
    /\ proc' = [proc EXCEPT ![w] = IF reply = "ok" THEN ok ELSE Thrown(p, reply)]
    /\ Counted(reply)

-----------------------------------------------------------------------------
(* SaveChanges *)

(* An entry or cache row to be added that is there, or a cache row to be    *)
(* removed or changed that is gone: the whole unit is refused.  It happens  *)
(* when the unit landed before and its answer was lost, or when runs        *)
(* overlap.                                                                 *)
Clashes(u) ==
    \/ u.entries \cap catalog # {}
    \/ \E k \in u.gone : cache[k] # "stale"
    \/ \E k \in u.added : cache[k] # "none"
    \/ \E k \in Keys \ u.added : u.answer[k] # "none" /\ cache[k] = "none"

RepliesUnless(clash, w) ==
    IF clash /\ ~Cancelled(w) THEN {"conflict"} ELSE Replies(w)

SaveReplies(w, u) == RepliesUnless(Clashes(u), w)

(* One transaction for every tracked row. *)
StoreUnit(w, u, reply) ==
    IF Landed(reply)
    THEN /\ catalog' = catalog \cup u.entries
         /\ parseLogs' = [parseLogs EXCEPT ![w] =
                             [i \in Items |-> @[i] + u.logs[i]]]
         /\ cache' = [k \in Keys |-> IF u.answer[k] # "none" THEN u.answer[k]
                                     ELSE IF k \in u.gone THEN "none" ELSE cache[k]]
         /\ film' = [f \in Films |-> IF u.films[f] # NoFilm THEN u.films[f]
                                     ELSE film[f]]
         /\ saved' = [saved EXCEPT ![w] = [f \in Films |->
                        IF u.films[f] # NoFilm THEN u.films[f].status ELSE @[f]]]
    ELSE UNCHANGED rows

(* SaveChanges of unit u: the rows stay tracked unless it returns. *)
SaveChanges(w, u, reply, ok) ==
    /\ StoreUnit(w, u, reply)
    /\ Continue(w, reply, [ok EXCEPT !.unit = Clean], [proc[w] EXCEPT !.unit = u])

=============================================================================
