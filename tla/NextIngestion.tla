--------------------------- MODULE NextIngestion ---------------------------
(***************************************************************************)
(* RssIngestionService: one run over the enabled sources.  Entries are     *)
(* stored one transaction each, their logs once per feed, the run's status *)
(* at its end.                                                             *)
(***************************************************************************)
EXTENDS NextLookup

Feed(p) == FeedOf[p.source][2]
Entry(p) == Feed(p)[p.entry]
NextEntry(p) == [Unasked(p) EXCEPT !.pc = "entry", !.entry = @ + 1]

(* RecordEntryFailure *)
EntryFailed(p) == Logged([p EXCEPT !.erred = TRUE], Entry(p))

(* StartRunAsync: nothing is tracked yet.  The rows and observations of     *)
(* the process's run before this one are forgotten.                         *)
StartRun(w) ==
    /\ At(w, "startRun")
    /\ \E reply \in Replies(w) :
          /\ Continue(w, reply, [proc[w] EXCEPT !.pc = "sources"], proc[w])
          /\ IF Landed(reply)
             THEN /\ scanRun' = [scanRun EXCEPT ![w] = "running"]
                  /\ oscarRun' = [oscarRun EXCEPT ![w] = NoOscarRun]
                  /\ parseLogs' = [parseLogs EXCEPT ![w] = NoLogs]
                  /\ accepted' = [accepted EXCEPT ![w] = {}]
                  /\ saved' = [saved EXCEPT ![w] = NothingSaved]
             ELSE UNCHANGED <<runRows, parseLogs, accepted, saved>>
    /\ UNCHANGED <<lock, catalog, cache, film, usage, hour, others, requests>>

(* GetEnabledSourcesAsync and GetMatchSettingsAsync *)
ReadSources(w) ==
    LET p == proc[w] IN
    /\ At(w, "sources")
    /\ \E reply \in Replies(w) :
          Continue(w, reply, IF FeedOf = <<>> THEN Judged(p)
                             ELSE [p EXCEPT !.pc = "fetch", !.source = 1], p)
    /\ UNCHANGED <<lock, rows, runRows, usage, hour, others, observed>>

(* FetchAsync and ParseFeed: a feed that cannot be read is an exception     *)
(* like any other.                                                          *)
FetchFeed(w) ==
    LET p == proc[w] IN
    /\ At(w, "fetch")
    /\ \E reply \in Replies(w) :
          Continue(w, reply, [p EXCEPT !.pc = "entry", !.entry = 1, !.fed = TRUE], p)
    /\ UNCHANGED <<lock, rows, runRows, usage, hour, others, observed>>

(* An entry that cannot be used is logged and passed over; any other is     *)
(* looked up; after the last the feed's logs are flushed.                   *)
TakeEntry(w) ==
    LET p == proc[w] IN
    /\ At(w, "entry")
    /\ \E q \in (IF p.entry > Len(Feed(p)) THEN {[p EXCEPT !.pc = "flush"]}
                 ELSE {NextEntry(EntryFailed(p)), Asking(p, KeyOf[Entry(p)])}) :
          proc' = [proc EXCEPT ![w] = q]
    /\ UNCHANGED <<lock, rows, runRows, usage, hour, bounds, observed>>

(* Mutant: the entry that met the limit is dropped without an error. *)
ExhaustedQuietly(p) == [Unasked(p) EXCEPT !.pc = "flush", !.exhausted = TRUE]

(* No budget left, here or at the provider: this entry fails and the run    *)
(* ends with it.                                                            *)
Exhausted(p) == [Unasked(EntryFailed(p)) EXCEPT !.pc = "flush", !.exhausted = TRUE]

(* What the lookup says of the entry: a failure to be tried again, nothing  *)
(* to store, or an answer for the match policy, which may go either way.    *)
EntryAnswered(w) ==
    LET p == proc[w]
        logged == NextEntry(Logged(p, Entry(p)))
    IN
    /\ InRss(w, "answered")
    /\ \/ /\ p.result \in {"budget", "quota"}
          /\ proc' = [proc EXCEPT ![w] = Exhausted(p)]
          /\ UNCHANGED accepted
       \/ /\ p.result = "failure"
          /\ proc' = [proc EXCEPT ![w] = NextEntry(EntryFailed(p))]
          /\ UNCHANGED accepted
       \/ /\ p.result \in Answers
          /\ proc' = [proc EXCEPT ![w] = logged]
          /\ UNCHANGED accepted
       \/ /\ p.result = "found"
          /\ proc' = [proc EXCEPT ![w].pc = "upsert"]
          /\ accepted' = [accepted EXCEPT ![w] = @ \cup {Entry(p)}]
    /\ UNCHANGED <<lock, rows, runRows, usage, hour, bounds, requests>>

(* UpsertCatalogItemAsync: title and occurrence in one transaction, with    *)
(* whatever else is tracked.  When the IMDb id turns out to be taken, it    *)
(* starts over with a clear tracker; when the entry itself is tracked from  *)
(* a unit that failed, it cannot be added again.  The catch clause rolls    *)
(* back and clears the tracker, unless it is the transaction that cannot    *)
(* begin, or the rollback raises too: then what is tracked stays tracked,   *)
(* this entry with it if it got so far.                                     *)
UpsertCatalogItem(w) ==
    LET p == proc[w]
        x == Entry(p)
        twice == x \in p.unit.entries
    IN
    /\ At(w, "upsert")
    /\ \E base \in IF twice THEN {p.unit} ELSE {p.unit, Clean} :
       LET u == [base EXCEPT !.entries = @ \cup ({x} \ catalog)] IN
       \E reply \in RepliesUnless(twice \/ Clashes(u), w), left \in {Clean, base, u} :
          /\ Landed(reply) => left = Clean
          /\ reply = "conflict" => left \in {Clean, u}
          /\ StoreUnit(w, u, reply)
          /\ LET after == [p EXCEPT !.unit = left]
             IN  Continue(w, reply, NextEntry(Logged(after, x)), after)
    /\ UNCHANGED <<lock, runRows, usage, hour, others, observed>>

-----------------------------------------------------------------------------
(* The logs *)

(* AddParseLogsAsync tracks a new row for each log it is given.             *)
Tracked(p) ==
    [p.unit EXCEPT !.logs = [i \in Items |-> @[i] + (IF i \in p.pending THEN 1 ELSE 0)]]

Written(p) == [p EXCEPT !.written = @ + Cardinality(p.pending), !.pending = {}]

(* The next feed, or the verdict.                                           *)
AfterFeed(p) ==
    IF p.exhausted \/ p.source = Len(FeedOf) THEN Judged(p)
    ELSE [p EXCEPT !.pc = "fetch", !.source = @ + 1]

(* What follows the three flushes of FlushLogsAsync.                        *)
AfterFlush(p) ==
    CASE p.pc = "flush" -> AfterFeed(p)
      [] p.pc = "final" -> [p EXCEPT !.pc = "complete"]
      [] p.pc = "cancelFlush" -> [p EXCEPT !.pc = "cancelComplete"]

(* FlushLogsAsync: nothing is saved when nothing is pending; the list is    *)
(* cleared once it was saved.                                               *)
FlushLogs(w) ==
    LET p == proc[w] IN
    /\ p.pc \in {"flush", "final", "cancelFlush"}
    /\ IF p.pending = {}
       THEN /\ proc' = [proc EXCEPT ![w] = AfterFlush(p)]
            /\ UNCHANGED <<rows, failures>>
       ELSE \E reply \in SaveReplies(w, Tracked(p)) :
               SaveChanges(w, Tracked(p), reply, AfterFlush(Written(p)))
    /\ UNCHANGED <<lock, usage, runRows, hour, others, observed>>

(* CompleteRunAsync, with the verdict or, after a stop, as failed.  Oscar   *)
(* enrichment follows a run that completes.                                 *)
CompleteRun(w) ==
    LET p == proc[w]
        stopped == p.pc = "cancelComplete"
        next == IF stopped \/ MaxFilms = 0 THEN [p EXCEPT !.pc = "exit"]
                ELSE [Fresh EXCEPT !.pc = "oscarStart", !.task = "oscar",
                                   !.stopping = p.stopping]
    IN
    /\ p.pc \in {"complete", "cancelComplete"}
    /\ \E reply \in SaveReplies(w, p.unit) :
          /\ SaveChanges(w, p.unit, reply, next)
          /\ scanRun' = IF Landed(reply)
                        THEN [scanRun EXCEPT ![w] = IF stopped THEN "failed" ELSE p.verdict]
                        ELSE scanRun
    /\ UNCHANGED <<lock, usage, oscarRun, hour, others, observed>>

IngestionStep(w) ==
    \/ StartRun(w) \/ ReadSources(w) \/ FetchFeed(w) \/ TakeEntry(w)
    \/ EntryAnswered(w) \/ UpsertCatalogItem(w) \/ FlushLogs(w) \/ CompleteRun(w)

=============================================================================
