----------------------------- MODULE NextWorker -----------------------------
(***************************************************************************)
(* Processes of MediaDock.Worker: the scheduled one, started by a timer    *)
(* twice a day, and those started by hand.  A process takes the advisory   *)
(* lock, reads the settings, ingests the feeds, enriches Oscar films and   *)
(* ends; it may be told to stop, be killed, or lose its connection.        *)
(***************************************************************************)
EXTENDS NextIngestion, OscarEnrichment

Init ==
    /\ lock = NoWorker
    /\ catalog = {}
    /\ cache = [k \in Keys |-> "none"]
    /\ usage = [total |-> 0, oscar |-> 0, quota |-> FALSE]
    /\ parseLogs = [w \in Workers |-> NoLogs]
    /\ scanRun = [w \in Workers |-> "none"]
    /\ oscarRun = [w \in Workers |-> NoOscarRun]
    /\ film = [f \in Films |-> [status |-> "pending", attempts |-> 0, wait |-> 0]]
    /\ proc = [w \in Workers |-> Fresh]
    /\ hour = 0
    /\ failures = 0 /\ stops = 0 /\ kills = 0 /\ drops = 0 /\ manual = 0
    /\ sent = [total |-> 0, oscar |-> 0] /\ told = FALSE
    /\ muted = FALSE /\ ahead = {}
    /\ accepted = [w \in Workers |-> {}]
    /\ saved = [w \in Workers |-> NothingSaved]

-----------------------------------------------------------------------------
(* One process *)

(* Mutant: the answer of pg_try_advisory_lock is not looked at. *)
AcquireUnasked(w) ==
    /\ At(w, "acquire")
    /\ \E reply \in Replies(w) :
          /\ lock' = IF Landed(reply) THEN w ELSE lock
          /\ Continue(w, reply, [proc[w] EXCEPT !.pc = "settings"], proc[w])
    /\ UNCHANGED <<rows, runRows, usage, hour, others, observed>>

(* TryAcquireAsync: a process that finds the lock taken ends at once.       *)
Acquire(w) ==
    /\ At(w, "acquire")
    /\ \E reply \in Replies(w) :
          /\ lock' = IF Landed(reply) /\ lock = NoWorker THEN w ELSE lock
          /\ Continue(w, reply, IF lock = NoWorker THEN [proc[w] EXCEPT !.pc = "settings"]
                                ELSE Fresh, proc[w])
    /\ UNCHANGED <<rows, runRows, usage, hour, others, observed>>

(* The row of settings; it is there, and valid.                             *)
ReadSettings(w) ==
    /\ At(w, "settings")
    /\ \E reply \in Replies(w) :
          Continue(w, reply, [proc[w] EXCEPT !.pc = "startRun"], proc[w])
    /\ UNCHANGED <<lock, rows, runRows, usage, hour, others, observed>>

Released(w) == IF lock = w THEN NoWorker ELSE lock

(* DisposeAsync unlocks; the session ends with the process in any case.     *)
Exit(w) ==
    /\ At(w, "exit")
    /\ lock' = Released(w)
    /\ proc' = [proc EXCEPT ![w] = Fresh]
    /\ UNCHANGED <<rows, runRows, usage, hour, bounds, observed>>

ProcessStep(w) ==
    Acquire(w) \/ ReadSettings(w) \/ LookupStep(w) \/ IngestionStep(w)
    \/ EnrichmentStep(w) \/ Exit(w)

-----------------------------------------------------------------------------
(* What happens to processes *)

StartManual(w) ==
    /\ w # Scheduled /\ ~Active(w) /\ manual < MaxManual
    /\ manual' = manual + 1
    /\ proc' = [proc EXCEPT ![w].pc = "acquire"]
    /\ UNCHANGED <<lock, rows, runRows, usage, hour, failures, stops, kills, drops, observed>>

(* ApplicationStopping: SIGTERM, or Ctrl-C.                                 *)
Stop(w) ==
    /\ Active(w) /\ ~proc[w].stopping /\ MayHappen(stops, MaxStops)
    /\ stops' = stops + 1
    /\ proc' = [proc EXCEPT ![w].stopping = TRUE]
    /\ UNCHANGED <<lock, rows, runRows, usage, hour, failures, kills, drops, manual, observed>>

Kill(w) ==
    /\ Active(w) /\ MayHappen(kills, MaxKills)
    /\ kills' = kills + 1
    /\ lock' = Released(w)
    /\ proc' = [proc EXCEPT ![w] = Fresh]
    /\ muted' = (muted \/ (At(w, "mark") /\ proc[w].today))
    /\ ahead' = ahead \ {w}
    /\ UNCHANGED <<rows, runRows, usage, hour, failures, stops, drops, manual, sent, told,
                   accepted>>

(* The connection that holds the lock breaks: the lock is free, and the     *)
(* context opens another connection for the next call.                      *)
DropConnection(w) ==
    /\ lock = w /\ MayHappen(drops, MaxDrops)
    /\ drops' = drops + 1
    /\ lock' = NoWorker
    /\ UNCHANGED <<rows, runRows, usage, proc, hour, failures, stops, kills, manual, observed>>

-----------------------------------------------------------------------------
(* Time *)

(* Midnight, and 07:00 and 18:00 in Sofia, by its winter time: in summer    *)
(* both come an hour earlier.                                               *)
Hours == {0, 5, 16}
NextHour == CASE hour = 0 -> 5 [] hour = 5 -> 16 [] hour = 16 -> 0
Elapsed == IF hour = 16 THEN 8 ELSE NextHour - hour

(* A film tried in the course of the hour is due in the course of another:  *)
(* at its very start or later.                                              *)
Waits(f) ==
    IF film[f].wait = Elapsed THEN {0, 1} ELSE {Max({0, film[f].wait - Elapsed})}

(* No step reads the rows of a run that has ended: they are dropped.        *)
DropEndedRuns ==
    /\ scanRun' = [w \in Workers |-> IF Active(w) THEN scanRun[w] ELSE "none"]
    /\ oscarRun' = [w \in Workers |-> IF Active(w) THEN oscarRun[w] ELSE NoOscarRun]
    /\ parseLogs' = [w \in Workers |-> IF Active(w) THEN parseLogs[w] ELSE NoLogs]
    /\ accepted' = [w \in Workers |-> IF Active(w) THEN accepted[w] ELSE {}]
    /\ saved' = [w \in Workers |-> IF Active(w) THEN saved[w] ELSE NothingSaved]

TimePasses ==
    /\ hour' = NextHour
    /\ \E waits \in [Films -> {0, 1} \cup UNION {Waits(f) : f \in Films}] :
          /\ \A f \in Films : waits[f] \in Waits(f)
          /\ film' = [f \in Films |-> [film[f] EXCEPT !.wait = waits[f]]]
    /\ DropEndedRuns
    /\ UNCHANGED <<lock, catalog, bounds>>

(* Between the moment an attempt at a film is dated and its outcome.        *)
Attempting(w) == proc[w].task = "oscar" /\ proc[w].pc \in Lookup \cup {"saveFilm"}

(* The day ends, whatever is under way: a new row of usage, and cached      *)
(* answers may have outlived their time.                                    *)
Midnight ==
    /\ NextHour = 0
    /\ TimePasses
    /\ usage' = [total |-> 0, oscar |-> 0, quota |-> FALSE]
    /\ sent' = [total |-> 0, oscar |-> 0] /\ told' = FALSE
    /\ muted' = FALSE /\ ahead' = {}
    /\ proc' = [w \in Workers |-> [proc[w] EXCEPT
                  !.today = @ /\ proc[w].pc \notin {"send", "mark"},
                  !.begun = @ /\ ~Attempting(w)]]
    /\ \E old \in SUBSET {k \in Keys : cache[k] \in Answers} :
          cache' = [k \in Keys |-> IF k \in old THEN "stale" ELSE cache[k]]

(* The timer fires at the other hours; by then the process that it started  *)
(* before has ended.                                                        *)
TimerTick ==
    /\ NextHour # 0
    /\ ~Active(Scheduled)
    /\ TimePasses
    /\ proc' = [proc EXCEPT ![Scheduled].pc = "acquire"]
    /\ UNCHANGED <<cache, usage, requests>>

Next ==
    \/ \E w \in Workers : ProcessStep(w) \/ StartManual(w) \/ Stop(w) \/ Kill(w)
                          \/ DropConnection(w)
    \/ Midnight \/ TimerTick

Spec == Init /\ [][Next]_vars

(* Processes run, and time passes.                                          *)
FairSpec == /\ Spec
            /\ \A w \in Workers : WF_vars(ProcessStep(w))
            /\ WF_vars(Midnight \/ TimerTick)

-----------------------------------------------------------------------------
(* Properties *)

TypeOK ==
    /\ lock \in Workers \cup {NoWorker}
    /\ catalog \subseteq Entries
    /\ cache \in [Keys -> CacheState]
    /\ usage \in [total : Nat, oscar : Nat, quota : BOOLEAN]
    /\ parseLogs \in [Workers -> [Items -> Nat]]
    /\ scanRun \in [Workers -> ScanStatus]
    /\ oscarRun \in [Workers -> [status : OscarStatus, processed : Nat]]
    /\ film \in [Films -> FilmDoc]
    /\ \A w \in Workers : proc[w] \in Memory
    /\ hour \in Hours
    /\ saved \in [Workers -> [Films -> {"none", "enriched", "not_found", "temporary_error"}]]

(* The requests that go out on a day's reservations, those of a lookup's    *)
(* fallback and of two overlapping runs included, stay within these, and    *)
(* these within the limits, for Oscar enrichment its own limit too.         *)
BudgetRespected ==
    /\ sent.total <= usage.total /\ usage.total <= DailyLimit
    /\ sent.oscar <= usage.oscar /\ usage.oscar <= OscarLimit

(* The entries of the feeds. *)
Fed == {x \in Entries : \E i \in DOMAIN FeedOf : \E n \in DOMAIN FeedOf[i][2] :
                            x = FeedOf[i][2][n]}

(* No entry stands in two places of the feeds, and the cap on logs leaves   *)
(* room for one about each.                                                 *)
Ample ==
    /\ \A i, j \in DOMAIN FeedOf :
          \A m \in DOMAIN FeedOf[i][2] : \A n \in DOMAIN FeedOf[j][2] :
             FeedOf[i][2][m] = FeedOf[j][2][n] => i = j /\ m = n
    /\ Cardinality(Fed) <= LogCap

(* A scan run that says "succeeded" has stored every entry that its policy  *)
(* accepted and has left exactly one log for each entry of each feed,       *)
(* whatever failed on the way, when the feeds and the cap are Ample.        *)
SucceededRunsAreComplete ==
    \A w \in Workers : scanRun[w] = "succeeded" =>
        /\ accepted[w] \subseteq catalog
        /\ \A i \in DOMAIN FeedOf : \A n \in DOMAIN FeedOf[i][2] :
              parseLogs[w][FeedOf[i][2][n]] = 1

(* A film that has its metadata, or is known to have none, is not turned    *)
(* back to waiting by another run that had taken it up, unless a run lost   *)
(* the lock with its connection.                                            *)
SettledFilmsStaySettled ==
    [][\A f \in Films :
          film[f].status \in {"enriched", "not_found"} /\ drops = 0 =>
             film'[f].status = film[f].status]_vars

(* Once the provider has said that its quota is used up, and this has been  *)
(* recorded, nothing more is sent that day, by either task, an overlapping  *)
(* run, or one after a stop or a kill, but the request that another process *)
(* had reserved by that moment, once.  Until it is recorded something is    *)
(* sent only while a process that heard it is about to record it, or when   *)
(* that process was refused, stopped or killed there.                       *)
QuietAfterQuota ==
    [][told /\ told' /\ sent' # sent =>
          \/ usage.quota /\ \E w \in ahead : At(w, "send") /\ ahead' = ahead \ {w}
          \/ ~usage.quota /\ (muted \/ \E w \in Workers : At(w, "mark") /\ proc[w].today)
      ]_vars

(* An Oscar run that has ended reports no more films than it has stored     *)
(* outcomes for, and when it says "succeeded" exactly these, every one of   *)
(* them settled.                                                            *)
OscarRunsReportWhatTheyStored ==
    \A w \in Workers :
        LET stored == {f \in Films : saved[w][f] # "none"} IN
        /\ oscarRun[w].processed <= Cardinality(stored)
        /\ oscarRun[w].status = "succeeded" =>
              /\ oscarRun[w].processed = Cardinality(stored)
              /\ \A f \in stored : saved[w][f] # "temporary_error"

(* The delays of newer films that keep failing grow to a day, in which      *)
(* there are two runs: they do not keep the films behind them from a turn,  *)
(* as many as two runs take, unless the provider reports its quota again    *)
(* and again.  Films further back may never have a turn.                    *)
RunsADay == 2
FilmsEventuallyTried ==
    \A i \in DOMAIN FilmOrder :
       i <= RunsADay * MaxFilms => []<>(usage.quota \/ film[FilmOrder[i]].attempts > 0)

=============================================================================
