-------------------------- MODULE OscarEnrichment --------------------------
(***************************************************************************)
(* OscarEnrichmentService: the films that are due, newest first, each      *)
(* looked up and its outcome stored, the run's progress stored around it.  *)
(***************************************************************************)
EXTENDS NextLookup

Ended(p, verdict) == [Unasked(p) EXCEPT !.pc = "finish", !.verdict = verdict]

(* StartAsync *)
OscarStart(w) ==
    LET p == proc[w] IN
    /\ At(w, "oscarStart")
    /\ \E reply \in SaveReplies(w, p.unit) :
          /\ SaveChanges(w, p.unit, reply, [p EXCEPT !.pc = "candidates"])
          /\ oscarRun' = IF Landed(reply)
                         THEN [oscarRun EXCEPT ![w] = [status |-> "running", processed |-> 0]]
                         ELSE oscarRun
    /\ UNCHANGED <<lock, usage, scanRun, hour, others, observed>>

Eligible(f) == film[f].status \in {"pending", "temporary_error"} /\ film[f].wait = 0

(* The places of the films that are due.                                    *)
Due == {i \in DOMAIN FilmOrder : Eligible(FilmOrder[i])}

(* The n-th of them, with the attempts it has at this moment.               *)
Candidate(n) ==
    LET f == FilmOrder[CHOOSE i \in Due : Cardinality({j \in Due : j <= i}) = n]
    IN  [film |-> f, attempts |-> film[f].attempts]

(* GetEligibleCandidatesAsync *)
ReadCandidates(w) ==
    LET p == proc[w]
        candidates == [n \in 1..Min({Cardinality(Due), MaxFilms}) |-> Candidate(n)]
    IN
    /\ At(w, "candidates")
    /\ \E reply \in Replies(w) :
          Continue(w, reply, [p EXCEPT !.pc = "eligible", !.films = candidates], p)
    /\ UNCHANGED <<lock, rows, runRows, usage, hour, others, observed>>

(* The head of the loop.                                                    *)
TakeFilm(w) ==
    LET p == proc[w] IN
    /\ At(w, "nextFilm")
    /\ proc' = [proc EXCEPT ![w] =
                  CASE p.films = <<>> -> Ended(p, IF p.soft THEN "partial" ELSE "succeeded")
                    [] p.films # <<>> /\ p.stopping -> Thrown(p, "cancelled")
                    [] p.films # <<>> /\ ~p.stopping -> Asking(p, KeyOf[Head(p.films).film])]
    /\ UNCHANGED <<lock, rows, runRows, usage, hour, bounds, observed>>

(* Where the run goes on once its progress is stored: an exhausted budget   *)
(* ends it before the film counts as attempted, the provider's quota after. *)
AfterProgress(p) ==
    CASE p.pc = "eligible" -> [p EXCEPT !.pc = "nextFilm"]
      [] p.pc = "answered" -> IF p.result = "budget" THEN Ended(p, "quota_stopped")
                              ELSE [p EXCEPT !.pc = "saveFilm"]
      [] p.pc = "progress" -> IF p.result = "quota" THEN Ended(p, "quota_stopped")
                              ELSE [Unasked(p) EXCEPT !.pc = "nextFilm", !.films = Tail(@)]

SaveProgress(w) ==
    LET p == proc[w] IN
    /\ At(w, "eligible") \/ InOscar(w, "answered") \/ At(w, "progress")
    /\ \E reply \in SaveReplies(w, p.unit) :
          /\ SaveChanges(w, p.unit, reply, AfterProgress(p))
          /\ oscarRun' = IF Landed(reply) THEN [oscarRun EXCEPT ![w].processed = p.processed]
                         ELSE oscarRun
    /\ UNCHANGED <<lock, usage, scanRun, hour, others, observed>>

-----------------------------------------------------------------------------
(* Outcomes *)

(* Mutant: the delay stops growing at eight hours. *)
GetRetryDelayShort(n) == Min({8, 2 ^ Max({0, Min({n - 1, 5})})})

(* Hours, from one doubling to a day.                                       *)
GetRetryDelay(n) == Min({24, 2 ^ Max({0, Min({n - 1, 5})})})

(* Mutant: two days are added instead of one. *)
HoursToDayAfter(p) == IF p.begun THEN 48 - hour ELSE 24 - hour

(* NextUtcDay, in hours: none are left when the attempt outlived its day.   *)
HoursToMidnight(p) == IF p.begun THEN 24 - hour ELSE 0

(* CreateUpdate: metadata that does not fit the identifiers already known   *)
(* is an error to be tried again.                                           *)
CreateUpdate(p, attempts) ==
    LET Doc(status, wait) == [status |-> status, attempts |-> Min({attempts, 6}),
                              wait |-> wait]
    IN
    CASE p.result = "found" -> {Doc("enriched", 0),
                                Doc("temporary_error", GetRetryDelay(attempts))}
      [] p.result = "not_found" -> {Doc("not_found", 0)}
      [] p.result = "quota" -> {Doc("temporary_error", HoursToMidnight(p))}
      [] p.result = "failure" -> {Doc("temporary_error", GetRetryDelay(attempts))}

(* Mutant: a temporary error does not count as one. *)
AttemptedSoftly(p, doc) == [p EXCEPT !.pc = "progress", !.processed = @ + 1]

Attempted(p, doc) == [p EXCEPT !.pc = "progress", !.processed = @ + 1,
                               !.soft = @ \/ doc.status = "temporary_error"]

(* SaveOutcomeAsync: the row is written as the candidate was read.  When    *)
(* the title's IMDb id turns out to be taken, the tracker is cleared and    *)
(* the outcome saved again.                                                 *)
SaveOutcome(w) ==
    LET p == proc[w]
        candidate == Head(p.films)
    IN
    /\ At(w, "saveFilm")
    /\ \E doc \in CreateUpdate(p, candidate.attempts + 1),
          base \in {p.unit, Clean} :
          /\ doc.status # "enriched" => base = p.unit
          /\ LET u == [base EXCEPT !.films[candidate.film] = doc] IN
             \E reply \in SaveReplies(w, u) : SaveChanges(w, u, reply, Attempted(p, doc))
    /\ UNCHANGED <<lock, usage, runRows, hour, others, observed>>

(* FinishAsync, after the loop or from a catch clause.                      *)
Finish(w) ==
    LET p == proc[w] IN
    /\ At(w, "finish")
    /\ \E reply \in SaveReplies(w, p.unit) :
          /\ SaveChanges(w, p.unit, reply, [p EXCEPT !.pc = "exit"])
          /\ oscarRun' = IF Landed(reply)
                         THEN [oscarRun EXCEPT ![w] = [status |-> p.verdict,
                                                       processed |-> p.processed]]
                         ELSE oscarRun
    /\ UNCHANGED <<lock, usage, scanRun, hour, others, observed>>

EnrichmentStep(w) ==
    \/ OscarStart(w) \/ ReadCandidates(w) \/ TakeFilm(w) \/ SaveProgress(w)
    \/ SaveOutcome(w) \/ Finish(w)

=============================================================================
