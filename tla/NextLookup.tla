----------------------------- MODULE NextLookup -----------------------------
(***************************************************************************)
(* One metadata lookup: the stored cache, the daily budget, the request to *)
(* OMDb, its fallback without the year, and storing the answer.  RSS       *)
(* ingestion and Oscar enrichment both go through it; what OMDb answers is *)
(* any answer.                                                             *)
(***************************************************************************)
EXTENDS NextStore

Asking(p, k) == [p EXCEPT !.pc = "cache", !.key = k, !.dated = k \in Dated,
                          !.result = "none"]
Answered(p, result) == [p EXCEPT !.pc = "answered", !.result = result]

(* PostgresMetadataCacheStore.GetAsync: an expired entry is removed.        *)
ReadCache(w) ==
    LET p == proc[w]
        k == p.key
    IN
    /\ At(w, "cache")
    /\ IF cache[k] = "stale"
       THEN LET u == [p.unit EXCEPT !.gone = @ \cup {k}] IN
            \E reply \in SaveReplies(w, u) :
               SaveChanges(w, u, reply, [p EXCEPT !.pc = "reserve"])
       ELSE /\ \E reply \in Replies(w) :
                  Continue(w, reply, IF cache[k] = "none"
                                     THEN [p EXCEPT !.pc = "reserve"]
                                     ELSE Answered(p, cache[k]), p)
            /\ UNCHANGED rows
    /\ UNCHANGED <<lock, usage, runRows, hour, others, observed>>

-----------------------------------------------------------------------------
(* The daily budget *)

Purpose(p) == IF p.task = "oscar" THEN 1 ELSE 0

(* Mutant: the provider's quota is not looked at. *)
MayReserveHeedless(p) ==
    /\ usage.total < DailyLimit
    /\ p.task = "oscar" => usage.oscar < OscarLimit

(* The condition of the upsert, for one or the other purpose.               *)
MayReserve(p) ==
    /\ usage.total < DailyLimit
    /\ ~usage.quota
    /\ p.task = "oscar" => usage.oscar < OscarLimit

(* TryReserveAsync: one statement, before each request.                     *)
Reserve(w) ==
    LET p == proc[w] IN
    /\ At(w, "reserve")
    /\ \E reply \in Replies(w) :
          /\ usage' = IF Landed(reply) /\ MayReserve(p)
                      THEN [usage EXCEPT !.total = @ + 1, !.oscar = @ + Purpose(p)]
                      ELSE usage
          /\ Continue(w, reply, IF MayReserve(p)
                                THEN [p EXCEPT !.pc = "send", !.today = TRUE]
                                ELSE Answered(p, "budget"), p)
    /\ UNCHANGED <<lock, rows, runRows, hour, others, observed>>

(* A request that counts for today.                                         *)
Sent(p) == IF p.today
           THEN [total |-> sent.total + 1, oscar |-> sent.oscar + Purpose(p)]
           ELSE sent

(* Mutant: the fallback goes out on the reservation of the first request. *)
AfterUnfunded(p, outcome) ==
    CASE outcome = "quota" -> [p EXCEPT !.pc = "mark"]
      [] outcome = "failure" -> Answered(p, "failure")
      [] outcome = "not_found" /\ p.dated -> [p EXCEPT !.pc = "send", !.dated = FALSE]
      [] OTHER -> [p EXCEPT !.pc = "store", !.result = outcome]

(* What the client makes of an answer: a film that is not found in its year *)
(* is asked for again without it, on a reservation of its own.              *)
After(p, outcome) ==
    CASE outcome = "quota" -> [p EXCEPT !.pc = "mark"]
      [] outcome = "failure" -> Answered(p, "failure")
      [] outcome = "not_found" /\ p.dated -> [p EXCEPT !.pc = "reserve", !.dated = FALSE]
      [] OTHER -> [p EXCEPT !.pc = "store", !.result = outcome]

(* Transport errors, bad answers and refused keys are results too.  A stop  *)
(* may come before the request has gone out or while it waits.              *)
Send(w) ==
    LET p == proc[w] IN
    /\ At(w, "send")
    /\ ahead' = ahead \ {w}
    /\ \/ /\ p.stopping
          /\ sent' \in {sent, Sent(p)}
          /\ proc' = [proc EXCEPT ![w] = Thrown(p, "cancelled")]
          /\ UNCHANGED told
       \/ /\ ~p.stopping
          /\ sent' = Sent(p)
          /\ \E outcome \in {"found", "not_found", "quota", "failure"} :
                /\ proc' = [proc EXCEPT ![w] = After(p, outcome)]
                /\ told' = (told \/ (outcome = "quota" /\ p.today))
    /\ UNCHANGED <<lock, rows, runRows, usage, hour, bounds, muted, accepted>>

(* The processes about to send a request of today.                          *)
InFlight == {w \in Workers : At(w, "send") /\ proc[w].today}

(* MarkProviderQuotaExceededAsync, for the day the request was dated, with  *)
(* the token of the run.                                                    *)
Mark(w) ==
    LET p == proc[w] IN
    /\ At(w, "mark")
    /\ \E reply \in Replies(w) :
          /\ usage' = IF Landed(reply) /\ p.today THEN [usage EXCEPT !.quota = TRUE]
                      ELSE usage
          /\ ahead' = IF usage'.quota /\ ~usage.quota THEN InFlight ELSE ahead
          /\ muted' = (muted \/ (p.today /\ ~Landed(reply)))
          /\ Continue(w, reply, Answered(p, "quota"), p)
    /\ UNCHANGED <<lock, rows, runRows, hour, others, sent, told, accepted>>

(* StoreAsync: only confirmed answers.  A key whose row is tracked as added *)
(* already, from a unit that failed, cannot be added again.                 *)
Store(w) ==
    LET p == proc[w]
        k == p.key
        new == cache[k] = "none"
        twice == new /\ k \in p.unit.added
        u == IF twice THEN p.unit
             ELSE [p.unit EXCEPT !.added = IF new THEN @ \cup {k} ELSE @,
                                 !.answer[k] = p.result]
    IN
    /\ At(w, "store")
    /\ \E reply \in RepliesUnless(twice \/ Clashes(u), w) :
          SaveChanges(w, u, reply, Answered(p, p.result))
    /\ UNCHANGED <<lock, usage, runRows, hour, others, observed>>

LookupStep(w) == ReadCache(w) \/ Reserve(w) \/ Send(w) \/ Mark(w) \/ Store(w)

=============================================================================
