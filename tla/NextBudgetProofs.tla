-------------------------- MODULE NextBudgetProofs --------------------------
(***************************************************************************)
(* The requests of NextWorker, for any number of processes, feeds and      *)
(* films and every limit: the daily budget, and the provider's quota, after *)
(* whose record only the requests reserved before it are sent.             *)
(***************************************************************************)
EXTENDS NextWorker, FiniteSetTheorems, TLAPS

-----------------------------------------------------------------------------
(* The invariant: every reservation that is not yet a request of today      *)
(* belongs to a process that is about to send it.                           *)

Fields == DOMAIN Fresh

(* A memory. *)
Sound(p) == DOMAIN p = Fields

Shaped ==
    /\ usage \in [total : Nat, oscar : Nat, quota : BOOLEAN]
    /\ sent \in [total : Nat, oscar : Nat]
    /\ DOMAIN proc = Workers
    /\ \A w \in Workers : Sound(proc[w])

OscarInFlight == {w \in InFlight : proc[w].task = "oscar"}

Funded ==
    /\ sent.total + Cardinality(InFlight) <= usage.total
    /\ sent.oscar + Cardinality(OscarInFlight) <= usage.oscar
    /\ usage.total <= DailyLimit /\ usage.oscar <= OscarLimit

BudgetInv == Shaped /\ Funded

-----------------------------------------------------------------------------
(* Memories *)

(* A memory that is not about to send. *)
Idling(q) == Sound(q) /\ q.pc # "send"

LEMMA FieldNames ==
    {"pc", "task", "stopping", "unit", "source", "entry", "pending", "written",
     "erred", "fed", "exhausted", "key", "dated", "begun", "today", "result",
     "films", "processed", "soft", "verdict"} = Fields
BY DEF Fields, Fresh

LEMMA FreshIdles == Idling(Fresh) /\ Fresh.pc = "idle"
BY DEF Idling, Sound, Fields, Fresh

(* Where an exception lands, no request is under way. *)
LEMMA ThrownIdles ==
    ASSUME NEW p, Sound(p), NEW reply
    PROVE  Idling(Thrown(p, reply))
<1> USE FieldNames DEF Sound
<1> DEFINE q == IF p.pc \in {"acquire", "settings"} THEN [p EXCEPT !.pc = "exit"]
                ELSE IF p.task = "rss" THEN ThrownInRss(p, reply)
                ELSE ThrownInOscar(p, reply)
<1>1. Idling(ThrownInRss(p, reply))
  BY DEF ThrownInRss, Idling, Judged, Logged
<1>2. Idling(ThrownInOscar(p, reply))
  BY DEF ThrownInOscar, Idling
<1>3. Idling(q)
  BY <1>1, <1>2 DEF Idling
<1>4. Thrown(p, reply) = Unasked(q)
  BY DEF Thrown
<1> HIDE DEF q
<1> QED BY <1>3, <1>4 DEF Unasked, Idling

(* A process that makes a call and goes on elsewhere than to a request. *)
LEMMA ContinueIdles ==
    ASSUME NEW w \in Workers, Shaped, NEW reply, NEW ok, Idling(ok),
           NEW p, Sound(p), Continue(w, reply, ok, p)
    PROVE  \E q : Idling(q) /\ proc' = [proc EXCEPT ![w] = q]
BY ThrownIdles DEF Continue

LEMMA SaveChangesIdles ==
    ASSUME NEW w \in Workers, Shaped, NEW u, NEW reply, NEW ok, Idling(ok),
           SaveChanges(w, u, reply, ok)
    PROVE  \E q : Idling(q) /\ proc' = [proc EXCEPT ![w] = q]
<1> USE FieldNames DEF Sound
<1>1. Idling([ok EXCEPT !.unit = Clean])
  BY DEF Idling
<1>2. Sound([proc[w] EXCEPT !.unit = u])
  BY DEF Shaped
<1> QED BY <1>1, <1>2, ContinueIdles DEF SaveChanges

-----------------------------------------------------------------------------
(* Counting *)

LEMMA Adding ==
    ASSUME NEW S, IsFiniteSet(S), NEW x
    PROVE  IsFiniteSet(S \cup {x}) /\ Cardinality(S \cup {x}) <= Cardinality(S) + 1
<1>1. Cardinality(S) \in Nat
  BY FS_CardinalityType
<1> QED BY <1>1, FS_AddElement

LEMMA Removing ==
    ASSUME NEW S, IsFiniteSet(S), NEW x
    PROVE  /\ IsFiniteSet(S \ {x})
           /\ Cardinality(S \ {x}) <= Cardinality(S)
           /\ x \in S => Cardinality(S \ {x}) = Cardinality(S) - 1
<1>1. Cardinality(S) \in Nat
  BY FS_CardinalityType
<1> QED BY <1>1, FS_RemoveElement

LEMMA Finite ==
    /\ IsFiniteSet(InFlight) /\ IsFiniteSet(OscarInFlight)
    /\ Cardinality(InFlight) \in Nat /\ Cardinality(OscarInFlight) \in Nat
<1>1. IsFiniteSet(Workers)
  BY NextAssumption
<1>2. InFlight \subseteq Workers /\ OscarInFlight \subseteq Workers
  BY DEF InFlight, OscarInFlight
<1> QED BY <1>1, <1>2, FS_Subset, FS_CardinalityType

(* A step that spends nothing and sends nothing, and after which no process *)
(* is newly about to send, keeps the budget.                                *)
LEMMA NothingSpent ==
    ASSUME BudgetInv, Shaped',
           usage'.total = usage.total, usage'.oscar = usage.oscar, sent' = sent,
           \A w \in Workers : At(w, "send")' /\ proc'[w].today =>
               At(w, "send") /\ proc[w].today /\ proc'[w].task = proc[w].task
    PROVE  BudgetInv'
<1>1. InFlight' \subseteq InFlight /\ OscarInFlight' \subseteq OscarInFlight
  BY DEF InFlight, OscarInFlight
<1>2. /\ Cardinality(InFlight') <= Cardinality(InFlight)
      /\ Cardinality(OscarInFlight') <= Cardinality(OscarInFlight)
      /\ Cardinality(InFlight') \in Nat /\ Cardinality(OscarInFlight') \in Nat
  BY <1>1, Finite, FS_Subset, FS_CardinalityType
<1>3. /\ usage.total \in Nat /\ usage.oscar \in Nat
      /\ sent.total \in Nat /\ sent.oscar \in Nat
  BY DEF BudgetInv, Shaped
<1>4. /\ sent.total + Cardinality(InFlight) <= usage.total
      /\ sent.oscar + Cardinality(OscarInFlight) <= usage.oscar
      /\ usage.total <= DailyLimit /\ usage.oscar <= OscarLimit
  BY DEF BudgetInv, Funded
<1>5. /\ sent'.total + Cardinality(InFlight') <= usage'.total
      /\ sent'.oscar + Cardinality(OscarInFlight') <= usage'.oscar
      /\ usage'.total <= DailyLimit /\ usage'.oscar <= OscarLimit
  BY <1>2, <1>3, <1>4, Finite
<1> QED BY <1>5 DEF BudgetInv, Funded

(* What most steps do: one process goes on, and not to a request.           *)
Moves(w) ==
    /\ \E q : Idling(q) /\ proc' = [proc EXCEPT ![w] = q]
    /\ usage' \in [total : Nat, oscar : Nat, quota : BOOLEAN]
    /\ usage'.total = usage.total /\ usage'.oscar = usage.oscar
    /\ sent' = sent

LEMMA MovesKeep ==
    ASSUME BudgetInv, NEW w \in Workers, Moves(w)
    PROVE  BudgetInv'
<1>1. PICK q : Idling(q) /\ proc' = [proc EXCEPT ![w] = q]
  BY DEF Moves
<1>2. Shaped'
  <2>1. \A v \in Workers : Sound(proc'[v])
    BY <1>1 DEF Shaped, Idling, BudgetInv
  <2>2. \A v \in Workers : Sound(proc[v])'
    BY <2>1 DEF Moves, Sound
  <2> QED BY <1>1, <2>2 DEF Shaped, Moves, BudgetInv
<1>3. \A v \in Workers : At(v, "send")' => proc'[v] = proc[v]
  BY <1>1 DEF Idling, At, BudgetInv, Shaped
<1> QED BY <1>2, <1>3, NothingSpent DEF Moves, At

-----------------------------------------------------------------------------
(* The steps of a process *)

LEMMA LookupMoves ==
    ASSUME BudgetInv, NEW w \in Workers, ReadCache(w) \/ Mark(w) \/ Store(w)
    PROVE  Moves(w)
<1> USE FieldNames DEF Sound, Idling, BudgetInv
<1>0. Sound(proc[w]) /\ usage \in [total : Nat, oscar : Nat, quota : BOOLEAN]
  BY DEF Shaped
<1>1. CASE ReadCache(w)
  <2> DEFINE p == proc[w]
  <2>1. Idling([p EXCEPT !.pc = "reserve"]) /\ Idling(Answered(p, cache[p.key]))
    BY <1>0 DEF Answered
  <2>2. \E q : Idling(q) /\ proc' = [proc EXCEPT ![w] = q]
    <3>1. CASE cache[p.key] = "stale"
      BY <1>1, <2>1, <3>1, SaveChangesIdles DEF ReadCache
    <3>2. CASE cache[p.key] # "stale"
      BY <1>0, <1>1, <2>1, <3>2, ContinueIdles DEF ReadCache
    <3> QED BY <3>1, <3>2
  <2> QED BY <1>0, <1>1, <2>2 DEF ReadCache, Moves, observed, requests, others
<1>2. CASE Mark(w)
  <2>1. Idling(Answered(proc[w], "quota"))
    BY <1>0 DEF Answered
  <2>2. \E q : Idling(q) /\ proc' = [proc EXCEPT ![w] = q]
    BY <1>0, <1>2, <2>1, ContinueIdles DEF Mark
  <2>3. usage' \in {usage, [usage EXCEPT !.quota = TRUE]}
    BY <1>2 DEF Mark
  <2> QED BY <1>0, <1>2, <2>2, <2>3 DEF Mark, Moves, observed, requests, others
<1>3. CASE Store(w)
  <2>1. Idling(Answered(proc[w], proc[w].result))
    BY <1>0 DEF Answered
  <2>2. \E q : Idling(q) /\ proc' = [proc EXCEPT ![w] = q]
    BY <1>3, <2>1, SaveChangesIdles DEF Store
  <2> QED BY <1>0, <1>3, <2>2 DEF Store, Moves, observed, requests, others
<1> QED BY <1>1, <1>2, <1>3

(* What only concerns the feeds and films leaves the request alone.         *)
LEMMA UnaskedIdles ==
    ASSUME NEW p, Idling(p)
    PROVE  Idling(Unasked(p))
BY FieldNames DEF Sound, Idling, Unasked

LEMMA LoggedIdles ==
    ASSUME NEW p, Idling(p), NEW item
    PROVE  Idling(Logged(p, item))
BY FieldNames DEF Sound, Idling, Logged

LEMMA AfterFlushIdles ==
    ASSUME NEW p, Idling(p), p.pc \in {"flush", "final", "cancelFlush"}
    PROVE  Idling(AfterFlush(p))
BY FieldNames DEF Sound, Idling, AfterFlush, AfterFeed, Judged

LEMMA IngestionMoves ==
    ASSUME BudgetInv, NEW w \in Workers, IngestionStep(w)
    PROVE  Moves(w)
<1> USE FieldNames DEF Sound
<1> DEFINE p == proc[w]
           Goes == \E q : Idling(q) /\ proc' = [proc EXCEPT ![w] = q]
<1>0. Sound(p) /\ Shaped
  BY DEF BudgetInv, Shaped
<1> SUFFICES usage' = usage /\ sent' = sent /\ Goes
  BY <1>0 DEF Moves, Shaped
<1>1. usage' = usage /\ sent' = sent
  BY DEF IngestionStep, StartRun, ReadSources, FetchFeed, TakeEntry, EntryAnswered,
         UpsertCatalogItem, FlushLogs, CompleteRun, observed, requests, others, bounds
<1>2. CASE StartRun(w)
  <2>1. Idling([p EXCEPT !.pc = "sources"])
    BY <1>0 DEF Idling
  <2> QED BY <1>0, <1>1, <1>2, <2>1, ContinueIdles DEF StartRun
<1>3. CASE ReadSources(w)
  <2> DEFINE ok == IF FeedOf = <<>> THEN Judged(p)
                   ELSE [p EXCEPT !.pc = "fetch", !.source = 1]
  <2>1. Idling(ok)
    BY <1>0 DEF Idling, Judged
  <2> HIDE DEF ok
  <2> QED BY <1>0, <1>1, <1>3, <2>1, ContinueIdles DEF ReadSources, ok
<1>4. CASE FetchFeed(w)
  <2>1. Idling([p EXCEPT !.pc = "entry", !.entry = 1, !.fed = TRUE])
    BY <1>0 DEF Idling
  <2> QED BY <1>0, <1>1, <1>4, <2>1, ContinueIdles DEF FetchFeed
<1>5. CASE TakeEntry(w)
  <2>1. Idling(p)
    BY <1>0, <1>5 DEF TakeEntry, At, Idling
  <2>2. Idling([p EXCEPT !.pc = "flush"]) /\ Idling(Asking(p, KeyOf[Entry(p)]))
    BY <1>0 DEF Idling, Asking
  <2>3. Idling([p EXCEPT !.erred = TRUE])
    BY <2>1 DEF Idling
  <2>4. Idling(Unasked(EntryFailed(p)))
    BY <2>3, LoggedIdles, UnaskedIdles DEF EntryFailed
  <2>5. Idling(NextEntry(EntryFailed(p)))
    BY <2>4 DEF NextEntry, Idling
  <2> QED BY <1>1, <1>5, <2>2, <2>5 DEF TakeEntry
<1>6. CASE EntryAnswered(w)
  <2>1. Idling(p)
    BY <1>0, <1>6 DEF EntryAnswered, InRss, At, Idling
  <2>2. Idling(EntryFailed(p)) /\ Idling(Logged(p, Entry(p)))
    <3>1. Idling([p EXCEPT !.erred = TRUE])
      BY <2>1 DEF Idling
    <3> QED BY <2>1, <3>1, LoggedIdles DEF EntryFailed
  <2>3. Idling(Unasked(EntryFailed(p))) /\ Idling(Unasked(Logged(p, Entry(p))))
    BY <2>2, UnaskedIdles
  <2>4. /\ Idling(Exhausted(p)) /\ Idling(NextEntry(EntryFailed(p)))
        /\ Idling(NextEntry(Logged(p, Entry(p))))
    BY <2>3 DEF Exhausted, NextEntry, Idling
  <2>5. Idling([p EXCEPT !.pc = "upsert"])
    BY <1>0 DEF Idling
  <2>6. proc' \in {[proc EXCEPT ![w] = q] :
                     q \in {Exhausted(p), NextEntry(EntryFailed(p)),
                            NextEntry(Logged(p, Entry(p))), [p EXCEPT !.pc = "upsert"]}}
    BY <1>6 DEF EntryAnswered
  <2> QED BY <1>1, <2>4, <2>5, <2>6
<1>7. CASE UpsertCatalogItem(w)
  <2>1. PICK reply, left :
          LET after == [p EXCEPT !.unit = left]
          IN  Continue(w, reply, NextEntry(Logged(after, Entry(p))), after)
    BY <1>7 DEF UpsertCatalogItem
  <2> DEFINE after == [p EXCEPT !.unit = left]
  <2>2. Idling(after)
    BY <1>0, <1>7 DEF UpsertCatalogItem, At, Idling
  <2>3. Idling(Unasked(Logged(after, Entry(p))))
    BY <2>2, LoggedIdles, UnaskedIdles
  <2>4. Idling(NextEntry(Logged(after, Entry(p))))
    BY <2>3 DEF NextEntry, Idling
  <2>5. Sound(after)
    BY <2>2 DEF Idling
  <2> HIDE DEF after
  <2>6. Continue(w, reply, NextEntry(Logged(after, Entry(p))), after)
    BY <2>1 DEF after
  <2> QED BY <1>0, <1>1, <2>4, <2>5, <2>6, ContinueIdles
<1>8. CASE FlushLogs(w)
  <2>1. Idling(p) /\ p.pc \in {"flush", "final", "cancelFlush"}
    BY <1>0, <1>8 DEF FlushLogs, Idling
  <2>2. Idling(Written(p)) /\ Written(p).pc = p.pc
    BY <2>1 DEF Written, Idling
  <2>3. Idling(AfterFlush(p)) /\ Idling(AfterFlush(Written(p)))
    BY <2>1, <2>2, AfterFlushIdles
  <2>4. CASE p.pending = {}
    BY <1>1, <1>8, <2>3, <2>4 DEF FlushLogs
  <2>5. CASE p.pending # {}
    BY <1>0, <1>1, <1>8, <2>3, <2>5, SaveChangesIdles DEF FlushLogs
  <2> QED BY <2>4, <2>5
<1>9. CASE CompleteRun(w)
  <2> DEFINE next == IF p.pc = "cancelComplete" \/ MaxFilms = 0
                     THEN [p EXCEPT !.pc = "exit"]
                     ELSE [Fresh EXCEPT !.pc = "oscarStart", !.task = "oscar",
                                        !.stopping = p.stopping]
  <2>1. Idling(next)
    BY <1>0, FreshIdles DEF Idling
  <2>2. PICK reply : SaveChanges(w, p.unit, reply, next)
    BY <1>9 DEF CompleteRun
  <2> HIDE DEF next
  <2> QED BY <1>0, <1>1, <2>1, <2>2, SaveChangesIdles
<1> QED BY <1>2, <1>3, <1>4, <1>5, <1>6, <1>7, <1>8, <1>9 DEF IngestionStep

LEMMA EnrichmentMoves ==
    ASSUME BudgetInv, NEW w \in Workers, EnrichmentStep(w)
    PROVE  Moves(w)
<1> USE FieldNames DEF Sound
<1> DEFINE p == proc[w]
           Goes == \E q : Idling(q) /\ proc' = [proc EXCEPT ![w] = q]
<1>0. Sound(p) /\ Shaped
  BY DEF BudgetInv, Shaped
<1> SUFFICES usage' = usage /\ sent' = sent /\ Goes
  BY <1>0 DEF Moves, Shaped
<1>1. usage' = usage /\ sent' = sent
  BY DEF EnrichmentStep, OscarStart, ReadCandidates, TakeFilm, SaveProgress,
         SaveOutcome, Finish, observed, requests, others, bounds
<1>2. CASE OscarStart(w)
  <2>1. Idling([p EXCEPT !.pc = "candidates"])
    BY <1>0 DEF Idling
  <2> QED BY <1>0, <1>1, <1>2, <2>1, SaveChangesIdles DEF OscarStart
<1>3. CASE ReadCandidates(w)
  <2>1. PICK reply, films :
          Continue(w, reply, [p EXCEPT !.pc = "eligible", !.films = films], p)
    BY <1>3 DEF ReadCandidates
  <2>2. Idling([p EXCEPT !.pc = "eligible", !.films = films])
    BY <1>0 DEF Idling
  <2> QED BY <1>0, <1>1, <2>1, <2>2, ContinueIdles
<1>4. CASE TakeFilm(w)
  <2>1. Idling(p)
    BY <1>0, <1>4 DEF TakeFilm, At, Idling
  <2>2. \A verdict : Idling(Ended(p, verdict))
    BY <2>1, UnaskedIdles DEF Ended, Idling
  <2>3. Idling(Thrown(p, "cancelled"))
    BY <1>0, ThrownIdles
  <2>4. Idling(Asking(p, KeyOf[Head(p.films).film]))
    BY <1>0 DEF Asking, Idling
  <2>5. proc' \in {[proc EXCEPT ![w] = q] :
                     q \in {Ended(p, IF p.soft THEN "partial" ELSE "succeeded"),
                            Thrown(p, "cancelled"),
                            Asking(p, KeyOf[Head(p.films).film])}}
    BY <1>4 DEF TakeFilm
  <2> QED BY <1>1, <2>2, <2>3, <2>4, <2>5
<1>5. CASE SaveProgress(w)
  <2>1. Idling(p) /\ p.pc \in {"eligible", "answered", "progress"}
    BY <1>0, <1>5 DEF SaveProgress, InOscar, At, Idling
  <2>2. \A verdict : Idling(Ended(p, verdict))
    BY <2>1, UnaskedIdles DEF Ended, Idling
  <2>3. Idling(Unasked(p))
    BY <2>1, UnaskedIdles
  <2>4. Idling(AfterProgress(p))
    BY <2>1, <2>2, <2>3 DEF AfterProgress, Idling
  <2> QED BY <1>0, <1>1, <1>5, <2>4, SaveChangesIdles DEF SaveProgress
<1>6. CASE SaveOutcome(w)
  <2>1. PICK u, reply, doc : SaveChanges(w, u, reply, Attempted(p, doc))
    BY <1>6 DEF SaveOutcome
  <2>2. Idling(Attempted(p, doc))
    BY <1>0 DEF Attempted, Idling
  <2> QED BY <1>0, <1>1, <2>1, <2>2, SaveChangesIdles
<1>7. CASE Finish(w)
  <2>1. Idling([p EXCEPT !.pc = "exit"])
    BY <1>0 DEF Idling
  <2> QED BY <1>0, <1>1, <1>7, <2>1, SaveChangesIdles DEF Finish
<1> QED BY <1>2, <1>3, <1>4, <1>5, <1>6, <1>7 DEF EnrichmentStep

LEMMA ReservedTyped ==
    ASSUME usage \in [total : Nat, oscar : Nat, quota : BOOLEAN], NEW n \in {0, 1}
    PROVE  [usage EXCEPT !.total = @ + 1, !.oscar = @ + n]
              \in [total : Nat, oscar : Nat, quota : BOOLEAN]
<1>1. usage.total + 1 \in Nat /\ usage.oscar + n \in Nat
  OBVIOUS
<1>2. \A a, b \in Nat : [usage EXCEPT !.total = a, !.oscar = b]
                            \in [total : Nat, oscar : Nat, quota : BOOLEAN]
  OBVIOUS
<1> QED BY <1>1, <1>2

(* A reservation pays for the request that follows it.                      *)
LEMMA ReserveKeeps ==
    ASSUME BudgetInv, NEW w \in Workers, Reserve(w)
    PROVE  BudgetInv'
<1> USE FieldNames DEF Sound
<1> DEFINE p == proc[w]
           ready == [p EXCEPT !.pc = "send", !.today = TRUE]
<1>0. /\ Sound(p) /\ Shaped /\ sent' = sent
      /\ DailyLimit \in Nat /\ OscarLimit \in Nat
  BY NextAssumption DEF BudgetInv, Shaped, Reserve, observed, requests, others
<1>1. PICK reply :
        /\ usage' = IF Landed(reply) /\ MayReserve(p)
                    THEN [usage EXCEPT !.total = @ + 1, !.oscar = @ + Purpose(p)]
                    ELSE usage
        /\ Continue(w, reply, IF MayReserve(p) THEN ready ELSE Answered(p, "budget"), p)
  BY DEF Reserve
<1>2. CASE ~MayReserve(p)
  <2>1. Idling(Answered(p, "budget"))
    BY <1>0 DEF Answered, Idling
  <2>2. \E q : Idling(q) /\ proc' = [proc EXCEPT ![w] = q]
    BY <1>0, <1>1, <1>2, <2>1, ContinueIdles
  <2> QED BY <1>0, <1>1, <1>2, <2>2, MovesKeep DEF Moves, Shaped
<1>3. CASE MayReserve(p) /\ reply # "ok"
  <2>1. Idling(Thrown(p, reply)) /\ proc' = [proc EXCEPT ![w] = Thrown(p, reply)]
    BY <1>0, <1>1, <1>3, ThrownIdles DEF Continue
  <2>2. CASE ~Landed(reply)
    BY <1>0, <1>1, <2>1, <2>2, MovesKeep DEF Moves, Shaped
  <2>3. CASE Landed(reply)
    <3>1. usage' = [usage EXCEPT !.total = @ + 1, !.oscar = @ + Purpose(p)]
      BY <1>1, <1>3, <2>3
    <3>2. Purpose(p) \in {0, 1} /\ (Purpose(p) = 1 => usage.oscar < OscarLimit)
      BY <1>3 DEF Purpose, MayReserve
    <3>3. Shaped'
      <4>1. usage' \in [total : Nat, oscar : Nat, quota : BOOLEAN]
        BY <1>0, <3>1, <3>2, ReservedTyped DEF Shaped
      <4>2. DOMAIN proc' = Workers /\ \A v \in Workers : Sound(proc[v])'
        BY <1>0, <2>1 DEF Shaped, Idling
      <4> QED BY <1>0, <4>1, <4>2 DEF Shaped
    <3>4. InFlight' \subseteq InFlight /\ OscarInFlight' \subseteq OscarInFlight
      BY <1>0, <2>1 DEF InFlight, OscarInFlight, At, Idling, Shaped
    <3>5. /\ Cardinality(InFlight') <= Cardinality(InFlight)
          /\ Cardinality(OscarInFlight') <= Cardinality(OscarInFlight)
          /\ Cardinality(InFlight') \in Nat /\ Cardinality(OscarInFlight') \in Nat
      BY <3>4, Finite, FS_Subset, FS_CardinalityType
    <3>6. usage'.total = usage.total + 1 /\ usage'.oscar = usage.oscar + Purpose(p)
      BY <1>0, <3>1 DEF Shaped
    <3>7. /\ sent.total + Cardinality(InFlight) <= usage.total
          /\ sent.oscar + Cardinality(OscarInFlight) <= usage.oscar
          /\ usage.total < DailyLimit /\ usage.oscar <= OscarLimit
      BY <1>3 DEF BudgetInv, Funded, MayReserve
    <3>8. usage \in [total : Nat, oscar : Nat, quota : BOOLEAN]
          /\ sent \in [total : Nat, oscar : Nat]
      BY <1>0 DEF Shaped
    <3>9. Funded'
      BY <1>0, <3>2, <3>5, <3>6, <3>7, <3>8, Finite DEF Funded
    <3> QED BY <3>3, <3>9 DEF BudgetInv
  <2> QED BY <2>2, <2>3
<1>4. CASE MayReserve(p) /\ reply = "ok"
  <2>1. proc' = [proc EXCEPT ![w] = ready]
    BY <1>1, <1>4 DEF Continue
  <2>2. usage' = [usage EXCEPT !.total = @ + 1, !.oscar = @ + Purpose(p)]
    BY <1>1, <1>4 DEF Landed
  <2>3. Purpose(p) \in {0, 1} /\ (Purpose(p) = 1 <=> p.task = "oscar")
    BY DEF Purpose
  <2>4. Sound(ready) /\ ready.task = p.task
    BY <1>0
  <2>5. Shaped'
    <3>1. usage' \in [total : Nat, oscar : Nat, quota : BOOLEAN]
      BY <1>0, <2>2, <2>3, ReservedTyped DEF Shaped
    <3>2. DOMAIN proc' = Workers /\ \A v \in Workers : Sound(proc[v])'
      BY <1>0, <2>1, <2>4 DEF Shaped
    <3> QED BY <1>0, <3>1, <3>2 DEF Shaped
  <2>6. /\ InFlight' \subseteq InFlight \cup {w}
        /\ p.task = "oscar" => OscarInFlight' \subseteq OscarInFlight \cup {w}
        /\ p.task # "oscar" => OscarInFlight' \subseteq OscarInFlight
    BY <1>0, <2>1, <2>4 DEF InFlight, OscarInFlight, At, Shaped
  <2>7. /\ IsFiniteSet(InFlight \cup {w})
        /\ Cardinality(InFlight \cup {w}) <= Cardinality(InFlight) + 1
        /\ IsFiniteSet(OscarInFlight \cup {w})
        /\ Cardinality(OscarInFlight \cup {w}) <= Cardinality(OscarInFlight) + 1
    BY Finite, Adding
  <2>8. /\ Cardinality(InFlight') <= Cardinality(InFlight) + 1
        /\ Cardinality(OscarInFlight') <= Cardinality(OscarInFlight) + Purpose(p)
        /\ Cardinality(InFlight') \in Nat /\ Cardinality(OscarInFlight') \in Nat
    <3>1. IsFiniteSet(InFlight') /\ IsFiniteSet(OscarInFlight')
      BY <2>6, <2>7, Finite, FS_Subset
    <3>2. /\ Cardinality(InFlight') <= Cardinality(InFlight \cup {w})
          /\ p.task = "oscar" =>
               Cardinality(OscarInFlight') <= Cardinality(OscarInFlight \cup {w})
          /\ p.task # "oscar" =>
               Cardinality(OscarInFlight') <= Cardinality(OscarInFlight)
      BY <2>6, <2>7, Finite, FS_Subset
    <3>3. /\ Cardinality(InFlight') \in Nat /\ Cardinality(OscarInFlight') \in Nat
          /\ Cardinality(InFlight \cup {w}) \in Nat
          /\ Cardinality(OscarInFlight \cup {w}) \in Nat
      BY <2>7, <3>1, FS_CardinalityType
    <3> QED BY <2>3, <2>7, <3>2, <3>3, Finite
  <2>9. /\ usage.total \in Nat /\ usage.oscar \in Nat
        /\ sent.total \in Nat /\ sent.oscar \in Nat
        /\ usage'.total = usage.total + 1 /\ usage'.oscar = usage.oscar + Purpose(p)
    BY <1>0, <2>2 DEF Shaped
  <2>10. /\ sent.total + Cardinality(InFlight) <= usage.total
         /\ sent.oscar + Cardinality(OscarInFlight) <= usage.oscar
         /\ usage.total < DailyLimit /\ usage.oscar <= OscarLimit
         /\ Purpose(p) = 1 => usage.oscar < OscarLimit
    BY <1>4, <2>3 DEF BudgetInv, Funded, MayReserve
  <2>11. Funded'
    BY <1>0, <2>3, <2>8, <2>9, <2>10, Finite DEF Funded
  <2> QED BY <2>5, <2>11 DEF BudgetInv
<1> QED BY <1>2, <1>3, <1>4

(* A request uses up the reservation of its process; a stop may have it     *)
(* unsent.                                                                  *)
LEMMA SendKeeps ==
    ASSUME BudgetInv, NEW w \in Workers, Send(w)
    PROVE  BudgetInv'
<1> USE FieldNames DEF Sound
<1> DEFINE p == proc[w]
<1>0. Sound(p) /\ Shaped /\ usage' = usage
  BY DEF BudgetInv, Shaped, Send, bounds, others
<1>1. sent' \in {sent, Sent(p)}
  BY DEF Send
<1>2. PICK q : Idling(q) /\ proc' = [proc EXCEPT ![w] = q]
  <2>1. Idling(Thrown(p, "cancelled"))
    BY <1>0, ThrownIdles
  <2>2. \A outcome : Idling(After(p, outcome))
    BY <1>0 DEF After, Answered, Idling
  <2> QED BY <2>1, <2>2 DEF Send
<1>3. CASE sent' = sent
  BY <1>0, <1>2, <1>3, MovesKeep DEF Moves, Shaped
<1>4. CASE sent' # sent
  <2>1. /\ p.today /\ sent' = [total |-> sent.total + 1, oscar |-> sent.oscar + Purpose(p)]
    BY <1>1, <1>4 DEF Sent
  <2>2. Purpose(p) \in {0, 1} /\ (Purpose(p) = 1 <=> p.task = "oscar")
    BY DEF Purpose
  <2>3. Shaped'
    <3>1. \A v \in Workers : Sound(proc[v])'
      BY <1>0, <1>2 DEF Shaped, Idling
    <3>2. sent' \in [total : Nat, oscar : Nat]
      BY <1>0, <2>1, <2>2 DEF Shaped
    <3> QED BY <1>0, <1>2, <3>1, <3>2 DEF Shaped
  <2>4. w \in InFlight /\ (Purpose(p) = 1 => w \in OscarInFlight)
    BY <2>1, <2>2 DEF InFlight, OscarInFlight, Send
  <2>5. InFlight' \subseteq InFlight \ {w} /\ OscarInFlight' \subseteq OscarInFlight \ {w}
    BY <1>0, <1>2 DEF InFlight, OscarInFlight, At, Shaped, Idling
  <2>6. /\ IsFiniteSet(InFlight \ {w})
        /\ Cardinality(InFlight \ {w}) = Cardinality(InFlight) - 1
        /\ IsFiniteSet(OscarInFlight \ {w})
        /\ Cardinality(OscarInFlight \ {w}) <= Cardinality(OscarInFlight) - Purpose(p)
    <3>1. /\ IsFiniteSet(InFlight \ {w})
          /\ Cardinality(InFlight \ {w}) = Cardinality(InFlight) - 1
      BY <2>4, Finite, Removing
    <3>2. /\ IsFiniteSet(OscarInFlight \ {w})
          /\ Cardinality(OscarInFlight \ {w}) <= Cardinality(OscarInFlight)
          /\ w \in OscarInFlight =>
               Cardinality(OscarInFlight \ {w}) = Cardinality(OscarInFlight) - 1
      BY Finite, Removing
    <3> QED BY <2>2, <2>4, <3>1, <3>2, Finite
  <2>7. /\ IsFiniteSet(InFlight') /\ IsFiniteSet(OscarInFlight')
        /\ Cardinality(InFlight') <= Cardinality(InFlight \ {w})
        /\ Cardinality(OscarInFlight') <= Cardinality(OscarInFlight \ {w})
    BY <2>5, <2>6, FS_Subset
  <2>8. /\ Cardinality(InFlight') \in Nat /\ Cardinality(OscarInFlight') \in Nat
        /\ Cardinality(InFlight \ {w}) \in Nat /\ Cardinality(OscarInFlight \ {w}) \in Nat
    BY <2>6, <2>7, FS_CardinalityType
  <2>9. /\ usage.total \in Nat /\ usage.oscar \in Nat
        /\ sent.total \in Nat /\ sent.oscar \in Nat
        /\ sent'.total = sent.total + 1 /\ sent'.oscar = sent.oscar + Purpose(p)
    BY <1>0, <2>1 DEF Shaped
  <2>10. /\ sent.total + Cardinality(InFlight) <= usage.total
         /\ sent.oscar + Cardinality(OscarInFlight) <= usage.oscar
         /\ usage.total <= DailyLimit /\ usage.oscar <= OscarLimit
    BY DEF BudgetInv, Funded
  <2>11. Funded'
    BY <1>0, <2>2, <2>6, <2>7, <2>8, <2>9, <2>10, Finite DEF Funded
  <2> QED BY <2>3, <2>11 DEF BudgetInv
<1> QED BY <1>3, <1>4

-----------------------------------------------------------------------------
(* Every step *)

LEMMA ProcessKeeps ==
    ASSUME BudgetInv, NEW w \in Workers, ProcessStep(w)
    PROVE  BudgetInv'
<1> USE FieldNames DEF Sound
<1> DEFINE p == proc[w]
<1>0. Sound(p) /\ Shaped
  BY DEF BudgetInv, Shaped
<1>1. CASE Acquire(w)
  <2>1. Idling([p EXCEPT !.pc = "settings"])
    BY <1>0 DEF Idling
  <2>2. \E q : Idling(q) /\ proc' = [proc EXCEPT ![w] = q]
    <3>1. CASE lock = NoWorker
      BY <1>0, <1>1, <2>1, <3>1, ContinueIdles DEF Acquire
    <3>2. CASE lock # NoWorker
      BY <1>0, <1>1, <3>2, FreshIdles, ContinueIdles DEF Acquire
    <3> QED BY <3>1, <3>2
  <2>3. usage' = usage /\ sent' = sent
    BY <1>1 DEF Acquire, observed, requests, others
  <2> QED BY <1>0, <2>2, <2>3, MovesKeep DEF Moves, Shaped
<1>2. CASE ReadSettings(w)
  <2>1. Idling([p EXCEPT !.pc = "startRun"])
    BY <1>0 DEF Idling
  <2>2. \E q : Idling(q) /\ proc' = [proc EXCEPT ![w] = q]
    BY <1>0, <1>2, <2>1, ContinueIdles DEF ReadSettings
  <2>3. usage' = usage /\ sent' = sent
    BY <1>2 DEF ReadSettings, observed, requests, others
  <2> QED BY <1>0, <2>2, <2>3, MovesKeep DEF Moves, Shaped
<1>3. CASE LookupStep(w)
  BY <1>3, LookupMoves, MovesKeep, ReserveKeeps, SendKeeps DEF LookupStep
<1>4. CASE IngestionStep(w)
  BY <1>4, IngestionMoves, MovesKeep
<1>5. CASE EnrichmentStep(w)
  BY <1>5, EnrichmentMoves, MovesKeep
<1>6. CASE Exit(w)
  BY <1>0, <1>6, FreshIdles, MovesKeep DEF Exit, Moves, Shaped, observed, requests, bounds, others
<1> QED BY <1>1, <1>2, <1>3, <1>4, <1>5, <1>6 DEF ProcessStep

LEMMA EnvironmentKeeps ==
    ASSUME BudgetInv, NEW w \in Workers,
           StartManual(w) \/ Stop(w) \/ Kill(w) \/ DropConnection(w)
    PROVE  BudgetInv'
<1> USE FieldNames DEF Sound
<1> DEFINE p == proc[w]
<1>0. Sound(p) /\ Shaped /\ usage' = usage /\ sent' = sent
  BY DEF BudgetInv, Shaped, StartManual, Stop, Kill, DropConnection, observed, requests
<1>1. CASE StartManual(w)
  <2>1. Idling([p EXCEPT !.pc = "acquire"])
    BY <1>0 DEF Idling
  <2> QED BY <1>0, <1>1, <2>1, MovesKeep DEF StartManual, Moves, Shaped
<1>2. CASE Stop(w)
  <2>1. proc' = [proc EXCEPT ![w] = [p EXCEPT !.stopping = TRUE]]
    BY <1>2 DEF Stop
  <2>2. Shaped'
    <3>1. \A v \in Workers : Sound(proc[v])'
      BY <1>0, <2>1 DEF Shaped
    <3> QED BY <1>0, <2>1, <3>1 DEF Shaped
  <2>3. \A v \in Workers : /\ proc'[v].pc = proc[v].pc /\ proc'[v].today = proc[v].today
                           /\ proc'[v].task = proc[v].task
    BY <1>0, <2>1 DEF Shaped
  <2> QED BY <1>0, <2>2, <2>3, NothingSpent DEF At
<1>3. CASE Kill(w)
  <2>1. proc' = [proc EXCEPT ![w] = Fresh]
    BY <1>3 DEF Kill
  <2> QED BY <1>0, <2>1, FreshIdles, MovesKeep DEF Moves, Shaped
<1>4. CASE DropConnection(w)
  <2>1. proc' = proc
    BY <1>4 DEF DropConnection
  <2> QED BY <1>0, <2>1, NothingSpent DEF At, Shaped
<1> QED BY <1>1, <1>2, <1>3, <1>4

LEMMA TimeKeeps ==
    ASSUME BudgetInv, Midnight \/ TimerTick
    PROVE  BudgetInv'
<1> USE FieldNames DEF Sound
<1>0. Shaped /\ \A w \in Workers : Sound(proc[w])
  BY DEF BudgetInv, Shaped
<1>1. CASE Midnight
  <2>1. /\ usage' = [total |-> 0, oscar |-> 0, quota |-> FALSE]
        /\ sent' = [total |-> 0, oscar |-> 0]
        /\ proc' = [w \in Workers |-> [proc[w] EXCEPT
                      !.today = @ /\ proc[w].pc \notin {"send", "mark"},
                      !.begun = @ /\ ~Attempting(w)]]
    BY <1>1 DEF Midnight, TimePasses, bounds, others
  <2>2. Shaped'
    BY <1>0, <2>1 DEF Shaped
  <2>3. \A w \in Workers : /\ proc'[w].pc = proc[w].pc
                           /\ proc'[w].pc = "send" => ~proc'[w].today
    BY <1>0, <2>1
  <2>4. InFlight' = {} /\ OscarInFlight' = {}
    BY <2>3 DEF InFlight, OscarInFlight, At
  <2>5. Cardinality(InFlight') = 0 /\ Cardinality(OscarInFlight') = 0
    BY <2>4, FS_EmptySet
  <2>6. DailyLimit \in Nat /\ OscarLimit \in Nat
    BY NextAssumption
  <2>7. usage'.total = 0 /\ usage'.oscar = 0 /\ sent'.total = 0 /\ sent'.oscar = 0
    BY <2>1
  <2>8. Funded'
    BY <2>5, <2>6, <2>7 DEF Funded
  <2> QED BY <2>2, <2>8 DEF BudgetInv
<1>2. CASE TimerTick
  <2>1. Idling([proc[Scheduled] EXCEPT !.pc = "acquire"]) /\ Scheduled \in Workers
    BY <1>0, NextAssumption DEF Idling
  <2>2. /\ proc' = [proc EXCEPT ![Scheduled] = [proc[Scheduled] EXCEPT !.pc = "acquire"]]
        /\ usage' = usage /\ sent' = sent
    BY <1>2 DEF TimerTick, requests
  <2> QED BY <1>0, <2>1, <2>2, MovesKeep DEF Moves, Shaped
<1> QED BY <1>1, <1>2

LEMMA InitFunded == Init => BudgetInv
<1> SUFFICES ASSUME Init PROVE BudgetInv
  OBVIOUS
<1>1. Shaped
  BY FreshIdles DEF Init, Shaped, Idling, Sound
<1>2. \A w \in Workers : ~At(w, "send")
  BY FreshIdles DEF Init, At
<1>3. InFlight = {} /\ OscarInFlight = {}
  BY <1>2 DEF InFlight, OscarInFlight
<1>4. Cardinality(InFlight) = 0 /\ Cardinality(OscarInFlight) = 0
  BY <1>3, FS_EmptySet
<1> QED BY <1>1, <1>4, NextAssumption DEF BudgetInv, Funded, Init

LEMMA NextFunded == BudgetInv /\ [Next]_vars => BudgetInv'
<1> SUFFICES ASSUME BudgetInv, [Next]_vars PROVE BudgetInv'
  OBVIOUS
<1>1. CASE Next
  BY <1>1, ProcessKeeps, EnvironmentKeeps, TimeKeeps DEF Next
<1>2. CASE UNCHANGED vars
  <2>1. proc' = proc /\ usage' = usage /\ sent' = sent
    BY <1>2 DEF vars
  <2> QED BY <2>1, NothingSpent DEF BudgetInv, Shaped, Sound, At
<1> QED BY <1>1, <1>2

LEMMA FundedRespects == BudgetInv => BudgetRespected
<1> SUFFICES ASSUME BudgetInv PROVE BudgetRespected
  OBVIOUS
<1>1. /\ usage.total \in Nat /\ usage.oscar \in Nat
      /\ sent.total \in Nat /\ sent.oscar \in Nat
  BY DEF BudgetInv, Shaped
<1>2. /\ sent.total + Cardinality(InFlight) <= usage.total
      /\ sent.oscar + Cardinality(OscarInFlight) <= usage.oscar
      /\ usage.total <= DailyLimit /\ usage.oscar <= OscarLimit
  BY DEF BudgetInv, Funded
<1> QED BY <1>1, <1>2, Finite DEF BudgetRespected

(* The requests of a day never exceed its reservations, nor these the       *)
(* daily limit and Oscar enrichment's part of it, however many processes    *)
(* run at once and whatever calls raise, stop or are killed between a       *)
(* reservation and its request (TryReserveAsync in OmdbClient).             *)
THEOREM BudgetAlwaysRespected == Spec => []BudgetRespected
<1>1. Init => BudgetInv
  BY InitFunded
<1>2. BudgetInv /\ [Next]_vars => BudgetInv'
  BY NextFunded
<1>3. BudgetInv => BudgetRespected
  BY FundedRespects
<1> QED BY <1>1, <1>2, <1>3, PTL DEF Spec

-----------------------------------------------------------------------------
(* The quota: who may still send *)

(* A process is about to record what the provider said today. *)
Marking == \E w \in Workers : At(w, "mark") /\ proc[w].today

(* Once the provider has said it, it is recorded, or about to be, or the    *)
(* process that heard it did not get to.                                    *)
Heeded == told => usage.quota \/ muted \/ Marking

(* Once it is recorded, whoever is about to send had reserved before.       *)
Foreseen == usage.quota => InFlight \subseteq ahead

QuotaInv == BudgetInv /\ Heeded /\ Foreseen

(* The steps that have nothing to do with a request. *)
Inner(w) == \/ Acquire(w) \/ ReadSettings(w) \/ Exit(w) \/ ReadCache(w) \/ Store(w)
            \/ IngestionStep(w) \/ EnrichmentStep(w)

LEMMA StepKinds ==
    ASSUME NEW w \in Workers, ProcessStep(w)
    PROVE  Inner(w) \/ Reserve(w) \/ Send(w) \/ Mark(w)
BY DEF ProcessStep, LookupStep, Inner

LEMMA InnerApart ==
    ASSUME NEW w \in Workers, Inner(w)
    PROVE  /\ ~At(w, "mark")
           /\ usage' = usage /\ requests' = requests
<1>1. CASE Acquire(w) \/ ReadSettings(w) \/ Exit(w)
  BY <1>1 DEF Acquire, ReadSettings, Exit, At, observed
<1>2. CASE ReadCache(w) \/ Store(w)
  BY <1>2 DEF ReadCache, Store, At, observed
<1>3. CASE IngestionStep(w)
  BY <1>3 DEF IngestionStep, StartRun, ReadSources, FetchFeed, TakeEntry, EntryAnswered,
              UpsertCatalogItem, FlushLogs, CompleteRun, InRss, At, observed
<1>4. CASE EnrichmentStep(w)
  BY <1>4 DEF EnrichmentStep, OscarStart, ReadCandidates, TakeFilm, SaveProgress,
              SaveOutcome, Finish, InOscar, At, observed
<1> QED BY <1>1, <1>2, <1>3, <1>4 DEF Inner

LEMMA InnerIdles ==
    ASSUME BudgetInv, NEW w \in Workers, Inner(w)
    PROVE  \E q : Idling(q) /\ proc' = [proc EXCEPT ![w] = q]
<1>0. Sound(proc[w]) /\ Shaped
  BY DEF BudgetInv, Shaped
<1>1. CASE Acquire(w) \/ ReadSettings(w)
  <2>1. /\ Idling([proc[w] EXCEPT !.pc = "settings"])
        /\ Idling([proc[w] EXCEPT !.pc = "startRun"])
    BY <1>0, FieldNames DEF Idling, Sound
  <2> QED BY <1>0, <1>1, <2>1, FreshIdles, ContinueIdles DEF Acquire, ReadSettings
<1>2. CASE Exit(w)
  BY <1>2, FreshIdles DEF Exit
<1>3. CASE ReadCache(w) \/ Store(w) \/ IngestionStep(w) \/ EnrichmentStep(w)
  BY <1>3, LookupMoves, IngestionMoves, EnrichmentMoves DEF Moves
<1> QED BY <1>1, <1>2, <1>3 DEF Inner

(* A process that is not about to record anything goes on, and not to a     *)
(* request.                                                                 *)
LEMMA QuietMove ==
    ASSUME QuotaInv, BudgetInv', NEW w \in Workers, ~At(w, "mark"),
           NEW q, Idling(q), proc' = [proc EXCEPT ![w] = q],
           usage'.quota = usage.quota, requests' = requests
    PROVE  QuotaInv'
<1>1. /\ DOMAIN proc = Workers /\ told' = told /\ muted' = muted /\ ahead' = ahead
  BY DEF QuotaInv, BudgetInv, Shaped, requests
<1>2. InFlight' \subseteq InFlight
  BY <1>1 DEF InFlight, At, Idling
<1>3. Marking => Marking'
  BY <1>1 DEF Marking, At
<1> QED BY <1>1, <1>2, <1>3 DEF QuotaInv, Heeded, Foreseen

-----------------------------------------------------------------------------
(* The steps and the quota *)

(* With the quota recorded nothing is reserved.                             *)
LEMMA ReserveKeepsQuota ==
    ASSUME QuotaInv, NEW w \in Workers, Reserve(w)
    PROVE  QuotaInv'
<1> DEFINE p == proc[w]
           ready == [p EXCEPT !.pc = "send", !.today = TRUE]
<1>0. /\ BudgetInv /\ Shaped /\ Sound(p) /\ ~At(w, "mark")
      /\ told' = told /\ muted' = muted /\ ahead' = ahead /\ requests' = requests
  BY DEF QuotaInv, BudgetInv, Shaped, Reserve, At, observed, requests
<1>1. BudgetInv'
  BY <1>0, ReserveKeeps
<1>2. PICK reply :
        /\ usage' = IF Landed(reply) /\ MayReserve(p)
                    THEN [usage EXCEPT !.total = @ + 1, !.oscar = @ + Purpose(p)]
                    ELSE usage
        /\ Continue(w, reply, IF MayReserve(p) THEN ready ELSE Answered(p, "budget"), p)
  BY DEF Reserve
<1>3. usage'.quota = usage.quota
  BY <1>0, <1>2 DEF Shaped
<1>4. CASE MayReserve(p)
  <2>1. ~usage'.quota
    BY <1>3, <1>4 DEF MayReserve
  <2>2. PICK q : proc' = [proc EXCEPT ![w] = q]
    BY <1>2 DEF Continue
  <2>3. Marking => Marking'
    BY <1>0, <2>2 DEF Marking, At, Shaped
  <2> QED BY <1>0, <1>1, <1>3, <2>1, <2>3 DEF QuotaInv, Heeded, Foreseen
<1>5. CASE ~MayReserve(p)
  <2>1. Idling(Answered(p, "budget"))
    BY <1>0, FieldNames DEF Answered, Idling, Sound
  <2>2. PICK q : Idling(q) /\ proc' = [proc EXCEPT ![w] = q]
    BY <1>0, <1>2, <1>5, <2>1, ContinueIdles
  <2> QED BY <1>0, <1>1, <1>3, <2>2, QuietMove
<1> QED BY <1>4, <1>5

(* Whoever hears of the quota goes on to record it.                         *)
LEMMA SendKeepsQuota ==
    ASSUME QuotaInv, NEW w \in Workers, Send(w)
    PROVE  QuotaInv'
<1>0. /\ BudgetInv /\ Heeded /\ Foreseen /\ Shaped /\ Sound(proc[w])
      /\ At(w, "send") /\ usage' = usage /\ muted' = muted /\ ahead' = ahead \ {w}
  BY DEF QuotaInv, BudgetInv, Shaped, Send
<1>1. BudgetInv'
  BY <1>0, SendKeeps
<1>2. PICK q : /\ proc' = [proc EXCEPT ![w] = q] /\ q.pc # "send"
               /\ told' => told \/ (q.pc = "mark" /\ q.today)
  <2>1. CASE proc[w].stopping
    <3>1. proc' = [proc EXCEPT ![w] = Thrown(proc[w], "cancelled")] /\ told' = told
      BY <2>1 DEF Send
    <3>2. Thrown(proc[w], "cancelled").pc # "send"
      BY <1>0, ThrownIdles DEF Idling
    <3> QED BY <3>1, <3>2
  <2>2. CASE ~proc[w].stopping
    <3>1. PICK outcome :
            /\ proc' = [proc EXCEPT ![w] = After(proc[w], outcome)]
            /\ told' = (told \/ (outcome = "quota" /\ proc[w].today))
      BY <2>2 DEF Send
    <3>2. After(proc[w], outcome).pc # "send"
      BY <1>0, FieldNames DEF After, Answered, Sound
    <3>3. outcome = "quota" => /\ After(proc[w], outcome).pc = "mark"
                               /\ After(proc[w], outcome).today = proc[w].today
      BY <1>0, FieldNames DEF After, Sound
    <3>4. CASE outcome = "quota" /\ proc[w].today
      BY <3>1, <3>2, <3>3, <3>4
    <3>5. CASE ~(outcome = "quota" /\ proc[w].today)
      BY <3>1, <3>2, <3>5
    <3> QED BY <3>4, <3>5
  <2> QED BY <2>1, <2>2
<1>3. InFlight' \subseteq InFlight \ {w}
  BY <1>0, <1>2 DEF InFlight, At, Shaped
<1>4. Foreseen'
  BY <1>0, <1>3 DEF Foreseen
<1>5. Marking => Marking'
  BY <1>0, <1>2 DEF Marking, At, Shaped
<1>6. q.pc = "mark" /\ q.today => Marking'
  BY <1>0, <1>2 DEF Marking, At, Shaped
<1> QED BY <1>0, <1>1, <1>2, <1>4, <1>5, <1>6 DEF QuotaInv, Heeded

(* The call that records it says who is ahead of it.                        *)
LEMMA MarkKeepsQuota ==
    ASSUME QuotaInv, NEW w \in Workers, Mark(w)
    PROVE  QuotaInv'
<1>0. BudgetInv /\ Heeded /\ Foreseen /\ Shaped /\ At(w, "mark") /\ told' = told
  BY DEF QuotaInv, BudgetInv, Mark
<1>1. PICK q : Idling(q) /\ proc' = [proc EXCEPT ![w] = q]
  BY <1>0, LookupMoves DEF Moves
<1>2. BudgetInv'
  BY <1>0, LookupMoves, MovesKeep
<1>3. PICK reply :
        /\ usage' = IF Landed(reply) /\ proc[w].today
                    THEN [usage EXCEPT !.quota = TRUE] ELSE usage
        /\ ahead' = IF usage'.quota /\ ~usage.quota THEN InFlight ELSE ahead
        /\ muted' = (muted \/ (proc[w].today /\ ~Landed(reply)))
  BY DEF Mark
<1>4. InFlight' \subseteq InFlight
  BY <1>0, <1>1 DEF InFlight, At, Idling, Shaped
<1>5. Foreseen'
  BY <1>0, <1>3, <1>4 DEF Foreseen
<1>6. usage.quota => usage'.quota
  BY <1>0, <1>3 DEF Shaped
<1>7. proc[w].today => usage'.quota \/ muted'
  BY <1>0, <1>3 DEF Shaped
<1>8. ~proc[w].today /\ Marking => Marking'
  BY <1>0, <1>1 DEF Marking, At, Shaped
<1> QED BY <1>0, <1>2, <1>3, <1>5, <1>6, <1>7, <1>8 DEF QuotaInv, Heeded

LEMMA ProcessKeepsQuota ==
    ASSUME QuotaInv, NEW w \in Workers, ProcessStep(w)
    PROVE  QuotaInv'
<1>1. CASE Inner(w)
  <2>1. BudgetInv /\ BudgetInv'
    BY ProcessKeeps DEF QuotaInv
  <2>2. PICK q : Idling(q) /\ proc' = [proc EXCEPT ![w] = q]
    BY <1>1, <2>1, InnerIdles
  <2> QED BY <1>1, <2>1, <2>2, InnerApart, QuietMove
<1>2. CASE ~Inner(w)
  BY <1>2, StepKinds, ReserveKeepsQuota, SendKeepsQuota, MarkKeepsQuota
<1> QED BY <1>1, <1>2

(* A process that is killed is neither about to send nor about to record.   *)
LEMMA EnvironmentKeepsQuota ==
    ASSUME QuotaInv, NEW w \in Workers,
           StartManual(w) \/ Stop(w) \/ Kill(w) \/ DropConnection(w)
    PROVE  QuotaInv'
<1>0. /\ BudgetInv /\ Heeded /\ Foreseen /\ Shaped /\ Sound(proc[w])
      /\ usage' = usage /\ told' = told
  BY DEF QuotaInv, BudgetInv, Shaped, StartManual, Stop, Kill, DropConnection, observed,
         requests
<1>1. BudgetInv'
  BY <1>0, EnvironmentKeeps
<1>2. CASE StartManual(w)
  <2> DEFINE q == [proc[w] EXCEPT !.pc = "acquire"]
  <2>1. Idling(q)
    BY <1>0, FieldNames DEF Idling, Sound
  <2>2. proc' = [proc EXCEPT ![w] = q] /\ ~At(w, "mark") /\ requests' = requests
    BY <1>2 DEF StartManual, Active, At, observed
  <2> HIDE DEF q
  <2> QED BY <1>0, <1>1, <2>1, <2>2, QuietMove
<1>3. CASE Stop(w)
  <2>1. /\ proc' = [proc EXCEPT ![w] = [proc[w] EXCEPT !.stopping = TRUE]]
        /\ muted' = muted /\ ahead' = ahead
    BY <1>3 DEF Stop, observed, requests
  <2>2. \A v \in Workers : proc'[v].pc = proc[v].pc /\ proc'[v].today = proc[v].today
    BY <1>0, <2>1, FieldNames DEF Shaped, Sound
  <2>3. InFlight' = InFlight /\ (Marking => Marking')
    BY <2>2 DEF InFlight, Marking, At
  <2> QED BY <1>0, <1>1, <2>1, <2>3 DEF QuotaInv, Heeded, Foreseen
<1>4. CASE Kill(w)
  <2>1. /\ proc' = [proc EXCEPT ![w] = Fresh]
        /\ muted' = (muted \/ (At(w, "mark") /\ proc[w].today))
        /\ ahead' = ahead \ {w}
    BY <1>4 DEF Kill
  <2>2. InFlight' \subseteq InFlight \ {w}
    BY <1>0, <2>1, FreshIdles DEF InFlight, At, Shaped
  <2>3. Foreseen'
    BY <1>0, <2>1, <2>2 DEF Foreseen
  <2>4. CASE At(w, "mark") /\ proc[w].today
    BY <1>0, <1>1, <2>1, <2>3, <2>4 DEF QuotaInv, Heeded
  <2>5. CASE ~(At(w, "mark") /\ proc[w].today)
    <3>1. Marking => Marking'
      BY <1>0, <2>1, <2>5 DEF Marking, At, Shaped
    <3> QED BY <1>0, <1>1, <2>1, <2>3, <3>1 DEF QuotaInv, Heeded
  <2> QED BY <2>4, <2>5
<1>5. CASE DropConnection(w)
  <2>1. proc' = proc /\ muted' = muted /\ ahead' = ahead
    BY <1>5 DEF DropConnection, observed, requests
  <2> QED BY <1>0, <1>1, <2>1 DEF QuotaInv, Heeded, Foreseen, InFlight, Marking, At
<1> QED BY <1>2, <1>3, <1>4, <1>5

LEMMA TimeKeepsQuota ==
    ASSUME QuotaInv, Midnight \/ TimerTick
    PROVE  QuotaInv'
<1>1. BudgetInv /\ BudgetInv'
  BY TimeKeeps DEF QuotaInv
<1>2. CASE Midnight
  BY <1>1, <1>2 DEF Midnight, QuotaInv, Heeded, Foreseen
<1>3. CASE TimerTick
  <2> DEFINE q == [proc[Scheduled] EXCEPT !.pc = "acquire"]
  <2>1. Scheduled \in Workers /\ Idling(q)
    BY <1>1, NextAssumption, FieldNames DEF BudgetInv, Shaped, Idling, Sound
  <2>2. /\ proc' = [proc EXCEPT ![Scheduled] = q] /\ ~At(Scheduled, "mark")
        /\ usage' = usage /\ requests' = requests
    BY <1>3 DEF TimerTick, Active, At
  <2> HIDE DEF q
  <2> QED BY <1>1, <2>1, <2>2, QuietMove
<1> QED BY <1>2, <1>3

LEMMA InitQuota == Init => QuotaInv
BY InitFunded DEF Init, QuotaInv, Heeded, Foreseen

LEMMA NextQuota == QuotaInv /\ [Next]_vars => QuotaInv'
<1> SUFFICES ASSUME QuotaInv, [Next]_vars PROVE QuotaInv'
  OBVIOUS
<1>1. CASE Next
  BY <1>1, ProcessKeepsQuota, EnvironmentKeepsQuota, TimeKeepsQuota DEF Next
<1>2. CASE UNCHANGED vars
  <2>1. BudgetInv'
    BY NextFunded DEF QuotaInv
  <2>2. proc' = proc /\ usage' = usage /\ told' = told /\ muted' = muted /\ ahead' = ahead
    BY <1>2 DEF vars
  <2> QED BY <2>1, <2>2 DEF QuotaInv, Heeded, Foreseen, InFlight, Marking, At
<1> QED BY <1>1, <1>2

-----------------------------------------------------------------------------
(* What is sent after the quota *)

(* A step after which more has been sent that day is a request of one of    *)
(* those ahead, or the quota is not recorded.                               *)
LEMMA OnlyThoseAheadSend ==
    ASSUME QuotaInv, [Next]_vars, told, told', sent' # sent
    PROVE  \/ usage.quota /\ \E w \in ahead : At(w, "send") /\ ahead' = ahead \ {w}
           \/ ~usage.quota /\ (muted \/ \E w \in Workers : At(w, "mark") /\ proc[w].today)
<1>0. BudgetInv /\ Heeded /\ Foreseen
  BY DEF QuotaInv
<1>1. ASSUME NEW w \in Workers, ProcessStep(w), ~Send(w)
      PROVE  sent' = sent
  <2>1. Inner(w) => sent' = sent
    BY InnerApart DEF requests
  <2>2. Reserve(w) \/ Mark(w) => sent' = sent
    BY DEF Reserve, Mark, observed, requests
  <2> QED BY <1>1, <2>1, <2>2, StepKinds
<1>2. ASSUME NEW w \in Workers,
             StartManual(w) \/ Stop(w) \/ Kill(w) \/ DropConnection(w)
      PROVE  sent' = sent
  BY <1>2 DEF StartManual, Stop, Kill, DropConnection, observed, requests
<1>3. Midnight => ~told'
  BY DEF Midnight
<1>4. TimerTick \/ UNCHANGED vars => sent' = sent
  BY DEF TimerTick, requests, vars
<1>5. PICK w \in Workers : Send(w)
  BY <1>1, <1>2, <1>3, <1>4 DEF Next
<1>6. w \in InFlight /\ At(w, "send") /\ ahead' = ahead \ {w}
  BY <1>5 DEF Send, Sent, InFlight
<1>7. CASE usage.quota
  BY <1>0, <1>6, <1>7 DEF Foreseen
<1>8. CASE ~usage.quota
  BY <1>0, <1>8 DEF Heeded, Marking
<1> QED BY <1>7, <1>8

(* Once the provider has said that its quota is used up and this has been   *)
(* recorded, nothing is sent that day but what was reserved by then, each   *)
(* request once, whatever the number of processes, the task they are at,    *)
(* and the calls that raise, the stops, kills and lost connections before   *)
(* and after; and until it is recorded something is sent only while a       *)
(* process is about to record it or when one was refused, stopped or killed *)
(* there (MarkProviderQuotaExceededAsync and TryReserveAsync).              *)
THEOREM AlwaysQuietAfterQuota == Spec => QuietAfterQuota
<1>1. Init => QuotaInv
  BY InitQuota
<1>2. QuotaInv /\ [Next]_vars => QuotaInv'
  BY NextQuota
<1>3. QuotaInv /\ [Next]_vars =>
        [told /\ told' /\ sent' # sent =>
           \/ usage.quota /\ \E w \in ahead : At(w, "send") /\ ahead' = ahead \ {w}
           \/ ~usage.quota /\ (muted \/ \E w \in Workers : At(w, "mark") /\ proc[w].today)
        ]_vars
  BY OnlyThoseAheadSend
<1> QED BY <1>1, <1>2, <1>3, PTL DEF Spec, QuietAfterQuota

=============================================================================
