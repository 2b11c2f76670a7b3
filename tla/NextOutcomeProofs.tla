------------------------- MODULE NextOutcomeProofs --------------------------
(***************************************************************************)
(* What the runs of NextWorker leave behind, for any number of processes,  *)
(* films and feeds: the types, the tally that an Oscar run gives of the    *)
(* films it stored, the films that stay settled, and the entries and logs  *)
(* of a scan run that says it succeeded.                                   *)
(***************************************************************************)
EXTENDS NextBudgetProofs, WellFoundedInduction

-----------------------------------------------------------------------------
(* Type correctness *)

(* A film that is tracked has an outcome. *)
Units == {u \in Unit : \A f \in Films :
             u.films[f] # NoFilm => u.films[f].status # "pending"}

(* Where a process can be, and what it has in hand there. *)
Placed(q) ==
    /\ q.pc \in RssOnly \cup {"idle", "acquire", "settings"} => q.task = "rss"
    /\ q.pc \in OscarOnly => q.task = "oscar"
    /\ q.pc \in Lookup => q.key \in Keys
    /\ q.pc = "store" => q.result \in Answers
    /\ q.pc = "answered" => q.result # "none"
    /\ q.pc = "saveFilm" => q.result \in {"found", "not_found", "quota", "failure"}
    /\ q.task = "rss" /\ q.pc \in Lookup \cup {"fetch", "entry", "upsert", "flush"}
         => q.source \in DOMAIN FeedOf
    /\ q.task = "rss" /\ q.pc \in Lookup \cup {"upsert"} => q.entry \in DOMAIN Feed(q)
    /\ q.task = "rss" /\ q.pc = "entry" => q.entry # 0
    /\ q.task = "oscar" /\ q.pc \in Lookup \cup {"saveFilm", "progress"} => q.films # <<>>
    /\ q.pc \in {"final", "complete"} => q.verdict \in {"succeeded", "partial", "failed"}
    /\ q.pc = "finish" => q.verdict \in OscarStatus
    /\ IsFiniteSet(q.pending)
    /\ q.unit \in Units

Typed(q) == q \in Memory /\ Placed(q)

TypeInv == TypeOK /\ DOMAIN proc = Workers /\ \A w \in Workers : Placed(proc[w])

(* One process goes on. *)
GoesOn(w) == \E q : Typed(q) /\ proc' = [proc EXCEPT ![w] = q]

LEMMA CleanTyped == Clean \in Units
BY DEF Clean, Unit, Units

LEMMA FreshTyped == Typed(Fresh) /\ Fresh.pc = "idle" /\ Fresh.task = "rss"
<1>1. Fresh \in Memory
  <2>1. <<>> \in Seq([film : Films, attempts : 0..6])
    OBVIOUS
  <2> QED BY CleanTyped, <2>1 DEF Fresh, Memory, Results, ScanStatus, Units
<1>2. /\ Fresh.pc = "idle" /\ Fresh.task = "rss" /\ Fresh.pending = {}
      /\ Fresh.unit = Clean
  BY DEF Fresh
<1>3. IsFiniteSet({})
  BY FS_EmptySet
<1> QED BY <1>1, <1>2, <1>3, CleanTyped DEF Typed, Placed, RssOnly, OscarOnly, Lookup

(* What a memory is made of, but for where it is and what it asks for. *)
Rest(q) == <<q.task, q.stopping, q.unit, q.source, q.entry, q.pending, q.films,
             q.processed, q.soft>>

LEMMA UnaskedTyped ==
    ASSUME NEW p \in Memory
    PROVE  /\ Unasked(p) \in Memory
           /\ Rest(Unasked(p)) = Rest(p)
           /\ Unasked(p).pc = p.pc /\ Unasked(p).verdict = p.verdict
  BY ZenonT(60) DEF Unasked, Memory, Rest, Results, Answers

(* AddLog keeps finitely many logs. *)
LEMMA LoggedTyped ==
    ASSUME NEW p \in Memory, IsFiniteSet(p.pending), NEW item \in Items
    PROVE  LET q == Logged(p, item) IN
           /\ q \in Memory /\ IsFiniteSet(q.pending)
           /\ q.task = p.task /\ q.pc = p.pc /\ q.verdict = p.verdict
           /\ q.source = p.source /\ q.entry = p.entry /\ q.films = p.films
           /\ q.processed = p.processed /\ q.soft = p.soft /\ q.unit = p.unit
           /\ q.stopping = p.stopping /\ q.key = p.key /\ q.result = p.result
           /\ q.erred = p.erred
<1> DEFINE more == p.pending \cup {item}
<1>1. IsFiniteSet(more)
  BY FS_AddElement
<1>2. more \in SUBSET Items
  BY DEF Memory
<1> HIDE DEF more
<1>3. Logged(p, item) \in {p, [p EXCEPT !.pending = more]}
  BY DEF Logged, more
<1>4. CASE Logged(p, item) = p
  BY <1>4
<1>5. CASE Logged(p, item) = [p EXCEPT !.pending = more]
  BY <1>1, <1>2, <1>5 DEF Memory
<1> QED BY <1>3, <1>4, <1>5

(* The verdict leaves the rest alone. *)
LEMMA JudgedTyped ==
    ASSUME NEW p, Typed(p), p.task = "rss"
    PROVE  /\ Typed(Judged(p)) /\ Rest(Judged(p)) = Rest(p)
           /\ Judged(p).pc = "final"
<1> DEFINE q == Judged(p)
<1>1. /\ q \in Memory /\ q.pc = "final" /\ Rest(q) = Rest(p)
      /\ q.verdict \in {"succeeded", "partial", "failed"}
  BY ZenonT(60) DEF Typed, Memory, Judged, RssOnly, ScanStatus, Rest
<1>2. q.task = "rss" /\ q.pending = p.pending /\ q.unit = p.unit
  BY <1>1 DEF Rest
<1> SUFFICES Typed(q)
  BY <1>1
<1> HIDE DEF q
<1> QED BY <1>1, <1>2 DEF Typed, Placed, RssOnly, OscarOnly, Lookup

(* A process that has left the work it was at, with nothing in hand. *)
LEMMA LeavingTyped ==
    ASSUME NEW q \in Memory, IsFiniteSet(q.pending), q.unit \in Units,
           \/ q.pc = "exit"
           \/ q.pc \in {"cancelFlush", "cancelComplete"} /\ q.task = "rss"
           \/ q.pc = "flush" /\ q.task = "rss" /\ q.source \in DOMAIN FeedOf
           \/ q.pc \in {"candidates", "eligible", "nextFilm"} /\ q.task = "oscar"
           \/ q.pc = "finish" /\ q.task = "oscar" /\ q.verdict \in OscarStatus
    PROVE  Placed(q)
  BY DEF Placed, RssOnly, OscarOnly, Lookup

(* The feed a process is at has a source and entries. *)
LEMMA FeedTyped ==
    ASSUME NEW i \in DOMAIN FeedOf
    PROVE  FeedOf[i][1] \in Items /\ FeedOf[i][2] \in Seq(Entries)
<1>1. FeedOf[i] \in Sources \X Seq(Entries)
  BY NextAssumption
<1> QED BY <1>1 DEF Items

LEMMA ThrownInRssTyped ==
    ASSUME NEW p, Typed(p), p.task = "rss", NEW reply,
           p.pc \notin {"idle", "acquire", "settings", "exit"}
    PROVE  LET q == ThrownInRss(p, reply) IN
           /\ Typed(q) /\ q.task = "rss" /\ q.films = p.films
           /\ q.processed = p.processed /\ q.soft = p.soft /\ q.unit = p.unit
           /\ q.pc \in {"exit", "cancelFlush", "flush", "final"}
<1> DEFINE q == ThrownInRss(p, reply)
<1>0. p \in Memory /\ Placed(p) /\ IsFiniteSet(p.pending) /\ p.unit \in Units
  BY DEF Typed, Placed
<1>1. CASE p.pc \in {"startRun", "final", "complete", "cancelFlush", "cancelComplete"}
  <2> DEFINE r == [p EXCEPT !.pc = "exit"]
  <2>1. q = r
    BY <1>1 DEF ThrownInRss
  <2>2. r \in Memory /\ Rest(r) = Rest(p) /\ r.pc = "exit"
    BY <1>0 DEF Memory, Rest
  <2> HIDE DEF q, r
  <2> QED BY <1>0, <2>1, <2>2, LeavingTyped DEF Rest, Typed, q
<1>2. CASE /\ p.pc \notin {"startRun", "final", "complete", "cancelFlush", "cancelComplete"}
           /\ reply = "cancelled"
  <2> DEFINE r == [p EXCEPT !.pc = "cancelFlush", !.erred = TRUE]
  <2>1. q = r
    BY <1>2 DEF ThrownInRss
  <2>2. r \in Memory /\ Rest(r) = Rest(p) /\ r.pc = "cancelFlush"
    BY <1>0 DEF Memory, RssOnly, Rest
  <2> HIDE DEF q, r
  <2> QED BY <1>0, <2>1, <2>2, LeavingTyped DEF Rest, Typed, q
<1>3. CASE p.pc \in {"sources", "flush"} /\ reply # "cancelled"
  <2> DEFINE r == [p EXCEPT !.erred = TRUE]
  <2>1. q = Judged(r)
    BY <1>3 DEF ThrownInRss
  <2>2. r \in Memory /\ Rest(r) = Rest(p) /\ r.pc = p.pc
    BY <1>0 DEF Memory, Rest
  <2>3. Typed(r)
    BY <1>0, <1>3, <2>2, LeavingTyped DEF Typed, Placed, Rest, Lookup, OscarOnly, RssOnly
  <2> HIDE DEF q, r
  <2>4. Typed(Judged(r)) /\ Rest(Judged(r)) = Rest(p) /\ Judged(r).pc = "final"
    BY <2>2, <2>3, JudgedTyped DEF Rest
  <2> QED BY <2>1, <2>4 DEF Rest, q
<1>4. CASE p.pc \in Lookup \cup {"fetch", "entry", "upsert"} /\ reply # "cancelled"
  <2> DEFINE r == [p EXCEPT !.pc = "flush", !.erred = TRUE]
             item == FeedOf[p.source][1]
  <2>1. q = Logged(r, item)
    BY <1>4 DEF ThrownInRss, Lookup
  <2>2. r \in Memory /\ Rest(r) = Rest(p) /\ r.pc = "flush"
    BY <1>0 DEF Memory, RssOnly, Rest
  <2>3. p.source \in DOMAIN FeedOf
    BY <1>0, <1>4 DEF Placed
  <2>4. item \in Items
    BY <2>3, FeedTyped
  <2>5. /\ r.pending = p.pending /\ r.task = "rss" /\ r.source = p.source
        /\ r.films = p.films /\ r.processed = p.processed /\ r.soft = p.soft
        /\ r.unit = p.unit
    BY <2>2 DEF Rest
  <2> HIDE DEF q, r, item
  <2>6. LET l == Logged(r, item) IN
        /\ l \in Memory /\ IsFiniteSet(l.pending) /\ l.task = "rss" /\ l.pc = "flush"
        /\ l.source = p.source /\ l.films = p.films /\ l.unit = p.unit
        /\ l.processed = p.processed /\ l.soft = p.soft
    BY <1>0, <2>2, <2>4, <2>5, LoggedTyped
  <2>7. Placed(Logged(r, item))
    BY <1>0, <2>3, <2>6, LeavingTyped
  <2> QED BY <2>1, <2>6, <2>7 DEF Typed, q
<1>5. p.pc \in Lookup \cup RssOnly
  BY <1>0 DEF Memory, Placed
<1> QED BY <1>1, <1>2, <1>3, <1>4, <1>5 DEF RssOnly

LEMMA ThrownInOscarTyped ==
    ASSUME NEW p, Typed(p), p.task = "oscar", NEW reply
    PROVE  LET q == ThrownInOscar(p, reply) IN
           /\ Typed(q) /\ Rest(q) = Rest(p) /\ q.pc \in {"exit", "finish"}
           /\ q.pc = "finish" => q.verdict \in {"cancelled", "failed"}
<1> DEFINE q == ThrownInOscar(p, reply)
<1>1. /\ q \in Memory /\ Rest(q) = Rest(p) /\ q.pc \in {"exit", "finish"}
      /\ q.pc = "finish" => q.verdict \in {"cancelled", "failed"}
  <2>1. CASE p.pc \in {"oscarStart", "finish"}
    <3>1. q = [p EXCEPT !.pc = "exit"]
      BY <2>1 DEF ThrownInOscar
    <3> QED BY <3>1 DEF Typed, Memory, Rest
  <2>2. ASSUME NEW verdict \in {"cancelled", "failed"},
               q = [p EXCEPT !.pc = "finish", !.verdict = verdict]
        PROVE  /\ q \in Memory /\ Rest(q) = Rest(p) /\ q.pc = "finish"
               /\ q.verdict = verdict
    <3> HIDE DEF q
    <3> QED BY <2>2 DEF Typed, Memory, OscarOnly, OscarStatus, Rest
  <2>3. CASE p.pc \notin {"oscarStart", "finish"}
    <3>1. q = [p EXCEPT !.pc = "finish", !.verdict = "cancelled"]
             \/ q = [p EXCEPT !.pc = "finish", !.verdict = "failed"]
      BY <2>3 DEF ThrownInOscar
    <3> HIDE DEF q
    <3> QED BY <2>2, <3>1
  <2> QED BY <2>1, <2>3
<1>2. /\ q.task = "oscar" /\ q.pending = p.pending /\ IsFiniteSet(p.pending)
      /\ q.unit \in Units
  BY <1>1 DEF Rest, Typed, Placed
<1>3. Placed(q)
  <2> HIDE DEF q
  <2> QED BY <1>1, <1>2, LeavingTyped DEF OscarStatus
<1> QED BY <1>1, <1>3 DEF Typed

(* Where a process is after an exception. *)
Landing == {"exit", "cancelFlush", "flush", "final", "finish"}

LEMMA ThrownTyped ==
    ASSUME NEW p, Typed(p), p.pc \notin {"idle", "exit"}, NEW reply
    PROVE  LET q == Thrown(p, reply) IN
           /\ Typed(q) /\ q.task = p.task /\ q.films = p.films
           /\ q.processed = p.processed /\ q.soft = p.soft /\ q.unit = p.unit
           /\ q.pc \in Landing /\ (q.pc = "finish" <=> p.task = "oscar" /\ q.pc # "exit")
           /\ q.pc = "finish" => q.verdict \in {"cancelled", "failed"}
<1> DEFINE q == IF p.pc \in {"acquire", "settings"} THEN [p EXCEPT !.pc = "exit"]
                ELSE IF p.task = "rss" THEN ThrownInRss(p, reply)
                ELSE ThrownInOscar(p, reply)
           u == Unasked(q)
<1>0. p \in Memory /\ Placed(p) /\ p.task \in {"rss", "oscar"}
  BY DEF Typed, Memory
<1>1. /\ Typed(q) /\ q.task = p.task /\ q.films = p.films
      /\ q.processed = p.processed /\ q.soft = p.soft /\ q.unit = p.unit
      /\ q.pc \in Landing /\ (q.pc = "finish" <=> p.task = "oscar" /\ q.pc # "exit")
      /\ q.pc = "finish" => q.verdict \in {"cancelled", "failed"}
  <2>1. CASE p.pc \in {"acquire", "settings"}
    <3> DEFINE r == [p EXCEPT !.pc = "exit"]
    <3>1. q = r
      BY <2>1
    <3>2. r \in Memory /\ Rest(r) = Rest(p) /\ r.pc = "exit"
      BY <1>0 DEF Memory, Rest
    <3> HIDE DEF q, r
    <3>3. r.pending = p.pending /\ IsFiniteSet(p.pending) /\ r.unit \in Units
      BY <1>0, <3>2 DEF Rest, Placed
    <3> QED BY <3>1, <3>2, <3>3, LeavingTyped DEF Typed, Rest, Landing
  <2>2. CASE p.pc \notin {"acquire", "settings"} /\ p.task = "rss"
    <3>1. q = ThrownInRss(p, reply)
      BY <2>2
    <3> HIDE DEF q
    <3> QED BY <2>2, <3>1, ThrownInRssTyped DEF Landing
  <2>3. CASE p.pc \notin {"acquire", "settings"} /\ p.task = "oscar"
    <3>1. q = ThrownInOscar(p, reply)
      BY <2>3
    <3> HIDE DEF q
    <3> QED BY <2>3, <3>1, ThrownInOscarTyped DEF Landing, Rest
  <2> QED BY <1>0, <2>1, <2>2, <2>3
<1>2. Thrown(p, reply) = u
  BY DEF Thrown
<1> HIDE DEF q
<1>3. /\ u \in Memory /\ Rest(u) = Rest(q) /\ u.pc = q.pc /\ u.verdict = q.verdict
  BY <1>1, UnaskedTyped DEF Typed
<1>4. /\ u.task = q.task /\ u.films = q.films /\ u.pending = q.pending
      /\ u.processed = q.processed /\ u.soft = q.soft /\ u.unit = q.unit
      /\ u.source = q.source
  BY <1>3 DEF Rest
<1>5. Placed(u)
  <2> HIDE DEF u
  <2> QED BY <1>1, <1>3, <1>4 DEF Typed, Placed, Landing, RssOnly, OscarOnly, Lookup
<1> HIDE DEF u
<1> QED BY <1>1, <1>2, <1>3, <1>4, <1>5 DEF Typed

-----------------------------------------------------------------------------
(* Calls *)

LEMMA ContinueTyped ==
    ASSUME NEW w \in Workers, NEW reply, NEW ok, Typed(ok), NEW p, Typed(p),
           p.pc \notin {"idle", "exit"}, Continue(w, reply, ok, p)
    PROVE  GoesOn(w)
BY ThrownTyped DEF Continue, GoesOn

(* The rows tracked are no matter of where a process is. *)
LEMMA UnitTyped ==
    ASSUME NEW p, Typed(p), NEW u \in Units
    PROVE  /\ Typed([p EXCEPT !.unit = u])
           /\ [p EXCEPT !.unit = u].pc = p.pc
<1> DEFINE q == [p EXCEPT !.unit = u]
<1>1. /\ q \in Memory /\ q.pc = p.pc /\ q.task = p.task /\ q.key = p.key
      /\ q.result = p.result /\ q.source = p.source /\ q.entry = p.entry
      /\ q.films = p.films /\ q.verdict = p.verdict /\ q.pending = p.pending
      /\ q.unit = u
  BY DEF Typed, Memory, Units
<1> SUFFICES Typed(q)
  BY <1>1
<1> HIDE DEF q
<1> QED BY <1>1 DEF Typed, Placed, Feed

LEMMA SaveChangesTyped ==
    ASSUME TypeInv, NEW w \in Workers, NEW u \in Units, NEW reply, NEW ok, Typed(ok),
           proc[w].pc \notin {"idle", "exit"}, SaveChanges(w, u, reply, ok)
    PROVE  GoesOn(w)
<1>1. Typed(proc[w])
  BY DEF TypeInv, TypeOK, Typed
<1>2. Typed([ok EXCEPT !.unit = Clean]) /\ Typed([proc[w] EXCEPT !.unit = u])
  BY <1>1, UnitTyped, CleanTyped
<1>3. [proc[w] EXCEPT !.unit = u].pc = proc[w].pc
  BY <1>1, UnitTyped
<1> QED BY <1>2, <1>3, ContinueTyped DEF SaveChanges

(* One transaction writes rows of their types. *)
LEMMA StoreUnitTyped ==
    ASSUME TypeInv, NEW w \in Workers, NEW u \in Units, NEW reply, StoreUnit(w, u, reply)
    PROVE  /\ catalog' \subseteq Entries
           /\ cache' \in [Keys -> CacheState]
           /\ parseLogs' \in [Workers -> [Items -> Nat]]
           /\ film' \in [Films -> FilmDoc]
           /\ saved' \in [Workers -> [Films -> {"none", "enriched", "not_found",
                                                 "temporary_error"}]]
<1>0. /\ catalog \subseteq Entries
      /\ cache \in [Keys -> CacheState]
      /\ parseLogs \in [Workers -> [Items -> Nat]]
      /\ film \in [Films -> FilmDoc]
      /\ saved \in [Workers -> [Films -> {"none", "enriched", "not_found",
                                           "temporary_error"}]]
  BY DEF TypeInv, TypeOK
<1>1. CASE ~Landed(reply)
  BY <1>0, <1>1 DEF StoreUnit, rows
<1>2. CASE Landed(reply)
  <2> DEFINE logs == [i \in Items |-> parseLogs[w][i] + u.logs[i]]
             out == [f \in Films |-> IF u.films[f] # NoFilm THEN u.films[f].status
                                     ELSE saved[w][f]]
  <2>0. /\ u.logs \in [Items -> Nat] /\ u.answer \in [Keys -> Answers \cup {"none"}]
        /\ u.films \in [Films -> FilmDoc \cup {NoFilm}]
    BY DEF Unit, Units
  <2>1. logs \in [Items -> Nat]
    BY <1>0, <2>0
  <2>2. parseLogs' = [parseLogs EXCEPT ![w] = logs]
    BY <1>2 DEF StoreUnit
  <2>3. cache' \in [Keys -> CacheState]
    BY <1>0, <1>2, <2>0 DEF StoreUnit, CacheState
  <2>4. film' \in [Films -> FilmDoc]
    BY <1>0, <1>2, <2>0 DEF StoreUnit
  <2>5. out \in [Films -> {"none", "enriched", "not_found", "temporary_error"}]
    <3>1. \A f \in Films : u.films[f] # NoFilm => u.films[f] \in FilmDoc
      BY <2>0
    <3>2. \A f \in Films : u.films[f] # NoFilm =>
             u.films[f].status \in {"none", "enriched", "not_found", "temporary_error"}
      BY <3>1 DEF FilmDoc, Units
    <3> QED BY <1>0, <3>2
  <2>6. saved' = [saved EXCEPT ![w] = out]
    BY <1>2 DEF StoreUnit
  <2>7. catalog' \subseteq Entries
    BY <1>0, <1>2 DEF StoreUnit, Unit, Units
  <2> HIDE DEF logs, out
  <2> QED BY <1>0, <2>1, <2>2, <2>3, <2>4, <2>5, <2>6, <2>7
<1> QED BY <1>1, <1>2

(* All that is not a process's own. *)
SharedTyped ==
    /\ lock \in Workers \cup {NoWorker}
    /\ catalog \subseteq Entries
    /\ cache \in [Keys -> CacheState]
    /\ usage \in [total : Nat, oscar : Nat, quota : BOOLEAN]
    /\ parseLogs \in [Workers -> [Items -> Nat]]
    /\ scanRun \in [Workers -> ScanStatus]
    /\ oscarRun \in [Workers -> [status : OscarStatus, processed : Nat]]
    /\ film \in [Films -> FilmDoc]
    /\ hour \in Hours
    /\ saved \in [Workers -> [Films -> {"none", "enriched", "not_found", "temporary_error"}]]

LEMMA TypeInvParts ==
    TypeInv <=> SharedTyped /\ DOMAIN proc = Workers /\ \A w \in Workers : Typed(proc[w])
BY DEF TypeInv, TypeOK, SharedTyped, Typed

LEMMA GoesOnTyped ==
    ASSUME TypeInv, NEW w \in Workers, GoesOn(w), SharedTyped'
    PROVE  TypeInv'
<1>1. PICK q : Typed(q) /\ proc' = [proc EXCEPT ![w] = q]
  BY DEF GoesOn
<1>2. DOMAIN proc' = Workers /\ \A v \in Workers : Typed(proc'[v])
  BY <1>1, TypeInvParts
<1> QED BY <1>2 DEF SharedTyped, TypeInv, TypeOK, Typed, Placed

(* The rows of a unit and what no call writes but its own. *)
LEMMA SharedKept ==
    ASSUME TypeInv,
           UNCHANGED <<lock, usage, scanRun, oscarRun, hour>>,
           \/ UNCHANGED rows
           \/ \E w \in Workers, u \in Units : \E reply : StoreUnit(w, u, reply)
    PROVE  SharedTyped'
<1>1. /\ catalog' \subseteq Entries
      /\ cache' \in [Keys -> CacheState]
      /\ parseLogs' \in [Workers -> [Items -> Nat]]
      /\ film' \in [Films -> FilmDoc]
      /\ saved' \in [Workers -> [Films -> {"none", "enriched", "not_found",
                                            "temporary_error"}]]
  <2>1. CASE UNCHANGED rows
    BY <2>1 DEF rows, TypeInv, TypeOK
  <2>2. CASE \E w \in Workers, u \in Units : \E reply : StoreUnit(w, u, reply)
    BY <2>2, StoreUnitTyped
  <2> QED BY <2>1, <2>2
<1> QED BY <1>1 DEF SharedTyped, TypeInv, TypeOK

-----------------------------------------------------------------------------
(* The lookup *)

LEMMA LookingTyped ==
    ASSUME NEW p, Typed(p), p.pc \in Lookup,
           NEW q \in Memory, q.pc \in Lookup, q.key = p.key, Rest(q) = Rest(p),
           q.pc = "store" => q.result \in Answers,
           q.pc = "answered" => q.result # "none"
    PROVE  Typed(q)
<1>1. /\ q.task = p.task /\ q.unit = p.unit /\ q.source = p.source
      /\ q.entry = p.entry /\ q.pending = p.pending /\ q.films = p.films
  BY DEF Rest
<1> QED BY <1>1 DEF Typed, Placed, Feed, Lookup, RssOnly, OscarOnly

LEMMA AnsweredTyped ==
    ASSUME NEW p, Typed(p), p.pc \in Lookup, NEW r \in Results \ {"none"}
    PROVE  Typed(Answered(p, r))
<1> DEFINE q == Answered(p, r)
<1>1. /\ q \in Memory /\ q.pc = "answered" /\ q.key = p.key /\ Rest(q) = Rest(p)
      /\ q.result = r
  BY DEF Answered, Typed, Memory, Rest, Lookup
<1> HIDE DEF q
<1>2. Typed(q)
  BY <1>1, LookingTyped DEF Lookup
<1> QED BY <1>2 DEF q

LEMMA ReadCacheTyped ==
    ASSUME TypeInv, NEW w \in Workers, ReadCache(w)
    PROVE  TypeInv'
<1> DEFINE p == proc[w]
           k == p.key
           u == [p.unit EXCEPT !.gone = @ \cup {k}]
           q == [p EXCEPT !.pc = "reserve"]
<1>1. Typed(p) /\ p.pc = "cache" /\ k \in Keys /\ cache[k] \in CacheState
      /\ UNCHANGED <<lock, usage, scanRun, oscarRun, hour>>
  BY TypeInvParts DEF ReadCache, At, Placed, Typed, Lookup, SharedTyped, runRows
<1>2. u \in Units
  BY <1>1 DEF Typed, Placed, Units, Unit
<1>3. Typed(q)
  <2>1. q \in Memory /\ q.pc = "reserve" /\ q.key = p.key /\ Rest(q) = Rest(p)
    BY <1>1 DEF Typed, Memory, Rest, Lookup
  <2> HIDE DEF q, p
  <2> QED BY <1>1, <2>1, LookingTyped DEF Lookup
<1>4. CASE cache[k] = "stale"
  <2>1. PICK reply : SaveChanges(w, u, reply, q)
    BY <1>4 DEF ReadCache
  <2>2. GoesOn(w)
    BY <1>1, <1>2, <1>3, <2>1, SaveChangesTyped
  <2>3. SharedTyped'
    BY <1>1, <1>2, <2>1, SharedKept DEF SaveChanges
  <2> QED BY <2>2, <2>3, GoesOnTyped
<1>5. CASE cache[k] # "stale"
  <2> DEFINE ok == IF cache[k] = "none" THEN q ELSE Answered(p, cache[k])
  <2>1. PICK reply : Continue(w, reply, ok, p)
    BY <1>5 DEF ReadCache
  <2>2. cache[k] # "none" => cache[k] \in Results \ {"none"}
    BY <1>1, <1>5 DEF CacheState, Results
  <2>3. Typed(ok)
    BY <1>1, <1>3, <2>2, AnsweredTyped DEF Lookup
  <2>4. GoesOn(w)
    <3> HIDE DEF ok
    <3> QED BY <1>1, <2>1, <2>3, ContinueTyped
  <2>5. SharedTyped'
    BY <1>1, <1>5, SharedKept DEF ReadCache
  <2> QED BY <2>4, <2>5, GoesOnTyped
<1> QED BY <1>4, <1>5

LEMMA ReserveTyped ==
    ASSUME TypeInv, NEW w \in Workers, Reserve(w)
    PROVE  TypeInv'
<1> DEFINE p == proc[w]
           q == [p EXCEPT !.pc = "send", !.today = TRUE]
           ok == IF MayReserve(p) THEN q ELSE Answered(p, "budget")
<1>1. Typed(p) /\ p.pc = "reserve"
      /\ UNCHANGED <<lock, scanRun, oscarRun, hour, rows>>
  BY TypeInvParts DEF Reserve, At, runRows, rows
<1>2. PICK reply : /\ usage' = IF Landed(reply) /\ MayReserve(p)
                               THEN [usage EXCEPT !.total = @ + 1, !.oscar = @ + Purpose(p)]
                               ELSE usage
                   /\ Continue(w, reply, ok, p)
  BY DEF Reserve
<1>3. Typed(ok)
  <2>1. q \in Memory /\ q.pc = "send" /\ q.key = p.key /\ Rest(q) = Rest(p)
    BY <1>1 DEF Typed, Memory, Rest, Lookup
  <2>2. Typed(Answered(p, "budget"))
    BY <1>1, AnsweredTyped DEF Lookup, Results
  <2> HIDE DEF q, p
  <2> QED BY <1>1, <2>1, <2>2, LookingTyped DEF Lookup
<1>4. GoesOn(w)
  <2> HIDE DEF ok
  <2> QED BY <1>1, <1>2, <1>3, ContinueTyped
<1>5. usage' \in [total : Nat, oscar : Nat, quota : BOOLEAN]
  <2>1. usage \in [total : Nat, oscar : Nat, quota : BOOLEAN] /\ Purpose(p) \in {0, 1}
    BY TypeInvParts DEF SharedTyped, Purpose
  <2>2. [usage EXCEPT !.total = @ + 1, !.oscar = @ + Purpose(p)]
            \in [total : Nat, oscar : Nat, quota : BOOLEAN]
    BY <2>1, ReservedTyped
  <2> QED BY <1>2, <2>1, <2>2
<1>6. SharedTyped'
  BY <1>1, <1>5 DEF SharedTyped, TypeInv, TypeOK, rows
<1> QED BY <1>4, <1>6, GoesOnTyped

LEMMA AfterTyped ==
    ASSUME NEW p, Typed(p), p.pc = "send",
           NEW outcome \in {"found", "not_found", "quota", "failure"}
    PROVE  Typed(After(p, outcome))
<1>1. CASE outcome = "quota"
  <2> DEFINE q == [p EXCEPT !.pc = "mark"]
  <2>1. q \in Memory /\ q.pc = "mark" /\ q.key = p.key /\ Rest(q) = Rest(p)
    BY DEF Typed, Memory, Rest, Lookup
  <2>2. After(p, outcome) = q
    BY <1>1 DEF After
  <2> HIDE DEF q
  <2> QED BY <2>1, <2>2, LookingTyped DEF Lookup
<1>2. CASE outcome = "failure"
  BY <1>2, AnsweredTyped DEF After, Lookup, Results
<1>3. CASE outcome = "not_found" /\ p.dated
  <2> DEFINE q == [p EXCEPT !.pc = "reserve", !.dated = FALSE]
  <2>1. q \in Memory /\ q.pc = "reserve" /\ q.key = p.key /\ Rest(q) = Rest(p)
    BY DEF Typed, Memory, Rest, Lookup
  <2>2. After(p, outcome) = q
    BY <1>3 DEF After
  <2> HIDE DEF q
  <2> QED BY <2>1, <2>2, LookingTyped DEF Lookup
<1>4. CASE outcome \in Answers /\ ~(outcome = "not_found" /\ p.dated)
  <2> DEFINE q == [p EXCEPT !.pc = "store", !.result = outcome]
  <2>1. /\ q \in Memory /\ q.pc = "store" /\ q.key = p.key /\ Rest(q) = Rest(p)
        /\ q.result = outcome
    BY <1>4 DEF Typed, Memory, Rest, Lookup, Results
  <2>2. After(p, outcome) = q
    BY <1>4 DEF After, Answers
  <2> HIDE DEF q
  <2> QED BY <1>4, <2>1, <2>2, LookingTyped DEF Lookup
<1> QED BY <1>1, <1>2, <1>3, <1>4 DEF Answers

LEMMA SendTyped ==
    ASSUME TypeInv, NEW w \in Workers, Send(w)
    PROVE  TypeInv'
<1>1. Typed(proc[w]) /\ proc[w].pc = "send"
  BY TypeInvParts DEF Send, At
<1>2. \/ proc' = [proc EXCEPT ![w] = Thrown(proc[w], "cancelled")]
      \/ \E outcome \in {"found", "not_found", "quota", "failure"} :
            proc' = [proc EXCEPT ![w] = After(proc[w], outcome)]
  BY DEF Send
<1>3. GoesOn(w)
  BY <1>1, <1>2, AfterTyped, ThrownTyped DEF GoesOn
<1>4. UNCHANGED <<lock, usage, scanRun, oscarRun, hour, rows>>
  BY DEF Send, rows, runRows
<1>5. SharedTyped'
  BY <1>4, SharedKept
<1> QED BY <1>3, <1>5, GoesOnTyped

LEMMA MarkTyped ==
    ASSUME TypeInv, NEW w \in Workers, Mark(w)
    PROVE  TypeInv'
<1> DEFINE p == proc[w]
<1>1. Typed(p) /\ p.pc = "mark"
      /\ UNCHANGED <<lock, scanRun, oscarRun, hour, rows>>
  BY TypeInvParts DEF Mark, At, runRows, rows
<1>2. PICK reply : /\ usage' = IF Landed(reply) /\ p.today THEN [usage EXCEPT !.quota = TRUE]
                               ELSE usage
                   /\ Continue(w, reply, Answered(p, "quota"), p)
  BY DEF Mark
<1>3. Typed(Answered(p, "quota"))
  BY <1>1, AnsweredTyped DEF Lookup, Results
<1>4. GoesOn(w)
  BY <1>1, <1>2, <1>3, ContinueTyped
<1>5. usage' \in [total : Nat, oscar : Nat, quota : BOOLEAN]
  BY <1>2, TypeInvParts DEF SharedTyped
<1>6. SharedTyped'
  BY <1>1, <1>5 DEF SharedTyped, TypeInv, TypeOK, rows
<1> QED BY <1>4, <1>6, GoesOnTyped

LEMMA StoreTyped ==
    ASSUME TypeInv, NEW w \in Workers, Store(w)
    PROVE  TypeInv'
<1> DEFINE p == proc[w]
           k == p.key
           new == cache[k] = "none"
           twice == new /\ k \in p.unit.added
           u == IF twice THEN p.unit
                ELSE [p.unit EXCEPT !.added = IF new THEN @ \cup {k} ELSE @,
                                    !.answer[k] = p.result]
<1>1. Typed(p) /\ p.pc = "store" /\ k \in Keys /\ p.result \in Answers
      /\ UNCHANGED <<lock, usage, scanRun, oscarRun, hour>>
  BY TypeInvParts DEF Store, At, runRows, Typed, Placed, Lookup
<1>2. PICK reply : SaveChanges(w, u, reply, Answered(p, p.result))
  BY DEF Store
<1>3. u \in Units
  <2>1. p.unit \in Units
    BY <1>1 DEF Typed, Placed
  <2>2. CASE ~twice
    <3> DEFINE v == [p.unit EXCEPT !.added = IF new THEN @ \cup {k} ELSE @,
                                   !.answer[k] = p.result]
    <3>1. v \in Unit /\ v.films = p.unit.films
      BY <1>1, <2>1 DEF Units, Unit
    <3>2. u = v
      BY <2>2
    <3> HIDE DEF u, v
    <3> QED BY <2>1, <3>1, <3>2 DEF Units
  <2> QED BY <2>1, <2>2
<1>4. Typed(Answered(p, p.result))
  BY <1>1, AnsweredTyped DEF Lookup, Results, Answers
<1>5. GoesOn(w) /\ SharedTyped'
  <2> HIDE DEF u
  <2>1. GoesOn(w)
    BY <1>1, <1>2, <1>3, <1>4, SaveChangesTyped
  <2> QED BY <1>1, <1>2, <1>3, <2>1, SharedKept DEF SaveChanges
<1> QED BY <1>5, GoesOnTyped

LEMMA LookupTyped ==
    ASSUME TypeInv, NEW w \in Workers, LookupStep(w)
    PROVE  TypeInv'
BY ReadCacheTyped, ReserveTyped, SendTyped, MarkTyped, StoreTyped DEF LookupStep

-----------------------------------------------------------------------------
(* The ingestion *)

(* At a feed that is there. *)
Reading(p) == /\ p \in Memory /\ IsFiniteSet(p.pending) /\ p.unit \in Units
              /\ p.task = "rss" /\ p.source \in DOMAIN FeedOf

LEMMA ReadingLogged ==
    ASSUME NEW p, Reading(p), NEW item \in Items
    PROVE  Reading(Logged(p, item)) /\ Logged(p, item).entry = p.entry
BY LoggedTyped DEF Reading

LEMMA FailedReading ==
    ASSUME NEW p, Reading(p), Entry(p) \in Items
    PROVE  Reading(EntryFailed(p)) /\ EntryFailed(p).entry = p.entry
<1> DEFINE q == [p EXCEPT !.erred = TRUE]
<1>1. Reading(q) /\ q.entry = p.entry
  BY DEF Reading, Memory
<1>2. EntryFailed(p) = Logged(q, Entry(p))
  BY DEF EntryFailed
<1> HIDE DEF q
<1> QED BY <1>1, <1>2, ReadingLogged

LEMMA UnaskedReading ==
    ASSUME NEW p, Reading(p)
    PROVE  Reading(Unasked(p)) /\ Unasked(p).entry = p.entry
<1> DEFINE q == Unasked(p)
<1>1. q \in Memory /\ Rest(q) = Rest(p)
  BY UnaskedTyped DEF Reading
<1> HIDE DEF q
<1>2. Reading(q) /\ q.entry = p.entry
  BY <1>1 DEF Reading, Rest
<1> QED BY <1>2 DEF q

LEMMA NextEntryTyped ==
    ASSUME NEW p, Reading(p)
    PROVE  Typed(NextEntry(p))
<1> DEFINE r == Unasked(p)
           q == [r EXCEPT !.pc = "entry", !.entry = @ + 1]
<1>1. Reading(r) /\ r.entry \in Nat
  BY UnaskedReading DEF Reading, Memory
<1>2. r.entry + 1 \in Nat /\ r.entry + 1 # 0
  BY <1>1
<1>3. NextEntry(p) = q
  BY DEF NextEntry
<1> HIDE DEF r
<1>4. /\ q \in Memory /\ q.pc = "entry" /\ q.entry # 0 /\ q.pending = r.pending
      /\ q.unit = r.unit /\ q.task = "rss" /\ q.source = r.source
  BY <1>1, <1>2, ZenonT(60) DEF Reading, Memory, RssOnly
<1> HIDE DEF q
<1>5. Typed(q)
  BY <1>1, <1>4 DEF Typed, Placed, Reading, RssOnly, OscarOnly, Lookup
<1> QED BY <1>3, <1>5

LEMMA ExhaustedTyped ==
    ASSUME NEW p, Reading(p), Entry(p) \in Items
    PROVE  Typed(Exhausted(p))
<1> DEFINE r == Unasked(EntryFailed(p))
           q == [r EXCEPT !.pc = "flush", !.exhausted = TRUE]
<1>1. Reading(r)
  BY FailedReading, UnaskedReading
<1>2. Exhausted(p) = q
  BY DEF Exhausted
<1> HIDE DEF r
<1>3. /\ q \in Memory /\ q.pc = "flush" /\ q.pending = r.pending
      /\ q.unit = r.unit /\ q.task = "rss" /\ q.source = r.source
  BY <1>1, ZenonT(60) DEF Reading, Memory, RssOnly
<1> HIDE DEF q
<1>4. Typed(q)
  BY <1>1, <1>3, LeavingTyped DEF Typed, Reading
<1> QED BY <1>2, <1>4

LEMMA ReadingPlaces ==
    ASSUME NEW p, Typed(p), p.task = "rss",
           p.pc \in Lookup \cup {"fetch", "entry", "upsert", "flush"}
    PROVE  Reading(p)
BY DEF Typed, Placed, Reading

LEMMA EntryTyped ==
    ASSUME NEW p, Reading(p), p.entry \in DOMAIN Feed(p)
    PROVE  Entry(p) \in Entries /\ Entry(p) \in Items
<1>1. Feed(p) \in Seq(Entries)
  BY FeedTyped DEF Reading, Feed
<1> QED BY <1>1 DEF Entry, Items

LEMMA StartRunTyped ==
    ASSUME TypeInv, NEW w \in Workers, StartRun(w)
    PROVE  TypeInv'
<1> DEFINE p == proc[w]
           q == [p EXCEPT !.pc = "sources"]
<1>1. Typed(p) /\ p.pc = "startRun"
  BY TypeInvParts DEF StartRun, At
<1>2. PICK reply :
         /\ Continue(w, reply, q, p)
         /\ IF Landed(reply)
            THEN /\ scanRun' = [scanRun EXCEPT ![w] = "running"]
                 /\ oscarRun' = [oscarRun EXCEPT ![w] = NoOscarRun]
                 /\ parseLogs' = [parseLogs EXCEPT ![w] = NoLogs]
                 /\ saved' = [saved EXCEPT ![w] = NothingSaved]
            ELSE UNCHANGED <<scanRun, oscarRun, parseLogs, saved>>
  BY DEF StartRun, runRows
<1>3. Typed(q)
  <2>1. q \in Memory /\ q.pc = "sources" /\ Rest(q) = Rest(p)
    BY <1>1 DEF Typed, Memory, Rest, RssOnly
  <2>2. q.task = "rss" /\ q.unit = p.unit /\ q.pending = p.pending
    BY <1>1, <2>1 DEF Rest, Typed, Placed, RssOnly
  <2> HIDE DEF q, p
  <2> QED BY <1>1, <2>1, <2>2 DEF Typed, Placed, RssOnly, OscarOnly, Lookup
<1>4. GoesOn(w)
  <2> HIDE DEF q
  <2> QED BY <1>1, <1>2, <1>3, ContinueTyped
<1>5. /\ "running" \in ScanStatus /\ NoOscarRun \in [status : OscarStatus, processed : Nat]
      /\ NoLogs \in [Items -> Nat]
      /\ NothingSaved \in [Films -> {"none", "enriched", "not_found", "temporary_error"}]
  BY DEF ScanStatus, NoOscarRun, OscarStatus, NoLogs, NothingSaved
<1>6. /\ scanRun' \in [Workers -> ScanStatus]
      /\ oscarRun' \in [Workers -> [status : OscarStatus, processed : Nat]]
      /\ parseLogs' \in [Workers -> [Items -> Nat]]
      /\ saved' \in [Workers -> [Films -> {"none", "enriched", "not_found",
                                            "temporary_error"}]]
  <2>1. /\ scanRun \in [Workers -> ScanStatus]
        /\ oscarRun \in [Workers -> [status : OscarStatus, processed : Nat]]
        /\ parseLogs \in [Workers -> [Items -> Nat]]
        /\ saved \in [Workers -> [Films -> {"none", "enriched", "not_found",
                                             "temporary_error"}]]
    BY DEF TypeInv, TypeOK
  <2>2. CASE Landed(reply)
    <3>1. /\ scanRun' = [scanRun EXCEPT ![w] = "running"]
          /\ oscarRun' = [oscarRun EXCEPT ![w] = NoOscarRun]
          /\ parseLogs' = [parseLogs EXCEPT ![w] = NoLogs]
          /\ saved' = [saved EXCEPT ![w] = NothingSaved]
      BY <1>2, <2>2
    <3> QED BY <1>5, <2>1, <3>1
  <2>3. CASE ~Landed(reply)
    BY <1>2, <2>1, <2>3
  <2> QED BY <2>2, <2>3
<1>7. SharedTyped'
  BY <1>6, TypeInvParts DEF SharedTyped, StartRun
<1> QED BY <1>4, <1>7, GoesOnTyped

LEMMA ReadSourcesTyped ==
    ASSUME TypeInv, NEW w \in Workers, ReadSources(w)
    PROVE  TypeInv'
<1> DEFINE p == proc[w]
           q == [p EXCEPT !.pc = "fetch", !.source = 1]
           ok == IF FeedOf = <<>> THEN Judged(p) ELSE q
<1>1. Typed(p) /\ p.pc = "sources" /\ p.task = "rss"
  BY TypeInvParts DEF ReadSources, At, Typed, Placed, RssOnly
<1>2. PICK reply : Continue(w, reply, ok, p)
  BY DEF ReadSources
<1>3. FeedOf # <<>> => Typed(q)
  <2> SUFFICES ASSUME FeedOf # <<>> PROVE Typed(q)
    OBVIOUS
  <2>1. /\ q \in Memory /\ q.pc = "fetch" /\ q.source = 1 /\ q.task = "rss"
        /\ q.pending = p.pending /\ q.unit = p.unit
    BY <1>1 DEF Typed, Memory, RssOnly
  <2>2. 1 \in DOMAIN FeedOf
    BY NextAssumption
  <2> HIDE DEF p, q
  <2> QED BY <1>1, <2>1, <2>2 DEF Typed, Placed, RssOnly, OscarOnly, Lookup
<1>4. Typed(ok)
  <2> HIDE DEF p, q
  <2> QED BY <1>1, <1>3, JudgedTyped
<1>5. GoesOn(w)
  <2> HIDE DEF ok
  <2> QED BY <1>1, <1>2, <1>4, ContinueTyped
<1>6. SharedTyped'
  BY SharedKept DEF ReadSources, rows, runRows
<1> QED BY <1>5, <1>6, GoesOnTyped

LEMMA FetchFeedTyped ==
    ASSUME TypeInv, NEW w \in Workers, FetchFeed(w)
    PROVE  TypeInv'
<1> DEFINE p == proc[w]
           q == [p EXCEPT !.pc = "entry", !.entry = 1, !.fed = TRUE]
<1>1. Typed(p) /\ p.pc = "fetch" /\ p.task = "rss" /\ Reading(p)
  BY TypeInvParts, ReadingPlaces DEF FetchFeed, At, Typed, Placed, RssOnly
<1>2. PICK reply : Continue(w, reply, q, p)
  BY DEF FetchFeed
<1>3. Typed(q)
  <2> HIDE DEF p
  <2>1. /\ q \in Memory /\ q.pc = "entry" /\ q.entry = 1 /\ q.task = "rss"
        /\ q.pending = p.pending /\ q.unit = p.unit /\ q.source = p.source
    BY <1>1 DEF Typed, Memory, RssOnly
  <2> HIDE DEF q
  <2> QED BY <1>1, <2>1 DEF Typed, Placed, Reading, RssOnly, OscarOnly, Lookup
<1>4. GoesOn(w)
  <2> HIDE DEF q
  <2> QED BY <1>1, <1>2, <1>3, ContinueTyped
<1>5. SharedTyped'
  BY SharedKept DEF FetchFeed, rows, runRows
<1> QED BY <1>4, <1>5, GoesOnTyped

LEMMA AskingFields ==
    ASSUME NEW p \in Memory, NEW k \in Keys
    PROVE  LET q == Asking(p, k) IN
           q \in Memory /\ q.pc = "cache" /\ q.key = k /\ Rest(q) = Rest(p)
<1>1. (k \in Dated) \in BOOLEAN /\ "none" \in Results /\ "cache" \in Lookup
  BY DEF Results, Lookup
<1> QED BY <1>1, ZenonT(40) DEF Asking, Memory, Rest

LEMMA TakeEntryTyped ==
    ASSUME TypeInv, NEW w \in Workers, TakeEntry(w)
    PROVE  TypeInv'
<1> DEFINE p == proc[w]
           out == [p EXCEPT !.pc = "flush"]
           ask == Asking(p, KeyOf[Entry(p)])
<1>1. Typed(p) /\ p.pc = "entry" /\ p.task = "rss" /\ Reading(p) /\ p.entry # 0
  BY TypeInvParts, ReadingPlaces DEF TakeEntry, At, Typed, Placed, RssOnly
<1>2. PICK q \in (IF p.entry > Len(Feed(p)) THEN {out}
                  ELSE {NextEntry(EntryFailed(p)), ask}) :
         proc' = [proc EXCEPT ![w] = q]
  BY DEF TakeEntry
<1>3. Typed(out)
  <2> HIDE DEF p
  <2>1. /\ out \in Memory /\ out.pc = "flush" /\ out.task = "rss"
        /\ out.pending = p.pending /\ out.unit = p.unit /\ out.source = p.source
    BY <1>1 DEF Typed, Memory, RssOnly
  <2> HIDE DEF out
  <2> QED BY <1>1, <2>1, LeavingTyped DEF Typed, Reading
<1>4. ASSUME ~(p.entry > Len(Feed(p)))
      PROVE  Typed(NextEntry(EntryFailed(p))) /\ Typed(ask)
  <2> HIDE DEF p
  <2>1. p.entry \in DOMAIN Feed(p)
    <3>1. Feed(p) \in Seq(Entries) /\ p.entry \in Nat
      BY <1>1, FeedTyped DEF Reading, Feed, Memory
    <3> QED BY <1>1, <1>4, <3>1
  <2>2. Entry(p) \in Entries /\ Entry(p) \in Items
    BY <1>1, <2>1, EntryTyped
  <2>3. Typed(NextEntry(EntryFailed(p)))
    BY <1>1, <2>2, FailedReading, NextEntryTyped
  <2>4. KeyOf[Entry(p)] \in Keys
    BY <2>2, NextAssumption
  <2>5. /\ ask \in Memory /\ ask.pc = "cache" /\ ask.task = "rss"
        /\ ask.key = KeyOf[Entry(p)] /\ ask.entry = p.entry
        /\ ask.pending = p.pending /\ ask.unit = p.unit /\ ask.source = p.source
    BY <1>1, <2>4, AskingFields DEF Reading, Rest
  <2> HIDE DEF ask
  <2>6. Typed(ask)
    BY <1>1, <2>1, <2>4, <2>5 DEF Typed, Placed, Reading, Feed, RssOnly, OscarOnly, Lookup
  <2> QED BY <2>3, <2>6
<1>5. GoesOn(w)
  <2> HIDE DEF p, out, ask
  <2>1. Typed(q)
    BY <1>2, <1>3, <1>4
  <2> QED BY <1>2, <2>1 DEF GoesOn
<1>6. SharedTyped'
  BY SharedKept DEF TakeEntry, rows, runRows
<1> QED BY <1>5, <1>6, GoesOnTyped

LEMMA EntryAnsweredTyped ==
    ASSUME TypeInv, NEW w \in Workers, EntryAnswered(w)
    PROVE  TypeInv'
<1> DEFINE p == proc[w]
           q == [p EXCEPT !.pc = "upsert"]
<1>1. Typed(p) /\ p.pc = "answered" /\ p.task = "rss" /\ Reading(p)
      /\ p.entry \in DOMAIN Feed(p)
  BY TypeInvParts, ReadingPlaces DEF EntryAnswered, InRss, At, Typed, Placed, RssOnly, Lookup
<1>2. Entry(p) \in Items
  BY <1>1, EntryTyped
<1>3. \/ proc' = [proc EXCEPT ![w] = Exhausted(p)]
      \/ proc' = [proc EXCEPT ![w] = NextEntry(EntryFailed(p))]
      \/ proc' = [proc EXCEPT ![w] = NextEntry(Logged(p, Entry(p)))]
      \/ proc' = [proc EXCEPT ![w] = q]
  BY DEF EntryAnswered
<1>4. Typed(q)
  <2> HIDE DEF p
  <2>1. /\ q \in Memory /\ q.pc = "upsert" /\ q.task = "rss" /\ q.entry = p.entry
        /\ q.pending = p.pending /\ q.unit = p.unit /\ q.source = p.source
    BY <1>1 DEF Typed, Memory, RssOnly
  <2> HIDE DEF q
  <2> QED BY <1>1, <2>1 DEF Typed, Placed, Reading, Feed, RssOnly, OscarOnly, Lookup
<1>5. /\ Typed(Exhausted(p)) /\ Typed(NextEntry(EntryFailed(p)))
      /\ Typed(NextEntry(Logged(p, Entry(p))))
  BY <1>1, <1>2, ExhaustedTyped, FailedReading, ReadingLogged, NextEntryTyped
<1>6. GoesOn(w)
  <2> HIDE DEF p, q
  <2> QED BY <1>3, <1>4, <1>5 DEF GoesOn
<1>7. SharedTyped'
  BY SharedKept DEF EntryAnswered, rows, runRows
<1> QED BY <1>6, <1>7, GoesOnTyped

(* What is tracked when the entry is written: what was tracked before, or   *)
(* nothing, with the entry if it is new; and what stays tracked after.      *)
UpsertBy(w, base, reply, left) ==
    LET p == proc[w]
        u == [base EXCEPT !.entries = @ \cup ({Entry(p)} \ catalog)]
        after == [p EXCEPT !.unit = left]
    IN  /\ base \in {p.unit, Clean} /\ left \in {Clean, base, u}
        /\ Landed(reply) => left = Clean
        /\ StoreUnit(w, u, reply)
        /\ Continue(w, reply, NextEntry(Logged(after, Entry(p))), after)

LEMMA UpsertSome ==
    ASSUME NEW w \in Workers, UpsertCatalogItem(w)
    PROVE  \E base, reply, left : UpsertBy(w, base, reply, left)
BY DEF UpsertCatalogItem, UpsertBy

LEMMA EntriesTyped ==
    ASSUME NEW base \in Units, NEW x \in Entries
    PROVE  LET u == [base EXCEPT !.entries = @ \cup ({x} \ catalog)] IN
           /\ u \in Units /\ u.films = base.films /\ u.logs = base.logs
           /\ u.added = base.added /\ u.gone = base.gone /\ u.answer = base.answer
BY DEF Units, Unit

LEMMA UpsertTyped ==
    ASSUME TypeInv, NEW w \in Workers, UpsertCatalogItem(w)
    PROVE  TypeInv'
<1> DEFINE p == proc[w]
<1>1. Typed(p) /\ p.pc = "upsert" /\ p.task = "rss" /\ Reading(p)
      /\ p.entry \in DOMAIN Feed(p)
  BY TypeInvParts, ReadingPlaces DEF UpsertCatalogItem, At, Typed, Placed, RssOnly
<1>2. PICK base, reply, left : UpsertBy(w, base, reply, left)
  BY UpsertSome
<1> DEFINE u == [base EXCEPT !.entries = @ \cup ({Entry(p)} \ catalog)]
           after == [p EXCEPT !.unit = left]
<1>3. Entry(p) \in Entries /\ Entry(p) \in Items
  BY <1>1, EntryTyped
<1>4. base \in Units /\ u \in Units /\ left \in Units
  <2>1. base \in Units
    BY <1>1, <1>2, CleanTyped DEF UpsertBy, Typed, Placed
  <2>2. u \in Units
    BY <1>3, <2>1, EntriesTyped
  <2> QED BY <1>2, <2>1, <2>2, CleanTyped DEF UpsertBy
<1>5. Typed(after) /\ after.pc = "upsert" /\ Reading(after)
  <2>1. Typed(after) /\ after.pc = p.pc
    BY <1>1, <1>4, UnitTyped
  <2>2. after.task = "rss"
    BY <1>1 DEF Typed, Memory
  <2> HIDE DEF after
  <2> QED BY <1>1, <2>1, <2>2, ReadingPlaces
<1> HIDE DEF after
<1>6. Typed(NextEntry(Logged(after, Entry(p))))
  BY <1>3, <1>5, ReadingLogged, NextEntryTyped
<1>7. GoesOn(w)
  BY <1>2, <1>5, <1>6, ContinueTyped DEF after, UpsertBy
<1>8. SharedTyped'
  <2>1. StoreUnit(w, u, reply)
    BY <1>2 DEF UpsertBy
  <2> HIDE DEF u
  <2> QED BY <1>4, <2>1, SharedKept DEF UpsertCatalogItem, runRows
<1> QED BY <1>7, <1>8, GoesOnTyped

LEMMA WrittenTyped ==
    ASSUME NEW p, Typed(p), p.pc \in {"flush", "final", "cancelFlush"}
    PROVE  Typed(Written(p)) /\ Written(p).pc = p.pc
<1> DEFINE q == Written(p)
<1>1. p \in Memory /\ Cardinality(p.pending) \in Nat /\ p.written \in Nat
  BY FS_CardinalityType DEF Typed, Placed, Memory
<1>2. p.written + Cardinality(p.pending) \in Nat
  BY <1>1
<1>3. /\ q \in Memory /\ q.pc = p.pc /\ q.pending = {} /\ q.task = p.task
      /\ q.unit = p.unit /\ q.source = p.source /\ q.verdict = p.verdict
  BY <1>1, <1>2 DEF Written, Memory
<1>4. IsFiniteSet({})
  BY FS_EmptySet
<1> HIDE DEF q
<1>5. Typed(q)
  BY <1>3, <1>4 DEF Typed, Placed, RssOnly, OscarOnly, Lookup
<1> QED BY <1>3, <1>5 DEF q

LEMMA AfterFlushTyped ==
    ASSUME NEW p, Typed(p), p.pc \in {"flush", "final", "cancelFlush"}
    PROVE  Typed(AfterFlush(p))
<1>0. p \in Memory /\ p.task = "rss" /\ IsFiniteSet(p.pending) /\ p.unit \in Units
  BY DEF Typed, Placed, RssOnly
<1>1. CASE p.pc = "flush"
  <2> DEFINE q == [p EXCEPT !.pc = "fetch", !.source = @ + 1]
  <2>1. Reading(p)
    BY <1>0, <1>1, ReadingPlaces
  <2>2. CASE p.exhausted \/ p.source = Len(FeedOf)
    <3>1. AfterFlush(p) = Judged(p)
      BY <1>1, <2>2 DEF AfterFlush, AfterFeed
    <3> QED BY <1>0, <3>1, JudgedTyped
  <2>3. CASE ~(p.exhausted \/ p.source = Len(FeedOf))
    <3>1. AfterFlush(p) = q
      BY <1>1, <2>3 DEF AfterFlush, AfterFeed
    <3>2. p.source + 1 \in DOMAIN FeedOf
      BY <2>1, <2>3, NextAssumption, SMTT(30) DEF Reading
    <3>3. /\ q \in Memory /\ q.pc = "fetch" /\ q.source = p.source + 1 /\ q.task = "rss"
          /\ q.pending = p.pending /\ q.unit = p.unit
      <4>1. ASSUME NEW n \in Nat
            PROVE  LET g == [p EXCEPT !.pc = "fetch", !.source = n]
                   IN  /\ g \in Memory /\ g.pc = "fetch" /\ g.source = n
                       /\ g.task = p.task /\ g.pending = p.pending /\ g.unit = p.unit
        BY <1>0 DEF Memory, RssOnly
      <4>2. p.source + 1 \in Nat
        BY <1>0 DEF Memory
      <4> QED BY <1>0, <4>1, <4>2
    <3> HIDE DEF q
    <3>4. Typed(q)
      BY <1>0, <3>2, <3>3 DEF Typed, Placed, RssOnly, OscarOnly, Lookup
    <3> QED BY <3>1, <3>4
  <2> QED BY <2>2, <2>3
<1>2. CASE p.pc = "final"
  <2> DEFINE q == [p EXCEPT !.pc = "complete"]
  <2>1. AfterFlush(p) = q
    BY <1>2 DEF AfterFlush
  <2>2. /\ q \in Memory /\ q.pc = "complete" /\ q.task = "rss" /\ q.verdict = p.verdict
        /\ q.pending = p.pending /\ q.unit = p.unit
    BY <1>0 DEF Memory, RssOnly
  <2> HIDE DEF q
  <2>3. Typed(q)
    BY <1>0, <1>2, <2>2 DEF Typed, Placed, RssOnly, OscarOnly, Lookup
  <2> QED BY <2>1, <2>3
<1>3. CASE p.pc = "cancelFlush"
  <2> DEFINE q == [p EXCEPT !.pc = "cancelComplete"]
  <2>1. AfterFlush(p) = q
    BY <1>3 DEF AfterFlush
  <2>2. /\ q \in Memory /\ q.pc = "cancelComplete" /\ q.task = "rss"
        /\ q.pending = p.pending /\ q.unit = p.unit
    BY <1>0 DEF Memory, RssOnly
  <2> HIDE DEF q
  <2>3. Typed(q)
    BY <1>0, <2>2, LeavingTyped DEF Typed
  <2> QED BY <2>1, <2>3
<1> QED BY <1>1, <1>2, <1>3

LEMMA TrackedTyped ==
    ASSUME NEW p, Typed(p)
    PROVE  Tracked(p) \in Units /\ Tracked(p).films = p.unit.films
<1> DEFINE logs == [i \in Items |-> p.unit.logs[i] + (IF i \in p.pending THEN 1 ELSE 0)]
<1>1. p.unit \in Units /\ p.unit \in Unit
  BY DEF Typed, Placed, Units
<1>2. logs \in [Items -> Nat]
  BY <1>1 DEF Unit
<1>3. Tracked(p) = [p.unit EXCEPT !.logs = logs]
  BY <1>1 DEF Tracked, Unit
<1> HIDE DEF logs
<1> QED BY <1>1, <1>2, <1>3 DEF Units, Unit

LEMMA FlushLogsTyped ==
    ASSUME TypeInv, NEW w \in Workers, FlushLogs(w)
    PROVE  TypeInv'
<1> DEFINE p == proc[w]
           u == Tracked(p)
           ok == AfterFlush(Written(p))
<1>1. Typed(p) /\ p.pc \in {"flush", "final", "cancelFlush"}
  BY TypeInvParts DEF FlushLogs
<1>2. u \in Units /\ Typed(ok) /\ Typed(AfterFlush(p))
  BY <1>1, TrackedTyped, WrittenTyped, AfterFlushTyped
<1>3. UNCHANGED <<lock, usage, scanRun, oscarRun, hour>>
  BY DEF FlushLogs, runRows
<1>4. CASE p.pending = {}
  <2>1. proc' = [proc EXCEPT ![w] = AfterFlush(p)] /\ UNCHANGED rows
    BY <1>4 DEF FlushLogs
  <2>2. GoesOn(w)
    BY <1>2, <2>1 DEF GoesOn
  <2> QED BY <1>3, <2>1, <2>2, SharedKept, GoesOnTyped
<1>5. CASE p.pending # {}
  <2>1. PICK reply : SaveChanges(w, u, reply, ok)
    BY <1>5 DEF FlushLogs
  <2> HIDE DEF u, ok
  <2>2. GoesOn(w)
    BY <1>1, <1>2, <2>1, SaveChangesTyped
  <2>3. SharedTyped'
    BY <1>2, <1>3, <2>1, SharedKept DEF SaveChanges
  <2> QED BY <2>2, <2>3, GoesOnTyped
<1> QED BY <1>4, <1>5

(* What follows a run of the ingestion: the end, or Oscar enrichment with a *)
(* memory of its own.                                                       *)
LEMMA NextTaskTyped ==
    ASSUME NEW p \in Memory
    PROVE  LET q == [Fresh EXCEPT !.pc = "oscarStart", !.task = "oscar",
                                  !.stopping = p.stopping]
           IN  Typed(q) /\ q.pc = "oscarStart" /\ q.task = "oscar" /\ q.unit = Clean
               /\ q.films = <<>> /\ q.processed = 0 /\ q.soft = FALSE
<1> DEFINE q == [Fresh EXCEPT !.pc = "oscarStart", !.task = "oscar",
                              !.stopping = p.stopping]
<1>1. Fresh \in Memory /\ Fresh.pending = {} /\ Fresh.unit = Clean
      /\ Fresh.films = <<>> /\ Fresh.processed = 0 /\ Fresh.soft = FALSE
  BY FreshTyped DEF Typed, Fresh
<1>2. p.stopping \in BOOLEAN
  BY DEF Memory
<1>3. /\ q \in Memory /\ q.pc = "oscarStart" /\ q.task = "oscar"
      /\ q.pending = Fresh.pending /\ q.unit = Fresh.unit /\ q.films = Fresh.films
      /\ q.processed = Fresh.processed /\ q.soft = Fresh.soft
  <2> DEFINE t == p.stopping
  <2>1. Fresh \in Memory /\ t \in BOOLEAN
    BY <1>1, <1>2
  <2> HIDE DEF t
  <2>2. [Fresh EXCEPT !.pc = "oscarStart", !.task = "oscar", !.stopping = t] \in Memory
    BY <2>1, ZenonT(60) DEF Memory, OscarOnly
  <2>3. q \in Memory
    BY <2>2 DEF t
  <2>4. /\ q.pc = "oscarStart" /\ q.task = "oscar"
        /\ q.pending = Fresh.pending /\ q.unit = Fresh.unit /\ q.films = Fresh.films
        /\ q.processed = Fresh.processed /\ q.soft = Fresh.soft
    BY <2>1 DEF Memory
  <2> QED BY <2>3, <2>4
<1>4. IsFiniteSet({})
  BY FS_EmptySet
<1> HIDE DEF q
<1>5. Typed(q)
  BY <1>1, <1>3, <1>4, CleanTyped DEF Typed, Placed, RssOnly, OscarOnly, Lookup
<1> QED BY <1>1, <1>3, <1>5 DEF q

(* A process that ends whatever it was at. *)
LEMMA EndingTyped ==
    ASSUME NEW p, Typed(p)
    PROVE  Typed([p EXCEPT !.pc = "exit"])
<1> DEFINE q == [p EXCEPT !.pc = "exit"]
<1>1. q \in Memory /\ q.pc = "exit" /\ q.pending = p.pending /\ q.unit = p.unit
  BY DEF Typed, Memory
<1> HIDE DEF q
<1>2. Typed(q)
  BY <1>1, LeavingTyped DEF Typed, Placed
<1> QED BY <1>2 DEF q

LEMMA CompleteRunTyped ==
    ASSUME TypeInv, NEW w \in Workers, CompleteRun(w)
    PROVE  TypeInv'
<1> DEFINE p == proc[w]
           stopped == p.pc = "cancelComplete"
           other == [Fresh EXCEPT !.pc = "oscarStart", !.task = "oscar",
                                  !.stopping = p.stopping]
           next == IF stopped \/ MaxFilms = 0 THEN [p EXCEPT !.pc = "exit"] ELSE other
<1>1. Typed(p) /\ p.pc \in {"complete", "cancelComplete"} /\ p.unit \in Units
  BY TypeInvParts DEF CompleteRun, Typed, Placed
<1>2. PICK reply :
         /\ SaveChanges(w, p.unit, reply, next)
         /\ scanRun' = IF Landed(reply)
                       THEN [scanRun EXCEPT ![w] = IF stopped THEN "failed" ELSE p.verdict]
                       ELSE scanRun
  BY DEF CompleteRun
<1>3. Typed(next)
  <2>1. Typed([p EXCEPT !.pc = "exit"]) /\ Typed(other)
    BY <1>1, EndingTyped, NextTaskTyped DEF Typed
  <2> QED BY <2>1
<1>4. GoesOn(w)
  <2> HIDE DEF next
  <2> QED BY <1>1, <1>2, <1>3, SaveChangesTyped
<1>5. scanRun' \in [Workers -> ScanStatus]
  <2>1. (IF stopped THEN "failed" ELSE p.verdict) \in ScanStatus
    BY <1>1 DEF Typed, Placed, ScanStatus
  <2>2. scanRun \in [Workers -> ScanStatus]
    BY DEF TypeInv, TypeOK
  <2> HIDE DEF p, next
  <2> QED BY <1>2, <2>1, <2>2
<1>6. UNCHANGED <<lock, usage, oscarRun, hour>>
  BY DEF CompleteRun
<1>7. SharedTyped'
  <2>1. StoreUnit(w, p.unit, reply)
    BY <1>2 DEF SaveChanges
  <2> HIDE DEF p, next
  <2> QED BY <1>1, <1>5, <1>6, <2>1, StoreUnitTyped DEF SharedTyped, TypeInv, TypeOK
<1> QED BY <1>4, <1>7, GoesOnTyped

LEMMA IngestionTyped ==
    ASSUME TypeInv, NEW w \in Workers, IngestionStep(w)
    PROVE  TypeInv'
BY StartRunTyped, ReadSourcesTyped, FetchFeedTyped, TakeEntryTyped, EntryAnsweredTyped,
   UpsertTyped, FlushLogsTyped, CompleteRunTyped DEF IngestionStep

-----------------------------------------------------------------------------
(* Oscar enrichment *)

LEMMA MinOfTwo ==
    ASSUME NEW a \in Int, NEW b \in Int
    PROVE  /\ Min({a, b}) \in {a, b} /\ Min({a, b}) <= a /\ Min({a, b}) <= b
           /\ Max({a, b}) \in {a, b} /\ Max({a, b}) >= a /\ Max({a, b}) >= b
<1>1. \E x \in {a, b} : \A y \in {a, b} : x <= y
  BY a <= b \/ b <= a
<1>2. \E x \in {a, b} : \A y \in {a, b} : x >= y
  BY a <= b \/ b <= a
<1>3. Min({a, b}) \in {a, b} /\ \A y \in {a, b} : Min({a, b}) <= y
  BY <1>1, Zenon DEF Min
<1>4. Max({a, b}) \in {a, b} /\ \A y \in {a, b} : Max({a, b}) >= y
  BY <1>2, Zenon DEF Max
<1> QED BY <1>3, <1>4

LEMMA DelayTyped ==
    ASSUME NEW n \in 1..7
    PROVE  GetRetryDelay(n) \in 0..24
<1> DEFINE m == Min({n - 1, 5})
           k == Max({0, m})
<1>1. m \in 0..5
  <2>1. n - 1 \in Int /\ 5 \in Int /\ n - 1 >= 0
    OBVIOUS
  <2>2. m \in {n - 1, 5} /\ m <= 5
    BY <2>1, MinOfTwo, Zenon
  <2> HIDE DEF m
  <2> QED BY <2>1, <2>2
<1>2. k \in 0..5
  <2> HIDE DEF m
  <2>1. 0 \in Int /\ m \in Int
    BY <1>1
  <2>2. k \in {0, m}
    BY <2>1, MinOfTwo, Zenon
  <2> HIDE DEF k
  <2> QED BY <1>1, <2>2
<1>3. 2 ^ k \in 1..32
  <2>1. 2 ^ 0 = 1 /\ 2 ^ 1 = 2 /\ 2 ^ 2 = 4 /\ 2 ^ 3 = 8 /\ 2 ^ 4 = 16 /\ 2 ^ 5 = 32
    OBVIOUS
  <2>2. PICK e \in 0..5 : e = k
    BY <1>2
  <2>3. e = 0 \/ e = 1 \/ e = 2 \/ e = 3 \/ e = 4 \/ e = 5
    OBVIOUS
  <2>4. 2 ^ e \in {1, 2, 4, 8, 16, 32}
    BY <2>1, <2>3
  <2>5. {1, 2, 4, 8, 16, 32} \subseteq 1..32
    OBVIOUS
  <2>6. 2 ^ e \in 1..32
    BY <2>4, <2>5, Zenon
  <2> HIDE DEF k
  <2> QED BY <2>2, <2>6
<1>4. PICK d \in 1..32 : d = 2 ^ k
  BY <1>3
<1>5. Min({24, d}) \in 0..24
  <2>1. 24 \in Int /\ d \in Int /\ d >= 1
    OBVIOUS
  <2>2. Min({24, d}) \in {24, d} /\ Min({24, d}) <= 24
    BY <2>1, MinOfTwo, Zenon
  <2> DEFINE t == Min({24, d})
  <2>3. t \in {24, d} /\ t <= 24
    BY <2>2
  <2> HIDE DEF t
  <2>4. t \in 0..24
    BY <2>1, <2>3
  <2> QED BY <2>4 DEF t
<1>6. GetRetryDelay(n) = Min({24, d})
  BY <1>4 DEF GetRetryDelay
<1> QED BY <1>5, <1>6

(* The films that are due have places, one for each number of them. *)
LEMMA LeastOf ==
    ASSUME NEW S, S \subseteq Nat, S # {}
    PROVE  \E m \in S : \A n \in S : m <= n
<1> DEFINE R == {x \in Nat \X Nat : x[1] < x[2]}
<1>1. IsWellFoundedOn(R, Nat)
  BY NatLessThanWellFounded DEF OpToRel
<1>2. \A m, n \in Nat : <<n, m>> \notin R => m <= n
  OBVIOUS
<1> HIDE DEF R
<1>3. PICK m \in S : \A n \in S : <<n, m>> \notin R
  BY <1>1, WFMin
<1> QED BY <1>2, <1>3

LEMMA NthOf ==
    ASSUME NEW last \in Nat, NEW S \in SUBSET (1..last), NEW n \in 1..Cardinality(S)
    PROVE  \E i \in S : Cardinality({j \in S : j <= i}) = n
<1> DEFINE Upto(m) == {j \in S : j <= m}
           Enough == {m \in Nat : Cardinality(Upto(m)) >= n}
<1>0. IsFiniteSet(S) /\ \A m \in Nat : IsFiniteSet(Upto(m))
  <2>1. IsFiniteSet(1..last)
    BY FS_Interval
  <2>2. IsFiniteSet(S)
    BY <2>1, FS_Subset
  <2>3. \A m \in Nat : Upto(m) \subseteq S
    OBVIOUS
  <2> HIDE DEF Upto
  <2> QED BY <2>2, <2>3, FS_Subset
<1>9. \A j \in S : j \in Nat /\ 1 <= j /\ j <= last
  OBVIOUS
<1>10. \A m \in Nat : /\ Cardinality(Upto(m)) \in Nat
                      /\ \A j : j \in Upto(m) <=> j \in S /\ j <= m
  <2>1. \A m \in Nat : \A j : j \in Upto(m) <=> j \in S /\ j <= m
    OBVIOUS
  <2> HIDE DEF Upto
  <2> QED BY <1>0, <2>1, FS_CardinalityType
<1>11. n \in Nat
  <2>1. Cardinality(S) \in Nat
    BY <1>0, FS_CardinalityType
  <2> QED BY <2>1
<1> HIDE DEF Upto
<1>1. last \in Enough
  <2>1. Upto(last) = S
    BY <1>9, <1>10
  <2>2. Cardinality(S) \in Nat
    BY <1>0, FS_CardinalityType
  <2> QED BY <2>1, <2>2
<1>2. PICK m \in Enough : \A x \in Enough : m <= x
  <2>1. Enough \subseteq Nat /\ Enough # {}
    BY <1>1
  <2> QED BY <2>1, LeastOf
<1>3. m # 0
  <2> SUFFICES ASSUME m = 0 PROVE FALSE
    OBVIOUS
  <2>1. Upto(0) = {}
    <3>1. \A j : j \in Upto(0) <=> j \in S /\ j <= 0
      BY <1>10
    <3>2. ASSUME NEW j \in Upto(0) PROVE FALSE
      <4>1. j \in S /\ j <= 0
        BY <3>1, Zenon
      <4> QED BY <1>9, <4>1
    <3> QED BY <3>2
  <2>2. Cardinality(Upto(0)) >= n
    BY <1>2
  <2> QED BY <1>11, <2>1, <2>2, FS_EmptySet
<1>4. m - 1 \in Nat /\ m \in Nat
  BY <1>2, <1>3
<1>5. ~(Cardinality(Upto(m - 1)) >= n) /\ Cardinality(Upto(m)) >= n
  <2>1. m - 1 \notin Enough
    BY <1>2, <1>4
  <2> QED BY <1>2, <1>4, <2>1
<1>12. /\ \A j : j \in Upto(m) <=> j \in S /\ j <= m
       /\ \A j : j \in Upto(m - 1) <=> j \in S /\ j <= m - 1
  BY <1>4, <1>10
<1>6. m \in S
  <2> SUFFICES ASSUME m \notin S PROVE FALSE
    OBVIOUS
  <2>1. ASSUME NEW j PROVE j \in Upto(m) <=> j \in Upto(m - 1)
    <3>1. ASSUME j \in S PROVE j <= m <=> j <= m - 1
      BY <1>4, <1>9, <3>1
    <3> QED BY <1>12, <3>1, Zenon
  <2>2. Upto(m) = Upto(m - 1)
    BY <2>1
  <2> QED BY <1>5, <2>2
<1>7. Cardinality(Upto(m)) = Cardinality(Upto(m - 1)) + 1
  <2>1. ASSUME NEW j PROVE j \in Upto(m) <=> j \in Upto(m - 1) \/ j = m
    <3>1. ASSUME j \in S PROVE j <= m <=> j <= m - 1 \/ j = m
      BY <1>4, <1>9, <3>1
    <3> QED BY <1>6, <1>12, <3>1, Zenon
  <2>2. m \notin Upto(m - 1)
    BY <1>4, <1>10
  <2>3. Upto(m) = Upto(m - 1) \cup {m}
    BY <2>1
  <2> QED BY <1>0, <1>4, <2>2, <2>3, FS_AddElement
<1>8. Cardinality(Upto(m)) = n
  <2>1. Cardinality(Upto(m - 1)) \in Nat
    BY <1>4, <1>10
  <2> QED BY <1>5, <1>7, <1>11, <2>1
<1> QED BY <1>6, <1>8 DEF Upto

(* Where the n-th of the films that are due stands. *)
Place(n) == CHOOSE i \in Due : Cardinality({j \in Due : j <= i}) = n

LEMMA CandidatesAreDue ==
    ASSUME TypeInv, NEW n \in 1..Cardinality(Due)
    PROVE  /\ Place(n) \in Due /\ Cardinality({j \in Due : j <= Place(n)}) = n
           /\ Candidate(n) \in [film : Films, attempts : 0..6]
           /\ Candidate(n).film = FilmOrder[Place(n)]
           /\ Eligible(Candidate(n).film)
<1>1. Len(FilmOrder) \in Nat /\ DOMAIN FilmOrder = 1..Len(FilmOrder)
      /\ FilmOrder \in [1..Len(FilmOrder) -> Films]
  BY NextAssumption
<1>2. Due \in SUBSET (1..Len(FilmOrder))
  BY <1>1 DEF Due
<1>3. \E i \in Due : Cardinality({j \in Due : j <= i}) = n
  BY <1>1, <1>2, NthOf
<1>4. Place(n) \in Due /\ Cardinality({j \in Due : j <= Place(n)}) = n
  BY <1>3, Zenon DEF Place
<1> DEFINE f == FilmOrder[Place(n)]
<1>5. f \in Films /\ Eligible(f)
  BY <1>1, <1>4 DEF Due
<1>6. film[f].attempts \in 0..6
  BY <1>5 DEF TypeInv, TypeOK, FilmDoc
<1>7. Candidate(n) = [film |-> f, attempts |-> film[f].attempts]
  BY DEF Candidate, Place
<1> HIDE DEF f
<1>8. Candidate(n) \in [film : Films, attempts : 0..6] /\ Candidate(n).film = f
  BY <1>5, <1>6, <1>7
<1> QED BY <1>4, <1>5, <1>8 DEF f

LEMMA CandidatesDiffer ==
    ASSUME TypeInv, NEW m \in 1..Cardinality(Due), NEW n \in 1..Cardinality(Due),
           Candidate(m).film = Candidate(n).film
    PROVE  m = n
<1>1. FilmOrder[Place(m)] = FilmOrder[Place(n)]
  BY CandidatesAreDue
<1>2. Place(m) = Place(n)
  BY <1>1, CandidatesAreDue, NextAssumption DEF Due
<1> QED BY <1>2, CandidatesAreDue

LEMMA EndedTyped ==
    ASSUME NEW p, Typed(p), p.task = "oscar", NEW verdict \in OscarStatus
    PROVE  LET q == Ended(p, verdict) IN
           /\ Typed(q) /\ Rest(q) = Rest(p) /\ q.pc = "finish" /\ q.verdict = verdict
<1> DEFINE r == Unasked(p)
           q == [r EXCEPT !.pc = "finish", !.verdict = verdict]
<1>1. r \in Memory /\ Rest(r) = Rest(p)
  BY UnaskedTyped DEF Typed
<1>2. Ended(p, verdict) = q
  BY DEF Ended
<1> HIDE DEF r
<1>3. q \in Memory /\ q.pc = "finish" /\ q.verdict = verdict /\ Rest(q) = Rest(r)
  BY <1>1 DEF Memory, Rest, OscarOnly
<1> HIDE DEF q
<1>4. q.task = "oscar" /\ IsFiniteSet(q.pending) /\ q.unit \in Units
  BY <1>1, <1>3 DEF Rest, Typed, Placed
<1>5. Typed(q)
  BY <1>3, <1>4, LeavingTyped DEF Typed
<1> QED BY <1>1, <1>2, <1>3, <1>5

(* At another step of the same run, before or between its films. *)
LEMMA WalkTyped ==
    ASSUME NEW p, Typed(p), p.task = "oscar", NEW q \in Memory, q.task = "oscar",
           q.pc \in {"candidates", "eligible", "nextFilm"},
           q.unit = p.unit, q.pending = p.pending
    PROVE  Typed(q)
BY LeavingTyped DEF Typed, Placed

LEMMA OscarStartTyped ==
    ASSUME TypeInv, NEW w \in Workers, OscarStart(w)
    PROVE  TypeInv'
<1> DEFINE p == proc[w]
           q == [p EXCEPT !.pc = "candidates"]
           started == [status |-> "running", processed |-> 0]
<1>1. Typed(p) /\ p.pc = "oscarStart" /\ p.task = "oscar" /\ p.unit \in Units
  BY TypeInvParts DEF OscarStart, At, Typed, Placed, OscarOnly
<1>2. PICK reply :
         /\ SaveChanges(w, p.unit, reply, q)
         /\ oscarRun' = IF Landed(reply) THEN [oscarRun EXCEPT ![w] = started] ELSE oscarRun
  BY DEF OscarStart
<1>3. Typed(q)
  <2> HIDE DEF p
  <2>1. q \in Memory /\ q.pc = "candidates" /\ Rest(q) = Rest(p)
    BY <1>1 DEF Typed, Memory, Rest, OscarOnly
  <2> HIDE DEF q
  <2> QED BY <1>1, <2>1, WalkTyped DEF Rest
<1>4. GoesOn(w)
  <2> HIDE DEF q
  <2> QED BY <1>1, <1>2, <1>3, SaveChangesTyped
<1>5. oscarRun' \in [Workers -> [status : OscarStatus, processed : Nat]]
  <2>1. started \in [status : OscarStatus, processed : Nat]
    BY DEF OscarStatus
  <2>2. oscarRun \in [Workers -> [status : OscarStatus, processed : Nat]]
    BY DEF TypeInv, TypeOK
  <2> HIDE DEF started, p, q
  <2> QED BY <1>2, <2>1, <2>2
<1>6. StoreUnit(w, p.unit, reply) /\ UNCHANGED <<lock, usage, scanRun, hour>>
  BY <1>2 DEF OscarStart, SaveChanges
<1>7. SharedTyped'
  <2> HIDE DEF p, q
  <2> QED BY <1>1, <1>5, <1>6, StoreUnitTyped DEF SharedTyped, TypeInv, TypeOK
<1> QED BY <1>4, <1>7, GoesOnTyped

(* How many films a run takes up. *)
Taken == Min({Cardinality(Due), MaxFilms})
Candidates == [n \in 1..Taken |-> Candidate(n)]

LEMMA TakenNumber ==
    /\ Taken \in Nat /\ Taken <= Cardinality(Due) /\ Cardinality(Due) \in Nat
    /\ 1..Taken \subseteq 1..Cardinality(Due)
<1>1. IsFiniteSet(Due)
  <2>1. Due \subseteq 1..Len(FilmOrder) /\ Len(FilmOrder) \in Nat
    BY NextAssumption DEF Due
  <2>2. IsFiniteSet(1..Len(FilmOrder))
    BY <2>1, FS_Interval
  <2> QED BY <2>1, <2>2, FS_Subset
<1>2. Cardinality(Due) \in Nat /\ MaxFilms \in Nat
  BY <1>1, FS_CardinalityType, NextAssumption
<1>3. Cardinality(Due) \in Int /\ MaxFilms \in Int
  BY <1>2
<1>4. Taken \in {Cardinality(Due), MaxFilms} /\ Taken <= Cardinality(Due)
  BY <1>3, MinOfTwo, Zenon DEF Taken
<1> QED BY <1>2, <1>4

LEMMA CandidatesTyped ==
    ASSUME TypeInv
    PROVE  Candidates \in Seq([film : Films, attempts : 0..6])
<1>1. \A n \in 1..Taken : Candidate(n) \in [film : Films, attempts : 0..6]
  BY TakenNumber, CandidatesAreDue
<1> QED BY <1>1, TakenNumber DEF Candidates

LEMMA ReadCandidatesTyped ==
    ASSUME TypeInv, NEW w \in Workers, ReadCandidates(w)
    PROVE  TypeInv'
<1> DEFINE p == proc[w]
           q == [p EXCEPT !.pc = "eligible", !.films = Candidates]
<1>1. Typed(p) /\ p.pc = "candidates" /\ p.task = "oscar"
  BY TypeInvParts DEF ReadCandidates, At, Typed, Placed, OscarOnly
<1>2. PICK reply : Continue(w, reply, q, p)
  BY DEF ReadCandidates, Candidates, Taken
<1>3. Typed(q)
  <2> HIDE DEF p
  <2>1. q \in Memory /\ q.pc = "eligible" /\ q.task = "oscar" /\ q.unit = p.unit
        /\ q.pending = p.pending
    BY <1>1, CandidatesTyped DEF Typed, Memory, OscarOnly
  <2> HIDE DEF q
  <2> QED BY <1>1, <2>1, WalkTyped
<1>4. GoesOn(w)
  <2> HIDE DEF q
  <2> QED BY <1>1, <1>2, <1>3, ContinueTyped
<1>5. SharedTyped'
  BY SharedKept DEF ReadCandidates, rows, runRows
<1> QED BY <1>4, <1>5, GoesOnTyped

LEMMA FirstFilmTyped ==
    ASSUME NEW p, Typed(p), p.films # <<>>
    PROVE  /\ Head(p.films).film \in Films /\ Head(p.films).attempts \in 0..6
           /\ Tail(p.films) \in Seq([film : Films, attempts : 0..6])
<1>1. p.films \in Seq([film : Films, attempts : 0..6])
  BY DEF Typed, Memory
<1>2. ASSUME NEW C, NEW s \in Seq(C), s # <<>>
      PROVE  Head(s) \in C /\ Tail(s) \in Seq(C)
  <2>1. Len(s) \in Nat /\ Len(s) # 0 /\ s \in [1..Len(s) -> C]
    BY <1>2
  <2> QED BY <2>1
<1> DEFINE C == [film : Films, attempts : 0..6]
<1>3. Head(p.films) \in C /\ Tail(p.films) \in Seq(C)
  <2> HIDE DEF C
  <2> QED BY <1>1, <1>2 DEF C
<1> QED BY <1>3

LEMMA TakeFilmTyped ==
    ASSUME TypeInv, NEW w \in Workers, TakeFilm(w)
    PROVE  TypeInv'
<1> DEFINE p == proc[w]
           k == KeyOf[Head(p.films).film]
<1>1. Typed(p) /\ p.pc = "nextFilm" /\ p.task = "oscar"
  BY TypeInvParts DEF TakeFilm, At, Typed, Placed, OscarOnly
<1>2. CASE p.films = <<>>
  <2>1. \E verdict \in {"partial", "succeeded"} :
           proc' = [proc EXCEPT ![w] = Ended(p, verdict)]
    BY <1>2 DEF TakeFilm
  <2>2. \A verdict \in {"partial", "succeeded"} : Typed(Ended(p, verdict))
    BY <1>1, EndedTyped DEF OscarStatus
  <2> QED BY <2>1, <2>2, GoesOnTyped, SharedKept DEF GoesOn, TakeFilm, rows, runRows
<1>3. CASE p.films # <<>> /\ p.stopping
  <2>1. proc' = [proc EXCEPT ![w] = Thrown(p, "cancelled")]
    BY <1>3 DEF TakeFilm
  <2>2. Typed(Thrown(p, "cancelled"))
    BY <1>1, ThrownTyped
  <2> QED BY <2>1, <2>2, GoesOnTyped, SharedKept DEF GoesOn, TakeFilm, rows, runRows
<1>4. CASE p.films # <<>> /\ ~p.stopping
  <2> DEFINE q == Asking(p, k)
  <2>1. proc' = [proc EXCEPT ![w] = q]
    BY <1>4 DEF TakeFilm
  <2>2. k \in Keys
    BY <1>1, <1>4, FirstFilmTyped, NextAssumption
  <2>3. q \in Memory /\ q.pc = "cache" /\ q.key = k /\ Rest(q) = Rest(p)
    BY <1>1, <2>2, AskingFields DEF Typed
  <2>4. Typed(q)
    <3> HIDE DEF p, q, k
    <3>1. /\ q.task = "oscar" /\ q.films = p.films /\ q.pending = p.pending
          /\ q.unit = p.unit
      BY <1>1, <2>3 DEF Rest
    <3> QED BY <1>1, <1>4, <2>2, <2>3, <3>1
            DEF Typed, Placed, RssOnly, OscarOnly, Lookup
  <2> QED BY <2>1, <2>4, GoesOnTyped, SharedKept DEF GoesOn, TakeFilm, rows, runRows
<1> QED BY <1>2, <1>3, <1>4

LEMMA AfterProgressTyped ==
    ASSUME NEW p, Typed(p), p.task = "oscar", p.pc \in {"eligible", "answered", "progress"}
    PROVE  Typed(AfterProgress(p))
<1>0. p \in Memory /\ (p.pc # "eligible" => p.films # <<>>)
      /\ (p.pc = "answered" => p.result \in Results \ {"none"})
  BY DEF Typed, Placed, Memory, Lookup
<1>1. CASE p.pc = "eligible"
  <2> DEFINE q == [p EXCEPT !.pc = "nextFilm"]
  <2>1. q \in Memory /\ q.pc = "nextFilm" /\ Rest(q) = Rest(p)
    BY <1>0 DEF Memory, Rest, OscarOnly
  <2>2. AfterProgress(p) = q
    BY <1>1 DEF AfterProgress
  <2> HIDE DEF q
  <2> QED BY <2>1, <2>2, WalkTyped DEF Rest
<1>2. CASE \/ p.pc = "answered" /\ p.result = "budget"
           \/ p.pc = "progress" /\ p.result = "quota"
  <2>1. AfterProgress(p) = Ended(p, "quota_stopped")
    BY <1>2 DEF AfterProgress
  <2> QED BY <2>1, EndedTyped DEF OscarStatus
<1>3. CASE p.pc = "answered" /\ p.result # "budget"
  <2> DEFINE q == [p EXCEPT !.pc = "saveFilm"]
  <2>1. q \in Memory /\ q.pc = "saveFilm" /\ Rest(q) = Rest(p) /\ q.result = p.result
    BY <1>0 DEF Memory, Rest, OscarOnly
  <2>2. AfterProgress(p) = q
    BY <1>3 DEF AfterProgress
  <2> HIDE DEF q
  <2>3. /\ q.task = "oscar" /\ q.films = p.films /\ q.pending = p.pending
        /\ q.unit = p.unit
    BY <2>1 DEF Rest
  <2>4. Typed(q)
    BY <1>0, <1>3, <2>1, <2>3
       DEF Typed, Placed, Results, Answers, RssOnly, OscarOnly, Lookup
  <2> QED BY <2>2, <2>4
<1>4. CASE p.pc = "progress" /\ p.result # "quota"
  <2> DEFINE r == Unasked(p)
             s == Tail(r.films)
             q == [r EXCEPT !.pc = "nextFilm", !.films = s]
  <2>1. r \in Memory /\ Rest(r) = Rest(p)
    BY <1>0, UnaskedTyped
  <2>2. r.films = p.films /\ r.unit = p.unit /\ r.pending = p.pending /\ r.task = "oscar"
    BY <2>1 DEF Rest
  <2>3. s \in Seq([film : Films, attempts : 0..6])
    BY <1>0, <1>4, <2>2, FirstFilmTyped
  <2>4. AfterProgress(p) = q
    BY <1>4 DEF AfterProgress
  <2> HIDE DEF r, s
  <2>5. q \in Memory /\ q.pc = "nextFilm" /\ q.task = "oscar" /\ q.unit = p.unit
        /\ q.pending = p.pending
    BY <2>1, <2>2, <2>3 DEF Memory, OscarOnly
  <2> HIDE DEF q
  <2> QED BY <2>4, <2>5, WalkTyped
<1> QED BY <1>1, <1>2, <1>3, <1>4

LEMMA SaveProgressTyped ==
    ASSUME TypeInv, NEW w \in Workers, SaveProgress(w)
    PROVE  TypeInv'
<1> DEFINE p == proc[w]
           ok == AfterProgress(p)
<1>1. /\ Typed(p) /\ p.pc \in {"eligible", "answered", "progress"} /\ p.task = "oscar"
      /\ p.unit \in Units
  BY TypeInvParts DEF SaveProgress, At, InOscar, Typed, Placed, OscarOnly
<1>2. PICK reply :
         /\ SaveChanges(w, p.unit, reply, ok)
         /\ oscarRun' = IF Landed(reply) THEN [oscarRun EXCEPT ![w].processed = p.processed]
                        ELSE oscarRun
  BY DEF SaveProgress
<1>3. Typed(ok)
  BY <1>1, AfterProgressTyped
<1>4. GoesOn(w)
  <2> HIDE DEF ok
  <2> QED BY <1>1, <1>2, <1>3, SaveChangesTyped
<1>5. oscarRun' \in [Workers -> [status : OscarStatus, processed : Nat]]
  <2>1. oscarRun \in [Workers -> [status : OscarStatus, processed : Nat]]
    BY DEF TypeInv, TypeOK
  <2>2. p.processed \in Nat
    BY <1>1 DEF Typed, Memory
  <2> HIDE DEF p, ok
  <2> QED BY <1>2, <2>1, <2>2
<1>6. StoreUnit(w, p.unit, reply) /\ UNCHANGED <<lock, usage, scanRun, hour>>
  BY <1>2 DEF SaveProgress, SaveChanges
<1>7. SharedTyped'
  <2> HIDE DEF p, ok
  <2> QED BY <1>1, <1>5, <1>6, StoreUnitTyped DEF SharedTyped, TypeInv, TypeOK
<1> QED BY <1>4, <1>7, GoesOnTyped

(* What is stored of a film that was tried. *)
LEMMA OutcomeTyped ==
    ASSUME TypeInv, NEW p, p.result \in {"found", "not_found", "quota", "failure"},
           NEW attempts \in 1..7, NEW doc \in CreateUpdate(p, attempts)
    PROVE  doc \in FilmDoc /\ doc.status # "pending"
<1> DEFINE n == Min({attempts, 6})
<1>1. n \in 0..6
  <2>1. attempts \in Int /\ 6 \in Int /\ attempts >= 1
    OBVIOUS
  <2>2. n \in {attempts, 6} /\ n <= 6
    BY <2>1, MinOfTwo, Zenon
  <2> HIDE DEF n
  <2> QED BY <2>1, <2>2
<1>2. GetRetryDelay(attempts) \in 0..24
  BY DelayTyped
<1>3. HoursToMidnight(p) \in 0..24
  BY DEF HoursToMidnight, TypeInv, TypeOK, Hours
<1>4. \E status \in {"enriched", "not_found", "temporary_error"},
         wait \in {0, GetRetryDelay(attempts), HoursToMidnight(p)} :
            doc = [status |-> status, attempts |-> n, wait |-> wait]
  BY DEF CreateUpdate
<1> HIDE DEF n
<1>5. PICK status \in {"enriched", "not_found", "temporary_error"}, wait \in 0..24 :
         doc = [status |-> status, attempts |-> n, wait |-> wait]
  BY <1>2, <1>3, <1>4
<1> QED BY <1>1, <1>5 DEF FilmDoc

LEMMA SaveOutcomeTyped ==
    ASSUME TypeInv, NEW w \in Workers, SaveOutcome(w)
    PROVE  TypeInv'
<1> DEFINE p == proc[w]
           candidate == Head(p.films)
           f == candidate.film
<1>1. /\ Typed(p) /\ p.pc = "saveFilm" /\ p.task = "oscar" /\ p.unit \in Units
      /\ p.films # <<>> /\ p.result \in {"found", "not_found", "quota", "failure"}
  BY TypeInvParts DEF SaveOutcome, At, Typed, Placed, OscarOnly
<1>0. PICK doc \in CreateUpdate(p, candidate.attempts + 1), base \in {p.unit, Clean} :
         \E reply : SaveChanges(w, [base EXCEPT !.films[f] = doc], reply, Attempted(p, doc))
  BY DEF SaveOutcome
<1>2. PICK reply : SaveChanges(w, [base EXCEPT !.films[f] = doc], reply, Attempted(p, doc))
  BY <1>0
<1> DEFINE u == [base EXCEPT !.films[f] = doc]
           ok == Attempted(p, doc)
<1>3. f \in Films /\ candidate.attempts + 1 \in 1..7
  BY <1>1, FirstFilmTyped, SMTT(30)
<1>4. doc \in FilmDoc /\ doc.status # "pending"
  BY <1>1, <1>3, OutcomeTyped
<1>5. u \in Units
  <2>1. base \in Units
    BY <1>1, CleanTyped
  <2> HIDE DEF p, f
  <2>2. u \in Unit
    BY <1>3, <1>4, <2>1 DEF Units, Unit
  <2>3. \A g \in Films : u.films[g] = IF g = f THEN doc ELSE base.films[g]
    BY <1>3, <2>1 DEF Units, Unit
  <2> HIDE DEF u
  <2> QED BY <1>4, <2>1, <2>2, <2>3 DEF Units
<1>6. Typed(ok)
  <2>1. p \in Memory /\ p.processed + 1 \in Nat
    BY <1>1 DEF Typed, Memory
  <2>2. /\ ok \in Memory /\ ok.pc = "progress" /\ ok.task = "oscar" /\ ok.unit = p.unit
        /\ ok.pending = p.pending /\ ok.films = p.films
    <3> HIDE DEF p
    <3>1. ASSUME NEW n \in Nat, NEW b \in BOOLEAN
          PROVE  LET q == [p EXCEPT !.pc = "progress", !.processed = n, !.soft = b]
                 IN  /\ q \in Memory /\ q.pc = "progress" /\ q.task = p.task
                     /\ q.unit = p.unit /\ q.pending = p.pending /\ q.films = p.films
      BY <2>1 DEF Memory, OscarOnly
    <3>2. ok = [p EXCEPT !.pc = "progress", !.processed = p.processed + 1,
                         !.soft = p.soft \/ doc.status = "temporary_error"]
      BY <2>1 DEF Attempted
    <3>3. (p.soft \/ doc.status = "temporary_error") \in BOOLEAN
      OBVIOUS
    <3> HIDE DEF ok
    <3> QED BY <1>1, <2>1, <3>1, <3>2, <3>3
  <2> HIDE DEF p, ok
  <2> QED BY <1>1, <2>2 DEF Typed, Placed, RssOnly, OscarOnly, Lookup
<1>7. SaveChanges(w, u, reply, ok)
  BY <1>2
<1>8. GoesOn(w)
  <2> HIDE DEF u, ok
  <2> QED BY <1>1, <1>5, <1>6, <1>7, SaveChangesTyped
<1>9. SharedTyped'
  <2>1. UNCHANGED <<lock, usage, scanRun, oscarRun, hour>>
    BY DEF SaveOutcome, runRows
  <2>2. StoreUnit(w, u, reply)
    BY <1>7 DEF SaveChanges
  <2> HIDE DEF u
  <2> QED BY <1>5, <2>1, <2>2, SharedKept
<1> QED BY <1>8, <1>9, GoesOnTyped

LEMMA FinishTyped ==
    ASSUME TypeInv, NEW w \in Workers, Finish(w)
    PROVE  TypeInv'
<1> DEFINE p == proc[w]
           ok == [p EXCEPT !.pc = "exit"]
           ended == [status |-> p.verdict, processed |-> p.processed]
<1>1. Typed(p) /\ p.pc = "finish" /\ p.unit \in Units
  BY TypeInvParts DEF Finish, At, Typed, Placed
<1>2. PICK reply :
         /\ SaveChanges(w, p.unit, reply, ok)
         /\ oscarRun' = IF Landed(reply) THEN [oscarRun EXCEPT ![w] = ended] ELSE oscarRun
  BY DEF Finish
<1>3. Typed(ok)
  BY <1>1, EndingTyped
<1>4. GoesOn(w)
  <2> HIDE DEF ok
  <2> QED BY <1>1, <1>2, <1>3, SaveChangesTyped
<1>5. oscarRun' \in [Workers -> [status : OscarStatus, processed : Nat]]
  <2>1. oscarRun \in [Workers -> [status : OscarStatus, processed : Nat]]
    BY DEF TypeInv, TypeOK
  <2>2. ended \in [status : OscarStatus, processed : Nat]
    BY <1>1 DEF Typed, Memory, Placed
  <2> HIDE DEF p, ok, ended
  <2> QED BY <1>2, <2>1, <2>2
<1>6. StoreUnit(w, p.unit, reply) /\ UNCHANGED <<lock, usage, scanRun, hour>>
  BY <1>2 DEF Finish, SaveChanges
<1>7. SharedTyped'
  <2> HIDE DEF p, ok
  <2> QED BY <1>1, <1>5, <1>6, StoreUnitTyped DEF SharedTyped, TypeInv, TypeOK
<1> QED BY <1>4, <1>7, GoesOnTyped

LEMMA EnrichmentTyped ==
    ASSUME TypeInv, NEW w \in Workers, EnrichmentStep(w)
    PROVE  TypeInv'
BY OscarStartTyped, ReadCandidatesTyped, TakeFilmTyped, SaveProgressTyped,
   SaveOutcomeTyped, FinishTyped DEF EnrichmentStep

-----------------------------------------------------------------------------
(* The process, what happens to it, and time *)

LEMMA InitTyped == Init => TypeInv
<1> SUFFICES ASSUME Init PROVE TypeInv
  OBVIOUS
<1>1. \A w \in Workers : Typed(proc[w])
  BY FreshTyped DEF Init
<1>2. /\ NoLogs \in [Items -> Nat] /\ NoOscarRun \in [status : OscarStatus, processed : Nat]
      /\ NothingSaved \in [Films -> {"none", "enriched", "not_found", "temporary_error"}]
      /\ [status |-> "pending", attempts |-> 0, wait |-> 0] \in FilmDoc
      /\ "none" \in ScanStatus /\ "none" \in CacheState
  BY DEF NoLogs, NoOscarRun, OscarStatus, NothingSaved, FilmDoc, ScanStatus, CacheState
<1>3. SharedTyped
  BY <1>2 DEF SharedTyped, Init, Hours
<1> QED BY <1>1, <1>3, TypeInvParts DEF Init

LEMMA AcquireTyped ==
    ASSUME TypeInv, NEW w \in Workers, Acquire(w) \/ ReadSettings(w)
    PROVE  TypeInv'
<1> DEFINE p == proc[w]
           settings == [p EXCEPT !.pc = "settings"]
           start == [p EXCEPT !.pc = "startRun"]
<1>1. Typed(p) /\ p.pc \in {"acquire", "settings"} /\ p.task = "rss"
  BY TypeInvParts DEF Acquire, ReadSettings, At, Typed, Placed
<1>2. \E ok \in {settings, start, Fresh} : \E reply : Continue(w, reply, ok, p)
  BY DEF Acquire, ReadSettings
<1>3. Typed(settings) /\ Typed(start) /\ Typed(Fresh)
  <2> HIDE DEF p
  <2>1. settings \in Memory /\ settings.pc = "settings" /\ Rest(settings) = Rest(p)
    BY <1>1 DEF Typed, Memory, Rest
  <2>2. start \in Memory /\ start.pc = "startRun" /\ Rest(start) = Rest(p)
    BY <1>1 DEF Typed, Memory, Rest, RssOnly
  <2> HIDE DEF settings, start
  <2>3. ASSUME NEW q \in {settings, start} PROVE Typed(q)
    <3>1. q \in Memory /\ q.pc \in {"settings", "startRun"} /\ q.task = "rss"
          /\ q.unit = p.unit /\ q.pending = p.pending
      BY <1>1, <2>1, <2>2 DEF Rest
    <3> QED BY <1>1, <3>1 DEF Typed, Placed, RssOnly, OscarOnly, Lookup
  <2> QED BY <2>3, FreshTyped
<1>4. GoesOn(w)
  <2> HIDE DEF p, settings, start
  <2> QED BY <1>1, <1>2, <1>3, ContinueTyped DEF p
<1>5. lock' \in Workers \cup {NoWorker}
  BY DEF Acquire, ReadSettings, TypeInv, TypeOK
<1>6. UNCHANGED <<rows, usage, scanRun, oscarRun, hour>>
  BY DEF Acquire, ReadSettings, rows, runRows
<1>7. SharedTyped'
  BY <1>5, <1>6 DEF SharedTyped, TypeInv, TypeOK, rows
<1> QED BY <1>4, <1>7, GoesOnTyped

LEMMA EventTyped ==
    ASSUME TypeInv, NEW w \in Workers,
           Exit(w) \/ StartManual(w) \/ Stop(w) \/ Kill(w) \/ DropConnection(w)
    PROVE  TypeInv'
<1>1. /\ lock' \in Workers \cup {NoWorker}
      /\ UNCHANGED <<rows, usage, scanRun, oscarRun, hour>>
  BY DEF Exit, StartManual, Stop, Kill, DropConnection, Released, rows, runRows,
         TypeInv, TypeOK
<1>2. SharedTyped'
  BY <1>1 DEF SharedTyped, TypeInv, TypeOK, rows
<1>3. Typed(proc[w])
  BY TypeInvParts
<1>4. CASE Exit(w) \/ Kill(w)
  BY <1>2, <1>4, FreshTyped, GoesOnTyped DEF Exit, Kill, GoesOn
<1>5. CASE StartManual(w)
  <2> DEFINE p == proc[w]
             q == [p EXCEPT !.pc = "acquire"]
  <2>1. p.pc = "idle" /\ proc' = [proc EXCEPT ![w] = q]
    BY <1>5 DEF StartManual, Active
  <2>2. Typed(q)
    <3> HIDE DEF p
    <3>1. p.task = "rss" /\ p.unit \in Units /\ IsFiniteSet(p.pending)
      BY <1>3, <2>1 DEF Typed, Placed, p
    <3>2. /\ q \in Memory /\ q.pc = "acquire" /\ q.task = p.task /\ q.unit = p.unit
          /\ q.pending = p.pending
      BY <1>3 DEF Typed, Memory, p
    <3> HIDE DEF q
    <3> QED BY <3>1, <3>2 DEF Typed, Placed, RssOnly, OscarOnly, Lookup
  <2> QED BY <1>2, <2>1, <2>2, GoesOnTyped DEF GoesOn
<1>6. CASE Stop(w)
  <2> DEFINE p == proc[w]
             q == [p EXCEPT !.stopping = TRUE]
  <2>1. proc' = [proc EXCEPT ![w] = q]
    BY <1>6 DEF Stop
  <2>2. Typed(q)
    <3> HIDE DEF p
    <3>1. Typed(p)
      BY <1>3 DEF p
    <3>2. /\ q \in Memory /\ q.pc = p.pc /\ q.task = p.task /\ q.key = p.key
          /\ q.result = p.result /\ q.source = p.source /\ q.entry = p.entry
          /\ q.films = p.films /\ q.verdict = p.verdict /\ q.pending = p.pending
          /\ q.unit = p.unit
      BY <3>1 DEF Typed, Memory
    <3> HIDE DEF q
    <3> QED BY <3>1, <3>2 DEF Typed, Placed, Feed
  <2> QED BY <1>2, <2>1, <2>2, GoesOnTyped DEF GoesOn
<1>7. CASE DropConnection(w)
  BY <1>2, <1>7, TypeInvParts DEF DropConnection, SharedTyped, TypeInv, TypeOK, Typed, Placed
<1> QED BY <1>4, <1>5, <1>6, <1>7

LEMMA WaitsTyped ==
    ASSUME TypeInv, NEW f \in Films, NEW wait \in Waits(f)
    PROVE  wait \in 0..24
<1>1. film[f].wait \in 0..24 /\ hour \in {0, 5, 16}
  BY DEF TypeInv, TypeOK, FilmDoc, Hours
<1>2. Elapsed \in {5, 11, 8}
  BY <1>1 DEF Elapsed, NextHour
<1>3. CASE film[f].wait = Elapsed
  BY <1>3 DEF Waits
<1>4. CASE film[f].wait # Elapsed
  <2> DEFINE d == film[f].wait - Elapsed
  <2>1. d \in Int /\ d <= 24 /\ 0 \in Int
    BY <1>1, <1>2
  <2>2. wait = Max({0, d})
    BY <1>4 DEF Waits
  <2> HIDE DEF d
  <2>3. Max({0, d}) \in {0, d} /\ Max({0, d}) >= 0
    BY <2>1, MinOfTwo, Zenon
  <2>4. wait \in {0, d} /\ wait >= 0
    BY <2>2, <2>3
  <2> QED BY <2>1, <2>4
<1> QED BY <1>3, <1>4

LEMMA TimePassesTyped ==
    ASSUME TypeInv, TimePasses
    PROVE  /\ film' \in [Films -> FilmDoc] /\ hour' \in Hours
           /\ scanRun' \in [Workers -> ScanStatus]
           /\ oscarRun' \in [Workers -> [status : OscarStatus, processed : Nat]]
           /\ parseLogs' \in [Workers -> [Items -> Nat]]
           /\ saved' \in [Workers -> [Films -> {"none", "enriched", "not_found",
                                                 "temporary_error"}]]
<1>1. hour' \in Hours
  BY DEF TimePasses, NextHour, Hours, TypeInv, TypeOK
<1>2. PICK waits : /\ \A f \in Films : waits[f] \in Waits(f)
                   /\ film' = [f \in Films |-> [film[f] EXCEPT !.wait = waits[f]]]
  BY DEF TimePasses
<1>3. \A f \in Films : waits[f] \in 0..24 /\ film[f] \in FilmDoc
  BY <1>2, WaitsTyped DEF TypeInv, TypeOK
<1>4. \A f \in Films : [film[f] EXCEPT !.wait = waits[f]] \in FilmDoc
  BY <1>3 DEF FilmDoc
<1>5. film' \in [Films -> FilmDoc]
  BY <1>2, <1>4
<1>6. /\ "none" \in ScanStatus /\ NoOscarRun \in [status : OscarStatus, processed : Nat]
      /\ NoLogs \in [Items -> Nat]
      /\ NothingSaved \in [Films -> {"none", "enriched", "not_found", "temporary_error"}]
  BY DEF ScanStatus, NoOscarRun, OscarStatus, NoLogs, NothingSaved
<1>7. DropEndedRuns
  BY DEF TimePasses
<1>8. scanRun' \in [Workers -> ScanStatus]
  BY <1>6, <1>7 DEF DropEndedRuns, TypeInv, TypeOK
<1>9. oscarRun' \in [Workers -> [status : OscarStatus, processed : Nat]]
  <2>1. oscarRun' = [w \in Workers |-> IF Active(w) THEN oscarRun[w] ELSE NoOscarRun]
    BY <1>7 DEF DropEndedRuns
  <2>2. \A w \in Workers : oscarRun[w] \in [status : OscarStatus, processed : Nat]
    BY DEF TypeInv, TypeOK
  <2> QED BY <1>6, <2>1, <2>2
<1>10. parseLogs' \in [Workers -> [Items -> Nat]]
  <2>1. parseLogs' = [w \in Workers |-> IF Active(w) THEN parseLogs[w] ELSE NoLogs]
    BY <1>7 DEF DropEndedRuns
  <2>2. \A w \in Workers : parseLogs[w] \in [Items -> Nat]
    BY DEF TypeInv, TypeOK
  <2> QED BY <1>6, <2>1, <2>2
<1>11. saved' \in [Workers -> [Films -> {"none", "enriched", "not_found",
                                          "temporary_error"}]]
  <2> DEFINE S == [Films -> {"none", "enriched", "not_found", "temporary_error"}]
  <2>1. saved' = [w \in Workers |-> IF Active(w) THEN saved[w] ELSE NothingSaved]
    BY <1>7 DEF DropEndedRuns
  <2>2. \A w \in Workers : saved[w] \in S
    BY DEF TypeInv, TypeOK
  <2>3. NothingSaved \in S
    BY <1>6
  <2> HIDE DEF S
  <2>4. saved' \in [Workers -> S]
    BY <2>1, <2>2, <2>3
  <2> QED BY <2>4 DEF S
<1> QED BY <1>1, <1>5, <1>8, <1>9, <1>10, <1>11

LEMMA MidnightTyped ==
    ASSUME TypeInv, Midnight
    PROVE  TypeInv'
<1>1. /\ TimePasses
      /\ proc' = [w \in Workers |-> [proc[w] EXCEPT
                    !.today = @ /\ proc[w].pc \notin {"send", "mark"},
                    !.begun = @ /\ ~Attempting(w)]]
  BY DEF Midnight
<1>3. ASSUME NEW w \in Workers PROVE Typed(proc'[w])
  <2> DEFINE p == proc[w]
             q == proc'[w]
  <2>1. Typed(p)
    BY TypeInvParts
  <2>2. PICK a \in BOOLEAN, b \in BOOLEAN : q = [p EXCEPT !.today = a, !.begun = b]
    BY <1>1
  <2> HIDE DEF p, q
  <2>3. /\ q \in Memory /\ q.pc = p.pc /\ q.task = p.task /\ q.key = p.key
        /\ q.result = p.result /\ q.source = p.source /\ q.entry = p.entry
        /\ q.films = p.films /\ q.verdict = p.verdict /\ q.pending = p.pending
        /\ q.unit = p.unit
    BY <2>1, <2>2, ZenonT(30) DEF Typed, Memory
  <2>4. Typed(q)
    BY <2>1, <2>3 DEF Typed, Placed, Feed
  <2> QED BY <2>4 DEF q
<1>4. cache' \in [Keys -> CacheState]
  BY DEF Midnight, TypeInv, TypeOK, CacheState
<1>5. usage' \in [total : Nat, oscar : Nat, quota : BOOLEAN]
  BY DEF Midnight
<1>6. UNCHANGED <<lock, catalog>>
  BY <1>1 DEF TimePasses
<1>7. SharedTyped'
  BY <1>1, <1>4, <1>5, <1>6, TimePassesTyped DEF SharedTyped, TypeInv, TypeOK
<1>8. DOMAIN proc' = Workers
  BY <1>1
<1> QED BY <1>3, <1>7, <1>8 DEF SharedTyped, TypeInv, TypeOK, Typed, Placed

LEMMA TimerTyped ==
    ASSUME TypeInv, TimerTick
    PROVE  TypeInv'
<1> DEFINE p == proc[Scheduled]
           q == [p EXCEPT !.pc = "acquire"]
<1>1. /\ TimePasses /\ UNCHANGED <<cache, usage, lock, catalog>>
      /\ proc' = [proc EXCEPT ![Scheduled] = q]
      /\ Scheduled \in Workers /\ p.pc = "idle" /\ Typed(p)
  BY NextAssumption, TypeInvParts DEF TimerTick, TimePasses, Active
<1>2. Typed(q)
  <2> HIDE DEF p
  <2>1. p.task = "rss" /\ p.unit \in Units /\ IsFiniteSet(p.pending)
    BY <1>1 DEF Typed, Placed
  <2>2. /\ q \in Memory /\ q.pc = "acquire" /\ q.task = p.task /\ q.unit = p.unit
        /\ q.pending = p.pending
    BY <1>1 DEF Typed, Memory
  <2> HIDE DEF q
  <2> QED BY <2>1, <2>2 DEF Typed, Placed, RssOnly, OscarOnly, Lookup
<1>3. SharedTyped'
  BY <1>1, TimePassesTyped DEF SharedTyped, TypeInv, TypeOK
<1> QED BY <1>1, <1>2, <1>3, GoesOnTyped DEF GoesOn

LEMMA StepTyped ==
    ASSUME TypeInv, [Next]_vars
    PROVE  TypeInv'
<1>1. CASE UNCHANGED vars
  BY <1>1 DEF vars, TypeInv, TypeOK, Placed, Feed
<1>2. ASSUME NEW w \in Workers, ProcessStep(w) PROVE TypeInv'
  BY <1>2, AcquireTyped, LookupTyped, IngestionTyped, EnrichmentTyped, EventTyped
     DEF ProcessStep
<1> QED BY <1>1, <1>2, EventTyped, MidnightTyped, TimerTyped DEF Next

(* Every document and every process is what its type says, whatever raises, *)
(* stops, breaks off or overlaps: the delays of films stay within a day,    *)
(* what a run looks up is a lookup of one of its entries or films.          *)
THEOREM WorkerTypes == Spec => []TypeOK
<1>1. TypeInv => TypeOK
  BY DEF TypeInv
<1> QED BY <1>1, InitTyped, StepTyped, PTL DEF Spec

-----------------------------------------------------------------------------
(* What an Oscar run has stored, and what it says of it *)

FilmFree(u) == \A f \in Films : u.films[f] = NoFilm

(* Between two runs, or about to end. *)
Outside(p) == p.pc \in {"idle", "acquire", "settings", "startRun", "exit"}

(* In a run that has stored no outcome yet. *)
Early(p) == \/ p.task = "rss" /\ ~Outside(p)
            \/ p.pc \in {"oscarStart", "candidates"}

(* In the loop over the films. *)
Looping(p) == p.task = "oscar"
              /\ p.pc \in Lookup \cup {"eligible", "nextFilm", "saveFilm", "progress"}

(* The films whose outcome is still to be stored. *)
Left(p) == {n \in DOMAIN p.films : p.pc = "progress" => n # 1}

StoredIn(s) == {f \in Films : s[f] # "none"}
NoneSoft(s) == \A f \in Films : s[f] # "temporary_error"

(* They differ, and none of them is stored. *)
Ahead(p, s) ==
    /\ \A m, n \in DOMAIN p.films : p.films[m].film = p.films[n].film => m = n
    /\ \A n \in Left(p) : s[p.films[n].film] = "none"

(* A process p, what its run has stored, s, and what it says of it, r. *)
Tally(p, s, r) ==
    /\ IsFiniteSet(StoredIn(s))
    /\ r.processed <= Cardinality(StoredIn(s))
    /\ r.status = "succeeded" => r.processed = Cardinality(StoredIn(s)) /\ NoneSoft(s)
    /\ p.pc \notin {"finish", "exit"} => FilmFree(p.unit)
    /\ Early(p) => /\ StoredIn(s) = {} /\ r.status # "succeeded"
                   /\ p.task = "oscar" => p.processed = 0 /\ p.soft = FALSE
    /\ Looping(p) => /\ r.status # "succeeded" /\ p.processed = Cardinality(StoredIn(s))
                     /\ Ahead(p, s)
                     /\ p.soft = FALSE => NoneSoft(s)
    /\ p.pc = "finish" =>
          /\ r.status # "succeeded" /\ p.processed <= Cardinality(StoredIn(s))
          /\ IsFiniteSet({f \in Films : p.unit.films[f] # NoFilm})
          /\ p.verdict = "succeeded" =>
                /\ p.processed = Cardinality(StoredIn(s)) /\ NoneSoft(s) /\ FilmFree(p.unit)

Tallied == \A w \in Workers : Tally(proc[w], saved[w], oscarRun[w])

Same(p, q) == /\ q.task = p.task /\ q.films = p.films /\ q.processed = p.processed
              /\ q.soft = p.soft

(* q is where p may be next when it has stored nothing of a film. *)
Follows(p, q) ==
    \/ Outside(q)
    \/ Early(p) /\ Early(q) /\ Same(p, q)
    \/ /\ Looping(p) /\ Looping(q) /\ Same(p, q)
       /\ p.pc = "progress" <=> q.pc = "progress"
    \/ /\ Early(p) \/ Looping(p)
       /\ p.task = "oscar" /\ q.task = "oscar" /\ q.pc = "finish"
       /\ q.verdict # "succeeded" /\ q.processed = p.processed

Glides(w) == \E q : /\ Typed(q) /\ proc' = [proc EXCEPT ![w] = q] /\ Follows(proc[w], q)
                    /\ q.pc # "exit" => FilmFree(q.unit)

Quiet(w) == Glides(w) /\ saved' = saved /\ oscarRun' = oscarRun /\ film' = film

LEMMA NothingTracked ==
    ASSUME NEW u, FilmFree(u)
    PROVE  IsFiniteSet({f \in Films : u.films[f] # NoFilm})
<1>1. {f \in Films : u.films[f] # NoFilm} = {}
  BY DEF FilmFree
<1> QED BY <1>1, FS_EmptySet

LEMMA FollowsTally ==
    ASSUME NEW p, NEW q, NEW s, NEW r, Typed(p), Typed(q), Tally(p, s, r), Follows(p, q),
           q.pc # "exit" => FilmFree(q.unit)
    PROVE  Tally(q, s, r)
<1> DEFINE S == StoredIn(s)
<1>1. /\ IsFiniteSet(S) /\ r.processed <= Cardinality(S)
      /\ r.status = "succeeded" => r.processed = Cardinality(S) /\ NoneSoft(s)
  BY DEF Tally
<1>2. CASE Outside(q)
  BY <1>1, <1>2 DEF Tally, Outside, Early, Looping, Lookup, Typed, Placed
<1>3. CASE Early(p) /\ Early(q) /\ Same(p, q)
  <2>1. ~Looping(q) /\ q.pc # "finish"
    BY <1>3 DEF Early, Looping, Lookup, Typed, Placed, OscarOnly, Outside
  <2> QED BY <1>1, <1>3, <2>1 DEF Tally, Same
<1>4. CASE /\ Looping(p) /\ Looping(q) /\ Same(p, q)
           /\ p.pc = "progress" <=> q.pc = "progress"
  <2>1. ~Early(q) /\ q.pc \notin {"finish", "exit"}
    BY <1>4 DEF Early, Looping, Lookup
  <2>2. Ahead(p, s) => Ahead(q, s)
    BY <1>4 DEF Ahead, Same, Left
  <2> QED BY <1>1, <1>4, <2>1, <2>2 DEF Tally, Same
<1>5. CASE /\ Early(p) \/ Looping(p)
           /\ p.task = "oscar" /\ q.task = "oscar" /\ q.pc = "finish"
           /\ q.verdict # "succeeded" /\ q.processed = p.processed
  <2>1. ~Early(q) /\ ~Looping(q)
    BY <1>5 DEF Early, Looping, Lookup
  <2>2. p.processed <= Cardinality(S) /\ r.status # "succeeded"
    <3>1. CASE Early(p)
      <4>1. p.processed = 0 /\ S = {} /\ r.status # "succeeded"
        BY <1>5, <3>1 DEF Tally
      <4> QED BY <4>1, FS_EmptySet
    <3>2. CASE Looping(p)
      <4>1. p.processed = Cardinality(S) /\ r.status # "succeeded" /\ p.processed \in Nat
        BY <3>2 DEF Tally, Typed, Memory
      <4> QED BY <4>1
    <3> QED BY <1>5, <3>1, <3>2
  <2>3. IsFiniteSet({f \in Films : q.unit.films[f] # NoFilm})
    BY <1>5, NothingTracked
  <2> QED BY <1>1, <1>5, <2>1, <2>2, <2>3 DEF Tally
<1> QED BY <1>2, <1>3, <1>4, <1>5 DEF Follows

(* A step that is one process's. *)
LEMMA OneTally ==
    ASSUME TypeInv, Tallied, NEW w \in Workers, NEW q, NEW s, NEW r,
           proc' = [proc EXCEPT ![w] = q], saved' = [saved EXCEPT ![w] = s],
           oscarRun' = [oscarRun EXCEPT ![w] = r], Tally(q, s, r)
    PROVE  Tallied'
<1>1. ASSUME NEW v \in Workers PROVE Tally(proc[v], saved[v], oscarRun[v])'
  <2>0. DOMAIN proc = Workers /\ DOMAIN saved = Workers /\ DOMAIN oscarRun = Workers
    BY DEF TypeInv, TypeOK
  <2>1. CASE v = w
    <3>1. proc'[v] = q /\ saved'[v] = s /\ oscarRun'[v] = r
      BY <2>0, <2>1
    <3> QED BY <3>1
  <2>2. CASE v # w
    <3>1. proc'[v] = proc[v] /\ saved'[v] = saved[v] /\ oscarRun'[v] = oscarRun[v]
      BY <2>0, <2>2
    <3>2. Tally(proc[v], saved[v], oscarRun[v])
      BY DEF Tallied
    <3> QED BY <3>1, <3>2
  <2> QED BY <2>1, <2>2
<1> QED BY <1>1 DEF Tallied

LEMMA GlidesTally ==
    ASSUME TypeInv, Tallied, NEW w \in Workers, Glides(w), saved' = saved,
           oscarRun' = oscarRun
    PROVE  Tallied'
<1>1. PICK q : /\ Typed(q) /\ proc' = [proc EXCEPT ![w] = q] /\ Follows(proc[w], q)
               /\ q.pc # "exit" => FilmFree(q.unit)
  BY DEF Glides
<1>2. Typed(proc[w]) /\ Tally(proc[w], saved[w], oscarRun[w])
  BY TypeInvParts DEF Tallied
<1>3. Tally(q, saved[w], oscarRun[w])
  BY <1>1, <1>2, FollowsTally
<1>4. saved' = [saved EXCEPT ![w] = saved[w]] /\ oscarRun' = [oscarRun EXCEPT ![w] = oscarRun[w]]
  BY DEF TypeInv, TypeOK
<1> QED BY <1>1, <1>3, <1>4, OneTally

LEMMA ThrownFollows ==
    ASSUME NEW p, Typed(p), Early(p) \/ Looping(p), NEW reply
    PROVE  Follows(p, Thrown(p, reply)) /\ Thrown(p, reply).unit = p.unit
<1> DEFINE q == Thrown(p, reply)
<1>1. p.pc \notin {"idle", "exit", "finish"} /\ p.task \in {"rss", "oscar"}
  BY DEF Early, Looping, Outside, Typed, Placed, Memory, OscarOnly, Lookup
<1>2. /\ Typed(q) /\ Same(p, q) /\ q.unit = p.unit
      /\ q.pc \in Landing /\ (q.pc = "finish" <=> p.task = "oscar" /\ q.pc # "exit")
      /\ q.pc = "finish" => q.verdict \in {"cancelled", "failed"}
  BY <1>1, ThrownTyped DEF Same
<1> HIDE DEF q
<1>3. CASE q.pc = "exit"
  BY <1>2, <1>3 DEF Follows, Outside, q
<1>4. CASE q.pc # "exit" /\ p.task = "rss"
  <2>1. Early(p) /\ Early(q)
    BY <1>2, <1>4 DEF Early, Looping, Outside, Landing, Same, Typed, Placed, OscarOnly
  <2> QED BY <1>2, <2>1 DEF Follows, q
<1>5. CASE q.pc # "exit" /\ p.task = "oscar"
  BY <1>2, <1>5 DEF Follows, Same, q
<1> QED BY <1>1, <1>2, <1>3, <1>4, <1>5 DEF q

(* The rows of its unit are no matter of where a process may go. *)
LEMMA UnitFollows ==
    ASSUME NEW p, Typed(p), NEW u \in Units, NEW q
    PROVE  LET r == [p EXCEPT !.unit = u] IN
           /\ Follows(r, q) => Follows(p, q)
           /\ Early(p) \/ Looping(p) => Early(r) \/ Looping(r)
           /\ r.unit = u /\ r.pc = p.pc
<1> DEFINE r == [p EXCEPT !.unit = u]
<1>1. /\ r.pc = p.pc /\ r.task = p.task /\ r.films = p.films /\ r.soft = p.soft
      /\ r.processed = p.processed /\ r.unit = u
  BY DEF Typed, Memory
<1> HIDE DEF r
<1>2. Follows(r, q) => Follows(p, q)
  BY <1>1 DEF Follows, Early, Looping, Outside, Same
<1>3. Early(p) \/ Looping(p) => Early(r) \/ Looping(r)
  BY <1>1 DEF Early, Looping, Outside
<1> QED BY <1>1, <1>2, <1>3 DEF r

LEMMA ContinueGlides ==
    ASSUME TypeInv, NEW w \in Workers, Early(proc[w]) \/ Looping(proc[w]),
           NEW reply, NEW ok, NEW u \in Units, FilmFree(u),
           Continue(w, reply, ok, [proc[w] EXCEPT !.unit = u]),
           Typed(ok), Follows(proc[w], ok), ok.pc # "exit" => FilmFree(ok.unit)
    PROVE  Glides(w)
<1> DEFINE p == [proc[w] EXCEPT !.unit = u]
           q == Thrown(p, reply)
<1>1. Typed(proc[w]) /\ Typed(p)
  BY TypeInvParts, UnitTyped
<1>2. proc' = [proc EXCEPT ![w] = ok] \/ proc' = [proc EXCEPT ![w] = q]
  BY DEF Continue
<1>3. /\ Early(p) \/ Looping(p)
      /\ p.unit = u /\ (Follows(p, q) => Follows(proc[w], q))
  BY <1>1, UnitFollows
<1> HIDE DEF p
<1>4. Follows(p, q) /\ q.unit = p.unit /\ Typed(q)
  <2>1. p.pc \notin {"idle", "exit"}
    BY <1>1, <1>3 DEF Early, Looping, Outside, Lookup
  <2> QED BY <1>1, <1>3, <2>1, ThrownFollows, ThrownTyped
<1>5. Follows(proc[w], q) /\ FilmFree(q.unit)
  BY <1>3, <1>4
<1> HIDE DEF q
<1> QED BY <1>2, <1>4, <1>5 DEF Glides

LEMMA SameUnit ==
    ASSUME NEW p \in Memory
    PROVE  [p EXCEPT !.unit = p.unit] = p
BY DEF Memory

LEMMA CallGlides ==
    ASSUME TypeInv, Tallied, NEW w \in Workers, Early(proc[w]) \/ Looping(proc[w]),
           NEW reply, NEW ok, Continue(w, reply, ok, proc[w]), Typed(ok),
           Follows(proc[w], ok), ok.pc # "exit" => ok.unit = proc[w].unit
    PROVE  Glides(w)
<1>1. Typed(proc[w]) /\ Tally(proc[w], saved[w], oscarRun[w])
  BY TypeInvParts DEF Tallied
<1>2. FilmFree(proc[w].unit)
  <2>1. proc[w].pc \notin {"finish", "exit"}
    BY <1>1 DEF Early, Looping, Outside, Lookup, Typed, Placed, OscarOnly
  <2> QED BY <1>1, <2>1 DEF Tally
<1>3. proc[w] = [proc[w] EXCEPT !.unit = proc[w].unit] /\ proc[w].unit \in Units
  BY <1>1, SameUnit DEF Typed, Placed
<1> QED BY <1>2, <1>3, ContinueGlides

LEMMA StoreFree ==
    ASSUME TypeInv, NEW w \in Workers, NEW u \in Units, FilmFree(u), NEW reply,
           StoreUnit(w, u, reply)
    PROVE  saved' = saved /\ film' = film
<1>0. /\ film \in [Films -> FilmDoc]
      /\ saved \in [Workers -> [Films -> {"none", "enriched", "not_found",
                                           "temporary_error"}]]
  BY DEF TypeInv, TypeOK
<1>1. CASE ~Landed(reply)
  BY <1>1 DEF StoreUnit, rows
<1>2. CASE Landed(reply)
  <2>1. film' = [f \in Films |-> film[f]]
    BY <1>2 DEF StoreUnit, FilmFree
  <2>2. saved' = [saved EXCEPT ![w] = [f \in Films |-> saved[w][f]]]
    BY <1>2 DEF StoreUnit, FilmFree
  <2>3. saved[w] \in [Films -> {"none", "enriched", "not_found", "temporary_error"}]
    BY <1>0
  <2>4. [f \in Films |-> saved[w][f]] = saved[w]
    BY <2>3
  <2>5. saved' = saved
    BY <1>0, <2>2, <2>4
  <2>6. film' = film
    BY <1>0, <2>1
  <2> QED BY <2>5, <2>6
<1> QED BY <1>1, <1>2

LEMMA CleanFree == FilmFree(Clean)
BY DEF FilmFree, Clean

LEMMA SaveGlides ==
    ASSUME TypeInv, NEW w \in Workers, Early(proc[w]) \/ Looping(proc[w]),
           NEW u \in Units, FilmFree(u), NEW reply, NEW ok, SaveChanges(w, u, reply, ok),
           Typed(ok), Follows(proc[w], ok)
    PROVE  Glides(w) /\ saved' = saved /\ film' = film
<1> DEFINE q == [ok EXCEPT !.unit = Clean]
<1>1. StoreUnit(w, u, reply) /\ Continue(w, reply, q, [proc[w] EXCEPT !.unit = u])
  BY DEF SaveChanges
<1>2. Typed(q) /\ q.unit = Clean
  BY UnitTyped, CleanTyped DEF Typed, Memory
<1>3. Follows(proc[w], q)
  <2>1. /\ q.pc = ok.pc /\ q.task = ok.task /\ q.films = ok.films /\ q.soft = ok.soft
        /\ q.processed = ok.processed /\ q.verdict = ok.verdict
    BY DEF Typed, Memory
  <2> HIDE DEF q
  <2> QED BY <2>1 DEF Follows, Early, Looping, Outside, Same
<1> HIDE DEF q
<1> QED BY <1>1, <1>2, <1>3, ContinueGlides, StoreFree, CleanFree

-----------------------------------------------------------------------------
(* Lookups store nothing of a film *)

LookedAt(p, q) == Typed(q) /\ Follows(p, q) /\ q.unit = p.unit

LEMMA LookFollows ==
    ASSUME NEW p, Typed(p), p.pc \in Lookup, NEW q, Typed(q), q.pc \in Lookup,
           Rest(q) = Rest(p)
    PROVE  LookedAt(p, q)
<1>1. Same(p, q) /\ q.unit = p.unit /\ p.task \in {"rss", "oscar"}
  BY DEF Rest, Same, Typed, Memory
<1>2. Follows(p, q)
  BY <1>1 DEF Follows, Early, Looping, Outside, Same, Lookup
<1> QED BY <1>1, <1>2 DEF LookedAt

LEMMA AtLookup ==
    ASSUME NEW p, Typed(p), p.pc \in Lookup
    PROVE  Early(p) \/ Looping(p)
BY DEF Typed, Memory, Early, Looping, Outside, Lookup

LEMMA MovedInLookup ==
    ASSUME NEW p, Typed(p), p.pc \in Lookup
    PROVE  /\ LookedAt(p, [p EXCEPT !.pc = "reserve"])
           /\ LookedAt(p, [p EXCEPT !.pc = "send", !.today = TRUE])
           /\ \A r \in Results \ {"none"} : LookedAt(p, Answered(p, r))
<1>1. LookedAt(p, [p EXCEPT !.pc = "reserve"])
  <2> DEFINE q == [p EXCEPT !.pc = "reserve"]
  <2>1. q \in Memory /\ q.pc = "reserve" /\ q.key = p.key /\ Rest(q) = Rest(p)
    BY DEF Typed, Memory, Rest, Lookup
  <2> SUFFICES LookedAt(p, q)
    OBVIOUS
  <2> HIDE DEF q
  <2> QED BY <2>1, LookingTyped, LookFollows DEF Lookup
<1>2. LookedAt(p, [p EXCEPT !.pc = "send", !.today = TRUE])
  <2> DEFINE q == [p EXCEPT !.pc = "send", !.today = TRUE]
  <2>1. q \in Memory /\ q.pc = "send" /\ q.key = p.key /\ Rest(q) = Rest(p)
    BY DEF Typed, Memory, Rest, Lookup
  <2> SUFFICES LookedAt(p, q)
    OBVIOUS
  <2> HIDE DEF q
  <2> QED BY <2>1, LookingTyped, LookFollows DEF Lookup
<1>3. ASSUME NEW r \in Results \ {"none"} PROVE LookedAt(p, Answered(p, r))
  <2>1. Answered(p, r).pc = "answered" /\ Rest(Answered(p, r)) = Rest(p)
    BY DEF Answered, Typed, Memory, Rest, Lookup
  <2> QED BY <2>1, AnsweredTyped, LookFollows DEF Lookup
<1> QED BY <1>1, <1>2, <1>3

LEMMA AfterFollows ==
    ASSUME NEW p, Typed(p), p.pc = "send",
           NEW outcome \in {"found", "not_found", "quota", "failure"}
    PROVE  LookedAt(p, After(p, outcome))
<1>1. After(p, outcome).pc \in Lookup /\ Rest(After(p, outcome)) = Rest(p)
  BY DEF After, Answered, Typed, Memory, Rest, Lookup
<1> QED BY <1>1, AfterTyped, LookFollows DEF Lookup

LEMMA LookupQuiet ==
    ASSUME TypeInv, Tallied, NEW w \in Workers, LookupStep(w)
    PROVE  Quiet(w)
<1> DEFINE p == proc[w]
           k == p.key
<1>1. /\ Typed(p) /\ Tally(p, saved[w], oscarRun[w])
      /\ p.pc \in Lookup /\ oscarRun' = oscarRun
  BY TypeInvParts DEF Tallied, LookupStep, ReadCache, Reserve, Send, Mark, Store, At,
     Lookup, runRows
<1>2. Early(p) \/ Looping(p)
  BY <1>1, AtLookup
<1>3. p.unit \in Units /\ FilmFree(p.unit) /\ p.key \in Keys /\ Follows(p, p)
  <2>1. p.pc \notin {"finish", "exit"}
    BY <1>1 DEF Lookup
  <2> QED BY <1>1, <2>1, LookFollows DEF Typed, Placed, Tally, LookedAt
<1>4. ASSUME NEW reply, NEW ok, Continue(w, reply, ok, p), LookedAt(p, ok),
             UNCHANGED rows
      PROVE  Quiet(w)
  BY <1>1, <1>2, <1>4, CallGlides DEF LookedAt, Quiet, rows
<1>5. ASSUME NEW u \in Units, FilmFree(u), NEW reply, NEW ok,
             SaveChanges(w, u, reply, ok), LookedAt(p, ok)
      PROVE  Quiet(w)
  BY <1>1, <1>2, <1>5, SaveGlides DEF LookedAt, Quiet
<1>6. CASE ReadCache(w)
  <2> DEFINE u == [p.unit EXCEPT !.gone = @ \cup {k}]
             q == [p EXCEPT !.pc = "reserve"]
             ok == IF cache[k] = "none" THEN q ELSE Answered(p, cache[k])
  <2>1. LookedAt(p, q)
    BY <1>1, MovedInLookup
  <2>2. CASE cache[k] = "stale"
    <3>1. PICK reply : SaveChanges(w, u, reply, q)
      BY <1>6, <2>2 DEF ReadCache
    <3>2. u \in Units /\ FilmFree(u)
      BY <1>3 DEF Units, Unit, FilmFree
    <3> HIDE DEF u, q, p
    <3> QED BY <1>5, <2>1, <3>1, <3>2
  <2>3. CASE cache[k] # "stale"
    <3>1. PICK reply : Continue(w, reply, ok, p)
      BY <1>6, <2>3 DEF ReadCache
    <3>2. UNCHANGED rows
      BY <1>6, <2>3 DEF ReadCache
    <3>3. cache[k] # "none" => cache[k] \in Results \ {"none"}
      BY <1>3, <2>3 DEF TypeInv, TypeOK, CacheState, Results
    <3>4. LookedAt(p, ok)
      BY <1>1, <2>1, <3>3, MovedInLookup
    <3> HIDE DEF ok, p
    <3> QED BY <1>4, <3>1, <3>2, <3>4
  <2> QED BY <2>2, <2>3
<1>7. CASE Reserve(w)
  <2> DEFINE ok == IF MayReserve(p) THEN [p EXCEPT !.pc = "send", !.today = TRUE]
                   ELSE Answered(p, "budget")
  <2>1. PICK reply : Continue(w, reply, ok, p)
    BY <1>7 DEF Reserve
  <2>2. UNCHANGED rows
    BY <1>7 DEF Reserve, rows
  <2>3. LookedAt(p, ok)
    BY <1>1, MovedInLookup DEF Results
  <2> HIDE DEF ok, p
  <2> QED BY <1>4, <2>1, <2>2, <2>3
<1>8. CASE Send(w)
  <2>1. p.pc = "send" /\ UNCHANGED rows
    BY <1>8 DEF Send, At, rows
  <2>2. CASE proc' = [proc EXCEPT ![w] = Thrown(p, "cancelled")]
    <3>1. Typed(Thrown(p, "cancelled"))
      BY <1>1, <2>1, ThrownTyped
    <3> QED BY <1>1, <1>2, <1>3, <2>1, <2>2, <3>1, ThrownFollows
            DEF Quiet, Glides, rows
  <2>3. CASE \E outcome \in {"found", "not_found", "quota", "failure"} :
                proc' = [proc EXCEPT ![w] = After(p, outcome)]
    <3>1. PICK q : proc' = [proc EXCEPT ![w] = q] /\ LookedAt(p, q)
      BY <1>1, <2>1, <2>3, AfterFollows
    <3> QED BY <1>1, <1>3, <2>1, <3>1 DEF Quiet, Glides, LookedAt, rows
  <2> QED BY <1>8, <2>2, <2>3 DEF Send
<1>9. CASE Mark(w)
  <2>1. PICK reply : Continue(w, reply, Answered(p, "quota"), p)
    BY <1>9 DEF Mark
  <2>2. UNCHANGED rows
    BY <1>9 DEF Mark, rows
  <2>3. LookedAt(p, Answered(p, "quota"))
    BY <1>1, MovedInLookup DEF Results
  <2> QED BY <1>4, <2>1, <2>2, <2>3
<1>10. CASE Store(w)
  <2> DEFINE new == cache[k] = "none"
             twice == new /\ k \in p.unit.added
             v == [p.unit EXCEPT !.added = IF new THEN @ \cup {k} ELSE @,
                                 !.answer[k] = p.result]
             u == IF twice THEN p.unit ELSE v
  <2>1. PICK reply : SaveChanges(w, u, reply, Answered(p, p.result))
    BY <1>10 DEF Store
  <2>2. p.result \in Answers
    BY <1>1, <1>10 DEF Store, At, Typed, Placed
  <2>3. v \in Unit /\ v.films = p.unit.films
    BY <1>3, <2>2 DEF Units, Unit
  <2>4. v \in Units /\ FilmFree(v)
    <3> HIDE DEF v, p
    <3> QED BY <1>3, <2>3 DEF Units, FilmFree
  <2>5. u \in Units /\ FilmFree(u)
    <3> HIDE DEF v
    <3> QED BY <1>3, <2>4
  <2>6. LookedAt(p, Answered(p, p.result))
    BY <1>1, <2>2, MovedInLookup DEF Results, Answers
  <2> HIDE DEF u, p
  <2> QED BY <1>5, <2>1, <2>5, <2>6
<1> QED BY <1>6, <1>7, <1>8, <1>9, <1>10 DEF LookupStep

-----------------------------------------------------------------------------
(* Neither does the ingestion *)

(* q has left the films aside since p. *)
Aside(p, q) == Same(p, q) /\ (FilmFree(p.unit) => FilmFree(q.unit))

LEMMA AsideOn ==
    ASSUME NEW p, NEW q, NEW r, Aside(p, q), Aside(q, r)
    PROVE  Aside(p, r)
BY DEF Aside, Same

LEMMA RestAside ==
    ASSUME NEW p, NEW q, Rest(q) = Rest(p)
    PROVE  Aside(p, q)
BY DEF Aside, Same, Rest

LEMMA ThrownAside ==
    ASSUME NEW p, Typed(p), p.pc \notin {"idle", "exit"}, NEW reply
    PROVE  Aside(p, Thrown(p, reply))
<1> DEFINE q == Thrown(p, reply)
<1>1. q.task = p.task /\ q.films = p.films /\ q.processed = p.processed
      /\ q.soft = p.soft /\ q.unit = p.unit
  BY ThrownTyped
<1> HIDE DEF q
<1>2. Aside(p, q)
  BY <1>1 DEF Aside, Same
<1> QED BY <1>2 DEF q

LEMMA UnitAside ==
    ASSUME NEW p, Typed(p), NEW u, FilmFree(p.unit) => FilmFree(u)
    PROVE  Aside(p, [p EXCEPT !.unit = u])
BY DEF Aside, Same, Typed, Memory

LEMMA IngestionAside ==
    ASSUME NEW p \in Memory, IsFiniteSet(p.pending)
    PROVE  /\ Aside(p, Judged(p))
           /\ \A item \in Items : Aside(p, Logged(p, item))
           /\ Aside(p, NextEntry(p)) /\ Aside(p, Written(p)) /\ Aside(p, AfterFeed(p))
           /\ \A k \in Keys : Aside(p, Asking(p, k))
           /\ Entry(p) \in Items => Aside(p, EntryFailed(p)) /\ Aside(p, Exhausted(p))
<1>1. Aside(p, Judged(p))
  BY DEF Judged, Memory, Aside, Same
<1>2. ASSUME NEW item \in Items PROVE Aside(p, Logged(p, item))
  BY LoggedTyped DEF Aside, Same
<1>3. Aside(p, NextEntry(p))
  <2> DEFINE r == Unasked(p)
  <2>1. r \in Memory /\ Aside(p, r)
    BY UnaskedTyped, RestAside
  <2>2. NextEntry(p) = [r EXCEPT !.pc = "entry", !.entry = @ + 1]
    BY DEF NextEntry
  <2> HIDE DEF r
  <2>3. Aside(r, NextEntry(p))
    BY <2>1, <2>2 DEF Memory, Aside, Same
  <2> QED BY <2>1, <2>3, AsideOn
<1>4. Aside(p, Written(p))
  BY DEF Written, Memory, Aside, Same
<1>5. Aside(p, AfterFeed(p))
  <2>1. Aside(p, [p EXCEPT !.pc = "fetch", !.source = @ + 1])
    BY DEF Memory, Aside, Same
  <2> QED BY <1>1, <2>1 DEF AfterFeed
<1>6. ASSUME NEW k \in Keys PROVE Aside(p, Asking(p, k))
  BY AskingFields, RestAside
<1>7. ASSUME Entry(p) \in Items PROVE Aside(p, EntryFailed(p)) /\ Aside(p, Exhausted(p))
  <2> DEFINE q == [p EXCEPT !.erred = TRUE]
             r == EntryFailed(p)
             s == Unasked(r)
  <2>1. q \in Memory /\ q.pending = p.pending /\ Aside(p, q)
    BY DEF Memory, Aside, Same
  <2>2. r = Logged(q, Entry(p))
    BY DEF EntryFailed
  <2> HIDE DEF q, r
  <2>3. r \in Memory /\ Aside(q, r)
    BY <1>7, <2>1, <2>2, LoggedTyped DEF Aside, Same
  <2>4. Aside(p, r)
    BY <2>1, <2>3, AsideOn
  <2>5. s \in Memory /\ Aside(r, s)
    BY <2>3, UnaskedTyped, RestAside
  <2>6. Exhausted(p) = [s EXCEPT !.pc = "flush", !.exhausted = TRUE]
    BY DEF Exhausted, r
  <2> HIDE DEF s
  <2>7. Aside(s, Exhausted(p))
    BY <2>5, <2>6 DEF Memory, Aside, Same
  <2>8. Aside(p, Exhausted(p))
    BY <2>4, <2>5, <2>7, AsideOn
  <2> QED BY <2>4, <2>8 DEF r
<1> QED BY <1>1, <1>2, <1>3, <1>4, <1>5, <1>6, <1>7

(* A step of the ingestion that begins or ends no run. *)
LEMMA RssGlides ==
    ASSUME TypeInv, TypeInv', Tallied, NEW w \in Workers, proc[w].task = "rss",
           ~Outside(proc[w]), NEW q, proc' = [proc EXCEPT ![w] = q], Aside(proc[w], q)
    PROVE  Glides(w)
<1>1. Typed(q)
  <2>1. q = proc'[w]
    BY DEF TypeInv
  <2> QED BY <2>1 DEF TypeInv, TypeOK, Typed, Placed
<1>2. Follows(proc[w], q)
  BY DEF Follows, Early, Aside, Same
<1>3. FilmFree(proc[w].unit)
  <2>1. Typed(proc[w]) /\ Tally(proc[w], saved[w], oscarRun[w])
    BY TypeInvParts DEF Tallied
  <2> QED BY <2>1 DEF Tally, Typed, Placed, OscarOnly, Outside
<1> QED BY <1>1, <1>2, <1>3 DEF Glides, Aside

LEMMA RssCallGlides ==
    ASSUME TypeInv, TypeInv', Tallied, NEW w \in Workers, proc[w].task = "rss",
           ~Outside(proc[w]), NEW reply, NEW ok, NEW p, Continue(w, reply, ok, p),
           Typed(p), p.pc = proc[w].pc, Aside(proc[w], p), Aside(proc[w], ok)
    PROVE  Glides(w)
<1> DEFINE q == Thrown(p, reply)
<1>1. proc' = [proc EXCEPT ![w] = ok] \/ proc' = [proc EXCEPT ![w] = q]
  BY DEF Continue
<1>2. Aside(proc[w], q)
  <2>1. Aside(p, Thrown(p, reply))
    BY ThrownAside DEF Outside
  <2> QED BY <2>1, AsideOn
<1> HIDE DEF q
<1> QED BY <1>1, <1>2, RssGlides

LEMMA ReadingQuiet ==
    ASSUME TypeInv, TypeInv', Tallied, NEW w \in Workers, ReadSources(w) \/ FetchFeed(w)
    PROVE  Quiet(w)
<1> DEFINE p == proc[w]
           begin == [p EXCEPT !.pc = "fetch", !.source = 1]
           fetch == [p EXCEPT !.pc = "entry", !.entry = 1, !.fed = TRUE]
<1>1. /\ Typed(p) /\ p \in Memory /\ IsFiniteSet(p.pending)
      /\ p.pc \in {"sources", "fetch"} /\ p.task = "rss" /\ ~Outside(p)
  BY TypeInvParts DEF ReadSources, FetchFeed, At, Typed, Placed, RssOnly, Outside
<1>2. \E ok \in {Judged(p), begin, fetch} : \E reply : Continue(w, reply, ok, p)
  BY DEF ReadSources, FetchFeed
<1>3. Aside(p, p) /\ Aside(p, begin) /\ Aside(p, fetch) /\ Aside(p, Judged(p))
  <2> HIDE DEF p
  <2>1. Aside(p, begin) /\ Aside(p, fetch) /\ Aside(p, p)
    BY <1>1 DEF Memory, Aside, Same
  <2> QED BY <1>1, <2>1, IngestionAside
<1>4. Glides(w)
  <2> HIDE DEF begin, fetch
  <2> QED BY <1>1, <1>2, <1>3, RssCallGlides
<1> QED BY <1>4 DEF Quiet, ReadSources, FetchFeed, rows, runRows

LEMMA TakeEntryQuiet ==
    ASSUME TypeInv, TypeInv', Tallied, NEW w \in Workers, TakeEntry(w)
    PROVE  Quiet(w)
<1> DEFINE p == proc[w]
           out == [p EXCEPT !.pc = "flush"]
           failed == EntryFailed(p)
           ask == Asking(p, KeyOf[Entry(p)])
<1>1. /\ Typed(p) /\ p \in Memory /\ IsFiniteSet(p.pending) /\ Reading(p)
      /\ p.pc = "entry" /\ p.task = "rss" /\ ~Outside(p) /\ p.entry # 0
  BY TypeInvParts, ReadingPlaces DEF TakeEntry, At, Typed, Placed, RssOnly, Outside
<1>2. PICK q \in (IF p.entry > Len(Feed(p)) THEN {out} ELSE {NextEntry(failed), ask}) :
         proc' = [proc EXCEPT ![w] = q]
  BY DEF TakeEntry
<1>3. Aside(p, out)
  BY <1>1 DEF Memory, Aside, Same
<1>4. ASSUME ~(p.entry > Len(Feed(p)))
      PROVE  Aside(p, NextEntry(failed)) /\ Aside(p, ask)
  <2> HIDE DEF p
  <2>1. p.entry \in DOMAIN Feed(p)
    <3>1. Feed(p) \in Seq(Entries) /\ p.entry \in Nat
      BY <1>1, FeedTyped DEF Reading, Feed, Memory
    <3> QED BY <1>1, <1>4, <3>1
  <2>2. Entry(p) \in Items /\ KeyOf[Entry(p)] \in Keys
    BY <1>1, <2>1, EntryTyped, NextAssumption
  <2>3. Aside(p, failed) /\ Aside(p, ask) /\ Reading(failed)
    BY <1>1, <2>2, IngestionAside, FailedReading
  <2> HIDE DEF failed
  <2>4. Aside(failed, NextEntry(failed))
    BY <2>3, IngestionAside DEF Reading
  <2> QED BY <2>3, <2>4, AsideOn
<1>5. Glides(w)
  <2> HIDE DEF p, out, failed, ask
  <2>1. Aside(p, q)
    BY <1>2, <1>3, <1>4
  <2> QED BY <1>1, <1>2, <2>1, RssGlides DEF p
<1> QED BY <1>5 DEF Quiet, TakeEntry, rows, runRows

LEMMA EntryAnsweredQuiet ==
    ASSUME TypeInv, TypeInv', Tallied, NEW w \in Workers, EntryAnswered(w)
    PROVE  Quiet(w)
<1> DEFINE p == proc[w]
           up == [p EXCEPT !.pc = "upsert"]
           failed == EntryFailed(p)
           logged == Logged(p, Entry(p))
<1>1. /\ Typed(p) /\ p \in Memory /\ IsFiniteSet(p.pending) /\ Reading(p)
      /\ p.pc = "answered" /\ p.task = "rss" /\ ~Outside(p)
      /\ p.entry \in DOMAIN Feed(p)
  BY TypeInvParts, ReadingPlaces DEF EntryAnswered, InRss, At, Typed, Placed, RssOnly,
     Lookup, Outside
<1>2. PICK q \in {Exhausted(p), NextEntry(failed), NextEntry(logged), up} :
         proc' = [proc EXCEPT ![w] = q]
  BY DEF EntryAnswered
<1>3. Entry(p) \in Items
  BY <1>1, EntryTyped
<1>4. Aside(p, up)
  BY <1>1 DEF Memory, Aside, Same
<1>5. /\ Aside(p, Exhausted(p)) /\ Aside(p, failed) /\ Reading(failed)
      /\ Aside(p, logged) /\ Reading(logged)
  BY <1>1, <1>3, IngestionAside, FailedReading, ReadingLogged
<1>6. Aside(p, NextEntry(failed)) /\ Aside(p, NextEntry(logged))
  <2> HIDE DEF p, failed, logged
  <2>1. Aside(failed, NextEntry(failed)) /\ Aside(logged, NextEntry(logged))
    BY <1>5, IngestionAside DEF Reading
  <2> QED BY <1>5, <2>1, AsideOn
<1>7. Glides(w)
  <2> HIDE DEF p, up, failed, logged
  <2>1. Aside(p, q)
    BY <1>2, <1>4, <1>5, <1>6
  <2> QED BY <1>1, <1>2, <2>1, RssGlides DEF p
<1> QED BY <1>7 DEF Quiet, EntryAnswered, rows, runRows

LEMMA UpsertQuiet ==
    ASSUME TypeInv, TypeInv', Tallied, NEW w \in Workers, UpsertCatalogItem(w)
    PROVE  Quiet(w)
<1> DEFINE p == proc[w]
<1>1. /\ Typed(p) /\ p.pc = "upsert" /\ p.task = "rss" /\ Reading(p) /\ ~Outside(p)
      /\ p.entry \in DOMAIN Feed(p) /\ Tally(p, saved[w], oscarRun[w]) /\ p.unit \in Units
  BY TypeInvParts, ReadingPlaces DEF UpsertCatalogItem, At, Typed, Placed, RssOnly,
     Outside, Tallied
<1>2. PICK base, reply, left : UpsertBy(w, base, reply, left)
  BY UpsertSome
<1> DEFINE u == [base EXCEPT !.entries = @ \cup ({Entry(p)} \ catalog)]
           after == [p EXCEPT !.unit = left]
           logged == Logged(after, Entry(p))
<1>3. u \in Units /\ FilmFree(u) /\ left \in Units /\ FilmFree(left)
  <2>1. base \in Units /\ FilmFree(base)
    BY <1>1, <1>2, CleanFree, CleanTyped DEF Tally, UpsertBy, Typed, Placed
  <2>2. u \in Units /\ u.films = base.films
    BY <1>1, <2>1, EntryTyped, EntriesTyped
  <2>3. FilmFree(u)
    BY <2>1, <2>2 DEF FilmFree
  <2>4. left \in {Clean, base, u}
    BY <1>2 DEF UpsertBy
  <2> HIDE DEF u
  <2> QED BY <2>1, <2>2, <2>3, <2>4, CleanFree, CleanTyped
<1>4. /\ Aside(p, after) /\ Typed(after) /\ after.pc = p.pc /\ after.task = "rss"
      /\ Entry(p) \in Items
  <2>1. Aside(p, after) /\ after.task = "rss"
    BY <1>1, <1>3, UnitAside DEF Aside, Same
  <2> QED BY <1>1, <1>3, <2>1, UnitTyped, EntryTyped
<1>5. Continue(w, reply, NextEntry(logged), after) /\ StoreUnit(w, u, reply)
  BY <1>2 DEF UpsertBy
<1> HIDE DEF after, u
<1>6. Reading(after)
  BY <1>1, <1>4, ReadingPlaces
<1>7. Aside(after, logged) /\ Reading(logged)
  BY <1>4, <1>6, IngestionAside, ReadingLogged DEF Reading
<1> HIDE DEF logged
<1>8. Aside(logged, NextEntry(logged))
  BY <1>7, IngestionAside DEF Reading
<1>9. Aside(p, NextEntry(logged))
  BY <1>4, <1>7, <1>8, AsideOn
<1>10. Glides(w)
  BY <1>1, <1>4, <1>5, <1>9, RssCallGlides
<1>11. saved' = saved /\ film' = film
  BY <1>3, <1>5, StoreFree
<1> QED BY <1>10, <1>11 DEF Quiet, UpsertCatalogItem, runRows

LEMMA FlushLogsQuiet ==
    ASSUME TypeInv, TypeInv', Tallied, NEW w \in Workers, FlushLogs(w)
    PROVE  Quiet(w)
<1> DEFINE p == proc[w]
           u == Tracked(p)
           r == Written(p)
           ok == AfterFlush(r)
           clean == [ok EXCEPT !.unit = Clean]
           v == [p EXCEPT !.unit = u]
<1>1. /\ Typed(p) /\ p \in Memory /\ IsFiniteSet(p.pending)
      /\ p.pc \in {"flush", "final", "cancelFlush"} /\ p.task = "rss" /\ ~Outside(p)
      /\ Tally(p, saved[w], oscarRun[w])
  BY TypeInvParts DEF FlushLogs, Typed, Placed, RssOnly, Outside, Tallied
<1>2. u \in Units /\ FilmFree(u) /\ FilmFree(p.unit)
  BY <1>1, TrackedTyped DEF FilmFree, Tally
<1>3. ASSUME NEW q, Typed(q), q.pc \in {"flush", "final", "cancelFlush"}
      PROVE  Aside(q, AfterFlush(q))
  <2>1. /\ Aside(q, [q EXCEPT !.pc = "complete"])
        /\ Aside(q, [q EXCEPT !.pc = "cancelComplete"])
    BY <1>3 DEF Typed, Memory, Aside, Same
  <2>2. Aside(q, AfterFeed(q))
    BY <1>3, IngestionAside DEF Typed, Placed
  <2> QED BY <1>3, <2>1, <2>2 DEF AfterFlush
<1>4. r.pc = p.pc /\ Typed(r) /\ Aside(p, r)
  BY <1>1, WrittenTyped, IngestionAside
<1>5. Aside(p, AfterFlush(p)) /\ Aside(r, ok) /\ Typed(ok)
  BY <1>1, <1>3, <1>4, AfterFlushTyped
<1> HIDE DEF r, ok
<1>6. Aside(p, ok)
  BY <1>4, <1>5, AsideOn
<1>7. Aside(ok, clean)
  BY <1>5, CleanFree, UnitAside
<1>8. Aside(p, clean)
  <2> HIDE DEF clean
  <2> QED BY <1>6, <1>7, AsideOn
<1>9. Typed(v) /\ v.pc = p.pc /\ Aside(p, v)
  BY <1>1, <1>2, UnitTyped, UnitAside
<1>10. CASE p.pending = {}
  <2>1. proc' = [proc EXCEPT ![w] = AfterFlush(p)] /\ UNCHANGED rows
    BY <1>10 DEF FlushLogs
  <2>2. Glides(w)
    BY <1>1, <1>5, <2>1, RssGlides
  <2> QED BY <2>1, <2>2 DEF Quiet, rows, FlushLogs, runRows
<1>11. CASE p.pending # {}
  <2>1. PICK reply : SaveChanges(w, u, reply, ok)
    BY <1>11 DEF FlushLogs, ok, r
  <2>2. StoreUnit(w, u, reply) /\ Continue(w, reply, clean, v)
    BY <2>1 DEF SaveChanges
  <2>3. Glides(w)
    <3> HIDE DEF clean, v
    <3> QED BY <1>1, <1>8, <1>9, <2>2, RssCallGlides
  <2>4. saved' = saved /\ film' = film
    BY <1>2, <2>2, StoreFree
  <2> QED BY <2>3, <2>4 DEF Quiet, FlushLogs, runRows
<1> QED BY <1>10, <1>11

-----------------------------------------------------------------------------
(* Films that are settled *)

Settled(doc) == doc.status \in {"enriched", "not_found"}

(* The films a process has still to try are not, and what it tracks agrees  *)
(* with those that are.                                                     *)
Held(p, docs) ==
    /\ Looping(p) => \A n \in Left(p) : ~Settled(docs[p.films[n].film])
    /\ p.pc = "finish" =>
          \A f \in Films : p.unit.films[f] # NoFilm /\ Settled(docs[f]) =>
             p.unit.films[f].status = docs[f].status

Holds(w) == Held(proc[w], film) => Held(proc'[w], film')

Fine(w) == Tallied' /\ Holds(w)

LEMMA FollowsHeld ==
    ASSUME NEW p, NEW q, NEW docs, Held(p, docs), Follows(p, q),
           q.pc # "exit" => FilmFree(q.unit)
    PROVE  Held(q, docs)
<1>1. q.pc = "finish" => \A f \in Films : q.unit.films[f] = NoFilm
  BY DEF FilmFree
<1>2. CASE Outside(q)
  BY <1>2 DEF Outside, Held, Looping, Lookup
<1>3. CASE Early(p) /\ Early(q) /\ Same(p, q)
  BY <1>1, <1>3 DEF Early, Held, Looping, Lookup
<1>4. CASE /\ Looping(p) /\ Looping(q) /\ Same(p, q)
           /\ p.pc = "progress" <=> q.pc = "progress"
  BY <1>1, <1>4 DEF Held, Same, Left
<1>5. CASE q.pc = "finish"
  BY <1>1, <1>5 DEF Held, Looping, Lookup
<1> QED BY <1>2, <1>3, <1>4, <1>5 DEF Follows

LEMMA QuietFine ==
    ASSUME TypeInv, Tallied, NEW w \in Workers, Quiet(w)
    PROVE  Fine(w)
<1>1. PICK q : /\ Typed(q) /\ proc' = [proc EXCEPT ![w] = q] /\ Follows(proc[w], q)
               /\ q.pc # "exit" => FilmFree(q.unit)
  BY DEF Quiet, Glides
<1>2. proc'[w] = q
  BY <1>1 DEF TypeInv
<1> QED BY <1>1, <1>2, FollowsHeld, GlidesTally DEF Fine, Holds, Quiet

(* A step to where no film is in hand. *)
LEMMA AwayFine ==
    ASSUME TypeInv, Tallied, NEW w \in Workers, NEW q, NEW s, NEW r,
           proc' = [proc EXCEPT ![w] = q], saved' = [saved EXCEPT ![w] = s],
           oscarRun' = [oscarRun EXCEPT ![w] = r], Tally(q, s, r),
           ~Looping(q), q.pc # "finish"
    PROVE  Fine(w)
<1>1. proc'[w] = q
  BY DEF TypeInv
<1> QED BY <1>1, OneTally DEF Fine, Holds, Held

LEMMA BlankTally ==
    ASSUME NEW p, Typed(p), p.task = "rss", p.pc # "exit" => FilmFree(p.unit)
    PROVE  Tally(p, NothingSaved, NoOscarRun)
<1>1. StoredIn(NothingSaved) = {} /\ NoneSoft(NothingSaved)
  BY DEF StoredIn, NoneSoft, NothingSaved
<1>2. NoOscarRun.processed = 0 /\ NoOscarRun.status = "none"
  BY DEF NoOscarRun
<1>3. ~Looping(p) /\ p.pc # "finish"
  BY DEF Looping, Typed, Placed, OscarOnly
<1> HIDE DEF NothingSaved, NoOscarRun
<1>4. IsFiniteSet({}) /\ Cardinality({}) = 0
  BY FS_EmptySet
<1> QED BY <1>1, <1>2, <1>3, <1>4 DEF Tally

(* What the run says changes, within what it may say while it goes on. *)
LEMMA RunTally ==
    ASSUME NEW p, NEW s, NEW r, Tally(p, s, r), NEW r2, r2.status # "succeeded",
           r2.processed <= Cardinality(StoredIn(s))
    PROVE  Tally(p, s, r2)
BY DEF Tally

(* What is not about films. *)
LEMMA FieldTally ==
    ASSUME NEW p, NEW q, NEW s, NEW r, Tally(p, s, r), Same(p, q), q.pc = p.pc,
           q.unit = p.unit, q.verdict = p.verdict
    PROVE  Tally(q, s, r)
<1>1. /\ Early(q) <=> Early(p)
      /\ Looping(q) <=> Looping(p)
  BY DEF Early, Looping, Same, Outside
<1>2. Ahead(p, s) => Ahead(q, s)
  BY DEF Ahead, Left, Same
<1> QED BY <1>1, <1>2 DEF Tally, Same

LEMMA StartRunFine ==
    ASSUME TypeInv, TypeInv', Tallied, NEW w \in Workers, StartRun(w)
    PROVE  Fine(w)
<1> DEFINE p == proc[w]
           ok == [p EXCEPT !.pc = "sources"]
<1>1. /\ Typed(p) /\ p.pc = "startRun" /\ p.task = "rss" /\ FilmFree(p.unit)
      /\ film' = film
  BY TypeInvParts DEF StartRun, At, Tallied, Tally, Typed, Placed, RssOnly
<1>2. PICK reply :
         /\ Continue(w, reply, ok, p)
         /\ IF Landed(reply)
            THEN /\ oscarRun' = [oscarRun EXCEPT ![w] = NoOscarRun]
                 /\ saved' = [saved EXCEPT ![w] = NothingSaved]
            ELSE UNCHANGED <<oscarRun, saved>>
  BY DEF StartRun, runRows
<1> DEFINE out == Thrown(p, reply)
           q == IF reply = "ok" THEN ok ELSE out
<1>3. proc' = [proc EXCEPT ![w] = q]
  BY <1>2 DEF Continue
<1>4. Typed(q)
  <2>1. q = proc'[w]
    BY <1>3 DEF TypeInv
  <2> HIDE DEF q
  <2> QED BY <2>1 DEF TypeInv, TypeOK, Typed, Placed
<1>5. ok.pc = "sources" /\ ok.task = "rss" /\ ok.unit = p.unit
  BY <1>1 DEF Typed, Memory
<1>6. out.pc = "exit" /\ out.task = "rss"
  <2> DEFINE x == [p EXCEPT !.pc = "exit"]
  <2>1. Thrown(p, reply) = Unasked(x)
    BY <1>1 DEF Thrown, ThrownInRss
  <2>2. x \in Memory /\ x.pc = "exit" /\ x.task = "rss"
    BY <1>1 DEF Typed, Memory
  <2> HIDE DEF x
  <2> QED BY <2>1, <2>2, UnaskedTyped DEF Rest
<1> HIDE DEF ok, out
<1>7. q.task = "rss" /\ (q.pc # "exit" => FilmFree(q.unit)) /\ q.pc \in {"sources", "exit"}
  BY <1>1, <1>5, <1>6
<1>8. ~Looping(q) /\ q.pc # "finish"
  BY <1>7 DEF Looping
<1>9. CASE Landed(reply)
  <2>1. Tally(q, NothingSaved, NoOscarRun)
    <3> HIDE DEF q
    <3> QED BY <1>4, <1>7, BlankTally
  <2> HIDE DEF q
  <2> QED BY <1>2, <1>3, <1>8, <1>9, <2>1, AwayFine
<1>10. CASE ~Landed(reply)
  <2>1. q.pc = "exit"
    BY <1>6, <1>10 DEF Landed
  <2>2. Quiet(w)
    <3> HIDE DEF q
    <3> QED BY <1>1, <1>2, <1>3, <1>4, <1>10, <2>1
            DEF Quiet, Glides, Follows, Outside
  <2> QED BY <2>2, QuietFine
<1> QED BY <1>9, <1>10

LEMMA CompleteRunFine ==
    ASSUME TypeInv, TypeInv', Tallied, NEW w \in Workers, CompleteRun(w)
    PROVE  Fine(w)
<1> DEFINE p == proc[w]
           oscar == [Fresh EXCEPT !.pc = "oscarStart", !.task = "oscar",
                                  !.stopping = p.stopping]
           next == IF p.pc = "cancelComplete" \/ MaxFilms = 0 THEN [p EXCEPT !.pc = "exit"]
                   ELSE oscar
           q == [next EXCEPT !.unit = Clean]
           v == [p EXCEPT !.unit = p.unit]
<1>1. /\ Typed(p) /\ p.pc \in {"complete", "cancelComplete"} /\ p.unit \in Units
      /\ p.task = "rss" /\ FilmFree(p.unit) /\ Early(p) /\ Tally(p, saved[w], oscarRun[w])
      /\ oscarRun' = oscarRun
  BY TypeInvParts DEF CompleteRun, Typed, Placed, RssOnly, Tallied, Tally, Early, Outside
<1>2. PICK reply : SaveChanges(w, p.unit, reply, next)
  BY DEF CompleteRun
<1>3. StoreUnit(w, p.unit, reply) /\ Continue(w, reply, q, v)
  BY <1>2 DEF SaveChanges
<1>4. saved' = saved /\ film' = film
  BY <1>1, <1>3, StoreFree
<1>5. v = p
  BY <1>1, SameUnit DEF Typed
<1>6. \/ proc' = [proc EXCEPT ![w] = q]
      \/ proc' = [proc EXCEPT ![w] = Thrown(p, reply)]
  BY <1>3, <1>5 DEF Continue
<1>7. CASE proc' = [proc EXCEPT ![w] = Thrown(p, reply)]
  <2>1. Typed(Thrown(p, reply)) /\ Follows(p, Thrown(p, reply))
        /\ Thrown(p, reply).unit = p.unit
    BY <1>1, ThrownTyped, ThrownFollows
  <2>2. Quiet(w)
    BY <1>1, <1>4, <1>7, <2>1 DEF Quiet, Glides
  <2> QED BY <2>2, QuietFine
<1>8. CASE proc' = [proc EXCEPT ![w] = q]
  <2>1. Typed(q)
    <3>1. q = proc'[w]
      BY <1>8 DEF TypeInv
    <3> HIDE DEF q
    <3> QED BY <3>1 DEF TypeInv, TypeOK, Typed, Placed
  <2>2. \/ q.pc = "exit"
        \/ /\ q.pc = "oscarStart" /\ q.task = "oscar" /\ q.unit = Clean
           /\ q.processed = 0 /\ q.soft = FALSE
    <3>1. CASE next = [p EXCEPT !.pc = "exit"]
      <4>1. q.pc = "exit"
        <5> HIDE DEF p
        <5> QED BY <1>1, <3>1 DEF Typed, Memory
      <4> QED BY <4>1
    <3>2. CASE next = oscar
      <4>1. /\ oscar.pc = "oscarStart" /\ oscar.task = "oscar" /\ oscar.processed = 0
            /\ oscar.soft = FALSE /\ oscar \in Memory
        BY <1>1, NextTaskTyped DEF Typed
      <4> HIDE DEF oscar
      <4>2. q = [oscar EXCEPT !.unit = Clean]
        BY <3>2
      <4> HIDE DEF q
      <4> QED BY <4>1, <4>2 DEF Memory
    <3> QED BY <3>1, <3>2
  <2> HIDE DEF q
  <2>3. ~Looping(q) /\ q.pc # "finish"
    BY <2>2 DEF Looping, Lookup
  <2>4. Tally(q, saved[w], oscarRun[w])
    <3>1. Early(q) => q.processed = 0 /\ q.soft = FALSE
      BY <2>2 DEF Early, Outside
    <3>2. StoredIn(saved[w]) = {} /\ oscarRun[w].status # "succeeded"
      BY <1>1 DEF Tally
    <3>3. q.pc # "exit" => FilmFree(q.unit)
      BY <2>2, CleanFree
    <3> HIDE DEF p
    <3> QED BY <1>1, <2>3, <3>1, <3>2, <3>3 DEF Tally
  <2>5. saved' = [saved EXCEPT ![w] = saved[w]]
        /\ oscarRun' = [oscarRun EXCEPT ![w] = oscarRun[w]]
    BY <1>1, <1>4 DEF TypeInv, TypeOK
  <2> QED BY <1>8, <2>3, <2>4, <2>5, AwayFine
<1> QED BY <1>6, <1>7, <1>8

LEMMA IngestionFine ==
    ASSUME TypeInv, TypeInv', Tallied, NEW w \in Workers, IngestionStep(w)
    PROVE  Fine(w)
BY StartRunFine, ReadingQuiet, TakeEntryQuiet, EntryAnsweredQuiet, UpsertQuiet,
   FlushLogsQuiet, CompleteRunFine, QuietFine DEF IngestionStep

-----------------------------------------------------------------------------
(* The films of a run *)

(* The run is as far as its process, and says something of itself.          *)
LEMMA SaidFine ==
    ASSUME TypeInv, Tallied, NEW w \in Workers, Glides(w), saved' = saved, film' = film,
           NEW r, oscarRun' = [oscarRun EXCEPT ![w] = r], r.status # "succeeded",
           r.processed <= Cardinality(StoredIn(saved[w]))
    PROVE  Fine(w)
<1>1. PICK q : /\ Typed(q) /\ proc' = [proc EXCEPT ![w] = q] /\ Follows(proc[w], q)
               /\ q.pc # "exit" => FilmFree(q.unit)
  BY DEF Glides
<1>2. proc'[w] = q
  BY <1>1 DEF TypeInv
<1>3. Typed(proc[w]) /\ Tally(proc[w], saved[w], oscarRun[w])
  BY TypeInvParts DEF Tallied
<1>4. Tally(q, saved[w], r)
  <2>1. Tally(q, saved[w], oscarRun[w])
    BY <1>1, <1>3, FollowsTally
  <2> QED BY <2>1, RunTally
<1>5. saved' = [saved EXCEPT ![w] = saved[w]]
  BY DEF TypeInv, TypeOK
<1>6. Tallied'
  BY <1>1, <1>4, <1>5, OneTally
<1> QED BY <1>1, <1>2, <1>6, FollowsHeld DEF Fine, Holds

LEMMA OscarStartFine ==
    ASSUME TypeInv, Tallied, NEW w \in Workers, OscarStart(w)
    PROVE  Fine(w)
<1> DEFINE p == proc[w]
           q == [p EXCEPT !.pc = "candidates"]
           started == [status |-> "running", processed |-> 0]
<1>1. /\ Typed(p) /\ p.pc = "oscarStart" /\ p.task = "oscar" /\ p.unit \in Units
      /\ FilmFree(p.unit) /\ Early(p) /\ Tally(p, saved[w], oscarRun[w])
  BY TypeInvParts DEF OscarStart, At, Typed, Placed, OscarOnly, Tallied, Tally, Early
<1>2. PICK reply :
         /\ SaveChanges(w, p.unit, reply, q)
         /\ oscarRun' = IF Landed(reply) THEN [oscarRun EXCEPT ![w] = started] ELSE oscarRun
  BY DEF OscarStart
<1>3. Typed(q) /\ Follows(p, q)
  <2> HIDE DEF p
  <2>1. q \in Memory /\ q.pc = "candidates" /\ Rest(q) = Rest(p)
    BY <1>1 DEF Typed, Memory, Rest, OscarOnly
  <2> HIDE DEF q
  <2>2. Typed(q)
    BY <1>1, <2>1, WalkTyped DEF Rest
  <2>3. Early(q) /\ Same(p, q)
    BY <2>1 DEF Early, Same, Rest
  <2> QED BY <1>1, <2>2, <2>3 DEF Follows
<1>4. Glides(w) /\ saved' = saved /\ film' = film
  <2> HIDE DEF q
  <2> QED BY <1>1, <1>2, <1>3, SaveGlides
<1>5. CASE Landed(reply)
  <2>1. started.status # "succeeded" /\ started.processed <= Cardinality(StoredIn(saved[w]))
    <3>1. StoredIn(saved[w]) = {}
      BY <1>1 DEF Tally
    <3> QED BY <3>1, FS_EmptySet
  <2> HIDE DEF started
  <2> QED BY <1>2, <1>4, <1>5, <2>1, SaidFine
<1>6. CASE ~Landed(reply)
  BY <1>2, <1>4, <1>6, QuietFine DEF Quiet
<1> QED BY <1>5, <1>6

LEMMA ReadCandidatesFine ==
    ASSUME TypeInv, TypeInv', Tallied, NEW w \in Workers, ReadCandidates(w)
    PROVE  Fine(w)
<1> DEFINE p == proc[w]
           q == [p EXCEPT !.pc = "eligible", !.films = Candidates]
           s == saved[w]
           r == oscarRun[w]
<1>1. /\ Typed(p) /\ p.pc = "candidates" /\ p.task = "oscar" /\ Tally(p, s, r) /\ Early(p)
      /\ FilmFree(p.unit) /\ p.processed = 0 /\ p.soft = FALSE
  BY TypeInvParts DEF ReadCandidates, At, Typed, Placed, OscarOnly, Tallied, Tally, Early
<1>2. PICK reply : Continue(w, reply, q, p)
  BY DEF ReadCandidates, Candidates, Taken
<1>3. saved' = saved /\ oscarRun' = oscarRun /\ film' = film
  BY DEF ReadCandidates, rows, runRows
<1>4. \/ proc' = [proc EXCEPT ![w] = q]
      \/ proc' = [proc EXCEPT ![w] = Thrown(p, reply)]
  BY <1>2 DEF Continue
<1>5. CASE proc' = [proc EXCEPT ![w] = Thrown(p, reply)]
  <2>1. Typed(Thrown(p, reply)) /\ Follows(p, Thrown(p, reply))
        /\ Thrown(p, reply).unit = p.unit
    BY <1>1, ThrownTyped, ThrownFollows
  <2>2. Quiet(w)
    BY <1>1, <1>3, <1>5, <2>1 DEF Quiet, Glides
  <2> QED BY <2>2, QuietFine
<1>6. CASE proc' = [proc EXCEPT ![w] = q]
  <2>1. /\ q.pc = "eligible" /\ q.task = "oscar" /\ q.films = Candidates
        /\ q.processed = 0 /\ q.soft = p.soft /\ q.unit = p.unit
    <3> HIDE DEF p
    <3> QED BY <1>1 DEF Typed, Memory
  <2> HIDE DEF q
  <2>2. ~Early(q) /\ q.pc \notin {"finish", "exit"}
    BY <2>1 DEF Early, Outside
  <2>3. StoredIn(s) = {} /\ r.status # "succeeded"
    BY <1>1 DEF Tally
  <2>4. \A f \in Films : s[f] = "none"
    BY <2>3 DEF StoredIn
  <2>5. DOMAIN Candidates = 1..Taken /\ \A n \in 1..Taken : Candidates[n] = Candidate(n)
    BY DEF Candidates
  <2>6. \A n \in 1..Taken : Candidate(n).film \in Films /\ Eligible(Candidate(n).film)
    BY TakenNumber, CandidatesAreDue
  <2>7. Ahead(q, s)
    <3>1. ASSUME NEW m \in 1..Taken, NEW n \in 1..Taken,
                 Candidate(m).film = Candidate(n).film
          PROVE  m = n
      BY <3>1, TakenNumber, CandidatesDiffer
    <3> QED BY <2>1, <2>4, <2>5, <2>6, <3>1 DEF Ahead, Left
  <2>8. Held(q, film)
    BY <2>1, <2>2, <2>5, <2>6 DEF Held, Left, Eligible, Settled
  <2>9. Tally(q, s, r)
    <3>1. NoneSoft(s) /\ Cardinality(StoredIn(s)) = 0
      BY <2>3, <2>4, FS_EmptySet DEF NoneSoft
    <3> HIDE DEF s, r
    <3> QED BY <1>1, <2>1, <2>2, <2>3, <2>7, <3>1 DEF Tally
  <2>10. saved' = [saved EXCEPT ![w] = s] /\ oscarRun' = [oscarRun EXCEPT ![w] = r]
    BY <1>3 DEF TypeInv, TypeOK
  <2>11. proc'[w] = q
    BY <1>6 DEF TypeInv
  <2> QED BY <1>3, <1>6, <2>8, <2>9, <2>10, <2>11, OneTally DEF Fine, Holds
<1> QED BY <1>4, <1>5, <1>6

LEMMA TakeFilmFine ==
    ASSUME TypeInv, TypeInv', Tallied, NEW w \in Workers, TakeFilm(w)
    PROVE  Fine(w)
<1> DEFINE p == proc[w]
           s == saved[w]
           r == oscarRun[w]
           k == KeyOf[Head(p.films).film]
<1>1. /\ Typed(p) /\ p.pc = "nextFilm" /\ p.task = "oscar" /\ Tally(p, s, r)
      /\ Looping(p) /\ FilmFree(p.unit)
      /\ saved' = saved /\ oscarRun' = oscarRun /\ film' = film
  BY TypeInvParts DEF TakeFilm, At, Typed, Placed, OscarOnly, Tallied, Tally, Looping,
     rows, runRows
<1>2. ASSUME NEW q, proc' = [proc EXCEPT ![w] = q], Follows(p, q), q.unit = p.unit
      PROVE  Fine(w)
  <2>1. Typed(q)
    <3>1. q = proc'[w]
      BY <1>2 DEF TypeInv
    <3> QED BY <3>1 DEF TypeInv, TypeOK, Typed, Placed
  <2>2. Quiet(w)
    BY <1>1, <1>2, <2>1 DEF Quiet, Glides
  <2> QED BY <2>2, QuietFine
<1>3. CASE p.films = <<>>
  <2>1. PICK verdict \in {"partial", "succeeded"} :
           /\ proc' = [proc EXCEPT ![w] = Ended(p, verdict)]
           /\ verdict = "succeeded" => p.soft = FALSE
    <3>1. p.soft \in BOOLEAN
      BY <1>1 DEF Typed, Memory
    <3> QED BY <1>3, <3>1 DEF TakeFilm
  <2> DEFINE q == Ended(p, verdict)
  <2>2. /\ Typed(q) /\ q.pc = "finish" /\ q.verdict = verdict /\ q.task = "oscar"
        /\ q.unit = p.unit /\ q.processed = p.processed
    BY <1>1, EndedTyped DEF Rest, OscarStatus
  <2> HIDE DEF q
  <2>3. Tally(q, s, r)
    <3>1. ~Early(q) /\ ~Looping(q)
      BY <2>2 DEF Early, Looping, Outside, Lookup
    <3>2. /\ r.status # "succeeded" /\ p.processed = Cardinality(StoredIn(s))
          /\ IsFiniteSet(StoredIn(s)) /\ (p.soft = FALSE => NoneSoft(s))
          /\ r.processed <= Cardinality(StoredIn(s))
      BY <1>1 DEF Tally
    <3>3. p.processed <= Cardinality(StoredIn(s))
      BY <1>1, <3>2 DEF Typed, Memory
    <3>4. IsFiniteSet({f \in Films : q.unit.films[f] # NoFilm})
      BY <1>1, <2>2, NothingTracked
    <3> HIDE DEF p, s, r
    <3> QED BY <1>1, <2>1, <2>2, <3>1, <3>2, <3>3, <3>4 DEF Tally
  <2>4. Held(q, film)
    BY <1>1, <2>2 DEF Held, Looping, Lookup, FilmFree
  <2>5. saved' = [saved EXCEPT ![w] = s] /\ oscarRun' = [oscarRun EXCEPT ![w] = r]
    BY <1>1 DEF TypeInv, TypeOK
  <2>6. proc' = [proc EXCEPT ![w] = q] /\ proc'[w] = q
    BY <2>1 DEF TypeInv, q
  <2> QED BY <1>1, <2>3, <2>4, <2>5, <2>6, OneTally DEF Fine, Holds
<1>4. CASE p.films # <<>> /\ p.stopping
  <2>1. proc' = [proc EXCEPT ![w] = Thrown(p, "cancelled")]
    BY <1>4 DEF TakeFilm
  <2>2. Follows(p, Thrown(p, "cancelled")) /\ Thrown(p, "cancelled").unit = p.unit
    BY <1>1, ThrownFollows
  <2> QED BY <1>2, <2>1, <2>2
<1>5. CASE p.films # <<>> /\ ~p.stopping
  <2> DEFINE q == Asking(p, k)
  <2>1. proc' = [proc EXCEPT ![w] = q]
    BY <1>5 DEF TakeFilm
  <2>2. k \in Keys
    BY <1>1, <1>5, FirstFilmTyped, NextAssumption
  <2>3. q.pc = "cache" /\ Rest(q) = Rest(p)
    BY <1>1, <2>2, AskingFields DEF Typed
  <2> HIDE DEF q, k
  <2>4. Looping(q) /\ Same(p, q) /\ q.unit = p.unit
    BY <1>1, <2>3 DEF Looping, Lookup, Same, Rest
  <2>5. Follows(p, q)
    BY <1>1, <2>3, <2>4 DEF Follows
  <2> QED BY <1>2, <2>1, <2>4, <2>5
<1> QED BY <1>3, <1>4, <1>5

(* Once the outcome of a film is stored the film is left behind. *)
LEMMA NextFilmTally ==
    ASSUME NEW p, Typed(p), p.task = "oscar", p.pc = "progress", NEW q,
           q.pc = "nextFilm", q.task = "oscar", q.films = Tail(p.films),
           q.processed = p.processed, q.soft = p.soft, FilmFree(q.unit),
           NEW s, NEW r, Tally(p, s, r), NEW docs
    PROVE  Tally(q, s, r) /\ (Held(p, docs) => Held(q, docs))
<1>1. Looping(p) /\ Looping(q) /\ ~Early(q) /\ q.pc \notin {"finish", "exit"}
  BY DEF Looping, Early, Outside
<1>2. p.films \in Seq([film : Films, attempts : 0..6]) /\ p.films # <<>>
  BY DEF Typed, Memory, Placed
<1>3. ASSUME NEW n \in DOMAIN q.films
      PROVE  n \in Nat /\ n + 1 \in Left(p) /\ n + 1 \in DOMAIN p.films
             /\ q.films[n] = p.films[n + 1]
  <2>1. n \in Nat /\ n # 0 /\ n + 1 \in DOMAIN p.films /\ q.films[n] = p.films[n + 1]
    BY <1>2
  <2> QED BY <2>1 DEF Left
<1>4. Ahead(p, s)
  BY <1>1 DEF Tally
<1>5. Ahead(q, s)
  <2>1. ASSUME NEW m \in DOMAIN q.films, NEW n \in DOMAIN q.films,
               q.films[m].film = q.films[n].film
        PROVE  m = n
    <3>1. m + 1 = n + 1
      BY <1>3, <1>4, <2>1 DEF Ahead
    <3> QED BY <1>3, <3>1
  <2>2. ASSUME NEW n \in Left(q) PROVE s[q.films[n].film] = "none"
    BY <1>3, <1>4 DEF Ahead, Left
  <2> QED BY <2>1, <2>2 DEF Ahead
<1>6. Tally(q, s, r)
  BY <1>1, <1>5 DEF Tally
<1>7. Held(p, docs) => Held(q, docs)
  BY <1>1, <1>3 DEF Held, Left
<1> QED BY <1>6, <1>7

LEMMA ProgressFollows ==
    ASSUME NEW p, Typed(p), p.task = "oscar", p.pc \in {"eligible", "answered", "progress"}
    PROVE  \/ Follows(p, AfterProgress(p))
           \/ /\ p.pc = "progress" /\ AfterProgress(p).pc = "nextFilm"
              /\ AfterProgress(p).task = "oscar" /\ AfterProgress(p).films = Tail(p.films)
              /\ AfterProgress(p).processed = p.processed /\ AfterProgress(p).soft = p.soft
<1> DEFINE next == [p EXCEPT !.pc = "nextFilm"]
           save == [p EXCEPT !.pc = "saveFilm"]
           over == Ended(p, "quota_stopped")
           r == Unasked(p)
           on == [r EXCEPT !.pc = "nextFilm", !.films = Tail(@)]
<1>1. p \in Memory /\ Looping(p)
  BY DEF Typed, Looping, Lookup
<1>2. CASE p.pc = "eligible"
  <2>1. next.pc = "nextFilm" /\ Same(p, next)
    BY <1>1 DEF Memory, Same
  <2>2. AfterProgress(p) = next
    BY <1>2 DEF AfterProgress
  <2> HIDE DEF next
  <2> QED BY <1>1, <1>2, <2>1, <2>2 DEF Follows, Looping, Same
<1>3. CASE p.pc = "answered" /\ p.result # "budget"
  <2>1. save.pc = "saveFilm" /\ Same(p, save)
    BY <1>1 DEF Memory, Same
  <2>2. AfterProgress(p) = save
    BY <1>3 DEF AfterProgress
  <2> HIDE DEF save
  <2> QED BY <1>1, <1>3, <2>1, <2>2 DEF Follows, Looping, Same
<1>4. CASE \/ p.pc = "answered" /\ p.result = "budget"
           \/ p.pc = "progress" /\ p.result = "quota"
  <2>1. AfterProgress(p) = over
    BY <1>4 DEF AfterProgress
  <2>2. over.pc = "finish" /\ over.verdict = "quota_stopped" /\ Rest(over) = Rest(p)
    BY EndedTyped DEF OscarStatus
  <2> HIDE DEF over
  <2> QED BY <1>1, <2>1, <2>2 DEF Follows, Rest
<1>5. CASE p.pc = "progress" /\ p.result # "quota"
  <2>1. AfterProgress(p) = on
    BY <1>5 DEF AfterProgress
  <2>2. r \in Memory /\ Rest(r) = Rest(p)
    BY <1>1, UnaskedTyped
  <2> HIDE DEF r
  <2>3. /\ on.pc = "nextFilm" /\ on.task = "oscar" /\ on.films = Tail(p.films)
        /\ on.processed = p.processed /\ on.soft = p.soft
    BY <2>2 DEF Memory, Rest
  <2> HIDE DEF on
  <2> QED BY <1>5, <2>1, <2>3
<1> QED BY <1>2, <1>3, <1>4, <1>5

LEMMA SaveProgressFine ==
    ASSUME TypeInv, TypeInv', Tallied, NEW w \in Workers, SaveProgress(w)
    PROVE  Fine(w)
<1> DEFINE p == proc[w]
           s == saved[w]
           r == oscarRun[w]
           ok == AfterProgress(p)
           said == [r EXCEPT !.processed = p.processed]
<1>1. /\ Typed(p) /\ p.pc \in {"eligible", "answered", "progress"} /\ p.task = "oscar"
      /\ p.unit \in Units /\ FilmFree(p.unit) /\ Looping(p) /\ Tally(p, s, r)
  BY TypeInvParts DEF SaveProgress, At, InOscar, Typed, Placed, OscarOnly, Tallied, Tally,
     Looping, Lookup
<1>2. PICK reply :
         /\ SaveChanges(w, p.unit, reply, ok)
         /\ oscarRun' = IF Landed(reply) THEN [oscarRun EXCEPT ![w].processed = p.processed]
                        ELSE oscarRun
  BY DEF SaveProgress
<1>3. Typed(ok)
  BY <1>1, AfterProgressTyped
<1>4. PICK r2 : /\ oscarRun' = [oscarRun EXCEPT ![w] = r2] /\ r2.status # "succeeded"
                /\ r2.processed <= Cardinality(StoredIn(s))
  <2>0. r \in [status : OscarStatus, processed : Nat] /\ DOMAIN oscarRun = Workers
        /\ oscarRun = [oscarRun EXCEPT ![w] = r]
    BY DEF TypeInv, TypeOK
  <2>1. /\ r.status # "succeeded" /\ r.processed <= Cardinality(StoredIn(s))
        /\ p.processed = Cardinality(StoredIn(s)) /\ p.processed \in Nat
    BY <1>1 DEF Tally, Typed, Memory
  <2>2. said.status = r.status /\ said.processed = p.processed
    BY <2>0
  <2>3. oscarRun' \in {[oscarRun EXCEPT ![w] = r], [oscarRun EXCEPT ![w] = said]}
    <3>1. [oscarRun EXCEPT ![w].processed = p.processed] = [oscarRun EXCEPT ![w] = said]
      BY <2>0
    <3> HIDE DEF p, r, said, ok
    <3> QED BY <1>2, <2>0, <3>1
  <2> HIDE DEF p, s, r, said, ok
  <2> QED BY <2>1, <2>2, <2>3
<1>5. CASE Follows(p, ok)
  <2>1. Glides(w) /\ saved' = saved /\ film' = film
    <3> HIDE DEF ok
    <3> QED BY <1>1, <1>2, <1>3, <1>5, SaveGlides
  <2> QED BY <1>4, <2>1, SaidFine
<1>6. CASE reply # "ok"
  <2>1. SaveChanges(w, p.unit, reply, p)
    BY <1>2, <1>6 DEF SaveChanges, Continue
  <2>2. Follows(p, p)
    BY <1>1 DEF Follows, Same
  <2>3. Glides(w) /\ saved' = saved /\ film' = film
    <3> HIDE DEF ok
    <3> QED BY <1>1, <2>1, <2>2, SaveGlides
  <2> QED BY <1>4, <2>3, SaidFine
<1>7. CASE reply = "ok" /\ ~Follows(p, ok)
  <2> DEFINE q == [ok EXCEPT !.unit = Clean]
  <2>1. StoreUnit(w, p.unit, reply) /\ proc' = [proc EXCEPT ![w] = q]
    BY <1>2, <1>7 DEF SaveChanges, Continue
  <2>2. saved' = saved /\ film' = film
    BY <1>1, <2>1, StoreFree
  <2>3. /\ p.pc = "progress" /\ ok.pc = "nextFilm" /\ ok.task = "oscar"
        /\ ok.films = Tail(p.films) /\ ok.processed = p.processed /\ ok.soft = p.soft
    BY <1>1, <1>7, ProgressFollows
  <2> HIDE DEF ok
  <2>4. /\ q.pc = "nextFilm" /\ q.task = "oscar" /\ q.unit = Clean
        /\ q.films = Tail(p.films) /\ q.processed = p.processed /\ q.soft = p.soft
    <3> HIDE DEF p
    <3> QED BY <1>3, <2>3 DEF Typed, Memory
  <2> HIDE DEF q
  <2>5. Tally(q, s, r) /\ (Held(p, film) => Held(q, film))
    <3> HIDE DEF p, s, r
    <3> QED BY <1>1, <2>3, <2>4, CleanFree, NextFilmTally
  <2>6. Tally(q, s, r2)
    <3> HIDE DEF s, r
    <3> QED BY <1>4, <2>5, RunTally
  <2>7. saved' = [saved EXCEPT ![w] = s] /\ proc'[w] = q
    BY <2>1, <2>2 DEF TypeInv, TypeOK
  <2> QED BY <1>4, <2>1, <2>2, <2>5, <2>6, <2>7, OneTally DEF Fine, Holds
<1> QED BY <1>5, <1>6, <1>7

-----------------------------------------------------------------------------
(* Outcomes *)

Touched(u) == {f \in Films : u.films[f] # NoFilm}

LEMMA StoredRows ==
    ASSUME TypeInv, NEW w \in Workers, NEW u \in Units, NEW reply,
           StoreUnit(w, u, reply), Landed(reply)
    PROVE  \E s : /\ saved' = [saved EXCEPT ![w] = s]
                  /\ \A f \in Films : s[f] = IF f \in Touched(u) THEN u.films[f].status
                                              ELSE saved[w][f]
                  /\ StoredIn(s) = StoredIn(saved[w]) \cup Touched(u)
                  /\ \A f \in Films : film'[f] = IF f \in Touched(u) THEN u.films[f]
                                                 ELSE film[f]
<1> DEFINE s == [f \in Films |-> IF u.films[f] # NoFilm THEN u.films[f].status
                                 ELSE saved[w][f]]
<1>1. saved' = [saved EXCEPT ![w] = s]
  BY DEF StoreUnit
<1>2. \A f \in Films : film'[f] = IF f \in Touched(u) THEN u.films[f] ELSE film[f]
  BY DEF StoreUnit, Touched
<1>3. \A f \in Films : s[f] = IF f \in Touched(u) THEN u.films[f].status ELSE saved[w][f]
  BY DEF Touched
<1>4. \A f \in Touched(u) : u.films[f].status # "none"
  <2>1. u.films \in [Films -> FilmDoc \cup {NoFilm}]
    BY DEF Units, Unit
  <2>2. \A f \in Touched(u) : u.films[f] \in FilmDoc
    BY <2>1 DEF Touched
  <2> QED BY <2>2 DEF FilmDoc
<1> HIDE DEF s
<1>5. StoredIn(s) = StoredIn(saved[w]) \cup Touched(u)
  BY <1>3, <1>4 DEF StoredIn, Touched
<1> QED BY <1>1, <1>2, <1>3, <1>5

(* A run whose outcome could not be stored, or whose row could not. *)
LEMMA FailedTally ==
    ASSUME NEW q, q.pc = "finish", q.verdict # "succeeded", IsFiniteSet(Touched(q.unit)),
           NEW s, NEW r, IsFiniteSet(StoredIn(s)), r.status # "succeeded",
           r.processed <= Cardinality(StoredIn(s)), q.processed <= Cardinality(StoredIn(s)),
           q.task = "oscar"
    PROVE  Tally(q, s, r)
<1>1. ~Early(q) /\ ~Looping(q)
  BY DEF Early, Looping, Lookup
<1> QED BY <1>1 DEF Tally, Touched

LEMMA AttemptedFields ==
    ASSUME NEW p, Typed(p), NEW doc
    PROVE  LET q == [Attempted(p, doc) EXCEPT !.unit = Clean] IN
           /\ q.pc = "progress" /\ q.task = p.task /\ q.films = p.films /\ q.unit = Clean
           /\ q.processed = p.processed + 1
           /\ q.soft = FALSE => p.soft = FALSE /\ doc.status # "temporary_error"
<1>1. p \in Memory /\ p.soft \in BOOLEAN
  BY DEF Typed, Memory
<1>2. PICK soft \in BOOLEAN :
         /\ soft = (p.soft \/ doc.status = "temporary_error")
         /\ [Attempted(p, doc) EXCEPT !.unit = Clean] =
              [p EXCEPT !.pc = "progress", !.processed = p.processed + 1, !.soft = soft,
                        !.unit = Clean]
  BY <1>1 DEF Attempted, Memory
<1> DEFINE q == [p EXCEPT !.pc = "progress", !.processed = p.processed + 1, !.soft = soft,
                          !.unit = Clean]
<1>3. /\ q.pc = "progress" /\ q.task = p.task /\ q.films = p.films /\ q.unit = Clean
      /\ q.processed = p.processed + 1 /\ q.soft = soft
  BY <1>1 DEF Memory
<1>4. soft = FALSE => p.soft = FALSE /\ doc.status # "temporary_error"
  BY <1>1, <1>2
<1> HIDE DEF q
<1> QED BY <1>2, <1>3, <1>4 DEF q

LEMMA SaveOutcomeFine ==
    ASSUME TypeInv, TypeInv', Tallied, NEW w \in Workers, SaveOutcome(w)
    PROVE  Fine(w)
<1> DEFINE p == proc[w]
           s == saved[w]
           r == oscarRun[w]
           f == Head(p.films).film
           S == StoredIn(s)
<1>1. /\ Typed(p) /\ p.pc = "saveFilm" /\ p.task = "oscar" /\ p.unit \in Units
      /\ p.films # <<>> /\ p.result \in {"found", "not_found", "quota", "failure"}
      /\ FilmFree(p.unit) /\ Looping(p) /\ Tally(p, s, r) /\ oscarRun' = oscarRun
  BY TypeInvParts DEF SaveOutcome, At, Typed, Placed, OscarOnly, Tallied, Tally, Looping,
     runRows
<1>2. /\ IsFiniteSet(S) /\ r.processed <= Cardinality(S) /\ r.status # "succeeded"
      /\ p.processed = Cardinality(S) /\ Ahead(p, s) /\ (p.soft = FALSE => NoneSoft(s))
      /\ Cardinality(S) \in Nat /\ r.processed \in Nat
  BY <1>1, FS_CardinalityType DEF Tally, TypeInv, TypeOK
<1>3. /\ p.films \in Seq([film : Films, attempts : 0..6]) /\ 1 \in DOMAIN p.films
      /\ f = p.films[1].film /\ f \in Films /\ Head(p.films).attempts + 1 \in 1..7
  <2>1. p.films \in Seq([film : Films, attempts : 0..6])
    BY <1>1 DEF Typed, Memory
  <2>2. 1 \in DOMAIN p.films /\ Head(p.films) = p.films[1]
    BY <1>1, <2>1
  <2>3. f \in Films /\ Head(p.films).attempts \in 0..6
    BY <1>1, FirstFilmTyped
  <2> QED BY <2>1, <2>2, <2>3
<1>4. PICK doc \in CreateUpdate(p, Head(p.films).attempts + 1), base \in {p.unit, Clean} :
         \E reply : SaveChanges(w, [base EXCEPT !.films[f] = doc], reply, Attempted(p, doc))
  BY DEF SaveOutcome
<1>5. PICK reply :
         SaveChanges(w, [base EXCEPT !.films[f] = doc], reply, Attempted(p, doc))
  BY <1>4
<1> DEFINE u == [base EXCEPT !.films[f] = doc]
           q1 == [Attempted(p, doc) EXCEPT !.unit = Clean]
           v == [p EXCEPT !.unit = u]
           q2 == Thrown(v, reply)
<1>6. doc \in FilmDoc /\ doc.status # "pending" /\ doc # NoFilm
  BY <1>1, <1>3, OutcomeTyped, NoFilmAssumption
<1>7. u \in Units /\ u.films[f] = doc /\ \A g \in Films : g # f => u.films[g] = NoFilm
  <2>1. base \in Units /\ FilmFree(base)
    BY <1>1, CleanTyped, CleanFree
  <2> HIDE DEF p, f
  <2>2. u \in Unit
    BY <1>3, <1>6, <2>1 DEF Units, Unit
  <2>3. \A g \in Films : u.films[g] = IF g = f THEN doc ELSE base.films[g]
    BY <1>3, <2>1 DEF Units, Unit
  <2> HIDE DEF u
  <2> QED BY <1>3, <1>6, <2>1, <2>2, <2>3 DEF Units, FilmFree
<1>8. Touched(u) = {f} /\ IsFiniteSet({f})
  <2>1. Touched(u) = {f}
    <3> HIDE DEF u, f
    <3> QED BY <1>3, <1>6, <1>7 DEF Touched
  <2> QED BY <2>1, FS_Singleton
<1>9. StoreUnit(w, u, reply) /\ proc' = [proc EXCEPT ![w] = IF reply = "ok" THEN q1 ELSE q2]
  BY <1>5 DEF SaveChanges, Continue
<1>10. /\ q1.pc = "progress" /\ q1.task = "oscar" /\ q1.films = p.films /\ q1.unit = Clean
       /\ q1.processed = p.processed + 1
       /\ q1.soft = FALSE => p.soft = FALSE /\ doc.status # "temporary_error"
  BY <1>1, AttemptedFields, ZenonT(30)
<1>11. reply # "ok" =>
          /\ q2.pc = "finish" => /\ q2.task = "oscar" /\ q2.verdict # "succeeded"
                                /\ q2.processed = p.processed /\ q2.unit = u
          /\ q2.pc \in {"finish", "exit"}
  <2>1. Typed(v) /\ v.pc = p.pc
    BY <1>1, <1>7, UnitTyped
  <2>2. v.task = "oscar" /\ v.processed = p.processed /\ v.unit = u
    <3> HIDE DEF p, u
    <3> QED BY <1>1 DEF Typed, Memory
  <2> HIDE DEF v, u, p
  <2> QED BY <1>1, <2>1, <2>2, ThrownTyped DEF Landing
<1> HIDE DEF q1, q2, u
<1>12. 1 \in Left(p) /\ s[f] = "none" /\ f \notin S
  <2>1. 1 \in Left(p)
    BY <1>1, <1>3 DEF Left
  <2> QED BY <1>2, <1>3, <2>1 DEF Ahead, StoredIn
<1>13. \A n \in Left(q1) : n \in Left(p) /\ q1.films[n].film = p.films[n].film
                          /\ p.films[n].film # f /\ p.films[n].film \in Films
  <2>1. ASSUME NEW n \in Left(q1) PROVE n \in DOMAIN p.films /\ n # 1 /\ n \in Left(p)
    BY <1>1, <1>10 DEF Left
  <2>2. \A n \in DOMAIN p.films : p.films[n].film \in Films
    <3>1. p.films \in Seq([film : Films, attempts : 0..6])
      BY <1>3
    <3>2. ASSUME NEW C, NEW films \in Seq(C), NEW n \in DOMAIN films PROVE films[n] \in C
      OBVIOUS
    <3>3. \A n \in DOMAIN p.films : p.films[n] \in [film : Films, attempts : 0..6]
      <4> DEFINE C == [film : Films, attempts : 0..6]
      <4>1. p.films \in Seq(C)
        BY <3>1
      <4> HIDE DEF C
      <4>2. \A n \in DOMAIN p.films : p.films[n] \in C
        BY <3>2, <4>1
      <4> QED BY <4>2 DEF C
    <3> QED BY <3>3
  <2> QED BY <1>2, <1>3, <1>10, <2>1, <2>2 DEF Ahead
<1>14. CASE Landed(reply)
  <2>1. PICK s2 :
           /\ saved' = [saved EXCEPT ![w] = s2]
           /\ \A g \in Films : s2[g] = IF g \in Touched(u) THEN u.films[g].status ELSE s[g]
           /\ StoredIn(s2) = S \cup Touched(u)
           /\ \A g \in Films : film'[g] = IF g \in Touched(u) THEN u.films[g] ELSE film[g]
    BY <1>7, <1>9, <1>14, StoredRows
  <2>2. /\ IsFiniteSet(StoredIn(s2)) /\ Cardinality(StoredIn(s2)) = Cardinality(S) + 1
    <3>1. StoredIn(s2) = S \cup {f}
      BY <1>8, <2>1
    <3> HIDE DEF S, f
    <3> QED BY <1>2, <1>12, <3>1, FS_AddElement
  <2>3. /\ r.processed <= Cardinality(StoredIn(s2))
        /\ p.processed <= Cardinality(StoredIn(s2))
    BY <1>2, <2>2
  <2>4. oscarRun' = [oscarRun EXCEPT ![w] = r]
    BY <1>1 DEF TypeInv, TypeOK
  <2>5. CASE reply = "ok"
    <3>1. proc' = [proc EXCEPT ![w] = q1] /\ proc'[w] = q1
      BY <1>9, <2>5 DEF TypeInv
    <3>2. Ahead(q1, s2)
      <4>2. \A n \in Left(q1) : s2[q1.films[n].film] = "none"
        <5> HIDE DEF p, s, f
        <5> QED BY <1>2, <1>8, <1>13, <2>1 DEF Ahead
      <4>3. \A m, n \in DOMAIN q1.films : q1.films[m].film = q1.films[n].film => m = n
        BY <1>2, <1>10 DEF Ahead
      <4> QED BY <4>2, <4>3 DEF Ahead
    <3>3. q1.soft = FALSE => NoneSoft(s2)
      BY <1>2, <1>7, <1>8, <1>10, <2>1 DEF NoneSoft
    <3>4. ~Early(q1) /\ q1.pc \notin {"finish", "exit"} /\ FilmFree(q1.unit)
      BY <1>10, CleanFree DEF Early
    <3>5. q1.processed = Cardinality(StoredIn(s2))
      BY <1>2, <1>10, <2>2
    <3>6. Tally(q1, s2, r)
      <4> HIDE DEF p, s, r, S, f
      <4> QED BY <1>2, <2>2, <2>3, <3>2, <3>3, <3>4, <3>5 DEF Tally
    <3>7. Held(p, film) => Held(q1, film')
      <4>1. \A n \in Left(q1) : film'[p.films[n].film] = film[p.films[n].film]
        <5> HIDE DEF p, f
        <5> QED BY <1>8, <1>13, <2>1
      <4> QED BY <1>1, <1>10, <1>13, <3>4, <4>1 DEF Held
    <3> QED BY <2>1, <2>4, <3>1, <3>6, <3>7, OneTally DEF Fine, Holds
  <2>6. CASE reply # "ok"
    <3>1. proc' = [proc EXCEPT ![w] = q2] /\ proc'[w] = q2
      BY <1>9, <2>6 DEF TypeInv
    <3>2. Tally(q2, s2, r)
      <4>1. CASE q2.pc = "finish"
        <5> HIDE DEF p, s, r, S, f
        <5> QED BY <1>2, <1>8, <1>11, <2>2, <2>3, <2>6, <4>1, FailedTally
      <4>2. CASE q2.pc = "exit"
        <5>1. ~Early(q2) /\ ~Looping(q2)
          BY <4>2 DEF Early, Looping, Outside, Lookup
        <5> QED BY <1>2, <2>2, <2>3, <4>2, <5>1 DEF Tally
      <4> QED BY <1>11, <2>6, <4>1, <4>2
    <3>3. Held(q2, film')
      <4>1. q2.pc = "finish" => \A g \in Films : q2.unit.films[g] # NoFilm =>
                                   q2.unit.films[g].status = film'[g].status
        BY <1>11, <2>1, <2>6 DEF Touched
      <4>2. ~Looping(q2)
        BY <1>11, <2>6 DEF Looping, Lookup
      <4> QED BY <4>1, <4>2 DEF Held
    <3> QED BY <2>1, <2>4, <3>1, <3>2, <3>3, OneTally DEF Fine, Holds
  <2> QED BY <2>5, <2>6
<1>15. CASE ~Landed(reply)
  <2>1. reply # "ok" /\ saved' = [saved EXCEPT ![w] = s] /\ film' = film
        /\ oscarRun' = [oscarRun EXCEPT ![w] = r]
    BY <1>1, <1>9, <1>15 DEF StoreUnit, rows, Landed, TypeInv, TypeOK
  <2>2. proc' = [proc EXCEPT ![w] = q2] /\ proc'[w] = q2
    BY <1>9, <2>1 DEF TypeInv
  <2>3. Tally(q2, s, r)
    <3>1. CASE q2.pc = "finish"
      <4>1. p.processed <= Cardinality(S)
        BY <1>2
      <4> HIDE DEF p, s, r, f
      <4> QED BY <1>2, <1>8, <1>11, <2>1, <3>1, <4>1, FailedTally
    <3>2. CASE q2.pc = "exit"
      <4>1. ~Early(q2) /\ ~Looping(q2)
        BY <3>2 DEF Early, Looping, Outside, Lookup
      <4> QED BY <1>2, <3>2, <4>1 DEF Tally
    <3> QED BY <1>11, <2>1, <3>1, <3>2
  <2>4. Held(p, film) => Held(q2, film')
    <3>1. Held(p, film) => ~Settled(film[f])
      BY <1>1, <1>3, <1>12 DEF Held
    <3>2. q2.pc = "finish" => \A g \in Films : q2.unit.films[g] # NoFilm => g = f
      BY <1>7, <1>11, <2>1
    <3>3. ~Looping(q2)
      BY <1>11, <2>1 DEF Looping, Lookup
    <3> QED BY <2>1, <3>1, <3>2, <3>3 DEF Held
  <2> QED BY <2>1, <2>2, <2>3, <2>4, OneTally DEF Fine, Holds
<1> QED BY <1>14, <1>15

LEMMA FinishFine ==
    ASSUME TypeInv, TypeInv', Tallied, NEW w \in Workers, Finish(w)
    PROVE  Fine(w)
<1> DEFINE p == proc[w]
           s == saved[w]
           r == oscarRun[w]
           S == StoredIn(s)
           ok == [p EXCEPT !.pc = "exit"]
           q1 == [ok EXCEPT !.unit = Clean]
           v == [p EXCEPT !.unit = p.unit]
           ended == [status |-> p.verdict, processed |-> p.processed]
<1>1. /\ Typed(p) /\ p.pc = "finish" /\ p.task = "oscar" /\ p.unit \in Units
      /\ Tally(p, s, r)
  BY TypeInvParts DEF Finish, At, Typed, Placed, OscarOnly, Tallied
<1>2. /\ IsFiniteSet(S) /\ r.processed <= Cardinality(S) /\ r.status # "succeeded"
      /\ p.processed <= Cardinality(S) /\ IsFiniteSet(Touched(p.unit))
      /\ p.verdict = "succeeded" =>
            p.processed = Cardinality(S) /\ NoneSoft(s) /\ FilmFree(p.unit)
  BY <1>1 DEF Tally, Touched
<1>3. PICK reply :
         /\ SaveChanges(w, p.unit, reply, ok)
         /\ oscarRun' = IF Landed(reply) THEN [oscarRun EXCEPT ![w] = ended] ELSE oscarRun
  BY DEF Finish
<1>4. PICK q : proc' = [proc EXCEPT ![w] = q] /\ q.pc = "exit"
  <2>1. q1.pc = "exit"
    <3> HIDE DEF p
    <3> QED BY <1>1 DEF Typed, Memory
  <2>2. Thrown(v, reply).pc = "exit"
    <3> DEFINE x == [p EXCEPT !.pc = "exit"]
    <3>1. v = p
      BY <1>1, SameUnit DEF Typed
    <3>2. Thrown(p, reply) = Unasked(x)
      BY <1>1 DEF Thrown, ThrownInOscar
    <3>3. x \in Memory /\ x.pc = "exit"
      <4> HIDE DEF p
      <4> QED BY <1>1 DEF Typed, Memory
    <3> HIDE DEF x
    <3> QED BY <3>1, <3>2, <3>3, UnaskedTyped
  <2>3. \/ proc' = [proc EXCEPT ![w] = q1]
        \/ proc' = [proc EXCEPT ![w] = Thrown(v, reply)]
    BY <1>3 DEF SaveChanges, Continue
  <2> HIDE DEF q1, v
  <2> QED BY <2>1, <2>2, <2>3
<1>5. ~Early(q) /\ ~Looping(q)
  BY <1>4 DEF Early, Looping, Outside, Lookup
<1>6. StoreUnit(w, p.unit, reply)
  BY <1>3 DEF SaveChanges
<1>7. CASE Landed(reply)
  <2>1. PICK s2 :
           /\ saved' = [saved EXCEPT ![w] = s2]
           /\ \A f \in Films : s2[f] = IF f \in Touched(p.unit) THEN p.unit.films[f].status
                                       ELSE s[f]
           /\ StoredIn(s2) = S \cup Touched(p.unit)
    BY <1>1, <1>6, <1>7, StoredRows
  <2>2. /\ IsFiniteSet(StoredIn(s2)) /\ Cardinality(S) <= Cardinality(StoredIn(s2))
        /\ Cardinality(S) \in Nat /\ Cardinality(StoredIn(s2)) \in Nat
    <3>1. IsFiniteSet(StoredIn(s2)) /\ S \subseteq StoredIn(s2)
      <4> DEFINE T == Touched(p.unit)
      <4>1. StoredIn(s2) = S \cup T /\ IsFiniteSet(S) /\ IsFiniteSet(T)
        BY <1>2, <2>1
      <4> HIDE DEF S, T
      <4>2. IsFiniteSet(S \cup T)
        BY <4>1, FS_Union
      <4> QED BY <4>1, <4>2
    <3> HIDE DEF S
    <3> QED BY <1>2, <3>1, FS_Subset, FS_CardinalityType
  <2>3. p.processed <= Cardinality(StoredIn(s2))
    <3>1. p.processed \in Nat
      BY <1>1 DEF Typed, Memory
    <3> QED BY <1>2, <2>2, <3>1
  <2>4. p.verdict = "succeeded" => p.processed = Cardinality(StoredIn(s2)) /\ NoneSoft(s2)
    <3>1. FilmFree(p.unit) => Touched(p.unit) = {}
      BY DEF FilmFree, Touched
    <3>2. FilmFree(p.unit) => StoredIn(s2) = S /\ \A f \in Films : s2[f] = s[f]
      BY <2>1, <3>1
    <3> QED BY <1>2, <3>2 DEF NoneSoft
  <2>5. ended.processed = p.processed /\ ended.status = p.verdict
    OBVIOUS
  <2>6. Tally(q, s2, ended)
    <3> HIDE DEF p, s, r, S, ended
    <3> QED BY <1>4, <1>5, <2>2, <2>3, <2>4, <2>5 DEF Tally
  <2> QED BY <1>3, <1>4, <1>5, <1>7, <2>1, <2>6, AwayFine
<1>8. CASE ~Landed(reply)
  <2>1. saved' = [saved EXCEPT ![w] = s] /\ oscarRun' = [oscarRun EXCEPT ![w] = r]
    BY <1>3, <1>6, <1>8 DEF StoreUnit, rows, TypeInv, TypeOK
  <2>2. Tally(q, s, r)
    <3> HIDE DEF p, s, r
    <3> QED BY <1>2, <1>4, <1>5 DEF Tally
  <2> QED BY <1>4, <1>5, <2>1, <2>2, AwayFine
<1> QED BY <1>7, <1>8

LEMMA EnrichmentFine ==
    ASSUME TypeInv, TypeInv', Tallied, NEW w \in Workers, EnrichmentStep(w)
    PROVE  Fine(w)
BY OscarStartFine, ReadCandidatesFine, TakeFilmFine, SaveProgressFine, SaveOutcomeFine,
   FinishFine DEF EnrichmentStep

-----------------------------------------------------------------------------
(* What happens to processes, and time *)

(* A process that has no run any more, or none yet. *)
LEMMA OutsideFine ==
    ASSUME TypeInv, TypeInv', Tallied, NEW w \in Workers, NEW q,
           proc' = [proc EXCEPT ![w] = q], Outside(q), q.pc # "exit" => FilmFree(q.unit),
           UNCHANGED rows, UNCHANGED runRows
    PROVE  Fine(w)
<1>1. Typed(q)
  <2>1. q = proc'[w]
    BY DEF TypeInv
  <2> QED BY <2>1 DEF TypeInv, TypeOK, Typed, Placed
<1>2. Quiet(w)
  BY <1>1 DEF Quiet, Glides, Follows, rows, runRows
<1> QED BY <1>2, QuietFine

LEMMA AcquireFine ==
    ASSUME TypeInv, TypeInv', Tallied, NEW w \in Workers, Acquire(w) \/ ReadSettings(w)
    PROVE  Fine(w)
<1> DEFINE p == proc[w]
           settings == [p EXCEPT !.pc = "settings"]
           start == [p EXCEPT !.pc = "startRun"]
<1>1. /\ Typed(p) /\ p.pc \in {"acquire", "settings"} /\ FilmFree(p.unit)
      /\ UNCHANGED rows /\ UNCHANGED runRows
  BY TypeInvParts DEF Acquire, ReadSettings, At, Tallied, Tally
<1>2. \E ok \in {settings, start, Fresh} : \E reply : Continue(w, reply, ok, p)
  BY DEF Acquire, ReadSettings
<1>3. ASSUME NEW ok \in {settings, start, Fresh}
      PROVE  Outside(ok) /\ FilmFree(ok.unit)
  <2>1. /\ settings.pc = "settings" /\ start.pc = "startRun"
        /\ settings.unit = p.unit /\ start.unit = p.unit
    <3> HIDE DEF p
    <3> QED BY <1>1 DEF Typed, Memory
  <2>2. Fresh.pc = "idle" /\ Fresh.unit = Clean
    BY DEF Fresh
  <2> HIDE DEF settings, start
  <2> QED BY <1>1, <2>1, <2>2, CleanFree DEF Outside
<1>4. ASSUME NEW reply PROVE Outside(Thrown(p, reply)) /\ Thrown(p, reply).unit = p.unit
  <2> DEFINE x == [p EXCEPT !.pc = "exit"]
  <2>1. Thrown(p, reply) = Unasked(x)
    BY <1>1 DEF Thrown
  <2>2. x \in Memory /\ x.pc = "exit"
    <3> HIDE DEF p
    <3> QED BY <1>1 DEF Typed, Memory
  <2>3. Thrown(p, reply).unit = p.unit
    BY <1>1, ThrownTyped
  <2> HIDE DEF x
  <2> QED BY <2>1, <2>2, <2>3, UnaskedTyped DEF Outside
<1>5. \E q : /\ proc' = [proc EXCEPT ![w] = q] /\ Outside(q) /\ FilmFree(q.unit)
  <2> HIDE DEF settings, start
  <2>1. PICK ok \in {settings, start, Fresh} : \E reply : Continue(w, reply, ok, p)
    BY <1>2
  <2>2. PICK reply : Continue(w, reply, ok, p)
    BY <2>1
  <2>3. \/ proc' = [proc EXCEPT ![w] = ok]
        \/ proc' = [proc EXCEPT ![w] = Thrown(p, reply)]
    BY <2>2 DEF Continue
  <2> QED BY <1>1, <1>3, <1>4, <2>3
<1> QED BY <1>1, <1>5, OutsideFine

LEMMA EventFine ==
    ASSUME TypeInv, TypeInv', Tallied, NEW w \in Workers,
           Exit(w) \/ StartManual(w) \/ Stop(w) \/ Kill(w) \/ DropConnection(w)
    PROVE  Fine(w)
<1>1. /\ UNCHANGED rows /\ UNCHANGED runRows /\ Typed(proc[w])
      /\ Tally(proc[w], saved[w], oscarRun[w])
  BY TypeInvParts DEF Exit, StartManual, Stop, Kill, DropConnection, Tallied
<1>2. CASE Exit(w) \/ Kill(w)
  <2>1. Fresh.pc = "idle" /\ Fresh.unit = Clean
    BY DEF Fresh
  <2> QED BY <1>1, <1>2, <2>1, CleanFree, OutsideFine DEF Exit, Kill, Outside
<1>3. CASE StartManual(w)
  <2> DEFINE q == [proc[w] EXCEPT !.pc = "acquire"]
  <2>1. q.pc = "acquire" /\ q.unit = proc[w].unit
    BY <1>1 DEF Typed, Memory
  <2>2. FilmFree(proc[w].unit) /\ proc' = [proc EXCEPT ![w] = q]
    BY <1>1, <1>3 DEF StartManual, Active, Tally
  <2> HIDE DEF q
  <2> QED BY <1>1, <2>1, <2>2, OutsideFine DEF Outside
<1>4. CASE Stop(w)
  <2> DEFINE q == [proc[w] EXCEPT !.stopping = TRUE]
  <2>1. /\ Same(proc[w], q) /\ q.pc = proc[w].pc /\ q.unit = proc[w].unit
        /\ q.verdict = proc[w].verdict
    BY <1>1 DEF Typed, Memory, Same
  <2>2. proc' = [proc EXCEPT ![w] = q] /\ proc'[w] = q
    BY <1>4 DEF Stop, TypeInv
  <2> HIDE DEF q
  <2>3. Tally(q, saved[w], oscarRun[w])
    BY <1>1, <2>1, FieldTally
  <2>4. Held(proc[w], film) => Held(q, film)
    BY <2>1 DEF Held, Looping, Left, Same
  <2>5. /\ saved' = [saved EXCEPT ![w] = saved[w]] /\ film' = film
        /\ oscarRun' = [oscarRun EXCEPT ![w] = oscarRun[w]]
    BY <1>1 DEF rows, runRows, TypeInv, TypeOK
  <2> QED BY <2>2, <2>3, <2>4, <2>5, OneTally DEF Fine, Holds
<1>5. CASE DropConnection(w)
  BY <1>1, <1>5 DEF DropConnection, rows, runRows, Fine, Holds, Tallied
<1> QED BY <1>2, <1>3, <1>4, <1>5

(* Time leaves a process where it is, or starts the one it is due to start. *)
LEMMA TimeFine ==
    ASSUME TypeInv, TypeInv', Tallied, TimePasses,
           \A w \in Workers :
              \/ /\ Same(proc[w], proc'[w]) /\ proc'[w].pc = proc[w].pc
                 /\ proc'[w].unit = proc[w].unit /\ proc'[w].verdict = proc[w].verdict
              \/ /\ ~Active(w) /\ proc'[w].pc = "acquire"
                 /\ proc'[w].unit = proc[w].unit
    PROVE  Tallied' /\ \A w \in Workers : Holds(w)
<1>0. /\ film' \in [Films -> FilmDoc]
      /\ \A f \in Films : film'[f].status = film[f].status
      /\ saved' = [w \in Workers |-> IF Active(w) THEN saved[w] ELSE NothingSaved]
      /\ oscarRun' = [w \in Workers |-> IF Active(w) THEN oscarRun[w] ELSE NoOscarRun]
  <2>1. \A f \in Films : film[f] \in FilmDoc
    BY DEF TypeInv, TypeOK
  <2>2. PICK waits : film' = [f \in Films |-> [film[f] EXCEPT !.wait = waits[f]]]
    BY DEF TimePasses
  <2>3. \A f \in Films : film'[f].status = film[f].status
    BY <2>1, <2>2 DEF FilmDoc
  <2> QED BY <2>3, TimePassesTyped DEF TimePasses, DropEndedRuns
<1>1. ASSUME NEW w \in Workers PROVE Tally(proc'[w], saved'[w], oscarRun'[w])
  <2>1. Typed(proc[w]) /\ Tally(proc[w], saved[w], oscarRun[w])
    BY TypeInvParts DEF Tallied
  <2>2. Typed(proc'[w])
    BY DEF TypeInv, TypeOK, Typed, Placed
  <2>3. CASE Active(w)
    <3>1. saved'[w] = saved[w] /\ oscarRun'[w] = oscarRun[w]
      BY <1>0, <2>3
    <3> QED BY <2>1, <2>3, <3>1, FieldTally
  <2>4. CASE ~Active(w)
    <3>1. saved'[w] = NothingSaved /\ oscarRun'[w] = NoOscarRun
      BY <1>0, <2>4
    <3>2. proc'[w].pc \in {"idle", "acquire"} /\ proc'[w].unit = proc[w].unit
      BY <2>4 DEF Active
    <3>3. proc'[w].task = "rss" /\ FilmFree(proc'[w].unit)
      BY <2>1, <2>2, <2>4, <3>2 DEF Typed, Placed, Tally, Active
    <3> QED BY <2>2, <3>1, <3>3, BlankTally
  <2> QED BY <2>3, <2>4
<1>2. ASSUME NEW w \in Workers PROVE Holds(w)
  <2>1. CASE proc'[w].pc = "acquire"
    BY <2>1 DEF Holds, Held, Looping, Lookup
  <2>2. CASE /\ Same(proc[w], proc'[w]) /\ proc'[w].pc = proc[w].pc
             /\ proc'[w].unit = proc[w].unit /\ proc'[w].verdict = proc[w].verdict
    <3>1. Looping(proc'[w]) <=> Looping(proc[w])
      BY <2>2 DEF Looping, Same
    <3>2. Left(proc'[w]) = Left(proc[w]) /\ proc'[w].films = proc[w].films
      BY <2>2 DEF Left, Same
    <3>3. Looping(proc[w]) => \A n \in Left(proc[w]) : proc[w].films[n].film \in Films
      <4>1. proc[w].films \in Seq([film : Films, attempts : 0..6])
        BY DEF TypeInv, TypeOK, Memory
      <4> DEFINE C == [film : Films, attempts : 0..6]
      <4>2. \A n \in DOMAIN proc[w].films : proc[w].films[n] \in C
        <5>1. ASSUME NEW D, NEW s \in Seq(D), NEW n \in DOMAIN s PROVE s[n] \in D
          OBVIOUS
        <5>2. proc[w].films \in Seq(C)
          BY <4>1
        <5> HIDE DEF C
        <5> QED BY <5>1, <5>2
      <4> QED BY <4>2 DEF Left
    <3>4. Held(proc[w], film) => Held(proc'[w], film')
      BY <1>0, <2>2, <3>1, <3>2, <3>3 DEF Held, Settled
    <3> QED BY <3>4 DEF Holds
  <2> QED BY <2>1, <2>2
<1> QED BY <1>1, <1>2 DEF Tallied

LEMMA ClockFine ==
    ASSUME TypeInv, TypeInv', Tallied, Midnight \/ TimerTick
    PROVE  Tallied' /\ \A w \in Workers : Holds(w)
<1>1. TimePasses
  BY DEF Midnight, TimerTick
<1>2. ASSUME NEW w \in Workers
      PROVE  \/ /\ Same(proc[w], proc'[w]) /\ proc'[w].pc = proc[w].pc
                /\ proc'[w].unit = proc[w].unit /\ proc'[w].verdict = proc[w].verdict
             \/ /\ ~Active(w) /\ proc'[w].pc = "acquire"
                /\ proc'[w].unit = proc[w].unit
  <2>0. proc[w] \in Memory /\ DOMAIN proc = Workers
    BY DEF TypeInv, TypeOK
  <2>1. CASE Midnight
    <3> DEFINE p == proc[w]
               q == proc'[w]
    <3>1. PICK a \in BOOLEAN, b \in BOOLEAN : q = [p EXCEPT !.today = a, !.begun = b]
      BY <2>1 DEF Midnight
    <3> SUFFICES /\ Same(p, q) /\ q.pc = p.pc /\ q.unit = p.unit /\ q.verdict = p.verdict
      OBVIOUS
    <3>2. p \in Memory
      BY <2>0
    <3> HIDE DEF p, q
    <3> QED BY <3>1, <3>2 DEF Memory, Same
  <2>2. CASE TimerTick
    <3>1. ~Active(Scheduled) /\ proc' = [proc EXCEPT ![Scheduled].pc = "acquire"]
      BY <2>2 DEF TimerTick
    <3>2. CASE w = Scheduled
      <4>1. proc'[w] = [proc[w] EXCEPT !.pc = "acquire"]
        BY <2>0, <3>1, <3>2
      <4> QED BY <2>0, <3>1, <3>2, <4>1 DEF Memory
    <3>3. CASE w # Scheduled
      <4>1. proc'[w] = proc[w]
        BY <2>0, <3>1, <3>3
      <4> QED BY <4>1 DEF Same
    <3> QED BY <3>2, <3>3
  <2> QED BY <2>1, <2>2
<1> QED BY <1>1, <1>2, TimeFine

-----------------------------------------------------------------------------
(* What Oscar runs report *)

LEMMA InitTallied == Init => Tallied
<1> SUFFICES ASSUME Init, NEW w \in Workers PROVE Tally(proc[w], saved[w], oscarRun[w])
  BY DEF Tallied
<1>1. /\ proc[w] = Fresh /\ saved[w] = NothingSaved /\ oscarRun[w] = NoOscarRun
  BY DEF Init
<1>2. FilmFree(Fresh.unit)
  BY CleanFree DEF Fresh
<1> QED BY <1>1, <1>2, FreshTyped, BlankTally

LEMMA ProcessFine ==
    ASSUME TypeInv, TypeInv', Tallied, NEW w \in Workers,
           \/ ProcessStep(w) \/ StartManual(w) \/ Stop(w) \/ Kill(w) \/ DropConnection(w)
    PROVE  Fine(w)
BY AcquireFine, LookupQuiet, QuietFine, IngestionFine, EnrichmentFine, EventFine
   DEF ProcessStep

LEMMA StepTallied ==
    ASSUME TypeInv, TypeInv', Tallied, [Next]_vars
    PROVE  Tallied'
<1>1. CASE UNCHANGED vars
  BY <1>1 DEF vars, Tallied
<1>2. CASE Next
  BY <1>2, ProcessFine, ClockFine DEF Next, Fine
<1> QED BY <1>1, <1>2

(* An Oscar run that has ended never reports more films than it has stored  *)
(* outcomes for, and one that says it succeeded exactly those, all of them  *)
(* settled: whatever raised after the films were stored, whichever of them  *)
(* a later save wrote again, and for any order and number of films          *)
(* (FinishAsync and the progress rows of OscarEnrichmentService).           *)
THEOREM RunsReportWhatTheyStored == Spec => []OscarRunsReportWhatTheyStored
<1>1. Init => TypeInv /\ Tallied
  BY InitTyped, InitTallied
<1>2. TypeInv /\ Tallied /\ [Next]_vars => (TypeInv /\ Tallied)'
  BY StepTyped, StepTallied
<1>3. TypeInv /\ Tallied => OscarRunsReportWhatTheyStored
  <2> SUFFICES ASSUME TypeInv, Tallied, NEW w \in Workers
               PROVE  LET stored == {f \in Films : saved[w][f] # "none"} IN
                      /\ oscarRun[w].processed <= Cardinality(stored)
                      /\ oscarRun[w].status = "succeeded" =>
                            /\ oscarRun[w].processed = Cardinality(stored)
                            /\ \A f \in stored : saved[w][f] # "temporary_error"
    BY DEF OscarRunsReportWhatTheyStored
  <2>1. Tally(proc[w], saved[w], oscarRun[w])
    BY DEF Tallied
  <2> QED BY <2>1 DEF Tally, StoredIn, NoneSoft
<1> QED BY <1>1, <1>2, <1>3, PTL DEF Spec

-----------------------------------------------------------------------------
(* Who holds the lock *)

(* Between its lock and its exit. *)
Working(w) == proc[w].pc \notin {"idle", "acquire", "exit"}

(* While no connection is lost, whoever works holds the lock. *)
Exclusive == drops = 0 => \A w \in Workers : Working(w) => lock = w

LockInv == drops \in Nat /\ Exclusive

(* A process goes on, and no connection is lost. *)
Onwards(w) == drops' = drops /\ \E q : proc' = [proc EXCEPT ![w] = q]

(* The steps that neither take nor give back the lock are those of a        *)
(* process at work.                                                         *)
LEMMA WorkOnwards ==
    ASSUME NEW w \in Workers, ProcessStep(w), ~Acquire(w), ~Exit(w)
    PROVE  Working(w) /\ lock' = lock /\ Onwards(w)
<1> USE DEF Working, At, others, bounds, Continue, SaveChanges, Onwards
<1>1. CASE ReadSettings(w)
  BY <1>1 DEF ReadSettings
<1>2. CASE ReadCache(w) \/ Reserve(w) \/ Mark(w) \/ Store(w)
  BY <1>2 DEF ReadCache, Reserve, Mark, Store
<1>3. CASE Send(w)
  BY <1>3 DEF Send
<1>4. CASE StartRun(w) \/ ReadSources(w) \/ FetchFeed(w)
  BY <1>4 DEF StartRun, ReadSources, FetchFeed
<1>5. CASE TakeEntry(w) \/ EntryAnswered(w)
  BY <1>5 DEF TakeEntry, EntryAnswered, InRss
<1>6. CASE UpsertCatalogItem(w)
  BY <1>6 DEF UpsertCatalogItem
<1>7. CASE FlushLogs(w) \/ CompleteRun(w)
  BY <1>7 DEF FlushLogs, CompleteRun
<1>8. CASE OscarStart(w) \/ ReadCandidates(w) \/ TakeFilm(w)
  BY <1>8 DEF OscarStart, ReadCandidates, TakeFilm
<1>9. CASE SaveProgress(w)
  BY <1>9 DEF SaveProgress, InOscar
<1>10. CASE SaveOutcome(w) \/ Finish(w)
  BY <1>10 DEF SaveOutcome, Finish
<1> QED BY <1>1, <1>2, <1>3, <1>4, <1>5, <1>6, <1>7, <1>8, <1>9, <1>10
        DEF ProcessStep, LookupStep, IngestionStep, EnrichmentStep

(* Taking the lock, and giving it back. *)
LEMMA LockMoves ==
    ASSUME TypeInv, NEW w \in Workers, Acquire(w) \/ Exit(w)
    PROVE  /\ drops' = drops /\ ~Working(w)
           /\ \E q : /\ proc' = [proc EXCEPT ![w] = q]
                     /\ q.pc \in {"idle", "acquire", "exit"} \/ lock' = w
           /\ lock' # lock => lock = NoWorker \/ lock = w
<1>0. Typed(proc[w])
  BY TypeInvParts
<1>1. CASE Acquire(w)
  <2>1. PICK reply :
          /\ lock' = IF Landed(reply) /\ lock = NoWorker THEN w ELSE lock
          /\ Continue(w, reply, IF lock = NoWorker
                                THEN [proc[w] EXCEPT !.pc = "settings"] ELSE Fresh,
                      proc[w])
          /\ drops' = drops /\ proc[w].pc = "acquire"
    BY <1>1 DEF Acquire, others, At
  <2>2. CASE reply = "ok" /\ lock = NoWorker
    BY <2>1, <2>2 DEF Continue, Landed, Working
  <2>3. CASE reply = "ok" /\ lock # NoWorker
    BY <2>1, <2>3, FreshTyped DEF Continue, Working
  <2>4. CASE reply # "ok"
    <3>1. proc' = [proc EXCEPT ![w] = Thrown(proc[w], reply)]
      BY <2>1, <2>4 DEF Continue
    <3>2. Thrown(proc[w], reply) = Unasked([proc[w] EXCEPT !.pc = "exit"])
      BY <2>1 DEF Thrown
    <3>3. [proc[w] EXCEPT !.pc = "exit"] \in Memory
          /\ [proc[w] EXCEPT !.pc = "exit"].pc = "exit"
      BY <1>0 DEF Typed, Memory
    <3>4. Thrown(proc[w], reply).pc = "exit"
      BY <3>2, <3>3, UnaskedTyped
    <3> QED BY <2>1, <3>1, <3>4 DEF Working
  <2> QED BY <2>2, <2>3, <2>4
<1>2. CASE Exit(w)
  BY <1>2, FreshTyped DEF Exit, Released, At, Working, bounds, others
<1> QED BY <1>1, <1>2

(* Two that work at once are one.                                           *)
LEMMA SoleWorker ==
    ASSUME LockInv, drops = 0, NEW v \in Workers, NEW w \in Workers,
           Working(v), Working(w)
    PROVE  v = w
BY DEF LockInv, Exclusive

LEMMA InitLock == Init => LockInv
BY FreshTyped DEF Init, LockInv, Exclusive, Working

LEMMA StepLock ==
    ASSUME TypeInv, LockInv, [Next]_vars
    PROVE  LockInv'
<1>0. drops \in Nat /\ Exclusive /\ DOMAIN proc = Workers
  BY DEF LockInv, TypeInv
<1>1. CASE UNCHANGED vars
  BY <1>0, <1>1 DEF vars, LockInv, Exclusive, Working
<1>2. ASSUME NEW w \in Workers, ProcessStep(w), ~Acquire(w), ~Exit(w) PROVE LockInv'
  BY <1>0, <1>2, WorkOnwards DEF Onwards, LockInv, Exclusive, Working
<1>3. ASSUME NEW w \in Workers, Acquire(w) \/ Exit(w) PROVE LockInv'
  <2>1. PICK q : /\ proc' = [proc EXCEPT ![w] = q]
                 /\ q.pc \in {"idle", "acquire", "exit"} \/ lock' = w
    BY <1>3, LockMoves
  <2>2. drops' = drops /\ ~Working(w) /\ (lock' # lock => lock = NoWorker \/ lock = w)
    BY <1>3, LockMoves
  <2> SUFFICES ASSUME drops' = 0, NEW v \in Workers, Working(v)'
               PROVE  lock' = v
    BY <1>0, <2>2 DEF LockInv, Exclusive
  <2>3. CASE v = w
    BY <1>0, <2>1, <2>3 DEF Working
  <2>4. CASE v # w
    <3>1. Working(v) /\ lock = v
      BY <1>0, <2>1, <2>2, <2>4 DEF Working, Exclusive
    <3>2. v # NoWorker
      BY NextAssumption
    <3> QED BY <2>2, <2>4, <3>1, <3>2
  <2> QED BY <2>3, <2>4
<1>4. ASSUME NEW w \in Workers, StartManual(w) \/ Stop(w) \/ Kill(w) \/ DropConnection(w)
      PROVE  LockInv'
  <2>1. CASE StartManual(w)
    <3>1. proc' = [proc EXCEPT ![w].pc = "acquire"] /\ lock' = lock /\ drops' = drops
      BY <2>1 DEF StartManual
    <3>2. \A v \in Workers : Working(v)' => Working(v)
      <4>1. proc[w] \in Memory
        BY DEF TypeInv, TypeOK
      <4>2. [proc[w] EXCEPT !.pc = "acquire"].pc = "acquire"
        BY <4>1 DEF Memory
      <4> QED BY <1>0, <3>1, <4>2 DEF Working
    <3> QED BY <1>0, <3>1, <3>2 DEF LockInv, Exclusive
  <2>2. CASE Stop(w)
    <3>1. proc' = [proc EXCEPT ![w].stopping = TRUE] /\ lock' = lock /\ drops' = drops
      BY <2>2 DEF Stop
    <3>2. \A v \in Workers : Working(v)' => Working(v)
      <4>1. proc[w] \in Memory
        BY DEF TypeInv, TypeOK
      <4>2. [proc[w] EXCEPT !.stopping = TRUE].pc = proc[w].pc
        BY <4>1 DEF Memory
      <4> QED BY <1>0, <3>1, <4>2 DEF Working
    <3> QED BY <1>0, <3>1, <3>2 DEF LockInv, Exclusive
  <2>3. CASE Kill(w)
    BY <1>0, <2>3, FreshTyped DEF Kill, Released, LockInv, Exclusive, Working
  <2>4. CASE DropConnection(w)
    BY <1>0, <2>4 DEF DropConnection, LockInv, Exclusive
  <2> QED BY <1>4, <2>1, <2>2, <2>3, <2>4
<1>5. CASE Midnight \/ TimerTick
  <2>1. lock' = lock /\ drops' = drops
    BY <1>5 DEF Midnight, TimerTick, TimePasses, bounds, others
  <2>2. \A v \in Workers : Working(v)' => Working(v)
    <3>1. \A v \in Workers : proc[v] \in Memory
      BY DEF TypeInv, TypeOK
    <3>2. CASE Midnight
      <4>1. proc' = [w \in Workers |-> [proc[w] EXCEPT
                      !.today = @ /\ proc[w].pc \notin {"send", "mark"},
                      !.begun = @ /\ ~Attempting(w)]]
        BY <3>2 DEF Midnight
      <4>2. \A v \in Workers : proc'[v].pc = proc[v].pc
        BY <3>1, <4>1 DEF Memory
      <4> QED BY <4>2 DEF Working
    <3>3. CASE TimerTick
      <4>1. proc' = [proc EXCEPT ![Scheduled].pc = "acquire"] /\ Scheduled \in Workers
        BY <3>3, NextAssumption DEF TimerTick
      <4>2. [proc[Scheduled] EXCEPT !.pc = "acquire"].pc = "acquire"
        BY <3>1, <4>1 DEF Memory
      <4> QED BY <1>0, <4>1, <4>2 DEF Working
    <3> QED BY <1>5, <3>2, <3>3
  <2> QED BY <1>0, <2>1, <2>2 DEF LockInv, Exclusive
<1> QED BY <1>1, <1>2, <1>3, <1>4, <1>5 DEF Next

-----------------------------------------------------------------------------
(* Films stay settled *)

(* As long as no run has lost the lock. *)
Undisturbed == drops = 0 => \A w \in Workers : Held(proc[w], film)

LEMMA ProcessAlone ==
    ASSUME TypeInv, NEW w \in Workers, ProcessStep(w)
    PROVE  /\ \A v \in Workers \ {w} : proc'[v] = proc[v]
           /\ Working(w) \/ film' = film
<1>0. DOMAIN proc = Workers
  BY DEF TypeInv
<1>1. CASE Acquire(w) \/ Exit(w)
  <2>1. film' = film
    BY <1>1 DEF Acquire, Exit, rows
  <2> QED BY <1>0, <1>1, <2>1, LockMoves
<1>2. CASE ~Acquire(w) /\ ~Exit(w)
  BY <1>0, <1>2, WorkOnwards DEF Onwards
<1> QED BY <1>1, <1>2

(* Who does not work has no film in hand. *)
LEMMA IdleHeld ==
    ASSUME NEW p, p.pc \in {"idle", "acquire", "exit"}, NEW docs
    PROVE  Held(p, docs)
BY DEF Held, Looping, Lookup

LEMMA StepUndisturbed ==
    ASSUME TypeInv, TypeInv', LockInv, Tallied, Undisturbed, [Next]_vars
    PROVE  Undisturbed'
<1>0. drops \in Nat
  BY DEF LockInv
<1>1. CASE UNCHANGED vars
  BY <1>1 DEF vars, Undisturbed
<1>2. ASSUME NEW w \in Workers, ProcessStep(w) PROVE Undisturbed'
  <2> SUFFICES ASSUME drops' = 0, NEW v \in Workers PROVE Held(proc'[v], film')
    BY DEF Undisturbed
  <2>1. drops = 0
    BY <1>2, WorkOnwards, LockMoves DEF Onwards
  <2>2. CASE v = w
    BY <1>2, <2>1, <2>2, ProcessFine DEF Fine, Holds, Undisturbed
  <2>3. CASE v # w
    <3>1. proc'[v] = proc[v] /\ (Working(w) \/ film' = film)
      BY <1>2, <2>3, ProcessAlone
    <3>2. CASE film' = film
      BY <2>1, <3>1, <3>2 DEF Undisturbed
    <3>3. CASE Working(w)
      <4>1. ~Working(v)
        BY <2>1, <2>3, <3>3, SoleWorker
      <4> QED BY <3>1, <4>1, IdleHeld DEF Working
    <3> QED BY <3>1, <3>2, <3>3
  <2> QED BY <2>2, <2>3
<1>3. ASSUME NEW w \in Workers, StartManual(w) \/ Stop(w) \/ Kill(w)
      PROVE  Undisturbed'
  <2> SUFFICES ASSUME drops' = 0, NEW v \in Workers PROVE Held(proc'[v], film')
    BY DEF Undisturbed
  <2>1. drops = 0 /\ film' = film /\ \A x \in Workers \ {w} : proc'[x] = proc[x]
    BY <1>3 DEF StartManual, Stop, Kill, rows, TypeInv
  <2>2. CASE v = w
    BY <1>3, <2>1, <2>2, ProcessFine DEF Fine, Holds, Undisturbed
  <2>3. CASE v # w
    BY <2>1, <2>3 DEF Undisturbed
  <2> QED BY <2>2, <2>3
<1>4. ASSUME NEW w \in Workers, DropConnection(w) PROVE Undisturbed'
  BY <1>0, <1>4 DEF DropConnection, Undisturbed
<1>5. CASE Midnight \/ TimerTick
  <2>1. drops' = drops
    BY <1>5 DEF Midnight, TimerTick, TimePasses, bounds, others
  <2> QED BY <1>5, <2>1, ClockFine DEF Undisturbed, Holds
<1> QED BY <1>1, <1>2, <1>3, <1>4, <1>5 DEF Next

LEMMA InitUndisturbed == Init => Undisturbed
<1>1. Fresh.pc = "idle"
  BY DEF Fresh
<1> QED BY <1>1, IdleHeld DEF Init, Undisturbed

(* A film that no step of the process touches. *)
Spared(f) == Settled(film[f]) => film'[f].status = film[f].status

LEMMA StoreSpares ==
    ASSUME TypeInv, NEW w \in Workers, NEW u \in Units, NEW reply, StoreUnit(w, u, reply),
           NEW f \in Films,
           u.films[f] # NoFilm /\ Settled(film[f]) => u.films[f].status = film[f].status
    PROVE  Spared(f)
<1>1. CASE ~Landed(reply)
  BY <1>1 DEF StoreUnit, rows, Spared
<1>2. CASE Landed(reply)
  <2>1. \/ u.films[f] # NoFilm /\ film'[f] = u.films[f]
        \/ film'[f] = film[f]
    BY <1>2 DEF StoreUnit
  <2> QED BY <2>1 DEF Spared
<1> QED BY <1>1, <1>2

LEMMA OutcomeSpares ==
    ASSUME TypeInv, Tallied, NEW w \in Workers, Held(proc[w], film), SaveOutcome(w),
           NEW f \in Films
    PROVE  Spared(f)
<1> DEFINE p == proc[w]
           g == Head(p.films).film
<1>1. /\ Typed(p) /\ p.pc = "saveFilm" /\ p.task = "oscar" /\ p.unit \in Units
      /\ p.films # <<>> /\ FilmFree(p.unit) /\ Looping(p)
  BY TypeInvParts DEF SaveOutcome, At, Typed, Placed, OscarOnly, Tallied, Tally, Looping
<1>2. 1 \in Left(p) /\ p.films[1].film = g
  <2>1. p.films \in Seq([film : Films, attempts : 0..6])
    BY <1>1 DEF Typed, Memory
  <2> QED BY <1>1, <2>1 DEF Left
<1>3. ~Settled(film[g])
  BY <1>1, <1>2 DEF Held
<1>4. PICK doc \in CreateUpdate(p, Head(p.films).attempts + 1), base \in {p.unit, Clean} :
         \E reply : SaveChanges(w, [base EXCEPT !.films[g] = doc], reply, Attempted(p, doc))
  BY DEF SaveOutcome
<1> DEFINE u == [base EXCEPT !.films[g] = doc]
<1>5. PICK reply : StoreUnit(w, u, reply)
  BY <1>4 DEF SaveChanges
<1>6. base \in Units /\ FilmFree(base)
  BY <1>1, CleanTyped, CleanFree
<1>7. f # g => u.films[f] = NoFilm
  <2> HIDE DEF p, g
  <2> QED BY <1>6 DEF FilmFree, Units, Unit
<1>8. \/ film'[f] = film[f]
      \/ f = g
  <2> HIDE DEF u, g
  <2> QED BY <1>5, <1>7 DEF StoreUnit, rows
<1> QED BY <1>3, <1>8 DEF Spared

LEMMA RunSpares ==
    ASSUME TypeInv, TypeInv', Tallied, NEW w \in Workers, Held(proc[w], film),
           IngestionStep(w) \/ EnrichmentStep(w), NEW f \in Films
    PROVE  Spared(f)
<1> DEFINE p == proc[w]
<1>1. Typed(p) /\ p.unit \in Units /\ (p.pc \notin {"finish", "exit"} => FilmFree(p.unit))
  BY TypeInvParts DEF Typed, Placed, Tallied, Tally
<1>2. film' = film => Spared(f)
  BY DEF Spared
<1>3. CASE \/ StartRun(w) \/ ReadSources(w) \/ FetchFeed(w) \/ TakeEntry(w)
           \/ EntryAnswered(w) \/ UpsertCatalogItem(w)
  BY <1>2, <1>3, ReadingQuiet, TakeEntryQuiet, EntryAnsweredQuiet, UpsertQuiet
     DEF StartRun, Quiet
<1>4. CASE FlushLogs(w)
  BY <1>2, <1>4, FlushLogsQuiet DEF Quiet
<1>5. CASE ReadCandidates(w) \/ TakeFilm(w)
  BY <1>2, <1>5 DEF ReadCandidates, TakeFilm, rows
<1>6. CASE CompleteRun(w) \/ OscarStart(w) \/ SaveProgress(w)
  <2>1. p.pc \notin {"finish", "exit"}
    BY <1>6 DEF CompleteRun, OscarStart, SaveProgress, At, InOscar
  <2>2. PICK reply : StoreUnit(w, p.unit, reply)
    BY <1>6 DEF CompleteRun, OscarStart, SaveProgress, SaveChanges
  <2> QED BY <1>1, <1>2, <2>1, <2>2, StoreFree
<1>7. CASE SaveOutcome(w)
  BY <1>7, OutcomeSpares
<1>8. CASE Finish(w)
  <2>1. p.pc = "finish"
    BY <1>8 DEF Finish, At
  <2>2. PICK reply : StoreUnit(w, p.unit, reply)
    BY <1>8 DEF Finish, SaveChanges
  <2>3. p.unit.films[f] # NoFilm /\ Settled(film[f]) => p.unit.films[f].status = film[f].status
    BY <2>1 DEF Held
  <2> QED BY <1>1, <2>2, <2>3, StoreSpares
<1> QED BY <1>3, <1>4, <1>5, <1>6, <1>7, <1>8 DEF IngestionStep, EnrichmentStep

LEMMA StepSpares ==
    ASSUME TypeInv, TypeInv', Tallied, Undisturbed, [Next]_vars, drops = 0, NEW f \in Films
    PROVE  Spared(f)
<1>1. film' = film => Spared(f)
  BY DEF Spared
<1>2. CASE UNCHANGED vars
  BY <1>1, <1>2 DEF vars
<1>3. ASSUME NEW w \in Workers, ProcessStep(w) PROVE Spared(f)
  <2>1. Held(proc[w], film)
    BY DEF Undisturbed
  <2>2. CASE IngestionStep(w) \/ EnrichmentStep(w)
    BY <2>1, <2>2, RunSpares
  <2>3. CASE LookupStep(w)
    BY <1>1, <2>3, LookupQuiet DEF Quiet
  <2>4. CASE Acquire(w) \/ ReadSettings(w) \/ Exit(w)
    BY <1>1, <2>4 DEF Acquire, ReadSettings, Exit, rows
  <2> QED BY <1>3, <2>2, <2>3, <2>4 DEF ProcessStep
<1>4. ASSUME NEW w \in Workers, StartManual(w) \/ Stop(w) \/ Kill(w) \/ DropConnection(w)
      PROVE  Spared(f)
  BY <1>1, <1>4 DEF StartManual, Stop, Kill, DropConnection, rows
<1>5. CASE Midnight \/ TimerTick
  <2>1. PICK waits : film' = [g \in Films |-> [film[g] EXCEPT !.wait = waits[g]]]
    BY <1>5 DEF Midnight, TimerTick, TimePasses
  <2>2. film[f] \in FilmDoc
    BY DEF TypeInv, TypeOK
  <2> QED BY <2>1, <2>2 DEF Spared, FilmDoc
<1> QED BY <1>2, <1>3, <1>4, <1>5 DEF Next

(* Once a film has its metadata, or is known to have none, no step of any   *)
(* process changes that: neither the run that tried it, writing again what  *)
(* it still tracks, nor another that had read it as a candidate before, for *)
(* as long as no run loses the lock with its connection                     *)
(* (SaveOutcomeAsync writes what the candidate was when it was read).       *)
THEOREM SettledFilmsAlwaysStay == Spec => SettledFilmsStaySettled
<1> DEFINE Inv == TypeInv /\ Tallied /\ LockInv /\ Undisturbed
<1>1. Init => Inv
  BY InitTyped, InitTallied, InitLock, InitUndisturbed
<1>2. Inv /\ [Next]_vars => Inv'
  BY StepTyped, StepTallied, StepLock, StepUndisturbed
<1>3. Inv /\ [Next]_vars =>
         [\A f \in Films :
             film[f].status \in {"enriched", "not_found"} /\ drops = 0 =>
                film'[f].status = film[f].status]_vars
  BY StepTyped, StepSpares DEF Spared, Settled
<1> QED BY <1>1, <1>2, <1>3, PTL DEF Spec, SettledFilmsStaySettled

-----------------------------------------------------------------------------
(* The books of a run: its logs, its status, and what it accepted *)

(* The entries before the n-th of the i-th feed. *)
Before(i, n) ==
    {x \in Entries : \E j \in DOMAIN FeedOf : \E m \in DOMAIN FeedOf[j][2] :
                         x = FeedOf[j][2][m] /\ (j < i \/ (j = i /\ m < n))}

(* The entries that a run has behind it. *)
Passed(p) == CASE p.pc = "sources" -> {}
               [] p.pc = "fetch" -> Before(p.source, 1)
               [] p.pc \in {"final", "complete"} -> Fed
               [] OTHER -> Before(p.source, p.entry)

Starting == {"idle", "acquire", "settings", "startRun"}
Running(p) == p.task = "rss" /\ p.pc \notin Starting \cup {"exit"}
Unlogged(u) == \A i \in Items : u.logs[i] = 0
One(b) == IF b THEN 1 ELSE 0

(* Nothing has gone wrong with the run of p so far: each entry behind it    *)
(* has its log among the rows l or in hand, no other has one, and what the  *)
(* policy accepted, a, is in the catalog c or about to be.                  *)
Faultless(p, l, a, c) ==
    /\ p.pc \notin {"cancelFlush", "cancelComplete"}
    /\ Unlogged(p.unit) /\ p.exhausted = FALSE
    /\ p.pending \subseteq Passed(p)
    /\ p.written + Cardinality(p.pending) = Cardinality(Passed(p))
    /\ \A x \in Fed : l[x] + One(x \in p.pending) = One(x \in Passed(p))
    /\ p.pc = "complete" => p.pending = {}
    /\ a \subseteq c \cup (IF p.pc = "upsert" THEN {Entry(p)} ELSE {})
    /\ p.pc = "flush" => p.entry > Len(Feed(p))

Complete(l, a, c) == a \subseteq c /\ \A x \in Fed : l[x] = 1

(* A process p whose run has the logs l, the status r and accepted a.       *)
Books(p, l, r, a, c) ==
    /\ p.task = "oscar" \/ p.pc \in Starting => Unlogged(p.unit)
    /\ p.pc \in Starting => p.pending = {} /\ p.written = 0
                         /\ p.erred = FALSE /\ p.exhausted = FALSE
    /\ Running(p) =>
          /\ r # "succeeded"
          /\ p.erred = TRUE => (p.pc \in {"final", "complete"} => p.verdict # "succeeded")
          /\ p.erred = FALSE => Faultless(p, l, a, c)
    /\ r = "succeeded" => Complete(l, a, c)

Booked ==
    /\ DOMAIN accepted = Workers
    /\ \A w \in Workers : Books(proc[w], parseLogs[w], scanRun[w], accepted[w], catalog)

LEMMA EntryAt ==
    ASSUME NEW i \in DOMAIN FeedOf, NEW n \in DOMAIN FeedOf[i][2]
    PROVE  /\ FeedOf[i][2] \in Seq(Entries) /\ FeedOf[i][2][n] \in Entries
           /\ i \in Nat /\ n \in Nat
<1>1. FeedOf[i][2] \in Seq(Entries)
  BY FeedTyped
<1>2. i \in Nat
  BY NextAssumption
<1> QED BY <1>1, <1>2

LEMMA ImageFinite ==
    ASSUME NEW S, IsFiniteSet(S), NEW f, DOMAIN f = S, f = [x \in S |-> f[x]]
    PROVE  IsFiniteSet({f[x] : x \in S})
<1> DEFINE T == {f[x] : x \in S}
<1>1. f \in [S -> T]
  OBVIOUS
<1>2. f \in Surjection(S, T)
  BY <1>1 DEF Surjection
<1> QED BY <1>2, FS_Surjection

(* The places of the feeds' entries are finitely many. *)
LEMMA FedFinite == IsFiniteSet(Fed)
<1> DEFINE Of(i) == {FeedOf[i][2][m] : m \in DOMAIN FeedOf[i][2]}
           of == [i \in DOMAIN FeedOf |-> Of(i)]
           all == {of[i] : i \in DOMAIN FeedOf}
<1>1. ASSUME NEW i \in DOMAIN FeedOf PROVE IsFiniteSet(Of(i))
  <2> DEFINE s == FeedOf[i][2]
             places == DOMAIN s
             image == {s[m] : m \in places}
  <2>1. s \in Seq(Entries)
    BY FeedTyped
  <2>2. places = 1..Len(s) /\ Len(s) \in Nat /\ s \in [places -> Entries]
    BY <2>1
  <2>3. IsFiniteSet(places)
    BY <2>2, FS_Interval
  <2>4. image = Of(i)
    OBVIOUS
  <2> HIDE DEF s, places
  <2>5. IsFiniteSet(image)
    BY <2>2, <2>3, ImageFinite
  <2> QED BY <2>4, <2>5
<1>2. IsFiniteSet(all)
  <2> DEFINE feeds == DOMAIN FeedOf
             image == {of[i] : i \in feeds}
  <2>1. feeds = 1..Len(FeedOf) /\ Len(FeedOf) \in Nat
    BY NextAssumption
  <2>2. IsFiniteSet(feeds)
    BY <2>1, FS_Interval
  <2>3. of \in [feeds -> UNION {{Of(i)} : i \in feeds}]
    OBVIOUS
  <2> HIDE DEF of, feeds
  <2>4. IsFiniteSet(image)
    BY <2>2, <2>3, ImageFinite
  <2> QED BY <2>4 DEF feeds
<1>3. IsFiniteSet(UNION all)
  <2>1. \A S \in all : IsFiniteSet(S)
    BY <1>1
  <2> HIDE DEF all
  <2> QED BY <1>2, <2>1, FS_UNION
<1>4. Fed \subseteq UNION all
  BY DEF Fed
<1> QED BY <1>3, <1>4, FS_Subset

LEMMA BeforeFinite ==
    ASSUME NEW i, NEW n
    PROVE  Before(i, n) \subseteq Fed /\ IsFiniteSet(Before(i, n))
<1>1. Before(i, n) \subseteq Fed
  BY DEF Before, Fed
<1> QED BY <1>1, FedFinite, FS_Subset

(* One entry further. *)
LEMMA BeforeNext ==
    ASSUME Ample, NEW i \in DOMAIN FeedOf, NEW n \in DOMAIN FeedOf[i][2]
    PROVE  LET x == FeedOf[i][2][n] IN
           /\ x \in Fed /\ x \notin Before(i, n)
           /\ Before(i, n + 1) = Before(i, n) \cup {x}
<1> DEFINE x == FeedOf[i][2][n]
<1>1. x \in Entries /\ i \in Nat /\ n \in Nat
  BY EntryAt
<1>2. x \in Fed
  BY <1>1 DEF Fed
<1>3. x \notin Before(i, n)
  <2> SUFFICES ASSUME NEW j \in DOMAIN FeedOf, NEW m \in DOMAIN FeedOf[j][2],
                      x = FeedOf[j][2][m], j < i \/ (j = i /\ m < n)
               PROVE  FALSE
    BY DEF Before
  <2>1. i = j /\ n = m
    BY DEF Ample
  <2> QED BY <1>1, <2>1
<1>4. ASSUME NEW j \in DOMAIN FeedOf, NEW m \in DOMAIN FeedOf[j][2]
      PROVE  /\ j = i /\ m < n + 1 <=> (j = i /\ m < n) \/ (j = i /\ m = n)
  <2>1. m \in Nat
    BY EntryAt
  <2> QED BY <1>1, <2>1
<1>5. Before(i, n + 1) \subseteq Before(i, n) \cup {x}
  <2> SUFFICES ASSUME NEW y \in Before(i, n + 1) PROVE y \in Before(i, n) \cup {x}
    OBVIOUS
  <2>1. PICK j \in DOMAIN FeedOf : \E m \in DOMAIN FeedOf[j][2] :
           y = FeedOf[j][2][m] /\ (j < i \/ (j = i /\ m < n + 1))
    BY DEF Before
  <2>2. PICK m \in DOMAIN FeedOf[j][2] :
           y = FeedOf[j][2][m] /\ (j < i \/ (j = i /\ m < n + 1))
    BY <2>1
  <2>3. y \in Entries
    BY DEF Before
  <2>4. CASE j < i \/ (j = i /\ m < n)
    BY <2>2, <2>3, <2>4 DEF Before
  <2>5. CASE j = i /\ m = n
    BY <2>2, <2>5
  <2> QED BY <1>4, <2>2, <2>4, <2>5
<1>6. Before(i, n) \cup {x} \subseteq Before(i, n + 1)
  <2>1. x \in Before(i, n + 1)
    BY <1>1 DEF Before
  <2>2. ASSUME NEW y \in Before(i, n) PROVE y \in Before(i, n + 1)
    <3>1. PICK j \in DOMAIN FeedOf : \E m \in DOMAIN FeedOf[j][2] :
             y = FeedOf[j][2][m] /\ (j < i \/ (j = i /\ m < n))
      BY DEF Before
    <3>2. PICK m \in DOMAIN FeedOf[j][2] :
             y = FeedOf[j][2][m] /\ (j < i \/ (j = i /\ m < n))
      BY <3>1
    <3>3. y \in Entries
      BY DEF Before
    <3>4. j < i \/ (j = i /\ m < n + 1)
      BY <1>4, <3>2
    <3> QED BY <3>2, <3>3, <3>4 DEF Before
  <2> QED BY <2>1, <2>2
<1> HIDE DEF x
<1>7. Before(i, n + 1) = Before(i, n) \cup {x}
  BY <1>5, <1>6
<1> QED BY <1>2, <1>3, <1>7 DEF x

(* The first feed, one feed further, and after the last. *)
LEMMA BeforeFeeds ==
    /\ Before(1, 1) = {}
    /\ FeedOf = <<>> => Fed = {}
    /\ \A i \in DOMAIN FeedOf : \A n \in Nat : n > Len(FeedOf[i][2]) =>
          /\ Before(i, n) = Before(i + 1, 1)
          /\ i = Len(FeedOf) => Before(i, n) = Fed
<1>0. /\ DOMAIN FeedOf = 1..Len(FeedOf) /\ Len(FeedOf) \in Nat
  BY NextAssumption
<1>1. ASSUME NEW i \in DOMAIN FeedOf, NEW m \in DOMAIN FeedOf[i][2]
      PROVE  i \in 1..Len(FeedOf) /\ m \in 1..Len(FeedOf[i][2]) /\ Len(FeedOf[i][2]) \in Nat
  BY <1>0, EntryAt
<1>2. Before(1, 1) = {}
  <2>1. ASSUME NEW j \in DOMAIN FeedOf, NEW m \in DOMAIN FeedOf[j][2]
        PROVE  ~(j < 1 \/ (j = 1 /\ m < 1))
    BY <1>0, <1>1
  <2> QED BY <2>1 DEF Before
<1>3. FeedOf = <<>> => Fed = {}
  BY DEF Fed
<1>4. ASSUME NEW i \in DOMAIN FeedOf, NEW n \in Nat, n > Len(FeedOf[i][2])
      PROVE  Before(i, n) = Before(i + 1, 1) /\ (i = Len(FeedOf) => Before(i, n) = Fed)
  <2>1. ASSUME NEW j \in DOMAIN FeedOf, NEW m \in DOMAIN FeedOf[j][2]
        PROVE  /\ (j < i \/ (j = i /\ m < n)) <=> (j < i + 1 \/ (j = i + 1 /\ m < 1))
               /\ i = Len(FeedOf) => (j < i \/ (j = i /\ m < n))
    BY <1>0, <1>1, <1>4
  <2>2. Before(i, n) = Before(i + 1, 1)
    BY <2>1 DEF Before
  <2>3. i = Len(FeedOf) => Before(i, n) = Fed
    BY <2>1 DEF Before, Fed
  <2> QED BY <2>2, <2>3
<1> QED BY <1>2, <1>3, <1>4
-----------------------------------------------------------------------------
(* What the books say of one process *)

(* All that they read of it but for where it is and its verdict. *)
Alike(p, q) ==
    /\ q.task = p.task /\ q.unit = p.unit /\ q.source = p.source /\ q.entry = p.entry
    /\ q.pending = p.pending /\ q.written = p.written
    /\ q.erred = p.erred /\ q.exhausted = p.exhausted

(* With an entry in hand, or past the last. *)
Amid == Lookup \cup {"entry", "upsert", "flush"}

LEMMA AmidPassed ==
    ASSUME NEW p, p.pc \in Amid
    PROVE  Passed(p) = Before(p.source, p.entry)
BY DEF Amid, Lookup, Passed

LEMMA FaultlessAmid ==
    ASSUME NEW p, NEW q, Alike(p, q), p.pc \in Amid, q.pc \in Amid,
           NEW l, NEW a, NEW b, NEW c, Faultless(p, l, a, c),
           b \subseteq c \cup (IF q.pc = "upsert" THEN {Entry(q)} ELSE {}),
           q.pc = "flush" => q.entry > Len(Feed(q))
    PROVE  Faultless(q, l, b, c)
<1>1. Passed(q) = Passed(p)
  BY AmidPassed DEF Alike
<1>2. q.pc \notin {"cancelFlush", "cancelComplete", "complete"}
  BY DEF Amid, Lookup
<1> QED BY <1>1, <1>2 DEF Faultless, Alike

(* Books that need no more than this. *)
LEMMA EndedBooks ==
    ASSUME NEW q, q.task = "rss", q.pc = "exit", NEW l, NEW r, NEW a, NEW c,
           r = "succeeded" => Complete(l, a, c)
    PROVE  Books(q, l, r, a, c)
BY DEF Books, Starting, Running

LEMMA ErredBooks ==
    ASSUME NEW q, q.task = "rss", q.pc \notin Starting, q.erred = TRUE,
           q.pc \in {"final", "complete"} => q.verdict # "succeeded",
           NEW l, NEW r, r # "succeeded", NEW a, NEW c
    PROVE  Books(q, l, r, a, c)
BY DEF Books, Running

LEMMA FaultlessBooks ==
    ASSUME NEW q, q.task = "rss", q.pc \notin Starting, q.erred = FALSE,
           NEW l, NEW r, r # "succeeded", NEW a, NEW c, Faultless(q, l, a, c)
    PROVE  Books(q, l, r, a, c)
BY DEF Books, Running

LEMMA OscarBooks ==
    ASSUME NEW q, q.task = "oscar", q.pc \notin Starting, Unlogged(q.unit),
           NEW l, NEW r, NEW a, NEW c, r = "succeeded" => Complete(l, a, c)
    PROVE  Books(q, l, r, a, c)
BY DEF Books, Running

(* The catalog only grows. *)
LEMMA BooksGrow ==
    ASSUME NEW p, NEW l, NEW r, NEW a, NEW c, NEW d, Books(p, l, r, a, c), c \subseteq d
    PROVE  Books(p, l, r, a, d)
<1>1. Faultless(p, l, a, c) => Faultless(p, l, a, d)
  BY DEF Faultless
<1>2. Complete(l, a, c) => Complete(l, a, d)
  BY DEF Complete
<1> QED BY <1>1, <1>2 DEF Books

LEMMA BooksAlike ==
    ASSUME NEW p, NEW q, Alike(p, q), q.pc = p.pc, q.verdict = p.verdict,
           NEW l, NEW r, NEW a, NEW c, Books(p, l, r, a, c)
    PROVE  Books(q, l, r, a, c)
<1>1. Passed(q) = Passed(p) /\ Entry(q) = Entry(p) /\ Feed(q) = Feed(p)
  BY DEF Alike, Passed, Entry, Feed
<1>2. Faultless(p, l, a, c) => Faultless(q, l, a, c)
  BY <1>1 DEF Faultless, Alike
<1> QED BY <1>2 DEF Books, Running, Alike

-----------------------------------------------------------------------------
(* What becomes of them in a step *)

LEMMA UnaskedAlike ==
    ASSUME NEW p \in Memory
    PROVE  Alike(p, Unasked(p)) /\ Unasked(p).pc = p.pc /\ Unasked(p).verdict = p.verdict
BY ZenonT(60) DEF Unasked, Memory, Alike

LEMMA JudgedBooks ==
    ASSUME NEW p \in Memory
    PROVE  /\ Alike(p, Judged(p)) /\ Judged(p).pc = "final"
           /\ p.erred = TRUE => Judged(p).verdict # "succeeded"
<1>1. Alike(p, Judged(p)) /\ Judged(p).pc = "final"
  BY DEF Judged, Memory, Alike
<1>2. ASSUME p.erred = TRUE PROVE Judged(p).verdict \in {"partial", "failed"}
  BY <1>2 DEF Judged, Memory
<1> QED BY <1>1, <1>2

(* A log that is put aside, or not when there is no room. *)
LEMMA LoggedAlike ==
    ASSUME NEW p \in Memory, NEW item
    PROVE  LET q == Logged(p, item) IN
           /\ q.pc = p.pc /\ q.verdict = p.verdict /\ q.task = p.task /\ q.unit = p.unit
           /\ q.source = p.source /\ q.entry = p.entry /\ q.written = p.written
           /\ q.erred = p.erred /\ q.exhausted = p.exhausted
           /\ ~(p.written + Cardinality(p.pending) >= LogCap) =>
                 q.pending = p.pending \cup {item}
<1> DEFINE more == p.pending \cup {item}
           r == [p EXCEPT !.pending = more]
<1>1. \/ Logged(p, item) = p
      \/ Logged(p, item) = r
  BY DEF Logged
<1>2. /\ r.pc = p.pc /\ r.verdict = p.verdict /\ r.task = p.task /\ r.unit = p.unit
      /\ r.source = p.source /\ r.entry = p.entry /\ r.written = p.written
      /\ r.erred = p.erred /\ r.exhausted = p.exhausted /\ r.pending = more
  <2> HIDE DEF more
  <2> QED BY DEF Memory
<1>3. ~(p.written + Cardinality(p.pending) >= LogCap) => Logged(p, item) = r
  BY DEF Logged
<1> HIDE DEF r, more
<1> QED BY <1>1, <1>2, <1>3 DEF more
(* A run that meets an exception has not succeeded: it ends, or it knows. *)
LEMMA ThrownInRssErred ==
    ASSUME NEW p, Typed(p), Running(p), NEW reply
    PROVE  LET q == ThrownInRss(p, reply) IN
           \/ q.pc = "exit"
           \/ /\ q.erred = TRUE /\ q.pc \in {"cancelFlush", "flush", "final"}
              /\ q.pc = "final" => q.verdict # "succeeded"
<1> DEFINE q == ThrownInRss(p, reply)
<1>0. p \in Memory /\ p.pc \in Lookup \cup RssOnly /\ p.pc # "startRun"
  BY DEF Typed, Memory, Placed, Running, Starting
<1>1. CASE p.pc \in {"startRun", "final", "complete", "cancelFlush", "cancelComplete"}
  <2>1. q = [p EXCEPT !.pc = "exit"]
    BY <1>1 DEF ThrownInRss
  <2>2. [p EXCEPT !.pc = "exit"].pc = "exit"
    BY <1>0 DEF Memory
  <2> QED BY <2>1, <2>2
<1>2. CASE /\ p.pc \notin {"startRun", "final", "complete", "cancelFlush", "cancelComplete"}
           /\ reply = "cancelled"
  <2> DEFINE r == [p EXCEPT !.pc = "cancelFlush", !.erred = TRUE]
  <2>1. q = r
    BY <1>2 DEF ThrownInRss
  <2>2. r.pc = "cancelFlush" /\ r.erred = TRUE
    BY <1>0 DEF Memory
  <2> QED BY <2>1, <2>2
<1>3. CASE p.pc \in {"sources", "flush"} /\ reply # "cancelled"
  <2> DEFINE r == [p EXCEPT !.erred = TRUE]
  <2>1. q = Judged(r)
    BY <1>3 DEF ThrownInRss
  <2>2. r \in Memory /\ r.erred = TRUE
    BY <1>0 DEF Memory
  <2> HIDE DEF r, q
  <2>3. /\ Judged(r).pc = "final" /\ Judged(r).erred = TRUE
        /\ Judged(r).verdict # "succeeded"
    BY <2>2, JudgedBooks DEF Alike
  <2> QED BY <2>1, <2>3 DEF q
<1>4. CASE p.pc \in Lookup \cup {"fetch", "entry", "upsert"} /\ reply # "cancelled"
  <2> DEFINE r == [p EXCEPT !.pc = "flush", !.erred = TRUE]
             item == FeedOf[p.source][1]
  <2>1. q = Logged(r, item)
    BY <1>4 DEF ThrownInRss, Lookup
  <2>2. r \in Memory /\ r.erred = TRUE /\ r.pc = "flush"
    BY <1>0 DEF Memory, RssOnly
  <2> HIDE DEF r, item, q
  <2>3. Logged(r, item).pc = "flush" /\ Logged(r, item).erred = TRUE
    BY <2>2, LoggedAlike
  <2> QED BY <2>1, <2>3 DEF q
<1> QED BY <1>0, <1>1, <1>2, <1>3, <1>4 DEF RssOnly

LEMMA ThrownErred ==
    ASSUME NEW p, Typed(p), p.task = "rss", p.pc \notin {"idle", "exit"}, NEW reply
    PROVE  LET q == Thrown(p, reply) IN
           /\ q.task = "rss"
           /\ \/ q.pc = "exit"
              \/ /\ Running(p)
                 /\ q.erred = TRUE /\ q.pc \in {"cancelFlush", "flush", "final"}
                 /\ q.pc = "final" => q.verdict # "succeeded"
           /\ p.pc \in Starting \cup {"complete", "cancelComplete"} => q.pc = "exit"
<1> DEFINE in == ThrownInRss(p, reply)
           q == Thrown(p, reply)
<1>0. p \in Memory /\ q.task = "rss"
  BY ThrownTyped DEF Typed
<1>1. CASE p.pc \in Starting
  <2> DEFINE r == [p EXCEPT !.pc = "exit"]
  <2>1. r \in Memory /\ r.pc = "exit"
    BY <1>0 DEF Memory
  <2>2. q = Unasked(r)
    BY <1>1 DEF Thrown, ThrownInRss, Starting
  <2> HIDE DEF r, q
  <2> QED BY <1>0, <2>1, <2>2, UnaskedAlike DEF q
<1>2. CASE p.pc \notin Starting
  <2>1. q = Unasked(in)
    BY <1>2 DEF Thrown, Starting
  <2>2. Running(p)
    BY <1>2 DEF Running
  <2>3. /\ in \in Memory
        /\ \/ in.pc = "exit"
           \/ /\ in.erred = TRUE /\ in.pc \in {"cancelFlush", "flush", "final"}
              /\ in.pc = "final" => in.verdict # "succeeded"
    <3>1. Typed(ThrownInRss(p, reply))
      BY <1>2, ThrownInRssTyped DEF Starting
    <3> QED BY <2>2, <3>1, ThrownInRssErred DEF Typed
  <2>4. p.pc \in {"complete", "cancelComplete"} => in.pc = "exit"
    <3>1. p.pc \in {"complete", "cancelComplete"} => in = [p EXCEPT !.pc = "exit"]
      BY DEF ThrownInRss
    <3>2. [p EXCEPT !.pc = "exit"].pc = "exit"
      BY <1>0 DEF Memory
    <3> QED BY <3>1, <3>2
  <2> HIDE DEF in, q
  <2>5. Alike(in, q) /\ q.pc = in.pc /\ q.verdict = in.verdict
    BY <2>1, <2>3, UnaskedAlike
  <2> QED BY <1>0, <1>2, <2>2, <2>3, <2>4, <2>5 DEF Alike, q
<1> QED BY <1>1, <1>2

LEMMA ThrownBooks ==
    ASSUME NEW p, Typed(p), p.pc \notin {"idle", "exit"}, NEW reply,
           NEW l, NEW r, NEW a, NEW c,
           p.task = "oscar" => Unlogged(p.unit),
           Running(p) => r # "succeeded",
           r = "succeeded" => Complete(l, a, c)
    PROVE  Books(Thrown(p, reply), l, r, a, c)
<1> DEFINE q == Thrown(p, reply)
<1>0. p.task \in {"rss", "oscar"}
  BY DEF Typed, Memory
<1>1. CASE p.task = "rss"
  <2>1. /\ q.task = "rss"
        /\ \/ q.pc = "exit"
           \/ /\ Running(p)
              /\ q.erred = TRUE /\ q.pc \in {"cancelFlush", "flush", "final"}
              /\ q.pc = "final" => q.verdict # "succeeded"
    BY <1>1, ThrownErred
  <2> HIDE DEF q
  <2>2. Books(q, l, r, a, c)
    BY <2>1, EndedBooks, ErredBooks DEF Starting
  <2> QED BY <2>2 DEF q
<1>2. CASE p.task = "oscar"
  <2>1. q.task = "oscar" /\ q.unit = p.unit /\ q.pc \in Landing
    BY <1>2, ThrownTyped
  <2> HIDE DEF q
  <2>2. Books(q, l, r, a, c)
    BY <1>2, <2>1, OscarBooks DEF Landing, Starting
  <2> QED BY <2>2 DEF q
<1> QED BY <1>0, <1>1, <1>2
-----------------------------------------------------------------------------
(* Calls and the books *)

(* The processes but w, and their runs, are left alone. *)
Apart(w) ==
    /\ DOMAIN accepted' = Workers /\ catalog \subseteq catalog'
    /\ \A v \in Workers \ {w} :
          /\ proc'[v] = proc[v] /\ parseLogs'[v] = parseLogs[v]
          /\ scanRun'[v] = scanRun[v] /\ accepted'[v] = accepted[v]

BooksOf(w) == Books(proc[w], parseLogs[w], scanRun[w], accepted[w], catalog)

LEMMA OneBooks ==
    ASSUME Booked, NEW w \in Workers, Apart(w), BooksOf(w)'
    PROVE  Booked'
<1>1. ASSUME NEW v \in Workers, v # w
      PROVE  Books(proc'[v], parseLogs'[v], scanRun'[v], accepted'[v], catalog')
  BY <1>1, BooksGrow DEF Booked, Apart
<1> QED BY <1>1 DEF Booked, BooksOf, Apart

LEMMA StoreLogs ==
    ASSUME TypeInv, NEW w \in Workers, NEW u \in Units, NEW reply, StoreUnit(w, u, reply)
    PROVE  /\ \A v \in Workers \ {w} : parseLogs'[v] = parseLogs[v]
           /\ Landed(reply) => \A i \in Items : parseLogs'[w][i] = parseLogs[w][i] + u.logs[i]
           /\ Unlogged(u) => parseLogs' = parseLogs
<1>0. parseLogs \in [Workers -> [Items -> Nat]]
  BY DEF TypeInv, TypeOK
<1>1. CASE ~Landed(reply)
  BY <1>1 DEF StoreUnit, rows
<1>2. CASE Landed(reply)
  <2> DEFINE logs == [i \in Items |-> parseLogs[w][i] + u.logs[i]]
  <2>1. parseLogs' = [parseLogs EXCEPT ![w] = logs]
    BY <1>2 DEF StoreUnit
  <2>2. ASSUME Unlogged(u) PROVE logs = parseLogs[w]
    <3>1. ASSUME NEW i \in Items PROVE parseLogs[w][i] + u.logs[i] = parseLogs[w][i]
      BY <1>0, <2>2 DEF Unlogged
    <3>2. parseLogs[w] \in [Items -> Nat]
      BY <1>0
    <3> QED BY <3>1, <3>2
  <2>3. \A i \in Items : logs[i] = parseLogs[w][i] + u.logs[i]
    OBVIOUS
  <2> HIDE DEF logs
  <2> QED BY <1>0, <2>1, <2>2, <2>3
<1> QED BY <1>1, <1>2

LEMMA StoreGrows ==
    ASSUME NEW w \in Workers, NEW u, NEW reply, StoreUnit(w, u, reply)
    PROVE  catalog \subseteq catalog'
BY DEF StoreUnit, rows

LEMMA ContinueBooks ==
    ASSUME TypeInv, Booked, NEW w \in Workers, proc[w].pc \notin {"idle", "exit"},
           NEW u \in Units, proc[w].task = "oscar" => Unlogged(u), NEW reply, NEW ok,
           Continue(w, reply, ok, [proc[w] EXCEPT !.unit = u]),
           scanRun' = scanRun, accepted' = accepted, catalog \subseteq catalog',
           \A v \in Workers \ {w} : parseLogs'[v] = parseLogs[v],
           Running(proc[w]) \/ parseLogs' = parseLogs,
           reply = "ok" => Books(ok, parseLogs'[w], scanRun[w], accepted[w], catalog')
    PROVE  Booked'
<1> DEFINE p == [proc[w] EXCEPT !.unit = u]
           q == Thrown(p, reply)
<1>0. DOMAIN proc = Workers /\ Typed(proc[w]) /\ BooksOf(w)
  BY TypeInvParts DEF Booked, BooksOf
<1>1. /\ Typed(p) /\ p.pc = proc[w].pc /\ p.task = proc[w].task /\ p.unit = u
  BY <1>0, UnitTyped DEF Typed, Memory
<1>2. proc' = [proc EXCEPT ![w] = IF reply = "ok" THEN ok ELSE q]
  BY DEF Continue
<1> HIDE DEF p
<1>3. Apart(w)
  BY <1>0, <1>2 DEF Apart, Booked
<1>4. Books(q, parseLogs'[w], scanRun[w], accepted[w], catalog')
  <2>1. Running(p) <=> Running(proc[w])
    BY <1>1 DEF Running
  <2>2. Running(p) => scanRun[w] # "succeeded"
    BY <1>0, <2>1 DEF BooksOf, Books
  <2>3. scanRun[w] = "succeeded" => Complete(parseLogs'[w], accepted[w], catalog')
    BY <1>0, <2>1, <2>2 DEF BooksOf, Books, Complete
  <2> QED BY <1>1, <2>2, <2>3, ThrownBooks
<1> HIDE DEF q
<1>5. Books(proc'[w], parseLogs'[w], scanRun'[w], accepted'[w], catalog')
  BY <1>0, <1>2, <1>4
<1> QED BY <1>3, <1>5, OneBooks DEF BooksOf

(* A call that writes no row of a run. *)
LEMMA CallBooks ==
    ASSUME TypeInv, Booked, NEW w \in Workers, proc[w].pc \notin {"idle", "exit"},
           NEW reply, NEW ok, Continue(w, reply, ok, proc[w]),
           UNCHANGED <<parseLogs, scanRun, accepted, catalog>>,
           reply = "ok" => Books(ok, parseLogs[w], scanRun[w], accepted[w], catalog)
    PROVE  Booked'
<1>1. Typed(proc[w]) /\ BooksOf(w)
  BY TypeInvParts DEF Booked, BooksOf
<1>2. proc[w] = [proc[w] EXCEPT !.unit = proc[w].unit] /\ proc[w].unit \in Units
  BY <1>1, SameUnit DEF Typed, Placed
<1>3. proc[w].task = "oscar" => Unlogged(proc[w].unit)
  BY <1>1 DEF BooksOf, Books
<1> QED BY <1>2, <1>3, ContinueBooks

(* A SaveChanges that writes nothing else of a run. *)
LEMMA SaveBooks ==
    ASSUME TypeInv, Booked, NEW w \in Workers, proc[w].pc \notin {"idle", "exit"},
           NEW u \in Units, NEW reply, NEW ok, SaveChanges(w, u, reply, ok),
           UNCHANGED <<scanRun, accepted>>,
           Running(proc[w]) \/ Unlogged(u), proc[w].task = "oscar" => Unlogged(u),
           reply = "ok" => Books([ok EXCEPT !.unit = Clean], parseLogs'[w], scanRun[w],
                                 accepted[w], catalog)
    PROVE  Booked'
<1> DEFINE clean == [ok EXCEPT !.unit = Clean]
<1>1. StoreUnit(w, u, reply) /\ Continue(w, reply, clean, [proc[w] EXCEPT !.unit = u])
  BY DEF SaveChanges
<1>2. /\ \A v \in Workers \ {w} : parseLogs'[v] = parseLogs[v]
      /\ Unlogged(u) => parseLogs' = parseLogs
  BY <1>1, StoreLogs
<1>3. catalog \subseteq catalog'
  BY <1>1, StoreGrows
<1> HIDE DEF clean
<1>4. reply = "ok" => Books(clean, parseLogs'[w], scanRun[w], accepted[w], catalog')
  BY <1>3, BooksGrow DEF clean
<1> QED BY <1>1, <1>2, <1>3, <1>4, ContinueBooks

LEMMA CleanUnlogged == Unlogged(Clean)
BY DEF Unlogged, Clean

(* A unit without logs in place of another. *)
LEMMA UnitBooks ==
    ASSUME NEW p \in Memory, NEW u, Unlogged(u),
           NEW l, NEW r, NEW a, NEW c, Books(p, l, r, a, c)
    PROVE  Books([p EXCEPT !.unit = u], l, r, a, c)
<1> DEFINE q == [p EXCEPT !.unit = u]
<1>1. /\ q.task = p.task /\ q.unit = u /\ q.source = p.source /\ q.entry = p.entry
      /\ q.pending = p.pending /\ q.written = p.written /\ q.pc = p.pc
      /\ q.erred = p.erred /\ q.exhausted = p.exhausted /\ q.verdict = p.verdict
  BY DEF Memory
<1> HIDE DEF q
<1>2. Passed(q) = Passed(p) /\ Entry(q) = Entry(p) /\ Feed(q) = Feed(p)
  BY <1>1 DEF Passed, Entry, Feed
<1>3. Faultless(p, l, a, c) => Faultless(q, l, a, c)
  BY <1>1, <1>2 DEF Faultless
<1>4. Books(q, l, r, a, c)
  BY <1>1, <1>3 DEF Books, Running
<1> QED BY <1>4 DEF q

-----------------------------------------------------------------------------
(* The lookup and the books *)

LEMMA LookBooks ==
    ASSUME NEW p, Typed(p), p.pc \in Lookup, NEW q, q.pc \in Lookup, Alike(p, q),
           NEW l, NEW r, NEW a, NEW c, Books(p, l, r, a, c)
    PROVE  Books(q, l, r, a, c)
<1>0. /\ p.task \in {"rss", "oscar"} /\ p.erred \in BOOLEAN /\ q.task = p.task
      /\ q.erred = p.erred /\ q.unit = p.unit
      /\ p.pc \notin Starting \cup {"exit", "flush", "upsert", "final", "complete"}
      /\ q.pc \notin Starting \cup {"exit", "flush", "upsert", "final", "complete"}
  BY DEF Typed, Memory, Lookup, Starting, Alike
<1>1. CASE p.task = "oscar"
  BY <1>0, <1>1, OscarBooks DEF Books
<1>2. CASE p.task = "rss" /\ p.erred = TRUE
  BY <1>0, <1>2, ErredBooks DEF Books, Running
<1>3. CASE p.task = "rss" /\ p.erred = FALSE
  <2>1. r # "succeeded" /\ Faultless(p, l, a, c)
    BY <1>0, <1>3 DEF Books, Running
  <2>2. a \subseteq c
    BY <1>0, <2>1 DEF Faultless
  <2>3. Faultless(q, l, a, c)
    BY <1>0, <2>1, <2>2, FaultlessAmid DEF Amid
  <2> QED BY <1>0, <1>3, <2>1, <2>3, FaultlessBooks
<1> QED BY <1>0, <1>1, <1>2, <1>3
(* Rows of logs that are written again belong to a run that knows that it   *)
(* has failed.                                                              *)
LEMMA SameLogsBooks ==
    ASSUME TypeInv, Booked, NEW w \in Workers, proc[w].task = "oscar" \/ Running(proc[w]),
           NEW u \in Units, u.logs = proc[w].unit.logs, NEW reply, StoreUnit(w, u, reply)
    PROVE  /\ Books(proc[w], parseLogs'[w], scanRun[w], accepted[w], catalog)
           /\ proc[w].task = "oscar" => Unlogged(u)
<1>1. BooksOf(w) /\ Typed(proc[w])
  BY TypeInvParts DEF Booked, BooksOf
<1>2. Unlogged(u) <=> Unlogged(proc[w].unit)
  BY DEF Unlogged
<1>3. CASE Unlogged(u)
  <2>1. parseLogs' = parseLogs
    BY <1>3, StoreLogs
  <2> QED BY <1>1, <1>3, <2>1 DEF BooksOf
<1>4. CASE ~Unlogged(u)
  <2>1. Running(proc[w]) /\ proc[w].task = "rss" /\ proc[w].pc \notin Starting
    BY <1>1, <1>2, <1>4 DEF BooksOf, Books, Running
  <2>2. proc[w].erred # FALSE /\ scanRun[w] # "succeeded" /\ proc[w].erred \in BOOLEAN
    BY <1>1, <1>2, <1>4, <2>1 DEF BooksOf, Books, Faultless, Typed, Memory
  <2>3. proc[w].erred = TRUE
    BY <2>2
  <2>4. proc[w].pc \in {"final", "complete"} => proc[w].verdict # "succeeded"
    BY <1>1, <2>1, <2>3 DEF BooksOf, Books
  <2> QED BY <2>1, <2>2, <2>3, <2>4, ErredBooks
<1> QED BY <1>3, <1>4

LEMMA MovesAlike ==
    ASSUME NEW p \in Memory
    PROVE  /\ Alike(p, [p EXCEPT !.pc = "reserve"])
           /\ Alike(p, [p EXCEPT !.pc = "send", !.today = TRUE])
           /\ \A r : Alike(p, Answered(p, r)) /\ Answered(p, r).pc = "answered"
           /\ \A outcome : Alike(p, After(p, outcome)) /\ After(p, outcome).pc \in Lookup
<1>1. /\ Alike(p, [p EXCEPT !.pc = "reserve"])
      /\ Alike(p, [p EXCEPT !.pc = "send", !.today = TRUE])
  BY DEF Memory, Alike
<1>2. ASSUME NEW r PROVE Alike(p, Answered(p, r)) /\ Answered(p, r).pc = "answered"
  BY DEF Memory, Alike, Answered
<1>3. ASSUME NEW outcome PROVE Alike(p, After(p, outcome)) /\ After(p, outcome).pc \in Lookup
  <2> DEFINE a == [p EXCEPT !.pc = "mark"]
             b == [p EXCEPT !.pc = "reserve", !.dated = FALSE]
             c == [p EXCEPT !.pc = "store", !.result = outcome]
             d == Answered(p, "failure")
  <2>1. After(p, outcome) \in {a, b, c, d}
    BY DEF After
  <2>2. /\ Alike(p, a) /\ a.pc = "mark" /\ Alike(p, b) /\ b.pc = "reserve"
        /\ Alike(p, c) /\ c.pc = "store"
    BY DEF Memory, Alike
  <2>3. Alike(p, d) /\ d.pc = "answered"
    BY <1>2
  <2> HIDE DEF a, b, c, d
  <2> QED BY <2>1, <2>2, <2>3 DEF Lookup
<1> QED BY <1>1, <1>2, <1>3

LEMMA LookupBooks ==
    ASSUME TypeInv, TypeInv', Booked, NEW w \in Workers, LookupStep(w)
    PROVE  Booked'
<1> DEFINE p == proc[w]
           k == p.key
<1>1. /\ Typed(p) /\ p \in Memory /\ BooksOf(w) /\ p.pc \in Lookup /\ p.unit \in Units
      /\ p.key \in Keys /\ UNCHANGED <<scanRun, accepted>>
  BY TypeInvParts DEF Booked, BooksOf, LookupStep, ReadCache, Reserve, Send, Mark, Store,
     At, Lookup, runRows, rows, observed, requests, Typed, Placed
<1>2. /\ p.pc \notin {"idle", "exit"}
      /\ (p.task = "oscar" \/ Running(p))
      /\ p.task \in {"rss", "oscar"}
  BY <1>1 DEF Lookup, Running, Starting, Memory
<1>3. ASSUME NEW reply, NEW ok, Continue(w, reply, ok, p), Alike(p, ok), ok.pc \in Lookup,
             parseLogs' = parseLogs, catalog' = catalog
      PROVE  Booked'
  <2>1. Books(ok, parseLogs[w], scanRun[w], accepted[w], catalog)
    BY <1>1, <1>3, LookBooks DEF BooksOf
  <2> QED BY <1>1, <1>2, <1>3, <2>1, CallBooks
<1>4. ASSUME NEW u \in Units, u.logs = p.unit.logs, NEW reply, NEW ok \in Memory,
             SaveChanges(w, u, reply, ok), Alike(p, ok), ok.pc \in Lookup
      PROVE  Booked'
  <2>1. /\ Books(p, parseLogs'[w], scanRun[w], accepted[w], catalog)
        /\ p.task = "oscar" => Unlogged(u)
    BY <1>2, <1>4, SameLogsBooks DEF SaveChanges
  <2>2. Books(ok, parseLogs'[w], scanRun[w], accepted[w], catalog)
    BY <1>1, <1>4, <2>1, LookBooks
  <2>3. Books([ok EXCEPT !.unit = Clean], parseLogs'[w], scanRun[w], accepted[w], catalog)
    BY <2>2, UnitBooks, CleanUnlogged
  <2> QED BY <1>1, <1>2, <1>4, <2>1, <2>3, SaveBooks
<1>5. CASE ReadCache(w)
  <2> DEFINE u == [p.unit EXCEPT !.gone = @ \cup {k}]
             q == [p EXCEPT !.pc = "reserve"]
             ok == IF cache[k] = "none" THEN q ELSE Answered(p, cache[k])
  <2>1. Alike(p, q) /\ q.pc = "reserve" /\ q \in Memory
    BY <1>1, MovesAlike DEF Memory, Lookup
  <2>2. CASE cache[k] = "stale"
    <3>1. PICK reply : SaveChanges(w, u, reply, q)
      BY <1>5, <2>2 DEF ReadCache
    <3>2. u \in Units /\ u.logs = p.unit.logs
      BY <1>1 DEF Units, Unit
    <3> HIDE DEF u, q, p
    <3> QED BY <1>4, <2>1, <3>1, <3>2 DEF Lookup
  <2>3. CASE cache[k] # "stale"
    <3>1. PICK reply : Continue(w, reply, ok, p)
      BY <1>5, <2>3 DEF ReadCache
    <3>2. parseLogs' = parseLogs /\ catalog' = catalog
      BY <1>5, <2>3 DEF ReadCache, rows
    <3>3. Alike(p, ok) /\ ok.pc \in Lookup
      BY <1>1, <2>1, MovesAlike DEF Lookup
    <3> HIDE DEF ok, p
    <3> QED BY <1>3, <3>1, <3>2, <3>3
  <2> QED BY <2>2, <2>3
<1>6. CASE Reserve(w)
  <2> DEFINE q == [p EXCEPT !.pc = "send", !.today = TRUE]
             ok == IF MayReserve(p) THEN q ELSE Answered(p, "budget")
  <2>1. PICK reply : Continue(w, reply, ok, p)
    BY <1>6 DEF Reserve
  <2>2. parseLogs' = parseLogs /\ catalog' = catalog
    BY <1>6 DEF Reserve, rows
  <2>3. q.pc = "send"
    BY <1>1 DEF Memory
  <2>4. Alike(p, ok) /\ ok.pc \in Lookup
    BY <1>1, <2>3, MovesAlike DEF Lookup
  <2> HIDE DEF ok, p
  <2> QED BY <1>3, <2>1, <2>2, <2>4
<1>7. CASE Send(w)
  <2>1. p.pc = "send" /\ parseLogs' = parseLogs /\ catalog' = catalog
    BY <1>7 DEF Send, At, rows
  <2>2. PICK q : /\ proc' = [proc EXCEPT ![w] = q]
                 /\ q = Thrown(p, "cancelled") \/ (Alike(p, q) /\ q.pc \in Lookup)
    <3>1. CASE proc' = [proc EXCEPT ![w] = Thrown(p, "cancelled")]
      BY <3>1
    <3>2. CASE \E outcome : proc' = [proc EXCEPT ![w] = After(p, outcome)]
      BY <1>1, <3>2, MovesAlike
    <3> QED BY <1>7, <3>1, <3>2 DEF Send
  <2>3. Books(q, parseLogs[w], scanRun[w], accepted[w], catalog)
    <3>1. /\ p.task = "oscar" => Unlogged(p.unit)
          /\ Running(p) => scanRun[w] # "succeeded"
          /\ scanRun[w] = "succeeded" => Complete(parseLogs[w], accepted[w], catalog)
      BY <1>1 DEF BooksOf, Books
    <3>2. CASE q = Thrown(p, "cancelled")
      BY <1>1, <1>2, <3>1, <3>2, ThrownBooks
    <3>3. CASE Alike(p, q) /\ q.pc \in Lookup
      BY <1>1, <3>3, LookBooks DEF BooksOf
    <3> QED BY <2>2, <3>2, <3>3
  <2>4. DOMAIN proc = Workers
    BY TypeInvParts
  <2>5. Apart(w) /\ proc'[w] = q
    BY <1>1, <2>1, <2>2, <2>4 DEF Apart, Booked
  <2> QED BY <1>1, <2>1, <2>3, <2>5, OneBooks DEF BooksOf
<1>8. CASE Mark(w)
  <2>1. PICK reply : Continue(w, reply, Answered(p, "quota"), p)
    BY <1>8 DEF Mark
  <2>2. parseLogs' = parseLogs /\ catalog' = catalog
    BY <1>8 DEF Mark, rows
  <2>3. Alike(p, Answered(p, "quota")) /\ Answered(p, "quota").pc \in Lookup
    BY <1>1, MovesAlike DEF Lookup
  <2> QED BY <1>3, <2>1, <2>2, <2>3
<1>9. CASE Store(w)
  <2> DEFINE new == cache[k] = "none"
             twice == new /\ k \in p.unit.added
             v == [p.unit EXCEPT !.added = IF new THEN @ \cup {k} ELSE @,
                                 !.answer[k] = p.result]
             u == IF twice THEN p.unit ELSE v
  <2>1. PICK reply : SaveChanges(w, u, reply, Answered(p, p.result))
    BY <1>9 DEF Store
  <2>2. p.result \in Answers
    BY <1>1, <1>9 DEF Store, At, Typed, Placed
  <2>3. v \in Unit /\ v.films = p.unit.films /\ v.logs = p.unit.logs
    BY <1>1, <2>2 DEF Units, Unit
  <2>4. v \in Units
    <3> HIDE DEF v, p
    <3> QED BY <1>1, <2>3 DEF Units
  <2>5. u \in Units /\ u.logs = p.unit.logs
    <3> HIDE DEF v
    <3> QED BY <1>1, <2>3, <2>4
  <2>6. /\ Alike(p, Answered(p, p.result)) /\ Answered(p, p.result).pc \in Lookup
        /\ Answered(p, p.result) \in Memory
    BY <1>1, <2>2, MovesAlike, AnsweredTyped DEF Lookup, Results, Answers, Typed
  <2> HIDE DEF u, p
  <2> QED BY <1>4, <2>1, <2>5, <2>6
<1> QED BY <1>5, <1>6, <1>7, <1>8, <1>9 DEF LookupStep
-----------------------------------------------------------------------------
(* Oscar enrichment leaves the logs alone *)

(* q is in Oscar enrichment with what p tracks. *)
Onward(p, q) == q \in Memory /\ q.task = "oscar" /\ q.unit = p.unit /\ q.pc \notin Starting

LEMMA OnwardBooks ==
    ASSUME NEW p, NEW q, Onward(p, q), p.task = "oscar",
           NEW l, NEW r, NEW a, NEW c, Books(p, l, r, a, c)
    PROVE  Books(q, l, r, a, c)
<1>1. Unlogged(q.unit) /\ (r = "succeeded" => Complete(l, a, c))
  BY DEF Onward, Books
<1> QED BY <1>1, OscarBooks DEF Onward

LEMMA OscarCallBooks ==
    ASSUME TypeInv, Booked, NEW w \in Workers, proc[w].pc \notin {"idle", "exit"},
           proc[w].task = "oscar", NEW reply, NEW ok, Continue(w, reply, ok, proc[w]),
           UNCHANGED <<parseLogs, scanRun, accepted, catalog>>, Onward(proc[w], ok)
    PROVE  Booked'
<1>1. Books(ok, parseLogs[w], scanRun[w], accepted[w], catalog)
  BY OnwardBooks DEF Booked
<1> QED BY <1>1, CallBooks

LEMMA OscarSaveBooks ==
    ASSUME TypeInv, Booked, NEW w \in Workers, proc[w].pc \notin {"idle", "exit"},
           proc[w].task = "oscar", NEW u \in Units,
           u.logs = proc[w].unit.logs \/ Unlogged(u), NEW reply, NEW ok,
           SaveChanges(w, u, reply, ok), UNCHANGED <<scanRun, accepted>>,
           Onward(proc[w], ok)
    PROVE  Booked'
<1>1. Unlogged(u)
  BY DEF Booked, Books, Unlogged
<1>2. parseLogs' = parseLogs
  BY <1>1, StoreLogs DEF SaveChanges
<1>3. Books(ok, parseLogs[w], scanRun[w], accepted[w], catalog)
  BY OnwardBooks DEF Booked
<1>4. Books([ok EXCEPT !.unit = Clean], parseLogs'[w], scanRun[w], accepted[w], catalog)
  BY <1>2, <1>3, UnitBooks, CleanUnlogged DEF Onward
<1> QED BY <1>1, <1>4, SaveBooks

LEMMA ProgressOnward ==
    ASSUME NEW p, Typed(p), p.task = "oscar", p.pc \in {"eligible", "answered", "progress"}
    PROVE  Onward(p, AfterProgress(p))
<1> DEFINE next == [p EXCEPT !.pc = "nextFilm"]
           save == [p EXCEPT !.pc = "saveFilm"]
           u == Unasked(p)
           tail == [u EXCEPT !.pc = "nextFilm", !.films = Tail(@)]
           ended == Ended(p, "quota_stopped")
<1>1. p \in Memory /\ Typed(AfterProgress(p))
  BY AfterProgressTyped DEF Typed
<1>2. AfterProgress(p) \in {next, save, tail, ended}
  BY DEF AfterProgress
<1>3. /\ next.task = p.task /\ next.unit = p.unit /\ next.pc = "nextFilm"
      /\ save.task = p.task /\ save.unit = p.unit /\ save.pc = "saveFilm"
  BY <1>1 DEF Memory
<1>4. ended.task = p.task /\ ended.unit = p.unit /\ ended.pc = "finish"
  BY EndedTyped DEF Rest, OscarStatus
<1>5. tail.task = p.task /\ tail.unit = p.unit /\ tail.pc = "nextFilm"
  <2>1. u \in Memory /\ u.task = p.task /\ u.unit = p.unit
    BY <1>1, UnaskedTyped DEF Rest
  <2> HIDE DEF u
  <2> QED BY <2>1 DEF Memory
<1> HIDE DEF next, save, tail, ended, u
<1> QED BY <1>1, <1>2, <1>3, <1>4, <1>5 DEF Onward, Typed, Starting

LEMMA EnrichmentBooks ==
    ASSUME TypeInv, TypeInv', Booked, NEW w \in Workers, EnrichmentStep(w)
    PROVE  Booked'
<1> DEFINE p == proc[w]
<1>1. /\ Typed(p) /\ p \in Memory /\ p.task = "oscar" /\ p.pc \notin {"idle", "exit"}
      /\ p.unit \in Units /\ UNCHANGED <<scanRun, accepted>>
      /\ DOMAIN proc = Workers
  BY TypeInvParts DEF EnrichmentStep, OscarStart, ReadCandidates, TakeFilm, SaveProgress,
     SaveOutcome, Finish, At, InOscar, Typed, Placed, OscarOnly, runRows, rows, observed, requests
<1>2. ASSUME NEW q \in Memory, q.task = "oscar", q.unit = p.unit,
             q.pc \in OscarOnly \cup Lookup \cup {"exit"}
      PROVE  Onward(p, q)
  BY <1>2 DEF Onward, OscarOnly, Lookup, Starting
<1>3. CASE OscarStart(w)
  <2> DEFINE ok == [p EXCEPT !.pc = "candidates"]
  <2>1. PICK reply : SaveChanges(w, p.unit, reply, ok)
    BY <1>3 DEF OscarStart
  <2>2. ok \in Memory /\ ok.task = p.task /\ ok.unit = p.unit /\ ok.pc = "candidates"
    BY <1>1 DEF Memory, OscarOnly
  <2> HIDE DEF ok
  <2>3. Onward(p, ok)
    BY <1>1, <1>2, <2>2 DEF OscarOnly
  <2> QED BY <1>1, <2>1, <2>3, OscarSaveBooks
<1>4. CASE ReadCandidates(w)
  <2> DEFINE ok == [p EXCEPT !.pc = "eligible", !.films = Candidates]
  <2>1. PICK reply : Continue(w, reply, ok, p)
    BY <1>4 DEF ReadCandidates, Candidates, Taken
  <2>2. UNCHANGED <<parseLogs, catalog>>
    BY <1>4 DEF ReadCandidates, rows
  <2>3. ok \in Memory /\ ok.task = p.task /\ ok.unit = p.unit /\ ok.pc = "eligible"
    BY <1>1, CandidatesTyped DEF Memory, OscarOnly
  <2> HIDE DEF ok
  <2>4. Onward(p, ok)
    BY <1>1, <1>2, <2>3 DEF OscarOnly
  <2> QED BY <1>1, <2>1, <2>2, <2>4, OscarCallBooks
<1>5. CASE TakeFilm(w)
  <2> DEFINE k == KeyOf[Head(p.films).film]
  <2>1. p.pc = "nextFilm" /\ UNCHANGED <<parseLogs, catalog>>
    BY <1>5 DEF TakeFilm, At, rows
  <2>2. \/ \E verdict \in {"partial", "succeeded"} :
              proc' = [proc EXCEPT ![w] = Ended(p, verdict)]
        \/ proc' = [proc EXCEPT ![w] = Thrown(p, "cancelled")]
        \/ p.films # <<>> /\ proc' = [proc EXCEPT ![w] = Asking(p, k)]
    BY <1>5 DEF TakeFilm
  <2>3. PICK q : /\ proc' = [proc EXCEPT ![w] = q]
                 /\ q.task = "oscar" /\ q.unit = p.unit
    <3>1. ASSUME NEW verdict \in {"partial", "succeeded"}
          PROVE  Ended(p, verdict).task = "oscar" /\ Ended(p, verdict).unit = p.unit
      BY <1>1, EndedTyped DEF Rest, OscarStatus
    <3>2. Thrown(p, "cancelled").task = "oscar" /\ Thrown(p, "cancelled").unit = p.unit
      BY <1>1, ThrownTyped
    <3>3. p.films # <<>> => Asking(p, k).task = "oscar" /\ Asking(p, k).unit = p.unit
      <4>1. p.films # <<>> => k \in Keys
        BY <1>1, <2>1, FirstFilmTyped, NextAssumption
      <4> HIDE DEF k
      <4> QED BY <1>1, <4>1, AskingFields DEF Rest
    <3> HIDE DEF p, k
    <3> QED BY <2>2, <3>1, <3>2, <3>3
  <2>4. proc'[w] = q /\ Apart(w)
    BY <1>1, <2>1, <2>3 DEF Apart, Booked
  <2>5. Onward(p, q)
    BY <2>3, <2>4 DEF TypeInv, TypeOK, Placed, Onward, Starting, RssOnly
  <2>6. Books(q, parseLogs[w], scanRun[w], accepted[w], catalog)
    BY <1>1, <2>5, OnwardBooks DEF Booked
  <2> QED BY <1>1, <2>1, <2>4, <2>6, OneBooks DEF BooksOf
<1>6. CASE SaveProgress(w)
  <2> DEFINE ok == AfterProgress(p)
  <2>1. PICK reply : SaveChanges(w, p.unit, reply, ok)
    BY <1>6 DEF SaveProgress
  <2>2. Onward(p, ok)
    BY <1>1, <1>6, ProgressOnward DEF SaveProgress, At, InOscar
  <2> HIDE DEF ok
  <2> QED BY <1>1, <2>1, <2>2, OscarSaveBooks
<1>7. CASE SaveOutcome(w)
  <2> DEFINE candidate == Head(p.films)
             f == candidate.film
  <2>1. /\ p.pc = "saveFilm" /\ p.films # <<>>
        /\ p.result \in {"found", "not_found", "quota", "failure"}
    BY <1>1, <1>7 DEF SaveOutcome, At, Typed, Placed
  <2>2. PICK doc \in CreateUpdate(p, candidate.attempts + 1), base \in {p.unit, Clean} :
           \E reply : SaveChanges(w, [base EXCEPT !.films[f] = doc], reply,
                                  Attempted(p, doc))
    BY <1>7 DEF SaveOutcome
  <2>3. PICK reply : SaveChanges(w, [base EXCEPT !.films[f] = doc], reply,
                                 Attempted(p, doc))
    BY <2>2
  <2> DEFINE u == [base EXCEPT !.films[f] = doc]
             ok == Attempted(p, doc)
  <2>4. f \in Films /\ candidate.attempts + 1 \in 1..7
    BY <1>1, <2>1, FirstFilmTyped, SMTT(30)
  <2>5. doc \in FilmDoc /\ doc.status # "pending"
    BY <2>1, <2>4, OutcomeTyped
  <2>6. base \in Units /\ (base.logs = p.unit.logs \/ Unlogged(base))
    BY <1>1, CleanTyped, CleanUnlogged
  <2>7. u \in Units /\ u.logs = base.logs
    <3> HIDE DEF p, f
    <3>1. u \in Unit /\ u.logs = base.logs
      BY <2>4, <2>5, <2>6 DEF Units, Unit
    <3>2. \A g \in Films : u.films[g] = IF g = f THEN doc ELSE base.films[g]
      BY <2>4, <2>6 DEF Units, Unit
    <3> HIDE DEF u
    <3> QED BY <2>5, <2>6, <3>1, <3>2 DEF Units
  <2>8. Onward(p, ok)
    <3>1. p.processed + 1 \in Nat /\ (p.soft \/ doc.status = "temporary_error") \in BOOLEAN
      BY <1>1 DEF Memory
    <3> DEFINE n == p.processed + 1
               b == p.soft \/ doc.status = "temporary_error"
    <3>2. ok = [p EXCEPT !.pc = "progress", !.processed = n, !.soft = b]
      BY <1>1 DEF Attempted
    <3> HIDE DEF n, b, ok
    <3>3. /\ ok \in Memory /\ ok.task = p.task /\ ok.unit = p.unit /\ ok.pc = "progress"
      <4>1. ASSUME NEW m \in Nat, NEW c \in BOOLEAN
            PROVE  LET q == [p EXCEPT !.pc = "progress", !.processed = m, !.soft = c]
                   IN  /\ q \in Memory /\ q.pc = "progress" /\ q.task = p.task
                       /\ q.unit = p.unit
        <5> HIDE DEF p
        <5> QED BY <1>1 DEF Memory, OscarOnly
      <4>2. n \in Nat /\ b \in BOOLEAN
        BY <3>1 DEF n, b
      <4> QED BY <3>2, <4>1, <4>2
    <3> QED BY <1>1, <1>2, <3>3 DEF OscarOnly
  <2>9. SaveChanges(w, u, reply, ok) /\ (u.logs = p.unit.logs \/ Unlogged(u))
    BY <2>3, <2>6, <2>7 DEF Unlogged
  <2> HIDE DEF u, ok
  <2> QED BY <1>1, <2>7, <2>8, <2>9, OscarSaveBooks
<1>8. CASE Finish(w)
  <2> DEFINE ok == [p EXCEPT !.pc = "exit"]
  <2>1. PICK reply : SaveChanges(w, p.unit, reply, ok)
    BY <1>8 DEF Finish
  <2>2. ok \in Memory /\ ok.task = p.task /\ ok.unit = p.unit /\ ok.pc = "exit"
    BY <1>1 DEF Memory
  <2> HIDE DEF ok
  <2>3. Onward(p, ok)
    BY <1>1, <1>2, <2>2
  <2> QED BY <1>1, <2>1, <2>3, OscarSaveBooks
<1> QED BY <1>3, <1>4, <1>5, <1>6, <1>7, <1>8 DEF EnrichmentStep
-----------------------------------------------------------------------------
(* The ingestion keeps the books *)

(* The tally of a run without errors when it moves on and no entry is       *)
(* logged.                                                                  *)
LEMMA EqualBooks ==
    ASSUME NEW p, NEW q, Running(p), Running(q), p.erred \in BOOLEAN, q.erred = p.erred,
           q.pc \notin {"cancelFlush", "cancelComplete", "complete", "flush"} \cup
                       (IF p.erred = TRUE THEN {"final"} ELSE {}),
           q.unit = p.unit, q.exhausted = p.exhausted, q.pending = p.pending,
           q.written = p.written, Passed(q) = Passed(p),
           NEW l, NEW r, NEW a, NEW b, NEW c, Books(p, l, r, a, c),
           p.pc # "upsert" /\ (b = a \/ (q.pc = "upsert" /\ b = a \cup {Entry(q)}))
    PROVE  Books(q, l, r, b, c)
<1>1. r # "succeeded" /\ p.task = "rss" /\ q.task = "rss" /\ q.pc \notin Starting
  BY DEF Books, Running
<1>2. CASE p.erred = TRUE
  BY <1>1, <1>2, ErredBooks
<1>3. CASE p.erred = FALSE
  <2>1. Faultless(p, l, a, c)
    BY <1>3 DEF Books
  <2>2. b \subseteq c \cup (IF q.pc = "upsert" THEN {Entry(q)} ELSE {})
    BY <2>1 DEF Faultless
  <2>3. Faultless(q, l, b, c)
    BY <2>1, <2>2 DEF Faultless
  <2> QED BY <1>1, <1>3, <2>3, FaultlessBooks
<1> QED BY <1>2, <1>3

LEMMA StartRunBooks ==
    ASSUME TypeInv, Booked, NEW w \in Workers, StartRun(w)
    PROVE  Booked'
<1> DEFINE p == proc[w]
           ok == [p EXCEPT !.pc = "sources"]
<1>1. /\ Typed(p) /\ p \in Memory /\ p.pc = "startRun" /\ p.task = "rss" /\ BooksOf(w)
      /\ DOMAIN proc = Workers /\ DOMAIN accepted = Workers
  BY TypeInvParts DEF StartRun, At, Booked, BooksOf, Typed, Placed, RssOnly
<1>2. PICK reply :
         /\ Continue(w, reply, ok, p)
         /\ IF Landed(reply)
            THEN /\ scanRun' = [scanRun EXCEPT ![w] = "running"]
                 /\ parseLogs' = [parseLogs EXCEPT ![w] = NoLogs]
                 /\ accepted' = [accepted EXCEPT ![w] = {}]
            ELSE UNCHANGED <<scanRun, parseLogs, accepted>>
  BY DEF StartRun, runRows
<1> DEFINE thrown == Thrown(p, reply)
<1>3. catalog' = catalog
  BY DEF StartRun
<1>4. proc' = [proc EXCEPT ![w] = IF reply = "ok" THEN ok ELSE thrown]
  BY <1>2 DEF Continue
<1>5. /\ ok.pc = "sources" /\ ok.task = "rss" /\ ok.unit = p.unit /\ ok.written = 0
      /\ ok.pending = {} /\ ok.erred = FALSE /\ ok.exhausted = FALSE
      /\ Unlogged(p.unit)
  <2>1. /\ Unlogged(p.unit) /\ p.pending = {} /\ p.written = 0
        /\ p.erred = FALSE /\ p.exhausted = FALSE
    BY <1>1 DEF BooksOf, Books, Starting
  <2> HIDE DEF p
  <2> QED BY <1>1, <2>1 DEF Memory
<1>6. thrown.task = "rss" /\ thrown.pc = "exit"
  BY <1>1, ThrownErred DEF Starting
<1> HIDE DEF ok, thrown
<1>7. scanRun \in [Workers -> ScanStatus] /\ parseLogs \in [Workers -> [Items -> Nat]]
  BY DEF TypeInv, TypeOK
<1>8. Apart(w)
  <2> HIDE DEF p
  <2> QED BY <1>1, <1>2, <1>3, <1>4, <1>7 DEF Apart
<1>9. BooksOf(w)'
  <2>1. CASE Landed(reply)
    <3>1. scanRun'[w] = "running" /\ parseLogs'[w] = NoLogs /\ accepted'[w] = {}
      BY <1>1, <1>2, <1>7, <2>1
    <3>2. CASE reply = "ok"
      <4>1. Passed(ok) = {} /\ Cardinality({}) = 0
        BY <1>5, FS_EmptySet DEF Passed
      <4>2. \A x \in Fed : NoLogs[x] = 0
        BY DEF NoLogs, Fed, Items
      <4>3. Faultless(ok, NoLogs, {}, catalog)
        BY <1>5, <4>1, <4>2 DEF Faultless, One
      <4>4. Books(ok, NoLogs, "running", {}, catalog)
        BY <1>5, <4>3, FaultlessBooks DEF Starting
      <4> QED BY <1>1, <1>3, <1>4, <3>1, <3>2, <4>4 DEF BooksOf
    <3>3. CASE reply # "ok"
      <4>1. proc'[w] = thrown
        BY <1>1, <1>4, <3>3
      <4> QED BY <1>6, <3>1, <4>1, EndedBooks DEF BooksOf
    <3> QED BY <3>2, <3>3
  <2>2. CASE ~Landed(reply)
    <3>1. proc'[w] = thrown
      BY <1>1, <1>4, <2>2 DEF Landed
    <3>2. scanRun' = scanRun /\ parseLogs' = parseLogs /\ accepted' = accepted
      BY <1>2, <2>2
    <3>3. scanRun[w] = "succeeded" => Complete(parseLogs[w], accepted[w], catalog)
      BY <1>1 DEF BooksOf, Books
    <3> QED BY <1>3, <1>6, <3>1, <3>2, <3>3, EndedBooks DEF BooksOf
  <2> QED BY <2>1, <2>2
<1> QED BY <1>8, <1>9, OneBooks

LEMMA ReadingBooks ==
    ASSUME TypeInv, TypeInv', Booked, NEW w \in Workers, ReadSources(w) \/ FetchFeed(w)
    PROVE  Booked'
<1> DEFINE p == proc[w]
           begin == [p EXCEPT !.pc = "fetch", !.source = 1]
           fetch == [p EXCEPT !.pc = "entry", !.entry = 1, !.fed = TRUE]
<1>1. /\ Typed(p) /\ p \in Memory /\ p.pc \in {"sources", "fetch"} /\ p.task = "rss"
      /\ BooksOf(w) /\ Running(p) /\ p.erred \in BOOLEAN
      /\ UNCHANGED <<parseLogs, scanRun, accepted, catalog>>
  BY TypeInvParts DEF ReadSources, FetchFeed, At, Booked, BooksOf, Typed, Placed, RssOnly,
     Running, Starting, rows, runRows, observed, requests, Memory
<1>2. PICK ok : /\ \E reply : Continue(w, reply, ok, p)
                /\ \/ p.pc = "sources" /\ FeedOf = <<>> /\ ok = Judged(p)
                   \/ p.pc = "sources" /\ ok = begin
                   \/ p.pc = "fetch" /\ ok = fetch
  BY DEF ReadSources, FetchFeed, At
<1>3. PICK reply : Continue(w, reply, ok, p)
  BY <1>2
<1>4. CASE p.pc = "sources" /\ FeedOf = <<>> /\ ok = Judged(p)
  <2>1. /\ Alike(p, ok) /\ ok.pc = "final"
        /\ p.erred = TRUE => ok.verdict # "succeeded"
    BY <1>1, <1>4, JudgedBooks
  <2>2. Passed(ok) = Passed(p)
    BY <1>4, <2>1, BeforeFeeds DEF Passed
  <2>3. CASE p.erred = TRUE
    <3>1. Books(ok, parseLogs[w], scanRun[w], accepted[w], catalog)
      BY <1>1, <2>1, <2>3, ErredBooks DEF BooksOf, Books, Alike, Starting
    <3> QED BY <1>1, <1>3, <3>1, CallBooks
  <2>4. CASE p.erred = FALSE
    <3>1. Books(ok, parseLogs[w], scanRun[w], accepted[w], catalog)
      BY <1>1, <2>1, <2>2, <2>4, EqualBooks DEF BooksOf, Alike, Running, Starting
    <3> QED BY <1>1, <1>3, <3>1, CallBooks
  <2> QED BY <1>1, <2>3, <2>4
<1>5. CASE \/ p.pc = "sources" /\ ok = begin
           \/ p.pc = "fetch" /\ ok = fetch
  <2>1. /\ begin.pc = "fetch" /\ begin.source = 1 /\ begin.task = p.task
        /\ begin.unit = p.unit /\ begin.pending = p.pending /\ begin.written = p.written
        /\ begin.erred = p.erred /\ begin.exhausted = p.exhausted
    BY <1>1 DEF Memory
  <2>2. /\ fetch.pc = "entry" /\ fetch.entry = 1 /\ fetch.source = p.source
        /\ fetch.task = p.task /\ fetch.unit = p.unit /\ fetch.pending = p.pending
        /\ fetch.written = p.written /\ fetch.erred = p.erred
        /\ fetch.exhausted = p.exhausted
    BY <1>1 DEF Memory
  <2> HIDE DEF begin, fetch
  <2>3. Passed(ok) = Passed(p)
    BY <1>5, <2>1, <2>2, BeforeFeeds DEF Passed
  <2>4. /\ ok.pc \in {"fetch", "entry"} /\ ok.task = p.task /\ ok.unit = p.unit
        /\ ok.pending = p.pending /\ ok.written = p.written /\ ok.erred = p.erred
        /\ ok.exhausted = p.exhausted
    BY <1>5, <2>1, <2>2
  <2> HIDE DEF p
  <2>5. Books(ok, parseLogs[w], scanRun[w], accepted[w], catalog)
    <3>1. Running(ok)
      BY <1>1, <2>4 DEF Running, Starting
    <3>2. Books(p, parseLogs[w], scanRun[w], accepted[w], catalog)
      BY <1>1 DEF BooksOf, p
    <3> QED BY <1>1, <2>3, <2>4, <3>1, <3>2, EqualBooks
  <2> QED BY <1>1, <1>3, <2>5, CallBooks DEF p
<1> QED BY <1>2, <1>4, <1>5
LEMMA NextEntryFields ==
    ASSUME NEW p \in Memory
    PROVE  LET q == NextEntry(p) IN
           /\ q.pc = "entry" /\ q.entry = p.entry + 1 /\ q.source = p.source
           /\ q.task = p.task /\ q.unit = p.unit /\ q.pending = p.pending
           /\ q.written = p.written /\ q.erred = p.erred /\ q.exhausted = p.exhausted
<1> DEFINE u == Unasked(p)
           q == [u EXCEPT !.pc = "entry", !.entry = @ + 1]
<1>1. u \in Memory /\ Alike(p, u)
  BY UnaskedTyped, UnaskedAlike
<1>2. NextEntry(p) = q
  BY DEF NextEntry
<1> HIDE DEF u
<1>3. /\ q.pc = "entry" /\ q.entry = u.entry + 1 /\ q.source = u.source
      /\ q.task = u.task /\ q.unit = u.unit /\ q.pending = u.pending
      /\ q.written = u.written /\ q.erred = u.erred /\ q.exhausted = u.exhausted
  BY <1>1 DEF Memory
<1> HIDE DEF q
<1> QED BY <1>1, <1>2, <1>3 DEF Alike

LEMMA FailedFields ==
    ASSUME NEW p, Reading(p), Entry(p) \in Items
    PROVE  /\ EntryFailed(p).erred = TRUE /\ NextEntry(EntryFailed(p)).erred = TRUE
           /\ NextEntry(EntryFailed(p)).pc = "entry" /\ NextEntry(EntryFailed(p)).task = "rss"
           /\ Exhausted(p).erred = TRUE /\ Exhausted(p).pc = "flush"
           /\ Exhausted(p).task = "rss"
<1> DEFINE e == [p EXCEPT !.erred = TRUE]
           f == EntryFailed(p)
           u == Unasked(f)
<1>1. e \in Memory /\ e.erred = TRUE
  BY DEF Reading, Memory
<1>2. f = Logged(e, Entry(p)) /\ Reading(f)
  BY FailedReading DEF EntryFailed
<1> HIDE DEF e
<1>3. f.erred = TRUE /\ f.task = "rss" /\ f \in Memory
  BY <1>1, <1>2, LoggedAlike DEF Reading
<1> HIDE DEF f
<1>4. /\ NextEntry(f).erred = TRUE /\ NextEntry(f).pc = "entry"
      /\ NextEntry(f).task = "rss"
  BY <1>3, NextEntryFields
<1>5. u \in Memory /\ u.erred = TRUE /\ u.task = "rss"
  BY <1>3, UnaskedTyped, UnaskedAlike DEF Alike
<1>6. Exhausted(p) = [u EXCEPT !.pc = "flush", !.exhausted = TRUE]
  BY DEF Exhausted, f
<1> HIDE DEF u
<1>7. Exhausted(p).erred = TRUE /\ Exhausted(p).pc = "flush" /\ Exhausted(p).task = "rss"
  BY <1>5, <1>6 DEF Memory
<1> QED BY <1>3, <1>4, <1>7 DEF f

(* An entry is logged: there is room, and it had no log before.             *)
LEMMA LoggedBooks ==
    ASSUME Ample, NEW p, Reading(p), p.pc \in {"answered", "upsert"},
           p.entry \in DOMAIN Feed(p),
           NEW l \in [Items -> Nat], NEW r, NEW a, NEW c, Books(p, l, r, a, c),
           NEW d, p.erred = FALSE => a \subseteq d
    PROVE  Books(NextEntry(Logged(p, Entry(p))), l, r, a, d)
<1> DEFINE x == Entry(p)
           g == Logged(p, x)
           q == NextEntry(g)
           B == Before(p.source, p.entry)
           C == Before(p.source, p.entry + 1)
<1>1. /\ p \in Memory /\ p.erred \in BOOLEAN /\ p.written \in Nat
      /\ IsFiniteSet(p.pending) /\ Running(p) /\ p.source \in DOMAIN FeedOf
      /\ p.task = "rss" /\ p.pc \in Amid
  BY DEF Reading, Memory, Running, Starting, Amid, Lookup
<1>2. g \in Memory /\ Reading(g) /\ x \in Items
  BY <1>1, EntryTyped, ReadingLogged DEF Reading
<1>3. /\ g.task = p.task /\ g.unit = p.unit /\ g.source = p.source
      /\ g.entry = p.entry /\ g.written = p.written
      /\ g.erred = p.erred /\ g.exhausted = p.exhausted
      /\ ~(p.written + Cardinality(p.pending) >= LogCap) =>
            g.pending = p.pending \cup {x}
  BY <1>1, LoggedAlike
<1>4. /\ q.pc = "entry" /\ q.entry = p.entry + 1 /\ q.source = p.source
      /\ q.task = p.task /\ q.unit = p.unit /\ q.pending = g.pending
      /\ q.written = p.written /\ q.erred = p.erred /\ q.exhausted = p.exhausted
  <2> HIDE DEF g
  <2> QED BY <1>2, <1>3, NextEntryFields
<1> HIDE DEF q, g
<1>5. r # "succeeded" /\ q.pc \notin Starting
  BY <1>1, <1>4 DEF Books, Starting
<1>6. CASE p.erred = TRUE
  <2>1. Books(q, l, r, a, d)
    BY <1>1, <1>4, <1>5, <1>6, ErredBooks
  <2> QED BY <2>1 DEF q, g
<1>7. CASE p.erred = FALSE
  <2>1. /\ Faultless(p, l, a, c) /\ Passed(p) = B
    BY <1>1, <1>7, AmidPassed DEF Books
  <2>2. x \in Fed /\ x \notin B /\ C = B \cup {x}
    BY <1>1, BeforeNext DEF Entry, Feed
  <2>3. Passed(q) = C
    BY <1>4, AmidPassed DEF Amid
  <2> HIDE DEF x, B, C
  <2>4. IsFiniteSet(B) /\ IsFiniteSet(C) /\ C \subseteq Fed
    BY BeforeFinite DEF B, C
  <2>5. /\ Cardinality(C) = Cardinality(B) + 1 /\ Cardinality(C) <= Cardinality(Fed)
        /\ Cardinality(B) \in Nat /\ Cardinality(Fed) \in Nat
    BY <2>2, <2>4, FedFinite, FS_AddElement, FS_Subset, FS_CardinalityType
  <2>6. p.pending \subseteq B /\ p.written + Cardinality(p.pending) = Cardinality(B)
    BY <2>1 DEF Faultless
  <2>7. q.pending = p.pending \cup {x} /\ x \notin p.pending
    <3>1. LogCap \in Nat /\ Cardinality(Fed) <= LogCap
      BY NextAssumption DEF Ample
    <3>2. ~(Cardinality(B) >= LogCap)
      BY <2>5, <3>1
    <3> QED BY <1>3, <1>4, <2>2, <2>6, <3>2
  <2>8. q.written + Cardinality(q.pending) = Cardinality(C)
    <3>1. /\ Cardinality(q.pending) = Cardinality(p.pending) + 1
          /\ Cardinality(p.pending) \in Nat
      BY <1>1, <2>7, FS_AddElement, FS_CardinalityType
    <3> QED BY <1>1, <1>4, <2>5, <2>6, <3>1
  <2>9. ASSUME NEW y \in Fed PROVE l[y] + One(y \in q.pending) = One(y \in C)
    <3>1. l[y] + One(y \in p.pending) = One(y \in B) /\ l[y] \in Nat
      BY <2>1 DEF Faultless, Fed, Items
    <3>2. CASE y = x
      BY <2>2, <2>7, <3>1, <3>2 DEF One
    <3>3. CASE y # x
      BY <2>2, <2>7, <3>1, <3>3 DEF One
    <3> QED BY <3>2, <3>3
  <2>10. Faultless(q, l, a, d)
    <3>1. q.pending \subseteq C
      BY <2>2, <2>6, <2>7
    <3>2. Unlogged(q.unit) /\ q.exhausted = FALSE
      BY <1>4, <2>1 DEF Faultless
    <3> QED BY <1>4, <1>7, <2>3, <2>8, <2>9, <3>1, <3>2 DEF Faultless
  <2>11. Books(q, l, r, a, d)
    BY <1>1, <1>4, <1>5, <1>7, <2>10, FaultlessBooks
  <2> QED BY <2>11 DEF q, g, x
<1> QED BY <1>1, <1>6, <1>7

LEMMA TakeEntryBooks ==
    ASSUME TypeInv, TypeInv', Booked, NEW w \in Workers, TakeEntry(w)
    PROVE  Booked'
<1> DEFINE p == proc[w]
           out == [p EXCEPT !.pc = "flush"]
           ask == Asking(p, KeyOf[Entry(p)])
<1>1. /\ Typed(p) /\ p \in Memory /\ p.pc = "entry" /\ p.task = "rss" /\ Reading(p)
      /\ p.entry # 0 /\ BooksOf(w) /\ p.erred \in BOOLEAN /\ DOMAIN proc = Workers
      /\ UNCHANGED <<parseLogs, scanRun, accepted, catalog>>
  BY TypeInvParts, ReadingPlaces DEF TakeEntry, At, Booked, BooksOf, Typed, Placed, RssOnly,
     rows, runRows, observed, requests, Memory
<1>2. PICK q \in (IF p.entry > Len(Feed(p)) THEN {out}
                  ELSE {NextEntry(EntryFailed(p)), ask}) :
         proc' = [proc EXCEPT ![w] = q]
  BY DEF TakeEntry
<1>3. /\ Books(p, parseLogs[w], scanRun[w], accepted[w], catalog)
      /\ scanRun[w] # "succeeded"
  BY <1>1 DEF BooksOf, Books, Running, Starting
<1>4. ASSUME ~(p.entry > Len(Feed(p)))
      PROVE  Entry(p) \in Items /\ KeyOf[Entry(p)] \in Keys
  <2> HIDE DEF p
  <2>1. p.entry \in DOMAIN Feed(p)
    <3>1. Feed(p) \in Seq(Entries) /\ p.entry \in Nat
      BY <1>1, FeedTyped DEF Reading, Feed, Memory
    <3> QED BY <1>1, <1>4, <3>1
  <2> QED BY <1>1, <2>1, EntryTyped, NextAssumption
<1>5. ASSUME NEW l, NEW r, r # "succeeded", NEW a, NEW c, Books(p, l, r, a, c),
             NEW g, Alike(p, g), g.pc \in {"flush", "cache"},
             g.pc = "flush" => g.entry > Len(Feed(g))
      PROVE  Books(g, l, r, a, c)
  <2>1. CASE p.erred = TRUE
    BY <1>1, <1>5, <2>1, ErredBooks DEF Alike, Starting
  <2>2. CASE p.erred = FALSE
    <3>1. Faultless(p, l, a, c)
      BY <1>1, <1>5, <2>2 DEF Books, Running, Starting
    <3>2. a \subseteq c
      BY <1>1, <3>1 DEF Faultless
    <3>3. Faultless(g, l, a, c)
      BY <1>1, <1>5, <3>1, <3>2, FaultlessAmid DEF Amid, Lookup
    <3> QED BY <1>1, <1>5, <2>2, <3>3, FaultlessBooks DEF Alike, Starting
  <2> QED BY <1>1, <2>1, <2>2
<1>6. Books(q, parseLogs[w], scanRun[w], accepted[w], catalog)
  <2>1. CASE p.entry > Len(Feed(p))
    <3>1. Alike(p, out) /\ out.pc = "flush"
      BY <1>1 DEF Memory, Alike
    <3>2. out.entry > Len(Feed(out))
      BY <2>1, <3>1 DEF Alike, Feed
    <3>3. q = out
      BY <1>2, <2>1
    <3> HIDE DEF out, p
    <3> QED BY <1>3, <1>5, <3>1, <3>2, <3>3
  <2>2. CASE ~(p.entry > Len(Feed(p))) /\ q = ask
    <3>1. Alike(p, ask) /\ ask.pc = "cache"
      <4> DEFINE k == KeyOf[Entry(p)]
                 t == k \in Dated
      <4>1. ask = [p EXCEPT !.pc = "cache", !.key = k, !.dated = t, !.result = "none"]
        BY DEF Asking
      <4> HIDE DEF k, t, ask, p
      <4> QED BY <1>1, <4>1 DEF Memory, Alike
    <3> HIDE DEF ask, p
    <3> QED BY <1>3, <1>5, <2>2, <3>1
  <2>3. CASE ~(p.entry > Len(Feed(p))) /\ q = NextEntry(EntryFailed(p))
    <3>1. q.erred = TRUE /\ q.pc = "entry" /\ q.task = "rss"
      BY <1>1, <1>4, <2>3, FailedFields
    <3> QED BY <1>3, <3>1, ErredBooks DEF Starting
  <2> QED BY <1>2, <2>1, <2>2, <2>3
<1>7. proc'[w] = q /\ Apart(w)
  <2> HIDE DEF p
  <2> QED BY <1>1, <1>2 DEF Apart, Booked
<1> QED BY <1>1, <1>6, <1>7, OneBooks DEF BooksOf
(* What is known of a process whatever it does. *)
LEMMA AtHand ==
    ASSUME TypeInv, Booked, NEW w \in Workers
    PROVE  /\ Typed(proc[w]) /\ proc[w] \in Memory /\ proc[w].unit \in Units
           /\ proc[w].erred \in BOOLEAN /\ IsFiniteSet(proc[w].pending)
           /\ DOMAIN proc = Workers /\ DOMAIN accepted = Workers
           /\ parseLogs[w] \in [Items -> Nat]
           /\ Books(proc[w], parseLogs[w], scanRun[w], accepted[w], catalog)
<1>1. Typed(proc[w]) /\ DOMAIN proc = Workers
  BY TypeInvParts
<1>2. parseLogs[w] \in [Items -> Nat]
  BY DEF TypeInv, TypeOK
<1>3. proc[w].erred \in BOOLEAN
  BY <1>1 DEF Typed, Memory
<1> QED BY <1>1, <1>2, <1>3 DEF Typed, Placed, Booked

LEMMA EntryAnsweredBooks ==
    ASSUME Ample, TypeInv, TypeInv', Booked, NEW w \in Workers, EntryAnswered(w)
    PROVE  Booked'
<1> DEFINE p == proc[w]
           up == [p EXCEPT !.pc = "upsert"]
           x == Entry(p)
<1>0. /\ p \in Memory /\ Typed(p) /\ p.erred \in BOOLEAN /\ DOMAIN proc = Workers
      /\ DOMAIN accepted = Workers /\ parseLogs[w] \in [Items -> Nat]
      /\ Books(p, parseLogs[w], scanRun[w], accepted[w], catalog)
  BY AtHand
<1>6. /\ p.pc = "answered" /\ p.task = "rss"
      /\ UNCHANGED <<parseLogs, scanRun, catalog>>
  BY DEF EntryAnswered, InRss, At, rows, runRows
<1>7. Reading(p) /\ p.entry \in DOMAIN Feed(p)
  <2> HIDE DEF p
  <2> QED BY <1>0, <1>6, ReadingPlaces DEF Typed, Placed, Lookup
<1>8. Running(p)
  BY <1>6 DEF Running, Starting
<1>1. /\ Typed(p) /\ p \in Memory /\ p.pc = "answered" /\ p.task = "rss" /\ Reading(p)
      /\ p.entry \in DOMAIN Feed(p) /\ p.erred \in BOOLEAN /\ DOMAIN proc = Workers
      /\ DOMAIN accepted = Workers /\ Running(p)
      /\ Books(p, parseLogs[w], scanRun[w], accepted[w], catalog)
      /\ UNCHANGED <<parseLogs, scanRun, catalog>> /\ parseLogs[w] \in [Items -> Nat]
  BY <1>0, <1>6, <1>7, <1>8
<1>2. scanRun[w] # "succeeded" /\ x \in Items
      /\ (p.erred = FALSE => accepted[w] \subseteq catalog)
  BY <1>1, EntryTyped DEF Books, Faultless
<1>3. \/ /\ accepted' = accepted
         /\ \/ proc' = [proc EXCEPT ![w] = Exhausted(p)]
            \/ proc' = [proc EXCEPT ![w] = NextEntry(EntryFailed(p))]
            \/ proc' = [proc EXCEPT ![w] = NextEntry(Logged(p, x))]
      \/ /\ proc' = [proc EXCEPT ![w] = up]
         /\ accepted' = [accepted EXCEPT ![w] = @ \cup {x}]
  BY DEF EntryAnswered
<1>4. Apart(w)
  <2> HIDE DEF p, up, x
  <2> QED BY <1>1, <1>3 DEF Apart
<1>5. BooksOf(w)'
  <2>1. ASSUME accepted' = accepted, NEW q, proc' = [proc EXCEPT ![w] = q],
               q \in {Exhausted(p), NextEntry(EntryFailed(p))}
        PROVE  BooksOf(w)'
    <3>1. q.erred = TRUE /\ q.pc \in {"entry", "flush"} /\ q.task = "rss"
      BY <1>1, <1>2, <2>1, FailedFields
    <3>2. proc'[w] = q
      BY <1>1, <2>1
    <3> HIDE DEF p
    <3> QED BY <1>1, <1>2, <2>1, <3>1, <3>2, ErredBooks DEF BooksOf, Starting
  <2>2. ASSUME accepted' = accepted, proc' = [proc EXCEPT ![w] = NextEntry(Logged(p, x))]
        PROVE  BooksOf(w)'
    <3>1. Books(NextEntry(Logged(p, x)), parseLogs[w], scanRun[w], accepted[w], catalog)
      BY <1>1, <1>2, LoggedBooks
    <3>2. proc'[w] = NextEntry(Logged(p, x))
      BY <1>1, <2>2
    <3> QED BY <1>1, <2>2, <3>1, <3>2 DEF BooksOf
  <2>3. ASSUME proc' = [proc EXCEPT ![w] = up],
               accepted' = [accepted EXCEPT ![w] = @ \cup {x}]
        PROVE  BooksOf(w)'
    <3>1. Alike(p, up) /\ up.pc = "upsert"
      BY <1>1 DEF Memory, Alike
    <3>2. proc'[w] = up /\ accepted'[w] = accepted[w] \cup {x}
      BY <1>1, <2>3
    <3> HIDE DEF up
    <3>3. Entry(up) = x /\ Passed(up) = Passed(p)
      BY <1>1, <3>1, AmidPassed DEF Entry, Feed, Alike, Amid, Lookup
    <3> HIDE DEF p, x
    <3>4. Running(up)
      BY <1>1, <3>1 DEF Running, Alike, Starting
    <3>5. Books(up, parseLogs[w], scanRun[w], accepted[w] \cup {x}, catalog)
      BY <1>1, <3>1, <3>3, <3>4, EqualBooks DEF Alike
    <3> QED BY <1>1, <3>2, <3>5 DEF BooksOf
  <2> QED BY <1>3, <2>1, <2>2, <2>3
<1> QED BY <1>4, <1>5, OneBooks

LEMMA UpsertBooks ==
    ASSUME Ample, TypeInv, TypeInv', Booked, NEW w \in Workers, UpsertCatalogItem(w)
    PROVE  Booked'
<1> DEFINE p == proc[w]
           x == Entry(p)
<1>8. /\ p \in Memory /\ Typed(p) /\ p.erred \in BOOLEAN /\ p.unit \in Units
      /\ Books(p, parseLogs[w], scanRun[w], accepted[w], catalog)
  BY AtHand
<1>9. p.pc = "upsert" /\ UNCHANGED <<scanRun, accepted>>
  BY DEF UpsertCatalogItem, At, runRows, observed, requests
<1>10. p.task = "rss" /\ Reading(p) /\ p.entry \in DOMAIN Feed(p) /\ Running(p)
  <2> HIDE DEF p
  <2> QED BY <1>8, <1>9, ReadingPlaces DEF Typed, Placed, RssOnly, Running, Starting
<1>11. parseLogs'[w] \in [Items -> Nat]
  BY DEF TypeInv, TypeOK
<1>1. /\ Typed(p) /\ p \in Memory /\ p.pc = "upsert" /\ p.task = "rss" /\ Reading(p)
      /\ p.entry \in DOMAIN Feed(p) /\ p.erred \in BOOLEAN /\ Running(p)
      /\ Books(p, parseLogs[w], scanRun[w], accepted[w], catalog) /\ p.unit \in Units
      /\ UNCHANGED <<scanRun, accepted>> /\ parseLogs'[w] \in [Items -> Nat]
  BY <1>8, <1>9, <1>10, <1>11
<1>2. PICK base, reply, left : UpsertBy(w, base, reply, left)
  BY UpsertSome
<1> DEFINE u == [base EXCEPT !.entries = @ \cup ({x} \ catalog)]
           after == [p EXCEPT !.unit = left]
<1>3. /\ StoreUnit(w, u, reply) /\ Continue(w, reply, NextEntry(Logged(after, x)), after)
      /\ Landed(reply) => left = Clean
  BY <1>2 DEF UpsertBy
<1>4. /\ u \in Units /\ left \in Units /\ (u.logs = p.unit.logs \/ Unlogged(u))
      /\ x \in u.entries \cup catalog
  <2>1. base \in Units /\ (base.logs = p.unit.logs \/ Unlogged(base))
    BY <1>1, <1>2, CleanTyped, CleanUnlogged DEF UpsertBy
  <2>2. u \in Units /\ u.logs = base.logs
    BY <1>1, <2>1, EntryTyped, EntriesTyped
  <2>3. left \in {Clean, base, u}
    BY <1>2 DEF UpsertBy
  <2>4. x \in u.entries \cup catalog
    BY <2>1 DEF Units, Unit
  <2> HIDE DEF u, x
  <2> QED BY <2>1, <2>2, <2>3, <2>4, CleanTyped DEF Unlogged
<1> HIDE DEF u
<1>5. catalog \subseteq catalog' /\ \A z \in Workers \ {w} : parseLogs'[z] = parseLogs[z]
  BY <1>3, <1>4, StoreGrows, StoreLogs
<1>6. Books(p, parseLogs'[w], scanRun[w], accepted[w], catalog)
  <2>1. CASE u.logs = p.unit.logs
    BY <1>1, <1>3, <1>4, <2>1, SameLogsBooks
  <2>2. CASE Unlogged(u)
    <3>1. parseLogs' = parseLogs
      BY <1>3, <1>4, <2>2, StoreLogs
    <3> QED BY <1>1, <3>1
  <2> QED BY <1>4, <2>1, <2>2
<1>7. ASSUME reply = "ok"
      PROVE  Books(NextEntry(Logged(after, x)), parseLogs'[w], scanRun[w], accepted[w],
                   catalog')
  <2>1. left = Clean /\ catalog' = catalog \cup u.entries
    BY <1>3, <1>7 DEF Landed, StoreUnit
  <2>2. Books(after, parseLogs'[w], scanRun[w], accepted[w], catalog)
    <3> HIDE DEF p
    <3> QED BY <1>1, <1>6, <2>1, UnitBooks, CleanUnlogged
  <2>3. /\ Typed(after) /\ after.pc = "upsert" /\ after.task = "rss"
        /\ after.source = p.source /\ after.entry = p.entry /\ after.erred = p.erred
    BY <1>1, <1>4, UnitTyped DEF Memory
  <2> HIDE DEF after
  <2>4. Reading(after) /\ Entry(after) = x /\ after.entry \in DOMAIN Feed(after)
    BY <1>1, <2>3, ReadingPlaces DEF Entry, Feed
  <2>5. Books(after, parseLogs'[w], scanRun[w], accepted[w], catalog')
    BY <1>5, <2>2, BooksGrow
  <2>6. after.erred = FALSE => accepted[w] \subseteq catalog'
    <3>1. p.erred = FALSE => accepted[w] \subseteq catalog \cup {x}
      BY <1>1 DEF Books, Faultless
    <3> HIDE DEF x
    <3> QED BY <1>4, <2>1, <2>3, <3>1
  <2>7. Books(NextEntry(Logged(after, Entry(after))), parseLogs'[w], scanRun[w],
              accepted[w], catalog')
    BY <1>1, <2>3, <2>4, <2>5, <2>6, LoggedBooks
  <2> QED BY <2>4, <2>7
<1>12. Continue(w, reply, NextEntry(Logged(after, x)), [proc[w] EXCEPT !.unit = left])
  BY <1>3
<1> HIDE DEF after, x
<1> QED BY <1>1, <1>4, <1>5, <1>7, <1>12, ContinueBooks

-----------------------------------------------------------------------------
(* The flushes and the end of the run *)

LEMMA FlushedBooks ==
    ASSUME NEW p, Typed(p), p.pc \in {"flush", "final", "cancelFlush"}, p.pending = {},
           NEW l, NEW r, NEW a, NEW c, Books(p, l, r, a, c)
    PROVE  Books(AfterFlush(p), l, r, a, c)
<1>1. /\ p \in Memory /\ p.task = "rss" /\ p.erred \in BOOLEAN /\ Running(p)
      /\ r # "succeeded"
  BY DEF Typed, Placed, Memory, RssOnly, Running, Starting, Books
<1>2. /\ Alike(p, Judged(p)) /\ Judged(p).pc = "final"
      /\ p.erred = TRUE => Judged(p).verdict # "succeeded"
  BY <1>1, JudgedBooks
<1>3. CASE p.pc = "flush"
  <2> DEFINE q == [p EXCEPT !.pc = "fetch", !.source = @ + 1]
  <2>1. AfterFlush(p) = IF p.exhausted \/ p.source = Len(FeedOf) THEN Judged(p) ELSE q
    BY <1>3 DEF AfterFlush, AfterFeed
  <2>2. /\ q.pc = "fetch" /\ q.source = p.source + 1 /\ q.task = "rss"
        /\ q.unit = p.unit /\ q.pending = p.pending /\ q.written = p.written
        /\ q.erred = p.erred /\ q.exhausted = p.exhausted
    BY <1>1 DEF Memory
  <2> HIDE DEF q
  <2>3. CASE p.erred = TRUE
    <3>1. Books(q, l, r, a, c)
      BY <1>1, <2>2, <2>3, ErredBooks DEF Starting
    <3>2. Books(Judged(p), l, r, a, c)
      BY <1>1, <1>2, <2>3, ErredBooks DEF Alike, Starting
    <3> QED BY <2>1, <3>1, <3>2
  <2>4. CASE p.erred = FALSE
    <3>1. Faultless(p, l, a, c)
      BY <1>1, <2>4 DEF Books
    <3>2. /\ p.exhausted = FALSE /\ p.entry > Len(Feed(p)) /\ p.entry \in Nat
          /\ p.source \in DOMAIN FeedOf /\ Passed(p) = Before(p.source, p.entry)
      BY <1>1, <1>3, <3>1, AmidPassed DEF Faultless, Memory, Typed, Placed, Amid
    <3>3. CASE p.source = Len(FeedOf)
      <4>1. Passed(Judged(p)) = Passed(p)
        BY <1>2, <3>2, <3>3, BeforeFeeds DEF Passed, Feed
      <4>2. Books(Judged(p), l, r, a, c)
        BY <1>1, <1>2, <1>3, <2>4, <4>1, EqualBooks DEF Alike, Running, Starting
      <4> QED BY <2>1, <3>3, <4>2
    <3>4. CASE p.source # Len(FeedOf)
      <4>1. Passed(q) = Passed(p)
        BY <2>2, <3>2, BeforeFeeds DEF Passed, Feed
      <4>2. Books(q, l, r, a, c)
        BY <1>1, <1>3, <2>2, <2>4, <4>1, EqualBooks DEF Running, Starting
      <4>3. AfterFlush(p) = q
        BY <2>1, <3>2, <3>4
      <4> QED BY <4>2, <4>3
    <3> QED BY <3>3, <3>4
  <2> QED BY <1>1, <2>3, <2>4
<1>4. CASE p.pc = "final"
  <2> DEFINE q == [p EXCEPT !.pc = "complete"]
  <2>1. AfterFlush(p) = q
    BY <1>4 DEF AfterFlush
  <2>2. Alike(p, q) /\ q.pc = "complete" /\ q.verdict = p.verdict
    BY <1>1 DEF Memory, Alike
  <2> HIDE DEF q
  <2>3. CASE p.erred = TRUE
    <3>1. p.verdict # "succeeded"
      BY <1>1, <1>4, <2>3 DEF Books
    <3>2. Books(q, l, r, a, c)
      BY <1>1, <2>2, <2>3, <3>1, ErredBooks DEF Alike, Starting
    <3> QED BY <2>1, <3>2
  <2>4. CASE p.erred = FALSE
    <3>1. Faultless(p, l, a, c)
      BY <1>1, <2>4 DEF Books
    <3>2. Passed(q) = Passed(p)
      BY <1>4, <2>2 DEF Passed
    <3>3. Faultless(q, l, a, c)
      BY <1>4, <2>2, <3>1, <3>2 DEF Faultless, Alike
    <3>4. Books(q, l, r, a, c)
      BY <1>1, <2>2, <2>4, <3>3, FaultlessBooks DEF Alike, Starting
    <3> QED BY <2>1, <3>4
  <2> QED BY <1>1, <2>3, <2>4
<1>5. CASE p.pc = "cancelFlush"
  <2> DEFINE q == [p EXCEPT !.pc = "cancelComplete"]
  <2>1. AfterFlush(p) = q
    BY <1>5 DEF AfterFlush
  <2>2. Alike(p, q) /\ q.pc = "cancelComplete"
    BY <1>1 DEF Memory, Alike
  <2>3. p.erred = TRUE
    BY <1>1, <1>5 DEF Books, Faultless
  <2> HIDE DEF q
  <2>4. Books(q, l, r, a, c)
    BY <1>1, <2>2, <2>3, ErredBooks DEF Alike, Starting
  <2> QED BY <2>1, <2>4
<1> QED BY <1>3, <1>4, <1>5

(* The logs in hand are written and the list is cleared. *)
LEMMA TrackedLogs ==
    ASSUME NEW p, Typed(p), NEW i \in Items
    PROVE  Tracked(p).logs[i] = p.unit.logs[i] + One(i \in p.pending)
<1>1. p.unit.logs \in [Items -> Nat] /\ p.unit \in Unit
  BY DEF Typed, Placed, Units, Unit
<1>2. Tracked(p).logs = [j \in Items |-> p.unit.logs[j] + (IF j \in p.pending THEN 1 ELSE 0)]
  BY <1>1 DEF Tracked, Unit
<1> QED BY <1>1, <1>2 DEF One

LEMMA WrittenFields ==
    ASSUME NEW p \in Memory
    PROVE  LET q == Written(p) IN
           /\ q.pc = p.pc /\ q.task = p.task /\ q.unit = p.unit /\ q.source = p.source
           /\ q.entry = p.entry /\ q.erred = p.erred /\ q.exhausted = p.exhausted
           /\ q.pending = {} /\ q.written = p.written + Cardinality(p.pending)
           /\ q.verdict = p.verdict
BY DEF Written, Memory

LEMMA WrittenBooks ==
    ASSUME NEW p, Typed(p), p.pc \in {"flush", "final", "cancelFlush"},
           NEW l \in [Items -> Nat], NEW m,
           \A i \in Items : m[i] = l[i] + Tracked(p).logs[i],
           NEW r, NEW a, NEW c, Books(p, l, r, a, c)
    PROVE  Books(Written(p), m, r, a, c)
<1>1. /\ p \in Memory /\ p.task = "rss" /\ p.erred \in BOOLEAN /\ Running(p)
      /\ r # "succeeded"
  BY DEF Typed, Placed, Memory, RssOnly, Running, Starting, Books
<1> DEFINE q == Written(p)
<1>2. /\ q.pc = p.pc /\ q.task = p.task /\ q.unit = p.unit /\ q.source = p.source
      /\ q.entry = p.entry /\ q.erred = p.erred /\ q.exhausted = p.exhausted
      /\ q.pending = {} /\ q.written = p.written + Cardinality(p.pending)
      /\ q.verdict = p.verdict
  BY <1>1, WrittenFields
<1> HIDE DEF q
<1>3. CASE p.erred = TRUE
  <2>1. q.pc \in {"final", "complete"} => q.verdict # "succeeded"
    BY <1>1, <1>2, <1>3 DEF Books
  <2> QED BY <1>1, <1>2, <1>3, <2>1, ErredBooks DEF Starting, q
<1>4. CASE p.erred = FALSE
  <2>1. Faultless(p, l, a, c)
    BY <1>1, <1>4 DEF Books
  <2>2. Passed(q) = Passed(p) /\ Feed(q) = Feed(p)
    BY <1>2 DEF Passed, Feed
  <2>3. ASSUME NEW x \in Fed PROVE m[x] + One(x \in q.pending) = One(x \in Passed(q))
    <3>1. x \in Items
      BY DEF Fed, Items
    <3>2. p.unit.logs[x] = 0 /\ l[x] \in Nat
      BY <2>1, <3>1 DEF Faultless, Unlogged
    <3>3. Tracked(p).logs[x] = One(x \in p.pending)
      BY <3>1, <3>2, TrackedLogs DEF One
    <3>4. m[x] = l[x] + One(x \in p.pending) /\ One(x \in q.pending) = 0
      BY <1>2, <3>1, <3>3 DEF One
    <3>5. l[x] + One(x \in p.pending) = One(x \in Passed(p))
      BY <2>1 DEF Faultless
    <3>6. One(x \in Passed(p)) \in Nat
      BY DEF One
    <3> QED BY <2>2, <3>4, <3>5, <3>6
  <2>4. q.written + Cardinality(q.pending) = Cardinality(Passed(q))
    <3>1. p.written + Cardinality(p.pending) = Cardinality(Passed(p))
      BY <2>1 DEF Faultless
    <3>2. p.written \in Nat /\ Cardinality(p.pending) \in Nat
      BY <1>1, FS_CardinalityType DEF Memory, Typed, Placed
    <3> QED BY <1>2, <2>2, <3>1, <3>2, FS_EmptySet
  <2>5. Faultless(q, m, a, c)
    BY <1>2, <2>1, <2>2, <2>3, <2>4 DEF Faultless
  <2> QED BY <1>1, <1>2, <1>4, <2>5, FaultlessBooks DEF Starting, q
<1> QED BY <1>1, <1>3, <1>4

LEMMA FlushLogsBooks ==
    ASSUME TypeInv, TypeInv', Booked, NEW w \in Workers, FlushLogs(w)
    PROVE  Booked'
<1> DEFINE p == proc[w]
           u == Tracked(p)
           q == Written(p)
           ok == AfterFlush(q)
<1>1. /\ Typed(p) /\ p \in Memory /\ parseLogs[w] \in [Items -> Nat]
      /\ DOMAIN proc = Workers /\ DOMAIN accepted = Workers
      /\ Books(p, parseLogs[w], scanRun[w], accepted[w], catalog)
  BY AtHand
<1>2. /\ p.pc \in {"flush", "final", "cancelFlush"}
      /\ UNCHANGED <<scanRun, accepted>>
  BY DEF FlushLogs, runRows, observed, requests
<1>3. p.task = "rss" /\ Running(p) /\ u \in Units
  <2> HIDE DEF p
  <2> QED BY <1>1, <1>2, TrackedTyped DEF Typed, Placed, RssOnly, Running, Starting
<1>4. CASE p.pending = {}
  <2>1. proc' = [proc EXCEPT ![w] = AfterFlush(p)] /\ UNCHANGED <<parseLogs, catalog>>
    BY <1>4 DEF FlushLogs, rows
  <2>2. Books(AfterFlush(p), parseLogs[w], scanRun[w], accepted[w], catalog)
    BY <1>1, <1>2, <1>4, FlushedBooks
  <2>3. proc'[w] = AfterFlush(p) /\ Apart(w)
    BY <1>1, <1>2, <2>1 DEF Apart
  <2>4. BooksOf(w)'
    <3> HIDE DEF p
    <3> QED BY <1>2, <2>1, <2>2, <2>3 DEF BooksOf
  <2> QED BY <2>3, <2>4, OneBooks
<1>5. CASE p.pending # {}
  <2>1. PICK reply : SaveChanges(w, u, reply, ok)
    BY <1>5 DEF FlushLogs
  <2>2. ASSUME reply = "ok"
        PROVE  Books([ok EXCEPT !.unit = Clean], parseLogs'[w], scanRun[w], accepted[w],
                     catalog)
    <3>1. \A i \in Items : parseLogs'[w][i] = parseLogs[w][i] + u.logs[i]
      BY <1>3, <2>1, <2>2, StoreLogs DEF SaveChanges, Landed
    <3>2. Books(q, parseLogs'[w], scanRun[w], accepted[w], catalog)
      BY <1>1, <1>2, <3>1, WrittenBooks
    <3>3. Typed(q) /\ q.pc = p.pc /\ q.pending = {}
      BY <1>1, <1>2, WrittenTyped, WrittenFields
    <3> HIDE DEF q
    <3>4. Books(ok, parseLogs'[w], scanRun[w], accepted[w], catalog) /\ Typed(ok)
      BY <1>2, <3>2, <3>3, FlushedBooks, AfterFlushTyped
    <3> HIDE DEF ok
    <3> QED BY <3>4, UnitBooks, CleanUnlogged DEF Typed
  <2> HIDE DEF ok, u
  <2>3. p.pc \notin {"idle", "exit"} /\ p.task # "oscar"
    BY <1>2, <1>3
  <2> QED BY <1>2, <1>3, <2>1, <2>2, <2>3, SaveBooks
<1> QED BY <1>4, <1>5

(* A run that says it succeeded has nothing left to store. *)
LEMMA CompleteRunBooks ==
    ASSUME TypeInv, TypeInv', Booked, NEW w \in Workers, CompleteRun(w)
    PROVE  Booked'
<1> DEFINE p == proc[w]
           u == p.unit
           stopped == p.pc = "cancelComplete"
           verdict == IF stopped THEN "failed" ELSE p.verdict
           end == [p EXCEPT !.pc = "exit"]
           other == [Fresh EXCEPT !.pc = "oscarStart", !.task = "oscar",
                                  !.stopping = p.stopping]
           next == IF stopped \/ MaxFilms = 0 THEN end ELSE other
           q1 == [next EXCEPT !.unit = Clean]
           v == [p EXCEPT !.unit = u]
<1>1. /\ Typed(p) /\ p \in Memory /\ u \in Units /\ parseLogs[w] \in [Items -> Nat]
      /\ DOMAIN proc = Workers /\ DOMAIN accepted = Workers /\ p.erred \in BOOLEAN
      /\ Books(p, parseLogs[w], scanRun[w], accepted[w], catalog)
  BY AtHand
<1>2. /\ p.pc \in {"complete", "cancelComplete"} /\ accepted' = accepted
  BY DEF CompleteRun, observed, requests
<1>3. p.task = "rss" /\ Running(p)
  <2> HIDE DEF p
  <2> QED BY <1>1, <1>2 DEF Typed, Placed, RssOnly, Running, Starting
<1>4. PICK reply :
         /\ StoreUnit(w, u, reply)
         /\ Continue(w, reply, q1, v)
         /\ scanRun' = IF Landed(reply) THEN [scanRun EXCEPT ![w] = verdict] ELSE scanRun
  BY DEF CompleteRun, SaveChanges
<1>5. v = p
  <2> HIDE DEF p
  <2> QED BY <1>1, SameUnit
<1>6. /\ q1.task = "rss" => q1.pc = "exit"
      /\ q1.task = "oscar" => q1.pc \notin Starting /\ Unlogged(q1.unit)
      /\ q1.task \in {"rss", "oscar"}
  <2>1. CASE next = end
    <3>1. [end EXCEPT !.unit = Clean].task = "rss" /\ [end EXCEPT !.unit = Clean].pc = "exit"
      <4> HIDE DEF p
      <4> QED BY <1>1, <1>3 DEF Memory
    <3> HIDE DEF end, next
    <3> QED BY <2>1, <3>1
  <2>2. CASE next = other
    <3>1. other \in Memory /\ other.pc = "oscarStart" /\ other.task = "oscar"
      BY <1>1, NextTaskTyped DEF Typed
    <3> HIDE DEF other, next
    <3>2. q1.task = "oscar" /\ q1.pc = "oscarStart" /\ q1.unit = Clean
      BY <2>2, <3>1 DEF Memory
    <3> QED BY <3>2, CleanUnlogged DEF Starting
  <2> QED BY <2>1, <2>2
<1>7. Thrown(p, reply).task = "rss" /\ Thrown(p, reply).pc = "exit"
  BY <1>1, <1>2, <1>3, ThrownErred
<1> HIDE DEF q1, v
<1>8. PICK q : /\ proc' = [proc EXCEPT ![w] = q]
               /\ q.task = "rss" => q.pc = "exit"
               /\ q.task = "oscar" => q.pc \notin Starting /\ Unlogged(q.unit)
               /\ q.task \in {"rss", "oscar"}
  BY <1>4, <1>5, <1>6, <1>7 DEF Continue
<1>9. scanRun'[w] = "succeeded" => Complete(parseLogs'[w], accepted[w], catalog)
  <2> SUFFICES ASSUME scanRun'[w] = "succeeded"
               PROVE  Complete(parseLogs'[w], accepted[w], catalog)
    OBVIOUS
  <2>1. scanRun[w] # "succeeded" /\ (p.erred = FALSE => Faultless(p, parseLogs[w], accepted[w],
                                                             catalog))
    BY <1>1, <1>3 DEF Books
  <2>2. Landed(reply) /\ verdict = "succeeded"
    BY <1>4, <2>1 DEF TypeInv, TypeOK
  <2>3. ~stopped /\ p.verdict = "succeeded" /\ p.pc = "complete"
    BY <1>2, <2>2
  <2>4. p.erred = FALSE
    BY <1>1, <1>3, <2>3 DEF Books
  <2>5. Faultless(p, parseLogs[w], accepted[w], catalog)
    BY <2>1, <2>4
  <2>6. Unlogged(u) /\ p.pending = {} /\ Passed(p) = Fed /\ accepted[w] \subseteq catalog
    BY <2>3, <2>5 DEF Faultless, Passed
  <2>7. parseLogs' = parseLogs
    BY <1>1, <1>4, <2>6, StoreLogs
  <2>8. ASSUME NEW x \in Fed PROVE parseLogs[w][x] = 1
    <3>1. parseLogs[w][x] + One(x \in p.pending) = One(x \in Passed(p)) /\ x \in Items
      BY <2>5 DEF Faultless, Fed, Items
    <3>2. parseLogs[w][x] \in Nat
      BY <1>1, <3>1
    <3> QED BY <2>6, <3>1, <3>2 DEF One
  <2> QED BY <2>6, <2>7, <2>8 DEF Complete
<1>10. /\ catalog \subseteq catalog'
       /\ Books(q, parseLogs'[w], scanRun'[w], accepted[w], catalog')
  <2> HIDE DEF p
  <2>1. catalog \subseteq catalog'
    BY <1>4, StoreGrows
  <2>2. Books(q, parseLogs'[w], scanRun'[w], accepted[w], catalog)
    BY <1>8, <1>9, EndedBooks, OscarBooks
  <2> QED BY <2>1, <2>2, BooksGrow
<1>11. proc'[w] = q /\ Apart(w)
  <2>1. \A z \in Workers \ {w} : parseLogs'[z] = parseLogs[z] /\ scanRun'[z] = scanRun[z]
    BY <1>1, <1>4, StoreLogs DEF TypeInv, TypeOK
  <2> HIDE DEF p
  <2> QED BY <1>1, <1>2, <1>8, <1>10, <2>1 DEF Apart
<1> QED BY <1>2, <1>10, <1>11, OneBooks DEF BooksOf

LEMMA IngestionBooks ==
    ASSUME Ample, TypeInv, TypeInv', Booked, NEW w \in Workers, IngestionStep(w)
    PROVE  Booked'
BY StartRunBooks, ReadingBooks, TakeEntryBooks, EntryAnsweredBooks, UpsertBooks,
   FlushLogsBooks, CompleteRunBooks DEF IngestionStep

-----------------------------------------------------------------------------
(* What happens to processes, and time *)

(* A process about to start, or that has gone. *)
LEMMA StartingBooks ==
    ASSUME NEW p, p.pc \in Starting, p.task = "rss", Unlogged(p.unit), p.pending = {},
           p.written = 0, p.erred = FALSE, p.exhausted = FALSE,
           NEW l, NEW r, NEW a, NEW c, r = "succeeded" => Complete(l, a, c)
    PROVE  Books(p, l, r, a, c)
BY DEF Books, Running, Starting

LEMMA FreshBooks ==
    ASSUME NEW l, NEW r, NEW a, NEW c, r = "succeeded" => Complete(l, a, c)
    PROVE  Books(Fresh, l, r, a, c)
<1>1. /\ Fresh.pc = "idle" /\ Fresh.task = "rss" /\ Fresh.unit = Clean /\ Fresh.pending = {}
      /\ Fresh.written = 0 /\ Fresh.erred = FALSE /\ Fresh.exhausted = FALSE
  BY DEF Fresh
<1>2. Fresh.pc \in Starting /\ Unlogged(Fresh.unit)
  BY <1>1, CleanUnlogged DEF Starting
<1> QED BY <1>1, <1>2, StartingBooks

(* One start-up step leads to another. *)
LEMMA StartedBooks ==
    ASSUME NEW p, Typed(p), p.pc \in Starting, NEW pc \in Starting,
           NEW l, NEW r, NEW a, NEW c, Books(p, l, r, a, c)
    PROVE  Books([p EXCEPT !.pc = pc], l, r, a, c)
<1> DEFINE q == [p EXCEPT !.pc = pc]
<1>1. Alike(p, q) /\ q.pc = pc
  BY DEF Typed, Memory, Alike
<1>2. p.task = "rss"
  BY DEF Typed, Placed, Starting, RssOnly
<1>3. /\ Unlogged(p.unit) /\ p.pending = {} /\ p.written = 0
      /\ p.erred = FALSE /\ p.exhausted = FALSE
      /\ r = "succeeded" => Complete(l, a, c)
  BY DEF Books
<1> HIDE DEF q
<1> QED BY <1>1, <1>2, <1>3, StartingBooks DEF Alike, q

LEMMA AcquireBooks ==
    ASSUME TypeInv, Booked, NEW w \in Workers, Acquire(w) \/ ReadSettings(w)
    PROVE  Booked'
<1> DEFINE p == proc[w]
           settings == [p EXCEPT !.pc = "settings"]
           start == [p EXCEPT !.pc = "startRun"]
<1>1. /\ Typed(p) /\ Books(p, parseLogs[w], scanRun[w], accepted[w], catalog)
  BY AtHand
<1>2. /\ p.pc \in {"acquire", "settings"}
      /\ UNCHANGED <<parseLogs, scanRun, accepted, catalog>>
  BY DEF Acquire, ReadSettings, At, rows, runRows, observed, requests
<1>3. \E ok \in {settings, start, Fresh} : \E reply : Continue(w, reply, ok, p)
  BY DEF Acquire, ReadSettings
<1>4. scanRun[w] = "succeeded" => Complete(parseLogs[w], accepted[w], catalog)
  BY <1>1 DEF Books
<1>5. ASSUME NEW ok \in {settings, start, Fresh}
      PROVE  Books(ok, parseLogs[w], scanRun[w], accepted[w], catalog)
  <2> HIDE DEF p
  <2>1. /\ Books(settings, parseLogs[w], scanRun[w], accepted[w], catalog)
        /\ Books(start, parseLogs[w], scanRun[w], accepted[w], catalog)
    BY <1>1, <1>2, StartedBooks DEF Starting
  <2>2. Books(Fresh, parseLogs[w], scanRun[w], accepted[w], catalog)
    BY <1>4, FreshBooks
  <2> QED BY <2>1, <2>2
<1> HIDE DEF settings, start
<1>6. PICK ok \in {settings, start, Fresh} : \E reply : Continue(w, reply, ok, p)
  BY <1>3
<1>7. PICK reply : Continue(w, reply, ok, p)
  BY <1>6
<1>8. p.pc \notin {"idle", "exit"}
  BY <1>2
<1> QED BY <1>2, <1>5, <1>7, <1>8, CallBooks

LEMMA EventBooks ==
    ASSUME TypeInv, Booked, NEW w \in Workers,
           Exit(w) \/ StartManual(w) \/ Stop(w) \/ Kill(w) \/ DropConnection(w)
    PROVE  Booked'
<1> DEFINE p == proc[w]
<1>1. /\ Typed(p) /\ p \in Memory /\ DOMAIN proc = Workers /\ DOMAIN accepted = Workers
      /\ Books(p, parseLogs[w], scanRun[w], accepted[w], catalog)
  BY AtHand
<1>2. UNCHANGED <<parseLogs, scanRun, accepted, catalog>>
  BY DEF Exit, StartManual, Stop, Kill, DropConnection, rows, runRows, observed, requests
<1>3. ASSUME NEW q, proc' = [proc EXCEPT ![w] = q],
             Books(q, parseLogs[w], scanRun[w], accepted[w], catalog)
      PROVE  Booked'
  <2> HIDE DEF p
  <2>1. proc'[w] = q /\ Apart(w)
    BY <1>1, <1>2, <1>3 DEF Apart
  <2>2. BooksOf(w)'
    BY <1>2, <1>3, <2>1 DEF BooksOf
  <2> QED BY <2>1, <2>2, OneBooks
<1>4. CASE Exit(w) \/ Kill(w)
  <2>1. scanRun[w] = "succeeded" => Complete(parseLogs[w], accepted[w], catalog)
    BY <1>1 DEF Books
  <2>2. Books(Fresh, parseLogs[w], scanRun[w], accepted[w], catalog)
    BY <2>1, FreshBooks
  <2> QED BY <1>3, <1>4, <2>2 DEF Exit, Kill
<1>5. CASE StartManual(w)
  <2>1. p.pc = "idle" /\ proc' = [proc EXCEPT ![w] = [p EXCEPT !.pc = "acquire"]]
    BY <1>5 DEF StartManual, Active
  <2>2. Books([p EXCEPT !.pc = "acquire"], parseLogs[w], scanRun[w], accepted[w], catalog)
    <3> HIDE DEF p
    <3> QED BY <1>1, <2>1, StartedBooks DEF Starting
  <2> QED BY <1>3, <2>1, <2>2
<1>6. CASE Stop(w)
  <2> DEFINE q == [p EXCEPT !.stopping = TRUE]
  <2>1. Alike(p, q) /\ q.pc = p.pc /\ q.verdict = p.verdict
    <3> HIDE DEF p
    <3> QED BY <1>1 DEF Memory, Alike
  <2>2. proc' = [proc EXCEPT ![w] = q]
    BY <1>6 DEF Stop
  <2> HIDE DEF q, p
  <2>3. Books(q, parseLogs[w], scanRun[w], accepted[w], catalog)
    BY <1>1, <2>1, BooksAlike
  <2> QED BY <1>3, <2>2, <2>3 DEF p
<1>7. CASE DropConnection(w)
  BY <1>2, <1>7 DEF DropConnection, Booked
<1> QED BY <1>4, <1>5, <1>6, <1>7

(* The rows of a run that has ended are dropped: there is nothing to say.   *)
LEMMA TimeBooks ==
    ASSUME TypeInv, Booked, TimePasses,
           \A w \in Workers :
              \/ Alike(proc[w], proc'[w]) /\ proc'[w].pc = proc[w].pc
                 /\ proc'[w].verdict = proc[w].verdict
              \/ ~Active(w) /\ proc'[w] = [proc[w] EXCEPT !.pc = "acquire"]
    PROVE  Booked'
<1>1. /\ catalog' = catalog
      /\ scanRun' = [w \in Workers |-> IF Active(w) THEN scanRun[w] ELSE "none"]
      /\ parseLogs' = [w \in Workers |-> IF Active(w) THEN parseLogs[w] ELSE NoLogs]
      /\ accepted' = [w \in Workers |-> IF Active(w) THEN accepted[w] ELSE {}]
  BY DEF TimePasses, DropEndedRuns
<1>2. ASSUME NEW w \in Workers
      PROVE  Books(proc'[w], parseLogs'[w], scanRun'[w], accepted'[w], catalog')
  <2>1. /\ Typed(proc[w])
        /\ Books(proc[w], parseLogs[w], scanRun[w], accepted[w], catalog)
    BY AtHand
  <2>2. CASE Active(w)
    <3>1. /\ scanRun'[w] = scanRun[w] /\ parseLogs'[w] = parseLogs[w]
          /\ accepted'[w] = accepted[w]
      BY <1>1, <2>2
    <3> QED BY <1>1, <2>1, <2>2, <3>1, BooksAlike
  <2>3. CASE ~Active(w)
    <3>1. scanRun'[w] = "none" /\ proc[w].pc = "idle"
      BY <1>1, <2>3 DEF Active
    <3>2. ASSUME NEW q, Books(q, parseLogs[w], scanRun[w], accepted[w], catalog),
                 q.pc \in {"idle", "acquire"}
          PROVE  Books(q, parseLogs'[w], "none", accepted'[w], catalog')
      BY <3>2 DEF Books, Running, Starting
    <3>3. Books(proc'[w], parseLogs[w], scanRun[w], accepted[w], catalog)
      <4>1. CASE Alike(proc[w], proc'[w]) /\ proc'[w].pc = proc[w].pc
                 /\ proc'[w].verdict = proc[w].verdict
        BY <2>1, <4>1, BooksAlike
      <4>2. CASE proc'[w] = [proc[w] EXCEPT !.pc = "acquire"]
        <5>1. proc[w].pc \in Starting /\ "acquire" \in Starting
          BY <3>1 DEF Starting
        <5>2. Books([proc[w] EXCEPT !.pc = "acquire"], parseLogs[w], scanRun[w], accepted[w],
                    catalog)
          BY <2>1, <5>1, StartedBooks
        <5> QED BY <4>2, <5>2
      <4> QED BY <4>1, <4>2
    <3>4. proc'[w].pc \in {"idle", "acquire"}
      <4>1. [proc[w] EXCEPT !.pc = "acquire"].pc = "acquire"
        BY <2>1 DEF Typed, Memory
      <4> QED BY <3>1, <4>1
    <3> QED BY <3>1, <3>2, <3>3, <3>4
  <2> QED BY <2>2, <2>3
<1>3. DOMAIN accepted' = Workers
  BY <1>1
<1> QED BY <1>2, <1>3 DEF Booked

LEMMA ClockBooks ==
    ASSUME TypeInv, Booked, Midnight \/ TimerTick
    PROVE  Booked'
<1>1. TimePasses
  BY DEF Midnight, TimerTick
<1>2. ASSUME NEW w \in Workers
      PROVE  \/ Alike(proc[w], proc'[w]) /\ proc'[w].pc = proc[w].pc
                /\ proc'[w].verdict = proc[w].verdict
             \/ ~Active(w) /\ proc'[w] = [proc[w] EXCEPT !.pc = "acquire"]
  <2>0. proc[w] \in Memory /\ DOMAIN proc = Workers
    BY DEF TypeInv, TypeOK
  <2>1. CASE Midnight
    <3> DEFINE p == proc[w]
               q == proc'[w]
    <3>1. PICK a \in BOOLEAN, b \in BOOLEAN : q = [p EXCEPT !.today = a, !.begun = b]
      BY <2>1 DEF Midnight
    <3> SUFFICES Alike(p, q) /\ q.pc = p.pc /\ q.verdict = p.verdict
      OBVIOUS
    <3>2. p \in Memory
      BY <2>0
    <3> HIDE DEF p, q
    <3> QED BY <3>1, <3>2 DEF Memory, Alike
  <2>2. CASE TimerTick
    <3>1. ~Active(Scheduled) /\ proc' = [proc EXCEPT ![Scheduled].pc = "acquire"]
      BY <2>2 DEF TimerTick
    <3>2. CASE w = Scheduled
      BY <2>0, <3>1, <3>2
    <3>3. CASE w # Scheduled
      <4>1. proc'[w] = proc[w]
        BY <2>0, <3>1, <3>3
      <4> QED BY <4>1 DEF Alike
    <3> QED BY <3>2, <3>3
  <2> QED BY <2>1, <2>2
<1> QED BY <1>1, <1>2, TimeBooks

-----------------------------------------------------------------------------
(* Succeeded runs are complete *)

LEMMA InitBooked == Init => Booked
<1> SUFFICES ASSUME Init PROVE Booked
  OBVIOUS
<1>1. DOMAIN accepted = Workers
  BY DEF Init
<1>2. ASSUME NEW w \in Workers
      PROVE  Books(proc[w], parseLogs[w], scanRun[w], accepted[w], catalog)
  <2>1. proc[w] = Fresh /\ scanRun[w] # "succeeded"
    BY DEF Init
  <2> QED BY <2>1, FreshBooks
<1> QED BY <1>1, <1>2 DEF Booked

LEMMA StepBooked ==
    ASSUME Ample, TypeInv, TypeInv', Booked, [Next]_vars
    PROVE  Booked'
<1>1. CASE UNCHANGED vars
  BY <1>1 DEF vars, Booked
<1>2. ASSUME NEW w \in Workers, ProcessStep(w) PROVE Booked'
  BY <1>2, AcquireBooks, LookupBooks, IngestionBooks, EnrichmentBooks, EventBooks
     DEF ProcessStep
<1>3. ASSUME NEW w \in Workers, StartManual(w) \/ Stop(w) \/ Kill(w) \/ DropConnection(w)
      PROVE  Booked'
  BY <1>3, EventBooks
<1>4. CASE Midnight \/ TimerTick
  BY <1>4, ClockBooks
<1> QED BY <1>1, <1>2, <1>3, <1>4 DEF Next

(* A scan run that says "succeeded" has stored every entry that its policy  *)
(* accepted and one log for each entry of each feed, no more and no less,   *)
(* whatever raised, stopped or was killed on the way and however many       *)
(* entries and feeds there are: nothing that RssIngestionService loses      *)
(* goes without an error in the run's count.  It is so when no entry stands *)
(* twice in the feeds and the cap on logs (MaximumParseLogsPerRun) leaves   *)
(* room for them all.                                                       *)
THEOREM SucceededRunsStoreAll ==
    ASSUME Ample
    PROVE  Spec => []SucceededRunsAreComplete
<1>1. Init => TypeInv /\ Booked
  BY InitTyped, InitBooked
<1>2. TypeInv /\ Booked /\ [Next]_vars => (TypeInv /\ Booked)'
  BY StepTyped, StepBooked
<1>3. TypeInv /\ Booked => SucceededRunsAreComplete
  <2> SUFFICES ASSUME Booked, NEW w \in Workers, scanRun[w] = "succeeded"
               PROVE  /\ accepted[w] \subseteq catalog
                      /\ \A i \in DOMAIN FeedOf : \A n \in DOMAIN FeedOf[i][2] :
                            parseLogs[w][FeedOf[i][2][n]] = 1
    BY DEF SucceededRunsAreComplete
  <2>1. Complete(parseLogs[w], accepted[w], catalog)
    BY DEF Booked, Books
  <2>2. \A i \in DOMAIN FeedOf : \A n \in DOMAIN FeedOf[i][2] : FeedOf[i][2][n] \in Fed
    BY EntryAt DEF Fed
  <2> QED BY <2>1, <2>2 DEF Complete
<1> QED BY <1>1, <1>2, <1>3, PTL DEF Spec

=============================================================================
