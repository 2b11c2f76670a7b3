------------------------ MODULE EntryMatchingProofs ------------------------
(***************************************************************************)
(* Proofs about EntryMatching, for every set of entries, feeds, lookups,   *)
(* payloads and caches and every limit: what a run's requests come to, and *)
(* what the policy, a mapping and the status of a run then say.            *)
(***************************************************************************)
EXTENDS EntryMatching, TLAPS

-----------------------------------------------------------------------------
(* What a reply of the AI comes to *)

(* Answers that are taken up speak of every item that was asked about, and  *)
(* say of each what an entry may say (validate_ai_batch_structure).         *)
THEOREM AnswersAreWhole ==
    ASSUME NEW ids, NEW sayings, NEW reply \in Replies(ids, sayings),
           Validated(reply, ids) # NoAnswers
    PROVE  Validated(reply, ids) \in [ids -> sayings]
<1> DEFINE entry == [id : ids, says : sayings, sure : BOOLEAN]
<1>1. PICK n \in 0 .. Cardinality(ids) : reply \in [1 .. n -> entry]
  BY DEF Replies
<1>2. DOMAIN reply = 1 .. n /\ \A i \in DOMAIN reply : reply[i] \in entry
  BY <1>1
<1> HIDE DEF entry
<1>3. {reply[i].id : i \in DOMAIN reply} = ids
  BY DEF Validated, Valid
<1> DEFINE Of(e) == CHOOSE i \in DOMAIN reply : reply[i].id = e
<1>4. Validated(reply, ids) = [e \in ids |-> reply[Of(e)].says]
  BY <1>3 DEF Validated, Valid
<1>5. ASSUME NEW e \in ids
      PROVE  reply[Of(e)].says \in sayings
  <2>1. \E i \in DOMAIN reply : reply[i].id = e
    BY <1>3
  <2>2. Of(e) \in DOMAIN reply
    BY <2>1
  <2>3. reply[Of(e)] \in entry
    BY <1>2, <2>2
  <2> QED BY <2>3 DEF entry
<1> QED BY <1>4, <1>5

-----------------------------------------------------------------------------
(* The shape of a run's memory *)

Pcs == {"idle", "feed", "entry", "list", "audit_batch", "audit_asked", "audit", "page",
        "mapped", "reparse_asked", "reparse", "end"}
RunRecords == [pc : Pcs, mode : Modes \cup {"rss"}, feed : Nat, entry : Nat,
               erred : BOOLEAN, status : {"none", "succeeded", "partial", "running"}]

(* Where a run may be: in a feed that is configured, at an entry of it.     *)
Placed(s) ==
    /\ s \in RunRecords
    /\ s.pc \in {"feed", "entry"} => s.feed \in DOMAIN Feeds
    /\ s.pc = "entry" => s.entry \in DOMAIN Feeds[s.feed]

(* Nothing is left over from a batch. *)
Elsewhere(s) == s.pc \notin {"audit_asked", "audit", "reparse_asked", "reparse"}

Stored == cache = [k \in Lookups |-> cache[k]] /\ session = [k \in Lookups |-> session[k]]

Posed(q) ==
    /\ q = [pc |-> q.pc, ids |-> q.ids, says |-> q.says, attempt |-> q.attempt, answers |-> q.answers]
    /\ q.answers # NoAnswers => q.answers \in [q.ids -> q.says]

Asking ==
    /\ Posed(question)
    /\ run.pc = "audit_asked" => question.ids = todo /\ question.says = Corrections
    /\ run.pc = "reparse_asked" => question.ids = todo /\ question.says = Extractions

Told ==
    /\ run.pc = "audit" => \A e \in todo : said[e] \in Corrections
    /\ run.pc = "reparse" => \A e \in todo : said[e] \in Extractions

Tasked ==
    /\ task = [pc |-> task.pc, entry |-> task.entry, key |-> task.key, expected |-> task.expected]
    /\ task.pc # "none" => task.key \in Lookups

Shape ==
    /\ Placed(run) /\ Asking /\ Told /\ Tasked
    /\ todo \subseteq Entries /\ mapped \subseteq Entries

LEMMA FeedsListed ==
    /\ 1 \in DOMAIN Feeds /\ DOMAIN Feeds = 1 .. Len(Feeds) /\ Len(Feeds) \in Nat
    /\ \A i \in DOMAIN Feeds : /\ DOMAIN Feeds[i] = 1 .. Len(Feeds[i]) /\ Len(Feeds[i]) \in Nat
                               /\ \A j \in DOMAIN Feeds[i] : Feeds[i][j] \in Entries
BY MatchingAssumption DEF MatchingAssumption

LEMMA PlacedPhases ==
    ASSUME NEW s, Placed(s)
    PROVE  /\ Placed(Finalize(s)) /\ Elsewhere(Finalize(s))
           /\ Placed(AfterReparse(s)) /\ Elsewhere(AfterReparse(s))
           /\ Placed(AfterAudit(s)) /\ Elsewhere(AfterAudit(s))
           /\ Placed(AfterRss(s)) /\ Elsewhere(AfterRss(s))
           /\ Placed(Erred(s)) /\ Erred(s).pc = s.pc
BY DEF Placed, RunRecords, Pcs, Elsewhere, Finalize, AfterReparse, AfterAudit, AfterRss, Erred

LEMMA PlacedFeeds ==
    ASSUME NEW s, Placed(s), s.feed \in DOMAIN Feeds
    PROVE  Placed(NextFeed(s)) /\ Elsewhere(NextFeed(s))
<1>1. CASE s.feed < Len(Feeds)
  <2>1. s.feed + 1 \in DOMAIN Feeds /\ s.feed + 1 \in Nat
    BY <1>1, FeedsListed
  <2> DEFINE t == [s EXCEPT !.pc = "feed", !.feed = @ + 1, !.entry = 0]
  <2>2. t \in RunRecords
    BY <2>1 DEF Placed, RunRecords, Pcs
  <2>3. t.pc = "feed" /\ t.feed = s.feed + 1
    BY DEF Placed, RunRecords
  <2> QED BY <1>1, <2>1, <2>2, <2>3 DEF Placed, Elsewhere, NextFeed
<1>2. CASE ~(s.feed < Len(Feeds))
  BY <1>2, PlacedPhases DEF NextFeed
<1> QED BY <1>1, <1>2

LEMMA PlacedEntries ==
    ASSUME NEW s, Placed(s), s.pc \in {"feed", "entry"}
    PROVE  Placed(NextEntry(s)) /\ Elsewhere(NextEntry(s))
<1>0. s.feed \in DOMAIN Feeds /\ s.entry \in Nat
  BY DEF Placed, RunRecords
<1>1. CASE s.entry < Len(Feeds[s.feed])
  <2>1. s.entry + 1 \in DOMAIN Feeds[s.feed] /\ s.entry + 1 \in Nat
    BY <1>0, <1>1, FeedsListed
  <2> DEFINE t == [s EXCEPT !.pc = "entry", !.entry = @ + 1]
  <2>2. t \in RunRecords
    BY <2>1 DEF Placed, RunRecords, Pcs
  <2>3. t.pc = "entry" /\ t.feed = s.feed /\ t.entry = s.entry + 1
    BY DEF Placed, RunRecords
  <2> QED BY <1>0, <1>1, <2>1, <2>2, <2>3 DEF Placed, Elsewhere, NextEntry
<1>2. CASE ~(s.entry < Len(Feeds[s.feed]))
  BY <1>0, <1>2, PlacedFeeds DEF NextEntry
<1> QED BY <1>1, <1>2

-----------------------------------------------------------------------------
(* What is looked up is a lookup. *)

LEMMA EntryKeysKnown ==
    ASSUME NEW e \in Entries
    PROVE  KeyOf(e) \in Lookups
BY MatchingAssumption DEF MatchingAssumption, KeyOf

LEMMA PresentIsEntry ==
    ASSUME Shape, run.pc = "entry"
    PROVE  Present \in Entries
BY FeedsListed DEF Shape, Placed, Present

LEMMA AuditKeysKnown ==
    ASSUME Shape, run.pc = "audit", NEW e \in todo, said[e].says = "is"
    PROVE  said[e].key \in Lookups
<1>1. said[e] \in Corrections
  BY DEF Shape, Told
<1>2. PICK k \in Readings : said[e] = Saying("is", k)
  BY <1>1 DEF Corrections, Saying
<1> QED BY <1>2, MatchingAssumption DEF MatchingAssumption, Saying

LEMMA ReparseKeysKnown ==
    ASSUME Shape, run.pc = "reparse", NEW e \in todo, NEW type,
           type = IF Parsed[e].type # "unknown" THEN Parsed[e].type ELSE said[e].key.type
    PROVE  [said[e].key EXCEPT !.type = type] \in Lookups
<1>1. said[e] \in Extractions /\ e \in Entries
  BY DEF Shape, Told
<1>2. PICK k \in Readings : said[e] = Saying("is", k) /\ k.type # "unknown"
  BY <1>1 DEF Extractions
<1>3. k.type \in SourceTypes /\ Parsed[e].type \in SourceTypes
  BY <1>1, ResolverAssumption, MatchingAssumption DEF ResolverAssumption, MatchingAssumption
<1>4. type \in {"movie", "series"} /\ said[e].key = k
  BY <1>2, <1>3 DEF Saying, SourceTypes
<1> QED BY <1>4, MatchingAssumption DEF MatchingAssumption

-----------------------------------------------------------------------------
(* What the steps of a run do to the resolver *)

Untouched ==
    /\ UNCHANGED <<now, cache, session, budget, sent, refused, denied>>
    /\ call' = call \/ call' = Waiting
Prefetching ==
    /\ \E keys : Prefetch(keys)
    /\ UNCHANGED <<now, cache, budget, call, sent, refused, denied>>
LookingUp == \E k \in Lookups : Lookup(k) \/ LookupRaises(k)
Starting == cache' = cache /\ \E gap \in Gaps : ResetResolver(now + gap)

ResolverStep == Untouched \/ Prefetching \/ LookingUp \/ Resolve \/ Starting

LEMMA StartLooksUp ==
    ASSUME NEW e, NEW key \in Lookups, NEW expected, Start(e, key, expected)
    PROVE  LookingUp
BY DEF Start, LookingUp

LEMMA RssSteps ==
    ASSUME Shape, Rss
    PROVE  ResolverStep
<1> USE DEF ResolverStep, resolver, stores, observed
<1>1. CASE ReadFeed
  BY <1>1 DEF ReadFeed, Prefetching
<1>2. CASE FeedFails
  BY <1>2 DEF FeedFails, Untouched
<1>3. CASE EntryTooOld
  BY <1>3 DEF EntryTooOld, Untouched
<1>4. CASE EntryLookup
  BY <1>4, PresentIsEntry, EntryKeysKnown, StartLooksUp DEF EntryLookup
<1>5. CASE EntryAccepted
  BY <1>5 DEF EntryAccepted, TakeOutcome, Untouched
<1>6. CASE EntryRejected
  BY <1>6 DEF EntryRejected, TakeOutcome, Untouched
<1>7. CASE EntryNotResolved
  BY <1>7 DEF EntryNotResolved, TakeOutcome, Untouched
<1> QED BY <1>1, <1>2, <1>3, <1>4, <1>5, <1>6, <1>7 DEF Rss

LEMMA AuditSteps ==
    ASSUME Shape, Audit
    PROVE  ResolverStep
<1> USE DEF ResolverStep, resolver, stores, observed
<1>1. CASE ListTitles \/ AuditBatch \/ AuditAnswers \/ AuditAsks
  BY <1>1 DEF ListTitles, AuditBatch, AuditAnswers, AuditAsks, Untouched
<1>2. CASE AuditDecides \/ AuditValidated
  BY <1>2 DEF AuditDecides, AuditValidated, TakeOutcome, Untouched
<1>3. ASSUME NEW e \in Entries, AuditUnchanged(e)
      PROVE  ResolverStep
  BY <1>3 DEF AuditUnchanged, Untouched
<1>4. ASSUME NEW e \in Entries, AuditLookup(e)
      PROVE  ResolverStep
  BY <1>4, AuditKeysKnown, StartLooksUp DEF AuditLookup
<1> QED BY <1>1, <1>2, <1>3, <1>4 DEF Audit

LEMMA ReparseSteps ==
    ASSUME Shape, Reparse
    PROVE  ResolverStep
<1> USE DEF ResolverStep, resolver, stores, observed
<1>1. CASE ListRetryable \/ ReparseBatch \/ ReparseAnswers \/ ReparseAsks
  BY <1>1 DEF ListRetryable, ReparseBatch, ReparseAnswers, ReparseAsks, Untouched
<1>2. CASE ReparseDecides \/ ReparseValidated
  BY <1>2 DEF ReparseDecides, ReparseValidated, TakeOutcome, Untouched
<1>3. ASSUME NEW e \in Entries, MappedLookup(e)
      PROVE  ResolverStep
  BY <1>3, EntryKeysKnown, StartLooksUp DEF MappedLookup
<1>4. ASSUME NEW e \in Entries, ReparseLookup(e)
      PROVE  ResolverStep
  BY <1>4, ReparseKeysKnown, StartLooksUp DEF ReparseLookup
<1> QED BY <1>1, <1>2, <1>3, <1>4 DEF Reparse

LEMMA StepsOfResolver ==
    ASSUME Shape, [Next]_vars
    PROVE  ResolverStep
<1> USE DEF resolver, stores, observed
<1>1. CASE EndRun \/ Requests \/ Questions \/ TimePasses
  BY <1>1 DEF EndRun, Requests, Questions, TimePasses, Untouched, ResolverStep
<1>2. CASE Killed
  BY <1>2 DEF Killed, Untouched, ResolverStep
<1>3. CASE \E mode \in Modes, gap \in Gaps : StartRun(mode, gap)
  BY <1>3 DEF StartRun, Starting, ResolverStep
<1>4. CASE UNCHANGED vars
  BY <1>4 DEF vars, Untouched, ResolverStep
<1> QED BY <1>1, <1>2, <1>3, <1>4, RssSteps, AuditSteps, ReparseSteps DEF Next, Step

-----------------------------------------------------------------------------
(* The invariant of the resolver: the budget counts what has been sent, a   *)
(* limit that the provider reports is remembered, the forms that have been  *)
(* asked are those that were denied, and the session's copy of the cache is *)
(* usable wherever the cache itself is.                                     *)

Counted ==
    /\ budget.attempts \in Nat /\ budget.exhausted \in BOOLEAN
    /\ budget = [attempts |-> budget.attempts, exhausted |-> budget.exhausted]
    /\ sent = budget.attempts /\ sent <= RequestLimit
    /\ refused => budget.exhausted

UnderWay ==
    call.pc = "request" =>
        /\ call = [Waiting EXCEPT !.pc = "request", !.key = call.key, !.form = call.form]
        /\ call.key \in Lookups
        /\ call.form \in 1 .. Len(Forms(call.key))
        /\ denied = call.form - 1

Following ==
    \A k \in Lookups : session[k] # Unread /\ Usable(cache[k], k) => Usable(session[k], k)

ResolverInv == Stored /\ Counted /\ UnderWay /\ NoNeedlessRequests /\ Following

LEMMA FormsCounted ==
    ASSUME NEW k
    PROVE  Len(Forms(k)) \in 1 .. 2
<1>1. Forms(k) \in {<<"id">>, <<"undated">>, <<"dated", "undated">>}
  BY DEF Forms
<1>2. Len(<<"id">>) = 1 /\ Len(<<"undated">>) = 1 /\ Len(<<"dated", "undated">>) = 2
  OBVIOUS
<1> QED BY <1>1, <1>2

LEMMA InitResolver == Init => ResolverInv
<1> SUFFICES ASSUME Init PROVE ResolverInv
  OBVIOUS
<1>1. Stored
  BY MatchingAssumption DEF MatchingAssumption, Init, Stored
<1>2. Counted
  BY ResolverAssumption DEF ResolverAssumption, Init, Counted
<1>3. UnderWay /\ NoNeedlessRequests
  BY DEF Init, UnderWay, NoNeedlessRequests, Waiting
<1>4. Following
  BY DEF Init, Following
<1> QED BY <1>1, <1>2, <1>3, <1>4 DEF ResolverInv

(* Where the stores and the budget are as they were and no request is under *)
(* way that was not before, nothing is lost.                                *)
LEMMA UntouchedKeeps ==
    ASSUME ResolverInv, Untouched
    PROVE  ResolverInv'
<1> USE DEF ResolverInv, Untouched
<1>1. Stored' /\ Counted' /\ Following'
  BY DEF Stored, Counted, Following, Usable
<1>2. CASE call' = call
  <2>1. UnderWay'
    BY <1>2 DEF UnderWay, Waiting
  <2>2. NoNeedlessRequests'
    BY <1>2 DEF NoNeedlessRequests, Usable
  <2> QED BY <1>1, <2>1, <2>2
<1>3. CASE call' = Waiting
  BY <1>1, <1>3 DEF UnderWay, NoNeedlessRequests, Waiting
<1> QED BY <1>2, <1>3

LEMMA PrefetchKeeps ==
    ASSUME ResolverInv, Prefetching
    PROVE  ResolverInv'
<1> USE DEF ResolverInv, Prefetching, Prefetch
<1>1. Stored' /\ Counted'
  BY DEF Stored, Counted
<1>2. UnderWay' /\ NoNeedlessRequests'
  BY DEF UnderWay, NoNeedlessRequests, Usable
<1>3. Following'
  <2> SUFFICES ASSUME NEW k \in Lookups, session'[k] # Unread, Usable(cache[k], k)'
               PROVE  Usable(session[k], k)'
    BY DEF Following
  <2>1. Usable(cache[k], k)
    BY DEF Usable
  <2>2. CASE session'[k] = session[k]
    BY <2>1, <2>2 DEF Following, Usable
  <2>3. CASE session'[k] = cache[k]
    BY <2>1, <2>3 DEF Usable
  <2> QED BY <2>2, <2>3
<1> QED BY <1>1, <1>2, <1>3

LEMMA LookupKeeps ==
    ASSUME ResolverInv, LookingUp
    PROVE  ResolverInv'
<1> PICK k \in Lookups : Lookup(k) \/ LookupRaises(k)
  BY DEF LookingUp
<1> USE DEF ResolverInv
<1>1. CASE LookupRaises(k)
  <2>1. Stored' /\ Counted' /\ Following'
    BY <1>1 DEF LookupRaises, stores, observed, Stored, Counted, Following, Usable
  <2>2. call'.pc = "done"
    BY <1>1 DEF LookupRaises, Finished, Waiting
  <2> QED BY <2>1, <2>2 DEF UnderWay, NoNeedlessRequests
<1>2. CASE Lookup(k)
  <2> DEFINE read == IF session[k] = Unread THEN cache[k] ELSE session[k]
  <2>1. /\ now' = now /\ cache' = cache
        /\ session' = [session EXCEPT ![k] = session'[k]]
        /\ session'[k] = IF read.status = "found" /\ read.until > now /\ ~Usable(read, k)
                         THEN NoEntry ELSE read
    BY <1>2 DEF Lookup, Stored
  <2>2. Usable(cache[k], k) => Usable(read, k)
    BY DEF Following
  <2>3. Stored' /\ Counted'
    BY <1>2, <2>1 DEF Lookup, Stored, Counted
  <2>4. Following'
    <3> SUFFICES ASSUME NEW l \in Lookups, session'[l] # Unread, Usable(cache[l], l)
                 PROVE  Usable(session'[l], l)
      BY <2>1 DEF Following, Usable
    <3>1. CASE l = k
      BY <2>1, <2>2, <3>1
    <3>2. CASE l # k
      BY <2>1, <3>2 DEF Following, Stored
    <3> QED BY <3>1, <3>2
  <2>5. call'.pc = "request" => /\ ~Usable(read, k)
                                /\ call' = [Waiting EXCEPT !.pc = "request", !.key = k, !.form = 1]
    BY <1>2 DEF Lookup, Finished, Waiting
  <2>6. NoNeedlessRequests'
    BY <2>1, <2>2, <2>5 DEF NoNeedlessRequests, Usable, Waiting
  <2>7. denied' = 0
    BY <1>2 DEF Lookup
  <2>8. UnderWay'
    <3> SUFFICES ASSUME call'.pc = "request" PROVE UnderWay'
      BY DEF UnderWay
    <3>1. call'.key = k /\ call'.form = 1
      BY <2>5 DEF Waiting
    <3>2. 1 \in 1 .. Len(Forms(k))
      BY FormsCounted
    <3> QED BY <2>5, <2>7, <3>1, <3>2 DEF UnderWay
  <2> QED BY <2>3, <2>4, <2>6, <2>8
<1> QED BY <1>1, <1>2

LEMMA StartKeeps ==
    ASSUME ResolverInv, Starting
    PROVE  ResolverInv'
<1> USE DEF ResolverInv, Starting, ResetResolver, Waiting
<1>1. Stored'
  BY DEF Stored
<1>2. Counted'
  BY ResolverAssumption DEF ResolverAssumption, Counted
<1>3. UnderWay' /\ NoNeedlessRequests'
  BY DEF UnderWay, NoNeedlessRequests
<1>4. Following'
  BY DEF Following
<1> QED BY <1>1, <1>2, <1>3, <1>4

(* A request whose lookup is over leaves nothing under way. *)
LEMMA FinishedKeeps ==
    ASSUME Stored', Counted', Following', call'.pc = "done"
    PROVE  ResolverInv'
BY DEF ResolverInv, UnderWay, NoNeedlessRequests

(* What is stored under the key of a request that was needed.               *)
LEMMA StoringKeeps ==
    ASSUME ResolverInv, call.pc = "request", NEW status, NEW p, NEW kept, now' = now,
           StoreCache(call.key, status, p, kept)
    PROVE  Stored' /\ Following'
<1> USE DEF ResolverInv
<1> DEFINE k == call.key
<1>1. k \in Lookups /\ ~Usable(cache[k], k)
  BY DEF UnderWay, NoNeedlessRequests
<1> PICK entry : /\ session' = [session EXCEPT ![k] = entry]
                 /\ cache' = IF kept THEN [cache EXCEPT ![k] = entry] ELSE cache
  BY DEF StoreCache
<1>2. Stored'
  BY DEF Stored
<1>3. Following'
  <2> SUFFICES ASSUME NEW l \in Lookups, session'[l] # Unread, Usable(cache[l], l)'
               PROVE  Usable(session[l], l)'
    BY DEF Following
  <2>1. CASE l = k
    <3>1. kept
      BY <1>1, <2>1 DEF Usable
    <3> QED BY <1>1, <2>1, <3>1 DEF Stored, Usable
  <2>2. CASE l # k
    BY <2>2 DEF Following, Stored, Usable
  <2> QED BY <2>1, <2>2
<1> QED BY <1>2, <1>3

LEMMA ResolveKeeps ==
    ASSUME ResolverInv, Resolve
    PROVE  ResolverInv'
<1> USE DEF ResolverInv
<1>1. ASSUME RequestNotAdmitted
      PROVE  ResolverInv'
  <2> USE <1>1 DEF RequestNotAdmitted, stores, observed
  <2>1. Stored' /\ Following' /\ call'.pc = "done"
    BY DEF Stored, Following, Usable, Finished, Waiting
  <2>2. Counted'
    BY DEF Counted
  <2> QED BY <2>1, <2>2, FinishedKeeps
<1>2. ASSUME SendRequest, budget' = [budget EXCEPT !.attempts = @ + 1], refused' = refused
      PROVE  Counted'
  BY <1>2, ResolverAssumption DEF ResolverAssumption, SendRequest, Admitted, Counted
<1>3. ASSUME AnswerLimitReached
      PROVE  ResolverInv'
  <2> USE <1>3 DEF AnswerLimitReached, stores
  <2>1. Stored' /\ Following' /\ call'.pc = "done"
    BY DEF Stored, Following, Usable, Finished, Waiting
  <2>2. Counted'
    BY ResolverAssumption DEF ResolverAssumption, Counted, RememberRefusal, SendRequest, Admitted
  <2> QED BY <2>1, <2>2, FinishedKeeps
<1>4. ASSUME NEW status, AnswerFails(status)
      PROVE  ResolverInv'
  <2> USE <1>4 DEF AnswerFails, stores
  <2>1. Stored' /\ Following' /\ call'.pc = "done"
    BY DEF Stored, Following, Usable, Finished, Waiting
  <2> QED BY <1>2, <2>1, FinishedKeeps
<1>5. ASSUME NEW kept \in BOOLEAN, NEW p \in Payloads, AnswerFound(p, kept)
      PROVE  ResolverInv'
  <2> USE <1>5 DEF AnswerFound
  <2>0. Counted' /\ call.pc = "request" /\ call'.pc = "done"
    BY <1>2 DEF SendRequest, Finished, Waiting
  <2>1. CASE Acceptable(p, call.key)
    BY <2>0, <2>1, StoringKeeps, FinishedKeeps
  <2>2. CASE ~Acceptable(p, call.key)
    <3>1. Stored' /\ Following'
      BY <2>2 DEF stores, Stored, Following, Usable
    <3> QED BY <2>0, <3>1, FinishedKeeps
  <2> QED BY <2>1, <2>2
<1>6. ASSUME NEW kept \in BOOLEAN, AnswerNotFound(kept)
      PROVE  ResolverInv'
  <2> USE <1>6 DEF AnswerNotFound
  <2>0. Counted' /\ call.pc = "request"
    BY <1>2 DEF SendRequest
  <2>1. CASE LastForm
    <3>1. call'.pc = "done"
      BY <2>1 DEF Finished, Waiting
    <3> QED BY <2>0, <2>1, <3>1, StoringKeeps, FinishedKeeps
  <2>2. CASE ~LastForm
    <3>1. Stored' /\ Following'
      BY <2>2 DEF stores, Stored, Following, Usable
    <3>2. /\ call' = [call EXCEPT !.form = @ + 1] /\ denied' = denied + 1
          /\ cache' = cache /\ now' = now
      BY <2>2 DEF stores
    <3>3. /\ call'.key = call.key /\ call'.form = call.form + 1
          /\ call' = [Waiting EXCEPT !.pc = "request", !.key = call'.key, !.form = call'.form]
      BY <2>0, <3>2 DEF UnderWay, Waiting
    <3>4. call.form + 1 \in 1 .. Len(Forms(call.key))
      BY <2>0, <2>2, FormsCounted DEF UnderWay, LastForm
    <3>5. UnderWay'
      BY <2>0, <3>2, <3>3, <3>4 DEF UnderWay
    <3>6. NoNeedlessRequests'
      BY <2>0, <3>2, <3>3 DEF NoNeedlessRequests, Usable
    <3> QED BY <2>0, <3>1, <3>5, <3>6
  <2> QED BY <2>1, <2>2
<1> QED BY <1>1, <1>3, <1>4, <1>5, <1>6 DEF Resolve

LEMMA ResolverKept ==
    ASSUME ResolverInv, ResolverStep
    PROVE  ResolverInv'
BY UntouchedKeeps, PrefetchKeeps, LookupKeeps, ResolveKeeps, StartKeeps DEF ResolverStep

-----------------------------------------------------------------------------
(* The shape is kept. *)

LEMMA InitShape == Init => Shape
<1> SUFFICES ASSUME Init PROVE Shape
  OBVIOUS
<1>1. Placed(run)
  BY DEF Init, Idle, Placed, RunRecords, Pcs
<1>2. Asking /\ Told /\ Tasked
  BY DEF Init, Idle, Quiet, NoTask, Asking, Posed, Told, Tasked
<1> QED BY <1>1, <1>2 DEF Init, Shape

LEMMA QuietIsPosed == Posed(Quiet)
BY DEF Posed, Quiet

LEMMA AskedIsPosed ==
    ASSUME NEW ids, NEW sayings, Ask(ids, sayings)
    PROVE  Posed(question') /\ question'.ids = ids /\ question'.says = sayings
BY DEF Ask, Posed, Quiet

LEMMA AnsweredIsPosed ==
    ASSUME Posed(question), Answer
    PROVE  Posed(question') /\ question'.ids = question.ids /\ question'.says = question.says
<1> USE DEF Posed
<1>1. CASE Reply
  <2> PICK reply \in Replies(question.ids, question.says) :
         question' = [question EXCEPT !.pc = "answered", !.answers = Validated(reply, question.ids)]
    BY <1>1 DEF Reply
  <2>1. Validated(reply, question.ids) # NoAnswers
           => Validated(reply, question.ids) \in [question.ids -> question.says]
    BY AnswersAreWhole
  <2> HIDE DEF NoAnswers
  <2> QED BY <2>1
<1>2. CASE Busy
  BY <1>2 DEF Busy, TryAgain
<1>3. CASE Unusable \/ Forbidden \/ Fatal
  BY <1>3 DEF Unusable, Forbidden, Fatal
<1> QED BY <1>1, <1>2, <1>3 DEF Answer

(* Steps that leave the present batch, and steps within it. *)
LEMMA LeavingKeeps ==
    ASSUME Posed(question'), Elsewhere(run')
    PROVE  Asking' /\ Told'
BY DEF Asking, Told, Elsewhere

LEMMA StayingKeeps ==
    ASSUME Told, Posed(question'), run'.pc = run.pc, todo' \subseteq todo, said' = said,
           run.pc \notin {"audit_asked", "reparse_asked"}
    PROVE  Asking' /\ Told'
BY DEF Asking, Told

LEMMA StartTasks ==
    ASSUME NEW e, NEW key \in Lookups, NEW expected, Start(e, key, expected)
    PROVE  Tasked'
BY DEF Start, Tasked

LEMMA NoTaskTasked ==
    ASSUME task' = NoTask
    PROVE  Tasked'
BY DEF Tasked, NoTask

(* An entry's turn is over, with an error or without. *)
LEMMA OverKeeps ==
    ASSUME Shape, NEW after, Placed(after), Elsewhere(after), Posed(question'),
           run.pc \notin {"audit_asked", "reparse_asked"},
           run' = Over(after) \/ run' = Erred(Over(after)), Done
    PROVE  Placed(run') /\ Asking' /\ Told' /\ Tasked' /\ todo' \subseteq Entries
<1> USE DEF Shape
<1>1. todo' \subseteq todo /\ said' = said /\ Tasked'
  BY NoTaskTasked DEF Done
<1>2. CASE Over(after) = run
  <2>1. Placed(run') /\ run'.pc = run.pc
    BY <1>2, PlacedPhases
  <2> QED BY <1>1, <2>1, StayingKeeps
<1>3. CASE Over(after) = after
  <2>1. Placed(run') /\ Elsewhere(run')
    BY <1>3, PlacedPhases DEF Elsewhere
  <2> QED BY <1>1, <2>1, LeavingKeeps
<1> QED BY <1>2, <1>3 DEF Over

LEMMA RssShape ==
    ASSUME Shape, Rss
    PROVE  Shape'
<1> USE DEF Shape, books, work
<1>0. Posed(question)
  BY DEF Asking
<1>1. CASE ReadFeed
  <2>1. Placed(run') /\ Elsewhere(run')
    BY <1>1, PlacedEntries DEF ReadFeed
  <2> QED BY <1>0, <1>1, <2>1, LeavingKeeps DEF ReadFeed, Tasked
<1>2. CASE FeedFails
  <2>1. Placed(run') /\ Elsewhere(run')
    BY <1>2, PlacedFeeds, PlacedPhases DEF FeedFails, Placed, Elsewhere
  <2> QED BY <1>0, <1>2, <2>1, LeavingKeeps DEF FeedFails, Tasked
<1>3. CASE EntryTooOld
  <2>1. Placed(run') /\ Elsewhere(run')
    BY <1>3, PlacedEntries DEF EntryTooOld
  <2> QED BY <1>0, <1>3, <2>1, LeavingKeeps DEF EntryTooOld, Tasked
<1>4. CASE EntryLookup
  <2>1. Tasked'
    BY <1>4, PresentIsEntry, EntryKeysKnown, StartTasks DEF EntryLookup
  <2>2. Placed(run') /\ Elsewhere(run')
    BY <1>4 DEF EntryLookup, Elsewhere
  <2> QED BY <1>0, <1>4, <2>1, <2>2, LeavingKeeps DEF EntryLookup
<1>5. CASE EntryAccepted \/ EntryRejected \/ EntryNotResolved
  <2>1. run.pc = "entry" /\ task' = NoTask /\ todo' = todo /\ mapped' \subseteq mapped
        /\ question' = question
    BY <1>5 DEF EntryAccepted, EntryRejected, EntryNotResolved
  <2>2. \E s \in {NextEntry(run), NextFeed(run)} : run' = s \/ run' = Erred(s)
    BY <1>5 DEF EntryAccepted, EntryRejected, EntryNotResolved, CountedFailure
  <2>3. Placed(run') /\ Elsewhere(run')
    BY <2>1, <2>2, PlacedEntries, PlacedFeeds, PlacedPhases DEF Placed, Elsewhere
  <2> QED BY <1>0, <2>1, <2>3, LeavingKeeps, NoTaskTasked
<1> QED BY <1>1, <1>2, <1>3, <1>4, <1>5 DEF Rss

(* A batch is asked about, and its answers taken up. *)
LEMMA AskBatchKeeps ==
    ASSUME Shape, NEW sayings, NEW next, NEW after, AskBatch(todo, sayings, next, after),
           \/ next = "audit_asked" /\ sayings = Corrections
           \/ next = "reparse_asked" /\ sayings = Extractions,
           Placed(after), Elsewhere(after), todo' = todo, said' = said
    PROVE  Placed(run') /\ Asking' /\ Told'
<1> USE DEF Shape
<1>1. CASE is_available
  <2>1. Ask(todo, sayings) /\ run' = [run EXCEPT !.pc = next]
    BY <1>1 DEF AskBatch
  <2>2. Placed(run') /\ run'.pc = next
    BY <2>1 DEF Placed, RunRecords, Pcs
  <2>3. Posed(question') /\ question'.ids = todo /\ question'.says = sayings
    BY <2>1, AskedIsPosed
  <2> QED BY <2>2, <2>3 DEF Asking, Told
<1>2. CASE ~is_available
  <2>1. run' = Erred(after) /\ question' = question
    BY <1>2 DEF AskBatch
  <2>2. Placed(run') /\ Elsewhere(run')
    BY <2>1, PlacedPhases DEF Elsewhere
  <2> QED BY <2>1, <2>2, LeavingKeeps DEF Asking
<1> QED BY <1>1, <1>2

LEMMA TakeAnswersKeeps ==
    ASSUME Shape, NEW next, NEW after, TakeAnswers(next, after),
           \/ run.pc = "audit_asked" /\ next = "audit"
           \/ run.pc = "reparse_asked" /\ next = "reparse",
           Placed(after), Elsewhere(after), todo' = todo
    PROVE  Placed(run') /\ Asking' /\ Told'
<1> USE DEF Shape
<1>0. Posed(question')
  BY QuietIsPosed DEF TakeAnswers
<1>1. CASE question.answers = NoAnswers
  <2>1. run' = Erred(after)
    BY <1>1 DEF TakeAnswers
  <2>2. Placed(run') /\ Elsewhere(run')
    BY <2>1, PlacedPhases DEF Elsewhere
  <2> QED BY <1>0, <2>2, LeavingKeeps
<1>2. CASE question.answers # NoAnswers
  <2>1. run' = [run EXCEPT !.pc = next] /\ said' = question.answers
    BY <1>2 DEF TakeAnswers
  <2>2. Placed(run') /\ run'.pc = next
    BY <2>1 DEF Placed, RunRecords, Pcs
  <2>3. said' \in [question.ids -> question.says]
    BY <1>2, <2>1 DEF Asking, Posed
  <2> QED BY <1>0, <2>2, <2>3 DEF Asking, Told
<1> QED BY <1>1, <1>2

LEMMA AskCandidateKeeps ==
    ASSUME Shape, AskCandidate, run' = run, todo' = todo, said' = said,
           run.pc \in {"audit", "reparse"}, task.pc = "lookup"
    PROVE  Asking' /\ Told' /\ Tasked'
<1>1. Posed(question')
  BY AskedIsPosed DEF AskCandidate
<1>2. Tasked'
  BY DEF Shape, AskCandidate, Tasked
<1> QED BY <1>1, <1>2, StayingKeeps DEF Shape

LEMMA AuditShape ==
    ASSUME Shape, Audit
    PROVE  Shape'
<1> USE DEF Shape, books, work
<1>0. Posed(question) /\ Posed(Quiet)
  BY QuietIsPosed DEF Asking
<1>a. Placed(AfterAudit(run)) /\ Elsewhere(AfterAudit(run))
  BY PlacedPhases
<1>1. CASE ListTitles
  <2>1. Placed(run') /\ Elsewhere(run')
    BY <1>1, <1>a DEF ListTitles, Placed, RunRecords, Pcs, Elsewhere
  <2> QED BY <1>0, <1>1, <2>1, LeavingKeeps DEF ListTitles, Tasked
<1>2. CASE AuditBatch
  BY <1>2, <1>a, AskBatchKeeps DEF AuditBatch, Tasked
<1>3. CASE AuditAnswers
  BY <1>3, <1>a, TakeAnswersKeeps DEF AuditAnswers, Tasked
<1>4. CASE AuditAsks
  BY <1>4, AskCandidateKeeps DEF AuditAsks
<1>5. CASE AuditDecides
  <2>1. CASE run' = Erred(Finalize(run))
    <3>1. Placed(run') /\ Elsewhere(run')
      BY <2>1, PlacedPhases DEF Elsewhere
    <3> QED BY <1>0, <1>5, <3>1, LeavingKeeps, NoTaskTasked DEF AuditDecides, Done
  <2>2. CASE run' # Erred(Finalize(run))
    <3>1. run' = Over(AfterAudit(run)) \/ run' = Erred(Over(AfterAudit(run)))
      BY <1>5, <2>2 DEF AuditDecides, CountedFailure
    <3> QED BY <1>0, <1>a, <1>5, <3>1, OverKeeps DEF AuditDecides
  <2> QED BY <2>1, <2>2
<1>6. CASE AuditValidated
  BY <1>0, <1>a, <1>6, OverKeeps DEF AuditValidated
<1>7. ASSUME NEW e \in Entries, AuditUnchanged(e)
      PROVE  Shape'
  <2>1. CASE run' = run
    BY <1>0, <1>7, <2>1, StayingKeeps DEF AuditUnchanged, Tasked
  <2>2. CASE run' = AfterAudit(run)
    BY <1>0, <1>a, <1>7, <2>2, LeavingKeeps DEF AuditUnchanged, Tasked
  <2> QED BY <1>7, <2>1, <2>2 DEF AuditUnchanged
<1>8. ASSUME NEW e \in Entries, AuditLookup(e)
      PROVE  Shape'
  <2>1. Tasked'
    BY <1>8, AuditKeysKnown, StartTasks DEF AuditLookup
  <2>2. Asking' /\ Told'
    BY <1>0, <1>8, StayingKeeps DEF AuditLookup
  <2> QED BY <1>8, <2>1, <2>2 DEF AuditLookup
<1> QED BY <1>1, <1>2, <1>3, <1>4, <1>5, <1>6, <1>7, <1>8 DEF Audit

LEMMA ReparseShape ==
    ASSUME Shape, Reparse
    PROVE  Shape'
<1> USE DEF Shape, books, work
<1>0. Posed(question) /\ Posed(Quiet)
  BY QuietIsPosed DEF Asking
<1>a. Placed(AfterReparse(run)) /\ Elsewhere(AfterReparse(run))
  BY PlacedPhases
<1>1. CASE ListRetryable
  <2>1. Placed(run') /\ Elsewhere(run')
    BY <1>1, <1>a DEF ListRetryable, Placed, RunRecords, Pcs, Elsewhere
  <2> QED BY <1>0, <1>1, <2>1, LeavingKeeps DEF ListRetryable, Tasked
<1>2. CASE ReparseBatch
  BY <1>2, <1>a, AskBatchKeeps DEF ReparseBatch, Tasked
<1>3. CASE ReparseAnswers
  BY <1>3, <1>a, TakeAnswersKeeps DEF ReparseAnswers, Tasked
<1>4. CASE ReparseAsks
  BY <1>4, AskCandidateKeeps DEF ReparseAsks
<1>5. CASE ReparseDecides
  <2>1. run' = Over(AfterReparse(run)) \/ run' = Erred(Over(AfterReparse(run)))
    BY <1>5 DEF ReparseDecides, CountedFailure
  <2>2. mapped' \subseteq mapped
    BY <1>5 DEF ReparseDecides, Filed, NotFiled
  <2> QED BY <1>0, <1>a, <1>5, <2>1, <2>2, OverKeeps DEF ReparseDecides
<1>6. CASE ReparseValidated
  <2>1. mapped' \subseteq mapped
    BY <1>6 DEF ReparseValidated, Filed, NotFiled
  <2> QED BY <1>0, <1>a, <1>6, <2>1, OverKeeps DEF ReparseValidated
<1>7. ASSUME NEW e \in Entries, MappedLookup(e)
      PROVE  Shape'
  <2>1. Tasked'
    BY <1>7, EntryKeysKnown, StartTasks DEF MappedLookup
  <2>2. Asking' /\ Told'
    BY <1>0, <1>7, StayingKeeps DEF MappedLookup
  <2> QED BY <1>7, <2>1, <2>2 DEF MappedLookup
<1>8. ASSUME NEW e \in Entries, ReparseLookup(e)
      PROVE  Shape'
  <2>1. Tasked'
    BY <1>8, ReparseKeysKnown, StartTasks DEF ReparseLookup
  <2>2. Asking' /\ Told'
    BY <1>0, <1>8, StayingKeeps DEF ReparseLookup
  <2> QED BY <1>8, <2>1, <2>2 DEF ReparseLookup
<1> QED BY <1>1, <1>2, <1>3, <1>4, <1>5, <1>6, <1>7, <1>8 DEF Reparse

LEMMA StartShape ==
    ASSUME Shape, NEW mode \in Modes, NEW gap, StartRun(mode, gap)
    PROVE  Shape'
<1>1. mode \in {"rss", "all", "recheck-existing", "reparse-unfound"}
  BY MatchingAssumption DEF MatchingAssumption
<1>2. /\ run'.pc \in {"feed", "list", "page"} /\ run' \in RunRecords
      /\ run'.pc = "feed" => run'.feed = 1
  BY <1>1 DEF StartRun, Idle, RunRecords, Pcs
<1>3. Placed(run') /\ Elsewhere(run')
  BY <1>2, FeedsListed DEF Placed, Elsewhere
<1>4. Posed(question')
  BY QuietIsPosed DEF StartRun
<1> QED BY <1>3, <1>4, LeavingKeeps, NoTaskTasked DEF StartRun, Shape

LEMMA ShapeKept ==
    ASSUME Shape, [Next]_vars
    PROVE  Shape'
<1> USE DEF Shape, books, work
<1>0. Posed(question) /\ Posed(Quiet)
  BY QuietIsPosed DEF Asking
<1>1. CASE EndRun \/ Killed
  <2>1. /\ run' \in RunRecords /\ run'.pc = "idle" /\ Posed(question')
        /\ todo' \subseteq Entries /\ mapped' = mapped /\ (task' = task \/ task' = NoTask)
    BY <1>0, <1>1 DEF EndRun, Killed, Placed, RunRecords, Pcs
  <2>2. Placed(run') /\ Elsewhere(run') /\ Tasked'
    BY <2>1, NoTaskTasked DEF Placed, Elsewhere, Tasked
  <2> QED BY <2>1, <2>2, LeavingKeeps
<1>2. CASE Requests \/ TimePasses \/ UNCHANGED vars
  BY <1>2 DEF Requests, TimePasses, CooldownEnds, vars, Asking, Told, Tasked
<1>3. CASE Questions
  <2>1. Posed(question') /\ question'.ids = question.ids /\ question'.says = question.says
    BY <1>0, <1>3, AnsweredIsPosed DEF Questions
  <2> QED BY <1>3, <2>1 DEF Questions, Asking, Told, Tasked
<1> QED BY <1>1, <1>2, <1>3, RssShape, AuditShape, ReparseShape, StartShape DEF Next, Step

-----------------------------------------------------------------------------
(* What a run's requests come to *)

Inv == Shape /\ ResolverInv

LEMMA AlwaysInv == Spec => []Inv
<1>1. Init => Inv
  BY InitShape, InitResolver DEF Inv
<1>2. Inv /\ [Next]_vars => Inv'
  BY ShapeKept, StepsOfResolver, ResolverKept DEF Inv
<1> QED BY <1>1, <1>2, PTL DEF Spec

(* A run sends OMDb no more requests than its limit: whatever its phases    *)
(* ask, for entries, candidates or mappings, goes through one budget that   *)
(* counts each of them (RequestBudget.acquire).                             *)
THEOREM RequestsAlwaysWithinBudget == Spec => []RequestsWithinBudget
<1>1. Inv => RequestsWithinBudget
  BY DEF Inv, ResolverInv, Counted, RequestsWithinBudget
<1> QED BY <1>1, AlwaysInv, PTL

(* The stored cache is never asked over: whatever the session has kept of   *)
(* it, a request under way is for what the cache cannot answer.             *)
THEOREM NeverNeedlessRequests == Spec => []NoNeedlessRequests
<1>1. Inv => NoNeedlessRequests
  BY DEF Inv, ResolverInv
<1> QED BY <1>1, AlwaysInv, PTL

LEMMA QuietStep ==
    ASSUME Inv, [Next]_vars, refused
    PROVE  sent' <= sent
<1> USE DEF Inv, ResolverInv, Counted
<1>1. ResolverStep
  BY StepsOfResolver
<1>2. sent \in Nat /\ ~Admitted
  BY DEF Admitted
<1>3. CASE Untouched \/ Prefetching \/ LookingUp
  <2>1. sent' = sent
    BY <1>3 DEF Untouched, Prefetching, LookingUp, Lookup, LookupRaises, observed
  <2> QED BY <1>2, <2>1
<1>5. CASE Starting
  BY <1>2, <1>5 DEF Starting, ResetResolver
<1>6. CASE Resolve
  <2>1. RequestNotAdmitted
    BY <1>2, <1>6 DEF Resolve, AnswerLimitReached, AnswerNotFound, AnswerFound, AnswerFails,
                      SendRequest
  <2> QED BY <1>2, <2>1 DEF RequestNotAdmitted, observed
<1> QED BY <1>1, <1>3, <1>5, <1>6 DEF ResolverStep

(* Once the provider has said that its limit is reached, nothing more is    *)
(* sent before the next run starts, whichever phase asks.                   *)
THEOREM AlwaysQuietAfterQuota == Spec => QuietAfterQuota
<1>1. Inv /\ [Next]_vars => [refused => sent' <= sent]_vars
  BY QuietStep
<1> QED BY <1>1, AlwaysInv, PTL DEF Spec, QuietAfterQuota

LEMMA WholeStep ==
    ASSUME Inv, [Next]_vars, NEW k \in Lookups,
           cache'[k] # cache[k], cache'[k].status = "confirmed_not_found"
    PROVE  denied' = Len(Forms(k))
<1> USE DEF Inv, ResolverInv
<1>1. ResolverStep
  BY StepsOfResolver
<1>2. Resolve
  BY <1>1 DEF ResolverStep, Untouched, Prefetching, LookingUp, Lookup, LookupRaises, Starting,
              stores
<1>3. PICK kept \in BOOLEAN : \/ AnswerNotFound(kept)
                              \/ \E p \in Payloads : AnswerFound(p, kept)
  BY <1>2 DEF Resolve, RequestNotAdmitted, AnswerLimitReached, AnswerFails, stores
<1>4. call.key \in Lookups /\ call.form \in 1 .. Len(Forms(call.key)) /\ denied = call.form - 1
  BY <1>3 DEF AnswerNotFound, AnswerFound, SendRequest, UnderWay
<1>5. cache = [j \in Lookups |-> cache[j]]
  BY DEF Stored
<1>6. CASE AnswerNotFound(kept)
  <2>1. LastForm /\ StoreCache(call.key, "confirmed_not_found", NoPayload, kept)
    BY <1>6 DEF AnswerNotFound, stores
  <2>2. k = call.key
    BY <1>4, <1>5, <2>1 DEF StoreCache
  <2> QED BY <1>4, <1>6, <2>1, <2>2, FormsCounted DEF AnswerNotFound, LastForm
<1>7. ASSUME NEW p \in Payloads, AnswerFound(p, kept)
      PROVE  FALSE
  <2>1. StoreCache(call.key, "found", p, kept)
    BY <1>7 DEF AnswerFound, stores
  <2>2. k = call.key /\ cache'[k].status = "found"
    BY <1>4, <1>5, <2>1 DEF StoreCache, Entry
  <2> QED BY <2>2
<1> QED BY <1>3, <1>6, <1>7

(* "Not found" is only remembered of a lookup all of whose forms the        *)
(* provider has denied, however the requests before it went.                *)
THEOREM NotFoundAlwaysWhole == Spec => NotFoundIsWhole
<1>1. Inv /\ [Next]_vars =>
      [\A k \in Lookups :
          cache'[k] # cache[k] /\ cache'[k].status = "confirmed_not_found" => denied' = Len(Forms(k))]_vars
  BY WholeStep
<1> QED BY <1>1, AlwaysInv, PTL DEF Spec, NotFoundIsWhole

-----------------------------------------------------------------------------
(* The policy, set against the documented compatibility matrix *)

LEMMA ActualTypes ==
    ASSUME NEW p, NEW r, r = normalize_payload(p)
    PROVE  effective_source_type(r.media, r.source) = IF p.type = "series" THEN "series" ELSE "movie"
<1>1. r.source = normalize_source_type(p.type) /\ r.media = MediaType(r.source, ContentKind(r.genres))
  BY DEF normalize_payload
<1>2. ContentKind(r.genres) \in {"documentary", "short", "standard"}
  BY DEF ContentKind
<1> QED BY <1>1, <1>2 DEF MediaType, effective_source_type, normalize_source_type

LEMMA YearsRead ==
    ASSUME NEW years \in Seq(Nat \ {NoYear}), years # <<>>, Len(years) <= 2
    PROVE  /\ Len(years) \in 1 .. 2 /\ years[1] \in Nat \ {NoYear}
           /\ years[Len(years)] \in Nat \ {NoYear}
<1>1. Len(years) \in Nat /\ Len(years) # 0
  OBVIOUS
<1>2. Len(years) \in 1 .. 2
  <2>1. \A n \in Nat : n # 0 /\ n <= 2 => n \in 1 .. 2
    OBVIOUS
  <2> QED BY <1>1, <2>1
<1>3. \A i \in 1 .. Len(years) : years[i] \in Nat \ {NoYear}
  OBVIOUS
<1> QED BY <1>2, <1>3

LEMMA ReadRange ==
    ASSUME NEW p, PayloadRead(p), NEW r, r = normalize_payload(p), NEW year \in Nat,
           p.type = "series",
           r.range = NoRange \/ Contains(r.range, year)
    PROVE  SeasonFits(p.years, p.ongoing, year)
<1>1. r.range = parse_broadcast_range(p.years, p.ongoing)
  BY DEF normalize_payload, normalize_source_type
<1>2. CASE p.years = <<>>
  BY <1>2 DEF SeasonFits
<1>3. CASE p.years # <<>>
  <2>1. Len(p.years) \in 1 .. 2 /\ p.years[1] \in Nat \ {NoYear} /\ p.years[Len(p.years)] \in Nat \ {NoYear}
    BY <1>3, YearsRead DEF PayloadRead
  <2>2. /\ r.range.start = p.years[1]
        /\ r.range.end = IF Len(p.years) >= 2 THEN p.years[2] ELSE IF p.ongoing THEN NoYear ELSE p.years[1]
    BY <1>1, <1>3 DEF parse_broadcast_range
  <2>3. r.range # NoRange
    BY <2>1, <2>2 DEF NoRange
  <2> QED BY <2>1, <2>2, <2>3 DEF Contains, SeasonFits, NoYear
<1> QED BY <1>2, <1>3

LEMMA NotExcludedRead ==
    ASSUME NEW p, ~Excluded(normalize_payload(p))
    PROVE  NotExcluded(p)
BY DEF Excluded, normalize_payload, NotExcluded

(* What the policy accepts (evaluate_match) is not excluded.  A movie or    *)
(* series it accepts without a mapping is of the expected type, its year    *)
(* or season fits: the documented compatibility matrix (DATA_CONTRACTS).    *)
(* Of the matrix's row for other types nothing is said: the policy takes    *)
(* them for movies.                                                         *)
THEOREM PolicyAsDocumented ==
    ASSUME NEW expected, NEW p, PayloadRead(p), NEW year \in Nat, NEW manual,
           evaluate_match(expected, normalize_payload(p), year, manual) = "accepted"
    PROVE  NotExcluded(p) /\ (~manual /\ KnownType(p) => DocumentedFit(expected, p, year))
<1> DEFINE r == normalize_payload(p)
           actual == effective_source_type(r.media, r.source)
<1>1. NotExcluded(p)
  BY NotExcludedRead DEF evaluate_match
<1>2. ASSUME ~manual, KnownType(p)
      PROVE  DocumentedFit(expected, p, year)
  <2>1. actual = p.type
    BY <1>2, ActualTypes DEF KnownType
  <2>2. YearFits(r, actual, year) /\ ~(expected # "unknown" /\ actual # expected)
    BY <1>2 DEF evaluate_match
  <2>3. TypeFits(expected, p)
    BY <1>2, <2>1, <2>2 DEF TypeFits
  <2>4. CASE p.type = "series"
    <3>1. SeasonFits(p.years, p.ongoing, year)
      BY <2>1, <2>2, <2>4, ReadRange DEF YearFits, SeasonFits
    <3> QED BY <1>1, <2>3, <2>4, <3>1 DEF DocumentedFit
  <2>5. CASE p.type # "series"
    <3>1. year = NoYear \/ r.year = NoYear \/ WithinTolerance(year, r.year)
      BY <2>1, <2>2, <2>5 DEF YearFits
    <3>2. r.year = IF p.years = <<>> THEN NoYear ELSE p.years[1]
      BY DEF normalize_payload
    <3>3. p.years # <<>> => p.years[1] \in Nat \ {NoYear}
      BY DEF PayloadRead
    <3>4. year = NoYear \/ p.years = <<>> \/ year \in p.years[1] - 1 .. p.years[1] + 1
      BY <3>1, <3>2, <3>3 DEF WithinTolerance, NoYear
    <3> QED BY <1>1, <2>3, <2>5, <3>4 DEF DocumentedFit
  <2> QED BY <2>4, <2>5
<1> QED BY <1>1, <1>2

-----------------------------------------------------------------------------
(* What the steps of a run do to the entry under way and to judgements *)

Still == UNCHANGED <<cache, session, call, task, judged>>
Dropping == UNCHANGED <<cache, session, judged>> /\ call' = Waiting /\ task' = NoTask
Fetching == Prefetching /\ UNCHANGED <<task, judged>>
Seeking == judged' = judged /\ \E k \in Lookups : \E e, expected : Start(e, k, expected)
Resolving == Resolve /\ UNCHANGED <<task, judged>>
Consulting == AskCandidate /\ UNCHANGED <<cache, session, call, judged>>
Judging ==
    /\ call.pc = "done" /\ call.status = "found" /\ Decision = "accepted" /\ task.pc # "none"
    /\ Judge
    /\ UNCHANGED <<cache, session>> /\ call' = Waiting /\ task' = NoTask
Opening ==
    /\ UNCHANGED <<cache, judged>> /\ session' = [k \in Lookups |-> Unread]
    /\ call' = Waiting /\ task' = NoTask

MatchingStep == Still \/ Dropping \/ Fetching \/ Seeking \/ Resolving \/ Consulting \/ Judging \/ Opening

(* A candidate is held for the AI's verdict after the policy accepted it,   *)
(* and only when it was looked up by title.                                 *)
Held == task.pc = "validate" =>
    call.pc = "done" /\ call.status = "found" /\ Decision = "accepted" /\ task.key.id = NoId

LEMMA RssMatches ==
    ASSUME Shape, Rss
    PROVE  MatchingStep
<1> USE DEF MatchingStep, resolver, stores, observed
<1>1. CASE ReadFeed
  BY <1>1 DEF ReadFeed, Prefetching, Fetching
<1>2. CASE FeedFails \/ EntryTooOld
  BY <1>2 DEF FeedFails, EntryTooOld, Still
<1>3. CASE EntryLookup
  BY <1>3, PresentIsEntry, EntryKeysKnown DEF EntryLookup, Seeking
<1>4. CASE EntryAccepted
  BY <1>4 DEF EntryAccepted, TakeOutcome, Judging
<1>5. CASE EntryRejected \/ EntryNotResolved
  BY <1>5 DEF EntryRejected, EntryNotResolved, TakeOutcome, Dropping
<1> QED BY <1>1, <1>2, <1>3, <1>4, <1>5 DEF Rss

LEMMA AuditMatches ==
    ASSUME Shape, Held, Audit
    PROVE  MatchingStep
<1> USE DEF MatchingStep, resolver, stores, observed
<1>1. CASE ListTitles \/ AuditBatch \/ AuditAnswers
  BY <1>1 DEF ListTitles, AuditBatch, AuditAnswers, Still
<1>2. CASE AuditAsks
  BY <1>2 DEF AuditAsks, Consulting
<1>3. CASE AuditDecides
  <2>1. /\ call.pc = "done" /\ call' = Waiting /\ task' = NoTask /\ task.pc = "lookup"
        /\ UNCHANGED <<cache, session>>
        /\ judged' = judged \/ (call.status = "found" /\ Decision = "accepted" /\ Judge)
    BY <1>3 DEF AuditDecides, TakeOutcome, Done
  <2> QED BY <2>1 DEF Dropping, Judging
<1>4. CASE AuditValidated
  <2>1. /\ call.pc = "done" /\ call' = Waiting /\ task' = NoTask /\ task.pc = "validate"
        /\ UNCHANGED <<cache, session>>
        /\ judged' = judged \/ Judge
    BY <1>4 DEF AuditValidated, TakeOutcome, Done
  <2> QED BY <2>1 DEF Dropping, Judging, Held
<1>5. ASSUME NEW e \in Entries, AuditUnchanged(e)
      PROVE  MatchingStep
  BY <1>5 DEF AuditUnchanged, Still
<1>6. ASSUME NEW e \in Entries, AuditLookup(e)
      PROVE  MatchingStep
  BY <1>6, AuditKeysKnown DEF AuditLookup, Seeking
<1> QED BY <1>1, <1>2, <1>3, <1>4, <1>5, <1>6 DEF Audit

LEMMA ReparseMatches ==
    ASSUME Shape, Held, Reparse
    PROVE  MatchingStep
<1> USE DEF MatchingStep, resolver, stores, observed
<1>1. CASE ListRetryable \/ ReparseBatch \/ ReparseAnswers
  BY <1>1 DEF ListRetryable, ReparseBatch, ReparseAnswers, Still
<1>2. CASE ReparseAsks
  BY <1>2 DEF ReparseAsks, Consulting
<1>3. CASE ReparseDecides
  <2>1. /\ call.pc = "done" /\ call' = Waiting /\ task' = NoTask /\ task.pc = "lookup"
        /\ UNCHANGED <<cache, session>>
        /\ judged' = judged \/ (call.status = "found" /\ Decision = "accepted" /\ Judge)
    BY <1>3 DEF ReparseDecides, TakeOutcome, Done, Filed, NotFiled
  <2> QED BY <2>1 DEF Dropping, Judging
<1>4. CASE ReparseValidated
  <2>1. /\ call.pc = "done" /\ call' = Waiting /\ task' = NoTask /\ task.pc = "validate"
        /\ UNCHANGED <<cache, session>>
        /\ judged' = judged \/ Judge
    BY <1>4 DEF ReparseValidated, TakeOutcome, Done, Filed, NotFiled
  <2> QED BY <2>1 DEF Dropping, Judging, Held
<1>5. ASSUME NEW e \in Entries, MappedLookup(e)
      PROVE  MatchingStep
  BY <1>5, EntryKeysKnown DEF MappedLookup, Seeking
<1>6. ASSUME NEW e \in Entries, ReparseLookup(e)
      PROVE  MatchingStep
  BY <1>6, ReparseKeysKnown DEF ReparseLookup, Seeking
<1> QED BY <1>1, <1>2, <1>3, <1>4, <1>5, <1>6 DEF Reparse

LEMMA StepsOfMatching ==
    ASSUME Shape, Held, [Next]_vars
    PROVE  MatchingStep
<1> USE DEF resolver, stores, observed, MatchingStep
<1>1. CASE EndRun \/ Questions \/ TimePasses \/ UNCHANGED vars
  BY <1>1 DEF EndRun, Questions, TimePasses, vars, Still
<1>2. CASE Requests
  BY <1>2 DEF Requests, Resolving
<1>3. CASE Killed
  BY <1>3 DEF Killed, Dropping
<1>4. CASE \E mode \in Modes, gap \in Gaps : StartRun(mode, gap)
  BY <1>4 DEF StartRun, ResetResolver, Opening
<1> QED BY <1>1, <1>2, <1>3, <1>4, RssMatches, AuditMatches, ReparseMatches DEF Next, Step

-----------------------------------------------------------------------------
(* The invariant of judgements: what the caches hold is read, what a lookup *)
(* brought is of the lookup's title, and what was accepted fits.            *)

Readable(store) == \A k \in Lookups : store[k].status = "found" => PayloadRead(store[k].payload)
Pursued ==
    /\ task.pc \in {"none", "lookup", "validate"}
    /\ call.pc = "request" => task.pc = "lookup" /\ call.key = task.key
    /\ call.pc = "done" /\ call.status = "found" =>
          PayloadRead(call.payload) /\ Acceptable(call.payload, task.key)
    /\ task.pc = "none" => call = Waiting
JudgedWell == AcceptedAsDocumented /\ MappingsAreObeyed
MatchingInv == Readable(cache) /\ Readable(session) /\ Pursued /\ Held /\ JudgedWell

LEMMA InitMatching == Init => MatchingInv
<1> SUFFICES ASSUME Init PROVE MatchingInv
  OBVIOUS
<1>1. Readable(cache) /\ Readable(session)
  BY MatchingAssumption DEF MatchingAssumption, Kept, Init, Readable, Unread, Entry
<1>2. Pursued /\ Held
  BY DEF Init, Pursued, Held, NoTask, Waiting
<1>3. JudgedWell
  BY DEF Init, JudgedWell, AcceptedAsDocumented, MappingsAreObeyed, NoJudgement, NoLookup
<1> QED BY <1>1, <1>2, <1>3 DEF MatchingInv

LEMMA JudgedStays ==
    ASSUME JudgedWell, judged' = judged
    PROVE  JudgedWell'
BY DEF JudgedWell, AcceptedAsDocumented, MappingsAreObeyed

LEMMA NothingPursued ==
    ASSUME call' = Waiting, task' = NoTask
    PROVE  Pursued' /\ Held'
BY DEF Pursued, Held, Waiting, NoTask

LEMMA JudgingKeeps ==
    ASSUME Shape, MatchingInv, Judging
    PROVE  JudgedWell'
<1> USE DEF MatchingInv
<1> DEFINE p == call.payload
<1>1. judged' = [payload |-> p, key |-> task.key, expected |-> task.expected]
  BY DEF Judging, Judge
<1>2. PayloadRead(p) /\ Acceptable(p, task.key)
  BY DEF Judging, Pursued
<1>3. task.key \in Lookups /\ task.key.year \in Nat
  BY ResolverAssumption DEF ResolverAssumption, Shape, Tasked, Judging
<1>4. /\ NotExcluded(p)
      /\ task.key.id = NoId /\ KnownType(p) => DocumentedFit(task.expected, p, task.key.year)
  BY <1>2, <1>3, PolicyAsDocumented DEF Judging, Decision, Metadata
<1> QED BY <1>1, <1>2, <1>4 DEF JudgedWell, AcceptedAsDocumented, MappingsAreObeyed, Acceptable,
                                matches_imdb_id

LEMMA SeekingKeeps ==
    ASSUME ResolverInv, MatchingInv, Seeking
    PROVE  MatchingInv'
<1> USE DEF MatchingInv
<1>0. PICK k \in Lookups : \E e, expected : Start(e, k, expected)
  BY DEF Seeking
<1>1. PICK e, expected : Start(e, k, expected)
  BY <1>0
<1>2. task' = [pc |-> "lookup", entry |-> e, key |-> k, expected |-> expected]
  BY <1>1 DEF Start
<1>3. CASE Lookup(k)
  <2> DEFINE read == IF session[k] = Unread THEN cache[k] ELSE session[k]
  <2>1. read.status = "found" => PayloadRead(read.payload)
    BY DEF Readable
  <2>2. session' = [session EXCEPT ![k] = NoEntry] \/ session' = [session EXCEPT ![k] = read]
    BY <1>3 DEF Lookup
  <2>3. Readable(session') /\ Readable(cache')
    BY <1>3, <2>1, <2>2 DEF Readable, ResolverInv, Stored, NoEntry, Entry, Lookup
  <2>4. Pursued'
    <3>1. CASE Usable(read, k)
      <4>1. call' = Finished(read.status, read.payload)
        BY <1>3, <3>1 DEF Lookup
      <4>2. read.status = "found" => Acceptable(read.payload, k)
        BY <3>1 DEF Usable
      <4> QED BY <1>2, <2>1, <4>1, <4>2 DEF Finished, Waiting, Pursued
    <3>2. CASE ~Usable(read, k)
      BY <1>2, <1>3, <3>2 DEF Lookup, Finished, Waiting, Pursued
    <3> QED BY <3>1, <3>2
  <2>5. Held'
    BY <1>2 DEF Held
  <2> QED BY <2>3, <2>4, <2>5, JudgedStays DEF Seeking
<1>4. CASE LookupRaises(k)
  BY <1>2, <1>4, JudgedStays DEF LookupRaises, stores, Pursued, Held, Readable, Finished, Waiting, Seeking
<1> QED BY <1>1, <1>3, <1>4 DEF Start

LEMMA StoringReads ==
    ASSUME ResolverInv, Readable(cache), Readable(session), call.key \in Lookups,
           NEW status, NEW p, NEW kept, status = "found" => PayloadRead(p),
           StoreCache(call.key, status, p, kept)
    PROVE  Readable(cache') /\ Readable(session')
BY DEF StoreCache, Readable, ResolverInv, Stored, Entry

LEMMA ResolvingKeeps ==
    ASSUME ResolverInv, MatchingInv, Resolving
    PROVE  MatchingInv'
<1> USE DEF MatchingInv
<1>1. call.pc = "request" /\ call.key \in Lookups /\ task.pc = "lookup" /\ call.key = task.key
  BY DEF Resolving, Resolve, RequestNotAdmitted, AnswerLimitReached, AnswerNotFound, AnswerFound,
         AnswerFails, SendRequest, ResolverInv, UnderWay, Pursued
<1>2. task' = task /\ Held' /\ JudgedWell'
  BY <1>1, JudgedStays DEF Resolving, Held
<1>3. CASE \/ RequestNotAdmitted \/ AnswerLimitReached
           \/ \E status \in {"transport_error", "invalid_request", "unexpected_error"} : AnswerFails(status)
  <2>1. cache' = cache /\ session' = session
        /\ \E status \in Statuses \ {"found"} : call' = Finished(status, NoPayload)
    BY <1>3 DEF RequestNotAdmitted, AnswerLimitReached, AnswerFails, stores, Statuses
  <2> QED BY <1>1, <1>2, <2>1 DEF Finished, Waiting, Pursued, Readable
<1>4. ASSUME NEW kept \in BOOLEAN, AnswerNotFound(kept)
      PROVE  MatchingInv'
  <2>1. CASE LastForm
    <3>1. /\ StoreCache(call.key, "confirmed_not_found", NoPayload, kept)
          /\ call' = Finished("confirmed_not_found", NoPayload)
      BY <1>4, <2>1 DEF AnswerNotFound
    <3>2. Readable(cache') /\ Readable(session')
      BY <1>1, <3>1, StoringReads
    <3> QED BY <1>1, <1>2, <3>1, <3>2 DEF Finished, Waiting, Pursued
  <2>2. CASE ~LastForm
    <3>1. cache' = cache /\ session' = session /\ call' = [call EXCEPT !.form = @ + 1]
      BY <1>4, <2>2 DEF AnswerNotFound, stores
    <3>2. call'.pc = "request" /\ call'.key = task.key
      BY <1>1, <3>1 DEF ResolverInv, UnderWay, Waiting
    <3> QED BY <1>1, <1>2, <3>1, <3>2 DEF Pursued, Readable
  <2> QED BY <2>1, <2>2
<1>5. ASSUME NEW kept \in BOOLEAN, NEW p \in Payloads, AnswerFound(p, kept)
      PROVE  MatchingInv'
  <2>0. PayloadRead(p)
    BY ResolverAssumption DEF ResolverAssumption
  <2>1. CASE Acceptable(p, call.key)
    <3>1. StoreCache(call.key, "found", p, kept) /\ call' = Finished("found", p)
      BY <1>5, <2>1 DEF AnswerFound
    <3>2. Readable(cache') /\ Readable(session')
      BY <1>1, <2>0, <3>1, StoringReads
    <3> QED BY <1>1, <1>2, <2>0, <2>1, <3>1, <3>2 DEF Finished, Waiting, Pursued
  <2>2. CASE ~Acceptable(p, call.key)
    <3>1. cache' = cache /\ session' = session /\ call' = Finished("unexpected_error", NoPayload)
      BY <1>5, <2>2 DEF AnswerFound, stores
    <3> QED BY <1>1, <1>2, <3>1 DEF Finished, Waiting, Pursued, Readable
  <2> QED BY <2>1, <2>2
<1> QED BY <1>3, <1>4, <1>5 DEF Resolving, Resolve

LEMMA MatchingKept ==
    ASSUME Shape, ResolverInv, MatchingInv, MatchingStep
    PROVE  MatchingInv'
<1> USE DEF MatchingInv
<1>1. CASE Still
  BY <1>1, JudgedStays DEF Still, Readable, Pursued, Held, Decision, Metadata
<1>2. CASE Dropping
  BY <1>2, JudgedStays, NothingPursued DEF Dropping, Readable
<1>3. CASE Fetching
  <2>1. Readable(session')
    BY <1>3 DEF Fetching, Prefetching, Prefetch, Readable
  <2>2. UNCHANGED <<cache, call, task, judged>>
    BY <1>3 DEF Fetching, Prefetching
  <2> QED BY <2>1, <2>2, JudgedStays DEF Readable, Pursued, Held, Decision, Metadata
<1>4. CASE Consulting
  <2>1. /\ UNCHANGED <<cache, session, call, judged>> /\ task.key.id = NoId
        /\ call.pc = "done" /\ call.status = "found" /\ Decision = "accepted"
        /\ task' = [task EXCEPT !.pc = "validate"]
    BY <1>4 DEF Consulting, AskCandidate, Validate
  <2>2. task'.pc = "validate" /\ task'.key = task.key /\ task'.expected = task.expected
    BY <2>1 DEF Shape, Tasked
  <2>3. Held'
    BY <2>1, <2>2 DEF Held, Decision, Metadata
  <2> QED BY <2>1, <2>2, <2>3, JudgedStays DEF Readable, Pursued
<1>5. CASE Judging
  BY <1>5, JudgingKeeps, NothingPursued DEF Judging, Readable
<1>6. CASE Opening
  BY <1>6, JudgedStays, NothingPursued DEF Opening, Readable, Unread, Entry
<1> QED BY <1>1, <1>2, <1>3, <1>4, <1>5, <1>6, SeekingKeeps, ResolvingKeeps DEF MatchingStep

LEMMA AlwaysMatchingInv == Spec => [](Inv /\ MatchingInv)
<1>1. Init => MatchingInv
  BY InitMatching
<1>2. Inv /\ MatchingInv /\ [Next]_vars => MatchingInv'
  BY StepsOfMatching, MatchingKept DEF Inv, MatchingInv
<1> QED BY <1>1, <1>2, AlwaysInv, PTL DEF Spec

(* A movie or series filed or proposed by title, in whichever phase, from   *)
(* the caches or from OMDb, with the AI's word or without, fits what was    *)
(* expected as the compatibility matrix says, and nothing excluded is.      *)
THEOREM AlwaysAcceptedAsDocumented == Spec => []AcceptedAsDocumented
<1>1. MatchingInv => AcceptedAsDocumented
  BY DEF MatchingInv, JudgedWell
<1> QED BY <1>1, AlwaysMatchingInv, PTL

(* What is filed by a manual mapping is the title of its id and is not      *)
(* excluded.                                                                *)
THEOREM MappingsAlwaysObeyed == Spec => []MappingsAreObeyed
<1>1. MatchingInv => MappingsAreObeyed
  BY DEF MatchingInv, JudgedWell
<1> QED BY <1>1, AlwaysMatchingInv, PTL

-----------------------------------------------------------------------------
(* A run that succeeds had its questions answered *)

Troubles == {"feed", "omdb", "ai", "candidate"}

(* Troubles the run has yet to take note of. *)
Pending ==
    (IF task.pc = "lookup" /\ call.pc = "done" /\ call.status \notin {"found", "confirmed_not_found"}
     THEN {"omdb"} ELSE {})
    \cup (IF question.pc = "answered" /\ question.answers = NoAnswers /\ run.pc # "reparse"
          THEN {"ai"} ELSE {})

Covered == run.status = "running" \/ run.erred \/ troubles \ Pending \subseteq {"candidate"}

Honest ==
    /\ run.pc # "idle" => run.status = "none"
    /\ run.status = "succeeded" => ~run.erred
    /\ task.pc # "none" => run.pc \in {"entry", "audit", "mapped", "reparse"}
    /\ task.pc = "validate" => run.pc \in {"audit", "reparse"}
    /\ question.pc # "none" => run.pc \in {"audit_asked", "reparse_asked"} \/ task.pc = "validate"
    /\ troubles \subseteq Troubles
    /\ Covered

LEMMA PhasesKeepBooks ==
    ASSUME NEW s, Placed(s)
    PROVE  /\ Finalize(s).erred = s.erred /\ Finalize(s).status = s.status
           /\ AfterReparse(s).erred = s.erred /\ AfterReparse(s).status = s.status
           /\ AfterAudit(s).erred = s.erred /\ AfterAudit(s).status = s.status
           /\ AfterRss(s).erred = s.erred /\ AfterRss(s).status = s.status
           /\ NextFeed(s).erred = s.erred /\ NextFeed(s).status = s.status
           /\ NextEntry(s).erred = s.erred /\ NextEntry(s).status = s.status
           /\ Erred(s).erred /\ Erred(s).status = s.status
<1> USE DEF Placed, RunRecords
<1>1. /\ Finalize(s).erred = s.erred /\ Finalize(s).status = s.status
      /\ Erred(s).erred /\ Erred(s).status = s.status
  BY DEF Finalize, Erred
<1>2. /\ AfterReparse(s).erred = s.erred /\ AfterReparse(s).status = s.status
      /\ AfterAudit(s).erred = s.erred /\ AfterAudit(s).status = s.status
      /\ AfterRss(s).erred = s.erred /\ AfterRss(s).status = s.status
  BY <1>1 DEF AfterReparse, AfterAudit, AfterRss
<1>3. NextFeed(s).erred = s.erred /\ NextFeed(s).status = s.status
  BY <1>2 DEF NextFeed
<1>4. NextEntry(s).erred = s.erred /\ NextEntry(s).status = s.status
  BY <1>3 DEF NextEntry
<1> QED BY <1>1, <1>2, <1>3, <1>4

(* The records that a step of a phase may leave behind. *)
Onward(s) == s.pc # "idle" /\ s.erred = run.erred /\ s.status = run.status
Faulty(s) == s.pc # "idle" /\ s.erred /\ s.status = run.status

LEMMA FaultyPhases ==
    ASSUME NEW s, Placed(s), Onward(s)
    PROVE  Faulty(Erred(s))
BY PhasesKeepBooks, PlacedPhases DEF Onward, Faulty

LEMMA PhasesGoOn ==
    ASSUME NEW s, Placed(s)
    PROVE  /\ Finalize(s).pc # "idle" /\ AfterReparse(s).pc # "idle"
           /\ AfterAudit(s).pc # "idle" /\ AfterRss(s).pc # "idle"
           /\ NextFeed(s).pc # "idle" /\ NextEntry(s).pc # "idle"
<1> USE DEF Placed, RunRecords
<1>1. /\ Finalize(s).pc # "idle" /\ AfterReparse(s).pc # "idle"
      /\ AfterAudit(s).pc # "idle" /\ AfterRss(s).pc # "idle"
  BY DEF Finalize, AfterReparse, AfterAudit, AfterRss
<1>2. NextFeed(s).pc # "idle"
  BY <1>1 DEF NextFeed
<1> QED BY <1>1, <1>2 DEF NextEntry

LEMMA OnwardPhases ==
    ASSUME Placed(run), run.pc # "idle"
    PROVE  /\ Onward(run) /\ Onward(Finalize(run)) /\ Onward(AfterReparse(run)) /\ Onward(AfterAudit(run))
           /\ Onward(NextFeed(run)) /\ Onward(NextEntry(run))
           /\ Onward(Over(AfterAudit(run))) /\ Onward(Over(AfterReparse(run)))
           /\ Faulty(Erred(Finalize(run))) /\ Faulty(Erred(AfterAudit(run))) /\ Faulty(Erred(AfterReparse(run)))
           /\ Faulty(Erred(Over(AfterAudit(run)))) /\ Faulty(Erred(Over(AfterReparse(run))))
<1>1. /\ Onward(run) /\ Onward(Finalize(run)) /\ Onward(AfterReparse(run)) /\ Onward(AfterAudit(run))
      /\ Onward(NextFeed(run)) /\ Onward(NextEntry(run))
  BY PhasesKeepBooks, PhasesGoOn DEF Onward
<1>2. /\ Onward(Over(AfterAudit(run))) /\ Onward(Over(AfterReparse(run)))
      /\ Placed(Over(AfterAudit(run))) /\ Placed(Over(AfterReparse(run)))
  BY <1>1, PlacedPhases DEF Over
<1> QED BY <1>1, <1>2, PlacedPhases, FaultyPhases

(* A step after which nothing is pending: what went wrong is counted, or    *)
(* nothing did.                                                             *)
Settling ==
    /\ run.pc # "idle"
    /\ task'.pc = "none" /\ question'.pc = "none"
    /\ \/ Faulty(run') /\ troubles' \subseteq Troubles
       \/ Onward(run') /\ troubles' = troubles /\ Pending = {}

LEMMA SettlingKeeps ==
    ASSUME Honest, Settling
    PROVE  Honest'
<1>1. Pending' = {}
  BY DEF Settling, Pending
<1> QED BY <1>1 DEF Honest, Settling, Faulty, Onward, Covered

LEMMA SeekingHonest ==
    ASSUME Honest, MatchingInv, task.pc = "none",
           run.pc \in {"entry", "audit", "mapped", "reparse"},
           NEW e, NEW k, NEW expected, Start(e, k, expected), run' = run, question' = question
    PROVE  Honest'
<1>1. question.pc = "none" /\ Pending = {}
  BY DEF Honest, Pending
<1>2. task'.pc = "lookup"
  BY DEF Start
<1>3. \/ troubles' = troubles
      \/ /\ troubles' = troubles \cup {"omdb"}
         /\ call'.pc = "done" /\ call'.status \notin {"found", "confirmed_not_found"}
  BY DEF Start, Noticed
<1>4. Covered'
  BY <1>1, <1>2, <1>3 DEF Covered, Pending, Honest
<1> QED BY <1>1, <1>2, <1>3, <1>4 DEF Honest, Troubles

LEMMA RssHonest ==
    ASSUME Shape, MatchingInv, Honest, Rss
    PROVE  Honest'
<1>0. run.pc \in {"feed", "entry"}
  BY DEF Rss, ReadFeed, FeedFails, EntryTooOld, EntryLookup, EntryAccepted, EntryRejected, EntryNotResolved
<1>a. /\ question.pc = "none" /\ Placed(run) /\ Placed(NextFeed(run)) /\ Placed(NextEntry(run))
      /\ run.pc = "feed" => task.pc = "none"
  BY <1>0, PlacedFeeds, PlacedEntries DEF Shape, Honest, Placed, MatchingInv, Held
<1>b. /\ Onward(NextEntry(run)) /\ Faulty(Erred(NextFeed(run))) /\ Faulty(Erred(NextEntry(run)))
  BY <1>0, <1>a, OnwardPhases, FaultyPhases
<1>c. task.pc = "none" => Pending = {}
  BY <1>a DEF Pending
<1>1. CASE ReadFeed \/ EntryTooOld
  BY <1>0, <1>1, <1>a, <1>b, <1>c, SettlingKeeps DEF ReadFeed, EntryTooOld, Settling
<1>2. CASE FeedFails
  BY <1>0, <1>2, <1>a, <1>b, SettlingKeeps DEF FeedFails, Settling, Honest, Troubles
<1>3. CASE EntryLookup
  BY <1>3, SeekingHonest DEF EntryLookup
<1>4. CASE EntryAccepted \/ EntryRejected
  <2>1. task'.pc = "none" /\ question' = question /\ troubles' = troubles /\ run' = NextEntry(run)
        /\ call.status = "found"
    BY <1>4 DEF EntryAccepted, EntryRejected, NoTask
  <2>2. Pending = {}
    BY <1>a, <2>1 DEF Pending
  <2> QED BY <1>0, <1>a, <1>b, <2>1, <2>2, SettlingKeeps DEF Settling
<1>5. CASE EntryNotResolved
  <2>1. task'.pc = "none" /\ question' = question /\ troubles' = troubles
    BY <1>5 DEF EntryNotResolved, NoTask
  <2>2. \/ call.status = "confirmed_not_found" /\ run' = NextEntry(run)
        \/ run' = Erred(NextFeed(run)) \/ run' = Erred(NextEntry(run))
    BY <1>5 DEF EntryNotResolved, CountedFailure
  <2>3. call.status = "confirmed_not_found" => Pending = {}
    BY <1>a DEF Pending
  <2> QED BY <1>0, <1>a, <1>b, <2>1, <2>2, <2>3, SettlingKeeps DEF Settling, Honest
<1> QED BY <1>1, <1>2, <1>3, <1>4, <1>5 DEF Rss

(* A batch: asked about, or given up with an error. *)
LEMMA AskBatchHonest ==
    ASSUME Honest, Placed(run), task.pc = "none", run.pc \in {"audit_batch", "mapped"}, task' = task,
           NEW ids, NEW sayings, NEW next \in {"audit_asked", "reparse_asked"}, NEW after,
           Faulty(Erred(after)), AskBatch(ids, sayings, next, after)
    PROVE  Honest'
<1>1. question.pc = "none" /\ Pending = {}
  BY DEF Honest, Pending
<1>2. CASE is_available
  <2>1. question'.pc = "asked" /\ run' = [run EXCEPT !.pc = next] /\ troubles' = troubles
    BY <1>2 DEF AskBatch, Ask, Quiet
  <2>2. run'.pc = next /\ run'.erred = run.erred /\ run'.status = run.status
    BY <2>1 DEF Placed, RunRecords
  <2>3. Covered'
    BY <1>1, <2>1, <2>2 DEF Honest, Covered, Pending
  <2> QED BY <1>1, <2>1, <2>2, <2>3 DEF Honest
<1>3. CASE ~is_available
  BY <1>1, <1>3, SettlingKeeps DEF AskBatch, Settling, Honest, Troubles
<1> QED BY <1>2, <1>3

LEMMA TakeAnswersHonest ==
    ASSUME Honest, Placed(run), run.pc \in {"audit_asked", "reparse_asked"}, task' = task, troubles' = troubles,
           NEW next \in {"audit", "reparse"}, NEW after,
           Faulty(Erred(after)), TakeAnswers(next, after)
    PROVE  Honest'
<1>1. task.pc = "none" /\ question'.pc = "none"
  BY DEF Honest, TakeAnswers, Quiet
<1>2. CASE question.answers = NoAnswers
  BY <1>1, <1>2, SettlingKeeps DEF TakeAnswers, Settling, Honest
<1>3. CASE question.answers # NoAnswers
  <2>1. run' = [run EXCEPT !.pc = next] /\ Pending = {}
    BY <1>1, <1>3 DEF TakeAnswers, Pending
  <2>2. Onward(run')
    BY <2>1 DEF Placed, RunRecords, Onward
  <2> QED BY <1>1, <2>1, <2>2, SettlingKeeps DEF Settling
<1> QED BY <1>2, <1>3

LEMMA AskCandidateHonest ==
    ASSUME Shape, Honest, AskCandidate, run' = run, troubles' = troubles, call' = call,
           run.pc \in {"audit", "reparse"}, task.pc = "lookup"
    PROVE  Honest'
<1>1. question.pc = "none" /\ question'.pc = "asked" /\ task'.pc = "validate" /\ Pending = {}
  BY DEF AskCandidate, Ask, Quiet, Shape, Tasked, Pending
<1>2. Covered'
  BY <1>1 DEF Honest, Covered, Pending
<1> QED BY <1>1, <1>2 DEF Honest

LEMMA AuditHonest ==
    ASSUME Shape, MatchingInv, Honest, Audit
    PROVE  Honest'
<1>0. run.pc \in {"list", "audit_batch", "audit_asked", "audit"}
  BY DEF Audit, ListTitles, AuditBatch, AuditAnswers, AuditAsks, AuditDecides, AuditValidated,
         AuditUnchanged, AuditLookup
<1>a. /\ Placed(run) /\ Onward(run) /\ Onward(AfterAudit(run)) /\ Onward(Over(AfterAudit(run)))
      /\ Faulty(Erred(AfterAudit(run))) /\ Faulty(Erred(Over(AfterAudit(run))))
      /\ Faulty(Erred(Finalize(run)))
  BY <1>0, OnwardPhases DEF Shape
<1>b. /\ run.pc # "audit" => task.pc = "none"
      /\ task.pc = "none" /\ question.pc = "none" => Pending = {}
      /\ task.pc # "validate" /\ run.pc \in {"list", "audit_batch", "audit"} => question.pc = "none"
  BY <1>0 DEF Honest, Pending
<1>1. CASE ListTitles
  <2>1. run' = AfterAudit(run) \/ run' = [run EXCEPT !.pc = "audit_batch"]
    BY <1>1 DEF ListTitles
  <2>2. Onward(run')
    BY <1>a, <2>1 DEF Onward, Placed, RunRecords
  <2> QED BY <1>0, <1>b, <1>1, <2>2, SettlingKeeps DEF ListTitles, Settling
<1>2. CASE AuditBatch
  BY <1>a, <1>b, <1>2, AskBatchHonest DEF AuditBatch
<1>3. CASE AuditAnswers
  BY <1>a, <1>3, TakeAnswersHonest DEF AuditAnswers
<1>4. CASE AuditAsks
  BY <1>4, AskCandidateHonest DEF AuditAsks, resolver
<1>5. CASE AuditDecides
  <2>1. task'.pc = "none" /\ question' = question /\ troubles' = troubles /\ task.pc = "lookup"
    BY <1>5 DEF AuditDecides, Done, NoTask
  <2>2. question.pc = "none"
    BY <1>0, <1>b, <2>1
  <2>3. \/ call.status \in {"found", "confirmed_not_found"} /\ run' = Over(AfterAudit(run))
        \/ run' = Erred(Finalize(run)) \/ run' = Erred(Over(AfterAudit(run)))
    BY <1>5 DEF AuditDecides, CountedFailure
  <2>4. call.status \in {"found", "confirmed_not_found"} => Pending = {}
    BY <2>2 DEF Pending
  <2> QED BY <1>0, <1>a, <2>1, <2>2, <2>3, <2>4, SettlingKeeps DEF Settling, Honest
<1>6. CASE AuditValidated
  <2>1. task'.pc = "none" /\ question'.pc = "none" /\ troubles' = troubles /\ task.pc = "validate"
    BY <1>6 DEF AuditValidated, Done, NoTask, Quiet
  <2>2. \/ question.answers # NoAnswers /\ run' = Over(AfterAudit(run))
        \/ run' = Erred(Over(AfterAudit(run)))
    BY <1>6 DEF AuditValidated, SaidOfCandidate
  <2>3. question.answers # NoAnswers => Pending = {}
    BY <2>1 DEF Pending
  <2> QED BY <1>0, <1>a, <2>1, <2>2, <2>3, SettlingKeeps DEF Settling, Honest
<1>7. ASSUME NEW e \in Entries, AuditUnchanged(e)
      PROVE  Honest'
  <2>1. run.pc = "audit" /\ task' = task /\ task.pc = "none" /\ question' = question
        /\ troubles' = troubles /\ (run' = AfterAudit(run) \/ run' = run)
    BY <1>7 DEF AuditUnchanged
  <2> QED BY <1>0, <1>a, <1>b, <2>1, SettlingKeeps DEF Settling
<1>8. ASSUME NEW e \in Entries, AuditLookup(e)
      PROVE  Honest'
  BY <1>8, SeekingHonest DEF AuditLookup
<1> QED BY <1>1, <1>2, <1>3, <1>4, <1>5, <1>6, <1>7, <1>8 DEF Audit

LEMMA ReparseHonest ==
    ASSUME Shape, MatchingInv, Honest, Reparse
    PROVE  Honest'
<1>0. run.pc \in {"page", "mapped", "reparse_asked", "reparse"}
  BY DEF Reparse, ListRetryable, ReparseBatch, ReparseAnswers, ReparseAsks, ReparseDecides,
         ReparseValidated, MappedLookup, ReparseLookup
<1>a. /\ Placed(run) /\ Onward(run) /\ Onward(AfterReparse(run)) /\ Onward(Over(AfterReparse(run)))
      /\ Faulty(Erred(AfterReparse(run))) /\ Faulty(Erred(Over(AfterReparse(run))))
  BY <1>0, OnwardPhases DEF Shape
<1>b. /\ run.pc \in {"page", "reparse_asked"} => task.pc = "none"
      /\ task.pc = "none" /\ question.pc = "none" => Pending = {}
      /\ task.pc # "validate" /\ run.pc \in {"page", "mapped", "reparse"} => question.pc = "none"
  BY <1>0 DEF Honest, Pending
<1>1. CASE ListRetryable
  <2>1. run' = AfterReparse(run) \/ run' = [run EXCEPT !.pc = "mapped"]
    BY <1>1 DEF ListRetryable
  <2>2. Onward(run')
    BY <1>a, <2>1 DEF Onward, Placed, RunRecords
  <2> QED BY <1>0, <1>b, <1>1, <2>2, SettlingKeeps DEF ListRetryable, Settling
<1>2. CASE ReparseBatch
  BY <1>a, <1>b, <1>2, AskBatchHonest DEF ReparseBatch
<1>3. CASE ReparseAnswers
  BY <1>a, <1>3, TakeAnswersHonest DEF ReparseAnswers
<1>4. CASE ReparseAsks
  BY <1>4, AskCandidateHonest DEF ReparseAsks, resolver
<1>5. CASE ReparseDecides
  <2>1. task'.pc = "none" /\ question' = question /\ troubles' = troubles /\ task.pc = "lookup"
    BY <1>5 DEF ReparseDecides, Done, NoTask
  <2>2. question.pc = "none"
    BY <1>5, <1>b, <2>1 DEF ReparseDecides
  <2>3. \/ call.status \in {"found", "confirmed_not_found"} /\ run' = Over(AfterReparse(run))
        \/ run' = Erred(Over(AfterReparse(run)))
    BY <1>5 DEF ReparseDecides, CountedFailure
  <2>4. call.status \in {"found", "confirmed_not_found"} => Pending = {}
    BY <2>2 DEF Pending
  <2> QED BY <1>0, <1>a, <2>1, <2>2, <2>3, <2>4, SettlingKeeps DEF Settling, Honest
<1>6. CASE ReparseValidated
  <2>1. task'.pc = "none" /\ question'.pc = "none" /\ troubles' = troubles /\ task.pc = "validate"
        /\ run.pc = "reparse" /\ run' = Over(AfterReparse(run))
    BY <1>6 DEF ReparseValidated, Done, NoTask, Quiet
  <2>2. Pending = {}
    BY <2>1 DEF Pending
  <2> QED BY <1>0, <1>a, <2>1, <2>2, SettlingKeeps DEF Settling
<1>7. ASSUME NEW e \in Entries, MappedLookup(e) \/ ReparseLookup(e)
      PROVE  Honest'
  BY <1>7, SeekingHonest DEF MappedLookup, ReparseLookup
<1> QED BY <1>1, <1>2, <1>3, <1>4, <1>5, <1>6, <1>7 DEF Reparse

LEMMA AnsweredHonest ==
    ASSUME Honest, Questions
    PROVE  Honest'
<1>1. question.pc = "asked" /\ Pending \subseteq {"omdb"}
  BY DEF Questions, Answer, Reply, Busy, Unusable, Forbidden, Fatal, Pending
<1>2. UNCHANGED <<run, task, call>>
  BY DEF Questions, resolver
<1>3. CASE question'.pc = "answered" /\ question'.answers = NoAnswers
  <2>1. troubles' = troubles \cup {IF run.pc = "reparse" THEN "candidate" ELSE "ai"}
    BY <1>3 DEF Questions
  <2>2. Covered'
    BY <1>1, <1>2, <1>3, <2>1 DEF Honest, Covered, Pending
  <2> QED BY <1>1, <1>2, <2>1, <2>2 DEF Honest, Troubles
<1>4. CASE ~(question'.pc = "answered" /\ question'.answers = NoAnswers)
  <2>1. troubles' = troubles
    BY <1>4 DEF Questions
  <2>2. Covered'
    BY <1>1, <1>2, <1>4, <2>1 DEF Honest, Covered, Pending
  <2> QED BY <1>1, <1>2, <2>1, <2>2 DEF Honest
<1> QED BY <1>3, <1>4

LEMMA RequestsHonest ==
    ASSUME ResolverInv, MatchingInv, Honest, Requests
    PROVE  Honest'
<1>1. call.pc = "request" /\ task.pc = "lookup"
  BY DEF Requests, Resolve, RequestNotAdmitted, AnswerLimitReached, AnswerNotFound, AnswerFound,
         AnswerFails, SendRequest, MatchingInv, Pursued
<1>2. UNCHANGED <<run, task, question>> /\ Noticed
  BY DEF Requests
<1>3. Covered'
  BY <1>1, <1>2 DEF Honest, Covered, Pending, Noticed
<1> QED BY <1>1, <1>2, <1>3 DEF Honest, Troubles, Noticed

LEMMA HonestKept ==
    ASSUME Inv, MatchingInv, Honest, [Next]_vars
    PROVE  Honest'
<1> USE DEF Inv
<1>1. CASE EndRun
  <2>1. /\ task' = task /\ question' = question /\ troubles' = troubles
        /\ run.pc = "end" /\ task.pc = "none" /\ question.pc = "none"
    BY <1>1 DEF EndRun, Honest
  <2>2. /\ run'.pc = "idle" /\ run'.erred = run.erred /\ run.erred \in BOOLEAN
        /\ run'.status = IF run.erred THEN "partial" ELSE "succeeded"
    BY <1>1 DEF EndRun, Shape, Placed, RunRecords
  <2>3. Pending = {} /\ run.status = "none"
    BY <2>1 DEF Pending, Honest
  <2> QED BY <2>1, <2>2, <2>3 DEF Honest, Covered
<1>2. CASE Killed
  <2>1. run'.status = "running" /\ run'.pc = "idle" /\ task'.pc = "none" /\ question'.pc = "none"
        /\ troubles' = troubles
    BY <1>2 DEF Killed, Shape, Placed, RunRecords, NoTask, Quiet
  <2> QED BY <2>1 DEF Honest, Covered
<1>3. CASE \E mode \in Modes, gap \in Gaps : StartRun(mode, gap)
  <2>1. run'.status = "none" /\ task'.pc = "none" /\ question'.pc = "none" /\ troubles' = {}
    BY <1>3 DEF StartRun, Idle, NoTask, Quiet
  <2> QED BY <2>1 DEF Honest, Covered
<1>4. CASE TimePasses \/ UNCHANGED vars
  <2>1. UNCHANGED <<run, task, question, troubles, call>>
    BY <1>4 DEF TimePasses, CooldownEnds, vars, resolver
  <2> QED BY <2>1 DEF Honest, Covered, Pending
<1> QED BY <1>1, <1>2, <1>3, <1>4, RssHonest, AuditHonest, ReparseHonest, AnsweredHonest,
           RequestsHonest DEF Next, Step

(* A run that ends as succeeded had every feed, every lookup and every      *)
(* question it asked answered, but for candidates of reparsing, on which    *)
(* the AI's silence is passed over.                                         *)
THEOREM TroubleAlwaysShows == Spec => []TroubleShows
<1>1. Init => Honest
  BY DEF Init, Honest, Covered, Idle, NoTask, Quiet
<1>2. Inv /\ MatchingInv /\ Honest /\ [Next]_vars => Honest'
  BY HonestKept
<1>3. Honest => TroubleShows
  BY DEF Honest, Covered, Pending, TroubleShows
<1> QED BY <1>1, <1>2, <1>3, AlwaysMatchingInv, PTL DEF Spec

-----------------------------------------------------------------------------
(* The types, and what a finished lookup carries *)

(* What the stores hold is what OMDb may have said, so that a lookup that   *)
(* is answered from them carries what a request would have brought.         *)
AllKept(store) == \A k \in Lookups : Kept(store[k])
Finishing == call.pc = "done" => call.status \in Statuses /\ call.payload \in EntriesOf(call.status)
Answering ==
    /\ now \in Nat /\ denied \in 0 .. 2 /\ refused \in BOOLEAN
    /\ AllKept(cache) /\ AllKept(session) /\ Finishing

LEMMA InitAnswering == Init => Answering
<1> SUFFICES ASSUME Init PROVE Answering
  OBVIOUS
<1>1. AllKept(cache) /\ AllKept(session)
  BY MatchingAssumption DEF MatchingAssumption, Init, AllKept, Kept, Unread, Entry
<1>2. now \in Nat /\ denied \in 0 .. 2 /\ Finishing
  BY DEF Init, Finishing, Waiting
<1>3. refused \in BOOLEAN
  BY DEF Init
<1> QED BY <1>1, <1>2, <1>3 DEF Answering

LEMMA FinishedCarries ==
    ASSUME NEW status \in Statuses, NEW p \in EntriesOf(status), call' = Finished(status, p)
    PROVE  Finishing'
BY DEF Finishing, Finished, Waiting

LEMMA LookupAnswers ==
    ASSUME ResolverInv, Answering, LookingUp
    PROVE  Answering'
<1> USE DEF Answering
<1> PICK k \in Lookups : Lookup(k) \/ LookupRaises(k)
  BY DEF LookingUp
<1>1. CASE LookupRaises(k)
  <2>1. Finishing'
    BY <1>1, FinishedCarries DEF LookupRaises, Statuses, EntriesOf
  <2> QED BY <1>1, <2>1 DEF LookupRaises, stores, observed, AllKept
<1>2. CASE Lookup(k)
  <2> DEFINE read == IF session[k] = Unread THEN cache[k] ELSE session[k]
  <2>1. Kept(read)
    BY DEF AllKept
  <2>2. now' = now /\ denied' = 0 /\ refused' = refused /\ AllKept(cache')
    BY <1>2 DEF Lookup
  <2>3. session' = [session EXCEPT ![k] = NoEntry] \/ session' = [session EXCEPT ![k] = read]
    BY <1>2 DEF Lookup
  <2>4. AllKept(session')
    BY <2>1, <2>3 DEF AllKept, Kept, ResolverInv, Stored, NoEntry, Entry
  <2>5. Finishing'
    <3>1. CASE Usable(read, k)
      <4>1. call' = Finished(read.status, read.payload)
        BY <1>2, <3>1 DEF Lookup
      <4>2. read.status \in Statuses /\ read.payload \in EntriesOf(read.status)
        BY <2>1, <3>1 DEF Usable, Acceptable, Kept, Statuses, EntriesOf
      <4> QED BY <4>1, <4>2, FinishedCarries
    <3>2. CASE ~Usable(read, k)
      <4>1. call' = Finished("quota_exhausted", NoPayload) \/ call'.pc = "request"
        BY <1>2, <3>2 DEF Lookup, Waiting
      <4> QED BY <4>1, FinishedCarries DEF Finishing, Statuses, EntriesOf
    <3> QED BY <3>1, <3>2
  <2> QED BY <2>2, <2>4, <2>5
<1> QED BY <1>1, <1>2

LEMMA StoringAnswers ==
    ASSUME ResolverInv, Answering, call.key \in Lookups,
           NEW status \in {"found", "confirmed_not_found"}, NEW p \in EntriesOf(status), NEW kept,
           StoreCache(call.key, status, p, kept)
    PROVE  AllKept(cache') /\ AllKept(session')
<1> DEFINE days == IF status = "found" \/ CacheDays < 2 THEN CacheDays ELSE 2
           entry == Entry(status, p, now + days)
<1>1. days \in Nat
  BY ResolverAssumption DEF ResolverAssumption
<1>2. Kept(entry)
  BY <1>1, ResolverAssumption DEF ResolverAssumption, Answering, Kept, Entry, EntriesOf
<1>3. /\ session' = [session EXCEPT ![call.key] = entry]
      /\ cache' = [cache EXCEPT ![call.key] = entry] \/ cache' = cache
  BY DEF StoreCache
<1> HIDE DEF entry
<1> QED BY <1>2, <1>3 DEF Answering, AllKept, ResolverInv, Stored

LEMMA ResolveAnswers ==
    ASSUME ResolverInv, Answering, Resolve
    PROVE  Answering'
<1> USE DEF Answering
<1>0. NoPayload \in EntriesOf("quota_exhausted") /\ NoPayload \in EntriesOf("transport_error")
      /\ NoPayload \in EntriesOf("invalid_request") /\ NoPayload \in EntriesOf("unexpected_error")
      /\ NoPayload \in EntriesOf("confirmed_not_found")
  BY DEF EntriesOf
<1>1. CASE RequestNotAdmitted \/ AnswerLimitReached
  <2>1. Finishing'
    BY <1>0, <1>1, FinishedCarries DEF RequestNotAdmitted, AnswerLimitReached, Statuses
  <2> QED BY <1>1, <2>1 DEF RequestNotAdmitted, AnswerLimitReached, stores, observed, AllKept
<1>2. ASSUME NEW status \in {"transport_error", "invalid_request", "unexpected_error"}, AnswerFails(status)
      PROVE  Answering'
  <2>1. Finishing'
    BY <1>0, <1>2, FinishedCarries DEF AnswerFails, Statuses
  <2> QED BY <1>2, <2>1 DEF AnswerFails, stores, AllKept
<1>3. ASSUME NEW kept \in BOOLEAN, NEW p \in Payloads, AnswerFound(p, kept)
      PROVE  Answering'
  <2> USE <1>3 DEF AnswerFound
  <2>1. call.key \in Lookups /\ now' = now /\ denied' = denied /\ refused' = refused
    BY DEF SendRequest, ResolverInv, UnderWay
  <2>2. CASE Acceptable(p, call.key)
    <3>1. p \in EntriesOf("found")
      BY DEF EntriesOf
    <3>2. Finishing'
      BY <2>2, <3>1, FinishedCarries DEF Statuses
    <3> QED BY <2>1, <2>2, <3>1, <3>2, StoringAnswers
  <2>3. CASE ~Acceptable(p, call.key)
    <3>1. Finishing'
      BY <1>0, <2>3, FinishedCarries DEF Statuses
    <3> QED BY <2>1, <2>3, <3>1 DEF stores, AllKept
  <2> QED BY <2>2, <2>3
<1>4. ASSUME NEW kept \in BOOLEAN, AnswerNotFound(kept)
      PROVE  Answering'
  <2> USE <1>4 DEF AnswerNotFound
  <2>1. /\ call.pc = "request" /\ call.key \in Lookups /\ now' = now /\ refused' = refused
        /\ denied' = denied + 1 /\ denied = call.form - 1 /\ call.form \in 1 .. Len(Forms(call.key))
    BY DEF SendRequest, ResolverInv, UnderWay
  <2>2. denied' \in 0 .. 2
    <3>1. Len(Forms(call.key)) \in 1 .. 2
      BY FormsCounted
    <3>2. \A n \in 1 .. 2 : \A form \in 1 .. n : (form - 1) + 1 \in 0 .. 2
      OBVIOUS
    <3>3. (call.form - 1) + 1 \in 0 .. 2
      BY <2>1, <3>1, <3>2
    <3> QED BY <2>1, <3>3
  <2>3. CASE LastForm
    <3>1. Finishing'
      BY <1>0, <2>3, FinishedCarries DEF Statuses
    <3> QED BY <1>0, <2>1, <2>2, <2>3, <3>1, StoringAnswers
  <2>4. CASE ~LastForm
    <3>1. call'.pc = "request"
      BY <2>1, <2>4 DEF ResolverInv, UnderWay, Waiting
    <3> QED BY <2>1, <2>2, <2>4, <3>1 DEF stores, AllKept, Finishing
  <2> QED BY <2>3, <2>4
<1> QED BY <1>1, <1>2, <1>3, <1>4 DEF Resolve

LEMMA AnsweringKept ==
    ASSUME ResolverInv, Answering, ResolverStep
    PROVE  Answering'
<1>1. CASE Untouched
  BY <1>1 DEF Answering, Untouched, AllKept, Finishing, Waiting
<1>2. CASE Prefetching
  <2>1. PICK keys : Prefetch(keys)
    BY <1>2 DEF Prefetching
  <2>2. AllKept(session')
    BY <2>1 DEF Prefetch, AllKept, Answering
  <2> QED BY <1>2, <2>2 DEF Answering, Prefetching, AllKept, Finishing
<1>3. CASE Starting
  <2>1. PICK gap \in Gaps : ResetResolver(now + gap)
    BY <1>3 DEF Starting
  <2>2. now' \in Nat
    BY <2>1, MatchingAssumption DEF MatchingAssumption, ResetResolver, Answering
  <2>3. AllKept(session')
    BY <2>1 DEF ResetResolver, AllKept, Kept, Unread, Entry
  <2>4. denied' \in 0 .. 2 /\ Finishing' /\ AllKept(cache')
    BY <1>3, <2>1 DEF Answering, Starting, ResetResolver, AllKept, Finishing, Waiting
  <2>5. refused' \in BOOLEAN
    BY <2>1 DEF ResetResolver
  <2> QED BY <2>2, <2>3, <2>4, <2>5 DEF Answering
<1> QED BY <1>1, <1>2, <1>3, LookupAnswers, ResolveAnswers DEF ResolverStep

(* What goes wrong is counted up to its bound. *)
Bounded == failures \in 0 .. MaxFailures
Failing == failures' = failures \/ (failures < MaxFailures /\ failures' = failures + 1)

LEMMA StepsOfFailures ==
    ASSUME [Next]_vars
    PROVE  Failing
<1> USE DEF Failing, resolver
<1>1. ASSUME NEW e, NEW key, NEW expected, Start(e, key, expected)
      PROVE  Failing
  BY <1>1 DEF Start, Lookup, LookupRaises
<1>2. CASE Rss
  <2>1. CASE EntryLookup
    BY <1>1, <2>1 DEF EntryLookup
  <2>2. CASE ReadFeed \/ FeedFails \/ EntryTooOld
    BY <2>2 DEF ReadFeed, FeedFails, EntryTooOld
  <2>3. CASE EntryAccepted \/ EntryRejected \/ EntryNotResolved
    BY <2>3 DEF EntryAccepted, EntryRejected, EntryNotResolved
  <2> QED BY <1>2, <2>1, <2>2, <2>3 DEF Rss
<1>3. CASE Audit
  <2>1. CASE ListTitles \/ AuditBatch \/ AuditAnswers \/ AuditAsks
    BY <2>1 DEF ListTitles, AuditBatch, AuditAnswers, AuditAsks
  <2>2. CASE AuditDecides \/ AuditValidated
    BY <2>2 DEF AuditDecides, AuditValidated
  <2>3. CASE \E e \in Entries : AuditUnchanged(e) \/ AuditLookup(e)
    BY <1>1, <2>3 DEF AuditUnchanged, AuditLookup
  <2> QED BY <1>3, <2>1, <2>2, <2>3 DEF Audit
<1>4. CASE Reparse
  <2>1. CASE ListRetryable \/ ReparseBatch \/ ReparseAnswers \/ ReparseAsks
    BY <2>1 DEF ListRetryable, ReparseBatch, ReparseAnswers, ReparseAsks
  <2>2. CASE ReparseDecides \/ ReparseValidated
    BY <2>2 DEF ReparseDecides, ReparseValidated
  <2>3. CASE \E e \in Entries : MappedLookup(e) \/ ReparseLookup(e)
    BY <1>1, <2>3 DEF MappedLookup, ReparseLookup
  <2> QED BY <1>4, <2>1, <2>2, <2>3 DEF Reparse
<1>5. CASE Requests
  BY <1>5 DEF Requests, Resolve, RequestNotAdmitted, AnswerLimitReached, AnswerNotFound, AnswerFound,
              AnswerFails
<1>6. CASE EndRun \/ Questions \/ TimePasses \/ Killed
  BY <1>6 DEF EndRun, Questions, TimePasses, Killed
<1>7. CASE \E mode \in Modes, gap \in Gaps : StartRun(mode, gap)
  BY <1>7 DEF StartRun
<1>8. CASE UNCHANGED vars
  BY <1>8 DEF vars
<1> QED BY <1>2, <1>3, <1>4, <1>5, <1>6, <1>7, <1>8 DEF Next, Step

LEMMA BoundedKept ==
    ASSUME Bounded, [Next]_vars
    PROVE  Bounded'
BY StepsOfFailures, ResolverAssumption DEF ResolverAssumption, Bounded, Failing

(* A question is asked at most MaxRetries times. *)
Patient == question.attempt \in 0 .. MaxRetries

(* Where a run is while it decides on an entry, and while it asks the AI.   *)
Led ==
    /\ task.pc # "none" => /\ call.pc \in {"request", "done"} /\ task.entry \in Entries
                           /\ run.pc \in {"entry", "audit", "mapped", "reparse"}
    /\ task.pc = "validate" => run.pc \in {"audit", "reparse"}
    /\ question.pc # "none" => run.pc \in {"audit_asked", "reparse_asked"} \/ task.pc = "validate"

Logged == log \in [Entries -> EntryStates] /\ fresh \subseteq Entries

(* What an entry's log becomes. *)
Logging ==
    \/ log' = log /\ (fresh' = fresh \/ fresh' = {})
    \/ task.pc # "none" /\ \E state \in EntryStates : Log(task.entry, state)

LEMMA LoggedKept ==
    ASSUME Logged, Led, Logging
    PROVE  Logged'
BY DEF Logged, Led, Logging, Log

LEMMA FreeIsLed ==
    ASSUME task'.pc = "none", question'.pc = "none"
    PROVE  Led'
BY DEF Led

LEMMA FreeTask == NoTask.pc = "none" /\ Quiet.pc = "none" /\ Quiet.attempt = 0
BY DEF NoTask, Quiet

LEMMA StartIsLed ==
    ASSUME NEW e \in Entries, NEW key, NEW expected, Start(e, key, expected), question' = question,
           question.pc = "none", run' = run, run.pc \in {"entry", "audit", "mapped", "reparse"}
    PROVE  Led'
<1>1. task' = [pc |-> "lookup", entry |-> e, key |-> key, expected |-> expected]
  BY DEF Start
<1>2. call'.pc \in {"request", "done"}
  BY DEF Start, Lookup, LookupRaises, Finished, Waiting
<1> QED BY <1>1, <1>2 DEF Led

LEMMA AskIsPatient ==
    ASSUME NEW ids, NEW sayings, Ask(ids, sayings)
    PROVE  question.pc = "none" /\ question'.attempt \in 0 .. MaxRetries /\ question'.pc = "asked"
BY AiAssumption DEF AiAssumption, Ask, Quiet

LEMMA AskBatchIsLed ==
    ASSUME Shape, Led, Patient, NEW ids, NEW sayings, NEW next \in {"audit_asked", "reparse_asked"}, NEW after,
           AskBatch(ids, sayings, next, after), task.pc = "none", task' = task,
           run.pc \notin {"audit_asked", "reparse_asked"}
    PROVE  Led' /\ Patient'
<1>1. question.pc = "none"
  BY DEF Led
<1>2. CASE is_available
  <2>1. Ask(ids, sayings) /\ run' = [run EXCEPT !.pc = next]
    BY <1>2 DEF AskBatch
  <2>2. run'.pc = next
    BY <2>1 DEF Shape, Placed, RunRecords
  <2> QED BY <2>1, <2>2, AskIsPatient DEF Led, Patient
<1>3. CASE ~is_available
  BY <1>1, <1>3, FreeIsLed DEF AskBatch, Patient
<1> QED BY <1>2, <1>3

LEMMA AskCandidateIsLed ==
    ASSUME Shape, Led, AskCandidate, task.pc = "lookup", run' = run, run.pc \in {"audit", "reparse"},
           call' = call
    PROVE  Led' /\ Patient'
<1>1. /\ task'.pc = "validate" /\ task'.entry = task.entry /\ task.entry \in Entries
  BY DEF AskCandidate, Led, Shape, Tasked
<1>2. call.pc = "done" /\ Ask({task.entry}, Verdicts)
  BY DEF AskCandidate
<1> QED BY <1>1, <1>2, AskIsPatient DEF Led, Patient

LEMMA TakenIsLed ==
    ASSUME NEW next, NEW after, TakeAnswers(next, after), task' = task, task.pc = "none"
    PROVE  Led' /\ Patient'
BY FreeIsLed, FreeTask, AiAssumption DEF AiAssumption, TakeAnswers, Patient

LEMMA AnswerIsPatient ==
    ASSUME Shape, Patient, Answer
    PROVE  Patient' /\ question.pc # "none"
<1> USE AiAssumption DEF AiAssumption, Patient, Shape, Asking, Posed
<1>1. CASE Reply
  BY <1>1 DEF Reply
<1>2. CASE Busy
  BY <1>2 DEF Busy, TryAgain
<1>3. CASE Unusable \/ Forbidden \/ Fatal
  BY <1>3 DEF Unusable, Forbidden, Fatal
<1> QED BY <1>1, <1>2, <1>3 DEF Answer

LEMMA RssIsLed ==
    ASSUME Shape, Led, Logged, Patient, Rss
    PROVE  Led' /\ Logged' /\ Patient'
<1> USE DEF books, work
<1>0. run.pc \in {"feed", "entry"} /\ question.pc = "none" /\ question' = question
  <2>1. run.pc \in {"feed", "entry"}
    BY DEF Rss, ReadFeed, FeedFails, EntryTooOld, EntryLookup, EntryAccepted, EntryRejected, EntryNotResolved
  <2>2. question' = question
    BY DEF Rss, ReadFeed, FeedFails, EntryTooOld, EntryLookup, EntryAccepted, EntryRejected, EntryNotResolved
  <2> QED BY <2>1, <2>2 DEF Led
<1>1. CASE ReadFeed \/ FeedFails \/ EntryTooOld
  <2>1. task.pc = "none" /\ task' = task /\ log' = log /\ fresh' = fresh
    BY <1>1 DEF ReadFeed, FeedFails, EntryTooOld, Led
  <2> QED BY <1>0, <2>1, FreeIsLed DEF Logged, Patient
<1>2. CASE EntryLookup
  BY <1>0, <1>2, PresentIsEntry, StartIsLed DEF EntryLookup, Logged, Patient
<1>3. CASE EntryAccepted \/ EntryRejected \/ EntryNotResolved
  <2>1. task.pc = "lookup" /\ task' = NoTask
    BY <1>3 DEF EntryAccepted, EntryRejected, EntryNotResolved
  <2>2. Logging
    BY <1>3 DEF EntryAccepted, EntryRejected, EntryNotResolved, LogOfFailure, EntryStates, Logging
  <2> QED BY <1>0, <2>1, <2>2, FreeIsLed, FreeTask, LoggedKept DEF Patient
<1> QED BY <1>1, <1>2, <1>3 DEF Rss

LEMMA AuditIsLed ==
    ASSUME Shape, Led, Logged, Patient, Audit
    PROVE  Led' /\ Logged' /\ Patient'
<1> USE DEF books, work
<1>0. log' = log /\ fresh' = fresh
  BY DEF Audit, ListTitles, AuditBatch, AuditAnswers, AuditAsks, AuditDecides, AuditValidated,
         AuditUnchanged, AuditLookup
<1>1. Logged'
  BY <1>0 DEF Logged
<1>2. CASE ListTitles
  <2>1. task.pc = "none" /\ task' = task /\ question.pc = "none" /\ question' = question
    BY <1>2 DEF ListTitles, Led
  <2> QED BY <1>1, <2>1, FreeIsLed DEF Patient
<1>3. CASE AuditBatch
  <2>1. task.pc = "none" /\ task' = task
    BY <1>3 DEF AuditBatch, Led
  <2> QED BY <1>1, <1>3, <2>1, AskBatchIsLed DEF AuditBatch
<1>4. CASE AuditAnswers
  <2>1. task.pc = "none" /\ task' = task
    BY <1>4 DEF AuditAnswers, Led
  <2> QED BY <1>1, <1>4, <2>1, TakenIsLed DEF AuditAnswers
<1>5. CASE AuditAsks
  BY <1>1, <1>5, AskCandidateIsLed DEF AuditAsks, resolver
<1>6. CASE AuditDecides
  <2>1. task' = NoTask /\ question.pc = "none" /\ question' = question
    BY <1>6 DEF AuditDecides, Done, Led
  <2> QED BY <1>1, <2>1, FreeIsLed, FreeTask DEF Patient
<1>7. CASE AuditValidated
  <2>1. task' = NoTask /\ question' = Quiet
    BY <1>7 DEF AuditValidated, Done
  <2> QED BY <1>1, <2>1, FreeIsLed, FreeTask, AiAssumption DEF AiAssumption, Patient
<1>8. ASSUME NEW e \in Entries, AuditUnchanged(e)
      PROVE  Led' /\ Patient'
  <2>1. task.pc = "none" /\ task' = task /\ question.pc = "none" /\ question' = question
    BY <1>8 DEF AuditUnchanged, Led
  <2> QED BY <2>1, FreeIsLed DEF Patient
<1>9. ASSUME NEW e \in Entries, AuditLookup(e)
      PROVE  Led' /\ Patient'
  <2>1. question.pc = "none" /\ question' = question /\ run' = run
    BY <1>9 DEF AuditLookup, Led
  <2> QED BY <1>9, <2>1, StartIsLed DEF AuditLookup, Patient
<1> QED BY <1>1, <1>2, <1>3, <1>4, <1>5, <1>6, <1>7, <1>8, <1>9 DEF Audit

LEMMA ReparseIsLed ==
    ASSUME Shape, Led, Logged, Patient, Reparse
    PROVE  Led' /\ Logged' /\ Patient'
<1> USE DEF books, work
<1>1. Logged'
  <2>1. CASE ReparseDecides \/ ReparseValidated
    <3>1. Logging
      BY <2>1 DEF ReparseDecides, ReparseValidated, Filed, NotFiled, LogOfFailure, EntryStates, Logging
    <3> QED BY <3>1, LoggedKept
  <2>2. CASE ~(ReparseDecides \/ ReparseValidated)
    BY <2>2 DEF Reparse, ListRetryable, ReparseBatch, ReparseAnswers, ReparseAsks, MappedLookup,
                ReparseLookup, Logged
  <2> QED BY <2>1, <2>2
<1>2. CASE ListRetryable
  <2>1. task.pc = "none" /\ task' = task /\ question.pc = "none" /\ question' = question
    BY <1>2 DEF ListRetryable, Led
  <2> QED BY <1>1, <2>1, FreeIsLed DEF Patient
<1>3. CASE ReparseBatch
  BY <1>1, <1>3, AskBatchIsLed DEF ReparseBatch
<1>4. CASE ReparseAnswers
  <2>1. task.pc = "none" /\ task' = task
    BY <1>4 DEF ReparseAnswers, Led
  <2> QED BY <1>1, <1>4, <2>1, TakenIsLed DEF ReparseAnswers
<1>5. CASE ReparseAsks
  BY <1>1, <1>5, AskCandidateIsLed DEF ReparseAsks, resolver
<1>6. CASE ReparseDecides
  <2>1. task' = NoTask /\ question.pc = "none" /\ question' = question
    BY <1>6 DEF ReparseDecides, Done, Led
  <2> QED BY <1>1, <2>1, FreeIsLed, FreeTask DEF Patient
<1>7. CASE ReparseValidated
  <2>1. task' = NoTask /\ question' = Quiet
    BY <1>7 DEF ReparseValidated, Done
  <2> QED BY <1>1, <2>1, FreeIsLed, FreeTask, AiAssumption DEF AiAssumption, Patient
<1>8. ASSUME NEW e \in Entries, MappedLookup(e)
      PROVE  Led' /\ Patient'
  <2>1. question.pc = "none" /\ question' = question /\ run' = run
    BY <1>8 DEF MappedLookup, Led
  <2> QED BY <1>8, <2>1, StartIsLed DEF MappedLookup, Patient
<1>9. ASSUME NEW e \in Entries, ReparseLookup(e)
      PROVE  Led' /\ Patient'
  <2>1. question.pc = "none" /\ question' = question /\ run' = run
    BY <1>9 DEF ReparseLookup, Led
  <2> QED BY <1>9, <2>1, StartIsLed DEF ReparseLookup, Patient
<1> QED BY <1>1, <1>2, <1>3, <1>4, <1>5, <1>6, <1>7, <1>8, <1>9 DEF Reparse

LEMMA LedKept ==
    ASSUME Shape, ResolverInv, Led, Logged, Patient, [Next]_vars
    PROVE  Led' /\ Logged' /\ Patient'
<1> USE DEF books, work
<1>1. CASE EndRun
  <2>1. task.pc = "none" /\ task' = task /\ question.pc = "none" /\ question' = question
    BY <1>1 DEF EndRun, Led
  <2> QED BY <1>1, <2>1, FreeIsLed DEF EndRun, Logged, Patient
<1>2. CASE Killed
  BY <1>2, FreeIsLed, FreeTask, AiAssumption DEF AiAssumption, Killed, Logged, Patient
<1>3. CASE \E mode \in Modes, gap \in Gaps : StartRun(mode, gap)
  BY <1>3, FreeIsLed, FreeTask, AiAssumption DEF AiAssumption, StartRun, Logged, Patient
<1>4. CASE Requests
  <2>1. call'.pc \in {"request", "done"}
    BY <1>4 DEF Requests, Resolve, RequestNotAdmitted, AnswerLimitReached, AnswerNotFound, AnswerFound,
                AnswerFails, SendRequest, Finished, Waiting, ResolverInv, UnderWay
  <2> QED BY <1>4, <2>1 DEF Requests, Led, Logged, Patient
<1>5. CASE Questions
  BY <1>5, AnswerIsPatient DEF Questions, resolver, Led, Logged
<1>6. CASE TimePasses \/ UNCHANGED vars
  BY <1>6 DEF TimePasses, CooldownEnds, vars, resolver, Led, Logged, Patient
<1> QED BY <1>1, <1>2, <1>3, <1>4, <1>5, <1>6, RssIsLed, AuditIsLed, ReparseIsLed DEF Next, Step

TypeInv == Answering /\ Bounded /\ Led /\ Logged /\ Patient

LEMMA InitTypes == Init => TypeInv
<1> SUFFICES ASSUME Init PROVE TypeInv
  OBVIOUS
<1>1. Bounded /\ Logged
  BY ResolverAssumption DEF ResolverAssumption, Init, Bounded, Logged, EntryStates
<1>2. Led /\ Patient
  BY FreeTask, AiAssumption DEF AiAssumption, Init, Led, Patient
<1> QED BY <1>1, <1>2, InitAnswering DEF TypeInv

LEMMA AlwaysTypeInv == Spec => []TypeInv
<1>1. Inv /\ TypeInv /\ [Next]_vars => TypeInv'
  BY StepsOfResolver, AnsweringKept, BoundedKept, LedKept DEF Inv, TypeInv
<1> QED BY <1>1, InitTypes, AlwaysInv, PTL DEF Spec

(* The variables have their types, a finished lookup carries a payload that *)
(* OMDb may give when it was found and none otherwise, and an entry is      *)
(* decided on exactly while a lookup is under way or finished for it.       *)
THEOREM MatchingTypes == Spec => []TypeOK
<1>1. Inv /\ MatchingInv /\ TypeInv => TypeOK
  <2> SUFFICES ASSUME Inv, MatchingInv, TypeInv PROVE TypeOK
    OBVIOUS
  <2> USE DEF Inv, TypeInv
  <2>1. now \in Nat /\ sent \in Nat /\ failures \in 0 .. MaxFailures
    BY DEF ResolverInv, Counted, Answering, Bounded
  <2>2. \A k \in Lookups : cache[k].until \in Nat /\ session[k].until \in Nat
    BY DEF Answering, AllKept, Kept
  <2>3. budget \in [attempts : 0 .. RequestLimit, exhausted : BOOLEAN]
    <3>1. budget.attempts \in 0 .. RequestLimit
      BY ResolverAssumption DEF ResolverAssumption, ResolverInv, Counted
    <3> QED BY <3>1 DEF ResolverInv, Counted
  <2>4. call.pc = "request" => call.key \in Lookups /\ call.form \in DOMAIN Forms(call.key)
    BY DEF ResolverInv, UnderWay, Forms
  <2>5. call.pc = "done" => call.status \in Statuses /\ call.payload \in EntriesOf(call.status)
    BY DEF Answering, Finishing
  <2>6. question.attempt \in 0 .. MaxRetries
    BY DEF Patient
  <2>7. question.answers # NoAnswers => DOMAIN question.answers = question.ids
    BY DEF Shape, Asking, Posed
  <2>8. log \in [Entries -> EntryStates] /\ mapped \subseteq Entries /\ fresh \subseteq Entries
        /\ todo \subseteq Entries
    BY DEF Logged, Shape
  <2>9. refused \in BOOLEAN /\ denied \in 0 .. 2
    BY DEF Answering, ResolverInv, Counted
  <2>10. (task.pc = "none") = (call.pc = "none")
    BY DEF MatchingInv, Pursued, Led, Waiting
  <2>11. question.pc # "none" => run.pc # "idle"
    BY DEF Led
  <2> QED BY <2>1, <2>2, <2>3, <2>4, <2>5, <2>6, <2>7, <2>8, <2>9, <2>10, <2>11 DEF TypeOK
<1> QED BY <1>1, AlwaysInv, AlwaysMatchingInv, AlwaysTypeInv, PTL

=============================================================================
