-------------------------- MODULE MetadataResolver --------------------------
(***************************************************************************)
(* OmdbResolver and OmdbClient: one lookup at a time through the session's *)
(* copy of the cache, the stored cache, and as many requests as the lookup *)
(* has forms, each let through by the run's request budget.                *)
(***************************************************************************)
EXTENDS MatchPolicy

CONSTANTS
    Lookups,      \* what may be asked: records [title, year, type, id]
    Payloads,     \* what OMDb may answer with
    NoId,         \* the id of a lookup by title
    Blank,        \* the title of a payload without one
    NoPayload,
    RequestLimit, \* omdb_limit
    CacheDays,    \* cache_ttl_days
    MaxFailures   \* bounds everything that goes wrong

(* A Year field has at most two years. *)
PayloadRead(p) == p.years \in Seq(Nat \ {NoYear}) /\ Len(p.years) <= 2

ASSUME ResolverAssumption ==
    /\ \A k \in Lookups : /\ k = [title |-> k.title, year |-> k.year, type |-> k.type, id |-> k.id]
                          /\ k.year \in Nat /\ k.type \in SourceTypes
    /\ \A p \in Payloads : PayloadRead(p)
    /\ RequestLimit \in Nat /\ CacheDays \in Nat /\ MaxFailures \in Nat

VARIABLES
    now,      \* the day the run started
    cache,    \* omdbCache/{cache key}
    session,  \* _session_cache
    budget,   \* RequestBudget
    call,     \* the lookup under way
    failures,
    sent,     \* observed: the requests the transport has carried in this run
    refused,  \* observed: whether OMDb has said in this run that its limit is reached
    denied    \* observed: how many forms of this lookup OMDb answered "not found"

stores == <<cache, session>>
observed == <<sent, refused, denied>>
resolver == <<now, cache, session, budget, call, failures, sent, refused, denied>>

Statuses == {"found", "confirmed_not_found", "quota_exhausted", "transport_error",
             "invalid_request", "unexpected_error", "raised"}

Entry(status, payload, until) == [status |-> status, payload |-> payload, until |-> until]
NoEntry == Entry("none", NoPayload, 0)
Unread == Entry("unread", NoPayload, 0)

Waiting == [pc |-> "none", key |-> NoPayload, form |-> 0, status |-> "none", payload |-> NoPayload]
Finished(status, payload) ==
    [Waiting EXCEPT !.pc = "done", !.status = status, !.payload = payload]

(* get_by_imdb_id and get_movie_info: a series is asked for without a year, *)
(* anything else with its year, if there is one, and then without.          *)
Forms(k) ==
    IF k.id # NoId THEN <<"id">>
    ELSE IF k.type = "series" \/ k.year = NoYear THEN <<"undated">>
    ELSE <<"dated", "undated">>

matches_imdb_id(p, k) == k.id = NoId \/ p.id = k.id

(* Mutant: whatever the request for an id brings is taken. *)
AnyPayload(p, k) == p.title # Blank

(* _is_valid_result and _matches_imdb_id. *)
Acceptable(p, k) == p.title # Blank /\ matches_imdb_id(p, k)

Usable(e, k) ==
    /\ e.until > now
    /\ e.status = "confirmed_not_found" \/ (e.status = "found" /\ Acceptable(e.payload, k))

(* Mutant: the session remembers only what the repository took. *)
StoreCacheDurably(k, status, p, kept) ==
    LET days == IF status = "found" \/ CacheDays < 2 THEN CacheDays ELSE 2
        entry == Entry(status, p, now + days)
    IN
    /\ session' = session
    /\ cache' = IF kept THEN [cache EXCEPT ![k] = entry] ELSE cache

(* _store_cache: the session's copy first; the write may fail in silence. *)
StoreCache(k, status, p, kept) ==
    LET days == IF status = "found" \/ CacheDays < 2 THEN CacheDays ELSE 2
        entry == Entry(status, p, now + days)
    IN
    /\ session' = [session EXCEPT ![k] = entry]
    /\ cache' = IF kept THEN [cache EXCEPT ![k] = entry] ELSE cache

-----------------------------------------------------------------------------
(* start_run, in a process of its own. *)
ResetResolver(day) ==
    /\ now' = day
    /\ session' = [k \in Lookups |-> Unread]
    /\ budget' = [attempts |-> 0, exhausted |-> FALSE]
    /\ call' = Waiting
    /\ sent' = 0 /\ refused' = FALSE /\ denied' = 0

(* prefetch *)
Prefetch(keys) ==
    session' = [k \in Lookups |-> IF k \in keys /\ session[k] = Unread THEN cache[k] ELSE session[k]]

(* _resolve up to the first request; titles are not empty, ids well formed. *)
Lookup(k) ==
    LET read == IF session[k] = Unread THEN cache[k] ELSE session[k] IN
    /\ call.pc = "none"
    /\ call' = IF Usable(read, k) THEN Finished(read.status, read.payload)
               ELSE IF budget.exhausted THEN Finished("quota_exhausted", NoPayload)
               ELSE [Waiting EXCEPT !.pc = "request", !.key = k, !.form = 1]
    /\ session' = [session EXCEPT ![k] =
                      IF read.status = "found" /\ read.until > now /\ ~Usable(read, k)
                      THEN NoEntry ELSE read]
    /\ denied' = 0
    /\ UNCHANGED <<now, cache, budget, failures, sent, refused>>

(* The repository cannot be read. *)
LookupRaises(k) ==
    /\ call.pc = "none"
    /\ session[k] = Unread
    /\ failures < MaxFailures
    /\ failures' = failures + 1
    /\ call' = Finished("raised", NoPayload)
    /\ UNCHANGED <<now, stores, budget, observed>>

(* Mutant: the guard is asked once for each lookup. *)
AdmittedOnce == call.form > 1 \/ (~budget.exhausted /\ budget.attempts < RequestLimit)

(* RequestBudget.acquire *)
Admitted == ~budget.exhausted /\ budget.attempts < RequestLimit

RequestNotAdmitted ==
    /\ call.pc = "request"
    /\ ~Admitted
    /\ budget' = [budget EXCEPT !.exhausted = TRUE]
    /\ call' = Finished("quota_exhausted", NoPayload)
    /\ UNCHANGED <<now, stores, failures, observed>>

SendRequest ==
    /\ call.pc = "request"
    /\ Admitted
    /\ sent' = sent + 1

(* Mutant: any answer but a title ends the search. *)
LastFormAlways == TRUE

LastForm == call.form = Len(Forms(call.key))

AnswerNotFound(kept) ==
    /\ SendRequest
    /\ budget' = [budget EXCEPT !.attempts = @ + 1]
    /\ denied' = denied + 1
    /\ IF LastForm
       THEN /\ StoreCache(call.key, "confirmed_not_found", NoPayload, kept)
            /\ call' = Finished("confirmed_not_found", NoPayload)
       ELSE /\ call' = [call EXCEPT !.form = @ + 1]
            /\ kept /\ UNCHANGED stores
    /\ kept \/ failures < MaxFailures
    /\ failures' = IF kept THEN failures ELSE failures + 1
    /\ UNCHANGED <<now, refused>>

AnswerFound(p, kept) ==
    /\ SendRequest
    /\ budget' = [budget EXCEPT !.attempts = @ + 1]
    /\ IF Acceptable(p, call.key)
       THEN /\ StoreCache(call.key, "found", p, kept)
            /\ call' = Finished("found", p)
       ELSE /\ call' = Finished("unexpected_error", NoPayload)
            /\ kept /\ UNCHANGED stores
    /\ kept \/ failures < MaxFailures
    /\ failures' = IF kept THEN failures ELSE failures + 1
    /\ UNCHANGED <<now, refused, denied>>

(* Mutant: the provider's limit ends this lookup only. *)
ForgetRefusal == [budget EXCEPT !.attempts = @ + 1]

RememberRefusal == [attempts |-> budget.attempts + 1, exhausted |-> TRUE]

AnswerLimitReached ==
    /\ SendRequest
    /\ failures < MaxFailures
    /\ failures' = failures + 1
    /\ refused' = TRUE
    /\ budget' = RememberRefusal
    /\ call' = Finished("quota_exhausted", NoPayload)
    /\ UNCHANGED <<now, stores, denied>>

(* No answer, or one that refuses the request, the key or for any other     *)
(* reason: nothing is remembered.                                           *)
AnswerFails(status) ==
    /\ SendRequest
    /\ failures < MaxFailures
    /\ failures' = failures + 1
    /\ budget' = [budget EXCEPT !.attempts = @ + 1]
    /\ call' = Finished(status, NoPayload)
    /\ UNCHANGED <<now, stores, refused, denied>>

Resolve ==
    \/ RequestNotAdmitted
    \/ AnswerLimitReached
    \/ \E kept \in BOOLEAN : AnswerNotFound(kept)
    \/ \E kept \in BOOLEAN, p \in Payloads : AnswerFound(p, kept)
    \/ \E status \in {"transport_error", "invalid_request", "unexpected_error"} : AnswerFails(status)

(* The caller takes the outcome. *)
TakeOutcome == call.pc = "done" /\ call' = Waiting

=============================================================================
