------------------------ MODULE ScannerOutcomeProofs ------------------------
(***************************************************************************)
(* More proofs about Scanner, for any sets of titles, entries and runs,    *)
(* any feeds, modes and bounds: what the page "latest" shows, and, of runs *)
(* one at a time, what a mapping that goes has done and which logs stay.   *)
(***************************************************************************)
EXTENDS ScannerProofs, WellFoundedInduction

-----------------------------------------------------------------------------
(* The page: candidates against what was accepted *)

Earlier(p, q) == p[1] < q[1] \/ (p[1] = q[1] /\ p[2] < q[2])

Seen(A, t) == \E n \in DOMAIN A : A[n][1] = t

(* In A, t comes for the first time before u ever does. *)
Sooner(A, t, u) ==
    \E m \in DOMAIN A : A[m][1] = t /\ \A n \in DOMAIN A : A[n][1] = u => m < n

(* The candidates are the movies and series accepted, in their order. *)
Traced(c, A) ==
    /\ \A t \in Titles : t \in Found(c) <=> Kind[t] # "unknown" /\ Seen(A, t)
    /\ \A t, u \in Found(c) : Earlier(c[t], c[u]) <=> Sooner(A, t, u)

(* The first k items of the page of candidates c. *)
Laid(c, k) == {<<BuiltItems(c)[n], n>> : n \in 1 .. k}

Page(status, c, k) ==
    [status |-> status, count |-> Cardinality(Found(c)), items |-> Laid(c, k)]

(* The memory s of a run that accepted A, met an error or not, and has d as *)
(* its snapshot.                                                            *)
Telling(s, A, erred, d) ==
    /\ s.pc = "idle" => A = <<>> /\ ~erred
    /\ s.pc \notin {"idle"} \cup Over => (s.clean => ~erred) /\ Traced(s.cands, A)
    /\ s.pc \in {"stage", "items", "promote"} => s.clean
    /\ s.pc = "items" => d = Page("staging", s.cands, s.at - 1)
    /\ s.pc = "promote" => d = Page("staging", s.cands, Cardinality(Found(s.cands)))

(* A run that "latest" points at is past publishing, met no error, and      *)
(* shows all it came upon.                                                  *)
Shown(r) ==
    /\ scan[r].pc \in {"close"} \cup Over
    /\ r \notin troubled
    /\ \E c \in [Titles -> Positions] :
          /\ \E f \in Nat : Ranked(c, f)
          /\ Traced(c, accepted[r])
          /\ snaps[r] = Page("ready", c, Cardinality(Found(c)))
          /\ Found(c) \subseteq titles

-----------------------------------------------------------------------------
(* Runs one at a time: mappings in use and logs to be deleted, where L are  *)
(* the entries that have a log, and D those that are to be retried          *)

Logged == {i \in Items : logs[i] # NoLog}

Pending(s, i) == \E n \in DOMAIN s.newLogs : s.newLogs[n][1] = i

(* Every entry whose mapping was used has a log, stored or to be. *)
Backed(s, L) == \A x \in Range(s.used) : x[1] \in L \/ Pending(s, x[1])

Noted(s, L, D) ==
    s.pc \notin {"idle"} \cup Over =>
        /\ Backed(s, L)
        /\ s.pc = "logs" => \A n \in 1 .. s.at - 1 : s.newLogs[n][1] \in L
        /\ s.pc \in {"open", "query", "prune"} => s.used = <<>>
        /\ s.pc = "saveUsed" => s.item \in L
        /\ s.pc = "prune" => s.victims \cap D = {}

(* One run at a time knows what becomes of its mappings and logs. *)
Alone ==
    /\ \A p, q \in Runs : Active(p) /\ Active(q) => p = q
    /\ \A r \in Runs : Noted(scan[r], Logged, Retryable)

Told ==
    /\ \A r \in Runs : Telling(scan[r], accepted[r], r \in troubled, snaps[r])
    /\ pointer # NoRun => Shown(pointer)
    /\ Serialized => Alone

-----------------------------------------------------------------------------
(* Where a run goes on *)

Onward == {"fetch", "entry", "reload", "page", "reparse", "saveTitle", "saveOcc", "saveLog",
           "saveRetry", "finish", "logs", "titles", "occs", "used", "stage", "close"}

(* Nothing but the place has changed of what the invariants look at. *)
Same(s, k) ==
    /\ k \in RunMemory
    /\ k.cands = s.cands /\ k.newLogs = s.newLogs /\ k.used = s.used
    /\ k.clean => s.clean

(* The run has ended, or goes on with what it has. *)
Follows(s, m) ==
    \/ m.pc \in Over
    \/ /\ m.cands = s.cands /\ m.newLogs = s.newLogs /\ m.used = s.used
       /\ m.clean => s.clean
       /\ m.pc \in Onward
       /\ m.pc = "logs" => m.at = 1
       /\ m.pc = "stage" => m.clean

LEMMA SameFollows ==
    ASSUME NEW s, NEW k, NEW m, Same(s, k), Follows(k, m)
    PROVE  Follows(s, m)
  BY DEF Same, Follows

LEMMA SameSame ==
    ASSUME NEW s, NEW k, NEW m, Same(s, k), Same(k, m)
    PROVE  Same(s, m)
  BY DEF Same

LEMMA DeadFollows ==
    ASSUME NEW s
    PROVE  Follows(s, Blank("dead"))
  BY DEF Follows, Blank, Over

LEMMA MovedFollows ==
    ASSUME NEW s \in RunMemory, NEW pc \in Onward \ {"logs", "stage"}
    PROVE  Follows(s, [s EXCEPT !.pc = pc])
  BY DEF Follows, RunMemory

LEMMA StartedFollows ==
    ASSUME NEW s \in RunMemory, NEW pc \in Onward \ {"stage"}
    PROVE  Follows(s, [s EXCEPT !.pc = pc, !.at = 1])
  BY DEF Follows, RunMemory

LEMMA ErredIsSame ==
    ASSUME NEW s \in RunMemory
    PROVE  /\ Same(s, Erred(s)) /\ Erred(s).clean = s.clean /\ Erred(s).pc = s.pc
           /\ Same(s, RssErred(s)) /\ RssErred(s).clean = FALSE /\ RssErred(s).pc = s.pc
<1> DEFINE status == IF s.status = "failed" THEN s.status ELSE "partial"
           m == Erred(s)
<1>1. Same(s, m) /\ m.clean = s.clean /\ m.pc = s.pc
  <2>1. m = [s EXCEPT !.status = status]
    BY DEF Erred
  <2>2. status \in {"succeeded", "partial", "failed"}
    BY DEF RunMemory
  <2> HIDE DEF status, m
  <2> QED
    BY <2>1, <2>2 DEF Same, RunMemory
<1> DEFINE n == [m EXCEPT !.clean = FALSE]
<1>2. RssErred(s) = n
  BY DEF RssErred
<1> HIDE DEF m
<1>3. m \in RunMemory
  BY <1>1 DEF Same
<1>4. Same(m, n) /\ n.clean = FALSE /\ n.pc = m.pc
  BY <1>3 DEF Same, RunMemory
<1> HIDE DEF n
<1>5. Same(s, n)
  BY <1>1, <1>4, SameSame
<1> QED
  BY <1>1, <1>2, <1>4, <1>5 DEF m

LEMMA NextFeedFollows ==
    ASSUME NEW r, NEW s \in RunMemory
    PROVE  Follows(s, NextFeed(r, s))
<1>1. CASE s.feed < Len(Feeds)
  <2> DEFINE f == s.feed + 1
             m == [s EXCEPT !.pc = "fetch", !.feed = f]
  <2>1. NextFeed(r, s) = m
    BY <1>1 DEF NextFeed
  <2> HIDE DEF f
  <2>2. Follows(s, m)
    BY DEF Follows, RunMemory, Onward
  <2> QED
    BY <2>1, <2>2
<1>2. CASE ~(s.feed < Len(Feeds))
  <2>1. Follows(s, [s EXCEPT !.pc = "reload"]) /\ Follows(s, [s EXCEPT !.pc = "finish"])
    BY MovedFollows DEF Onward
  <2> QED
    BY <1>2, <2>1 DEF NextFeed, AfterRss
<1> QED
  BY <1>1, <1>2

LEMMA FlushFailedFollows ==
    ASSUME NEW r, NEW s \in RunMemory
    PROVE  Follows(s, FlushFailed(r, s))
<1>1. Same(s, RssErred(s))
  BY ErredIsSame
<1>2. RssErred(s) \in RunMemory
  BY <1>1 DEF Same
<1>3. Follows(s, NextFeed(r, RssErred(s)))
  BY <1>1, <1>2, NextFeedFollows, SameFollows
<1> QED
  BY <1>3, DeadFollows DEF FlushFailed

LEMMA ToLogsFollows ==
    ASSUME NEW r, NEW s \in RunMemory
    PROVE  /\ Follows(s, ToUsed(r, s)) /\ Follows(s, ToOccs(r, s))
           /\ Follows(s, ToTitles(r, s)) /\ Follows(s, ToLogs(r, s))
<1>1. Follows(s, Publishing(r, s))
  <2>1. Follows(s, [s EXCEPT !.pc = "close"])
    BY MovedFollows DEF Onward
  <2>2. s.clean => Follows(s, [s EXCEPT !.pc = "stage"])
    BY DEF Follows, RunMemory, Onward
  <2> QED
    BY <2>1, <2>2 DEF Publishing
<1>2. Follows(s, ToUsed(r, s))
  <2>1. Follows(s, [s EXCEPT !.pc = "used"])
    BY MovedFollows DEF Onward
  <2> QED
    BY <1>1, <2>1, NextFeedFollows DEF ToUsed, AfterFlush
<1>3. Follows(s, ToOccs(r, s))
  <2>1. Follows(s, [s EXCEPT !.pc = "occs", !.at = 1])
    BY StartedFollows DEF Onward
  <2> QED
    BY <1>2, <2>1 DEF ToOccs
<1>4. Follows(s, ToTitles(r, s))
  <2>1. Follows(s, [s EXCEPT !.pc = "titles", !.at = 1])
    BY StartedFollows DEF Onward
  <2> QED
    BY <1>3, <2>1 DEF ToTitles
<1>5. Follows(s, ToLogs(r, s))
  <2>1. Follows(s, [s EXCEPT !.pc = "logs", !.at = 1])
    BY StartedFollows DEF Onward
  <2> QED
    BY <1>4, <2>1 DEF ToLogs
<1> QED
  BY <1>2, <1>3, <1>4, <1>5

LEMMA NextEntryFollows ==
    ASSUME NEW r, NEW s \in RunMemory, s.pc = "entry"
    PROVE  Follows(s, NextEntry(r, s))
<1>1. CASE s.entry < Len(Feeds[s.feed])
  <2> DEFINE e == s.entry + 1
             m == [s EXCEPT !.entry = e]
  <2>1. NextEntry(r, s) = m
    BY <1>1 DEF NextEntry
  <2> HIDE DEF e
  <2>2. Follows(s, m)
    BY DEF Follows, RunMemory, Onward
  <2> QED
    BY <2>1, <2>2
<1>2. CASE ~(s.entry < Len(Feeds[s.feed]))
  BY <1>2, ToLogsFollows DEF NextEntry
<1> QED
  BY <1>1, <1>2

LEMMA FirstPhaseFollows ==
    ASSUME NEW r, NEW s \in RunMemory
    PROVE  Follows(s, FirstPhase(r, s))
<1>1. Follows(s, [s EXCEPT !.pc = "reload"])
  BY MovedFollows DEF Onward
<1> QED
  BY <1>1, NextFeedFollows DEF FirstPhase

LEMMA DoneWithFollows ==
    ASSUME NEW s \in RunMemory, NEW i
    PROVE  Follows(s, DoneWith(s, i)) /\ Follows(s, DoneWith(Erred(s), i))
<1>1. ASSUME NEW k \in RunMemory PROVE Follows(k, DoneWith(k, i))
  <2> DEFINE pc == IF k.page = {i} THEN "finish" ELSE "reparse"
             m == [k EXCEPT !.pc = pc, !.page = @ \ {i}, !.item = NoItem, !.title = NoTitle]
  <2>1. pc \in Onward \ {"logs", "stage"} /\ DoneWith(k, i) = m
    BY DEF Onward, DoneWith
  <2> HIDE DEF pc
  <2>2. Follows(k, m)
    BY <2>1 DEF Follows, RunMemory
  <2> QED
    BY <2>1, <2>2
<1>2. Same(s, Erred(s))
  BY ErredIsSame
<1>3. Erred(s) \in RunMemory
  BY <1>2 DEF Same
<1> QED
  BY <1>1, <1>2, <1>3, SameFollows

LEMMA GiveUpFollows ==
    ASSUME NEW s \in RunMemory
    PROVE  Follows(s, GiveUp(s))
<1>1. Same(s, Erred(s))
  BY ErredIsSame
<1>2. Erred(s) \in RunMemory
  BY <1>1 DEF Same
<1>3. Follows(Erred(s), [Erred(s) EXCEPT !.pc = "saveRetry"])
  BY <1>2, MovedFollows DEF Onward
<1> QED
  BY <1>1, <1>3, SameFollows DEF GiveUp

-----------------------------------------------------------------------------
(* One run takes a step *)

LEMMA FollowsIsTelling ==
    ASSUME NEW k, NEW m, Follows(k, m), NEW A, NEW erred, NEW d,
           Traced(k.cands, A), k.clean => ~erred
    PROVE  Telling(m, A, erred, d)
<1>1. CASE m.pc \in Over
  BY <1>1 DEF Telling, Over
<1>2. CASE m.pc \notin Over
  BY <1>2 DEF Telling, Follows, Onward
<1> QED
  BY <1>1, <1>2

LEMMA FollowsIsNoted ==
    ASSUME NEW k, NEW m, Follows(k, m), NEW L, NEW D, Backed(k, L)
    PROVE  Noted(m, L, D)
<1>1. CASE m.pc \in Over
  BY <1>1 DEF Noted
<1>2. CASE m.pc \notin Over
  <2>1. /\ m.newLogs = k.newLogs /\ m.used = k.used
        /\ m.pc \in Onward /\ (m.pc = "logs" => m.at = 1)
    BY <1>2 DEF Follows
  <2>2. Backed(m, L)
    BY <2>1 DEF Backed, Pending
  <2> QED
    BY <2>1, <2>2 DEF Noted, Onward
<1> QED
  BY <1>1, <1>2

(* What is known of a run that is under way. *)
LEMMA ActiveRun ==
    ASSUME IInv, Told, NEW r \in Runs, Active(r)
    PROVE  /\ scan[r] \in RunMemory /\ scan[r].pc \notin {"idle"} \cup Over
           /\ Traced(scan[r].cands, accepted[r])
           /\ scan[r].clean => r \notin troubled
           /\ Serialized => /\ \A q \in Runs \ {r} : ~Active(q)
                            /\ Backed(scan[r], Logged)
                            /\ Noted(scan[r], Logged, Retryable)
<1>1. scan[r].pc \notin {"idle"} \cup Over
  BY DEF Active, Over
<1>2. Telling(scan[r], accepted[r], r \in troubled, snaps[r])
  BY DEF Told
<1>3. Serialized => /\ \A q \in Runs \ {r} : ~Active(q)
                    /\ Noted(scan[r], Logged, Retryable)
  BY DEF Told, Alone
<1>4. Noted(scan[r], Logged, Retryable) => Backed(scan[r], Logged)
  BY <1>1 DEF Noted
<1> QED
  BY <1>1, <1>2, <1>3, <1>4 DEF Telling, IInv

(* "Latest" stays as it is, unless the step is the run's that it points at. *)
LEMMA OneRunTells ==
    ASSUME IInv, Told, NEW r \in Runs, NEW m, scan' = [scan EXCEPT ![r] = m],
           titles \subseteq titles',
           \A q \in Runs \ {r} :
              /\ accepted'[q] = accepted[q] /\ snaps'[q] = snaps[q]
              /\ q \in troubled' <=> q \in troubled,
           Telling(m, accepted'[r], r \in troubled', snaps'[r]),
           \/ /\ pointer' = pointer
              /\ \/ scan[r].pc \notin {"close"} \cup Over
                 \/ /\ m.pc \in {"close"} \cup Over
                    /\ accepted'[r] = accepted[r] /\ snaps'[r] = snaps[r]
                    /\ r \in troubled' <=> r \in troubled
           \/ pointer' = r /\ Shown(r)',
           Serialized => /\ \A q \in Runs \ {r} : ~Active(q)
                         /\ Noted(m, Logged', Retryable')
    PROVE  Told'
<1>1. scan \in [Runs -> RunMemory] /\ pointer \in Runs \cup {NoRun}
  BY DEF IInv, Stored
<1>2. /\ scan'[r] = m
      /\ \A q \in Runs \ {r} : scan'[q] = scan[q]
  BY <1>1
<1>3. ASSUME NEW q \in Runs
      PROVE  Telling(scan'[q], accepted'[q], q \in troubled', snaps'[q])
  <2>1. CASE q = r
    BY <2>1, <1>2
  <2>2. CASE q # r
    <3>1. Telling(scan[q], accepted[q], q \in troubled, snaps[q])
      BY DEF Told
    <3> QED
      BY <3>1, <2>2, <1>2 DEF Telling
  <2> QED
    BY <2>1, <2>2
<1>4. ASSUME pointer' # NoRun
      PROVE  Shown(pointer)'
  <2>1. CASE pointer' = r /\ Shown(r)'
    <3>1. /\ scan'[r].pc \in {"close"} \cup Over /\ r \notin troubled'
          /\ \E c \in [Titles -> Positions] :
                /\ \E f \in Nat : Ranked(c, f)
                /\ Traced(c, accepted'[r])
                /\ snaps'[r] = Page("ready", c, Cardinality(Found(c)))
                /\ Found(c) \subseteq titles'
      BY <2>1 DEF Shown
    <3> QED
      BY <2>1, <3>1 DEF Shown
  <2>2. CASE /\ pointer' = pointer
             /\ \/ scan[r].pc \notin {"close"} \cup Over
                \/ /\ m.pc \in {"close"} \cup Over
                   /\ accepted'[r] = accepted[r] /\ snaps'[r] = snaps[r]
                   /\ r \in troubled' <=> r \in troubled
    <3> DEFINE p == pointer
    <3>1. p \in Runs /\ pointer' = p
      BY <1>1, <1>4, <2>2
    <3>2. Shown(p)
      BY <1>4, <2>2 DEF Told
    <3>3. /\ scan[p].pc \in {"close"} \cup Over /\ p \notin troubled
          /\ \E c \in [Titles -> Positions] :
                /\ \E f \in Nat : Ranked(c, f)
                /\ Traced(c, accepted[p])
                /\ snaps[p] = Page("ready", c, Cardinality(Found(c)))
                /\ Found(c) \subseteq titles
      BY <3>2 DEF Shown
    <3> HIDE DEF p
    <3>4. /\ scan'[p].pc \in {"close"} \cup Over /\ p \notin troubled'
          /\ accepted'[p] = accepted[p] /\ snaps'[p] = snaps[p]
      <4>1. CASE p = r
        BY <4>1, <3>3, <2>2, <1>2
      <4>2. CASE p # r
        BY <4>2, <3>1, <3>3, <1>2
      <4> QED
        BY <4>1, <4>2
    <3>5. \E c \in [Titles -> Positions] :
                /\ \E f \in Nat : Ranked(c, f)
                /\ Traced(c, accepted'[p])
                /\ snaps'[p] = Page("ready", c, Cardinality(Found(c)))
                /\ Found(c) \subseteq titles'
      BY <3>3, <3>4
    <3> QED
      BY <3>1, <3>4, <3>5 DEF Shown
  <2> QED
    BY <2>1, <2>2
<1>5. ASSUME Serialized
      PROVE  Alone'
  <2>1. \A q \in Runs \ {r} : scan'[q].pc \in {"idle", "done", "dead"}
    BY <1>2, <1>5 DEF Active
  <2>2. \A q \in Runs : Noted(scan'[q], Logged', Retryable')
    <3>1. \A q \in Runs \ {r} : Noted(scan'[q], Logged', Retryable')
      BY <2>1 DEF Noted, Over
    <3> QED
      BY <3>1, <1>2, <1>5
  <2>3. \A q \in Runs \ {r} : ~Active(q)'
    BY <2>1 DEF Active
  <2> QED
    BY <2>2, <2>3 DEF Alone
<1>6. (\A q \in Runs : Telling(scan[q], accepted[q], q \in troubled, snaps[q]))'
  BY <1>3
<1> QED
  BY <1>4, <1>5, <1>6 DEF Told

(* The run goes on from k, which the step has made of its memory. *)
LEMMA FollowingTells ==
    ASSUME IInv, Told, NEW r \in Runs, Active(r), NEW k, NEW m, Follows(k, m),
           scan' = [scan EXCEPT ![r] = m],
           titles \subseteq titles', UNCHANGED latest,
           \A q \in Runs \ {r} :
              /\ accepted'[q] = accepted[q]
              /\ q \in troubled' <=> q \in troubled,
           scan[r].pc = "close" => m.pc \in Over /\ UNCHANGED observed,
           Traced(k.cands, accepted'[r]), k.clean => r \notin troubled',
           Serialized => Backed(k, Logged')
    PROVE  Told'
<1>1. Telling(m, accepted'[r], r \in troubled', snaps'[r])
  BY FollowsIsTelling
<1>2. Serialized => Noted(m, Logged', Retryable')
  BY FollowsIsNoted
<1>3. UNCHANGED <<snaps, pointer>> /\ (scan[r].pc = "close" => UNCHANGED <<accepted, troubled>>)
  BY DEF latest, observed
<1>4. /\ scan[r].pc \notin Over
      /\ Serialized => \A q \in Runs \ {r} : ~Active(q)
  BY ActiveRun
<1> QED
  BY <1>1, <1>2, <1>3, <1>4, OneRunTells

(* The run goes on with what it had, and what is stored of logs stays. *)
LEMMA QuietlyTells ==
    ASSUME IInv, Told, NEW r \in Runs, Active(r), NEW m, Follows(scan[r], m),
           scan' = [scan EXCEPT ![r] = m],
           titles \subseteq titles', UNCHANGED <<latest, observed>>,
           Logged \subseteq Logged',
           scan[r].pc = "close" => m.pc \in Over
    PROVE  Told'
<1>1. UNCHANGED <<accepted, troubled>>
  BY DEF observed
<1>2. /\ Traced(scan[r].cands, accepted[r]) /\ (scan[r].clean => r \notin troubled)
      /\ Serialized => Backed(scan[r], Logged)
  BY ActiveRun
<1>3. Serialized => Backed(scan[r], Logged')
  BY <1>2 DEF Backed
<1> QED
  BY <1>1, <1>2, <1>3, FollowingTells

LEMMA LogsStay ==
    ASSUME UNCHANGED logs
    PROVE  Logged' = Logged /\ Retryable' = Retryable
  BY DEF Logged, Retryable

-----------------------------------------------------------------------------
(* Before the phases *)

LEMMA NothingTraced ==
    ASSUME NEW c, c = [t \in Titles |-> NoPosition], NEW A, A = <<>>
    PROVE  Traced(c, A)
<1>1. Found(c) = {} /\ \A t \in Titles : ~Seen(A, t)
  BY DEF Found, Seen
<1> QED
  BY <1>1 DEF Traced

LEMMA LoadMappingsTells ==
    ASSUME IInv, Told, NEW r \in Runs, LoadMappings(r)
    PROVE  Told'
<1> DEFINE b == Blank("open")
           ok == [b EXCEPT !.loaded = mappings]
<1>1. PICK answer \in Answers \ {"lost"} : Continue(r, answer, ok, Blank("dead"))
  BY DEF LoadMappings
<1>2. /\ scan[r].pc = "idle" /\ UNCHANGED <<catalog, latest, observed>>
      /\ Serialized => \A q \in Runs : ~Active(q)
  BY DEF LoadMappings
<1>3. accepted[r] = <<>> /\ r \notin troubled
  BY <1>2 DEF Told, Telling
<1>4. /\ ok.pc = "open" /\ ok.used = <<>> /\ ok.clean = TRUE
      /\ ok.cands = [t \in Titles |-> NoPosition]
  BY DEF Blank
<1> HIDE DEF ok
<1> DEFINE m == IF Raised(answer) THEN Blank("dead") ELSE ok
<1>5. m.pc = "dead" \/ m = ok
  BY DEF Blank
<1>6. scan' = [scan EXCEPT ![r] = m]
  BY <1>1 DEF Continue
<1> HIDE DEF m
<1>7. Telling(m, accepted[r], r \in troubled, snaps[r])
  BY <1>3, <1>4, <1>5, NothingTraced DEF Telling, Over
<1>8. Noted(m, Logged', Retryable')
  BY <1>4, <1>5, RangeOfEmpty DEF Noted, Backed, Over
<1>9. UNCHANGED <<titles, occs, snaps, pointer, accepted, troubled>>
  BY <1>2 DEF catalog, latest, observed
<1>10. scan[r].pc \notin {"close"} \cup Over
  BY <1>2 DEF Over
<1> QED
  BY <1>2, <1>6, <1>7, <1>8, <1>9, <1>10, OneRunTells

(* From one phase before the others to the next: nothing is in use yet. *)
LEMMA EarlyTells ==
    ASSUME IInv, Told, NEW r \in Runs, scan[r].pc \in {"open", "query", "prune"},
           NEW k, Same(scan[r], k), NEW m,
           \/ m.pc \in Over \/ Follows(k, m)
           \/ /\ m = k /\ k.pc \in {"query", "prune"}
              /\ Serialized /\ k.pc = "prune" => k.victims \cap Retryable' = {},
           scan' = [scan EXCEPT ![r] = m],
           UNCHANGED <<catalog, latest, observed>>
    PROVE  Told'
<1>1. Active(r) /\ scan[r].pc \notin {"close"} \cup Over
  BY DEF Active, Over
<1>2. /\ Traced(scan[r].cands, accepted[r]) /\ (scan[r].clean => r \notin troubled)
      /\ Serialized => scan[r].used = <<>> /\ \A q \in Runs \ {r} : ~Active(q)
  BY <1>1, ActiveRun DEF Noted, Over
<1>3. /\ Traced(k.cands, accepted[r]) /\ (k.clean => r \notin troubled)
      /\ Serialized => k.used = <<>>
  BY <1>2 DEF Same
<1>4. Serialized => Backed(k, Logged')
  BY <1>3, RangeOfEmpty DEF Backed
<1>5. UNCHANGED <<titles, occs, snaps, pointer, accepted, troubled>>
  BY DEF catalog, latest, observed
<1>6. CASE m.pc \in Over \/ Follows(k, m)
  <2>1. Follows(k, m)
    BY <1>6 DEF Follows
  <2>2. Telling(m, accepted[r], r \in troubled, snaps[r])
    BY <1>3, <2>1, FollowsIsTelling
  <2>3. Serialized => Noted(m, Logged', Retryable')
    BY <1>4, <2>1, FollowsIsNoted
  <2> QED
    BY <1>1, <1>2, <1>5, <2>2, <2>3, OneRunTells
<1>7. CASE /\ m = k /\ k.pc \in {"query", "prune"}
           /\ Serialized /\ k.pc = "prune" => k.victims \cap Retryable' = {}
  <2>1. Telling(m, accepted[r], r \in troubled, snaps[r])
    BY <1>3, <1>7 DEF Telling, Over
  <2>2. Serialized => Noted(m, Logged', Retryable')
    BY <1>3, <1>4, <1>7 DEF Noted, Over
  <2> QED
    BY <1>1, <1>2, <1>5, <2>1, <2>2, OneRunTells
<1> QED
  BY <1>6, <1>7

LEMMA OpenRunTells ==
    ASSUME IInv, Told, NEW r \in Runs, OpenRun(r)
    PROVE  Told'
<1> DEFINE ok == [scan[r] EXCEPT !.pc = "query"]
<1>1. PICK answer \in Answers : Continue(r, answer, ok, Blank("dead"))
  BY DEF OpenRun
<1>2. scan[r].pc = "open" /\ UNCHANGED <<catalog, latest, observed>>
  BY DEF OpenRun
<1>3. scan[r] \in RunMemory
  BY DEF IInv
<1>4. Same(scan[r], ok) /\ ok.pc = "query"
  <2>1. "query" \in Phases
    BY DEF Phases
  <2> QED
    BY <1>3, <2>1 DEF Same, RunMemory
<1> HIDE DEF ok
<1> DEFINE m == IF Raised(answer) THEN Blank("dead") ELSE ok
<1>5. m.pc \in Over \/ m = ok
  BY DEF Blank, Over
<1>6. scan' = [scan EXCEPT ![r] = m]
  BY <1>1 DEF Continue
<1> HIDE DEF m
<1> QED
  BY <1>2, <1>4, <1>5, <1>6, EarlyTells

LEMMA VictimsAreSame ==
    ASSUME NEW s \in RunMemory, NEW v \in SUBSET Items
    PROVE  Same(s, [s EXCEPT !.victims = v]) /\ [s EXCEPT !.victims = v].pc = s.pc
           /\ [s EXCEPT !.victims = v].victims = v
  BY DEF Same, RunMemory

LEMMA QueryOldLogsTells ==
    ASSUME IInv, Told, NEW r \in Runs, QueryOldLogs(r)
    PROVE  Told'
<1> DEFINE s == [scan[r] EXCEPT !.victims = Victims]
           prune == [s EXCEPT !.pc = "prune"]
           ok == IF Victims = {} /\ AgedUnreadable = {} THEN FirstPhase(r, s) ELSE prune
<1>1. PICK answer \in Answers \ {"lost"} : Continue(r, answer, ok, Blank("dead"))
  BY DEF QueryOldLogs
<1>2. s.pc = "query" /\ UNCHANGED <<catalog, diagnostics, latest, observed>>
  BY DEF QueryOldLogs
<1>3. scan[r] \in RunMemory /\ Victims \in SUBSET Items
  BY DEF IInv, Stored, Victims
<1>4. Same(scan[r], s) /\ s.pc = scan[r].pc /\ s.victims = Victims
  BY <1>3, VictimsAreSame
<1> HIDE DEF s
<1>5. s \in RunMemory
  BY <1>4 DEF Same
<1>6. Same(s, prune) /\ prune.pc = "prune" /\ prune.victims = Victims
  <2>1. "prune" \in Phases
    BY DEF Phases
  <2> QED
    BY <1>4, <1>5, <2>1 DEF Same, RunMemory
<1> HIDE DEF prune
<1>7. Victims \cap Retryable' = {}
  <2>1. Retryable' = Retryable
    BY <1>2, LogsStay DEF diagnostics
  <2> QED
    BY <2>1 DEF Victims, Retryable
<1>8. Same(scan[r], prune)
  BY <1>4, <1>6, SameSame
<1> DEFINE m == IF Raised(answer) THEN Blank("dead") ELSE ok
<1>9. m.pc \in Over \/ Follows(s, m) \/ m = prune
  BY <1>5, FirstPhaseFollows DEF Blank, Over
<1>10. scan' = [scan EXCEPT ![r] = m]
  BY <1>1 DEF Continue
<1> HIDE DEF m
<1>11. CASE m.pc \in Over \/ Follows(s, m)
  BY <1>2, <1>4, <1>10, <1>11, EarlyTells
<1>12. CASE m = prune
  BY <1>2, <1>4, <1>6, <1>7, <1>8, <1>10, <1>12, EarlyTells
<1> QED
  BY <1>9, <1>11, <1>12

LEMMA PruneLogTells ==
    ASSUME IInv, Told, NEW r \in Runs, PruneLog(r)
    PROVE  Told'
<1>1. scan[r].pc = "prune" /\ UNCHANGED <<catalog, latest, observed>>
  BY DEF PruneLog
<1>2. PICK i \in scan[r].victims, answer \in Answers :
        LET s == [scan[r] EXCEPT !.victims = @ \ {i}] IN
          /\ IF Landed(answer)
             THEN logs' = [logs EXCEPT ![i] = NoLog] /\ aged' = aged \ {i}
             ELSE UNCHANGED diagnostics
          /\ Continue(r, answer,
                      IF s.victims = {} /\ AgedUnreadable = {} THEN FirstPhase(r, s) ELSE s,
                      Blank("dead"))
  BY DEF PruneLog
<1> DEFINE v == scan[r].victims \ {i}
           s == [scan[r] EXCEPT !.victims = v]
           ok == IF s.victims = {} /\ AgedUnreadable = {} THEN FirstPhase(r, s) ELSE s
<1>3. Continue(r, answer, ok, Blank("dead"))
  BY <1>2
<1>4. scan[r] \in RunMemory /\ logs \in [Items -> Logs]
  BY DEF IInv, Stored
<1>5. v \in SUBSET Items /\ v \subseteq scan[r].victims
  BY <1>4 DEF RunMemory
<1> HIDE DEF v
<1>6. Same(scan[r], s) /\ s.pc = "prune" /\ s.victims = v
  BY <1>1, <1>4, <1>5, VictimsAreSame
<1> HIDE DEF s
<1>7. s \in RunMemory
  BY <1>6 DEF Same
<1>8. Serialized => scan[r].victims \cap Retryable = {}
  <2>1. Active(r)
    BY <1>1 DEF Active
  <2> QED
    BY <1>1, <2>1, ActiveRun DEF Noted, Over
<1>9. Retryable' \subseteq Retryable
  <2>1. logs' = [logs EXCEPT ![i] = NoLog] \/ logs' = logs
    BY <1>2 DEF diagnostics
  <2>2. NoLog.state # "retryable"
    BY DEF NoLog, Unresolved
  <2> QED
    BY <1>4, <2>1, <2>2 DEF Retryable
<1>10. Serialized => s.victims \cap Retryable' = {}
  BY <1>5, <1>6, <1>8, <1>9
<1> DEFINE m == IF Raised(answer) THEN Blank("dead") ELSE ok
<1>11. m.pc \in Over \/ Follows(s, m) \/ m = s
  BY <1>7, FirstPhaseFollows DEF Blank, Over
<1>12. scan' = [scan EXCEPT ![r] = m]
  BY <1>3 DEF Continue
<1> HIDE DEF m
<1> QED
  BY <1>1, <1>6, <1>10, <1>11, <1>12, EarlyTells

(* A run that is killed, or kills itself. *)
LEMMA DeathTells ==
    ASSUME IInv, Told, NEW r \in Runs, Active(r), NEW m, m.pc \in Over,
           scan' = [scan EXCEPT ![r] = m],
           UNCHANGED <<catalog, logs, latest, observed>>
    PROVE  Told'
<1>1. Follows(scan[r], m)
  BY DEF Follows
<1>2. titles \subseteq titles' /\ Logged \subseteq Logged'
  BY LogsStay DEF catalog
<1> QED
  BY <1>1, <1>2, QuietlyTells

LEMMA PruneRaisesTells ==
    ASSUME IInv, Told, NEW r \in Runs, PruneRaises(r)
    PROVE  Told'
<1>1. /\ scan[r].pc = "prune" /\ scan' = [scan EXCEPT ![r] = Blank("dead")]
      /\ UNCHANGED <<catalog, logs, latest, observed>>
  BY DEF PruneRaises, diagnostics
<1>2. Active(r) /\ Blank("dead").pc \in Over
  BY <1>1 DEF Active, Blank, Over
<1> QED
  BY <1>1, <1>2, DeathTells

LEMMA CrashTells ==
    ASSUME IInv, Told, NEW r \in Runs, Crash(r)
    PROVE  Told'
<1>1. /\ Active(r) /\ scan' = [scan EXCEPT ![r] = Blank("dead")]
      /\ UNCHANGED <<catalog, logs, latest, observed>>
  BY DEF Crash, diagnostics
<1>2. Blank("dead").pc \in Over
  BY DEF Blank, Over
<1> QED
  BY <1>1, <1>2, DeathTells

LEMMA CloseRunTells ==
    ASSUME IInv, Told, NEW r \in Runs, CloseRun(r)
    PROVE  Told'
<1>1. /\ scan[r].pc = "close" /\ UNCHANGED <<catalog, logs, latest, observed>>
      /\ \E answer \in Answers : Continue(r, answer, Blank("done"), Blank("dead"))
  BY DEF CloseRun, diagnostics
<1>2. PICK answer \in Answers : Continue(r, answer, Blank("done"), Blank("dead"))
  BY <1>1
<1> DEFINE m == IF Raised(answer) THEN Blank("dead") ELSE Blank("done")
<1>3. m.pc \in Over /\ scan' = [scan EXCEPT ![r] = m]
  BY <1>2 DEF Continue, Blank, Over
<1>4. Active(r)
  BY <1>1 DEF Active
<1> HIDE DEF m
<1> QED
  BY <1>1, <1>3, <1>4, DeathTells

LEMMA FinalFlushTells ==
    ASSUME IInv, Told, NEW r \in Runs, FinalFlush(r)
    PROVE  Told'
<1> DEFINE k == [scan[r] EXCEPT !.final = TRUE]
           m == ToLogs(r, k)
<1>1. /\ scan[r].pc = "finish" /\ scan' = [scan EXCEPT ![r] = m]
      /\ UNCHANGED <<catalog, logs, latest, observed>>
  BY DEF FinalFlush, diagnostics
<1>2. scan[r] \in RunMemory
  BY DEF IInv
<1>3. Same(scan[r], k)
  BY <1>2 DEF Same, RunMemory
<1> HIDE DEF k
<1>4. k \in RunMemory
  BY <1>3 DEF Same
<1>5. Follows(scan[r], m)
  BY <1>3, <1>4, ToLogsFollows, SameFollows
<1>6. Active(r) /\ titles \subseteq titles' /\ Logged \subseteq Logged'
  BY <1>1, LogsStay DEF Active, catalog
<1> HIDE DEF m
<1> QED
  BY <1>1, <1>5, <1>6, QuietlyTells

-----------------------------------------------------------------------------
(* Logs and flushes *)

(* A log that is written stays, and so do the others. *)
LEMMA LogsGrow ==
    ASSUME IInv, NEW i \in Items, NEW log \in Logs, log.state # "absent", NEW answer,
           AddLog(answer, i, log)
    PROVE  Logged \subseteq Logged' /\ (Landed(answer) => i \in Logged')
<1>1. logs \in [Items -> Logs]
  BY DEF IInv, Stored
<1>2. CASE ~Landed(answer)
  <2>1. logs' = logs
    BY <1>2 DEF AddLog, diagnostics
  <2> QED
    BY <1>2, <2>1, LogsStay
<1>3. CASE Landed(answer)
  <2> DEFINE new == Merged(logs[i], log)
  <2>1. logs' = [logs EXCEPT ![i] = new]
    BY <1>3 DEF AddLog
  <2>2. new.state # "absent"
    BY <1>1, MergedIsTyped
  <2> HIDE DEF new
  <2>3. new # NoLog
    BY <2>2 DEF NoLog, Unresolved
  <2> QED
    BY <1>1, <2>1, <2>3 DEF Logged
<1> QED
  BY <1>2, <1>3

LEMMA AtIsSame ==
    ASSUME NEW s \in RunMemory, NEW n \in Nat
    PROVE  Same(s, [s EXCEPT !.at = n]) /\ [s EXCEPT !.at = n].pc = s.pc
           /\ [s EXCEPT !.at = n].at = n /\ [s EXCEPT !.at = n].clean = s.clean
  BY DEF Same, RunMemory

LEMMA FlushLogTells ==
    ASSUME IInv, Told, NEW r \in Runs, FlushLog(r)
    PROVE  Told'
<1> DEFINE s == scan[r]
           i == s.newLogs[s.at][1]
           log == s.newLogs[s.at][2]
           next == s.at + 1
           cleared == [s EXCEPT !.newLogs = <<>>]
           onward == [s EXCEPT !.at = next]
           ok == IF s.at < Len(s.newLogs) THEN onward ELSE ToTitles(r, cleared)
<1>1. s.pc = "logs" /\ UNCHANGED <<catalog, latest, observed>>
  BY DEF FlushLog
<1>2. PICK answer \in LogAnswers(i) :
        AddLog(answer, i, log) /\ Continue(r, answer, ok, FlushFailed(r, s))
  BY DEF FlushLog
<1>3. Active(r)
  BY <1>1 DEF Active
<1>4. /\ s \in RunMemory /\ Traced(s.cands, accepted[r]) /\ (s.clean => r \notin troubled)
      /\ Serialized => /\ \A q \in Runs \ {r} : ~Active(q)
                       /\ Backed(s, Logged) /\ Noted(s, Logged, Retryable)
  BY <1>3, ActiveRun
<1>5. s.pc \notin {"close"} \cup Over
  BY <1>1 DEF Over
<1>6. answer \in Answers \cup {"unreadable"}
  BY DEF LogAnswers
<1>7. Good(s, titles, occs, accepted[r])
  BY DEF IInv
<1> DEFINE m == IF Raised(answer) THEN FlushFailed(r, s) ELSE ok
<1>8. scan' = [scan EXCEPT ![r] = m] /\ (Raised(answer) \/ Landed(answer))
  BY <1>2, <1>6 DEF Continue, Answers, Raised, Landed
<1>9. UNCHANGED <<titles, snaps, pointer, accepted, troubled>>
  BY <1>1 DEF catalog, latest, observed
<1> HIDE DEF s
<1>10. s.at \in 1 .. Len(s.newLogs) /\ s.newLogs \in Seq(Items \X Logs) /\ Plain(s.newLogs)
  BY <1>1, <1>4, <1>7 DEF Good, Placed, Sound, RunMemory
<1>11. i \in Items /\ log \in Logs /\ log.state # "absent"
  <2>1. i \in Items /\ log \in Logs
    BY <1>10
  <2>2. PICK state \in RetryStates : log = Unresolved(state)
    BY <1>10 DEF Plain
  <2>3. log.state # "absent"
    BY <2>2 DEF Unresolved, RetryStates
  <2> QED
    BY <2>1, <2>3
<1>12. Logged \subseteq Logged' /\ (Landed(answer) => s.newLogs[s.at][1] \in Logged')
  <2> DEFINE j == i
             l == log
  <2>1. j \in Items /\ l \in Logs /\ l.state # "absent" /\ AddLog(answer, j, l)
    BY <1>2, <1>11
  <2> HIDE DEF j, l
  <2>2. Logged \subseteq Logged' /\ (Landed(answer) => j \in Logged')
    BY <2>1, LogsGrow
  <2> QED
    BY <2>2 DEF j
<1>13. Serialized => /\ Backed(s, Logged')
                     /\ \A n \in 1 .. s.at - 1 : s.newLogs[n][1] \in Logged'
  <2>1. Serialized => \A n \in 1 .. s.at - 1 : s.newLogs[n][1] \in Logged
    BY <1>1, <1>4, <1>5 DEF Noted
  <2> QED
    BY <1>4, <1>12, <2>1 DEF Backed
<1> HIDE DEF i, log
<1>14. CASE Raised(answer)
  <2>1. m = FlushFailed(r, s) /\ Follows(s, FlushFailed(r, s))
    BY <1>4, <1>14, FlushFailedFollows
  <2> HIDE DEF m
  <2> QED
    BY <1>1, <1>3, <1>5, <1>8, <1>9, <1>12, <2>1, QuietlyTells DEF s
<1>15. CASE Landed(answer) /\ ~Raised(answer)
  <2>1. Serialized => \A n \in 1 .. s.at : s.newLogs[n][1] \in Logged'
    BY <1>10, <1>12, <1>13, <1>15
  <2>2. CASE s.at < Len(s.newLogs)
    <3>1. m = onward
      BY <1>15, <2>2
    <3>2. next \in Nat /\ next - 1 = s.at
      BY <1>4 DEF RunMemory
    <3> HIDE DEF m, next
    <3>3. Same(s, onward) /\ onward.pc = "logs" /\ onward.at = next
      BY <1>1, <1>4, <3>2, AtIsSame
    <3> HIDE DEF onward
    <3>4. Telling(onward, accepted[r], r \in troubled, snaps[r])
      BY <1>4, <3>3 DEF Telling, Same, Over
    <3>5. Serialized => Noted(onward, Logged', Retryable')
      <4>1. Serialized => Backed(onward, Logged')
        BY <1>13, <3>3 DEF Backed, Pending, Same
      <4> QED
        BY <2>1, <3>2, <3>3, <4>1 DEF Noted, Same, Over
    <3>6. Serialized => \A q \in Runs \ {r} : ~Active(q)
      BY <1>4
    <3> QED
      BY <1>5, <1>8, <1>9, <3>1, <3>4, <3>5, <3>6, OneRunTells DEF s
  <2>3. CASE ~(s.at < Len(s.newLogs))
    <3>1. m = ToTitles(r, cleared)
      BY <1>15, <2>3
    <3>2. s.at = Len(s.newLogs) /\ DOMAIN s.newLogs = 1 .. s.at
      BY <1>10, <2>3
    <3> HIDE DEF m
    <3>3. /\ cleared \in RunMemory /\ cleared.newLogs = <<>> /\ cleared.used = s.used
          /\ cleared.cands = s.cands /\ cleared.clean = s.clean
      <4>1. <<>> \in Seq(Items \X Logs)
        OBVIOUS
      <4> QED
        BY <1>4, <4>1 DEF RunMemory
    <3> HIDE DEF cleared
    <3>4. Follows(cleared, m)
      BY <3>1, <3>3, ToLogsFollows
    <3>5. Serialized => Backed(cleared, Logged')
      BY <1>13, <2>1, <3>2, <3>3 DEF Backed, Pending
    <3>6. Traced(cleared.cands, accepted'[r]) /\ (cleared.clean => r \notin troubled')
      BY <1>4, <1>9, <3>3
    <3>7. titles \subseteq titles' /\ s.pc # "close"
      BY <1>1, <1>9
    <3> QED
      BY <1>1, <1>3, <1>8, <1>9, <3>4, <3>5, <3>6, <3>7, FollowingTells DEF s
  <2> QED
    BY <2>2, <2>3
<1> QED
  BY <1>8, <1>14, <1>15

(* A document is written from a list that logs are not, and the loop goes   *)
(* on, or the list is cleared and the flush goes on, or it fails.           *)
LEMMA FlushTitleTells ==
    ASSUME IInv, Told, NEW r \in Runs, FlushTitle(r)
    PROVE  Told'
<1> DEFINE s == scan[r]
           next == s.at + 1
           cleared == [s EXCEPT !.newTitles = <<>>]
           onward == [s EXCEPT !.at = next]
           ok == IF s.at < Len(s.newTitles) THEN onward ELSE ToOccs(r, cleared)
<1>1. s.pc = "titles" /\ UNCHANGED <<diagnostics, latest, observed>>
  BY DEF FlushTitle
<1>2. PICK answer \in Answers :
        /\ UpsertTitle(answer, s.newTitles[s.at])
        /\ Continue(r, answer, ok, FlushFailed(r, s))
  BY DEF FlushTitle
<1>3. titles \subseteq titles' /\ Logged \subseteq Logged'
  BY <1>1, <1>2, LogsStay DEF UpsertTitle, diagnostics
<1>4. s \in RunMemory
  BY DEF IInv
<1> HIDE DEF s
<1>5. next \in Nat
  BY <1>4 DEF RunMemory
<1> HIDE DEF next
<1>6. Follows(s, onward)
  BY <1>1, <1>4, <1>5, AtIsSame DEF Same, Follows, Onward
<1>7. Same(s, cleared)
  <2>1. <<>> \in Seq(Titles)
    OBVIOUS
  <2> QED
    BY <1>4, <2>1 DEF Same, RunMemory
<1> HIDE DEF cleared, onward
<1>8. Follows(s, ToOccs(r, cleared))
  BY <1>7, ToLogsFollows, SameFollows DEF Same
<1>9. Follows(s, ok)
  BY <1>6, <1>8
<1> HIDE DEF ok
<1> DEFINE m == IF Raised(answer) THEN FlushFailed(r, s) ELSE ok
<1>10. scan' = [scan EXCEPT ![r] = m]
  BY <1>2 DEF Continue
<1>11. Follows(s, m)
  BY <1>4, <1>9, FlushFailedFollows
<1> HIDE DEF m
<1>12. Active(r) /\ scan[r].pc # "close"
  BY <1>1 DEF Active, s
<1> QED
  BY <1>1, <1>3, <1>10, <1>11, <1>12, QuietlyTells DEF s

LEMMA FlushOccurrenceTells ==
    ASSUME IInv, Told, NEW r \in Runs, FlushOccurrence(r)
    PROVE  Told'
<1> DEFINE s == scan[r]
           next == s.at + 1
           cleared == [s EXCEPT !.newOccs = <<>>]
           onward == [s EXCEPT !.at = next]
           ok == IF s.at < Len(s.newOccs) THEN onward ELSE ToUsed(r, cleared)
<1>1. s.pc = "occs" /\ UNCHANGED <<titles, diagnostics, latest, observed>>
  BY DEF FlushOccurrence
<1>2. PICK answer \in Answers : Continue(r, answer, ok, FlushFailed(r, s))
  BY DEF FlushOccurrence
<1>3. titles \subseteq titles' /\ Logged \subseteq Logged'
  BY <1>1, LogsStay DEF diagnostics
<1>4. s \in RunMemory
  BY DEF IInv
<1> HIDE DEF s
<1>5. next \in Nat
  BY <1>4 DEF RunMemory
<1> HIDE DEF next
<1>6. Follows(s, onward)
  BY <1>1, <1>4, <1>5, AtIsSame DEF Same, Follows, Onward
<1>7. Same(s, cleared)
  <2>1. <<>> \in Seq(Titles \X Items)
    OBVIOUS
  <2> QED
    BY <1>4, <2>1 DEF Same, RunMemory
<1> HIDE DEF cleared, onward
<1>8. Follows(s, ToUsed(r, cleared))
  BY <1>7, ToLogsFollows, SameFollows DEF Same
<1>9. Follows(s, ok)
  BY <1>6, <1>8
<1> HIDE DEF ok
<1> DEFINE m == IF Raised(answer) THEN FlushFailed(r, s) ELSE ok
<1>10. scan' = [scan EXCEPT ![r] = m]
  BY <1>2 DEF Continue
<1>11. Follows(s, m)
  BY <1>4, <1>9, FlushFailedFollows
<1> HIDE DEF m
<1>12. Active(r) /\ scan[r].pc # "close"
  BY <1>1 DEF Active, s
<1> QED
  BY <1>1, <1>3, <1>10, <1>11, <1>12, QuietlyTells DEF s

LEMMA ForgetIsSame ==
    ASSUME NEW s \in RunMemory, NEW i \in Items, NEW t
    PROVE  Same(s, Forget(s, i, t)) /\ Forget(s, i, t).clean = s.clean
<1> DEFINE l == [s.loaded EXCEPT ![i] = IF @ = t THEN NoTitle ELSE @]
           m == [s EXCEPT !.loaded = l]
<1>1. l \in [Items -> Titles \cup {NoTitle}]
  BY DEF RunMemory
<1>2. Forget(s, i, t) = m
  BY DEF Forget, RunMemory
<1> HIDE DEF l
<1>3. Same(s, m) /\ m.clean = s.clean
  BY <1>1 DEF Same, RunMemory
<1> QED
  BY <1>2, <1>3

LEMMA FlushMappingTells ==
    ASSUME IInv, Told, NEW r \in Runs, FlushMapping(r)
    PROVE  Told'
<1> DEFINE s == scan[r]
           i == s.used[1][1]
           t == s.used[1][2]
           fewer == [s EXCEPT !.used = Tail(@)]
           left == Forget(fewer, i, t)
<1>1. s.pc = "used" /\ UNCHANGED <<catalog, diagnostics, latest, observed>>
  BY DEF FlushMapping
<1>2. PICK answer \in Answers : Continue(r, answer, ToUsed(r, left), FlushFailed(r, s))
  BY DEF FlushMapping
<1>3. Active(r) /\ scan[r].pc # "close"
  BY <1>1 DEF Active
<1>4. /\ s \in RunMemory /\ Traced(s.cands, accepted[r]) /\ (s.clean => r \notin troubled)
      /\ Serialized => Backed(s, Logged)
  BY <1>3, ActiveRun
<1>5. Good(s, titles, occs, accepted[r])
  BY DEF IInv
<1>6. UNCHANGED <<titles, accepted, troubled>> /\ Logged' = Logged
  BY <1>1, LogsStay DEF catalog, observed, diagnostics
<1> HIDE DEF s
<1>7. s.used \in Seq(Items \X Titles) /\ s.used # <<>>
  BY <1>1, <1>4, <1>5 DEF Good, Placed, RunMemory
<1>8. /\ Tail(s.used) \in Seq(Items \X Titles) /\ s.used[1] \in Items \X Titles
      /\ Range(Tail(s.used)) \subseteq Range(s.used)
  BY <1>7, RangeOfTail
<1>9. i \in Items
  BY <1>8
<1>10. /\ fewer \in RunMemory /\ fewer.newLogs = s.newLogs /\ fewer.used = Tail(s.used)
       /\ fewer.cands = s.cands /\ fewer.clean = s.clean
  <2> DEFINE q == Tail(s.used)
  <2>1. q \in Seq(Items \X Titles) /\ fewer = [s EXCEPT !.used = q]
    BY <1>8
  <2> HIDE DEF q, fewer
  <2>2. /\ fewer \in RunMemory /\ fewer.newLogs = s.newLogs /\ fewer.used = q
        /\ fewer.cands = s.cands /\ fewer.clean = s.clean
    BY <1>4, <2>1 DEF RunMemory
  <2> QED
    BY <2>2 DEF q
<1> HIDE DEF i, t, fewer
<1>11. Same(fewer, left) /\ left.clean = fewer.clean
  BY <1>9, <1>10, ForgetIsSame
<1> HIDE DEF left
<1>12. /\ left \in RunMemory /\ Traced(left.cands, accepted[r])
       /\ left.clean => r \notin troubled
       /\ Serialized => Backed(left, Logged)
  BY <1>4, <1>8, <1>10, <1>11 DEF Same, Backed, Pending
<1> DEFINE m == IF Raised(answer) THEN FlushFailed(r, s) ELSE ToUsed(r, left)
<1>13. scan' = [scan EXCEPT ![r] = m]
  BY <1>2 DEF Continue
<1>14. CASE Raised(answer)
  <2>1. Follows(s, m)
    BY <1>4, <1>14, FlushFailedFollows
  <2> HIDE DEF m
  <2> QED
    BY <1>1, <1>3, <1>6, <1>13, <2>1, QuietlyTells DEF s
<1>15. CASE ~Raised(answer)
  <2>1. Follows(left, m)
    BY <1>12, <1>15, ToLogsFollows
  <2> HIDE DEF m
  <2> QED
    BY <1>1, <1>3, <1>6, <1>12, <1>13, <2>1, FollowingTells
<1> QED
  BY <1>14, <1>15

-----------------------------------------------------------------------------
(* The RSS phase *)

(* More is staged for an entry, which stays the entry. *)
Adds(s, k) ==
    /\ k \in RunMemory
    /\ k.cands = s.cands /\ k.used = s.used /\ k.pc = s.pc
    /\ k.feed = s.feed /\ k.entry = s.entry
    /\ k.clean => s.clean
    /\ \A i \in Items : Pending(s, i) => Pending(k, i)

LEMMA AddsAdds ==
    ASSUME NEW s, NEW k, NEW m, Adds(s, k), Adds(k, m)
    PROVE  Adds(s, m)
  BY DEF Adds

LEMMA UsedAreItems ==
    ASSUME NEW s \in RunMemory
    PROVE  \A x \in Range(s.used) : x[1] \in Items
<1>1. s.used \in Seq(Items \X Titles)
  BY DEF RunMemory
<1>2. Range(s.used) \subseteq Items \X Titles
  BY <1>1, RangeIsTyped
<1> QED
  BY <1>2

LEMMA AddsIsBacked ==
    ASSUME NEW s \in RunMemory, NEW k, NEW L, Backed(s, L), Adds(s, k)
    PROVE  Backed(k, L)
  BY UsedAreItems DEF Backed, Adds

LEMMA LogIsStaged ==
    ASSUME NEW s \in RunMemory, NEW i \in Items, NEW state \in RetryStates
    PROVE  LET k == StageLog(s, i, Unresolved(state)) IN Adds(s, k) /\ Pending(k, i)
<1> DEFINE x == <<i, Unresolved(state)>>
           q == Append(s.newLogs, x)
           w == s.wrote \cup {i}
           k == [s EXCEPT !.newLogs = q, !.wrote = w]
<1>1. x \in Items \X Logs /\ x[1] = i
  BY DEF Unresolved, Logs
<1>2. s.newLogs \in Seq(Items \X Logs) /\ w \in SUBSET Items
  BY DEF RunMemory
<1>3. StageLog(s, i, Unresolved(state)) = k
  BY DEF StageLog
<1> HIDE DEF x
<1>4. /\ q \in Seq(Items \X Logs) /\ Len(s.newLogs) \in Nat
      /\ DOMAIN s.newLogs = 1 .. Len(s.newLogs) /\ DOMAIN q = 1 .. Len(s.newLogs) + 1
      /\ \A n \in 1 .. Len(s.newLogs) : q[n] = s.newLogs[n]
      /\ q[Len(s.newLogs) + 1] = x
  BY <1>1, <1>2
<1> HIDE DEF q, w
<1>5. /\ k \in RunMemory /\ k.newLogs = q
      /\ k.cands = s.cands /\ k.used = s.used /\ k.pc = s.pc
      /\ k.feed = s.feed /\ k.entry = s.entry /\ k.clean = s.clean
  BY <1>2, <1>4 DEF RunMemory
<1> HIDE DEF k
<1>6. \A j \in Items : Pending(s, j) => Pending(k, j)
  BY <1>4, <1>5 DEF Pending
<1>7. Pending(k, i)
  BY <1>1, <1>4, <1>5 DEF Pending
<1> QED
  BY <1>3, <1>5, <1>6, <1>7 DEF Adds

LEMMA TitleIsStaged ==
    ASSUME NEW s \in RunMemory, NEW t \in Titles
    PROVE  Adds(s, StageTitle(s, t))
<1> DEFINE q == Staged(s.newTitles, t)
           d == s.read \cup {t}
           k == [s EXCEPT !.newTitles = q, !.read = d]
<1>1. q \in Seq(Titles) /\ d \in SUBSET Titles
  BY RangeOfStaged DEF RunMemory
<1>2. StageTitle(s, t) = k
  BY DEF StageTitle
<1> HIDE DEF q, d
<1>3. /\ k \in RunMemory /\ k.newLogs = s.newLogs
      /\ k.cands = s.cands /\ k.used = s.used /\ k.pc = s.pc
      /\ k.feed = s.feed /\ k.entry = s.entry /\ k.clean = s.clean
  BY <1>1 DEF RunMemory
<1> HIDE DEF k
<1> QED
  BY <1>2, <1>3 DEF Adds, Pending

LEMMA OccurrenceIsStaged ==
    ASSUME NEW s \in RunMemory, NEW t \in Titles, NEW i \in Items
    PROVE  Adds(s, StageOccurrence(s, t, i))
<1> DEFINE x == <<t, i>>
           q == Staged(s.newOccs, x)
           k == [s EXCEPT !.newOccs = q]
<1>1. x \in Titles \X Items /\ s.newOccs \in Seq(Titles \X Items)
  BY DEF RunMemory
<1>2. StageOccurrence(s, t, i) = k
  BY DEF StageOccurrence
<1> HIDE DEF x
<1>3. q \in Seq(Titles \X Items)
  BY <1>1, RangeOfStaged
<1> HIDE DEF q
<1>4. /\ k \in RunMemory /\ k.newLogs = s.newLogs
      /\ k.cands = s.cands /\ k.used = s.used /\ k.pc = s.pc
      /\ k.feed = s.feed /\ k.entry = s.entry /\ k.clean = s.clean
  BY <1>3 DEF RunMemory
<1> HIDE DEF k
<1> QED
  BY <1>2, <1>4 DEF Adds, Pending

LEMMA ErrorIsAdded ==
    ASSUME NEW s \in RunMemory
    PROVE  Adds(s, RssErred(s)) /\ RssErred(s).clean = FALSE
<1>1. Same(s, RssErred(s)) /\ RssErred(s).clean = FALSE /\ RssErred(s).pc = s.pc
  BY ErredIsSame
<1>2. Alike(s, RssErred(s)) /\ RssErred(s).entry = s.entry
  BY ErredIsAlike
<1> QED
  BY <1>1, <1>2 DEF Adds, Same, Alike, Pending

LEMMA FetchFeedTells ==
    ASSUME IInv, Told, NEW r \in Runs, FetchFeed(r)
    PROVE  Told'
<1> DEFINE s == scan[r]
           started == [s EXCEPT !.pc = "entry", !.entry = 1]
           first == IF Feeds[s.feed] = <<>> THEN ToLogs(r, s) ELSE started
           k == RssErred(s)
           failed == NextFeed(r, k)
<1>1. s.pc = "fetch" /\ UNCHANGED <<catalog, diagnostics, latest, accepted>>
  BY DEF FetchFeed
<1>2. PICK answer \in Answers \ {"lost"} :
        /\ Continue(r, answer, first, failed)
        /\ troubled' = IF Raised(answer) THEN troubled \cup {r} ELSE troubled
  BY DEF FetchFeed
<1>3. Active(r) /\ s.pc # "close"
  BY <1>1 DEF Active
<1>4. /\ s \in RunMemory /\ Traced(s.cands, accepted[r]) /\ (s.clean => r \notin troubled)
      /\ Serialized => Backed(s, Logged)
  BY <1>3, ActiveRun
<1>5. titles \subseteq titles' /\ Logged' = Logged /\ accepted' = accepted
  BY <1>1, LogsStay DEF catalog, diagnostics
<1>6. scan' = [scan EXCEPT ![r] = IF Raised(answer) THEN failed ELSE first]
  BY <1>2 DEF Continue
<1>7. CASE Raised(answer)
  <2>1. Same(s, k) /\ k.clean = FALSE
    BY <1>4, ErredIsSame
  <2> HIDE DEF s, k
  <2>2. Follows(k, failed)
    BY <2>1, NextFeedFollows DEF Same
  <2> HIDE DEF failed
  <2>3. /\ Traced(k.cands, accepted'[r])
        /\ Serialized => Backed(k, Logged')
    BY <1>4, <1>5, <2>1 DEF Same, Backed, Pending
  <2> QED
    BY <1>1, <1>2, <1>3, <1>5, <1>6, <1>7, <2>1, <2>2, <2>3, FollowingTells DEF s
<1>8. CASE ~Raised(answer)
  <2>1. Follows(s, started)
    BY <1>4 DEF Follows, RunMemory, Onward
  <2>2. Follows(s, first)
    BY <1>4, <2>1, ToLogsFollows
  <2> HIDE DEF first
  <2>3. UNCHANGED observed
    BY <1>2, <1>5, <1>8 DEF observed
  <2> QED
    BY <1>1, <1>3, <1>5, <1>6, <1>8, <2>2, <2>3, QuietlyTells
<1> QED
  BY <1>7, <1>8

(* An entry ends with nothing accepted. *)
LEMMA EntryTells ==
    ASSUME IInv, Told, NEW r \in Runs, scan[r].pc = "entry",
           NEW k, Adds(scan[r], k), NEW m, Follows(k, m), scan' = [scan EXCEPT ![r] = m],
           UNCHANGED <<catalog, diagnostics, latest, accepted>>,
           \/ troubled' = troubled
           \/ troubled' = troubled \cup {r} /\ k.clean = FALSE
    PROVE  Told'
<1>1. Active(r) /\ scan[r].pc # "close"
  BY DEF Active
<1>2. /\ scan[r] \in RunMemory /\ Traced(scan[r].cands, accepted[r])
      /\ scan[r].clean => r \notin troubled
      /\ Serialized => Backed(scan[r], Logged)
  BY <1>1, ActiveRun
<1>3. /\ titles \subseteq titles' /\ Logged' = Logged /\ accepted' = accepted
      /\ UNCHANGED latest
  BY LogsStay DEF catalog, diagnostics
<1>4. Traced(k.cands, accepted'[r]) /\ (k.clean => r \notin troubled')
  BY <1>2, <1>3 DEF Adds
<1>5. Serialized => Backed(k, Logged')
  BY <1>2, <1>3, AddsIsBacked
<1>6. \A q \in Runs \ {r} : accepted'[q] = accepted[q] /\ (q \in troubled' <=> q \in troubled)
  BY <1>3
<1> QED
  BY <1>1, <1>3, <1>4, <1>5, <1>6, FollowingTells

LEMMA EntryTooOldTells ==
    ASSUME IInv, Told, NEW r \in Runs, EntryTooOld(r)
    PROVE  Told'
<1>1. /\ scan[r].pc = "entry" /\ scan' = [scan EXCEPT ![r] = NextEntry(r, scan[r])]
      /\ UNCHANGED <<catalog, diagnostics, latest, accepted, troubled>>
  BY DEF EntryTooOld, observed
<1>2. scan[r] \in RunMemory
  BY DEF IInv
<1>3. Adds(scan[r], scan[r])
  BY <1>2 DEF Adds
<1>4. Follows(scan[r], NextEntry(r, scan[r]))
  BY <1>1, <1>2, NextEntryFollows
<1> QED
  BY <1>1, <1>3, <1>4, EntryTells

LEMMA EntryLoggedTells ==
    ASSUME IInv, Told, NEW r \in Runs, NEW state \in {"retryable", "terminal"},
           NEW erred \in BOOLEAN, EntryLogged(r, state, erred)
    PROVE  Told'
<1> DEFINE s == StageLog(scan[r], Entry(r), Unresolved(state))
           k == IF erred THEN RssErred(s) ELSE s
<1>1. /\ scan[r].pc = "entry" /\ scan' = [scan EXCEPT ![r] = NextEntry(r, k)]
      /\ UNCHANGED <<catalog, diagnostics, latest, accepted>>
      /\ troubled' = IF erred THEN troubled \cup {r} ELSE troubled
  BY DEF EntryLogged
<1>2. scan[r] \in RunMemory /\ Entry(r) \in Items /\ state \in RetryStates
  BY <1>1, EntryIsRead DEF IInv, RetryStates
<1>3. Adds(scan[r], s)
  BY <1>2, LogIsStaged
<1> HIDE DEF s
<1>4. Adds(s, RssErred(s)) /\ RssErred(s).clean = FALSE
  BY <1>3, ErrorIsAdded DEF Adds
<1>5. Adds(scan[r], k) /\ (erred => k.clean = FALSE)
  BY <1>3, <1>4, AddsAdds
<1> HIDE DEF k
<1>6. Follows(k, NextEntry(r, k))
  BY <1>1, <1>5, NextEntryFollows DEF Adds
<1>7. \/ troubled' = troubled
      \/ troubled' = troubled \cup {r} /\ k.clean = FALSE
  BY <1>1, <1>5
<1> QED
  BY <1>1, <1>5, <1>6, <1>7, EntryTells

LEMMA EntryOverQuotaTells ==
    ASSUME IInv, Told, NEW r \in Runs, EntryOverQuota(r)
    PROVE  Told'
<1> DEFINE s == StageLog(scan[r], Entry(r), Unresolved("retryable"))
           k == RssErred(s)
<1>1. /\ scan[r].pc = "entry" /\ scan' = [scan EXCEPT ![r] = ToLogs(r, k)]
      /\ UNCHANGED <<catalog, diagnostics, latest, accepted>>
      /\ troubled' = troubled \cup {r}
  BY DEF EntryOverQuota, RetryLog
<1>2. scan[r] \in RunMemory /\ Entry(r) \in Items /\ "retryable" \in RetryStates
  BY <1>1, EntryIsRead DEF IInv, RetryStates
<1>3. Adds(scan[r], s)
  BY <1>2, LogIsStaged
<1> HIDE DEF s
<1>4. Adds(s, k) /\ k.clean = FALSE
  BY <1>3, ErrorIsAdded DEF Adds
<1>5. Adds(scan[r], k)
  BY <1>3, <1>4, AddsAdds
<1> HIDE DEF k
<1>6. Follows(k, ToLogs(r, k))
  BY <1>5, ToLogsFollows DEF Adds
<1> QED
  BY <1>1, <1>4, <1>5, <1>6, EntryTells

LEMMA EntryUnreadTells ==
    ASSUME IInv, Told, NEW r \in Runs, NEW t \in Titles, NEW readTitle \in BOOLEAN,
           EntryUnread(r, t, readTitle)
    PROVE  Told'
<1> DEFINE i == Entry(r)
           s == StageLog(scan[r], i, Unresolved("resolved"))
           titled == StageTitle(s, t)
           read == IF readTitle THEN titled ELSE s
           logged == StageLog(read, i, Unresolved("retryable"))
           k == RssErred(logged)
<1>1. /\ scan[r].pc = "entry" /\ scan' = [scan EXCEPT ![r] = NextEntry(r, k)]
      /\ UNCHANGED <<catalog, diagnostics, latest, accepted>>
      /\ troubled' = troubled \cup {r}
  BY DEF EntryUnread, RetryLog
<1>2. scan[r] \in RunMemory /\ i \in Items
  BY <1>1, EntryIsRead DEF IInv
<1>3. "resolved" \in RetryStates /\ "retryable" \in RetryStates
  BY DEF RetryStates
<1>4. Adds(scan[r], s)
  BY <1>2, <1>3, LogIsStaged
<1> HIDE DEF i, s
<1>5. Adds(s, titled)
  BY <1>4, TitleIsStaged DEF Adds
<1> HIDE DEF titled
<1>6. Adds(scan[r], read)
  BY <1>4, <1>5, AddsAdds
<1> HIDE DEF read
<1>7. Adds(read, logged)
  BY <1>2, <1>3, <1>6, LogIsStaged DEF Adds
<1> HIDE DEF logged
<1>8. Adds(logged, k) /\ k.clean = FALSE
  BY <1>7, ErrorIsAdded DEF Adds
<1> HIDE DEF k
<1>9. Adds(scan[r], k)
  BY <1>6, <1>7, <1>8, AddsAdds
<1>10. Follows(k, NextEntry(r, k))
  BY <1>1, <1>9, NextEntryFollows DEF Adds
<1> QED
  BY <1>1, <1>8, <1>9, <1>10, EntryTells

(* What an acceptance adds to what was accepted. *)
LEMMA SeenAppended ==
    ASSUME NEW A \in Seq(Titles \X Items), NEW t \in Titles, NEW i \in Items,
           NEW B, B = Append(A, <<t, i>>)
    PROVE  /\ \A u \in Titles : Seen(B, u) <=> Seen(A, u) \/ u = t
           /\ \A u, v \in Titles : Seen(A, u) /\ Seen(A, v) =>
                 (Sooner(B, u, v) <=> Sooner(A, u, v))
           /\ \A u \in Titles : Seen(A, u) /\ ~Seen(A, t) =>
                 Sooner(B, u, t) /\ ~Sooner(B, t, u)
<1> DEFINE x == <<t, i>>
           n == Len(A)
<1>1. x \in Titles \X Items /\ x[1] = t
  OBVIOUS
<1>2. B = Append(A, x)
  OBVIOUS
<1> HIDE DEF x
<1>3. /\ n \in Nat /\ DOMAIN A = 1 .. n /\ DOMAIN B = 1 .. n + 1
      /\ \A m \in 1 .. n : B[m] = A[m]
      /\ B[n + 1] = x
  BY <1>1, <1>2
<1> HIDE DEF n
<1>4. 1 .. n + 1 = (1 .. n) \cup {n + 1} /\ \A m \in 1 .. n : m < n + 1 /\ m \in Nat
  BY <1>3
<1>5. ASSUME NEW u \in Titles
      PROVE  Seen(B, u) <=> Seen(A, u) \/ u = t
  BY <1>1, <1>3, <1>4 DEF Seen
<1>6. ASSUME NEW u \in Titles, NEW v \in Titles, Seen(A, u), Seen(A, v)
      PROVE  Sooner(B, u, v) <=> Sooner(A, u, v)
  <2>1. ASSUME Sooner(A, u, v) PROVE Sooner(B, u, v)
    <3>1. PICK m \in 1 .. n : A[m][1] = u /\ \A k \in 1 .. n : A[k][1] = v => m < k
      BY <1>3, <2>1 DEF Sooner
    <3>2. B[m][1] = u /\ \A k \in 1 .. n + 1 : B[k][1] = v => m < k
      BY <1>3, <1>4, <3>1
    <3> QED
      BY <1>3, <1>4, <3>1, <3>2 DEF Sooner
  <2>2. ASSUME Sooner(B, u, v) PROVE Sooner(A, u, v)
    <3>1. PICK m \in 1 .. n + 1 : B[m][1] = u /\ \A k \in 1 .. n + 1 : B[k][1] = v => m < k
      BY <1>3, <2>2 DEF Sooner
    <3>2. PICK k \in 1 .. n : A[k][1] = v
      BY <1>3, <1>6 DEF Seen
    <3>3. m < k
      BY <1>3, <1>4, <3>1, <3>2
    <3>4. m \in 1 .. n
      BY <1>3, <3>1, <3>3
    <3> QED
      BY <1>3, <1>4, <3>1, <3>4 DEF Sooner
  <2> QED
    BY <2>1, <2>2
<1>7. ASSUME NEW u \in Titles, Seen(A, u), ~Seen(A, t)
      PROVE  Sooner(B, u, t) /\ ~Sooner(B, t, u)
  <2>1. PICK m \in 1 .. n : A[m][1] = u
    BY <1>3, <1>7 DEF Seen
  <2>2. \A k \in 1 .. n : A[k][1] # t
    BY <1>3, <1>7 DEF Seen
  <2>3. Sooner(B, u, t)
    <3>1. B[m][1] = u /\ m \in 1 .. n + 1
      BY <1>3, <1>4, <2>1
    <3>2. ASSUME NEW k \in 1 .. n + 1, B[k][1] = t PROVE m < k
      <4>1. k \notin 1 .. n
        BY <1>3, <2>2, <3>2
      <4> QED
        BY <1>4, <2>1, <4>1
    <3> QED
      BY <1>3, <3>1, <3>2 DEF Sooner
  <2>4. ASSUME Sooner(B, t, u) PROVE FALSE
    <3>1. PICK k \in 1 .. n + 1 : B[k][1] = t /\ \A j \in 1 .. n + 1 : B[j][1] = u => k < j
      BY <1>3, <2>4 DEF Sooner
    <3>2. k = n + 1
      BY <1>3, <1>4, <2>2, <3>1
    <3>3. k < m
      BY <1>3, <1>4, <2>1, <3>1
    <3> QED
      BY <1>3, <2>1, <3>2, <3>3
  <2> QED
    BY <2>3, <2>4
<1> QED
  BY <1>5, <1>6, <1>7

LEMMA SoonerIsStrict ==
    ASSUME NEW A \in Seq(Titles \X Items), NEW t
    PROVE  ~Sooner(A, t, t)
  BY DEF Sooner

(* The candidates stay what was accepted, in its order: a title that was    *)
(* accepted before keeps its place, and any other comes last.               *)
LEMMA AcceptedIsTraced ==
    ASSUME NEW c \in [Titles -> Positions], NEW t \in Titles, NEW i \in Items,
           NEW p \in Positions, p # NoPosition, Ranked(c, p[1]),
           \A u \in Found(c) : c[u][1] = p[1] => c[u][2] < p[2],
           NEW A \in Seq(Titles \X Items), Traced(c, A),
           NEW d, d = Candidate(c, t, p)
    PROVE  Traced(d, Append(A, <<t, i>>))
<1> DEFINE B == Append(A, <<t, i>>)
<1>1. /\ t \in Found(c) \/ Kind[t] = "unknown" => d = c
      /\ t \notin Found(c) /\ Kind[t] # "unknown" => d = [c EXCEPT ![t] = p]
  BY FirstPlaceCounts
<1>2. /\ p[1] \in Nat /\ p[2] \in Nat
      /\ \A u \in Found(c) : c[u][1] \in Nat /\ c[u][2] \in Nat /\ c[u][1] <= p[1]
  BY DEF Found, Positions, Ranked
<1>3. /\ \A u \in Titles : Seen(B, u) <=> Seen(A, u) \/ u = t
      /\ \A u, v \in Titles : Seen(A, u) /\ Seen(A, v) =>
            (Sooner(B, u, v) <=> Sooner(A, u, v))
      /\ \A u \in Titles : Seen(A, u) /\ ~Seen(A, t) =>
            Sooner(B, u, t) /\ ~Sooner(B, t, u)
  BY SeenAppended
<1>4. ~Sooner(B, t, t)
  <2>1. <<t, i>> \in Titles \X Items
    OBVIOUS
  <2>2. B \in Seq(Titles \X Items)
    BY <2>1
  <2> QED
    BY <2>2, SoonerIsStrict
<1> HIDE DEF B
<1>5. /\ \A u \in Titles : u \in Found(c) <=> Kind[u] # "unknown" /\ Seen(A, u)
      /\ \A u, v \in Found(c) : Earlier(c[u], c[v]) <=> Sooner(A, u, v)
      /\ Found(c) \subseteq Titles
  BY DEF Traced, Found
<1>6. CASE t \in Found(c) \/ Kind[t] = "unknown"
  BY <1>1, <1>3, <1>5, <1>6 DEF Traced, B
<1>7. CASE t \notin Found(c) /\ Kind[t] # "unknown"
  <2>1. /\ d[t] = p /\ \A u \in Titles \ {t} : d[u] = c[u]
        /\ Found(d) = Found(c) \cup {t} /\ ~Seen(A, t)
    BY <1>1, <1>5, <1>7 DEF Found
  <2>2. \A u \in Titles : u \in Found(d) <=> Kind[u] # "unknown" /\ Seen(B, u)
    BY <1>3, <1>5, <1>7, <2>1
  <2>3. ASSUME NEW u \in Found(c)
        PROVE  Earlier(c[u], p) /\ ~Earlier(p, c[u])
    BY <1>2 DEF Earlier
  <2>4. ~Earlier(p, p)
    BY <1>2 DEF Earlier
  <2>5. ASSUME NEW u \in Found(d), NEW v \in Found(d)
        PROVE  Earlier(d[u], d[v]) <=> Sooner(B, u, v)
    <3>1. CASE u # t /\ v # t
      BY <1>3, <1>5, <2>1, <3>1
    <3>2. CASE u # t /\ v = t
      BY <1>3, <1>5, <2>1, <2>3, <3>2
    <3>3. CASE u = t /\ v # t
      BY <1>3, <1>5, <2>1, <2>3, <3>3
    <3>4. CASE u = t /\ v = t
      BY <1>4, <2>1, <2>4, <3>4
    <3> QED
      BY <3>1, <3>2, <3>3, <3>4
  <2> QED
    BY <2>2, <2>5 DEF Traced, B
<1> QED
  BY <1>6, <1>7

LEMMA EntryAcceptedTells ==
    ASSUME IInv, Told, NEW r \in Runs, NEW t \in Titles, EntryAccepted(r, t)
    PROVE  Told'
<1> DEFINE i == Entry(r)
           a == StageLog(scan[r], i, Unresolved("resolved"))
           b == StageTitle(a, t)
           s == StageOccurrence(b, t, i)
           mapped == Usable(scan[r], i) # NoTitle
           c == Candidate(s.cands, t, <<s.feed, s.entry>>)
           q == IF mapped THEN Append(s.used, <<i, t>>) ELSE s.used
           n == [s EXCEPT !.cands = c, !.used = q]
           m == NextEntry(r, n)
           A == accepted[r]
<1>1. /\ scan[r].pc = "entry" /\ scan' = [scan EXCEPT ![r] = m]
      /\ accepted' = [accepted EXCEPT ![r] = Append(@, <<t, i>>)]
      /\ UNCHANGED <<catalog, diagnostics, latest, troubled>>
  BY DEF EntryAccepted
<1>2. Active(r) /\ scan[r].pc # "close"
  BY <1>1 DEF Active
<1>3. /\ scan[r] \in RunMemory /\ Traced(scan[r].cands, A)
      /\ scan[r].clean => r \notin troubled
      /\ Serialized => Backed(scan[r], Logged)
  BY <1>2, ActiveRun
<1>4. /\ Reading(scan[r], titles, occs, A) /\ i \in Items
      /\ \A u \in Found(scan[r].cands) :
            scan[r].cands[u][1] = scan[r].feed => scan[r].cands[u][2] < scan[r].entry
  BY <1>1, EntryIsRead
<1>5. "resolved" \in RetryStates
  BY DEF RetryStates
<1>6. Adds(scan[r], a) /\ Pending(a, i)
  BY <1>3, <1>4, <1>5, LogIsStaged
<1> HIDE DEF i, a
<1>7. Adds(a, b)
  BY <1>6, TitleIsStaged DEF Adds
<1> HIDE DEF b
<1>8. Adds(b, s)
  BY <1>4, <1>7, OccurrenceIsStaged DEF Adds
<1> HIDE DEF s
<1>9. Adds(scan[r], s) /\ Pending(s, i)
  BY <1>4, <1>6, <1>7, <1>8, AddsAdds DEF Adds
<1>10. accepted \in [Runs -> Seq(Titles \X Items)] /\ A \in Seq(Titles \X Items)
  BY StoreIsTyped DEF Stored
<1>11. /\ accepted'[r] = Append(A, <<t, i>>)
       /\ \A o \in Runs \ {r} : accepted'[o] = accepted[o]
  BY <1>1, <1>10
<1> HIDE DEF A
<1>12. /\ s \in RunMemory /\ s.pc = "entry" /\ s.cands \in [Titles -> Positions]
       /\ s.feed \in Nat /\ s.feed # 0 /\ s.entry \in Nat
       /\ Ranked(s.cands, s.feed)
       /\ \A u \in Found(s.cands) : s.cands[u][1] = s.feed => s.cands[u][2] < s.entry
       /\ Traced(s.cands, A) /\ s.used \in Seq(Items \X Titles)
       /\ s.clean => scan[r].clean
  <2>1. scan[r].feed \in 1 .. Len(Feeds) /\ Ranked(scan[r].cands, scan[r].feed)
    BY <1>4 DEF Reading, Sound
  <2>2. scan[r].feed # 0
    BY <2>1, FeedsAreTyped
  <2> QED
    BY <1>1, <1>3, <1>4, <1>9, <2>1, <2>2 DEF Adds, RunMemory
<1>13. c \in [Titles -> Positions] /\ Traced(c, Append(A, <<t, i>>))
  <2> DEFINE p == <<s.feed, s.entry>>
  <2>1. /\ p \in Positions /\ p # NoPosition /\ p[1] = s.feed /\ p[2] = s.entry
        /\ c = Candidate(s.cands, t, p)
    BY <1>12 DEF Positions, NoPosition
  <2> HIDE DEF p, c
  <2>2. /\ Ranked(s.cands, p[1])
        /\ \A u \in Found(s.cands) : s.cands[u][1] = p[1] => s.cands[u][2] < p[2]
    BY <1>12, <2>1
  <2> QED
    BY <1>4, <1>10, <1>12, <2>1, <2>2, CandidateIsRanked, AcceptedIsTraced DEF A
<1> HIDE DEF c
<1>14. /\ q \in Seq(Items \X Titles)
       /\ Range(q) \subseteq Range(s.used) \cup {<<i, t>>}
  <2> DEFINE x == <<i, t>>
  <2>1. x \in Items \X Titles
    BY <1>4
  <2>2. q = s.used \/ q = Append(s.used, x)
    OBVIOUS
  <2> HIDE DEF x, q
  <2>3. /\ Append(s.used, x) \in Seq(Items \X Titles)
        /\ Range(Append(s.used, x)) = Range(s.used) \cup {x}
    BY <1>12, <2>1, RangeOfAppend
  <2>4. q \in Seq(Items \X Titles) /\ Range(q) \subseteq Range(s.used) \cup {x}
    BY <1>12, <2>2, <2>3
  <2> QED
    BY <2>4 DEF x
<1> HIDE DEF q
<1>15. /\ n \in RunMemory /\ n.cands = c /\ n.used = q /\ n.pc = "entry"
       /\ n.newLogs = s.newLogs /\ n.clean = s.clean
  BY <1>12, <1>13, <1>14 DEF RunMemory
<1> HIDE DEF n
<1>16. Follows(n, m)
  BY <1>15, NextEntryFollows
<1> HIDE DEF m
<1>17. Serialized => Backed(n, Logged)
  <2>1. Serialized => Backed(s, Logged)
    BY <1>3, <1>9, AddsIsBacked
  <2>2. \A j : Pending(n, j) <=> Pending(s, j)
    BY <1>15 DEF Pending
  <2>3. <<i, t>>[1] = i
    OBVIOUS
  <2> QED
    BY <1>9, <1>14, <1>15, <2>1, <2>2, <2>3 DEF Backed
<1>18. titles \subseteq titles' /\ Logged' = Logged /\ UNCHANGED <<latest, troubled>>
  BY <1>1, LogsStay DEF catalog, diagnostics
<1>19. /\ Traced(n.cands, accepted'[r]) /\ (n.clean => r \notin troubled')
       /\ Serialized => Backed(n, Logged')
  BY <1>3, <1>11, <1>12, <1>13, <1>15, <1>17, <1>18
<1> QED
  BY <1>1, <1>2, <1>11, <1>16, <1>18, <1>19, FollowingTells

-----------------------------------------------------------------------------
(* The reparse phase *)

LEMMA ReloadMappingsTells ==
    ASSUME IInv, Told, NEW r \in Runs, ReloadMappings(r)
    PROVE  Told'
<1> DEFINE s == scan[r]
           reloaded == [i \in Items |-> IF mappings[i] # NoTitle THEN mappings[i] ELSE s.loaded[i]]
           ok == [s EXCEPT !.pc = "page", !.loaded = reloaded]
           failed == [s EXCEPT !.pc = "finish", !.status = "failed"]
           m(answer) == IF Raised(answer) THEN failed ELSE ok
<1>1. s.pc = "reload" /\ UNCHANGED <<catalog, diagnostics, latest, observed>>
  BY DEF ReloadMappings
<1>2. PICK answer \in Answers \ {"lost"} : Continue(r, answer, ok, failed)
  BY DEF ReloadMappings
<1>3. s \in RunMemory
  BY DEF IInv
<1>4. scan' = [scan EXCEPT ![r] = m(answer)]
  BY <1>2 DEF Continue
<1> HIDE DEF reloaded
<1>5. Follows(s, ok) /\ Follows(s, failed)
  BY <1>3 DEF Follows, RunMemory, Onward
<1> HIDE DEF ok, failed
<1>6. Follows(s, m(answer))
  BY <1>5
<1>7. /\ Active(r) /\ s.pc # "close"
      /\ titles \subseteq titles' /\ Logged \subseteq Logged'
  BY <1>1, LogsStay DEF Active, catalog, diagnostics
<1> HIDE DEF m
<1> QED
  BY <1>1, <1>4, <1>6, <1>7, QuietlyTells

LEMMA ReadPageTells ==
    ASSUME IInv, Told, NEW r \in Runs, ReadPage(r)
    PROVE  Told'
<1> DEFINE s == scan[r]
           page == Retryable \ s.wrote
           pc == IF page = {} THEN "finish" ELSE "reparse"
           ok == [s EXCEPT !.pc = pc, !.page = page]
           failed == [s EXCEPT !.pc = "finish", !.status = "failed"]
           m(answer) == IF Raised(answer) THEN failed ELSE ok
<1>1. s.pc = "page" /\ UNCHANGED <<catalog, diagnostics, latest, observed>>
  BY DEF ReadPage
<1>2. \E answer \in Answers \cup {"unreadable"} : Continue(r, answer, ok, failed)
  BY DEF ReadPage
<1>3. PICK answer \in Answers \cup {"unreadable"} : Continue(r, answer, ok, failed)
  BY <1>2
<1>4. s \in RunMemory
  BY DEF IInv
<1>5. scan' = [scan EXCEPT ![r] = m(answer)]
  BY <1>3 DEF Continue
<1>6. pc \in {"finish", "reparse"}
  OBVIOUS
<1> HIDE DEF page, pc
<1>7. Follows(s, ok) /\ Follows(s, failed)
  BY <1>4, <1>6 DEF Follows, RunMemory, Onward
<1> HIDE DEF ok, failed
<1>8. Follows(s, m(answer))
  BY <1>7
<1>9. /\ Active(r) /\ s.pc # "close"
      /\ titles \subseteq titles' /\ Logged \subseteq Logged'
  BY <1>1, LogsStay DEF Active, catalog, diagnostics
<1> HIDE DEF m
<1> QED
  BY <1>1, <1>5, <1>8, <1>9, QuietlyTells

LEMMA RecordOutcomeTells ==
    ASSUME IInv, Told, NEW r \in Runs, NEW log \in {RetryLog, TerminalLog},
           NEW erred \in BOOLEAN, RecordOutcome(r, log, erred)
    PROVE  Told'
<1> DEFINE s == scan[r]
           next(i) == DoneWith(IF erred THEN Erred(s) ELSE s, i)
<1>1. s.pc = "reparse" /\ UNCHANGED <<catalog, latest, observed>>
  BY DEF RecordOutcome
<1>0. PICK i \in Due(s) : \E answer \in LogAnswers(i) :
        AddLog(answer, i, log) /\ Continue(r, answer, next(i), DoneWith(Erred(s), i))
  BY DEF RecordOutcome
<1>2. PICK answer \in LogAnswers(i) :
        AddLog(answer, i, log) /\ Continue(r, answer, next(i), DoneWith(Erred(s), i))
  BY <1>0
<1> DEFINE m == IF Raised(answer) THEN DoneWith(Erred(s), i) ELSE next(i)
<1>3. s \in RunMemory
  BY DEF IInv
<1>4. scan' = [scan EXCEPT ![r] = m]
  BY <1>2 DEF Continue
<1>5. i \in Items
  BY <1>2, <1>3 DEF Due, Mapped, RunMemory
<1>6. log \in Logs /\ log.state # "absent"
  BY DEF RetryLog, TerminalLog, Unresolved, Logs, RetryStates
<1>7. Logged \subseteq Logged'
  BY <1>2, <1>5, <1>6, LogsGrow
<1>8. Follows(s, m)
  BY <1>3, DoneWithFollows
<1>9. Active(r) /\ s.pc # "close" /\ titles \subseteq titles'
  BY <1>1 DEF Active, catalog
<1> HIDE DEF m
<1> QED
  BY <1>1, <1>4, <1>7, <1>8, <1>9, QuietlyTells

LEMMA AcceptCandidateTells ==
    ASSUME IInv, Told, NEW r \in Runs, AcceptCandidate(r)
    PROVE  Told'
<1> DEFINE s == scan[r]
<1>1. s.pc = "reparse" /\ UNCHANGED <<catalog, diagnostics, latest, observed>>
  BY DEF AcceptCandidate
<1>2. PICK i \in Due(s) :
        \E t \in IF Usable(s, i) # NoTitle THEN {Usable(s, i)} ELSE Titles :
          scan' = [scan EXCEPT ![r].pc = "saveTitle", ![r].item = i, ![r].title = t]
  BY DEF AcceptCandidate
<1>3. PICK t : scan' = [scan EXCEPT ![r].pc = "saveTitle", ![r].item = i, ![r].title = t]
  BY <1>2
<1> DEFINE m == [s EXCEPT !.pc = "saveTitle", !.item = i, !.title = t]
<1>4. s \in RunMemory /\ scan \in [Runs -> RunMemory]
  BY DEF IInv
<1>5. scan' = [scan EXCEPT ![r] = m]
  BY <1>3, <1>4
<1>6. Follows(s, m)
  BY <1>4 DEF Follows, RunMemory, Onward
<1>7. /\ Active(r) /\ s.pc # "close"
      /\ titles \subseteq titles' /\ Logged \subseteq Logged'
  BY <1>1, LogsStay DEF Active, catalog, diagnostics
<1> HIDE DEF m
<1> QED
  BY <1>1, <1>5, <1>6, <1>7, QuietlyTells

LEMMA SaveTitleTells ==
    ASSUME IInv, Told, NEW r \in Runs, SaveTitle(r)
    PROVE  Told'
<1> DEFINE s == scan[r]
           ok == [s EXCEPT !.pc = "saveOcc"]
           m(answer) == IF Raised(answer) THEN GiveUp(s) ELSE ok
<1>1. s.pc = "saveTitle" /\ UNCHANGED <<diagnostics, latest, observed>>
  BY DEF SaveTitle
<1>2. PICK answer \in Answers : UpsertTitle(answer, s.title) /\ Continue(r, answer, ok, GiveUp(s))
  BY DEF SaveTitle
<1>3. s \in RunMemory
  BY DEF IInv
<1>4. scan' = [scan EXCEPT ![r] = m(answer)]
  BY <1>2 DEF Continue
<1>5. Follows(s, ok)
  BY <1>3, MovedFollows DEF Onward
<1> HIDE DEF ok
<1>6. Follows(s, m(answer))
  BY <1>3, <1>5, GiveUpFollows
<1>7. /\ Active(r) /\ s.pc # "close"
      /\ titles \subseteq titles' /\ Logged \subseteq Logged'
  BY <1>1, <1>2, LogsStay DEF Active, UpsertTitle, diagnostics
<1> HIDE DEF m
<1> QED
  BY <1>1, <1>4, <1>6, <1>7, QuietlyTells

LEMMA SaveOccurrenceTells ==
    ASSUME IInv, Told, NEW r \in Runs, SaveOccurrence(r)
    PROVE  Told'
<1> DEFINE s == scan[r]
           ok == [s EXCEPT !.pc = "saveLog"]
           m(answer) == IF Raised(answer) THEN GiveUp(s) ELSE ok
<1>1. s.pc = "saveOcc" /\ UNCHANGED <<titles, diagnostics, latest, observed>>
  BY DEF SaveOccurrence
<1>2. PICK answer \in Answers : Continue(r, answer, ok, GiveUp(s))
  BY DEF SaveOccurrence
<1>3. s \in RunMemory
  BY DEF IInv
<1>4. scan' = [scan EXCEPT ![r] = m(answer)]
  BY <1>2 DEF Continue
<1>5. Follows(s, ok)
  BY <1>3, MovedFollows DEF Onward
<1> HIDE DEF ok
<1>6. Follows(s, m(answer))
  BY <1>3, <1>5, GiveUpFollows
<1>7. /\ Active(r) /\ s.pc # "close"
      /\ titles \subseteq titles' /\ Logged \subseteq Logged'
  BY <1>1, LogsStay DEF Active, diagnostics
<1> HIDE DEF m
<1> QED
  BY <1>1, <1>4, <1>6, <1>7, QuietlyTells

LEMMA SaveLogTells ==
    ASSUME IInv, Told, NEW r \in Runs, SaveLog(r)
    PROVE  Told'
<1> DEFINE s == scan[r]
           used == [s EXCEPT !.pc = "saveUsed"]
           saved == IF Usable(s, s.item) # NoTitle THEN used ELSE DoneWith(s, s.item)
           log == ResolvedLog(s.title)
           m(answer) == IF Raised(answer) THEN GiveUp(s) ELSE saved
<1>1. s.pc = "saveLog" /\ UNCHANGED <<catalog, latest, observed>>
  BY DEF SaveLog
<1>2. PICK answer \in LogAnswers(s.item) :
        AddLog(answer, s.item, log) /\ Continue(r, answer, saved, GiveUp(s))
  BY DEF SaveLog
<1>3. Active(r) /\ s.pc \notin {"close"} \cup Over
  BY <1>1 DEF Active, Over
<1>4. /\ s \in RunMemory /\ Traced(s.cands, accepted[r]) /\ (s.clean => r \notin troubled)
      /\ Serialized => (\A q \in Runs \ {r} : ~Active(q)) /\ Backed(s, Logged)
  BY <1>3, ActiveRun
<1>5. s.item \in Items /\ s.title \in Titles
  BY <1>1 DEF IInv, Good, Placed, Saving
<1>6. log \in Logs /\ log.state # "absent"
  BY <1>5 DEF ResolvedLog, Logs, RetryStates
<1>7. Logged \subseteq Logged' /\ (Landed(answer) => s.item \in Logged')
  BY <1>2, <1>5, <1>6, LogsGrow
<1>8. scan' = [scan EXCEPT ![r] = m(answer)] /\ (Raised(answer) \/ Landed(answer))
  BY <1>2 DEF Continue, LogAnswers, Answers, Raised, Landed
<1>9. UNCHANGED <<titles, snaps, pointer, accepted, troubled>>
  BY <1>1 DEF catalog, latest, observed
<1>10. CASE Raised(answer) \/ Usable(s, s.item) = NoTitle
  <2>1. Follows(s, m(answer))
    BY <1>4, <1>10, GiveUpFollows, DoneWithFollows
  <2>2. titles \subseteq titles' /\ s.pc # "close"
    BY <1>3, <1>9
  <2> HIDE DEF m
  <2> QED
    BY <1>1, <1>3, <1>7, <1>8, <2>1, <2>2, QuietlyTells
<1>11. CASE ~Raised(answer) /\ Usable(s, s.item) # NoTitle
  <2>1. m(answer) = used
    BY <1>11
  <2>2. /\ used.pc = "saveUsed" /\ used.item = s.item /\ used.clean = s.clean
        /\ used.cands = s.cands /\ used.used = s.used /\ used.newLogs = s.newLogs
    BY <1>4 DEF RunMemory
  <2> HIDE DEF m, used
  <2>3. Telling(used, accepted[r], r \in troubled, snaps[r])
    BY <1>4, <2>2 DEF Telling, Over
  <2>4. Serialized => Noted(used, Logged', Retryable')
    BY <1>4, <1>7, <1>8, <1>11, <2>2 DEF Noted, Backed, Pending, Over
  <2> QED
    BY <1>3, <1>4, <1>8, <1>9, <2>1, <2>3, <2>4, OneRunTells
<1> QED
  BY <1>10, <1>11

LEMMA SaveMappingTells ==
    ASSUME IInv, Told, NEW r \in Runs, SaveMapping(r)
    PROVE  Told'
<1> DEFINE s == scan[r]
           left == Forget(s, s.item, s.title)
           m(answer) == IF Raised(answer) THEN DoneWith(Erred(s), s.item)
                        ELSE DoneWith(left, s.item)
<1>1. s.pc = "saveUsed" /\ UNCHANGED <<catalog, diagnostics, latest, observed>>
  BY DEF SaveMapping
<1>2. PICK answer \in Answers :
        Continue(r, answer, DoneWith(left, s.item), DoneWith(Erred(s), s.item))
  BY DEF SaveMapping
<1>3. s \in RunMemory
  BY DEF IInv
<1>4. s.item \in Items
  BY <1>1 DEF IInv, Good, Placed, Saving
<1>5. scan' = [scan EXCEPT ![r] = m(answer)]
  BY <1>2 DEF Continue
<1>6. Same(s, left)
  BY <1>3, <1>4, ForgetIsSame
<1> HIDE DEF left
<1>7. Follows(s, DoneWith(left, s.item))
  BY <1>6, DoneWithFollows, SameFollows DEF Same
<1>8. Follows(s, m(answer))
  BY <1>3, <1>7, DoneWithFollows
<1>9. /\ Active(r) /\ s.pc # "close"
      /\ titles \subseteq titles' /\ Logged \subseteq Logged'
  BY <1>1, LogsStay DEF Active, catalog, diagnostics
<1> HIDE DEF m
<1> QED
  BY <1>1, <1>5, <1>8, <1>9, QuietlyTells

LEMMA SaveRetryTells ==
    ASSUME IInv, Told, NEW r \in Runs, SaveRetry(r)
    PROVE  Told'
<1> DEFINE s == scan[r]
           m(answer) == IF Raised(answer) THEN DoneWith(Erred(s), s.item)
                        ELSE DoneWith(s, s.item)
<1>1. s.pc = "saveRetry" /\ UNCHANGED <<catalog, latest, observed>>
  BY DEF SaveRetry
<1>2. PICK answer \in LogAnswers(s.item) :
        /\ AddLog(answer, s.item, RetryLog)
        /\ Continue(r, answer, DoneWith(s, s.item), DoneWith(Erred(s), s.item))
  BY DEF SaveRetry
<1>3. s \in RunMemory
  BY DEF IInv
<1>4. s.item \in Items
  BY <1>1 DEF IInv, Good, Placed, Saving
<1>5. scan' = [scan EXCEPT ![r] = m(answer)]
  BY <1>2 DEF Continue
<1>6. RetryLog \in Logs /\ RetryLog.state # "absent"
  BY DEF RetryLog, Unresolved, Logs, RetryStates
<1>7. Logged \subseteq Logged'
  BY <1>2, <1>4, <1>6, LogsGrow
<1>8. Follows(s, m(answer))
  BY <1>3, DoneWithFollows
<1>9. Active(r) /\ s.pc # "close" /\ titles \subseteq titles'
  BY <1>1 DEF Active, catalog
<1> HIDE DEF m
<1> QED
  BY <1>1, <1>5, <1>7, <1>8, <1>9, QuietlyTells

-----------------------------------------------------------------------------
(* Publishing *)

LEMMA NotPublishedFollows ==
    ASSUME NEW s \in RunMemory
    PROVE  Follows(s, NotPublished(s)) /\ NotPublished(s).pc = "close"
<1>1. Same(s, Erred(s))
  BY ErredIsSame
<1>2. Erred(s) \in RunMemory
  BY <1>1 DEF Same
<1>3. Follows(Erred(s), [Erred(s) EXCEPT !.pc = "close"])
  BY <1>2, MovedFollows DEF Onward
<1>4. [Erred(s) EXCEPT !.pc = "close"].pc = "close"
  BY <1>2 DEF RunMemory
<1> QED
  BY <1>1, <1>3, <1>4, SameFollows DEF NotPublished

(* What is known of a run that publishes. *)
LEMMA PublishingRun ==
    ASSUME IInv, Told, NEW r \in Runs, scan[r].pc \in {"stage", "items", "promote"}
    PROVE  /\ Active(r) /\ scan[r].pc \notin {"close"} \cup Over
           /\ scan[r] \in RunMemory /\ Traced(scan[r].cands, accepted[r])
           /\ scan[r].clean /\ r \notin troubled
           /\ scan[r].cands \in [Titles -> Positions]
           /\ Ranked(scan[r].cands, scan[r].feed) /\ scan[r].feed \in Nat
           /\ Found(scan[r].cands) \subseteq titles
           /\ Serialized => (\A q \in Runs \ {r} : ~Active(q)) /\ Backed(scan[r], Logged)
<1>1. Active(r) /\ scan[r].pc \in Ending /\ scan[r].pc \notin {"close"} \cup Over
  BY DEF Active, Ending, Over
<1>2. scan[r].clean
  BY DEF Told, Telling
<1>3. /\ scan[r] \in RunMemory /\ Good(scan[r], titles, occs, accepted[r])
      /\ scan[r].cands \in [Titles -> Positions] /\ Ranked(scan[r].cands, scan[r].feed)
  BY <1>1, EndingRun
<1>4. scan[r].newTitles = <<>>
  BY <1>1, <1>3 DEF Good, Emptied
<1>5. Found(scan[r].cands) \subseteq titles
  BY <1>3, <1>4, RangeOfEmpty DEF Good, Sound
<1>6. scan[r].feed \in Nat
  BY <1>3 DEF RunMemory
<1> QED
  BY <1>1, <1>2, <1>3, <1>5, <1>6, ActiveRun

LEMMA NothingLaid == ASSUME NEW c PROVE Laid(c, 0) = {}
  BY DEF Laid

(* The run goes on publishing as ok, or not at all. *)
LEMMA PublishingTells ==
    ASSUME IInv, Told, NEW r \in Runs, scan[r].pc \in {"stage", "items", "promote"},
           NEW answer, NEW ok, Continue(r, answer, ok, NotPublished(scan[r])),
           Same(scan[r], ok), ok.clean, ok.pc \in {"items", "promote"},
           ~Raised(answer) /\ ok.pc = "items" =>
              snaps'[r] = Page("staging", scan[r].cands, ok.at - 1),
           ~Raised(answer) /\ ok.pc = "promote" =>
              snaps'[r] = Page("staging", scan[r].cands, Cardinality(Found(scan[r].cands))),
           \A q \in Runs \ {r} : snaps'[q] = snaps[q],
           UNCHANGED <<titles, logs, pointer, accepted, troubled>>
    PROVE  Told'
<1> DEFINE m == IF Raised(answer) THEN NotPublished(scan[r]) ELSE ok
<1>1. scan' = [scan EXCEPT ![r] = m]
  BY DEF Continue
<1>2. /\ Active(r) /\ scan[r].pc \notin {"close"} \cup Over
      /\ scan[r] \in RunMemory /\ Traced(scan[r].cands, accepted[r])
      /\ r \notin troubled
      /\ Serialized => (\A q \in Runs \ {r} : ~Active(q)) /\ Backed(scan[r], Logged)
  BY PublishingRun
<1>3. Logged' = Logged /\ Retryable' = Retryable
  BY LogsStay
<1>4. CASE Raised(answer)
  <2>1. m = NotPublished(scan[r]) /\ Follows(scan[r], m)
    BY <1>2, <1>4, NotPublishedFollows
  <2> HIDE DEF m
  <2>2. Telling(m, accepted[r], r \in troubled, snaps'[r])
    BY <1>2, <2>1, FollowsIsTelling
  <2>3. Serialized => Noted(m, Logged', Retryable')
    BY <1>2, <1>3, <2>1, FollowsIsNoted
  <2> QED
    BY <1>1, <1>2, <2>2, <2>3, OneRunTells
<1>5. CASE ~Raised(answer)
  <2>1. m = ok
    BY <1>5
  <2> HIDE DEF m
  <2>2. m.cands = scan[r].cands /\ m.newLogs = scan[r].newLogs /\ m.used = scan[r].used
    BY <2>1 DEF Same
  <2>3. m.pc \in {"items", "promote"} /\ m.pc \notin {"idle"} \cup Over
    BY <2>1 DEF Over
  <2>4. Telling(m, accepted[r], r \in troubled, snaps'[r])
    BY <1>2, <1>5, <2>1, <2>2, <2>3 DEF Telling
  <2>5. Serialized => Noted(m, Logged', Retryable')
    BY <1>2, <1>3, <2>2, <2>3 DEF Noted, Backed, Pending
  <2> QED
    BY <1>1, <1>2, <2>4, <2>5, OneRunTells
<1> QED
  BY <1>4, <1>5

LEMMA StageSnapshotTells ==
    ASSUME IInv, Told, NEW r \in Runs, StageSnapshot(r)
    PROVE  Told'
<1> DEFINE s == scan[r]
           count == Len(BuiltItems(s.cands))
           pc == IF count = 0 THEN "promote" ELSE "items"
           snap == [status |-> "staging", count |-> count, items |-> {}]
           ok == [s EXCEPT !.pc = pc, !.at = 1]
<1>1. s.pc \in {"stage", "items", "promote"}
  BY DEF StageSnapshot
<1>2. PICK answer \in Answers :
        /\ snaps' = IF Landed(answer) THEN [snaps EXCEPT ![r] = snap] ELSE snaps
        /\ Continue(r, answer, ok, NotPublished(s))
  BY DEF StageSnapshot
<1>3. /\ s \in RunMemory /\ s.clean
      /\ s.cands \in [Titles -> Positions] /\ Ranked(s.cands, s.feed)
  BY <1>1, PublishingRun
<1>4. UNCHANGED <<titles, logs, pointer, accepted, troubled>>
  BY DEF StageSnapshot, catalog, diagnostics, observed
<1> HIDE DEF s
<1>5. count = Cardinality(Found(s.cands)) /\ count \in Nat
  BY <1>3, BuiltIsSorted
<1> HIDE DEF count
<1>6. pc \in Phases /\ pc \in {"items", "promote"}
  BY DEF Phases
<1>7. pc = "promote" => count = 0
  OBVIOUS
<1> HIDE DEF pc
<1>8. Same(s, ok) /\ ok.pc = pc /\ ok.at = 1 /\ ok.clean
  BY <1>3, <1>6 DEF Same, RunMemory
<1> HIDE DEF ok
<1>9. snap = Page("staging", s.cands, 0)
  BY <1>5, NothingLaid DEF Page
<1> HIDE DEF snap
<1>10. snaps \in [Runs -> Snapshots]
  BY StoreIsTyped DEF Stored
<1>11. /\ \A q \in Runs \ {r} : snaps'[q] = snaps[q]
       /\ ~Raised(answer) => snaps'[r] = Page("staging", s.cands, 0)
  BY <1>2, <1>9, <1>10 DEF Raised, Landed
<1>12. /\ ~Raised(answer) /\ ok.pc = "items" => snaps'[r] = Page("staging", s.cands, ok.at - 1)
       /\ ~Raised(answer) /\ ok.pc = "promote" =>
             snaps'[r] = Page("staging", s.cands, Cardinality(Found(s.cands)))
  <2>1. ok.at - 1 = 0 /\ (ok.pc = "promote" => Cardinality(Found(s.cands)) = 0)
    BY <1>5, <1>7, <1>8
  <2> QED
    BY <1>11, <2>1
<1> QED
  BY <1>1, <1>2, <1>4, <1>6, <1>8, <1>11, <1>12, PublishingTells DEF s

(* A batch lays the items that come next. *)
LEMMA BatchIsLaid ==
    ASSUME NEW c, NEW N \in Nat, Len(BuiltItems(c)) = N, DOMAIN BuiltItems(c) = 1 .. N,
           NEW at \in 1 .. N, NEW next \in Nat, at <= next
    PROVE  LET batch == {n \in DOMAIN BuiltItems(c) : at <= n /\ n < next} IN
           Laid(c, at - 1) \cup {<<BuiltItems(c)[n], n>> : n \in batch}
              = Laid(c, IF next <= N THEN next - 1 ELSE N)
<1> DEFINE B == BuiltItems(c)
           batch == {n \in DOMAIN B : at <= n /\ n < next}
           k == IF next <= N THEN next - 1 ELSE N
<1>1. batch = {n \in 1 .. N : at <= n /\ n < next}
  OBVIOUS
<1>2. 1 .. k = (1 .. at - 1) \cup batch
  BY <1>1
<1> HIDE DEF B, batch, k
<1>3. Laid(c, at - 1) \cup {<<B[n], n>> : n \in batch} = Laid(c, k)
  BY <1>2 DEF Laid, B
<1> QED
  BY <1>3 DEF B, batch, k

LEMMA MovedIsSame ==
    ASSUME NEW s \in RunMemory, NEW pc \in Phases
    PROVE  LET m == [s EXCEPT !.pc = pc] IN
           Same(s, m) /\ m.pc = pc /\ m.clean = s.clean
  BY DEF Same, RunMemory

LEMMA StageItemsTells ==
    ASSUME IInv, Told, NEW r \in Runs, StageItems(r)
    PROVE  Told'
<1> DEFINE s == scan[r]
           c == s.cands
           built == BuiltItems(c)
           next == s.at + BatchSize
           batch == {n \in DOMAIN built : s.at <= n /\ n < next}
           new == {<<built[n], n>> : n \in batch}
           onward == [s EXCEPT !.at = next]
           last == [s EXCEPT !.pc = "promote"]
           ok == IF next <= Len(built) THEN onward ELSE last
           N == Cardinality(Found(c))
<1>1. s.pc = "items" /\ s.pc \in {"stage", "items", "promote"}
  BY DEF StageItems
<1>2. PICK answer \in Answers :
        /\ snaps' = IF Landed(answer) THEN [snaps EXCEPT ![r].items = @ \cup new] ELSE snaps
        /\ Continue(r, answer, ok, NotPublished(s))
  BY DEF StageItems
<1>3. /\ s \in RunMemory /\ s.clean
      /\ c \in [Titles -> Positions] /\ Ranked(c, s.feed)
  BY <1>1, PublishingRun
<1>4. UNCHANGED <<titles, logs, pointer, accepted, troubled>>
  BY DEF StageItems, catalog, diagnostics, observed
<1>5. snaps[r] = Page("staging", c, s.at - 1)
  BY <1>1 DEF Told, Telling
<1>6. s.at \in 1 .. N
  <2>1. s.pc \in Ending
    BY <1>1 DEF Ending
  <2> QED
    BY <1>1, <2>1, EndingRun DEF Good, Placed
<1> HIDE DEF s
<1>7. N \in Nat /\ Len(built) = N /\ DOMAIN built = 1 .. N
  BY <1>3, BuiltIsSorted
<1> HIDE DEF N
<1>8. next \in Nat /\ s.at <= next
  BY <1>6, <1>7, StoreAssumption
<1> HIDE DEF next
<1> DEFINE k == IF next <= N THEN next - 1 ELSE N
<1>9. Laid(c, s.at - 1) \cup new = Laid(c, k)
  BY <1>6, <1>7, <1>8, BatchIsLaid
<1> HIDE DEF new
<1>10. /\ \A q \in Runs \ {r} : snaps'[q] = snaps[q]
       /\ ~Raised(answer) => snaps'[r] = Page("staging", c, k)
  <2>1. snaps \in [Runs -> Snapshots]
    BY StoreIsTyped DEF Stored
  <2> DEFINE page == [snaps[r] EXCEPT !.items = @ \cup new]
  <2>2. page = Page("staging", c, k)
    BY <1>5, <1>9 DEF Page
  <2>3. snaps' = IF Landed(answer) THEN [snaps EXCEPT ![r] = page] ELSE snaps
    BY <1>2, <2>1
  <2> HIDE DEF page
  <2> QED
    BY <2>1, <2>2, <2>3 DEF Raised, Landed
<1>11. /\ Same(s, onward) /\ onward.pc = "items" /\ onward.at = next /\ onward.clean
       /\ Same(s, last) /\ last.pc = "promote" /\ last.clean
  <2>1. Same(s, onward) /\ onward.pc = s.pc /\ onward.at = next /\ onward.clean = s.clean
    BY <1>3, <1>8, AtIsSame
  <2>2. Same(s, last) /\ last.pc = "promote" /\ last.clean = s.clean
    BY <1>3, MovedIsSame DEF Phases
  <2> QED
    BY <1>1, <1>3, <2>1, <2>2
<1> HIDE DEF onward, last
<1>12. /\ Same(s, ok) /\ ok.clean /\ ok.pc \in {"items", "promote"}
       /\ ok.pc = "items" => k = ok.at - 1
       /\ ok.pc = "promote" => k = N
  BY <1>7, <1>8, <1>11
<1> HIDE DEF ok, k
<1>13. /\ ~Raised(answer) /\ ok.pc = "items" => snaps'[r] = Page("staging", c, ok.at - 1)
       /\ ~Raised(answer) /\ ok.pc = "promote" => snaps'[r] = Page("staging", c, N)
  BY <1>10, <1>12
<1> QED
  BY <1>1, <1>2, <1>4, <1>10, <1>12, <1>13, PublishingTells DEF s, N

LEMMA PromoteTells ==
    ASSUME IInv, Told, NEW r \in Runs, Promote(r)
    PROVE  Told'
<1> DEFINE s == scan[r]
           c == s.cands
           N == Cardinality(Found(c))
           ok == [s EXCEPT !.pc = "close"]
<1>1. s.pc = "promote" /\ s.pc \in {"stage", "items", "promote"}
  BY DEF Promote
<1>2. PICK answer \in Answers :
        /\ IF Landed(answer)
           THEN snaps' = [snaps EXCEPT ![r].status = "ready"] /\ pointer' = r
           ELSE UNCHANGED latest
        /\ Continue(r, answer, ok, NotPublished(s))
  BY DEF Promote
<1>3. /\ Active(r) /\ s.pc \notin {"close"} \cup Over
      /\ s \in RunMemory /\ Traced(c, accepted[r]) /\ s.clean /\ r \notin troubled
      /\ c \in [Titles -> Positions] /\ Ranked(c, s.feed) /\ s.feed \in Nat
      /\ Found(c) \subseteq titles
      /\ Serialized => (\A q \in Runs \ {r} : ~Active(q)) /\ Backed(s, Logged)
  BY <1>1, PublishingRun
<1>4. UNCHANGED <<titles, logs, accepted, troubled>>
  BY DEF Promote, catalog, diagnostics, observed
<1>5. snaps[r] = Page("staging", c, N)
  BY <1>1 DEF Told, Telling
<1> HIDE DEF s
<1>6. Follows(s, ok) /\ ok.pc = "close"
  <2>1. Follows(s, ok)
    BY <1>3, MovedFollows DEF Onward
  <2> QED
    BY <1>3, <2>1 DEF RunMemory
<1> HIDE DEF ok
<1> DEFINE m == IF Raised(answer) THEN NotPublished(s) ELSE ok
<1>7. Follows(s, m) /\ m.pc = "close"
  BY <1>3, <1>6, NotPublishedFollows
<1>8. scan' = [scan EXCEPT ![r] = m]
  BY <1>2 DEF Continue, s
<1> HIDE DEF m
<1>9. Telling(m, accepted[r], r \in troubled, snaps'[r])
  BY <1>3, <1>7, FollowsIsTelling
<1>10. Serialized => Noted(m, Logged', Retryable')
  BY <1>3, <1>4, <1>7, LogsStay, FollowsIsNoted
<1>11. snaps \in [Runs -> Snapshots] /\ scan \in [Runs -> RunMemory]
  BY StoreIsTyped DEF Stored, IInv
<1>12. CASE Landed(answer)
  <2> DEFINE page == [snaps[r] EXCEPT !.status = "ready"]
  <2>1. page = Page("ready", c, N)
    BY <1>5 DEF Page
  <2>2. snaps' = [snaps EXCEPT ![r] = page] /\ pointer' = r
    BY <1>2, <1>11, <1>12
  <2> HIDE DEF page
  <2>3. /\ \A q \in Runs \ {r} : snaps'[q] = snaps[q]
        /\ snaps'[r] = Page("ready", c, N)
    BY <1>11, <2>1, <2>2
  <2>4. /\ scan'[r].pc \in {"close"} \cup Over /\ r \notin troubled'
        /\ \E f \in Nat : Ranked(c, f)
        /\ Traced(c, accepted'[r])
        /\ snaps'[r] = Page("ready", c, Cardinality(Found(c)))
        /\ Found(c) \subseteq titles'
    BY <1>3, <1>4, <1>7, <1>8, <1>11, <2>3
  <2> HIDE DEF c, N
  <2>5. \E cc \in [Titles -> Positions] :
           /\ \E f \in Nat : Ranked(cc, f)
           /\ Traced(cc, accepted'[r])
           /\ snaps'[r] = Page("ready", cc, Cardinality(Found(cc)))
           /\ Found(cc) \subseteq titles'
    BY <1>3, <2>4
  <2>6. Shown(r)'
    BY <2>4, <2>5 DEF Shown
  <2> QED
    BY <1>3, <1>4, <1>8, <1>9, <1>10, <2>2, <2>3, <2>6, OneRunTells DEF s
<1>13. CASE ~Landed(answer)
  <2>1. UNCHANGED <<snaps, pointer>>
    BY <1>2, <1>13 DEF latest
  <2> QED
    BY <1>3, <1>4, <1>8, <1>9, <1>10, <2>1, OneRunTells DEF s
<1> QED
  BY <1>12, <1>13

-----------------------------------------------------------------------------
(* All steps *)

(* Nothing that Told looks at has changed. *)
LEMMA OutsideTells ==
    ASSUME Told, UNCHANGED <<titles, logs, snaps, pointer, scan, accepted, troubled>>
    PROVE  Told'
<1>1. Logged' = Logged /\ Retryable' = Retryable
  BY LogsStay
<1>2. (\A r \in Runs : Telling(scan[r], accepted[r], r \in troubled, snaps[r]))'
  BY DEF Told
<1>3. (pointer # NoRun => Shown(pointer))'
  BY DEF Told, Shown
<1>4. (Serialized => Alone)'
  BY <1>1 DEF Told, Alone, Active
<1> QED
  BY <1>2, <1>3, <1>4 DEF Told

LEMMA InitTold == Init => Told
<1> SUFFICES ASSUME Init PROVE Told
  OBVIOUS
<1> DEFINE b == Blank("idle")
<1>1. b.pc = "idle"
  BY DEF Blank
<1>2. \A r \in Runs : scan[r] = b /\ accepted[r] = <<>> /\ r \notin troubled
  BY DEF Init
<1> HIDE DEF b
<1>3. \A r \in Runs : Telling(scan[r], accepted[r], r \in troubled, snaps[r])
  BY <1>1, <1>2 DEF Telling
<1>4. Alone
  BY <1>1, <1>2 DEF Alone, Active, Noted
<1> QED
  BY <1>3, <1>4 DEF Told, Init

LEMMA RunStepTells ==
    ASSUME IInv, Told, NEW r \in Runs, RunStep(r)
    PROVE  Told'
<1>1. CASE OpenRun(r) \/ QueryOldLogs(r) \/ PruneLog(r) \/ PruneRaises(r)
  BY <1>1, OpenRunTells, QueryOldLogsTells, PruneLogTells, PruneRaisesTells
<1>2. CASE RssStep(r)
  <2>1. CASE FetchFeed(r) \/ EntryTooOld(r) \/ EntryOverQuota(r)
    BY <2>1, FetchFeedTells, EntryTooOldTells, EntryOverQuotaTells
  <2>2. CASE \E state \in {"retryable", "terminal"}, erred \in BOOLEAN : EntryLogged(r, state, erred)
    BY <2>2, EntryLoggedTells
  <2>3. CASE \E t \in Titles : EntryAccepted(r, t)
    BY <2>3, EntryAcceptedTells
  <2>4. CASE \E t \in Titles, readTitle \in BOOLEAN : EntryUnread(r, t, readTitle)
    BY <2>4, EntryUnreadTells
  <2> QED
    BY <1>2, <2>1, <2>2, <2>3, <2>4 DEF RssStep
<1>3. CASE ReparseStep(r)
  <2>1. CASE ReloadMappings(r) \/ ReadPage(r) \/ AcceptCandidate(r)
    BY <2>1, ReloadMappingsTells, ReadPageTells, AcceptCandidateTells
  <2>2. CASE (\E erred \in BOOLEAN : RecordOutcome(r, RetryLog, erred))
             \/ RecordOutcome(r, TerminalLog, FALSE)
    BY <2>2, RecordOutcomeTells
  <2>3. CASE SaveTitle(r) \/ SaveOccurrence(r) \/ SaveLog(r)
    BY <2>3, SaveTitleTells, SaveOccurrenceTells, SaveLogTells
  <2>4. CASE SaveMapping(r) \/ SaveRetry(r)
    BY <2>4, SaveMappingTells, SaveRetryTells
  <2> QED
    BY <1>3, <2>1, <2>2, <2>3, <2>4 DEF ReparseStep
<1>4. CASE Flushing(r)
  BY <1>4, FlushLogTells, FlushTitleTells, FlushOccurrenceTells, FlushMappingTells DEF Flushing
<1>5. CASE FinalFlush(r) \/ PublishStep(r) \/ CloseRun(r)
  BY <1>5, FinalFlushTells, StageSnapshotTells, StageItemsTells, PromoteTells, CloseRunTells
     DEF PublishStep
<1> QED
  BY <1>1, <1>2, <1>3, <1>4, <1>5 DEF RunStep

LEMMA StepTold == IInv /\ Told /\ [Next]_vars => Told'
<1> SUFFICES ASSUME IInv, Told, [Next]_vars PROVE Told'
  OBVIOUS
<1>1. ASSUME NEW r \in Runs, LoadMappings(r) \/ RunStep(r) \/ Crash(r)
      PROVE  Told'
  BY <1>1, LoadMappingsTells, RunStepTells, CrashTells
<1>2. CASE AWeekPasses
  BY <1>2, OutsideTells DEF AWeekPasses, catalog, latest, observed
<1>3. CASE \E i \in Items, t \in Titles : SaveManualMapping(i, t)
  BY <1>3, OutsideTells DEF SaveManualMapping, catalog, diagnostics, latest, observed
<1>4. CASE UNCHANGED vars
  BY <1>4, OutsideTells DEF vars
<1> QED
  BY <1>1, <1>2, <1>3, <1>4 DEF Next

LEMMA SpecTold == Spec => [](IInv /\ Told)
<1>1. Init => Told
  BY InitTold
<1>2. IInv /\ Told /\ [Next]_vars => Told'
  BY StepTold
<1> QED
  BY InitIInv, StepIInv, <1>1, <1>2, PTL DEF Spec

-----------------------------------------------------------------------------
(* What the page shows *)

LEMMA LaidAreWhole ==
    ASSUME NEW c \in [Titles -> Positions], NEW f, Ranked(c, f)
    PROVE  LET N == Cardinality(Found(c))
               L == Laid(c, N)
           IN
           /\ N \in Nat /\ Cardinality(L) = N
           /\ {x[2] : x \in L} = 1 .. N /\ {x[1] : x \in L} = Found(c)
<1> DEFINE N == Cardinality(Found(c))
           B == BuiltItems(c)
           L == Laid(c, N)
           g == [n \in 1 .. N |-> <<B[n], n>>]
<1>1. /\ N \in Nat /\ B \in [1 .. N -> Found(c)]
      /\ \A t \in Found(c) : \E n \in 1 .. N : B[n] = t
  BY BuiltIsSorted
<1> HIDE DEF B, N
<1>2. L = {<<B[n], n>> : n \in 1 .. N}
  BY DEF Laid, B
<1> HIDE DEF L
<1>3. g \in Bijection(1 .. N, L)
  <2>1. g \in [1 .. N -> L]
    BY <1>2
  <2>2. \A m, n \in 1 .. N : g[m] = g[n] => m = n
    OBVIOUS
  <2>3. \A x \in L : \E n \in 1 .. N : g[n] = x
    BY <1>2
  <2> HIDE DEF g
  <2> QED
    BY <2>1, <2>2, <2>3 DEF Bijection, Injection, Surjection, IsInjective
<1>4. ExistsBijection(1 .. N, L)
  BY <1>3 DEF ExistsBijection
<1>5. Cardinality(L) = N
  BY <1>1, <1>4, FS_CountingElements
<1>6. {x[2] : x \in L} = 1 .. N /\ {x[1] : x \in L} = Found(c)
  <2>1. ASSUME NEW x \in L
        PROVE  x[2] \in 1 .. N /\ x[1] \in Found(c)
    BY <1>1, <1>2
  <2>2. ASSUME NEW n \in 1 .. N
        PROVE  <<B[n], n>> \in L /\ <<B[n], n>>[1] = B[n] /\ <<B[n], n>>[2] = n
    BY <1>2
  <2>3. 1 .. N \subseteq {x[2] : x \in L}
    BY <2>2
  <2>4. Found(c) \subseteq {x[1] : x \in L}
    BY <1>1, <2>2
  <2> QED
    BY <2>1, <2>3, <2>4
<1> QED
  BY <1>1, <1>5, <1>6 DEF L, N

LEMMA LeastOf ==
    ASSUME NEW S, S \subseteq Nat, S # {}
    PROVE  \E m \in S : \A n \in S : m <= n
<1> DEFINE R == {x \in Nat \X Nat : x[1] < x[2]}
<1>1. IsWellFoundedOn(R, Nat)
  BY NatLessThanWellFounded DEF OpToRel
<1>2. \A m, n \in Nat : <<n, m>> \notin R => m <= n
  OBVIOUS
<1> HIDE DEF R
<1>3. PICK m \in S : \A n \in S : <<n, m>> \notin R
  BY <1>1, WFMin
<1> QED
  BY <1>2, <1>3

(* Of what was accepted, the first of a title. *)
Least(S, m) == m \in S /\ \A n \in S : m <= n

(* Sooner, by the numbers of the first acceptances. *)
LEMMA SoonerIsFirst ==
    ASSUME NEW A \in Seq(Titles \X Items), NEW t, NEW u, NEW a, NEW b,
           Least({n \in DOMAIN A : A[n][1] = t}, a),
           Least({n \in DOMAIN A : A[n][1] = u}, b)
    PROVE  Sooner(A, t, u) <=> a < b
<1> DEFINE seen(x) == {n \in DOMAIN A : A[n][1] = x}
<1>1. DOMAIN A \subseteq Nat
  OBVIOUS
<1>2. /\ a \in seen(t) /\ a \in Nat /\ \A m \in seen(t) : m \in Nat /\ a <= m
      /\ b \in seen(u) /\ b \in Nat /\ \A m \in seen(u) : m \in Nat /\ b <= m
  BY <1>1 DEF Least
<1>3. Sooner(A, t, u) <=> \E m \in seen(t) : \A n \in seen(u) : m < n
  BY DEF Sooner
<1> HIDE DEF seen
<1> QED
  BY <1>2, <1>3

(* A title's place on the page, by the order of the candidates. *)
LEMMA PlacesAreOrdered ==
    ASSUME NEW c \in [Titles -> Positions], NEW f, Ranked(c, f),
           NEW t \in Found(c), NEW u \in Found(c), NEW a, NEW b,
           <<t, a>> \in Laid(c, Cardinality(Found(c))),
           <<u, b>> \in Laid(c, Cardinality(Found(c)))
    PROVE  a < b <=> Before(c, t, u)
<1> DEFINE N == Cardinality(Found(c))
           B == BuiltItems(c)
<1>1. /\ N \in Nat /\ B \in [1 .. N -> Found(c)]
      /\ \A m, n \in 1 .. N : m < n => Before(c, B[m], B[n])
  BY BuiltIsSorted
<1>2. a \in 1 .. N /\ B[a] = t /\ b \in 1 .. N /\ B[b] = u
  BY DEF Laid
<1> HIDE DEF B, N
<1>3. c[t][1] \in Nat /\ c[t][2] \in Nat /\ c[u][1] \in Nat /\ c[u][2] \in Nat
  BY DEF Found, Positions
<1>4. ~(Before(c, t, u) /\ Before(c, u, t)) /\ ~Before(c, t, t)
  BY <1>3 DEF Before
<1>5. CASE a < b
  BY <1>1, <1>2, <1>5
<1>6. CASE b < a
  <2>1. ~(a < b)
    BY <1>1, <1>2, <1>6
  <2> QED
    BY <1>1, <1>2, <1>4, <1>6, <2>1
<1>7. CASE a = b
  <2>1. ~(a < b) /\ t = u
    BY <1>1, <1>2, <1>7
  <2> QED
    BY <1>4, <2>1
<1> QED
  BY <1>1, <1>2, <1>5, <1>6, <1>7

LEMMA PageHasAll ==
    ASSUME NEW c \in [Titles -> Positions], NEW f, Ranked(c, f), NEW t \in Found(c)
    PROVE  \E p \in 1 .. Cardinality(Found(c)) : <<t, p>> \in Laid(c, Cardinality(Found(c)))
<1>1. PICK n \in 1 .. Cardinality(Found(c)) : BuiltItems(c)[n] = t
  BY BuiltIsSorted
<1> QED
  BY <1>1 DEF Laid

(* Movies first, then by the order of acceptance. *)
LEMMA BeforeIsSooner ==
    ASSUME NEW c \in [Titles -> Positions], NEW A, Traced(c, A),
           NEW t \in Found(c), NEW u \in Found(c)
    PROVE  Before(c, t, u) <=> \/ Kind[t] = "movie" /\ Kind[u] = "series"
                               \/ Kind[t] = Kind[u] /\ Sooner(A, t, u)
<1>1. /\ t \in Titles /\ u \in Titles
      /\ Kind[t] \in {"movie", "series"} /\ Kind[u] \in {"movie", "series"}
  BY StoreAssumption DEF Traced, Found
<1>2. Earlier(c[t], c[u]) <=> Sooner(A, t, u)
  BY DEF Traced
<1> QED
  BY <1>1, <1>2 DEF Before, Earlier

(* The page "latest", whenever it is read and whatever runs go on or died,  *)
(* is a snapshot that is ready, with as many items as it announces, in      *)
(* dense positions, each a stored title, of a run whose RSS phase met no    *)
(* error.                                                                   *)
THEOREM LatestPageIsWhole == Spec => []LatestIsWhole
<1>1. ASSUME IInv, Told
      PROVE  LatestIsWhole
  <2> SUFFICES ASSUME pointer # NoRun
               PROVE  /\ snaps[pointer].status = "ready"
                      /\ snaps[pointer].count = Cardinality(snaps[pointer].items)
                      /\ {item[2] : item \in snaps[pointer].items} = 1 .. snaps[pointer].count
                      /\ \A item \in snaps[pointer].items : item[1] \in titles
                      /\ pointer \notin troubled
    BY DEF LatestIsWhole
  <2>1. Shown(pointer)
    BY <1>1 DEF Told
  <2>2. PICK c \in [Titles -> Positions] :
          /\ \E f \in Nat : Ranked(c, f)
          /\ snaps[pointer] = Page("ready", c, Cardinality(Found(c)))
          /\ Found(c) \subseteq titles
    BY <2>1 DEF Shown
  <2>3. PICK f \in Nat : Ranked(c, f)
    BY <2>2
  <2> DEFINE N == Cardinality(Found(c))
             L == Laid(c, N)
  <2>4. /\ Cardinality(L) = N
        /\ {x[2] : x \in L} = 1 .. N /\ {x[1] : x \in L} = Found(c)
    BY <2>3, LaidAreWhole
  <2>5. /\ snaps[pointer].status = "ready" /\ snaps[pointer].count = N
        /\ snaps[pointer].items = L
    BY <2>2 DEF Page
  <2>6. pointer \notin troubled
    BY <2>1 DEF Shown
  <2> HIDE DEF N, L
  <2>7. \A x \in L : x[1] \in titles
    BY <2>2, <2>4
  <2> QED
    BY <2>4, <2>5, <2>6, <2>7
<1> QED
  BY <1>1, SpecTold, PTL

(* The page lists each movie and series its run accepted, movies first,     *)
(* then in the order in which the run first came upon them over all feeds:  *)
(* keeping the first place of a title and sorting places does that.         *)
THEOREM LatestPageFollowsFeeds == Spec => []LatestFollowsFeeds
<1>1. ASSUME IInv, Told
      PROVE  LatestFollowsFeeds
  <2> DEFINE A == accepted[pointer]
             P == snaps[pointer]
             seen(t) == {n \in DOMAIN A : A[n][1] = t}
             first(t) == CHOOSE n \in seen(t) : \A m \in seen(t) : n <= m
             place(t) == CHOOSE p \in 1 .. P.count : <<t, p>> \in P.items
             shown == {t \in Titles : seen(t) # {} /\ Kind[t] # "unknown"}
  <2> SUFFICES ASSUME pointer # NoRun
               PROVE  /\ {item[1] : item \in P.items} = shown
                      /\ \A t, u \in shown :
                            place(t) < place(u) <=>
                               \/ Kind[t] = "movie" /\ Kind[u] = "series"
                               \/ Kind[t] = Kind[u] /\ first(t) < first(u)
    BY DEF LatestFollowsFeeds
  <2>1. Shown(pointer) /\ pointer \in Runs
    BY <1>1 DEF Told, IInv, Stored
  <2>2. PICK c \in [Titles -> Positions] :
          /\ \E f \in Nat : Ranked(c, f)
          /\ Traced(c, A)
          /\ P = Page("ready", c, Cardinality(Found(c)))
    BY <2>1 DEF Shown
  <2>3. PICK f \in Nat : Ranked(c, f)
    BY <2>2
  <2>4. A \in Seq(Titles \X Items)
    BY <1>1, <2>1 DEF IInv, Stored
  <2>5. P.count = Cardinality(Found(c)) /\ P.items = Laid(c, Cardinality(Found(c)))
    BY <2>2 DEF Page
  <2>6. shown = Found(c)
    BY <2>2 DEF Traced, Seen, Found
  <2>7. {item[1] : item \in P.items} = shown
    BY <2>3, <2>5, <2>6, LaidAreWhole
  <2>8. ASSUME NEW t \in shown, NEW u \in shown
        PROVE  place(t) < place(u) <=>
                  \/ Kind[t] = "movie" /\ Kind[u] = "series"
                  \/ Kind[t] = Kind[u] /\ first(t) < first(u)
    <3>1. t \in Found(c) /\ u \in Found(c) /\ Seen(A, t) /\ Seen(A, u)
      BY <2>2, <2>6, <2>8 DEF Traced, Found
    <3>2. place(t) < place(u) <=> Before(c, t, u)
      <4>1. \A x \in Found(c) : <<x, place(x)>> \in P.items
        <5>1. ASSUME NEW x \in Found(c) PROVE \E p \in 1 .. P.count : <<x, p>> \in P.items
          BY <2>3, <2>5, PageHasAll
        <5> HIDE DEF P
        <5> QED
          BY <5>1
      <4> HIDE DEF place
      <4> QED
        BY <2>3, <2>5, <3>1, <4>1, PlacesAreOrdered
    <3>3. Sooner(A, t, u) <=> first(t) < first(u)
      <4>1. ASSUME NEW x, Seen(A, x) PROVE Least(seen(x), first(x))
        <5>1. seen(x) \subseteq Nat /\ seen(x) # {}
          BY <2>4, <4>1 DEF Seen
        <5> HIDE DEF seen
        <5>2. \E n \in seen(x) : \A m \in seen(x) : n <= m
          BY <5>1, LeastOf
        <5>3. first(x) \in seen(x) /\ \A m \in seen(x) : first(x) <= m
          BY <5>2
        <5> QED
          BY <5>3 DEF Least
      <4>2. Least(seen(t), first(t)) /\ Least(seen(u), first(u))
        BY <3>1, <4>1
      <4> HIDE DEF first, A
      <4> QED
        BY <2>4, <4>2, SoonerIsFirst
    <3>4. Before(c, t, u) <=> \/ Kind[t] = "movie" /\ Kind[u] = "series"
                              \/ Kind[t] = Kind[u] /\ Sooner(A, t, u)
      BY <2>2, <3>1, BeforeIsSooner
    <3> HIDE DEF place, first
    <3> QED
      BY <3>2, <3>3, <3>4
  <2> QED
    BY <2>7, <2>8
<1> QED
  BY <1>1, SpecTold, PTL

-----------------------------------------------------------------------------
(* Which steps take a log or a mapping away *)

LEMMA FlushedLogGrows ==
    ASSUME IInv, NEW r \in Runs, FlushLog(r)
    PROVE  Logged \subseteq Logged'
<1> DEFINE s == scan[r]
           i == s.newLogs[s.at][1]
           log == s.newLogs[s.at][2]
<1>1. s.pc = "logs"
  BY DEF FlushLog
<1>2. PICK answer \in LogAnswers(i) : AddLog(answer, i, log)
  BY DEF FlushLog
<1>3. Good(s, titles, occs, accepted[r])
  BY DEF IInv
<1> HIDE DEF s
<1>4. s.at \in 1 .. Len(s.newLogs) /\ s.newLogs \in Seq(Items \X Logs) /\ Plain(s.newLogs)
  BY <1>1, <1>3 DEF Good, Placed, Sound, RunMemory
<1>5. i \in Items /\ log \in Logs
  BY <1>4
<1>6. PICK state \in RetryStates : log = Unresolved(state)
  BY <1>4 DEF Plain
<1>7. log.state # "absent"
  BY <1>6 DEF Unresolved, RetryStates
<1> HIDE DEF i, log
<1> QED
  BY <1>2, <1>5, <1>7, LogsGrow

LEMMA ReparsedLogGrows ==
    ASSUME IInv, NEW r \in Runs,
           \/ \E erred \in BOOLEAN : RecordOutcome(r, RetryLog, erred)
           \/ RecordOutcome(r, TerminalLog, FALSE)
           \/ SaveLog(r) \/ SaveRetry(r)
    PROVE  Logged \subseteq Logged'
<1>1. scan[r] \in RunMemory
  BY DEF IInv
<1>2. ASSUME NEW log \in {RetryLog, TerminalLog}, NEW erred, RecordOutcome(r, log, erred)
      PROVE  Logged \subseteq Logged'
  <2>1. PICK i \in Due(scan[r]) : \E answer \in LogAnswers(i) : AddLog(answer, i, log)
    BY <1>2 DEF RecordOutcome
  <2>2. PICK answer \in LogAnswers(i) : AddLog(answer, i, log)
    BY <2>1
  <2>3. i \in Items
    BY <1>1, <2>1 DEF Due, Mapped, RunMemory
  <2>4. log \in Logs /\ log.state # "absent"
    BY DEF RetryLog, TerminalLog, Unresolved, Logs, RetryStates
  <2> QED
    BY <2>2, <2>3, <2>4, LogsGrow
<1>3. ASSUME scan[r].pc \in Saving
      PROVE  scan[r].item \in Items /\ scan[r].title \in Titles
  BY <1>3 DEF IInv, Good, Placed
<1>4. CASE SaveLog(r)
  <2>1. PICK answer \in LogAnswers(scan[r].item) :
          AddLog(answer, scan[r].item, ResolvedLog(scan[r].title))
    BY <1>4 DEF SaveLog
  <2>2. scan[r].pc \in Saving
    BY <1>4 DEF SaveLog, Saving
  <2>3. ResolvedLog(scan[r].title) \in Logs /\ ResolvedLog(scan[r].title).state # "absent"
    BY <1>3, <2>2 DEF ResolvedLog, Logs, RetryStates
  <2> QED
    BY <1>3, <2>1, <2>2, <2>3, LogsGrow
<1>5. CASE SaveRetry(r)
  <2>1. PICK answer \in LogAnswers(scan[r].item) : AddLog(answer, scan[r].item, RetryLog)
    BY <1>5 DEF SaveRetry
  <2>2. scan[r].pc \in Saving
    BY <1>5 DEF SaveRetry, Saving
  <2>3. RetryLog \in Logs /\ RetryLog.state # "absent"
    BY DEF RetryLog, Unresolved, Logs, RetryStates
  <2> QED
    BY <1>3, <2>1, <2>2, <2>3, LogsGrow
<1> QED
  BY <1>2, <1>4, <1>5

(* Only pruning takes logs away. *)
LEMMA OnlyPruningForgets ==
    ASSUME IInv, [Next]_vars
    PROVE  (\E r \in Runs : PruneLog(r)) \/ Logged \subseteq Logged'
<1>1. ASSUME NEW r \in Runs, LoadMappings(r) \/ Crash(r) \/ RunStep(r)
      PROVE  PruneLog(r) \/ Logged \subseteq Logged'
  <2>1. CASE UNCHANGED logs
    BY <2>1, LogsStay
  <2>2. CASE PruneLog(r)
    BY <2>2
  <2>3. CASE LoadMappings(r) \/ Crash(r) \/ OpenRun(r) \/ QueryOldLogs(r) \/ PruneRaises(r)
             \/ FinalFlush(r) \/ CloseRun(r)
    <3>1. UNCHANGED logs
      BY <2>3 DEF LoadMappings, Crash, OpenRun, QueryOldLogs, PruneRaises, FinalFlush,
                  CloseRun, diagnostics
    <3> QED
      BY <2>1, <3>1
  <2>4. CASE RssStep(r)
    <3>1. UNCHANGED logs
      BY <2>4 DEF RssStep, FetchFeed, EntryTooOld, EntryLogged, EntryOverQuota, EntryAccepted,
                  EntryUnread, diagnostics
    <3> QED
      BY <2>1, <3>1
  <2>5. CASE PublishStep(r)
    <3>1. UNCHANGED logs
      BY <2>5 DEF PublishStep, StageSnapshot, StageItems, Promote, diagnostics
    <3> QED
      BY <2>1, <3>1
  <2>6. CASE Flushing(r)
    <3>1. FlushLog(r) \/ UNCHANGED logs
      BY <2>6 DEF Flushing, FlushTitle, FlushOccurrence, FlushMapping, diagnostics
    <3> QED
      BY <2>1, <3>1, FlushedLogGrows
  <2>7. CASE ReparseStep(r)
    <3>1. \/ UNCHANGED logs
          \/ \E erred \in BOOLEAN : RecordOutcome(r, RetryLog, erred)
          \/ RecordOutcome(r, TerminalLog, FALSE)
          \/ SaveLog(r) \/ SaveRetry(r)
      BY <2>7 DEF ReparseStep, ReloadMappings, ReadPage, AcceptCandidate, SaveTitle,
                  SaveOccurrence, SaveMapping, diagnostics
    <3> QED
      BY <2>1, <3>1, ReparsedLogGrows
  <2> QED
    BY <1>1, <2>2, <2>3, <2>4, <2>5, <2>6, <2>7 DEF RunStep
<1>2. CASE AWeekPasses \/ (\E i \in Items, t \in Titles : SaveManualMapping(i, t))
           \/ UNCHANGED vars
  <2>1. UNCHANGED logs
    BY <1>2 DEF AWeekPasses, SaveManualMapping, diagnostics, vars
  <2> QED
    BY <2>1, LogsStay
<1> QED
  BY <1>1, <1>2 DEF Next

(* Only a flush and reparsing take mappings away. *)
LEMMA OnlyConsumingForgets ==
    ASSUME [Next]_vars
    PROVE  \/ UNCHANGED mappings
           \/ \E r \in Runs : FlushMapping(r) \/ SaveMapping(r)
           \/ \E i \in Items, t \in Titles : SaveManualMapping(i, t)
<1>1. ASSUME NEW r \in Runs, LoadMappings(r) \/ Crash(r) \/ RunStep(r)
      PROVE  UNCHANGED mappings \/ FlushMapping(r) \/ SaveMapping(r)
  <2>1. CASE LoadMappings(r) \/ Crash(r) \/ OpenRun(r) \/ QueryOldLogs(r) \/ PruneLog(r)
             \/ PruneRaises(r) \/ FinalFlush(r) \/ CloseRun(r)
    BY <2>1 DEF LoadMappings, Crash, OpenRun, QueryOldLogs, PruneLog, PruneRaises, FinalFlush,
                CloseRun
  <2>2. CASE RssStep(r)
    BY <2>2 DEF RssStep, FetchFeed, EntryTooOld, EntryLogged, EntryOverQuota, EntryAccepted,
                EntryUnread
  <2>3. CASE PublishStep(r)
    BY <2>3 DEF PublishStep, StageSnapshot, StageItems, Promote
  <2>4. CASE Flushing(r)
    BY <2>4 DEF Flushing, FlushLog, FlushTitle, FlushOccurrence
  <2>5. CASE ReparseStep(r)
    BY <2>5 DEF ReparseStep, ReloadMappings, ReadPage, AcceptCandidate, RecordOutcome, SaveTitle,
                SaveOccurrence, SaveLog, SaveRetry
  <2> QED
    BY <1>1, <2>1, <2>2, <2>3, <2>4, <2>5 DEF RunStep
<1>2. CASE AWeekPasses \/ UNCHANGED vars
  BY <1>2 DEF AWeekPasses, vars
<1> QED
  BY <1>1, <1>2 DEF Next

LEMMA NothingPending ==
    ASSUME NEW s, s.newLogs = <<>>, NEW i
    PROVE  ~Pending(s, i)
  BY DEF Pending

(* What is consumed was filed, and logged. *)
LEMMA FlushedMappingIsFiled ==
    ASSUME IInv, Told, NEW r \in Runs, FlushMapping(r), NEW j \in Items,
           mappings[j] # NoTitle, mappings'[j] = NoTitle
    PROVE  /\ scan[r].pc = "used" /\ scan[r].used[1] = <<j, scan[r].used[1][2]>>
           /\ scan[r].used[1][2] \in Titles
           /\ InCatalog(scan[r].used[1][2], j)
           /\ Serialized => logs[j] # NoLog
<1> DEFINE s == scan[r]
           i == s.used[1][1]
           t == s.used[1][2]
<1>1. s.pc = "used" /\ Active(r)
  BY DEF FlushMapping, Active
<1>2. PICK answer \in Answers : DeleteMapping(answer, i)
  BY DEF FlushMapping
<1>3. Good(s, titles, occs, accepted[r]) /\ (Serialized => Backed(s, Logged))
  BY <1>1, ActiveRun DEF IInv
<1> HIDE DEF s
<1>4. /\ s.used \in Seq(Items \X Titles) /\ s.used # <<>>
      /\ s.newOccs = <<>> /\ s.newLogs = <<>>
      /\ \A x \in Range(s.used) : <<x[2], x[1]>> \in occs \cup Range(s.newOccs)
  BY <1>1, <1>3 DEF Good, Sound, Placed, Emptied, RunMemory
<1>5. s.used[1] \in Items \X Titles /\ s.used[1] \in Range(s.used)
  BY <1>4, RangeOfTail
<1>6. i \in Items /\ t \in Titles /\ s.used[1] = <<i, t>>
  BY <1>5
<1>7. <<t, i>> \in occs
  BY <1>4, <1>5, RangeOfEmpty
<1>8. Serialized => i \in Logged
  BY <1>3, <1>4, <1>5, NothingPending DEF Backed
<1> HIDE DEF i, t
<1>9. i = j
  BY <1>2, <1>6 DEF DeleteMapping, IInv, Stored
<1>10. InCatalog(t, i)
  <2> DEFINE x == <<t, i>>
  <2>1. x \in occs /\ x[1] = t
    BY <1>7
  <2> HIDE DEF x
  <2>2. t \in titles
    BY <2>1 DEF IInv, FiledUnderStoredTitles
  <2> QED
    BY <1>7, <2>2 DEF InCatalog
<1> QED
  BY <1>1, <1>6, <1>8, <1>9, <1>10 DEF s, i, t, Logged

LEMMA SavedMappingIsFiled ==
    ASSUME IInv, Told, NEW r \in Runs, SaveMapping(r), NEW j \in Items,
           mappings[j] # NoTitle, mappings'[j] = NoTitle
    PROVE  /\ scan[r].pc = "saveUsed" /\ scan[r].item = j
           /\ scan[r].title \in Titles
           /\ InCatalog(scan[r].title, j)
           /\ Serialized => logs[j] # NoLog
<1> DEFINE s == scan[r]
           i == s.item
           t == s.title
<1>1. s.pc = "saveUsed" /\ Active(r)
  BY DEF SaveMapping, Active
<1>2. PICK answer \in Answers : DeleteMapping(answer, i)
  BY DEF SaveMapping
<1>3. Good(s, titles, occs, accepted[r])
  BY DEF IInv
<1>4. Serialized => i \in Logged
  BY <1>1, ActiveRun DEF Noted, Over
<1>5. i \in Items /\ t \in Titles /\ <<t, i>> \in occs
  BY <1>1, <1>3 DEF Good, Placed, Saving, Written
<1> HIDE DEF s, i, t
<1>6. i = j
  BY <1>2, <1>5 DEF DeleteMapping, IInv, Stored
<1>7. InCatalog(t, i)
  <2> DEFINE x == <<t, i>>
  <2>1. x \in occs /\ x[1] = t
    BY <1>5
  <2> HIDE DEF x
  <2>2. t \in titles
    BY <2>1 DEF IInv, FiledUnderStoredTitles
  <2> QED
    BY <1>5, <2>2 DEF InCatalog
<1> QED
  BY <1>1, <1>4, <1>5, <1>6, <1>7 DEF s, i, t, Logged

(* Whenever a manual mapping is deleted, the run that deletes it has filed  *)
(* the entry under the title it had loaded for it, and, runs one at a time, *)
(* the entry has a log: a scan flushes mappings last, and reparsing deletes *)
(* a mapping after the log.                                                 *)
THEOREM MappingsAreApplied ==
    ASSUME Serialized
    PROVE  Spec => MappingsAppliedBeforeConsumed
<1> DEFINE Applied(i) ==
              \E r \in Runs, t \in Titles :
                 /\ \/ scan[r].pc = "used" /\ Head(scan[r].used) = <<i, t>>
                    \/ scan[r].pc = "saveUsed" /\ <<scan[r].item, scan[r].title>> = <<i, t>>
                 /\ InCatalog(t, i)
                 /\ logs[i] # NoLog
<1>1. ASSUME IInv, Told, [Next]_vars, NEW i \in Items,
             mappings[i] # NoTitle, mappings'[i] = NoTitle
      PROVE  Applied(i)
  <2>1. CASE \E r \in Runs : FlushMapping(r)
    <3>1. PICK r \in Runs : FlushMapping(r)
      BY <2>1
    <3> DEFINE t == scan[r].used[1][2]
    <3>2. /\ scan[r].pc = "used" /\ scan[r].used[1] = <<i, t>> /\ t \in Titles
          /\ InCatalog(t, i) /\ logs[i] # NoLog
      BY <1>1, <3>1, FlushedMappingIsFiled
    <3>3. Head(scan[r].used) = scan[r].used[1]
      OBVIOUS
    <3> HIDE DEF t
    <3> QED
      BY <3>2, <3>3
  <2>2. CASE \E r \in Runs : SaveMapping(r)
    <3>1. PICK r \in Runs : SaveMapping(r)
      BY <2>2
    <3>2. /\ scan[r].pc = "saveUsed" /\ scan[r].item = i /\ scan[r].title \in Titles
          /\ InCatalog(scan[r].title, i) /\ logs[i] # NoLog
      BY <1>1, <3>1, SavedMappingIsFiled
    <3> QED
      BY <3>2
  <2>3. CASE UNCHANGED mappings
    BY <1>1, <2>3
  <2>4. CASE \E k \in Items, t \in Titles : SaveManualMapping(k, t)
    <3>1. PICK k \in Items, t \in Titles : SaveManualMapping(k, t)
      BY <2>4
    <3>2. mappings' = [mappings EXCEPT ![k] = t] /\ mappings \in [Items -> Titles \cup {NoTitle}]
      BY <1>1, <3>1 DEF SaveManualMapping, IInv, Stored
    <3> QED
      BY <1>1, <3>2, ParseLogsAssumption
  <2> QED
    BY <1>1, <2>1, <2>2, <2>3, <2>4, OnlyConsumingForgets
<1>2. IInv /\ Told /\ [Next]_vars =>
        [\A i \in Items : mappings[i] # NoTitle /\ mappings'[i] = NoTitle => Applied(i)]_vars
  BY <1>1
<1>3. Spec => [][\A i \in Items : mappings[i] # NoTitle /\ mappings'[i] = NoTitle => Applied(i)]_vars
  <2> HIDE DEF Applied
  <2> QED
    BY <1>2, SpecTold, PTL DEF Spec
<1> QED
  BY <1>3 DEF MappingsAppliedBeforeConsumed

(* A log that is to be retried is still there after any step, whatever its  *)
(* age, when runs go one at a time: pruning deletes what a query returned,  *)
(* and nobody else writes logs until it is done.                            *)
THEOREM RetriesAreKept ==
    ASSUME Serialized
    PROVE  Spec => RetryableWorkKept
<1>1. ASSUME IInv, Told, [Next]_vars, NEW i \in Items, logs[i].state = "retryable"
      PROVE  logs'[i] # NoLog
  <2>1. i \in Logged /\ i \in Retryable
    BY <1>1 DEF Logged, Retryable, NoLog, Unresolved
  <2>2. CASE Logged \subseteq Logged'
    BY <2>1, <2>2 DEF Logged
  <2>3. CASE \E r \in Runs : PruneLog(r)
    <3>1. PICK r \in Runs : PruneLog(r)
      BY <2>3
    <3>2. PICK k \in scan[r].victims : logs' = [logs EXCEPT ![k] = NoLog] \/ logs' = logs
      BY <3>1 DEF PruneLog, diagnostics
    <3>3. scan[r].pc = "prune" /\ Active(r)
      BY <3>1 DEF PruneLog, Active
    <3>4. scan[r].victims \cap Retryable = {}
      BY <1>1, <3>3, ActiveRun DEF Noted, Over
    <3>5. k # i
      BY <2>1, <3>4
    <3>6. logs'[i] = logs[i]
      BY <1>1, <3>2, <3>5 DEF IInv, Stored
    <3> QED
      BY <2>1, <3>6 DEF Logged
  <2> QED
    BY <1>1, <2>2, <2>3, OnlyPruningForgets
<1>2. IInv /\ Told /\ [Next]_vars =>
        [\A i \in Items : logs[i].state = "retryable" => logs'[i] # NoLog]_vars
  BY <1>1
<1>3. Spec => [][\A i \in Items : logs[i].state = "retryable" => logs'[i] # NoLog]_vars
  BY <1>2, SpecTold, PTL DEF Spec
<1> QED
  BY <1>3 DEF RetryableWorkKept

=============================================================================
