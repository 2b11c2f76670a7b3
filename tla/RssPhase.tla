------------------------------ MODULE RssPhase ------------------------------
(***************************************************************************)
(* RssIngestionService.run and RssEntryProcessor: for each feed, fetch it, *)
(* decide on each of its entries in order, and flush.  What OMDb and the   *)
(* match policy say of an entry is any answer they may give; an entry with *)
(* a manual mapping resolves to the title the administrator chose.         *)
(***************************************************************************)
EXTENDS WriteBuffer

(* A whole feed is refused before any of its entries is looked at. *)
FetchFeed(r) ==
    LET s == scan[r]
        first == IF Feeds[s.feed] = <<>> THEN ToLogs(r, s)
                 ELSE [s EXCEPT !.pc = "entry", !.entry = 1]
    IN
    /\ s.pc = "fetch"
    /\ \E answer \in Answers \ {"lost"} :
          /\ Continue(r, answer, first, NextFeed(r, RssErred(s)))
          /\ troubled' = IF Raised(answer) THEN troubled \cup {r} ELSE troubled
    /\ UNCHANGED <<catalog, diagnostics, mappings, runDoc, latest, crashes, edits, accepted>>

Entry(r) == Feeds[scan[r].feed][scan[r].entry]

NextEntry(r, s) ==
    IF s.entry < Len(Feeds[s.feed]) THEN [s EXCEPT !.entry = @ + 1] ELSE ToLogs(r, s)

(* What an entry may resolve to. *)
Resolutions(s, i) ==
    IF Usable(s, i) # NoTitle THEN {Usable(s, i)} ELSE Titles

(* Published before the cutoff: not even a log. *)
EntryTooOld(r) ==
    /\ scan[r].pc = "entry"
    /\ scan' = [scan EXCEPT ![r] = NextEntry(r, scan[r])]
    /\ UNCHANGED <<catalog, diagnostics, mappings, runDoc, latest, failures, crashes,
                   edits, observed>>

(* The entry ends as a log alone: not parsed, not found, no answer from     *)
(* OMDb, refused by the match policy.  A used mapping stays.                *)
EntryLogged(r, state, erred) ==
    LET s == StageLog(scan[r], Entry(r), Unresolved(state)) IN
    /\ scan[r].pc = "entry"
    /\ erred => state = "retryable"
    /\ scan' = [scan EXCEPT ![r] = NextEntry(r, IF erred THEN RssErred(s) ELSE s)]
    /\ troubled' = IF erred THEN troubled \cup {r} ELSE troubled
    /\ UNCHANGED <<catalog, diagnostics, mappings, runDoc, latest, failures, crashes,
                   edits, accepted>>

(* The run's OMDb budget is spent: the rest of the feed is left out. *)
EntryOverQuota(r) ==
    LET s == StageLog(scan[r], Entry(r), RetryLog) IN
    /\ scan[r].pc = "entry"
    /\ scan' = [scan EXCEPT ![r] = ToLogs(r, RssErred(s))]
    /\ troubled' = troubled \cup {r}
    /\ UNCHANGED <<catalog, diagnostics, mappings, runDoc, latest, failures, crashes,
                   edits, accepted>>

(* Mutant: titles of unknown type are listed too. *)
CandidateOfAnyType(c, t, p) ==
    IF \/ c[t] = NoPosition
       \/ p[1] < c[t][1]
       \/ p[1] = c[t][1] /\ p[2] < c[t][2]
    THEN [c EXCEPT ![t] = p] ELSE c

(* RssSnapshotCollector.record_candidate: the first place of a title counts. *)
Candidate(c, t, p) ==
    IF /\ Kind[t] \in {"movie", "series"}
       /\ \/ c[t] = NoPosition
          \/ p[1] < c[t][1]
          \/ p[1] = c[t][1] /\ p[2] < c[t][2]
    THEN [c EXCEPT ![t] = p] ELSE c

(* _persist_accepted_entry. *)
EntryAccepted(r, t) ==
    LET i == Entry(r)
        s == StageOccurrence(StageTitle(StageLog(scan[r], i, Unresolved("resolved")), t), t, i)
        mapped == Usable(scan[r], i) # NoTitle
    IN
    /\ scan[r].pc = "entry"
    /\ t \in Resolutions(scan[r], i)
    /\ scan' = [scan EXCEPT ![r] = NextEntry(r,
          [s EXCEPT !.cands = Candidate(@, t, <<s.feed, s.entry>>),
                    !.used = IF mapped THEN Append(@, <<i, t>>) ELSE @])]
    /\ accepted' = [accepted EXCEPT ![r] = Append(@, <<t, i>>)]
    /\ UNCHANGED <<catalog, diagnostics, mappings, runDoc, latest, failures, crashes,
                   edits, troubled>>

(* Reading the stored title, or then the stored occurrence, raises: the log *)
(* of the acceptance is staged and, in the second case, the title; then the *)
(* log of the error, under the same id.                                     *)
EntryUnread(r, t, readTitle) ==
    LET i == Entry(r)
        s == StageLog(scan[r], i, Unresolved("resolved"))
        read == IF readTitle THEN StageTitle(s, t) ELSE s
    IN
    /\ scan[r].pc = "entry"
    /\ failures < MaxFailures
    /\ t \in Resolutions(scan[r], i)
    /\ t \in s.read => readTitle
    /\ scan' = [scan EXCEPT ![r] = NextEntry(r, RssErred(StageLog(read, i, RetryLog)))]
    /\ failures' = failures + 1
    /\ troubled' = troubled \cup {r}
    /\ UNCHANGED <<catalog, diagnostics, mappings, runDoc, latest, crashes, edits, accepted>>

=============================================================================
