----------------------------- MODULE AuditStore -----------------------------
(***************************************************************************)
(* What the runs of TitleAudit share and what each keeps to itself, and    *)
(* the write buffer: what the RSS phase stages over what it has read, and  *)
(* the flush after the feed and at the end of the run.  Every call to      *)
(* Firestore is a step and may raise, having written ("lost") or not       *)
(* ("refused").                                                            *)
(***************************************************************************)
EXTENDS CatalogRecords

CONSTANTS
    Runs,
    Modes,        \* modes a run may be started in
    Retryable,    \* entries whose logs wait to be reparsed
    BatchSize,    \* titles per question to the AI
    Chaining,     \* allow_same_run_chaining
    Serialized,   \* TRUE: at most one run at a time (workflow concurrency)
    MaxEntries,   \* bound on entries a run's feed has
    MaxProposals, \* bound on proposals that wait
    MaxFailures   \* bound on calls that raise and runs that are killed

ASSUME AuditAssumption ==
    /\ Modes \subseteq {"rss", "recheck-existing", "reparse-unfound", "apply-proposals", "all"}
    /\ Retryable \subseteq Items
    /\ BatchSize \in Nat \ {0}
    /\ Chaining \in BOOLEAN /\ Serialized \in BOOLEAN
    /\ MaxEntries \in Nat /\ MaxProposals \in Nat
    /\ MaxFailures \in Nat

VARIABLES
    titles,    \* titles/{t}
    occs,      \* titles/{t}/occurrences/{i}
    proposals, \* auditProposals/{p}: the approved ones
    run,       \* the memory of each run
    failures,
    judged     \* observed only: what the AI has found right, <<title, raw title>>

vars == <<titles, occs, proposals, run, failures, judged>>
catalog == <<titles, occs>>

Keys == Titles \X Items
Clusters == Titles \X RawTitles

(* What a session cache holds for a document that has not been asked for. *)
UnreadTitle == [meta |-> NoMeta, flag |-> "yes"]
UnreadOcc == [raw |-> NoRaw, stamp |-> TRUE]

Proposals == [cluster : Clusters, meta : Metadata, items : SUBSET Items,
              target : Titles, as : Metadata]

Memory == [pc : {"idle", "rss", "flush", "list", "chunk", "read", "ask", "act",
                 "logs", "check", "flag", "reparse", "reparseOcc", "apply", "done", "dead"},
           mode : Modes \cup {"none"},
           final : BOOLEAN,                        \* the flush of _finalize_run
           entries : SUBSET Items,                 \* entries of the feed dealt with
           sTitles : [Titles -> TitleDoc \cup {UnreadTitle}], \* _session_titles
           sOccs : [Keys -> OccDoc \cup {UnreadOcc}],         \* _session_occurrences
           pendT : SUBSET Titles, pendO : SUBSET Keys, \* _pending_*
           left : SUBSET Titles, leftO : SUBSET Keys,  \* of the loop under way
           work : SUBSET Titles,                   \* titles still to be audited
           shown : [Titles -> TitleDoc],           \* as the audit listed them
           chunk : SUBSET Titles,                  \* of this batch, still to be read
           seen : [Keys -> OccDoc],                \* occurrences as listed
           asked : SUBSET Clusters,                \* items_to_audit
           checked : SUBSET Titles,                \* checked_chunk
           stamps : SUBSET Keys,                   \* occurrences still to be stamped
           wrong : SUBSET Clusters,                \* clusters still to be proposed
           title : Titles \cup {"none"}, item : Items \cup {"none"}]

Blank(pc) ==
    [pc |-> pc, mode |-> "none", final |-> FALSE, entries |-> {},
     sTitles |-> [t \in Titles |-> UnreadTitle], sOccs |-> [k \in Keys |-> UnreadOcc],
     pendT |-> {}, pendO |-> {}, left |-> {}, leftO |-> {}, work |-> {},
     shown |-> [t \in Titles |-> NoTitle], chunk |-> {},
     seen |-> [k \in Keys |-> NoOcc], asked |-> {}, checked |-> {}, stamps |-> {},
     wrong |-> {}, title |-> "none", item |-> "none"]

Active(r) == run[r].pc \notin {"idle", "done", "dead"}

(* The catalogue is what scans left before there were audits, with each     *)
(* entry under one title, and at most one repair waiting.                   *)
Init ==
    /\ occs \in [Keys -> {NoOcc} \cup [raw : RawTitles, stamp : {FALSE}]]
    /\ titles \in [Titles -> {NoTitle} \cup [meta : Metadata, flag : {"unset"}]]
    /\ \A k \in Keys : occs[k] # NoOcc =>
          titles[k[1]] # NoTitle /\ \A t \in Titles \ {k[1]} : occs[<<t, k[2]>>] = NoOcc
    /\ proposals \in {{}} \cup {{p} : p \in {q \in Proposals :
          /\ q.target # q.cluster[1] /\ q.items # {} /\ q.meta = titles[q.cluster[1]].meta
          /\ q.items = {i \in Items : occs[<<q.cluster[1], i>>].raw = q.cluster[2]}}}
    /\ run = [r \in Runs |-> Blank("idle")]
    /\ failures = 0
    /\ judged = {}

Answers == {"ok"} \cup (IF failures < MaxFailures THEN {"refused", "lost"} ELSE {})
ReadAnswers == Answers \ {"lost"}
Landed(answer) == answer \in {"ok", "lost"}

Continue(r, answer, ok, failed) ==
    /\ run' = [run EXCEPT ![r] = IF answer = "ok" THEN ok ELSE failed]
    /\ failures' = failures + (IF answer = "ok" THEN 0 ELSE 1)

(* FirestoreTitleRepository.upsert and FirestoreOccurrenceRepository.upsert: *)
(* a transaction each.                                                       *)
UpsertTitle(answer, t, doc) ==
    titles' = IF Landed(answer) THEN [titles EXCEPT ![t] = MergeTitles(@, doc)] ELSE titles
UpsertOccurrence(answer, k, doc) ==
    occs' = IF Landed(answer) THEN [occs EXCEPT ![k] = MergeOccurrences(@, doc)] ELSE occs

-----------------------------------------------------------------------------
(* The RSS phase: one feed of at most MaxEntries entries. *)

(* get_title and get_occurrence: each document is asked for once a run. *)
TitleRead(s, t) == IF s.sTitles[t] = UnreadTitle THEN titles[t] ELSE s.sTitles[t]
OccRead(s, k) == IF s.sOccs[k] = UnreadOcc THEN occs[k] ELSE s.sOccs[k]

(* Mutant: the staged title is not kept in the session. *)
StageEntryUncached(r, t, i, raw, meta) ==
    LET s == run[r]
        pair == StagedPair(TitleRead(s, t), OccRead(s, <<t, i>>),
                           [meta |-> meta, flag |-> "unset"], [raw |-> raw, stamp |-> FALSE])
    IN
    /\ s.pc = "rss"
    /\ i \notin s.entries /\ Cardinality(s.entries) < MaxEntries
    /\ run' = [run EXCEPT ![r] = [s EXCEPT
          !.entries = @ \cup {i},
          !.pendT = @ \cup {t},
          !.sOccs[<<t, i>>] = pair.occ, !.pendO = @ \cup {<<t, i>>}]]
    /\ UNCHANGED <<catalog, proposals, failures, judged>>

(* stage_title_and_occurrence *)
StageEntry(r, t, i, raw, meta) ==
    LET s == run[r]
        pair == StagedPair(TitleRead(s, t), OccRead(s, <<t, i>>),
                           [meta |-> meta, flag |-> "unset"], [raw |-> raw, stamp |-> FALSE])
    IN
    /\ s.pc = "rss"
    /\ i \notin s.entries /\ Cardinality(s.entries) < MaxEntries
    /\ run' = [run EXCEPT ![r] = [s EXCEPT
          !.entries = @ \cup {i},
          !.sTitles[t] = pair.title, !.pendT = @ \cup {t},
          !.sOccs[<<t, i>>] = pair.occ, !.pendO = @ \cup {<<t, i>>}]]
    /\ UNCHANGED <<catalog, proposals, failures, judged>>

(* The occurrence cannot be read, when the title is staged already. *)
StageHalf(r, t, i, meta) ==
    LET s == run[r] IN
    /\ s.pc = "rss"
    /\ i \notin s.entries /\ Cardinality(s.entries) < MaxEntries
    /\ failures < MaxFailures
    /\ run' = [run EXCEPT ![r] = [s EXCEPT
          !.entries = @ \cup {i},
          !.sTitles[t] = MergeTitles(TitleRead(s, t), [meta |-> meta, flag |-> "unset"]),
          !.pendT = @ \cup {t}]]
    /\ failures' = failures + 1
    /\ UNCHANGED <<catalog, proposals, judged>>

-----------------------------------------------------------------------------
(* The flushes: titles, then occurrences.  A list is cleared when all of it *)
(* has been written.                                                        *)

Flush(s) == [s EXCEPT !.pc = "flush", !.left = s.pendT, !.leftO = s.pendO]

(* _finalize_run: what is pending is all that still matters of the memory. *)
Finalize(s) ==
    IF s.pendT \cup s.pendO = {} THEN Blank("done")
    ELSE Flush([Blank("flush") EXCEPT !.mode = s.mode, !.final = TRUE,
                   !.sTitles = s.sTitles, !.sOccs = s.sOccs,
                   !.pendT = s.pendT, !.pendO = s.pendO])

EndFeed(r) ==
    /\ run[r].pc = "rss"
    /\ run' = [run EXCEPT ![r] = Flush(@)]
    /\ UNCHANGED <<catalog, proposals, failures, judged>>

AfterFlush(s) ==
    IF s.final THEN Blank("done")
    ELSE IF s.mode = "all" THEN [s EXCEPT !.pc = "list", !.entries = IF Chaining THEN {} ELSE @] ELSE Finalize(s)

(* A flush that raises is the feed's error, but ends the process in         *)
(* _finalize_run.                                                           *)
FlushFailed(s) == IF s.final THEN Blank("dead") ELSE AfterFlush(s)

FlushTitle(r) ==
    LET s == run[r] IN
    /\ s.pc = "flush"
    /\ \E t \in s.left, answer \in Answers :
          /\ UpsertTitle(answer, t, s.sTitles[t])
          /\ Continue(r, answer,
                      [s EXCEPT !.left = @ \ {t}, !.pendT = IF s.left = {t} THEN {} ELSE @],
                      FlushFailed(s))
    /\ UNCHANGED <<occs, proposals, judged>>

(* Mutant: occurrences may be written before their titles. *)
FlushOccurrenceEarly(r) ==
    LET s == run[r] IN
    /\ s.pc = "flush"
    /\ \E k \in s.leftO, answer \in Answers :
          /\ UpsertOccurrence(answer, k, s.sOccs[k])
          /\ Continue(r, answer,
                      [s EXCEPT !.leftO = @ \ {k}, !.pendO = IF s.leftO = {k} THEN {} ELSE @],
                      FlushFailed(s))
    /\ UNCHANGED <<titles, proposals, judged>>

FlushOccurrence(r) ==
    LET s == run[r] IN
    /\ s.pc = "flush" /\ s.left = {}
    /\ \E k \in s.leftO, answer \in Answers :
          /\ UpsertOccurrence(answer, k, s.sOccs[k])
          /\ Continue(r, answer,
                      [s EXCEPT !.leftO = @ \ {k}, !.pendO = IF s.leftO = {k} THEN {} ELSE @],
                      FlushFailed(s))
    /\ UNCHANGED <<titles, proposals, judged>>

EndFlush(r) ==
    LET s == run[r] IN
    /\ s.pc = "flush" /\ s.left = {} /\ s.leftO = {}
    /\ run' = [run EXCEPT ![r] = AfterFlush(s)]
    /\ UNCHANGED <<catalog, proposals, failures, judged>>

=============================================================================
