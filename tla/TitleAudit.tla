----------------------------- MODULE TitleAudit -----------------------------
(***************************************************************************)
(* The audit of existing titles with what else writes to them.  An audit   *)
(* asks the AI about clusters of occurrences, stamps the occurrences of    *)
(* clusters found right, proposes repairs for the others, and flags a      *)
(* title all of whose occurrences are stamped; a flagged title is not      *)
(* audited again.  RSS scans change titles and occurrences, reparsing      *)
(* files entries, applied proposals move occurrences.                      *)
(***************************************************************************)
EXTENDS AuditStore

StartAnyTime(r, mode) ==
    /\ run[r].pc = "idle"
    /\ run' = [run EXCEPT ![r] = [Blank(CASE mode \in {"rss", "all"} -> "rss"
                                          [] mode = "recheck-existing" -> "list"
                                          [] mode = "reparse-unfound" -> "reparse"
                                          [] mode = "apply-proposals" -> "apply")
                                  EXCEPT !.mode = mode]]
    /\ UNCHANGED <<catalog, proposals, failures, judged>>

(* Mutant: applying has a concurrency group of its own. *)
StartRunApart(r, mode) ==
    /\ Serialized => \A q \in Runs :
          Active(q) => (mode = "apply-proposals") # (run[q].mode = "apply-proposals")
    /\ StartAnyTime(r, mode)

StartRun(r, mode) ==
    /\ Serialized => \A q \in Runs : ~Active(q)
    /\ StartAnyTime(r, mode)

-----------------------------------------------------------------------------
(* recheck_existing_titles *)

AfterAudit(s) ==
    IF s.mode = "all" /\ Retryable # {} THEN [s EXCEPT !.pc = "reparse"] ELSE Finalize(s)

(* The next batch starts from nothing. *)
NextChunk(s) ==
    IF s.work = {} THEN AfterAudit(s)
    ELSE [s EXCEPT !.pc = "chunk", !.seen = [k \in Keys |-> NoOcc], !.asked = {}, !.title = "none"]

(* All titles in one query; those that this run has written, unless it may  *)
(* chain, and those that are flagged are left out.                          *)
ListTitles(r) ==
    LET s == run[r]
        own == IF s.mode = "all" /\ ~Chaining
               THEN {t \in Titles : s.sTitles[t] # UnreadTitle} ELSE {}
        work == {t \in Titles \ own : titles[t] # NoTitle /\ titles[t].flag # "yes"}
    IN
    /\ s.pc = "list"
    /\ \E answer \in ReadAnswers :
          Continue(r, answer, NextChunk([s EXCEPT !.work = work, !.shown = titles]), Finalize(s))
    /\ UNCHANGED <<catalog, proposals, judged>>

(* The next fifteen, newest first. *)
NextBatch(r) ==
    LET s == run[r] IN
    /\ s.pc = "chunk"
    /\ \E batch \in SUBSET s.work :
          /\ \/ Cardinality(batch) = BatchSize
             \/ batch = s.work /\ Cardinality(batch) < BatchSize
          /\ run' = [run EXCEPT ![r] = [s EXCEPT
                !.pc = "read", !.work = @ \ batch, !.chunk = batch]]
    /\ UNCHANGED <<catalog, proposals, failures, judged>>

Under(t, where) == {i \in Items : where[<<t, i>>] # NoOcc}
Cluster(c, where) == {i \in Under(c[1], where) : where[<<c[1], i>>].raw = c[2]}
AllStamped(t, S, where) == \A i \in S : where[<<t, i>>].stamp

AfterRead(s) ==
    IF s.chunk # {} THEN s
    ELSE [s EXCEPT !.pc = IF s.asked = {} THEN "logs" ELSE "ask"]

(* The occurrences of one title, by cluster.  Clusters not seen of late are *)
(* passed over, whichever these are, and so are those stamped already.      *)
ReadTitle(r) ==
    LET s == run[r] IN
    /\ s.pc = "read"
    /\ \E t \in s.chunk, answer \in ReadAnswers, recent \in SUBSET RawTitles :
          LET met == {raw \in recent : Cluster(<<t, raw>>, occs) # {}}
              new == {raw \in met : ~AllStamped(t, Cluster(<<t, raw>>, occs), occs)}
          IN
          Continue(r, answer,
                   AfterRead([s EXCEPT
                      !.chunk = @ \ {t},
                      !.seen = [k \in Keys |-> IF k[1] = t THEN occs[k] ELSE @[k]],
                      !.asked = @ \cup {<<t, raw>> : raw \in new},
                      !.checked = IF met # {} \/ Under(t, occs) = {} THEN @ \cup {t} ELSE @]),
                   Finalize(s))
    /\ UNCHANGED <<catalog, proposals, judged>>

(* A model's answer has, for each cluster, no entry, one, or two; an entry  *)
(* that is not sure enough, or not of the right form, is "unsure".          *)
AiAnswers(asked) ==
    [asked -> {{}, {"match"}, {"mismatch"}, {"unsure"}, {"match", "mismatch"}}]

(* Mutant: entries that are not sure are passed over for what else is said. *)
WellFormedEnough(answer) ==
    \A c \in DOMAIN answer : answer[c] \cap {"match", "mismatch"} # {}

(* validate_batch_recheck_results: all or nothing. *)
WellFormed(answer) ==
    \A c \in DOMAIN answer : answer[c] = {"match"} \/ answer[c] = {"mismatch"}

(* One question for the batch.  An answer that does not hold up ends the    *)
(* audit; a match counts unless the match policy rejects it.                *)
AskAi(r) ==
    LET s == run[r] IN
    /\ s.pc = "ask"
    /\ \E answer \in AiAnswers(s.asked), rejected \in SUBSET s.asked :
          LET right == {c \in s.asked : "match" \in answer[c]} \ rejected IN
          IF WellFormed(answer)
          THEN /\ run' = [run EXCEPT ![r] = [s EXCEPT
                     !.pc = "act", !.wrong = s.asked \ right,
                     !.stamps = {k \in Keys : \E c \in right :
                                    k[1] = c[1] /\ k[2] \in Cluster(c, s.seen)}]]
               /\ judged' = judged \cup {c \in right : answer[c] = {"match"}}
          ELSE /\ run' = [run EXCEPT ![r] = [s EXCEPT !.pc = "logs", !.work = {}, !.checked = {}]]
               /\ UNCHANGED judged
    /\ UNCHANGED <<catalog, proposals, failures>>

Acted(s) ==
    IF s.stamps = {} /\ s.wrong = {} THEN [s EXCEPT !.pc = "logs"] ELSE s

(* The occurrence as it was listed, stamped. *)
WriteStamp(r) ==
    LET s == run[r] IN
    /\ s.pc = "act"
    /\ \E k \in s.stamps, answer \in Answers :
          /\ UpsertOccurrence(answer, k, [s.seen[k] EXCEPT !.stamp = TRUE])
          /\ Continue(r, answer, Acted([s EXCEPT !.stamps = @ \ {k}]), Finalize(s))
    /\ UNCHANGED <<titles, proposals, judged>>

(* A proposal to move a cluster to the title that OMDb, the match policy    *)
(* and the AI agree on, if any; without one it is for review only.  Some    *)
(* proposals are approved.                                                  *)
WriteProposal(r) ==
    LET s == run[r] IN
    /\ s.pc = "act"
    /\ \E c \in s.wrong, answer \in Answers :
          LET done == Acted([s EXCEPT !.wrong = @ \ {c}])
              repairs == {p \in Proposals :
                            /\ p.cluster = c /\ p.target # c[1]
                            /\ p.items = Cluster(c, s.seen) /\ p.meta = s.shown[c[1]].meta}
          IN
          /\ \/ UNCHANGED proposals
             \/ /\ Landed(answer) /\ Cardinality(proposals) < MaxProposals
                /\ \E p \in repairs : proposals' = proposals \cup {p}
          /\ Continue(r, answer, done, Finalize(s))
    /\ UNCHANGED <<catalog, judged>>

(* The logs of what needs review are flushed after each batch. *)
FlushReviewLogs(r) ==
    LET s == run[r] IN
    /\ s.pc = "logs"
    /\ \E answer \in Answers : Continue(r, answer, [s EXCEPT !.pc = "check"], Finalize(s))
    /\ UNCHANGED <<catalog, proposals, judged>>

(* _check_aggregate_validity lists the occurrences of each title again,     *)
(* those too that were passed over.                                         *)
CheckTitle(r) ==
    LET s == run[r] IN
    /\ s.pc = "check"
    /\ \E t \in s.checked, answer \in ReadAnswers :
          LET rest == [s EXCEPT !.checked = @ \ {t}]
              all == Under(t, occs)
          IN
          Continue(r, answer,
                   IF all # {} /\ AllStamped(t, all, occs)
                   THEN [rest EXCEPT !.pc = "flag", !.title = t] ELSE rest,
                   Finalize(s))
    /\ UNCHANGED <<catalog, proposals, judged>>

(* The title as it was listed at the start, flagged. *)
FlagTitle(r) ==
    LET s == run[r] IN
    /\ s.pc = "flag"
    /\ \E answer \in Answers :
          /\ UpsertTitle(answer, s.title, [s.shown[s.title] EXCEPT !.flag = "yes"])
          /\ Continue(r, answer, [s EXCEPT !.pc = "check"], Finalize(s))
    /\ UNCHANGED <<occs, proposals, judged>>

BatchChecked(r) ==
    LET s == run[r] IN
    /\ s.pc = "check" /\ s.checked = {}
    /\ run' = [run EXCEPT ![r] = NextChunk(s)]
    /\ UNCHANGED <<catalog, proposals, failures, judged>>

-----------------------------------------------------------------------------
(* Reparsing and repairs, to what matters here *)

(* ReparsePersistence.persist, without the session caches. *)
ReparseTitle(r) ==
    LET s == run[r] IN
    /\ s.pc = "reparse"
    /\ \E i \in Retryable \ s.entries, t \in Titles, meta \in Metadata, answer \in Answers :
          LET next == [s EXCEPT !.entries = @ \cup {i}] IN
          /\ UpsertTitle(answer, t, [meta |-> meta, flag |-> "unset"])
          /\ Continue(r, answer,
                      [next EXCEPT !.pc = "reparseOcc", !.title = t, !.item = i], next)
    /\ UNCHANGED <<occs, proposals, judged>>

ReparseOccurrence(r) ==
    LET s == run[r]
        next == [s EXCEPT !.pc = "reparse"]
    IN
    /\ s.pc = "reparseOcc"
    /\ \E raw \in RawTitles, answer \in Answers :
          /\ UpsertOccurrence(answer, <<s.title, s.item>>, [raw |-> raw, stamp |-> FALSE])
          /\ Continue(r, answer, next, next)
    /\ UNCHANGED <<titles, proposals, judged>>

(* The commit of an approved proposal, if what it describes is still there: *)
(* the occurrences move with their stamps, both titles lose their flag.     *)
ApplyProposal(r) ==
    /\ run[r].pc = "apply"
    /\ \E p \in proposals :
          LET source == p.cluster[1]
              moved == {<<source, i>> : i \in p.items}
              current == titles[source].meta = p.meta
                           /\ \A k \in moved : occs[k].raw = p.cluster[2]
              emptied == Under(source, occs) = p.items
          IN
          /\ proposals' = proposals \ {p}
          /\ IF ~current THEN UNCHANGED catalog
             ELSE /\ occs' = [k \in Keys |->
                        IF k \in moved THEN NoOcc
                        ELSE IF k[1] = p.target /\ k[2] \in p.items
                        THEN MergeOccurrences(occs[k], occs[<<source, k[2]>>])
                        ELSE occs[k]]
                  /\ titles' = [titles EXCEPT
                        ![p.target] = [meta |-> p.as, flag |-> "no"],
                        ![source] = IF emptied THEN NoTitle ELSE [@ EXCEPT !.flag = "no"]]
    /\ UNCHANGED <<run, failures, judged>>

(* No entry, or no proposal, is left, or the rest is passed over. *)
EndPhase(r) ==
    /\ run[r].pc \in {"reparse", "apply"}
    /\ run' = [run EXCEPT ![r] = Finalize(@)]
    /\ UNCHANGED <<catalog, proposals, failures, judged>>

Crash(r) ==
    /\ Active(r) /\ failures < MaxFailures
    /\ failures' = failures + 1
    /\ run' = [run EXCEPT ![r] = Blank("dead")]
    /\ UNCHANGED <<catalog, proposals, judged>>

-----------------------------------------------------------------------------
RssStep(r) ==
    \/ \E t \in Titles, i \in Items, raw \in RawTitles, meta \in Metadata :
          StageEntry(r, t, i, raw, meta)
    \/ \E t \in Titles, i \in Items, meta \in Metadata : StageHalf(r, t, i, meta)
    \/ EndFeed(r)
FlushStep(r) == FlushTitle(r) \/ FlushOccurrence(r) \/ EndFlush(r)
AuditStep(r) ==
    \/ ListTitles(r) \/ NextBatch(r) \/ ReadTitle(r) \/ AskAi(r)
    \/ WriteStamp(r) \/ WriteProposal(r)
    \/ FlushReviewLogs(r) \/ CheckTitle(r) \/ FlagTitle(r) \/ BatchChecked(r)

Next ==
    \E r \in Runs :
        \/ \E mode \in Modes : StartRun(r, mode)
        \/ RssStep(r) \/ FlushStep(r) \/ AuditStep(r)
        \/ ReparseTitle(r) \/ ReparseOccurrence(r) \/ ApplyProposal(r) \/ EndPhase(r)
        \/ Crash(r)

Spec == Init /\ [][Next]_vars

-----------------------------------------------------------------------------
TypeOK ==
    /\ titles \in [Titles -> TitleDoc]
    /\ occs \in [Keys -> OccDoc]
    /\ proposals \subseteq Proposals
    /\ run \in [Runs -> Memory]
    /\ \A r \in Runs :
          /\ \A t \in run[r].pendT : run[r].sTitles[t] \in TitleDoc \ {NoTitle}
          /\ \A k \in run[r].pendO : run[r].sOccs[k] \in OccDoc \ {NoOcc}
          /\ \A t \in run[r].work \cup run[r].chunk \cup run[r].checked :
                run[r].shown[t] # NoTitle
    /\ failures \in 0 .. MaxFailures
    /\ judged \subseteq Clusters

(* A flagged title, which no audit looks at again, has only stamped         *)
(* occurrences (BACKEND_PARSING_PIPELINES: the flag is set only when every  *)
(* occurrence is current-policy valid, and a new one takes it back).        *)
FlaggedTitlesAreStamped ==
    \A t \in Titles : titles[t].flag = "yes" => AllStamped(t, Under(t, occs), occs)

(* As much of it as there is: of the entries that reparsing does not file,  *)
(* a flagged title has only stamped ones, whatever a scan stages over old   *)
(* copies, whatever a repair moves, and wherever a run stops.               *)
FlagsCoverScannedEntries ==
    \A t \in Titles : titles[t].flag = "yes" =>
        AllStamped(t, Under(t, occs) \ Retryable, occs)

(* A stamp is carried only by an occurrence whose raw title, as it now is,  *)
(* a whole and sure answer of the AI has found right: no merge of scans,    *)
(* audits and repairs carries it over to another raw title.                 *)
StampsAreEarned ==
    \A k \in Keys : occs[k].stamp => \E t \in Titles : <<t, occs[k].raw>> \in judged

(* What a repair has moved away is brought back by a scan that meets it     *)
(* again, or by reparsing or another repair, never by an audit that writes  *)
(* what it has listed before; and audits make no titles.                    *)
RepairsAreNotUndone ==
    [][\A k \in Keys : occs[k] = NoOcc /\ occs'[k] # NoOcc =>
          \E r \in Runs : run[r].pc \in {"flush", "reparseOcc", "apply"}
                            /\ \A q \in Runs \ {r} : run[q] = run'[q]]_vars

=============================================================================
