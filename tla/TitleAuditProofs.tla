-------------------------- MODULE TitleAuditProofs --------------------------
(***************************************************************************)
(* Proofs about TitleAudit, for any sets of titles, entries and runs, in   *)
(* any modes, serialized or not, and for any bounds: types, stamps and     *)
(* repairs, and then the flags of titles over all writers.                 *)
(***************************************************************************)
EXTENDS TitleAudit, TLAPS

-----------------------------------------------------------------------------
(* The inductive invariant *)

(* A stamp is covered by what has been judged. *)
Earned(doc, J) == doc.stamp => \E t \in Titles : <<t, doc.raw>> \in J

(* What is pending has been staged, what was listed was there, and a phase  *)
(* leaves nothing behind that the next would misread.                       *)
Orderly(s) ==
    /\ s \in Memory
    /\ s.left \subseteq s.pendT /\ s.leftO \subseteq s.pendO
    /\ \A t \in s.pendT : s.sTitles[t] \in TitleDoc \ {NoTitle}
    /\ \A k \in s.pendO : s.sOccs[k] \in OccDoc \ {NoOcc}
    /\ \A t \in s.work \cup s.chunk \cup s.checked : s.shown[t] # NoTitle
    /\ s.pc # "read" => s.chunk = {}
    /\ s.pc \in {"rss", "flush", "list"} => s.checked = {}
    /\ s.pc = "flag" => s.title \in Titles /\ s.shown[s.title] # NoTitle
    /\ s.pc = "reparseOcc" => s.title \in Titles /\ s.item \in Items
    /\ s.pc # "act" => s.stamps = {}
    /\ \A k \in s.stamps : s.seen[k] # NoOcc

(* Every copy of an occurrence that may still be written is earned, and so  *)
(* is every stamp that is still to be set.                                  *)
Honest(s, J) ==
    /\ \A k \in Keys : s.sOccs[k] # UnreadOcc => Earned(s.sOccs[k], J)
    /\ \A k \in Keys : Earned(s.seen[k], J)
    /\ \A k \in s.stamps : \E t \in Titles : <<t, s.seen[k].raw>> \in J

Stored ==
    /\ titles \in [Titles -> TitleDoc]
    /\ occs \in [Keys -> OccDoc]
    /\ \A k \in Keys : Earned(occs[k], judged)
    /\ judged \subseteq Clusters

Remembered ==
    /\ run \in [Runs -> Memory]
    /\ \A r \in Runs : Orderly(run[r]) /\ Honest(run[r], judged)

Bounded == proposals \subseteq Proposals /\ failures \in 0 .. MaxFailures

IInv == Stored /\ Remembered /\ Bounded

-----------------------------------------------------------------------------
(* The memory of a run *)

LEMMA BlankSound ==
    ASSUME NEW pc \in {"idle", "done", "dead", "rss", "list", "reparse", "apply", "flush"}, NEW J
    PROVE  Orderly(Blank(pc)) /\ Honest(Blank(pc), J)
<1>1. Blank(pc) \in Memory
  BY RecordsAssumption DEF Blank, Memory, UnreadTitle, UnreadOcc, NoTitle, NoOcc, TitleDoc, OccDoc
<1>2. Honest(Blank(pc), J)
  BY DEF Blank, Honest, Earned, NoOcc
<1> QED BY <1>1, <1>2 DEF Blank, Orderly

LEMMA FlushSound ==
    ASSUME NEW s, NEW J, Orderly(s), Honest(s, J), s.pc \in {"rss", "flush"}
    PROVE  Orderly(Flush(s)) /\ Honest(Flush(s), J)
<1>1. Orderly(Flush(s))
  BY DEF Flush, Orderly, Memory
<1>2. Honest(Flush(s), J)
  BY DEF Flush, Orderly, Honest, Memory
<1> QED BY <1>1, <1>2

(* A run that ends keeps only what it has still to write. *)
LEMMA KeptSound ==
    ASSUME NEW s, NEW b, NEW J, Orderly(s), Honest(s, J), Orderly(b), Honest(b, J), b.pc = "flush",
           b.left = {}, b.leftO = {}
    PROVE  LET kept == [b EXCEPT !.mode = s.mode, !.final = TRUE,
                          !.sTitles = s.sTitles, !.sOccs = s.sOccs,
                          !.pendT = s.pendT, !.pendO = s.pendO]
           IN Orderly(Flush(kept)) /\ Honest(Flush(kept), J)
<1> DEFINE kept == [b EXCEPT !.mode = s.mode, !.final = TRUE,
                      !.sTitles = s.sTitles, !.sOccs = s.sOccs,
                      !.pendT = s.pendT, !.pendO = s.pendO]
<1>1. kept.pc = "flush"
  BY DEF Orderly, Memory
<1>2. kept \in Memory
  BY DEF Orderly, Memory
<1>3. Orderly(kept)
  BY <1>2 DEF Orderly, Memory
<1>4. Honest(kept, J)
  BY DEF Honest, Orderly, Memory
<1> HIDE DEF kept
<1>5. Orderly(Flush(kept)) /\ Honest(Flush(kept), J)
  BY <1>1, <1>3, <1>4, FlushSound
<1> QED BY <1>5 DEF kept

LEMMA FinalizeSound ==
    ASSUME NEW s, NEW J, Orderly(s), Honest(s, J)
    PROVE  Orderly(Finalize(s)) /\ Honest(Finalize(s), J)
<1> DEFINE b == Blank("flush")
<1>1. Orderly(Blank("done")) /\ Honest(Blank("done"), J)
  BY BlankSound
<1>2. Orderly(b) /\ Honest(b, J)
  BY BlankSound
<1>3. b.pc = "flush" /\ b.left = {} /\ b.leftO = {}
  BY DEF Blank
<1> HIDE DEF b
<1>4. LET kept == [b EXCEPT !.mode = s.mode, !.final = TRUE,
                     !.sTitles = s.sTitles, !.sOccs = s.sOccs,
                     !.pendT = s.pendT, !.pendO = s.pendO]
      IN Orderly(Flush(kept)) /\ Honest(Flush(kept), J)
  BY <1>2, <1>3, KeptSound
<1> QED BY <1>1, <1>4 DEF Finalize, b

LEMMA AfterFlushSound ==
    ASSUME NEW s, NEW J, Orderly(s), Honest(s, J), s.pc = "flush"
    PROVE  /\ Orderly(AfterFlush(s)) /\ Honest(AfterFlush(s), J)
           /\ Orderly(FlushFailed(s)) /\ Honest(FlushFailed(s), J)
<1>1. /\ Orderly(Blank("done")) /\ Honest(Blank("done"), J)
      /\ Orderly(Blank("dead")) /\ Honest(Blank("dead"), J)
  BY BlankSound
<1>2. Orderly(Finalize(s)) /\ Honest(Finalize(s), J)
  BY FinalizeSound
<1>3. ASSUME NEW entries \in SUBSET Items
      PROVE  /\ Orderly([s EXCEPT !.pc = "list", !.entries = entries])
             /\ Honest([s EXCEPT !.pc = "list", !.entries = entries], J)
  BY DEF Orderly, Honest, Memory
<1>4. s.entries \in SUBSET Items
  BY DEF Orderly, Memory
<1> QED BY <1>1, <1>2, <1>3, <1>4 DEF AfterFlush, FlushFailed

(* Between two batches nothing is left of the last one. *)
LEMMA NextChunkSound ==
    ASSUME NEW s, NEW J, Orderly(s), Honest(s, J), s.pc # "act", s.chunk = {}, s.checked = {}
    PROVE  Orderly(NextChunk(s)) /\ Honest(NextChunk(s), J)
<1>1. Orderly(Finalize(s)) /\ Honest(Finalize(s), J)
  BY FinalizeSound
<1>2. Orderly([s EXCEPT !.pc = "reparse"]) /\ Honest([s EXCEPT !.pc = "reparse"], J)
  BY DEF Orderly, Honest, Memory
<1>3. Orderly(AfterAudit(s)) /\ Honest(AfterAudit(s), J)
  BY <1>1, <1>2 DEF AfterAudit
<1> DEFINE next == [s EXCEPT !.pc = "chunk", !.seen = [k \in Keys |-> NoOcc], !.asked = {}, !.title = "none"]
<1>4. Orderly(next) /\ Honest(next, J)
  <2> DEFINE none == [k \in Keys |-> NoOcc]
             m == [s EXCEPT !.pc = "chunk", !.seen = none, !.asked = {}, !.title = "none"]
  <2>1. s \in Memory
    BY DEF Orderly
  <2>2. none \in [Keys -> OccDoc] /\ \A k \in Keys : none[k] = NoOcc
    BY DEF NoOcc, OccDoc
  <2> HIDE DEF none
  <2>3. m \in Memory
    BY <2>1, <2>2 DEF Memory
  <2>4. /\ m.pc = "chunk" /\ m.seen = none /\ m.asked = {} /\ m.title = "none"
        /\ m.pendT = s.pendT /\ m.pendO = s.pendO /\ m.sTitles = s.sTitles /\ m.sOccs = s.sOccs
        /\ m.left = s.left /\ m.leftO = s.leftO
        /\ m.work = s.work /\ m.chunk = s.chunk /\ m.checked = s.checked /\ m.shown = s.shown
        /\ m.stamps = s.stamps /\ m.item = s.item
    BY <2>1 DEF Memory
  <2> HIDE DEF m
  <2>5. Orderly(m)
    BY <2>3, <2>4 DEF Orderly
  <2>6. Honest(m, J)
    BY <2>2, <2>4 DEF Orderly, Honest, Earned, NoOcc
  <2> QED
    BY <2>5, <2>6 DEF m, none
<1> QED BY <1>3, <1>4 DEF NextChunk

(* What has been judged is never taken back. *)
LEMMA HonestGrows ==
    ASSUME NEW s, NEW I, NEW J, I \subseteq J, Honest(s, I)
    PROVE  Honest(s, J)
  BY DEF Honest, Earned

LEMMA RunWritten ==
    ASSUME Remembered, NEW r \in Runs, NEW m, run' = [run EXCEPT ![r] = m],
           judged \subseteq judged', Orderly(m), Honest(m, judged')
    PROVE  Remembered'
<1>1. run' \in [Runs -> Memory]
  BY DEF Remembered, Orderly
<1>2. ASSUME NEW q \in Runs PROVE Orderly(run'[q]) /\ Honest(run'[q], judged')
  <2>1. Honest(run[q], judged')
    BY HonestGrows DEF Remembered
  <2> QED BY <2>1 DEF Remembered
<1>3. (\A q \in Runs : Orderly(run[q]) /\ Honest(run[q], judged))'
  BY <1>2 DEF Orderly, Honest, Earned
<1> QED BY <1>1, <1>3 DEF Remembered

LEMMA Continued ==
    ASSUME Remembered, failures \in 0 .. MaxFailures, UNCHANGED judged,
           NEW r \in Runs, NEW answer \in Answers, NEW ok, NEW failed,
           Continue(r, answer, ok, failed),
           Orderly(ok), Honest(ok, judged), Orderly(failed), Honest(failed, judged)
    PROVE  Remembered' /\ failures' \in 0 .. MaxFailures
<1>1. failures' \in 0 .. MaxFailures
  BY AuditAssumption DEF Continue, Answers
<1>2. PICK m \in {ok, failed} : run' = [run EXCEPT ![r] = m]
  BY DEF Continue
<1>3. Remembered'
  BY <1>2, RunWritten
<1> QED BY <1>1, <1>3

-----------------------------------------------------------------------------
(* The documents *)

LEMMA Merged ==
    ASSUME NEW J, NEW old \in OccDoc, NEW new \in OccDoc \ {NoOcc}, Earned(old, J), Earned(new, J)
    PROVE  /\ MergeOccurrences(old, new) \in OccDoc \ {NoOcc}
           /\ Earned(MergeOccurrences(old, new), J)
<1>0. new \in [raw : RawTitles, stamp : BOOLEAN]
  BY DEF OccDoc
<1>1. new.raw \in RawTitles /\ new.stamp \in BOOLEAN /\ old.stamp \in BOOLEAN
  <2>1. new.raw \in RawTitles /\ new.stamp \in BOOLEAN
    BY <1>0
  <2>2. CASE old = NoOcc
    BY <2>1, <2>2 DEF NoOcc
  <2>3. CASE old \in [raw : RawTitles, stamp : BOOLEAN]
    BY <2>1, <2>3
  <2> QED BY <2>2, <2>3 DEF OccDoc
<1>2. MergeOccurrences(old, new) \in OccDoc \ {NoOcc}
  BY <1>1, RecordsAssumption DEF MergeOccurrences, OccDoc, NoOcc
<1>3. Earned(MergeOccurrences(old, new), J)
  BY <1>1 DEF MergeOccurrences, Earned
<1> QED BY <1>2, <1>3

LEMMA TitleMerged ==
    ASSUME NEW old \in TitleDoc, NEW new \in TitleDoc \ {NoTitle}
    PROVE  MergeTitles(old, new) \in TitleDoc \ {NoTitle}
  BY RecordsAssumption DEF MergeTitles, TitleDoc, NoTitle, Flags

LEMMA TitleStored ==
    ASSUME Stored, UNCHANGED <<occs, judged>>, NEW answer, NEW t \in Titles,
           NEW doc \in TitleDoc \ {NoTitle}, UpsertTitle(answer, t, doc)
    PROVE  Stored'
<1>1. MergeTitles(titles[t], doc) \in TitleDoc
  BY TitleMerged DEF Stored
<1>2. titles' \in [Titles -> TitleDoc]
  BY <1>1 DEF Stored, UpsertTitle
<1> QED BY <1>2 DEF Stored, Earned

LEMMA OccurrenceStored ==
    ASSUME Stored, UNCHANGED <<titles, judged>>, NEW answer, NEW k \in Keys,
           NEW doc \in OccDoc \ {NoOcc}, Earned(doc, judged), UpsertOccurrence(answer, k, doc)
    PROVE  Stored'
<1>1. /\ MergeOccurrences(occs[k], doc) \in OccDoc
      /\ Earned(MergeOccurrences(occs[k], doc), judged)
  BY Merged DEF Stored
<1>2. CASE occs' = occs
  BY <1>2 DEF Stored, Earned
<1>3. CASE occs' = [occs EXCEPT ![k] = MergeOccurrences(@, doc)]
  <2>1. occs' \in [Keys -> OccDoc]
    BY <1>1, <1>3 DEF Stored
  <2>2. \A j \in Keys : Earned(occs'[j], judged)
    BY <1>1, <1>3 DEF Stored
  <2> QED BY <2>1, <2>2 DEF Stored, Earned
<1> QED BY <1>2, <1>3 DEF UpsertOccurrence

(* What is staged over an earned occurrence is earned. *)
LEMMA StagedSound ==
    ASSUME NEW J, NEW oldTitle \in TitleDoc, NEW oldOcc \in OccDoc, Earned(oldOcc, J),
           NEW newTitle \in TitleDoc \ {NoTitle}, NEW newOcc \in OccDoc \ {NoOcc}, Earned(newOcc, J)
    PROVE  LET pair == StagedPair(oldTitle, oldOcc, newTitle, newOcc) IN
           /\ pair.title \in TitleDoc \ {NoTitle}
           /\ pair.occ \in OccDoc \ {NoOcc}
           /\ Earned(pair.occ, J)
<1> DEFINE title == MergeTitles(oldTitle, newTitle)
           merged == MergeOccurrences(oldOcc, newOcc)
<1>1. title \in TitleDoc \ {NoTitle}
  BY TitleMerged
<1>2. merged \in OccDoc \ {NoOcc} /\ Earned(merged, J)
  BY Merged
<1> HIDE DEF title, merged
<1>3. [title EXCEPT !.flag = "no"] \in TitleDoc \ {NoTitle}
  BY <1>1 DEF TitleDoc, NoTitle, Flags
<1>4. ASSUME NEW same \in BOOLEAN
      PROVE  /\ [merged EXCEPT !.stamp = @ /\ same] \in OccDoc \ {NoOcc}
             /\ Earned([merged EXCEPT !.stamp = @ /\ same], J)
  BY <1>2, RecordsAssumption DEF OccDoc, NoOcc, Earned
<1> QED BY <1>1, <1>3, <1>4 DEF StagedPair, title, merged

-----------------------------------------------------------------------------
(* The initial states *)

LEMMA InitSound == Init => IInv
<1> SUFFICES ASSUME Init PROVE IInv
  OBVIOUS
<1>1. titles \in [Titles -> TitleDoc]
  BY DEF Init, TitleDoc, Flags
<1>2. \A k \in Keys : occs[k] \in OccDoc /\ ~occs[k].stamp
  <2> SUFFICES ASSUME NEW k \in Keys PROVE occs[k] \in OccDoc /\ ~occs[k].stamp
    OBVIOUS
  <2>1. occs[k] \in {NoOcc} \cup [raw : RawTitles, stamp : {FALSE}]
    BY DEF Init
  <2>2. CASE occs[k] = NoOcc
    BY <2>2 DEF OccDoc, NoOcc
  <2>3. CASE occs[k] \in [raw : RawTitles, stamp : {FALSE}]
    BY <2>3 DEF OccDoc
  <2> QED BY <2>1, <2>2, <2>3
<1>3. occs \in [Keys -> OccDoc]
  BY <1>2 DEF Init
<1>4. Stored
  BY <1>1, <1>2, <1>3 DEF Init, Stored, Earned
<1>5. Orderly(Blank("idle")) /\ Honest(Blank("idle"), judged)
  BY BlankSound
<1>6. Remembered
  BY <1>5 DEF Init, Remembered, Orderly
<1>7. Bounded
  <2>1. failures \in 0 .. MaxFailures
    BY AuditAssumption DEF Init
  <2>2. proposals \subseteq Proposals
    BY DEF Init
  <2> QED BY <2>1, <2>2 DEF Bounded
<1> QED BY <1>4, <1>6, <1>7 DEF IInv

-----------------------------------------------------------------------------
(* Starting and stopping *)

LEMMA QuietStored ==
    ASSUME Stored, UNCHANGED <<catalog, judged>>
    PROVE  Stored'
  BY DEF Stored, Earned, catalog

LEMMA StartSound ==
    ASSUME IInv, NEW r \in Runs, NEW mode \in Modes, StartRun(r, mode)
    PROVE  IInv'
<1>1. PICK pc \in {"rss", "list", "reparse", "apply"} :
        run' = [run EXCEPT ![r] = [Blank(pc) EXCEPT !.mode = mode]]
  BY AuditAssumption DEF StartRun, StartAnyTime
<1> DEFINE b == Blank(pc)
<1>2. Orderly(b) /\ Honest(b, judged)
  BY BlankSound
<1>3. b.pc = pc /\ b.chunk = {} /\ b.checked = {} /\ b.stamps = {}
  BY DEF Blank
<1> HIDE DEF b
<1>4. Orderly([b EXCEPT !.mode = mode]) /\ Honest([b EXCEPT !.mode = mode], judged)
  BY <1>2, <1>3 DEF Orderly, Honest, Memory
<1>5. UNCHANGED <<catalog, proposals, failures, judged>>
  BY DEF StartRun, StartAnyTime
<1>6. Remembered'
  BY <1>1, <1>4, <1>5, RunWritten DEF IInv, b
<1> QED BY <1>5, <1>6, QuietStored DEF IInv, Bounded

LEMMA CrashSound ==
    ASSUME IInv, NEW r \in Runs, Crash(r)
    PROVE  IInv'
<1>1. Orderly(Blank("dead")) /\ Honest(Blank("dead"), judged)
  BY BlankSound
<1>2. Remembered'
  BY <1>1, RunWritten DEF IInv, Crash
<1>3. failures' \in 0 .. MaxFailures
  BY AuditAssumption DEF IInv, Bounded, Crash
<1> QED BY <1>2, <1>3, QuietStored DEF IInv, Bounded, Crash

LEMMA EndPhaseSound ==
    ASSUME IInv, NEW r \in Runs, EndPhase(r)
    PROVE  IInv'
<1>1. Orderly(Finalize(run[r])) /\ Honest(Finalize(run[r]), judged)
  BY FinalizeSound DEF IInv, Remembered
<1>2. Remembered'
  BY <1>1, RunWritten DEF IInv, EndPhase
<1> QED BY <1>2, QuietStored DEF IInv, Bounded, EndPhase

-----------------------------------------------------------------------------
(* The RSS phase and the flushes *)

(* What is staged is typed, and pending once it is staged. *)
LEMMA StagedMemory ==
    ASSUME NEW s, NEW J, Orderly(s), Honest(s, J), s.pc = "rss", NEW entries \in SUBSET Items,
           NEW T \in [Titles -> TitleDoc \cup {UnreadTitle}], NEW pendT \in SUBSET Titles,
           NEW O \in [Keys -> OccDoc \cup {UnreadOcc}], NEW pendO \in SUBSET Keys,
           s.pendT \subseteq pendT, \A t \in pendT : T[t] \in TitleDoc \ {NoTitle},
           s.pendO \subseteq pendO, \A k \in pendO : O[k] \in OccDoc \ {NoOcc},
           \A k \in Keys : O[k] # UnreadOcc => Earned(O[k], J)
    PROVE  LET next == [s EXCEPT !.entries = entries, !.sTitles = T, !.pendT = pendT,
                           !.sOccs = O, !.pendO = pendO]
           IN Orderly(next) /\ Honest(next, J)
<1> DEFINE next == [s EXCEPT !.entries = entries, !.sTitles = T, !.pendT = pendT,
                       !.sOccs = O, !.pendO = pendO]
<1>1. next \in Memory
  BY DEF Orderly, Memory
<1>2. Orderly(next)
  BY <1>1 DEF Orderly, Memory
<1>3. Honest(next, J)
  BY DEF Orderly, Memory, Honest
<1> QED BY <1>2, <1>3

(* What has been written is pending no more. *)
LEMMA WrittenMemory ==
    ASSUME NEW s, NEW J, Orderly(s), Honest(s, J), NEW left \in SUBSET s.left,
           NEW leftO \in SUBSET s.leftO, NEW pendT \in SUBSET s.pendT, NEW pendO \in SUBSET s.pendO,
           left \subseteq pendT, leftO \subseteq pendO
    PROVE  /\ Orderly([s EXCEPT !.left = left, !.pendT = pendT])
           /\ Honest([s EXCEPT !.left = left, !.pendT = pendT], J)
           /\ Orderly([s EXCEPT !.leftO = leftO, !.pendO = pendO])
           /\ Honest([s EXCEPT !.leftO = leftO, !.pendO = pendO], J)
<1>1. Orderly([s EXCEPT !.left = left, !.pendT = pendT])
  <2> DEFINE next == [s EXCEPT !.left = left, !.pendT = pendT]
  <2>1. s \in Memory /\ left \in SUBSET Titles /\ pendT \in SUBSET Titles
    BY DEF Orderly, Memory
  <2>2. next \in Memory
    BY <2>1 DEF Memory
  <2>3. \A x \in next.pendT : next.sTitles[x] \in TitleDoc \ {NoTitle}
    BY <2>1 DEF Orderly, Memory
  <2>4. /\ next.left \subseteq next.pendT /\ next.leftO \subseteq next.pendO
        /\ \A t \in next.pendT : next.sTitles[t] \in TitleDoc \ {NoTitle}
        /\ \A k \in next.pendO : next.sOccs[k] \in OccDoc \ {NoOcc}
    BY <2>1, <2>3 DEF Orderly, Memory
  <2>5. /\ next.pc = s.pc /\ next.title = s.title /\ next.item = s.item
        /\ next.work = s.work /\ next.chunk = s.chunk /\ next.checked = s.checked
        /\ next.shown = s.shown /\ next.stamps = s.stamps /\ next.seen = s.seen
    BY <2>1 DEF Memory
  <2> HIDE DEF next
  <2>6. Orderly(next)
    BY <2>2, <2>4, <2>5 DEF Orderly
  <2> QED BY <2>6 DEF next
<1>2. Orderly([s EXCEPT !.leftO = leftO, !.pendO = pendO])
  <2> DEFINE next == [s EXCEPT !.leftO = leftO, !.pendO = pendO]
  <2>1. s \in Memory /\ leftO \in SUBSET Keys /\ pendO \in SUBSET Keys
    BY DEF Orderly, Memory
  <2>2. next \in Memory
    BY <2>1 DEF Memory
  <2>3. \A x \in next.pendO : next.sOccs[x] \in OccDoc \ {NoOcc}
    BY <2>1 DEF Orderly, Memory
  <2>4. /\ next.left \subseteq next.pendT /\ next.leftO \subseteq next.pendO
        /\ \A t \in next.pendT : next.sTitles[t] \in TitleDoc \ {NoTitle}
        /\ \A k \in next.pendO : next.sOccs[k] \in OccDoc \ {NoOcc}
    BY <2>1, <2>3 DEF Orderly, Memory
  <2>5. /\ next.pc = s.pc /\ next.title = s.title /\ next.item = s.item
        /\ next.work = s.work /\ next.chunk = s.chunk /\ next.checked = s.checked
        /\ next.shown = s.shown /\ next.stamps = s.stamps /\ next.seen = s.seen
    BY <2>1 DEF Memory
  <2> HIDE DEF next
  <2>6. Orderly(next)
    BY <2>2, <2>4, <2>5 DEF Orderly
  <2> QED BY <2>6 DEF next
<1>3. /\ Honest([s EXCEPT !.left = left, !.pendT = pendT], J)
      /\ Honest([s EXCEPT !.leftO = leftO, !.pendO = pendO], J)
  BY DEF Orderly, Memory, Honest
<1> QED BY <1>1, <1>2, <1>3

LEMMA StageEntrySound ==
    ASSUME IInv, NEW r \in Runs, NEW t \in Titles, NEW i \in Items,
           NEW raw \in RawTitles, NEW meta \in Metadata, StageEntry(r, t, i, raw, meta)
    PROVE  IInv'
<1> DEFINE s == run[r]
           k == <<t, i>>
           newTitle == [meta |-> meta, flag |-> "unset"]
           newOcc == [raw |-> raw, stamp |-> FALSE]
           pair == StagedPair(TitleRead(s, t), OccRead(s, k), newTitle, newOcc)
           next == [s EXCEPT !.entries = @ \cup {i},
                      !.sTitles[t] = pair.title, !.pendT = @ \cup {t},
                      !.sOccs[k] = pair.occ, !.pendO = @ \cup {k}]
<1>1. Orderly(s) /\ Honest(s, judged) /\ s.pc = "rss" /\ k \in Keys
  BY DEF IInv, Remembered, StageEntry, Keys
<1>2. TitleRead(s, t) \in TitleDoc
  BY <1>1 DEF TitleRead, Orderly, Memory, IInv, Stored
<1>3. OccRead(s, k) \in OccDoc /\ Earned(OccRead(s, k), judged)
  BY <1>1 DEF OccRead, Orderly, Memory, IInv, Stored, Honest
<1>4. newTitle \in TitleDoc \ {NoTitle}
  BY RecordsAssumption DEF TitleDoc, NoTitle, Flags
<1>5. newOcc \in OccDoc \ {NoOcc} /\ Earned(newOcc, judged)
  BY RecordsAssumption DEF OccDoc, NoOcc, Earned
<1>6. /\ pair.title \in TitleDoc \ {NoTitle}
      /\ pair.occ \in OccDoc \ {NoOcc}
      /\ Earned(pair.occ, judged)
  <2> HIDE DEF newTitle, newOcc
  <2> QED BY <1>2, <1>3, <1>4, <1>5, StagedSound
<1>7. run' = [run EXCEPT ![r] = next] /\ UNCHANGED <<catalog, proposals, failures, judged>>
  BY DEF StageEntry
<1> DEFINE T == [s.sTitles EXCEPT ![t] = pair.title]
           O == [s.sOccs EXCEPT ![k] = pair.occ]
<1>8. next = [s EXCEPT !.entries = s.entries \cup {i}, !.sTitles = T, !.pendT = s.pendT \cup {t},
                 !.sOccs = O, !.pendO = s.pendO \cup {k}]
  OBVIOUS
<1> HIDE DEF pair, s, k
<1>9. /\ T \in [Titles -> TitleDoc \cup {UnreadTitle}]
      /\ \A u \in s.pendT \cup {t} : T[u] \in TitleDoc \ {NoTitle}
  BY <1>1, <1>6 DEF Orderly, Memory
<1>10. /\ O \in [Keys -> OccDoc \cup {UnreadOcc}]
       /\ \A j \in s.pendO \cup {k} : O[j] \in OccDoc \ {NoOcc}
       /\ \A j \in Keys : O[j] # UnreadOcc => Earned(O[j], judged)
  BY <1>1, <1>6 DEF Orderly, Memory, Honest
<1>11. /\ s.entries \cup {i} \in SUBSET Items
       /\ s.pendT \cup {t} \in SUBSET Titles
       /\ s.pendO \cup {k} \in SUBSET Keys
  BY <1>1 DEF Orderly, Memory
<1> HIDE DEF T, O, next
<1>12. Orderly(next) /\ Honest(next, judged)
  BY <1>1, <1>8, <1>9, <1>10, <1>11, StagedMemory
<1>13. Remembered'
  BY <1>7, <1>12, RunWritten DEF IInv
<1> QED BY <1>7, <1>13, QuietStored DEF IInv, Bounded

LEMMA StageHalfSound ==
    ASSUME IInv, NEW r \in Runs, NEW t \in Titles, NEW i \in Items, NEW meta \in Metadata,
           StageHalf(r, t, i, meta)
    PROVE  IInv'
<1> DEFINE s == run[r]
           newTitle == [meta |-> meta, flag |-> "unset"]
           title == MergeTitles(TitleRead(s, t), newTitle)
           next == [s EXCEPT !.entries = @ \cup {i}, !.sTitles[t] = title, !.pendT = @ \cup {t}]
<1>1. Orderly(s) /\ Honest(s, judged) /\ s.pc = "rss"
  BY DEF IInv, Remembered, StageHalf
<1>2. TitleRead(s, t) \in TitleDoc
  BY <1>1 DEF TitleRead, Orderly, Memory, IInv, Stored
<1>3. newTitle \in TitleDoc \ {NoTitle}
  BY RecordsAssumption DEF TitleDoc, NoTitle, Flags
<1>4. title \in TitleDoc \ {NoTitle}
  <2> HIDE DEF newTitle
  <2> QED BY <1>2, <1>3, TitleMerged
<1>5. /\ run' = [run EXCEPT ![r] = next]
      /\ failures < MaxFailures /\ failures' = failures + 1
      /\ UNCHANGED <<catalog, proposals, judged>>
  BY DEF StageHalf
<1> DEFINE T == [s.sTitles EXCEPT ![t] = title]
<1>10. Orderly([s EXCEPT !.entries = s.entries \cup {i}, !.sTitles = T, !.pendT = s.pendT \cup {t},
                  !.sOccs = s.sOccs, !.pendO = s.pendO])
       /\ Honest([s EXCEPT !.entries = s.entries \cup {i}, !.sTitles = T, !.pendT = s.pendT \cup {t},
                  !.sOccs = s.sOccs, !.pendO = s.pendO], judged)
  <2> HIDE DEF title, s
  <2>1. /\ T \in [Titles -> TitleDoc \cup {UnreadTitle}]
        /\ \A u \in s.pendT \cup {t} : T[u] \in TitleDoc \ {NoTitle}
    BY <1>1, <1>4 DEF Orderly, Memory
  <2>2. /\ s.entries \cup {i} \in SUBSET Items
        /\ s.pendT \cup {t} \in SUBSET Titles
        /\ s.sOccs \in [Keys -> OccDoc \cup {UnreadOcc}]
        /\ s.pendO \in SUBSET Keys
        /\ \A j \in s.pendO : s.sOccs[j] \in OccDoc \ {NoOcc}
        /\ \A j \in Keys : s.sOccs[j] # UnreadOcc => Earned(s.sOccs[j], judged)
    BY <1>1 DEF Orderly, Memory, Honest
  <2> HIDE DEF T
  <2> QED BY <1>1, <2>1, <2>2, StagedMemory
<1>6. next = [s EXCEPT !.entries = s.entries \cup {i}, !.sTitles = T, !.pendT = s.pendT \cup {t},
                !.sOccs = s.sOccs, !.pendO = s.pendO]
  <2> HIDE DEF title, s
  <2> QED BY <1>1 DEF Orderly, Memory
<1>7. Orderly(next) /\ Honest(next, judged)
  BY <1>6, <1>10
<1> HIDE DEF next
<1>8. Remembered'
  BY <1>5, <1>7, RunWritten DEF IInv
<1>9. failures' \in 0 .. MaxFailures
  BY <1>5, AuditAssumption DEF IInv, Bounded
<1> QED BY <1>5, <1>8, <1>9, QuietStored DEF IInv, Bounded

LEMMA EndFeedSound ==
    ASSUME IInv, NEW r \in Runs, EndFeed(r)
    PROVE  IInv'
<1>1. Orderly(Flush(run[r])) /\ Honest(Flush(run[r]), judged)
  BY FlushSound DEF IInv, Remembered, EndFeed
<1>2. Remembered'
  BY <1>1, RunWritten DEF IInv, EndFeed
<1> QED BY <1>2, QuietStored DEF IInv, Bounded, EndFeed

LEMMA FlushTitleSound ==
    ASSUME IInv, NEW r \in Runs, FlushTitle(r)
    PROVE  IInv'
<1> DEFINE s == run[r]
<1>1. PICK t \in s.left, answer \in Answers :
        /\ UpsertTitle(answer, t, s.sTitles[t])
        /\ Continue(r, answer,
                    [s EXCEPT !.left = @ \ {t}, !.pendT = IF s.left = {t} THEN {} ELSE @],
                    FlushFailed(s))
  BY DEF FlushTitle
<1> DEFINE ok == [s EXCEPT !.left = @ \ {t}, !.pendT = IF s.left = {t} THEN {} ELSE @]
<1>2. Orderly(s) /\ Honest(s, judged) /\ s.pc = "flush"
  BY DEF IInv, Remembered, FlushTitle
<1>3. t \in Titles /\ s.sTitles[t] \in TitleDoc \ {NoTitle}
  BY <1>2 DEF Orderly, Memory
<1>4. Orderly(FlushFailed(s)) /\ Honest(FlushFailed(s), judged)
  BY <1>2, AfterFlushSound
<1>5. UNCHANGED <<occs, proposals, judged>>
  BY DEF FlushTitle
<1>6. Stored'
  BY <1>1, <1>3, <1>5, TitleStored DEF IInv
<1>7. Orderly(ok) /\ Honest(ok, judged)
  <2>1. /\ s.left \ {t} \in SUBSET s.left
        /\ (IF s.left = {t} THEN {} ELSE s.pendT) \in SUBSET s.pendT
        /\ s.left \ {t} \subseteq (IF s.left = {t} THEN {} ELSE s.pendT)
    BY <1>2 DEF Orderly
  <2>2. s.leftO \subseteq s.pendO
    BY <1>2 DEF Orderly
  <2> HIDE DEF s
  <2> QED BY <1>2, <2>1, <2>2, WrittenMemory
<1>8. Continue(r, answer, ok, FlushFailed(s))
  BY <1>1
<1> HIDE DEF ok
<1>9. Remembered' /\ failures' \in 0 .. MaxFailures
  BY <1>4, <1>5, <1>7, <1>8, Continued DEF IInv, Bounded
<1> QED BY <1>5, <1>6, <1>9 DEF IInv, Bounded

LEMMA FlushOccurrenceSound ==
    ASSUME IInv, NEW r \in Runs, FlushOccurrence(r)
    PROVE  IInv'
<1> DEFINE s == run[r]
<1>1. PICK k \in s.leftO, answer \in Answers :
        /\ UpsertOccurrence(answer, k, s.sOccs[k])
        /\ Continue(r, answer,
                    [s EXCEPT !.leftO = @ \ {k}, !.pendO = IF s.leftO = {k} THEN {} ELSE @],
                    FlushFailed(s))
  BY DEF FlushOccurrence
<1> DEFINE ok == [s EXCEPT !.leftO = @ \ {k}, !.pendO = IF s.leftO = {k} THEN {} ELSE @]
<1>2. Orderly(s) /\ Honest(s, judged) /\ s.pc = "flush"
  BY DEF IInv, Remembered, FlushOccurrence
<1>3. k \in Keys /\ s.sOccs[k] \in OccDoc \ {NoOcc}
  BY <1>2 DEF Orderly, Memory
<1>4. Earned(s.sOccs[k], judged)
  <2>1. s.sOccs[k] # UnreadOcc
    BY <1>3, RecordsAssumption DEF OccDoc, NoOcc, UnreadOcc
  <2> QED BY <1>2, <1>3, <2>1 DEF Honest
<1>5. Orderly(FlushFailed(s)) /\ Honest(FlushFailed(s), judged)
  BY <1>2, AfterFlushSound
<1>6. UNCHANGED <<titles, proposals, judged>>
  BY DEF FlushOccurrence
<1>7. Stored'
  BY <1>1, <1>3, <1>4, <1>6, OccurrenceStored DEF IInv
<1>8. Orderly(ok) /\ Honest(ok, judged)
  <2>1. /\ s.leftO \ {k} \in SUBSET s.leftO
        /\ (IF s.leftO = {k} THEN {} ELSE s.pendO) \in SUBSET s.pendO
        /\ s.leftO \ {k} \subseteq (IF s.leftO = {k} THEN {} ELSE s.pendO)
    BY <1>2 DEF Orderly
  <2>2. s.left \subseteq s.pendT
    BY <1>2 DEF Orderly
  <2> HIDE DEF s
  <2> QED BY <1>2, <2>1, <2>2, WrittenMemory
<1>9. Continue(r, answer, ok, FlushFailed(s))
  BY <1>1
<1> HIDE DEF ok
<1>10. Remembered' /\ failures' \in 0 .. MaxFailures
  BY <1>5, <1>6, <1>8, <1>9, Continued DEF IInv, Bounded
<1> QED BY <1>6, <1>7, <1>10 DEF IInv, Bounded

LEMMA EndFlushSound ==
    ASSUME IInv, NEW r \in Runs, EndFlush(r)
    PROVE  IInv'
<1>1. Orderly(AfterFlush(run[r])) /\ Honest(AfterFlush(run[r]), judged)
  BY AfterFlushSound DEF IInv, Remembered, EndFlush
<1>2. Remembered'
  BY <1>1, RunWritten DEF IInv, EndFlush
<1> QED BY <1>2, QuietStored DEF IInv, Bounded, EndFlush

-----------------------------------------------------------------------------
(* The audit *)

LEMMA ListTitlesSound ==
    ASSUME IInv, NEW r \in Runs, ListTitles(r)
    PROVE  IInv'
<1> DEFINE s == run[r]
<1>1. PICK answer \in ReadAnswers, work \in SUBSET Titles :
        /\ \A t \in work : titles[t] # NoTitle
        /\ Continue(r, answer, NextChunk([s EXCEPT !.work = work, !.shown = titles]), Finalize(s))
  BY DEF ListTitles
<1> DEFINE listed == [s EXCEPT !.work = work, !.shown = titles]
<1>2. /\ Orderly(s) /\ Honest(s, judged) /\ s.pc = "list"
      /\ titles \in [Titles -> TitleDoc] /\ answer \in Answers
  BY DEF IInv, Stored, Remembered, ListTitles, ReadAnswers
<1>3. /\ Orderly(listed) /\ Honest(listed, judged)
      /\ listed.pc # "act" /\ listed.chunk = {} /\ listed.checked = {}
  <2> HIDE DEF s
  <2>1. listed \in Memory
    BY <1>2 DEF Orderly, Memory
  <2>2. Orderly(listed)
    BY <1>1, <1>2, <2>1 DEF Orderly, Memory
  <2>3. Honest(listed, judged)
    BY <1>2 DEF Orderly, Memory, Honest
  <2> QED BY <1>2, <2>2, <2>3 DEF Orderly, Memory
<1>4. Continue(r, answer, NextChunk(listed), Finalize(s))
  BY <1>1
<1> HIDE DEF listed
<1>5. Orderly(NextChunk(listed)) /\ Honest(NextChunk(listed), judged)
  BY <1>3, NextChunkSound
<1>6. Orderly(Finalize(s)) /\ Honest(Finalize(s), judged)
  BY <1>2, FinalizeSound
<1>7. UNCHANGED <<catalog, proposals, judged>>
  BY DEF ListTitles
<1>8. Remembered' /\ failures' \in 0 .. MaxFailures
  BY <1>2, <1>4, <1>5, <1>6, <1>7, Continued DEF IInv, Bounded
<1> QED BY <1>7, <1>8, QuietStored DEF IInv, Bounded

LEMMA NextBatchSound ==
    ASSUME IInv, NEW r \in Runs, NextBatch(r)
    PROVE  IInv'
<1> DEFINE s == run[r]
<1>1. PICK batch \in SUBSET s.work :
        run' = [run EXCEPT ![r] = [s EXCEPT !.pc = "read", !.work = @ \ batch, !.chunk = batch]]
  BY DEF NextBatch
<1> DEFINE next == [s EXCEPT !.pc = "read", !.work = @ \ batch, !.chunk = batch]
<1>2. Orderly(s) /\ Honest(s, judged) /\ s.pc = "chunk"
  BY DEF IInv, Remembered, NextBatch
<1>3. Orderly(next) /\ Honest(next, judged)
  <2> HIDE DEF s
  <2>1. next \in Memory
    BY <1>2 DEF Orderly, Memory
  <2>2. Orderly(next)
    BY <1>2, <2>1 DEF Orderly, Memory
  <2>3. Honest(next, judged)
    BY <1>2 DEF Orderly, Memory, Honest
  <2> QED BY <2>2, <2>3
<1>4. UNCHANGED <<catalog, proposals, failures, judged>>
  BY DEF NextBatch
<1> HIDE DEF next
<1>5. run' = [run EXCEPT ![r] = next]
  BY <1>1 DEF next
<1>6. Remembered'
  BY <1>3, <1>4, <1>5, RunWritten DEF IInv
<1> QED BY <1>4, <1>6, QuietStored DEF IInv, Bounded

(* A listing is of documents as they are stored. *)
LEMMA ListedSound ==
    ASSUME NEW s, NEW J, Orderly(s), Honest(s, J), s.pc = "read", NEW t \in s.chunk,
           NEW seen \in [Keys -> OccDoc], \A k \in Keys : Earned(seen[k], J),
           NEW asked \in SUBSET Clusters, NEW checked \in {s.checked, s.checked \cup {t}}
    PROVE  LET next == [s EXCEPT !.chunk = @ \ {t}, !.seen = seen, !.asked = asked, !.checked = checked]
           IN /\ Orderly(next) /\ Honest(next, J)
              /\ Orderly(AfterRead(next)) /\ Honest(AfterRead(next), J)
<1> DEFINE next == [s EXCEPT !.chunk = @ \ {t}, !.seen = seen, !.asked = asked, !.checked = checked]
<1>0. s.chunk \ {t} \in SUBSET Titles /\ checked \in SUBSET Titles
  BY DEF Orderly, Memory
<1>1. next \in Memory
  BY <1>0 DEF Orderly, Memory
<1>2. next.pc = "read" /\ next.stamps = {}
  BY DEF Orderly, Memory
<1>3. Orderly(next)
  BY <1>1 DEF Orderly, Memory
<1>4. Honest(next, J)
  BY <1>2 DEF Orderly, Memory, Honest
<1> HIDE DEF next
<1>5. Orderly(AfterRead(next)) /\ Honest(AfterRead(next), J)
  BY <1>1, <1>2, <1>3, <1>4 DEF Orderly, Memory, Honest, AfterRead
<1> QED BY <1>3, <1>4, <1>5 DEF next

LEMMA ReadTitleSound ==
    ASSUME IInv, NEW r \in Runs, ReadTitle(r)
    PROVE  IInv'
<1> DEFINE s == run[r]
<1>1. Orderly(s) /\ Honest(s, judged) /\ s.pc = "read"
  BY DEF IInv, Remembered, ReadTitle
<1>2. PICK t \in s.chunk, answer \in ReadAnswers, recent \in SUBSET RawTitles :
          LET met == {raw \in recent : Cluster(<<t, raw>>, occs) # {}}
              new == {raw \in met : ~AllStamped(t, Cluster(<<t, raw>>, occs), occs)}
          IN
          Continue(r, answer,
                   AfterRead([s EXCEPT
                      !.chunk = @ \ {t},
                      !.seen = [k \in Keys |-> IF k[1] = t THEN occs[k] ELSE @[k]],
                      !.asked = @ \cup {<<t, raw>> : raw \in new},
                      !.checked = IF met # {} \/ Under(t, occs) = {} THEN @ \cup {t} ELSE @]),
                   Finalize(s))
  BY DEF ReadTitle
<1> DEFINE met == {raw \in recent : Cluster(<<t, raw>>, occs) # {}}
           new == {raw \in met : ~AllStamped(t, Cluster(<<t, raw>>, occs), occs)}
           seen == [k \in Keys |-> IF k[1] = t THEN occs[k] ELSE s.seen[k]]
           asked == s.asked \cup {<<t, raw>> : raw \in new}
           checked == IF met # {} \/ Under(t, occs) = {} THEN s.checked \cup {t} ELSE s.checked
           next == [s EXCEPT !.chunk = @ \ {t}, !.seen = seen, !.asked = asked, !.checked = checked]
<1>3. Continue(r, answer, AfterRead(next), Finalize(s))
  BY <1>2
<1>4. t \in Titles /\ answer \in Answers
  BY <1>1 DEF Orderly, Memory, ReadAnswers
<1>5. seen \in [Keys -> OccDoc] /\ \A k \in Keys : Earned(seen[k], judged)
  <2> HIDE DEF s
  <2> QED BY <1>1 DEF IInv, Stored, Orderly, Memory, Honest
<1>6. asked \in SUBSET Clusters
  <2>1. new \subseteq RawTitles
    OBVIOUS
  <2> HIDE DEF s, new
  <2> QED BY <1>1, <1>4, <2>1 DEF Orderly, Memory, Clusters
<1>7. checked \in {s.checked, s.checked \cup {t}}
  OBVIOUS
<1> HIDE DEF s, seen, asked, checked
<1>8. Orderly(AfterRead(next)) /\ Honest(AfterRead(next), judged)
  BY <1>1, <1>5, <1>6, <1>7, ListedSound
<1>9. Orderly(Finalize(s)) /\ Honest(Finalize(s), judged)
  BY <1>1, FinalizeSound
<1>10. UNCHANGED <<catalog, proposals, judged>>
  BY DEF ReadTitle
<1> HIDE DEF next
<1>11. Remembered' /\ failures' \in 0 .. MaxFailures
  BY <1>3, <1>4, <1>8, <1>9, <1>10, Continued DEF IInv, Bounded
<1> QED BY <1>10, <1>11, QuietStored DEF IInv, Bounded

(* A whole answer stamps, and proposes for, what was asked about; a match   *)
(* that counts is judged.                                                   *)
LEMMA AskAiSound ==
    ASSUME IInv, NEW r \in Runs, AskAi(r)
    PROVE  IInv'
<1> DEFINE s == run[r]
<1>1. Orderly(s) /\ Honest(s, judged) /\ s.pc = "ask"
  BY DEF IInv, Remembered, AskAi
<1>2. PICK answer \in AiAnswers(s.asked), rejected \in SUBSET s.asked :
          LET right == {c \in s.asked : "match" \in answer[c]} \ rejected IN
          IF WellFormed(answer)
          THEN /\ run' = [run EXCEPT ![r] = [s EXCEPT
                     !.pc = "act", !.wrong = s.asked \ right,
                     !.stamps = {k \in Keys : \E c \in right :
                                    k[1] = c[1] /\ k[2] \in Cluster(c, s.seen)}]]
               /\ judged' = judged \cup {c \in right : answer[c] = {"match"}}
          ELSE /\ run' = [run EXCEPT ![r] = [s EXCEPT !.pc = "logs", !.work = {}, !.checked = {}]]
               /\ UNCHANGED judged
  BY DEF AskAi
<1> DEFINE right == {c \in s.asked : "match" \in answer[c]} \ rejected
           stamps == {k \in Keys : \E c \in right : k[1] = c[1] /\ k[2] \in Cluster(c, s.seen)}
           next == [s EXCEPT !.pc = "act", !.wrong = s.asked \ right, !.stamps = stamps]
           stop == [s EXCEPT !.pc = "logs", !.work = {}, !.checked = {}]
<1>3. UNCHANGED <<catalog, proposals, failures>>
  BY DEF AskAi
<1>4. s.asked \subseteq Clusters /\ right \subseteq s.asked /\ s.seen \in [Keys -> OccDoc]
  BY <1>1 DEF Orderly, Memory
<1>5. CASE WellFormed(answer)
  <2>1. run' = [run EXCEPT ![r] = next] /\ judged' = judged \cup {c \in right : answer[c] = {"match"}}
    BY <1>2, <1>5
  <2>2. DOMAIN answer = s.asked
    BY DEF AiAnswers
  <2>3. \A c \in right : answer[c] = {"match"}
    BY <1>4, <1>5, <2>2 DEF WellFormed
  <2>4. right \subseteq judged' /\ judged \subseteq judged' /\ judged' \subseteq Clusters
    BY <1>4, <2>1, <2>3 DEF IInv, Stored
  <2>5. ASSUME NEW k \in stamps
        PROVE  /\ k \in Keys /\ s.seen[k] # NoOcc
               /\ \E t \in Titles : <<t, s.seen[k].raw>> \in judged'
    <3>1. PICK c \in right : k[1] = c[1] /\ k[2] \in Cluster(c, s.seen)
      OBVIOUS
    <3>2. k \in Keys /\ c \in Clusters
      BY <1>4
    <3>3. k = <<k[1], k[2]>> /\ c = <<c[1], c[2]>> /\ c[1] \in Titles
      BY <3>2 DEF Keys, Clusters
    <3>4. s.seen[k] # NoOcc /\ s.seen[k].raw = c[2]
      BY <3>1, <3>3 DEF Cluster, Under
    <3>5. c \in judged'
      BY <2>4
    <3> QED BY <3>2, <3>3, <3>4, <3>5
  <2> HIDE DEF s, right, stamps
  <2>6. next \in Memory
    <3>1. stamps \in SUBSET Keys /\ s.asked \ right \in SUBSET Clusters
      BY <1>4, <2>5
    <3> QED BY <1>1, <3>1 DEF Orderly, Memory
  <2>7. Orderly(next)
    BY <1>1, <2>5, <2>6 DEF Orderly, Memory
  <2>8. Honest(s, judged')
    BY <1>1, <2>4, HonestGrows
  <2>9. Honest(next, judged')
    BY <1>1, <2>5, <2>8 DEF Orderly, Memory, Honest
  <2> HIDE DEF next
  <2>10. Remembered'
    BY <2>1, <2>4, <2>7, <2>9, RunWritten DEF IInv
  <2>11. Stored'
    BY <1>3, <2>4 DEF IInv, Stored, Earned, catalog
  <2> QED BY <1>3, <2>10, <2>11 DEF IInv, Bounded
<1>6. CASE ~WellFormed(answer)
  <2>1. run' = [run EXCEPT ![r] = stop] /\ judged' = judged
    BY <1>2, <1>6
  <2>2. Orderly(stop) /\ Honest(stop, judged)
    <3> HIDE DEF s
    <3>1. stop \in Memory
      BY <1>1 DEF Orderly, Memory
    <3>2. Orderly(stop)
      BY <1>1, <3>1 DEF Orderly, Memory
    <3>3. Honest(stop, judged)
      BY <1>1 DEF Orderly, Memory, Honest
    <3> QED BY <3>2, <3>3
  <2> HIDE DEF stop
  <2>3. Remembered'
    BY <2>1, <2>2, RunWritten DEF IInv
  <2> QED BY <1>3, <2>1, <2>3, QuietStored DEF IInv, Bounded
<1> QED BY <1>5, <1>6

LEMMA ActedSound ==
    ASSUME NEW s, NEW J, Orderly(s), Honest(s, J), s.pc = "act",
           NEW stamps \in SUBSET s.stamps, NEW wrong \in SUBSET s.wrong
    PROVE  LET next == [s EXCEPT !.stamps = stamps, !.wrong = wrong]
           IN Orderly(Acted(next)) /\ Honest(Acted(next), J)
<1> DEFINE next == [s EXCEPT !.stamps = stamps, !.wrong = wrong]
<1>0. stamps \in SUBSET Keys /\ wrong \in SUBSET Clusters
  BY DEF Orderly, Memory
<1>1. next \in Memory /\ next.pc = "act"
  BY <1>0 DEF Orderly, Memory
<1>2. Orderly(next)
  BY <1>1 DEF Orderly, Memory
<1>3. Honest(next, J)
  BY DEF Orderly, Memory, Honest
<1> HIDE DEF next
<1>4. ASSUME next.stamps = {}
      PROVE  Orderly([next EXCEPT !.pc = "logs"]) /\ Honest([next EXCEPT !.pc = "logs"], J)
  <2> DEFINE end == [next EXCEPT !.pc = "logs"]
  <2>1. end \in Memory
    BY <1>1 DEF Memory
  <2>2. Orderly(end)
    <3>1. /\ end.pc = "logs" /\ end.left = next.left /\ end.pendT = next.pendT
          /\ end.leftO = next.leftO /\ end.pendO = next.pendO
          /\ end.sTitles = next.sTitles /\ end.sOccs = next.sOccs
          /\ end.work = next.work /\ end.chunk = next.chunk /\ end.checked = next.checked
          /\ end.shown = next.shown /\ end.stamps = next.stamps /\ end.seen = next.seen
      BY <1>1 DEF Memory
    <3> HIDE DEF end
    <3> QED BY <1>1, <1>2, <1>4, <2>1, <3>1 DEF Orderly
  <2>3. Honest(end, J)
    BY <1>1, <1>3 DEF Memory, Honest
  <2> QED BY <2>2, <2>3
<1>5. Orderly(Acted(next)) /\ Honest(Acted(next), J)
  BY <1>2, <1>3, <1>4 DEF Acted
<1> QED BY <1>5 DEF next

LEMMA WriteStampSound ==
    ASSUME IInv, NEW r \in Runs, WriteStamp(r)
    PROVE  IInv'
<1> DEFINE s == run[r]
<1>1. Orderly(s) /\ Honest(s, judged) /\ s.pc = "act"
  BY DEF IInv, Remembered, WriteStamp
<1>2. PICK k \in s.stamps, answer \in Answers :
          /\ UpsertOccurrence(answer, k, [s.seen[k] EXCEPT !.stamp = TRUE])
          /\ Continue(r, answer, Acted([s EXCEPT !.stamps = @ \ {k}]), Finalize(s))
  BY DEF WriteStamp
<1> DEFINE doc == [s.seen[k] EXCEPT !.stamp = TRUE]
           next == [s EXCEPT !.stamps = s.stamps \ {k}, !.wrong = s.wrong]
<1>3. k \in Keys /\ s.seen[k] \in OccDoc \ {NoOcc}
  BY <1>1 DEF Orderly, Memory
<1>4. doc \in OccDoc \ {NoOcc} /\ doc.raw = s.seen[k].raw
  <2>1. s.seen[k] \in [raw : RawTitles, stamp : BOOLEAN]
    BY <1>3 DEF OccDoc
  <2> HIDE DEF s
  <2> QED BY <2>1, RecordsAssumption DEF OccDoc, NoOcc
<1>5. Earned(doc, judged)
  BY <1>1, <1>4 DEF Honest, Earned
<1>6. UNCHANGED <<titles, proposals, judged>>
  BY DEF WriteStamp
<1>7. UpsertOccurrence(answer, k, doc)
  BY <1>2
<1>8. Stored'
  <2> HIDE DEF doc
  <2> QED BY <1>3, <1>4, <1>5, <1>6, <1>7, OccurrenceStored DEF IInv
<1>9. next = [s EXCEPT !.stamps = @ \ {k}]
  <2> HIDE DEF s
  <2> QED BY <1>1 DEF Orderly, Memory
<1>10. Orderly(Acted(next)) /\ Honest(Acted(next), judged)
  BY <1>1, ActedSound
<1>11. Orderly(Finalize(s)) /\ Honest(Finalize(s), judged)
  BY <1>1, FinalizeSound
<1>12. Continue(r, answer, Acted(next), Finalize(s))
  BY <1>2, <1>9
<1> HIDE DEF next
<1>13. Remembered' /\ failures' \in 0 .. MaxFailures
  BY <1>6, <1>10, <1>11, <1>12, Continued DEF IInv, Bounded
<1> QED BY <1>6, <1>8, <1>13 DEF IInv, Bounded

LEMMA WriteProposalSound ==
    ASSUME IInv, NEW r \in Runs, WriteProposal(r)
    PROVE  IInv'
<1> DEFINE s == run[r]
<1>1. Orderly(s) /\ Honest(s, judged) /\ s.pc = "act"
  BY DEF IInv, Remembered, WriteProposal
<1>2. PICK c \in s.wrong, answer \in Answers :
        Continue(r, answer, Acted([s EXCEPT !.wrong = @ \ {c}]), Finalize(s))
  BY DEF WriteProposal
<1> DEFINE next == [s EXCEPT !.stamps = s.stamps, !.wrong = s.wrong \ {c}]
<1>3. next = [s EXCEPT !.wrong = @ \ {c}]
  <2> HIDE DEF s
  <2> QED BY <1>1 DEF Orderly, Memory
<1>4. Orderly(Acted(next)) /\ Honest(Acted(next), judged)
  BY <1>1, ActedSound
<1>5. Orderly(Finalize(s)) /\ Honest(Finalize(s), judged)
  BY <1>1, FinalizeSound
<1>6. Continue(r, answer, Acted(next), Finalize(s))
  BY <1>2, <1>3
<1>7. UNCHANGED <<catalog, judged>>
  BY DEF WriteProposal
<1> HIDE DEF next
<1>8. Remembered' /\ failures' \in 0 .. MaxFailures
  BY <1>4, <1>5, <1>6, <1>7, Continued DEF IInv, Bounded
<1>9. proposals' \subseteq Proposals
  BY DEF WriteProposal, IInv, Bounded
<1> QED BY <1>7, <1>8, <1>9, QuietStored DEF IInv, Bounded

(* From one step of a batch to the next, with nothing else of the memory    *)
(* that matters.                                                            *)
LEMMA PassedOn ==
    ASSUME NEW s, NEW J, Orderly(s), Honest(s, J), s.pc \in {"logs", "check", "flag"},
           NEW checked \in SUBSET s.checked
    PROVE  /\ Orderly([s EXCEPT !.pc = "check"]) /\ Honest([s EXCEPT !.pc = "check"], J)
           /\ s.pc = "check" =>
                 /\ Orderly([s EXCEPT !.checked = checked])
                 /\ Honest([s EXCEPT !.checked = checked], J)
           /\ \A t \in s.checked :
                 LET next == [[s EXCEPT !.checked = checked] EXCEPT !.pc = "flag", !.title = t]
                 IN Orderly(next) /\ Honest(next, J)
<1>0. s \in Memory /\ checked \in SUBSET Titles
  BY DEF Orderly, Memory
<1>1. Orderly([s EXCEPT !.pc = "check"]) /\ Honest([s EXCEPT !.pc = "check"], J)
  BY DEF Orderly, Memory, Honest
<1>2. ASSUME s.pc = "check"
      PROVE  /\ Orderly([s EXCEPT !.checked = checked])
             /\ Honest([s EXCEPT !.checked = checked], J)
  <2> DEFINE next == [s EXCEPT !.checked = checked]
  <2>1. next \in Memory
    BY <1>0 DEF Memory
  <2>2. Orderly(next)
    BY <1>0, <1>2, <2>1 DEF Orderly, Memory
  <2>3. Honest(next, J)
    BY <1>0 DEF Memory, Honest
  <2> QED BY <2>2, <2>3
<1>3. ASSUME NEW t \in s.checked
      PROVE  LET next == [[s EXCEPT !.checked = checked] EXCEPT !.pc = "flag", !.title = t]
             IN Orderly(next) /\ Honest(next, J)
  <2> DEFINE next == [[s EXCEPT !.checked = checked] EXCEPT !.pc = "flag", !.title = t]
  <2>0. t \in Titles /\ s.shown[t] # NoTitle
    BY <1>0 DEF Orderly, Memory
  <2>1. next \in Memory
    BY <1>0, <2>0 DEF Memory
  <2>2. Orderly(next)
    BY <1>0, <2>0, <2>1 DEF Orderly, Memory
  <2>3. Honest(next, J)
    BY <1>0 DEF Memory, Honest
  <2> QED BY <2>2, <2>3
<1> QED BY <1>1, <1>2, <1>3

LEMMA FlushReviewLogsSound ==
    ASSUME IInv, NEW r \in Runs, FlushReviewLogs(r)
    PROVE  IInv'
<1> DEFINE s == run[r]
<1>1. Orderly(s) /\ Honest(s, judged) /\ s.pc = "logs"
  BY DEF IInv, Remembered, FlushReviewLogs
<1>2. PICK answer \in Answers : Continue(r, answer, [s EXCEPT !.pc = "check"], Finalize(s))
  BY DEF FlushReviewLogs
<1>3. Orderly([s EXCEPT !.pc = "check"]) /\ Honest([s EXCEPT !.pc = "check"], judged)
  BY <1>1, PassedOn
<1>4. Orderly(Finalize(s)) /\ Honest(Finalize(s), judged)
  BY <1>1, FinalizeSound
<1>5. UNCHANGED <<catalog, proposals, judged>>
  BY DEF FlushReviewLogs
<1> HIDE DEF s
<1>6. Remembered' /\ failures' \in 0 .. MaxFailures
  BY <1>2, <1>3, <1>4, <1>5, Continued DEF IInv, Bounded
<1> QED BY <1>5, <1>6, QuietStored DEF IInv, Bounded

LEMMA CheckTitleSound ==
    ASSUME IInv, NEW r \in Runs, CheckTitle(r)
    PROVE  IInv'
<1> DEFINE s == run[r]
<1>1. Orderly(s) /\ Honest(s, judged) /\ s.pc = "check"
  BY DEF IInv, Remembered, CheckTitle
<1>2. PICK t \in s.checked, answer \in ReadAnswers :
          LET rest == [s EXCEPT !.checked = @ \ {t}]
              all == Under(t, occs)
          IN
          Continue(r, answer,
                   IF all # {} /\ AllStamped(t, all, occs)
                   THEN [rest EXCEPT !.pc = "flag", !.title = t] ELSE rest,
                   Finalize(s))
  BY DEF CheckTitle
<1> DEFINE rest == [s EXCEPT !.checked = s.checked \ {t}]
           flag == [rest EXCEPT !.pc = "flag", !.title = t]
<1>3. PICK next \in {rest, flag} : Continue(r, answer, next, Finalize(s))
  BY <1>2
<1>4. s.checked \ {t} \in SUBSET s.checked
  OBVIOUS
<1>5. /\ Orderly(rest) /\ Honest(rest, judged)
      /\ Orderly(flag) /\ Honest(flag, judged)
  BY <1>1, <1>4, PassedOn
<1>6. Orderly(Finalize(s)) /\ Honest(Finalize(s), judged)
  BY <1>1, FinalizeSound
<1>7. UNCHANGED <<catalog, proposals, judged>> /\ answer \in Answers
  BY DEF CheckTitle, ReadAnswers
<1> HIDE DEF s, rest, flag
<1>8. Remembered' /\ failures' \in 0 .. MaxFailures
  BY <1>3, <1>5, <1>6, <1>7, Continued DEF IInv, Bounded
<1> QED BY <1>7, <1>8, QuietStored DEF IInv, Bounded

LEMMA FlagTitleSound ==
    ASSUME IInv, NEW r \in Runs, FlagTitle(r)
    PROVE  IInv'
<1> DEFINE s == run[r]
           doc == [s.shown[s.title] EXCEPT !.flag = "yes"]
<1>1. Orderly(s) /\ Honest(s, judged) /\ s.pc = "flag"
  BY DEF IInv, Remembered, FlagTitle
<1>2. PICK answer \in Answers :
          /\ UpsertTitle(answer, s.title, doc)
          /\ Continue(r, answer, [s EXCEPT !.pc = "check"], Finalize(s))
  BY DEF FlagTitle
<1>3. s.title \in Titles /\ s.shown[s.title] \in TitleDoc \ {NoTitle}
  BY <1>1 DEF Orderly, Memory
<1>4. doc \in TitleDoc \ {NoTitle}
  <2>1. s.shown[s.title] \in [meta : Metadata, flag : Flags]
    BY <1>3 DEF TitleDoc
  <2> HIDE DEF s
  <2> QED BY <2>1, RecordsAssumption DEF TitleDoc, NoTitle, Flags
<1>5. Orderly([s EXCEPT !.pc = "check"]) /\ Honest([s EXCEPT !.pc = "check"], judged)
  BY <1>1, PassedOn
<1>6. Orderly(Finalize(s)) /\ Honest(Finalize(s), judged)
  BY <1>1, FinalizeSound
<1>7. UNCHANGED <<occs, proposals, judged>>
  BY DEF FlagTitle
<1> HIDE DEF doc
<1>8. Stored'
  BY <1>2, <1>3, <1>4, <1>7, TitleStored DEF IInv
<1> HIDE DEF s
<1>9. Remembered' /\ failures' \in 0 .. MaxFailures
  BY <1>2, <1>5, <1>6, <1>7, Continued DEF IInv, Bounded
<1> QED BY <1>7, <1>8, <1>9 DEF IInv, Bounded

LEMMA BatchCheckedSound ==
    ASSUME IInv, NEW r \in Runs, BatchChecked(r)
    PROVE  IInv'
<1>1. /\ Orderly(run[r]) /\ Honest(run[r], judged)
      /\ run[r].pc # "act" /\ run[r].chunk = {} /\ run[r].checked = {}
  BY DEF IInv, Remembered, Orderly, BatchChecked
<1>2. Orderly(NextChunk(run[r])) /\ Honest(NextChunk(run[r]), judged)
  BY <1>1, NextChunkSound
<1>3. Remembered'
  BY <1>2, RunWritten DEF IInv, BatchChecked
<1> QED BY <1>3, QuietStored DEF IInv, Bounded, BatchChecked

-----------------------------------------------------------------------------
(* Reparsing and repairs *)

LEMMA ReparseTitleSound ==
    ASSUME IInv, NEW r \in Runs, ReparseTitle(r)
    PROVE  IInv'
<1> DEFINE s == run[r]
<1>1. Orderly(s) /\ Honest(s, judged) /\ s.pc = "reparse"
  BY DEF IInv, Remembered, ReparseTitle
<1>2. PICK i \in Retryable \ s.entries, t \in Titles, meta \in Metadata, answer \in Answers :
          LET next == [s EXCEPT !.entries = @ \cup {i}] IN
          /\ UpsertTitle(answer, t, [meta |-> meta, flag |-> "unset"])
          /\ Continue(r, answer,
                      [next EXCEPT !.pc = "reparseOcc", !.title = t, !.item = i], next)
  BY DEF ReparseTitle
<1> DEFINE doc == [meta |-> meta, flag |-> "unset"]
           next == [s EXCEPT !.entries = @ \cup {i}]
           filed == [next EXCEPT !.pc = "reparseOcc", !.title = t, !.item = i]
<1>3. UpsertTitle(answer, t, doc) /\ Continue(r, answer, filed, next)
  BY <1>2
<1>4. doc \in TitleDoc \ {NoTitle}
  BY RecordsAssumption DEF TitleDoc, NoTitle, Flags
<1>5. i \in Items
  BY AuditAssumption
<1>6. UNCHANGED <<occs, proposals, judged>>
  BY DEF ReparseTitle
<1> HIDE DEF s, doc
<1>7. Orderly(next) /\ Honest(next, judged) /\ next.pc = "reparse"
  BY <1>1, <1>5 DEF Orderly, Memory, Honest
<1> HIDE DEF next
<1>8. Orderly(filed) /\ Honest(filed, judged)
  BY <1>5, <1>7 DEF Orderly, Memory, Honest
<1> HIDE DEF filed
<1>9. Stored'
  BY <1>3, <1>4, <1>6, TitleStored DEF IInv
<1>10. Remembered' /\ failures' \in 0 .. MaxFailures
  BY <1>3, <1>6, <1>7, <1>8, Continued DEF IInv, Bounded
<1> QED BY <1>6, <1>9, <1>10 DEF IInv, Bounded

LEMMA ReparseOccurrenceSound ==
    ASSUME IInv, NEW r \in Runs, ReparseOccurrence(r)
    PROVE  IInv'
<1> DEFINE s == run[r]
           next == [s EXCEPT !.pc = "reparse"]
<1>1. Orderly(s) /\ Honest(s, judged) /\ s.pc = "reparseOcc"
  BY DEF IInv, Remembered, ReparseOccurrence
<1>2. PICK raw \in RawTitles, answer \in Answers :
          /\ UpsertOccurrence(answer, <<s.title, s.item>>, [raw |-> raw, stamp |-> FALSE])
          /\ Continue(r, answer, next, next)
  BY DEF ReparseOccurrence
<1> DEFINE doc == [raw |-> raw, stamp |-> FALSE]
<1>3. doc \in OccDoc \ {NoOcc} /\ Earned(doc, judged)
  BY RecordsAssumption DEF OccDoc, NoOcc, Earned
<1>4. <<s.title, s.item>> \in Keys
  BY <1>1 DEF Orderly, Keys
<1>5. UNCHANGED <<titles, proposals, judged>>
  BY DEF ReparseOccurrence
<1>6. Stored'
  BY <1>2, <1>3, <1>4, <1>5, OccurrenceStored DEF IInv
<1>7. Orderly(next) /\ Honest(next, judged)
  <2> HIDE DEF s
  <2> QED BY <1>1 DEF Orderly, Memory, Honest
<1> HIDE DEF next
<1>8. Remembered' /\ failures' \in 0 .. MaxFailures
  BY <1>2, <1>5, <1>7, Continued DEF IInv, Bounded
<1> QED BY <1>5, <1>6, <1>8 DEF IInv, Bounded

(* A repair moves occurrences that are there, under the raw title they have. *)
LEMMA ApplyProposalSound ==
    ASSUME IInv, NEW r \in Runs, ApplyProposal(r)
    PROVE  IInv'
<1>1. PICK p \in proposals :
          LET source == p.cluster[1]
              moved == {<<source, i>> : i \in p.items}
              current == titles[source].meta = p.meta
                           /\ \A k \in moved : occs[k].raw = p.cluster[2]
              emptied == Under(source, occs) = p.items
          IN
          /\ proposals' = proposals \ {p}
          /\ IF ~current THEN UNCHANGED catalog
             ELSE /\ occs' = [k \in Keys |->
                        IF k \in moved THEN NoOcc
                        ELSE IF k[1] = p.target /\ k[2] \in p.items
                        THEN MergeOccurrences(occs[k], occs[<<source, k[2]>>])
                        ELSE occs[k]]
                  /\ titles' = [titles EXCEPT
                        ![p.target] = [meta |-> p.as, flag |-> "no"],
                        ![source] = IF emptied THEN NoTitle ELSE [@ EXCEPT !.flag = "no"]]
  BY DEF ApplyProposal
<1> DEFINE source == p.cluster[1]
           moved == {<<source, i>> : i \in p.items}
           current == titles[source].meta = p.meta /\ \A k \in moved : occs[k].raw = p.cluster[2]
           emptied == Under(source, occs) = p.items
<1>2. UNCHANGED <<run, failures, judged>>
  BY DEF ApplyProposal
<1>3. /\ p.meta \in Metadata /\ p.as \in Metadata /\ p.target \in Titles
      /\ p.items \subseteq Items /\ source \in Titles /\ p.cluster[2] \in RawTitles
  BY DEF IInv, Bounded, Proposals, Clusters
<1>4. Remembered' /\ Bounded'
  <2>1. proposals' \subseteq Proposals /\ failures' \in 0 .. MaxFailures
    BY <1>1, <1>2 DEF IInv, Bounded
  <2> QED BY <1>2, <2>1 DEF IInv, Remembered, Bounded, Orderly, Honest, Earned
<1>5. CASE ~current
  BY <1>1, <1>2, <1>4, <1>5, QuietStored DEF IInv
<1>6. CASE current
  <2>1. /\ occs' = [k \in Keys |->
              IF k \in moved THEN NoOcc
              ELSE IF k[1] = p.target /\ k[2] \in p.items
              THEN MergeOccurrences(occs[k], occs[<<source, k[2]>>])
              ELSE occs[k]]
        /\ titles' = [titles EXCEPT
              ![p.target] = [meta |-> p.as, flag |-> "no"],
              ![source] = IF emptied THEN NoTitle ELSE [@ EXCEPT !.flag = "no"]]
    BY <1>1, <1>6
  <2>2. titles' \in [Titles -> TitleDoc]
    <3>1. titles \in [Titles -> TitleDoc] /\ titles[source] \in TitleDoc
      BY <1>3 DEF IInv, Stored
    <3>2. titles[source] # NoTitle
      BY <1>3, <1>6, RecordsAssumption DEF NoTitle
    <3>3. [titles[source] EXCEPT !.flag = "no"] \in TitleDoc
      BY <3>1, <3>2 DEF TitleDoc, Flags
    <3>4. [meta |-> p.as, flag |-> "no"] \in TitleDoc
      BY <1>3 DEF TitleDoc, Flags
    <3>5. [[meta |-> p.as, flag |-> "no"] EXCEPT !.flag = "no"] \in TitleDoc
      BY <1>3 DEF TitleDoc, Flags
    <3>6. NoTitle \in TitleDoc
      BY DEF TitleDoc
    <3> HIDE DEF source, emptied
    <3>7. CASE source = p.target
      BY <1>3, <2>1, <3>1, <3>5, <3>6, <3>7
    <3>8. CASE source # p.target
      BY <1>3, <2>1, <3>1, <3>3, <3>4, <3>6, <3>8
    <3> QED BY <3>7, <3>8
  <2>3. ASSUME NEW k \in Keys PROVE occs'[k] \in OccDoc /\ Earned(occs'[k], judged)
    <3>1. occs[k] \in OccDoc /\ Earned(occs[k], judged)
      BY DEF IInv, Stored
    <3>2. CASE k \in moved
      BY <2>1, <3>2 DEF OccDoc, Earned, NoOcc
    <3>3. CASE k \notin moved /\ k[1] = p.target /\ k[2] \in p.items
      <4> DEFINE old == <<source, k[2]>>
      <4>1. old \in Keys /\ old \in moved
        BY <1>3, <3>3 DEF Keys
      <4>2. occs[old] \in OccDoc /\ Earned(occs[old], judged)
        BY <4>1 DEF IInv, Stored
      <4>3. occs[old].raw \in RawTitles
        BY <1>3, <1>6, <4>1
      <4>4. occs[old] # NoOcc
        BY <4>3, RecordsAssumption DEF NoOcc
      <4>5. occs'[k] = MergeOccurrences(occs[k], occs[old])
        BY <2>1, <3>3
      <4> QED BY <3>1, <4>2, <4>4, <4>5, Merged
    <3>4. CASE k \notin moved /\ ~(k[1] = p.target /\ k[2] \in p.items)
      BY <2>1, <3>1, <3>4
    <3> QED BY <3>2, <3>3, <3>4
  <2>4. occs' \in [Keys -> OccDoc]
    BY <2>1, <2>3
  <2>5. judged' = judged
    BY <1>2
  <2>6. Stored'
    BY <2>2, <2>3, <2>4, <2>5 DEF IInv, Stored, Earned
  <2> QED BY <1>4, <2>6 DEF IInv
<1> QED BY <1>5, <1>6

-----------------------------------------------------------------------------
(* Every step *)

LEMMA StepSound == IInv /\ [Next]_vars => IInv'
<1> SUFFICES ASSUME IInv, [Next]_vars PROVE IInv'
  OBVIOUS
<1>1. CASE UNCHANGED vars
  BY <1>1 DEF vars, IInv, Stored, Remembered, Bounded, Earned, Orderly, Honest
<1>2. ASSUME NEW r \in Runs, NEW mode \in Modes, StartRun(r, mode) PROVE IInv'
  BY <1>2, StartSound
<1>3. ASSUME NEW r \in Runs, RssStep(r) PROVE IInv'
  BY <1>3, StageEntrySound, StageHalfSound, EndFeedSound DEF RssStep
<1>4. ASSUME NEW r \in Runs, FlushStep(r) PROVE IInv'
  BY <1>4, FlushTitleSound, FlushOccurrenceSound, EndFlushSound DEF FlushStep
<1>5. ASSUME NEW r \in Runs, AuditStep(r) PROVE IInv'
  BY <1>5, ListTitlesSound, NextBatchSound, ReadTitleSound, AskAiSound, WriteStampSound,
     WriteProposalSound, FlushReviewLogsSound, CheckTitleSound, FlagTitleSound,
     BatchCheckedSound DEF AuditStep
<1>6. ASSUME NEW r \in Runs, ReparseTitle(r) \/ ReparseOccurrence(r) \/ ApplyProposal(r) PROVE IInv'
  BY <1>6, ReparseTitleSound, ReparseOccurrenceSound, ApplyProposalSound
<1>7. ASSUME NEW r \in Runs, EndPhase(r) \/ Crash(r) PROVE IInv'
  BY <1>7, EndPhaseSound, CrashSound
<1> QED BY <1>1, <1>2, <1>3, <1>4, <1>5, <1>6, <1>7 DEF Next

LEMMA Invariance == Spec => []IInv
<1> QED BY InitSound, StepSound, PTL DEF Spec

(* What a run has pending was staged whole, what it works on it has listed, *)
(* and what the catalogue holds is of its kind: with any number of runs at  *)
(* a time.                                                                  *)
THEOREM TypeCorrect == Spec => []TypeOK
<1>1. IInv => TypeOK
  BY DEF IInv, Stored, Remembered, Bounded, Orderly, TypeOK
<1> QED BY <1>1, Invariance, PTL

(* An occurrence is stamped only when a whole and sure answer of the AI has *)
(* found its raw title, as it now is, right for a title: whatever scans     *)
(* stage over it, audits write late, repairs move and merge, and wherever   *)
(* runs stop; runs at the same time or not.                                 *)
THEOREM StampsAlwaysEarned == Spec => []StampsAreEarned
<1>1. IInv => StampsAreEarned
  BY DEF IInv, Stored, Earned, StampsAreEarned
<1> QED BY <1>1, Invariance, PTL

-----------------------------------------------------------------------------
(* One run at a time *)

(* What a batch has listed is still there. *)
Present(s, O) ==
    s.pc \in {"chunk", "read", "ask", "act"} => \A k \in Keys : s.seen[k] # NoOcc => O[k] # NoOcc

Solo == \A q, r \in Runs : Active(q) /\ Active(r) => q = r

Alone ==
    /\ Solo
    /\ \A r \in Runs : Present(run[r], occs)

(* No document goes. *)
Grows == \A k \in Keys : occs[k] # NoOcc => occs'[k] # NoOcc

(* A new document comes of what a run flushes or files. *)
Filed(r) == \A k \in Keys : occs[k] = NoOcc /\ occs'[k] # NoOcc => run[r].pc \in {"flush", "reparseOcc", "apply"}

(* A step of a run that is under way, and of no other. *)
Steady(r) ==
    /\ Active(r)
    /\ \A q \in Runs \ {r} : run'[q] = run[q]
    /\ Grows /\ Filed(r)
    /\ Present(run'[r], occs')

(* A run between two batches lists nothing. *)
LEMMA Between ==
    ASSUME NEW s \in Memory, NEW O
    PROVE  /\ Present(Finalize(s), O)
           /\ Present(AfterFlush(s), O)
           /\ Present(FlushFailed(s), O)
           /\ Present(Flush(s), O)
<1>1. Finalize(s).pc \in {"done", "flush"}
  BY DEF Finalize, Flush, Blank
<1>2. Flush(s).pc = "flush"
  BY DEF Flush, Memory
<1>3. [s EXCEPT !.pc = "list", !.entries = {}].pc = "list"
      /\ [s EXCEPT !.pc = "list", !.entries = s.entries].pc = "list"
  BY DEF Memory
<1>4. AfterFlush(s).pc \in {"done", "flush", "list"}
  BY <1>1, <1>3 DEF AfterFlush, Blank
<1>5. FlushFailed(s).pc \in {"done", "flush", "list", "dead"}
  BY <1>4 DEF FlushFailed, Blank
<1> QED BY <1>1, <1>2, <1>4, <1>5 DEF Present

LEMMA NextChunkPresent ==
    ASSUME NEW s \in Memory, NEW O
    PROVE  Present(NextChunk(s), O)
<1>1. Present(Finalize(s), O)
  BY Between
<1>2. [s EXCEPT !.pc = "reparse"].pc = "reparse"
  BY DEF Memory
<1>3. Present(AfterAudit(s), O)
  BY <1>1, <1>2 DEF AfterAudit, Present
<1> DEFINE next == [s EXCEPT !.pc = "chunk", !.seen = [k \in Keys |-> NoOcc], !.asked = {}, !.title = "none"]
<1>4. \A k \in Keys : next.seen[k] = NoOcc
  BY DEF Memory
<1> HIDE DEF next
<1>5. Present(next, O)
  BY <1>4 DEF Present
<1> QED BY <1>3, <1>5 DEF NextChunk, next

(* A document is written over, and never away. *)
LEMMA WriteGrows ==
    ASSUME Stored, NEW answer, NEW k \in Keys, NEW doc \in OccDoc \ {NoOcc}, UpsertOccurrence(answer, k, doc)
    PROVE  Grows /\ \A j \in Keys \ {k} : occs'[j] = occs[j]
<1>1. \A old \in OccDoc : MergeOccurrences(old, doc) # NoOcc
  <2>1. doc.raw \in RawTitles
    BY DEF OccDoc, NoOcc
  <2> QED BY <2>1, RecordsAssumption DEF MergeOccurrences, NoOcc
<1>2. CASE occs' = occs
  BY <1>2 DEF Grows
<1>3. CASE occs' = [occs EXCEPT ![k] = MergeOccurrences(@, doc)]
  BY <1>1, <1>3 DEF Stored, Grows
<1> QED BY <1>2, <1>3 DEF UpsertOccurrence

LEMMA QuietGrows ==
    ASSUME occs' = occs, NEW r
    PROVE  Grows /\ Filed(r)
  BY DEF Grows, Filed

LEMMA ContinuedApart ==
    ASSUME Remembered, NEW r \in Runs, NEW answer, NEW ok, NEW failed, Continue(r, answer, ok, failed),
           Present(ok, occs'), Present(failed, occs')
    PROVE  (\A q \in Runs \ {r} : run'[q] = run[q]) /\ Present(run'[r], occs')
  BY DEF Continue, Remembered

LEMMA WrittenApart ==
    ASSUME Remembered, NEW r \in Runs, NEW m, run' = [run EXCEPT ![r] = m], Present(m, occs')
    PROVE  (\A q \in Runs \ {r} : run'[q] = run[q]) /\ Present(run'[r], occs')
  BY DEF Remembered

LEMMA RssSteady ==
    ASSUME IInv, NEW r \in Runs, RssStep(r)
    PROVE  Steady(r)
<1> DEFINE s == run[r]
<1>1. occs' = occs /\ s.pc = "rss" /\ s \in Memory /\ Remembered
  BY DEF RssStep, StageEntry, StageHalf, EndFeed, catalog, IInv, Remembered
<1>2. Grows /\ Filed(r) /\ Active(r)
  BY <1>1, QuietGrows DEF Active
<1>3. CASE EndFeed(r)
  <2>1. run' = [run EXCEPT ![r] = Flush(s)] /\ Present(Flush(s), occs')
    BY <1>1, <1>3, Between DEF EndFeed
  <2> QED BY <1>1, <1>2, <2>1, WrittenApart DEF Steady
<1>4. ASSUME NEW t \in Titles, NEW i \in Items, NEW meta \in Metadata,
             StageHalf(r, t, i, meta) \/ \E raw \in RawTitles : StageEntry(r, t, i, raw, meta)
      PROVE  Steady(r)
  <2>1. \E m : run' = [run EXCEPT ![r] = m] /\ m.pc = "rss"
    <3>1. CASE StageHalf(r, t, i, meta)
      <4> DEFINE title == MergeTitles(TitleRead(s, t), [meta |-> meta, flag |-> "unset"])
                 m == [s EXCEPT !.entries = @ \cup {i}, !.sTitles[t] = title, !.pendT = @ \cup {t}]
      <4>1. run' = [run EXCEPT ![r] = m]
        BY <3>1 DEF StageHalf
      <4> HIDE DEF s, title
      <4>2. m.pc = "rss"
        BY <1>1 DEF Memory
      <4> QED BY <4>1, <4>2
    <3>2. ASSUME NEW raw \in RawTitles, StageEntry(r, t, i, raw, meta)
          PROVE  \E m : run' = [run EXCEPT ![r] = m] /\ m.pc = "rss"
      <4> DEFINE pair == StagedPair(TitleRead(s, t), OccRead(s, <<t, i>>),
                           [meta |-> meta, flag |-> "unset"], [raw |-> raw, stamp |-> FALSE])
                 m == [s EXCEPT !.entries = @ \cup {i},
                        !.sTitles[t] = pair.title, !.pendT = @ \cup {t},
                        !.sOccs[<<t, i>>] = pair.occ, !.pendO = @ \cup {<<t, i>>}]
      <4>1. run' = [run EXCEPT ![r] = m]
        BY <3>2 DEF StageEntry
      <4> HIDE DEF s, pair
      <4>2. m.pc = "rss"
        BY <1>1 DEF Memory
      <4> QED BY <4>1, <4>2
    <3> QED BY <1>4, <3>1, <3>2
  <2>2. (\A q \in Runs \ {r} : run'[q] = run[q]) /\ run'[r].pc = "rss"
    BY <1>1, <2>1 DEF Remembered
  <2> QED BY <1>2, <2>2 DEF Steady, Present
<1> QED BY <1>3, <1>4 DEF RssStep

LEMMA FlushSteady ==
    ASSUME IInv, NEW r \in Runs, FlushStep(r)
    PROVE  Steady(r)
<1> DEFINE s == run[r]
<1>1. s.pc = "flush" /\ s \in Memory /\ Remembered /\ Stored /\ Orderly(s)
  BY DEF FlushStep, FlushTitle, FlushOccurrence, EndFlush, IInv, Remembered
<1>2. Active(r) /\ Filed(r)
  BY <1>1 DEF Active, Filed
<1>3. Present(AfterFlush(s), occs') /\ Present(FlushFailed(s), occs')
  BY <1>1, Between
<1>4. CASE FlushTitle(r)
  <2>1. occs' = occs
    BY <1>4 DEF FlushTitle
  <2>2. PICK t \in s.left, answer \in Answers :
          Continue(r, answer,
                   [s EXCEPT !.left = @ \ {t}, !.pendT = IF s.left = {t} THEN {} ELSE @],
                   FlushFailed(s))
    BY <1>4 DEF FlushTitle
  <2>3. [s EXCEPT !.left = @ \ {t}, !.pendT = IF s.left = {t} THEN {} ELSE @].pc = "flush"
    BY <1>1 DEF Memory
  <2>4. Present([s EXCEPT !.left = @ \ {t}, !.pendT = IF s.left = {t} THEN {} ELSE @], occs')
    BY <2>3 DEF Present
  <2> QED BY <1>1, <1>2, <1>3, <2>1, <2>2, <2>4, QuietGrows, ContinuedApart DEF Steady
<1>5. CASE FlushOccurrence(r)
  <2>1. PICK k \in s.leftO, answer \in Answers :
          /\ UpsertOccurrence(answer, k, s.sOccs[k])
          /\ Continue(r, answer,
                      [s EXCEPT !.leftO = @ \ {k}, !.pendO = IF s.leftO = {k} THEN {} ELSE @],
                      FlushFailed(s))
    BY <1>5 DEF FlushOccurrence
  <2>2. k \in Keys /\ s.sOccs[k] \in OccDoc \ {NoOcc}
    BY <1>1 DEF Orderly, Memory
  <2>3. Grows
    BY <1>1, <2>1, <2>2, WriteGrows
  <2>4. [s EXCEPT !.leftO = @ \ {k}, !.pendO = IF s.leftO = {k} THEN {} ELSE @].pc = "flush"
    BY <1>1 DEF Memory
  <2>5. Present([s EXCEPT !.leftO = @ \ {k}, !.pendO = IF s.leftO = {k} THEN {} ELSE @], occs')
    BY <2>4 DEF Present
  <2> QED BY <1>1, <1>2, <1>3, <2>1, <2>3, <2>5, ContinuedApart DEF Steady
<1>6. CASE EndFlush(r)
  <2>1. occs' = occs /\ run' = [run EXCEPT ![r] = AfterFlush(s)]
    BY <1>6 DEF EndFlush, catalog
  <2> QED BY <1>1, <1>2, <1>3, <2>1, QuietGrows, WrittenApart DEF Steady
<1> QED BY <1>4, <1>5, <1>6 DEF FlushStep

LEMMA ReparseSteady ==
    ASSUME IInv, NEW r \in Runs, ReparseTitle(r) \/ ReparseOccurrence(r) \/ EndPhase(r)
    PROVE  Steady(r)
<1> DEFINE s == run[r]
<1>1. s.pc \in {"reparse", "reparseOcc", "apply"} /\ s \in Memory /\ Remembered /\ Stored /\ Orderly(s)
  BY DEF ReparseTitle, ReparseOccurrence, EndPhase, IInv, Remembered
<1>2. Active(r)
  BY <1>1 DEF Active
<1>3. CASE ReparseTitle(r)
  <2>1. occs' = occs
    BY <1>3 DEF ReparseTitle
  <2>2. (\A q \in Runs \ {r} : run'[q] = run[q]) /\ run'[r].pc \in {"reparse", "reparseOcc"}
    <3>1. PICK i \in Items, t \in Titles, answer \in Answers :
            LET next == [s EXCEPT !.entries = @ \cup {i}] IN
            Continue(r, answer, [next EXCEPT !.pc = "reparseOcc", !.title = t, !.item = i], next)
      BY <1>3, AuditAssumption DEF ReparseTitle
    <3> DEFINE next == [s EXCEPT !.entries = @ \cup {i}]
               filed == [next EXCEPT !.pc = "reparseOcc", !.title = t, !.item = i]
    <3>2. Continue(r, answer, filed, next) /\ s.pc = "reparse"
      BY <1>3, <3>1 DEF ReparseTitle
    <3> HIDE DEF s
    <3>3. next.pc = "reparse" /\ filed.pc = "reparseOcc"
      BY <1>1, <3>2 DEF Memory
    <3> HIDE DEF next, filed
    <3> QED BY <1>1, <3>2, <3>3 DEF Continue, Remembered
  <2> QED BY <1>2, <2>1, <2>2, QuietGrows DEF Steady, Present
<1>4. CASE ReparseOccurrence(r)
  <2>1. s.pc = "reparseOcc"
    BY <1>4 DEF ReparseOccurrence
  <2>2. PICK raw \in RawTitles, answer \in Answers :
          /\ UpsertOccurrence(answer, <<s.title, s.item>>, [raw |-> raw, stamp |-> FALSE])
          /\ Continue(r, answer, [s EXCEPT !.pc = "reparse"], [s EXCEPT !.pc = "reparse"])
    BY <1>4 DEF ReparseOccurrence
  <2>3. <<s.title, s.item>> \in Keys
    BY <1>1, <2>1 DEF Orderly, Keys
  <2>4. [raw |-> raw, stamp |-> FALSE] \in OccDoc \ {NoOcc}
    BY RecordsAssumption DEF OccDoc, NoOcc
  <2>5. Grows
    BY <1>1, <2>2, <2>3, <2>4, WriteGrows
  <2>6. (\A q \in Runs \ {r} : run'[q] = run[q]) /\ run'[r].pc = "reparse"
    BY <1>1, <2>2 DEF Continue, Remembered, Memory
  <2> QED BY <1>2, <2>1, <2>5, <2>6 DEF Steady, Present, Filed
<1>5. CASE EndPhase(r)
  <2>1. occs' = occs /\ run' = [run EXCEPT ![r] = Finalize(s)] /\ Present(Finalize(s), occs')
    BY <1>1, <1>5, Between DEF EndPhase, catalog
  <2> QED BY <1>1, <1>2, <2>1, QuietGrows, WrittenApart DEF Steady
<1> QED BY <1>3, <1>4, <1>5

(* An audit that is alone stamps what is there. *)
LEMMA AuditSteady ==
    ASSUME IInv, NEW r \in Runs, Present(run[r], occs), AuditStep(r)
    PROVE  Steady(r)
<1> DEFINE s == run[r]
<1>1. s \in Memory /\ Remembered /\ Stored /\ Orderly(s)
  BY DEF IInv, Remembered
<1>2. Active(r)
  BY DEF Active, AuditStep, ListTitles, NextBatch, ReadTitle, AskAi, WriteStamp, WriteProposal,
         FlushReviewLogs, CheckTitle, FlagTitle, BatchChecked
<1>3. Present(Finalize(s), occs')
  BY <1>1, Between
<1>4. CASE WriteStamp(r)
  <2>1. PICK k \in s.stamps, answer \in Answers :
          /\ UpsertOccurrence(answer, k, [s.seen[k] EXCEPT !.stamp = TRUE])
          /\ Continue(r, answer, Acted([s EXCEPT !.stamps = @ \ {k}]), Finalize(s))
    BY <1>4 DEF WriteStamp
  <2> DEFINE next == [s EXCEPT !.stamps = @ \ {k}]
             doc == [s.seen[k] EXCEPT !.stamp = TRUE]
  <2>2. s.pc = "act" /\ k \in Keys /\ s.seen[k] # NoOcc /\ s.seen[k] \in OccDoc
    BY <1>1, <1>4 DEF WriteStamp, Orderly, Memory
  <2>3. occs[k] # NoOcc
    BY <2>2 DEF Present
  <2>4. doc \in OccDoc \ {NoOcc}
    <3>1. s.seen[k] \in [raw : RawTitles, stamp : BOOLEAN]
      BY <2>2 DEF OccDoc
    <3> HIDE DEF s
    <3> QED BY <3>1, RecordsAssumption DEF OccDoc, NoOcc
  <2>5. UpsertOccurrence(answer, k, doc) /\ Continue(r, answer, Acted(next), Finalize(s))
    BY <2>1
  <2>6. Grows /\ Filed(r)
    <3> HIDE DEF doc
    <3>1. Grows /\ \A j \in Keys \ {k} : occs'[j] = occs[j]
      BY <1>1, <2>2, <2>4, <2>5, WriteGrows
    <3> QED BY <2>3, <3>1 DEF Filed
  <2>7. next.seen = s.seen
    BY <1>1 DEF Memory
  <2>8. next \in Memory
    <3>1. s.stamps \ {k} \in SUBSET Keys
      BY <1>1 DEF Memory
    <3> HIDE DEF s
    <3> QED BY <1>1, <3>1 DEF Memory
  <2>9. \A j \in Keys : s.seen[j] # NoOcc => occs'[j] # NoOcc
    BY <2>2, <2>6 DEF Present, Grows
  <2> HIDE DEF next
  <2>10. Present(Acted(next), occs')
    BY <2>7, <2>8, <2>9 DEF Acted, Present, Memory
  <2> QED BY <1>1, <1>2, <1>3, <2>5, <2>6, <2>10, ContinuedApart DEF Steady
<1>5. ASSUME ~WriteStamp(r) PROVE occs' = occs /\ Grows /\ Filed(r)
  <2>1. occs' = occs
    BY <1>5 DEF AuditStep, ListTitles, NextBatch, ReadTitle, AskAi, WriteProposal,
                FlushReviewLogs, CheckTitle, FlagTitle, BatchChecked, catalog
  <2> QED BY <2>1, QuietGrows
<1>6. ASSUME ~WriteStamp(r), ListTitles(r) \/ BatchChecked(r)
      PROVE  Steady(r)
  <2>1. ASSUME NEW m \in Memory PROVE Present(NextChunk(m), occs')
    BY <2>1, NextChunkPresent
  <2>2. CASE BatchChecked(r)
    BY <1>1, <1>2, <1>5, <1>6, <2>1, <2>2, WrittenApart DEF BatchChecked, Steady
  <2>3. CASE ListTitles(r)
    <3>1. PICK answer \in ReadAnswers, work \in SUBSET Titles :
            Continue(r, answer, NextChunk([s EXCEPT !.work = work, !.shown = titles]), Finalize(s))
      BY <2>3 DEF ListTitles
    <3> DEFINE listed == [s EXCEPT !.work = work, !.shown = titles]
    <3>2. listed \in Memory
      <4> HIDE DEF s
      <4> QED BY <1>1 DEF Memory, Stored
    <3>3. Present(NextChunk(listed), occs')
      BY <2>1, <3>2
    <3>4. Continue(r, answer, NextChunk(listed), Finalize(s))
      BY <3>1
    <3> HIDE DEF listed
    <3> QED BY <1>1, <1>2, <1>3, <1>5, <1>6, <3>3, <3>4, ContinuedApart DEF Steady
  <2> QED BY <1>6, <2>2, <2>3
<1>7. ASSUME ~WriteStamp(r), NextBatch(r) PROVE Steady(r)
  <2>1. PICK batch \in SUBSET s.work :
          run' = [run EXCEPT ![r] = [s EXCEPT !.pc = "read", !.work = @ \ batch, !.chunk = batch]]
    BY <1>7 DEF NextBatch
  <2> DEFINE next == [s EXCEPT !.pc = "read", !.work = @ \ batch, !.chunk = batch]
  <2>2. next.seen = s.seen /\ s.pc = "chunk"
    BY <1>1, <1>7 DEF Memory, NextBatch
  <2>3. Present(next, occs')
    BY <1>5, <1>7, <2>2 DEF Present
  <2>4. run' = [run EXCEPT ![r] = next]
    BY <2>1
  <2> HIDE DEF next
  <2> QED BY <1>1, <1>2, <1>5, <1>7, <2>3, <2>4, WrittenApart DEF Steady
<1>8. ASSUME ~WriteStamp(r), ReadTitle(r) PROVE Steady(r)
  <2>0. PICK t \in s.chunk, answer \in ReadAnswers :
          \E asked, checked :
             Continue(r, answer,
                   AfterRead([s EXCEPT
                      !.chunk = @ \ {t},
                      !.seen = [k \in Keys |-> IF k[1] = t THEN occs[k] ELSE @[k]],
                      !.asked = asked, !.checked = checked]),
                   Finalize(s))
    BY <1>8 DEF ReadTitle
  <2>1. PICK asked, checked :
          Continue(r, answer,
                   AfterRead([s EXCEPT
                      !.chunk = @ \ {t},
                      !.seen = [k \in Keys |-> IF k[1] = t THEN occs[k] ELSE @[k]],
                      !.asked = asked, !.checked = checked]),
                   Finalize(s))
    BY <2>0
  <2> DEFINE seen == [k \in Keys |-> IF k[1] = t THEN occs[k] ELSE s.seen[k]]
             next == [s EXCEPT !.chunk = @ \ {t}, !.seen = seen, !.asked = asked, !.checked = checked]
  <2>2. \A k \in Keys : seen[k] # NoOcc => occs[k] # NoOcc
    BY <1>8 DEF Present, ReadTitle
  <2>3. Continue(r, answer, AfterRead(next), Finalize(s))
    BY <2>1
  <2> HIDE DEF seen
  <2>4. next.seen = seen
    BY <1>1 DEF Memory
  <2>5. DOMAIN next = DOMAIN s
    OBVIOUS
  <2> HIDE DEF next
  <2>6. \A pc : [next EXCEPT !.pc = pc].seen = next.seen
    BY <1>1, <2>5 DEF Memory
  <2>7. Present(AfterRead(next), occs')
    BY <1>5, <1>8, <2>2, <2>4, <2>6 DEF AfterRead, Present
  <2> QED BY <1>1, <1>2, <1>3, <1>5, <1>8, <2>3, <2>7, ContinuedApart DEF Steady
<1>9. ASSUME ~WriteStamp(r), AskAi(r) PROVE Steady(r)
  <2>1. \/ \E wrong, stamps : run' = [run EXCEPT ![r] = [s EXCEPT !.pc = "act", !.wrong = wrong, !.stamps = stamps]]
        \/ run' = [run EXCEPT ![r] = [s EXCEPT !.pc = "logs", !.work = {}, !.checked = {}]]
    BY <1>9 DEF AskAi
  <2>2. ASSUME NEW wrong, NEW stamps
        PROVE  [s EXCEPT !.pc = "act", !.wrong = wrong, !.stamps = stamps].seen = s.seen
    BY <1>1 DEF Memory
  <2>3. [s EXCEPT !.pc = "logs", !.work = {}, !.checked = {}].seen = s.seen
    BY <1>1 DEF Memory
  <2>4. PICK m : run' = [run EXCEPT ![r] = m] /\ m.seen = s.seen
    <3>1. ASSUME NEW wrong, NEW stamps,
                 run' = [run EXCEPT ![r] = [s EXCEPT !.pc = "act", !.wrong = wrong, !.stamps = stamps]]
          PROVE  \E m : run' = [run EXCEPT ![r] = m] /\ m.seen = s.seen
      <4> DEFINE next == [s EXCEPT !.pc = "act", !.wrong = wrong, !.stamps = stamps]
      <4>1. run' = [run EXCEPT ![r] = next] /\ next.seen = s.seen
        BY <2>2, <3>1
      <4> HIDE DEF next
      <4> QED BY <4>1
    <3>2. ASSUME run' = [run EXCEPT ![r] = [s EXCEPT !.pc = "logs", !.work = {}, !.checked = {}]]
          PROVE  \E m : run' = [run EXCEPT ![r] = m] /\ m.seen = s.seen
      <4> DEFINE next == [s EXCEPT !.pc = "logs", !.work = {}, !.checked = {}]
      <4>1. run' = [run EXCEPT ![r] = next] /\ next.seen = s.seen
        BY <2>3, <3>2
      <4> HIDE DEF next
      <4> QED BY <4>1
    <3> QED BY <2>1, <3>1, <3>2
  <2>5. Present(m, occs')
    BY <1>5, <1>9, <2>4 DEF Present, AskAi
  <2> QED BY <1>1, <1>2, <1>5, <1>9, <2>4, <2>5, WrittenApart DEF Steady
<1>10. ASSUME ~WriteStamp(r), WriteProposal(r) PROVE Steady(r)
  <2>1. PICK c \in s.wrong, answer \in Answers :
          Continue(r, answer, Acted([s EXCEPT !.wrong = @ \ {c}]), Finalize(s))
    BY <1>10 DEF WriteProposal
  <2> DEFINE next == [s EXCEPT !.wrong = @ \ {c}]
  <2>2. next.seen = s.seen /\ [next EXCEPT !.pc = "logs"].seen = s.seen
    BY <1>1 DEF Memory
  <2>3. Continue(r, answer, Acted(next), Finalize(s))
    BY <2>1
  <2> HIDE DEF next
  <2>4. Present(Acted(next), occs')
    BY <1>5, <1>10, <2>2 DEF Acted, Present, WriteProposal
  <2> QED BY <1>1, <1>2, <1>3, <1>5, <1>10, <2>3, <2>4, ContinuedApart DEF Steady
<1>11. ASSUME ~WriteStamp(r), FlushReviewLogs(r) \/ FlagTitle(r)
       PROVE  Steady(r)
  <2>1. PICK answer \in Answers : Continue(r, answer, [s EXCEPT !.pc = "check"], Finalize(s))
    BY <1>11 DEF FlushReviewLogs, FlagTitle
  <2>2. [s EXCEPT !.pc = "check"].pc = "check"
    BY <1>1 DEF Memory
  <2>3. Present([s EXCEPT !.pc = "check"], occs')
    BY <2>2 DEF Present
  <2> QED BY <1>1, <1>2, <1>3, <1>5, <1>11, <2>1, <2>3, ContinuedApart DEF Steady
<1>12. ASSUME ~WriteStamp(r), CheckTitle(r) PROVE Steady(r)
  <2>1. PICK t \in s.checked, answer \in ReadAnswers :
          \E next \in {[s EXCEPT !.checked = @ \ {t}],
                       [[s EXCEPT !.checked = @ \ {t}] EXCEPT !.pc = "flag", !.title = t]} :
             Continue(r, answer, next, Finalize(s))
    BY <1>12 DEF CheckTitle
  <2> DEFINE rest == [s EXCEPT !.checked = @ \ {t}]
             flag == [rest EXCEPT !.pc = "flag", !.title = t]
  <2>2. rest.pc = "check" /\ flag.pc = "flag"
    BY <1>1, <1>12 DEF Memory, CheckTitle
  <2>3. PICK next \in {rest, flag} : Continue(r, answer, next, Finalize(s))
    BY <2>1
  <2> HIDE DEF rest, flag
  <2>4. Present(next, occs')
    BY <2>2 DEF Present
  <2> QED BY <1>1, <1>2, <1>3, <1>5, <1>12, <2>3, <2>4, ContinuedApart DEF Steady
<1> QED BY <1>4, <1>6, <1>7, <1>8, <1>9, <1>10, <1>11, <1>12 DEF AuditStep

LEMMA CrashSteady ==
    ASSUME IInv, NEW r \in Runs, Crash(r)
    PROVE  Steady(r)
<1>1. occs' = occs /\ run' = [run EXCEPT ![r] = Blank("dead")] /\ Active(r)
  BY DEF Crash, catalog
<1>2. Present(Blank("dead"), occs')
  BY DEF Present, Blank
<1> QED BY <1>1, <1>2, QuietGrows, WrittenApart DEF Steady, IInv

(* Which step it is *)
LEMMA StepKinds ==
    ASSUME IInv, Alone, Next
    PROVE  \E r \in Runs :
              \/ Steady(r)
              \/ \E mode \in Modes : StartRun(r, mode)
              \/ ApplyProposal(r)
<1>1. PICK r \in Runs :
        \/ \E mode \in Modes : StartRun(r, mode)
        \/ RssStep(r) \/ FlushStep(r) \/ AuditStep(r)
        \/ ReparseTitle(r) \/ ReparseOccurrence(r) \/ ApplyProposal(r) \/ EndPhase(r)
        \/ Crash(r)
  BY DEF Next
<1>2. Present(run[r], occs)
  BY DEF Alone
<1> QED BY <1>1, <1>2, RssSteady, FlushSteady, AuditSteady, ReparseSteady, CrashSteady

LEMMA AloneStep ==
    ASSUME Serialized, IInv, Alone, [Next]_vars
    PROVE  Alone'
<1>1. CASE UNCHANGED vars
  BY <1>1 DEF vars, Alone, Solo, Active, Present
<1>2. ASSUME NEW r \in Runs, Steady(r) PROVE Alone'
  <2>1. \A q \in Runs \ {r} : ~Active(q) /\ run'[q] = run[q]
    BY <1>2 DEF Alone, Solo, Steady
  <2>2. Solo'
    BY <2>1 DEF Solo, Active
  <2>3. \A q \in Runs : Present(run'[q], occs')
    BY <1>2, <2>1 DEF Alone, Steady, Grows, Present
  <2> QED BY <2>2, <2>3 DEF Alone, Present
<1>3. ASSUME NEW r \in Runs, NEW mode \in Modes, StartRun(r, mode) PROVE Alone'
  <2>1. occs' = occs /\ \A q \in Runs : ~Active(q)
    BY <1>3 DEF StartRun, StartAnyTime, catalog
  <2>2. PICK pc \in {"rss", "list", "reparse", "apply"} :
          run' = [run EXCEPT ![r] = [Blank(pc) EXCEPT !.mode = mode]]
    BY <1>3, AuditAssumption DEF StartRun, StartAnyTime
  <2>3. [Blank(pc) EXCEPT !.mode = mode].pc = pc
    BY DEF Blank
  <2>4. run'[r].pc = pc /\ \A q \in Runs \ {r} : run'[q] = run[q]
    BY <2>2, <2>3 DEF IInv, Remembered
  <2>5. Solo'
    BY <2>1, <2>4 DEF Solo, Active
  <2>6. \A q \in Runs : Present(run'[q], occs')
    BY <2>1, <2>4 DEF Alone, Present
  <2> QED BY <2>5, <2>6 DEF Alone, Present
<1>4. ASSUME NEW r \in Runs, ApplyProposal(r) PROVE Alone'
  <2>1. run' = run /\ run[r].pc = "apply"
    BY <1>4 DEF ApplyProposal
  <2>2. \A q \in Runs : run[q].pc \notin {"chunk", "read", "ask", "act"}
    BY <2>1 DEF Alone, Solo, Active
  <2> QED BY <2>1, <2>2 DEF Alone, Solo, Active, Present
<1> QED BY <1>1, <1>2, <1>3, <1>4, StepKinds

(* With one run at a time, as the workflow's concurrency group has it, what *)
(* a repair moves away never comes back by the audit, whatever it listed    *)
(* before; only a flush, a reparsed entry or another repair brings it back. *)
THEOREM RepairsStayDone == Serialized => (Spec => RepairsAreNotUndone)
<1> SUFFICES ASSUME Serialized PROVE Spec => RepairsAreNotUndone
  OBVIOUS
<1> DEFINE Undone == \A k \in Keys : occs[k] = NoOcc /\ occs'[k] # NoOcc =>
              \E r \in Runs : run[r].pc \in {"flush", "reparseOcc", "apply"}
                                /\ \A q \in Runs \ {r} : run[q] = run'[q]
<1>1. Init => Alone
  BY DEF Init, Alone, Solo, Active, Present, Blank
<1>2. IInv /\ Alone /\ [Next]_vars => Alone'
  BY AloneStep
<1>3. ASSUME IInv, Alone, [Next]_vars PROVE [Undone]_vars
  <2>1. CASE UNCHANGED vars
    BY <2>1
  <2>2. ASSUME NEW r \in Runs, Steady(r) PROVE Undone
    BY <2>2 DEF Steady, Filed
  <2>3. ASSUME NEW r \in Runs, NEW mode \in Modes, StartRun(r, mode) PROVE Undone
    BY <2>3 DEF StartRun, StartAnyTime, catalog
  <2>4. ASSUME NEW r \in Runs, ApplyProposal(r) PROVE Undone
    BY <2>4 DEF ApplyProposal
  <2> HIDE DEF Undone
  <2> QED BY <1>3, <2>1, <2>2, <2>3, <2>4, StepKinds
<1> QED BY <1>1, <1>2, <1>3, Invariance, PTL DEF Spec, RepairsAreNotUndone

-----------------------------------------------------------------------------
(* Flags: with one run at a time and no chaining, a flagged title has only   *)
(* stamped occurrences, but for entries that reparsing files. What the memory *)
(* of a run has to do with the catalogue while it is alone                    *)

Scanned == {k \in Keys : k[2] \notin Retryable}

(* The title is not flagged, or the copy that is still to be written takes  *)
(* the flag back.                                                           *)
Guarded(s, T, t) ==
    \/ T[t].flag # "yes"
    \/ s.sTitles[t].flag = "no" /\ t \in (IF s.pc = "flush" THEN s.left ELSE s.pendT)

(* What the memory of a run has to do with the titles T and occurrences O   *)
(* it works on, while it is alone.                                          *)
Careful(s, T, O) ==
    /\ \A k \in s.pendO : s.sTitles[k[1]] # UnreadTitle
    /\ \A t \in Titles :
          s.sTitles[t] # UnreadTitle /\ s.sTitles[t].flag = "yes" => T[t].flag = "yes"
    /\ \A k \in Scanned :
          s.sOccs[k] # UnreadOcc /\ s.sOccs[k].stamp => O[k].stamp /\ O[k].raw = s.sOccs[k].raw
    /\ \A k \in Scanned : k \in s.pendO /\ ~s.sOccs[k].stamp => Guarded(s, T, k[1])
    /\ \A t \in s.work \cup s.chunk \cup s.checked : s.sTitles[t] = UnreadTitle
    /\ s.pc = "flag" =>
          s.sTitles[s.title] = UnreadTitle /\ AllStamped(s.title, Under(s.title, O), O)
    /\ s.pc \in {"rss", "flush", "list"} => s.work = {}
    /\ s.pc = "rss" => \A k \in Keys : s.sOccs[k] # UnreadOcc => k \in s.pendO
    /\ s.pc = "list" /\ s.mode # "all" => \A t \in Titles : s.sTitles[t] = UnreadTitle
    /\ s.pc = "apply" => /\ s.pendO = {} /\ \A t \in Titles : s.sTitles[t] = UnreadTitle
                         /\ \A k \in Keys : s.sOccs[k] = UnreadOcc
    /\ s.pc \in {"chunk", "read", "ask", "act"} =>
          \A k \in Keys : s.seen[k] # NoOcc => O[k] # NoOcc /\ O[k].raw = s.seen[k].raw
    /\ s.pc = "reparseOcc" => s.item \in Retryable

Watched == \A r \in Runs : Active(r) => Careful(run[r], titles, occs)

FInv == IInv /\ Alone /\ FlagsCoverScannedEntries /\ Watched

-----------------------------------------------------------------------------
(* Flags: the memory of a run, over a catalogue that stays *)

LEMMA CarefulBlank ==
    ASSUME NEW pc \in {"idle", "done", "dead", "rss", "list", "reparse", "apply", "flush"},
           NEW mode, NEW T, NEW O
    PROVE  Careful([Blank(pc) EXCEPT !.mode = mode], T, O) /\ Careful(Blank(pc), T, O)
<1>1. ASSUME NEW b, b.pc = pc, b.sTitles = [t \in Titles |-> UnreadTitle],
             b.sOccs = [k \in Keys |-> UnreadOcc], b.pendO = {}, b.work = {}, b.chunk = {},
             b.checked = {}, b.seen = [k \in Keys |-> NoOcc]
      PROVE  Careful(b, T, O)
  BY <1>1 DEF Careful, Scanned
<1>2. Careful(Blank(pc), T, O)
  BY <1>1 DEF Blank
<1> DEFINE b == [Blank(pc) EXCEPT !.mode = mode]
<1>3. /\ b.pc = pc /\ b.sTitles = [t \in Titles |-> UnreadTitle]
      /\ b.sOccs = [k \in Keys |-> UnreadOcc] /\ b.pendO = {} /\ b.work = {} /\ b.chunk = {}
      /\ b.checked = {} /\ b.seen = [k \in Keys |-> NoOcc]
  BY DEF Blank
<1> HIDE DEF b
<1>4. Careful(b, T, O)
  BY <1>1, <1>3
<1> QED BY <1>2, <1>4 DEF b

(* What is staged stays, and is pending until it is written. *)
LEMMA CarefulKept ==
    ASSUME NEW s, NEW m, NEW T, NEW O, Careful(s, T, O), s.left \subseteq s.pendT,
           m.sTitles = s.sTitles, m.sOccs = s.sOccs, m.pendT = s.pendT, m.pendO = s.pendO,
           m.pc = "flush" => m.left = m.pendT /\ m.work = {},
           \A t \in m.work \cup m.chunk \cup m.checked : s.sTitles[t] = UnreadTitle,
           m.pc \notin {"rss", "apply"},
           m.pc = "list" => m.work = {} /\ m.mode = "all",
           m.pc = "flag" =>
              s.sTitles[m.title] = UnreadTitle /\ AllStamped(m.title, Under(m.title, O), O),
           m.pc \in {"chunk", "read", "ask", "act"} =>
              \A k \in Keys : m.seen[k] # NoOcc => O[k] # NoOcc /\ O[k].raw = m.seen[k].raw,
           m.pc = "reparseOcc" => m.item \in Retryable
    PROVE  Careful(m, T, O)
<1>1. \A t : Guarded(s, T, t) => Guarded(m, T, t)
  BY DEF Guarded
<1>2. \A k \in Scanned : k \in m.pendO /\ ~m.sOccs[k].stamp => Guarded(m, T, k[1])
  BY <1>1 DEF Careful
<1> QED BY <1>2 DEF Careful

LEMMA Kept ==
    ASSUME NEW s, NEW T, NEW O, Orderly(s), Careful(s, T, O)
    PROVE  /\ s.left \subseteq s.pendT
           /\ \A t \in s.work \cup s.chunk \cup s.checked : s.sTitles[t] = UnreadTitle
           /\ s.pc \in {"rss", "flush", "list"} => s.work = {}
  BY DEF Orderly, Careful

LEMMA CarefulFinalize ==
    ASSUME NEW s, NEW T, NEW O, Orderly(s), Careful(s, T, O)
    PROVE  Careful(Finalize(s), T, O)
<1>1. CASE s.pendT \cup s.pendO = {}
  BY <1>1, CarefulBlank DEF Finalize
<1>2. CASE s.pendT \cup s.pendO # {}
  <2> DEFINE m == Finalize(s)
  <2>1. /\ m.sTitles = s.sTitles /\ m.sOccs = s.sOccs /\ m.pendT = s.pendT /\ m.pendO = s.pendO
        /\ m.pc = "flush" /\ m.left = s.pendT /\ m.work = {} /\ m.chunk = {} /\ m.checked = {}
    BY <1>2 DEF Finalize, Flush, Blank
  <2> HIDE DEF m
  <2>2. Careful(m, T, O)
    BY <2>1, Kept, CarefulKept
  <2> QED BY <2>2 DEF m
<1> QED BY <1>1, <1>2

LEMMA CarefulFlush ==
    ASSUME NEW s, NEW T, NEW O, Orderly(s), Careful(s, T, O), s.pc = "rss"
    PROVE  Careful(Flush(s), T, O)
<1> DEFINE m == Flush(s)
<1>1. /\ m.sTitles = s.sTitles /\ m.sOccs = s.sOccs /\ m.pendT = s.pendT /\ m.pendO = s.pendO
      /\ m.pc = "flush" /\ m.left = s.pendT /\ m.work = s.work
      /\ m.chunk = s.chunk /\ m.checked = s.checked
  BY DEF Flush, Orderly, Memory
<1>2. s.work = {}
  BY DEF Careful
<1> HIDE DEF m
<1>3. Careful(m, T, O)
  BY <1>1, <1>2, Kept, CarefulKept
<1> QED BY <1>3 DEF m

LEMMA CarefulAfterFlush ==
    ASSUME NEW s, NEW T, NEW O, Orderly(s), Careful(s, T, O), s.pc = "flush"
    PROVE  Careful(AfterFlush(s), T, O) /\ Careful(FlushFailed(s), T, O)
<1>1. ASSUME NEW entries, s.mode = "all"
      PROVE  Careful([s EXCEPT !.pc = "list", !.entries = entries], T, O)
  <2> DEFINE m == [s EXCEPT !.pc = "list", !.entries = entries]
  <2>1. /\ m.sTitles = s.sTitles /\ m.sOccs = s.sOccs /\ m.pendT = s.pendT /\ m.pendO = s.pendO
        /\ m.pc = "list" /\ m.mode = "all" /\ m.work = s.work
        /\ m.chunk = s.chunk /\ m.checked = s.checked
    BY <1>1 DEF Orderly, Memory
  <2>2. s.work = {}
    BY DEF Careful
  <2> HIDE DEF m
  <2>3. Careful(m, T, O)
    BY <2>1, <2>2, Kept, CarefulKept
  <2> QED BY <2>3 DEF m
<1>2. Careful(AfterFlush(s), T, O)
  BY <1>1, CarefulBlank, CarefulFinalize DEF AfterFlush
<1> QED BY <1>2, CarefulBlank DEF FlushFailed

LEMMA CarefulNextChunk ==
    ASSUME NEW s, NEW T, NEW O, Orderly(s), Careful(s, T, O)
    PROVE  Careful(NextChunk(s), T, O)
<1>1. Careful([s EXCEPT !.pc = "reparse"], T, O)
  <2> DEFINE m == [s EXCEPT !.pc = "reparse"]
  <2>1. /\ m.sTitles = s.sTitles /\ m.sOccs = s.sOccs /\ m.pendT = s.pendT /\ m.pendO = s.pendO
        /\ m.pc = "reparse" /\ m.work = s.work /\ m.chunk = s.chunk /\ m.checked = s.checked
    BY DEF Orderly, Memory
  <2> HIDE DEF m
  <2>2. Careful(m, T, O)
    BY <2>1, Kept, CarefulKept
  <2> QED BY <2>2 DEF m
<1>2. Careful(AfterAudit(s), T, O)
  BY <1>1, CarefulFinalize DEF AfterAudit
<1>3. Careful([s EXCEPT !.pc = "chunk", !.seen = [k \in Keys |-> NoOcc], !.asked = {}, !.title = "none"], T, O)
  <2> DEFINE m == [s EXCEPT !.pc = "chunk", !.seen = [k \in Keys |-> NoOcc], !.asked = {}, !.title = "none"]
  <2>1. /\ m.sTitles = s.sTitles /\ m.sOccs = s.sOccs /\ m.pendT = s.pendT /\ m.pendO = s.pendO
        /\ m.pc = "chunk" /\ m.work = s.work /\ m.chunk = s.chunk /\ m.checked = s.checked
        /\ \A k \in Keys : m.seen[k] = NoOcc
    BY DEF Orderly, Memory
  <2> HIDE DEF m
  <2>2. Careful(m, T, O)
    BY <2>1, Kept, CarefulKept
  <2> QED BY <2>2 DEF m
<1> QED BY <1>2, <1>3 DEF NextChunk

-----------------------------------------------------------------------------
(* One run's memory for another's *)

LEMMA WatchKept ==
    ASSUME IInv, Solo, NEW r \in Runs, Active(r), NEW m, run' = [run EXCEPT ![r] = m],
           Careful(m, titles', occs')
    PROVE  Watched'
<1>1. run'[r] = m /\ \A q \in Runs \ {r} : run'[q] = run[q] /\ ~Active(q)
  BY DEF Solo, IInv, Remembered
<1> HIDE DEF Careful
<1>2. \A q \in Runs : run'[q].pc \notin {"idle", "done", "dead"} => Careful(run'[q], titles', occs')
  BY <1>1 DEF Active
<1>3. (\A q \in Runs : Active(q) => Careful(run[q], titles, occs))'
  BY <1>2 DEF Active, Careful, Guarded, AllStamped, Under
<1> QED BY <1>3 DEF Watched

LEMMA WatchContinued ==
    ASSUME IInv, Solo, NEW r \in Runs, Active(r), NEW answer, NEW ok, NEW failed,
           Continue(r, answer, ok, failed),
           answer = "ok" => Careful(ok, titles', occs'), Careful(failed, titles', occs')
    PROVE  Watched'
<1>1. CASE answer = "ok"
  <2>1. run' = [run EXCEPT ![r] = ok]
    BY <1>1 DEF Continue
  <2> QED BY <1>1, <2>1, WatchKept
<1>2. CASE answer # "ok"
  <2>1. run' = [run EXCEPT ![r] = failed]
    BY <1>2 DEF Continue
  <2> QED BY <2>1, WatchKept
<1> QED BY <1>1, <1>2

LEMMA QuietFlags ==
    ASSUME FlagsCoverScannedEntries, UNCHANGED catalog
    PROVE  FlagsCoverScannedEntries'
  BY DEF FlagsCoverScannedEntries, catalog, AllStamped, Under

(* As flags change only to what they were, and stamps only to more. *)
LEMMA NoNewFlags ==
    ASSUME FlagsCoverScannedEntries, occs' = occs,
           \A t \in Titles : titles'[t].flag = "yes" => titles[t].flag = "yes"
    PROVE  FlagsCoverScannedEntries'
  BY DEF FlagsCoverScannedEntries, AllStamped, Under

(* The invariant, entry by entry. *)
Covers(T, O) == \A k \in Scanned : T[k[1]].flag = "yes" /\ O[k] # NoOcc => O[k].stamp

LEMMA FlagsEachWay ==
    ASSUME NEW T, NEW O
    PROVE  (\A t \in Titles : T[t].flag = "yes" => AllStamped(t, Under(t, O) \ Retryable, O))
              <=> Covers(T, O)
<1>1. ASSUME \A t \in Titles : T[t].flag = "yes" => AllStamped(t, Under(t, O) \ Retryable, O),
             NEW k \in Scanned, T[k[1]].flag = "yes", O[k] # NoOcc
      PROVE  O[k].stamp
  <2>1. k[1] \in Titles /\ k[2] \in Items \ Retryable /\ k = <<k[1], k[2]>>
    BY DEF Scanned, Keys
  <2> QED BY <1>1, <2>1 DEF AllStamped, Under
<1>2. ASSUME Covers(T, O), NEW t \in Titles, T[t].flag = "yes", NEW i \in Under(t, O) \ Retryable
      PROVE  O[<<t, i>>].stamp
  <2>1. <<t, i>> \in Scanned /\ <<t, i>>[1] = t /\ O[<<t, i>>] # NoOcc
    BY DEF Scanned, Keys, Under
  <2> QED BY <1>2, <2>1 DEF Covers
<1> QED BY <1>1, <1>2 DEF Covers, AllStamped

LEMMA FlagsCovered ==
    /\ FlagsCoverScannedEntries <=> Covers(titles, occs)
    /\ FlagsCoverScannedEntries' <=> Covers(titles', occs')
<1>1. FlagsCoverScannedEntries <=> Covers(titles, occs)
  BY FlagsEachWay DEF FlagsCoverScannedEntries
<1>2. FlagsCoverScannedEntries' <=>
         \A t \in Titles : titles'[t].flag = "yes" => AllStamped(t, Under(t, occs') \ Retryable, occs')
  BY DEF FlagsCoverScannedEntries, AllStamped, Under
<1>3. FlagsCoverScannedEntries' <=> Covers(titles', occs')
  BY <1>2, FlagsEachWay
<1> QED BY <1>1, <1>3

-----------------------------------------------------------------------------
(* Flags: the RSS phase *)

(* What staging makes of a flag and a stamp *)
LEMMA StagedSays ==
    ASSUME NEW old, NEW occ \in OccDoc, NEW meta, NEW raw \in RawTitles
    PROVE  LET pair == StagedPair(old, occ, [meta |-> meta, flag |-> "unset"], [raw |-> raw, stamp |-> FALSE])
           IN /\ pair.title.flag \in {"no", old.flag}
              /\ pair.occ.stamp => occ.stamp /\ pair.occ.raw = occ.raw
              /\ pair.occ.stamp \/ pair.title.flag = "no" \/ (occ # NoOcc /\ ~occ.stamp)
<1> DEFINE newTitle == [meta |-> meta, flag |-> "unset"]
           newOcc == [raw |-> raw, stamp |-> FALSE]
           title == MergeTitles(old, newTitle)
           merged == MergeOccurrences(occ, newOcc)
<1>1. title = [meta |-> meta, flag |-> old.flag]
  BY DEF MergeTitles
<1>2. merged \in [raw : RawTitles, stamp : BOOLEAN] /\ merged.raw = raw
      /\ (merged.stamp => occ # NoOcc /\ occ.stamp /\ occ.raw = raw)
  <2>1. CASE occ = NoOcc
    BY <2>1 DEF MergeOccurrences
  <2>2. CASE occ # NoOcc
    <3>1. occ \in [raw : RawTitles, stamp : BOOLEAN]
      BY <2>2 DEF OccDoc
    <3> QED BY <2>2, <3>1 DEF MergeOccurrences
  <2> QED BY <2>1, <2>2
<1> HIDE DEF merged
<1>3. title.flag = old.flag /\ [title EXCEPT !.flag = "no"].flag = "no"
  BY <1>1
<1> HIDE DEF title
<1>4. PICK ok \in BOOLEAN : LET pair == StagedPair(old, occ, newTitle, newOcc)
                                docd == [merged EXCEPT !.stamp = @ /\ ok]
                                unflag == occ = NoOcc \/ (occ.stamp /\ ~docd.stamp)
                            IN /\ pair.occ = docd
                               /\ pair.title = IF unflag THEN [title EXCEPT !.flag = "no"] ELSE title
  BY DEF StagedPair, title, merged
<1> DEFINE docd == [merged EXCEPT !.stamp = @ /\ ok]
<1>5. docd.raw = raw /\ (docd.stamp => merged.stamp)
  BY <1>2
<1> HIDE DEF docd
<1>6. /\ StagedPair(old, occ, newTitle, newOcc).occ = docd
      /\ StagedPair(old, occ, newTitle, newOcc).title =
            IF occ = NoOcc \/ (occ.stamp /\ ~docd.stamp) THEN [title EXCEPT !.flag = "no"] ELSE title
  BY <1>4 DEF docd
<1> QED BY <1>2, <1>3, <1>5, <1>6

LEMMA NotUnread == UnreadTitle \notin TitleDoc /\ UnreadOcc \notin OccDoc
  BY RecordsAssumption DEF UnreadTitle, UnreadOcc, TitleDoc, OccDoc, NoTitle, NoOcc

(* A title is staged, with or without its occurrence. *)
LEMMA CarefulStaged ==
    ASSUME NEW s, NEW m, NEW T, NEW O, Orderly(s), Careful(s, T, O), s.pc = "rss",
           NEW t \in Titles, NEW title \in TitleDoc, NEW newPendO \in SUBSET Keys,
           NEW newOccs \in [Keys -> OccDoc \cup {UnreadOcc}],
           m.pc = "rss", m.work = s.work, m.chunk = s.chunk, m.checked = s.checked,
           m.sTitles = [s.sTitles EXCEPT ![t] = title], m.pendT = s.pendT \cup {t},
           m.sOccs = newOccs, m.pendO = newPendO,
           title.flag = "yes" => T[t].flag = "yes",
           s.sTitles[t].flag = "no" => title.flag = "no",
           \A k \in newPendO : k \in s.pendO \/ k[1] = t,
           \A k \in Keys : newOccs[k] # UnreadOcc => k \in newPendO,
           \A k \in Scanned : newOccs[k] # s.sOccs[k] \/ k \notin s.pendO =>
              /\ newOccs[k] # UnreadOcc /\ newOccs[k].stamp => O[k].stamp /\ O[k].raw = newOccs[k].raw
              /\ k \in newPendO /\ ~newOccs[k].stamp =>
                    T[k[1]].flag # "yes" \/ (k[1] = t /\ title.flag = "no")
    PROVE  Careful(m, T, O)
<1>1. s.sTitles \in [Titles -> TitleDoc \cup {UnreadTitle}] /\ s.pendO \subseteq Keys
  BY DEF Orderly, Memory
<1>2. m.sTitles[t] = title /\ \A u \in Titles \ {t} : m.sTitles[u] = s.sTitles[u]
  BY <1>1
<1>3. \A k \in m.pendO : m.sTitles[k[1]] # UnreadTitle
  <2> SUFFICES ASSUME NEW k \in newPendO PROVE m.sTitles[k[1]] # UnreadTitle
    OBVIOUS
  <2>1. k[1] \in Titles
    BY DEF Keys
  <2>2. CASE k[1] = t
    BY <1>2, <2>2, NotUnread
  <2>3. CASE k[1] # t
    BY <1>2, <2>1, <2>3 DEF Careful
  <2> QED BY <2>2, <2>3
<1>4. \A u \in Titles : m.sTitles[u] # UnreadTitle /\ m.sTitles[u].flag = "yes" => T[u].flag = "yes"
  BY <1>2 DEF Careful
<1>5. \A k \in Scanned :
         m.sOccs[k] # UnreadOcc /\ m.sOccs[k].stamp => O[k].stamp /\ O[k].raw = m.sOccs[k].raw
  BY DEF Careful
<1>6. ASSUME NEW k \in Scanned, k \in m.pendO, ~m.sOccs[k].stamp PROVE Guarded(m, T, k[1])
  <2>1. k[1] \in Titles
    BY DEF Scanned, Keys
  <2>2. CASE newOccs[k] # s.sOccs[k] \/ k \notin s.pendO
    BY <1>2, <1>6, <2>2 DEF Guarded
  <2>3. CASE newOccs[k] = s.sOccs[k] /\ k \in s.pendO
    <3>1. Guarded(s, T, k[1])
      BY <1>6, <2>3 DEF Careful
    <3> QED BY <1>2, <2>1, <3>1 DEF Guarded
  <2> QED BY <2>2, <2>3
<1>7. s.work = {} /\ s.chunk = {} /\ s.checked = {}
  BY DEF Careful, Orderly
<1> QED BY <1>3, <1>4, <1>5, <1>6, <1>7 DEF Careful

LEMMA StageEntryFlags ==
    ASSUME FInv, NEW r \in Runs, NEW t \in Titles, NEW i \in Items,
           NEW raw \in RawTitles, NEW meta \in Metadata, StageEntry(r, t, i, raw, meta)
    PROVE  FlagsCoverScannedEntries' /\ Watched'
<1> DEFINE s == run[r]
           k == <<t, i>>
           old == TitleRead(s, t)
           occ == OccRead(s, k)
           pair == StagedPair(old, occ, [meta |-> meta, flag |-> "unset"], [raw |-> raw, stamp |-> FALSE])
           m == [s EXCEPT !.entries = @ \cup {i},
                   !.sTitles[t] = pair.title, !.pendT = @ \cup {t},
                   !.sOccs[k] = pair.occ, !.pendO = @ \cup {k}]
           newOccs == [s.sOccs EXCEPT ![k] = pair.occ]
<1>1. /\ run' = [run EXCEPT ![r] = m] /\ titles' = titles /\ occs' = occs
      /\ s.pc = "rss" /\ Active(r)
  BY DEF StageEntry, catalog, Active
<1>2. Orderly(s) /\ Careful(s, titles, occs) /\ k \in Keys /\ k[1] = t
  BY <1>1 DEF FInv, IInv, Remembered, Watched, Keys
<1>3. old \in TitleDoc /\ occ \in OccDoc /\ Earned(occ, judged)
  <2> HIDE DEF pair, m, newOccs, k
  <2>1. Stored /\ Honest(s, judged)
    BY DEF FInv, IInv, Remembered
  <2>2. s.sTitles[t] \in TitleDoc \cup {UnreadTitle} /\ s.sOccs[k] \in OccDoc \cup {UnreadOcc}
    BY <1>2 DEF Orderly, Memory
  <2>3. old \in TitleDoc
    BY <2>1, <2>2 DEF TitleRead, Stored
  <2>4. occ \in OccDoc /\ Earned(occ, judged)
    BY <1>2, <2>1, <2>2 DEF OccRead, Stored, Honest
  <2> QED BY <2>3, <2>4
<1>4. pair.title \in TitleDoc /\ pair.occ \in OccDoc
  <2> DEFINE newTitle == [meta |-> meta, flag |-> "unset"]
             newOcc == [raw |-> raw, stamp |-> FALSE]
  <2>1. newTitle \in TitleDoc \ {NoTitle}
    BY RecordsAssumption DEF TitleDoc, NoTitle, Flags
  <2>2. newOcc \in OccDoc \ {NoOcc} /\ Earned(newOcc, judged)
    BY RecordsAssumption DEF OccDoc, NoOcc, Earned
  <2> DEFINE both == StagedPair(old, occ, newTitle, newOcc)
  <2>3. pair = both
    OBVIOUS
  <2> HIDE DEF newTitle, newOcc, old, occ, pair
  <2>4. both.title \in TitleDoc /\ both.occ \in OccDoc
    BY <1>3, <2>1, <2>2, StagedSound
  <2> HIDE DEF both
  <2> QED BY <2>3, <2>4
<1>5. /\ pair.title.flag \in {"no", old.flag}
      /\ pair.occ.stamp => occ.stamp /\ pair.occ.raw = occ.raw
      /\ pair.occ.stamp \/ pair.title.flag = "no" \/ (occ # NoOcc /\ ~occ.stamp)
  <2> HIDE DEF old, occ
  <2> QED BY <1>3, StagedSays
<1> HIDE DEF pair
<1>6. /\ m.pc = "rss" /\ m.work = s.work /\ m.chunk = s.chunk /\ m.checked = s.checked
      /\ m.sTitles = [s.sTitles EXCEPT ![t] = pair.title] /\ m.pendT = s.pendT \cup {t}
      /\ m.sOccs = newOccs /\ m.pendO = s.pendO \cup {k}
  <2> HIDE DEF s, k
  <2> QED BY <1>1, <1>2 DEF Orderly, Memory
<1>7. pair.title.flag = "yes" => titles[t].flag = "yes"
  BY <1>2, <1>5 DEF TitleRead, Careful
<1>8. s.sTitles[t].flag = "no" => pair.title.flag = "no"
  BY <1>5 DEF TitleRead, UnreadTitle
<1>9. newOccs \in [Keys -> OccDoc \cup {UnreadOcc}] /\ newOccs[k] = pair.occ
      /\ \A j \in Keys \ {k} : newOccs[j] = s.sOccs[j]
  <2> HIDE DEF k
  <2> QED BY <1>2, <1>4 DEF Orderly, Memory
<1>10. s.pendO \cup {k} \in SUBSET Keys
  BY <1>2 DEF Orderly, Memory
<1>11. \A j \in Keys : newOccs[j] # UnreadOcc => j \in s.pendO \cup {k}
  BY <1>1, <1>2, <1>9 DEF Careful
<1> HIDE DEF newOccs
<1>12. ASSUME k \in Scanned
       PROVE  /\ pair.occ.stamp => occs[k].stamp /\ occs[k].raw = pair.occ.raw
              /\ ~pair.occ.stamp => titles[t].flag # "yes" \/ pair.title.flag = "no"
  <2>1. ASSUME pair.occ.stamp PROVE occs[k].stamp /\ occs[k].raw = pair.occ.raw
    <3>1. CASE s.sOccs[k] = UnreadOcc
      BY <1>5, <2>1, <3>1 DEF OccRead
    <3>2. CASE s.sOccs[k] # UnreadOcc
      BY <1>2, <1>5, <1>12, <2>1, <3>2 DEF OccRead, Careful
    <3> QED BY <3>1, <3>2
  <2>2. ASSUME ~pair.occ.stamp, pair.title.flag # "no" PROVE titles[t].flag # "yes"
    <3>1. occ # NoOcc /\ ~occ.stamp
      BY <1>5, <2>2
    <3>2. CASE s.sOccs[k] = UnreadOcc
      <4>1. occs[k] # NoOcc /\ ~occs[k].stamp
        BY <3>1, <3>2 DEF OccRead
      <4> QED BY <1>2, <1>12, <4>1, FlagsCovered DEF FInv, Covers
    <3>3. CASE s.sOccs[k] # UnreadOcc
      <4>1. k \in s.pendO /\ ~s.sOccs[k].stamp
        BY <1>1, <1>2, <3>1, <3>3 DEF OccRead, Careful
      <4>2. Guarded(s, titles, t)
        BY <1>2, <1>12, <4>1 DEF Careful
      <4> QED BY <1>8, <2>2, <4>2 DEF Guarded
    <3> QED BY <3>2, <3>3
  <2> QED BY <2>1, <2>2
<1>13. \A j \in Scanned : newOccs[j] # s.sOccs[j] \/ j \notin s.pendO =>
          /\ newOccs[j] # UnreadOcc /\ newOccs[j].stamp => occs[j].stamp /\ occs[j].raw = newOccs[j].raw
          /\ j \in s.pendO \cup {k} /\ ~newOccs[j].stamp =>
                titles[j[1]].flag # "yes" \/ (j[1] = t /\ pair.title.flag = "no")
  <2> SUFFICES ASSUME NEW j \in Scanned, newOccs[j] # s.sOccs[j] \/ j \notin s.pendO
               PROVE  /\ newOccs[j] # UnreadOcc /\ newOccs[j].stamp => occs[j].stamp /\ occs[j].raw = newOccs[j].raw
                      /\ j \in s.pendO \cup {k} /\ ~newOccs[j].stamp =>
                            titles[j[1]].flag # "yes" \/ (j[1] = t /\ pair.title.flag = "no")
    OBVIOUS
  <2>1. CASE j = k
    BY <1>2, <1>9, <1>12, <2>1
  <2>2. CASE j # k
    BY <1>2, <1>9, <2>2 DEF Scanned, Careful
  <2> QED BY <2>1, <2>2
<1> HIDE DEF s, k, m
<1>14. Careful(m, titles, occs)
  <2>1. \A j \in s.pendO \cup {k} : j \in s.pendO \/ j[1] = t
    BY <1>2
  <2> QED BY <1>1, <1>2, <1>4, <1>6, <1>7, <1>8, <1>9, <1>10, <1>11, <1>13, <2>1, CarefulStaged
<1>15. Careful(m, titles', occs')
  BY <1>1, <1>14
<1> QED BY <1>1, <1>15, WatchKept, QuietFlags DEF FInv, Alone, catalog

LEMMA StageHalfFlags ==
    ASSUME FInv, NEW r \in Runs, NEW t \in Titles, NEW i \in Items, NEW meta \in Metadata,
           StageHalf(r, t, i, meta)
    PROVE  FlagsCoverScannedEntries' /\ Watched'
<1> DEFINE s == run[r]
           old == TitleRead(s, t)
           title == MergeTitles(old, [meta |-> meta, flag |-> "unset"])
           m == [s EXCEPT !.entries = @ \cup {i}, !.sTitles[t] = title, !.pendT = @ \cup {t}]
<1>1. /\ run' = [run EXCEPT ![r] = m] /\ titles' = titles /\ occs' = occs
      /\ s.pc = "rss" /\ Active(r)
  BY DEF StageHalf, catalog, Active
<1>2. Orderly(s) /\ Careful(s, titles, occs)
  BY <1>1 DEF FInv, IInv, Remembered, Watched
<1>3. old \in TitleDoc
  BY <1>2 DEF TitleRead, Orderly, Memory, FInv, IInv, Stored
<1>4. title \in TitleDoc /\ title.flag = old.flag
  <2>1. [meta |-> meta, flag |-> "unset"] \in TitleDoc \ {NoTitle}
    BY RecordsAssumption DEF TitleDoc, NoTitle, Flags
  <2>2. title \in TitleDoc
    BY <1>3, <2>1, TitleMerged
  <2> QED BY <2>2 DEF MergeTitles
<1> HIDE DEF title
<1>5. /\ m.pc = "rss" /\ m.work = s.work /\ m.chunk = s.chunk /\ m.checked = s.checked
      /\ m.sTitles = [s.sTitles EXCEPT ![t] = title] /\ m.pendT = s.pendT \cup {t}
      /\ m.sOccs = s.sOccs /\ m.pendO = s.pendO
  <2> HIDE DEF s
  <2> QED BY <1>1, <1>2 DEF Orderly, Memory
<1>6. title.flag = "yes" => titles[t].flag = "yes"
  BY <1>2, <1>4 DEF TitleRead, Careful
<1>7. s.sTitles[t].flag = "no" => title.flag = "no"
  BY <1>4 DEF TitleRead, UnreadTitle
<1>8. /\ s.sOccs \in [Keys -> OccDoc \cup {UnreadOcc}] /\ s.pendO \in SUBSET Keys
      /\ \A k \in Keys : s.sOccs[k] # UnreadOcc => k \in s.pendO
  BY <1>1, <1>2 DEF Orderly, Memory, Careful
<1>9. \A k \in Scanned : s.sOccs[k] # s.sOccs[k] \/ k \notin s.pendO =>
          /\ s.sOccs[k] # UnreadOcc /\ s.sOccs[k].stamp => occs[k].stamp /\ occs[k].raw = s.sOccs[k].raw
          /\ k \in s.pendO /\ ~s.sOccs[k].stamp =>
                titles[k[1]].flag # "yes" \/ (k[1] = t /\ title.flag = "no")
  BY <1>2 DEF Careful
<1> HIDE DEF s, m
<1>10. Careful(m, titles, occs)
  BY <1>1, <1>2, <1>4, <1>5, <1>6, <1>7, <1>8, <1>9, CarefulStaged
<1>11. Careful(m, titles', occs')
  BY <1>1, <1>10
<1> QED BY <1>1, <1>11, WatchKept, QuietFlags DEF FInv, Alone, catalog

LEMMA EndFeedFlags ==
    ASSUME FInv, NEW r \in Runs, EndFeed(r)
    PROVE  FlagsCoverScannedEntries' /\ Watched'
<1>1. /\ run' = [run EXCEPT ![r] = Flush(run[r])] /\ titles' = titles /\ occs' = occs
      /\ run[r].pc = "rss" /\ Active(r)
  BY DEF EndFeed, catalog, Active
<1>2. Orderly(run[r]) /\ Careful(run[r], titles, occs)
  BY <1>1 DEF FInv, IInv, Remembered, Watched
<1>3. Careful(Flush(run[r]), titles', occs')
  BY <1>1, <1>2, CarefulFlush
<1> QED BY <1>1, <1>3, WatchKept, QuietFlags DEF FInv, Alone, catalog

-----------------------------------------------------------------------------
(* Flags: the flushes *)

(* Titles before occurrences: a copy without the flag is written before the *)
(* occurrences that lack a stamp.                                           *)
LEMMA FlushTitleFlags ==
    ASSUME FInv, NEW r \in Runs, FlushTitle(r)
    PROVE  FlagsCoverScannedEntries' /\ Watched'
<1> DEFINE s == run[r]
<1>1. /\ occs' = occs /\ s.pc = "flush" /\ Active(r)
      /\ titles \in [Titles -> TitleDoc]
  BY DEF FlushTitle, Active, FInv, IInv, Stored
<1>2. Orderly(s) /\ Careful(s, titles, occs)
  BY <1>1 DEF FInv, IInv, Remembered, Watched
<1>3. PICK t \in s.left, answer \in Answers :
        /\ UpsertTitle(answer, t, s.sTitles[t])
        /\ Continue(r, answer,
                    [s EXCEPT !.left = @ \ {t}, !.pendT = IF s.left = {t} THEN {} ELSE @],
                    FlushFailed(s))
  BY DEF FlushTitle
<1> DEFINE m == [s EXCEPT !.left = @ \ {t}, !.pendT = IF s.left = {t} THEN {} ELSE @]
<1>4. t \in Titles /\ s.sTitles[t] \in TitleDoc /\ s.sTitles[t] # UnreadTitle
  BY <1>2, NotUnread DEF Orderly, Memory
<1>5. /\ \A u \in Titles \ {t} : titles'[u] = titles[u]
      /\ titles'[t] = titles[t] \/ titles'[t] = MergeTitles(titles[t], s.sTitles[t])
      /\ answer = "ok" => titles'[t] = MergeTitles(titles[t], s.sTitles[t])
  BY <1>1, <1>3, <1>4 DEF UpsertTitle, Landed
<1>6. MergeTitles(titles[t], s.sTitles[t]).flag =
         IF s.sTitles[t].flag = "unset" THEN titles[t].flag ELSE s.sTitles[t].flag
  BY DEF MergeTitles
<1>7. s.sTitles[t].flag = "yes" => titles[t].flag = "yes"
  BY <1>2, <1>4 DEF Careful
<1>8. \A u \in Titles : titles'[u].flag = "yes" => titles[u].flag = "yes"
  BY <1>5, <1>6, <1>7
<1>9. \A u \in Titles : s.sTitles[u] # UnreadTitle /\ s.sTitles[u].flag = "yes" => titles'[u].flag = "yes"
  BY <1>2, <1>5, <1>6 DEF Careful
<1> HIDE DEF s
<1>10. \A k \in Scanned : k \in s.pendO /\ ~s.sOccs[k].stamp => Guarded(s, titles', k[1])
  BY <1>2, <1>8 DEF Careful, Guarded, Scanned, Keys
<1>11. Careful(s, titles', occs')
  BY <1>1, <1>2, <1>9, <1>10 DEF Careful
<1>12. Careful(FlushFailed(s), titles', occs')
  BY <1>1, <1>2, <1>11, CarefulAfterFlush
<1>13. /\ m.pc = "flush" /\ m.sTitles = s.sTitles /\ m.sOccs = s.sOccs /\ m.pendO = s.pendO
       /\ m.work = s.work /\ m.chunk = s.chunk /\ m.checked = s.checked /\ m.left = s.left \ {t}
  BY <1>1, <1>2 DEF Orderly, Memory
<1> HIDE DEF m
<1>14. ASSUME answer = "ok" PROVE Careful(m, titles', occs')
  <2>1. ASSUME NEW k \in Scanned, k \in m.pendO, ~m.sOccs[k].stamp PROVE Guarded(m, titles', k[1])
    <3>1. Guarded(s, titles', k[1])
      BY <1>10, <1>13, <2>1
    <3>2. CASE k[1] = t
      BY <1>1, <1>5, <1>6, <1>13, <1>14, <3>1, <3>2 DEF Guarded
    <3>3. CASE k[1] # t
      BY <1>1, <1>13, <3>1, <3>3 DEF Guarded
    <3> QED BY <3>2, <3>3
  <2> QED BY <1>1, <1>11, <1>13, <2>1 DEF Careful
<1>15. Continue(r, answer, m, FlushFailed(s))
  BY <1>3 DEF m, s
<1> QED BY <1>1, <1>8, <1>12, <1>14, <1>15, WatchContinued, NoNewFlags DEF FInv, Alone

LEMMA FlushOccurrenceFlags ==
    ASSUME FInv, NEW r \in Runs, FlushOccurrence(r)
    PROVE  FlagsCoverScannedEntries' /\ Watched'
<1> DEFINE s == run[r]
<1>1. /\ titles' = titles /\ s.pc = "flush" /\ s.left = {} /\ Active(r)
      /\ occs \in [Keys -> OccDoc]
  BY DEF FlushOccurrence, Active, FInv, IInv, Stored
<1>2. Orderly(s) /\ Careful(s, titles, occs)
  BY <1>1 DEF FInv, IInv, Remembered, Watched
<1>3. PICK k \in s.leftO, answer \in Answers :
        /\ UpsertOccurrence(answer, k, s.sOccs[k])
        /\ Continue(r, answer,
                    [s EXCEPT !.leftO = @ \ {k}, !.pendO = IF s.leftO = {k} THEN {} ELSE @],
                    FlushFailed(s))
  BY DEF FlushOccurrence
<1> DEFINE m == [s EXCEPT !.leftO = @ \ {k}, !.pendO = IF s.leftO = {k} THEN {} ELSE @]
<1>4. k \in Keys /\ k \in s.pendO /\ s.sOccs[k] \in OccDoc \ {NoOcc} /\ s.sOccs[k] # UnreadOcc
  BY <1>2, NotUnread DEF Orderly, Memory
<1>5. /\ \A j \in Keys \ {k} : occs'[j] = occs[j]
      /\ occs'[k] = occs[k] \/ occs'[k] = MergeOccurrences(occs[k], s.sOccs[k])
  BY <1>1, <1>3, <1>4 DEF UpsertOccurrence
<1> HIDE DEF s
<1>6. ASSUME k \in Scanned, s.sOccs[k].stamp PROVE occs'[k].stamp /\ occs'[k].raw = s.sOccs[k].raw
  <2>1. occs[k].stamp /\ occs[k].raw = s.sOccs[k].raw
    BY <1>2, <1>4, <1>6 DEF Careful
  <2>2. occs[k] # NoOcc
    BY <2>1 DEF NoOcc
  <2>3. /\ MergeOccurrences(occs[k], s.sOccs[k]).raw = s.sOccs[k].raw
        /\ MergeOccurrences(occs[k], s.sOccs[k]).stamp
    BY <1>6, <2>1, <2>2 DEF MergeOccurrences
  <2> QED BY <1>5, <2>1, <2>3
<1>7. ASSUME k \in Scanned, ~s.sOccs[k].stamp PROVE titles[k[1]].flag # "yes"
  BY <1>1, <1>2, <1>4, <1>7 DEF Careful, Guarded
<1>8. FlagsCoverScannedEntries'
  <2>1. ASSUME NEW j \in Scanned, titles'[j[1]].flag = "yes", occs'[j] # NoOcc
        PROVE  occs'[j].stamp
    <3>1. CASE j = k
      BY <1>1, <1>6, <1>7, <2>1, <3>1
    <3>2. CASE j # k
      BY <1>1, <1>5, <2>1, <3>2, FlagsCovered DEF FInv, Scanned, Covers
    <3> QED BY <3>1, <3>2
  <2> QED BY <2>1, FlagsCovered DEF Covers
<1>9. \A j \in Scanned :
         s.sOccs[j] # UnreadOcc /\ s.sOccs[j].stamp => occs'[j].stamp /\ occs'[j].raw = s.sOccs[j].raw
  BY <1>2, <1>5, <1>6 DEF Careful, Scanned
<1>10. Careful(s, titles', occs')
  BY <1>1, <1>2, <1>9 DEF Careful
<1>11. Careful(FlushFailed(s), titles', occs')
  BY <1>1, <1>2, <1>10, CarefulAfterFlush
<1>12. /\ m.pc = "flush" /\ m.sTitles = s.sTitles /\ m.sOccs = s.sOccs
       /\ m.pendO \subseteq s.pendO /\ m.left = s.left
       /\ m.work = s.work /\ m.chunk = s.chunk /\ m.checked = s.checked
  BY <1>1, <1>2 DEF Orderly, Memory
<1> HIDE DEF m
<1>13. Careful(m, titles', occs')
  BY <1>1, <1>10, <1>12 DEF Careful, Guarded
<1>14. Continue(r, answer, m, FlushFailed(s))
  BY <1>3 DEF m, s
<1> QED BY <1>1, <1>8, <1>11, <1>13, <1>14, WatchContinued DEF FInv, Alone

LEMMA EndFlushFlags ==
    ASSUME FInv, NEW r \in Runs, EndFlush(r)
    PROVE  FlagsCoverScannedEntries' /\ Watched'
<1>1. /\ run' = [run EXCEPT ![r] = AfterFlush(run[r])] /\ titles' = titles /\ occs' = occs
      /\ run[r].pc = "flush" /\ Active(r)
  BY DEF EndFlush, catalog, Active
<1>2. Orderly(run[r]) /\ Careful(run[r], titles, occs)
  BY <1>1 DEF FInv, IInv, Remembered, Watched
<1>3. Careful(AfterFlush(run[r]), titles', occs')
  BY <1>1, <1>2, CarefulAfterFlush
<1> QED BY <1>1, <1>3, WatchKept, QuietFlags DEF FInv, Alone, catalog

-----------------------------------------------------------------------------
(* Flags: the audit *)

LEMMA ListTitlesFlags ==
    ASSUME FInv, ~Chaining, NEW r \in Runs, ListTitles(r)
    PROVE  FlagsCoverScannedEntries' /\ Watched'
<1> DEFINE s == run[r]
           own == IF s.mode = "all" /\ ~Chaining
                  THEN {t \in Titles : s.sTitles[t] # UnreadTitle} ELSE {}
           work == {t \in Titles \ own : titles[t] # NoTitle /\ titles[t].flag # "yes"}
           listed == [s EXCEPT !.work = work, !.shown = titles]
<1>1. /\ titles' = titles /\ occs' = occs /\ s.pc = "list" /\ Active(r)
      /\ titles \in [Titles -> TitleDoc]
  BY DEF ListTitles, catalog, Active, FInv, IInv, Stored
<1>2. Orderly(s) /\ Careful(s, titles, occs)
  BY <1>1 DEF FInv, IInv, Remembered, Watched
<1>3. PICK answer \in ReadAnswers : Continue(r, answer, NextChunk(listed), Finalize(s))
  BY DEF ListTitles
<1>4. \A t \in work : titles[t] # NoTitle /\ s.sTitles[t] = UnreadTitle
  BY <1>1, <1>2 DEF Careful
<1>5. work \in SUBSET Titles
  OBVIOUS
<1> HIDE DEF work, s
<1>6. Orderly(listed)
  <2>1. listed \in Memory
    BY <1>1, <1>2, <1>5 DEF Orderly, Memory
  <2> QED BY <1>1, <1>2, <1>4, <2>1 DEF Orderly, Memory
<1>7. /\ listed.pc = "list" /\ listed.sTitles = s.sTitles /\ listed.sOccs = s.sOccs
      /\ listed.pendT = s.pendT /\ listed.pendO = s.pendO
      /\ listed.work = work /\ listed.chunk = {} /\ listed.checked = {}
  BY <1>1, <1>2 DEF Orderly, Memory
<1>8. ASSUME work = {} PROVE Careful(NextChunk(listed), titles, occs)
  <2>1. Careful(listed, titles, occs)
    <3>1. listed.mode = s.mode
      BY <1>2 DEF Orderly, Memory, listed
    <3> QED BY <1>1, <1>2, <1>7, <1>8, <3>1 DEF Careful, Guarded
  <2> QED BY <1>6, <2>1, CarefulNextChunk
<1>9. ASSUME work # {} PROVE Careful(NextChunk(listed), titles, occs)
  <2> DEFINE m == NextChunk(listed)
  <2>1. /\ m.sTitles = s.sTitles /\ m.sOccs = s.sOccs /\ m.pendT = s.pendT /\ m.pendO = s.pendO
        /\ m.pc = "chunk" /\ m.work = work /\ m.chunk = {} /\ m.checked = {}
        /\ \A k \in Keys : m.seen[k] = NoOcc
    BY <1>6, <1>7, <1>9 DEF NextChunk, Orderly, Memory
  <2> HIDE DEF m
  <2>2. Careful(m, titles, occs)
    BY <1>2, <1>4, <2>1, Kept, CarefulKept
  <2> QED BY <2>2 DEF m
<1>10. Careful(NextChunk(listed), titles', occs') /\ Careful(Finalize(s), titles', occs')
  BY <1>1, <1>2, <1>8, <1>9, CarefulFinalize
<1> QED BY <1>1, <1>3, <1>10, WatchContinued, QuietFlags DEF FInv, Alone, catalog

LEMMA NextBatchFlags ==
    ASSUME FInv, NEW r \in Runs, NextBatch(r)
    PROVE  FlagsCoverScannedEntries' /\ Watched'
<1> DEFINE s == run[r]
<1>1. /\ titles' = titles /\ occs' = occs /\ s.pc = "chunk" /\ Active(r)
  BY DEF NextBatch, catalog, Active
<1>2. Orderly(s) /\ Careful(s, titles, occs)
  BY <1>1 DEF FInv, IInv, Remembered, Watched
<1>3. PICK batch \in SUBSET s.work :
        run' = [run EXCEPT ![r] = [s EXCEPT !.pc = "read", !.work = @ \ batch, !.chunk = batch]]
  BY DEF NextBatch
<1> DEFINE m == [s EXCEPT !.pc = "read", !.work = @ \ batch, !.chunk = batch]
<1> HIDE DEF s
<1>4. /\ m.sTitles = s.sTitles /\ m.sOccs = s.sOccs /\ m.pendT = s.pendT /\ m.pendO = s.pendO
      /\ m.pc = "read" /\ m.work = s.work \ batch /\ m.chunk = batch /\ m.checked = s.checked
      /\ m.seen = s.seen
  BY <1>2 DEF Orderly, Memory
<1>5. run' = [run EXCEPT ![r] = m]
  BY <1>3
<1> HIDE DEF m
<1>6. \A k \in Keys : m.seen[k] # NoOcc => occs[k] # NoOcc /\ occs[k].raw = m.seen[k].raw
  BY <1>1, <1>2, <1>4 DEF Careful
<1>7. Careful(m, titles, occs)
  BY <1>2, <1>4, <1>6, Kept, CarefulKept
<1>8. Careful(m, titles', occs')
  BY <1>1, <1>7
<1> QED BY <1>1, <1>5, <1>8, WatchKept, QuietFlags DEF FInv, Alone, catalog

(* What is read is as it is stored. *)
LEMMA ReadTitleFlags ==
    ASSUME FInv, NEW r \in Runs, ReadTitle(r)
    PROVE  FlagsCoverScannedEntries' /\ Watched'
<1> DEFINE s == run[r]
<1>1. /\ titles' = titles /\ occs' = occs /\ s.pc = "read" /\ Active(r)
  BY DEF ReadTitle, catalog, Active
<1>2. Orderly(s) /\ Careful(s, titles, occs)
  BY <1>1 DEF FInv, IInv, Remembered, Watched
<1>3. PICK t \in s.chunk, answer \in ReadAnswers :
        \E asked, checked :
          /\ checked \in {s.checked, s.checked \cup {t}}
          /\ Continue(r, answer,
                   AfterRead([s EXCEPT
                      !.chunk = @ \ {t},
                      !.seen = [k \in Keys |-> IF k[1] = t THEN occs[k] ELSE @[k]],
                      !.asked = asked, !.checked = checked]),
                   Finalize(s))
  BY DEF ReadTitle
<1>4. PICK asked, checked :
          /\ checked \in {s.checked, s.checked \cup {t}}
          /\ Continue(r, answer,
                   AfterRead([s EXCEPT
                      !.chunk = @ \ {t},
                      !.seen = [k \in Keys |-> IF k[1] = t THEN occs[k] ELSE @[k]],
                      !.asked = asked, !.checked = checked]),
                   Finalize(s))
  BY <1>3
<1> DEFINE seen == [k \in Keys |-> IF k[1] = t THEN occs[k] ELSE s.seen[k]]
           next == [s EXCEPT !.chunk = @ \ {t}, !.seen = seen, !.asked = asked, !.checked = checked]
           m == AfterRead(next)
<1>5. \A k \in Keys : seen[k] # NoOcc => occs[k] # NoOcc /\ occs[k].raw = seen[k].raw
  BY <1>1, <1>2 DEF Careful
<1>6. Continue(r, answer, m, Finalize(s))
  BY <1>4
<1> HIDE DEF seen, s
<1>7. /\ m.sTitles = s.sTitles /\ m.sOccs = s.sOccs /\ m.pendT = s.pendT /\ m.pendO = s.pendO
      /\ m.pc \in {"read", "logs", "ask"} /\ m.work = s.work /\ m.chunk = s.chunk \ {t}
      /\ m.checked = checked /\ m.seen = seen
  BY <1>1, <1>2 DEF Orderly, Memory, AfterRead
<1> HIDE DEF m
<1>8. \A u \in m.work \cup m.chunk \cup m.checked : s.sTitles[u] = UnreadTitle
  BY <1>2, <1>4, <1>7 DEF Careful
<1>9. Careful(m, titles, occs)
  BY <1>2, <1>5, <1>7, <1>8, Kept, CarefulKept
<1>10. Careful(m, titles', occs') /\ Careful(Finalize(s), titles', occs')
  BY <1>1, <1>2, <1>9, CarefulFinalize
<1> QED BY <1>1, <1>6, <1>10, WatchContinued, QuietFlags DEF FInv, Alone, catalog

LEMMA AskAiFlags ==
    ASSUME FInv, NEW r \in Runs, AskAi(r)
    PROVE  FlagsCoverScannedEntries' /\ Watched'
<1> DEFINE s == run[r]
<1>1. /\ titles' = titles /\ occs' = occs /\ s.pc = "ask" /\ Active(r)
  BY DEF AskAi, catalog, Active
<1>2. Orderly(s) /\ Careful(s, titles, occs)
  BY <1>1 DEF FInv, IInv, Remembered, Watched
<1>3. \/ \E wrong, stamps : run' = [run EXCEPT ![r] = [s EXCEPT !.pc = "act", !.wrong = wrong, !.stamps = stamps]]
      \/ run' = [run EXCEPT ![r] = [s EXCEPT !.pc = "logs", !.work = {}, !.checked = {}]]
  BY DEF AskAi
<1> HIDE DEF s
<1>4. ASSUME NEW m, run' = [run EXCEPT ![r] = m],
             m.sTitles = s.sTitles, m.sOccs = s.sOccs, m.pendT = s.pendT, m.pendO = s.pendO,
             m.pc \in {"act", "logs"}, m.work \subseteq s.work, m.chunk = s.chunk,
             m.checked \subseteq s.checked, m.seen = s.seen
      PROVE  Watched'
  <2>1. \A k \in Keys : m.seen[k] # NoOcc => occs[k] # NoOcc /\ occs[k].raw = m.seen[k].raw
    BY <1>1, <1>2, <1>4 DEF Careful
  <2>2. \A u \in m.work \cup m.chunk \cup m.checked : s.sTitles[u] = UnreadTitle
    BY <1>2, <1>4 DEF Careful
  <2>3. Careful(m, titles, occs)
    BY <1>2, <1>4, <2>1, <2>2, Kept, CarefulKept
  <2>4. Careful(m, titles', occs')
    BY <1>1, <2>3
  <2> QED BY <1>1, <1>4, <2>4, WatchKept DEF FInv, Alone
<1>5. ASSUME NEW wrong, NEW stamps,
             run' = [run EXCEPT ![r] = [s EXCEPT !.pc = "act", !.wrong = wrong, !.stamps = stamps]]
      PROVE  Watched'
  <2> DEFINE m == [s EXCEPT !.pc = "act", !.wrong = wrong, !.stamps = stamps]
  <2>1. /\ m.sTitles = s.sTitles /\ m.sOccs = s.sOccs /\ m.pendT = s.pendT /\ m.pendO = s.pendO
        /\ m.pc = "act" /\ m.work = s.work /\ m.chunk = s.chunk /\ m.checked = s.checked /\ m.seen = s.seen
    BY <1>2 DEF Orderly, Memory
  <2>2. run' = [run EXCEPT ![r] = m]
    BY <1>5
  <2> HIDE DEF m
  <2> QED BY <1>4, <2>1, <2>2
<1>6. ASSUME run' = [run EXCEPT ![r] = [s EXCEPT !.pc = "logs", !.work = {}, !.checked = {}]]
      PROVE  Watched'
  <2> DEFINE m == [s EXCEPT !.pc = "logs", !.work = {}, !.checked = {}]
  <2>1. /\ m.sTitles = s.sTitles /\ m.sOccs = s.sOccs /\ m.pendT = s.pendT /\ m.pendO = s.pendO
        /\ m.pc = "logs" /\ m.work = {} /\ m.chunk = s.chunk /\ m.checked = {} /\ m.seen = s.seen
    BY <1>2 DEF Orderly, Memory
  <2>2. run' = [run EXCEPT ![r] = m]
    BY <1>6
  <2> HIDE DEF m
  <2> QED BY <1>4, <2>1, <2>2
<1> QED BY <1>1, <1>3, <1>5, <1>6, QuietFlags DEF FInv, catalog

(* A stamp is written over the occurrence that was read, and takes none     *)
(* away.                                                                    *)
LEMMA WriteStampFlags ==
    ASSUME FInv, NEW r \in Runs, WriteStamp(r)
    PROVE  FlagsCoverScannedEntries' /\ Watched'
<1> DEFINE s == run[r]
<1>1. /\ titles' = titles /\ s.pc = "act" /\ Active(r) /\ occs \in [Keys -> OccDoc]
  BY DEF WriteStamp, Active, FInv, IInv, Stored
<1>2. Orderly(s) /\ Careful(s, titles, occs)
  BY <1>1 DEF FInv, IInv, Remembered, Watched
<1>3. PICK k \in s.stamps, answer \in Answers :
          /\ UpsertOccurrence(answer, k, [s.seen[k] EXCEPT !.stamp = TRUE])
          /\ Continue(r, answer, Acted([s EXCEPT !.stamps = @ \ {k}]), Finalize(s))
  BY DEF WriteStamp
<1> DEFINE doc == [s.seen[k] EXCEPT !.stamp = TRUE]
           next == [s EXCEPT !.stamps = @ \ {k}]
           m == Acted(next)
<1>4. k \in Keys /\ s.seen[k] # NoOcc /\ s.seen[k] \in OccDoc
  BY <1>2 DEF Orderly, Memory
<1>5. occs[k] # NoOcc /\ occs[k].raw = s.seen[k].raw
  BY <1>1, <1>2, <1>4 DEF Careful
<1> HIDE DEF s
<1>6. doc.raw = s.seen[k].raw /\ doc.stamp
  BY <1>4 DEF OccDoc
<1> HIDE DEF doc
<1>7. /\ MergeOccurrences(occs[k], doc).raw = occs[k].raw
      /\ MergeOccurrences(occs[k], doc).stamp
  BY <1>5, <1>6 DEF MergeOccurrences
<1>8. /\ \A j \in Keys \ {k} : occs'[j] = occs[j]
      /\ occs'[k] = occs[k] \/ occs'[k] = MergeOccurrences(occs[k], doc)
  BY <1>1, <1>3, <1>4 DEF UpsertOccurrence, doc
<1>9. MergeOccurrences(occs[k], doc) # NoOcc
  BY <1>7 DEF NoOcc
<1>10. \A j \in Keys : /\ occs'[j] # NoOcc <=> occs[j] # NoOcc
                       /\ occs'[j].raw = occs[j].raw
                       /\ occs[j].stamp => occs'[j].stamp
  BY <1>5, <1>7, <1>8, <1>9
<1>11. FlagsCoverScannedEntries'
  BY <1>1, <1>10, FlagsCovered DEF FInv, Covers, Scanned
<1>12. Careful(s, titles', occs')
  BY <1>1, <1>2, <1>10 DEF Careful, Scanned
<1>13. /\ m.sTitles = s.sTitles /\ m.sOccs = s.sOccs /\ m.pendT = s.pendT /\ m.pendO = s.pendO
       /\ m.pc \in {"act", "logs"} /\ m.work = s.work /\ m.chunk = s.chunk
       /\ m.checked = s.checked /\ m.seen = s.seen
  BY <1>1, <1>2 DEF Orderly, Memory, Acted
<1>14. Continue(r, answer, m, Finalize(s))
  BY <1>3 DEF s
<1> HIDE DEF m
<1>15. \A j \in Keys : m.seen[j] # NoOcc => occs'[j] # NoOcc /\ occs'[j].raw = m.seen[j].raw
  BY <1>1, <1>12, <1>13 DEF Careful
<1>16. Careful(m, titles', occs')
  BY <1>2, <1>12, <1>13, <1>15, Kept, CarefulKept
<1>17. Careful(Finalize(s), titles', occs')
  BY <1>2, <1>12, CarefulFinalize
<1> QED BY <1>1, <1>11, <1>14, <1>16, <1>17, WatchContinued DEF FInv, Alone

LEMMA WriteProposalFlags ==
    ASSUME FInv, NEW r \in Runs, WriteProposal(r)
    PROVE  FlagsCoverScannedEntries' /\ Watched'
<1> DEFINE s == run[r]
<1>1. /\ titles' = titles /\ occs' = occs /\ s.pc = "act" /\ Active(r)
  BY DEF WriteProposal, catalog, Active
<1>2. Orderly(s) /\ Careful(s, titles, occs)
  BY <1>1 DEF FInv, IInv, Remembered, Watched
<1>3. PICK c \in s.wrong, answer \in Answers :
        Continue(r, answer, Acted([s EXCEPT !.wrong = @ \ {c}]), Finalize(s))
  BY DEF WriteProposal
<1> DEFINE next == [s EXCEPT !.wrong = @ \ {c}]
           m == Acted(next)
<1> HIDE DEF s
<1>4. /\ m.sTitles = s.sTitles /\ m.sOccs = s.sOccs /\ m.pendT = s.pendT /\ m.pendO = s.pendO
      /\ m.pc \in {"act", "logs"} /\ m.work = s.work /\ m.chunk = s.chunk
      /\ m.checked = s.checked /\ m.seen = s.seen
  BY <1>1, <1>2 DEF Orderly, Memory, Acted
<1>5. Continue(r, answer, m, Finalize(s))
  BY <1>3 DEF s
<1> HIDE DEF m
<1>6. \A j \in Keys : m.seen[j] # NoOcc => occs[j] # NoOcc /\ occs[j].raw = m.seen[j].raw
  BY <1>1, <1>2, <1>4 DEF Careful
<1>7. Careful(m, titles, occs)
  BY <1>2, <1>4, <1>6, Kept, CarefulKept
<1>8. Careful(m, titles', occs') /\ Careful(Finalize(s), titles', occs')
  BY <1>1, <1>2, <1>7, CarefulFinalize
<1> QED BY <1>1, <1>5, <1>8, WatchContinued, QuietFlags DEF FInv, Alone, catalog

LEMMA FlushReviewLogsFlags ==
    ASSUME FInv, NEW r \in Runs, FlushReviewLogs(r)
    PROVE  FlagsCoverScannedEntries' /\ Watched'
<1> DEFINE s == run[r]
           m == [s EXCEPT !.pc = "check"]
<1>1. /\ titles' = titles /\ occs' = occs /\ s.pc = "logs" /\ Active(r)
  BY DEF FlushReviewLogs, catalog, Active
<1>2. Orderly(s) /\ Careful(s, titles, occs)
  BY <1>1 DEF FInv, IInv, Remembered, Watched
<1>3. PICK answer \in Answers : Continue(r, answer, m, Finalize(s))
  BY DEF FlushReviewLogs
<1> HIDE DEF s
<1>4. /\ m.sTitles = s.sTitles /\ m.sOccs = s.sOccs /\ m.pendT = s.pendT /\ m.pendO = s.pendO
      /\ m.pc = "check" /\ m.work = s.work /\ m.chunk = s.chunk /\ m.checked = s.checked
  BY <1>2 DEF Orderly, Memory
<1> HIDE DEF m
<1>5. Careful(m, titles, occs)
  BY <1>2, <1>4, Kept, CarefulKept
<1>6. Careful(m, titles', occs') /\ Careful(Finalize(s), titles', occs')
  BY <1>1, <1>2, <1>5, CarefulFinalize
<1> QED BY <1>1, <1>3, <1>6, WatchContinued, QuietFlags DEF FInv, Alone, catalog

(* A title is to be flagged when all its occurrences are stamped. *)
LEMMA CheckTitleFlags ==
    ASSUME FInv, NEW r \in Runs, CheckTitle(r)
    PROVE  FlagsCoverScannedEntries' /\ Watched'
<1> DEFINE s == run[r]
<1>1. /\ titles' = titles /\ occs' = occs /\ s.pc = "check" /\ Active(r)
  BY DEF CheckTitle, catalog, Active
<1>2. Orderly(s) /\ Careful(s, titles, occs)
  BY <1>1 DEF FInv, IInv, Remembered, Watched
<1>3. PICK t \in s.checked, answer \in ReadAnswers :
          LET rest == [s EXCEPT !.checked = @ \ {t}]
              all == Under(t, occs)
          IN
          Continue(r, answer,
                   IF all # {} /\ AllStamped(t, all, occs)
                   THEN [rest EXCEPT !.pc = "flag", !.title = t] ELSE rest,
                   Finalize(s))
  BY DEF CheckTitle
<1> DEFINE rest == [s EXCEPT !.checked = @ \ {t}]
           flag == [rest EXCEPT !.pc = "flag", !.title = t]
           m == IF AllStamped(t, Under(t, occs), occs) /\ Under(t, occs) # {} THEN flag ELSE rest
<1>4. Continue(r, answer, m, Finalize(s))
  BY <1>3
<1> HIDE DEF s
<1>5. s.sTitles[t] = UnreadTitle
  BY <1>2, Kept
<1>6. /\ rest.sTitles = s.sTitles /\ rest.sOccs = s.sOccs /\ rest.pendT = s.pendT
      /\ rest.pendO = s.pendO /\ rest.pc = "check" /\ rest.work = s.work
      /\ rest.chunk = s.chunk /\ rest.checked = s.checked \ {t}
  BY <1>1, <1>2 DEF Orderly, Memory
<1>7. /\ flag.sTitles = s.sTitles /\ flag.sOccs = s.sOccs /\ flag.pendT = s.pendT
      /\ flag.pendO = s.pendO /\ flag.pc = "flag" /\ flag.title = t /\ flag.work = s.work
      /\ flag.chunk = s.chunk /\ flag.checked = s.checked \ {t}
  BY <1>2 DEF Orderly, Memory
<1> HIDE DEF rest, flag
<1>8. Careful(rest, titles, occs)
  BY <1>2, <1>6, Kept, CarefulKept
<1>9. AllStamped(t, Under(t, occs), occs) => Careful(flag, titles, occs)
  BY <1>2, <1>5, <1>7, Kept, CarefulKept
<1>10. Careful(m, titles', occs') /\ Careful(Finalize(s), titles', occs')
  BY <1>1, <1>2, <1>8, <1>9, CarefulFinalize
<1> HIDE DEF m
<1> QED BY <1>1, <1>4, <1>10, WatchContinued, QuietFlags DEF FInv, Alone, catalog, s

(* The title is not one that the run has staged, so no copy of its          *)
(* occurrences is still to be written.                                      *)
LEMMA FlagTitleFlags ==
    ASSUME FInv, NEW r \in Runs, FlagTitle(r)
    PROVE  FlagsCoverScannedEntries' /\ Watched'
<1> DEFINE s == run[r]
           t == s.title
           doc == [s.shown[t] EXCEPT !.flag = "yes"]
           m == [s EXCEPT !.pc = "check"]
<1>1. /\ occs' = occs /\ s.pc = "flag" /\ Active(r) /\ titles \in [Titles -> TitleDoc]
  BY DEF FlagTitle, Active, FInv, IInv, Stored
<1>2. Orderly(s) /\ Careful(s, titles, occs)
  BY <1>1 DEF FInv, IInv, Remembered, Watched
<1>3. PICK answer \in Answers :
        UpsertTitle(answer, t, doc) /\ Continue(r, answer, m, Finalize(s))
  BY DEF FlagTitle
<1>4. t \in Titles /\ s.sTitles[t] = UnreadTitle /\ AllStamped(t, Under(t, occs), occs)
  BY <1>1, <1>2 DEF Orderly, Careful
<1> HIDE DEF s, t, doc
<1>5. \A u \in Titles \ {t} : titles'[u] = titles[u]
  BY <1>1, <1>3, <1>4 DEF UpsertTitle
<1>6. FlagsCoverScannedEntries'
  <2>1. ASSUME NEW k \in Scanned, titles'[k[1]].flag = "yes", occs'[k] # NoOcc PROVE occs'[k].stamp
    <3>1. k[1] \in Titles /\ k[2] \in Items /\ k = <<k[1], k[2]>>
      BY DEF Scanned, Keys
    <3>2. CASE k[1] = t
      BY <1>1, <1>4, <2>1, <3>1, <3>2 DEF AllStamped, Under
    <3>3. CASE k[1] # t
      BY <1>1, <1>5, <2>1, <3>1, <3>3, FlagsCovered DEF FInv, Covers
    <3> QED BY <3>2, <3>3
  <2> QED BY <2>1, FlagsCovered DEF Covers
<1>7. Careful([s EXCEPT !.pc = "check"], titles, occs)
  <2>1. /\ m.sTitles = s.sTitles /\ m.sOccs = s.sOccs /\ m.pendT = s.pendT /\ m.pendO = s.pendO
        /\ m.pc = "check" /\ m.work = s.work /\ m.chunk = s.chunk /\ m.checked = s.checked
    BY <1>2 DEF Orderly, Memory
  <2> HIDE DEF m
  <2>2. Careful(m, titles, occs)
    BY <1>2, <2>1, Kept, CarefulKept
  <2> QED BY <2>2 DEF m
<1>8. ASSUME NEW b, Careful(b, titles, occs), b.sTitles[t] = UnreadTitle, b.pc # "flag",
             b.pendO \subseteq Keys
      PROVE  Careful(b, titles', occs')
  <2>1. \A u \in Titles : b.sTitles[u] # UnreadTitle /\ b.sTitles[u].flag = "yes" => titles'[u].flag = "yes"
    BY <1>5, <1>8 DEF Careful
  <2>2. ASSUME NEW k \in Scanned, k \in b.pendO, ~b.sOccs[k].stamp PROVE Guarded(b, titles', k[1])
    <3>1. k[1] \in Titles \ {t}
      BY <1>8, <2>2 DEF Careful, Scanned, Keys
    <3>2. Guarded(b, titles, k[1])
      BY <1>8, <2>2 DEF Careful
    <3> QED BY <1>5, <3>1, <3>2 DEF Guarded
  <2> QED BY <1>1, <1>8, <2>1, <2>2 DEF Careful
<1>9. m.sTitles[t] = UnreadTitle /\ m.pc # "flag" /\ m.pendO \subseteq Keys
  BY <1>2, <1>4 DEF Orderly, Memory
<1>10. Careful(m, titles', occs')
  BY <1>7, <1>8, <1>9
<1>11. Careful(Finalize(s), titles', occs')
  <2> DEFINE end == Finalize(s)
  <2>1. end.sTitles[t] = UnreadTitle /\ end.pc # "flag" /\ end.pendO \subseteq Keys
    <3>1. s.sTitles[t] = UnreadTitle /\ s.pendO \subseteq Keys
      BY <1>2, <1>4 DEF Orderly, Memory
    <3>2. CASE s.pendT \cup s.pendO = {}
      BY <1>4, <3>2 DEF Finalize, Blank
    <3>3. CASE s.pendT \cup s.pendO # {}
      BY <3>1, <3>3 DEF Finalize, Flush, Blank
    <3> QED BY <3>2, <3>3
  <2>2. Careful(end, titles, occs)
    BY <1>2, CarefulFinalize
  <2> HIDE DEF end
  <2>3. Careful(end, titles', occs')
    BY <1>8, <2>1, <2>2
  <2> QED BY <2>3 DEF end
<1> HIDE DEF m
<1> QED BY <1>1, <1>3, <1>6, <1>10, <1>11, WatchContinued DEF FInv, Alone, s

LEMMA BatchCheckedFlags ==
    ASSUME FInv, NEW r \in Runs, BatchChecked(r)
    PROVE  FlagsCoverScannedEntries' /\ Watched'
<1>1. /\ run' = [run EXCEPT ![r] = NextChunk(run[r])] /\ titles' = titles /\ occs' = occs
      /\ Active(r)
  BY DEF BatchChecked, catalog, Active
<1>2. Orderly(run[r]) /\ Careful(run[r], titles, occs)
  BY <1>1 DEF FInv, IInv, Remembered, Watched
<1>3. Careful(NextChunk(run[r]), titles', occs')
  BY <1>1, <1>2, CarefulNextChunk
<1> QED BY <1>1, <1>3, WatchKept, QuietFlags DEF FInv, Alone, catalog

-----------------------------------------------------------------------------
(* Flags: reparsing and repairs *)

(* Reparsing says nothing of the flag, so the flag stays as it is. *)
LEMMA ReparseTitleFlags ==
    ASSUME FInv, NEW r \in Runs, ReparseTitle(r)
    PROVE  FlagsCoverScannedEntries' /\ Watched'
<1> DEFINE s == run[r]
<1>1. /\ occs' = occs /\ s.pc = "reparse" /\ Active(r) /\ titles \in [Titles -> TitleDoc]
  BY DEF ReparseTitle, Active, FInv, IInv, Stored
<1>2. Orderly(s) /\ Careful(s, titles, occs)
  BY <1>1 DEF FInv, IInv, Remembered, Watched
<1>3. PICK i \in Retryable \ s.entries, t \in Titles, meta \in Metadata, answer \in Answers :
          LET next == [s EXCEPT !.entries = @ \cup {i}] IN
          /\ UpsertTitle(answer, t, [meta |-> meta, flag |-> "unset"])
          /\ Continue(r, answer,
                      [next EXCEPT !.pc = "reparseOcc", !.title = t, !.item = i], next)
  BY DEF ReparseTitle
<1> DEFINE next == [s EXCEPT !.entries = @ \cup {i}]
           file == [next EXCEPT !.pc = "reparseOcc", !.title = t, !.item = i]
<1>4. Continue(r, answer, file, next)
  BY <1>3
<1> HIDE DEF s
<1>5. \A u \in Titles : titles'[u].flag = titles[u].flag
  <2>1. MergeTitles(titles[t], [meta |-> meta, flag |-> "unset"]).flag = titles[t].flag
    BY DEF MergeTitles
  <2>2. \A u \in Titles :
          \/ titles'[u] = titles[u]
          \/ u = t /\ titles'[u] = MergeTitles(titles[t], [meta |-> meta, flag |-> "unset"])
    BY <1>1, <1>3 DEF UpsertTitle
  <2> QED BY <2>1, <2>2
<1>6. FlagsCoverScannedEntries'
  BY <1>1, <1>5, NoNewFlags DEF FInv
<1>7. Careful(s, titles', occs')
  <2>1. \A k \in Scanned : Guarded(s, titles, k[1]) => Guarded(s, titles', k[1])
    BY <1>5 DEF Guarded, Scanned, Keys
  <2> QED BY <1>1, <1>2, <1>5, <2>1 DEF Careful
<1>8. /\ next.sTitles = s.sTitles /\ next.sOccs = s.sOccs /\ next.pendT = s.pendT
      /\ next.pendO = s.pendO /\ next.pc = "reparse" /\ next.work = s.work
      /\ next.chunk = s.chunk /\ next.checked = s.checked
  BY <1>1, <1>2 DEF Orderly, Memory
<1>9. /\ file.sTitles = s.sTitles /\ file.sOccs = s.sOccs /\ file.pendT = s.pendT
      /\ file.pendO = s.pendO /\ file.pc = "reparseOcc" /\ file.item = i /\ file.work = s.work
      /\ file.chunk = s.chunk /\ file.checked = s.checked
  BY <1>2 DEF Orderly, Memory
<1> HIDE DEF next, file
<1>10. Careful(next, titles', occs')
  BY <1>2, <1>7, <1>8, Kept, CarefulKept
<1>11. Careful(file, titles', occs')
  BY <1>2, <1>7, <1>9, Kept, CarefulKept
<1> QED BY <1>1, <1>4, <1>6, <1>10, <1>11, WatchContinued DEF FInv, Alone

(* It files only entries that the flag does not speak of. *)
LEMMA ReparseOccurrenceFlags ==
    ASSUME FInv, NEW r \in Runs, ReparseOccurrence(r)
    PROVE  FlagsCoverScannedEntries' /\ Watched'
<1> DEFINE s == run[r]
           k == <<s.title, s.item>>
           next == [s EXCEPT !.pc = "reparse"]
<1>1. /\ titles' = titles /\ s.pc = "reparseOcc" /\ Active(r) /\ occs \in [Keys -> OccDoc]
  BY DEF ReparseOccurrence, Active, FInv, IInv, Stored
<1>2. Orderly(s) /\ Careful(s, titles, occs)
  BY <1>1 DEF FInv, IInv, Remembered, Watched
<1>3. PICK raw \in RawTitles, answer \in Answers :
          /\ UpsertOccurrence(answer, k, [raw |-> raw, stamp |-> FALSE])
          /\ Continue(r, answer, next, next)
  BY DEF ReparseOccurrence
<1>4. s.item \in Retryable
  BY <1>1, <1>2 DEF Careful
<1> HIDE DEF s
<1>5. \A j \in Scanned : occs'[j] = occs[j]
  BY <1>1, <1>3, <1>4 DEF UpsertOccurrence, Scanned
<1>6. FlagsCoverScannedEntries'
  BY <1>1, <1>5, FlagsCovered DEF FInv, Covers
<1>7. /\ next.sTitles = s.sTitles /\ next.sOccs = s.sOccs /\ next.pendT = s.pendT
      /\ next.pendO = s.pendO /\ next.pc = "reparse" /\ next.work = s.work
      /\ next.chunk = s.chunk /\ next.checked = s.checked
  BY <1>1, <1>2 DEF Orderly, Memory
<1> HIDE DEF next
<1>8. Careful(next, titles, occs)
  BY <1>2, <1>7, Kept, CarefulKept
<1>9. Careful(next, titles', occs')
  BY <1>1, <1>5, <1>7, <1>8 DEF Careful
<1> QED BY <1>1, <1>3, <1>6, <1>9, WatchContinued DEF FInv, Alone

(* Both titles lose their flag, and all other titles stay. *)
LEMMA ApplyProposalFlags ==
    ASSUME FInv, NEW r \in Runs, ApplyProposal(r)
    PROVE  FlagsCoverScannedEntries' /\ Watched'
<1> DEFINE s == run[r]
<1>1. /\ run' = run /\ s.pc = "apply" /\ Active(r) /\ titles \in [Titles -> TitleDoc]
      /\ proposals \subseteq Proposals /\ Solo
  BY DEF ApplyProposal, Active, FInv, IInv, Stored, Bounded, Alone
<1>2. Careful(s, titles, occs)
  BY <1>1 DEF FInv, Watched
<1> HIDE DEF s
<1>3. Careful(s, titles', occs')
  BY <1>1, <1>2 DEF Careful, Scanned
<1>4. Watched'
  <2>1. \A q \in Runs : Active(q) => q = r
    BY <1>1 DEF Solo
  <2>2. \A q \in Runs : Active(q) => Careful(run[q], titles', occs')
    BY <1>3, <2>1 DEF s
  <2>3. (\A q \in Runs : Active(q) => Careful(run[q], titles, occs))'
    BY <1>1, <2>2 DEF Active, Careful, Guarded, AllStamped, Under
  <2> QED BY <2>3 DEF Watched
<1>5. PICK p \in proposals :
          LET source == p.cluster[1]
              moved == {<<source, i>> : i \in p.items}
              current == titles[source].meta = p.meta
                           /\ \A k \in moved : occs[k].raw = p.cluster[2]
              emptied == Under(source, occs) = p.items
          IN
          /\ proposals' = proposals \ {p}
          /\ IF ~current THEN UNCHANGED catalog
             ELSE /\ occs' = [k \in Keys |->
                        IF k \in moved THEN NoOcc
                        ELSE IF k[1] = p.target /\ k[2] \in p.items
                        THEN MergeOccurrences(occs[k], occs[<<source, k[2]>>])
                        ELSE occs[k]]
                  /\ titles' = [titles EXCEPT
                        ![p.target] = [meta |-> p.as, flag |-> "no"],
                        ![source] = IF emptied THEN NoTitle ELSE [@ EXCEPT !.flag = "no"]]
  BY DEF ApplyProposal
<1> DEFINE source == p.cluster[1]
           moved == {<<source, i>> : i \in p.items}
           emptied == Under(source, occs) = p.items
<1>6. source \in Titles /\ p.target \in Titles
  BY <1>1, <1>5 DEF Proposals, Clusters
<1>7. \/ UNCHANGED catalog
      \/ /\ occs' = [k \in Keys |->
                        IF k \in moved THEN NoOcc
                        ELSE IF k[1] = p.target /\ k[2] \in p.items
                        THEN MergeOccurrences(occs[k], occs[<<source, k[2]>>])
                        ELSE occs[k]]
         /\ titles' = [titles EXCEPT
                        ![p.target] = [meta |-> p.as, flag |-> "no"],
                        ![source] = IF emptied THEN NoTitle ELSE [@ EXCEPT !.flag = "no"]]
  BY <1>5
<1>8. ASSUME occs' = [k \in Keys |->
                        IF k \in moved THEN NoOcc
                        ELSE IF k[1] = p.target /\ k[2] \in p.items
                        THEN MergeOccurrences(occs[k], occs[<<source, k[2]>>])
                        ELSE occs[k]],
             titles' = [titles EXCEPT
                        ![p.target] = [meta |-> p.as, flag |-> "no"],
                        ![source] = IF emptied THEN NoTitle ELSE [@ EXCEPT !.flag = "no"]]
      PROVE  FlagsCoverScannedEntries'
  <2> DEFINE target == p.target
             named == [meta |-> p.as, flag |-> "no"]
  <2>1. \A d \in {titles[source], named} : [d EXCEPT !.flag = "no"].flag = "no"
    <3>1. \A d \in TitleDoc : [d EXCEPT !.flag = "no"].flag = "no"
      BY DEF TitleDoc, NoTitle
    <3> QED BY <1>1, <1>6, <3>1
  <2>2. NoTitle.flag # "yes" /\ named.flag # "yes"
    BY DEF NoTitle
  <2>3. titles'[source].flag # "yes"
    <3>1. \E d \in {titles[source], named} :
            titles'[source] = IF emptied THEN NoTitle ELSE [d EXCEPT !.flag = "no"]
      <4> HIDE DEF emptied, named, source
      <4> QED BY <1>1, <1>6, <1>8 DEF named
    <3> HIDE DEF emptied, named, source
    <3> QED BY <2>1, <2>2, <3>1
  <2>4. titles'[target].flag # "yes"
    <3>1. CASE target = source
      BY <2>3, <3>1
    <3>2. CASE target # source
      BY <1>1, <1>6, <1>8, <2>2, <3>2
    <3> QED BY <3>1, <3>2
  <2>5. \A u \in Titles \ {source, target} : titles'[u] = titles[u]
    BY <1>1, <1>8
  <2>6. \A k \in Keys : k[1] \notin {source, target} => occs'[k] = occs[k]
    BY <1>8
  <2> HIDE DEF source, target
  <2>7. ASSUME NEW k \in Scanned, titles'[k[1]].flag = "yes", occs'[k] # NoOcc PROVE occs'[k].stamp
    <3>1. k \in Keys /\ k[1] \in Titles
      BY DEF Scanned, Keys
    <3>2. titles[k[1]].flag = "yes" /\ occs'[k] = occs[k]
      BY <2>3, <2>4, <2>5, <2>6, <2>7, <3>1
    <3> QED BY <2>7, <3>2, FlagsCovered DEF FInv, Covers
  <2> QED BY <2>7, FlagsCovered DEF Covers
<1> QED BY <1>4, <1>7, <1>8, QuietFlags DEF FInv

-----------------------------------------------------------------------------
(* Flags: starting and stopping *)

LEMMA EndPhaseFlags ==
    ASSUME FInv, NEW r \in Runs, EndPhase(r)
    PROVE  FlagsCoverScannedEntries' /\ Watched'
<1>1. /\ run' = [run EXCEPT ![r] = Finalize(run[r])] /\ titles' = titles /\ occs' = occs
      /\ Active(r)
  BY DEF EndPhase, catalog, Active
<1>2. Orderly(run[r]) /\ Careful(run[r], titles, occs)
  BY <1>1 DEF FInv, IInv, Remembered, Watched
<1>3. Careful(Finalize(run[r]), titles', occs')
  BY <1>1, <1>2, CarefulFinalize
<1> QED BY <1>1, <1>3, WatchKept, QuietFlags DEF FInv, Alone, catalog

LEMMA CrashFlags ==
    ASSUME FInv, NEW r \in Runs, Crash(r)
    PROVE  FlagsCoverScannedEntries' /\ Watched'
<1>1. /\ run' = [run EXCEPT ![r] = Blank("dead")] /\ titles' = titles /\ occs' = occs
      /\ Active(r)
  BY DEF Crash, catalog
<1>2. Careful(Blank("dead"), titles', occs')
  BY CarefulBlank
<1> QED BY <1>1, <1>2, WatchKept, QuietFlags DEF FInv, Alone, catalog

LEMMA StartRunFlags ==
    ASSUME Serialized, FInv, NEW r \in Runs, NEW mode \in Modes, StartRun(r, mode)
    PROVE  FlagsCoverScannedEntries' /\ Watched'
<1>1. titles' = titles /\ occs' = occs /\ \A q \in Runs : ~Active(q)
  BY DEF StartRun, StartAnyTime, catalog
<1>2. PICK pc \in {"rss", "list", "reparse", "apply"} :
        run' = [run EXCEPT ![r] = [Blank(pc) EXCEPT !.mode = mode]]
  BY AuditAssumption DEF StartRun, StartAnyTime
<1> DEFINE b == [Blank(pc) EXCEPT !.mode = mode]
<1>3. Careful(b, titles', occs')
  BY CarefulBlank
<1>4. run'[r] = b /\ \A q \in Runs \ {r} : run'[q] = run[q]
  BY <1>2 DEF FInv, IInv, Remembered
<1> HIDE DEF b
<1>5. \A q \in Runs : run'[q].pc \notin {"idle", "done", "dead"} => Careful(run'[q], titles', occs')
  BY <1>1, <1>3, <1>4 DEF Active
<1>6. (\A q \in Runs : Active(q) => Careful(run[q], titles, occs))'
  BY <1>5 DEF Active, Careful, Guarded, AllStamped, Under
<1> QED BY <1>1, <1>6, QuietFlags DEF FInv, Watched, catalog

-----------------------------------------------------------------------------
(* Flags: the theorem *)

LEMMA FlagsInit == Init => FInv
<1> SUFFICES ASSUME Init PROVE FInv
  OBVIOUS
<1>1. IInv
  BY InitSound
<1>2. Alone /\ Watched
  BY DEF Init, Alone, Solo, Active, Present, Watched, Blank
<1>3. \A t \in Titles : titles[t].flag # "yes"
  <2> SUFFICES ASSUME NEW t \in Titles PROVE titles[t].flag # "yes"
    OBVIOUS
  <2>1. titles[t] \in {NoTitle} \cup [meta : Metadata, flag : {"unset"}]
    BY DEF Init
  <2> QED BY <2>1 DEF NoTitle
<1> QED BY <1>1, <1>2, <1>3 DEF FInv, FlagsCoverScannedEntries

LEMMA FlagsNext ==
    ASSUME Serialized, ~Chaining, FInv, Next
    PROVE  FlagsCoverScannedEntries' /\ Watched'
<1>1. PICK r \in Runs :
        \/ \E mode \in Modes : StartRun(r, mode)
        \/ RssStep(r) \/ FlushStep(r) \/ AuditStep(r)
        \/ ReparseTitle(r) \/ ReparseOccurrence(r) \/ ApplyProposal(r) \/ EndPhase(r)
        \/ Crash(r)
  BY DEF Next
<1>2. CASE \E mode \in Modes : StartRun(r, mode)
  BY <1>2, StartRunFlags
<1>3. CASE RssStep(r)
  BY <1>3, StageEntryFlags, StageHalfFlags, EndFeedFlags DEF RssStep
<1>4. CASE FlushStep(r)
  BY <1>4, FlushTitleFlags, FlushOccurrenceFlags, EndFlushFlags DEF FlushStep
<1>5. CASE AuditStep(r)
  BY <1>5, ListTitlesFlags, NextBatchFlags, ReadTitleFlags, AskAiFlags, WriteStampFlags,
     WriteProposalFlags, FlushReviewLogsFlags, CheckTitleFlags, FlagTitleFlags,
     BatchCheckedFlags DEF AuditStep
<1>6. CASE ReparseTitle(r) \/ ReparseOccurrence(r) \/ ApplyProposal(r) \/ EndPhase(r) \/ Crash(r)
  BY <1>6, ReparseTitleFlags, ReparseOccurrenceFlags, ApplyProposalFlags, EndPhaseFlags, CrashFlags
<1> QED BY <1>1, <1>2, <1>3, <1>4, <1>5, <1>6

LEMMA FlagsStep ==
    ASSUME Serialized, ~Chaining, FInv, [Next]_vars
    PROVE  FInv'
<1>1. IInv' /\ Alone'
  BY StepSound, AloneStep DEF FInv
<1>2. CASE Next
  BY <1>1, <1>2, FlagsNext DEF FInv
<1>3. CASE UNCHANGED vars
  <2>1. (\A q \in Runs : Active(q) => Careful(run[q], titles, occs))'
    BY <1>3 DEF vars, FInv, Watched, Active, Careful, Guarded, AllStamped, Under
  <2> QED BY <1>1, <1>3, <2>1, QuietFlags DEF FInv, Watched, vars, catalog
<1> QED BY <1>2, <1>3

(* With one run at a time, and unless a run may audit what it has itself    *)
(* staged, a flagged title, which no later audit looks at, has no           *)
(* unstamped occurrence of an entry that a scan files: not after a flush    *)
(* that fails half way, not after a repair, not after a run that is killed. *)
THEOREM FlagsAlwaysCover == Serialized /\ ~Chaining => (Spec => []FlagsCoverScannedEntries)
<1> SUFFICES ASSUME Serialized, ~Chaining PROVE Spec => []FlagsCoverScannedEntries
  OBVIOUS
<1>1. Init => FInv
  BY FlagsInit
<1>2. FInv /\ [Next]_vars => FInv'
  BY FlagsStep
<1>3. FInv => FlagsCoverScannedEntries
  BY DEF FInv
<1> QED BY <1>1, <1>2, <1>3, PTL DEF Spec

=============================================================================
