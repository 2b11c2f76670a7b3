---------------------------- MODULE WriteBuffer -----------------------------
(***************************************************************************)
(* ScanWriteBuffer: what a run stages, and the flush after each feed and   *)
(* at the end of the run.  Logs go first, then titles, then occurrences,   *)
(* then the used manual mappings.  A list is cleared when all of it has    *)
(* been written: what a raising call leaves behind is tried again by the   *)
(* next flush.                                                             *)
(***************************************************************************)
EXTENDS ScannerStore

(* Dicts keep the place of a key that is staged again. *)
Staged(pending, x) ==
    IF \E n \in DOMAIN pending : pending[n] = x THEN pending ELSE Append(pending, x)

StageLog(s, i, log) ==
    [s EXCEPT !.newLogs = Append(@, <<i, log>>), !.wrote = @ \cup {i}]
StageTitle(s, t) ==
    [s EXCEPT !.newTitles = Staged(@, t), !.read = @ \cup {t}]
StageOccurrence(s, t, i) == [s EXCEPT !.newOccs = Staged(@, <<t, i>>)]

-----------------------------------------------------------------------------
(* Where a flush leads *)

AfterRss(r, s) ==
    [s EXCEPT !.pc = IF ModeOf[r] = "all" THEN "reload" ELSE "finish"]

NextFeed(r, s) ==
    IF s.feed < Len(Feeds) THEN [s EXCEPT !.pc = "fetch", !.feed = @ + 1]
    ELSE AfterRss(r, s)

(* Mutant: a feed that met an error does not keep the snapshot back. *)
PublishingAnyway(r, s) ==
    IF HasRss(r) /\ Feeds # <<>>
    THEN [s EXCEPT !.pc = "stage"] ELSE [s EXCEPT !.pc = "close"]

(* _publish_rss_snapshot returns at once unless every feed went well. *)
Publishing(r, s) ==
    IF HasRss(r) /\ s.clean /\ Feeds # <<>>
    THEN [s EXCEPT !.pc = "stage"] ELSE [s EXCEPT !.pc = "close"]

AfterFlush(r, s) == IF s.final THEN Publishing(r, s) ELSE NextFeed(r, s)

(* An exception is one feed's error, except in _finalize_run, where it ends *)
(* the process with the run document still "running".                       *)
FlushFailed(r, s) ==
    IF s.final THEN Blank("dead") ELSE NextFeed(r, RssErred(s))

ToUsed(r, s) ==
    IF s.used # <<>> THEN [s EXCEPT !.pc = "used"] ELSE AfterFlush(r, s)
ToOccs(r, s) ==
    IF s.newOccs # <<>> THEN [s EXCEPT !.pc = "occs", !.at = 1] ELSE ToUsed(r, s)
(* Mutant: occurrences are flushed before titles. *)
TitlesLast(r, s) ==
    IF s.newOccs # <<>> THEN [s EXCEPT !.pc = "occs", !.at = 1]
    ELSE IF s.newTitles # <<>> THEN [s EXCEPT !.pc = "titles", !.at = 1]
    ELSE ToUsed(r, s)

ToTitles(r, s) ==
    IF s.newTitles # <<>> THEN [s EXCEPT !.pc = "titles", !.at = 1] ELSE ToOccs(r, s)
ToLogs(r, s) ==
    IF s.newLogs # <<>> THEN [s EXCEPT !.pc = "logs", !.at = 1] ELSE ToTitles(r, s)

-----------------------------------------------------------------------------
(* The four loops *)

FlushLog(r) ==
    LET s == scan[r]
        i == s.newLogs[s.at][1]
        ok == IF s.at < Len(s.newLogs) THEN [s EXCEPT !.at = @ + 1]
              ELSE ToTitles(r, [s EXCEPT !.newLogs = <<>>])
    IN
    /\ s.pc = "logs"
    /\ \E answer \in LogAnswers(i) :
          /\ AddLog(answer, i, s.newLogs[s.at][2])
          /\ Continue(r, answer, ok, FlushFailed(r, s))
    /\ UNCHANGED <<catalog, mappings, runDoc, latest, crashes, edits, observed>>

(* Mutant: the pending titles are cleared before they are written. *)
FlushTitleCleared(r) ==
    LET s == scan[r]
        ok == IF s.at < Len(s.newTitles) THEN [s EXCEPT !.at = @ + 1]
              ELSE ToOccs(r, [s EXCEPT !.newTitles = <<>>])
    IN
    /\ s.pc = "titles"
    /\ \E answer \in Answers :
          /\ UpsertTitle(answer, s.newTitles[s.at])
          /\ Continue(r, answer, ok, FlushFailed(r, [s EXCEPT !.newTitles = <<>>]))
    /\ UNCHANGED <<occs, diagnostics, mappings, runDoc, latest, crashes, edits, observed>>

FlushTitle(r) ==
    LET s == scan[r]
        ok == IF s.at < Len(s.newTitles) THEN [s EXCEPT !.at = @ + 1]
              ELSE ToOccs(r, [s EXCEPT !.newTitles = <<>>])
    IN
    /\ s.pc = "titles"
    /\ \E answer \in Answers :
          /\ UpsertTitle(answer, s.newTitles[s.at])
          /\ Continue(r, answer, ok, FlushFailed(r, s))
    /\ UNCHANGED <<occs, diagnostics, mappings, runDoc, latest, crashes, edits, observed>>

FlushOccurrence(r) ==
    LET s == scan[r]
        ok == IF s.at < Len(s.newOccs) THEN [s EXCEPT !.at = @ + 1]
              ELSE ToUsed(r, [s EXCEPT !.newOccs = <<>>])
    IN
    /\ s.pc = "occs"
    /\ \E answer \in Answers :
          /\ UpsertOccurrence(answer, s.newOccs[s.at][1], s.newOccs[s.at][2])
          /\ Continue(r, answer, ok, FlushFailed(r, s))
    /\ UNCHANGED <<titles, diagnostics, mappings, runDoc, latest, crashes, edits, observed>>

(* Mappings are taken off the list one by one. *)
FlushMapping(r) ==
    LET s == scan[r]
        i == s.used[1][1]
        left == Forget([s EXCEPT !.used = Tail(@)], i, s.used[1][2])
    IN
    /\ s.pc = "used"
    /\ \E answer \in Answers :
          /\ DeleteMapping(answer, i)
          /\ Continue(r, answer, ToUsed(r, left), FlushFailed(r, s))
    /\ UNCHANGED <<catalog, diagnostics, runDoc, latest, crashes, edits, observed>>

=============================================================================
