---------------------------- MODULE ReparsePhase ----------------------------
(***************************************************************************)
(* ReparseService, ReparseLogLifecycle and ReparsePersistence: take up the *)
(* retryable logs, resolve each by its manual mapping or with the AI, and  *)
(* write title, occurrence, log and mapping straight to the store, one     *)
(* after the other.  What the AI, OMDb and the match policy say of a log   *)
(* is any answer they may give.  One retry page holds all the logs.        *)
(***************************************************************************)
EXTENDS ScannerStore

(* reparse_unfound_entries loads the mappings over those already loaded.    *)
(* An exception here is fatal to the phases, not to _finalize_run.          *)
ReloadMappings(r) ==
    LET s == scan[r]
        reloaded == [i \in Items |-> IF mappings[i] # NoTitle THEN mappings[i] ELSE s.loaded[i]]
    IN
    /\ s.pc = "reload"
    /\ \E answer \in Answers \ {"lost"} :
          Continue(r, answer, [s EXCEPT !.pc = "page", !.loaded = reloaded],
                              [s EXCEPT !.pc = "finish", !.status = "failed"])
    /\ UNCHANGED <<catalog, diagnostics, mappings, runDoc, latest, crashes, edits, observed>>

Retryable == {i \in Items : logs[i].state = "retryable"}

(* list_retryable reads every log on its way: one it cannot read back fails *)
(* the page.  The logs the run's own RSS phase wrote are left alone.        *)
ReadPage(r) ==
    LET s == scan[r]
        page == Retryable \ s.wrote
    IN
    /\ s.pc = "page"
    /\ \E answer \in IF \E i \in Items : ~Readable(logs[i]) THEN {"unreadable"}
                     ELSE Answers \ {"lost"} :
          Continue(r, answer,
                   [s EXCEPT !.pc = IF page = {} THEN "finish" ELSE "reparse", !.page = page],
                   [s EXCEPT !.pc = "finish", !.status = "failed"])
    /\ UNCHANGED <<catalog, diagnostics, mappings, runDoc, latest, crashes, edits, observed>>

-----------------------------------------------------------------------------
(* One log of the page: those with a mapping first, the rest by AI batches *)

Mapped(s) == {i \in s.page : Usable(s, i) # NoTitle}
Due(s) == IF Mapped(s) # {} THEN Mapped(s) ELSE s.page

(* Mutant: a log that was dealt with stays on the page. *)
KeptOnPage(s, i) ==
    [s EXCEPT !.pc = IF s.page = {} THEN "finish" ELSE "reparse",
              !.item = NoItem, !.title = NoTitle]

DoneWith(s, i) ==
    [s EXCEPT !.pc = IF s.page = {i} THEN "finish" ELSE "reparse",
              !.page = @ \ {i}, !.item = NoItem, !.title = NoTitle]

(* record_retry and record_terminal: a write that raises is an error of the *)
(* phase, and the log stays as it was stored.                               *)
RecordOutcome(r, log, erred) ==
    LET s == scan[r]
        next(i) == DoneWith(IF erred THEN Erred(s) ELSE s, i)
    IN
    /\ s.pc = "reparse"
    /\ \E i \in Due(s) : \E answer \in LogAnswers(i) :
          /\ AddLog(answer, i, log)
          /\ Continue(r, answer, next(i), DoneWith(Erred(s), i))
    /\ UNCHANGED <<catalog, mappings, runDoc, latest, crashes, edits, observed>>

(* The candidate was accepted: its title and occurrence are read, then      *)
(* written.                                                                 *)
AcceptCandidate(r) ==
    LET s == scan[r] IN
    /\ s.pc = "reparse"
    /\ \E i \in Due(s) :
          \E t \in IF Usable(s, i) # NoTitle THEN {Usable(s, i)} ELSE Titles :
             scan' = [scan EXCEPT ![r].pc = "saveTitle", ![r].item = i, ![r].title = t]
    /\ UNCHANGED <<catalog, diagnostics, mappings, runDoc, latest, failures, crashes,
                   edits, observed>>

(* Mutant: the mapping of an entry that could not be saved is used up. *)
GiveUpConsuming(s) ==
    [Erred(s) EXCEPT !.pc = IF s.loaded[s.item] = NoTitle THEN "saveRetry" ELSE "saveUsed"]

GiveUp(s) == [Erred(s) EXCEPT !.pc = "saveRetry"]

SaveTitle(r) ==
    LET s == scan[r] IN
    /\ s.pc = "saveTitle"
    /\ \E answer \in Answers :
          /\ UpsertTitle(answer, s.title)
          /\ Continue(r, answer, [s EXCEPT !.pc = "saveOcc"], GiveUp(s))
    /\ UNCHANGED <<occs, diagnostics, mappings, runDoc, latest, crashes, edits, observed>>

(* Mutant: an occurrence that cannot be written is passed over. *)
SaveOccurrenceUnchecked(r) ==
    LET s == scan[r] IN
    /\ s.pc = "saveOcc"
    /\ \E answer \in Answers :
          /\ UpsertOccurrence(answer, s.title, s.item)
          /\ Continue(r, answer, [s EXCEPT !.pc = "saveLog"], [Erred(s) EXCEPT !.pc = "saveLog"])
    /\ UNCHANGED <<titles, diagnostics, mappings, runDoc, latest, crashes, edits, observed>>

SaveOccurrence(r) ==
    LET s == scan[r] IN
    /\ s.pc = "saveOcc"
    /\ \E answer \in Answers :
          /\ UpsertOccurrence(answer, s.title, s.item)
          /\ Continue(r, answer, [s EXCEPT !.pc = "saveLog"], GiveUp(s))
    /\ UNCHANGED <<titles, diagnostics, mappings, runDoc, latest, crashes, edits, observed>>

SaveLog(r) ==
    LET s == scan[r]
        saved == IF Usable(s, s.item) # NoTitle THEN [s EXCEPT !.pc = "saveUsed"]
                 ELSE DoneWith(s, s.item)
    IN
    /\ s.pc = "saveLog"
    /\ \E answer \in LogAnswers(s.item) :
          /\ AddLog(answer, s.item, ResolvedLog(s.title))
          /\ Continue(r, answer, saved, GiveUp(s))
    /\ UNCHANGED <<catalog, mappings, runDoc, latest, crashes, edits, observed>>

(* A mapping that cannot be deleted is an error of the phase and stays. *)
SaveMapping(r) ==
    LET s == scan[r] IN
    /\ s.pc = "saveUsed"
    /\ \E answer \in Answers :
          /\ DeleteMapping(answer, s.item)
          /\ Continue(r, answer, DoneWith(Forget(s, s.item, s.title), s.item),
                                 DoneWith(Erred(s), s.item))
    /\ UNCHANGED <<catalog, diagnostics, runDoc, latest, crashes, edits, observed>>

(* catalog_persistence_error: the log goes back to be retried. *)
SaveRetry(r) ==
    LET s == scan[r] IN
    /\ s.pc = "saveRetry"
    /\ \E answer \in LogAnswers(s.item) :
          /\ AddLog(answer, s.item, RetryLog)
          /\ Continue(r, answer, DoneWith(s, s.item), DoneWith(Erred(s), s.item))
    /\ UNCHANGED <<catalog, mappings, runDoc, latest, crashes, edits, observed>>

=============================================================================
