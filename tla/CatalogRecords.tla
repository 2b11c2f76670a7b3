--------------------------- MODULE CatalogRecords ---------------------------
(***************************************************************************)
(* Titles and occurrences as documents, cut down to what validation turns  *)
(* on: the metadata of a title, its aggregate flag aiValidated, the raw    *)
(* title of an occurrence, and its validation stamp.  What merging makes   *)
(* of them, in the repositories and in the write buffer.                   *)
(***************************************************************************)
EXTENDS Naturals, FiniteSets

CONSTANTS
    Titles,    \* title ids
    Items,     \* occurrence ids: feed entries
    Metadata,  \* what OMDb may say of a title: name, year, type, ids
    RawTitles, \* what a feed may call an entry
    NoMeta, NoRaw

ASSUME RecordsAssumption == NoMeta \notin Metadata /\ NoRaw \notin RawTitles

(* aiValidated is true, false, or not there. *)
Flags == {"yes", "no", "unset"}

NoTitle == [meta |-> NoMeta, flag |-> "unset"]
TitleDoc == [meta : Metadata, flag : Flags] \cup {NoTitle}

(* The stamp stands for status "valid" with the current policy version, the *)
(* only ones the code ever writes.                                          *)
NoOcc == [raw |-> NoRaw, stamp |-> FALSE]
OccDoc == [raw : RawTitles, stamp : BOOLEAN] \cup {NoOcc}

(* merge_titles: what the incoming record has wins. *)
MergeTitles(old, new) ==
    [meta |-> new.meta, flag |-> IF new.flag = "unset" THEN old.flag ELSE new.flag]

(* Mutant: the stamp is kept whatever the raw title has become. *)
MergeOccurrencesKeeping(old, new) ==
    IF old = NoOcc THEN new ELSE [raw |-> new.raw, stamp |-> new.stamp \/ old.stamp]

(* merge_occurrences: either stamp is kept, unless the raw title changes. *)
MergeOccurrences(old, new) ==
    IF old = NoOcc THEN new
    ELSE [raw |-> new.raw, stamp |-> old.raw = new.raw /\ (old.stamp \/ new.stamp)]

(* occurrence_validation_fingerprint, with the title it is matched to. *)
ValidationPrint(occ, title) == <<occ.raw, title.meta>>

(* The title and the occurrence that stage_title_and_occurrence stages over *)
(* the ones it has read or staged before.                                   *)
StagedPair(oldTitle, oldOcc, newTitle, newOcc) ==
    LET title == MergeTitles(oldTitle, newTitle)
        merged == MergeOccurrences(oldOcc, newOcc)
        same == ValidationPrint(oldOcc, oldTitle) = ValidationPrint(newOcc, title)
        occ == [merged EXCEPT !.stamp = @ /\ (oldOcc = NoOcc \/ same)]
        unflag == oldOcc = NoOcc \/ (oldOcc.stamp /\ ~occ.stamp)
    IN [title |-> IF unflag THEN [title EXCEPT !.flag = "no"] ELSE title, occ |-> occ]

=============================================================================
