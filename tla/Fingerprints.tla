---------------------------- MODULE Fingerprints ----------------------------
(***************************************************************************)
(* The fingerprint of a title or of an occurrence (the fields a proposal   *)
(* pins down of it), and how a write merges into a document already there. *)
(*                                                                         *)
(* The fields fall in three kinds.  identity stands for those every write  *)
(* replaces (a title's name, media type; an occurrence's feed, entry, URL, *)
(* raw title).  detail stands for each of those the incoming document      *)
(* replaces only when it has them (year, IMDb id, kind; quality, ripType). *)
(* origin stands for each of those the stored document keeps once it has   *)
(* them (an occurrence's feedType and sourcePublishedAt; none of a title). *)
(***************************************************************************)
CONSTANTS
    Identities, Details, Origins,
    NoField,        \* a field that is null
    NoPrint         \* no document

Prints == [identity : Identities,
           detail : Details \cup {NoField},
           origin : Origins \cup {NoField}]

ASSUME PrintsAssumption == /\ NoField \notin Details \cup Origins
                           /\ NoPrint \notin Prints

(* merge_titles, and merge_occurrences with its merge_source_context. *)
Merged(existing, incoming) ==
    [identity |-> incoming.identity,
     detail |-> IF incoming.detail # NoField THEN incoming.detail
                ELSE existing.detail,
     origin |-> IF existing.origin # NoField THEN existing.origin
                ELSE incoming.origin]

(* What a document holds after an upsert of incoming. *)
Stored(existing, incoming) ==
    IF existing = NoPrint THEN incoming ELSE Merged(existing, incoming)

=============================================================================
