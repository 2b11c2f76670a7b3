--------------------------- MODULE LatestSnapshot ---------------------------
(***************************************************************************)
(* The page "latest": FirestoreRssSnapshotRepository.publish writes the    *)
(* accepted titles of a run as a generation of its own, and moves the      *)
(* pointer to it in the transaction that calls it ready.  The id of a      *)
(* generation is a digest of the run's id, a fresh uuid: no generation is  *)
(* published twice.                                                        *)
(***************************************************************************)
EXTENDS ScannerStore

NoSnapshot == [status |-> "absent", count |-> 0, items |-> {}]
Snapshots == [status : {"absent", "staging", "ready"}, count : Nat,
              items : SUBSET (Titles \X Nat)]

(* Movies before series, then by feed, then by entry. *)
Before(c, t, u) ==
    LET group(x) == IF Kind[x] = "movie" THEN 0 ELSE 1 IN
    \/ group(t) < group(u)
    \/ group(t) = group(u) /\ \/ c[t][1] < c[u][1]
                              \/ c[t][1] = c[u][1] /\ c[t][2] < c[u][2]

(* build_items: the candidates, sorted. *)
BuiltItems(c) ==
    LET found == {t \in Titles : c[t] # NoPosition} IN
    CHOOSE q \in [1 .. Cardinality(found) -> found] :
        \A m, n \in DOMAIN q : m < n => Before(c, q[m], q[n])

(* An exception anywhere in publish makes the run partial. *)
NotPublished(s) == [Erred(s) EXCEPT !.pc = "close"]

StageSnapshot(r) ==
    LET s == scan[r]
        count == Len(BuiltItems(s.cands))
    IN
    /\ s.pc = "stage"
    /\ \E answer \in Answers :
          /\ snaps' = IF Landed(answer)
                      THEN [snaps EXCEPT ![r] =
                              [status |-> "staging", count |-> count, items |-> {}]]
                      ELSE snaps
          /\ Continue(r, answer,
                [s EXCEPT !.pc = IF count = 0 THEN "promote" ELSE "items", !.at = 1],
                NotPublished(s))
    /\ UNCHANGED <<catalog, diagnostics, mappings, runDoc, pointer, crashes, edits, observed>>

(* One batch of items, written as a whole. *)
StageItems(r) ==
    LET s == scan[r]
        built == BuiltItems(s.cands)
        next == s.at + BatchSize
        batch == {n \in DOMAIN built : s.at <= n /\ n < next}
    IN
    /\ s.pc = "items"
    /\ \E answer \in Answers :
          /\ snaps' = IF Landed(answer)
                      THEN [snaps EXCEPT ![r].items = @ \cup {<<built[n], n>> : n \in batch}]
                      ELSE snaps
          /\ Continue(r, answer,
                IF next <= Len(built) THEN [s EXCEPT !.at = next]
                ELSE [s EXCEPT !.pc = "promote"],
                NotPublished(s))
    /\ UNCHANGED <<catalog, diagnostics, mappings, runDoc, pointer, crashes, edits, observed>>

(* _promote: ready and pointed at in one transaction. *)
Promote(r) ==
    LET s == scan[r] IN
    /\ s.pc = "promote"
    /\ \E answer \in Answers :
          /\ IF Landed(answer)
             THEN /\ snaps' = [snaps EXCEPT ![r].status = "ready"]
                  /\ pointer' = r
             ELSE UNCHANGED latest
          /\ Continue(r, answer, [s EXCEPT !.pc = "close"], NotPublished(s))
    /\ UNCHANGED <<catalog, diagnostics, mappings, runDoc, crashes, edits, observed>>

=============================================================================
