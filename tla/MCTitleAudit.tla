---------------------------- MODULE MCTitleAudit ----------------------------
(* Small instances of TitleAudit for TLC. *)
EXTENDS TitleAudit, TLC

CONSTANTS A, B, i1, i2, x, y, p, r1, r2

(* Nothing tells two runs, titles or raw titles apart. *)
AnyOrder == Permutations(Runs) \cup Permutations(Titles)
            \cup Permutations(RawTitles) \cup Permutations(Metadata)

=============================================================================
