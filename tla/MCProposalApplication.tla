----------------------- MODULE MCProposalApplication -----------------------
(* Small instances of ProposalApplication for TLC. *)
EXTENDS ProposalApplication, TLC

CONSTANTS A, B,      \* two titles
          o1, o2,    \* two occurrences
          p1, p2     \* two proposals

(* Nothing tells two runs apart. *)
RunSymmetry == Permutations(Runs)

(* Both occurrences were filed under A; each proposal names one of them, so *)
(* the second move is the one that empties A.                               *)
MCSource == p1 :> A @@ p2 :> A
MCNamed == p1 :> {o1} @@ p2 :> {o2}
MCFiled == o1 :> A @@ o2 :> A
MCSuggested == p1 :> {B} @@ p2 :> {B}
MCSuggestedOrNone == p1 :> {B} @@ p2 :> {B, NoTitle}

Doc(identity, detail, origin) ==
    [identity |-> identity, detail |-> detail, origin |-> origin]

(* What earlier scans stored: neither document has its optional detail.     *)
(* What a scan sees now differs in every field: merging keeps part of it.   *)
MCCanonical == Doc(1, NoField, NoField)
MCEntered == Doc(1, NoField, 1)
TitleNow == Doc(2, 1, NoField)
EntryNow == Doc(2, 1, 2)

(* A feed entry that a scan resolves while repairs are under way: o1 comes  *)
(* back under its old title, with new metadata for both documents; or it is *)
(* resolved to the title it is about to be moved to.                        *)
Seen(t, o, tp, op) == [title |-> t, occurrence |-> o,
                       titlePrint |-> tp, occPrint |-> op]
MCObservations == {Seen(A, o1, TitleNow, EntryNow)}
MCObservationsTarget == {Seen(B, o1, TitleNow, EntryNow)}
MCObservationsBoth == MCObservations \cup MCObservationsTarget
MCObservationsMore == {Seen(A, o1, TitleNow, MCEntered),
                       Seen(B, o2, TitleNow, EntryNow)}

(* What an audit may have read: the catalogue as the earlier scans left it, *)
(* and as the scan of MCObservations leaves it after its first write.       *)
Read(tp) == [titlePrint |-> tp, occPrints |-> o1 :> MCEntered @@ o2 :> MCEntered]
ReadBefore == Read(MCCanonical)
ReadBetween == Read(Merged(MCCanonical, TitleNow))
MCReadingsBetween == {ReadBefore, ReadBetween}
MCReadingsBefore == {ReadBefore}

(* Bound: only one of the proposals is made from the reading in between.    *)
OneReadBetween == proposal[p2].content.titlePrint # ReadBetween.titlePrint

(* One proposal over one of A's two occurrences, for more runs. *)
MCSourceOne == p1 :> A
MCNamedOne == p1 :> {o1}

(* The audit resolves its suggestion to the title it started from. *)
MCSuggestedOneSelf == p1 :> {A}
=============================================================================
