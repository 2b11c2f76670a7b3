--------------------------- MODULE CatalogRepair ---------------------------
(***************************************************************************)
(* What a repair promises, without leases, plans, runs or clocks.          *)
(*                                                                         *)
(* A proposal is decided on, and an approved one is either given up or     *)
(* applied.  Applying it is one atomic step: the catalogue still shows     *)
(* what the proposal describes, the named occurrences go from the source   *)
(* to the target, and the source title goes exactly when nothing is left   *)
(* under it.  Scans write titles and occurrences at any time.              *)
(* ProposalApplication is shown to implement this specification.           *)
(***************************************************************************)
EXTENDS Fingerprints

CONSTANTS Titles, Occurrences, Proposals, Canonical, Entered,
          Source, Named, Filed, NoTitle

VARIABLES
    title,   \* the catalogue, as in ProposalApplication
    occ,
    status,  \* where the decision on each proposal stands
    content  \* what each proposal claims

vars == <<title, occ, status, content>>

Content == [target : Titles \cup {NoTitle},
            titlePrint : Prints \cup {NoPrint},
            occPrints : [Occurrences -> Prints \cup {NoPrint}]]

Init ==
    /\ title = [t \in Titles |->
                  IF \E o \in Occurrences : Filed[o] = t
                  THEN Canonical ELSE NoPrint]
    /\ occ = [t \in Titles |-> [o \in Occurrences |->
                  IF Filed[o] = t THEN Entered ELSE NoPrint]]
    /\ status = [p \in Proposals |-> "absent"]
    /\ content = [p \in Proposals |->
                    [target |-> NoTitle, titlePrint |-> NoPrint,
                     occPrints |-> [o \in Occurrences |-> NoPrint]]]

(* A scan records a title or an occurrence, merging it into what is stored; *)
(* it never deletes one.                                                    *)
Record ==
    /\ UNCHANGED <<status, content>>
    /\ \/ \E t \in Titles, print \in Prints :
             title' = [title EXCEPT ![t] = Stored(@, print)] /\ UNCHANGED occ
       \/ \E t \in Titles, o \in Occurrences, print \in Prints :
             occ' = [occ EXCEPT ![t][o] = Stored(@, print)] /\ UNCHANGED title

(* The claims a proposal may make: a fingerprint of its source title and of *)
(* each occurrence it names.                                                *)
Claims(p) ==
    {c \in Content : /\ c.titlePrint \in Prints
                     /\ \A o \in Occurrences :
                           o \in Named[p] <=> c.occPrints[o] # NoPrint}

(* Only the claim of p changes, to one of claims. *)
Restate(p, claims) ==
    /\ content' \in [Proposals -> Content]
    /\ \A q \in Proposals \ {p} : content'[q] = content[q]
    /\ content'[p] \in claims

(* An undecided proposal describes the catalogue as it was when the audit   *)
(* read it.                                                                 *)
Propose(p) ==
    /\ status[p] \in {"absent", "pending"}
    /\ status' = [status EXCEPT ![p] = "pending"]
    /\ Restate(p, Claims(p))
    /\ UNCHANGED <<title, occ>>

Decide(p, from, to) ==
    /\ status[p] = from
    /\ status' = [status EXCEPT ![p] = to]
    /\ UNCHANGED <<title, occ, content>>

(* A rejection keeps the claim it was decided on, which may be an earlier   *)
(* one than the record's last.                                              *)
Reject(p) ==
    /\ status[p] \in {"pending", "rejected"}
    /\ status' = [status EXCEPT ![p] = "rejected"]
    /\ Restate(p, Content)
    /\ UNCHANGED <<title, occ>>

(* The catalogue still shows what the proposal was approved for. *)
StillHolds(p) ==
    /\ content[p].target # NoTitle
    /\ title[Source[p]] = content[p].titlePrint
    /\ title[Source[p]] # NoPrint
    /\ \A o \in Named[p] :
          /\ occ[Source[p]][o] = content[p].occPrints[o]
          /\ occ[Source[p]][o] # NoPrint

(* Nothing would remain under the source. *)
Emptied(p) ==
    \A o \in Occurrences : occ[Source[p]][o] # NoPrint => o \in Named[p]

Apply(p) ==
    LET s == Source[p]
        target == content[p].target
    IN
    /\ status[p] = "approved"
    /\ StillHolds(p)
    /\ status' = [status EXCEPT ![p] = "applied"]
    /\ title' = [t \in Titles |->
          CASE t = target /\ t # s -> Stored(title[t], Canonical)
            [] t = s /\ target # s /\ Emptied(p) -> NoPrint
            [] OTHER -> title[t]]
    /\ occ' = [t \in Titles |-> [o \in Occurrences |->
          CASE o \in Named[p] /\ t = s -> NoPrint
            [] o \in Named[p] /\ t = target /\ t # s
               -> Stored(occ[t][o], occ[s][o])
            [] OTHER -> occ[t][o]]]
    /\ UNCHANGED content

(* One transaction may give up several attempts on the same source. *)
GiveUp ==
    /\ \E gone \in SUBSET {p \in Proposals : status[p] = "approved"} :
          status' = [p \in Proposals |->
                       IF p \in gone THEN "failed" ELSE status[p]]
    /\ UNCHANGED <<title, occ, content>>

Next ==
    \/ Record
    \/ GiveUp
    \/ \E p \in Proposals :
          \/ Propose(p)
          \/ Decide(p, "pending", "approved")
          \/ Decide(p, "failed", "pending")
          \/ Reject(p)
          \/ Apply(p)

Spec == Init /\ [][Next]_vars

=============================================================================
