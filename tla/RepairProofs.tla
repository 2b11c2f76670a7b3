---------------------------- MODULE RepairProofs ----------------------------
(***************************************************************************)
(* ProposalApplication implements CatalogRepair: with its leases, plans,   *)
(* retries and crashes, a run changes the catalogue exactly as the atomic  *)
(* repair of an approved proposal does.                                    *)
(***************************************************************************)
EXTENDS ProposalApplicationProofs

-----------------------------------------------------------------------------
(* What a live claim describes *)

(* Until it is decided for good, a proposal describes documents that        *)
(* existed when the audit read them.                                        *)
Open == {"pending", "approved", "applying", "failed"}

Describes(doc, p) ==
    /\ doc.content.titlePrint # NoPrint
    /\ \A o \in Named[p] : doc.content.occPrints[o] # NoPrint

Described == \A p \in Proposals :
    proposal[p].status \in Open => Describes(proposal[p], p)

(* From its approval to its application a proposal's claim is the approved  *)
(* one.                                                                     *)
ClaimKept == \A p \in Proposals :
    proposal[p].status \in {"approved", "applying"} =>
        proposal[p].content = approved[p]

(* A run that got past its first planning read has a target.                *)
Targeted == \A r \in Runs :
    run[r].pc \in {"title", "occurrences", "count", "lease", "commit"} =>
        run[r].plan.content.target # NoTitle

Claims == Described /\ ClaimKept /\ Targeted

-----------------------------------------------------------------------------
(* What each writer of proposals does to a claim *)

(* Only an approval changes what was last approved. *)
LEMMA ApprovalWrites ==
    ASSUME TypeOK, [Next]_vars,
           ~(\E q \in Proposals : Approve(q))
    PROVE  approved' = approved
<1>1. CASE UNCHANGED vars \/ Tick \/ Scanning \/ Audit \/ Operator
  BY <1>1 DEF vars, Tick, Scanning, FlushTitle, FlushOccurrence, ScanDies,
              Audit, Operator, RefreshFromAudit, Requeue
<1>2. ASSUME NEW r \in Runs, Start(r) \/ Crash(r) PROVE approved' = approved
  BY <1>2 DEF Start, StartApply, StartReject, Crash
<1>3. ASSUME NEW r \in Runs, RunStep(r) PROVE approved' = approved
  BY <1>3 DEF RunStep, MarkRejected, PlanProposal,
       PlanTitle, PlanOccurrences, PlanCount, RefuseLease, RecoverLease,
       AcquireLease, CommitDenied, CommitStale, CommitMove, CommitRaises,
       MarkAborted, AbortLost, CallRaises
<1> QED BY <1>1, <1>2, <1>3 DEF Next

(* The audit's claim describes documents that existed when it read them.    *)
LEMMA AuditWrites ==
    ASSUME TypeOK, NEW p \in Proposals, RefreshFromAudit(p)
    PROVE  \E target \in Suggested[p], read \in Readings :
             /\ proposal'[p].status = "pending"
             /\ proposal'[p].content =
                  [target |-> target, titlePrint |-> read.titlePrint,
                   occPrints |-> [o \in Occurrences |->
                      IF o \in Named[p] THEN read.occPrints[o] ELSE NoPrint]]
<1>1. PICK target \in Suggested[p], read \in Readings :
        proposal' = [proposal EXCEPT
          ![p].status = "pending",
          ![p].content = [target |-> target, titlePrint |-> read.titlePrint,
                          occPrints |-> [o \in Occurrences |->
                            IF o \in Named[p] THEN read.occPrints[o] ELSE NoPrint]]]
  BY DEF RefreshFromAudit
<1> DEFINE claim == [target |-> target, titlePrint |-> read.titlePrint,
                     occPrints |-> [o \in Occurrences |->
                        IF o \in Named[p] THEN read.occPrints[o] ELSE NoPrint]]
<1>2. proposal' = [proposal EXCEPT ![p].status = "pending", ![p].content = claim]
  BY <1>1
<1> HIDE DEF claim
<1>3. proposal'[p].status = "pending" /\ proposal'[p].content = claim
  BY <1>2 DEF TypeOK, ProposalDoc
<1> QED BY <1>3 DEF claim

LEMMA AuditDescribes ==
    ASSUME TypeOK, NEW p \in Proposals, RefreshFromAudit(p)
    PROVE  Describes(proposal'[p], p)
<1>1. PICK target \in Suggested[p], read \in Readings :
        proposal'[p].content =
          [target |-> target, titlePrint |-> read.titlePrint,
           occPrints |-> [o \in Occurrences |->
              IF o \in Named[p] THEN read.occPrints[o] ELSE NoPrint]]
  BY AuditWrites
<1>2. /\ proposal'[p].content.titlePrint \in Prints
      /\ \A o \in Named[p] : proposal'[p].content.occPrints[o] \in Prints
  BY <1>1, ConstantsAssumption DEF Reading
<1> QED BY <1>2, PrintsAssumption, ConstantsAssumption DEF Describes

(* A rejection is written over a record that is pending or rejected. *)
LEMMA RejectWrites ==
    ASSUME TypeOK, NEW r \in Runs, NEW p \in Proposals, p = run[r].job,
           MarkRejected(r)
    PROVE  \/ UNCHANGED proposal
           \/ /\ proposal[p].status \in {"pending", "rejected"}
              /\ proposal'[p].status = "rejected"
              /\ proposal'[p].content = run[r].plan.content
              /\ \A q \in Proposals \ {p} : proposal'[q] = proposal[q]
<1> DEFINE doc == [run[r].plan EXCEPT !.status = "rejected", !.owner = NoRun,
                                      !.until = 0]
<1>1. run[r].plan \in ProposalDoc
  BY DEF TypeOK, RunState
<1>2. doc.status = "rejected" /\ doc.content = run[r].plan.content
  BY <1>1 DEF ProposalDoc
<1>3. CASE ValidTransition(proposal[p].status, "rejected")
  <2>1. proposal' = [proposal EXCEPT ![p] = doc]
    BY <1>3 DEF MarkRejected
  <2> HIDE DEF doc
  <2> QED BY <1>2, <1>3, <2>1 DEF TypeOK, ValidTransition, Transitions
<1>4. CASE ~ValidTransition(proposal[p].status, "rejected")
  BY <1>4 DEF MarkRejected
<1> QED BY <1>3, <1>4

(* Taking a lease fails the expired attempts beside it and starts this one. *)
LEMMA AcquireWrites ==
    ASSUME TypeOK, NEW r \in Runs, NEW p \in Proposals, p = run[r].job,
           AcquireLease(r)
    PROVE  /\ p \notin ApplyingBeside(p)
           /\ proposal[p].status = "approved"
           /\ proposal'[p].status = "applying"
           /\ proposal'[p].content = proposal[p].content
           /\ \A q \in ApplyingBeside(p) :
                 /\ proposal[q].status = "applying"
                 /\ proposal'[q].status = "failed"
                 /\ proposal'[q].content = proposal[q].content
           /\ \A q \in Proposals \ {p} :
                 q \notin ApplyingBeside(p) => proposal'[q] = proposal[q]
<1>1. p \notin ApplyingBeside(p)
  BY DEF ApplyingBeside
<1>2. /\ proposal[p].status = "approved"
      /\ proposal'[p].status = "applying"
      /\ proposal'[p].content = proposal[p].content
  BY <1>1 DEF AcquireLease, TypeOK, ProposalDoc
<1>3. ASSUME NEW q \in ApplyingBeside(p)
      PROVE  /\ proposal[q].status = "applying"
             /\ proposal'[q].status = "failed"
             /\ proposal'[q].content = proposal[q].content
  <2>1. q \in Proposals /\ q # p /\ proposal[q].status = "applying"
    BY <1>3 DEF ApplyingBeside
  <2>2. proposal'[q] = Failed(proposal[q])
    BY <1>3, <2>1 DEF AcquireLease
  <2> QED BY <2>1, <2>2, FailedTyped DEF TypeOK
<1>4. \A q \in Proposals \ {p} :
         q \notin ApplyingBeside(p) => proposal'[q] = proposal[q]
  BY DEF AcquireLease
<1> QED BY <1>1, <1>2, <1>3, <1>4

(* The commit, and giving up, write one applying record and keep its claim. *)
LEMMA MoveWrites ==
    ASSUME TypeOK, NEW r \in Runs, NEW p \in Proposals, p = run[r].job,
           CommitMove(r)
    PROVE  /\ proposal[p].status = "applying"
           /\ proposal'[p].status = "applied"
           /\ proposal'[p].content = proposal[p].content
           /\ \A q \in Proposals \ {p} : proposal'[q] = proposal[q]
  BY DEF CommitMove, OwnsLease, TypeOK, ProposalDoc

LEMMA GivesUpWrites ==
    ASSUME TypeOK, NEW p \in Proposals, GivesUp(p)
    PROVE  /\ proposal[p].status = "applying"
           /\ proposal'[p].status = "failed"
           /\ proposal'[p].content = proposal[p].content
           /\ \A q \in Proposals \ {p} : proposal'[q] = proposal[q]
  BY FailedTyped DEF GivesUp, TypeOK

(* The operator keeps the claim. *)
LEMMA OperatorWrites ==
    ASSUME TypeOK, NEW p \in Proposals, Approve(p) \/ Requeue(p)
    PROVE  proposal'[p].content = proposal[p].content
  BY DEF Approve, Requeue, TypeOK, ProposalDoc

(* A step that leaves a record's claim, its approval and its being open or  *)
(* live as they are keeps what is said of it.                               *)
LEMMA StepDescribed ==
    ASSUME Inv, Described, ClaimKept, [Next]_vars PROVE (Described /\ ClaimKept)'
<1> USE DEF Inv
<1>1. CASE UNCHANGED <<proposal, lease>>
  <2>1. UNCHANGED approved
    <3>1. ASSUME NEW q \in Proposals, Approve(q) PROVE FALSE
      <4>1. proposal'[q].status = "approved" /\ proposal[q].status = "pending"
        BY <3>1 DEF Approve, TypeOK, ProposalDoc
      <4> QED BY <1>1, <4>1
    <3> QED BY <3>1, ApprovalWrites
  <2> QED BY <1>1, <2>1 DEF Described, ClaimKept, Describes
<1>2. ASSUME NEW p \in Proposals, RefreshFromAudit(p)
      PROVE  (Described /\ ClaimKept)'
  <2>1. Describes(proposal'[p], p) /\ proposal'[p].status = "pending"
    BY <1>2, AuditDescribes DEF RefreshFromAudit, TypeOK, ProposalDoc
  <2>2. \A q \in Proposals \ {p} : proposal'[q] = proposal[q]
    BY <1>2, DecisionWrites
  <2>3. UNCHANGED approved
    BY <1>2 DEF RefreshFromAudit
  <2> QED BY <2>1, <2>2, <2>3 DEF Described, ClaimKept, Describes
<1>3. ASSUME NEW p \in Proposals, Approve(p) PROVE (Described /\ ClaimKept)'
  <2>1. /\ proposal[p].status = "pending"
        /\ proposal'[p].content = proposal[p].content
        /\ approved'[p] = proposal[p].content
        /\ \A q \in Proposals \ {p} : approved'[q] = approved[q]
    BY <1>3, OperatorWrites DEF Approve, TypeOK
  <2>2. \A q \in Proposals \ {p} : proposal'[q] = proposal[q]
    BY <1>3, DecisionWrites
  <2> QED BY <2>1, <2>2 DEF Described, ClaimKept, Describes, Open
<1>4. ASSUME NEW p \in Proposals, Requeue(p) PROVE (Described /\ ClaimKept)'
  <2>1. /\ proposal[p].status = "failed"
        /\ proposal'[p].status = "pending"
        /\ proposal'[p].content = proposal[p].content
        /\ \A q \in Proposals \ {p} : proposal'[q] = proposal[q]
    BY <1>4, OperatorWrites, DecisionWrites DEF Requeue, TypeOK, ProposalDoc
  <2>2. UNCHANGED approved
    BY <1>4 DEF Requeue
  <2> QED BY <2>1, <2>2 DEF Described, ClaimKept, Describes, Open
<1>5. ASSUME NEW r \in Runs, NEW p \in Proposals, p = run[r].job,
             \/ MarkRejected(r) \/ AcquireLease(r) \/ CommitMove(r)
             \/ /\ GivesUp(p)
                /\ RecoverLease(r) \/ CommitStale(r) \/ MarkAborted(r)
      PROVE  (Described /\ ClaimKept)'
  <2>1. UNCHANGED approved
    BY <1>5 DEF MarkRejected, AcquireLease, CommitMove, RecoverLease,
                CommitStale, MarkAborted
  <2>2. CASE MarkRejected(r)
    BY <1>5, <2>1, <2>2, RejectWrites DEF Described, ClaimKept, Describes, Open
  <2>3. CASE AcquireLease(r)
    BY <1>5, <2>1, <2>3, AcquireWrites DEF Described, ClaimKept, Describes, Open
  <2>4. CASE CommitMove(r)
    BY <1>5, <2>1, <2>4, MoveWrites DEF Described, ClaimKept, Describes, Open
  <2>5. CASE GivesUp(p)
    BY <2>1, <2>5, GivesUpWrites DEF Described, ClaimKept, Describes, Open
  <2> QED BY <1>5, <2>2, <2>3, <2>4, <2>5
<1> QED BY <1>1, <1>2, <1>3, <1>4, <1>5, Writers

(* A plan has a target from the first planning read on. *)
LEMMA StepTargeted ==
    ASSUME Inv, Targeted, [Next]_vars PROVE Targeted'
<1> USE DEF Inv
<1>1. CASE UNCHANGED run
  BY <1>1 DEF Targeted
<1>2. ASSUME NEW r \in Runs,
             \A q \in Runs \ {r} : run'[q] = run[q],
             \/ run'[r].pc \in {"plan", "reject", "abort", "done", "crashed"}
             \/ /\ run'[r].plan = run[r].plan
                /\ run[r].pc \in {"title", "occurrences", "count", "lease", "commit"}
             \/ run'[r].plan.content.target # NoTitle
      PROVE  Targeted'
  BY <1>2 DEF Targeted
<1>3. ASSUME NEW r \in Runs, Start(r) \/ Crash(r) PROVE Targeted'
  <2>1. /\ \A q \in Runs \ {r} : run'[q] = run[q]
        /\ run'[r].pc \in {"plan", "reject", "done", "crashed"}
    <3>1. CASE Crash(r)
      BY <3>1 DEF Crash, Goto, TypeOK, RunState
    <3>2. ASSUME NEW p \in Proposals, StartApply(r, p) \/ StartReject(r, p)
          PROVE  /\ \A q \in Runs \ {r} : run'[q] = run[q]
                 /\ run'[r].pc \in {"plan", "reject", "done"}
      BY <3>2 DEF StartApply, StartReject, TypeOK, RunState
    <3> QED BY <1>3, <3>1, <3>2 DEF Start
  <2> QED BY <1>2, <2>1
<1>4. ASSUME NEW r \in Runs, RunStep(r) PROVE Targeted'
  <2>0. \A q \in Runs \ {r} : run'[q] = run[q]
    BY <1>4 DEF TypeOK, Goto, Finish, Answered, RunStep, MarkRejected,
       PlanProposal, PlanTitle, PlanOccurrences, PlanCount, RefuseLease,
       RecoverLease, AcquireLease, CommitDenied, CommitStale, CommitMove,
       CommitRaises, MarkAborted, AbortLost, CallRaises
  <2> USE DEF TypeOK, RunState, Goto, Finish, Answered
  <2>1. CASE MarkRejected(r) \/ RefuseLease(r) \/ RecoverLease(r)
             \/ CommitDenied(r) \/ CommitStale(r) \/ CommitMove(r)
             \/ CommitRaises(r) \/ MarkAborted(r) \/ AbortLost(r)
             \/ CallRaises(r)
    <3>1. run'[r].pc \in {"done", "abort"}
      BY <2>1 DEF CallRaises, MarkRejected, RefuseLease, RecoverLease, CommitDenied,
         CommitStale, CommitMove, CommitRaises, MarkAborted, AbortLost
    <3> QED BY <1>2, <2>0, <3>1
  <2>2. CASE PlanTitle(r) \/ PlanOccurrences(r) \/ PlanCount(r)
             \/ AcquireLease(r)
    <3>1. /\ run'[r].plan = run[r].plan
          /\ run[r].pc \in {"title", "occurrences", "count", "lease"}
      BY <2>2 DEF PlanTitle, PlanOccurrences, PlanCount, AcquireLease
    <3> QED BY <1>2, <2>0, <3>1
  <2>3. CASE PlanProposal(r)
    <3>1. \/ run'[r].pc = "done"
          \/ run'[r].plan.content.target # NoTitle
      BY <2>3 DEF PlanProposal
    <3> QED BY <1>2, <2>0, <3>1
  <2> QED BY <1>4, <2>1, <2>2, <2>3 DEF RunStep
<1> QED BY <1>1, <1>3, <1>4
           DEF Next, Audit, Operator, Scanning, Tick, vars, RefreshFromAudit,
               Approve, Requeue, FlushTitle, FlushOccurrence, ScanDies

LEMMA ClaimsHold == Spec => [](Inv /\ Claims)
<1>1. Init => Claims
  BY DEF Init, Claims, Described, ClaimKept, Targeted, NoDoc, Open
<1>2. Inv /\ Claims /\ [Next]_vars => Claims'
  BY StepDescribed, StepTargeted DEF Claims
<1> QED BY <1>1, <1>2, InvHolds, PTL DEF Spec

-----------------------------------------------------------------------------
(* The commit applies what was approved, to what the operator was shown *)

(* What a commit finds: the documents of the live, approved claim.          *)
LEMMA CommitFinds ==
    ASSUME Inv, Claims, NEW r \in Runs, NEW p \in Proposals, p = run[r].job,
           CommitMove(r)
    PROVE  /\ run[r].plan.content = proposal[p].content
           /\ proposal[p].content = approved[p]
           /\ proposal[p].content.target # NoTitle
           /\ title[Source[p]] = approved[p].titlePrint
           /\ title[Source[p]] # NoPrint
           /\ \A o \in Named[p] : /\ occ[Source[p]][o] = approved[p].occPrints[o]
                                  /\ occ[Source[p]][o] # NoPrint
           /\ run[r].count = Cardinality(Under(Source[p]))
<1>1. /\ proposal[p].status = "applying"
      /\ run[r].pc = "commit"
      /\ PlanHolds(r)
  BY DEF CommitMove, OwnsLease
<1>2. proposal[p].content = approved[p] /\ Describes(proposal[p], p)
  BY <1>1 DEF Claims, Described, ClaimKept, Open
<1>3. run[r].plan.content.target # NoTitle
  BY <1>1 DEF Claims, Targeted
<1> QED BY <1>1, <1>2, <1>3 DEF PlanHolds, Describes

(* What leaves the source are the named occurrences.                        *)
LEMMA MoveTakesNamed ==
    ASSUME Inv, Claims, NEW r \in Runs, NEW p \in Proposals, p = run[r].job,
           CommitMove(r)
    PROVE  {o \in Occurrences : occ[Source[p]][o] # occ'[Source[p]][o]} = Named[p]
<1> USE ConstantsAssumption
<1>1. \A o \in Occurrences :
        occ'[Source[p]][o] = IF o \in Named[p] THEN NoPrint
                             ELSE occ[Source[p]][o]
  <2>1. occ' = MovedOccurrences(p, run[r].plan.content.target)
    BY DEF CommitMove
  <2>2. Source[p] \in Titles
    OBVIOUS
  <2> HIDE DEF Inv, Claims
  <2>3. ASSUME NEW o \in Occurrences
        PROVE  occ'[Source[p]][o] = IF o \in Named[p] THEN NoPrint
                                    ELSE occ[Source[p]][o]
    <3>1. CASE o \in Named[p]
      BY <2>1, <2>2, <3>1 DEF MovedOccurrences
    <3>2. CASE o \notin Named[p]
      BY <2>1, <2>2, <3>2 DEF MovedOccurrences
    <3> QED BY <3>1, <3>2
  <2> QED BY <2>3
<1>2. Named[p] \subseteq Occurrences
  OBVIOUS
<1>3. \A o \in Named[p] : occ[Source[p]][o] # NoPrint
  BY CommitFinds
<1>4. ASSUME NEW o \in Occurrences
      PROVE  occ[Source[p]][o] # occ'[Source[p]][o] <=> o \in Named[p]
  BY <1>1, <1>3
<1> HIDE DEF Inv, Claims
<1> QED BY <1>2, <1>4

(* Only the commit of a run applies a proposal, and only that run's. *)
LEMMA OnlyCommitApplies ==
    ASSUME Inv, [Next]_vars, NEW p \in Proposals, Applies(p)
    PROVE  \E r \in Runs : p = run[r].job /\ CommitMove(r)
<1> USE DEF Inv, Applies
<1>1. ~UNCHANGED <<proposal, lease>>
  OBVIOUS
<1>2. ASSUME NEW q \in Proposals,
             RefreshFromAudit(q) \/ Approve(q) \/ Requeue(q)
      PROVE  FALSE
  BY <1>2, DecisionWrites
<1>3. ASSUME NEW q \in Proposals, GivesUp(q) PROVE FALSE
  BY <1>3, GivesUpWrites
<1>4. ASSUME NEW r \in Runs, run[r].job \in Proposals, MarkRejected(r)
      PROVE  FALSE
  BY <1>4, RejectWrites
<1>5. ASSUME NEW r \in Runs, run[r].job \in Proposals, AcquireLease(r)
      PROVE  FALSE
  BY <1>5, AcquireWrites
<1>6. ASSUME NEW r \in Runs, run[r].job \in Proposals, CommitMove(r)
      PROVE  p = run[r].job
  BY <1>6, MoveWrites
<1> QED BY <1>1, <1>2, <1>3, <1>4, <1>5, <1>6, Writers

(* What is applied is what the operator approved, to documents that still   *)
(* have the approved fingerprints, and only the named occurrences leave.    *)
THEOREM AlwaysAppliedAsApproved == Spec => AppliedAsApproved
<1>1. ASSUME Inv, Claims, [Next]_vars, NEW p \in Proposals, Applies(p)
      PROVE  /\ proposal[p].content = approved[p]
             /\ title[Source[p]] = approved[p].titlePrint
             /\ \A o \in Named[p] : occ[Source[p]][o] = approved[p].occPrints[o]
             /\ {o \in Occurrences :
                    occ[Source[p]][o] # occ'[Source[p]][o]} = Named[p]
  <2>1. PICK r \in Runs : p = run[r].job /\ CommitMove(r)
    BY <1>1, OnlyCommitApplies
  <2>2. {o \in Occurrences : occ[Source[p]][o] # occ'[Source[p]][o]} = Named[p]
    BY <1>1, <2>1, MoveTakesNamed
  <2> QED BY <1>1, <2>1, <2>2, CommitFinds
<1>2. Inv /\ Claims /\ [Next]_vars =>
        [\A p \in Proposals : Applies(p) =>
          LET s == Source[p] IN
          /\ proposal[p].content = approved[p]
          /\ title[s] = approved[p].titlePrint
          /\ \A o \in Named[p] : occ[s][o] = approved[p].occPrints[o]
          /\ {o \in Occurrences : occ[s][o] # occ'[s][o]} = Named[p]]_vars
  BY <1>1
<1> QED BY <1>2, ClaimsHold, PTL DEF Spec, AppliedAsApproved

-----------------------------------------------------------------------------
(* The refinement *)

(* The abstract state: where the decision stands and what is claimed.       *)
Stage == [p \in Proposals |-> IF proposal[p].status = "applying"
                              THEN "approved" ELSE proposal[p].status]
Claim == [p \in Proposals |-> proposal[p].content]

(* The abstract repair merges documents as the detailed one does. *)
LEMMA SameMerge ==
    /\ Repair!Prints = Prints
    /\ Repair!Content = Content
    /\ \A old, new : Repair!Stored(old, new) = Stored(old, new)
  BY DEF Repair!Prints, Prints, Repair!Content, Content, Repair!Stored, Stored,
         Repair!Merged, Merged

LEMMA InitRefines == Init => Repair!Init
<1> SUFFICES ASSUME Init PROVE Repair!Init
  OBVIOUS
<1>1. Stage = [p \in Proposals |-> "absent"]
  BY DEF Init, Stage, NoDoc
<1>2. Claim = [p \in Proposals |-> NoContent]
  BY DEF Init, Claim, NoDoc
<1> QED BY <1>1, <1>2 DEF Init, Repair!Init, Stage, Claim, NoContent

(* A step that writes one record changes the abstract state there only.     *)
LEMMA OneStage ==
    ASSUME NEW p \in Proposals,
           \A q \in Proposals \ {p} : proposal'[q] = proposal[q]
    PROVE  /\ Stage' = [Stage EXCEPT ![p] = Stage'[p]]
           /\ Claim' = [Claim EXCEPT ![p] = Claim'[p]]
           /\ proposal'[p].content = proposal[p].content => Claim' = Claim
  BY DEF Stage, Claim

LEMMA OneClaim ==
    ASSUME TypeOK', NEW p \in Proposals, NEW claims,
           \A q \in Proposals \ {p} : proposal'[q] = proposal[q],
           Claim'[p] \in claims
    PROVE  Repair!Restate(p, claims)
<1>1. Claim' \in [Proposals -> Repair!Content]
  BY SameMerge DEF Claim, TypeOK, ProposalDoc
<1>2. \A q \in Proposals \ {p} : Claim'[q] = Claim[q]
  BY DEF Claim
<1> QED BY <1>1, <1>2 DEF Repair!Restate, Claim

LEMMA ScanRefines ==
    ASSUME Inv, Scanning PROVE Repair!Record \/ UNCHANGED <<title, occ, Stage, Claim>>
<1> USE ConstantsAssumption DEF Inv
<1>1. UNCHANGED <<Stage, Claim>>
  BY DEF Scanning, FlushTitle, FlushOccurrence, ScanDies, Stage, Claim
<1>2. ASSUME NEW s \in Scans, NEW seen \in Observations, FlushTitle(s, seen)
      PROVE  Repair!Record
  <2>1. seen.title \in Titles /\ seen.titlePrint \in Prints
    BY DEF Observation
  <2> QED BY <1>1, <1>2, <2>1, SameMerge
             DEF FlushTitle, Repair!Record, Stage, Claim
<1>3. ASSUME NEW s \in Scans, FlushOccurrence(s) PROVE Repair!Record
  <2>1. scan[s] \in [title : Titles, occurrence : Occurrences, print : Prints]
    BY <1>3 DEF FlushOccurrence, TypeOK, ScanState
  <2>2. /\ scan[s].title \in Titles
        /\ scan[s].occurrence \in Occurrences
        /\ scan[s].print \in Prints
    BY <2>1
  <2> QED BY <1>1, <1>3, <2>2, SameMerge
             DEF FlushOccurrence, Repair!Record, Stage, Claim
<1>4. ASSUME NEW s \in Scans, ScanDies(s)
      PROVE  UNCHANGED <<title, occ, Stage, Claim>>
  BY <1>1, <1>4 DEF ScanDies
<1> QED BY <1>2, <1>3, <1>4 DEF Scanning

LEMMA DecisionRefines ==
    ASSUME Inv, NEW p \in Proposals,
           RefreshFromAudit(p) \/ Approve(p) \/ Requeue(p)
    PROVE  \/ Repair!Propose(p)
           \/ Repair!Decide(p, "pending", "approved")
           \/ Repair!Decide(p, "failed", "pending")
<1> USE ConstantsAssumption DEF Inv
<1>1. /\ Stage' = [Stage EXCEPT ![p] = Stage'[p]]
      /\ Claim' = [Claim EXCEPT ![p] = Claim'[p]]
      /\ proposal'[p].content = proposal[p].content => Claim' = Claim
  BY DecisionWrites, OneStage
<1>0. /\ TypeOK'
      /\ \A q \in Proposals \ {p} : proposal'[q] = proposal[q]
  <2>1. [Next]_vars
    BY DEF Next, Audit, Operator
  <2> QED BY <2>1, StepTyped, DecisionWrites
<1>2. CASE RefreshFromAudit(p)
  <2>1. /\ proposal[p].status \in {"absent", "pending"}
        /\ proposal'[p].status = "pending"
    BY <1>2, AuditWrites DEF RefreshFromAudit
  <2>2. Stage[p] \in {"absent", "pending"} /\ Stage'[p] = "pending"
    BY <2>1 DEF Stage
  <2> DEFINE claim(target, titlePrint, seen) ==
                [target |-> target, titlePrint |-> titlePrint,
                 occPrints |-> [o \in Occurrences |->
                    IF o \in Named[p] THEN seen[o] ELSE NoPrint]]
  <2>3. PICK target \in Suggested[p], read \in Readings :
          /\ proposal'[p].status = "pending"
          /\ proposal'[p].content = claim(target, read.titlePrint, read.occPrints)
    BY <1>2, AuditWrites
  <2>4. /\ target \in Titles \cup {NoTitle}
        /\ read.titlePrint \in Prints
        /\ read.occPrints \in [Occurrences -> Prints]
    BY DEF Reading
  <2>6. UNCHANGED <<title, occ>>
    BY <1>2 DEF RefreshFromAudit
  <2> HIDE DEF Inv
  <2>7. Claim'[p] \in Repair!Claims(p)
    <3> DEFINE told == claim(target, read.titlePrint, read.occPrints)
    <3>1. told \in Content /\ told.titlePrint \in Prints
      BY <2>4 DEF Content
    <3>2. \A o \in Occurrences : o \in Named[p] <=> told.occPrints[o] # NoPrint
      BY <2>4, PrintsAssumption
    <3>3. Claim'[p] = told
      BY <2>3 DEF Claim
    <3> HIDE DEF told, claim
    <3> QED BY <3>1, <3>2, <3>3, SameMerge DEF Repair!Claims
  <2>8. Repair!Restate(p, Repair!Claims(p))
    BY <1>0, <1>1, <2>7, OneClaim
  <2>9. Repair!Propose(p)
    BY <1>1, <2>2, <2>6, <2>8 DEF Repair!Propose, Stage, Claim
  <2> QED BY <2>9
<1>3. CASE Approve(p)
  <2>1. /\ Stage[p] = "pending" /\ Stage'[p] = "approved"
        /\ UNCHANGED <<title, occ, Claim>>
    BY <1>1, <1>3, OperatorWrites DEF Approve, Stage, TypeOK, ProposalDoc
  <2>2. Repair!Decide(p, "pending", "approved")
    BY <1>1, <2>1 DEF Repair!Decide, Stage, Claim
  <2> QED BY <2>2
<1>4. CASE Requeue(p)
  <2>1. /\ Stage[p] = "failed" /\ Stage'[p] = "pending"
        /\ UNCHANGED <<title, occ, Claim>>
    BY <1>1, <1>4, OperatorWrites DEF Requeue, Stage, TypeOK, ProposalDoc
  <2>2. Repair!Decide(p, "failed", "pending")
    BY <1>1, <2>1 DEF Repair!Decide, Stage, Claim
  <2> QED BY <2>2
<1> QED BY <1>2, <1>3, <1>4

LEMMA RejectRefines ==
    ASSUME Inv, NEW r \in Runs, NEW p \in Proposals, p = run[r].job,
           MarkRejected(r)
    PROVE  Repair!Reject(p) \/ UNCHANGED <<title, occ, Stage, Claim>>
<1> USE DEF Inv
<1>0. TypeOK'
  <2>1. [Next]_vars
    BY DEF Next, RunStep
  <2> QED BY <2>1, StepTyped
<1>1. UNCHANGED <<title, occ>>
  BY DEF MarkRejected
<1>2. CASE UNCHANGED proposal
  BY <1>1, <1>2 DEF Stage, Claim
<1>3. CASE /\ proposal[p].status \in {"pending", "rejected"}
           /\ proposal'[p].status = "rejected"
           /\ proposal'[p].content = run[r].plan.content
           /\ \A q \in Proposals \ {p} : proposal'[q] = proposal[q]
  <2>1. run[r].plan.content \in Repair!Content
    BY SameMerge DEF TypeOK, RunState, ProposalDoc
  <2>2. /\ Stage[p] \in {"pending", "rejected"} /\ Stage'[p] = "rejected"
        /\ Claim'[p] = run[r].plan.content
    BY <1>3 DEF Stage, Claim
  <2>3. /\ Stage' = [Stage EXCEPT ![p] = "rejected"]
        /\ Repair!Restate(p, Repair!Content)
    BY <1>0, <1>3, <2>1, <2>2, OneStage, OneClaim
  <2> QED BY <1>1, <2>1, <2>2, <2>3 DEF Repair!Reject, Stage, Claim
<1> QED BY <1>2, <1>3, RejectWrites

(* Giving attempts up, and failing the expired ones beside a new attempt.   *)
LEMMA GiveUpRefines ==
    ASSUME UNCHANGED <<title, occ, Claim>>,
           NEW gone \in SUBSET Proposals,
           \A q \in gone : /\ proposal[q].status = "applying"
                           /\ proposal'[q].status = "failed",
           \A q \in Proposals \ gone : Stage'[q] = Stage[q]
    PROVE  Repair!GiveUp
<1>1. gone \subseteq {q \in Proposals : Stage[q] = "approved"}
  BY DEF Stage
<1>2. Stage' = [q \in Proposals |-> IF q \in gone THEN "failed" ELSE Stage[q]]
  BY DEF Stage
<1> QED BY <1>1, <1>2 DEF Repair!GiveUp, Stage, Claim

LEMMA AcquireRefines ==
    ASSUME Inv, NEW r \in Runs, NEW p \in Proposals, p = run[r].job,
           AcquireLease(r)
    PROVE  Repair!GiveUp
<1> USE DEF Inv
<1>1. UNCHANGED <<title, occ>>
  BY DEF AcquireLease
<1>2. Claim' = Claim
  BY AcquireWrites DEF Claim
<1>3. ApplyingBeside(p) \in SUBSET Proposals
  BY DEF ApplyingBeside
<1>4. \A q \in Proposals \ ApplyingBeside(p) : Stage'[q] = Stage[q]
  BY AcquireWrites DEF Stage
<1>5. \A q \in ApplyingBeside(p) : /\ proposal[q].status = "applying"
                                  /\ proposal'[q].status = "failed"
  BY AcquireWrites
<1> QED BY <1>1, <1>2, <1>3, <1>4, <1>5, GiveUpRefines

LEMMA GivesUpRefines ==
    ASSUME Inv, NEW p \in Proposals, GivesUp(p), UNCHANGED <<title, occ>>
    PROVE  Repair!GiveUp
<1> USE DEF Inv
<1>1. Claim' = Claim
  BY GivesUpWrites DEF Claim
<1>2. \A q \in Proposals \ {p} : Stage'[q] = Stage[q]
  BY GivesUpWrites DEF Stage
<1>3. \A q \in {p} : /\ proposal[q].status = "applying"
                     /\ proposal'[q].status = "failed"
  BY GivesUpWrites
<1>4. {p} \in SUBSET Proposals
  OBVIOUS
<1> QED BY <1>1, <1>2, <1>3, <1>4, GiveUpRefines

(* The source is emptied exactly when the count the run planned with is the *)
(* number of named occurrences.                                             *)
LEMMA CountTellsEmptied ==
    ASSUME Inv, Claims, NEW r \in Runs, NEW p \in Proposals, p = run[r].job,
           CommitMove(r)
    PROVE  run[r].count = Cardinality(Named[p]) <=> Repair!Emptied(p)
<1> USE ConstantsAssumption
<1> DEFINE under == Under(Source[p])
<1>0. Named[p] \subseteq Occurrences
  OBVIOUS
<1>1. Named[p] \in SUBSET under
  <2>1. \A o \in Named[p] : occ[Source[p]][o] # NoPrint
    BY CommitFinds
  <2> QED BY <1>0, <2>1 DEF Under
<1>2. IsFiniteSet(under)
  BY OccurrencesFinite
<1>3. run[r].count = Cardinality(under)
  BY CommitFinds
<1>4. Repair!Emptied(p) <=> under \subseteq Named[p]
  BY DEF Repair!Emptied, Under
<1> HIDE DEF under
<1>5. Cardinality(under) = Cardinality(Named[p]) => under = Named[p]
  BY <1>1, <1>2, FS_Subset
<1> QED BY <1>1, <1>3, <1>4, <1>5

(* The commit is the atomic repair. *)
LEMMA MoveRefines ==
    ASSUME Inv, Claims, NEW r \in Runs, NEW p \in Proposals, p = run[r].job,
           CommitMove(r)
    PROVE  Repair!Apply(p)
<1> DEFINE s == Source[p]
           target == Claim[p].target
<1>1. /\ target = run[r].plan.content.target
      /\ target = proposal[p].content.target
  BY CommitFinds DEF Claim
<1>2. Repair!StillHolds(p)
  BY CommitFinds DEF Repair!StillHolds, Claim
<1>3. /\ Stage[p] = "approved"
      /\ Stage' = [Stage EXCEPT ![p] = "applied"]
      /\ Claim' = Claim
  <2>1. /\ proposal[p].status = "applying"
        /\ proposal'[p].status = "applied"
        /\ proposal'[p].content = proposal[p].content
        /\ \A q \in Proposals \ {p} : proposal'[q] = proposal[q]
    BY MoveWrites DEF Inv
  <2>2. Stage[p] = "approved" /\ Stage'[p] = "applied"
    BY <2>1 DEF Stage
  <2> QED BY <2>1, <2>2, OneStage
<1>4. title' = [t \in Titles |->
          CASE t = target /\ t # s -> Stored(title[t], Canonical)
            [] t = s /\ target # s /\ Repair!Emptied(p) -> NoPrint
            [] OTHER -> title[t]]
  <2>1. title' = MovedTitles(p, target, run[r].count)
    BY <1>1 DEF CommitMove
  <2>2. SourceEmptied(p, target, run[r].count)
           <=> target # s /\ Repair!Emptied(p)
    BY CountTellsEmptied DEF SourceEmptied
  <2> HIDE DEF s, target
  <2>3. \A t \in Titles :
          (CASE SourceEmptied(p, target, run[r].count) /\ t = s -> NoPrint
             [] target # s /\ t = target -> Stored(title[t], Canonical)
             [] OTHER -> title[t])
          = (CASE t = target /\ t # s -> Stored(title[t], Canonical)
             [] t = s /\ target # s /\ Repair!Emptied(p) -> NoPrint
             [] OTHER -> title[t])
    BY <2>2
  <2> QED BY <2>1, <2>3 DEF MovedTitles, s
<1>5. occ' = [t \in Titles |-> [o \in Occurrences |->
          CASE o \in Named[p] /\ t = s -> NoPrint
            [] o \in Named[p] /\ t = target /\ t # s
                 -> Stored(occ[t][o], occ[s][o])
            [] OTHER -> occ[t][o]]]
  BY <1>1 DEF CommitMove, MovedOccurrences
<1> HIDE DEF s, target
<1> QED BY <1>2, <1>3, <1>4, <1>5, SameMerge
        DEF Repair!Apply, Repair!StillHolds, Stage, Claim, s, target

LEMMA StepRefines ==
    ASSUME Inv, Claims, [Next]_vars PROVE [Repair!Next]_(Repair!vars)
<1> SUFFICES ASSUME ~Repair!Next PROVE UNCHANGED <<title, occ, Stage, Claim>>
  BY DEF Repair!vars, Stage, Claim
<1>1. CASE UNCHANGED vars \/ Tick
  BY <1>1 DEF vars, Tick, Stage, Claim
<1>2. CASE Audit \/ Operator
  BY <1>2, DecisionRefines DEF Audit, Operator, Repair!Next
<1>3. CASE Scanning
  BY <1>3, ScanRefines DEF Repair!Next
<1>4. ASSUME NEW r \in Runs, Start(r) \/ Crash(r)
      PROVE  UNCHANGED <<title, occ, Stage, Claim>>
  BY <1>4 DEF Start, StartApply, StartReject, Crash, Stage, Claim
<1>5. ASSUME NEW r \in Runs, RunStep(r)
      PROVE  UNCHANGED <<title, occ, Stage, Claim>>
  <2>1. CASE \/ PlanProposal(r) \/ PlanTitle(r) \/ PlanOccurrences(r)
             \/ PlanCount(r) \/ RefuseLease(r) \/ CommitDenied(r)
             \/ CommitRaises(r) \/ AbortLost(r) \/ CallRaises(r)
             \/ MarkAborted(r) /\ ~OwnsLease(r)
    BY <2>1 DEF CallRaises, PlanProposal, PlanTitle, PlanOccurrences, PlanCount,
       RefuseLease, CommitDenied, CommitRaises, AbortLost, MarkAborted,
       Stage, Claim
  <2>2. CASE \/ MarkRejected(r) \/ AcquireLease(r) \/ CommitMove(r)
             \/ RecoverLease(r) \/ CommitStale(r)
             \/ MarkAborted(r) /\ OwnsLease(r)
    <3>1. PICK p \in Proposals : p = run[r].job
      BY <2>2 DEF Inv, Assigned, MarkRejected, AcquireLease, CommitMove,
         RecoverLease, CommitStale, MarkAborted
    <3>2. CASE MarkRejected(r)
      BY <3>1, <3>2, RejectRefines DEF Repair!Next
    <3>3. CASE AcquireLease(r)
      BY <3>1, <3>3, AcquireRefines DEF Repair!Next
    <3>4. CASE CommitMove(r)
      BY <3>1, <3>4, MoveRefines DEF Repair!Next
    <3>5. CASE \/ RecoverLease(r) \/ CommitStale(r)
               \/ MarkAborted(r) /\ OwnsLease(r)
      <4>1. RecoverLease(r) => GivesUp(p)
        BY <3>1, LeaseNames DEF RecoverLease, GivesUp, Inv
      <4>2. CommitStale(r) => GivesUp(p)
        BY <3>1 DEF CommitStale, OwnsLease, GivesUp
      <4>3. MarkAborted(r) /\ OwnsLease(r) => GivesUp(p)
        BY <3>1 DEF MarkAborted, OwnsLease, GivesUp
      <4>4. UNCHANGED <<title, occ>>
        BY <3>5 DEF RecoverLease, CommitStale, MarkAborted
      <4> QED BY <3>5, <4>1, <4>2, <4>3, <4>4, GivesUpRefines DEF Repair!Next
    <3> QED BY <2>2, <3>2, <3>3, <3>4, <3>5
  <2> QED BY <1>5, <2>1, <2>2 DEF RunStep
<1> QED BY <1>1, <1>2, <1>3, <1>4, <1>5 DEF Next

(* Leases, plans, retries, crashes and lost answers implement the atomic    *)
(* repair: the catalogue changes by scans and by whole repairs only.        *)
THEOREM RefinesRepair == Spec => ImplementsRepair
<1>1. Init => Repair!Init
  BY InitRefines
<1>2. Inv /\ Claims /\ [Next]_vars => [Repair!Next]_(Repair!vars)
  BY StepRefines
<1> QED BY <1>1, <1>2, ClaimsHold, PTL DEF Spec, ImplementsRepair, Repair!Spec

-----------------------------------------------------------------------------
(* Nothing is lost on the way, when no audit suggests a proposal's own title *)

Elsewhere == \A p \in Proposals :
    proposal[p].status \in Open => proposal[p].content.target # Source[p]

LEMMA StepElsewhere ==
    ASSUME Inv, Elsewhere, [Next]_vars,
           \A p \in Proposals : Source[p] \notin Suggested[p]
    PROVE  Elsewhere'
<1> USE DEF Inv
<1>1. CASE UNCHANGED <<proposal, lease>>
  BY <1>1 DEF Elsewhere
<1>2. ASSUME NEW p \in Proposals, RefreshFromAudit(p) PROVE Elsewhere'
  <2>1. PICK target \in Suggested[p], read \in Readings :
          proposal'[p].content =
            [target |-> target, titlePrint |-> read.titlePrint,
             occPrints |-> [o \in Occurrences |->
                IF o \in Named[p] THEN read.occPrints[o] ELSE NoPrint]]
    BY <1>2, AuditWrites
  <2>2. proposal'[p].content.target # Source[p]
    BY <2>1
  <2> QED BY <1>2, <2>2, DecisionWrites DEF Elsewhere
<1>3. ASSUME NEW p \in Proposals, Approve(p) \/ Requeue(p) PROVE Elsewhere'
  <2>1. proposal[p].status \in {"pending", "failed"}
    BY <1>3 DEF Approve, Requeue
  <2> QED BY <1>3, <2>1, OperatorWrites, DecisionWrites DEF Elsewhere, Open
<1>4. ASSUME NEW r \in Runs, run[r].job \in Proposals, MarkRejected(r)
      PROVE  Elsewhere'
  BY <1>4, RejectWrites DEF Elsewhere, Open
<1>5. ASSUME NEW r \in Runs, run[r].job \in Proposals, AcquireLease(r)
      PROVE  Elsewhere'
  BY <1>5, AcquireWrites DEF Elsewhere, Open
<1>6. ASSUME NEW r \in Runs, run[r].job \in Proposals, CommitMove(r)
      PROVE  Elsewhere'
  BY <1>6, MoveWrites DEF Elsewhere, Open
<1>7. ASSUME NEW p \in Proposals, GivesUp(p) PROVE Elsewhere'
  BY <1>7, GivesUpWrites DEF Elsewhere, Open
<1> QED BY <1>1, <1>2, <1>3, <1>4, <1>5, <1>6, <1>7, Writers

(* Occurrences are written by scans, which never delete, and by commits. *)
LEMMA OccurrenceWrites ==
    ASSUME Inv, [Next]_vars, NEW t \in Titles, NEW o \in Occurrences,
           occ[t][o] # NoPrint, occ'[t][o] = NoPrint
    PROVE  \E r \in Runs : CommitMove(r)
<1> USE ConstantsAssumption DEF Inv
<1>1. ~UNCHANGED occ
  OBVIOUS
<1>2. ASSUME NEW s \in Scans, FlushOccurrence(s) PROVE FALSE
  <2>1. scan[s] \in [title : Titles, occurrence : Occurrences, print : Prints]
    BY <1>2 DEF FlushOccurrence, TypeOK, ScanState
  <2>2. scan[s].print \in Prints
    BY <2>1
  <2> QED BY <1>2, <2>1, <2>2, StoredTyped DEF FlushOccurrence, TypeOK
<1>3. ASSUME NEW r \in Runs, RunStep(r)
      PROVE  UNCHANGED occ \/ CommitMove(r)
  BY <1>3 DEF RunStep, MarkRejected, PlanProposal, PlanTitle, PlanOccurrences,
     PlanCount, RefuseLease, RecoverLease, AcquireLease, CommitDenied,
     CommitStale, CommitRaises, MarkAborted, AbortLost, CallRaises
<1>4. ASSUME NEW r \in Runs, Start(r) \/ Crash(r) PROVE UNCHANGED occ
  BY <1>4 DEF Start, StartApply, StartReject, Crash
<1>5. CASE Audit \/ Operator \/ Tick \/ UNCHANGED vars
  <2>1. UNCHANGED occ
    BY <1>5 DEF Audit, Operator, Tick, vars, RefreshFromAudit, Approve, Requeue
  <2> QED BY <2>1
<1>6. CASE Scanning
  <2>1. UNCHANGED occ
    BY <1>2, <1>6 DEF Scanning, FlushTitle, ScanDies
  <2> QED BY <2>1
<1>7. ASSUME NEW r \in Runs, Start(r) \/ RunStep(r) \/ Crash(r)
      PROVE  CommitMove(r)
  <2>1. UNCHANGED occ \/ CommitMove(r)
    BY <1>3, <1>4, <1>7
  <2> QED BY <1>1, <2>1
<1> QED BY <1>5, <1>6, <1>7 DEF Next

(* Merging carries what is moved, whatever the target holds. *)
LEMMA MergeCarries ==
    ASSUME NEW had \in Prints \cup {NoPrint}, NEW moved \in Prints
    PROVE  Carries(Stored(had, moved), moved, had)
<1>1. CASE had = NoPrint
  BY <1>1 DEF Carries, Stored
<1>2. CASE had \in Prints /\ had # NoPrint
  <2>1. Stored(had, moved) = Merged(had, moved)
    BY <1>2 DEF Stored
  <2>2. /\ Merged(had, moved).identity = moved.identity
        /\ Merged(had, moved).detail = IF moved.detail # NoField
                                       THEN moved.detail ELSE had.detail
        /\ Merged(had, moved).origin = IF had.origin # NoField
                                       THEN had.origin ELSE moved.origin
    BY DEF Merged
  <2> HIDE DEF Prints
  <2> QED BY <1>2, <2>1, <2>2 DEF Carries
<1> QED BY <1>1, <1>2

(* Nothing is lost: an occurrence that leaves a title is, after the same    *)
(* step, under the target of the proposal that step applies, with all it    *)
(* said, whatever that target held before.                                  *)
(* The hypothesis is needed: see SameSourceTargetIsNoOp.                    *)
THEOREM OccurrencesAlwaysMoveWhole ==
    ASSUME \A p \in Proposals : Source[p] \notin Suggested[p]
    PROVE  Spec => OccurrencesMoveWhole
<1> USE ConstantsAssumption
<1>1. Init => Elsewhere
  BY DEF Init, Elsewhere, NoDoc, Open
<1>2. Inv /\ Elsewhere /\ [Next]_vars => Elsewhere'
  BY StepElsewhere
<1>3. ASSUME Inv, Claims, Elsewhere, [Next]_vars,
             NEW t \in Titles, NEW o \in Occurrences,
             occ[t][o] # NoPrint, occ'[t][o] = NoPrint
      PROVE  \E p \in Proposals :
                LET target == proposal[p].content.target IN
                /\ Applies(p) /\ o \in Named[p] /\ Source[p] = t
                /\ Carries(occ'[target][o], occ[t][o], occ[target][o])
  <2>1. PICK r \in Runs : CommitMove(r)
    BY <1>3, OccurrenceWrites
  <2>2. PICK p \in Proposals : p = run[r].job
    BY <2>1, <1>3 DEF Inv, Assigned, CommitMove
  <2> DEFINE target == proposal[p].content.target
  <2>3. /\ proposal[p].status = "applying"
        /\ proposal'[p].status = "applied"
    BY <1>3, <2>1, <2>2, MoveWrites DEF Inv
  <2>4. /\ target = run[r].plan.content.target
        /\ target \in Titles /\ target # Source[p]
        /\ \A q \in Named[p] : occ[Source[p]][q] # NoPrint
    <3>1. target # Source[p]
      BY <1>3, <2>3 DEF Elsewhere, Open
    <3>2. target \in Titles \cup {NoTitle}
      BY <1>3 DEF Inv, TypeOK, ProposalDoc, Content
    <3>3. /\ proposal[p].content.target # NoTitle
          /\ run[r].plan.content = proposal[p].content
          /\ \A q \in Named[p] : occ[Source[p]][q] # NoPrint
      BY <1>3, <2>1, <2>2, CommitFinds
    <3> QED BY <3>1, <3>2, <3>3
  <2>5. occ' = MovedOccurrences(p, target)
    BY <2>1, <2>2, <2>4 DEF CommitMove
  <2> HIDE DEF target
  <2>6. o \in Named[p] /\ Source[p] = t
    <3>1. ASSUME o \in Named[p], t = target PROVE FALSE
      <4>1. occ[Source[p]][o] \in Prints /\ occ[t][o] \in Prints \cup {NoPrint}
        BY <1>3, <2>4, <3>1 DEF Inv, TypeOK
      <4>2. occ'[t][o] = Stored(occ[t][o], occ[Source[p]][o])
        BY <2>4, <2>5, <3>1 DEF MovedOccurrences
      <4> QED BY <1>3, <4>1, <4>2, StoredTyped
    <3> QED BY <1>3, <2>4, <2>5, <3>1 DEF MovedOccurrences
  <2>7. occ'[target][o] = Stored(occ[target][o], occ[t][o])
    BY <2>4, <2>5, <2>6 DEF MovedOccurrences
  <2>8. occ[t][o] \in Prints /\ occ[target][o] \in Prints \cup {NoPrint}
    BY <1>3, <2>4 DEF Inv, TypeOK
  <2>9. Carries(occ'[target][o], occ[t][o], occ[target][o])
    BY <2>7, <2>8, MergeCarries
  <2> QED BY <2>3, <2>6, <2>9 DEF Applies, target
<1>4. Inv /\ Claims /\ Elsewhere /\ [Next]_vars =>
        [\A t \in Titles, o \in Occurrences :
          occ[t][o] # NoPrint /\ occ'[t][o] = NoPrint =>
             \E p \in Proposals :
                LET target == proposal[p].content.target IN
                /\ Applies(p) /\ o \in Named[p] /\ Source[p] = t
                /\ Carries(occ'[target][o], occ[t][o], occ[target][o])]_vars
  BY <1>3
<1> QED BY <1>1, <1>2, <1>4, ClaimsHold, PTL DEF Spec, OccurrencesMoveWhole
-----------------------------------------------------------------------------
(* Occurrences and their titles *)

(* With one run at a time, no repair is under way between a scan's two      *)
(* writes, so the title it stored is still there for the occurrence.        *)
ScansAlone == \A s \in Scans : scan[s] # NotScanning =>
    /\ \A r \in Runs : run[r].pc \notin Working
    /\ title[scan[s].title] # NoPrint

Housed == OccurrencesHaveTitles /\ ScansAlone

LEMMA InitHoused == Init => Housed
<1> USE ConstantsAssumption
<1> SUFFICES ASSUME Init PROVE Housed
  OBVIOUS
<1>1. ScansAlone
  BY DEF Init, ScansAlone
<1>2. ASSUME NEW t \in Titles, NEW o \in Occurrences, occ[t][o] # NoPrint
      PROVE  title[t] # NoPrint
  <2>1. Filed[o] = t
    BY <1>2 DEF Init
  <2> QED BY <2>1, PrintsAssumption DEF Init
<1> QED BY <1>1, <1>2 DEF Housed, OccurrencesHaveTitles, Under

(* A step that writes neither title nor occurrence, and starts no run       *)
(* beside a scan, keeps occurrences housed.                                 *)
LEMMA QuietHoused ==
    ASSUME Housed, UNCHANGED <<title, occ>>,
           \A s \in Scans : scan'[s] \in {scan[s], NotScanning},
           \A r \in Runs : run'[r].pc \in Working =>
              \/ run[r].pc \in Working
              \/ \A s \in Scans : scan'[s] = NotScanning
    PROVE  Housed'
<1>1. OccurrencesHaveTitles'
  BY DEF Housed, OccurrencesHaveTitles, Under
<1>2. ScansAlone'
  BY DEF Housed, ScansAlone
<1> QED BY <1>1, <1>2 DEF Housed

LEMMA ScanHoused ==
    ASSUME Inv, Housed, Serialized, Scanning PROVE Housed'
<1> USE ConstantsAssumption DEF Inv
<1>1. ASSUME NEW s \in Scans, NEW seen \in Observations, FlushTitle(s, seen)
      PROVE  Housed'
  <2>1. seen.title \in Titles /\ seen.titlePrint \in Prints
    BY DEF Observation
  <2>2. /\ title'[seen.title] # NoPrint
        /\ \A t \in Titles : title[t] # NoPrint => title'[t] # NoPrint
        /\ UNCHANGED <<occ, run>>
    BY <1>1, <2>1, StoredTyped DEF FlushTitle, TypeOK
  <2>3. /\ scan'[s].title = seen.title
        /\ \A q \in Scans \ {s} : scan'[q] = NotScanning
    BY <1>1 DEF FlushTitle, MayStart, TypeOK
  <2>4. \A r \in Runs : run'[r].pc \notin Working
    BY <1>1, <2>2 DEF FlushTitle, MayStart
  <2>5. OccurrencesHaveTitles'
    BY <2>2 DEF Housed, OccurrencesHaveTitles, Under
  <2>6. ScansAlone'
    BY <2>2, <2>3, <2>4 DEF ScansAlone
  <2> QED BY <2>5, <2>6 DEF Housed
<1>2. ASSUME NEW s \in Scans, FlushOccurrence(s) PROVE Housed'
  <2>1. scan[s] \in [title : Titles, occurrence : Occurrences, print : Prints]
    BY <1>2 DEF FlushOccurrence, TypeOK, ScanState
  <2>2. /\ title[scan[s].title] # NoPrint
        /\ \A r \in Runs : run[r].pc \notin Working
    BY <1>2 DEF FlushOccurrence, Housed, ScansAlone
  <2>3. /\ UNCHANGED <<title, run>>
        /\ \A q \in Scans : scan'[q] \in {scan[q], NotScanning}
    BY <1>2 DEF FlushOccurrence, TypeOK
  <2>4. \A t \in Titles : t # scan[s].title => occ'[t] = occ[t]
    BY <1>2, <2>1 DEF FlushOccurrence, TypeOK
  <2>5. OccurrencesHaveTitles'
    BY <2>2, <2>3, <2>4 DEF Housed, OccurrencesHaveTitles, Under
  <2>6. ScansAlone'
    BY <2>2, <2>3 DEF Housed, ScansAlone
  <2> QED BY <2>5, <2>6 DEF Housed
<1>3. ASSUME NEW s \in Scans, ScanDies(s) PROVE Housed'
  <2>1. /\ UNCHANGED <<title, occ, run>>
        /\ \A q \in Scans : scan'[q] \in {scan[q], NotScanning}
    BY <1>3 DEF ScanDies, TypeOK
  <2> QED BY <2>1, QuietHoused
<1> QED BY <1>1, <1>2, <1>3 DEF Scanning

(* A run starts only when no scan is between its two writes. *)
LEMMA StartHoused ==
    ASSUME Inv, Housed, Serialized, NEW r \in Runs, Start(r) PROVE Housed'
<1>1. \A s \in Scans : scan[s] = NotScanning
  BY DEF Start, StartApply, StartReject, MayStart
<1>2. UNCHANGED <<title, occ, scan>>
  BY DEF Start, StartApply, StartReject
<1> QED BY <1>1, <1>2, QuietHoused

(* The commit deletes its source title only with the last occurrence, and   *)
(* gives every occurrence it moves the target title.                        *)
LEMMA MoveHoused ==
    ASSUME Inv, Claims, Housed, NEW r \in Runs, NEW p \in Proposals,
           p = run[r].job, CommitMove(r)
    PROVE  Housed'
<1> USE ConstantsAssumption
<1> DEFINE s == Source[p]
           target == run[r].plan.content.target
           count == run[r].count
<1>1. /\ title' = MovedTitles(p, target, count)
      /\ occ' = MovedOccurrences(p, target)
      /\ UNCHANGED scan
      /\ run[r].pc \in Working
  BY DEF CommitMove, Working
<1>2. title[s] # NoPrint
  BY CommitFinds
<1>3. SourceEmptied(p, target, count) =>
         target # s /\ \A o \in Occurrences : occ[s][o] # NoPrint => o \in Named[p]
  BY CountTellsEmptied DEF SourceEmptied, Repair!Emptied
<1>4. \A q \in Scans : scan'[q] = NotScanning
  BY <1>1 DEF Housed, ScansAlone
<1>5. \A t \in Titles : title[t] # NoPrint \/ \A o \in Occurrences : occ[t][o] = NoPrint
  BY DEF Housed, OccurrencesHaveTitles, Under
<1>6. \A t \in Titles : NoPrint # Stored(title[t], Canonical)
  BY StoredTyped DEF Inv, TypeOK
<1> HIDE DEF s, target, count
<1>7. ASSUME NEW t \in Titles, NEW o \in Occurrences, occ'[t][o] # NoPrint
      PROVE  title'[t] # NoPrint
  <2>1. CASE t = s
    <3>1. o \notin Named[p] /\ occ[t][o] # NoPrint
      BY <1>1, <1>7, <2>1 DEF MovedOccurrences, s
    <3>2. ~SourceEmptied(p, target, count)
      BY <1>3, <2>1, <3>1
    <3>3. title'[t] = title[t]
      BY <1>1, <2>1, <3>2 DEF MovedTitles, s
    <3> QED BY <1>2, <2>1, <3>3
  <2>2. CASE t # s /\ t = target
    BY <1>1, <1>6, <2>2 DEF MovedTitles, s
  <2>3. CASE t # s /\ t # target
    <3>1. title'[t] = title[t] /\ occ'[t][o] = occ[t][o]
      BY <1>1, <2>3 DEF MovedTitles, MovedOccurrences, s
    <3> QED BY <1>5, <1>7, <3>1
  <2> QED BY <2>1, <2>2, <2>3
<1>8. OccurrencesHaveTitles'
  BY <1>7 DEF OccurrencesHaveTitles, Under
<1>9. ScansAlone'
  BY <1>4 DEF ScansAlone
<1> QED BY <1>8, <1>9 DEF Housed

LEMMA RunHoused ==
    ASSUME Inv, Claims, Housed, NEW r \in Runs, RunStep(r) \/ Crash(r)
    PROVE  Housed'
<1>1. run[r].job \in Proposals /\ run[r].pc \in Working
  BY DEF Inv, Assigned, Working, RunStep, Crash, MarkRejected, PlanProposal,
     PlanTitle, PlanOccurrences, PlanCount, RefuseLease, RecoverLease,
     AcquireLease, CommitDenied, CommitStale, CommitMove, CommitRaises,
     MarkAborted, AbortLost, CallRaises
<1>2. CASE CommitMove(r)
  BY <1>1, <1>2, MoveHoused
<1>3. CASE ~CommitMove(r)
  <2>1. UNCHANGED <<title, occ, scan>>
    BY <1>3 DEF RunStep, Crash, MarkRejected, PlanProposal, PlanTitle,
       PlanOccurrences, PlanCount, RefuseLease, RecoverLease, AcquireLease,
       CommitDenied, CommitStale, CommitRaises, MarkAborted, AbortLost, CallRaises
  <2>2. \A q \in Runs \ {r} : run'[q] = run[q]
    BY DEF Inv, TypeOK, Goto, Finish, Answered, RunStep, Crash, MarkRejected,
       PlanProposal, PlanTitle, PlanOccurrences, PlanCount, RefuseLease,
       RecoverLease, AcquireLease, CommitDenied, CommitStale, CommitMove,
       CommitRaises, MarkAborted, AbortLost, CallRaises
  <2> QED BY <1>1, <2>1, <2>2, QuietHoused
<1> QED BY <1>2, <1>3

LEMMA StepHoused ==
    ASSUME Inv, Claims, Housed, Serialized, [Next]_vars PROVE Housed'
<1>1. CASE Audit \/ Operator \/ Tick \/ UNCHANGED vars
  <2>1. UNCHANGED <<title, occ, scan, run>>
    BY <1>1 DEF Audit, Operator, Tick, vars, RefreshFromAudit, Approve, Requeue
  <2> QED BY <2>1, QuietHoused
<1>2. CASE Scanning
  BY <1>2, ScanHoused
<1>3. ASSUME NEW r \in Runs, Start(r) \/ RunStep(r) \/ Crash(r) PROVE Housed'
  BY <1>3, StartHoused, RunHoused
<1> QED BY <1>1, <1>2, <1>3 DEF Next

(* While runs take turns, no occurrence is ever stored under a title that   *)
(* does not exist: scans write the title first, and a repair that deletes   *)
(* its source title leaves nothing under it.  The hypothesis is needed: a   *)
(* repair between a scan's two writes may delete the title the scan wrote.  *)
THEOREM OccurrencesAlwaysHaveTitles ==
    ASSUME Serialized
    PROVE  Spec => []OccurrencesHaveTitles
<1>1. Inv /\ Claims /\ Housed /\ [Next]_vars => Housed'
  BY StepHoused
<1>2. Housed => OccurrencesHaveTitles
  BY DEF Housed
<1> QED BY <1>1, <1>2, InitHoused, ClaimsHold, PTL DEF Spec

=============================================================================
