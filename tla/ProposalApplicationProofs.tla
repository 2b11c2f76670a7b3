--------------------- MODULE ProposalApplicationProofs ---------------------
(***************************************************************************)
(* Proofs about ProposalApplication, for every set of titles, occurrences, *)
(* proposals and runs, every lease duration and every bound.               *)
(***************************************************************************)
EXTENDS ProposalApplication, FiniteSetTheorems, TLAPS

-----------------------------------------------------------------------------
(* Type correctness *)

(* The initial documents and runs have their types. *)
LEMMA InitTyped == Init => TypeOK
<1> USE ConstantsAssumption
<1> SUFFICES ASSUME Init PROVE TypeOK
  OBVIOUS
<1>1. NoContent \in Content
  BY DEF NoContent, Content
<1>2. NoDoc \in ProposalDoc
  BY <1>1 DEF NoDoc, ProposalDoc, Statuses
<1>3. Released \in LeaseDoc
  BY DEF Released, LeaseDoc
<1>4. title \in [Titles -> Prints \cup {NoPrint}]
  BY DEF Init
<1>5. occ \in [Titles -> [Occurrences -> Prints \cup {NoPrint}]]
  BY DEF Init
<1>6. run \in [Runs -> RunState]
  BY <1>2 DEF Init, RunState, Outcomes
<1>7. scan \in [Scans -> ScanState]
  BY DEF Init, ScanState
<1>8. /\ proposal \in [Proposals -> ProposalDoc]
      /\ lease \in [Titles -> LeaseDoc]
      /\ approved \in [Proposals -> Content]
      /\ scanWrites \in Nat /\ clock \in Nat
  BY <1>1, <1>2, <1>3 DEF Init
<1> QED BY <1>4, <1>5, <1>6, <1>7, <1>8 DEF TypeOK

(* An upsert leaves a document. *)
LEMMA StoredTyped ==
    ASSUME NEW old \in Prints \cup {NoPrint}, NEW new \in Prints
    PROVE  Stored(old, new) \in Prints /\ Stored(old, new) # NoPrint
  BY PrintsAssumption DEF Stored, Merged, Prints

(* A claim made from documents that exist is well typed. *)
LEMMA FailedTyped ==
    ASSUME NEW doc \in ProposalDoc
    PROVE  /\ Failed(doc) \in ProposalDoc
           /\ Failed(doc).status = "failed"
           /\ Failed(doc).content = doc.content
           /\ Failed(doc).owner = NoRun
           /\ Failed(doc).until = 0
  BY DEF ProposalDoc, Failed, Statuses

(* Writing a status, or a status and a claim, keeps a record well typed. *)
LEMMA DocTyped ==
    ASSUME NEW doc \in ProposalDoc, NEW status \in Statuses,
           NEW claim \in Content
    PROVE  /\ [doc EXCEPT !.status = status] \in ProposalDoc
           /\ [doc EXCEPT !.status = status, !.content = claim] \in ProposalDoc
  BY DEF ProposalDoc

LEMMA LeasedTyped ==
    ASSUME NEW doc \in ProposalDoc, NEW status \in Statuses,
           NEW owner \in Runs \cup {NoRun}, NEW until \in Nat
    PROVE  [doc EXCEPT !.status = status, !.owner = owner, !.until = until]
              \in ProposalDoc
  BY DEF ProposalDoc

(* What the planning reads find is kept in the run's state. *)
LEMMA PlanTyped ==
    ASSUME NEW st \in RunState
    PROVE  /\ \A plan \in ProposalDoc :
                 [st EXCEPT !.pc = "title", !.plan = plan] \in RunState
           /\ \A count \in Nat :
                 [st EXCEPT !.pc = "lease", !.count = count] \in RunState
  BY DEF RunState, Working

(* Starting a run keeps its state well typed. *)
LEMMA StartTyped ==
    ASSUME NEW st \in RunState, NEW p \in Proposals, NEW now \in Nat,
           NEW pc \in {"idle", "done", "crashed"} \cup Working,
           NEW outcome \in Outcomes, NEW plan \in ProposalDoc
    PROVE  /\ [st EXCEPT !.job = p, !.now = now, !.pc = pc,
                         !.outcome = outcome] \in RunState
           /\ [st EXCEPT !.job = p, !.now = now, !.pc = pc, !.plan = plan,
                         !.outcome = outcome] \in RunState
  BY DEF RunState

(* A title has finitely many occurrences. *)
LEMMA OccurrencesFinite ==
    \A t : IsFiniteSet(Under(t)) /\ Cardinality(Under(t)) \in Nat
<1> TAKE t
<1>1. Under(t) \subseteq Occurrences
  BY DEF Under
<1>2. IsFiniteSet(Under(t))
  BY <1>1, FS_Subset, ConstantsAssumption
<1> QED BY <1>2, FS_CardinalityType

(* Moving a run on, or ending it, keeps the runs typed and the others as    *)
(* they are.                                                                *)
LEMMA GotoTyped ==
    ASSUME TypeOK, NEW r \in Runs,
           NEW pc \in {"idle", "done", "crashed"} \cup Working, Goto(r, pc)
    PROVE  run' \in [Runs -> RunState]
<1>1. [run[r] EXCEPT !.pc = pc] \in RunState
  BY DEF TypeOK, RunState
<1> QED BY <1>1 DEF TypeOK, Goto

LEMMA FinishTyped ==
    ASSUME TypeOK, NEW r \in Runs, NEW outcome \in Outcomes, Finish(r, outcome)
    PROVE  run' \in [Runs -> RunState]
<1>1. [run[r] EXCEPT !.pc = "done", !.outcome = outcome] \in RunState
  BY DEF TypeOK, RunState
<1> QED BY <1>1 DEF TypeOK, Finish

(* A run that has started knows its proposal. *)
Assigned == \A r \in Runs : run[r].pc # "idle" => run[r].job \in Proposals

(* The steps a run takes on its own keep the types. *)
LEMMA RunStepTyped ==
    ASSUME TypeOK, Assigned, NEW r \in Runs, RunStep(r) PROVE TypeOK'
<1> USE ConstantsAssumption
<1> DEFINE p == run[r].job
<1>0. /\ proposal \in [Proposals -> ProposalDoc]
      /\ lease \in [Titles -> LeaseDoc]
      /\ run \in [Runs -> RunState]
      /\ Released \in LeaseDoc
  BY DEF TypeOK, Released, LeaseDoc
<1>1. run[r].pc \in Working /\ p \in Proposals
  BY DEF Assigned, RunStep, Working, MarkRejected, CallRaises, PlanProposal, PlanTitle,
     PlanOccurrences, PlanCount, RefuseLease, RecoverLease, AcquireLease,
     CommitDenied, CommitStale, CommitMove, CommitRaises, MarkAborted, AbortLost
<1> HIDE DEF p
<1>2. CASE MarkRejected(r)
  <2>1. [run[r].plan EXCEPT !.status = "rejected", !.owner = NoRun, !.until = 0]
           \in ProposalDoc
    <3>1. run[r].plan \in ProposalDoc
      BY <1>0 DEF RunState
    <3> QED BY <3>1, LeasedTyped DEF Statuses
  <2>2. proposal' \in [Proposals -> ProposalDoc]
    BY <1>0, <1>2, <2>1 DEF MarkRejected
  <2>3. run' \in [Runs -> RunState]
    BY <1>2, FinishTyped DEF MarkRejected, Outcomes
  <2> QED BY <1>2, <2>2, <2>3 DEF MarkRejected, TypeOK
<1>3. CASE PlanProposal(r)
  <2>1. [run[r] EXCEPT !.pc = "title", !.plan = proposal[p]] \in RunState
    BY <1>0, <1>1, PlanTyped
  <2>2. CASE Finish(r, "ineligible")
    BY <1>3, <2>2, FinishTyped DEF PlanProposal, Outcomes, TypeOK
  <2>3. CASE run' = [run EXCEPT ![r].pc = "title", ![r].plan = proposal[p]]
    <3>1. run' \in [Runs -> RunState]
      BY <1>0, <2>1, <2>3
    <3> QED BY <1>3, <3>1 DEF PlanProposal, TypeOK
  <2> QED BY <1>3, <2>2, <2>3 DEF PlanProposal, p
<1>4. CASE PlanTitle(r) \/ PlanOccurrences(r)
  <2>1. run' \in [Runs -> RunState]
    BY <1>4, FinishTyped, GotoTyped
       DEF PlanTitle, PlanOccurrences, Outcomes, Working
  <2> QED BY <1>4, <2>1 DEF PlanTitle, PlanOccurrences, TypeOK
<1>5. CASE PlanCount(r)
  <2> DEFINE found == Cardinality(Under(Source[p]))
  <2>1. found \in Nat
    BY OccurrencesFinite
  <2> HIDE DEF found
  <2>2. [run[r] EXCEPT !.pc = "lease", !.count = found] \in RunState
    BY <1>0, <2>1, PlanTyped
  <2>3. run' \in [Runs -> RunState]
    BY <1>0, <1>5, <2>2, FinishTyped DEF PlanCount, Outcomes, found, p
  <2> QED BY <1>5, <2>3 DEF PlanCount, TypeOK
<1>6. CASE RefuseLease(r) \/ CommitDenied(r) \/ AbortLost(r) \/ CallRaises(r)
  <2>1. run' \in [Runs -> RunState]
    BY <1>6, FinishTyped
       DEF RefuseLease, CommitDenied, AbortLost, CallRaises, Outcomes
  <2> QED BY <1>6, <2>1
             DEF RefuseLease, CommitDenied, AbortLost, CallRaises, TypeOK
<1>7. CASE CommitRaises(r)
  <2>1. run' \in [Runs -> RunState]
    BY <1>7, GotoTyped DEF CommitRaises, Working
  <2> QED BY <1>7, <2>1 DEF CommitRaises, TypeOK
<1>8. CASE RecoverLease(r) \/ CommitStale(r) \/ MarkAborted(r)
  <2>1. run' \in [Runs -> RunState]
    BY <1>8, FinishTyped, GotoTyped
       DEF RecoverLease, CommitStale, MarkAborted, Answered, Outcomes, Working
  <2>2. proposal' \in [Proposals -> ProposalDoc]
    BY <1>0, <1>1, <1>8, FailedTyped
       DEF RecoverLease, CommitStale, MarkAborted, p
  <2>3. lease' \in [Titles -> LeaseDoc]
    BY <1>0, <1>1, <1>8 DEF RecoverLease, CommitStale, MarkAborted, p
  <2> QED BY <1>8, <2>1, <2>2, <2>3
             DEF RecoverLease, CommitStale, MarkAborted, TypeOK
<1>9. CASE AcquireLease(r)
  <2> DEFINE expiry == run[r].now + LeaseDuration
             held == [proposal[p] EXCEPT !.status = "applying", !.owner = r,
                                         !.until = expiry]
             named == [proposal |-> p, owner |-> r, until |-> expiry]
  <2>1. expiry \in Nat
    BY <1>0 DEF RunState
  <2> HIDE DEF expiry
  <2>2. held \in ProposalDoc /\ named \in LeaseDoc
    BY <1>0, <1>1, <2>1, LeasedTyped DEF LeaseDoc, Statuses
  <2>3. proposal' = [q \in Proposals |->
                       CASE q = p -> held
                         [] q \in ApplyingBeside(p) -> Failed(proposal[q])
                         [] OTHER -> proposal[q]]
    BY <1>9 DEF AcquireLease, p, expiry
  <2>4. lease' = [lease EXCEPT ![Source[p]] = named]
    BY <1>9 DEF AcquireLease, p, expiry
  <2> HIDE DEF held, named
  <2>5. proposal' \in [Proposals -> ProposalDoc]
    BY <1>0, <2>2, <2>3, FailedTyped
  <2>6. lease' \in [Titles -> LeaseDoc]
    BY <1>0, <2>2, <2>4
  <2>7. run' \in [Runs -> RunState]
    BY <1>9, GotoTyped, FinishTyped DEF AcquireLease, Working, Outcomes
  <2> QED BY <1>9, <2>5, <2>6, <2>7 DEF AcquireLease, TypeOK
<1>10. CASE CommitMove(r)
  <2>1. run' \in [Runs -> RunState]
    BY <1>10, FinishTyped, GotoTyped DEF CommitMove, Answered, Outcomes, Working
  <2>2. [proposal[p] EXCEPT !.status = "applied", !.owner = NoRun, !.until = 0]
           \in ProposalDoc
    BY <1>0, <1>1, LeasedTyped DEF Statuses
  <2>3. proposal' \in [Proposals -> ProposalDoc]
    BY <1>0, <1>10, <2>2 DEF CommitMove, p
  <2>4. lease' \in [Titles -> LeaseDoc]
    BY <1>0, <1>10 DEF CommitMove
  <2>5. title' \in [Titles -> Prints \cup {NoPrint}]
    BY <1>10, StoredTyped DEF CommitMove, MovedTitles, TypeOK
  <2>6. occ' \in [Titles -> [Occurrences -> Prints \cup {NoPrint}]]
    <3>1. \A o \in Named[p] : occ[Source[p]][o] \in Prints
      BY <1>10, <1>1 DEF CommitMove, PlanHolds, Under, TypeOK, p
    <3>2. \A t \in Titles, o \in Named[p] :
             Stored(occ[t][o], occ[Source[p]][o]) \in Prints
      <4> TAKE t \in Titles, o \in Named[p]
      <4>1. o \in Occurrences
        BY <1>1
      <4>2. occ[t][o] \in Prints \cup {NoPrint}
        BY <4>1 DEF TypeOK
      <4> QED BY <3>1, <4>2, StoredTyped
    <3> QED BY <1>10, <1>1, <3>2 DEF CommitMove, MovedOccurrences, TypeOK, p
  <2> QED BY <1>10, <2>1, <2>3, <2>4, <2>5, <2>6 DEF CommitMove, TypeOK
<1> QED BY <1>2, <1>3, <1>4, <1>5, <1>6, <1>7, <1>8, <1>9, <1>10 DEF RunStep

(* A run keeps its proposal from its start to its end. *)
LEMMA StepAssigned == TypeOK /\ Assigned /\ [Next]_vars => Assigned'
<1> SUFFICES ASSUME TypeOK, Assigned, [Next]_vars PROVE Assigned'
  OBVIOUS
<1>1. ASSUME NEW r \in Runs, NEW p \in Proposals,
             StartApply(r, p) \/ StartReject(r, p)
      PROVE  Assigned'
  <2>1. run'[r].job = p /\ \A q \in Runs : q # r => run'[q] = run[q]
    BY <1>1 DEF StartApply, StartReject, TypeOK, RunState
  <2> QED BY <2>1 DEF Assigned
<1>2. ASSUME NEW r \in Runs, RunStep(r) \/ Crash(r) PROVE Assigned'
  <2>1. run[r].job \in Proposals
    BY <1>2 DEF Assigned, Working, RunStep, Crash, MarkRejected, PlanProposal,
       PlanTitle, PlanOccurrences, PlanCount, RefuseLease, RecoverLease,
       AcquireLease, CommitDenied, CommitStale, CommitMove, CommitRaises,
       MarkAborted, AbortLost, CallRaises
  <2>2. /\ run'[r].job = run[r].job
        /\ \A q \in Runs : q # r => run'[q] = run[q]
    <3> USE DEF TypeOK, RunState, Goto, Finish, Answered
    <3>1. CASE MarkRejected(r) \/ PlanProposal(r) \/ PlanTitle(r)
               \/ PlanOccurrences(r) \/ PlanCount(r) \/ Crash(r)
               \/ CallRaises(r)
      BY <3>1 DEF MarkRejected, PlanProposal, PlanTitle, PlanOccurrences,
         PlanCount, Crash, CallRaises
    <3>2. CASE RefuseLease(r) \/ RecoverLease(r) \/ AcquireLease(r)
      BY <3>2 DEF RefuseLease, RecoverLease, AcquireLease
    <3>3. CASE CommitDenied(r) \/ CommitStale(r) \/ CommitMove(r)
               \/ CommitRaises(r) \/ MarkAborted(r) \/ AbortLost(r)
      BY <3>3 DEF CommitDenied, CommitStale, CommitMove, CommitRaises,
         MarkAborted, AbortLost
    <3> QED BY <1>2, <3>1, <3>2, <3>3 DEF RunStep
  <2> QED BY <2>1, <2>2 DEF Assigned
<1>3. CASE UNCHANGED run
  BY <1>3 DEF Assigned
<1> QED BY <1>1, <1>2, <1>3
           DEF Next, Audit, Operator, Scanning, Start, Tick, vars,
               RefreshFromAudit, Approve, Requeue, FlushTitle, FlushOccurrence,
               ScanDies

(* Every step keeps the types. *)
LEMMA StepTyped == TypeOK /\ Assigned /\ [Next]_vars => TypeOK'
<1> USE ConstantsAssumption
<1> SUFFICES ASSUME TypeOK, Assigned, [Next]_vars PROVE TypeOK'
  OBVIOUS
<1>1. ASSUME NEW p \in Proposals, RefreshFromAudit(p) PROVE TypeOK'
  <2>1. PICK target \in Suggested[p], read \in Readings :
          proposal' = [proposal EXCEPT
            ![p].status = "pending",
            ![p].content = [target |-> target, titlePrint |-> read.titlePrint,
                            occPrints |-> [o \in Occurrences |->
                                IF o \in Named[p] THEN read.occPrints[o] ELSE NoPrint]]]
    BY <1>1 DEF RefreshFromAudit
  <2> DEFINE claim == [target |-> target, titlePrint |-> read.titlePrint,
                       occPrints |-> [o \in Occurrences |->
                          IF o \in Named[p] THEN read.occPrints[o] ELSE NoPrint]]
  <2>2. claim \in Content
    BY DEF Content, Reading
  <2> HIDE DEF claim
  <2>3. [proposal[p] EXCEPT !.status = "pending", !.content = claim]
           \in ProposalDoc
    BY <2>2, DocTyped DEF TypeOK, Statuses
  <2>4. proposal' \in [Proposals -> ProposalDoc]
    BY <2>1, <2>3 DEF TypeOK, claim
  <2> QED BY <1>1, <2>4 DEF RefreshFromAudit, TypeOK
<1>2. ASSUME NEW p \in Proposals, Approve(p) PROVE TypeOK'
  <2>1. [proposal[p] EXCEPT !.status = "approved"] \in ProposalDoc
    BY DocTyped DEF TypeOK, Statuses
  <2>2. proposal[p].content \in Content
    BY DEF TypeOK, ProposalDoc
  <2> QED BY <1>2, <2>1, <2>2 DEF Approve, TypeOK
<1>3. ASSUME NEW p \in Proposals, Requeue(p) PROVE TypeOK'
  <2>1. [proposal[p] EXCEPT !.status = "pending"] \in ProposalDoc
    BY DocTyped DEF TypeOK, Statuses
  <2> QED BY <1>3, <2>1 DEF Requeue, TypeOK
<1>4. ASSUME Scanning PROVE TypeOK'
  <2>1. ASSUME NEW s \in Scans, NEW seen \in Observations, FlushTitle(s, seen)
        PROVE  TypeOK'
    <3>1. seen \in Observation
      OBVIOUS
    <3>2. [title |-> seen.title, occurrence |-> seen.occurrence,
           print |-> seen.occPrint] \in ScanState
      BY <3>1 DEF Observation, ScanState
    <3>3. scan' \in [Scans -> ScanState]
      BY <2>1, <3>2 DEF FlushTitle, TypeOK
    <3>4. title' \in [Titles -> Prints \cup {NoPrint}]
      <4>1. /\ seen.title \in Titles /\ seen.titlePrint \in Prints
            /\ title[seen.title] \in Prints \cup {NoPrint}
        BY <3>1 DEF Observation, TypeOK
      <4>2. Stored(title[seen.title], seen.titlePrint) \in Prints
        BY <4>1, StoredTyped
      <4> QED BY <2>1, <4>2 DEF FlushTitle, TypeOK
    <3> QED BY <2>1, <3>3, <3>4 DEF FlushTitle, TypeOK
  <2>2. ASSUME NEW s \in Scans, FlushOccurrence(s) PROVE TypeOK'
    <3>1. scan[s] \in [title : Titles, occurrence : Occurrences, print : Prints]
      BY <2>2 DEF FlushOccurrence, TypeOK, ScanState
    <3> DEFINE t == scan[s].title
               o == scan[s].occurrence
               stored == Stored(occ[t][o], scan[s].print)
    <3>2. occ' \in [Titles -> [Occurrences -> Prints \cup {NoPrint}]]
      <4>1. occ[t] \in [Occurrences -> Prints \cup {NoPrint}] /\ t \in Titles
        BY <3>1 DEF TypeOK
      <4>2. stored \in Prints
        BY <3>1, <4>1, StoredTyped
      <4>3. occ' = [occ EXCEPT ![t] = [occ[t] EXCEPT ![o] = stored]]
        BY <2>2 DEF FlushOccurrence
      <4> HIDE DEF stored
      <4> QED BY <4>1, <4>2, <4>3 DEF TypeOK
    <3>3. scan' \in [Scans -> ScanState]
      BY <2>2 DEF FlushOccurrence, TypeOK, ScanState
    <3> QED BY <2>2, <3>2, <3>3 DEF FlushOccurrence, TypeOK
  <2>3. ASSUME NEW s \in Scans, ScanDies(s) PROVE TypeOK'
    BY <2>3 DEF ScanDies, TypeOK, ScanState
  <2> QED BY <1>4, <2>1, <2>2, <2>3 DEF Scanning
<1>5. ASSUME NEW r \in Runs, Start(r) PROVE TypeOK'
  <2>1. ASSUME NEW p \in Proposals, StartApply(r, p) PROVE TypeOK'
    <3> DEFINE go == proposal[p].status \in {"approved", "applying"}
               pc == IF go THEN "plan" ELSE "done"
               outcome == IF go THEN "none"
                          ELSE EarlyOutcome(proposal[p].status)
               st == [run[r] EXCEPT !.job = p, !.now = clock, !.pc = pc,
                                    !.outcome = outcome]
    <3>a. /\ pc \in {"idle", "done", "crashed"} \cup Working
          /\ outcome \in Outcomes
      BY DEF Working, Outcomes, EarlyOutcome
    <3>2. run' = [run EXCEPT ![r] = st]
      BY <2>1 DEF StartApply
    <3> HIDE DEF pc, outcome
    <3>1. st \in RunState
      BY <3>a, StartTyped DEF TypeOK
    <3> HIDE DEF st
    <3>3. run' \in [Runs -> RunState]
      BY <3>1, <3>2 DEF TypeOK
    <3> QED BY <2>1, <3>3 DEF StartApply, TypeOK
  <2>2. ASSUME NEW p \in Proposals, StartReject(r, p) PROVE TypeOK'
    <3> DEFINE go == proposal[p].status \in {"pending", "approved", "applying"}
               pc == IF go THEN "reject" ELSE "done"
               outcome == CASE go -> "none"
                            [] proposal[p].status = "absent" -> "failed"
                            [] OTHER -> "skipped"
               st == [run[r] EXCEPT !.job = p, !.now = clock, !.pc = pc,
                                    !.plan = proposal[p], !.outcome = outcome]
    <3>a. /\ pc \in {"idle", "done", "crashed"} \cup Working
          /\ outcome \in Outcomes
      BY DEF Working, Outcomes
    <3>2. run' = [run EXCEPT ![r] = st]
      BY <2>2 DEF StartReject
    <3> HIDE DEF pc, outcome
    <3>1. st \in RunState
      BY <3>a, StartTyped DEF TypeOK
    <3> HIDE DEF st
    <3>3. run' \in [Runs -> RunState]
      BY <3>1, <3>2 DEF TypeOK
    <3> QED BY <2>2, <3>3 DEF StartReject, TypeOK
  <2> QED BY <1>5, <2>1, <2>2 DEF Start
<1>6. ASSUME NEW r \in Runs, Crash(r) PROVE TypeOK'
  <2>1. run' \in [Runs -> RunState]
    BY <1>6, GotoTyped DEF Crash
  <2> QED BY <1>6, <2>1 DEF Crash, TypeOK
<1>7. CASE Tick
  BY <1>7 DEF Tick, TypeOK
<1>8. CASE UNCHANGED vars
  BY <1>8 DEF vars, TypeOK
<1>9. ASSUME NEW r \in Runs, RunStep(r) PROVE TypeOK'
  BY <1>9, RunStepTyped
<1> QED BY <1>1, <1>2, <1>3, <1>4, <1>5, <1>6, <1>7, <1>8, <1>9
           DEF Next, Audit, Operator

(* Every variable keeps its type, whatever the runs, scans and audits do.   *)
THEOREM TypeCorrect == Spec => []TypeOK
<1>1. Init => TypeOK /\ Assigned
  BY InitTyped DEF Init, Assigned
<1>2. TypeOK /\ Assigned /\ [Next]_vars => (TypeOK /\ Assigned)'
  BY StepTyped, StepAssigned
<1> QED BY <1>1, <1>2, PTL DEF Spec

-----------------------------------------------------------------------------
(* Leases *)

(* A lease is given up: its proposal fails and its document is deleted. *)
GivesUp(p) ==
    /\ proposal[p].status = "applying"
    /\ proposal' = [proposal EXCEPT ![p] = Failed(@)]
    /\ lease' = [lease EXCEPT ![Source[p]] = Released]

(* The lease of an applying proposal's source names the proposal. *)
LEMMA LeaseNames ==
    ASSUME LeasesAgree, NEW p \in Proposals, proposal[p].status = "applying"
    PROVE  /\ lease[Source[p]].proposal = p
           /\ lease[Source[p]].owner = proposal[p].owner
           /\ lease[Source[p]].until = proposal[p].until
<1>1. lease[Source[p]] = LeaseOf(p)
  BY DEF LeasesAgree
<1>2. /\ LeaseOf(p).proposal = p
      /\ LeaseOf(p).owner = proposal[p].owner
      /\ LeaseOf(p).until = proposal[p].until
  BY DEF LeaseOf
<1> QED BY <1>1, <1>2

(* The only steps that write proposals or leases. *)
LEMMA Writers ==
    ASSUME TypeOK, Assigned, LeasesAgree, [Next]_vars
    PROVE  \/ UNCHANGED <<proposal, lease>>
           \/ \E p \in Proposals : \/ RefreshFromAudit(p)
                                   \/ Approve(p)
                                   \/ Requeue(p)
           \/ \E r \in Runs : /\ run[r].job \in Proposals
                              /\ MarkRejected(r) \/ AcquireLease(r) \/ CommitMove(r)
           \/ \E r \in Runs : /\ run[r].job \in Proposals
                              /\ RecoverLease(r) \/ CommitStale(r) \/ MarkAborted(r)
                              /\ GivesUp(run[r].job)
<1>1. CASE UNCHANGED vars \/ Tick \/ Scanning
  BY <1>1 DEF vars, Tick, Scanning, FlushTitle, FlushOccurrence, ScanDies
<1>2. CASE Audit \/ Operator
  BY <1>2 DEF Audit, Operator
<1>3. ASSUME NEW r \in Runs, Start(r) \/ Crash(r)
      PROVE  UNCHANGED <<proposal, lease>>
  BY <1>3 DEF Start, StartApply, StartReject, Crash
<1>4. ASSUME NEW r \in Runs,
             PlanProposal(r) \/ PlanTitle(r) \/ PlanOccurrences(r) \/ PlanCount(r)
               \/ RefuseLease(r) \/ CommitDenied(r) \/ CommitRaises(r)
               \/ AbortLost(r) \/ CallRaises(r)
      PROVE  UNCHANGED <<proposal, lease>>
  BY <1>4 DEF PlanProposal, PlanTitle, PlanOccurrences, PlanCount, RefuseLease,
              CommitDenied, CommitRaises, AbortLost, CallRaises
<1>5. ASSUME NEW r \in Runs,
             MarkRejected(r) \/ AcquireLease(r) \/ CommitMove(r)
               \/ RecoverLease(r) \/ CommitStale(r) \/ MarkAborted(r)
      PROVE  run[r].job \in Proposals
  BY <1>5 DEF Assigned, MarkRejected, AcquireLease, CommitMove, RecoverLease,
              CommitStale, MarkAborted
<1>6. ASSUME NEW r \in Runs, RecoverLease(r)
      PROVE  GivesUp(run[r].job)
  <2>1. lease[Source[run[r].job]].proposal = run[r].job
    BY <1>5, <1>6, LeaseNames DEF RecoverLease
  <2> QED BY <1>6, <2>1 DEF RecoverLease, GivesUp
<1>7. ASSUME NEW r \in Runs, CommitStale(r) PROVE GivesUp(run[r].job)
  BY <1>7 DEF CommitStale, OwnsLease, GivesUp
<1>8. ASSUME NEW r \in Runs, MarkAborted(r)
      PROVE  GivesUp(run[r].job) \/ UNCHANGED <<proposal, lease>>
  BY <1>8 DEF MarkAborted, OwnsLease, GivesUp
<1>9. ASSUME NEW r \in Runs, RunStep(r)
      PROVE  \/ UNCHANGED <<proposal, lease>>
             \/ /\ run[r].job \in Proposals
                /\ MarkRejected(r) \/ AcquireLease(r) \/ CommitMove(r)
             \/ /\ run[r].job \in Proposals
                /\ RecoverLease(r) \/ CommitStale(r) \/ MarkAborted(r)
                /\ GivesUp(run[r].job)
  BY <1>4, <1>5, <1>6, <1>7, <1>8, <1>9 DEF RunStep
<1> QED BY <1>1, <1>2, <1>3, <1>9 DEF Next

(* What the audit and the operator do to one record: it was not being       *)
(* applied and is not afterwards, and its owner stays.                      *)
LEMMA DecisionWrites ==
    ASSUME TypeOK, NEW p \in Proposals,
           RefreshFromAudit(p) \/ Approve(p) \/ Requeue(p)
    PROVE  /\ UNCHANGED <<lease, run>>
           /\ \A q \in Proposals \ {p} : proposal'[q] = proposal[q]
           /\ proposal'[p].owner = proposal[p].owner
           /\ \/ /\ proposal[p].status \in {"absent", "pending"}
                 /\ proposal'[p].status = "pending"
              \/ proposal[p].status = "pending" /\ proposal'[p].status = "approved"
              \/ proposal[p].status = "failed" /\ proposal'[p].status = "pending"
<1>0. proposal[p] \in ProposalDoc
  BY DEF TypeOK
<1>1. CASE RefreshFromAudit(p)
  <2>1. PICK claim :
          proposal' = [proposal EXCEPT ![p].status = "pending",
                                       ![p].content = claim]
    BY <1>1 DEF RefreshFromAudit
  <2>2. /\ proposal'[p] = [proposal[p] EXCEPT !.status = "pending",
                                              !.content = claim]
        /\ \A q \in Proposals \ {p} : proposal'[q] = proposal[q]
    BY <2>1 DEF TypeOK
  <2>3. /\ proposal'[p].owner = proposal[p].owner
        /\ proposal'[p].status = "pending"
    BY <1>0, <2>2 DEF ProposalDoc
  <2> QED BY <1>1, <2>2, <2>3 DEF RefreshFromAudit
<1>2. CASE Approve(p)
  BY <1>0, <1>2 DEF Approve, TypeOK, ProposalDoc
<1>3. CASE Requeue(p)
  BY <1>0, <1>3 DEF Requeue, TypeOK, ProposalDoc
<1> QED BY <1>1, <1>2, <1>3

(* A step that touches no applying proposal and no lease keeps them agreed. *)
LEMMA UntouchedAgree ==
    ASSUME LeasesAgree, lease' = lease,
           \A p \in Proposals :
              \/ proposal'[p] = proposal[p]
              \/ proposal[p].status # "applying" /\ proposal'[p].status # "applying"
    PROVE  LeasesAgree'
  BY DEF LeasesAgree, LeaseOf

(* So does one that ends an attempt and deletes its lease. *)
LEMMA ReleasedAgree ==
    ASSUME TypeOK, LeasesAgree, NEW p \in Proposals,
           proposal[p].status = "applying", proposal'[p].status # "applying",
           \A q \in Proposals \ {p} : proposal'[q] = proposal[q],
           lease' = [lease EXCEPT ![Source[p]] = Released]
    PROVE  LeasesAgree'
<1> USE ConstantsAssumption
<1>1. lease[Source[p]].proposal = p
  BY LeaseNames
<1>2. \A q \in Proposals \ {p} :
         proposal[q].status = "applying" => Source[q] # Source[p]
  BY <1>1, LeaseNames
<1>3. /\ lease'[Source[p]] = Released
      /\ \A t \in Titles : t # Source[p] => lease'[t] = lease[t]
  BY DEF TypeOK
<1>4. \A q \in Proposals :
         proposal'[q].status = "applying" => lease'[Source[q]] = LeaseOf(q)'
  BY <1>2, <1>3 DEF LeasesAgree, LeaseOf
<1>5. \A t \in Titles : lease'[t] # Released =>
         /\ lease'[t].proposal \in Proposals
         /\ Source[lease'[t].proposal] = t
         /\ proposal'[lease'[t].proposal].status = "applying"
  BY <1>3 DEF LeasesAgree
<1> QED BY <1>4, <1>5 DEF LeasesAgree

(* Every step keeps leases and proposals agreed. *)
LEMMA StepLeases ==
    ASSUME TypeOK, Assigned, LeasesAgree, [Next]_vars PROVE LeasesAgree'
<1> USE ConstantsAssumption
<1>1. CASE UNCHANGED <<proposal, lease>>
  BY <1>1, UntouchedAgree
<1>2. ASSUME NEW p \in Proposals,
             RefreshFromAudit(p) \/ Approve(p) \/ Requeue(p)
      PROVE  LeasesAgree'
  <2>1. /\ proposal[p].status # "applying" /\ proposal'[p].status # "applying"
        /\ \A q \in Proposals \ {p} : proposal'[q] = proposal[q]
        /\ lease' = lease
    BY <1>2, DecisionWrites
  <2> QED BY <2>1, UntouchedAgree
<1>3. ASSUME NEW r \in Runs, run[r].job \in Proposals, MarkRejected(r)
      PROVE  LeasesAgree'
  <2> DEFINE p == run[r].job
  <2>1. CASE ValidTransition(proposal[p].status, "rejected")
    <3>1. proposal[p].status # "applying"
      BY <2>1 DEF ValidTransition, Transitions
    <3>2. /\ proposal'[p].status # "applying"
          /\ \A q \in Proposals \ {p} : proposal'[q] = proposal[q]
          /\ lease' = lease
      <4>1. run[r].plan \in ProposalDoc
        BY DEF TypeOK, RunState
      <4>2. [run[r].plan EXCEPT !.status = "rejected", !.owner = NoRun,
                                !.until = 0].status # "applying"
        BY <4>1 DEF ProposalDoc
      <4> QED BY <1>3, <2>1, <4>2 DEF MarkRejected, TypeOK
    <3> QED BY <3>1, <3>2, <1>3, UntouchedAgree
  <2>2. CASE ~ValidTransition(proposal[p].status, "rejected")
    BY <1>3, <2>2, UntouchedAgree DEF MarkRejected
  <2> QED BY <2>1, <2>2
<1>4. ASSUME NEW r \in Runs, run[r].job \in Proposals, AcquireLease(r)
      PROVE  LeasesAgree'
  <2>0. PICK p \in Proposals : p = run[r].job
    BY <1>4
  <2> DEFINE s == Source[p]
  <2>1. /\ proposal'[p].status = "applying"
        /\ lease'[s] = LeaseOf(p)'
    <3> DEFINE held == [proposal[p] EXCEPT !.status = "applying", !.owner = r,
                                      !.until = run[r].now + LeaseDuration]
    <3>0. p \notin ApplyingBeside(p)
      BY DEF ApplyingBeside
    <3>1. proposal'[p] = held
      BY <1>4, <2>0, <3>0 DEF AcquireLease
    <3>2. /\ held.status = "applying" /\ held.owner = r
          /\ held.until = run[r].now + LeaseDuration
      BY <1>4 DEF TypeOK, ProposalDoc
    <3> HIDE DEF held
    <3>3. lease'[s] = [proposal |-> p, owner |-> r,
                       until |-> run[r].now + LeaseDuration]
      BY <1>4, <2>0 DEF AcquireLease, TypeOK
    <3> QED BY <3>1, <3>2, <3>3 DEF LeaseOf
  <2>2. \A q \in Proposals \ {p} :
          /\ q \in ApplyingBeside(p) => proposal'[q].status # "applying"
          /\ q \notin ApplyingBeside(p) => proposal'[q] = proposal[q]
    BY <1>4, <2>0, FailedTyped DEF AcquireLease, TypeOK
  <2>3. \A t \in Titles : t # s => lease'[t] = lease[t]
    BY <1>4, <2>0 DEF AcquireLease, TypeOK
  <2>4. s \in Titles
    OBVIOUS
  <2>5. \A q \in Proposals \ {p} : proposal'[q].status = "applying" =>
           proposal'[q] = proposal[q] /\ Source[q] # s
    BY <2>2 DEF ApplyingBeside
  <2>6. proposal[p].status # "applying"
    BY <1>4, <2>0 DEF AcquireLease
  <2> HIDE DEF s
  <2>7. ASSUME NEW q \in Proposals, proposal'[q].status = "applying"
        PROVE  lease'[Source[q]] = LeaseOf(q)'
    <3>1. CASE q = p
      BY <3>1, <2>1 DEF s
    <3>2. CASE q # p
      <4>1. proposal'[q] = proposal[q] /\ Source[q] # s /\ Source[q] \in Titles
        BY <3>2, <2>5, <2>7
      <4>2. lease[Source[q]] = LeaseOf(q)
        BY <4>1, <2>7 DEF LeasesAgree
      <4> QED BY <4>1, <4>2, <2>3 DEF LeaseOf
    <3> QED BY <3>1, <3>2
  <2>8. ASSUME NEW t \in Titles, lease'[t] # Released
        PROVE  /\ lease'[t].proposal \in Proposals
               /\ Source[lease'[t].proposal] = t
               /\ proposal'[lease'[t].proposal].status = "applying"
    <3>1. CASE t = s
      <4>1. lease'[t].proposal = p
        BY <3>1, <2>1 DEF LeaseOf
      <4> QED BY <3>1, <4>1, <2>1, <2>4 DEF s
    <3>2. CASE t # s
      <4>1. /\ lease[t].proposal \in Proposals
            /\ Source[lease[t].proposal] = t
            /\ proposal[lease[t].proposal].status = "applying"
        BY <2>8, <3>2, <2>3 DEF LeasesAgree
      <4>2. lease[t].proposal # p /\ lease[t].proposal \notin ApplyingBeside(p)
        BY <4>1, <2>6, <3>2 DEF ApplyingBeside, s
      <4> QED BY <4>1, <4>2, <2>2, <2>3, <3>2
    <3> QED BY <3>1, <3>2
  <2> QED BY <2>7, <2>8 DEF LeasesAgree
<1>5. ASSUME NEW r \in Runs, run[r].job \in Proposals, CommitMove(r)
      PROVE  LeasesAgree'
  <2> DEFINE p == run[r].job
  <2>1. /\ proposal[p].status = "applying"
        /\ proposal'[p].status # "applying"
        /\ \A q \in Proposals \ {p} : proposal'[q] = proposal[q]
        /\ lease' = [lease EXCEPT ![Source[p]] = Released]
    BY <1>5 DEF CommitMove, OwnsLease, TypeOK, ProposalDoc
  <2> QED BY <1>5, <2>1, ReleasedAgree
<1>6. ASSUME NEW p \in Proposals, GivesUp(p) PROVE LeasesAgree'
  <2>1. /\ proposal[p].status = "applying"
        /\ proposal'[p].status # "applying"
        /\ \A q \in Proposals \ {p} : proposal'[q] = proposal[q]
        /\ lease' = [lease EXCEPT ![Source[p]] = Released]
    BY <1>6, FailedTyped DEF GivesUp, TypeOK
  <2> QED BY <2>1, ReleasedAgree
<1> QED BY <1>1, <1>2, <1>3, <1>4, <1>5, <1>6, Writers

(* What every reachable state satisfies: the types, a proposal for every    *)
(* started run, and leases that agree.                                      *)
Inv == TypeOK /\ Assigned /\ LeasesAgree

LEMMA InvHolds == Spec => []Inv
<1>1. Init => Inv
  <2>1. ASSUME Init PROVE LeasesAgree
    BY <2>1, ConstantsAssumption DEF Init, LeasesAgree, NoDoc
  <2> QED BY <2>1, InitTyped DEF Init, Assigned, Inv
<1>2. Inv /\ [Next]_vars => Inv'
  BY StepTyped, StepAssigned, StepLeases DEF Inv
<1> QED BY <1>1, <1>2, PTL DEF Spec

(* However runs overlap, crash and lose answers, an applying proposal and   *)
(* its source's lease name each other: a source has at most one attempt.    *)
THEOREM LeasesAlwaysAgree == Spec => []LeasesAgree
BY InvHolds, PTL DEF Inv

(* A status moves along the documented graph only: the rejection that       *)
(* writes back a record read earlier, the retry and the late clean-up       *)
(* included.                                                                *)
THEOREM StatusesAlwaysMoveLegally == Spec => StatusesMoveLegally
<1>1. ASSUME Inv, [Next]_vars, NEW p \in Proposals,
             proposal[p].status # "absent"
      PROVE  ValidTransition(proposal[p].status, proposal'[p].status)
  <2> USE <1>1 DEF Inv, ValidTransition, Transitions
  <2>1. CASE UNCHANGED <<proposal, lease>>
    BY <2>1
  <2>2. ASSUME NEW q \in Proposals,
               RefreshFromAudit(q) \/ Approve(q) \/ Requeue(q)
        PROVE  ValidTransition(proposal[p].status, proposal'[p].status)
    BY <2>2, DecisionWrites
  <2>3. ASSUME NEW r \in Runs, run[r].job \in Proposals, MarkRejected(r)
        PROVE  ValidTransition(proposal[p].status, proposal'[p].status)
    <3>1. run[r].plan \in ProposalDoc
      BY DEF TypeOK, RunState
    <3>2. [run[r].plan EXCEPT !.status = "rejected", !.owner = NoRun,
                              !.until = 0].status = "rejected"
      BY <3>1 DEF ProposalDoc
    <3> QED BY <2>3, <3>2 DEF MarkRejected, TypeOK
  <2>4. ASSUME NEW r \in Runs, run[r].job \in Proposals, AcquireLease(r)
        PROVE  ValidTransition(proposal[p].status, proposal'[p].status)
    <3>1. CASE p = run[r].job
      <4>1. p \notin ApplyingBeside(p)
        BY DEF ApplyingBeside
      <4> QED BY <2>4, <3>1, <4>1 DEF AcquireLease, TypeOK, ProposalDoc
    <3>2. CASE p # run[r].job /\ p \in ApplyingBeside(run[r].job)
      <4>1. proposal'[p] = Failed(proposal[p])
        BY <2>4, <3>2 DEF AcquireLease
      <4>2. proposal[p].status = "applying"
        BY <3>2 DEF ApplyingBeside
      <4> QED BY <4>1, <4>2, FailedTyped DEF TypeOK
    <3>3. CASE p # run[r].job /\ p \notin ApplyingBeside(run[r].job)
      BY <2>4, <3>3 DEF AcquireLease
    <3> QED BY <3>1, <3>2, <3>3
  <2>5. ASSUME NEW r \in Runs, run[r].job \in Proposals, CommitMove(r)
        PROVE  ValidTransition(proposal[p].status, proposal'[p].status)
    BY <2>5 DEF CommitMove, OwnsLease, TypeOK, ProposalDoc
  <2>6. ASSUME NEW q \in Proposals, GivesUp(q)
        PROVE  ValidTransition(proposal[p].status, proposal'[p].status)
    BY <2>6, FailedTyped DEF GivesUp, TypeOK
  <2> QED BY <2>1, <2>2, <2>3, <2>4, <2>5, <2>6, Writers
<1>2. Inv /\ [Next]_vars =>
         [\A p \in Proposals : \/ proposal[p].status = "absent"
                               \/ ValidTransition(proposal[p].status,
                                                  proposal'[p].status)]_vars
  BY <1>1
<1> QED BY <1>2, InvHolds, PTL DEF Spec, StatusesMoveLegally

-----------------------------------------------------------------------------
(* Owners *)

(* A record is owned only while it is applied, and only by the run that     *)
(* works on it: one that is committing, cleaning up, dead, or one that lost *)
(* the answer that gave it the lease or its clean-up.                       *)
MayOwn(r) == \/ run[r].pc \in {"commit", "abort", "crashed"}
             \/ run[r].pc = "done" /\ run[r].outcome \in LeaseLostOutcomes

Owned ==
    \A p \in Proposals :
       /\ proposal[p].status # "applying" => proposal[p].owner = NoRun
       /\ \A r \in Runs : proposal[p].owner = r => run[r].job = p /\ MayOwn(r)

(* A run that keeps its proposal and may still own what it owned.           *)
LEMMA OwnersKept ==
    ASSUME Owned, NEW r \in Runs,
           \A q \in Runs \ {r} : run'[q] = run[q],
           \A p \in Proposals :
              /\ proposal'[p].status # "applying" => proposal'[p].owner = NoRun
              /\ proposal'[p].owner \in {proposal[p].owner, NoRun, r}
              /\ proposal'[p].owner = r => run'[r].job = p /\ MayOwn(r)'
    PROVE  Owned'
<1> USE ConstantsAssumption
<1> SUFFICES ASSUME NEW p \in Proposals, NEW q \in Runs, proposal'[p].owner = q
             PROVE  run'[q].job = p /\ MayOwn(q)'
  BY DEF Owned
<1>1. CASE q = r
  BY <1>1
<1>2. CASE q # r
  <2>1. proposal[p].owner = q /\ run'[q] = run[q]
    BY <1>2
  <2> QED BY <2>1 DEF Owned, MayOwn
<1> QED BY <1>1, <1>2

LEMMA StepOwned ==
    ASSUME Inv, Owned, [Next]_vars PROVE Owned'
<1> USE ConstantsAssumption
<1> USE DEF Inv
<1>1. CASE UNCHANGED vars \/ Tick \/ Scanning
  <2>1. UNCHANGED <<proposal, run>>
    BY <1>1 DEF vars, Tick, Scanning, FlushTitle, FlushOccurrence, ScanDies
  <2> QED BY <2>1 DEF Owned, MayOwn
<1>2. ASSUME NEW p \in Proposals,
             RefreshFromAudit(p) \/ Approve(p) \/ Requeue(p)
      PROVE  Owned'
  <2>1. /\ UNCHANGED run
        /\ \A q \in Proposals : proposal'[q].owner = proposal[q].owner
        /\ proposal[p].status # "applying"
        /\ \A q \in Proposals \ {p} : proposal'[q] = proposal[q]
    BY <1>2, DecisionWrites
  <2> QED BY <2>1 DEF Owned, MayOwn
<1>3. ASSUME NEW r \in Runs, Start(r) PROVE Owned'
  <2>1. /\ UNCHANGED proposal
        /\ run[r].pc = "idle"
        /\ \A q \in Runs \ {r} : run'[q] = run[q]
    BY <1>3 DEF Start, StartApply, StartReject, TypeOK
  <2>2. \A p \in Proposals : proposal[p].owner # r
    BY <2>1 DEF Owned, MayOwn
  <2> QED BY <2>1, <2>2, OwnersKept DEF Owned
<1>4. ASSUME NEW r \in Runs, Crash(r) PROVE Owned'
  <2>1. /\ UNCHANGED proposal
        /\ run'[r].job = run[r].job /\ run'[r].pc = "crashed"
        /\ \A q \in Runs \ {r} : run'[q] = run[q]
    BY <1>4 DEF Crash, Goto, TypeOK, RunState
  <2> QED BY <2>1, OwnersKept DEF Owned, MayOwn
<1>5. ASSUME NEW r \in Runs,
             PlanProposal(r) \/ PlanTitle(r) \/ PlanOccurrences(r) \/ PlanCount(r)
               \/ RefuseLease(r) \/ CallRaises(r)
      PROVE  Owned'
  <2>1. /\ UNCHANGED proposal
        /\ run[r].pc \in {"plan", "title", "occurrences", "count", "lease",
                          "reject"}
        /\ \A q \in Runs \ {r} : run'[q] = run[q]
    BY <1>5 DEF PlanProposal, PlanTitle, PlanOccurrences, PlanCount, RefuseLease,
                CallRaises, Goto, Finish, TypeOK
  <2>2. \A p \in Proposals : proposal[p].owner # r
    BY <2>1 DEF Owned, MayOwn
  <2> QED BY <2>1, <2>2, OwnersKept DEF Owned
<1>6. ASSUME NEW r \in Runs, run[r].job \in Proposals, MarkRejected(r)
      PROVE  Owned'
  <2>1. /\ run[r].pc = "reject"
        /\ \A q \in Runs \ {r} : run'[q] = run[q]
    BY <1>6 DEF MarkRejected, Finish, TypeOK
  <2>2. run[r].plan \in ProposalDoc
    BY DEF TypeOK, RunState
  <2>3. [run[r].plan EXCEPT !.status = "rejected", !.owner = NoRun,
                            !.until = 0].owner = NoRun
    BY <2>2 DEF ProposalDoc
  <2>4. \A p \in Proposals : \/ proposal'[p] = proposal[p]
                             \/ proposal'[p].owner = NoRun
    BY <1>6, <2>3 DEF MarkRejected, TypeOK
  <2>5. \A p \in Proposals : proposal[p].owner # r
    BY <2>1 DEF Owned, MayOwn
  <2> QED BY <2>1, <2>4, <2>5, OwnersKept DEF Owned
<1>7. ASSUME NEW r \in Runs, run[r].job \in Proposals, AcquireLease(r)
      PROVE  Owned'
  <2> DEFINE p == run[r].job
  <2>1. /\ run[r].pc = "lease"
        /\ run'[r].job = p
        /\ \/ run'[r].pc = "commit"
           \/ run'[r].pc = "done" /\ run'[r].outcome = "lease_lost"
        /\ \A q \in Runs \ {r} : run'[q] = run[q]
    BY <1>7 DEF AcquireLease, Goto, Finish, TypeOK, RunState
  <2>2. \A q \in Proposals : proposal[q].owner # r
    BY <2>1 DEF Owned, MayOwn
  <2>3. p \notin ApplyingBeside(p)
    BY DEF ApplyingBeside
  <2>4. proposal'[p].status = "applying" /\ proposal'[p].owner = r
    BY <1>7, <2>3 DEF AcquireLease, TypeOK, ProposalDoc
  <2>5. \A q \in Proposals \ {p} : \/ proposal'[q] = proposal[q]
                                   \/ proposal'[q].owner = NoRun
    BY <1>7, FailedTyped DEF AcquireLease, TypeOK
  <2> HIDE DEF p
  <2>6. \A q \in Proposals :
           /\ proposal'[q].status # "applying" => proposal'[q].owner = NoRun
           /\ proposal'[q].owner \in {proposal[q].owner, NoRun, r}
           /\ proposal'[q].owner = r => run'[r].job = q /\ MayOwn(r)'
    BY <2>1, <2>2, <2>4, <2>5 DEF Owned, MayOwn, LeaseLostOutcomes
  <2> QED BY <2>1, <2>6, OwnersKept
<1>8. ASSUME NEW r \in Runs, run[r].job \in Proposals,
             \/ CommitMove(r)
             \/ /\ GivesUp(run[r].job)
                /\ RecoverLease(r) \/ CommitStale(r) \/ MarkAborted(r)
      PROVE  Owned'
  <2> DEFINE p == run[r].job
  <2>1. /\ run[r].pc \in {"lease", "commit", "abort"}
        /\ \A q \in Runs \ {r} : run'[q] = run[q]
    BY <1>8 DEF CommitMove, RecoverLease, CommitStale, MarkAborted, Goto, Finish,
                Answered, TypeOK
  <2>2. /\ \A q \in Proposals \ {p} : proposal'[q] = proposal[q]
        /\ proposal'[p].owner = NoRun
    BY <1>8, FailedTyped DEF CommitMove, GivesUp, TypeOK, ProposalDoc
  <2>3. \A q \in Proposals \ {p} : proposal[q].owner # r
    BY DEF Owned
  <2> HIDE DEF p
  <2> QED BY <2>1, <2>2, <2>3, OwnersKept DEF Owned
<1>9. ASSUME NEW r \in Runs, CommitDenied(r) \/ MarkAborted(r), ~OwnsLease(r)
      PROVE  Owned'
  <2>1. /\ UNCHANGED proposal
        /\ \A q \in Runs \ {r} : run'[q] = run[q]
    BY <1>9 DEF CommitDenied, MarkAborted, Finish, TypeOK
  <2>2. \A p \in Proposals : proposal[p].owner # r
    BY <1>9 DEF Owned, OwnsLease
  <2> QED BY <2>1, <2>2, OwnersKept DEF Owned
<1>10. ASSUME NEW r \in Runs, CommitRaises(r) \/ AbortLost(r)
       PROVE  Owned'
  <2>1. /\ UNCHANGED proposal
        /\ run'[r].job = run[r].job
        /\ \/ run'[r].pc = "abort"
           \/ run'[r].pc = "done" /\ run'[r].outcome = "abort_lost"
        /\ \A q \in Runs \ {r} : run'[q] = run[q]
    BY <1>10 DEF CommitRaises, AbortLost, Goto, Finish, TypeOK, RunState
  <2> QED BY <2>1, OwnersKept DEF Owned, MayOwn, LeaseLostOutcomes
<1>11. ASSUME NEW r \in Runs, RunStep(r) PROVE Owned'
  <2>1. run[r].job \in Proposals
    BY <1>11 DEF Assigned, RunStep, MarkRejected, PlanProposal,
       PlanTitle, PlanOccurrences, PlanCount, RefuseLease, RecoverLease,
       AcquireLease, CommitDenied, CommitStale, CommitMove, CommitRaises,
       MarkAborted, AbortLost, CallRaises
  <2>2. RecoverLease(r) => GivesUp(run[r].job)
    BY <2>1, LeaseNames DEF RecoverLease, GivesUp
  <2>3. /\ CommitStale(r) => GivesUp(run[r].job)
        /\ MarkAborted(r) /\ OwnsLease(r) => GivesUp(run[r].job)
    BY DEF CommitStale, MarkAborted, OwnsLease, GivesUp
  <2>4. CommitDenied(r) => ~OwnsLease(r)
    BY DEF CommitDenied
  <2>5. CASE RecoverLease(r) \/ CommitStale(r) \/ CommitMove(r)
    BY <1>8, <2>1, <2>2, <2>3, <2>5
  <2>6. CASE CommitDenied(r) \/ MarkAborted(r)
    BY <1>8, <1>9, <2>1, <2>3, <2>4, <2>6
  <2> QED BY <1>5, <1>6, <1>7, <1>10, <1>11, <2>1, <2>5, <2>6 DEF RunStep
<1> QED BY <1>1, <1>2, <1>3, <1>4, <1>11 DEF Next, Audit, Operator

LEMMA OwnedHolds == Spec => [](Inv /\ Owned)
<1>1. Init => Owned
  BY ConstantsAssumption DEF Init, Owned, NoDoc
<1>2. Inv /\ Owned /\ [Next]_vars => Owned'
  BY StepOwned
<1> QED BY <1>1, <1>2, InvHolds, PTL DEF Spec

(* A run that ends by itself leaves no lease behind, unless the answer that *)
(* gave it the lease was lost, or its clean-up after a failed commit failed *)
(* too.                                                                     *)
THEOREM NoLeaseEverLeftBehind == Spec => []NoLeaseLeftBehind
<1>1. Owned => NoLeaseLeftBehind
  BY DEF Owned, MayOwn, NoLeaseLeftBehind
<1> QED BY <1>1, OwnedHolds, PTL
=============================================================================
