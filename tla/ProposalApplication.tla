------------------------ MODULE ProposalApplication ------------------------
(***************************************************************************)
(* The repair of a misfiled torrent in the MediaDock catalogue.            *)
(*                                                                         *)
(* An audit writes a proposal: "these occurrences of title S belong to     *)
(* title T".  An operator approves it, and a scanner run started with      *)
(* --mode apply-proposals applies it: it plans against the catalogue with  *)
(* plain reads, takes a lease on S in one Firestore transaction and moves  *)
(* the occurrences in another.  Runs overlap, crash between any two steps, *)
(* lose the answer of a commit, and race with the scans that keep writing  *)
(* titles and occurrences.                                                 *)
(*                                                                         *)
(* Of a document only its fingerprint is modelled (module Fingerprints):   *)
(* two documents have the same one iff the code's _freeze_value of them is *)
(* equal.                                                                  *)
(***************************************************************************)
EXTENDS Naturals, FiniteSets, Fingerprints

CONSTANTS
    Titles,         \* title document ids
    Occurrences,    \* occurrence (source item) ids
    Proposals,      \* proposal ids: deterministic over source and occurrences
    Runs,           \* scanner runs applying one proposal; each has one token
    Scans,          \* scanner runs writing titles and occurrences
    Canonical,      \* the fingerprint of a title as OMDb describes it today
    Entered,        \* the fingerprint of an occurrence as earlier scans left it
    Source,         \* [Proposals -> Titles]: sourceTitleId
    Named,          \* [Proposals -> SUBSET Occurrences]: occurrenceIds
    Suggested,      \* [Proposals -> SUBSET (Titles + NoTitle)]: an audit's targets
    Filed,          \* [Occurrences -> Titles]: where earlier scans filed them
    Observations,   \* what a feed entry may resolve to in a scan
    Readings,       \* what an audit may have read of the catalogue
    LeaseDuration,  \* timedelta(minutes=5), in ticks
    MaxTime,        \* bound on the clock
    MaxScanWrites,  \* bound on catalogue writes by scans
    Serialized,     \* TRUE: at most one run at a time (workflow concurrency)
    NoTitle, NoRun, NoProposal

(* One feed entry resolved: the title document and the occurrence it stages. *)
Observation == [title : Titles, occurrence : Occurrences,
                titlePrint : Prints, occPrint : Prints]

(* The documents an audit read: those of a proposal are among them. *)
Reading == [titlePrint : Prints, occPrints : [Occurrences -> Prints]]

ASSUME ConstantsAssumption ==
    /\ Source \in [Proposals -> Titles]
    /\ Named \in [Proposals -> SUBSET Occurrences]
    /\ \A p \in Proposals : Named[p] # {} /\ IsFiniteSet(Named[p])
    /\ Suggested \in [Proposals -> SUBSET (Titles \cup {NoTitle})]
    /\ Filed \in [Occurrences -> Titles]
    /\ Observations \subseteq Observation
    /\ Readings \subseteq Reading
    /\ IsFiniteSet(Occurrences)
    /\ Canonical \in Prints
    /\ Entered \in Prints
    /\ LeaseDuration \in Nat \ {0}
    /\ MaxTime \in Nat
    /\ MaxScanWrites \in Nat
    /\ Serialized \in BOOLEAN
    /\ NoTitle \notin Titles
    /\ NoRun \notin Runs
    /\ NoProposal \notin Proposals

VARIABLES
    title,      \* titles/{t}: its fingerprint, NoPrint when absent
    occ,        \* titles/{t}/occurrences/{o}: fingerprint, NoPrint when absent
    proposal,   \* auditProposals/{p}
    lease,      \* proposalApplicationLeases/{sourceTitleId}
    run,        \* the local state of the applying runs
    scan,       \* the scans' pending occurrence write, if any
    scanWrites, \* number of catalogue writes by scans so far
    clock,      \* real time
    approved    \* observed only: the content the operator last approved

catalog == <<title, occ>>
vars == <<title, occ, proposal, lease, run, scan, scanWrites, clock, approved>>

-----------------------------------------------------------------------------
(* Documents *)

Statuses == {"absent", "pending", "approved", "rejected",
             "applying", "applied", "failed"}

(* What a proposal claims. target = NoTitle stands for every record that is *)
(* not an actionable repair: review_only, legacy schema or another policy.  *)
Content == [target : Titles \cup {NoTitle},
            titlePrint : Prints \cup {NoPrint},
            occPrints : [Occurrences -> Prints \cup {NoPrint}]]

(* leasedUntil is null (0) exactly when leaseOwner is null (NoRun). *)
ProposalDoc == [status : Statuses, content : Content,
                owner : Runs \cup {NoRun}, until : Nat]

LeaseDoc == [proposal : Proposals \cup {NoProposal},
             owner : Runs \cup {NoRun}, until : Nat]

NoContent == [target |-> NoTitle, titlePrint |-> NoPrint,
              occPrints |-> [o \in Occurrences |-> NoPrint]]

Released == [proposal |-> NoProposal, owner |-> NoRun, until |-> 0]

(* The steps of a run, in the order of apply_proposal. *)
Working == {"plan", "title", "occurrences", "count", "lease", "commit",
            "abort", "reject"}

Outcomes == {"none", "applied", "skipped", "failed", "stale", "ineligible",
             "lease_expired", "lease_lost", "commit_failed", "abort_lost",
             "rejected", "error"}

RunState == [pc : {"idle", "done", "crashed"} \cup Working,
             job : Proposals \cup {NoProposal},
             now : Nat,
             plan : ProposalDoc,
             count : Nat,
             outcome : Outcomes]

NotScanning == [title |-> NoTitle, occurrence |-> NoPrint, print |-> NoPrint]
ScanState == [title : Titles, occurrence : Occurrences, print : Prints]
             \cup {NotScanning}

NoDoc == [status |-> "absent", content |-> NoContent,
          owner |-> NoRun, until |-> 0]

(* The occurrence documents of a title. *)
Under(t) == {o \in Occurrences : occ[t][o] # NoPrint}

(* ALLOWED_AUDIT_PROPOSAL_TRANSITIONS *)
Transitions ==
    {<<"pending", "approved">>, <<"pending", "rejected">>,
     <<"approved", "applying">>, <<"applying", "applied">>,
     <<"applying", "failed">>, <<"failed", "pending">>}

ValidTransition(old, new) == old = new \/ <<old, new>> \in Transitions

(* _is_active: the expiry is set and lies ahead of the reader's clock. *)
IsActive(until, now) == now < until

(* Mutant: the outcome is written where the status belongs. *)
FailedAsOutcome(doc) == [doc EXCEPT !.status = "stale", !.owner = NoRun, !.until = 0]

(* The record a failed attempt leaves behind: lease cleared, review needed. *)
Failed(doc) == [doc EXCEPT !.status = "failed", !.owner = NoRun, !.until = 0]

(* The workflow's concurrency group admits a new run only when none is live. *)
MayStart ==
    Serialized => /\ \A r \in Runs : run[r].pc \notin Working
                  /\ \A s \in Scans : scan[s] = NotScanning

-----------------------------------------------------------------------------
Init ==
    /\ title = [t \in Titles |->
                  IF \E o \in Occurrences : Filed[o] = t
                  THEN Canonical ELSE NoPrint]
    /\ occ = [t \in Titles |-> [o \in Occurrences |->
                  IF Filed[o] = t THEN Entered ELSE NoPrint]]
    /\ proposal = [p \in Proposals |-> NoDoc]
    /\ lease = [t \in Titles |-> Released]
    /\ run = [r \in Runs |-> [pc |-> "idle", job |-> NoProposal, now |-> 0,
                              plan |-> NoDoc, count |-> 0, outcome |-> "none"]]
    /\ scan = [s \in Scans |-> NotScanning]
    /\ scanWrites = 0
    /\ clock = 0
    /\ approved = [p \in Proposals |-> NoContent]

-----------------------------------------------------------------------------
(* The audit and the operator *)

(* refresh_from_audit: a cluster judged a mismatch is written as a pending  *)
(* proposal over the documents the audit read before it asked OMDb and the  *)
(* AI, which may have changed since.                                        *)
(* An existing proposal is overwritten only while it is pending.            *)
RefreshFromAudit(p) ==
    /\ MayStart
    /\ proposal[p].status \in {"absent", "pending"}
    /\ \E target \in Suggested[p], read \in Readings :
         proposal' = [proposal EXCEPT
           ![p].status = "pending",
           ![p].content = [target |-> target,
                           titlePrint |-> read.titlePrint,
                           occPrints |-> [o \in Occurrences |->
                               IF o \in Named[p] THEN read.occPrints[o]
                               ELSE NoPrint]]]
    /\ UNCHANGED <<title, occ, lease, run, scan, scanWrites, clock, approved>>

(* The operator's decisions are made outside the repository's code, which   *)
(* only admits them: pending -> approved and failed -> pending.             *)
Approve(p) ==
    /\ proposal[p].status = "pending"
    /\ proposal' = [proposal EXCEPT ![p].status = "approved"]
    /\ approved' = [approved EXCEPT ![p] = proposal[p].content]
    /\ UNCHANGED <<title, occ, lease, run, scan, scanWrites, clock>>

Requeue(p) ==
    /\ proposal[p].status = "failed"
    /\ proposal' = [proposal EXCEPT ![p].status = "pending"]
    /\ UNCHANGED <<title, occ, lease, run, scan, scanWrites, clock, approved>>

-----------------------------------------------------------------------------
(* A scan flushes its write buffer: every staged title, then every staged   *)
(* occurrence, each upsert in a transaction of its own that merges it into  *)
(* the document already there.                                              *)
FlushTitle(s, seen) ==
    /\ MayStart
    /\ scan[s] = NotScanning
    /\ scanWrites < MaxScanWrites
    /\ title' = [title EXCEPT ![seen.title] = Stored(@, seen.titlePrint)]
    /\ scan' = [scan EXCEPT ![s] = [title |-> seen.title,
                                    occurrence |-> seen.occurrence,
                                    print |-> seen.occPrint]]
    /\ scanWrites' = scanWrites + 1
    /\ UNCHANGED <<occ, proposal, lease, run, clock, approved>>

FlushOccurrence(s) ==
    /\ scan[s] # NotScanning
    /\ occ' = [occ EXCEPT ![scan[s].title][scan[s].occurrence] =
                              Stored(@, scan[s].print)]
    /\ scan' = [scan EXCEPT ![s] = NotScanning]
    /\ UNCHANGED <<title, proposal, lease, run, scanWrites, clock, approved>>

(* The scan's process dies, or an upsert raises, between the two. *)
ScanDies(s) ==
    /\ scan[s] # NotScanning
    /\ scan' = [scan EXCEPT ![s] = NotScanning]
    /\ UNCHANGED <<title, occ, proposal, lease, run, scanWrites, clock, approved>>

-----------------------------------------------------------------------------
(* One run of apply_proposal *)

Goto(r, pc) == run' = [run EXCEPT ![r].pc = pc]
Finish(r, outcome) ==
    run' = [run EXCEPT ![r].pc = "done", ![r].outcome = outcome]

(* A call outside the commit raises without effect: nothing in              *)
(* apply_proposal or in its caller catches it, and the run ends as fatal.   *)
CallRaises(r) ==
    /\ run[r].pc \in {"plan", "title", "occurrences", "count", "lease", "reject"}
    /\ Finish(r, "error")
    /\ UNCHANGED <<title, occ, proposal, lease, scan, scanWrites, clock, approved>>

(* What the service answers without planning. *)
EarlyOutcome(status) ==
    IF status \in {"applied", "rejected"} THEN "skipped" ELSE "failed"

(* Scanner.run freezes self.now; apply_proposal reads the proposal and      *)
(* returns at once unless it is approved or applying.                       *)
StartApply(r, p) ==
    LET go == proposal[p].status \in {"approved", "applying"} IN
    /\ MayStart
    /\ run[r].pc = "idle"
    /\ run' = [run EXCEPT ![r].job = p, ![r].now = clock,
                          ![r].pc = IF go THEN "plan" ELSE "done",
                          ![r].outcome = IF go THEN "none"
                                         ELSE EarlyOutcome(proposal[p].status)]
    /\ UNCHANGED <<title, occ, proposal, lease, scan, scanWrites, clock, approved>>

(* The same entry with reject=True: the whole record read here is written   *)
(* back by MarkRejected.                                                    *)
StartReject(r, p) ==
    LET go == proposal[p].status \in {"pending", "approved", "applying"} IN
    /\ MayStart
    /\ run[r].pc = "idle"
    /\ run' = [run EXCEPT ![r].job = p, ![r].now = clock,
                          ![r].pc = IF go THEN "reject" ELSE "done",
                          ![r].plan = proposal[p],
                          ![r].outcome = CASE go -> "none"
                            [] proposal[p].status = "absent" -> "failed"
                            [] OTHER -> "skipped"]
    /\ UNCHANGED <<title, occ, proposal, lease, scan, scanWrites, clock, approved>>

(* save_proposal -> upsert: the transition is checked against the stored    *)
(* status; the record is replaced by the one read earlier, whose class has  *)
(* no leaseOwner and whose leased_until _mark_state cleared.  The answer of *)
(* the write may be lost: the exception ends the run.                       *)
MarkRejected(r) ==
    LET p == run[r].job IN
    /\ run[r].pc = "reject"
    /\ IF ValidTransition(proposal[p].status, "rejected")
       THEN /\ proposal' = [proposal EXCEPT ![p] =
                   [run[r].plan EXCEPT !.status = "rejected",
                                       !.owner = NoRun, !.until = 0]]
            /\ Finish(r, "rejected") \/ Finish(r, "error")
       ELSE /\ Finish(r, "error")
            /\ UNCHANGED proposal
    /\ UNCHANGED <<title, occ, lease, scan, scanWrites, clock, approved>>

(* plan_proposal reads the proposal again, then the source title, then each *)
(* named occurrence, then counts the source's occurrences, in no            *)
(* transaction: each read may see a different catalogue.                    *)
PlanProposal(r) ==
    LET doc == proposal[run[r].job] IN
    /\ run[r].pc = "plan"
    /\ IF doc.content.target = NoTitle
       THEN Finish(r, "ineligible")
       ELSE run' = [run EXCEPT ![r].pc = "title", ![r].plan = doc]
    /\ UNCHANGED <<title, occ, proposal, lease, scan, scanWrites, clock, approved>>

PlanTitle(r) ==
    /\ run[r].pc = "title"
    /\ IF title[Source[run[r].job]] = run[r].plan.content.titlePrint
       THEN Goto(r, "occurrences")
       ELSE Finish(r, "stale")
    /\ UNCHANGED <<title, occ, proposal, lease, scan, scanWrites, clock, approved>>

PlanOccurrences(r) ==
    LET p == run[r].job IN
    /\ run[r].pc = "occurrences"
    /\ IF /\ Named[p] \subseteq Under(Source[p])
          /\ \A o \in Named[p] :
                occ[Source[p]][o] = run[r].plan.content.occPrints[o]
       THEN Goto(r, "count")
       ELSE Finish(r, "stale")
    /\ UNCHANGED <<title, occ, proposal, lease, scan, scanWrites, clock, approved>>

PlanCount(r) ==
    LET p == run[r].job
        found == Cardinality(Under(Source[p]))
    IN
    /\ run[r].pc = "count"
    /\ IF found < Cardinality(Named[p])
       THEN Finish(r, "stale")
       ELSE run' = [run EXCEPT ![r].pc = "lease", ![r].count = found]
    /\ UNCHANGED <<title, occ, proposal, lease, scan, scanWrites, clock, approved>>

-----------------------------------------------------------------------------
(* acquire_lease: one transaction over the proposal, its source's lease     *)
(* document and every proposal of the same source.                          *)

(* Mutant: only the lease document guards the source, not its proposals. *)
NothingBeside(p) == {q \in Proposals : FALSE /\ q # p}

ApplyingBeside(p) ==
    {q \in Proposals \ {p} : /\ Source[q] = Source[p]
                             /\ proposal[q].status = "applying"}

(* Held, by this very proposal or by anything else on its source. *)
LeaseHeld(p, now) ==
    \/ proposal[p].status = "applying" /\ IsActive(proposal[p].until, now)
    \/ /\ proposal[p].status = "approved"
       /\ \/ \E q \in ApplyingBeside(p) : IsActive(proposal[q].until, now)
          \/ IsActive(lease[Source[p]].until, now)

RefuseLease(r) ==
    LET p == run[r].job IN
    /\ run[r].pc = "lease"
    /\ \/ LeaseHeld(p, run[r].now)
       \/ proposal[p].status \notin {"approved", "applying"}
    /\ Finish(r, "skipped")
    /\ UNCHANGED <<title, occ, proposal, lease, scan, scanWrites, clock, approved>>

(* acquire_lease is called outside any try: when its transaction lands and  *)
(* the answer is lost, the run ends as fatal and does not know what it did. *)

(* The proposal is still applying although its lease ran out: its run died. *)
RecoverLease(r) ==
    LET p == run[r].job
        s == Source[p]
    IN
    /\ run[r].pc = "lease"
    /\ proposal[p].status = "applying"
    /\ ~LeaseHeld(p, run[r].now)
    /\ proposal' = [proposal EXCEPT ![p] = Failed(@)]
    /\ lease' = IF lease[s].proposal = p
                THEN [lease EXCEPT ![s] = Released] ELSE lease
    /\ Finish(r, "lease_expired") \/ Finish(r, "error")
    /\ UNCHANGED <<title, occ, scan, scanWrites, clock, approved>>

(* The token, secrets.token_hex(32), is fresh: a run acquires at most once. *)
AcquireLease(r) ==
    LET p == run[r].job
        expiry == run[r].now + LeaseDuration
    IN
    /\ run[r].pc = "lease"
    /\ proposal[p].status = "approved"
    /\ ~LeaseHeld(p, run[r].now)
    /\ proposal' = [q \in Proposals |->
          CASE q = p -> [proposal[p] EXCEPT !.status = "applying",
                                            !.owner = r, !.until = expiry]
            [] q \in ApplyingBeside(p) -> Failed(proposal[q])
            [] OTHER -> proposal[q]]
    /\ lease' = [lease EXCEPT ![Source[p]] =
                    [proposal |-> p, owner |-> r, until |-> expiry]]
    /\ Goto(r, "commit") \/ Finish(r, "lease_lost")
    /\ UNCHANGED <<title, occ, scan, scanWrites, clock, approved>>

-----------------------------------------------------------------------------
(* commit_application: one transaction that rechecks everything and moves.  *)

OwnsLease(r) ==
    /\ proposal[run[r].job].status = "applying"
    /\ proposal[run[r].job].owner = r

(* Mutant: the named occurrences are not compared again at commit. *)
PlanHoldsUnchecked(r) ==
    LET s == Source[run[r].job]
        content == run[r].plan.content
    IN
    /\ IsActive(proposal[run[r].job].until, run[r].now)
    /\ proposal[run[r].job].content = content
    /\ title[s] = content.titlePrint
    /\ Named[run[r].job] \subseteq Under(s)
    /\ Cardinality(Under(s)) = run[r].count

(* Mutant: the source's membership is not counted again at commit. *)
PlanHoldsUncounted(r) ==
    LET s == Source[run[r].job]
        content == run[r].plan.content
    IN
    /\ IsActive(proposal[run[r].job].until, run[r].now)
    /\ proposal[run[r].job].content = content
    /\ title[s] = content.titlePrint
    /\ Named[run[r].job] \subseteq Under(s)
    /\ \A o \in Named[run[r].job] : occ[s][o] = content.occPrints[o]

(* The record, the catalogue and the lease still match the plan.  now is    *)
(* the run's frozen clock, the same instant the lease was taken at.         *)
PlanHolds(r) ==
    LET p == run[r].job
        s == Source[p]
        content == run[r].plan.content
    IN
    /\ IsActive(proposal[p].until, run[r].now)
    /\ proposal[p].content = content
    /\ title[s] = content.titlePrint
    /\ Named[p] \subseteq Under(s)
    /\ \A o \in Named[p] : occ[s][o] = content.occPrints[o]
    /\ Cardinality(Under(s)) = run[r].count

(* Mutant: every move deletes its source title. *)
SourceDropped(p, target, count) == target # Source[p] /\ count \in Nat

(* The source title goes when nothing would be left under it. *)
SourceEmptied(p, target, count) ==
    target # Source[p] /\ count = Cardinality(Named[p])

(* The catalogue after the move: the target's metadata and the occurrences  *)
(* are merged into what is there, the named occurrences of the source       *)
(* deleted, the source title deleted with its last occurrence.  Deletion is *)
(* unconditional.                                                           *)
MovedTitles(p, target, count) ==
    [t \in Titles |->
        CASE SourceEmptied(p, target, count) /\ t = Source[p] -> NoPrint
          [] target # Source[p] /\ t = target -> Stored(title[t], Canonical)
          [] OTHER -> title[t]]

(* Mutant: the source's document replaces the one the target already has. *)
MovedOver(p, target) ==
    [t \in Titles |-> [o \in Occurrences |->
        CASE o \in Named[p] /\ t = Source[p] -> NoPrint
          [] o \in Named[p] /\ t = target /\ t # Source[p] -> occ[Source[p]][o]
          [] OTHER -> occ[t][o]]]

MovedOccurrences(p, target) ==
    [t \in Titles |-> [o \in Occurrences |->
        CASE o \in Named[p] /\ t = Source[p] -> NoPrint
          [] o \in Named[p] /\ t = target /\ t # Source[p]
               -> Stored(occ[t][o], occ[Source[p]][o])
          [] OTHER -> occ[t][o]]]

(* Not the owner (any more): nothing is written. *)
CommitDenied(r) ==
    /\ run[r].pc = "commit"
    /\ ~OwnsLease(r)
    /\ Finish(r, IF proposal[run[r].job].status = "applied"
                 THEN "applied" ELSE "failed")
    /\ UNCHANGED <<title, occ, proposal, lease, scan, scanWrites, clock, approved>>

(* How a transaction that landed reports back: with its result, or, when    *)
(* its answer is lost, with an exception that leads to the abort path.      *)
Answered(r, outcome) == Finish(r, outcome) \/ Goto(r, "abort")

(* _finish_failed_attempt: the code answers ineligible, failed or stale by  *)
(* the check that failed; "stale" stands for the three, whose writes agree. *)
CommitStale(r) ==
    LET p == run[r].job IN
    /\ run[r].pc = "commit"
    /\ OwnsLease(r)
    /\ ~PlanHolds(r)
    /\ proposal' = [proposal EXCEPT ![p] = Failed(@)]
    /\ lease' = [lease EXCEPT ![Source[p]] = Released]
    /\ Answered(r, "stale")
    /\ UNCHANGED <<title, occ, scan, scanWrites, clock, approved>>

CommitMove(r) ==
    LET p == run[r].job
        target == run[r].plan.content.target
    IN
    /\ run[r].pc = "commit"
    /\ OwnsLease(r)
    /\ PlanHolds(r)
    /\ title' = MovedTitles(p, target, run[r].count)
    /\ occ' = MovedOccurrences(p, target)
    /\ proposal' = [proposal EXCEPT ![p].status = "applied",
                                    ![p].owner = NoRun, ![p].until = 0]
    /\ lease' = [lease EXCEPT ![Source[p]] = Released]
    /\ Answered(r, "applied")
    /\ UNCHANGED <<scan, scanWrites, clock, approved>>

(* The transaction raises without effect. *)
CommitRaises(r) ==
    /\ run[r].pc = "commit"
    /\ Goto(r, "abort")
    /\ UNCHANGED <<title, occ, proposal, lease, scan, scanWrites, clock, approved>>

(* Mutant: the clean-up does not look at the record it overwrites. *)
MarkAbortedBlindly(r) ==
    LET p == run[r].job IN
    /\ run[r].pc = "abort"
    /\ proposal' = [proposal EXCEPT ![p] = Failed(@)]
    /\ lease' = [lease EXCEPT ![Source[p]] = Released]
    /\ Finish(r, "commit_failed")
    /\ UNCHANGED <<title, occ, scan, scanWrites, clock, approved>>

(* Mutant: a failed commit is reported but not cleaned up. *)
MarkAbortedNever(r) ==
    /\ run[r].pc = "abort"
    /\ Finish(r, "commit_failed")
    /\ UNCHANGED <<title, occ, proposal, lease, scan, scanWrites, clock, approved>>

(* _mark_aborted_commit_failed: give the proposal up, unless the lost       *)
(* transaction had landed or another run has taken over.                    *)
MarkAborted(r) ==
    LET p == run[r].job IN
    /\ run[r].pc = "abort"
    /\ IF OwnsLease(r)
       THEN /\ proposal' = [proposal EXCEPT ![p] = Failed(@)]
            /\ lease' = [lease EXCEPT ![Source[p]] = Released]
       ELSE UNCHANGED <<proposal, lease>>
    /\ Finish(r, "commit_failed")
    /\ UNCHANGED <<title, occ, scan, scanWrites, clock, approved>>

(* The clean-up raises too, and that exception is swallowed. *)
AbortLost(r) ==
    /\ run[r].pc = "abort"
    /\ Finish(r, "abort_lost")
    /\ UNCHANGED <<title, occ, proposal, lease, scan, scanWrites, clock, approved>>

(* The job is killed (15 minute limit, runner loss) between two steps. *)
Crash(r) ==
    /\ run[r].pc \in Working
    /\ Goto(r, "crashed")
    /\ UNCHANGED <<title, occ, proposal, lease, scan, scanWrites, clock, approved>>

Tick ==
    /\ clock < MaxTime
    /\ clock' = clock + 1
    /\ UNCHANGED <<title, occ, proposal, lease, run, scan, scanWrites, approved>>

-----------------------------------------------------------------------------
Audit == \E p \in Proposals : RefreshFromAudit(p)
Operator == \E p \in Proposals : Approve(p) \/ Requeue(p)

Scanning ==
    \E s \in Scans :
       \/ \E seen \in Observations : FlushTitle(s, seen)
       \/ FlushOccurrence(s)
       \/ ScanDies(s)

Start(r) == \E p \in Proposals : StartApply(r, p) \/ StartReject(r, p)

(* The steps the process takes on its own once started. *)
RunStep(r) ==
    \/ MarkRejected(r) \/ CallRaises(r)
    \/ PlanProposal(r) \/ PlanTitle(r) \/ PlanOccurrences(r) \/ PlanCount(r)
    \/ RefuseLease(r) \/ RecoverLease(r) \/ AcquireLease(r)
    \/ CommitDenied(r) \/ CommitStale(r) \/ CommitMove(r) \/ CommitRaises(r)
    \/ MarkAborted(r) \/ AbortLost(r)

Next ==
    \/ Audit
    \/ Operator
    \/ Scanning
    \/ \E r \in Runs : Start(r) \/ RunStep(r) \/ Crash(r)
    \/ Tick

Spec == Init /\ [][Next]_vars

(* A started run is a synchronous program whose calls time out: it goes on  *)
(* until it ends or is killed.                                              *)
FairSpec == Spec /\ \A r \in Runs : WF_vars(RunStep(r))

-----------------------------------------------------------------------------
(* Properties *)

(* Every variable keeps its type. *)
TypeOK ==
    /\ title \in [Titles -> Prints \cup {NoPrint}]
    /\ occ \in [Titles -> [Occurrences -> Prints \cup {NoPrint}]]
    /\ proposal \in [Proposals -> ProposalDoc]
    /\ lease \in [Titles -> LeaseDoc]
    /\ run \in [Runs -> RunState]
    /\ scan \in [Scans -> ScanState]
    /\ scanWrites \in Nat
    /\ clock \in Nat
    /\ approved \in [Proposals -> Content]

(* The lease document of a source and the lease fields of its proposals are *)
(* written by five transactions, two of which delete the lease document     *)
(* without reading it.  They never come apart: an applying proposal is the  *)
(* one its source's lease names, with the same owner and expiry, and a      *)
(* lease that is held names an applying proposal of that source.  So at     *)
(* most one proposal of a source is being applied.                          *)
LeaseOf(p) == [proposal |-> p, owner |-> proposal[p].owner,
               until |-> proposal[p].until]

LeasesAgree ==
    /\ \A p \in Proposals :
          proposal[p].status = "applying" => lease[Source[p]] = LeaseOf(p)
    /\ \A t \in Titles : lease[t] # Released =>
          /\ lease[t].proposal \in Proposals
          /\ Source[lease[t].proposal] = t
          /\ proposal[lease[t].proposal].status = "applying"

(* The two ways a run that is not killed can end without giving its lease   *)
(* back: the transaction that takes it lands and its answer is lost, which  *)
(* nothing catches; or the commit fails and so does its clean-up.           *)
LeaseLostOutcomes == {"lease_lost", "abort_lost"}

(* A run that ends by itself leaves no lease behind in any other way: not   *)
(* when a commit that raised had landed, when another run took over or gave *)
(* the proposal up, nor when any other call raises.                         *)
NoLeaseLeftBehind ==
    \A r \in Runs, p \in Proposals :
        run[r].pc = "done" /\ proposal[p].owner = r
            => run[r].outcome \in LeaseLostOutcomes

(* No occurrence is stored under a title that does not exist: the reader,   *)
(* who lists titles, would never see it.  A source title is deleted only    *)
(* when the move empties it.                                                *)
OccurrencesHaveTitles == \A t \in Titles : Under(t) # {} => title[t] # NoPrint

(* A proposal's status only moves along the documented graph, although a    *)
(* rejection writes a whole record read earlier and a retried or aborted    *)
(* attempt writes after others: applied and rejected are final.             *)
StatusesMoveLegally ==
    [][\A p \in Proposals : \/ proposal[p].status = "absent"
                            \/ ValidTransition(proposal[p].status,
                                               proposal'[p].status)]_vars

Applies(p) == proposal[p].status # "applied" /\ proposal'[p].status = "applied"

(* What is applied is what the operator approved, and the catalogue it is   *)
(* applied to is the one the operator was shown: the source title and every *)
(* named occurrence carry the approved fingerprints at the very commit, and *)
(* the named occurrences are exactly the ones that leave the source.        *)
AppliedAsApproved ==
    [][\A p \in Proposals : Applies(p) =>
          LET s == Source[p] IN
          /\ proposal[p].content = approved[p]
          /\ title[s] = approved[p].titlePrint
          /\ \A o \in Named[p] : occ[s][o] = approved[p].occPrints[o]
          /\ {o \in Occurrences : occ[s][o] # occ'[s][o]} = Named[p]]_vars

(* now is moved brought together with had, what the target may already have *)
(* held: the very same document if it held none; otherwise the same         *)
(* identity, every other field taken from one of the two, and none lost     *)
(* that either knew.                                                        *)
Carries(now, moved, had) ==
    IF had = NoPrint THEN now = moved
    ELSE /\ now.identity = moved.identity
         /\ now.detail \in {moved.detail, had.detail}
         /\ now.origin \in {moved.origin, had.origin}
         /\ now.detail = NoField => {moved.detail, had.detail} = {NoField}
         /\ now.origin = NoField => {moved.origin, had.origin} = {NoField}

(* Nothing is lost: a document that leaves a title is, after the same step, *)
(* under the target of the proposal applied by that step, with all it said, *)
(* although a scan may have filed the same occurrence there meanwhile.      *)
OccurrencesMoveWhole ==
    [][\A t \in Titles, o \in Occurrences :
          occ[t][o] # NoPrint /\ occ'[t][o] = NoPrint =>
             \E p \in Proposals :
                LET target == proposal[p].content.target IN
                /\ Applies(p) /\ o \in Named[p] /\ Source[p] = t
                /\ Carries(occ'[target][o], occ[t][o], occ[target][o])]_vars

(* A lease ends: the run that holds it gives it back, unless it is killed,  *)
(* never learns that it has the lease, or its clean-up is lost.             *)
LeasesEnd ==
    \A r \in Runs, p \in Proposals :
        proposal[p].owner = r ~> \/ proposal[p].owner # r
                                 \/ run[r].pc = "crashed"
                                 \/ run[r].outcome \in LeaseLostOutcomes

(* Leases, plans, runs and clocks implement the atomic repair: while it is  *)
(* being applied a proposal is still just approved, and the commit is the   *)
(* one step that applies it.                                                *)
Repair == INSTANCE CatalogRepair WITH
    status <- [p \in Proposals |-> IF proposal[p].status = "applying"
                                   THEN "approved" ELSE proposal[p].status],
    content <- [p \in Proposals |-> proposal[p].content]

ImplementsRepair == Repair!Spec

-----------------------------------------------------------------------------
(* A claim of the documentation that the code does not keep *)

(* DATA_CONTRACTS: a proposal whose target is its source is a no-op; no     *)
(* title or occurrence is written.                                          *)
SameSourceTargetIsNoOp ==
    [][\A p \in Proposals :
          Applies(p) /\ proposal[p].content.target = Source[p]
             => UNCHANGED catalog]_vars

=============================================================================
