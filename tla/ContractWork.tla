---------------------------- MODULE ContractWork ----------------------------
(***************************************************************************)
(* The work under a contract: its milestones, its end and its reviews      *)
(* (app/services/milestone_service.py, contract_service.py and             *)
(* review_service.py with their repositories).                             *)
(*                                                                         *)
(* As in Hiring a handler is a request that checks first and commits what  *)
(* it decided later, at READ COMMITTED and without row locks.  Only the    *)
(* participants of a contract get past the checks, so a request acts as    *)
(* its CLIENT or as its FREELANCER.  A contract starts ACTIVE: Hiring has  *)
(* how it comes about.                                                     *)
(***************************************************************************)
EXTENDS Naturals

CONSTANTS
    Contract, Milestone, Review,    \* ids: each names one row, once
    ContractOf,                     \* milestones.contract_id
    ReviewedContract, ReviewerRole, \* reviews.contract_id, reviews.reviewer_id
    Request, NoId,
    MaxLost                         \* bound: handlers that fail after a commit

Role == {"CLIENT", "FREELANCER"}

ASSUME WorkConstants ==
    /\ ContractOf \in [Milestone -> Contract]
    /\ ReviewedContract \in [Review -> Contract]
    /\ ReviewerRole \in [Review -> Role]
    /\ MaxLost \in Nat

VARIABLES
    contracts,    \* contract -> status
    milestones,   \* milestone -> [status, terms, deliverable]
    reviews,      \* review -> status of its row
    notices,      \* the notices emit() was called for
    reqs,         \* request -> what its handler is doing
    lost

tables == <<contracts, milestones, reviews>>
vars == <<contracts, milestones, reviews, notices, reqs, lost>>

-----------------------------------------------------------------------------
ContractStatus == {"ACTIVE", "COMPLETED", "CANCELLED"}
MilestoneStatus == {"PENDING", "SUBMITTED", "APPROVED", "REJECTED"}
Absent == {"NONE", "DELETED"}

\* terms: title, description, amount and due date; a change of any of them is a change.
MilestoneRow ==
    [status : MilestoneStatus \cup Absent, terms : {0, 1}, deliverable : BOOLEAN]
NewMilestone == [status |-> "PENDING", terms |-> 0, deliverable |-> FALSE]

ExistsContract(c) == contracts[c] \in ContractStatus
ExistsMilestone(m) == milestones[m].status \in MilestoneStatus
ExistsReview(v) == reviews[v] = "POSTED"
MilestonesOf(c) == {m \in Milestone : ContractOf[m] = c /\ ExistsMilestone(m)}

NoticeType ==
    {"MILESTONE_SUBMITTED", "MILESTONE_APPROVED", "MILESTONE_REJECTED",
     "CONTRACT_COMPLETED", "CONTRACT_CANCELLED", "REVIEW_RECEIVED"}

\* seen: the status that the refresh between submit_deliverable's commits read.
IdleReq == [pc |-> "idle", op |-> "none", id |-> NoId, seen |-> "NONE"]

Init ==
    /\ contracts = [c \in Contract |-> "ACTIVE"]
    /\ milestones = [m \in Milestone |-> [NewMilestone EXCEPT !.status = "NONE"]]
    /\ reviews = [v \in Review |-> "NONE"]
    /\ notices = {}
    /\ reqs = [r \in Request |-> IdleReq]
    /\ lost = 0

-----------------------------------------------------------------------------
(* The steps every handler is made of. *)

Checked(r, op, id) ==
    /\ reqs[r].pc = "idle"
    /\ reqs' = [reqs EXCEPT ![r] = [IdleReq EXCEPT !.pc = "checked", !.op = op, !.id = id]]
    /\ UNCHANGED <<tables, notices, lost>>

Running(r, pc, op) == reqs[r].pc = pc /\ reqs[r].op = op
Done(r) == reqs' = [reqs EXCEPT ![r] = IdleReq] /\ UNCHANGED <<notices, lost>>
ToNotify(r) == reqs' = [reqs EXCEPT ![r].pc = "notify"] /\ UNCHANGED <<notices, lost>>
RolledBack(r) == Done(r) /\ UNCHANGED tables

NoticeOf(op) ==
    CASE op \in {"submit", "deliver"} -> "MILESTONE_SUBMITTED"
      [] op = "approve" -> "MILESTONE_APPROVED"
      [] op = "reject" -> "MILESTONE_REJECTED"
      [] op = "complete" -> "CONTRACT_COMPLETED"
      [] op = "cancel" -> "CONTRACT_CANCELLED"
      [] op = "review" -> "REVIEW_RECEIVED"

\* emit(), for one recipient or for both; it raises nothing.
Emit(r) ==
    /\ reqs[r].pc = "notify"
    /\ notices' = notices \cup {<<NoticeOf(reqs[r].op), reqs[r].id>>}
    /\ reqs' = [reqs EXCEPT ![r] = IdleReq]
    /\ UNCHANGED <<tables, lost>>

\* The process dies, the upload fails, a statement fails, or refresh() finds the row
\* gone.  What is committed stays.
Die(r) ==
    /\ reqs[r].pc # "idle"
    /\ reqs[r].pc = "checked" \/ lost < MaxLost
    /\ lost' = lost + (IF reqs[r].pc = "checked" THEN 0 ELSE 1)
    /\ reqs' = [reqs EXCEPT ![r] = IdleReq]
    /\ UNCHANGED <<tables, notices>>

-----------------------------------------------------------------------------
(* Milestones. *)

CreateMilestoneCheck(r, role, m) ==
    /\ role = "CLIENT"
    /\ milestones[m].status = "NONE"
    /\ contracts[ContractOf[m]] = "ACTIVE"
    /\ Checked(r, "create", m)

ForeignKeyIgnored(m) == TRUE    \* a mutant
ForeignKeyHolds(m) == ExistsContract(ContractOf[m])

CreateMilestoneCommit(r) ==
    /\ Running(r, "checked", "create")
    /\ LET m == reqs[r].id IN
       IF milestones[m].status = "NONE" /\ ForeignKeyHolds(m)
         THEN milestones' = [milestones EXCEPT ![m] = NewMilestone]
         ELSE UNCHANGED milestones
    /\ Done(r)
    /\ UNCHANGED <<contracts, reviews>>

\* _TRANSITIONS: from the role and the new status to what may come before.
Transitions(role, op) ==
    CASE role = "FREELANCER" /\ op = "submit" -> {"PENDING", "REJECTED"}
      [] role = "CLIENT" /\ op \in {"approve", "reject"} -> {"SUBMITTED"}
      [] OTHER -> {}

NewStatusVerb(op) == op    \* a mutant
\* The status that update_milestone_status writes.
NewStatus(op) ==
    CASE op = "submit" -> "SUBMITTED" [] op = "approve" -> "APPROVED" [] op = "reject" -> "REJECTED"

\* The contract's status is not looked at, whatever the helper's name says.
MilestoneStatusCheck(r, role, op, m) ==
    /\ milestones[m].status \in Transitions(role, op)
    /\ Checked(r, op, m)

\* An UPDATE by primary key writes the new status over whatever the row holds by now.
SetMilestone(r, m, new) ==
    IF ExistsMilestone(m)
      THEN /\ milestones' = [milestones EXCEPT ![m] = new]
           /\ ToNotify(r)
           /\ UNCHANGED <<contracts, reviews>>
      ELSE RolledBack(r)

MilestoneStatusCommit(r, op) ==
    /\ Running(r, "checked", op)
    /\ LET m == reqs[r].id IN
       SetMilestone(r, m, [milestones[m] EXCEPT !.status = NewStatus(op)])

\* A mutant: the status is not checked.
EditAnyCheck(r, role, m) ==
    role = "CLIENT" /\ ExistsMilestone(m) /\ Checked(r, "edit", m)

EditMilestoneCheck(r, role, m) ==
    /\ role = "CLIENT"
    /\ milestones[m].status = "PENDING"
    /\ Checked(r, "edit", m)

\* A mutant: the UPDATE writes every column, as it was when it was read.
EditWholeRowCommit(r) ==
    /\ Running(r, "checked", "edit")
    /\ LET m == reqs[r].id IN
       milestones' = IF ExistsMilestone(m)
                       THEN [milestones EXCEPT ![m].terms = 1 - @, ![m].status = "PENDING"]
                       ELSE milestones
    /\ Done(r)
    /\ UNCHANGED <<contracts, reviews>>

EditMilestoneCommit(r) ==
    /\ Running(r, "checked", "edit")
    /\ LET m == reqs[r].id IN
       milestones' = IF ExistsMilestone(m)
                       THEN [milestones EXCEPT ![m].terms = 1 - @] ELSE milestones
    /\ Done(r)
    /\ UNCHANGED <<contracts, reviews>>

DeleteMilestoneCheck(r, role, m) ==
    /\ role = "CLIENT"
    /\ milestones[m].status = "PENDING"
    /\ Checked(r, "deleteMilestone", m)

Removed(row) == IF row.status \in Absent THEN row ELSE [row EXCEPT !.status = "DELETED"]

DeleteMilestoneCommit(r) ==
    /\ Running(r, "checked", "deleteMilestone")
    /\ milestones' = [milestones EXCEPT ![reqs[r].id] = Removed(@)]
    /\ Done(r)
    /\ UNCHANGED <<contracts, reviews>>

-----------------------------------------------------------------------------
(* submit_deliverable: the upload is awaited after the checks, and the URL *)
(* and the status are written in two transactions.                         *)

DeliverCheck(r, role, m) ==
    /\ role = "FREELANCER"
    /\ milestones[m].status \in {"PENDING", "REJECTED"}
    /\ Checked(r, "deliver", m)

\* set_deliverable_url commits and reads the row again; both are one step here.
DeliverSave(r) ==
    /\ Running(r, "checked", "deliver")
    /\ LET m == reqs[r].id IN
       IF ExistsMilestone(m)
         THEN /\ milestones' = [milestones EXCEPT ![m].deliverable = TRUE]
              /\ reqs' = [reqs EXCEPT ![r].pc = "saved", ![r].seen = milestones[m].status]
              /\ UNCHANGED <<contracts, reviews, notices, lost>>
         ELSE RolledBack(r)

\* The status is in the UPDATE only if it differs from what the refresh has read.
DeliverSubmit(r) ==
    /\ Running(r, "saved", "deliver")
    /\ LET m == reqs[r].id IN
       SetMilestone(r, m,
           IF reqs[r].seen = "SUBMITTED" THEN milestones[m]
           ELSE [milestones[m] EXCEPT !.status = "SUBMITTED"])

-----------------------------------------------------------------------------
(* The end of the contract. *)

\* all_approved, but for its test for an empty list; also a mutant of it.
AllApprovedOrNone(c) == \A m \in MilestonesOf(c) : milestones[m].status = "APPROVED"
AnyApproved(c) == \E m \in MilestonesOf(c) : milestones[m].status = "APPROVED"
AllApproved(c) == MilestonesOf(c) # {} /\ AllApprovedOrNone(c)

CompleteCheck(r, role, c) ==
    /\ role = "CLIENT"
    /\ contracts[c] = "ACTIVE"
    /\ AllApproved(c)
    /\ Checked(r, "complete", c)

CancelCheck(r, role, c) ==
    /\ contracts[c] = "ACTIVE"
    /\ ~AnyApproved(c)
    /\ Checked(r, "cancel", c)

EndStatus(op) == IF op = "complete" THEN "COMPLETED" ELSE "CANCELLED"

EndCommit(r, op) ==
    /\ Running(r, "checked", op)
    /\ LET c == reqs[r].id IN
       IF ExistsContract(c)
         THEN /\ contracts' = [contracts EXCEPT ![c] = EndStatus(op)]
              /\ ToNotify(r)
              /\ UNCHANGED <<milestones, reviews>>
         ELSE RolledBack(r)

DeleteContractCheck(r, role, c) ==
    /\ contracts[c] = "CANCELLED"
    /\ Checked(r, "deleteContract", c)

\* ON DELETE CASCADE, and the cascade of the ORM.
CascadedMilestones(c) ==
    [m \in Milestone |-> IF ContractOf[m] = c THEN Removed(milestones[m]) ELSE milestones[m]]

DeleteContractCommit(r) ==
    /\ Running(r, "checked", "deleteContract")
    /\ LET c == reqs[r].id IN
       /\ contracts' = [contracts EXCEPT ![c] = "DELETED"]
       /\ milestones' = CascadedMilestones(c)
       /\ reviews' = [v \in Review |->
              IF ReviewedContract[v] = c /\ ExistsReview(v) THEN "DELETED" ELSE reviews[v]]
    /\ Done(r)

-----------------------------------------------------------------------------
(* Reviews. *)

\* The reviews by v's reviewer of v's contract: the key uq_review_contract_reviewer.
SameReviewer(v) ==
    {w \in Review : /\ ReviewedContract[w] = ReviewedContract[v]
                    /\ ReviewerRole[w] = ReviewerRole[v]
                    /\ ExistsReview(w)}

\* A mutant: an ended contract will do.
ReviewEndedCheck(r, role, v) ==
    /\ role = ReviewerRole[v] /\ reviews[v] = "NONE"
    /\ contracts[ReviewedContract[v]] \in {"COMPLETED", "CANCELLED"}
    /\ SameReviewer(v) = {}
    /\ Checked(r, "review", v)

CreateReviewCheck(r, role, v) ==
    /\ role = ReviewerRole[v] /\ reviews[v] = "NONE"
    /\ contracts[ReviewedContract[v]] = "COMPLETED"
    /\ SameReviewer(v) = {}
    /\ Checked(r, "review", v)

\* A mutant: no unique key.
CanInsertAnyReview(v) == reviews[v] = "NONE" /\ ExistsContract(ReviewedContract[v])
CanInsertReview(v) == CanInsertAnyReview(v) /\ SameReviewer(v) = {}

\* A mutant: the notice goes out though the review was refused.
CreateReviewLoudly(r) ==
    /\ Running(r, "checked", "review")
    /\ reviews' = IF CanInsertReview(reqs[r].id)
                    THEN [reviews EXCEPT ![reqs[r].id] = "POSTED"] ELSE reviews
    /\ ToNotify(r)
    /\ UNCHANGED <<contracts, milestones>>

CreateReviewCommit(r) ==
    /\ Running(r, "checked", "review")
    /\ LET v == reqs[r].id IN
       IF CanInsertReview(v)
         THEN /\ reviews' = [reviews EXCEPT ![v] = "POSTED"]
              /\ ToNotify(r)
              /\ UNCHANGED <<contracts, milestones>>
         ELSE RolledBack(r)

\* update_review changes rating and comment only.
DeleteReviewCheck(r, role, v) ==
    /\ role = ReviewerRole[v] /\ ExistsReview(v)
    /\ Checked(r, "deleteReview", v)

DeleteReviewCommit(r) ==
    /\ Running(r, "checked", "deleteReview")
    /\ reviews' = [reviews EXCEPT ![reqs[r].id] = "DELETED"]
    /\ Done(r)
    /\ UNCHANGED <<contracts, milestones>>

-----------------------------------------------------------------------------
MilestoneCheck(r, role, m) ==
    \/ CreateMilestoneCheck(r, role, m) \/ EditMilestoneCheck(r, role, m)
    \/ DeleteMilestoneCheck(r, role, m) \/ DeliverCheck(r, role, m)
    \/ \E op \in {"submit", "approve", "reject"} : MilestoneStatusCheck(r, role, op, m)
ContractCheck(r, role, c) ==
    CompleteCheck(r, role, c) \/ CancelCheck(r, role, c) \/ DeleteContractCheck(r, role, c)
ReviewCheck(r, role, v) == CreateReviewCheck(r, role, v) \/ DeleteReviewCheck(r, role, v)

Commit(r) ==
    \/ CreateMilestoneCommit(r) \/ EditMilestoneCommit(r) \/ DeleteMilestoneCommit(r)
    \/ \E op \in {"submit", "approve", "reject"} : MilestoneStatusCommit(r, op)
    \/ DeliverSave(r) \/ DeliverSubmit(r)
    \/ \E op \in {"complete", "cancel"} : EndCommit(r, op)
    \/ DeleteContractCommit(r)
    \/ CreateReviewCommit(r) \/ DeleteReviewCommit(r)

Next ==
    \E r \in Request :
        \/ \E role \in Role :
            \/ \E m \in Milestone : MilestoneCheck(r, role, m)
            \/ \E c \in Contract : ContractCheck(r, role, c)
            \/ \E v \in Review : ReviewCheck(r, role, v)
        \/ Commit(r) \/ Emit(r) \/ Die(r)

Spec == Init /\ [][Next]_vars

-----------------------------------------------------------------------------
Ops == {"create", "submit", "approve", "reject", "edit", "deleteMilestone", "deliver",
        "complete", "cancel", "deleteContract", "review", "deleteReview"}

TypeOK ==
    /\ contracts \in [Contract -> ContractStatus \cup Absent]
    /\ milestones \in [Milestone -> MilestoneRow]
    /\ reviews \in [Review -> {"NONE", "POSTED", "DELETED"}]
    /\ notices \subseteq NoticeType \X (Contract \cup Milestone \cup Review)
    /\ reqs \in [Request -> [pc : {"idle", "checked", "saved", "notify"}, op : Ops \cup {"none"},
                             id : Contract \cup Milestone \cup Review \cup {NoId},
                             seen : MilestoneStatus \cup {"NONE"}]]
    /\ lost \in 0..MaxLost

\* A milestone or a review never outlives its contract, whichever insertion races with
\* the deletion of the contract.
WorkIsGrounded ==
    /\ \A m \in Milestone : ExistsMilestone(m) => ExistsContract(ContractOf[m])
    /\ \A v \in Review : ExistsReview(v) => ExistsContract(ReviewedContract[v])

\* However often a review is posted at once, a participant has one for the contract, and
\* only for a contract that has been ended.
OneReviewEach ==
    \A v \in Review : ExistsReview(v) =>
        SameReviewer(v) = {v} /\ contracts[ReviewedContract[v]] # "ACTIVE"

\* Work that was submitted is never unsubmitted, and an ended contract never active
\* again, however handlers overlap or die.
WorkIsNotUndone ==
    [][/\ \A m \in Milestone :
             milestones[m].status \notin {"NONE", "PENDING"}
             => milestones'[m].status \notin {"NONE", "PENDING"}
       /\ \A c \in Contract : contracts[c] # "ACTIVE" => contracts'[c] # "ACTIVE"]_vars

\* A notice is emitted only for what has been committed.
NoticesAreTrue ==
    \A n \in notices :
        /\ n[1] \in {"MILESTONE_SUBMITTED", "MILESTONE_APPROVED", "MILESTONE_REJECTED"}
             => milestones[n[2]].status \notin {"NONE", "PENDING"}
        /\ n[1] \in {"CONTRACT_COMPLETED", "CONTRACT_CANCELLED"} => contracts[n[2]] # "ACTIVE"
        /\ n[1] = "REVIEW_RECEIVED" => reviews[n[2]] # "NONE"

-----------------------------------------------------------------------------
(* What holds as long as handlers do not overlap. *)

\* A completed contract has milestones, and all of them are approved.
CompletedIsDone ==
    \A c \in Contract : contracts[c] = "COMPLETED" =>
        /\ MilestonesOf(c) # {}
        /\ \A m \in MilestonesOf(c) : milestones[m].status = "APPROVED"

\* The terms change, and the milestone is deleted, only before work is submitted; an
\* upload that is not followed by its submission does not count as one.
TermsAreFrozen ==
    [][\A m \in Milestone :
          /\ milestones[m].terms # milestones'[m].terms => milestones[m].status \in {"NONE", "PENDING"}
          /\ milestones[m].status \in {"SUBMITTED", "APPROVED", "REJECTED"}
             => milestones'[m].status # "DELETED" \/ contracts'[ContractOf[m]] = "DELETED"]_vars

\* Cancelling is blocked once any milestone is approved, as the summary of PATCH
\* /Contract_Status says; and a contract that has a review is completed and stays so.
EndIsEarned ==
    [][\A c \in Contract :
          /\ contracts[c] = "ACTIVE" /\ contracts'[c] = "CANCELLED" => ~AnyApproved(c)
          /\ (\E v \in Review : ReviewedContract[v] = c /\ reviews'[v] = "POSTED")
             => contracts'[c] = "COMPLETED"]_vars
=============================================================================
