------------------------- MODULE ContractWorkProofs -------------------------
(* Proofs about the work under contracts, for any contracts, milestones,     *)
(* reviews and requests.                                                     *)
EXTENDS ContractWork, TLAPS

MilestoneOps == {"create", "submit", "approve", "reject", "edit", "deleteMilestone", "deliver"}
ContractOps == {"complete", "cancel", "deleteContract"}
ReviewOps == {"review", "deleteReview"}

\* The operations whose commit is told to somebody.
Telling == {"submit", "deliver", "approve", "reject", "complete", "cancel", "review"}

Submitted(m) == milestones[m].status \notin {"NONE", "PENDING"}

\* A notice of something that was committed.
Tells(n) ==
    \/ /\ n[1] \in {"MILESTONE_SUBMITTED", "MILESTONE_APPROVED", "MILESTONE_REJECTED"}
       /\ n[2] \in Milestone /\ Submitted(n[2])
    \/ /\ n[1] \in {"CONTRACT_COMPLETED", "CONTRACT_CANCELLED"}
       /\ n[2] \in Contract /\ contracts[n[2]] # "ACTIVE"
    \/ n[1] = "REVIEW_RECEIVED" /\ n[2] \in Review /\ reviews[n[2]] # "NONE"

\* What a handler may rely on while it runs: its id is of the right kind, a status seen
\* as SUBMITTED is still that of submitted work, a contract seen as COMPLETED has still
\* ended, and what it is about to tell is true.
Relies(q) ==
    /\ q.pc # "idle" =>
          \/ q.op \in MilestoneOps /\ q.id \in Milestone
          \/ q.op \in ContractOps /\ q.id \in Contract
          \/ q.op \in ReviewOps /\ q.id \in Review
    /\ q.pc = "saved" => q.op = "deliver" /\ (q.seen = "SUBMITTED" => Submitted(q.id))
    /\ q.pc # "idle" /\ q.op = "review" => contracts[ReviewedContract[q.id]] # "ACTIVE"
    /\ q.pc = "notify" => q.op \in Telling /\ Tells(<<NoticeOf(q.op), q.id>>)

ReqsRely == \A r \in Request : Relies(reqs[r])
NoticesTell == \A n \in notices : Tells(n)
WorkInv == TypeOK /\ ReqsRely /\ NoticesTell /\ WorkIsGrounded /\ OneReviewEach

-----------------------------------------------------------------------------
Handling ==
    [pc : {"idle", "checked", "saved", "notify"}, op : Ops \cup {"none"},
     id : Contract \cup Milestone \cup Review \cup {NoId},
     seen : MilestoneStatus \cup {"NONE"}]

TablesTyped ==
    /\ contracts \in [Contract -> ContractStatus \cup Absent]
    /\ milestones \in [Milestone -> MilestoneRow]
    /\ reviews \in [Review -> {"NONE", "POSTED", "DELETED"}]

LEMMA Types ==
    TypeOK <=> /\ TablesTyped
               /\ notices \subseteq NoticeType \X (Contract \cup Milestone \cup Review)
               /\ reqs \in [Request -> Handling] /\ lost \in 0..MaxLost
    BY DEF TypeOK, TablesTyped, Handling

\* The notice of each operation.
LEMMA NoticeNames ==
    /\ NoticeOf("submit") = "MILESTONE_SUBMITTED" /\ NoticeOf("deliver") = "MILESTONE_SUBMITTED"
    /\ NoticeOf("approve") = "MILESTONE_APPROVED" /\ NoticeOf("reject") = "MILESTONE_REJECTED"
    /\ NoticeOf("complete") = "CONTRACT_COMPLETED" /\ NoticeOf("cancel") = "CONTRACT_CANCELLED"
    /\ NoticeOf("review") = "REVIEW_RECEIVED"
    BY DEF NoticeOf

LEMMA NewStatuses ==
    /\ NewStatus("submit") = "SUBMITTED" /\ NewStatus("approve") = "APPROVED"
    /\ NewStatus("reject") = "REJECTED"
    BY DEF NewStatus

LEMMA IdleFacts == IdleReq \in Handling /\ Relies(IdleReq)
    BY DEF IdleReq, Handling, Relies

-----------------------------------------------------------------------------
(* What can happen to the tables. *)

\* Nothing goes back to where it was.
Onward ==
    /\ \A m \in Milestone :
          milestones[m].status \notin {"NONE", "PENDING"} => milestones'[m].status \notin {"NONE", "PENDING"}
    /\ \A c \in Contract : contracts[c] # "ACTIVE" => contracts'[c] # "ACTIVE"
    /\ \A v \in Review : reviews[v] # "NONE" => reviews'[v] # "NONE"

WritesMilestone(m, row) ==
    /\ milestones' = [milestones EXCEPT ![m] = row]
    /\ row \in MilestoneRow
    /\ Submitted(m) => row.status \notin {"NONE", "PENDING"}
    /\ row.status \in MilestoneStatus => ExistsContract(ContractOf[m])
    /\ UNCHANGED <<contracts, reviews>>

EndsContract(c, status) ==
    /\ ExistsContract(c) /\ status \in {"COMPLETED", "CANCELLED"}
    /\ contracts' = [contracts EXCEPT ![c] = status]
    /\ UNCHANGED <<milestones, reviews>>

DeletesContract(c) ==
    /\ contracts' = [contracts EXCEPT ![c] = "DELETED"]
    /\ milestones' = CascadedMilestones(c)
    /\ reviews' = [v \in Review |->
           IF ReviewedContract[v] = c /\ ExistsReview(v) THEN "DELETED" ELSE reviews[v]]

PostsReview(v) ==
    /\ CanInsertReview(v) /\ contracts[ReviewedContract[v]] # "ACTIVE"
    /\ reviews' = [reviews EXCEPT ![v] = "POSTED"]
    /\ UNCHANGED <<contracts, milestones>>

DeletesReview(v) ==
    /\ reviews' = [reviews EXCEPT ![v] = "DELETED"]
    /\ UNCHANGED <<contracts, milestones>>

\* A commit moves the tables in one of five ways, or not at all.
TablesMove ==
    \/ UNCHANGED tables
    \/ \E m \in Milestone, row \in MilestoneRow : WritesMilestone(m, row)
    \/ \E c \in Contract, status \in {"COMPLETED", "CANCELLED"} : EndsContract(c, status)
    \/ \E c \in Contract : DeletesContract(c)
    \/ \E v \in Review : PostsReview(v) \/ DeletesReview(v)

\* Each of these moves keeps the tables in order and takes nothing back.
LEMMA MoveKeeps ==
    ASSUME TablesTyped, WorkIsGrounded, OneReviewEach, TablesMove
    PROVE  Onward /\ TablesTyped' /\ WorkIsGrounded' /\ OneReviewEach'
<1> DEFINE Good == Onward /\ TablesTyped' /\ WorkIsGrounded' /\ OneReviewEach'
<1>1. ASSUME UNCHANGED tables  PROVE Good
    BY <1>1 DEF tables, Onward, TablesTyped, WorkIsGrounded, OneReviewEach, ExistsMilestone,
                ExistsContract, ExistsReview, SameReviewer
<1>2. ASSUME NEW m \in Milestone, NEW row \in MilestoneRow, WritesMilestone(m, row)
      PROVE  Good
  <2>1. milestones' = [milestones EXCEPT ![m] = row] /\ UNCHANGED <<contracts, reviews>>
      BY <1>2 DEF WritesMilestone
  <2>2. Onward /\ TablesTyped'
      BY <1>2, <2>1 DEF WritesMilestone, Submitted, Onward, TablesTyped
  <2>3. WorkIsGrounded'
      BY <1>2, <2>1 DEF WritesMilestone, WorkIsGrounded, TablesTyped, ExistsMilestone,
                        ExistsContract, ExistsReview
  <2>4. OneReviewEach'
      BY <2>1 DEF OneReviewEach, ExistsReview, SameReviewer
  <2>5. QED  BY <2>2, <2>3, <2>4
<1>3. ASSUME NEW c \in Contract, NEW status \in {"COMPLETED", "CANCELLED"}, EndsContract(c, status)
      PROVE  Good
  <2>1. contracts' = [contracts EXCEPT ![c] = status] /\ UNCHANGED <<milestones, reviews>>
      BY <1>3 DEF EndsContract
  <2>2. Onward /\ TablesTyped'
      BY <2>1 DEF Onward, TablesTyped, ContractStatus
  <2>3. \A d \in Contract : ExistsContract(d) => ExistsContract(d)'
      BY <2>1 DEF ExistsContract, TablesTyped, ContractStatus
  <2>4. WorkIsGrounded'
      BY <2>1, <2>3, WorkConstants DEF WorkIsGrounded, ExistsMilestone, ExistsReview
  <2>5. OneReviewEach'
      BY <2>1, WorkConstants DEF OneReviewEach, ExistsReview, SameReviewer, TablesTyped
  <2>6. QED  BY <2>2, <2>4, <2>5
<1>4. ASSUME NEW c \in Contract, DeletesContract(c)  PROVE Good
  <2>1. /\ contracts' = [contracts EXCEPT ![c] = "DELETED"]
        /\ milestones' = [m \in Milestone |->
               IF ContractOf[m] = c THEN Removed(milestones[m]) ELSE milestones[m]]
        /\ reviews' = [v \in Review |->
               IF ReviewedContract[v] = c /\ reviews[v] = "POSTED" THEN "DELETED" ELSE reviews[v]]
      BY <1>4 DEF DeletesContract, CascadedMilestones, ExistsReview
  <2>2. ASSUME NEW m \in Milestone
        PROVE  /\ Removed(milestones[m]) \in MilestoneRow
               /\ Removed(milestones[m]).status \in Absent
               /\ Submitted(m) => Removed(milestones[m]).status = "DELETED"
      BY DEF TablesTyped, MilestoneRow, MilestoneStatus, Absent, Removed, Submitted
  <2>3. milestones' \in [Milestone -> MilestoneRow]
      BY <2>1, <2>2 DEF TablesTyped
  <2>4. TablesTyped'
      BY <2>1, <2>3 DEF TablesTyped, Absent
  <2>5. Onward
      BY <2>1, <2>2 DEF Onward, TablesTyped, Submitted
  <2>6. \A d \in Contract \ {c} : ExistsContract(d) => ExistsContract(d)'
      BY <2>1 DEF ExistsContract, TablesTyped
  <2>7. ASSUME NEW m \in Milestone, ExistsMilestone(m)'  PROVE ExistsContract(ContractOf[m])'
    <3>1. ContractOf[m] # c
        BY <2>1, <2>2, <2>7 DEF ExistsMilestone, MilestoneStatus, Absent
    <3>2. ExistsMilestone(m)
        BY <2>1, <2>7, <3>1 DEF ExistsMilestone
    <3>3. PICK d \in Contract : d = ContractOf[m]
        BY WorkConstants
    <3>4. ExistsContract(d)'
        BY <2>6, <3>1, <3>2, <3>3 DEF WorkIsGrounded
    <3>5. QED  BY <3>3, <3>4
  <2>8. ASSUME NEW v \in Review, ExistsReview(v)'
        PROVE  ExistsContract(ReviewedContract[v])' /\ ReviewedContract[v] # c /\ ExistsReview(v)
    <3>1. ReviewedContract[v] # c /\ ExistsReview(v)
        BY <2>1, <2>8 DEF ExistsReview
    <3>2. PICK d \in Contract : d = ReviewedContract[v]
        BY WorkConstants
    <3>3. ExistsContract(d)'
        BY <2>6, <3>1, <3>2 DEF WorkIsGrounded
    <3>4. QED  BY <3>1, <3>2, <3>3
  <2>9. OneReviewEach'
      BY <2>1, <2>8, WorkConstants DEF OneReviewEach, SameReviewer, TablesTyped, ExistsReview
  <2>10. QED  BY <2>4, <2>5, <2>7, <2>8, <2>9 DEF WorkIsGrounded
<1>5. ASSUME NEW v \in Review, PostsReview(v)  PROVE Good
  <2>1. reviews' = [reviews EXCEPT ![v] = "POSTED"] /\ UNCHANGED <<contracts, milestones>>
      BY <1>5 DEF PostsReview
  <2>2. /\ reviews[v] = "NONE" /\ ExistsContract(ReviewedContract[v])
        /\ contracts[ReviewedContract[v]] # "ACTIVE" /\ SameReviewer(v) = {}
      BY <1>5 DEF PostsReview, CanInsertReview, CanInsertAnyReview
  <2>3. Onward /\ TablesTyped'
      BY <2>1 DEF Onward, TablesTyped
  <2>4. WorkIsGrounded'
      BY <2>1, <2>2 DEF WorkIsGrounded, ExistsMilestone, ExistsContract, ExistsReview, TablesTyped
  <2>5. OneReviewEach'
      BY <2>1, <2>2 DEF OneReviewEach, SameReviewer, ExistsReview, TablesTyped
  <2>6. QED  BY <2>3, <2>4, <2>5
<1>6. ASSUME NEW v \in Review, DeletesReview(v)  PROVE Good
  <2>1. reviews' = [reviews EXCEPT ![v] = "DELETED"] /\ UNCHANGED <<contracts, milestones>>
      BY <1>6 DEF DeletesReview
  <2>2. \A w \in Review : ExistsReview(w)' <=> (ExistsReview(w) /\ w # v)
      BY <2>1 DEF ExistsReview, TablesTyped
  <2>3. Onward /\ TablesTyped'
      BY <2>1 DEF Onward, TablesTyped
  <2>4. WorkIsGrounded'
      BY <2>1, <2>2 DEF WorkIsGrounded, ExistsMilestone, ExistsContract
  <2>5. OneReviewEach'
      BY <2>1, <2>2 DEF OneReviewEach, SameReviewer
  <2>6. QED  BY <2>3, <2>4, <2>5
<1>7. QED  BY <1>1, <1>2, <1>3, <1>4, <1>5, <1>6 DEF TablesMove

-----------------------------------------------------------------------------
(* What each commit does. *)

\* What comes of request r, whose record is q: it ends, goes on to tell of what it has
\* committed, or goes on to the second commit of submit_deliverable.
Outcomes(r, q) ==
    \/ Done(r)
    \/ ToNotify(r) /\ q.op \in Telling /\ Tells(<<NoticeOf(q.op), q.id>>)'
    \/ /\ q.op = "deliver" /\ UNCHANGED <<notices, lost>>
       /\ \E seen \in MilestoneStatus :
             /\ reqs' = [reqs EXCEPT ![r].pc = "saved", ![r].seen = seen]
             /\ seen = "SUBMITTED" => Submitted(q.id)'

LEMMA SetMilestoneStep ==
    ASSUME TypeOK, WorkIsGrounded, NEW r \in Request, NEW q, q = reqs[r],
           NEW row, NEW m \in Milestone, q.id = m,
           q.op \in {"submit", "deliver", "approve", "reject"},
           SetMilestone(r, m, row),
           ExistsMilestone(m) => row \in MilestoneRow /\ row.status \notin {"NONE", "PENDING"}
    PROVE  TablesMove /\ Outcomes(r, q)
<1>1. CASE ExistsMilestone(m)
  <2>1. /\ milestones' = [milestones EXCEPT ![m] = row] /\ ToNotify(r)
        /\ UNCHANGED <<contracts, reviews>>
      BY <1>1 DEF SetMilestone
  <2>2. WritesMilestone(m, row)
      BY <1>1, <2>1 DEF WritesMilestone, WorkIsGrounded
  <2>3. Submitted(m)'
      BY <1>1, <2>1 DEF Submitted, TypeOK
  <2>4. Tells(<<NoticeOf(q.op), q.id>>)'
      BY <2>3, NoticeNames DEF Tells
  <2>5. QED  BY <1>1, <2>1, <2>2, <2>4 DEF TablesMove, Outcomes, Telling
<1>2. CASE ~ExistsMilestone(m)
    BY <1>2 DEF SetMilestone, RolledBack, TablesMove, Outcomes
<1>3. QED  BY <1>1, <1>2

\* What a request that is under way has, by its operation.
LEMMA ReqFacts ==
    ASSUME WorkInv, NEW r \in Request
    PROVE  /\ reqs[r] \in Handling /\ Relies(reqs[r])
           /\ reqs[r].pc # "idle" => reqs[r].op \in Ops
           /\ reqs[r].pc # "idle" /\ reqs[r].op \in MilestoneOps => reqs[r].id \in Milestone
           /\ reqs[r].pc # "idle" /\ reqs[r].op \in ContractOps => reqs[r].id \in Contract
           /\ reqs[r].pc # "idle" /\ reqs[r].op \in ReviewOps => reqs[r].id \in Review
<1>1. reqs[r] \in Handling /\ Relies(reqs[r])
    BY Types DEF WorkInv, ReqsRely
<1>2. QED  BY <1>1 DEF Relies, Ops, MilestoneOps, ContractOps, ReviewOps

LEMMA MilestoneCommits ==
    ASSUME WorkInv, NEW r \in Request, NEW q, q = reqs[r],
           \/ CreateMilestoneCommit(r) \/ EditMilestoneCommit(r) \/ DeleteMilestoneCommit(r)
           \/ \E op \in {"submit", "approve", "reject"} : MilestoneStatusCommit(r, op)
           \/ DeliverSave(r) \/ DeliverSubmit(r)
    PROVE  TablesMove /\ Outcomes(r, q)
<1>1. q.id \in Milestone /\ q.pc # "idle" /\ q.op \in MilestoneOps /\ Relies(q)
    BY ReqFacts DEF CreateMilestoneCommit, EditMilestoneCommit, DeleteMilestoneCommit,
                    MilestoneStatusCommit, DeliverSave, DeliverSubmit, Running, MilestoneOps
<1>2. PICK m \in Milestone : m = q.id
    BY <1>1
<1>3. milestones[m] \in MilestoneRow /\ TypeOK /\ WorkIsGrounded
    BY DEF WorkInv, TypeOK
<1>4. CASE CreateMilestoneCommit(r)
  <2>1. Done(r) /\ UNCHANGED <<contracts, reviews>>
      BY <1>4 DEF CreateMilestoneCommit
  <2>2. CASE milestones[m].status = "NONE" /\ ForeignKeyHolds(m)
    <3>1. milestones' = [milestones EXCEPT ![m] = NewMilestone]
        BY <1>2, <1>4, <2>2 DEF CreateMilestoneCommit
    <3>2. NewMilestone \in MilestoneRow /\ NewMilestone.status = "PENDING"
        BY DEF NewMilestone, MilestoneRow, MilestoneStatus
    <3>3. WritesMilestone(m, NewMilestone)
        BY <2>1, <2>2, <3>1, <3>2 DEF WritesMilestone, Submitted, ForeignKeyHolds
    <3>4. QED  BY <2>1, <3>2, <3>3 DEF TablesMove, Outcomes
  <2>3. CASE ~(milestones[m].status = "NONE" /\ ForeignKeyHolds(m))
      BY <1>2, <1>4, <2>1, <2>3 DEF CreateMilestoneCommit, TablesMove, Outcomes, tables
  <2>4. QED  BY <2>2, <2>3
<1>5. CASE EditMilestoneCommit(r)
  <2>1. Done(r) /\ UNCHANGED <<contracts, reviews>>
      BY <1>5 DEF EditMilestoneCommit
  <2>2. CASE ExistsMilestone(m)
    <3> DEFINE row == [milestones[m] EXCEPT !.terms = 1 - @]
    <3>1. milestones' = [milestones EXCEPT ![m] = row]
        BY <1>2, <1>3, <1>5, <2>2 DEF EditMilestoneCommit, MilestoneRow, TypeOK
    <3>2. row \in MilestoneRow /\ row.status = milestones[m].status
        BY <1>3 DEF MilestoneRow
    <3>3. ExistsContract(ContractOf[m])
        BY <1>3, <2>2 DEF WorkIsGrounded
    <3> HIDE DEF row
    <3>4. WritesMilestone(m, row)
        BY <2>1, <3>1, <3>2, <3>3 DEF WritesMilestone, Submitted
    <3>5. QED  BY <2>1, <3>2, <3>4 DEF TablesMove, Outcomes
  <2>3. CASE ~ExistsMilestone(m)
      BY <1>2, <1>5, <2>1, <2>3 DEF EditMilestoneCommit, TablesMove, Outcomes, tables
  <2>4. QED  BY <2>2, <2>3
<1>6. CASE DeleteMilestoneCommit(r)
  <2> DEFINE row == Removed(milestones[m])
  <2>1. /\ milestones' = [milestones EXCEPT ![m] = row] /\ Done(r)
        /\ UNCHANGED <<contracts, reviews>>
      BY <1>2, <1>6 DEF DeleteMilestoneCommit
  <2>2. row \in MilestoneRow /\ row.status \in Absent /\ (Submitted(m) => row.status = "DELETED")
      BY <1>3 DEF MilestoneRow, MilestoneStatus, Absent, Removed, Submitted
  <2> HIDE DEF row
  <2>3. WritesMilestone(m, row)
      BY <2>1, <2>2 DEF WritesMilestone, MilestoneStatus, Absent
  <2>4. QED  BY <2>1, <2>2, <2>3 DEF TablesMove, Outcomes
<1>7. ASSUME NEW op \in {"submit", "approve", "reject"}, MilestoneStatusCommit(r, op)
      PROVE  TablesMove /\ Outcomes(r, q)
  <2> DEFINE row == [milestones[m] EXCEPT !.status = NewStatus(op)]
  <2>1. SetMilestone(r, m, row) /\ q.op = op
      BY <1>2, <1>7 DEF MilestoneStatusCommit, Running
  <2>2. NewStatus(op) \in {"SUBMITTED", "APPROVED", "REJECTED"}
      BY NewStatuses
  <2>3. row \in MilestoneRow /\ row.status \notin {"NONE", "PENDING"}
      BY <1>3, <2>2 DEF MilestoneRow, MilestoneStatus
  <2> HIDE DEF row
  <2>4. QED  BY <1>2, <1>3, <2>1, <2>3, SetMilestoneStep
<1>8. CASE DeliverSave(r)
  <2>1. q.op = "deliver"
      BY <1>8 DEF DeliverSave, Running
  <2>2. CASE ExistsMilestone(m)
    <3> DEFINE row == [milestones[m] EXCEPT !.deliverable = TRUE]
               seen == milestones[m].status
    <3>1. /\ milestones' = [milestones EXCEPT ![m] = row]
          /\ reqs' = [reqs EXCEPT ![r].pc = "saved", ![r].seen = seen]
          /\ UNCHANGED <<contracts, reviews, notices, lost>>
        BY <1>2, <1>3, <1>8, <2>2 DEF DeliverSave, MilestoneRow, TypeOK
    <3>2. row \in MilestoneRow /\ row.status = seen /\ seen \in MilestoneStatus
        BY <1>3, <2>2 DEF MilestoneRow, ExistsMilestone
    <3>3. ExistsContract(ContractOf[m])
        BY <1>3, <2>2 DEF WorkIsGrounded
    <3>4. PICK s \in MilestoneStatus : s = seen
        BY <3>2
    <3> HIDE DEF row
    <3>5. WritesMilestone(m, row)
        BY <3>1, <3>2, <3>3 DEF WritesMilestone, Submitted
    <3>6. s = "SUBMITTED" => Submitted(m)'
        BY <1>3, <3>1, <3>2, <3>4 DEF Submitted, TypeOK
    <3>7. reqs' = [reqs EXCEPT ![r].pc = "saved", ![r].seen = s]
        BY <3>1, <3>4
    <3>8. QED  BY <1>2, <2>1, <3>1, <3>2, <3>5, <3>6, <3>7 DEF TablesMove, Outcomes
  <2>3. CASE ~ExistsMilestone(m)
      BY <1>2, <1>8, <2>3 DEF DeliverSave, RolledBack, TablesMove, Outcomes
  <2>4. QED  BY <2>2, <2>3
<1>9. CASE DeliverSubmit(r)
  <2> DEFINE row == IF q.seen = "SUBMITTED" THEN milestones[m]
                    ELSE [milestones[m] EXCEPT !.status = "SUBMITTED"]
  <2>1. SetMilestone(r, m, row) /\ q.op = "deliver" /\ q.pc = "saved"
      BY <1>2, <1>9 DEF DeliverSubmit, Running
  <2>2. q.seen = "SUBMITTED" => Submitted(m)
      BY <1>1, <1>2, <2>1 DEF Relies
  <2>3. row \in MilestoneRow /\ row.status \notin {"NONE", "PENDING"}
      BY <1>3, <2>2 DEF MilestoneRow, MilestoneStatus, Submitted
  <2> HIDE DEF row
  <2>4. QED  BY <1>2, <1>3, <2>1, <2>3, SetMilestoneStep
<1>10. QED  BY <1>4, <1>5, <1>6, <1>7, <1>8, <1>9

LEMMA OtherCommits ==
    ASSUME WorkInv, NEW r \in Request, NEW q, q = reqs[r],
           \/ \E op \in {"complete", "cancel"} : EndCommit(r, op)
           \/ DeleteContractCommit(r) \/ CreateReviewCommit(r) \/ DeleteReviewCommit(r)
    PROVE  TablesMove /\ Outcomes(r, q)
<1>1. ASSUME NEW op \in {"complete", "cancel"}, EndCommit(r, op)
      PROVE  TablesMove /\ Outcomes(r, q)
  <2>1. q.op = op /\ q.pc # "idle" /\ q.id \in Contract
      BY <1>1, ReqFacts DEF EndCommit, Running, ContractOps
  <2>2. PICK c \in Contract : c = q.id
      BY <2>1
  <2>3. CASE ExistsContract(c)
    <3>1. PICK status \in {"COMPLETED", "CANCELLED"} : status = EndStatus(op)
        BY DEF EndStatus
    <3>2. /\ contracts' = [contracts EXCEPT ![c] = status] /\ ToNotify(r)
          /\ UNCHANGED <<milestones, reviews>>
        BY <1>1, <2>2, <2>3, <3>1 DEF EndCommit
    <3>3. EndsContract(c, status)
        BY <2>3, <3>2 DEF EndsContract
    <3>4. contracts'[c] # "ACTIVE"
        BY <3>2 DEF WorkInv, TypeOK
    <3>5. Tells(<<NoticeOf(op), c>>)'
        BY <3>4, NoticeNames DEF Tells
    <3>6. QED  BY <2>1, <2>2, <3>2, <3>3, <3>5 DEF TablesMove, Outcomes, Telling
  <2>4. CASE ~ExistsContract(c)
      BY <1>1, <2>2, <2>4 DEF EndCommit, RolledBack, TablesMove, Outcomes
  <2>5. QED  BY <2>3, <2>4
<1>2. CASE DeleteContractCommit(r)
  <2>1. PICK c \in Contract : c = q.id
      BY <1>2, ReqFacts DEF DeleteContractCommit, Running, ContractOps
  <2>2. DeletesContract(c) /\ Done(r)
      BY <1>2, <2>1 DEF DeleteContractCommit, DeletesContract
  <2>3. QED  BY <2>2 DEF TablesMove, Outcomes
<1>3. CASE CreateReviewCommit(r)
  <2>1. q.op = "review" /\ q.pc # "idle" /\ q.id \in Review /\ Relies(q)
      BY <1>3, ReqFacts DEF CreateReviewCommit, Running, ReviewOps
  <2>2. PICK v \in Review : v = q.id
      BY <2>1
  <2>3. CASE CanInsertReview(v)
    <3>1. /\ reviews' = [reviews EXCEPT ![v] = "POSTED"] /\ ToNotify(r)
          /\ UNCHANGED <<contracts, milestones>>
        BY <1>3, <2>2, <2>3 DEF CreateReviewCommit
    <3>2. PostsReview(v)
        BY <2>1, <2>2, <2>3, <3>1 DEF PostsReview, Relies
    <3>3. reviews'[v] # "NONE"
        BY <3>1 DEF WorkInv, TypeOK
    <3>4. Tells(<<NoticeOf("review"), v>>)'
        BY <3>3, NoticeNames DEF Tells
    <3>5. QED  BY <2>1, <2>2, <3>1, <3>2, <3>4 DEF TablesMove, Outcomes, Telling
  <2>4. CASE ~CanInsertReview(v)
      BY <1>3, <2>2, <2>4 DEF CreateReviewCommit, RolledBack, TablesMove, Outcomes
  <2>5. QED  BY <2>3, <2>4
<1>4. CASE DeleteReviewCommit(r)
  <2>1. PICK v \in Review : v = q.id
      BY <1>4, ReqFacts DEF DeleteReviewCommit, Running, ReviewOps
  <2>2. DeletesReview(v) /\ Done(r)
      BY <1>4, <2>1 DEF DeleteReviewCommit, DeletesReview
  <2>3. QED  BY <2>2 DEF TablesMove, Outcomes
<1>5. QED  BY <1>1, <1>2, <1>3, <1>4

-----------------------------------------------------------------------------
(* What handlers rely on stays true. *)

LEMMA TellsStays ==
    ASSUME Onward, NEW n, Tells(n)
    PROVE  Tells(n)'
    BY DEF Onward, Tells, Submitted

LEMMA ReliesStays ==
    ASSUME Onward, NEW q, Relies(q)
    PROVE  Relies(q)'
<1>1. q.pc = "saved" => q.id \in Milestone
    BY DEF Relies, MilestoneOps, ContractOps, ReviewOps
<1>2. q.pc = "saved" /\ q.seen = "SUBMITTED" => Submitted(q.id)'
    BY <1>1 DEF Relies, Onward, Submitted
<1>3. q.pc # "idle" /\ q.op = "review" => contracts'[ReviewedContract[q.id]] # "ACTIVE"
    BY WorkConstants DEF Relies, Onward, MilestoneOps, ContractOps, ReviewOps
<1>4. q.pc = "notify" => Tells(<<NoticeOf(q.op), q.id>>)'
    BY TellsStays DEF Relies
<1>5. QED  BY <1>2, <1>3, <1>4 DEF Relies

LEMMA CommitStep ==
    ASSUME WorkInv, NEW r \in Request, Commit(r), NEW q, q = reqs[r]
    PROVE  TablesMove /\ Outcomes(r, q)
<1>1. CASE \/ CreateMilestoneCommit(r) \/ EditMilestoneCommit(r) \/ DeleteMilestoneCommit(r)
           \/ \E op \in {"submit", "approve", "reject"} : MilestoneStatusCommit(r, op)
           \/ DeliverSave(r) \/ DeliverSubmit(r)
    BY <1>1, MilestoneCommits
<1>2. CASE \/ \E op \in {"complete", "cancel"} : EndCommit(r, op)
           \/ DeleteContractCommit(r) \/ CreateReviewCommit(r) \/ DeleteReviewCommit(r)
    BY <1>2, OtherCommits
<1>3. QED  BY <1>1, <1>2 DEF Commit

\* A check starts a request whose id is of the kind that its operation takes.
Starts(r, op, id) ==
    /\ Checked(r, op, id)
    /\ \/ op \in MilestoneOps /\ id \in Milestone
       \/ op \in ContractOps /\ id \in Contract
       \/ op \in ReviewOps /\ id \in Review
    /\ op = "review" => contracts[ReviewedContract[id]] = "COMPLETED"

LEMMA StepCases ==
    ASSUME [Next]_vars
    PROVE  \/ UNCHANGED vars
           \/ \E r \in Request : \/ \E op, id : Starts(r, op, id)
                                 \/ Commit(r) \/ Emit(r) \/ Die(r)
<1>1. ASSUME NEW r \in Request, NEW role \in Role, NEW m \in Milestone, MilestoneCheck(r, role, m)
      PROVE  \E op, id : Starts(r, op, id)
    BY <1>1 DEF MilestoneCheck, CreateMilestoneCheck, EditMilestoneCheck, DeleteMilestoneCheck,
                DeliverCheck, MilestoneStatusCheck, Starts, MilestoneOps
<1>2. ASSUME NEW r \in Request, NEW role \in Role, NEW c \in Contract, ContractCheck(r, role, c)
      PROVE  \E op, id : Starts(r, op, id)
    BY <1>2 DEF ContractCheck, CompleteCheck, CancelCheck, DeleteContractCheck, Starts, ContractOps
<1>3. ASSUME NEW r \in Request, NEW role \in Role, NEW v \in Review, ReviewCheck(r, role, v)
      PROVE  \E op, id : Starts(r, op, id)
    BY <1>3 DEF ReviewCheck, CreateReviewCheck, DeleteReviewCheck, Starts, ReviewOps
<1>4. QED  BY <1>1, <1>2, <1>3 DEF Next

\* Of a step: how the tables, the notices and the requests go on.
LEMMA Step ==
    ASSUME WorkInv, [Next]_vars
    PROVE  /\ TablesMove
           /\ lost' \in 0..MaxLost
           /\ \A n \in notices' : \/ n \in notices
                                  \/ /\ Tells(n)'
                                     /\ n \in NoticeType \X (Contract \cup Milestone \cup Review)
           /\ \/ reqs' = reqs
              \/ \E r \in Request, q \in Handling : reqs' = [reqs EXCEPT ![r] = q] /\ Relies(q)'
<1> DEFINE NewNotice(n) == Tells(n)' /\ n \in NoticeType \X (Contract \cup Milestone \cup Review)
           Becomes(r) == \E q \in Handling : reqs' = [reqs EXCEPT ![r] = q] /\ Relies(q)'
           Good == /\ TablesMove
                   /\ lost' \in 0..MaxLost
                   /\ \A n \in notices' : n \in notices \/ NewNotice(n)
                   /\ reqs' = reqs \/ \E r \in Request : Becomes(r)
<1>0. lost \in 0..MaxLost /\ MaxLost \in Nat
    BY WorkConstants DEF WorkInv, TypeOK
<1>1. CASE UNCHANGED vars
    BY <1>0, <1>1 DEF vars, tables, TablesMove
<1>2. ASSUME TablesMove  PROVE Onward
    BY <1>2, MoveKeeps, Types DEF WorkInv
<1>3. ASSUME NEW r \in Request, reqs' = [reqs EXCEPT ![r] = IdleReq]  PROVE Becomes(r)
  <2>1. Relies(IdleReq)'
      BY DEF IdleReq, Relies
  <2>2. QED  BY <1>3, <2>1, IdleFacts
<1>4. ASSUME NEW r \in Request, NEW op, NEW id, Starts(r, op, id)  PROVE Good
  <2> DEFINE q == [IdleReq EXCEPT !.pc = "checked", !.op = op, !.id = id]
  <2>1. reqs' = [reqs EXCEPT ![r] = q] /\ UNCHANGED <<tables, notices, lost>>
      BY <1>4 DEF Starts, Checked
  <2>2. q \in Handling
      BY <1>4 DEF Starts, Handling, IdleReq, Ops, MilestoneOps, ContractOps, ReviewOps
  <2>3. Relies(q)'
      BY <1>4, <2>1 DEF Starts, Relies, IdleReq, tables
  <2> HIDE DEF q
  <2>4. Becomes(r)
      BY <2>1, <2>2, <2>3
  <2>5. QED  BY <1>0, <2>1, <2>4 DEF TablesMove
<1>5. ASSUME NEW r \in Request, Commit(r)  PROVE Good
  <2>1. PICK q \in Handling : q = reqs[r] /\ Relies(q)
      BY ReqFacts
  <2>2. TablesMove /\ Outcomes(r, q)
      BY <1>5, <2>1, CommitStep
  <2>3. Onward /\ Relies(q)'
      BY <1>2, <2>1, <2>2, ReliesStays
  <2>4. CASE Done(r)
      BY <1>0, <1>3, <2>2, <2>4 DEF Done
  <2>5. CASE ToNotify(r) /\ q.op \in Telling /\ Tells(<<NoticeOf(q.op), q.id>>)'
    <3> DEFINE new == [q EXCEPT !.pc = "notify"]
    <3>1. reqs' = [reqs EXCEPT ![r] = new] /\ UNCHANGED <<notices, lost>>
        BY <2>1, <2>5 DEF ToNotify
    <3>2. q.pc # "idle"
        BY <1>5, <2>1 DEF Commit, Running, CreateMilestoneCommit, EditMilestoneCommit,
               DeleteMilestoneCommit, MilestoneStatusCommit, DeliverSave, DeliverSubmit, EndCommit,
               DeleteContractCommit, CreateReviewCommit, DeleteReviewCommit
    <3>3. /\ new \in Handling /\ new.pc = "notify" /\ new.op = q.op
          /\ new.id = q.id
        BY DEF Handling
    <3> HIDE DEF new
    <3>4. Relies(new)'
        BY <2>3, <2>5, <3>2, <3>3 DEF Relies
    <3>5. QED  BY <1>0, <2>2, <3>1, <3>3, <3>4
  <2>6. ASSUME q.op = "deliver", UNCHANGED <<notices, lost>>, NEW seen \in MilestoneStatus,
               reqs' = [reqs EXCEPT ![r].pc = "saved", ![r].seen = seen],
               seen = "SUBMITTED" => Submitted(q.id)'
        PROVE  Good
    <3> DEFINE new == [q EXCEPT !.pc = "saved", !.seen = seen]
    <3>1. reqs' = [reqs EXCEPT ![r] = new]
        BY <2>1, <2>6 DEF WorkInv, TypeOK
    <3>2. q.pc # "idle"
        BY <1>5, <2>1 DEF Commit, Running, CreateMilestoneCommit, EditMilestoneCommit,
               DeleteMilestoneCommit, MilestoneStatusCommit, DeliverSave, DeliverSubmit, EndCommit,
               DeleteContractCommit, CreateReviewCommit, DeleteReviewCommit
    <3>3. /\ new \in Handling /\ new.pc = "saved" /\ new.op = q.op
          /\ new.id = q.id /\ new.seen = seen
        BY DEF Handling
    <3> HIDE DEF new
    <3>4. Relies(new)'
        BY <2>3, <2>6, <3>2, <3>3 DEF Relies
    <3>5. QED  BY <1>0, <2>2, <2>6, <3>1, <3>3, <3>4
  <2>7. QED  BY <2>2, <2>4, <2>5, <2>6 DEF Outcomes
<1>6. ASSUME NEW r \in Request, Emit(r)  PROVE Good
  <2>1. PICK q \in Handling : q = reqs[r] /\ Relies(q)
      BY ReqFacts
  <2>2. /\ q.pc = "notify" /\ UNCHANGED <<tables, lost>>
        /\ notices' = notices \cup {<<NoticeOf(q.op), q.id>>}
        /\ reqs' = [reqs EXCEPT ![r] = IdleReq]
      BY <1>6, <2>1 DEF Emit
  <2>3. TablesMove
      BY <2>2 DEF TablesMove
  <2>4. Tells(<<NoticeOf(q.op), q.id>>)'
      BY <1>2, <2>1, <2>2, <2>3, TellsStays DEF Relies
  <2>5. NoticeOf(q.op) \in NoticeType
      BY <2>1, <2>2, NoticeNames DEF Relies, Telling, NoticeType
  <2>6. q.id \in Contract \cup Milestone \cup Review
      BY <2>1, <2>2 DEF Relies
  <2>7. <<NoticeOf(q.op), q.id>> \in NoticeType \X (Contract \cup Milestone \cup Review)
      BY <2>5, <2>6
  <2>8. \A n \in notices' : n \in notices \/ n = <<NoticeOf(q.op), q.id>>
      BY <2>2
  <2>9. PICK told : told = <<NoticeOf(q.op), q.id>>
      OBVIOUS
  <2>10. NewNotice(told)
      BY <2>4, <2>7, <2>9
  <2> HIDE DEF NewNotice
  <2>11. \A n \in notices' : n \in notices \/ NewNotice(n)
      BY <2>8, <2>9, <2>10
  <2>12. QED  BY <1>0, <1>3, <2>2, <2>3, <2>11
<1>7. ASSUME NEW r \in Request, Die(r)  PROVE Good
  <2>1. /\ UNCHANGED <<tables, notices>> /\ reqs' = [reqs EXCEPT ![r] = IdleReq]
        /\ lost' \in 0..MaxLost
      BY <1>0, <1>7 DEF Die
  <2>2. QED  BY <1>3, <2>1 DEF TablesMove
<1>8. Good
    BY <1>1, <1>4, <1>5, <1>6, <1>7, StepCases DEF vars
<1>9. QED  BY <1>8

-----------------------------------------------------------------------------
\* The invariant: what handlers rely on, true notices, and tables in order.
THEOREM WorkConsistent == Spec => []WorkInv
<1>1. Init => WorkInv
  <2> SUFFICES ASSUME Init  PROVE WorkInv
      OBVIOUS
  <2>1. TypeOK
    <3>1. [NewMilestone EXCEPT !.status = "NONE"] \in MilestoneRow
        BY DEF NewMilestone, MilestoneRow, Absent
    <3>2. TablesTyped
        BY <3>1 DEF Init, TablesTyped, ContractStatus
    <3>3. QED  BY <3>2, IdleFacts, WorkConstants, Types DEF Init
  <2>2. ReqsRely /\ NoticesTell
      BY IdleFacts DEF Init, ReqsRely, NoticesTell
  <2>3. WorkIsGrounded /\ OneReviewEach
      BY DEF Init, WorkIsGrounded, OneReviewEach, ExistsMilestone, MilestoneStatus, NewMilestone,
             ExistsReview
  <2>4. QED  BY <2>1, <2>2, <2>3 DEF WorkInv
<1>2. WorkInv /\ [Next]_vars => WorkInv'
  <2> SUFFICES ASSUME WorkInv, [Next]_vars  PROVE WorkInv'
      OBVIOUS
  <2>1. Onward /\ TablesTyped' /\ WorkIsGrounded' /\ OneReviewEach'
      BY Step, MoveKeeps, Types DEF WorkInv
  <2>2. NoticesTell' /\ notices' \subseteq NoticeType \X (Contract \cup Milestone \cup Review)
      BY <2>1, Step, TellsStays DEF WorkInv, NoticesTell, TypeOK
  <2>3. reqs \in [Request -> Handling] /\ \A r \in Request : Relies(reqs[r])
      BY Types DEF WorkInv, ReqsRely
  <2>4. ASSUME reqs' \in [Request -> Handling], ReqsRely'  PROVE WorkInv'
    <3>1. TypeOK'
        BY <2>1, <2>2, <2>4, Step DEF TypeOK, TablesTyped, Handling
    <3>2. QED  BY <2>1, <2>2, <2>4, <3>1 DEF WorkInv
  <2>5. CASE reqs' = reqs
    <3>1. ASSUME NEW r \in Request  PROVE Relies(reqs[r])'
      <4>1. PICK q : q = reqs[r]
          OBVIOUS
      <4>2. Relies(q)'
          BY <2>1, <2>3, <4>1, ReliesStays
      <4>3. PICK now : now = reqs'[r]
          OBVIOUS
      <4>4. Relies(now)'
          BY <2>5, <4>1, <4>2, <4>3
      <4>5. QED  BY <4>3, <4>4
    <3>2. ReqsRely'
        BY <3>1 DEF ReqsRely
    <3>3. reqs' \in [Request -> Handling]
        BY <2>5, Types DEF WorkInv
    <3>4. QED  BY <2>4, <3>2, <3>3
  <2>6. ASSUME NEW r \in Request, NEW q \in Handling,
               reqs' = [reqs EXCEPT ![r] = q], Relies(q)'
        PROVE  WorkInv'
    <3>1. reqs' \in [Request -> Handling]
        BY <2>3, <2>6
    <3>2. ASSUME NEW t \in Request  PROVE Relies(reqs[t])'
      <4>1. PICK old : old = reqs[t]
          OBVIOUS
      <4>2. Relies(old)'
          BY <2>1, <2>3, <4>1, ReliesStays
      <4>3. PICK now : now = reqs'[t]
          OBVIOUS
      <4>4. now = q \/ now = old
          BY <2>3, <2>6, <4>1, <4>3
      <4>5. Relies(now)'
          BY <2>6, <4>2, <4>4
      <4>6. QED  BY <4>3, <4>5
    <3>3. ReqsRely'
        BY <3>2 DEF ReqsRely
    <3>4. QED  BY <2>4, <3>1, <3>3
  <2>7. QED  BY <2>5, <2>6, Step
<1>3. QED  BY <1>1, <1>2, PTL DEF Spec

\* Every variable keeps its type, for any number of contracts, milestones and handlers.
THEOREM WorkTyped == Spec => []TypeOK
<1>1. WorkInv => TypeOK
    BY DEF WorkInv
<1>2. QED  BY <1>1, WorkConsistent, PTL

\* A milestone or a review never outlives its contract, whichever insertion races with the
\* deletion of the contract.
THEOREM WorkStaysGrounded == Spec => []WorkIsGrounded
<1>1. WorkInv => WorkIsGrounded
    BY DEF WorkInv
<1>2. QED  BY <1>1, WorkConsistent, PTL

\* However often a review is posted at once, a participant has one of a contract, which
\* has ended.
THEOREM NoSecondReview == Spec => []OneReviewEach
<1>1. WorkInv => OneReviewEach
    BY DEF WorkInv
<1>2. QED  BY <1>1, WorkConsistent, PTL

\* A notice is emitted only for what has been committed.
THEOREM WorkNoticesAreTrue == Spec => []NoticesAreTrue
<1>1. WorkInv => NoticesAreTrue
    BY DEF WorkInv, NoticesTell, Tells, Submitted, NoticesAreTrue
<1>2. QED  BY <1>1, WorkConsistent, PTL

\* Submitted work is never unsubmitted and an ended contract never active again, however
\* stale the checks of the handlers are.
THEOREM WorkMovesOn == Spec => WorkIsNotUndone
<1> DEFINE Stays ==
       /\ \A m \in Milestone :
             milestones[m].status \notin {"NONE", "PENDING"}
             => milestones'[m].status \notin {"NONE", "PENDING"}
       /\ \A c \in Contract : contracts[c] # "ACTIVE" => contracts'[c] # "ACTIVE"
<1>1. WorkInv /\ [Next]_vars => [Stays]_vars
    BY Step, MoveKeeps, Types DEF WorkInv, Onward
<1> HIDE DEF Stays
<1>2. Spec => [][Stays]_vars
    BY <1>1, WorkConsistent, PTL DEF Spec
<1>3. QED  BY <1>2 DEF WorkIsNotUndone, Stays

-----------------------------------------------------------------------------
(* What the checks are worth when handlers that work on one contract do    *)
(* not overlap between check and commit, as if each locked the row of the  *)
(* contract: what a check has found is still so at the commit.             *)

\* The contract that an id of an operation belongs to.
ContractFor(op, id) ==
    IF op \in MilestoneOps THEN ContractOf[id]
    ELSE IF op \in ReviewOps THEN ReviewedContract[id] ELSE id

\* Handler r is between the check and the last commit of work under contract c.
Holds(r, c) == reqs[r].pc \in {"checked", "saved"} /\ ContractFor(reqs[r].op, reqs[r].id) = c
ContractsLocked ==
    \A c \in Contract : \A r, s \in Request : Holds(r, c) /\ Holds(s, c) => r = s

\* What the handler that q is has found, and still holds until its last commit.
Found(q) ==
    /\ q.pc = "checked" /\ q.op = "create" => contracts[ContractOf[q.id]] = "ACTIVE"
    /\ q.pc = "checked" /\ q.op \in {"submit", "deliver"} =>
          milestones[q.id].status \in {"PENDING", "REJECTED"}
    /\ q.pc = "saved" => /\ q.id \in Milestone /\ milestones[q.id].status = q.seen
                        /\ q.seen \in {"PENDING", "REJECTED"}
    /\ q.pc = "checked" /\ q.op \in {"approve", "reject"} =>
          milestones[q.id].status = "SUBMITTED"
    /\ q.pc = "checked" /\ q.op \in {"edit", "deleteMilestone"} =>
          milestones[q.id].status = "PENDING"
    /\ q.pc = "checked" /\ q.op = "complete" => contracts[q.id] = "ACTIVE" /\ AllApproved(q.id)
    /\ q.pc = "checked" /\ q.op = "cancel" => contracts[q.id] = "ACTIVE" /\ ~AnyApproved(q.id)
    /\ q.pc = "checked" /\ q.op = "deleteContract" => contracts[q.id] = "CANCELLED"
    /\ q.pc = "checked" /\ q.op = "review" => contracts[ReviewedContract[q.id]] = "COMPLETED"

\* A contract with a review is completed.
ReviewedIsCompleted ==
    \A v \in Review : reviews[v] = "POSTED" => contracts[ReviewedContract[v]] = "COMPLETED"

LockedInv ==
    CompletedIsDone /\ ReviewedIsCompleted /\ \A r \in Request : Found(reqs[r])

\* What may be written over a milestone.
Succeeds(m, row) ==
    LET old == milestones[m] IN
    \/ old.status = "NONE" /\ row.status = "PENDING" /\ contracts[ContractOf[m]] = "ACTIVE"
    \/ /\ row.terms = old.terms
       /\ \/ row.status = old.status
          \/ old.status \in {"PENDING", "REJECTED"} /\ row.status = "SUBMITTED"
          \/ old.status = "SUBMITTED" /\ row.status \in {"APPROVED", "REJECTED"}
    \/ old.status = "PENDING" /\ row.status \in {"PENDING", "DELETED"}

\* What a commit does to the tables when what the handler has found still holds.
MovesLocked ==
    \/ UNCHANGED tables
    \/ /\ UNCHANGED <<contracts, reviews>>
       /\ \E m \in Milestone, row \in MilestoneRow :
             milestones' = [milestones EXCEPT ![m] = row] /\ Succeeds(m, row)
    \/ /\ UNCHANGED <<milestones, reviews>>
       /\ \E c \in Contract :
             /\ contracts[c] = "ACTIVE"
             /\ \/ contracts' = [contracts EXCEPT ![c] = "COMPLETED"] /\ AllApproved(c)
                \/ contracts' = [contracts EXCEPT ![c] = "CANCELLED"] /\ ~AnyApproved(c)
    \/ \E c \in Contract : contracts[c] = "CANCELLED" /\ DeletesContract(c)
    \/ /\ UNCHANGED <<contracts, milestones>>
       /\ \E v \in Review :
             \/ /\ reviews' = [reviews EXCEPT ![v] = "POSTED"]
                /\ contracts[ReviewedContract[v]] = "COMPLETED"
             \/ reviews' = [reviews EXCEPT ![v] = "DELETED"]

LEMMA MilestoneLocked ==
    ASSUME WorkInv, NEW r \in Request, NEW q, q = reqs[r], Found(q),
           \/ CreateMilestoneCommit(r) \/ EditMilestoneCommit(r) \/ DeleteMilestoneCommit(r)
           \/ \E op \in {"submit", "approve", "reject"} : MilestoneStatusCommit(r, op)
           \/ DeliverSave(r) \/ DeliverSubmit(r)
    PROVE  MovesLocked
<1>1. q.id \in Milestone
    BY ReqFacts DEF CreateMilestoneCommit, EditMilestoneCommit, DeleteMilestoneCommit,
                    MilestoneStatusCommit, DeliverSave, DeliverSubmit, Running, MilestoneOps
<1>2. PICK m \in Milestone : m = q.id
    BY <1>1
<1>3. PICK old \in MilestoneRow : old = milestones[m]
    BY DEF WorkInv, TypeOK
<1>4. milestones \in [Milestone -> MilestoneRow]
    BY DEF WorkInv, TypeOK
<1>5. ASSUME NEW row \in MilestoneRow, milestones' = [milestones EXCEPT ![m] = row],
             UNCHANGED <<contracts, reviews>>, Succeeds(m, row)
      PROVE  MovesLocked
    BY <1>5 DEF MovesLocked
<1>6. ASSUME UNCHANGED <<milestones, contracts, reviews>>  PROVE MovesLocked
    BY <1>6 DEF MovesLocked, tables
<1>7. CASE CreateMilestoneCommit(r)
  <2>1. NewMilestone \in MilestoneRow /\ NewMilestone.status = "PENDING"
      BY DEF NewMilestone, MilestoneRow, MilestoneStatus
  <2>2. contracts[ContractOf[m]] = "ACTIVE" /\ UNCHANGED <<contracts, reviews>>
      BY <1>2, <1>7 DEF CreateMilestoneCommit, Running, Found
  <2>3. \/ old.status = "NONE" /\ milestones' = [milestones EXCEPT ![m] = NewMilestone]
        \/ UNCHANGED milestones
      BY <1>2, <1>3, <1>7 DEF CreateMilestoneCommit
  <2>4. old.status = "NONE" => Succeeds(m, NewMilestone)
      BY <1>3, <2>1, <2>2 DEF Succeeds
  <2>5. QED  BY <1>5, <1>6, <2>1, <2>2, <2>3, <2>4
<1>8. CASE EditMilestoneCommit(r)
  <2> DEFINE row == [old EXCEPT !.terms = 1 - @]
  <2>1. row \in MilestoneRow /\ row.status = old.status
      BY DEF MilestoneRow
  <2>2. old.status = "PENDING" /\ UNCHANGED <<contracts, reviews>>
      BY <1>2, <1>3, <1>8 DEF EditMilestoneCommit, Running, Found
  <2>3. milestones' = [milestones EXCEPT ![m] = row]
      BY <1>2, <1>3, <1>4, <1>8, <2>2
      DEF EditMilestoneCommit, ExistsMilestone, MilestoneStatus, MilestoneRow
  <2> HIDE DEF row
  <2>4. Succeeds(m, row)
      BY <1>3, <2>1, <2>2 DEF Succeeds
  <2>5. QED  BY <1>5, <2>1, <2>2, <2>3, <2>4
<1>9. CASE DeleteMilestoneCommit(r)
  <2> DEFINE row == [old EXCEPT !.status = "DELETED"]
  <2>1. row \in MilestoneRow /\ row.status = "DELETED"
      BY DEF MilestoneRow, Absent
  <2>2. old.status = "PENDING" /\ UNCHANGED <<contracts, reviews>>
      BY <1>2, <1>3, <1>9 DEF DeleteMilestoneCommit, Running, Found
  <2>3. milestones' = [milestones EXCEPT ![m] = row]
      BY <1>2, <1>3, <1>4, <1>9, <2>2 DEF DeleteMilestoneCommit, Removed, Absent
  <2> HIDE DEF row
  <2>4. Succeeds(m, row)
      BY <1>3, <2>1, <2>2 DEF Succeeds
  <2>5. QED  BY <1>5, <2>1, <2>2, <2>3, <2>4
<1>10. ASSUME NEW status \in {"SUBMITTED", "APPROVED", "REJECTED"},
              SetMilestone(r, m, [old EXCEPT !.status = status]),
              \/ old.status \in {"PENDING", "REJECTED"} /\ status = "SUBMITTED"
              \/ old.status = "SUBMITTED" /\ status \in {"APPROVED", "REJECTED"}
       PROVE  MovesLocked
  <2> DEFINE row == [old EXCEPT !.status = status]
  <2>1. row \in MilestoneRow /\ row.status = status /\ row.terms = old.terms
      BY DEF MilestoneRow, MilestoneStatus
  <2>2. ExistsMilestone(m)
      BY <1>3, <1>10 DEF ExistsMilestone, MilestoneStatus
  <2>3. milestones' = [milestones EXCEPT ![m] = row] /\ UNCHANGED <<contracts, reviews>>
      BY <1>10, <2>2 DEF SetMilestone
  <2> HIDE DEF row
  <2>4. Succeeds(m, row)
      BY <1>3, <1>10, <2>1 DEF Succeeds
  <2>5. QED  BY <1>5, <2>1, <2>3, <2>4
<1>11. ASSUME NEW op \in {"submit", "approve", "reject"}, MilestoneStatusCommit(r, op)
       PROVE  MovesLocked
  <2>1. SetMilestone(r, m, [old EXCEPT !.status = NewStatus(op)])
      BY <1>2, <1>3, <1>11 DEF MilestoneStatusCommit
  <2>2. /\ op = "submit" => old.status \in {"PENDING", "REJECTED"}
        /\ op \in {"approve", "reject"} => old.status = "SUBMITTED"
      BY <1>2, <1>3, <1>11 DEF MilestoneStatusCommit, Running, Found
  <2>3. QED  BY <1>10, <2>1, <2>2, NewStatuses
<1>12. CASE DeliverSave(r)
  <2> DEFINE row == [old EXCEPT !.deliverable = TRUE]
  <2>1. row \in MilestoneRow /\ row.status = old.status /\ row.terms = old.terms
      BY DEF MilestoneRow
  <2>2. old.status \in {"PENDING", "REJECTED"}
      BY <1>2, <1>3, <1>12 DEF DeliverSave, Running, Found
  <2>3. ExistsMilestone(m)
      BY <1>3, <2>2 DEF ExistsMilestone, MilestoneStatus
  <2>4. milestones' = [milestones EXCEPT ![m] = row] /\ UNCHANGED <<contracts, reviews>>
      BY <1>2, <1>3, <1>4, <1>12, <2>3 DEF DeliverSave, MilestoneRow
  <2> HIDE DEF row
  <2>5. Succeeds(m, row)
      BY <1>3, <2>1 DEF Succeeds
  <2>6. QED  BY <1>5, <2>1, <2>4, <2>5
<1>13. CASE DeliverSubmit(r)
  <2>1. q.seen # "SUBMITTED" /\ old.status \in {"PENDING", "REJECTED"}
      BY <1>2, <1>3, <1>13 DEF DeliverSubmit, Running, Found
  <2>2. SetMilestone(r, m, [old EXCEPT !.status = "SUBMITTED"])
      BY <1>2, <1>3, <1>13, <2>1 DEF DeliverSubmit
  <2>3. QED  BY <1>10, <2>1, <2>2
<1>14. QED  BY <1>7, <1>8, <1>9, <1>11, <1>12, <1>13

LEMMA CommitLocked ==
    ASSUME WorkInv, NEW r \in Request, Found(reqs[r]), Commit(r)
    PROVE  MovesLocked
<1>1. PICK q \in Handling : q = reqs[r] /\ Found(q) /\ Relies(q)
    BY ReqFacts
<1>2. CASE \/ CreateMilestoneCommit(r) \/ EditMilestoneCommit(r) \/ DeleteMilestoneCommit(r)
           \/ \E op \in {"submit", "approve", "reject"} : MilestoneStatusCommit(r, op)
           \/ DeliverSave(r) \/ DeliverSubmit(r)
    BY <1>1, <1>2, MilestoneLocked
<1>3. ASSUME NEW op \in {"complete", "cancel"}, EndCommit(r, op)  PROVE MovesLocked
  <2>1. q.pc = "checked" /\ q.op = op
      BY <1>1, <1>3 DEF EndCommit, Running
  <2>2. PICK c \in Contract : c = q.id
      BY <1>1, <2>1, ReqFacts DEF ContractOps
  <2>3. /\ contracts[c] = "ACTIVE"
        /\ op = "complete" => AllApproved(c)
        /\ op = "cancel" => ~AnyApproved(c)
      BY <1>1, <2>1, <2>2 DEF Found
  <2>4. /\ contracts' = [contracts EXCEPT ![c] = EndStatus(op)]
        /\ UNCHANGED <<milestones, reviews>>
      BY <1>1, <1>3, <2>2, <2>3 DEF EndCommit, ExistsContract, ContractStatus
  <2>5. QED  BY <2>2, <2>3, <2>4 DEF MovesLocked, EndStatus
<1>4. CASE DeleteContractCommit(r)
  <2>1. q.pc = "checked" /\ q.op = "deleteContract"
      BY <1>1, <1>4 DEF DeleteContractCommit, Running
  <2>2. PICK c \in Contract : c = q.id
      BY <1>1, <2>1, ReqFacts DEF ContractOps
  <2>3. contracts[c] = "CANCELLED"
      BY <1>1, <2>1, <2>2 DEF Found
  <2>4. DeletesContract(c)
      BY <1>1, <1>4, <2>2 DEF DeleteContractCommit, DeletesContract
  <2>5. QED  BY <2>3, <2>4 DEF MovesLocked
<1>5. CASE CreateReviewCommit(r)
  <2>1. q.pc = "checked" /\ q.op = "review"
      BY <1>1, <1>5 DEF CreateReviewCommit, Running
  <2>2. PICK v \in Review : v = q.id
      BY <1>1, <2>1, ReqFacts DEF ReviewOps
  <2>3. contracts[ReviewedContract[v]] = "COMPLETED"
      BY <1>1, <2>1, <2>2 DEF Found
  <2>4. \/ /\ reviews' = [reviews EXCEPT ![v] = "POSTED"]
           /\ UNCHANGED <<contracts, milestones>>
        \/ UNCHANGED tables
      BY <1>1, <1>5, <2>2 DEF CreateReviewCommit, RolledBack
  <2>5. QED  BY <2>3, <2>4 DEF MovesLocked
<1>6. CASE DeleteReviewCommit(r)
  <2>1. q.pc = "checked" /\ q.op = "deleteReview"
      BY <1>1, <1>6 DEF DeleteReviewCommit, Running
  <2>2. PICK v \in Review : v = q.id
      BY <1>1, <2>1, ReqFacts DEF ReviewOps
  <2>3. /\ reviews' = [reviews EXCEPT ![v] = "DELETED"]
        /\ UNCHANGED <<contracts, milestones>>
      BY <1>1, <1>6, <2>2 DEF DeleteReviewCommit
  <2>4. QED  BY <2>3 DEF MovesLocked
<1>7. QED  BY <1>2, <1>3, <1>4, <1>5, <1>6 DEF Commit

\* What the record of a request is once its check has passed.
Passed(op, id) == [IdleReq EXCEPT !.pc = "checked", !.op = op, !.id = id]

\* A check establishes what Found says of its operation.
LEMMA CheckFinds ==
    ASSUME NEW r \in Request, NEW role \in Role,
           \/ \E m \in Milestone : MilestoneCheck(r, role, m)
           \/ \E c \in Contract : ContractCheck(r, role, c)
           \/ \E v \in Review : ReviewCheck(r, role, v)
    PROVE  \E op, id : Checked(r, op, id) /\ Found(Passed(op, id))
<1>1. ASSUME NEW op, NEW id
      PROVE  Passed(op, id).pc = "checked" /\ Passed(op, id).op = op /\ Passed(op, id).id = id
    BY DEF Passed, IdleReq
<1> DEFINE Finds(op, id) == Checked(r, op, id) /\ Found(Passed(op, id))
<1>2. ASSUME NEW m \in Milestone, MilestoneCheck(r, role, m)  PROVE \E op, id : Finds(op, id)
  <2>1. CASE CreateMilestoneCheck(r, role, m)
    <3>1. Finds("create", m)
        BY <1>1, <2>1 DEF CreateMilestoneCheck, Found
    <3>2. QED  BY <3>1
  <2>2. CASE EditMilestoneCheck(r, role, m)
    <3>1. Finds("edit", m)
        BY <1>1, <2>2 DEF EditMilestoneCheck, Found
    <3>2. QED  BY <3>1
  <2>3. CASE DeleteMilestoneCheck(r, role, m)
    <3>1. Finds("deleteMilestone", m)
        BY <1>1, <2>3 DEF DeleteMilestoneCheck, Found
    <3>2. QED  BY <3>1
  <2>4. CASE DeliverCheck(r, role, m)
    <3>1. Finds("deliver", m)
        BY <1>1, <2>4 DEF DeliverCheck, Found
    <3>2. QED  BY <3>1
  <2>5. ASSUME NEW op \in {"submit", "approve", "reject"}, MilestoneStatusCheck(r, role, op, m)
        PROVE  \E o, id : Finds(o, id)
    <3>1. /\ op = "submit" => milestones[m].status \in {"PENDING", "REJECTED"}
          /\ op \in {"approve", "reject"} => milestones[m].status = "SUBMITTED"
        BY <2>5 DEF MilestoneStatusCheck, Transitions
    <3>2. Finds(op, m)
        BY <1>1, <2>5, <3>1 DEF MilestoneStatusCheck, Found
    <3>3. QED  BY <3>2
  <2>6. QED  BY <1>2, <2>1, <2>2, <2>3, <2>4, <2>5 DEF MilestoneCheck
<1>3. ASSUME NEW c \in Contract, ContractCheck(r, role, c)  PROVE \E op, id : Finds(op, id)
  <2>1. \/ Finds("complete", c) \/ Finds("cancel", c) \/ Finds("deleteContract", c)
      BY <1>1, <1>3 DEF ContractCheck, CompleteCheck, CancelCheck, DeleteContractCheck, Found
  <2>2. QED  BY <2>1
<1>4. ASSUME NEW v \in Review, ReviewCheck(r, role, v)  PROVE \E op, id : Finds(op, id)
  <2>1. Finds("review", v) \/ Finds("deleteReview", v)
      BY <1>1, <1>4 DEF ReviewCheck, CreateReviewCheck, DeleteReviewCheck, Found
  <2>2. QED  BY <2>1
<1>5. QED  BY <1>2, <1>3, <1>4

\* What was found is so as long as the tables stay.
LEMMA FoundStays ==
    ASSUME UNCHANGED tables, NEW q, Found(q)
    PROVE  Found(q)'
    BY DEF tables, Found, AllApproved, AllApprovedOrNone, AnyApproved, MilestonesOf, ExistsMilestone

LEMMA RestFound ==
    ASSUME NEW q, q.pc \in {"idle", "notify"}
    PROVE  Found(q)
    BY DEF Found

\* Only submit_deliverable goes on to another commit, and it has seen the row as it is.
LEMMA CommitFound ==
    ASSUME WorkInv, NEW r \in Request, Found(reqs[r]), Commit(r)
    PROVE  Found(reqs[r])'
<1>1. PICK q \in Handling : q = reqs[r] /\ Found(q) /\ Relies(q)
    BY ReqFacts
<1>2. reqs \in [Request -> Handling]
    BY Types DEF WorkInv
<1>3. ASSUME NEW now, now = reqs'[r], now.pc \in {"idle", "notify"}  PROVE Found(now)'
    BY <1>3, RestFound DEF Found
<1>4. PICK now : now = reqs'[r]
    OBVIOUS
<1>5. CASE Done(r) \/ ToNotify(r)
  <2>1. now.pc \in {"idle", "notify"}
      BY <1>2, <1>4, <1>5 DEF Done, ToNotify, IdleReq, Handling
  <2>2. QED  BY <1>3, <1>4, <2>1
<1>6. CASE DeliverSave(r) /\ ~Done(r)
  <2>1. q.pc = "checked" /\ q.op = "deliver"
      BY <1>1, <1>6 DEF DeliverSave, Running
  <2>2. PICK m \in Milestone : m = q.id
      BY <1>1, <2>1, ReqFacts DEF MilestoneOps
  <2>3. PICK old \in MilestoneRow : old = milestones[m]
      BY DEF WorkInv, TypeOK
  <2>4. old.status \in {"PENDING", "REJECTED"}
      BY <1>1, <2>1, <2>2, <2>3 DEF Found
  <2>5. /\ milestones' = [milestones EXCEPT ![m].deliverable = TRUE]
        /\ reqs' = [reqs EXCEPT ![r].pc = "saved", ![r].seen = old.status]
      BY <1>1, <1>6, <2>2, <2>3 DEF DeliverSave, RolledBack
  <2>6. milestones'[m].status = old.status
      BY <2>3, <2>5 DEF WorkInv, TypeOK, MilestoneRow
  <2>7. now.pc = "saved" /\ now.id = m /\ now.seen = old.status /\ now.op = "deliver"
      BY <1>1, <1>2, <1>4, <2>1, <2>2, <2>5 DEF Handling
  <2>8. Found(now)'
      BY <2>4, <2>6, <2>7 DEF Found
  <2>9. QED  BY <1>4, <2>8
<1>7. Done(r) \/ ToNotify(r) \/ DeliverSave(r)
    BY DEF Commit, CreateMilestoneCommit, EditMilestoneCommit, DeleteMilestoneCommit,
           MilestoneStatusCommit, DeliverSubmit, SetMilestone, EndCommit, DeleteContractCommit,
           CreateReviewCommit, DeleteReviewCommit, RolledBack
<1>8. QED  BY <1>5, <1>6, <1>7

-----------------------------------------------------------------------------
(* What the moves of handlers keep when what these have found still holds. *)

TermsStay ==
    \A m \in Milestone :
        /\ milestones[m].terms # milestones'[m].terms => milestones[m].status \in {"NONE", "PENDING"}
        /\ milestones[m].status \in {"SUBMITTED", "APPROVED", "REJECTED"}
             => milestones'[m].status # "DELETED" \/ contracts'[ContractOf[m]] = "DELETED"

EndEarned ==
    \A c \in Contract :
        /\ contracts[c] = "ACTIVE" /\ contracts'[c] = "CANCELLED" => ~AnyApproved(c)
        /\ (\E v \in Review : ReviewedContract[v] = c /\ reviews'[v] = "POSTED")
             => contracts'[c] = "COMPLETED"

LockedKept == CompletedIsDone' /\ ReviewedIsCompleted' /\ TermsStay /\ EndEarned

\* What a completed contract promises of its milestones, spelled out.
LEMMA DoneSpelled ==
    CompletedIsDone <=>
        \A c \in Contract : contracts[c] = "COMPLETED" =>
            /\ \E m \in Milestone : ContractOf[m] = c /\ ExistsMilestone(m)
            /\ \A m \in Milestone :
                  ContractOf[m] = c /\ ExistsMilestone(m) => milestones[m].status = "APPROVED"
    BY DEF CompletedIsDone, MilestonesOf

LEMMA WriteKeeps ==
    ASSUME TablesTyped, CompletedIsDone, ReviewedIsCompleted, UNCHANGED <<contracts, reviews>>,
           NEW m \in Milestone, NEW row \in MilestoneRow,
           milestones' = [milestones EXCEPT ![m] = row], Succeeds(m, row)
    PROVE  LockedKept
<1>1. PICK old \in MilestoneRow : old = milestones[m]
    BY DEF TablesTyped
<1>2. \A n \in Milestone : milestones'[n] = IF n = m THEN row ELSE milestones[n]
    BY DEF TablesTyped
<1>3. \/ old.status = "NONE" /\ row.status = "PENDING" /\ contracts[ContractOf[m]] = "ACTIVE"
      \/ /\ row.terms = old.terms
         /\ \/ row.status = old.status
            \/ old.status \in {"PENDING", "REJECTED"} /\ row.status = "SUBMITTED"
            \/ old.status = "SUBMITTED" /\ row.status \in {"APPROVED", "REJECTED"}
      \/ old.status = "PENDING" /\ row.status \in {"PENDING", "DELETED"}
    BY <1>1 DEF Succeeds
<1>4. TermsStay
    BY <1>1, <1>2, <1>3 DEF TermsStay
<1>5. ReviewedIsCompleted' /\ EndEarned
    BY DEF ReviewedIsCompleted, EndEarned
<1>6. contracts[ContractOf[m]] = "COMPLETED" => row.status = old.status
    BY <1>1, <1>3, WorkConstants, DoneSpelled DEF ExistsMilestone, MilestoneStatus
<1>7. ASSUME NEW c \in Contract, contracts'[c] = "COMPLETED"
      PROVE  /\ \E n \in Milestone : ContractOf[n] = c /\ ExistsMilestone(n)'
             /\ \A n \in Milestone :
                   ContractOf[n] = c /\ ExistsMilestone(n)' => milestones'[n].status = "APPROVED"
  <2>1. contracts[c] = "COMPLETED"
      BY <1>7
  <2>2. \A n \in Milestone : ContractOf[n] = c => milestones'[n].status = milestones[n].status
      BY <1>1, <1>2, <1>6, <2>1
  <2>3. QED  BY <2>1, <2>2, DoneSpelled DEF ExistsMilestone
<1>8. CompletedIsDone'
    BY <1>7, DoneSpelled DEF CompletedIsDone, MilestonesOf
<1>9. QED  BY <1>4, <1>5, <1>8 DEF LockedKept

LEMMA EndKeeps ==
    ASSUME TablesTyped, CompletedIsDone, ReviewedIsCompleted, UNCHANGED <<milestones, reviews>>,
           NEW c \in Contract, contracts[c] = "ACTIVE",
           \/ contracts' = [contracts EXCEPT ![c] = "COMPLETED"] /\ AllApproved(c)
           \/ contracts' = [contracts EXCEPT ![c] = "CANCELLED"] /\ ~AnyApproved(c)
    PROVE  LockedKept
<1>1. /\ \A d \in Contract : d # c => contracts'[d] = contracts[d]
      /\ \/ contracts'[c] = "COMPLETED" /\ AllApproved(c)
         \/ contracts'[c] = "CANCELLED" /\ ~AnyApproved(c)
    BY DEF TablesTyped
<1>2. TermsStay
    BY DEF TermsStay, TablesTyped, MilestoneRow
<1>3. ReviewedIsCompleted'
    BY <1>1, WorkConstants DEF ReviewedIsCompleted
<1>4. EndEarned
    BY <1>1, <1>3 DEF EndEarned, ReviewedIsCompleted
<1>5. CompletedIsDone'
    BY <1>1 DEF CompletedIsDone, AllApproved, AllApprovedOrNone, MilestonesOf, ExistsMilestone
<1>6. QED  BY <1>2, <1>3, <1>4, <1>5 DEF LockedKept

LEMMA DeleteKeeps ==
    ASSUME TablesTyped, CompletedIsDone, ReviewedIsCompleted,
           NEW c \in Contract, contracts[c] = "CANCELLED", DeletesContract(c)
    PROVE  LockedKept
<1>1. /\ contracts' = [contracts EXCEPT ![c] = "DELETED"]
      /\ milestones' = [m \in Milestone |->
             IF ContractOf[m] = c THEN Removed(milestones[m]) ELSE milestones[m]]
      /\ reviews' = [v \in Review |->
             IF ReviewedContract[v] = c /\ reviews[v] = "POSTED" THEN "DELETED" ELSE reviews[v]]
    BY DEF DeletesContract, CascadedMilestones, ExistsReview
<1>2. contracts'[c] = "DELETED" /\ \A d \in Contract : d # c => contracts'[d] = contracts[d]
    BY <1>1 DEF TablesTyped
<1>3. \A m \in Milestone : ContractOf[m] # c => milestones'[m] = milestones[m]
    BY <1>1
<1>4. ASSUME NEW m \in Milestone  PROVE milestones'[m].terms = milestones[m].terms
    BY <1>1 DEF TablesTyped, MilestoneRow, Removed
<1>5. TermsStay
    BY <1>2, <1>3, <1>4 DEF TermsStay
<1>6. ReviewedIsCompleted'
    BY <1>1, <1>2, WorkConstants DEF ReviewedIsCompleted
<1>7. EndEarned
    BY <1>2, <1>6 DEF EndEarned, ReviewedIsCompleted
<1>8. CompletedIsDone'
    BY <1>2, <1>3 DEF CompletedIsDone, MilestonesOf, ExistsMilestone
<1>9. QED  BY <1>5, <1>6, <1>7, <1>8 DEF LockedKept

LEMMA LockedKeeps ==
    ASSUME TablesTyped, CompletedIsDone, ReviewedIsCompleted, MovesLocked
    PROVE  LockedKept
<1>1. ASSUME UNCHANGED <<contracts, milestones>>, ReviewedIsCompleted'  PROVE LockedKept
  <2>1. TermsStay /\ EndEarned
      BY <1>1 DEF TermsStay, EndEarned, ReviewedIsCompleted, TablesTyped, MilestoneRow
  <2>2. CompletedIsDone'
      BY <1>1 DEF CompletedIsDone, MilestonesOf, ExistsMilestone
  <2>3. QED  BY <1>1, <2>1, <2>2 DEF LockedKept
<1>2. CASE UNCHANGED tables
  <2>1. ReviewedIsCompleted'
      BY <1>2 DEF tables, ReviewedIsCompleted
  <2>2. QED  BY <1>1, <1>2, <2>1 DEF tables
<1>3. ASSUME NEW v \in Review, UNCHANGED <<contracts, milestones>>,
             \/ /\ reviews' = [reviews EXCEPT ![v] = "POSTED"]
                /\ contracts[ReviewedContract[v]] = "COMPLETED"
             \/ reviews' = [reviews EXCEPT ![v] = "DELETED"]
      PROVE  LockedKept
  <2>1. ReviewedIsCompleted'
      BY <1>3 DEF ReviewedIsCompleted, TablesTyped
  <2>2. QED  BY <1>1, <1>3, <2>1
<1>4. QED  BY <1>2, <1>3, WriteKeeps, EndKeeps, DeleteKeeps DEF MovesLocked

-----------------------------------------------------------------------------
\* A commit leaves alone what belongs to a contract that its handler does not hold.
LEMMA CommitLocal ==
    ASSUME WorkInv, NEW r \in Request, Commit(r), NEW c \in Contract, ~Holds(r, c)
    PROVE  /\ contracts'[c] = contracts[c]
           /\ \A m \in Milestone : ContractOf[m] = c => milestones'[m] = milestones[m]
<1> DEFINE Kept == /\ contracts'[c] = contracts[c]
                   /\ \A m \in Milestone : ContractOf[m] = c => milestones'[m] = milestones[m]
<1>0. contracts \in [Contract -> ContractStatus \cup Absent] /\ milestones \in [Milestone -> MilestoneRow]
    BY DEF WorkInv, TypeOK
<1>1. PICK q \in Handling : q = reqs[r] /\ Relies(q)
    BY ReqFacts
<1>2. ASSUME NEW m \in Milestone, m = q.id, ContractOf[m] # c, UNCHANGED contracts,
             milestones' = milestones \/ \E row : milestones' = [milestones EXCEPT ![m] = row]
      PROVE  Kept
    BY <1>0, <1>2
<1>3. ASSUME \/ CreateMilestoneCommit(r) \/ EditMilestoneCommit(r) \/ DeleteMilestoneCommit(r)
             \/ \E op \in {"submit", "approve", "reject"} : MilestoneStatusCommit(r, op)
             \/ DeliverSave(r) \/ DeliverSubmit(r)
      PROVE  Kept
  <2>1. q.pc \in {"checked", "saved"} /\ q.op \in MilestoneOps
      BY <1>1, <1>3 DEF CreateMilestoneCommit, EditMilestoneCommit, DeleteMilestoneCommit,
                    MilestoneStatusCommit, DeliverSave, DeliverSubmit, Running, MilestoneOps
  <2>2. PICK m \in Milestone : m = q.id
      BY <1>1, <2>1, ReqFacts
  <2>3. ContractOf[m] # c
      BY <1>1, <2>1, <2>2 DEF Holds, ContractFor
  <2>4. ASSUME NEW new, SetMilestone(r, m, new)
        PROVE  /\ UNCHANGED contracts
               /\ milestones' = milestones \/ \E row : milestones' = [milestones EXCEPT ![m] = row]
      BY <2>4 DEF SetMilestone, RolledBack, tables
  <2>5. UNCHANGED contracts
      BY <1>1, <1>3, <2>2, <2>4
      DEF CreateMilestoneCommit, EditMilestoneCommit, DeleteMilestoneCommit,
          MilestoneStatusCommit, DeliverSave, DeliverSubmit, RolledBack, tables
  <2>6. milestones' = milestones \/ \E row : milestones' = [milestones EXCEPT ![m] = row]
    <3>1. CASE CreateMilestoneCommit(r)
        BY <1>1, <2>2, <3>1 DEF CreateMilestoneCommit
    <3>2. CASE EditMilestoneCommit(r)
        BY <1>1, <2>2, <3>2 DEF EditMilestoneCommit
    <3>3. CASE DeleteMilestoneCommit(r)
        BY <1>1, <2>2, <3>3 DEF DeleteMilestoneCommit
    <3>4. CASE \E op \in {"submit", "approve", "reject"} : MilestoneStatusCommit(r, op)
        BY <1>1, <2>2, <2>4, <3>4 DEF MilestoneStatusCommit
    <3>5. CASE DeliverSave(r)
        BY <1>1, <2>2, <3>5 DEF DeliverSave, RolledBack, tables
    <3>6. CASE DeliverSubmit(r)
        BY <1>1, <2>2, <2>4, <3>6 DEF DeliverSubmit
    <3>7. QED  BY <1>3, <3>1, <3>2, <3>3, <3>4, <3>5, <3>6
  <2>7. QED  BY <1>2, <2>2, <2>3, <2>5, <2>6
<1>4. ASSUME NEW op \in {"complete", "cancel"}, EndCommit(r, op)  PROVE Kept
  <2>1. q.pc = "checked" /\ q.op \in ContractOps
      BY <1>1, <1>4 DEF EndCommit, Running, ContractOps
  <2>2. q.id # c
      BY <1>1, <2>1 DEF Holds, ContractFor, ContractOps, MilestoneOps, ReviewOps
  <2>3. QED  BY <1>0, <1>1, <1>4, <2>2 DEF EndCommit, RolledBack, tables
<1>5. CASE DeleteContractCommit(r)
  <2>1. q.pc = "checked" /\ q.op \in ContractOps
      BY <1>1, <1>5 DEF DeleteContractCommit, Running, ContractOps
  <2>2. q.id # c
      BY <1>1, <2>1 DEF Holds, ContractFor, ContractOps, MilestoneOps, ReviewOps
  <2>3. QED  BY <1>0, <1>1, <1>5, <2>2 DEF DeleteContractCommit, CascadedMilestones
<1>6. CASE CreateReviewCommit(r) \/ DeleteReviewCommit(r)
    BY <1>6 DEF CreateReviewCommit, DeleteReviewCommit, RolledBack, tables
<1>7. QED  BY <1>3, <1>4, <1>5, <1>6 DEF Commit

\* What a handler has found is so as long as the contract that it holds stays as it is.
LEMMA LockedFoundStays ==
    ASSUME NEW q \in Handling, Relies(q), Found(q),
           NEW c, c = ContractFor(q.op, q.id), q.pc \in {"checked", "saved"},
           contracts'[c] = contracts[c],
           \A m \in Milestone : ContractOf[m] = c => milestones'[m] = milestones[m]
    PROVE  Found(q)'
<1>1. CASE q.op \in MilestoneOps
  <2>1. q.id \in Milestone /\ c = ContractOf[q.id]
      BY <1>1 DEF Relies, MilestoneOps, ContractOps, ReviewOps, ContractFor
  <2>2. milestones'[q.id] = milestones[q.id] /\ contracts'[ContractOf[q.id]] = contracts[ContractOf[q.id]]
      BY <2>1
  <2>3. QED  BY <1>1, <2>2, <2>1 DEF Found, MilestoneOps
<1>2. CASE q.op \in ContractOps
  <2>1. q.id = c /\ q.pc = "checked"
      BY <1>2 DEF Relies, MilestoneOps, ContractOps, ReviewOps, ContractFor
  <2>2. (AllApproved(c)' <=> AllApproved(c)) /\ (AnyApproved(c)' <=> AnyApproved(c))
      BY DEF AllApproved, AllApprovedOrNone, AnyApproved, MilestonesOf, ExistsMilestone
  <2>3. QED  BY <1>2, <2>1, <2>2 DEF Found, ContractOps
<1>3. CASE q.op \in ReviewOps
    BY <1>3 DEF Found, Relies, MilestoneOps, ContractOps, ReviewOps, ContractFor
<1>4. QED  BY <1>1, <1>2, <1>3 DEF Relies

LEMMA OthersFound ==
    ASSUME WorkInv, ContractsLocked, NEW r \in Request, Commit(r),
           NEW s \in Request, s # r, reqs'[s] = reqs[s], Found(reqs[s])
    PROVE  Found(reqs[s])'
<1>1. PICK q \in Handling : q = reqs[s] /\ Relies(q) /\ Found(q)
    BY ReqFacts
<1>2. PICK now : now = reqs'[s]
    OBVIOUS
<1>3. CASE q.pc \in {"idle", "notify"}
  <2>1. Found(now)'
      BY <1>1, <1>2, <1>3 DEF Found
  <2>2. QED  BY <1>2, <2>1
<1>4. CASE q.pc \in {"checked", "saved"}
  <2>1. PICK c \in Contract : c = ContractFor(q.op, q.id)
      BY <1>1, <1>4, WorkConstants
      DEF Relies, MilestoneOps, ContractOps, ReviewOps, ContractFor
  <2>2. ~Holds(r, c)
      BY <1>1, <1>4, <2>1 DEF Holds, ContractsLocked
  <2>3. Found(q)'
      BY <1>1, <1>4, <2>1, <2>2, CommitLocal, LockedFoundStays
  <2>4. Found(now)'
      BY <1>1, <1>2, <2>3
  <2>5. QED  BY <1>2, <2>4
<1>5. QED  BY <1>1, <1>3, <1>4 DEF Handling

LEMMA StepLocked ==
    ASSUME ContractsLocked, WorkInv, LockedInv, [Next]_vars
    PROVE  LockedKept /\ \A r \in Request : Found(reqs[r])'
<1>1. TablesTyped /\ CompletedIsDone /\ ReviewedIsCompleted /\ reqs \in [Request -> Handling]
    BY Types DEF WorkInv, LockedInv
<1>2. ASSUME NEW r \in Request, NEW q, reqs' = [reqs EXCEPT ![r] = q], UNCHANGED tables, Found(q)
      PROVE  LockedKept /\ \A s \in Request : Found(reqs[s])'
  <2>1. LockedKept
      BY <1>1, <1>2, LockedKeeps DEF MovesLocked
  <2>2. ASSUME NEW s \in Request  PROVE Found(reqs[s])'
    <3>1. PICK old : old = reqs[s]
        OBVIOUS
    <3>2. PICK now : now = reqs'[s]
        OBVIOUS
    <3>3. now = q \/ now = old
        BY <1>1, <1>2, <3>1, <3>2
    <3>4. Found(now)
        BY <1>2, <3>1, <3>3 DEF LockedInv
    <3>5. Found(now)'
        BY <1>2, <3>4, FoundStays
    <3>6. QED  BY <3>2, <3>5
  <2>3. QED  BY <2>1, <2>2
<1>3. ASSUME NEW r \in Request, NEW role \in Role,
             \/ \E m \in Milestone : MilestoneCheck(r, role, m)
             \/ \E c \in Contract : ContractCheck(r, role, c)
             \/ \E v \in Review : ReviewCheck(r, role, v)
      PROVE  LockedKept /\ \A s \in Request : Found(reqs[s])'
  <2>1. PICK op, id : Checked(r, op, id) /\ Found(Passed(op, id))
      BY <1>3, CheckFinds
  <2>2. reqs' = [reqs EXCEPT ![r] = Passed(op, id)] /\ UNCHANGED tables
      BY <2>1 DEF Checked, Passed
  <2>3. QED  BY <1>2, <2>1, <2>2
<1>4. ASSUME NEW r \in Request, Commit(r)
      PROVE  LockedKept /\ \A s \in Request : Found(reqs[s])'
  <2>1. \A s \in Request : Found(reqs[s])
      BY DEF LockedInv
  <2>2. MovesLocked /\ Found(reqs[r])'
      BY <1>4, <2>1, CommitLocked, CommitFound
  <2>3. PICK q \in Handling : q = reqs[r]
      BY ReqFacts
  <2>4. Outcomes(r, q)
      BY <1>4, <2>3, CommitStep
  <2>5. \A s \in Request : s # r => reqs'[s] = reqs[s]
      BY <1>1, <2>4 DEF Outcomes, Done, ToNotify
  <2>6. \A s \in Request : Found(reqs[s])'
      BY <1>4, <2>1, <2>2, <2>5, OthersFound
  <2>7. QED  BY <1>1, <2>2, <2>6, LockedKeeps
<1>5. ASSUME NEW r \in Request, Emit(r) \/ Die(r)
      PROVE  LockedKept /\ \A s \in Request : Found(reqs[s])'
  <2>1. UNCHANGED tables /\ reqs' = [reqs EXCEPT ![r] = IdleReq]
      BY <1>5 DEF Emit, Die
  <2>2. Found(IdleReq)
      BY RestFound DEF IdleReq
  <2>3. QED  BY <1>2, <2>1, <2>2
<1>6. CASE UNCHANGED vars
  <2>1. UNCHANGED tables /\ reqs' = reqs
      BY <1>6 DEF vars, tables
  <2>2. ASSUME NEW r \in Request  PROVE Found(reqs[r])'
    <3>1. PICK q : q = reqs[r]
        OBVIOUS
    <3>2. Found(q)'
        BY <2>1, <3>1, FoundStays DEF LockedInv
    <3>3. PICK now : now = reqs'[r]
        OBVIOUS
    <3>4. Found(now)'
        BY <2>1, <3>1, <3>2, <3>3
    <3>5. QED  BY <3>3, <3>4
  <2>3. QED  BY <1>1, <2>1, <2>2, LockedKeeps DEF MovesLocked
<1>7. QED  BY <1>3, <1>4, <1>5, <1>6 DEF Next

\* As long as handlers of one contract do not overlap, what they have found is so until
\* they commit.
LEMMA LockedInvariance == Spec /\ []ContractsLocked => [](WorkInv /\ LockedInv)
<1>1. Init => LockedInv
  <2>1. Init => \A r \in Request : Found(reqs[r])
      BY RestFound DEF Init, IdleReq
  <2>2. Init => CompletedIsDone /\ ReviewedIsCompleted
      BY DEF Init, CompletedIsDone, ReviewedIsCompleted
  <2>3. QED  BY <2>1, <2>2 DEF LockedInv
<1>2. WorkInv /\ LockedInv /\ ContractsLocked /\ [Next]_vars => LockedInv'
    BY StepLocked DEF LockedInv, LockedKept
<1>3. QED  BY <1>1, <1>2, WorkConsistent, PTL DEF Spec

\* When handlers of one contract do not overlap, a completed contract has milestones, and
\* all of them are approved.
THEOREM LockedCompletedIsDone == Spec /\ []ContractsLocked => []CompletedIsDone
<1>1. LockedInv => CompletedIsDone
    BY DEF LockedInv
<1>2. QED  BY <1>1, LockedInvariance, PTL

\* When handlers of one contract do not overlap, the terms of a milestone change, and it
\* is deleted, only before work is submitted.
THEOREM LockedTermsAreFrozen == Spec /\ []ContractsLocked => TermsAreFrozen
<1>1. WorkInv /\ LockedInv /\ ContractsLocked /\ [Next]_vars => [TermsStay]_vars
    BY StepLocked DEF LockedKept
<1>2. Spec /\ []ContractsLocked => [][TermsStay]_vars
    BY <1>1, LockedInvariance, PTL DEF Spec
<1>3. QED  BY <1>2 DEF TermsAreFrozen, TermsStay

\* When handlers of one contract do not overlap, no contract is cancelled that has an
\* approved milestone, and a contract that has a review is completed and stays so.
THEOREM LockedEndIsEarned == Spec /\ []ContractsLocked => EndIsEarned
<1>1. WorkInv /\ LockedInv /\ ContractsLocked /\ [Next]_vars => [EndEarned]_vars
    BY StepLocked DEF LockedKept
<1>2. Spec /\ []ContractsLocked => [][EndEarned]_vars
    BY <1>1, LockedInvariance, PTL DEF Spec
<1>3. QED  BY <1>2 DEF EndIsEarned, EndEarned
=============================================================================
