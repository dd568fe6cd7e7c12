---------------------------- MODULE HiringProofs ----------------------------
(* Proofs about Hiring for any jobs, proposals, contracts and handlers: the  *)
(* handlers implement TablesSpec, whose invariants they inherit, and they    *)
(* notify only of what has been committed.                                   *)
EXTENDS Hiring, HiringTablesProofs

ReqsOK ==
    /\ reqs \in [Request -> ReqType]
    /\ \A r \in Request : reqs[r].pc = "notify" <=> reqs[r].out # <<>>

\* What a running handler holds, by its operation.
LEMMA RunningId ==
    ASSUME ReqsOK, NEW r \in Request
    PROVE  /\ reqs[r].op \in JobOps => reqs[r].id \in Job
           /\ reqs[r].op \in ProposalOps => reqs[r].id \in Proposal
           /\ reqs[r].op \in ContractOps => reqs[r].id \in Contract
           /\ reqs[r].out \in Seq(Notice)
<1> DEFINE q == reqs[r]
<1>1. q \in ReqType
    BY DEF ReqsOK
<1> HIDE DEF q
<1>2. CASE q = IdleReq
    BY <1>2 DEF q, IdleReq, JobOps, ProposalOps, ContractOps
<1>3. CASE q # IdleReq
  <2>1. /\ q.op \in JobOps => q.id \in Job
        /\ q.op \in ProposalOps => q.id \in Proposal
        /\ q.op \in ContractOps => q.id \in Contract
        /\ q.out \in Seq(Notice)
      BY <1>1, <1>3 DEF ReqType, JobOps, ProposalOps, ContractOps
  <2>2. QED  BY <2>1 DEF q
<1>4. QED  BY <1>2, <1>3

-----------------------------------------------------------------------------
(* The handlers implement the tables. *)

LEMMA CommitImplements ==
    ASSUME ReqsOK, NEW r \in Request, Commit(r)
    PROVE  TablesNext
<1>1. /\ reqs[r].op \in JobOps => reqs[r].id \in Job
      /\ reqs[r].op \in ProposalOps => reqs[r].id \in Proposal
      /\ reqs[r].op \in ContractOps => reqs[r].id \in Contract
    BY RunningId
<1>2. ASSUME NEW op \in {"publish", "close"}, ChangeStatusCommit(r, op)  PROVE TablesNext
    BY <1>1, <1>2
    DEF ChangeStatusCommit, Running, JobOps, NewStatus, TablesNext, JobTransaction
<1>3. CASE DeleteJobCommit(r)
    BY <1>1, <1>3 DEF DeleteJobCommit, Running, JobOps, TablesNext, JobTransaction
<1>4. CASE SubmitCommit(r) \/ RejectCommit(r) \/ WithdrawCommit(r) \/ DeleteProposalCommit(r)
    BY <1>1, <1>4
    DEF SubmitCommit, RejectCommit, WithdrawCommit, DeleteProposalCommit, Running, ProposalOps,
        TablesNext, ProposalTransaction
<1>5. ASSUME NEW c \in Contract, AcceptCommit(r, c)  PROVE TablesNext
    BY <1>1, <1>5 DEF AcceptCommit, Running, ProposalOps, TablesNext, ContractTransaction
<1>6. ASSUME NEW op \in {"complete", "cancel"}, EndContractCommit(r, op)  PROVE TablesNext
    BY <1>1, <1>6
    DEF EndContractCommit, Running, ContractOps, EndStatus, TablesNext, ContractTransaction
<1>7. CASE DeleteContractCommit(r)
    BY <1>1, <1>7
    DEF DeleteContractCommit, Running, ContractOps, TablesNext, ContractTransaction
<1>8. QED  BY <1>2, <1>3, <1>4, <1>5, <1>6, <1>7 DEF Commit

\* A step that is neither a commit nor the insertion of a job leaves the tables alone.
LEMMA OtherSteps ==
    ASSUME [Next]_vars, ~\E r \in Request : Commit(r), ~\E u \in User, j \in Job : CreateJob(u, j)
    PROVE  UNCHANGED tables
<1>1. ASSUME NEW r \in Request, NEW u \in User,
             \/ \E j \in Job : JobCheck(r, u, j)
             \/ \E p \in Proposal : ProposalCheck(r, u, p)
             \/ \E c \in Contract : ContractCheck(r, u, c)
      PROVE  UNCHANGED tables
    BY <1>1
    DEF JobCheck, ChangeStatusCheck, DeleteJobCheck, ProposalCheck, SubmitCheck, RejectCheck,
        WithdrawCheck, DeleteProposalCheck, AcceptCheck, ContractCheck, CompleteCheck,
        CancelCheck, DeleteContractCheck, Checked
<1>2. ASSUME NEW r \in Request, DeleteJobLoad(r) \/ DeleteProposalLoad(r)
      PROVE  UNCHANGED tables
    BY <1>2 DEF DeleteJobLoad, DeleteProposalLoad, Loaded, RolledBack
<1>3. ASSUME NEW r \in Request, Fail(r)  PROVE UNCHANGED tables
    BY <1>3
    DEF Fail, ChangeStatusFails, SubmitFails, DecisionFails, AcceptFails, EndContractFails,
        DieBeforeCommit, RolledBack
<1>4. ASSUME NEW r \in Request, Emit(r) \/ EmitFails(r) \/ DieAfterCommit(r)
      PROVE  UNCHANGED tables
    BY <1>4 DEF Emit, EmitFails, DieAfterCommit
<1>5. CASE UNCHANGED vars
    BY <1>5 DEF vars, tables
<1>6. QED  BY <1>1, <1>2, <1>3, <1>4, <1>5 DEF Next

LEMMA StepImplements ==
    ASSUME ReqsOK, [Next]_vars
    PROVE  [TablesNext]_tables
<1>1. CASE \E r \in Request : Commit(r)
    BY <1>1, CommitImplements
<1>2. CASE \E u \in User, j \in Job : CreateJob(u, j)
    BY <1>2 DEF CreateJob, TablesNext, JobTransaction
<1>3. QED  BY <1>1, <1>2, OtherSteps

-----------------------------------------------------------------------------
(* Type correctness. *)

LEMMA EmptyOut == <<>> \in Seq(Notice)
    OBVIOUS

LEMMA CheckedReqs ==
    ASSUME ReqsOK, NEW r \in Request, NEW op, NEW id, Checked(r, op, id),
           \/ op \in JobOps /\ id \in Job
           \/ op \in ProposalOps /\ id \in Proposal
           \/ op \in ContractOps /\ id \in Contract
    PROVE  ReqsOK'
<1> DEFINE new == [pc |-> "checked", op |-> op, id |-> id, out |-> <<>>]
<1>1. new \in ReqType
    BY DEF ReqType, Pc
<1>2. QED  BY <1>1 DEF ReqsOK, Checked

LEMMA IdleReqs ==
    ASSUME ReqsOK, NEW r \in Request, reqs' = [reqs EXCEPT ![r] = IdleReq]
    PROVE  ReqsOK'
    BY DEF ReqsOK, ReqType, IdleReq

\* A handler that is running holds its operation's kind of id wherever it stands.
LEMMA RunningReqs ==
    ASSUME ReqsOK, NEW r \in Request, reqs[r].pc # "idle", NEW pc \in Pc,
           NEW out \in Seq(Notice), pc = "notify" <=> out # <<>>,
           reqs' = [reqs EXCEPT ![r] = [pc |-> pc, op |-> reqs[r].op,
                                        id |-> reqs[r].id, out |-> out]]
    PROVE  ReqsOK'
<1> DEFINE q == reqs[r]
           new == [pc |-> pc, op |-> q.op, id |-> q.id, out |-> out]
<1>1. q \in ReqType /\ q # IdleReq
    BY DEF ReqsOK, IdleReq
<1>2. new \in ReqType
  <2> HIDE DEF q
  <2> QED  BY <1>1 DEF ReqType
<1>3. QED  BY <1>2 DEF ReqsOK

LEMMA NotifyReqs ==
    ASSUME ReqsOK, NEW r \in Request, reqs[r].pc # "idle", NEW out \in Seq(Notice),
           Notify(r, out)
    PROVE  ReqsOK'
    BY IdleReqs, RunningReqs DEF Notify, Pc

LEMMA CheckReqs ==
    ASSUME ReqsOK, NEW r \in Request, NEW u \in User,
           \/ \E j \in Job : JobCheck(r, u, j)
           \/ \E p \in Proposal : ProposalCheck(r, u, p)
           \/ \E c \in Contract : ContractCheck(r, u, c)
    PROVE  ReqsOK'
    BY CheckedReqs
    DEF JobCheck, ChangeStatusCheck, DeleteJobCheck, ProposalCheck, SubmitCheck, RejectCheck,
        WithdrawCheck, DeleteProposalCheck, AcceptCheck, ContractCheck, CompleteCheck,
        CancelCheck, DeleteContractCheck, JobOps, ProposalOps, ContractOps

\* The notices a commit leaves to be emitted: of its own entity, or of the new contract.
CommitNotices(r, out) ==
    \/ out = <<>>
    \/ \E op \in {"publish", "close"} :
          ChangeStatusCommit(r, op) /\ out = <<Key(StatusNotice(op), reqs[r].id, "CLIENT")>>
    \/ SubmitCommit(r) /\ out = <<Key("PROPOSAL_RECEIVED", reqs[r].id, "CLIENT")>>
    \/ RejectCommit(r) /\ out = <<Key("PROPOSAL_REJECTED", reqs[r].id, "FREELANCER")>>
    \/ \E c \in Contract :
          AcceptCommit(r, c) /\ out = <<Key("PROPOSAL_ACCEPTED", reqs[r].id, "FREELANCER"),
                                        Key("CONTRACT_CREATED", c, "CLIENT"),
                                        Key("CONTRACT_CREATED", c, "FREELANCER")>>
    \/ \E op \in {"complete", "cancel"} :
          EndContractCommit(r, op) /\ out = <<Key(EndNotice(op), reqs[r].id, "CLIENT"),
                                              Key(EndNotice(op), reqs[r].id, "FREELANCER")>>

LEMMA CommitCases ==
    ASSUME ReqsOK, NEW r \in Request, Commit(r)
    PROVE  \E out \in Seq(Notice) :
               CommitNotices(r, out) /\ Committed(r, out) /\ reqs[r].pc # "idle"
<1>1. /\ reqs[r].op \in JobOps => reqs[r].id \in Job
      /\ reqs[r].op \in ProposalOps => reqs[r].id \in Proposal
      /\ reqs[r].op \in ContractOps => reqs[r].id \in Contract
    BY RunningId
<1> USE DEF CommitNotices, Running
<1>2. CASE DeleteJobCommit(r) \/ WithdrawCommit(r) \/ DeleteProposalCommit(r)
           \/ DeleteContractCommit(r)
    BY <1>2, EmptyOut
    DEF DeleteJobCommit, WithdrawCommit, DeleteProposalCommit, DeleteContractCommit
<1>3. ASSUME NEW op \in {"publish", "close"}, ChangeStatusCommit(r, op)
      PROVE  \E out \in Seq(Notice) :
               CommitNotices(r, out) /\ Committed(r, out) /\ reqs[r].pc # "idle"
  <2> DEFINE out == <<Key(StatusNotice(op), reqs[r].id, "CLIENT")>>
  <2>1. out \in Seq(Notice)
      BY <1>1, <1>3
      DEF ChangeStatusCommit, JobOps, Notice, Key, StatusNotice, Recipient
  <2>2. Committed(r, out) /\ reqs[r].pc # "idle"
      BY <1>3 DEF ChangeStatusCommit
  <2>3. CommitNotices(r, out)
      BY <1>3
  <2> HIDE DEF out
  <2>4. QED  BY <2>1, <2>2, <2>3
<1>4. CASE SubmitCommit(r)
  <2> DEFINE out == <<Key("PROPOSAL_RECEIVED", reqs[r].id, "CLIENT")>>
  <2>1. out \in Seq(Notice)
      BY <1>1, <1>4 DEF SubmitCommit, ProposalOps, Notice, Key, Recipient
  <2>2. Committed(r, out) /\ reqs[r].pc # "idle"
      BY <1>4 DEF SubmitCommit
  <2>3. CommitNotices(r, out)
      BY <1>4
  <2> HIDE DEF out
  <2>4. QED  BY <2>1, <2>2, <2>3
<1>5. CASE RejectCommit(r)
  <2> DEFINE out == <<Key("PROPOSAL_REJECTED", reqs[r].id, "FREELANCER")>>
  <2>1. out \in Seq(Notice)
      BY <1>1, <1>5 DEF RejectCommit, ProposalOps, Notice, Key, Recipient
  <2>2. Committed(r, out) /\ reqs[r].pc # "idle"
      BY <1>5 DEF RejectCommit
  <2>3. CommitNotices(r, out)
      BY <1>5
  <2> HIDE DEF out
  <2>4. QED  BY <2>1, <2>2, <2>3
<1>6. ASSUME NEW c \in Contract, AcceptCommit(r, c)
      PROVE  \E out \in Seq(Notice) :
               CommitNotices(r, out) /\ Committed(r, out) /\ reqs[r].pc # "idle"
  <2> DEFINE out == <<Key("PROPOSAL_ACCEPTED", reqs[r].id, "FREELANCER"),
                      Key("CONTRACT_CREATED", c, "CLIENT"),
                      Key("CONTRACT_CREATED", c, "FREELANCER")>>
  <2>1. out \in Seq(Notice)
      BY <1>1, <1>6 DEF AcceptCommit, ProposalOps, Notice, Key, Recipient
  <2>2. Committed(r, out) /\ reqs[r].pc # "idle"
      BY <1>6 DEF AcceptCommit
  <2>3. CommitNotices(r, out)
      BY <1>6
  <2> HIDE DEF out
  <2>4. QED  BY <2>1, <2>2, <2>3
<1>7. ASSUME NEW op \in {"complete", "cancel"}, EndContractCommit(r, op)
      PROVE  \E out \in Seq(Notice) :
               CommitNotices(r, out) /\ Committed(r, out) /\ reqs[r].pc # "idle"
  <2> DEFINE out == <<Key(EndNotice(op), reqs[r].id, "CLIENT"),
                      Key(EndNotice(op), reqs[r].id, "FREELANCER")>>
  <2>1. out \in Seq(Notice)
      BY <1>1, <1>7
      DEF EndContractCommit, ContractOps, Notice, Key, EndNotice, Recipient
  <2>2. Committed(r, out) /\ reqs[r].pc # "idle"
      BY <1>7 DEF EndContractCommit
  <2>3. CommitNotices(r, out)
      BY <1>7
  <2> HIDE DEF out
  <2>4. QED  BY <2>1, <2>2, <2>3
<1>8. QED  BY <1>2, <1>3, <1>4, <1>5, <1>6, <1>7 DEF Commit

LEMMA TypeStep ==
    ASSUME TypeOK, [Next]_vars
    PROVE  TypeOK'
<1>1. ReqsOK /\ TablesTypeOK
    BY DEF TypeOK, ReqsOK
<1>2. TablesTypeOK'
    BY <1>1, StepImplements, TablesTypeStep
<1>3. ReqsOK' /\ events' \subseteq Notice /\ lost' \in 0..MaxLost
  <2>1. ASSUME NEW u \in User, NEW j \in Job, CreateJob(u, j)
        PROVE  ReqsOK' /\ events' \subseteq Notice /\ lost' \in 0..MaxLost
      BY <1>1, <2>1 DEF CreateJob, ReqsOK, TypeOK
  <2>2. ASSUME NEW r \in Request, NEW u \in User,
               \/ \E j \in Job : JobCheck(r, u, j)
               \/ \E p \in Proposal : ProposalCheck(r, u, p)
               \/ \E c \in Contract : ContractCheck(r, u, c)
        PROVE  ReqsOK' /\ events' \subseteq Notice /\ lost' \in 0..MaxLost
    <3>1. UNCHANGED <<events, lost>>
        BY <2>2
        DEF JobCheck, ChangeStatusCheck, DeleteJobCheck, ProposalCheck, SubmitCheck,
            RejectCheck, WithdrawCheck, DeleteProposalCheck, AcceptCheck, ContractCheck,
            CompleteCheck, CancelCheck, DeleteContractCheck, Checked
    <3>2. QED  BY <1>1, <2>2, <3>1, CheckReqs DEF TypeOK
  <2>3. ASSUME NEW r \in Request, RolledBack(r)
        PROVE  ReqsOK' /\ events' \subseteq Notice /\ lost' \in 0..MaxLost
      BY <1>1, <2>3, IdleReqs DEF RolledBack, TypeOK
  <2>4. ASSUME NEW r \in Request, DeleteJobLoad(r) \/ DeleteProposalLoad(r)
        PROVE  ReqsOK' /\ events' \subseteq Notice /\ lost' \in 0..MaxLost
    <3>1. CASE RolledBack(r)
        BY <2>3, <3>1
    <3>2. CASE ~RolledBack(r)
      <4>1. reqs[r].pc # "idle"
          BY <2>4 DEF DeleteJobLoad, DeleteProposalLoad, Running
      <4>2. /\ reqs' = [reqs EXCEPT ![r] = [pc |-> "loaded", op |-> reqs[r].op,
                                            id |-> reqs[r].id, out |-> <<>>]]
            /\ UNCHANGED <<events, lost>>
          BY <2>4, <3>2 DEF DeleteJobLoad, DeleteProposalLoad, Loaded
      <4>3. "loaded" \in Pc /\ ("loaded" = "notify" <=> <<>> # <<>>)
          BY DEF Pc
      <4>4. ReqsOK'
          BY <1>1, <4>1, <4>2, <4>3, EmptyOut, RunningReqs
      <4>5. QED  BY <4>2, <4>4 DEF TypeOK
    <3>3. QED  BY <3>1, <3>2
  <2>5. ASSUME NEW r \in Request, Commit(r)
        PROVE  ReqsOK' /\ events' \subseteq Notice /\ lost' \in 0..MaxLost
    <3>1. PICK out \in Seq(Notice) : Committed(r, out) /\ reqs[r].pc # "idle"
        BY <1>1, <2>5, CommitCases
    <3>2. QED  BY <1>1, <3>1, NotifyReqs DEF Committed, TypeOK
  <2>6. ASSUME NEW r \in Request, Fail(r)
        PROVE  ReqsOK' /\ events' \subseteq Notice /\ lost' \in 0..MaxLost
      BY <2>3, <2>6
      DEF Fail, ChangeStatusFails, SubmitFails, DecisionFails, AcceptFails, EndContractFails,
          DieBeforeCommit
  <2>7. ASSUME NEW r \in Request, Emit(r) \/ EmitFails(r)
        PROVE  ReqsOK' /\ events' \subseteq Notice /\ lost' \in 0..MaxLost
    <3>1. reqs[r].out \in Seq(Notice) /\ reqs[r].out # <<>>
        BY <1>1, <2>7, RunningId DEF Emit, EmitFails, ReqsOK
    <3>2. Head(reqs[r].out) \in Notice /\ Tail(reqs[r].out) \in Seq(Notice)
        BY <3>1
    <3>3. ReqsOK'
        BY <1>1, <2>7, <3>2, NotifyReqs DEF Emit, EmitFails
    <3>4. QED  BY <2>7, <3>2, <3>3, LostBound DEF Emit, EmitFails, TypeOK
  <2>8. ASSUME NEW r \in Request, DieAfterCommit(r)
        PROVE  ReqsOK' /\ events' \subseteq Notice /\ lost' \in 0..MaxLost
    <3>1. ReqsOK'
        BY <1>1, <2>8, IdleReqs DEF DieAfterCommit
    <3>2. QED  BY <2>8, <3>1, LostBound DEF DieAfterCommit, TypeOK
  <2>9. CASE UNCHANGED vars
      BY <1>1, <2>9 DEF vars, ReqsOK, TypeOK
  <2>10. QED
      BY <2>1, <2>2, <2>4, <2>5, <2>6, <2>7, <2>8, <2>9 DEF Next
<1>4. QED  BY <1>2, <1>3 DEF TypeOK, ReqsOK

\* Every variable keeps its type, and a handler has notices left exactly while it notifies.
THEOREM TypeCorrect == Spec => []TypeOK
<1>1. Init => TypeOK
    BY TablesInvInit, LostBound DEF Init, TablesInv, TypeOK, ReqType, IdleReq
<1>2. TypeOK /\ [Next]_vars => TypeOK'
    BY TypeStep
<1>3. QED  BY <1>1, <1>2, PTL DEF Spec

\* The handlers, however they interleave, fail or die, implement TablesSpec: every
\* step of theirs is one transaction of the tables or leaves the tables alone.
THEOREM HandlersImplementTables == Spec => TablesSpec
<1>1. Init => TablesInit
    BY DEF Init
<1>2. TypeOK /\ [Next]_vars => [TablesNext]_tables
    BY StepImplements DEF TypeOK, ReqsOK
<1>3. QED  BY <1>1, <1>2, TypeCorrect, PTL DEF Spec, TablesSpec

-----------------------------------------------------------------------------
(* What the handlers inherit from the tables. *)

\* However acceptances interleave, a job has at most one contract.
THEOREM NoSecondContract == Spec => []OneContractPerJob
<1>1. TablesInv => OneContractPerJob
    BY DEF TablesInv
<1>2. QED  BY <1>1, HandlersImplementTables, TablesConsistent, PTL

\* However submissions interleave, a freelancer has at most one proposal for a job.
THEOREM NoSecondProposal == Spec => []OneProposalPerFreelancer
<1>1. TablesInv => OneProposalPerFreelancer
    BY DEF TablesInv
<1>2. QED  BY <1>1, HandlersImplementTables, TablesConsistent, PTL

\* No failure or crash leaves a proposal accepted without its contract.
THEOREM AcceptanceIsAtomic == Spec => []AcceptedHasContract
<1>1. TablesInv => AcceptedHasContract
    BY DEF TablesInv
<1>2. QED  BY <1>1, HandlersImplementTables, TablesConsistent, PTL

\* No stale delete or decision leaves a contract without a decided proposal and a job.
THEOREM ContractsAreGrounded == Spec => []ContractIsGrounded
<1>1. TablesInv => ContractIsGrounded
    BY DEF TablesInv
<1>2. QED  BY <1>1, HandlersImplementTables, TablesConsistent, PTL

\* No handler takes a row back to where it was before.
THEOREM HandlersMoveOn == Spec => NothingIsUndone
    BY HandlersImplementTables, TablesMoveOn, PTL

-----------------------------------------------------------------------------
(* Notices report only what was committed. *)

\* What happened stays reported: no transaction undoes it.
LEMMA HappenedStep ==
    ASSUME ContractRowsOK, Onward, NEW n \in Notice, Happened(n)
    PROVE  Happened(n)'
<1>1. CASE n.type \in {"JOB_PUBLISHED", "JOB_CLOSED"}
  <2>1. n.id \in Job
      BY <1>1 DEF Notice
  <2>2. QED  BY <1>1, <2>1 DEF Onward, Happened
<1>2. CASE n.type \in {"PROPOSAL_RECEIVED", "PROPOSAL_REJECTED"}
  <2>1. n.id \in Proposal
      BY <1>2 DEF Notice
  <2>2. QED  BY <1>2, <2>1 DEF Onward, Happened
<1>3. CASE n.type = "PROPOSAL_ACCEPTED"
  <2>1. n.id \in Proposal
      BY <1>3 DEF Notice
  <2>2. PICK c \in Contract : contracts[c].proposal = n.id
      BY <1>3 DEF Happened
  <2>3. contracts'[c].proposal = n.id
      BY <2>1, <2>2, NotAProposal DEF Onward, ContractRowsOK
  <2>4. QED  BY <1>3, <2>3 DEF Happened
<1>4. CASE n.type \in {"CONTRACT_CREATED", "CONTRACT_COMPLETED", "CONTRACT_CANCELLED"}
  <2>1. n.id \in Contract
      BY <1>4 DEF Notice
  <2>2. QED  BY <1>4, <2>1 DEF Onward, Happened
<1>5. QED  BY <1>1, <1>2, <1>3, <1>4 DEF Notice

\* A commit makes happen what its notices say.
LEMMA CommitHappened ==
    ASSUME ReqsOK, TablesTypeOK, NEW r \in Request, NEW out \in Seq(Notice),
           CommitNotices(r, out), NEW i \in DOMAIN out
    PROVE  Happened(out[i])'
<1>1. /\ reqs[r].op \in JobOps => reqs[r].id \in Job
      /\ reqs[r].op \in ProposalOps => reqs[r].id \in Proposal
      /\ reqs[r].op \in ContractOps => reqs[r].id \in Contract
    BY RunningId
<1> USE DEF Running, TablesTypeOK
<1>2. ASSUME NEW op \in {"publish", "close"}, ChangeStatusCommit(r, op),
             out = <<Key(StatusNotice(op), reqs[r].id, "CLIENT")>>
      PROVE  Happened(out[i])'
  <2>1. reqs[r].id \in Job
      BY <1>1, <1>2 DEF ChangeStatusCommit, JobOps
  <2>2. out[i] = Key(StatusNotice(op), reqs[r].id, "CLIENT")
      BY <1>2
  <2>3. jobs'[reqs[r].id] = NewStatus(op)
      BY <1>2, <2>1 DEF ChangeStatusCommit, SetJobStatus
  <2>4. QED  BY <1>2, <2>2, <2>3 DEF Key, StatusNotice, NewStatus, Happened
<1>3. CASE SubmitCommit(r) /\ out = <<Key("PROPOSAL_RECEIVED", reqs[r].id, "CLIENT")>>
  <2>1. reqs[r].id \in Proposal
      BY <1>1, <1>3 DEF SubmitCommit, ProposalOps
  <2>2. out[i] = Key("PROPOSAL_RECEIVED", reqs[r].id, "CLIENT")
      BY <1>3
  <2>3. proposals'[reqs[r].id] = "PENDING"
      BY <1>3, <2>1 DEF SubmitCommit, InsertProposal
  <2>4. QED  BY <2>2, <2>3 DEF Key, Happened
<1>4. CASE RejectCommit(r) /\ out = <<Key("PROPOSAL_REJECTED", reqs[r].id, "FREELANCER")>>
  <2>1. reqs[r].id \in Proposal
      BY <1>1, <1>4 DEF RejectCommit, ProposalOps
  <2>2. out[i] = Key("PROPOSAL_REJECTED", reqs[r].id, "FREELANCER")
      BY <1>4
  <2>3. proposals'[reqs[r].id] = "REJECTED"
      BY <1>4, <2>1 DEF RejectCommit, SetProposalStatus
  <2>4. QED  BY <2>2, <2>3 DEF Key, Happened
<1>5. ASSUME NEW c \in Contract, AcceptCommit(r, c),
             out = <<Key("PROPOSAL_ACCEPTED", reqs[r].id, "FREELANCER"),
                     Key("CONTRACT_CREATED", c, "CLIENT"),
                     Key("CONTRACT_CREATED", c, "FREELANCER")>>
      PROVE  Happened(out[i])'
  <2>1. \/ out[i] = Key("PROPOSAL_ACCEPTED", reqs[r].id, "FREELANCER")
        \/ \E to \in Recipient : out[i] = Key("CONTRACT_CREATED", c, to)
      BY <1>5 DEF Recipient
  <2>2. contracts'[c] = [status |-> "ACTIVE", proposal |-> reqs[r].id]
      BY <1>5 DEF AcceptCommit, Award
  <2>3. QED  BY <2>1, <2>2 DEF Key, Happened
<1>6. ASSUME NEW op \in {"complete", "cancel"}, EndContractCommit(r, op),
             out = <<Key(EndNotice(op), reqs[r].id, "CLIENT"),
                     Key(EndNotice(op), reqs[r].id, "FREELANCER")>>
      PROVE  Happened(out[i])'
  <2>1. reqs[r].id \in Contract
      BY <1>1, <1>6 DEF EndContractCommit, ContractOps
  <2>2. \E to \in Recipient : out[i] = Key(EndNotice(op), reqs[r].id, to)
      BY <1>6 DEF Recipient
  <2>3. contracts'[reqs[r].id].status = EndStatus(op)
      BY <1>6, <2>1 DEF EndContractCommit, SetContractStatus, ContractRow
  <2>4. QED  BY <2>2, <2>3 DEF Key, EndNotice, EndStatus, Happened
<1>7. QED  BY <1>2, <1>3, <1>4, <1>5, <1>6 DEF CommitNotices

\* Where a step's notices come from: a handler keeps some of its own, or commits.
OutKept(r) == \A i \in DOMAIN reqs'[r].out : \E k \in DOMAIN reqs[r].out :
                  reqs'[r].out[i] = reqs[r].out[k]
OutCommitted(r) == \E out \in Seq(Notice) :
                       CommitNotices(r, out) /\ reqs'[r].out = out

LEMMA NotifyKeeps ==
    ASSUME ReqsOK, NEW r \in Request, reqs[r].pc = "notify", Notify(r, Tail(reqs[r].out))
    PROVE  OutKept(r)
<1> DEFINE out == reqs[r].out
<1>1. out \in Seq(Notice) /\ out # <<>>
    BY RunningId DEF ReqsOK
<1>2. reqs'[r].out = Tail(out)
    BY DEF Notify, IdleReq, ReqsOK
<1>3. \A i \in DOMAIN Tail(out) : i + 1 \in DOMAIN out /\ Tail(out)[i] = out[i + 1]
  <2> HIDE DEF out
  <2> QED  BY <1>1
<1>4. QED  BY <1>2, <1>3 DEF OutKept

LEMMA OutCases ==
    ASSUME ReqsOK, [Next]_vars, NEW s \in Request
    PROVE  OutKept(s) \/ OutCommitted(s)
<1>1. CASE reqs'[s] = reqs[s] \/ reqs'[s].out = <<>>
    BY <1>1 DEF OutKept
<1>2. ASSUME NEW r \in Request, Commit(r)
      PROVE  OutKept(s) \/ OutCommitted(s)
  <2>1. PICK out \in Seq(Notice) : CommitNotices(r, out) /\ Committed(r, out)
      BY <1>2, CommitCases
  <2>2. reqs'[r].out = out /\ (s # r => reqs'[s] = reqs[s])
      BY <2>1 DEF Committed, Notify, IdleReq, ReqsOK
  <2>3. QED  BY <1>1, <2>1, <2>2 DEF OutCommitted
<1>3. ASSUME NEW r \in Request, Emit(r) \/ EmitFails(r)
      PROVE  OutKept(s)
  <2>1. reqs[r].pc = "notify" /\ Notify(r, Tail(reqs[r].out))
      BY <1>3 DEF Emit, EmitFails
  <2>2. s # r => reqs'[s] = reqs[s]
      BY <2>1 DEF Notify, ReqsOK
  <2>3. QED  BY <2>1, <2>2, NotifyKeeps DEF OutKept
<1>4. ASSUME NEW r \in Request, NEW u \in User,
             \/ \E j \in Job : JobCheck(r, u, j)
             \/ \E p \in Proposal : ProposalCheck(r, u, p)
             \/ \E c \in Contract : ContractCheck(r, u, c)
      PROVE  reqs'[s] = reqs[s] \/ reqs'[s].out = <<>>
    BY <1>4
    DEF JobCheck, ChangeStatusCheck, DeleteJobCheck, ProposalCheck, SubmitCheck, RejectCheck,
        WithdrawCheck, DeleteProposalCheck, AcceptCheck, ContractCheck, CompleteCheck,
        CancelCheck, DeleteContractCheck, Checked, ReqsOK
<1>5. ASSUME NEW r \in Request,
             DeleteJobLoad(r) \/ DeleteProposalLoad(r) \/ Fail(r) \/ DieAfterCommit(r)
      PROVE  reqs'[s] = reqs[s] \/ reqs'[s].out = <<>>
    BY <1>5
    DEF DeleteJobLoad, DeleteProposalLoad, Loaded, Fail, ChangeStatusFails, SubmitFails,
        DecisionFails, AcceptFails, EndContractFails, DieBeforeCommit, DieAfterCommit,
        RolledBack, IdleReq, ReqsOK
<1>6. CASE UNCHANGED vars \/ \E u \in User, j \in Job : CreateJob(u, j)
    BY <1>1, <1>6 DEF vars, CreateJob
<1>7. QED  BY <1>1, <1>2, <1>3, <1>4, <1>5, <1>6 DEF Next

\* An event a step records was at the head of what a handler had left to emit.
LEMMA EventCases ==
    ASSUME ReqsOK, [Next]_vars, NEW n \in events'
    PROVE  n \in events \/ \E r \in Request : \E i \in DOMAIN reqs[r].out : n = reqs[r].out[i]
<1>1. ASSUME NEW r \in Request, Emit(r)
      PROVE  n \in events \/ \E i \in DOMAIN reqs[r].out : n = reqs[r].out[i]
  <2>1. reqs[r].out \in Seq(Notice) /\ reqs[r].out # <<>>
      BY <1>1, RunningId DEF Emit, ReqsOK
  <2>2. 1 \in DOMAIN reqs[r].out /\ Head(reqs[r].out) = reqs[r].out[1]
      BY <2>1
  <2>3. QED  BY <1>1, <2>2 DEF Emit
<1>2. ASSUME NEW r \in Request, Commit(r)  PROVE UNCHANGED events
    BY <1>2, CommitCases DEF Committed
<1>3. ASSUME NEW r \in Request, NEW u \in User,
             \/ \E j \in Job : JobCheck(r, u, j)
             \/ \E p \in Proposal : ProposalCheck(r, u, p)
             \/ \E c \in Contract : ContractCheck(r, u, c)
      PROVE  UNCHANGED events
    BY <1>3
    DEF JobCheck, ChangeStatusCheck, DeleteJobCheck, ProposalCheck, SubmitCheck, RejectCheck,
        WithdrawCheck, DeleteProposalCheck, AcceptCheck, ContractCheck, CompleteCheck,
        CancelCheck, DeleteContractCheck, Checked
<1>4. ASSUME NEW r \in Request,
             \/ DeleteJobLoad(r) \/ DeleteProposalLoad(r) \/ Fail(r)
             \/ EmitFails(r) \/ DieAfterCommit(r)
      PROVE  UNCHANGED events
    BY <1>4
    DEF DeleteJobLoad, DeleteProposalLoad, Loaded, Fail, ChangeStatusFails, SubmitFails,
        DecisionFails, AcceptFails, EndContractFails, DieBeforeCommit, EmitFails,
        DieAfterCommit, RolledBack
<1>5. CASE UNCHANGED vars \/ \E u \in User, j \in Job : CreateJob(u, j)
    BY <1>5 DEF vars, CreateJob
<1>6. QED  BY <1>1, <1>2, <1>3, <1>4, <1>5 DEF Next

LEMMA NoPhantomStep ==
    ASSUME TypeOK, ContractRowsOK, NoPhantomNotice, [Next]_vars
    PROVE  NoPhantomNotice'
<1>1. ReqsOK /\ TablesTypeOK /\ events \subseteq Notice
    BY DEF TypeOK, ReqsOK
<1>2. Onward
    BY <1>1, StepImplements, OnwardStep
<1>3. Outstanding \subseteq Notice
    BY <1>1, RunningId DEF Outstanding
<1>4. ASSUME NEW n \in events \cup Outstanding  PROVE Happened(n)'
  <2>1. n \in Notice /\ Happened(n)
      BY <1>1, <1>3, <1>4 DEF NoPhantomNotice
  <2>2. QED  BY <1>2, <2>1, HappenedStep
<1>5. ASSUME NEW n \in events'  PROVE Happened(n)'
  <2>1. n \in events \cup Outstanding
      BY <1>1, <1>5, EventCases DEF Outstanding
  <2>2. QED  BY <1>4, <2>1
<1>6. ASSUME NEW n \in Outstanding'  PROVE Happened(n)'
  <2>1. PICK r \in Request : \E i \in DOMAIN reqs'[r].out : n = reqs'[r].out[i]
      BY <1>6 DEF Outstanding
  <2>2. PICK i \in DOMAIN reqs'[r].out : n = reqs'[r].out[i]
      BY <2>1
  <2>3. CASE OutKept(r)
    <3>1. n \in Outstanding
        BY <2>2, <2>3 DEF OutKept, Outstanding
    <3>2. QED  BY <1>4, <3>1
  <2>4. CASE OutCommitted(r)
    <3>1. PICK out \in Seq(Notice) : CommitNotices(r, out) /\ reqs'[r].out = out
        BY <2>4 DEF OutCommitted
    <3>2. i \in DOMAIN out /\ n = out[i]
        BY <2>2, <3>1
    <3>3. QED  BY <1>1, <3>1, <3>2, CommitHappened
  <2>5. QED  BY <1>1, <2>3, <2>4, OutCases
<1>7. QED  BY <1>5, <1>6 DEF NoPhantomNotice

\* A notice is recorded, or about to be, only after the commit of what it reports,
\* whatever transactions fail and whatever handlers die.
THEOREM NoticesAreTrue == Spec => []NoPhantomNotice
<1>1. Init => NoPhantomNotice
    BY DEF Init, IdleReq, NoPhantomNotice, Outstanding
<1>2. TypeOK /\ ContractRowsOK /\ NoPhantomNotice /\ [Next]_vars => NoPhantomNotice'
    BY NoPhantomStep
<1>3. TablesInv => ContractRowsOK
    BY DEF TablesInv
<1>4. QED
    BY <1>1, <1>2, <1>3, TypeCorrect, HandlersImplementTables, TablesConsistent, PTL DEF Spec

-----------------------------------------------------------------------------
(* What the checks are worth when handlers that work on one job do not     *)
(* overlap between check and commit, as if each locked the row of the job: *)
(* what a check has found is still so at the commit.                       *)

\* Handler r is between the check and the commit of work on job j or a proposal for it.
Holds(r, j) ==
    /\ reqs[r].pc \in {"checked", "loaded"}
    /\ \/ reqs[r].op \in JobOps /\ reqs[r].id = j
       \/ reqs[r].op \in ProposalOps /\ JobOf[reqs[r].id] = j
JobsLocked == \A j \in Job : \A r, s \in Request : Holds(r, j) /\ Holds(s, j) => r = s

\* What the check of a handler that is to commit has found, and still holds.
Stands(r) ==
    reqs[r].pc \in {"checked", "loaded"} =>
        /\ reqs[r].op \in {"publish", "close"} =>
              NewStatus(reqs[r].op) \in AllowedTransitions(jobs[reqs[r].id])
        /\ reqs[r].op = "deleteJob" =>
              /\ jobs[reqs[r].id] = "DRAFT"
              /\ \A p \in Proposal : JobOf[p] = reqs[r].id => ~ExistsProposal(p)
        /\ reqs[r].op = "submit" => jobs[JobOf[reqs[r].id]] = "PUBLISHED"
        /\ reqs[r].op \in {"reject", "withdraw", "deleteProposal", "accept"} =>
              proposals[reqs[r].id] = "PENDING"

\* A check that passes finds what the handler then relies on.
LEMMA CheckStands ==
    ASSUME ReqsOK, NEW r \in Request, NEW u \in User,
           \/ \E j \in Job : JobCheck(r, u, j)
           \/ \E p \in Proposal : ProposalCheck(r, u, p)
           \/ \E c \in Contract : ContractCheck(r, u, c)
    PROVE  Stands(r)'
<1>1. ASSUME NEW op, NEW id, Checked(r, op, id)
      PROVE  /\ UNCHANGED tables
             /\ reqs'[r].op = op /\ reqs'[r].id = id
    BY <1>1 DEF Checked, ReqsOK
<1> USE DEF Stands, tables, ExistsProposal
<1>2. ASSUME NEW j \in Job, JobCheck(r, u, j)  PROVE Stands(r)'
    BY <1>1, <1>2 DEF JobCheck, ChangeStatusCheck, DeleteJobCheck
<1>3. ASSUME NEW p \in Proposal, ProposalCheck(r, u, p)  PROVE Stands(r)'
    BY <1>1, <1>3
    DEF ProposalCheck, SubmitCheck, RejectCheck, WithdrawCheck, DeleteProposalCheck, AcceptCheck
<1>4. ASSUME NEW c \in Contract, ContractCheck(r, u, c)  PROVE Stands(r)'
    BY <1>1, <1>4 DEF ContractCheck, CompleteCheck, CancelCheck, DeleteContractCheck
<1>5. QED  BY <1>2, <1>3, <1>4

\* A job is created for nobody that is under way.
LEMMA CreateStands ==
    ASSUME TypeOK, NEW u \in User, NEW j \in Job, CreateJob(u, j), NEW r \in Request, Stands(r)
    PROVE  Stands(r)'
<1>1. /\ UNCHANGED <<reqs, proposals>> /\ jobs[j] = "NONE"
      /\ \A i \in Job : jobs[i] # "NONE" => jobs'[i] = jobs[i]
    BY DEF CreateJob, InsertJob, TypeOK, TablesTypeOK
<1>2. /\ reqs[r].op \in JobOps => reqs[r].id \in Job
      /\ reqs[r].op \in ProposalOps => reqs[r].id \in Proposal
    BY RunningId DEF TypeOK, ReqsOK
<1>3. \A p \in Proposal : JobOf[p] \in Job
    BY ForeignKeys
<1>4. "NONE" \notin {"DRAFT", "PUBLISHED", "CLOSED"} /\ AllowedTransitions("NONE") = {}
    BY DEF AllowedTransitions
<1>5. CASE reqs[r].op \in {"publish", "close"}
  <2>1. jobs[reqs[r].id] # "NONE" \/ reqs[r].pc \notin {"checked", "loaded"}
      BY <1>4, <1>5 DEF Stands
  <2>2. QED  BY <1>1, <1>2, <1>5, <2>1 DEF Stands, JobOps
<1>6. CASE reqs[r].op = "deleteJob"
    BY <1>1, <1>2, <1>6 DEF Stands, JobOps, ExistsProposal
<1>7. CASE reqs[r].op \notin {"publish", "close", "deleteJob"}
    BY <1>1, <1>2, <1>3, <1>7 DEF Stands, ProposalOps
<1>8. QED  BY <1>5, <1>6, <1>7

\* A transaction changes nothing of a job that its handler does not hold.
LEMMA CommitLocal ==
    ASSUME TypeOK, NEW r \in Request, Commit(r), NEW j \in Job, ~Holds(r, j)
    PROVE  /\ jobs'[j] = jobs[j]
           /\ \A p \in Proposal : JobOf[p] = j => proposals'[p] = proposals[p]
<1>1. /\ reqs[r].op \in JobOps => reqs[r].id \in Job
      /\ reqs[r].op \in ProposalOps => reqs[r].id \in Proposal
    BY RunningId DEF TypeOK, ReqsOK
<1> USE DEF Running, Holds, TypeOK, TablesTypeOK
<1>2. ASSUME NEW op \in {"publish", "close"}, ChangeStatusCommit(r, op)
      PROVE  UNCHANGED proposals /\ jobs'[j] = jobs[j]
    BY <1>1, <1>2 DEF ChangeStatusCommit, SetJobStatus, JobOps
<1>3. CASE DeleteJobCommit(r)
    BY <1>1, <1>3 DEF DeleteJobCommit, DeleteJob, JobOps
<1>4. ASSUME NEW p \in Proposal, p = reqs[r].id, JobOf[p] # j, UNCHANGED jobs,
             \E status : proposals' = [proposals EXCEPT ![p] = status]
      PROVE  jobs'[j] = jobs[j] /\ \A q \in Proposal : JobOf[q] = j => proposals'[q] = proposals[q]
    BY <1>4
<1>5. CASE SubmitCommit(r) \/ RejectCommit(r) \/ WithdrawCommit(r) \/ DeleteProposalCommit(r)
  <2>1. reqs[r].id \in Proposal /\ JobOf[reqs[r].id] # j
      BY <1>1, <1>5
      DEF SubmitCommit, RejectCommit, WithdrawCommit, DeleteProposalCommit, ProposalOps
  <2>2. UNCHANGED jobs /\ \E status : proposals' = [proposals EXCEPT ![reqs[r].id] = status]
      BY <1>5
      DEF SubmitCommit, RejectCommit, WithdrawCommit, DeleteProposalCommit, InsertProposal,
          SetProposalStatus, DeleteProposal
  <2>3. QED  BY <1>4, <2>1, <2>2
<1>6. ASSUME NEW c \in Contract, AcceptCommit(r, c)
      PROVE  jobs'[j] = jobs[j] /\ \A q \in Proposal : JobOf[q] = j => proposals'[q] = proposals[q]
    BY <1>1, <1>6, ForeignKeys DEF AcceptCommit, Award, ProposalOps
<1>7. CASE (\E op \in {"complete", "cancel"} : EndContractCommit(r, op)) \/ DeleteContractCommit(r)
    BY <1>7 DEF EndContractCommit, SetContractStatus, DeleteContractCommit, DeleteContract
<1>8. QED  BY <1>2, <1>3, <1>5, <1>6, <1>7 DEF Commit

\* What a handler relies on stays while the job that it holds does.
LEMMA StandsStays ==
    ASSUME TypeOK, NEW s \in Request, reqs'[s] = reqs[s], Stands(s),
           \A j \in Job : Holds(s, j) =>
               /\ jobs'[j] = jobs[j]
               /\ \A p \in Proposal : JobOf[p] = j => proposals'[p] = proposals[p]
    PROVE  Stands(s)'
<1>1. /\ reqs[s].op \in JobOps => reqs[s].id \in Job
      /\ reqs[s].op \in ProposalOps => reqs[s].id \in Proposal /\ JobOf[reqs[s].id] \in Job
    BY RunningId, ForeignKeys DEF TypeOK, ReqsOK
<1>2. CASE reqs[s].pc \notin {"checked", "loaded"}
    BY <1>2 DEF Stands
<1>3. CASE reqs[s].pc \in {"checked", "loaded"} /\ reqs[s].op \in JobOps
  <2>1. /\ jobs'[reqs[s].id] = jobs[reqs[s].id]
        /\ \A p \in Proposal : JobOf[p] = reqs[s].id => proposals'[p] = proposals[p]
      BY <1>1, <1>3 DEF Holds
  <2>2. QED  BY <1>3, <2>1 DEF Stands, JobOps, ExistsProposal
<1>4. CASE reqs[s].pc \in {"checked", "loaded"} /\ reqs[s].op \in ProposalOps
  <2>1. /\ jobs'[JobOf[reqs[s].id]] = jobs[JobOf[reqs[s].id]]
        /\ proposals'[reqs[s].id] = proposals[reqs[s].id]
      BY <1>1, <1>4 DEF Holds
  <2>2. QED  BY <1>4, <2>1 DEF Stands, ProposalOps
<1>5. CASE reqs[s].op \notin JobOps \cup ProposalOps
    BY <1>5 DEF Stands, JobOps, ProposalOps
<1>6. QED  BY <1>2, <1>3, <1>4, <1>5

\* A step of handler r.
Acts(r) ==
    \/ \E u \in User :
          \/ \E j \in Job : JobCheck(r, u, j)
          \/ \E p \in Proposal : ProposalCheck(r, u, p)
          \/ \E c \in Contract : ContractCheck(r, u, c)
    \/ DeleteJobLoad(r) \/ DeleteProposalLoad(r)
    \/ Commit(r) \/ Fail(r)
    \/ Emit(r) \/ EmitFails(r) \/ DieAfterCommit(r)

LEMMA ActsStands ==
    ASSUME TypeOK, NEW r \in Request, Stands(r), Acts(r)
    PROVE  /\ Stands(r)'
           /\ \A s \in Request : s # r => reqs'[s] = reqs[s]
           /\ Commit(r) \/ UNCHANGED tables
<1>1. ReqsOK
    BY DEF TypeOK, ReqsOK
<1> DEFINE Good == /\ Stands(r)'
                   /\ \A s \in Request : s # r => reqs'[s] = reqs[s]
                   /\ Commit(r) \/ UNCHANGED tables
<1>2. ASSUME reqs'[r].pc \notin {"checked", "loaded"}  PROVE Stands(r)'
    BY <1>2 DEF Stands
<1>3. ASSUME NEW u \in User,
             \/ \E j \in Job : JobCheck(r, u, j)
             \/ \E p \in Proposal : ProposalCheck(r, u, p)
             \/ \E c \in Contract : ContractCheck(r, u, c)
      PROVE  Good
  <2>1. PICK op, id : Checked(r, op, id)
      BY <1>3
      DEF JobCheck, ChangeStatusCheck, DeleteJobCheck, ProposalCheck, SubmitCheck, RejectCheck,
          WithdrawCheck, DeleteProposalCheck, AcceptCheck, ContractCheck, CompleteCheck,
          CancelCheck, DeleteContractCheck
  <2>2. UNCHANGED tables /\ \A s \in Request : s # r => reqs'[s] = reqs[s]
      BY <1>1, <2>1 DEF Checked, ReqsOK
  <2>3. QED  BY <1>1, <1>3, <2>2, CheckStands
<1>4. ASSUME RolledBack(r)  PROVE Good
    BY <1>1, <1>2, <1>4 DEF RolledBack, IdleReq, ReqsOK
<1>5. CASE DeleteJobLoad(r) \/ DeleteProposalLoad(r)
  <2>1. CASE RolledBack(r)
      BY <1>4, <2>1
  <2>2. CASE ~RolledBack(r)
    <3>1. /\ reqs[r].pc = "checked" /\ UNCHANGED tables
          /\ reqs'[r].op = reqs[r].op /\ reqs'[r].id = reqs[r].id
          /\ \A s \in Request : s # r => reqs'[s] = reqs[s]
        BY <1>1, <1>5, <2>2 DEF DeleteJobLoad, DeleteProposalLoad, Loaded, Running, ReqsOK
    <3>2. QED  BY <3>1 DEF Stands, tables, ExistsProposal
  <2>3. QED  BY <2>1, <2>2
<1>6. ASSUME NEW out, Notify(r, out)
      PROVE  Stands(r)' /\ \A s \in Request : s # r => reqs'[s] = reqs[s]
    BY <1>1, <1>2, <1>6 DEF Notify, IdleReq, ReqsOK
<1>7. CASE Commit(r)
    BY <1>1, <1>6, <1>7, CommitCases DEF Committed
<1>8. CASE Fail(r)
    BY <1>4, <1>8
    DEF Fail, ChangeStatusFails, SubmitFails, DecisionFails, AcceptFails, EndContractFails,
        DieBeforeCommit
<1>9. CASE Emit(r) \/ EmitFails(r)
    BY <1>6, <1>9 DEF Emit, EmitFails
<1>10. CASE DieAfterCommit(r)
    BY <1>1, <1>2, <1>10 DEF DieAfterCommit, IdleReq, ReqsOK
<1>11. QED  BY <1>3, <1>5, <1>7, <1>8, <1>9, <1>10 DEF Acts

LEMMA StandsStep ==
    ASSUME JobsLocked, TypeOK, \A s \in Request : Stands(s), [Next]_vars, NEW s \in Request
    PROVE  Stands(s)'
<1>1. ASSUME UNCHANGED tables, reqs'[s] = reqs[s]  PROVE Stands(s)'
    BY <1>1, StandsStays DEF tables
<1>2. ASSUME NEW r \in Request, Acts(r)  PROVE Stands(s)'
  <2>1. CASE s = r
      BY <1>2, <2>1, ActsStands
  <2>2. CASE s # r /\ Commit(r)
    <3>1. reqs'[s] = reqs[s]
        BY <1>2, <2>2, ActsStands
    <3>2. \A j \in Job : Holds(s, j) => ~Holds(r, j)
        BY <2>2 DEF JobsLocked
    <3>3. QED  BY <2>2, <3>1, <3>2, CommitLocal, StandsStays
  <2>3. CASE s # r /\ ~Commit(r)
      BY <1>1, <1>2, <2>3, ActsStands
  <2>4. QED  BY <2>1, <2>2, <2>3
<1>3. CASE UNCHANGED vars
    BY <1>1, <1>3 DEF vars, tables
<1>4. QED  BY <1>2, <1>3, CreateStands DEF Next, Acts

\* What one transaction of the tables does while the checks stand: every contract's job
\* stays closed, and neither a closed job nor a decided proposal changes.
StaysClosed == \A j \in Job : jobs[j] = "CLOSED" => jobs'[j] = "CLOSED"
StaysDecided ==
    \A p \in Proposal :
        proposals[p] \in ProposalStatus \ {"PENDING"} => proposals'[p] = proposals[p]

\* Of a contract that exists, as ContractClosesJob has it.
Closed(p) ==
    /\ proposals[p] = "ACCEPTED"
    /\ jobs[JobOf[p]] = "CLOSED"
    /\ \A q \in Proposal : JobOf[q] = JobOf[p] => proposals[q] # "PENDING"

LEMMA CommitLocked ==
    ASSUME TypeOK, TablesInv, ContractClosesJob, NEW r \in Request, Stands(r), Commit(r)
    PROVE  ContractClosesJob' /\ StaysClosed /\ StaysDecided
<1>1. /\ reqs[r].op \in JobOps => reqs[r].id \in Job
      /\ reqs[r].op \in ProposalOps => reqs[r].id \in Proposal
      /\ reqs[r].op \in ContractOps => reqs[r].id \in Contract
    BY RunningId DEF TypeOK, ReqsOK
<1>2. \A c \in Contract : ExistsContract(c) =>
          /\ contracts[c].proposal \in Proposal /\ JobOf[contracts[c].proposal] \in Job
          /\ Closed(contracts[c].proposal)
    BY ForeignKeys DEF ContractClosesJob, Closed, TablesInv, ContractIsGrounded, HasDecidedProposal
<1> USE DEF Stands, Running, TablesInv, TablesTypeOK
<1>3. ASSUME NEW op \in {"publish", "close"}, ChangeStatusCommit(r, op)
      PROVE  ContractClosesJob' /\ StaysClosed /\ StaysDecided
  <2>1. PICK j \in Job : j = reqs[r].id
      BY <1>1, <1>3 DEF ChangeStatusCommit, JobOps
  <2>2. /\ jobs' = [jobs EXCEPT ![j] = NewStatus(op)] /\ UNCHANGED <<proposals, contracts>>
        /\ NewStatus(op) \in AllowedTransitions(jobs[j])
      BY <1>3, <2>1 DEF ChangeStatusCommit, SetJobStatus
  <2>3. jobs[j] # "CLOSED"
      BY <2>2 DEF AllowedTransitions
  <2>4. QED
      BY <1>2, <2>2, <2>3
      DEF ContractClosesJob, Closed, ExistsContract, StaysClosed, StaysDecided
<1>4. CASE DeleteJobCommit(r)
  <2>1. PICK j \in Job : j = reqs[r].id
      BY <1>1, <1>4 DEF DeleteJobCommit, JobOps
  <2>2. jobs[j] = "DRAFT" /\ \A p \in Proposal : JobOf[p] = j => ~ExistsProposal(p)
      BY <1>4, <2>1 DEF DeleteJobCommit
  <2>3. {p \in Proposal : JobOf[p] = j /\ ExistsProposal(p)} = {}
      BY <2>2
  <2>4. /\ \A i \in Job : i # j => jobs'[i] = jobs[i]
        /\ \A p \in Proposal : proposals'[p] = proposals[p]
        /\ \A c \in Contract : contracts'[c] = contracts[c]
      BY <1>4, <2>1, <2>3 DEF DeleteJobCommit, DeleteJob, Cascade
  <2>5. QED
      BY <1>2, <2>2, <2>4
      DEF ContractClosesJob, Closed, ExistsContract, StaysClosed, StaysDecided
<1>5. CASE SubmitCommit(r)
  <2>1. PICK p \in Proposal : p = reqs[r].id
      BY <1>1, <1>5 DEF SubmitCommit, ProposalOps
  <2>2. /\ proposals' = [proposals EXCEPT ![p] = "PENDING"] /\ proposals[p] = "NONE"
        /\ UNCHANGED <<jobs, contracts>> /\ jobs[JobOf[p]] = "PUBLISHED"
      BY <1>5, <2>1 DEF SubmitCommit, InsertProposal, CanInsertProposal
  <2>3. QED
      BY <1>2, <2>2
      DEF ContractClosesJob, Closed, ExistsContract, StaysClosed, StaysDecided, ProposalStatus
<1>6. CASE RejectCommit(r) \/ WithdrawCommit(r)
  <2>1. PICK p \in Proposal : p = reqs[r].id
      BY <1>1, <1>6 DEF RejectCommit, WithdrawCommit, ProposalOps
  <2>2. PICK status \in {"REJECTED", "WITHDRAWN"} :
            proposals' = [proposals EXCEPT ![p] = status]
      BY <1>6, <2>1 DEF RejectCommit, WithdrawCommit, SetProposalStatus
  <2>3. proposals[p] = "PENDING" /\ UNCHANGED <<jobs, contracts>>
      BY <1>6, <2>1 DEF RejectCommit, WithdrawCommit, SetProposalStatus
  <2>4. QED
      BY <1>2, <2>2, <2>3
      DEF ContractClosesJob, Closed, ExistsContract, StaysClosed, StaysDecided
<1>7. CASE DeleteProposalCommit(r)
  <2>1. PICK p \in Proposal : p = reqs[r].id
      BY <1>1, <1>7 DEF DeleteProposalCommit, ProposalOps
  <2>2. proposals[p] = "PENDING"
      BY <1>7, <2>1 DEF DeleteProposalCommit
  <2>3. proposals' = [proposals EXCEPT ![p] = "DELETED"] /\ Cascade({p}) /\ UNCHANGED jobs
      BY <1>7, <2>1, <2>2 DEF DeleteProposalCommit, DeleteProposal, Removed, Absent
  <2>4. \A c \in Contract : ExistsContract(c)' =>
            ExistsContract(c) /\ contracts'[c] = contracts[c]
      BY <2>3 DEF Cascade, ExistsContract, Removed, Absent, ContractStatus
  <2>5. QED
      BY <1>2, <2>2, <2>3, <2>4 DEF ContractClosesJob, Closed, StaysClosed, StaysDecided
<1>8. ASSUME NEW d \in Contract, AcceptCommit(r, d)
      PROVE  ContractClosesJob' /\ StaysClosed /\ StaysDecided
  <2>1. PICK p \in Proposal : p = reqs[r].id
      BY <1>1, <1>8 DEF AcceptCommit, ProposalOps
  <2>2. proposals[p] = "PENDING" /\ Award(p, d)
      BY <1>8, <2>1 DEF AcceptCommit
  <2>3. /\ proposals'[p] = "ACCEPTED"
        /\ \A q \in Proposal : q # p => proposals'[q] =
              IF JobOf[q] = JobOf[p] /\ proposals[q] = "PENDING" THEN "REJECTED" ELSE proposals[q]
        /\ jobs'[JobOf[p]] = "CLOSED"
        /\ \A j \in Job : j # JobOf[p] => jobs'[j] = jobs[j]
        /\ contracts'[d].proposal = p
        /\ \A c \in Contract : c # d => contracts'[c] = contracts[c]
      BY <2>2, ForeignKeys DEF Award
  <2>4. Closed(p)'
      BY <2>3 DEF Closed
  <2>5. ASSUME NEW c \in Contract, c # d, ExistsContract(c)'
        PROVE  Closed(contracts[c].proposal)'
    <3>1. contracts'[c] = contracts[c] /\ ExistsContract(c)
        BY <2>3, <2>5 DEF ExistsContract
    <3>2. PICK o \in Proposal : o = contracts[c].proposal
        BY <1>2, <3>1
    <3>3. Closed(o) /\ JobOf[o] \in Job
        BY <1>2, <3>1, <3>2
    <3>4. JobOf[o] # JobOf[p] /\ o # p
        BY <2>2, <3>3 DEF Closed
    <3>5. Closed(o)'
        BY <2>3, <3>3, <3>4 DEF Closed
    <3>6. QED  BY <3>1, <3>2, <3>5 DEF Closed
  <2>6. ContractClosesJob'
      BY <2>3, <2>4, <2>5 DEF ContractClosesJob, Closed
  <2>7. QED  BY <2>2, <2>3, <2>6 DEF StaysClosed, StaysDecided
<1>9. ASSUME UNCHANGED <<jobs, proposals>>, NEW d \in Contract,
             ExistsContract(d) \/ contracts'[d].status \notin ContractStatus,
             \A c \in Contract : c # d => contracts'[c] = contracts[c],
             contracts'[d].proposal = contracts[d].proposal
      PROVE  ContractClosesJob' /\ StaysClosed /\ StaysDecided
    BY <1>2, <1>9 DEF ContractClosesJob, Closed, ExistsContract, StaysClosed, StaysDecided
<1>10. ASSUME NEW op \in {"complete", "cancel"}, EndContractCommit(r, op)
       PROVE  ContractClosesJob' /\ StaysClosed /\ StaysDecided
  <2>1. PICK d \in Contract : d = reqs[r].id
      BY <1>1, <1>10 DEF EndContractCommit, ContractOps
  <2>2. /\ contracts' = [contracts EXCEPT ![d].status = EndStatus(op)] /\ ExistsContract(d)
        /\ UNCHANGED <<jobs, proposals>>
      BY <1>10, <2>1 DEF EndContractCommit, SetContractStatus
  <2>3. QED  BY <1>9, <2>2 DEF ContractRow
<1>11. CASE DeleteContractCommit(r)
  <2>1. PICK d \in Contract : d = reqs[r].id
      BY <1>1, <1>11 DEF DeleteContractCommit, ContractOps
  <2>2. /\ contracts' = [contracts EXCEPT ![d].status = Removed(@)]
        /\ UNCHANGED <<jobs, proposals>>
      BY <1>11, <2>1 DEF DeleteContractCommit, DeleteContract
  <2>3. contracts'[d].status \notin ContractStatus
      BY <2>2 DEF Removed, Absent, ContractStatus, ContractRow
  <2>4. QED  BY <1>9, <2>2, <2>3 DEF ContractRow
<1>12. QED  BY <1>3, <1>4, <1>5, <1>6, <1>7, <1>8, <1>10, <1>11 DEF Commit

LEMMA StepLocked ==
    ASSUME TypeOK, TablesInv, ContractClosesJob, \A r \in Request : Stands(r), [Next]_vars
    PROVE  ContractClosesJob' /\ StaysClosed /\ StaysDecided
<1>1. CASE \E r \in Request : Commit(r)
    BY <1>1, CommitLocked
<1>2. ASSUME NEW u \in User, NEW j \in Job, CreateJob(u, j)
      PROVE  ContractClosesJob' /\ StaysClosed /\ StaysDecided
  <2>1. /\ UNCHANGED <<proposals, contracts>> /\ jobs[j] = "NONE"
        /\ \A i \in Job : i # j => jobs'[i] = jobs[i]
      BY <1>2 DEF CreateJob, InsertJob
  <2>2. \A c \in Contract : ExistsContract(c) => JobOf[contracts[c].proposal] \in Job
      BY ForeignKeys DEF TablesInv, ContractIsGrounded, HasDecidedProposal
  <2>3. QED
      BY <2>1, <2>2 DEF ContractClosesJob, ExistsContract, StaysClosed, StaysDecided
<1>3. CASE UNCHANGED tables
    BY <1>3 DEF tables, ContractClosesJob, ExistsContract, StaysClosed, StaysDecided
<1>4. QED  BY <1>1, <1>2, <1>3, OtherSteps

LEMMA LockedInvariance ==
    Spec /\ []JobsLocked => [](ContractClosesJob /\ \A r \in Request : Stands(r))
<1> DEFINE AllStand == \A r \in Request : Stands(r)
<1>1. Init => ContractClosesJob /\ AllStand
    BY DEF Init, TablesInit, ContractClosesJob, ExistsContract, ContractStatus, Stands, IdleReq
<1>2. ContractClosesJob /\ AllStand /\ JobsLocked /\ TypeOK /\ TablesInv /\ [Next]_vars
      => ContractClosesJob' /\ AllStand'
    BY StandsStep, StepLocked
<1> HIDE DEF AllStand
<1>3. Spec /\ []JobsLocked => [](ContractClosesJob /\ AllStand)
    BY <1>1, <1>2, TypeCorrect, HandlersImplementTables, TablesConsistent, PTL DEF Spec
<1>4. QED  BY <1>3 DEF AllStand

\* When handlers of one job do not overlap, a contract belongs to an accepted proposal and
\* a closed job, and no proposal for that job is pending: the checks are enough, and only
\* the time between a check and its commit can break this.
THEOREM LockedContractClosesJob == Spec /\ []JobsLocked => []ContractClosesJob
<1>1. QED  BY LockedInvariance, PTL

\* When handlers of one job do not overlap, no handler reopens or deletes a closed job.
THEOREM LockedClosedIsFinal == Spec /\ []JobsLocked => ClosedIsFinal
<1> DEFINE AllStand == \A r \in Request : Stands(r)
<1>1. TypeOK /\ TablesInv /\ ContractClosesJob /\ AllStand /\ [Next]_vars => [StaysClosed]_vars
    BY StepLocked
<1>2. Spec /\ []JobsLocked => [](ContractClosesJob /\ AllStand)
    BY LockedInvariance
<1> HIDE DEF AllStand
<1>3. QED
    BY <1>1, <1>2, TypeCorrect, HandlersImplementTables, TablesConsistent, PTL
    DEF Spec, ClosedIsFinal, StaysClosed

\* When handlers of one job do not overlap, a decision on a proposal is final.  When they
\* do it is not: the run decision_overwritten shows two that decide on one proposal.
THEOREM LockedDecisionIsFinal == Spec /\ []JobsLocked => DecisionIsFinal
<1> DEFINE AllStand == \A r \in Request : Stands(r)
<1>1. TypeOK /\ TablesInv /\ ContractClosesJob /\ AllStand /\ [Next]_vars => [StaysDecided]_vars
    BY StepLocked
<1>2. Spec /\ []JobsLocked => [](ContractClosesJob /\ AllStand)
    BY LockedInvariance
<1> HIDE DEF AllStand
<1>3. QED
    BY <1>1, <1>2, TypeCorrect, HandlersImplementTables, TablesConsistent, PTL
    DEF Spec, DecisionIsFinal, StaysDecided
=============================================================================
