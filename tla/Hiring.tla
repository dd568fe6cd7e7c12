------------------------------- MODULE Hiring -------------------------------
(***************************************************************************)
(* The handlers of jobs, proposals and contracts                           *)
(* (app/services/job_service.py, proposal_service.py, contract_service.py  *)
(* and the repositories they call) over the tables of HiringTables.        *)
(*                                                                         *)
(* Every handler runs in a thread and a database session of its own, at    *)
(* READ COMMITTED and without row locks: it reads and checks, and later it *)
(* commits what it decided.  A handler is therefore a request that goes    *)
(*                                                                         *)
(*    idle -> checked (-> loaded) -> notify -> idle                        *)
(*                                                                         *)
(* "checked": the SELECTs and the checks are done; together they are one   *)
(* step.  "loaded": a DELETE through the ORM; the flush has looked for a   *)
(* dependent contract, and the DELETE statement has yet to run.            *)
(* "notify": the transaction is committed, and emit() has yet to be called *)
(* for the notices in `out'.                                               *)
(***************************************************************************)
EXTENDS HiringTables, Naturals, Sequences

CONSTANTS
    Request,     \* the handlers that can be running at once
    NoId,        \* what an idle request holds
    MaxLost      \* bound: how often a handler may fail after its commit

ASSUME LostBound == MaxLost \in Nat

VARIABLES
    events,      \* notification_events rows: the idempotency keys recorded
    reqs,        \* request -> what its handler is doing
    lost         \* how often a handler failed after its commit

vars == <<jobs, proposals, contracts, events, reqs, lost>>

-----------------------------------------------------------------------------
\* An idempotency key: event type, entity and, where it has one, recipient.
Recipient == {"CLIENT", "FREELANCER"}
Notice ==
    [type : {"JOB_PUBLISHED", "JOB_CLOSED"}, id : Job, to : Recipient]
    \cup [type : {"PROPOSAL_RECEIVED", "PROPOSAL_ACCEPTED", "PROPOSAL_REJECTED"},
          id : Proposal, to : Recipient]
    \cup [type : {"CONTRACT_CREATED", "CONTRACT_COMPLETED", "CONTRACT_CANCELLED"},
          id : Contract, to : Recipient]
Key(type, id, to) == [type |-> type, id |-> id, to |-> to]

JobOps == {"publish", "close", "deleteJob"}
ProposalOps == {"submit", "reject", "withdraw", "deleteProposal", "accept"}
ContractOps == {"complete", "cancel", "deleteContract"}
IdleReq == [pc |-> "idle", op |-> "none", id |-> NoId, out |-> <<>>]
Pc == {"checked", "loaded", "notify"}
ReqType ==
    {IdleReq}
    \cup [pc : Pc, op : JobOps, id : Job, out : Seq(Notice)]
    \cup [pc : Pc, op : ProposalOps, id : Proposal, out : Seq(Notice)]
    \cup [pc : Pc, op : ContractOps, id : Contract, out : Seq(Notice)]

Init ==
    /\ TablesInit
    /\ events = {}
    /\ reqs = [r \in Request |-> IdleReq]
    /\ lost = 0

-----------------------------------------------------------------------------
(* The steps every handler is made of. *)

\* The checks passed: the handler goes on with what it has read.
Checked(r, op, id) ==
    /\ reqs[r].pc = "idle"
    /\ reqs' = [reqs EXCEPT ![r] = [pc |-> "checked", op |-> op, id |-> id, out |-> <<>>]]
    /\ UNCHANGED <<tables, events, lost>>

Running(r, pc, op) == reqs[r].pc = pc /\ reqs[r].op = op

\* What is left to emit; a handler with nothing left has answered.
Notify(r, out) ==
    reqs' = [reqs EXCEPT ![r] =
        IF out = <<>> THEN IdleReq
        ELSE [pc |-> "notify", op |-> reqs[r].op, id |-> reqs[r].id, out |-> out]]

Committed(r, out) == Notify(r, out) /\ UNCHANGED <<events, lost>>

\* An IntegrityError or a StaleDataError: the transaction is rolled back.
RolledBack(r) ==
    /\ reqs' = [reqs EXCEPT ![r] = IdleReq]
    /\ UNCHANGED <<tables, events, lost>>

\* The flush of a DELETE: with a dependent contract it would set the contract's
\* foreign key to NULL, which the column forbids.
Loaded(r, dependents) ==
    IF dependents # {}
      THEN RolledBack(r)
      ELSE /\ reqs' = [reqs EXCEPT ![r] = [pc |-> "loaded", op |-> reqs[r].op,
                                           id |-> reqs[r].id, out |-> <<>>]]
           /\ UNCHANGED <<tables, events, lost>>

\* emit(): a session of its own and one row per idempotency key.
Emit(r) ==
    /\ reqs[r].pc = "notify"
    /\ events' = events \cup {Head(reqs[r].out)}
    /\ Notify(r, Tail(reqs[r].out))
    /\ UNCHANGED <<tables, lost>>

\* emit() swallows every exception: this notice is not recorded.
EmitFails(r) ==
    /\ reqs[r].pc = "notify" /\ lost < MaxLost
    /\ lost' = lost + 1
    /\ Notify(r, Tail(reqs[r].out))
    /\ UNCHANGED <<tables, events>>

\* The process dies, the connection is lost, or refresh() finds the row gone.
\* What is not committed is rolled back; what is not emitted never will be.
DieBeforeCommit(r) ==
    /\ reqs[r].pc \in {"checked", "loaded"}
    /\ RolledBack(r)

DieAfterCommit(r) ==
    /\ reqs[r].pc = "notify" /\ lost < MaxLost
    /\ lost' = lost + 1
    /\ reqs' = [reqs EXCEPT ![r] = IdleReq]
    /\ UNCHANGED <<tables, events>>

-----------------------------------------------------------------------------
(* Jobs. *)

CreateJob(u, j) ==
    /\ u = OwnerOf[j]
    /\ InsertJob(j)
    /\ UNCHANGED <<events, reqs, lost>>

ReopeningTransitions(status) == {"PUBLISHED", "CLOSED"} \ {status}   \* a mutant
AllowedTransitions(status) ==
    CASE status = "DRAFT" -> {"PUBLISHED", "CLOSED"}
      [] status = "PUBLISHED" -> {"CLOSED"}
      [] OTHER -> {}

NewStatus(op) == IF op = "publish" THEN "PUBLISHED" ELSE "CLOSED"
StatusNotice(op) == IF op = "publish" THEN "JOB_PUBLISHED" ELSE "JOB_CLOSED"

ChangeStatusCheck(r, op, u, j) ==
    /\ u = OwnerOf[j]
    /\ ExistsJob(j)
    /\ NewStatus(op) \in AllowedTransitions(jobs[j])
    /\ Checked(r, op, j)

ChangeStatusCommit(r, op) ==
    /\ Running(r, "checked", op)
    /\ SetJobStatus(reqs[r].id, NewStatus(op))
    /\ Committed(r, <<Key(StatusNotice(op), reqs[r].id, "CLIENT")>>)

ChangeStatusFails(r, op) ==
    /\ Running(r, "checked", op)
    /\ ~ExistsJob(reqs[r].id)
    /\ RolledBack(r)

DeleteJobCheck(r, u, j) ==
    /\ u = OwnerOf[j]
    /\ jobs[j] = "DRAFT"
    /\ \A p \in Proposal : JobOf[p] = j => ~ExistsProposal(p)
    /\ Checked(r, "deleteJob", j)

DeleteJobLoad(r) ==
    /\ Running(r, "checked", "deleteJob")
    /\ Loaded(r, ContractsOfJob(reqs[r].id))

DeleteJobCommit(r) ==
    /\ Running(r, "loaded", "deleteJob")
    /\ DeleteJob(reqs[r].id)
    /\ Committed(r, <<>>)

-----------------------------------------------------------------------------
(* Proposals.  reject_proposal and withdraw_proposal are reached through    *)
(* update_proposal_status.                                                  *)

\* Two submissions of one freelancer for one job race for one id, or for two of them:
\* the row of the second is refused by the unique key either way.
SubmitCheck(r, u, p) ==
    /\ proposals[p] = "NONE"
    /\ u = FreelancerOf[p]
    /\ jobs[JobOf[p]] = "PUBLISHED"
    /\ u # OwnerOf[JobOf[p]]
    /\ Duplicates(p) = {}
    /\ Checked(r, "submit", p)

SubmitCommit(r) ==
    /\ Running(r, "checked", "submit")
    /\ InsertProposal(reqs[r].id)
    /\ Committed(r, <<Key("PROPOSAL_RECEIVED", reqs[r].id, "CLIENT")>>)

SubmitFails(r) ==
    /\ Running(r, "checked", "submit")
    /\ ~CanInsertProposal(reqs[r].id)
    /\ RolledBack(r)

RejectCheck(r, u, p) ==
    /\ u = OwnerOf[JobOf[p]]
    /\ proposals[p] = "PENDING"
    /\ Checked(r, "reject", p)

RejectCommit(r) ==
    /\ Running(r, "checked", "reject")
    /\ SetProposalStatus(reqs[r].id, "REJECTED")
    /\ Committed(r, <<Key("PROPOSAL_REJECTED", reqs[r].id, "FREELANCER")>>)

WithdrawCheck(r, u, p) ==
    /\ u = FreelancerOf[p]
    /\ proposals[p] = "PENDING"
    /\ Checked(r, "withdraw", p)

WithdrawCommit(r) ==
    /\ Running(r, "checked", "withdraw")
    /\ SetProposalStatus(reqs[r].id, "WITHDRAWN")
    /\ Committed(r, <<>>)

\* The UPDATE matches no row: StaleDataError.
DecisionFails(r) ==
    /\ Running(r, "checked", "reject") \/ Running(r, "checked", "withdraw")
    /\ ~ExistsProposal(reqs[r].id)
    /\ RolledBack(r)

DeleteProposalCheck(r, u, p) ==
    /\ u = FreelancerOf[p]
    /\ proposals[p] = "PENDING"
    /\ Checked(r, "deleteProposal", p)

DeleteProposalLoad(r) ==
    /\ Running(r, "checked", "deleteProposal")
    /\ Loaded(r, ContractsOfProposal(reqs[r].id))

DeleteProposalCommit(r) ==
    /\ Running(r, "loaded", "deleteProposal")
    /\ DeleteProposal(reqs[r].id)
    /\ Committed(r, <<>>)

AcceptCheck(r, u, p) ==
    /\ u = OwnerOf[JobOf[p]]
    /\ proposals[p] = "PENDING"
    /\ jobs[JobOf[p]] # "CLOSED"
    /\ ContractsOfJob(JobOf[p]) = {}
    /\ Checked(r, "accept", p)

\* A mutant: the job's other proposals are not turned down.
AcceptOnlyCommit(r, c) ==
    /\ Running(r, "checked", "accept")
    /\ CanAward(reqs[r].id) /\ contracts[c].status = "NONE"
    /\ proposals' = [proposals EXCEPT ![reqs[r].id] = "ACCEPTED"]
    /\ jobs' = [jobs EXCEPT ![JobOf[reqs[r].id]] = "CLOSED"]
    /\ contracts' = [contracts EXCEPT ![c] = [status |-> "ACTIVE", proposal |-> reqs[r].id]]
    /\ Committed(r, <<>>)

AcceptCommit(r, c) ==
    /\ Running(r, "checked", "accept")
    /\ Award(reqs[r].id, c)
    /\ Committed(r, <<Key("PROPOSAL_ACCEPTED", reqs[r].id, "FREELANCER"),
                      Key("CONTRACT_CREATED", c, "CLIENT"),
                      Key("CONTRACT_CREATED", c, "FREELANCER")>>)

\* Mutants: the proposal is accepted in a transaction of its own before the contract
\* fails to be inserted; the notices go out though the commit failed.
AcceptHalfFails(r) ==
    /\ Running(r, "checked", "accept")
    /\ ~CanAward(reqs[r].id)
    /\ SetProposalStatus(reqs[r].id, "ACCEPTED")
    /\ Committed(r, <<>>)

AcceptFailsLoudly(r) ==
    /\ Running(r, "checked", "accept")
    /\ ~CanAward(reqs[r].id)
    /\ Committed(r, <<Key("PROPOSAL_ACCEPTED", reqs[r].id, "FREELANCER")>>)
    /\ UNCHANGED tables

AcceptFails(r) ==
    /\ Running(r, "checked", "accept")
    /\ ~CanAward(reqs[r].id)
    /\ RolledBack(r)

-----------------------------------------------------------------------------
(* Contracts, through update_contract_status and delete_contract.  What     *)
(* complete_contract and cancel_contract ask of the milestones is left to   *)
(* ContractWork: here the answer may be either.                             *)

ClientOf(c) == OwnerOf[JobOf[contracts[c].proposal]]
Participants(c) == {ClientOf(c), FreelancerOf[contracts[c].proposal]}

CompleteCheck(r, u, c) ==
    /\ contracts[c].status = "ACTIVE"
    /\ u = ClientOf(c)
    /\ Checked(r, "complete", c)

CancelCheck(r, u, c) ==
    /\ contracts[c].status = "ACTIVE"
    /\ u \in Participants(c)
    /\ Checked(r, "cancel", c)

EndStatusVerb(op) == op   \* a mutant: the row gets the request's word
EndStatus(op) == IF op = "complete" THEN "COMPLETED" ELSE "CANCELLED"
EndNotice(op) == IF op = "complete" THEN "CONTRACT_COMPLETED" ELSE "CONTRACT_CANCELLED"

EndContractCommit(r, op) ==
    /\ Running(r, "checked", op)
    /\ SetContractStatus(reqs[r].id, EndStatus(op))
    /\ Committed(r, <<Key(EndNotice(op), reqs[r].id, "CLIENT"),
                      Key(EndNotice(op), reqs[r].id, "FREELANCER")>>)

EndContractFails(r, op) ==
    /\ Running(r, "checked", op)
    /\ ~ExistsContract(reqs[r].id)
    /\ RolledBack(r)

DeleteContractCheck(r, u, c) ==
    /\ contracts[c].status = "CANCELLED"
    /\ u \in Participants(c)
    /\ Checked(r, "deleteContract", c)

DeleteContractCommit(r) ==
    /\ Running(r, "checked", "deleteContract")
    /\ DeleteContract(reqs[r].id)
    /\ Committed(r, <<>>)

-----------------------------------------------------------------------------
JobCheck(r, u, j) ==
    \/ \E op \in {"publish", "close"} : ChangeStatusCheck(r, op, u, j)
    \/ DeleteJobCheck(r, u, j)
ProposalCheck(r, u, p) ==
    \/ SubmitCheck(r, u, p) \/ RejectCheck(r, u, p) \/ WithdrawCheck(r, u, p)
    \/ DeleteProposalCheck(r, u, p) \/ AcceptCheck(r, u, p)
ContractCheck(r, u, c) ==
    CompleteCheck(r, u, c) \/ CancelCheck(r, u, c) \/ DeleteContractCheck(r, u, c)

\* A transaction of the tables commits.
Commit(r) ==
    \/ \E op \in {"publish", "close"} : ChangeStatusCommit(r, op)
    \/ DeleteJobCommit(r)
    \/ SubmitCommit(r) \/ RejectCommit(r) \/ WithdrawCommit(r) \/ DeleteProposalCommit(r)
    \/ \E c \in Contract : AcceptCommit(r, c)
    \/ \E op \in {"complete", "cancel"} : EndContractCommit(r, op)
    \/ DeleteContractCommit(r)

\* A transaction fails at its flush or commit.
Fail(r) ==
    \/ \E op \in {"publish", "close"} : ChangeStatusFails(r, op)
    \/ SubmitFails(r) \/ DecisionFails(r) \/ AcceptFails(r)
    \/ \E op \in {"complete", "cancel"} : EndContractFails(r, op)
    \/ DieBeforeCommit(r)

Next ==
    \/ \E u \in User, j \in Job : CreateJob(u, j)
    \/ \E r \in Request :
        \/ \E u \in User :
            \/ \E j \in Job : JobCheck(r, u, j)
            \/ \E p \in Proposal : ProposalCheck(r, u, p)
            \/ \E c \in Contract : ContractCheck(r, u, c)
        \/ DeleteJobLoad(r) \/ DeleteProposalLoad(r)
        \/ Commit(r) \/ Fail(r)
        \/ Emit(r) \/ EmitFails(r) \/ DieAfterCommit(r)

Spec == Init /\ [][Next]_vars

-----------------------------------------------------------------------------
TypeOK ==
    /\ TablesTypeOK
    /\ events \subseteq Notice
    /\ reqs \in [Request -> ReqType]
    /\ \A r \in Request : reqs[r].pc = "notify" <=> reqs[r].out # <<>>
    /\ lost \in 0..MaxLost

\* The notices running handlers have yet to emit.
Outstanding == UNION {{reqs[r].out[i] : i \in DOMAIN reqs[r].out} : r \in Request}

\* What a notice says has been committed, at some time, when it is recorded or
\* about to be: emit() runs only after the commit of what it reports.
Happened(n) ==
    /\ n.type \in {"JOB_PUBLISHED", "JOB_CLOSED"} => jobs[n.id] \notin {"NONE", "DRAFT"}
    /\ n.type = "PROPOSAL_RECEIVED" => proposals[n.id] # "NONE"
    /\ n.type = "PROPOSAL_REJECTED" => proposals[n.id] \notin {"NONE", "PENDING"}
    /\ n.type = "PROPOSAL_ACCEPTED" => \E c \in Contract : contracts[c].proposal = n.id
    /\ n.type = "CONTRACT_CREATED" => contracts[n.id].status # "NONE"
    /\ n.type \in {"CONTRACT_COMPLETED", "CONTRACT_CANCELLED"}
         => contracts[n.id].status \notin {"NONE", "ACTIVE"}
NoPhantomNotice == \A n \in events \cup Outstanding : Happened(n)

-----------------------------------------------------------------------------
(* What holds as long as handlers do not overlap: the checks are right, and *)
(* only the time between a check and its commit can break these.            *)

\* A contract belongs to an ACCEPTED proposal and a CLOSED job, and the other
\* proposals for that job have been turned down.
ContractClosesJob ==
    \A c \in Contract : ExistsContract(c) =>
        LET p == contracts[c].proposal IN
        /\ proposals[p] = "ACCEPTED"
        /\ jobs[JobOf[p]] = "CLOSED"
        /\ \A q \in Proposal : JobOf[q] = JobOf[p] => proposals[q] # "PENDING"

\* _ALLOWED_TRANSITIONS has no way out of CLOSED, and no delete reaches a closed job.
ClosedIsFinal == [][\A j \in Job : jobs[j] = "CLOSED" => jobs'[j] = "CLOSED"]_vars

\* accept, reject, withdraw and delete act on pending proposals only, so a
\* decision is final.
DecisionIsFinal ==
    [][\A p \in Proposal :
          proposals[p] \in ProposalStatus \ {"PENDING"} => proposals'[p] = proposals[p]]_vars

\* The outbox as README.md describes it: once a contract is committed, the notices
\* of it are recorded, or a handler is still about to record them.
CreationIsNotified ==
    \A c \in Contract : contracts[c].status # "NONE" =>
        \A to \in Recipient : Key("CONTRACT_CREATED", c, to) \in events \cup Outstanding
=============================================================================
