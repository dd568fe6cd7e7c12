---------------------------- MODULE HiringTables ----------------------------
(***************************************************************************)
(* The tables jobs, proposals and contracts, and every transaction that    *)
(* app/services commits on them.  A transaction takes effect at its commit *)
(* as one step; primary, unique and foreign keys and ON DELETE CASCADE     *)
(* (app/models) are part of it.                                            *)
(*                                                                         *)
(* TablesSpec lets any transaction commit at any time: it is what a client *)
(* of the database can rely on however the handlers interleave and however *)
(* stale the checks are that they made before.  Hiring adds the handlers   *)
(* and implements this specification.                                      *)
(***************************************************************************)

CONSTANTS
    Job, Proposal, Contract,    \* ids (uuid4): each names one row, once
    User,                       \* accounts
    OwnerOf,                    \* jobs.client_id
    JobOf, FreelancerOf,        \* proposals.job_id, proposals.freelancer_id
    NoProposal                  \* contracts.proposal_id before the row exists

ASSUME ForeignKeys ==
    /\ OwnerOf \in [Job -> User]
    /\ JobOf \in [Proposal -> Job]
    /\ FreelancerOf \in [Proposal -> User]

ASSUME NotAProposal == NoProposal \notin Proposal

VARIABLES
    jobs,        \* job -> status; "NONE" before the row exists
    proposals,   \* proposal -> status
    contracts    \* contract -> [status, proposal]; a removed row keeps its proposal

tables == <<jobs, proposals, contracts>>

-----------------------------------------------------------------------------
JobStatus == {"DRAFT", "PUBLISHED", "CLOSED"}
ProposalStatus == {"PENDING", "ACCEPTED", "REJECTED", "WITHDRAWN"}
ContractStatus == {"ACTIVE", "COMPLETED", "CANCELLED"}
Absent == {"NONE", "DELETED"}
ContractRow == [status : ContractStatus \cup Absent, proposal : Proposal \cup {NoProposal}]

ExistsJob(j) == jobs[j] \in JobStatus
ExistsProposal(p) == proposals[p] \in ProposalStatus
ExistsContract(c) == contracts[c].status \in ContractStatus
ContractsOfProposal(p) == {c \in Contract : ExistsContract(c) /\ contracts[c].proposal = p}
ContractsOfJob(j) ==
    {c \in Contract : ExistsContract(c) /\ JobOf[contracts[c].proposal] = j}

\* The rows of p's freelancer for p's job: the key uq_proposal_job_freelancer.
Duplicates(p) ==
    {q \in Proposal : /\ JobOf[q] = JobOf[p]
                      /\ FreelancerOf[q] = FreelancerOf[p]
                      /\ ExistsProposal(q)}

\* A DELETE of a row that is not there removes nothing and raises nothing.
Removed(status) == IF status \in Absent THEN status ELSE "DELETED"

TablesInit ==
    /\ jobs = [j \in Job |-> "NONE"]
    /\ proposals = [p \in Proposal |-> "NONE"]
    /\ contracts = [c \in Contract |-> [status |-> "NONE", proposal |-> NoProposal]]

-----------------------------------------------------------------------------
(* jobs *)

InsertJob(j) ==
    /\ jobs[j] = "NONE"
    /\ jobs' = [jobs EXCEPT ![j] = "DRAFT"]
    /\ UNCHANGED <<proposals, contracts>>

\* set_status writes the new status whatever the row holds by now.
SetJobStatus(j, status) ==
    /\ ExistsJob(j)
    /\ jobs' = [jobs EXCEPT ![j] = status]
    /\ UNCHANGED <<proposals, contracts>>

CascadeForgotten(removed) == UNCHANGED contracts   \* a mutant: no ON DELETE CASCADE

\* ON DELETE CASCADE from proposals to their contracts.
Cascade(removed) ==
    contracts' = [c \in Contract |->
        IF contracts[c].proposal \in removed
          THEN [status |-> Removed(contracts[c].status), proposal |-> contracts[c].proposal]
          ELSE contracts[c]]

DeleteJob(j) ==
    /\ jobs' = [jobs EXCEPT ![j] = Removed(@)]
    /\ LET removed == {p \in Proposal : JobOf[p] = j /\ ExistsProposal(p)} IN
       /\ proposals' = [p \in Proposal |-> IF p \in removed THEN "DELETED" ELSE proposals[p]]
       /\ Cascade(removed)

-----------------------------------------------------------------------------
(* proposals *)

\* A mutant: INSERT ... ON CONFLICT DO UPDATE.
CanUpsertProposal(p) == ExistsJob(JobOf[p]) /\ Duplicates(p) \subseteq {p}
CanInsertProposal(p) ==
    proposals[p] = "NONE" /\ ExistsJob(JobOf[p]) /\ Duplicates(p) = {}

InsertProposal(p) ==
    /\ CanInsertProposal(p)
    /\ proposals' = [proposals EXCEPT ![p] = "PENDING"]
    /\ UNCHANGED <<jobs, contracts>>

\* A decision is written over whatever status the row has by now.
SetProposalStatus(p, status) ==
    /\ ExistsProposal(p)
    /\ proposals' = [proposals EXCEPT ![p] = status]
    /\ UNCHANGED <<jobs, contracts>>

DeleteProposal(p) ==
    /\ proposals' = [proposals EXCEPT ![p] = Removed(@)]
    /\ Cascade({p})
    /\ UNCHANGED jobs

-----------------------------------------------------------------------------
(* contracts *)

CanAwardAgain(p) == ExistsProposal(p)   \* a mutant: without the unique keys

\* contracts.job_id is unique, and so is contracts.proposal_id (which the former
\* implies); the UPDATE of the proposal must match its row.
CanAward(p) == ExistsProposal(p) /\ ContractsOfJob(JobOf[p]) = {}

\* accept_proposal's transaction: this proposal ACCEPTED, every other PENDING one of
\* the job REJECTED, the job CLOSED and the contract inserted.
Award(p, c) ==
    /\ CanAward(p)
    /\ contracts[c].status = "NONE"
    /\ proposals' = [q \in Proposal |->
          IF q = p THEN "ACCEPTED"
          ELSE IF JobOf[q] = JobOf[p] /\ proposals[q] = "PENDING" THEN "REJECTED"
          ELSE proposals[q]]
    /\ jobs' = [jobs EXCEPT ![JobOf[p]] = "CLOSED"]
    /\ contracts' = [contracts EXCEPT ![c] = [status |-> "ACTIVE", proposal |-> p]]

SetContractStatus(c, status) ==
    /\ ExistsContract(c)
    /\ contracts' = [contracts EXCEPT ![c].status = status]
    /\ UNCHANGED <<jobs, proposals>>

DeleteContract(c) ==
    /\ contracts' = [contracts EXCEPT ![c].status = Removed(@)]
    /\ UNCHANGED <<jobs, proposals>>

-----------------------------------------------------------------------------
JobTransaction(j) ==
    \/ InsertJob(j)
    \/ \E status \in {"PUBLISHED", "CLOSED"} : SetJobStatus(j, status)
    \/ DeleteJob(j)

ProposalTransaction(p) ==
    \/ InsertProposal(p)
    \/ \E status \in {"REJECTED", "WITHDRAWN"} : SetProposalStatus(p, status)
    \/ DeleteProposal(p)

ContractTransaction(c) ==
    \/ \E p \in Proposal : Award(p, c)
    \/ \E status \in {"COMPLETED", "CANCELLED"} : SetContractStatus(c, status)
    \/ DeleteContract(c)

TablesNext ==
    \/ \E j \in Job : JobTransaction(j)
    \/ \E p \in Proposal : ProposalTransaction(p)
    \/ \E c \in Contract : ContractTransaction(c)

TablesSpec == TablesInit /\ [][TablesNext]_tables

-----------------------------------------------------------------------------
TablesTypeOK ==
    /\ jobs \in [Job -> JobStatus \cup Absent]
    /\ proposals \in [Proposal -> ProposalStatus \cup Absent]
    /\ contracts \in [Contract -> ContractRow]

\* A contract id is unused exactly as long as no proposal is recorded for it.
ContractRowsOK ==
    \A c \in Contract : contracts[c].status = "NONE" <=> contracts[c].proposal = NoProposal

\* However two acceptances interleave, a job has at most one contract
\* (accept_proposal's check of job.contract is stale by the time it commits).
OneContractPerJob ==
    \A c, d \in Contract :
        /\ ExistsContract(c) /\ ExistsContract(d)
        /\ JobOf[contracts[c].proposal] = JobOf[contracts[d].proposal]
        => c = d

\* However two submissions interleave, a freelancer has at most one proposal for a
\* job (submit_proposal's check of the existing ones is stale when it commits).
OneProposalPerFreelancer ==
    \A p, q \in Proposal :
        /\ ExistsProposal(p) /\ ExistsProposal(q)
        /\ JobOf[p] = JobOf[q] /\ FreelancerOf[p] = FreelancerOf[q]
        => p = q

\* A proposal is ACCEPTED only together with its contract: no interleaving, no
\* rollback and no crash leaves an accepted proposal for which accept_proposal
\* never inserted one (the contract may have been deleted since).
AcceptedHasContract ==
    \A p \in Proposal : proposals[p] = "ACCEPTED" =>
        \E c \in Contract : contracts[c].proposal = p

HasDecidedProposal(c) ==
    LET p == contracts[c].proposal IN
    p \in Proposal /\ ExistsProposal(p) /\ proposals[p] # "PENDING"

\* A contract refers to a proposal row that exists and is decided, and that one to
\* a job row that exists, whatever stale deletes and status writes commit.
ContractIsGrounded ==
    /\ \A p \in Proposal : ExistsProposal(p) => ExistsJob(JobOf[p])
    /\ \A c \in Contract : ExistsContract(c) => HasDecidedProposal(c)

TablesInv ==
    /\ TablesTypeOK
    /\ ContractRowsOK
    /\ OneContractPerJob
    /\ OneProposalPerFreelancer
    /\ AcceptedHasContract
    /\ ContractIsGrounded

\* No transaction takes a row back to where it was before: a job is never a draft
\* again, a decided proposal never pending again, an ended contract never active
\* again, and no id is used for a second row.
NothingIsUndone ==
    [][/\ \A j \in Job : jobs[j] \notin {"NONE", "DRAFT"} => jobs'[j] \notin {"NONE", "DRAFT"}
       /\ \A p \in Proposal :
             /\ proposals[p] # "NONE" => proposals'[p] # "NONE"
             /\ proposals[p] \notin {"NONE", "PENDING"}
                => proposals'[p] \notin {"NONE", "PENDING"}
       /\ \A c \in Contract :
             /\ contracts[c].status # "NONE"
                => contracts'[c].status # "NONE" /\ contracts'[c].proposal = contracts[c].proposal
             /\ contracts[c].status \notin {"NONE", "ACTIVE"}
                => contracts'[c].status \notin {"NONE", "ACTIVE"}]_tables
=============================================================================
