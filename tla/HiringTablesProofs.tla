------------------------- MODULE HiringTablesProofs -------------------------
(* Proofs about the transactions of HiringTables, for any tables, and about  *)
(* the reports that Analytics reads from them, for any calendar.             *)
EXTENDS Analytics, TLAPS, FiniteSetTheorems, WellFoundedInduction

\* ON DELETE CASCADE keeps the rows typed and never revives one.
LEMMA CascadeFacts ==
    ASSUME TablesTypeOK, NEW removed, Cascade(removed), NEW c \in Contract
    PROVE  /\ contracts'[c] \in ContractRow
           /\ contracts'[c].proposal = contracts[c].proposal
           /\ contracts'[c].status = "NONE" <=> contracts[c].status = "NONE"
           /\ ExistsContract(c)' <=> ExistsContract(c) /\ contracts[c].proposal \notin removed
           /\ ~ExistsContract(c) => contracts'[c] = contracts[c]
<1>1. contracts[c] \in ContractRow
    BY DEF TablesTypeOK
<1>2. CASE contracts[c].proposal \in removed
    BY <1>1, <1>2 DEF Cascade, ContractRow, ExistsContract, Removed, Absent, ContractStatus
<1>3. CASE contracts[c].proposal \notin removed
    BY <1>1, <1>3 DEF Cascade, ExistsContract
<1>4. QED  BY <1>2, <1>3

\* Each transaction, by name.
LEMMA TablesCases ==
    ASSUME [TablesNext]_tables
    PROVE  \/ \E j \in Job : InsertJob(j)
           \/ \E j \in Job, status \in {"PUBLISHED", "CLOSED"} : SetJobStatus(j, status)
           \/ \E j \in Job : DeleteJob(j)
           \/ \E p \in Proposal : InsertProposal(p)
           \/ \E p \in Proposal, status \in {"REJECTED", "WITHDRAWN"} :
                 SetProposalStatus(p, status)
           \/ \E p \in Proposal : DeleteProposal(p)
           \/ \E c \in Contract, p \in Proposal : Award(p, c)
           \/ \E c \in Contract, status \in {"COMPLETED", "CANCELLED"} :
                 SetContractStatus(c, status)
           \/ \E c \in Contract : DeleteContract(c)
           \/ UNCHANGED tables
    BY DEF TablesNext, JobTransaction, ProposalTransaction, ContractTransaction

LEMMA TablesTypeStep ==
    ASSUME TablesTypeOK, [TablesNext]_tables
    PROVE  TablesTypeOK'
<1> USE DEF TablesTypeOK
<1>1. ASSUME NEW j \in Job, InsertJob(j) \/ \E s \in {"PUBLISHED", "CLOSED"} : SetJobStatus(j, s)
      PROVE  TablesTypeOK'
    BY <1>1 DEF InsertJob, SetJobStatus, JobStatus
<1>2. ASSUME NEW j \in Job, DeleteJob(j)  PROVE TablesTypeOK'
  <2>1. contracts' \in [Contract -> ContractRow]
      BY <1>2, CascadeFacts DEF DeleteJob, Cascade
  <2>2. QED  BY <1>2, <2>1 DEF DeleteJob, Removed, Absent
<1>3. ASSUME NEW p \in Proposal,
             InsertProposal(p) \/ \E s \in {"REJECTED", "WITHDRAWN"} : SetProposalStatus(p, s)
      PROVE  TablesTypeOK'
    BY <1>3 DEF InsertProposal, SetProposalStatus, ProposalStatus
<1>4. ASSUME NEW p \in Proposal, DeleteProposal(p)  PROVE TablesTypeOK'
  <2>1. contracts' \in [Contract -> ContractRow]
      BY <1>4, CascadeFacts DEF DeleteProposal, Cascade
  <2>2. QED  BY <1>4, <2>1 DEF DeleteProposal, Removed, Absent
<1>5. ASSUME NEW c \in Contract, NEW p \in Proposal, Award(p, c)  PROVE TablesTypeOK'
    BY <1>5 DEF Award, JobStatus, ProposalStatus, ContractStatus, ContractRow
<1>6. ASSUME NEW c \in Contract, NEW s \in {"COMPLETED", "CANCELLED"}, SetContractStatus(c, s)
      PROVE  TablesTypeOK'
    BY <1>6 DEF SetContractStatus, ContractStatus, ContractRow
<1>7. ASSUME NEW c \in Contract, DeleteContract(c)  PROVE TablesTypeOK'
    BY <1>7 DEF DeleteContract, Removed, Absent, ContractRow
<1>8. CASE UNCHANGED tables
    BY <1>8 DEF tables
<1>9. QED  BY <1>1, <1>2, <1>3, <1>4, <1>5, <1>6, <1>7, <1>8, TablesCases

\* NothingIsUndone, for one step.
Onward ==
    /\ \A j \in Job : jobs[j] \notin {"NONE", "DRAFT"} => jobs'[j] \notin {"NONE", "DRAFT"}
    /\ \A p \in Proposal :
          /\ proposals[p] # "NONE" => proposals'[p] # "NONE"
          /\ proposals[p] \notin {"NONE", "PENDING"} => proposals'[p] \notin {"NONE", "PENDING"}
    /\ \A c \in Contract :
          /\ contracts[c].status # "NONE"
             => contracts'[c].status # "NONE" /\ contracts'[c].proposal = contracts[c].proposal
          /\ contracts[c].status \notin {"NONE", "ACTIVE"}
             => contracts'[c].status \notin {"NONE", "ACTIVE"}

LEMMA OnwardStep ==
    ASSUME TablesTypeOK, [TablesNext]_tables
    PROVE  Onward
<1> USE DEF TablesTypeOK, Onward
<1>1. ASSUME NEW j \in Job, InsertJob(j) \/ \E s \in {"PUBLISHED", "CLOSED"} : SetJobStatus(j, s)
      PROVE  Onward
    BY <1>1 DEF InsertJob, SetJobStatus
<1>2. ASSUME NEW S, Cascade(S)
      PROVE  \A c \in Contract :
               /\ contracts[c].status # "NONE"
                  => /\ contracts'[c].status # "NONE"
                     /\ contracts'[c].proposal = contracts[c].proposal
               /\ contracts[c].status \notin {"NONE", "ACTIVE"}
                  => contracts'[c].status \notin {"NONE", "ACTIVE"}
  <2>1. SUFFICES ASSUME NEW c \in Contract
                 PROVE  /\ contracts[c].status # "NONE"
                           => /\ contracts'[c].status # "NONE"
                              /\ contracts'[c].proposal = contracts[c].proposal
                        /\ contracts[c].status \notin {"NONE", "ACTIVE"}
                           => contracts'[c].status \notin {"NONE", "ACTIVE"}
      OBVIOUS
  <2>2. QED  BY <1>2, CascadeFacts DEF Cascade, Removed, Absent
<1>3. ASSUME NEW j \in Job, DeleteJob(j)  PROVE Onward
    BY <1>2, <1>3 DEF DeleteJob, Removed, Absent
<1>4. ASSUME NEW p \in Proposal,
             InsertProposal(p) \/ \E s \in {"REJECTED", "WITHDRAWN"} : SetProposalStatus(p, s)
      PROVE  Onward
    BY <1>4 DEF InsertProposal, CanInsertProposal, SetProposalStatus
<1>5. ASSUME NEW p \in Proposal, DeleteProposal(p)  PROVE Onward
    BY <1>2, <1>5 DEF DeleteProposal, Removed, Absent
<1>6. ASSUME NEW c \in Contract, NEW p \in Proposal, Award(p, c)  PROVE Onward
    BY <1>6 DEF Award
<1>7. ASSUME NEW c \in Contract, NEW s \in {"COMPLETED", "CANCELLED"}, SetContractStatus(c, s)
      PROVE  Onward
    BY <1>7 DEF SetContractStatus, ContractRow
<1>8. ASSUME NEW c \in Contract, DeleteContract(c)  PROVE Onward
    BY <1>8 DEF DeleteContract, Removed, ContractRow
<1>9. CASE UNCHANGED tables
    BY <1>9 DEF tables
<1>10. QED  BY <1>1, <1>3, <1>4, <1>5, <1>6, <1>7, <1>8, <1>9, TablesCases

-----------------------------------------------------------------------------
(* The inductive invariant, one lemma per conjunct. *)

LEMMA RowsStep ==
    ASSUME TablesTypeOK, ContractRowsOK, [TablesNext]_tables
    PROVE  ContractRowsOK'
<1> USE DEF TablesTypeOK, ContractRowsOK
<1>1. ASSUME NEW S, Cascade(S)  PROVE ContractRowsOK'
    BY <1>1, CascadeFacts
<1>2. ASSUME NEW c \in Contract, NEW p \in Proposal, Award(p, c)  PROVE ContractRowsOK'
    BY <1>2, NotAProposal DEF Award
<1>3. ASSUME NEW c \in Contract, NEW s \in {"COMPLETED", "CANCELLED"}, SetContractStatus(c, s)
      PROVE  ContractRowsOK'
    BY <1>3 DEF SetContractStatus, ExistsContract, ContractStatus, ContractRow
<1>4. ASSUME NEW c \in Contract, DeleteContract(c)  PROVE ContractRowsOK'
    BY <1>4 DEF DeleteContract, Removed, Absent, ContractRow
<1>5. CASE UNCHANGED contracts
    BY <1>5
<1>6. QED
    BY <1>1, <1>2, <1>3, <1>4, <1>5, TablesCases
    DEF InsertJob, SetJobStatus, DeleteJob, InsertProposal, SetProposalStatus, DeleteProposal,
        tables

LEMMA OneContractStep ==
    ASSUME TablesTypeOK, ContractRowsOK, OneContractPerJob, [TablesNext]_tables
    PROVE  OneContractPerJob'
<1> USE DEF TablesTypeOK
\* A step that adds no contract row and keeps every row's proposal adds no pair.
<1>1. ASSUME \A c \in Contract : ExistsContract(c)' =>
                 ExistsContract(c) /\ contracts'[c].proposal = contracts[c].proposal
      PROVE  OneContractPerJob'
    BY <1>1 DEF OneContractPerJob
<1>2. ASSUME NEW S, Cascade(S)  PROVE OneContractPerJob'
  <2>1. \A c \in Contract : ExistsContract(c)' =>
            ExistsContract(c) /\ contracts'[c].proposal = contracts[c].proposal
      BY <1>2, CascadeFacts
  <2>2. QED  BY <1>1, <2>1
<1>3. ASSUME NEW a \in Contract, NEW p \in Proposal, Award(p, a)  PROVE OneContractPerJob'
  <2>1. \A c \in Contract \ {a} : contracts'[c] = contracts[c]
      BY <1>3 DEF Award
  <2>2. contracts'[a].proposal = p
      BY <1>3 DEF Award
  <2>3. \A c \in Contract : ~(ExistsContract(c) /\ JobOf[contracts[c].proposal] = JobOf[p])
      BY <1>3 DEF Award, CanAward, ContractsOfJob
  <2>4. SUFFICES ASSUME NEW c \in Contract, NEW d \in Contract,
                        ExistsContract(c)', ExistsContract(d)',
                        JobOf[contracts'[c].proposal] = JobOf[contracts'[d].proposal]
                 PROVE  c = d
      BY DEF OneContractPerJob
  <2>5. CASE c = a
      BY <2>1, <2>2, <2>3, <2>4, <2>5 DEF ExistsContract
  <2>6. CASE d = a
      BY <2>1, <2>2, <2>3, <2>4, <2>6 DEF ExistsContract
  <2>7. CASE c # a /\ d # a
      BY <2>1, <2>4, <2>7 DEF ExistsContract, OneContractPerJob
  <2>8. QED  BY <2>5, <2>6, <2>7
<1>4. ASSUME NEW c \in Contract, NEW s \in {"COMPLETED", "CANCELLED"}, SetContractStatus(c, s)
      PROVE  OneContractPerJob'
  <2>1. \A d \in Contract : ExistsContract(d)' =>
            ExistsContract(d) /\ contracts'[d].proposal = contracts[d].proposal
      BY <1>4 DEF SetContractStatus, ExistsContract, ContractRow
  <2>2. QED  BY <1>1, <2>1
<1>5. ASSUME NEW c \in Contract, DeleteContract(c)  PROVE OneContractPerJob'
  <2>1. \A d \in Contract : ExistsContract(d)' =>
            ExistsContract(d) /\ contracts'[d].proposal = contracts[d].proposal
      BY <1>5 DEF DeleteContract, Removed, Absent, ExistsContract, ContractStatus, ContractRow
  <2>2. QED  BY <1>1, <2>1
<1>6. CASE UNCHANGED contracts
    BY <1>1, <1>6 DEF ExistsContract
<1>7. QED
    BY <1>2, <1>3, <1>4, <1>5, <1>6, TablesCases
    DEF InsertJob, SetJobStatus, DeleteJob, InsertProposal, SetProposalStatus, DeleteProposal,
        tables

LEMMA OneProposalStep ==
    ASSUME TablesTypeOK, OneProposalPerFreelancer, [TablesNext]_tables
    PROVE  OneProposalPerFreelancer'
<1> USE DEF TablesTypeOK
<1>1. ASSUME \A p \in Proposal : ExistsProposal(p)' => ExistsProposal(p)
      PROVE  OneProposalPerFreelancer'
    BY <1>1 DEF OneProposalPerFreelancer
<1>2. ASSUME NEW p \in Proposal, InsertProposal(p)  PROVE OneProposalPerFreelancer'
  <2>1. \A q \in Proposal \ {p} : proposals'[q] = proposals[q]
      BY <1>2 DEF InsertProposal
  <2>2. \A q \in Proposal : ~(/\ JobOf[q] = JobOf[p] /\ FreelancerOf[q] = FreelancerOf[p]
                              /\ ExistsProposal(q))
      BY <1>2 DEF InsertProposal, CanInsertProposal, Duplicates
  <2>3. QED  BY <2>1, <2>2 DEF OneProposalPerFreelancer, ExistsProposal
<1>3. ASSUME NEW j \in Job, DeleteJob(j)  PROVE OneProposalPerFreelancer'
    BY <1>1, <1>3 DEF DeleteJob, ExistsProposal, ProposalStatus
<1>4. ASSUME NEW p \in Proposal, DeleteProposal(p)  PROVE OneProposalPerFreelancer'
    BY <1>1, <1>4 DEF DeleteProposal, Removed, Absent, ExistsProposal, ProposalStatus
<1>5. ASSUME NEW p \in Proposal, NEW s \in {"REJECTED", "WITHDRAWN"}, SetProposalStatus(p, s)
      PROVE  OneProposalPerFreelancer'
    BY <1>1, <1>5 DEF SetProposalStatus, ExistsProposal
<1>6. ASSUME NEW c \in Contract, NEW p \in Proposal, Award(p, c)
      PROVE  OneProposalPerFreelancer'
    BY <1>1, <1>6 DEF Award, CanAward, ExistsProposal, ProposalStatus
<1>7. CASE UNCHANGED proposals
    BY <1>1, <1>7 DEF ExistsProposal
<1>8. QED
    BY <1>2, <1>3, <1>4, <1>5, <1>6, <1>7, TablesCases
    DEF InsertJob, SetJobStatus, SetContractStatus, DeleteContract, tables

LEMMA AcceptedStep ==
    ASSUME TablesTypeOK, ContractRowsOK, AcceptedHasContract, [TablesNext]_tables
    PROVE  AcceptedHasContract'
<1> USE DEF TablesTypeOK
<1>1. \A c \in Contract : contracts[c].proposal \in Proposal =>
          contracts'[c].proposal = contracts[c].proposal
    BY OnwardStep, NotAProposal DEF Onward, ContractRowsOK
<1>2. ASSUME NEW p \in Proposal, proposals'[p] = "ACCEPTED"
      PROVE  \E c \in Contract : contracts'[c].proposal = p
  <2>1. CASE proposals[p] = "ACCEPTED"
      BY <1>1, <2>1 DEF AcceptedHasContract
  <2>2. CASE proposals[p] # "ACCEPTED"
    <3>1. PICK c \in Contract : Award(p, c)
      <4>1. CASE UNCHANGED proposals
          BY <1>2, <2>2, <4>1
      <4>2. ASSUME NEW j \in Job, DeleteJob(j)  PROVE FALSE
          BY <1>2, <2>2, <4>2 DEF DeleteJob
      <4>3. ASSUME NEW q \in Proposal,
                   \/ InsertProposal(q) \/ DeleteProposal(q)
                   \/ \E s \in {"REJECTED", "WITHDRAWN"} : SetProposalStatus(q, s)
            PROVE  FALSE
          BY <1>2, <2>2, <4>3
          DEF InsertProposal, DeleteProposal, SetProposalStatus, Removed
      <4>4. ASSUME NEW c \in Contract, NEW q \in Proposal, Award(q, c)  PROVE q = p
          BY <1>2, <2>2, <4>4 DEF Award
      <4>5. QED
          BY <4>1, <4>2, <4>3, <4>4, TablesCases
          DEF InsertJob, SetJobStatus, SetContractStatus, DeleteContract, tables
    <3>2. contracts'[c].proposal = p
        BY <3>1 DEF Award
    <3>3. QED  BY <3>2
  <2>3. QED  BY <2>1, <2>2
<1>3. QED  BY <1>2 DEF AcceptedHasContract

LEMMA GroundedStep ==
    ASSUME TablesTypeOK, ContractRowsOK, ContractIsGrounded, [TablesNext]_tables
    PROVE  ContractIsGrounded'
<1> USE DEF TablesTypeOK
<1>1. ASSUME NEW j \in Job, InsertJob(j) \/ \E s \in {"PUBLISHED", "CLOSED"} : SetJobStatus(j, s)
      PROVE  ContractIsGrounded'
    BY <1>1, ForeignKeys
    DEF InsertJob, SetJobStatus, ContractIsGrounded, ExistsJob, ExistsProposal, ExistsContract,
        JobStatus, HasDecidedProposal
<1>2. ASSUME NEW j \in Job, DeleteJob(j)  PROVE ContractIsGrounded'
  <2> DEFINE S == {p \in Proposal : JobOf[p] = j /\ ExistsProposal(p)}
  <2>1. Cascade(S)
      BY <1>2 DEF DeleteJob
  <2>2. \A p \in Proposal : ExistsProposal(p)' => ExistsProposal(p) /\ JobOf[p] # j
      BY <1>2 DEF DeleteJob, ExistsProposal, ProposalStatus
  <2>3. \A p \in Proposal : ExistsProposal(p)' => ExistsJob(JobOf[p])'
      BY <1>2, <2>2, ForeignKeys DEF DeleteJob, ExistsJob, ContractIsGrounded
  <2>4. \A p \in Proposal \ S : proposals'[p] = proposals[p]
      BY <1>2 DEF DeleteJob
  <2>5. ASSUME NEW c \in Contract, ExistsContract(c)'
        PROVE  HasDecidedProposal(c)'
    <3>1. /\ ExistsContract(c) /\ contracts[c].proposal \notin S
          /\ contracts'[c].proposal = contracts[c].proposal
        BY <2>1, <2>5, CascadeFacts
    <3>2. QED  BY <2>4, <3>1 DEF ContractIsGrounded, HasDecidedProposal, ExistsProposal
  <2>6. QED  BY <2>3, <2>5 DEF ContractIsGrounded
<1>3. ASSUME NEW p \in Proposal, InsertProposal(p)  PROVE ContractIsGrounded'
    BY <1>3
    DEF InsertProposal, CanInsertProposal, ContractIsGrounded, ExistsJob, ExistsProposal,
        ExistsContract, ProposalStatus, HasDecidedProposal
<1>4. ASSUME NEW p \in Proposal, NEW s \in {"REJECTED", "WITHDRAWN"}, SetProposalStatus(p, s)
      PROVE  ContractIsGrounded'
    BY <1>4
    DEF SetProposalStatus, ContractIsGrounded, ExistsJob, ExistsProposal, ExistsContract,
        ProposalStatus, HasDecidedProposal
<1>5. ASSUME NEW p \in Proposal, DeleteProposal(p)  PROVE ContractIsGrounded'
  <2>1. Cascade({p}) /\ UNCHANGED jobs /\ \A q \in Proposal \ {p} : proposals'[q] = proposals[q]
      BY <1>5 DEF DeleteProposal
  <2>2. ~ExistsProposal(p)'
      BY <1>5 DEF DeleteProposal, Removed, Absent, ExistsProposal, ProposalStatus
  <2>3. \A q \in Proposal : ExistsProposal(q)' => ExistsJob(JobOf[q])'
      BY <2>1, <2>2 DEF ContractIsGrounded, ExistsProposal, ExistsJob
  <2>4. ASSUME NEW c \in Contract, ExistsContract(c)'
        PROVE  HasDecidedProposal(c)'
    <3>1. /\ ExistsContract(c) /\ contracts[c].proposal # p
          /\ contracts'[c].proposal = contracts[c].proposal
        BY <2>1, <2>4, CascadeFacts
    <3>2. QED  BY <2>1, <3>1 DEF ContractIsGrounded, HasDecidedProposal, ExistsProposal
  <2>5. QED  BY <2>3, <2>4 DEF ContractIsGrounded
<1>6. ASSUME NEW a \in Contract, NEW p \in Proposal, Award(p, a)  PROVE ContractIsGrounded'
  <2>1. /\ ExistsProposal(p)
        /\ \A q \in Proposal : ExistsProposal(q)' <=> ExistsProposal(q)
      BY <1>6 DEF Award, CanAward, ExistsProposal, ProposalStatus
  <2>2. \A q \in Proposal : ExistsProposal(q)' => ExistsJob(JobOf[q])'
      BY <1>6, <2>1, ForeignKeys DEF Award, ContractIsGrounded, ExistsJob, JobStatus
  <2>3. ASSUME NEW c \in Contract, ExistsContract(c)'
        PROVE  HasDecidedProposal(c)'
    <3>1. CASE c = a
        BY <1>6, <2>1, <3>1 DEF Award, HasDecidedProposal
    <3>2. CASE c # a
      <4>1. ExistsContract(c) /\ contracts'[c] = contracts[c]
          BY <1>6, <2>3, <3>2 DEF Award, ExistsContract
      <4>2. QED  BY <1>6, <2>1, <4>1 DEF Award, ContractIsGrounded, HasDecidedProposal
    <3>3. QED  BY <3>1, <3>2
  <2>4. QED  BY <2>2, <2>3 DEF ContractIsGrounded
<1>7. ASSUME UNCHANGED <<jobs, proposals>>,
             \A c \in Contract : ExistsContract(c)' =>
                 ExistsContract(c) /\ contracts'[c].proposal = contracts[c].proposal
      PROVE  ContractIsGrounded'
    BY <1>7 DEF ContractIsGrounded, HasDecidedProposal, ExistsJob, ExistsProposal
<1>8. ASSUME NEW c \in Contract, NEW s \in {"COMPLETED", "CANCELLED"}, SetContractStatus(c, s)
      PROVE  ContractIsGrounded'
    BY <1>7, <1>8 DEF SetContractStatus, ExistsContract, ContractRow
<1>9. ASSUME NEW c \in Contract, DeleteContract(c)  PROVE ContractIsGrounded'
    BY <1>7, <1>9
    DEF DeleteContract, Removed, Absent, ExistsContract, ContractStatus, ContractRow
<1>10. CASE UNCHANGED tables
    BY <1>7, <1>10 DEF tables, ExistsContract
<1>11. QED  BY <1>1, <1>2, <1>3, <1>4, <1>5, <1>6, <1>8, <1>9, <1>10, TablesCases

\* TablesInv is inductive: it holds of empty tables and every transaction keeps it.
LEMMA TablesInvStep ==
    ASSUME TablesInv, [TablesNext]_tables
    PROVE  TablesInv'
    BY TablesTypeStep, RowsStep, OneContractStep, OneProposalStep, AcceptedStep, GroundedStep
    DEF TablesInv

LEMMA TablesInvInit == TablesInit => TablesInv
    BY DEF TablesInit, TablesInv, TablesTypeOK, ContractRow, ContractRowsOK, OneContractPerJob,
           OneProposalPerFreelancer, AcceptedHasContract, ContractIsGrounded, ExistsJob,
           ExistsProposal, ExistsContract, Absent, JobStatus, ProposalStatus, ContractStatus

\* Whatever transactions commit, and in whatever order, the tables stay consistent.
THEOREM TablesConsistent == TablesSpec => []TablesInv
<1>1. TablesInit => TablesInv
    BY TablesInvInit
<1>2. TablesInv /\ [TablesNext]_tables => TablesInv'
    BY TablesInvStep
<1>3. QED  BY <1>1, <1>2, PTL DEF TablesSpec

\* No transaction takes a row back: jobs, decisions and contracts only move on.
THEOREM TablesMoveOn == TablesSpec => NothingIsUndone
<1>1. TablesInv /\ [TablesNext]_tables => [Onward]_tables
    BY OnwardStep DEF TablesInv
<1>2. QED  BY <1>1, TablesConsistent, PTL DEF TablesSpec, NothingIsUndone, Onward

-----------------------------------------------------------------------------
(* The calendar of the reports. *)

LEMMA Quotient ==
    ASSUME NEW n \in Nat, NEW k \in Nat \ {0}
    PROVE  n \div k \in Nat /\ k * (n \div k) <= n /\ n < k * ((n \div k) + 1)
    OBVIOUS

\* A set of days, of which some are not after d, has a latest one of these.
LEMMA LatestDay ==
    ASSUME NEW days, days \subseteq Nat, NEW d \in Nat, {e \in days : e <= d} # {}
    PROVE  LET l == Latest({e \in days : e <= d}) IN
           /\ l \in days /\ l <= d
           /\ \A e \in days : e <= d => e <= l
<1> DEFINE Past == {e \in days : e <= d}
           Distances == {n \in Nat : d - n \in Past}
           Smaller == {ss \in Nat \X Nat : ss[1] < ss[2]}
<1>1. IsWellFoundedOn(Smaller, Nat)
  <2>1. Smaller = OpToRel(<, Nat)
      BY Zenon DEF OpToRel
  <2>2. QED  BY <2>1, NatLessThanWellFounded, Zenon
<1>2. PICK e \in Past : TRUE
    OBVIOUS
<1>3. d - e \in Distances
    BY <1>2
<1>4. PICK n \in Distances : \A m \in Distances : <<m, n>> \notin Smaller
  <2> HIDE DEF Smaller, Distances
  <2>1. Distances \subseteq Nat
      BY DEF Distances
  <2>2. QED  BY <1>1, <1>3, <2>1, WFMin
<1>5. ASSUME NEW m \in Distances  PROVE n <= m
  <2>1. m \in Nat /\ n \in Nat /\ <<m, n>> \notin Smaller
      BY <1>4
  <2>2. QED  BY <2>1
<1>6. d - n \in Past /\ \A x \in Past : x <= d - n
  <2>1. SUFFICES ASSUME NEW x \in Past  PROVE x <= d - n
      OBVIOUS
  <2>2. d - x \in Distances
      OBVIOUS
  <2>3. n <= d - x
      BY <1>5, <2>2
  <2>4. QED  BY <2>3
<1> HIDE DEF Past
<1>7. Latest(Past) \in Past /\ \A x \in Past : x <= Latest(Past)
    BY <1>6 DEF Latest
<1>8. QED  BY <1>7 DEF Past

LEMMA MonthFacts ==
    ASSUME NEW d \in Nat
    PROVE  /\ MonthOf(d) \in Nat /\ MonthOf(d) \in MonthStarts /\ MonthOf(d) <= d
           /\ \A m \in MonthStarts : m <= d => m <= MonthOf(d)
<1>1. MonthStarts \subseteq Nat /\ 0 \in {e \in MonthStarts : e <= d}
    BY Calendar DEF Day
<1>2. QED  BY <1>1, LatestDay DEF MonthOf

LEMMA YearFacts ==
    ASSUME NEW d \in Nat
    PROVE  /\ YearOf(d) \in Nat
           /\ YearOf(d) <= d
<1>1. YearStarts \subseteq Nat /\ 0 \in {e \in YearStarts : e <= d}
    BY Calendar DEF Day
<1>2. QED  BY <1>1, LatestDay DEF YearOf

\* A period begins on a day that begins it, and on one day whichever of its days is asked.
LEMMA PeriodFacts ==
    ASSUME NEW period \in Period, NEW d \in Nat
    PROVE  /\ PeriodStart(period, d) \in Nat
           /\ PeriodStart(period, d) <= d
           /\ \A e \in Nat : PeriodStart(period, d) <= e /\ e <= d
                  => PeriodStart(period, e) = PeriodStart(period, d)
<1>1. CASE period = "day"
    BY <1>1 DEF PeriodStart
<1>2. CASE period = "week"
  <2>1. ASSUME NEW e \in Nat, MondayOf(d) <= e, e <= d  PROVE MondayOf(e) = MondayOf(d)
      BY <2>1 DEF MondayOf
  <2>2. MondayOf(d) \in Nat /\ MondayOf(d) <= d
      BY DEF MondayOf
  <2>3. QED  BY <1>2, <2>1, <2>2 DEF PeriodStart
<1>3. CASE period = "month"
  <2>1. ASSUME NEW e \in Nat, MonthOf(d) <= e, e <= d  PROVE MonthOf(e) = MonthOf(d)
    <3>1. MonthOf(d) <= MonthOf(e)
        BY <2>1, MonthFacts
    <3>2. MonthOf(e) <= MonthOf(d)
      <4>1. MonthOf(e) <= d
          BY <2>1, MonthFacts
      <4>2. QED  BY <4>1, MonthFacts
    <3>3. QED  BY <3>1, <3>2, MonthFacts
  <2>2. QED  BY <1>3, <2>1, MonthFacts DEF PeriodStart
<1>4. QED  BY <1>1, <1>2, <1>3 DEF Period

\* Two periods of one kind that have the same name begin on the same day.
LEMMA NamesDiffer ==
    ASSUME NEW period \in Period, NEW d \in Nat, NEW e \in Nat,
           PeriodName(period, PeriodStart(period, d)) = PeriodName(period, PeriodStart(period, e))
    PROVE  PeriodStart(period, d) = PeriodStart(period, e)
<1>1. CASE period # "week"
    BY <1>1 DEF PeriodName
<1>2. CASE period = "week"
  <2> DEFINE m == MondayOf(d)
             n == MondayOf(e)
             first == (YearOf(m) + 6) \div 7
  <2>1. m \in Nat /\ n \in Nat /\ m = 7 * (m \div 7) /\ n = 7 * (n \div 7)
      BY DEF MondayOf
  <2>2. /\ YearOf(m) = YearOf(n)
        /\ (m \div 7) - first + 1 = (n \div 7) - ((YearOf(n) + 6) \div 7) + 1
      BY <1>2 DEF PeriodName, PeriodStart, WeekName
  <2>3. first \in Nat
      BY <2>1, YearFacts
  <2>4. (m \div 7) - first + 1 = (n \div 7) - first + 1
      BY <2>2
  <2> HIDE DEF m, n, first
  <2>5. m \div 7 = n \div 7
      BY <2>1, <2>3, <2>4
  <2>6. m = n
      BY <2>1, <2>5
  <2>7. QED  BY <1>2, <2>6 DEF m, n, PeriodStart
<1>3. QED  BY <1>1, <1>2

-----------------------------------------------------------------------------
(* The trends. *)

LEMMA RowIdIsFinite == IsFiniteSet(RowId)
    BY IdsAreFinite, FS_Union DEF RowId

LEMMA StampFacts ==
    ASSUME ReportsTypeOK, NEW s \in Session, NEW x \in RowId
    PROVE  createdAt[x] \in Nat /\ LocalDay(s, createdAt[x]) \in Nat
<1>1. createdAt[x] \in Nat
    BY Calendar DEF ReportsTypeOK
<1>2. createdAt[x] + s.shift \in Nat
    BY <1>1, Sessions
<1>3. QED  BY <1>1, <1>2, Calendar, Quotient DEF LocalDay, DayOf

\* The key under which the row x is counted.
KeyOfRow(s, period, x) == KeyOf(s, period, Truncated(s, period, createdAt[x]))

\* No two groups of a report have one key, so that no entry is written over.
LEMMA OneGroupPerKey ==
    ASSUME ReportsTypeOK, NEW s \in Session, NEW period \in Period, NEW x \in RowId, NEW y \in RowId,
           KeyOfRow(s, period, x) = KeyOfRow(s, period, y)
    PROVE  Truncated(s, period, createdAt[x]) = Truncated(s, period, createdAt[y])
<1>1. CASE NamesDays(s, period)
    BY <1>1 DEF KeyOfRow, KeyOf
<1>2. CASE ~NamesDays(s, period)
    BY <1>2, StampFacts, NamesDiffer DEF KeyOfRow, KeyOf, Truncated
<1>3. QED  BY <1>1, <1>2

LEMMA CountedRows ==
    ASSUME ReportsTypeOK, NEW s \in Session, NEW period \in Period, NEW rows \in SUBSET RowId, NEW key
    PROVE  Counted(s, period, rows, key) = Cardinality({x \in rows : KeyOfRow(s, period, x) = key})
<1> DEFINE Group(x) == Truncated(s, period, createdAt[x])
           groups == {g \in {Group(x) : x \in rows} : KeyOf(s, period, g) = key}
           here == {x \in rows : KeyOfRow(s, period, x) = key}
<1>1. CASE groups = {}
  <2>1. here = {}
      BY <1>1 DEF KeyOfRow
  <2>2. QED  BY <1>1, <2>1, FS_EmptySet DEF Counted
<1>2. CASE groups # {}
  <2> DEFINE group == CHOOSE g \in groups : TRUE
  <2>1. group \in groups
      BY <1>2
  <2>2. PICK y \in rows : group = Group(y) /\ KeyOfRow(s, period, y) = key
      BY <2>1 DEF KeyOfRow
  <2>3. here = {x \in rows : Group(x) = group}
    <3>1. ASSUME NEW x \in here  PROVE Group(x) = group
        BY <2>2, OneGroupPerKey
    <3>2. ASSUME NEW x \in rows, Group(x) = group  PROVE x \in here
        BY <2>2, <3>2 DEF KeyOfRow
    <3>3. QED  BY <3>1, <3>2
  <2>4. Counted(s, period, rows, key) = Cardinality({x \in rows : Group(x) = group})
      BY <1>2 DEF Counted
  <2>5. QED  BY <2>3, <2>4
<1>3. QED  BY <1>1, <1>2

\* A row that the trends are to tell of is counted under the name of its period.
LEMMA ToldUnderItsPeriod ==
    ASSUME ReportsTypeOK, NEW s \in Session, NEW q, NEW period \in Period,
           NEW rows \in SUBSET RowId, NEW x \in Told(s, q, period, rows)
    PROVE  KeyOfRow(s, period, x)
               = PeriodName(period, PeriodStart(period, LocalDay(s, createdAt[x])))
<1> DEFINE d == LocalDay(s, createdAt[x])
<1>1. x \in rows /\ ~Nameless(s, period, d)
    BY DEF Told
<1>2. d \in Nat
    BY <1>1, StampFacts
<1>3. CASE ~NamesDays(s, period)
    BY <1>3 DEF KeyOfRow, KeyOf, Truncated
<1>4. CASE NamesDays(s, period)
  <2>1. YearOf(d) = YearOf(MondayOf(d)) /\ period = "week"
      BY <1>1, <1>4 DEF Nameless, NamesDays
  <2>2. MondayOf(d) \div 7 = d \div 7
    <3> HIDE DEF d
    <3> QED  BY <1>2 DEF MondayOf
  <2>3. KeyOfRow(s, period, x) = WeekName(d)
      BY <1>4 DEF KeyOfRow, KeyOf, Truncated
  <2>4. WeekName(d) = WeekName(MondayOf(d))
      BY <2>1, <2>2 DEF WeekName
  <2>5. QED  BY <2>1, <2>3, <2>4 DEF PeriodName, PeriodStart
<1>5. QED  BY <1>3, <1>4

\* The first day of the range and the days after it name every period of the range.
LEMMA EveryPeriodIsThere ==
    ASSUME NEW q, q.from \in Nat, q.to \in Nat, NEW period \in Period, NEW d \in q.from..q.to
    PROVE  PeriodName(period, PeriodStart(period, d)) \in EmptyPeriods(q, period)
<1> DEFINE start == PeriodStart(period, d)
<1>1. d \in Nat /\ q.from <= d /\ d <= q.to
    OBVIOUS
<1>2. /\ start \in Nat /\ start <= d
      /\ \A e \in Nat : start <= e /\ e <= d => PeriodStart(period, e) = start
    BY <1>1, PeriodFacts
<1> HIDE DEF start
<1>3. CASE start <= q.from
  <2>1. PeriodStart(period, q.from) = start
      BY <1>1, <1>2, <1>3
  <2>2. QED  BY <2>1 DEF EmptyPeriods, start
<1>4. CASE q.from < start
  <2>1. start \in (q.from + 1)..q.to /\ PeriodStart(period, start) = start
      BY <1>1, <1>2, <1>4
  <2>2. QED  BY <2>1 DEF EmptyPeriods, start
<1>5. QED  BY <1>2, <1>3, <1>4

\* In UTC the days of the rows of a range are the days of the range.
LEMMA DaysOfTheRange ==
    ASSUME ReportsTypeOK, NEW s \in Session, NEW q \in TrendRange, NEW period \in Period,
           NEW rows \in SUBSET RowId, s.dialect = "postgresql", s.shift = 0
    PROVE  Told(s, q, period, Within(q, rows)) = Within(q, rows)
<1>1. SUFFICES ASSUME NEW x \in Within(q, rows)  PROVE x \in Told(s, q, period, Within(q, rows))
    BY DEF Told
<1> DEFINE t == createdAt[x]
<1>2. q.from \in Nat /\ q.to \in Nat /\ q.from # NoDay /\ q.to # NoDay
    BY DateRanges DEF TrendRange, Day
<1>3. t \in Nat /\ q.from * Parts <= t /\ t < (q.to + 1) * Parts
    BY <1>2, StampFacts DEF Within, InRange
<1>4. LocalDay(s, t) = t \div Parts
    BY <1>3 DEF LocalDay, DayOf
<1>5. t \div Parts \in q.from..q.to
  <2> HIDE DEF t
  <2>1. /\ t \div Parts \in Nat
        /\ Parts * (t \div Parts) <= t
        /\ t < Parts * ((t \div Parts) + 1)
      BY <1>3, Calendar, Quotient
  <2> DEFINE n == t \div Parts
  <2>2. q.from <= n
    <3> HIDE DEF n
    <3>1. q.from * Parts < (n + 1) * Parts
        BY <1>2, <1>3, <2>1, Calendar DEF n
    <3>2. QED  BY <1>2, <2>1, <3>1, Calendar DEF n
  <2>3. n <= q.to
    <3>1. n * Parts < (q.to + 1) * Parts
        BY <1>2, <1>3, <2>1, Calendar
    <3>2. QED  BY <1>2, <2>1, <3>1, Calendar
  <2>4. QED  BY <1>2, <2>1, <2>2, <2>3
<1>6. ~Nameless(s, period, LocalDay(s, t))
    BY DEF Nameless, NamesDays
<1>7. QED  BY <1>4, <1>5, <1>6 DEF Told

LEMMA RowsAddUp ==
    ASSUME ReportsTypeOK, NEW s \in Session, NEW q \in TrendRange, NEW period \in Period,
           NEW all \in SUBSET RowId, NEW number,
           \A key \in EmptyPeriods(q, period) :
               number[key] = Counted(s, period, Within(q, all), key)
    PROVE  AddsUp(s, q, period, Within(q, all), number)
<1> DEFINE rows == Within(q, all)
           told == Told(s, q, period, rows)
<1>1. rows \subseteq RowId /\ told \subseteq rows
    BY DEF Within, Told
<1>2. s.dialect = "postgresql" /\ s.shift = 0 => told = rows
    BY DaysOfTheRange
<1>3. ASSUME NEW x \in told
      PROVE  KeyOfRow(s, period, x) = PeriodName(period, PeriodStart(period, LocalDay(s, createdAt[x])))
    BY <1>1, ToldUnderItsPeriod
<1>4. ASSUME NEW key \in EmptyPeriods(q, period)
      PROVE  /\ Cardinality(InPeriod(s, period, told, key)) <= number[key]
             /\ told = rows => number[key] = Cardinality(InPeriod(s, period, rows, key))
  <2> DEFINE here == {x \in rows : KeyOfRow(s, period, x) = key}
  <2> HIDE DEF rows, told
  <2>1. number[key] = Cardinality(here)
      BY <1>1, CountedRows DEF rows
  <2>2. InPeriod(s, period, told, key) \subseteq here
      BY <1>1, <1>3 DEF InPeriod
  <2>3. IsFiniteSet(here)
    <3>1. here \subseteq RowId
        BY <1>1
    <3>2. QED  BY <3>1, RowIdIsFinite, FS_Subset
  <2>4. Cardinality(InPeriod(s, period, told, key)) <= Cardinality(here)
      BY <2>2, <2>3, FS_Subset
  <2>5. ASSUME told = rows  PROVE here = InPeriod(s, period, rows, key)
      BY <1>3, <2>5 DEF InPeriod
  <2>6. QED  BY <2>1, <2>4, <2>5
<1>5. ASSUME NEW x \in told
      PROVE  \E key \in EmptyPeriods(q, period) : x \in InPeriod(s, period, told, key)
  <2> DEFINE d == LocalDay(s, createdAt[x])
             key == PeriodName(period, PeriodStart(period, d))
  <2>1. d \in q.from..q.to
      BY DEF Told
  <2>2. q.from \in Nat /\ q.to \in Nat
      BY DateRanges DEF TrendRange, Day
  <2>3. key \in EmptyPeriods(q, period)
      BY <2>1, <2>2, EveryPeriodIsThere
  <2>4. x \in InPeriod(s, period, told, key)
      BY DEF InPeriod
  <2>5. QED  BY <2>3, <2>4
<1>6. QED  BY <1>2, <1>4, <1>5 DEF AddsUp

LEMMA TrendsHold ==
    ASSUME ReportsTypeOK
    PROVE  TrendsAddUp
<1>1. SUFFICES ASSUME NEW s \in Session, NEW u \in User, NEW q \in TrendRange, NEW period \in Period
               PROVE  LET role == RoleOf[u]
                          trends == Trends(s, u, role, q, period)
                          keys == EmptyPeriods(q, period)
                      IN  /\ AddsUp(s, q, period, Within(q, ProposalsOf(u, role)),
                                    [k \in keys |-> trends[k].proposals])
                          /\ AddsUp(s, q, period, Within(q, ContractsOf(u, role)),
                                    [k \in keys |-> trends[k].contracts])
                          /\ role = "CLIENT" =>
                                AddsUp(s, q, period, Within(q, JobsOf(u)),
                                       [k \in keys |-> trends[k].jobs])
    BY DEF TrendsAddUp
<1> DEFINE role == RoleOf[u]
           trends == Trends(s, u, role, q, period)
           keys == EmptyPeriods(q, period)
<1>2. /\ ProposalsOf(u, role) \subseteq RowId
      /\ ContractsOf(u, role) \subseteq RowId
      /\ JobsOf(u) \subseteq RowId
    BY DEF ProposalsOf, ContractsOf, JobsOf, RowId
<1>3. ASSUME NEW key \in keys
      PROVE  /\ trends[key].proposals = Counted(s, period, Within(q, ProposalsOf(u, role)), key)
             /\ trends[key].contracts = Counted(s, period, Within(q, ContractsOf(u, role)), key)
             /\ role = "CLIENT"
                => trends[key].jobs = Counted(s, period, Within(q, JobsOf(u)), key)
    BY DEF Trends
<1> HIDE DEF trends, role
<1>4. AddsUp(s, q, period, Within(q, ProposalsOf(u, role)), [k \in keys |-> trends[k].proposals])
    BY <1>2, <1>3, RowsAddUp
<1>5. AddsUp(s, q, period, Within(q, ContractsOf(u, role)), [k \in keys |-> trends[k].contracts])
    BY <1>2, <1>3, RowsAddUp
<1>6. ASSUME role = "CLIENT"
      PROVE  AddsUp(s, q, period, Within(q, JobsOf(u)), [k \in keys |-> trends[k].jobs])
    BY <1>2, <1>3, <1>6, RowsAddUp
<1>7. QED  BY <1>4, <1>5, <1>6 DEF trends, role

-----------------------------------------------------------------------------
(* The dashboards and the skills. *)

LEMMA AtMostAll ==
    ASSUME NEW n \in Nat, NEW d \in Nat, n <= d
    PROVE  Percentage(n, d) \in Rate
<1>1. CASE d = 0
    BY <1>1 DEF Percentage, Rate
<1>2. CASE d # 0
  <2> DEFINE half == d \div 2
             all == n * 10000 + half
             share == all \div d
  <2>1. half \in Nat /\ half < d
      BY <1>2
  <2>2. n * 10000 <= d * 10000
      OBVIOUS
  <2>3. all \in Nat /\ all < 10001 * d
      BY <2>1, <2>2
  <2> HIDE DEF half, all
  <2>4. share \in Nat /\ d * share <= all
      BY <1>2, <2>3, Quotient
  <2> HIDE DEF share
  <2>5. d * share < d * 10001
      BY <2>3, <2>4
  <2>6. share < 10001
      BY <1>2, <2>4, <2>5
  <2>7. QED  BY <1>2, <2>4, <2>6 DEF Percentage, Rate, share, all, half
<1>3. QED  BY <1>1, <1>2

LEMMA CardinalityOfPart ==
    ASSUME NEW S, NEW T \in SUBSET S, IsFiniteSet(S)
    PROVE  /\ IsFiniteSet(T) /\ Cardinality(T) \in Nat /\ Cardinality(S) \in Nat
           /\ Cardinality(T) <= Cardinality(S)
    BY FS_Subset, FS_CardinalityType

LEMMA CardinalityOfDisjoint ==
    ASSUME NEW S, NEW T, IsFiniteSet(S), IsFiniteSet(T), S \cap T = {}
    PROVE  IsFiniteSet(S \cup T) /\ Cardinality(S \cup T) = Cardinality(S) + Cardinality(T)
<1>1. Cardinality(S) \in Nat /\ Cardinality(T) \in Nat /\ Cardinality(S \cap T) = 0
    BY FS_CardinalityType, FS_EmptySet
<1>2. /\ IsFiniteSet(S \cup T)
      /\ Cardinality(S \cup T) = Cardinality(S) + Cardinality(T) - Cardinality(S \cap T)
    BY FS_Union
<1>3. QED  BY <1>1, <1>2

LEMMA ContractStatuses ==
    ASSUME NEW deals \in SUBSET {c \in Contract : ExistsContract(c)}
    PROVE  LET active == WithStatus(deals, "ACTIVE")
               completed == WithStatus(deals, "COMPLETED")
               cancelled == WithStatus(deals, "CANCELLED")
           IN  /\ Cardinality(deals)
                     = Cardinality(active) + Cardinality(completed) + Cardinality(cancelled)
               /\ Cardinality(completed) <= Cardinality(deals)
<1> DEFINE active == WithStatus(deals, "ACTIVE")
           completed == WithStatus(deals, "COMPLETED")
           cancelled == WithStatus(deals, "CANCELLED")
<1>1. IsFiniteSet(deals)
    BY IdsAreFinite, FS_Subset
<1>2. \A c \in deals : StatusOf(c) = contracts[c].status /\ contracts[c].status \in ContractStatus
    BY IdsApart DEF StatusOf, ExistsContract
<1>3. /\ deals = (active \cup completed) \cup cancelled
      /\ active \cap completed = {} /\ (active \cup completed) \cap cancelled = {}
    BY <1>2 DEF WithStatus, ContractStatus
<1>4. active \subseteq deals /\ completed \subseteq deals /\ cancelled \subseteq deals
    BY DEF WithStatus
<1> HIDE DEF active, completed, cancelled
<1>5. /\ IsFiniteSet(active) /\ IsFiniteSet(completed) /\ IsFiniteSet(cancelled)
      /\ Cardinality(active) \in Nat /\ Cardinality(completed) \in Nat
      /\ Cardinality(cancelled) \in Nat /\ Cardinality(completed) <= Cardinality(deals)
    BY <1>1, <1>4, CardinalityOfPart
<1>6. /\ IsFiniteSet(active \cup completed)
      /\ Cardinality(active \cup completed) = Cardinality(active) + Cardinality(completed)
    BY <1>3, <1>5, CardinalityOfDisjoint
<1>7. Cardinality(deals) = Cardinality(active \cup completed) + Cardinality(cancelled)
    BY <1>3, <1>5, <1>6, CardinalityOfDisjoint
<1>8. QED  BY <1>5, <1>6, <1>7 DEF active, completed, cancelled

\* What the columns of the skills report count, as client.
LEMMA ClientSkillRows ==
    ASSUME ReportsTypeOK, ContractIsGrounded, NEW u \in User, NEW q, NEW skill
    PROVE  LET rows == SkillRows(u, "CLIENT", q, skill)
               skilled == {p \in ProposalsOf(u, "CLIENT") :
                              InRange(q, createdAt[JobOf[p]]) /\ skill \in SkillsOf[JobOf[p]]}
           IN  /\ {r[1] : r \in rows} \ {NoRow} = {j \in Within(q, JobsOf(u)) : skill \in SkillsOf[j]}
               /\ {r[2] : r \in rows} \ {NoRow} = skilled
               /\ {r[3] : r \in rows} \ {NoRow}
                     = {c \in Contract : ExistsContract(c) /\ contracts[c].proposal \in skilled}
               /\ {r[2] : r \in {x \in rows : x[2] # NoRow /\ StatusOf(x[2]) = "ACCEPTED"}} \ {NoRow}
                     = WithStatus(skilled, "ACCEPTED")
<1> DEFINE rows == SkillRows(u, "CLIENT", q, skill)
           asked == {j \in Within(q, JobsOf(u)) : skill \in SkillsOf[j]}
           Offers(j) == {p \in Proposal : ExistsProposal(p) /\ JobOf[p] = j}
           skilled == {p \in ProposalsOf(u, "CLIENT") :
                          InRange(q, createdAt[JobOf[p]]) /\ skill \in SkillsOf[JobOf[p]]}
           awarded == {c \in Contract : ExistsContract(c) /\ contracts[c].proposal \in skilled}
<1>1. asked \subseteq Job
    BY DEF Within, JobsOf
<1>2. rows = {r \in Job \X (Proposal \cup {NoRow}) \X (Contract \cup {NoRow}) :
                 r[1] \in asked /\ r[2] \in Outer(Offers(r[1])) /\ r[3] \in Outer(ContractsOfJob(r[1]))}
    BY DEF SkillRows
<1>3. \A j \in asked : /\ Offers(j) \subseteq Proposal /\ ContractsOfJob(j) \subseteq Contract
                       /\ Outer(Offers(j)) \subseteq Proposal \cup {NoRow} /\ Outer(Offers(j)) # {}
                       /\ Outer(ContractsOfJob(j)) \subseteq Contract \cup {NoRow}
                       /\ Outer(ContractsOfJob(j)) # {}
    BY DEF Outer, ContractsOfJob
\* The rows of a job are all pairs of an offer and a contract of it.
<1>4. ASSUME NEW j \in asked, NEW p \in Outer(Offers(j)), NEW c \in Outer(ContractsOfJob(j))
      PROVE  \E r \in rows : r[1] = j /\ r[2] = p /\ r[3] = c
  <2>1. <<j, p, c>> \in Job \X (Proposal \cup {NoRow}) \X (Contract \cup {NoRow})
      BY <1>1, <1>3
  <2> HIDE DEF Offers, asked, rows
  <2>2. QED  BY <1>2, <2>1
<1>5. skilled = {p \in Proposal : ExistsProposal(p) /\ JobOf[p] \in asked}
    BY ForeignKeys DEF ProposalsOf, JobsOf, Within, ContractIsGrounded
<1>6. awarded = {c \in Contract : ExistsContract(c) /\ JobOf[contracts[c].proposal] \in asked}
  <2> HIDE DEF skilled, asked
  <2> QED  BY <1>5 DEF ContractIsGrounded, HasDecidedProposal
<1> HIDE DEF rows, asked
<1>7. {r[1] : r \in rows} \ {NoRow} = asked
  <2>1. NoRow \notin asked
      BY <1>1, NullIsNoId
  <2>2. ASSUME NEW r \in rows  PROVE r[1] \in asked
      BY <1>2
  <2>3. ASSUME NEW j \in asked  PROVE \E r \in rows : r[1] = j
    <3>1. PICK p \in Outer(Offers(j)), c \in Outer(ContractsOfJob(j)) : TRUE
        BY <1>3
    <3>2. QED  BY <1>4
  <2>4. QED  BY <2>1, <2>2, <2>3
<1>8. {r[2] : r \in rows} \ {NoRow} = skilled
  <2>1. ASSUME NEW r \in rows, r[2] # NoRow  PROVE r[2] \in skilled
      BY <1>2, <1>5, <2>1 DEF Outer
  <2>2. ASSUME NEW p \in skilled  PROVE \E r \in rows : r[2] = p
    <3>1. JobOf[p] \in asked /\ p \in Outer(Offers(JobOf[p]))
        BY <1>5 DEF Outer
    <3>2. PICK c \in Outer(ContractsOfJob(JobOf[p])) : TRUE
        BY <1>3, <3>1
    <3>3. QED  BY <1>4, <3>1
  <2>3. NoRow \notin skilled
      BY <1>5, NullIsNoId
  <2>4. QED  BY <2>1, <2>2, <2>3
<1>9. {r[3] : r \in rows} \ {NoRow} = awarded
  <2>1. ASSUME NEW r \in rows, r[3] # NoRow  PROVE r[3] \in awarded
      BY <1>2, <1>6, <2>1 DEF Outer, ContractsOfJob
  <2>2. ASSUME NEW c \in awarded  PROVE \E r \in rows : r[3] = c
    <3> DEFINE j == JobOf[contracts[c].proposal]
    <3>1. j \in asked /\ c \in Outer(ContractsOfJob(j))
        BY <1>6 DEF Outer, ContractsOfJob
    <3>2. PICK p \in Outer(Offers(j)) : TRUE
        BY <1>3, <3>1
    <3>3. QED  BY <1>4, <3>1
  <2>3. NoRow \notin awarded
      BY NullIsNoId
  <2>4. QED  BY <2>1, <2>2, <2>3
<1>10. {r[2] : r \in {x \in rows : x[2] # NoRow /\ StatusOf(x[2]) = "ACCEPTED"}} \ {NoRow}
          = WithStatus(skilled, "ACCEPTED")
  <2> HIDE DEF skilled
  <2> QED  BY <1>8 DEF WithStatus
<1>11. QED  BY <1>7, <1>8, <1>9, <1>10 DEF rows, asked

\* The same, as freelancer.
LEMMA FreelancerSkillRows ==
    ASSUME NEW u \in User, NEW q, NEW skill
    PROVE  LET rows == SkillRows(u, "FREELANCER", q, skill)
               skilled == {p \in Within(q, ProposalsOf(u, "FREELANCER")) : skill \in SkillsOf[JobOf[p]]}
           IN  /\ {r[1] : r \in rows} \ {NoRow} = {JobOf[p] : p \in skilled}
               /\ {r[2] : r \in rows} \ {NoRow} = skilled
               /\ {r[3] : r \in rows} \ {NoRow}
                     = {c \in Contract : ExistsContract(c) /\ contracts[c].proposal \in skilled}
               /\ {r[2] : r \in {x \in rows : x[2] # NoRow /\ StatusOf(x[2]) = "ACCEPTED"}} \ {NoRow}
                     = WithStatus(skilled, "ACCEPTED")
<1> DEFINE rows == SkillRows(u, "FREELANCER", q, skill)
           skilled == {p \in Within(q, ProposalsOf(u, "FREELANCER")) : skill \in SkillsOf[JobOf[p]]}
           awarded == {c \in Contract : ExistsContract(c) /\ contracts[c].proposal \in skilled}
<1>1. skilled \subseteq Proposal
    BY DEF Within, ProposalsOf
<1>2. rows = {r \in Job \X Proposal \X (Contract \cup {NoRow}) :
                 r[1] = JobOf[r[2]] /\ r[2] \in skilled /\ r[3] \in Outer(ContractsOfProposal(r[2]))}
    BY DEF SkillRows
<1>3. \A p \in skilled : /\ Outer(ContractsOfProposal(p)) \subseteq Contract \cup {NoRow}
                         /\ Outer(ContractsOfProposal(p)) # {}
    BY DEF Outer, ContractsOfProposal
<1> HIDE DEF rows, skilled
<1>4. ASSUME NEW p \in skilled, NEW c \in Outer(ContractsOfProposal(p))
      PROVE  \E r \in rows : r[1] = JobOf[p] /\ r[2] = p /\ r[3] = c
  <2>1. <<JobOf[p], p, c>> \in Job \X Proposal \X (Contract \cup {NoRow})
      BY <1>1, <1>3, ForeignKeys
  <2>2. QED  BY <1>2, <2>1
<1>5. ASSUME NEW p \in skilled  PROVE \E r \in rows : r[1] = JobOf[p] /\ r[2] = p
  <2>1. PICK c \in Outer(ContractsOfProposal(p)) : TRUE
      BY <1>3
  <2>2. QED  BY <1>4
<1>6. {r[2] : r \in rows} \ {NoRow} = skilled
  <2>1. \A r \in rows : r[2] \in skilled
      BY <1>2
  <2>2. NoRow \notin skilled
      BY <1>1, NullIsNoId
  <2>3. QED  BY <1>5, <2>1, <2>2
<1>7. {r[1] : r \in rows} \ {NoRow} = {JobOf[p] : p \in skilled}
  <2>1. \A r \in rows : r[2] \in skilled /\ r[1] = JobOf[r[2]]
      BY <1>2
  <2>2. \A p \in skilled : JobOf[p] # NoRow
      BY <1>1, ForeignKeys, NullIsNoId
  <2>3. QED  BY <1>5, <2>1, <2>2
<1>8. {r[3] : r \in rows} \ {NoRow} = awarded
  <2>1. ASSUME NEW r \in rows, r[3] # NoRow  PROVE r[3] \in awarded
      BY <1>2, <2>1 DEF Outer, ContractsOfProposal
  <2>2. ASSUME NEW c \in awarded  PROVE \E r \in rows : r[3] = c
    <3>1. contracts[c].proposal \in skilled /\ c \in Outer(ContractsOfProposal(contracts[c].proposal))
        BY DEF Outer, ContractsOfProposal
    <3>2. QED  BY <1>4, <3>1
  <2>3. NoRow \notin awarded
      BY NullIsNoId
  <2>4. QED  BY <2>1, <2>2, <2>3
<1>9. {r[2] : r \in {x \in rows : x[2] # NoRow /\ StatusOf(x[2]) = "ACCEPTED"}} \ {NoRow}
          = WithStatus(skilled, "ACCEPTED")
    BY <1>6 DEF WithStatus
<1>10. QED  BY <1>6, <1>7, <1>8, <1>9 DEF rows, skilled

\* A job has one contract: however many jobs, no more contracts for them.
LEMMA ContractsAtMostJobs ==
    ASSUME OneContractPerJob, NEW posted \in SUBSET Job,
           NEW deals \in SUBSET {c \in Contract : ExistsContract(c)},
           \A c \in deals : JobOf[contracts[c].proposal] \in posted
    PROVE  Cardinality(deals) <= Cardinality(posted)
<1> DEFINE f == [c \in deals |-> JobOf[contracts[c].proposal]]
<1>1. \A c, d \in deals : f[c] = f[d] => c = d
    BY DEF OneContractPerJob
<1>2. f \in Injection(deals, posted)
    BY <1>1 DEF Injection, IsInjective
<1>3. IsFiniteSet(posted)
    BY IdsAreFinite, FS_Subset
<1> HIDE DEF f
<1>4. QED  BY <1>2, <1>3, FS_Injection

\* One user's skills report against the dashboard.
LEMMA SkillsHold ==
    ASSUME ReportsTypeOK, OneContractPerJob, ContractIsGrounded,
           NEW u \in User, NEW q, NEW skill, NEW role \in {"CLIENT", "FREELANCER"}
    PROVE  SkillAgrees(u, role, q, skill)
<1> DEFINE k == SkillReport(u, role, q, skill)
           d == Dashboard(u, role, q)
           rows == SkillRows(u, role, q, skill)
<1>1. /\ k.jobs = Cardinality({r[1] : r \in rows} \ {NoRow})
      /\ k.proposals = Cardinality({r[2] : r \in rows} \ {NoRow})
      /\ k.contracts = Cardinality({r[3] : r \in rows} \ {NoRow})
      /\ k.accepted = Cardinality(
             {r[2] : r \in {x \in rows : x[2] # NoRow /\ StatusOf(x[2]) = "ACCEPTED"}} \ {NoRow})
    BY DEF SkillReport, CountDistinct
<1> HIDE DEF k
<1>2. CASE role = "CLIENT"
  <2> DEFINE skilled == {p \in ProposalsOf(u, "CLIENT") :
                            InRange(q, createdAt[JobOf[p]]) /\ skill \in SkillsOf[JobOf[p]]}
             asked == {j \in Within(q, JobsOf(u)) : skill \in SkillsOf[j]}
             awarded == {c \in Contract : ExistsContract(c) /\ contracts[c].proposal \in skilled}
  <2>1. /\ k.jobs = Cardinality(asked)
        /\ k.proposals = Cardinality(skilled)
        /\ k.contracts = Cardinality(awarded)
        /\ k.accepted = Cardinality(WithStatus(skilled, "ACCEPTED"))
    <3>1. rows = SkillRows(u, "CLIENT", q, skill)
        BY <1>2
    <3> HIDE DEF rows
    <3>2. /\ {r[1] : r \in rows} \ {NoRow} = asked
          /\ {r[2] : r \in rows} \ {NoRow} = skilled
          /\ {r[3] : r \in rows} \ {NoRow} = awarded
          /\ {r[2] : r \in {x \in rows : x[2] # NoRow /\ StatusOf(x[2]) = "ACCEPTED"}} \ {NoRow}
                = WithStatus(skilled, "ACCEPTED")
        BY <3>1, ClientSkillRows
    <3> HIDE DEF skilled, asked, awarded
    <3>3. QED  BY <1>1, <3>2 DEF rows
  <2>2. k.contracts <= k.jobs
    <3>1. asked \subseteq Job
        BY DEF Within, JobsOf
    <3>2. \A p \in skilled : JobOf[p] \in asked
        BY ForeignKeys DEF ProposalsOf, JobsOf, Within, ContractIsGrounded
    <3> HIDE DEF skilled, asked
    <3>3. Cardinality(awarded) <= Cardinality(asked)
        BY <3>1, <3>2, ContractsAtMostJobs
    <3>4. QED  BY <2>1, <3>3
  <2>3. k.jobs <= d.jobs
    <3>1. Within(q, JobsOf(u)) \subseteq Job /\ asked \subseteq Within(q, JobsOf(u))
        BY DEF Within, JobsOf
    <3>2. d.jobs = Cardinality(Within(q, JobsOf(u)))
        BY <1>2 DEF Dashboard
    <3> HIDE DEF asked, d
    <3>3. IsFiniteSet(Within(q, JobsOf(u)))
        BY <3>1, IdsAreFinite, FS_Subset
    <3>4. QED  BY <2>1, <3>1, <3>2, <3>3, FS_Subset
  <2>4. {p \in {o \in ProposalsOf(u, role) : InRange(q, createdAt[JobOf[o]])} : skill \in SkillsOf[JobOf[p]]}
          = skilled
      BY <1>2
  <2> HIDE DEF d
  <2>5. QED  BY <1>2, <2>1, <2>2, <2>3, <2>4 DEF k, d, SkillAgrees
<1>3. CASE role = "FREELANCER"
  <2> DEFINE offers == Within(q, ProposalsOf(u, "FREELANCER"))
             skilled == {p \in Within(q, ProposalsOf(u, "FREELANCER")) : skill \in SkillsOf[JobOf[p]]}
             awarded == {c \in Contract : ExistsContract(c) /\ contracts[c].proposal \in skilled}
             asked == {JobOf[p] : p \in skilled}
  <2>1. /\ k.jobs = Cardinality(asked)
        /\ k.proposals = Cardinality(skilled)
        /\ k.contracts = Cardinality(awarded)
        /\ k.accepted = Cardinality(WithStatus(skilled, "ACCEPTED"))
    <3>1. rows = SkillRows(u, "FREELANCER", q, skill)
        BY <1>3
    <3> HIDE DEF rows
    <3>2. /\ {r[1] : r \in rows} \ {NoRow} = asked
          /\ {r[2] : r \in rows} \ {NoRow} = skilled
          /\ {r[3] : r \in rows} \ {NoRow} = awarded
          /\ {r[2] : r \in {x \in rows : x[2] # NoRow /\ StatusOf(x[2]) = "ACCEPTED"}} \ {NoRow}
                = WithStatus(skilled, "ACCEPTED")
        BY <3>1, FreelancerSkillRows
    <3> HIDE DEF skilled, asked, awarded
    <3>3. QED  BY <1>1, <3>2 DEF rows
  <2>2. offers \subseteq Proposal /\ skilled \subseteq offers
      BY DEF Within, ProposalsOf
  <2>3. k.contracts <= k.jobs
    <3>1. asked \subseteq Job
        BY <2>2, ForeignKeys
    <3>2. \A p \in skilled : JobOf[p] \in asked
        OBVIOUS
    <3> HIDE DEF skilled, asked
    <3>3. Cardinality(awarded) <= Cardinality(asked)
        BY <3>1, <3>2, ContractsAtMostJobs
    <3>4. QED  BY <2>1, <3>3
  <2>4. k.proposals <= d.proposals /\ k.accepted <= d.accepted
    <3>1. /\ d.proposals = Cardinality(offers)
          /\ d.accepted = Cardinality(WithStatus(offers, "ACCEPTED"))
        BY <1>3 DEF Dashboard
    <3>2. WithStatus(skilled, "ACCEPTED") \subseteq WithStatus(offers, "ACCEPTED")
        BY <2>2 DEF WithStatus
    <3>3. WithStatus(offers, "ACCEPTED") \subseteq Proposal
        BY <2>2 DEF WithStatus
    <3> HIDE DEF offers, skilled, d
    <3>4. IsFiniteSet(offers) /\ IsFiniteSet(WithStatus(offers, "ACCEPTED"))
        BY <2>2, <3>3, IdsAreFinite, FS_Subset
    <3>5. /\ Cardinality(skilled) <= Cardinality(offers)
          /\ Cardinality(WithStatus(skilled, "ACCEPTED")) <= Cardinality(WithStatus(offers, "ACCEPTED"))
        BY <2>2, <3>2, <3>4, FS_Subset
    <3>6. QED  BY <2>1, <3>1, <3>5
  <2> HIDE DEF d
  <2>5. QED  BY <1>3, <2>1, <2>3, <2>4 DEF k, d, SkillAgrees
<1>4. QED  BY <1>2, <1>3

LEMMA DashboardHolds ==
    ASSUME NEW u \in User, NEW q, NEW role
    PROVE  DashboardAgrees(u, role, q)
<1> DEFINE posted == IF role = "CLIENT" THEN Within(q, JobsOf(u)) ELSE {}
           offers == Within(q, ProposalsOf(u, role))
           deals == Within(q, ContractsOf(u, role))
           d == Dashboard(u, role, q)
           r == ContractReport(u, role, q)
<1>1. /\ d.contracts = Cardinality(deals)
      /\ d.publicationRate
            = Percentage(Cardinality(WithStatus(posted, "PUBLISHED")), Cardinality(posted))
      /\ d.successRate = Percentage(Cardinality(WithStatus(offers, "ACCEPTED")), Cardinality(offers))
      /\ d.completionRate
            = Percentage(Cardinality(WithStatus(deals, "COMPLETED")), Cardinality(deals))
    BY DEF Dashboard
<1>2. /\ r.active = Cardinality(WithStatus(deals, "ACTIVE"))
      /\ r.completed = Cardinality(WithStatus(deals, "COMPLETED"))
      /\ r.cancelled = Cardinality(WithStatus(deals, "CANCELLED"))
    BY DEF ContractReport
<1>3. /\ posted \subseteq Job /\ offers \subseteq Proposal
      /\ deals \subseteq {c \in Contract : ExistsContract(c)}
    BY DEF Within, JobsOf, ProposalsOf, ContractsOf
<1> HIDE DEF posted, offers, deals, d, r
<1>4. IsFiniteSet(posted) /\ IsFiniteSet(offers) /\ IsFiniteSet(deals)
    BY <1>3, IdsAreFinite, FS_Subset
<1>5. ASSUME NEW rows, IsFiniteSet(rows), NEW status
      PROVE  Percentage(Cardinality(WithStatus(rows, status)), Cardinality(rows)) \in Rate
  <2> DEFINE part == Cardinality(WithStatus(rows, status))
             all == Cardinality(rows)
  <2>1. WithStatus(rows, status) \subseteq rows
      BY DEF WithStatus
  <2>2. part \in Nat /\ all \in Nat /\ part <= all
      BY <1>5, <2>1, CardinalityOfPart
  <2> HIDE DEF part, all
  <2>3. Percentage(part, all) \in Rate
      BY <2>2, AtMostAll
  <2>4. QED  BY <2>3 DEF part, all
<1>6. d.contracts = r.active + r.completed + r.cancelled
    BY <1>1, <1>2, <1>3, ContractStatuses
<1>7. d.completionRate = Percentage(r.completed, r.active + r.completed + r.cancelled)
    BY <1>1, <1>2, <1>6
<1>8. /\ d.publicationRate \in Rate
      /\ d.successRate \in Rate
      /\ d.completionRate \in Rate
    BY <1>1, <1>4, <1>5
<1>9. {d.publicationRate, d.successRate, d.completionRate} \subseteq Rate
    BY <1>8
<1>10. QED  BY <1>6, <1>7, <1>9 DEF d, r, DashboardAgrees

LEMMA ReportsHold ==
    ASSUME ReportsTypeOK, OneContractPerJob, ContractIsGrounded
    PROVE  ReportsAgree
    BY Users, DashboardHolds, SkillsHold DEF ReportsAgree

-----------------------------------------------------------------------------
(* The reports, at every moment. *)

LEMMA ReportsTypeStep ==
    ASSUME ReportsTypeOK, [ReportsNext]_reportVars
    PROVE  ReportsTypeOK'
<1>1. [TablesNext]_tables
    BY DEF ReportsNext, Transaction, Tick, reportVars, tables
<1>2. TablesTypeOK'
    BY <1>1, TablesTypeStep DEF ReportsTypeOK
<1>3. now' \in Moment /\ createdAt' \in [RowId -> Moment]
    BY DEF ReportsTypeOK, ReportsNext, Transaction, Tick, reportVars
<1>4. QED  BY <1>2, <1>3 DEF ReportsTypeOK

\* The tables and the stamps are typed in every state.
THEOREM ReportsTyped == ReportsSpec => []ReportsTypeOK
<1>1. ReportsInit => ReportsTypeOK
    BY TablesInvInit DEF ReportsInit, ReportsTypeOK, TablesInv
<1>2. ReportsTypeOK /\ [ReportsNext]_reportVars => ReportsTypeOK'
    BY ReportsTypeStep
<1>3. QED  BY <1>1, <1>2, PTL DEF ReportsSpec

\* By the definition of Transaction, a step of the reports' module is one of the tables or
\* leaves them alone: TablesInv can be used of what the reports read.
LEMMA ReportsReadTables == ReportsSpec => TablesSpec
<1>1. ReportsInit => TablesInit
    BY DEF ReportsInit
<1>2. [ReportsNext]_reportVars => [TablesNext]_tables
    BY DEF ReportsNext, Transaction, Tick, reportVars, tables
<1>3. QED  BY <1>1, <1>2, PTL DEF ReportsSpec, TablesSpec

\* In every state, each entry of the trends is the number of the rows of its period and
\* no row that they are to tell of is without an entry, whatever the calendar.
THEOREM TrendsAreRight == ReportsSpec => []TrendsAddUp
<1>1. ReportsTypeOK => TrendsAddUp
    BY TrendsHold
<1>2. QED  BY <1>1, ReportsTyped, PTL

\* In every state the dashboard, the contract report and the skills report of a user agree.
THEOREM ReportsDoAgree == ReportsSpec => []ReportsAgree
<1>1. ReportsTypeOK /\ TablesInv => ReportsAgree
    BY ReportsHold DEF TablesInv
<1>2. QED  BY <1>1, ReportsTyped, ReportsReadTables, TablesConsistent, PTL
=============================================================================
