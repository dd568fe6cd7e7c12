CONSTANTS
    c1 = c1  m1 = m1  m2 = m2  v1 = v1  v2 = v2  v3 = v3  r1 = r1  r2 = r2
    Contract = {c1}
    Milestone = {m1, m2}
    Review = {v1, v2, v3}
    Request = {r1}
    ContractOf <- MCContractOf
    ReviewedContract <- MCReviewedContract
    ReviewerRole <- MCReviewerRole
    NoId = NoId
    MaxLost = 1
SPECIFICATION Spec
INVARIANT
    CompletedIsDone
PROPERTIES
    TermsAreFrozen
    EndIsEarned
CHECK_DEADLOCK FALSE
