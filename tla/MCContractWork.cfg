CONSTANTS
    c1 = c1  m1 = m1  m2 = m2  v1 = v1  v2 = v2  v3 = v3  r1 = r1  r2 = r2
    Contract = {c1}
    Milestone = {m1}
    Review = {v1, v2}
    Request = {r1, r2}
    ContractOf <- MCContractOf
    ReviewedContract <- MCReviewedContract
    ReviewerRole <- MCReviewerRole
    NoId = NoId
    MaxLost = 1
SPECIFICATION Spec
SYMMETRY Symmetry
INVARIANTS
    TypeOK
    WorkIsGrounded
    OneReviewEach
    NoticesAreTrue
PROPERTY WorkIsNotUndone
CHECK_DEADLOCK FALSE
