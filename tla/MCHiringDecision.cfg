CONSTANTS
    j1 = j1  p1 = p1  p2 = p2  p3 = p3  c1 = c1  c2 = c2
    client = client  f1 = f1  f2 = f2
    r1 = r1  r2 = r2
    Job = {j1}
    Proposal = {p1, p2}
    Contract = {c1, c2}
    User = {client, f1, f2}
    Request = {r1, r2}
    OwnerOf <- MCOwnerOf
    JobOf <- MCJobOf
    FreelancerOf <- MCFreelancerOf
    NoProposal = NoProposal
    NoId = NoId
    MaxLost = 1
SPECIFICATION Spec
PROPERTY DecisionIsFinal
CHECK_DEADLOCK FALSE
