CONSTANTS
    j1 = j1  p1 = p1  p2 = p2  c1 = c1
    client = client  f1 = f1  f2 = f2  s1 = s1  s2 = s2
    Job = {j1}
    Proposal = {p1, p2}
    Contract = {c1}
    User = {client, f1, f2}
    OwnerOf <- MCOwnerOf
    JobOf <- MCJobOf
    FreelancerOf <- MCFreelancerOf
    NoProposal = NoProposal
    Parts = 2
    Moment <- MCMoment
    MonthStarts <- MCMonthStarts
    YearStarts <- MCYearStarts
    Asked <- MCAsked
    NoDay = NoDay
    Session <- MCSession
    RoleOf <- MCRoleOf
    Skill = {s1, s2}
    SkillsOf <- MCSkillsOf
SPECIFICATION ReportsSpec
INVARIANTS
    ReportsTypeOK
    TrendsAddUp
    ReportsAgree
CHECK_DEADLOCK FALSE
