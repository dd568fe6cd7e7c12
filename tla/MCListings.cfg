CONSTANTS
    j1 = j1  p1 = p1  s1 = s1  s2 = s2  r1 = r1  r2 = r2
    Job = {j1}
    Profile = {p1}
    Skill = {s1, s2}
    Name <- MCName
    Fold <- MCFold
    Likes <- MCLikes
    Amount = {1, 2}
    Wanted <- MCWanted
    Request = {r1, r2}
    NoId = NoId
SPECIFICATION Spec
SYMMETRY Symmetry
CONSTRAINT NamesApart
INVARIANTS
    TypeOK
    LinksAreGrounded
PROPERTY OnlyStaleOrMisreadChecksLetThrough
CHECK_DEADLOCK FALSE
