CONSTANTS
    f1 = f1  f2 = f2  u1 = u1  u2 = u2  x1 = x1  r1 = r1  r2 = r2  r3 = r3
    File = {f1, f2}
    Owner = {u1, u2}
    Resource = {x1}
    OwnerOf <- MCOwnerOf
    ResourceOf <- MCResourceOf
    Request = {r1, r2, r3}
    NoFile = NoFile
SPECIFICATION Spec
INVARIANTS
    TypeOK
    AtRestIsWhole
PROPERTY ConfirmedWhenStored
CHECK_DEADLOCK FALSE
