CONSTANTS
    a1 = a1  a2 = a2  a3 = a3  mail = mail  other = other  x1 = x1  x2 = x2
    r1 = r1  r2 = r2  r3 = r3
    Account = {a1, a2, a3}
    Email = {mail, other}
    EmailOf <- MCEmailOf
    Post = {x1, x2}
    AuthorOf <- MCAuthorOf
    Request = {r1, r2, r3}
    NoId = NoId
SPECIFICATION Spec
SYMMETRY Symmetry
INVARIANTS
    TypeOK
    LostEmailsAreExplained
PROPERTY DeletionTakesNoWork
CHECK_DEADLOCK FALSE
