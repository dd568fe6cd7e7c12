CONSTANTS
    m1 = m1  p1 = p1  p2 = p2  p3 = p3  r1 = r1  r2 = r2
    Milestone = {m1}
    Payment = {p1, p2, p3}
    MilestoneOf <- MCMilestoneOf
    Checkout = {r1, r2}
    NoPayment = NoPayment
    MaxFailures = 1
SPECIFICATION FairSpec
INVARIANTS
    TypeOK
    ChargedOnce
    LinkIsOnRecord
    PaidIsTrue
PROPERTIES
    PaidIsFinal
    PaidIsRecorded
CHECK_DEADLOCK FALSE
