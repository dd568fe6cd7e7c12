CONSTANTS
    k1 = k1  k2 = k2  u1 = u1  contract = contract  job = job
    e1 = e1  e2 = e2  worker = worker  tester = tester
    Key = {k1, k2}
    User = {u1}
    Category = {contract, job}
    RecipientOf <- MCRecipientOf
    CategoryOf <- MCCategoryOf
    Mandatory = {contract}
    Emitter = {e1, e2}
    Dispatcher = {worker, tester}
    Worker = {worker}
    NoKey = NoKey
    MaxAttempts = 2
    BatchSize = 2
    BackoffUnit = 1
    MaxFaults = 1
SPECIFICATION FairSpec
INVARIANTS
    TypeOK
    CallsAreCounted
    SentOnce
PROPERTIES
    KeepsLedger
    EventuallySettled
CHECK_DEADLOCK FALSE
