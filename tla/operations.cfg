SPECIFICATION Spec
CONSTANTS
    Workers = {w1}
    Listeners = {l1, l2}
    Streams = {s1}
    Audience = {u1, u2}
    Everybody = Everybody
    MaxEvents = 2
    Processes = {p1, p2}
    Apartments = {a1}
    MonthLength <- MCMonthLength
    Every = 1
    FirstDay = 2
    MaxMonth = 2
    MaxFailures = 1
    NoProcess = NoProcess
    Submissions = {b1, b2}
    References = {r1, r2, r3}
    NoReference = NoReference
CHECK_DEADLOCK FALSE
INVARIANTS
    TypeOK
    StreamsAreInOrder
    
    WalletIsSetUp
PROPERTIES
    WorkGetsDone
