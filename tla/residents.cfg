SPECIFICATION Spec
CONSTANTS
    u1 = u1
    u2 = u2
    r1 = r1
    r2 = r2
    i1 = i1
    i2 = i2
    m1 = m1
    p1 = p1
    p2 = p2
    t1 = t1
    t2 = t2
    t3 = t3
    e1 = e1
    e2 = e2
    Users = {u1, u2}
    Devices = {i1, i2}
    Requests = {r1, r2}
    MaxLogins = 2
    People = {p1, p2}
    Founders = {p1}
    Units = {t1, t2, t3}
    Estates = {e1, e2}
    EstateOf <- MCEstateOf
    Links = {1, 2}
    Calls = {r1, r2}
    NoEstate = NoEstate
    Asks = {r1, r2}
    Cooldown = 1
    Hour = 4
    HourlyLimit = 2
    Life = 2
    MaxTime = 4
    MaxCodes = 4
    Changes = {r1, r2}
    MaxPins = 4
    Chatters = {u1, u2}
    Handlers = {r1, r2}
    Messages = {m1}
    Chats = {i1, i2}
    MaxRows = 2
    MaxMade = 2
    MaxOverlaps = 1
    Neighbors = {u1, u2}
    Housed = {u1, u2}
    Posts = {i1, i2}
    FeedRequests = {r1, r2}
    MaxMarked = 1
    MaxMarkRows = 2
    MaxCrossed = 1
    NoPost = NoPost
    Limit = 2
    MaxItem = 4
SYMMETRY Symmetry
CHECK_DEADLOCK FALSE
INVARIANTS
    TypeOK
    PushFollowsLogin
    LoginIsLatest
    LinksAreSound
    CodesAreLimited
    KnownPinWorks
    ChatsAreSound
    FeedIsSound
    ListsAreWhole
