SPECIFICATION FeedSpec
CONSTANTS
    Neighbors = {u1, u2}
    Housed = {u1, u2}
    Posts = {p1, p2}
    FeedRequests = {r1}
    MaxMarked = 1
    MaxMarkRows = 2
    MaxCrossed = 1
    NoPost = NoPost
CHECK_DEADLOCK FALSE
INVARIANTS
    AuthorsCanDelete
