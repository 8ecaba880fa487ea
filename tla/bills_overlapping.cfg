SPECIFICATION Spec
CONSTANTS
    u1 = u1
    u2 = u2
    p1 = p1
    p2 = p2
    p3 = p3
    r1 = r1
    r2 = r2
    s1 = s1
    s2 = s2
    b1 = b1
    Users = {u1, u2}
    Payments = {p1, p2, p3}
    Assignments = {r1, s1, b1}
    Payer <- PayerOf
    Title <- TitleOf
    Type <- TypeOf
    Lists <- ListsOf
    Due <- DueOf
    Roles <- RolesOf
    Total <- TotalOf
    Fee <- FeeOf
    Rank <- RankOf
    NextDue <- NextDueOf
    Opening <- OpeningOf
    Amounts = {1, 2, 3}
    Overlap = TRUE
CHECK_DEADLOCK FALSE
INVARIANTS
    TypeOK
    NeverOverpaid
    WalletNeverOverdrawn
    PaidIsBacked
    WalletNotOvercharged
