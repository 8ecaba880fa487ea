SPECIFICATION Spec
CONSTANTS
    t1 = t1
    t2 = t2
    u1 = u1
    f1 = f1
    w1 = w1
    w2 = w2
    NoMessage = NoMessage
    Transfers = {t1}
    Utilities = {}
    Fundings = {f1}
    Workers = {w1}
    Amount <- AmountOf
    Opening = 4
    Overlap = "any"
    BlankAnswers = FALSE
INVARIANT NotOvercharged
