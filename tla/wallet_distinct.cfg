SPECIFICATION Spec
CONSTANTS
    t1 = t1
    t2 = t2
    u1 = u1
    f1 = f1
    w1 = w1
    w2 = w2
    NoMessage = NoMessage
    Transfers = {t1, t2}
    Utilities = {}
    Fundings = {f1}
    Workers = {w1, w2}
    Amount <- AmountOf
    Opening = 4
    Overlap = "distinct"
    BlankAnswers = FALSE
SYMMETRY Symmetry
INVARIANTS
    TransferDebitedOnce
    NotOvercharged
    FailedTransferIsFree
PROPERTIES
    SuccessIsFinal
