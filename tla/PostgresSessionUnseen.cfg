SPECIFICATION Spec
CONSTANTS
    t1 = t1
    t2 = t2
    w1 = w1
    r1 = r1
    Txs <- OneTx
    Writes <- OneWrite
    Reads <- OneRead
    NoTx = NoTx
    NoStmt = NoStmt
    MaySwallow = FALSE
    MayFailLate = TRUE
    MayLose = FALSE
INVARIANT OkMeansDurable
CHECK_DEADLOCK FALSE
