SPECIFICATION FairSpec
CONSTANTS
    t1 = t1
    t2 = t2
    w1 = w1
    r1 = r1
    Txs <- TwoTxs
    Writes <- OneWrite
    Reads <- OneRead
    NoTx = NoTx
    NoStmt = NoStmt
    MaySwallow = TRUE
    MayFailLate = TRUE
    MayLose = TRUE
INVARIANTS
    IsolationInv
    OutcomeIsSound
PROPERTIES
    ImplementsAtomic
    AbandonedTransactionEnds
CHECK_DEADLOCK FALSE
