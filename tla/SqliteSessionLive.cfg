SPECIFICATION FairSpec
CONSTANTS
    t1 = t1
    t2 = t2
    m1 = m1
    m2 = m2
    Txs <- TwoTxs
    Stmts <- OneStmt
    NoTx = NoTx
    Manual = Manual
    NoStmt = NoStmt
    MaxManual = 1
    AutoRollback = TRUE
    MayClose = TRUE
INVARIANT OkMeansDurable
PROPERTY AbandonedTransactionEnds
CHECK_DEADLOCK FALSE
