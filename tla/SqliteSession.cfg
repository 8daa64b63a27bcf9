SPECIFICATION Spec
CONSTANTS
    t1 = t1
    t2 = t2
    m1 = m1
    m2 = m2
    Txs <- TwoTxs
    Stmts <- TwoStmts
    NoTx = NoTx
    Manual = Manual
    NoStmt = NoStmt
    MaxManual = 1
    AutoRollback = FALSE
    MayClose = TRUE
SYMMETRY Symmetry
INVARIANTS
    IsolationInv
    NoStraggler
    AllOrNothing
    OkMeansDurable
    ErrorMeansNothing
PROPERTIES
    RollbackEndsOwn
    ImplementsAtomic
CHECK_DEADLOCK FALSE
