SPECIFICATION Spec
CONSTANTS
    Null = Null
    I64Max = 3
    Dialects = {"postgres", "mysql", "sqlite"}
    Schemas <- MCSchemas
    Tables <- MCTables
    OtherRows <- MCOtherRows
    OtherColumns <- MCOtherColumns
    ColumnLists <- MCColumnLists
    Assignable <- MCAssignable
    SetExprs <- MCSetExprs
    JoinedExprs <- MCJoinedExprs
    Predicates <- MCPredicates
    JoinedPredicates <- MCJoinedPredicates
    Sources <- MCSources
    Targets <- MCTargets
    Projections <- MCProjections
    Arguments <- MCArguments
    MaxRows = 2
    MaxSetters = 2
    MaxCalls <- MCMaxCalls
    MaxRuns = 2
INVARIANT EffectIsMeaning
CHECK_DEADLOCK FALSE
