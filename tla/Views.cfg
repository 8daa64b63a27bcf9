SPECIFICATION Spec
CONSTANTS
    Dialects <- AllDialects
    PlainBodies <- SomePlainBodies
    ListedBodies <- SomeListedBodies
    TypedQueries <- SomeTypedQueries
    Checks <- SomeChecks
    Environments <- SomeEnvironments
    TextBodies <- SomeTextBodies
    RecursiveBodies <- SomeRecursiveBodies
    Truth <- AllRelations
    Catalog <- KnownRelations
    MaxPasses = 2
INVARIANTS
    LoweringFaithful
    MeaningKept
    PassesSettle
    ChecksKeepMeaning
    DependenciesCompleteButHidden
    TextIsUnambiguous
    RecursionIsNotHidden
