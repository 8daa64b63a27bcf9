SPECIFICATION FairSpec
CONSTANTS
    c1 = c1
    c2 = c2
    c3 = c3
    n1 = n1
    n2 = n2
    n3 = n3
    Query = Query
    Ctes <- ThreeCtes
    Names <- ThreeNames
    Bodies <- AllBodies
    Namings <- SomeNamings
    Recursives <- SomeRecursives
    Queries <- SomeQueries
    Kinds = {"query", "mutation"}
INVARIANTS
    TypeOK
    DependenciesFirst
    ReferencesResolve
    ClauseIsComplete
    PanicIsJustified
PROPERTY CollectionEnds
CHECK_DEADLOCK FALSE
