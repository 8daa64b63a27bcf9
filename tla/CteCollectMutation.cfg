SPECIFICATION Spec
CONSTANTS
    c1 = c1
    c2 = c2
    c3 = c3
    n1 = n1
    n2 = n2
    n3 = n3
    Query = Query
    Ctes <- ThreeCtes
    Names <- ThreeNames
    Bodies <- AllBodies
    Namings <- SomeNamings
    Recursives <- SomeRecursives
    Queries <- SomeQueries
    Kinds = {"query", "mutation"}
INVARIANT EveryReferenceDefined
CHECK_DEADLOCK FALSE
