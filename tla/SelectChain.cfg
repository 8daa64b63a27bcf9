SPECIFICATION Spec
CONSTANTS
    ParamNames <- SomeNames
    MaxSubCalls = 1
    MaxSources = 3
    Menus <- SomeMenus
    ArithmeticOverNulls = FALSE
    WindowInHaving = FALSE
INVARIANTS
    GroupingIsSound
    PlacementIsSound
    PlaceholdersFollowParams
    NullsDecoded
    DistinctOrdersByProjected
    LocksIdentifyRows
    EveryCteCollected
    CallOrderIsFree
CHECK_DEADLOCK FALSE
