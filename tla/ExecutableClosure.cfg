\* Three units; five imports, with cycles of two and of three units, five calls, a
\* reference to a global, two orderings of initializers and a shared package, each there
\* or not.  The function returns, so its last state has no next step.
CONSTANTS
    UnitCount = 3
    Function <- MCFunction
    Initializers <- MCInitializers
    Entry = 21
    Kind <- MCKind
    UnitOf <- MCUnitOf
    MayCall <- MCMayCall
    MayRefer <- MCMayRefer
    MayPrecede <- MCMayPrecede
    MayImport <- MCMayImport
    MayShare <- MCMayShare
SPECIFICATION FairSpec
INVARIANTS
    TypeOK
    ClosureIsReachability
    InitializersInOrder
PROPERTY Terminates
CHECK_DEADLOCK FALSE
