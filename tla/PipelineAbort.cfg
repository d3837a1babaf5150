CONSTANTS
    UnitCount = 3
    PrepWorker = {p1, p2}
    CompileWorker = {c1, c2}
    EntryRequested = TRUE
    IndexedEntry = {1}
    BodyEntry = {1}
SPECIFICATION Spec
SYMMETRY WorkerSymmetry
INVARIANT NeverAborts
