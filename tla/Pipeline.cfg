\* Three units, two workers of each kind; the entry is known only from the body of
\* unit 1.
CONSTANTS
    UnitCount = 3
    PrepWorker = {p1, p2}
    CompileWorker = {c1, c2}
    EntryRequested = TRUE
    IndexedEntry = {}
    BodyEntry = {1}
SPECIFICATION FairSpec
INVARIANTS
    TypeOK
    BodyBound
    CancelHasCause
    LinkedIsSound
    QuiescentMerge
    SendersFindOpen
    CrashNeedsFailures
PROPERTIES
    Implements
    Termination
