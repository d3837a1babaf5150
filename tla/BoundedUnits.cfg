\* Seven units and two workers: one unit more than the workers and the queue can
\* hold.  Deadlock is allowed: the submitter may stay blocked on a full queue.
CONSTANTS
    UnitCount = 7
    Worker = {w1, w2}
    Cancellable = TRUE
SPECIFICATION FairSpec
INVARIANTS
    TypeOK
    NilMeansAll
    ErrorIsReported
PROPERTY ReturnsUnlessDeserted
CHECK_DEADLOCK FALSE
