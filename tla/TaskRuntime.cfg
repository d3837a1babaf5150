\* Two tasks besides the caller, six operations in all, a channel of one; Windows has every step.
\* Deadlock is allowed: a run ends by returning, and a program may await in a circle.
CONSTANTS
    TaskCount = 2
    MaxOps = 6
    Capacity = 1
    Windows = TRUE
SPECIFICATION FairSpec
INVARIANTS
    TypeOK
    OutputExactlyOnce
    QuiescentSweep
    ReadersSeeFinalOutput
PROPERTY Settles
CHECK_DEADLOCK FALSE
