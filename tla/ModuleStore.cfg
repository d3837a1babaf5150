\* Three goroutines spread over one or two processes, two contents of the source,
\* three imports or removals, one edit and one death.  The commands that use the
\* store end, so a state without a next step is not an error.
CONSTANTS
    Thread = {t1, t2, t3}
    Process = {p1, p2}
    Version = {v0, v1}
    MaxWrites = 3
    MaxEdits = 1
    MaxCrashes = 1
SPECIFICATION Spec
SYMMETRY StoreSymmetry
INVARIANTS
    TypeOK
    StoreIsWhole
    StaleNeedsRacingEdit
CHECK_DEADLOCK FALSE
