\* Two units with two contents each, two compilations at a time and three in all,
\* two edits, one death.  Compilations end.
CONSTANTS
    UnitCount = 2
    Build = {b1, b2}
    Content = {v0, v1}
    MaxEdits = 2
    MaxBuilds = 3
    MaxCrashes = 1
SPECIFICATION Spec
SYMMETRY CacheSymmetry
INVARIANT TypeOK
PROPERTY LinksWhatIsOnDisk
CHECK_DEADLOCK FALSE
