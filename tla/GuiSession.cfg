\* The capacities are the code's.  Three jobs are enough for a lost run or save
\* result, and for a conversion overtaken by two others.
CONSTANTS
    MaxJobs = 3
    MaxEdits = 1
    ConvertCap = 4
    RunCap = 2
    SaveCap = 2
SPECIFICATION Spec
INVARIANTS
    TypeOK
    BusyEnds
    ConversionOwnsSource
    LatestConversionWins
