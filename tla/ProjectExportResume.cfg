\* The instance of ProjectExport.cfg.
CONSTANTS
    w1 = w1
    w2 = w2
    u1 = u1
    u2 = u2
    libP = libP
    libQ = libQ
    pa = pa
    pb = pb
    qa = qa
    Thread = {w1, w2}
    Unit = {u1, u2}
    Package = {libP, libQ}
    File = {pa, pb, qa}
    FilesOf <- MCFilesOf
    DepsOf <- MCDepsOf
    GroupOf <- MCGroupOf
    Needs <- MCNeeds
    MaxFailures = 1
    MaxRuns = 3
SPECIFICATION Spec
SYMMETRY ExportSymmetry
INVARIANT ResumeIsSafe
CHECK_DEADLOCK FALSE
