\* Two workers, two directories of one unit, a package of two files and one of a
\* single file that depend on each other, one failure or death anywhere, and two
\* more exports over what is there.  An export that has ended stays so.
CONSTANTS
    w1 = w1
    w2 = w2
    u1 = u1
    u2 = u2
    libP = libP
    libQ = libQ
    pa = pa
    pb = pb
    qa = qa
    Thread = {w1, w2}
    Unit = {u1, u2}
    Package = {libP, libQ}
    File = {pa, pb, qa}
    FilesOf <- MCFilesOf
    DepsOf <- MCDepsOf
    GroupOf <- MCGroupOf
    Needs <- MCNeeds
    MaxFailures = 1
    MaxRuns = 3
SPECIFICATION Spec
SYMMETRY ExportSymmetry
INVARIANTS
    TypeOK
    HitIsReadable
    
    InlineOnce
    
    
CHECK_DEADLOCK FALSE
