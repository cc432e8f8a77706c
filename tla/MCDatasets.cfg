\* Three uploads and any number of ingest_file() calls, three faults.
SPECIFICATION Spec
CONSTANTS
    t1 = t1
    t2 = t2
    t3 = t3
    Bytes = {"clean", "ragged"}
    TempNames = {t1, t2, t3}
    FileNames = {"orders.csv"}
    Requests <- SomeUploads
    Understood <- OnlyCsv
    Malformed = {"ragged"}
    MaxFaults = 3
SYMMETRY FreshNames
\* Nothing else can happen once an index that is torn has been lost.
CHECK_DEADLOCK FALSE
INVARIANTS
    SnapshotsAreWhole
    FramesAreWhole
    AnsweredIsKept
