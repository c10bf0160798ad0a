SPECIFICATION Spec
CONSTANTS
    Threads = {t1, t2}
    Flushers = {t1, t2}
    Keys = {k1}
    Values = {v1}
    DefaultsFile <- MCDefaultsFile
    MaxCount = 1
    MaxFlush = 2
    Faults = {}
    Missing = Missing
    Absent = Absent
    Empty = Empty
    Torn = Torn
    Nobody = Nobody
INVARIANT FlushedIsLoadable
