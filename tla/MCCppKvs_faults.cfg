SPECIFICATION Spec
CONSTANTS
    Threads = {t1, t2}
    Flushers = {t1}
    Keys = {k1}
    Values = {}
    DefaultsFile = Absent
    MaxCount = 2
    MaxFlush = 3
    Faults = {"io", "json", "crash"}
    Missing = Missing
    Absent = Absent
    Empty = Empty
    Torn = Torn
    Nobody = Nobody
INVARIANT TypeOK
INVARIANT CommittedDurable
INVARIANT CommittedSurvives
PROPERTY RestoreReadsOneSnapshot
PROPERTY StoreSpec
