SPECIFICATION KvsFairSpec
CONSTANTS
    Threads = {t1, t2}
    Keys = {k1}
    Values = {v1}
    DefaultValues = {d1}
    DefaultsFile <- MCDefaultsFile
    Missing = Missing
    Nobody = Nobody
    MaxCount = 2
    MaxFlush = 2
    Faults = {"io", "string", "crash"}
    Absent = Absent
    Torn = Torn
INVARIANT KvsTypeOK
INVARIANT DefaultsStayOut
PROPERTY LoadReturnsSaved
PROPERTY ReopenGivesLastFlush
PROPERTY UndisturbedCount
PROPERTY CountAtMostOneHigh
PROPERTY CallsReturn
