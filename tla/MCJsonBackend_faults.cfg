SPECIFICATION Spec
CONSTANTS
    MaxCount = 3
    MaxFlush = 5
    Faults <- AllFaults
    Absent = Absent
    Torn = Torn
INVARIANT TypeOK
INVARIANT CommittedDurable
INVARIANT CommittedSurvives
INVARIANT NewestFirst
INVARIANT CorruptMeansInterrupted
PROPERTY LoadsOnlyAcked
PROPERTY AckMeansWhole
PROPERTY RestoreExact
PROPERTY StoreSpec
