SPECIFICATION Spec
CONSTANTS
    MaxCount = 2
    MaxFlush = 3
    Faults = {}
    Absent = Absent
    Torn = Torn
PROPERTY MissingSnapshotIsInvalid
