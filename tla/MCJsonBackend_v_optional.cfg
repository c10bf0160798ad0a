SPECIFICATION Spec
CONSTANTS
    MaxCount = 2
    MaxFlush = 3
    Faults = {"crash"}
    Absent = Absent
    Torn = Torn
PROPERTY OptionalLoadsWhatIsThere
