SPECIFICATION Spec
CONSTANTS
    Stores <- MCStores
    App = App
    Tool = Tool
    Keys = {"k1"}
    Missing = Missing
    AppValues <- MCAppValues
    JsonPayloads = {}
    TextPayloads = {}
    NoPayload = NoPayload
    TestData <- MCTestData
    MaxCount = 2
    MaxFlush = 3
    Faults = {"io", "string", "crash"}
    Absent = Absent
    Empty = Empty
    Torn = Torn
VIEW MCView
INVARIANT ToolTypeOK
INVARIANT TakingTurns
PROPERTY LoadsOnlyAcked
PROPERTY TurnsBuildOnEachOther
PROPERTY ExitTellsOutcome
PROPERTY ToolGetsDone
