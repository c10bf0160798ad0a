SPECIFICATION Spec
CONSTANTS
    Base = 13
    NMax = 9
    ByteSize = 4
INVARIANT SumsExact
INVARIANT FileHashChecks
CHECK_DEADLOCK FALSE
