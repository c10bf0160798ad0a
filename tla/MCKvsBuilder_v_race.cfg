SPECIFICATION Spec
CONSTANTS
    Threads = {t1, t2}
    Instances <- MCInstances
    Requests <- MCRequests
    MaxData = 3
    Unset = Unset
    None = None
INVARIANT DataShared
