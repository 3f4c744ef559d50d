CONSTANTS
    Handle = {h1, h2}
    NoHandle = NoHandle
    Thread = {t1, t2}
    NoThread = NoThread
    Name = {n1, n2}
    MaxFileBytes = 1
    MaxCalls = 3
    MaxFaults = 2
SPECIFICATION Spec
SYMMETRY Symmetry
INVARIANT FailsClosed
CHECK_DEADLOCK FALSE
