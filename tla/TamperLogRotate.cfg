SPECIFICATION Spec
CONSTANTS
    p1 = p1
    p2 = p2
    Proc <- MCProc
    Signed <- MCSigned
    MaxFileBytes = 1
    MaxRotation = 3
    MaxEvents = 5
    MaxFaults = 3
INVARIANT
    InterruptedRotationProvable
