SPECIFICATION Spec
CONSTANTS
    k1 = k1  k2 = k2  k3 = k3
    Keys = {k1, k2, k3}
    Values = {v1, v2}
    Null = Null
    Hash <- MCHash
    InitialSize = 4
    ShrinkBelow = 4
    MaxTouched = 5
INVARIANT NeverFull
CHECK_DEADLOCK FALSE
