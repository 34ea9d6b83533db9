SYMMETRY ClientsAndKeys
SPECIFICATION Spec
CONSTANTS
    Client = {c1, c2}
    Key = {k1, k2}
    Value = {v1, v2}
    Absent = Absent
    MaxLife = 1
    MaxCalls = 3
    MaxFaults = 1
INVARIANTS TypeOK IterationFaithful
PROPERTY KeepsPromise
CHECK_DEADLOCK FALSE
