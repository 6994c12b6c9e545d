SPECIFICATION Spec
CONSTANTS
    r1 = r1
    r2 = r2
    r3 = r3
    r4 = r4
    k1 = k1
    None = None
    Request = {r1, r2, r3, r4}
    Key = {k1}
    KeyOf <- OneKey
    MaxStoreFaults = 2
    MaxBrokerFaults = 2
    MaxCrashes = 1
SYMMETRY RequestSymmetry
INVARIANTS
    TypeOK
    OneJobPerKey
    AnswerNamesAJob
    KeyNotStuck
\* a request is answered once
CHECK_DEADLOCK FALSE
