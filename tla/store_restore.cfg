SPECIFICATION StoreSpec
CONSTANTS
    m1 = m1
    m2 = m2
    Monitors = {m1, m2}
    AllOutputs = AllOutputs
    Absent = Absent
    Torn = Torn
    MaxEntries = 3
    MaxRequests = 2
PROPERTIES RestoresLast
CHECK_DEADLOCK FALSE
