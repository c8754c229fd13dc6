SPECIFICATION Spec
CONSTANTS
    d1 = d1
    d2 = d2
    ann = ann
    ben = ben
    k = k
    noKey = noKey
    r1 = r1
    r2 = r2
    Docs = {d1, d2}
    People = {ann, ben}
    Keys = {k}
    NoKey = noKey
    Requests = {r1, r2}
    Workers = {}
    MAX_DELIVERIES = 1
    MaxMessages = 3
    MaxChunks = 1
    MaxCrashes = 0
SYMMETRY Interchangeable
INVARIANT OneDocumentPerKey
