SPECIFICATION Spec
CONSTANTS
    d1 = d1
    ann = ann
    k = k
    noKey = noKey
    r1 = r1
    r2 = r2
    w1 = w1
    w2 = w2
    Docs = {d1}
    People = {ann}
    Keys = {k}
    NoKey = noKey
    Requests = {r1, r2}
    Workers = {w1, w2}
    MAX_DELIVERIES = 2
    MaxMessages = 2
    MaxChunks = 1
    MaxCrashes = 1
SYMMETRY Interchangeable
INVARIANT TypeOK
INVARIANT ProcessedIsIndexed
INVARIANT ForgottenMeansDestroyed
INVARIANT EveryDocumentIsAnnounced
