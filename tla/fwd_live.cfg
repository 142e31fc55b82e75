SPECIFICATION FairSpec
CONSTANTS
    m = m  s1 = s1  s2 = s2
    e1 = e1  e2 = e2  e3 = e3
    w1 = w1  w2 = w2  ws = ws
    c1 = c1  c2 = c2
    NoWorker = NoWorker
    Master = m
    Node = {m, s1}
    Event = {e1}
    Worker = {w1, w2}
    Conn = {c1}
    BatchSize = 2
    MaxAttempts = 2
    MaxFaults = 1
    Peers <- PairPeers
    Origin <- MCOrigin
    Key <- DistinctKeys
    Home <- MCHome
INVARIANTS
    StoredAtMostOnce
PROPERTIES
    RowsSettle
    RowsDelivered
