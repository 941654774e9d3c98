SPECIFICATION UploadsSpec
CONSTANTS
    Requests = {r1, r2}
    Fingerprints = {f1, f2}
    NoFp = NoFp
    Backends = {"file", "s3"}
    MaxToken = 3
    MaxFaults = 2
    Uploads = {u1, u2}
    Ledgers = {"postgres", "memory"}
    MaxEpoch = 2
    MaxActivityFaults = 1
    Keys = {k1}
    Writers = {w1, w2, w3}
    Readers = {q1}
    None = None
    MaxStoreFaults = 1
    c1 = c1
    c2 = c2
    f1 = f1
    p1 = p1
    Refs = {u}
    NoRef = NoRef
    Owners = {w}
    Nobody = Nobody
    Digests = {d1, d2}
    NoPart = NoPart
    CompactAfter = 2
    MaxEvents = 4
    MaxCrashes = 1
SYMMETRY Symmetry
INVARIANTS
    StagingRegistered
    ReadsOneVersion
    PartsExact
    
    JournalReplays
PROPERTIES
    ImplementsContract
CHECK_DEADLOCK FALSE
