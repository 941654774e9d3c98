SPECIFICATION StorageSpec
CONSTANTS
    Operations = {p1}
    Recoverers = {t1, t2}
    ConfigKinds = {"s3", "role", "managed"}
    Deployments <- StorageDeployments
    Headers = {"none", "managed", "presigned"}
    MaxVersion = 3
    MaxToken = 3
    MaxStalls = 1
    Nobody = Nobody
    Requests = {r1, r2}
    Kinds = {"get", "head", "list", "spool", "avro", "lance", "put_avro", "put_lance", "direct", "put", "delete", "managed", "abort", "complete"}
    MaxCompletions = 1
    MaxFaults = 2
    NoRequest = NoRequest
    t1 = t1
    t2 = t2
    k1 = k1
    a = a
    b = b
    c = c
    Worker = Worker
    Writer = Writer
    NoOp = NoOp
    NoBackend = NoBackend
    Backends = {a, b, c}
    Scenarios <- RepairScenarios
    Workers = {t1, t2}
    LapseKinds = {}
    MaxCopies = 2
    MaxAttempts = 2
SYMMETRY Symmetry
INVARIANTS
    CallsFollowRouting
    EffectReserved
    
PROPERTIES
    MemoryImplements
CHECK_DEADLOCK FALSE
