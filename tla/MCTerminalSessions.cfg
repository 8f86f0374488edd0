SPECIFICATION TSpec
CONSTANTS
    Requests = {r1, r2, r3}
    MaxSessions = 1
    PipeCap = 1
    BodyLen = 2
    Emits <- MCEmits
    KeepAlive = 2
    Queries <- MCQueries
    Envs <- MCEnvs
    Probes <- MCProbes
INVARIANTS StreamsDeliverPrefix EndMeansDead ChildrenReachable
 
CHECK_DEADLOCK FALSE
