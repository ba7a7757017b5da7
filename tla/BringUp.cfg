SPECIFICATION FairSpec
CONSTANTS
    NodeCount = 2
    Clusters <- MCClusters
    Jobs <- MCJobs
    Ip <- MCIp
    MaxDeaths = 1
    Ports = {1, 2}
    Backends = {"vllm", "sglang"}
INVARIANTS
    TypeOK
    PoolsFit
    RoomIsLeft
    UpMeansServed
    EnginesRight
PROPERTIES
    BringUpEnds
CHECK_DEADLOCK FALSE
