\* A pending dequeue that stages nothing still marks staged packets
CONSTANTS
    Sizes = {1, 2}
    ArrivalEcn = {0, 1}
    QueueLimit = 4
    Mtu = 1
    DrrQuantum = 1
    SchedulingWeight = 2
    WifiOverhead = 1
    ProbScale = 2
    K = 1
    Alpha = 1
    Beta = 1
    Target = 1
    TUpdate = 2
    StartTime = 0
    MinTh = 0
    LaqmRange = 2
    DisableLaqm = FALSE
    EnableWifiClassicLatencyEstimator = FALSE
    AggBufferLimit = 4
    PendingBytes = {0, 2, 4}
    AssertsEnabled = FALSE
    UIntMod = 32
    MaxTime = 2
    MaxArrivals = 4

SPECIFICATION Spec
PROPERTY PendingWithoutBatchKeepsMarks
