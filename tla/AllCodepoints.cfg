\* Classification of every ECN codepoint: Not-ECT, ECT(1), ECT(0) and CE arrivals; Wi-Fi latency estimator on
CONSTANTS
    Sizes = {1, 2}
    ArrivalEcn = {0, 1, 2, 3}
    QueueLimit = 4
    Mtu = 1
    DrrQuantum = 1
    SchedulingWeight = 2
    WifiOverhead = 1
    ProbScale = 2
    K = 1
    Alpha = 1
    Beta = 1
    Target = 1
    TUpdate = 2
    StartTime = 0
    MinTh = 0
    LaqmRange = 2
    DisableLaqm = FALSE
    EnableWifiClassicLatencyEstimator = TRUE
    AggBufferLimit = 4
    PendingBytes = {0, 2, 4}
    AssertsEnabled = FALSE
    UIntMod = 32
    MaxTime = 2
    MaxArrivals = 3

SPECIFICATION Spec
PROPERTY AbsSpec
