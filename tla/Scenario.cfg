\* A Wi-Fi scenario run: 0..5 flows of each class and 0..1 background flows start, then close and stop
CONSTANTS
    Variant = "wifi"
    PragueCounts = {0, 1, 2, 3, 4, 5}
    CubicCounts = {0, 1, 2, 3, 4, 5}
    BackgroundCounts = {0, 1}
    Durations = {0, 5000}
    CloseTimes = {2000, 4500, 5000, 999500}

SPECIFICATION Spec
INVARIANT TypeOK
INVARIANT TraceFindsSocket
INVARIANT FlowsRunTheirCca
INVARIANT AutomaticStopAfterLastClose
