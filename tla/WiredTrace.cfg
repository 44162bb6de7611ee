\* Wired scenario start-up: socket-trace callbacks scheduled at i * 10 ms, applications at i * 50 ms / (n+1)
CONSTANTS
    Variant = "wired"
    PragueCounts = {0, 1, 2, 3, 4, 5}
    CubicCounts = {0, 1, 2, 3, 4, 5}
    BackgroundCounts = {0}

SPECIFICATION Spec
\* start-up ends when the last scheduled event has run
CHECK_DEADLOCK FALSE
INVARIANT TraceFindsSocket
