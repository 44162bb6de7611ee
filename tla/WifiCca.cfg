\* Wi-Fi scenario: six Prague flows and one Cubic flow; Prague flow 5 starts at the switch to Cubic
CONSTANTS
    Variant = "wifi"
    PragueCounts = {6}
    CubicCounts = {1}
    BackgroundCounts = {0}

SPECIFICATION Spec
\* start-up ends when the last scheduled event has run
CHECK_DEADLOCK FALSE
INVARIANT FlowsRunTheirCca
