\* Scenario run control: does the stop reason main() prints describe why Run() returned?
CONSTANTS
    FlowIds = {1, 2}
    Durations = {0, 5000}
    CloseTimes = {2000, 3000, 4500, 999500}

SPECIFICATION Spec
INVARIANT StopReasonTruthful
