------------------------- MODULE ScenarioRunControl -------------------------
(***************************************************************************)
(* How the scratch scenarios (l4s-wifi.cc; l4s-wired.cc has the same code) *)
(* decide when the simulation ends and what they report.                   *)
(*                                                                         *)
(* main() counts the foreground flows in g_flowsToClose, connects          *)
(* HandlePeerClose / HandlePeerError to each flow's PacketSink, and calls  *)
(* Simulator::Stop(duration) when --duration is given, else the fail-safe  *)
(* Simulator::Stop(Seconds(1000)).  Each close callback decrements the     *)
(* counter and, when it reaches 0, calls Simulator::Stop(Seconds(1)),      *)
(* relative to the current time.  Run() returns at the earliest Stop;      *)
(* main() then derives stopReason from duration and Now().                 *)
(*                                                                         *)
(* Time is in milliseconds.  The moments a flow may close are the constant *)
(* CloseTimes; each foreground sink reports one close, normal or error.    *)
(* A close can happen only strictly before the earliest pending Stop: a    *)
(* Stop event at the same time was scheduled earlier and runs first.       *)
(***************************************************************************)
EXTENDS Integers, FiniteSets, FiniteSetsExt

CONSTANTS
    FlowIds,     \* the foreground flows (numCubic + numPrague of them)
    Durations,   \* values of --duration to explore, in ms (0: not given)
    CloseTimes   \* moments, in ms, at which a flow's sink may report its close

ASSUME FlowIds # {} /\ IsFiniteSet(FlowIds)
ASSUME Durations \cup CloseTimes \subseteq Nat

VARIABLES
    now,            \* Simulator::Now()
    duration,       \* the --duration argument
    flowsToClose,   \* g_flowsToClose
    open,           \* foreground flows whose sink has not reported a close
    stops,          \* times of the Stop events scheduled
    lastClose,      \* time of the last close callback (history)
    running,        \* Simulator::Run() has not returned
    stopReason      \* what main() prints after Run(), "" before

vars == <<now, duration, flowsToClose, open, stops, lastClose, running, stopReason>>

Sec == 1000
FailSafe == 1000 * Sec

\* main(): g_flowsToClose++ per foreground flow fs, then the Stop of the run
InitWith(fs) ==
    /\ now = 0
    /\ duration \in Durations
    /\ flowsToClose = Cardinality(fs)
    /\ open = fs
    /\ stops = IF duration > 0 THEN {duration} ELSE {FailSafe}
    /\ lastClose = 0
    /\ running = TRUE
    /\ stopReason = ""

Init == InitWith(FlowIds)

NextStop == Min(stops)

\* Mutant of CloseCallback: the Stop is armed when one flow is still open
CloseCallbackOneEarly(f) ==
    /\ running
    /\ f \in open
    /\ now \in CloseTimes /\ now < NextStop
    /\ open' = open \ {f}
    /\ flowsToClose' = flowsToClose - 1
    /\ stops' = IF flowsToClose - 1 = 1 THEN stops \cup {now + Sec} ELSE stops
    /\ lastClose' = now
    /\ UNCHANGED <<now, duration, running, stopReason>>

\* Mutant of CloseCallback: a sink reporting both a close and an error is
\* counted twice
CloseCallbackTwice(f) ==
    /\ running
    /\ now \in CloseTimes /\ now < NextStop
    /\ open' = open \ {f}
    /\ flowsToClose' = flowsToClose - 1
    /\ stops' = IF flowsToClose - 1 = 0 THEN stops \cup {now + Sec} ELSE stops
    /\ lastClose' = now
    /\ UNCHANGED <<now, duration, running, stopReason>>

\* The body shared by HandlePeerClose and HandlePeerError:
\* if (--g_flowsToClose == 0) Simulator::Stop(Seconds(1))
CloseCallback(f) ==
    /\ running
    /\ f \in open
    /\ now \in CloseTimes /\ now < NextStop
    /\ open' = open \ {f}
    /\ flowsToClose' = flowsToClose - 1
    /\ stops' = IF flowsToClose - 1 = 0 THEN stops \cup {now + Sec} ELSE stops
    /\ lastClose' = now
    /\ UNCHANGED <<now, duration, running, stopReason>>

\* The sink of flow f reports a normal close
HandlePeerClose(f) == CloseCallback(f)

\* The sink of flow f reports an abnormal close (and a warning is printed)
HandlePeerError(f) == CloseCallback(f)

\* The simulation runs on to the next moment a sink may report a close,
\* or to the earliest Stop
AdvanceTime ==
    /\ running
    /\ \E t \in {c \in CloseTimes : now < c /\ c < NextStop} \cup {NextStop} :
           now' = t
    /\ UNCHANGED <<duration, flowsToClose, open, stops, lastClose, running, stopReason>>

\* The earliest Stop event runs: Run() returns and main() works out
\* stopReason ("fail-safe" is tested first)
RunReturns ==
    /\ running
    /\ now = NextStop
    /\ running' = FALSE
    /\ stopReason' = CASE duration = 0 /\ now >= FailSafe -> "fail-safe"
                       [] duration > 0                    -> "scheduled"
                       [] OTHER                           -> "automatic"
    /\ UNCHANGED <<now, duration, flowsToClose, open, stops, lastClose>>

\* After main() has returned nothing happens any more
Done ==
    /\ ~running
    /\ UNCHANGED vars

Next ==
    \/ \E f \in FlowIds : HandlePeerClose(f) \/ HandlePeerError(f)
    \/ AdvanceTime
    \/ RunReturns
    \/ Done

Spec == Init /\ [][Next]_vars

-----------------------------------------------------------------------------

TypeOK ==
    /\ now \in Nat /\ duration \in Durations
    /\ flowsToClose \in 0 .. Cardinality(FlowIds)
    /\ open \subseteq FlowIds
    /\ stops \subseteq Nat /\ stops # {}
    /\ lastClose \in Nat
    /\ running \in BOOLEAN
    /\ stopReason \in {"", "fail-safe", "scheduled", "automatic"}

\* An "automatic" stop happens only once every foreground flow has closed,
\* exactly one second after the last close: the close callbacks count the
\* flows down and arm the one-second Stop only at zero.
AutomaticStopAfterLastClose ==
    stopReason = "automatic" =>
        /\ flowsToClose = 0 /\ open = {}
        /\ now = lastClose + Sec

\* The stop reason main() prints is true.  "scheduled" claims the run reached
\* the --duration stop time (the header comment: the run ends 1 s after the
\* last foreground flow "unless a specific duration was configured");
\* "fail-safe" is followed by "Expected N flows to close, but
\* g_flowsToClose are remaining", which claims some flow never closed.
StopReasonTruthful ==
    /\ stopReason = "scheduled" => now = duration
    /\ stopReason = "fail-safe" => flowsToClose > 0

=============================================================================
