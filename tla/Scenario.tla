------------------------------ MODULE Scenario ------------------------------
(***************************************************************************)
(* One run of a scratch scenario (l4s-wifi.cc, l4s-wired.cc): start-up,    *)
(* then the run until Simulator::Run returns.  The start-up decides which  *)
(* flows exist; main() hooks HandlePeerClose / HandlePeerError to the sink *)
(* of each foreground (Prague and Cubic) flow and counts those flows in    *)
(* g_flowsToClose, so the run control works on exactly those flows.  A     *)
(* sink reports its close only once its application has started; every    *)
(* start-up event lies before 1.1 s, before the first close, so the run    *)
(* control moves once the start-up events have all run.  An assertion in   *)
(* the start-up aborts the program: nothing runs after it.                 *)
(***************************************************************************)
EXTENDS Integers, FiniteSets

CONSTANTS Variant, PragueCounts, CubicCounts, BackgroundCounts,
          Durations, CloseTimes

VARIABLES
    sNow, pending, l4Type, socket, traced, samplers, fault,  \* start-up (ns)
    now, duration, flowsToClose, open, stops,       \* run control (time in ms)
    lastClose, running, stopReason

startVars == <<sNow, pending, l4Type, socket, traced, samplers, fault>>
ctlVars   == <<now, duration, flowsToClose, open, stops, lastClose, running, stopReason>>
vars      == <<startVars, ctlVars>>

MaxCount(cs) == CHOOSE m \in cs : \A c \in cs : c <= m

\* Every foreground flow any of the flow counts can create
AllForeground ==
    ({"Prague"} \X (0 .. MaxCount(PragueCounts) - 1))
    \cup ({"Cubic"} \X (0 .. MaxCount(CubicCounts) - 1))

Start == INSTANCE ScenarioStartup WITH now <- sNow
Ctl   == INSTANCE ScenarioRunControl WITH FlowIds <- AllForeground

\* The foreground flows of this run: their sinks get the close callbacks
\* and each adds one to g_flowsToClose
Foreground == {f \in DOMAIN socket : f[1] \in {"Prague", "Cubic"}}

Init ==
    /\ Start!Init
    /\ Ctl!InitWith(Foreground)

\* A start-up event runs
StartupStep ==
    /\ Start!Next
    /\ UNCHANGED ctlVars

\* After the start-up: a started flow's sink reports its close, time
\* advances, Run returns
ControlStep ==
    /\ pending = {} /\ fault = "none"
    /\ \/ \E f \in Foreground :
              /\ socket[f] # Start!NoSocket
              /\ Ctl!HandlePeerClose(f) \/ Ctl!HandlePeerError(f)
       \/ Ctl!AdvanceTime
       \/ Ctl!RunReturns
       \/ Ctl!Done
    /\ UNCHANGED startVars

Next == StartupStep \/ ControlStep

Spec == Init /\ [][Next]_vars

-----------------------------------------------------------------------------

TypeOK == Start!TypeOK /\ Ctl!TypeOK

\* Every TracePragueSocket / TraceCubicSocket callback finds its
\* application's socket, so the run is not aborted by the downcast assert.
TraceFindsSocket == Start!TraceFindsSocket

\* Every flow's data sender opens its socket with its class's congestion
\* control (the SocketType switches bracket the application starts).
FlowsRunTheirCca == Start!FlowsRunTheirCca

\* An "automatic" stop comes exactly one second after the last of this
\* run's foreground flows closed, with none of them left open: the close
\* callbacks hooked to the started sinks count g_flowsToClose down to zero.
AutomaticStopAfterLastClose == Ctl!AutomaticStopAfterLastClose

=============================================================================
