--------------------------- MODULE ScenarioStartup ---------------------------
(***************************************************************************)
(* Start-up of the foreground flows in the scratch scenarios l4s-wifi.cc   *)
(* and l4s-wired.cc, as the ns-3 event scheduler runs it.                  *)
(*                                                                         *)
(* main() installs one BulkSend application per flow with a StartTime,     *)
(* schedules ConfigurePragueSockets just before 1.0 s and                  *)
(* ConfigureCubicSockets just before 1.05 s and 1.1 s (each sets the       *)
(* SocketType attribute of the server's and the client's TcpL4Protocol),   *)
(* and schedules TracePragueSocket / TraceCubicSocket one time step after  *)
(* the moment it expects each application to have started.  A BulkSend     *)
(* application creates its socket when it starts, with the SocketType in   *)
(* force on its node at that moment; GetSocket() is null before.  Each     *)
(* flow's sender and sink start at the same time; l4s-wifi.cc also starts  *)
(* background flows at 1.1 s, sending from STA 1+i to a sink on the server. *)
(*                                                                         *)
(* Time is in nanoseconds, the resolution of ns-3 Time, so TimeStep(1) and *)
(* the integer division of MilliSeconds(50) / (n + 1) are exact.  Events   *)
(* run in time order; at equal times, events main() scheduled before       *)
(* Simulator::Run come before application starts, which ns-3 schedules     *)
(* later, when the nodes are initialised at time 0.                        *)
(***************************************************************************)
EXTENDS Integers, FiniteSets

CONSTANTS
    Variant,       \* "wifi" (l4s-wifi.cc) or "wired" (l4s-wired.cc)
    PragueCounts,  \* values of --numPrague to explore
    CubicCounts,   \* values of --numCubic to explore
    BackgroundCounts  \* values of --numBackground to explore (l4s-wifi.cc)

ASSUME Variant \in {"wifi", "wired"}
ASSUME PragueCounts \cup CubicCounts \cup BackgroundCounts \subseteq Nat
ASSUME Variant = "wired" => BackgroundCounts = {0}  \* l4s-wired.cc aborts otherwise

VARIABLES
    now,       \* simulator time of the last event run
    pending,   \* events scheduled and not yet run
    l4Type,    \* l4Type[n]: SocketType of node n's TcpL4Protocol
    socket,    \* socket[f]: congestion control of flow f's sender and sink
    traced,    \* flows whose socket TraceXSocket has hooked
    samplers,  \* samplers[c]: TraceXThroughput chains scheduled for class c
    fault      \* "none", or the assertion that aborted the run

vars == <<now, pending, l4Type, socket, traced, samplers, fault>>

\* The classes with a throughput sampler (TracePragueThroughput and
\* TraceCubicThroughput; each reschedules itself every 100 ms, so a chain,
\* once scheduled, lasts until Run returns)
Sampled == {"Prague", "Cubic"}

Sec == 1000000000
Ms  == 1000000
TimeStep == 1

\* phase 0: scheduled by main() before Run; phase 1: an application start
Event(t, phase, kind, flow) == [t |-> t, phase |-> phase, kind |-> kind, flow |-> flow]
NoFlow == <<"none", 0>>
NoSocket == [snd |-> "none", rcv |-> "none"]

\* Flows of each class, numbered as in the loops of main()
FlowsOf(np, nc, nb) ==
    ({"Prague"} \X (0 .. np - 1)) \cup ({"Cubic"} \X (0 .. nc - 1))
    \cup ({"Background"} \X (0 .. nb - 1))

\* The server, STA 0 (the client of the flows under test), and STA 1+i
Server == <<"server", 0>>
Sta(i) == <<"sta", i>>
Nodes(nb) == {Server} \cup {Sta(i) : i \in 0 .. nb}

\* Nodes of a flow's sender and sink: the flows under test send from the
\* server to STA 0; background flow i sends from STA 1+i to the server
SenderOf(f) == IF f[1] = "Background" THEN Sta(f[2] + 1) ELSE Server
SinkOf(f)   == IF f[1] = "Background" THEN Server ELSE Sta(0)

\* Mutant of ConfigPragueTime: Seconds(1.0) + TimeStep(1)
ConfigPragueTimeLate == Sec + TimeStep

ConfigPragueTime == Sec - TimeStep

\* Start times of application i of n (wifi: i * 10 ms; wired: i * 50 ms / (n+1))
WifiPragueStart(n, i) == Sec + i * (10 * Ms)
WifiCubicStart(n, i)  == 1050 * Ms + i * (10 * Ms)
WiredPragueStart(n, i) == Sec + i * ((50 * Ms) \div (n + 1))
WiredCubicStart(n, i)  == 1050 * Ms + i * ((50 * Ms) \div (n + 1))

\* Background applications: Start(Seconds(1.1))
BackgroundStart == 1100 * Ms

StartOf(f, np, nc) ==
    LET n == IF f[1] = "Prague" THEN np ELSE nc IN
    CASE f[1] = "Background"                  -> BackgroundStart
      [] Variant = "wifi"  /\ f[1] = "Prague" -> WifiPragueStart(n, f[2])
      [] Variant = "wifi"                     -> WifiCubicStart(n, f[2])
      [] f[1] = "Prague"                      -> WiredPragueStart(n, f[2])
      [] OTHER                                -> WiredCubicStart(n, f[2])

\* The application loops: per flow an application start and a socket-type
\* switch to its class; then the switch to Cubic and the background flows.
FlowSetup(np, nc, nb) ==
    { Event(StartOf(f, np, nc), 1, "start", f) : f \in FlowsOf(np, nc, nb) }
    \cup (IF np > 0 THEN {Event(ConfigPragueTime, 0, "Prague", NoFlow)} ELSE {})
    \cup (IF nc > 0 THEN {Event(1050 * Ms - TimeStep, 0, "Cubic", NoFlow)} ELSE {})
    \cup {Event(1100 * Ms - TimeStep, 0, "Cubic", NoFlow)}

\* Mutant of TraceTime: without the TimeStep(1)
TraceTimeNoStep(f) ==
    (IF f[1] = "Prague" THEN Sec ELSE 1050 * Ms) + f[2] * (10 * Ms)

\* The tracing loops: in both scenarios at i * 10 ms plus one time step
TraceTime(f) ==
    (IF f[1] = "Prague" THEN Sec ELSE 1050 * Ms) + f[2] * (10 * Ms) + TimeStep

TraceSetup(np, nc) ==
    { Event(TraceTime(f), 0, "trace", f) : f \in FlowsOf(np, nc, 0) }

\* TcpL4Protocol's SocketType attribute defaults to TcpCubic (l4s-wifi.cc
\* changes no default; l4s-wired.cc's --useReno replaces it by LinuxReno
\* "instead of Cubic")
DefaultSocketType == "Cubic"

\* main() aborts when there is no foreground flow
Init ==
    \E np \in PragueCounts, nc \in CubicCounts, nb \in BackgroundCounts :
        /\ np + nc > 0
        /\ now = 0
        /\ pending = FlowSetup(np, nc, nb) \cup TraceSetup(np, nc)
        /\ l4Type = [n \in Nodes(nb) |-> DefaultSocketType]
        /\ socket = [f \in FlowsOf(np, nc, nb) |-> NoSocket]
        /\ traced = {}
        /\ samplers = [c \in Sampled |-> 0]
        /\ fault = "none"

\* e is the event the scheduler runs next
IsNext(e) ==
    \A o \in pending : e.t < o.t \/ (e.t = o.t /\ e.phase <= o.phase)

Run(e) ==
    /\ fault = "none"
    /\ e \in pending
    /\ IsNext(e)
    /\ now' = e.t
    /\ pending' = pending \ {e}

\* ConfigurePragueSockets / ConfigureCubicSockets on the server and STA 0
ConfigureSockets ==
    \E e \in pending :
        /\ e.kind \in {"Prague", "Cubic"}
        /\ Run(e)
        /\ l4Type' = [l4Type EXCEPT ![Server] = e.kind, ![Sta(0)] = e.kind]
        /\ UNCHANGED <<socket, traced, samplers, fault>>

\* Mutant of StartApplication: the sink application is not started with
\* its sender and opens no socket
StartApplicationNoSink ==
    \E e \in pending :
        /\ e.kind = "start"
        /\ Run(e)
        /\ socket' = [socket EXCEPT ![e.flow] = [snd |-> l4Type[SenderOf(e.flow)],
                                                  rcv |-> "none"]]
        /\ UNCHANGED <<l4Type, traced, samplers, fault>>

\* Sender and sink start and open their sockets with their nodes' SocketType
StartApplication ==
    \E e \in pending :
        /\ e.kind = "start"
        /\ Run(e)
        /\ socket' = [socket EXCEPT ![e.flow] = [snd |-> l4Type[SenderOf(e.flow)],
                                                  rcv |-> l4Type[SinkOf(e.flow)]]]
        /\ UNCHANGED <<l4Type, traced, samplers, fault>>

\* The sampler chain TraceXSocket schedules: one, for flow i == 0 only
ArmSampler(f) ==
    IF f[2] = 0 THEN [samplers EXCEPT ![f[1]] = @ + 1] ELSE samplers

\* TracePragueSocket / TraceCubicSocket: NS_ASSERT_MSG(s, "Socket downcast
\* failed") on GetSocket(); a release build dereferences the null pointer.
\* Either way the run aborts.  Otherwise the Tx trace is hooked and, for
\* flow 0, the first TraceXThroughput is scheduled 100 ms later.
TraceSocket(cls) ==
    \E e \in pending :
        /\ e.kind = "trace" /\ e.flow[1] = cls
        /\ Run(e)
        /\ IF socket[e.flow] = NoSocket
           THEN fault' = "SocketDowncast" /\ UNCHANGED <<traced, samplers>>
           ELSE /\ traced' = traced \cup {e.flow}
                /\ samplers' = ArmSampler(e.flow)
                /\ UNCHANGED fault
        /\ UNCHANGED <<l4Type, socket>>

TracePragueSocket == TraceSocket("Prague")
TraceCubicSocket  == TraceSocket("Cubic")

Next ==
    \/ ConfigureSockets
    \/ StartApplication
    \/ TracePragueSocket
    \/ TraceCubicSocket

Spec == Init /\ [][Next]_vars

-----------------------------------------------------------------------------

Cca == {"Prague", "Cubic"}

TypeOK ==
    /\ now \in Nat
    /\ \A n \in DOMAIN l4Type : l4Type[n] \in Cca
    /\ \A f \in DOMAIN socket : socket[f] \in {NoSocket} \cup [snd : Cca, rcv : Cca]
    /\ traced \subseteq DOMAIN socket
    /\ samplers \in [Sampled -> Nat]
    /\ fault \in {"none", "SocketDowncast"}

\* Every socket-trace callback finds its application's socket: the
\* NS_ASSERT_MSG(s, "Socket downcast failed") of TracePragueSocket and
\* TraceCubicSocket never fires, whatever the flow counts.
TraceFindsSocket == fault = "none"

\* The congestion control a flow is meant to run: its class; background
\* flows are Cubic ("Add a cubic application ... for each background flow")
IntendedCca(f) == IF f[1] = "Background" THEN "Cubic" ELSE f[1]

\* Every flow's data sender opens its socket with the congestion control of
\* its class: the SocketType switches at 1.0 s, 1.05 s and 1.1 s must
\* bracket the start times (the constraint the wired scenario's comment
\* states) and reach the node the flow sends from.
FlowsRunTheirCca ==
    \A f \in DOMAIN socket : socket[f] # NoSocket => socket[f].snd = IntendedCca(f)

=============================================================================
