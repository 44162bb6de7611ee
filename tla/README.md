# TLA+ models of the DualPI2 queue disc and the L4S scenarios

This directory holds TLA+ models of two parts of the repository, checked with TLC:

- `src/src/traffic-control/model/dual-pi2-queue-disc.cc` is the ns-3 DualPI2
  queue disc (RFC 9332), extended with the Wi-Fi pending-dequeue protocol.
- `src/scratch/l4s-wifi.cc` and `src/scratch/l4s-wired.cc` are the scenario
  programs. The models cover how they start their flows and how they end the
  run.

`PROJECT.json` lists the components, runs, mutants, findings and hazards. It
also maps each definition to the source lines it translates.

## 1. Parts of the system and how they interact

| Part | Code | Module |
|---|---|---|
| Classification and enqueue | `DoEnqueue`, `IsL4s`, the internal DropTail queues | `DualPi2` |
| PI2 controller | `DualPi2Update`, the timer `m_rtrsEvent` | `DualPi2` |
| LAQM and Recur | `Laqm`, `Recur` | `DualPi2` (pure operators) |
| AQM dequeues | `DequeueFromL4sQueue`, `DequeueFromClassicQueue` | `DualPi2` |
| WDRR scheduler | `Scheduler` | `DualPi2` |
| Ordinary dequeue and staging queues | `DoDequeue`, `DequeueFrom*StagingQueue`, `AddTo*StagingQueue` | `DualPi2` |
| Pending-dequeue protocol | `PendingDequeueCallback`, `CanSchedule` | `DualPi2` |
| Configuration | `GetTypeId` checkers, `CheckConfig` | `DualPi2` (ASSUMEs, `InternalEnqueue`) |
| What the disc promises | spec §3, §5, §8 | `DualQueueAbstract`, `MC_Refinement` |
| Scenario start-up | application start times, `Configure*Sockets`, `Trace*Socket` | `ScenarioStartup` |
| Scenario run control | `g_flowsToClose`, `HandlePeerClose/Error`, the `Simulator::Stop` calls, stop reason | `ScenarioRunControl` |
| One whole scenario run | start-up, then run control over the flows it started | `Scenario` (composes the two above) |

The simulator is single-threaded, and every event runs to completion. The
handlers of the disc are:

- the upstream's `DoEnqueue`;
- the device's `DoDequeue`;
- the MAC's `PendingDequeueCallback`, called whenever the MAC fills an A-MPDU;
- the PI2 timer.

These handlers interleave in any order, but none is preempted. The timer
writes the probabilities that the dequeues read. The pending callback runs
the same scheduler and AQM dequeues as `DoDequeue`. It leaves its batch in
the staging queues, and `DoDequeue` drains those first.

The scenarios use the ns-3 event scheduler:

- events run in time order;
- at equal times, events that `main()` scheduled before `Run` come before
  application starts, which are scheduled later, at node initialisation;
- `Simulator::Stop(d)` is relative to the current time;
- `Run` returns at the earliest Stop;
- a Stop event runs before a close callback at the same time, because the
  Stop was scheduled earlier.

## 2. Modules

### `DualPi2`: the whole queue disc

State:

| Variable | Code |
|---|---|
| `lq`, `cq` | internal queues |
| `sL`, `sC` | staging queues |
| deficits, `drrQueues` | WDRR state |
| `baseProb`, `prevQ`, `pCL`, `pC`, `pL` | PI2 and AQM state |
| `l4sCount`, `classicCount` | Recur counters |
| `now`, `nextUpdate` | time and timer |

History variables:

- `nextId`: identity of the next packet;
- `lastOut`: per band, the last packet handed out;
- `fault`: the first `NS_ASSERT` or `NS_FATAL_ERROR` that fired.

| Action | Code |
|---|---|
| `DoEnqueue(size, ecn)` | `DoEnqueue` with `IsL4s`, the shared byte limit, the internal queue's own limit (`InternalEnqueue`) |
| `DequeueFromL4sStagingQueue`, `DequeueFromClassicStagingQueue` | first two branches of `DoDequeue` |
| `DoDequeue` | the scheduler loop of `DoDequeue`, with `Scheduler` and the AQM dequeues |
| `PendingDequeueCallback(pendingBytes, stopped)` | the whole callback: sample refresh, early returns, `CanSchedule`, the batch loop, asserts, the CE top-up |
| `DualPi2Update` | the update and its rescheduling |
| `Tick` | the clock; it never passes the pending timer event |

Abstractions:

- **Sizes** are small integers. `WifiOverhead` stands for the 38 framing bytes.
- **Probabilities** are integers in units of 1/S, where S = ProbScale². The
  base probability is kept in units of 1/ProbScale, so `p_C = base²` is
  exact.
- **The handlers' loops** are `RECURSIVE` operators over a record of the
  mutable state. `Bind` evaluates a value once before it is used in a loop
  body.
- **Faults.** After an assert or fatal error only `Halted` (stuttering) is
  possible. `AssertsEnabled` chooses between a debug build (asserts abort)
  and a release build (asserts skipped).
- **The budget** is a uint32. It is modelled modulo `UIntMod`, so it can wrap.

### `DualQueueAbstract` and `MC_Refinement`: what the disc promises

`DualQueueAbstract` has two per-band FIFOs, `held`, together with `out`,
the last packet handed out of each band. Its steps are:

- offering a packet, which is refused or appended to its ECN band;
- dropping any held packet;
- handing out the head of a band;
- CE-marking an ECT(1) packet of the L4S band.

`MC_Refinement` maps the disc onto it:

- `held[b]` is staging queue `\o` internal queue;
- `out` is `lastOut`;
- `next` is `nextId`.

The check is `AbsSpec == Abs!Spec` as a PROPERTY. It gives per-band FIFO
hand-out, no duplicates, and marks only where the RFC allows them.

### `ScenarioStartup`: flow start-up in both scenarios

The state is:

- the pending events;
- each node's TcpL4Protocol `SocketType` (`l4Type`);
- each flow's sender and sink congestion control (`socket`);
- the traced flows;
- per class, the throughput sampler chains scheduled (`samplers`; no
  property reads them, they keep the trace callbacks whole);
- a `fault`.

Time is in nanoseconds, so `TimeStep(1)` and the integer division in
l4s-wired.cc's start times are exact.

| Action | Code |
|---|---|
| `ConfigureSockets` | `ConfigurePragueSockets` and `ConfigureCubicSockets`, which set the server's and STA 0's type |
| `StartApplication` | a BulkSend application (and its sink) creating its socket with the node's current type |
| `TracePragueSocket`, `TraceCubicSocket` | the trace callbacks, including `NS_ASSERT_MSG(s, ...)`, and, for flow 0 only, scheduling the first `TracePragueThroughput` / `TraceCubicThroughput` (`ArmSampler`) |

`Init` enumerates the flow counts. It builds the events the program
schedules:

- application starts for the Prague, Cubic and background flows;
- the socket-type switches at 1.0 s − 1 ns, 1.05 s − 1 ns and 1.1 s − 1 ns;
- the trace callbacks.

Every node's SocketType starts at TcpL4Protocol's default, TcpCubic
(`DefaultSocketType`).

### `ScenarioRunControl`: how the run ends

Time is in ms. The flows are a constant set `FlowIds`; `InitWith(fs)`
starts the run with the flows `fs` open and `g_flowsToClose = |fs|`, the
count `main()` accumulates while it hooks the close callbacks. The model
covers:

- the counter `g_flowsToClose`;
- the close callbacks (normal and error share one body);
- the Stop events: `--duration`, the 1000 s fail-safe, and the one-second
  Stop armed at zero;
- `RunReturns`, which computes `stopReason` as `main()` does.

### `Scenario`: start-up and run control composed

`Scenario` instantiates both modules, `ScenarioStartup` with its clock
renamed to `sNow` (ns) and `ScenarioRunControl` with `FlowIds` the
foreground flows the largest counts could create. The interaction is:

- the flows the run control counts and closes are exactly the foreground
  (Prague and Cubic) flows `Init` of the start-up created, since `main()`
  hooks the close callbacks to those sinks only (`Foreground`);
- a flow's sink can report its close only once its application started a
  socket;
- every start-up event lies before 1.1 s, before any close can come, so a
  run-control step is enabled only when no start-up event is pending;
- an assert during start-up aborts the program, so no run-control step
  follows a start-up fault.

## 3. Runs

| Run | Module / cfg | Expect | Shows |
|---|---|---|---|
| core | `MC_Refinement` / `MC_DualPi2.cfg` | pass | see below |
| all_codepoints | `MC_Refinement` / `AllCodepoints.cfg` | pass | with arrivals of all four ECN codepoints and the Wi-Fi latency estimator on, `AbsSpec` still holds: ECT(1) and CE go to the L4S band, Not-ECT and ECT(0) to the Classic band |
| liveness | `DualPi2` / `Liveness.cfg` | pass | `EveryPacketLeaves` under weak fairness of the link-side dequeues |
| scheduler_stuck | `SchedulerStuck.cfg` | violation | the WDRR scheduler spins to `NS_FATAL_ERROR` during a pending batch |
| classic_two_mtu | `ClassicTwoMtu.cfg` | violation | the Classic drop loop ignores the 2-MTU floor after its first drop |
| pending_zero | `PendingZero.cfg` | violation | `pending_dequeue(0)` CE-marks staged packets |
| mark_no_coupling | `MarkNoCoupling.cfg` | violation | LAQM marks in a batch while `p_CL = 0` trip the coupling assert (under the attribute's default, LAQM enabled; l4s-wifi.cc disables it) |
| release_budget | `ReleaseBudget.cfg` | violation | an overload drop in a batch wraps the uint32 budget in a release build |
| scenario | `Scenario` / `Scenario.cfg` | pass | l4s-wifi.cc with 0..5 flows per class and 0..1 background flows, with and without `--duration`: every trace finds its socket, every flow's sender gets its class's CCA, and an automatic stop comes exactly 1 s after the last started flow closed |
| wired_trace | `WiredTrace.cfg` | violation | l4s-wired.cc with 2 or 3 flows of a class: a trace runs before its application starts and the assert fails |
| wifi_cca | `WifiCca.cfg` | violation | with 6 Prague flows and a Cubic flow, Prague flow 5 starts at the switch to Cubic and gets Cubic |
| stop_report | `StopReport.cfg` | violation | a `--duration` run ended early by the closes is reported "scheduled"; a last close after 999 s is reported "fail-safe" |

The core run covers all interleavings of:

- enqueue;
- the three dequeue paths;
- pending calls, with budgets 0, 2 and 4 and the MAC stopped or not;
- PI2 updates.

It checks five properties:

- `AbsSpec`: the refinement;
- `DeficitBounded`: a WDRR deficit never exceeds one packet plus one round's quantum;
- `PendingTopUpMarks`: after a batch, the L4S staging queue holds at least
  one CE per packet left in the L4S queue (spec 4.7 step 5). It is a lower
  bound only; the extra marks the top-up adds are the `pending_zero`
  finding;
- `EmptyQueueNeverRaisesProb`: a PI2 update on empty queues never raises
  the probability;
- `TypeOK`.

Every property of a passing run has a mutant in `PROJECT.json`. A mutant is
a plausible bug in the mapped code, such as:

- Recur not carrying its accumulator;
- CE arrivals classified as Classic (`all_codepoints`);
- the deficit not reset;
- the top-up counting every packet;
- the PI2 target's sign swapped;
- `DoDequeue` skipping the staging queues.

TLC finds each mutant violating its property.

### Bounds

DualPi2 runs (the violation runs change one or two of these):

- **Sizes {1, 2}, overhead 1.** Heads of different sizes make different
  bands eligible for a budget.
- **Queue limit 4, 4 arrivals (3 in liveness).** This allows two packets per
  band, and a batch with a packet left behind.
- **Quantum 1, weight 2.** Rounds end within a few packets.
- **ProbScale 2, K 1.** The base probability is 0, ½ or 1, which gives no
  marking, coupled marking, and overload. `release_budget` uses ProbScale 4
  and K 2 (the code's k), so an overload drop is followed by a surviving
  packet.
- **MinTh 0, range 2.** LAQM yields 0, ½ and 1.
- **Time 0..2, TUpdate 2.** Two PI2 updates happen, one with queued packets.

The scenario runs use the real times of the programs:

- `Scenario.cfg` explores 0..5 Prague, 0..5 Cubic and 0..1 background flows, the largest
  counts whose starts all fall before the next socket-type switch, so up to
  ten flows close. It runs with and without `--duration 5 s`, with close
  times before, at and after the duration and just before the fail-safe.
  A close at exactly the duration checks that the Stop runs first.
- `StopReport.cfg` uses two flows, enough for a close before and one after
  the duration.
- `AllCodepoints.cfg` is the core bounds with all four codepoints
  arriving and 3 arrivals, so it finishes in about half a minute.
- `WifiCca.cfg` takes 6 Prague flows and 1 Cubic flow: the Cubic flow makes
  main() schedule the switch at 1.05 s - 1 ns, where Prague flow 5 starts.

## 4. Fairness

The liveness run assumes weak fairness of the three link-side dequeue
actions only. The device keeps calling `DoDequeue` while the disc is
non-empty and its transmit queue is not stopped. Nothing obliges the
upstream to enqueue, the MAC to make a pending call, or the timer to be
useful, so no fairness is assumed for those.

Under this fairness every packet accepted into a staging or internal queue
eventually leaves, handed out or dropped, or the run ends on an assert or
fatal error. This holds even though the pending callback may keep restaging.

## 5. Findings

1. **Scheduler spin (code bug, dual-pi2-queue-disc.cc:581).**
   - Cause: a pending batch makes only one band eligible while the other
     still holds its round bit.
   - Effect: `m_drrQueues` never clears, and the loop runs until
     `NS_FATAL_ERROR`.
2. **Budget after an overload drop (code bug, :278, :281).**
   - Cause: after the drop, the packet staged is not the head `CanSchedule`
     checked.
   - Effect: a debug build trips the assert. In a release build the uint32
     budget wraps and the batch drains the disc.
3. **2-MTU floor (divergence, :713).** The floor is tested only before the
   first drop.
4. **Top-up on empty batches (divergence, :328).** `pending_dequeue(0)`
   marks staged ECT(1) packets. Spec §8 says it has no effect.
5. **Marks without coupling (code bug, :322).** LAQM marks in a batch while
   `p_CL = 0` trip the assert. This needs LAQM on, the attribute's default;
   l4s-wifi.cc disables LAQM (line 178), so that scenario does not reach it.
6. **Trace before start (code bug, l4s-wired.cc:416).** The wired scenario
   spaces starts by 50 ms/(n+1) but traces at i·10 ms + 1 ns. For 2 or 3
   flows of a class, the assert fails.
7. **CCA of Prague flows (code bug, l4s-wifi.cc:356).** With
   `--numPrague >= 6` and a Cubic flow, Prague flow 5 onwards start at or
   after the switch to Cubic and run Cubic. Background senders on STA 1+i
   are not switched, but they keep TcpL4Protocol's default SocketType,
   TcpCubic, as the comment intends.
8. **Stop reason (divergence, l4s-wifi.cc:537, :790).** Two cases:
   - A `--duration` run still ends 1 s after the last close, and is reported
     "scheduled".
   - A last close after 999 s is reported "fail-safe" with 0 flows
     remaining.

The Wi-Fi Classic latency estimator takes its samples in the pending
callback, before that call stages its batch, and `DualPi2Update` uses the
most recent ones. That is the design (comment at :436-442, spec 4.2), so it
is listed as a hazard (:444) without a property: the spec states no bound on
a sample's age.

An earlier version checked that `p_CL` stays below 1. RFC 9332 overload
reaches it by design, so that property was dropped.

## 6. Not modelled

- **`DoPeek`** reads the head of the first non-empty internal queue and
  changes nothing. It ignores the staging queues and the scheduler, so it can
  name a packet other than the next one `DoDequeue` hands out. Nothing in the
  repository calls it and the spec defines no peek operation.
- **`DoDispose`** cancels the timer at teardown. The scenarios reach it
  from `Simulator::Destroy`, after `Run` has returned, so no handler of the
  disc runs after it and it adds no behaviour.
- **The constructor** only schedules the first update, which `Init`'s
  `nextUpdate` stands for.
- **Trace sources and logging.**
- **The Wi-Fi MAC** is only the caller of `PendingDequeueCallback`, with any
  budget and stopped state.
- **The TCP files** (socket state, TCP Prague) are declarations and
  attribute tables. They hold no handler with control of its own to model.
- **The throughput samples.** The sampler chains are modelled; the bytes
  the Tx traces count, the times samples fire, and the calculator's values
  are not. Hence a `--duration` too short for any sample to fire (the
  calculator printed empty) is a hazard without a property.
- **The scenarios' topology, traffic generation and trace-file writing** are
  I/O over ns-3 helpers, with no control a model would tell apart.
- **The example programs** are simulation scripts of the same kind.
