------------------------------ MODULE DualPi2 ------------------------------
(***************************************************************************)
(* The DualPI2 queue discipline of src/traffic-control/model/             *)
(* dual-pi2-queue-disc.cc: a Classic and an L4S FIFO sharing one byte      *)
(* limit, the PI2 controller run by a periodic timer, the LAQM ramp and    *)
(* the Recur accumulator, the two-band weighted deficit round robin        *)
(* scheduler, the AQM-decorated dequeues, the staging queues and the       *)
(* pending-dequeue protocol driven by the Wi-Fi MAC.                       *)
(*                                                                         *)
(* The simulator runs every handler to completion, so each handler is one *)
(* atomic action; its loops are recursive operators over a record `st`    *)
(* that carries the part of the state the loops mutate.                    *)
(*                                                                         *)
(* Data abstraction: byte sizes are small integers, a probability p is    *)
(* the integer p * S with S = ProbScale^2 (base_prob is kept in units of   *)
(* 1/ProbScale so that p_C = base_prob^2 stays exact), time is an integer  *)
(* tick.  A failed NS_ASSERT (when asserts are compiled in) and            *)
(* NS_FATAL_ERROR end the simulation: `fault` records which one.           *)
(***************************************************************************)
EXTENDS Integers, Sequences, FiniteSets, SequencesExt, FiniteSetsExt

CONSTANTS
    Sizes,            \* packet sizes (bytes, abstracted)
    ArrivalEcn,       \* ECN codepoints (tos & 0x3) arriving packets may carry
    QueueLimit,       \* m_queueLimit
    Mtu,              \* m_mtu
    DrrQuantum,       \* m_drrQuantum
    SchedulingWeight, \* m_schedulingWeight
    WifiOverhead,     \* the hard-coded 38 bytes of Wi-Fi framing per packet
    ProbScale,        \* base_prob is an integer in 0..ProbScale
    K,                \* m_k
    Alpha, Beta,      \* m_alpha, m_beta as integer gains (base units per tick)
    Target,           \* m_target (ticks)
    TUpdate,          \* m_tUpdate (ticks)
    StartTime,        \* m_startTime (ticks)
    MinTh, LaqmRange,     \* m_minTh, m_range (ticks)
    DisableLaqm,      \* m_disableLaqm
    EnableWifiClassicLatencyEstimator,
    AggBufferLimit,   \* m_aggBufferLimit
    PendingBytes,     \* values the MAC may pass to PendingDequeueCallback
    AssertsEnabled,   \* NS_ASSERT compiled in (debug build) or not
    UIntMod,          \* modulus standing for 2^32 in uint32_t arithmetic
    MaxTime,          \* bound on the clock
    MaxArrivals       \* bound on the number of packets offered

S == ProbScale * ProbScale

\* GetTypeId: the uint32_t attributes take unsigned 32-bit values, the
\* SchedulingWeight checker demands at least 1, the switches are Booleans
AttributeCheckers ==
    /\ {QueueLimit, Mtu, DrrQuantum, AggBufferLimit} \subseteq 0 .. UIntMod - 1
    /\ SchedulingWeight >= 1
    /\ DisableLaqm \in BOOLEAN /\ EnableWifiClassicLatencyEstimator \in BOOLEAN

\* CheckConfig, with no internal queue configured, creates the CLASSIC and
\* L4S DropTail queues with a MaxSize of m_queueLimit bytes each
InternalQueueLimit == QueueLimit

\* CheckConfig: no classes, no packet filters, exactly two internal queues,
\* each able to hold m_queueLimit bytes
CheckConfig == InternalQueueLimit >= QueueLimit

ASSUME AttributeCheckers /\ CheckConfig

ASSUME
    /\ Sizes \subseteq Nat \ {0} /\ Sizes # {}
    /\ ArrivalEcn \subseteq 0..3
    /\ {QueueLimit, Mtu, DrrQuantum, SchedulingWeight, ProbScale, K, TUpdate, LaqmRange} \subseteq Nat \ {0}
    /\ S % (K * K) = 0 /\ S % LaqmRange = 0
    /\ EnableWifiClassicLatencyEstimator => AggBufferLimit > 0
    /\ UIntMod > QueueLimit + MaxArrivals * WifiOverhead

\* ECN codepoints as read from the low two bits of the DS field
NotEct == 0
Ect1   == 1
Ect0   == 2
CE     == 3

VARIABLES
    qC, qL,           \* internal queues CLASSIC and L4S
    sC, sL,           \* m_classicStagingQueue, m_l4sStagingQueue
    defC, defL,       \* m_classicDeficit, m_llDeficit
    drr,              \* m_drrQueues: the bands still in the current round
    cntC, cntL,       \* m_classicCount, m_l4sCount
    baseProb, prevQ,  \* m_baseProb (units 1/ProbScale), m_prevQ
    pCL, pC, pL,      \* m_pCL, m_pC, m_pL (units 1/S)
    cLatSample, lLatSample, cBytesSample,
    now, nextUpdate,  \* simulator clock, expiry of m_rtrsEvent
    nextId,           \* history: identity of the next packet offered
    lastOut,          \* history: id of the last packet handed out per band
    fault             \* "none" or the assertion / fatal error that ended the run

vars == <<qC, qL, sC, sL, defC, defL, drr, cntC, cntL, baseProb, prevQ, pCL, pC,
          pL, cLatSample, lLatSample, cBytesSample, now, nextUpdate, nextId,
          lastOut, fault>>

Bands == {"C", "L"}
Packet == [id : 1..MaxArrivals, size : Sizes, ts : 0..MaxTime, ecn : 0..3]
NoPacket == [id |-> 0, size |-> 0, ts |-> 0, ecn |-> NotEct]
MaxSize == Max(Sizes)
PCmax == Min({S \div (K * K), S})
PLmax == S
ThLen == 1

RECURSIVE Bytes(_)
Bytes(q) == IF q = <<>> THEN 0 ELSE Head(q).size + Bytes(Tail(q))
HolSize(q) == IF q = <<>> THEN 0 ELSE Head(q).size
Sojourn(q) == IF q = <<>> THEN 0 ELSE now - Head(q).ts
Mark(p) == [p EXCEPT !.ecn = CE]

GetQueueSize == Bytes(qC) + Bytes(qL)

\* Mutant of IsL4s: only ECT(1) is L4S; an arriving CE packet goes Classic
IsL4sNoCe(ecn) == ecn = Ect1

\* ECT(1) or CE go to the L4S queue
IsL4s(ecn) == ecn = Ect1 \/ ecn = CE

Laqm(qDelay) ==
    CASE DisableLaqm                -> 0
      [] qDelay >= MinTh + LaqmRange     -> S
      [] qDelay > MinTh              -> ((qDelay - MinTh) * S) \div LaqmRange
      [] OTHER                       -> 0

\* Mutant of Recur: the accumulator is not decremented when it fires
RecurNoCarry(count, likelihood) ==
    IF count + likelihood > S
    THEN [fire |-> TRUE,  count |-> count + likelihood]
    ELSE [fire |-> FALSE, count |-> count + likelihood]

\* Recur(count, likelihood): the accumulator and whether it fired
Recur(count, likelihood) ==
    IF count + likelihood > S
    THEN [fire |-> TRUE,  count |-> count + likelihood - S]
    ELSE [fire |-> FALSE, count |-> count + likelihood]

(***************************************************************************)
(* The mutable state the handlers' loops work on.                          *)
(***************************************************************************)
\* F(v) with v computed once: inside the handlers' recursive loops an operator
\* argument or a LET is re-evaluated at each use, a bound variable is not.
Bind(v, F(_)) == CHOOSE r \in {F(x) : x \in {v}} : TRUE

Cur == [qC |-> qC, qL |-> qL, sC |-> sC, sL |-> sL, defC |-> defC, defL |-> defL,
        drr |-> drr, cntC |-> cntC, cntL |-> cntL, pL |-> pL, fault |-> fault]

Commit(st) ==
    /\ qC' = st.qC /\ qL' = st.qL /\ sC' = st.sC /\ sL' = st.sL
    /\ defC' = st.defC /\ defL' = st.defL /\ drr' = st.drr
    /\ cntC' = st.cntC /\ cntL' = st.cntL /\ pL' = st.pL
    /\ fault' = st.fault

(***************************************************************************)
(* Scheduler: one pass of the for-loop body; sel is "L", "C" or "NONE"     *)
(* when the pass selected nothing.                                         *)
(***************************************************************************)
\* Mutant of SchedulerPass: an empty L4S band keeps its deficit
SchedulerPassKeepDeficit(st, eligC, eligL) ==
    LET holL == HolSize(st.qL)
        holC == HolSize(st.qC)
        r0 == IF st.drr = {}
              THEN [st EXCEPT !.drr = Bands,
                              !.defL = @ + DrrQuantum * SchedulingWeight,
                              !.defC = @ + DrrQuantum]
              ELSE st
        r1 == IF holL > 0 /\ eligL THEN [r0 EXCEPT !.drr = @ \ {"L"}] ELSE r0
        r2 == IF holL = 0 THEN [r1 EXCEPT !.drr = @ \ {"L"}] ELSE r1
        r3 == IF holC > 0 /\ eligC THEN [r2 EXCEPT !.drr = @ \ {"C"}] ELSE r2
        r4 == IF holC = 0 THEN [r3 EXCEPT !.defC = 0, !.drr = @ \ {"C"}] ELSE r3
    IN CASE holL > 0 /\ eligL /\ holL <= r0.defL ->
              [st |-> [r0 EXCEPT !.defL = @ - holL], sel |-> "L"]
         [] holC > 0 /\ eligC /\ holC <= r2.defC ->
              [st |-> [r2 EXCEPT !.defC = @ - holC], sel |-> "C"]
         [] OTHER -> [st |-> r4, sel |-> "NONE"]

SchedulerPass(st, eligC, eligL) ==
    LET holL == HolSize(st.qL)
        holC == HolSize(st.qC)
        r0 == IF st.drr = {}
              THEN [st EXCEPT !.drr = Bands,
                              !.defL = @ + DrrQuantum * SchedulingWeight,
                              !.defC = @ + DrrQuantum]
              ELSE st
        r1 == IF holL > 0 /\ eligL THEN [r0 EXCEPT !.drr = @ \ {"L"}] ELSE r0
        r2 == IF holL = 0 THEN [r1 EXCEPT !.defL = 0, !.drr = @ \ {"L"}] ELSE r1
        r3 == IF holC > 0 /\ eligC THEN [r2 EXCEPT !.drr = @ \ {"C"}] ELSE r2
        r4 == IF holC = 0 THEN [r3 EXCEPT !.defC = 0, !.drr = @ \ {"C"}] ELSE r3
    IN CASE holL > 0 /\ eligL /\ holL <= r0.defL ->
              [st |-> [r0 EXCEPT !.defL = @ - holL], sel |-> "L"]
         [] holC > 0 /\ eligC /\ holC <= r2.defC ->
              [st |-> [r2 EXCEPT !.defC = @ - holC], sel |-> "C"]
         [] OTHER -> [st |-> r4, sel |-> "NONE"]

\* A pass that selects nothing and changes nothing is repeated until the
\* iteration bound wraps and NS_FATAL_ERROR ends the run: sel = "FATAL".
RECURSIVE Scheduler(_, _, _)
Scheduler(st, eligC, eligL) ==
    Bind(SchedulerPass(st, eligC, eligL), LAMBDA r :
        CASE r.sel # "NONE" -> r
          [] r.st = st      -> [st |-> st, sel |-> "FATAL"]
          [] OTHER          -> Scheduler(r.st, eligC, eligL))

(***************************************************************************)
(* DequeueFromL4sQueue: ok is FALSE when every packet popped was dropped.  *)
(***************************************************************************)
RECURSIVE DequeueFromL4sQueue(_)
DequeueFromL4sQueue(st) ==
    IF st.qL = <<>>
    THEN [st |-> st, ok |-> FALSE, item |-> NoPacket, marked |-> FALSE]
    ELSE
    LET p  == Head(st.qL)
        s1 == [st EXCEPT !.qL = Tail(@)]
        pPrimeL == IF Len(s1.qL) > ThLen THEN Laqm(now - p.ts) ELSE 0
        pLv  == Min({Max({pPrimeL, pCL}), S})
        rMk  == Recur(s1.cntL, pLv)
        rDrop == Recur(s1.cntL, pC)
        rCpl == Recur(rDrop.count, pCL)
    IN CASE pCL < PLmax ->
              [st |-> [s1 EXCEPT !.cntL = rMk.count, !.pL = pLv], ok |-> TRUE,
               item |-> IF rMk.fire THEN Mark(p) ELSE p, marked |-> rMk.fire]
         [] rDrop.fire ->
              DequeueFromL4sQueue([s1 EXCEPT !.cntL = rDrop.count])
         [] OTHER ->
              [st |-> [s1 EXCEPT !.cntL = rCpl.count], ok |-> TRUE,
               item |-> IF rCpl.fire THEN Mark(p) ELSE p, marked |-> rCpl.fire]

(***************************************************************************)
(* DequeueFromClassicQueue: the 2-MTU test is made once, after the first   *)
(* pop; the drop loop then runs on the packet p already popped.            *)
(***************************************************************************)
RECURSIVE ClassicDropLoop(_, _)
ClassicDropLoop(st, p) ==
    LET r  == Recur(st.cntC, pC)
        s1 == [st EXCEPT !.cntC = r.count]
    IN CASE ~(r.fire \/ pC >= PCmax) ->
              [st |-> [st EXCEPT !.cntC = r.count], ok |-> TRUE, item |-> p]
         [] s1.qC = <<>> -> [st |-> s1, ok |-> FALSE, item |-> NoPacket]
         [] OTHER -> ClassicDropLoop([s1 EXCEPT !.qC = Tail(@)], Head(s1.qC))

DequeueFromClassicQueue(st) ==
    LET s1 == [st EXCEPT !.qC = Tail(@)] IN
    IF Bytes(s1.qC) < 2 * Mtu
    THEN [st |-> s1, ok |-> TRUE, item |-> Head(st.qC)]
    ELSE ClassicDropLoop(s1, Head(st.qC))

(***************************************************************************)
(* DoDequeue, the part after the staging queues: loop while the internal   *)
(* queues hold bytes, scheduling a band and running its AQM dequeue.       *)
(***************************************************************************)
RECURSIVE DequeueLoop(_)
DequeueLoop(st) ==
    IF Bytes(st.qC) + Bytes(st.qL) = 0
    THEN [st |-> st, ok |-> FALSE, item |-> NoPacket, band |-> "C"]
    ELSE Bind(Scheduler(st, TRUE, TRUE), LAMBDA sch :
      CASE sch.sel = "FATAL" ->
              [st |-> [sch.st EXCEPT !.fault = "SchedulerFatal"], ok |-> FALSE,
               item |-> NoPacket, band |-> "C"]
        [] sch.sel = "L" ->
              Bind(DequeueFromL4sQueue(sch.st), LAMBDA d :
                  IF d.ok THEN [st |-> d.st, ok |-> TRUE, item |-> d.item, band |-> "L"]
                          ELSE DequeueLoop(d.st))
        [] OTHER ->
              Bind(DequeueFromClassicQueue(sch.st), LAMBDA d :
                  IF d.ok THEN [st |-> d.st, ok |-> TRUE, item |-> d.item, band |-> "C"]
                          ELSE DequeueLoop(d.st)))

(***************************************************************************)
(* PendingDequeueCallback, the batch loop: CanSchedule, Scheduler, the AQM *)
(* dequeue of the band selected, staging and the byte budget.  The budget  *)
(* is a uint32_t; without asserts its subtraction wraps.                   *)
(***************************************************************************)
CanSchedule(st, byteLimit) ==
    [c |-> HolSize(st.qC) > 0 /\ HolSize(st.qC) + WifiOverhead <= byteLimit,
     l |-> HolSize(st.qL) > 0 /\ HolSize(st.qL) + WifiOverhead <= byteLimit]

\* AddToL4sStagingQueue / AddToClassicStagingQueue: push_back on band b
AddToStagingQueue(st, b, item) ==
    IF b = "L" THEN [st EXCEPT !.sL = Append(@, item)]
               ELSE [st EXCEPT !.sC = Append(@, item)]

\* Mutant of StageItem: every staged L4S packet is counted as marked
StageItemCountAll(st, b, item, left, markedCount, marked) ==
    IF AssertsEnabled /\ item.size + WifiOverhead > left
    THEN [st |-> [st EXCEPT !.fault = "PendingBudgetAssert"], left |-> left,
          markedCount |-> markedCount]
    ELSE [st |-> AddToStagingQueue(st, b, item),
          left |-> (left - (item.size + WifiOverhead)) % UIntMod,
          markedCount |-> markedCount + (IF b = "L" THEN 1 ELSE 0)]

\* Stage item on band b, or abort on the "insufficient pending bytes" assert
StageItem(st, b, item, left, markedCount, marked) ==
    IF AssertsEnabled /\ item.size + WifiOverhead > left
    THEN [st |-> [st EXCEPT !.fault = "PendingBudgetAssert"], left |-> left,
          markedCount |-> markedCount]
    ELSE [st |-> AddToStagingQueue(st, b, item),
          left |-> (left - (item.size + WifiOverhead)) % UIntMod,
          markedCount |-> markedCount + (IF marked THEN 1 ELSE 0)]

RECURSIVE PendingLoop(_, _, _)
PendingLoop(st, left, markedCount) ==
    LET el == CanSchedule(st, left) IN
    IF ~el.c /\ ~el.l
    THEN [st |-> st, markedCount |-> markedCount]
    ELSE Bind(Scheduler(st, el.c, el.l), LAMBDA sch :
      IF sch.sel = "FATAL"
      THEN [st |-> [sch.st EXCEPT !.fault = "SchedulerFatal"],
            markedCount |-> markedCount]
      ELSE Bind(IF sch.sel = "L"
                THEN DequeueFromL4sQueue(sch.st)
                ELSE [marked |-> FALSE] @@ DequeueFromClassicQueue(sch.st), LAMBDA d :
        IF ~d.ok THEN PendingLoop(d.st, left, markedCount)
        ELSE Bind(StageItem(d.st, sch.sel, d.item, left, markedCount, d.marked), LAMBDA nx :
          IF nx.st.fault # "none"
          THEN [st |-> nx.st, markedCount |-> markedCount]
          ELSE PendingLoop(nx.st, nx.left, nx.markedCount))))

\* Walk the L4S staging queue marking the first n ECT(1) packets CE
RECURSIVE MarkEct1(_, _)
MarkEct1(q, n) ==
    CASE q = <<>> \/ n = 0    -> q
      [] Head(q).ecn = Ect1   -> <<Mark(Head(q))>> \o MarkEct1(Tail(q), n - 1)
      [] OTHER                -> <<Head(q)>> \o MarkEct1(Tail(q), n)

\* After the batch: the assert on marks without coupling, then the top-up
PendingTopUp(r) ==
    LET st == r.st
        pendingMarks == Len(st.qL) - r.markedCount
    IN CASE st.fault # "none" -> st
         [] AssertsEnabled /\ r.markedCount > 0 /\ ~(pCL > 0) ->
              [st EXCEPT !.fault = "MarkedWithoutCouplingAssert"]
         [] pendingMarks > 0 -> [st EXCEPT !.sL = MarkEct1(@, pendingMarks)]
         [] OTHER -> st

QueueDiscPending == GetQueueSize + WifiOverhead * (Len(qC) + Len(qL))

-----------------------------------------------------------------------------
(***************************************************************************)
(* Actions                                                                 *)
(***************************************************************************)
Init ==
    /\ qC = <<>> /\ qL = <<>> /\ sC = <<>> /\ sL = <<>>
    /\ defC = 0 /\ defL = 0 /\ drr = {}
    /\ cntC = 0 /\ cntL = 0
    /\ baseProb = 0 /\ prevQ = 0 /\ pCL = 0 /\ pC = 0 /\ pL = 0
    /\ cLatSample = 0 /\ lLatSample = 0 /\ cBytesSample = 0
    /\ now = 0 /\ nextUpdate = StartTime
    /\ nextId = 1 /\ lastOut = [b \in Bands |-> 0]
    /\ fault = "none"

Running == fault = "none"

PiVars == <<baseProb, prevQ, pCL, pC, now, nextUpdate>>
Samples == <<cLatSample, lLatSample, cBytesSample>>

\* The DropTail internal queue's Enqueue: refused beyond its MaxSize
InternalEnqueue(q, p) ==
    IF Bytes(q) + p.size > InternalQueueLimit THEN q ELSE Append(q, p)

\* DoEnqueue: forced drop at the shared byte limit, else classify by ECN
DoEnqueue(size, ecn) ==
    LET p == [id |-> nextId, size |-> size, ts |-> now, ecn |-> ecn] IN
    /\ Running
    /\ nextId <= MaxArrivals
    /\ nextId' = nextId + 1
    /\ \/ /\ GetQueueSize + size > QueueLimit
          /\ UNCHANGED <<qC, qL>>
       \/ /\ GetQueueSize + size <= QueueLimit
          /\ IF IsL4s(ecn) THEN qL' = InternalEnqueue(qL, p) /\ UNCHANGED qC
                           ELSE qC' = InternalEnqueue(qC, p) /\ UNCHANGED qL
    /\ UNCHANGED <<sC, sL, defC, defL, drr, cntC, cntL, pL, lastOut, fault,
                   PiVars, Samples>>

\* DoDequeue, first branch: the L4S staging queue is served first
DequeueFromL4sStagingQueue ==
    /\ Running
    /\ sL # <<>>
    /\ sL' = Tail(sL)
    /\ lastOut' = [lastOut EXCEPT !["L"] = Head(sL).id]
    /\ UNCHANGED <<qC, qL, sC, defC, defL, drr, cntC, cntL, pL, nextId,
                   fault, PiVars, Samples>>

\* Mutant of DequeueFromClassicStagingQueue: waits for the whole L4S side
DequeueFromClassicStagingQueueAfterL4s ==
    /\ Running
    /\ sL = <<>> /\ qL = <<>>
    /\ sC # <<>>
    /\ sC' = Tail(sC)
    /\ lastOut' = [lastOut EXCEPT !["C"] = Head(sC).id]
    /\ UNCHANGED <<qC, qL, sL, defC, defL, drr, cntC, cntL, pL, nextId,
                   fault, PiVars, Samples>>

\* DoDequeue, second branch: then the Classic staging queue
DequeueFromClassicStagingQueue ==
    /\ Running
    /\ sL = <<>>
    /\ sC # <<>>
    /\ sC' = Tail(sC)
    /\ lastOut' = [lastOut EXCEPT !["C"] = Head(sC).id]
    /\ UNCHANGED <<qC, qL, sL, defC, defL, drr, cntC, cntL, pL, nextId,
                   fault, PiVars, Samples>>

\* Mutant of DoDequeue: the internal queues are served before the staging queues
DoDequeueBeforeStaging ==
    LET d == DequeueLoop(Cur) IN
    /\ Running
    /\ GetQueueSize > 0
    /\ Commit(d.st)
    /\ lastOut' = IF d.ok THEN [lastOut EXCEPT ![d.band] = d.item.id] ELSE lastOut
    /\ UNCHANGED <<nextId, PiVars, Samples>>

\* DoDequeue, last branch: schedule and run the AQM on the internal queues
DoDequeue ==
    /\ Running
    /\ sL = <<>> /\ sC = <<>>
    /\ GetQueueSize > 0
    /\ \E d \in {DequeueLoop(Cur)} :
          /\ Commit(d.st)
          /\ lastOut' = IF d.ok THEN [lastOut EXCEPT ![d.band] = d.item.id] ELSE lastOut
    /\ UNCHANGED <<nextId, PiVars, Samples>>

\* PendingDequeueCallback(pendingBytes) with the MAC's queue stopped or not
PendingDequeueCallback(pendingBytes, stopped) ==
    /\ Running
    /\ cLatSample' = Sojourn(qC)
    /\ lLatSample' = Sojourn(qL)
    /\ cBytesSample' = Bytes(qC)
    /\ \/ /\ ~stopped
          /\ UNCHANGED <<qC, qL, sC, sL, defC, defL, drr, cntC, cntL, pL, fault>>
       \/ /\ stopped
          /\ pendingBytes > QueueDiscPending
          /\ UNCHANGED <<qC, qL, sC, sL, defC, defL, drr, cntC, cntL, pL, fault>>
       \/ /\ stopped
          /\ pendingBytes <= QueueDiscPending
          /\ Commit(PendingTopUp(PendingLoop(Cur, pendingBytes, 0)))
    /\ UNCHANGED <<nextId, lastOut, PiVars>>

\* Mutant of DualPi2Update: the delay error enters with its sign reversed
DualPi2UpdateTargetSwapped ==
    LET cQ == IF EnableWifiClassicLatencyEstimator
              THEN Min({Max({cLatSample, lLatSample}),
                        (cBytesSample * Target) \div AggBufferLimit})
              ELSE Sojourn(qC)
        curQ == Max({cQ, Sojourn(qL)})
        raw  == baseProb + Alpha * (Target - curQ) + Beta * (curQ - prevQ)
        bp   == Min({Max({raw, 0}), ProbScale})
    IN /\ Running
       /\ now = nextUpdate
       /\ baseProb' = bp
       /\ pCL' = Min({bp * K * ProbScale, S})
       /\ pC' = bp * bp
       /\ prevQ' = curQ
       /\ nextUpdate' = now + TUpdate
       /\ UNCHANGED <<qC, qL, sC, sL, defC, defL, drr, cntC, cntL, pL, now, nextId,
                      lastOut, fault, Samples>>

\* DualPi2Update: the PI2 timer fires and reschedules itself
DualPi2Update ==
    LET cQ == IF EnableWifiClassicLatencyEstimator
              THEN Min({Max({cLatSample, lLatSample}),
                        (cBytesSample * Target) \div AggBufferLimit})
              ELSE Sojourn(qC)
        curQ == Max({cQ, Sojourn(qL)})
        raw  == baseProb + Alpha * (curQ - Target) + Beta * (curQ - prevQ)
        bp   == Min({Max({raw, 0}), ProbScale})
    IN /\ Running
       /\ now = nextUpdate
       /\ baseProb' = bp
       /\ pCL' = Min({bp * K * ProbScale, S})
       /\ pC' = bp * bp
       /\ prevQ' = curQ
       /\ nextUpdate' = now + TUpdate
       /\ UNCHANGED <<qC, qL, sC, sL, defC, defL, drr, cntC, cntL, pL, now, nextId,
                      lastOut, fault, Samples>>

\* The simulator clock advances; it never passes a pending timer event
Tick ==
    /\ Running
    /\ now < MaxTime
    /\ now < nextUpdate
    /\ now' = now + 1
    /\ UNCHANGED <<qC, qL, sC, sL, defC, defL, drr, cntC, cntL, baseProb, prevQ,
                   pCL, pC, pL, nextUpdate, nextId, lastOut, fault, Samples>>

\* After NS_FATAL_ERROR or a failed NS_ASSERT the simulation has ended
Halted ==
    /\ ~Running
    /\ UNCHANGED vars

Next ==
    \/ \E size \in Sizes, ecn \in ArrivalEcn : DoEnqueue(size, ecn)
    \/ DequeueFromL4sStagingQueue
    \/ DequeueFromClassicStagingQueue
    \/ DoDequeue
    \/ \E pb \in PendingBytes, stopped \in BOOLEAN : PendingDequeueCallback(pb, stopped)
    \/ DualPi2Update
    \/ Tick
    \/ Halted

Spec == Init /\ [][Next]_vars

\* The link keeps pulling packets while the disc holds any (the MAC restarts
\* its queue once an aggregate is sent): the three dequeue paths are weakly
\* fair.  Arrivals, pending-dequeue calls and the clock are the environment
\* and get no fairness.
Fairness ==
    /\ WF_vars(DequeueFromL4sStagingQueue)
    /\ WF_vars(DequeueFromClassicStagingQueue)
    /\ WF_vars(DoDequeue)

FairSpec == Spec /\ Fairness

-----------------------------------------------------------------------------
(***************************************************************************)
(* Properties                                                              *)
(***************************************************************************)
Faults == {"none", "SchedulerFatal", "PendingBudgetAssert",
           "MarkedWithoutCouplingAssert"}

TypeOK ==
    /\ \A q \in {qC, qL, sC, sL} : q \in Seq(Packet)
    /\ defC \in Nat /\ defL \in Nat /\ drr \subseteq Bands
    /\ cntC \in 0..S /\ cntL \in 0..S
    /\ baseProb \in 0..ProbScale /\ {pCL, pC, pL} \subseteq 0..S
    /\ {prevQ, cLatSample, lLatSample, now} \subseteq 0..MaxTime
    /\ cBytesSample \in 0..QueueLimit
    /\ nextId \in 1..MaxArrivals + 1
    /\ lastOut \in [Bands -> 0..MaxArrivals]
    /\ fault \in Faults

Live(b)   == IF b = "L" THEN qL ELSE qC
Staged(b) == IF b = "L" THEN sL ELSE sC
Ids(q)    == {q[i].id : i \in DOMAIN q}

\* The WDRR deficits stay bounded: a band's deficit is only topped up when
\* its round ended with a head packet larger than the deficit (or an empty
\* queue, which resets it), so it never exceeds one packet plus one quantum.
DeficitBounded ==
    /\ defL < MaxSize + DrrQuantum * SchedulingWeight
    /\ defC < MaxSize + DrrQuantum

CECount(q) == Cardinality({i \in DOMAIN q : q[i].ecn = CE})

\* The guarantee the PendingDequeueCallback top-up exists for (spec 4.7
\* step 5): after a batch that staged L4S packets, the L4S staging queue
\* holds at least one CE per packet left in the L4S queue (or is all CE when
\* it is shorter than that), counting the batch's own marks (markedCount)
\* and the top-up's.  A lower bound only: the extra marks the top-up adds to
\* earlier batches are the pending_zero finding.
PendingTopUpMarks ==
    [][ (Len(sL') > Len(sL) /\ fault' = "none")
          => CECount(sL') >= Min({Len(qL'), Len(sL')}) ]_vars

\* Scheduler never spins: it selects a band whenever it is called with an
\* eligible non-empty band (otherwise NS_FATAL_ERROR after its loop).
SchedulerNeverStuck == fault # "SchedulerFatal"

\* The NS_ASSERT in PendingDequeueCallback: a batch holds marks only when the
\* coupled probability p_CL is positive.
MarksOnlyWithCoupling == fault # "MarkedWithoutCouplingAssert"

BytesBehind(q, id) ==
    Bytes(SelectSeq(q, LAMBDA p : p.id > id))

\* Classic packets a step removes without staging or handing them out
ClassicDropped == Ids(qC) \ (Ids(qC') \cup Ids(sC') \cup {lastOut'["C"]})

\* DequeueFromClassicQueue: "never drop if less than 2 MTU in queue": a
\* Classic packet is AQM-dropped only if at least 2 MTU remain behind it.
ClassicDropKeepsTwoMtu ==
    [][ \A id \in ClassicDropped : BytesBehind(qC, id) >= 2 * Mtu ]_vars

\* A pending-dequeue call that stages nothing (e.g. pending_dequeue(0)) changes
\* no state other than the latency samples: staged packets keep their ECN.
PendingWithoutBatchKeepsMarks ==
    [][ (qC' = qC /\ qL' = qL /\ Len(sL') = Len(sL) /\ Len(sC') = Len(sC))
          => sL' = sL ]_vars

\* A PI2 update that finds both internal queues empty never raises base_prob:
\* with no queueing delay the delay error is -target and the change term is
\* -prev_q.  DualPi2Update reads the queue delay from the head timestamps, or
\* from the samples the last PendingDequeueCallback took when the Wi-Fi
\* estimator is enabled.
EmptyQueueNeverRaisesProb ==
    [][ (qC = <<>> /\ qL = <<>> /\ nextUpdate' # nextUpdate)
          => baseProb' <= baseProb ]_vars

FramedBytes(q) == Bytes(q) + WifiOverhead * Len(q)

\* A pending-dequeue batch never stages more framed bytes (size + 38 per
\* packet) than the budget the MAC passed, whether or not NS_ASSERT is
\* compiled in: the budget is a uint32_t that must not wrap.
BatchFitsBudget ==
    [][ fault' = "none"
          => FramedBytes(sC') + FramedBytes(sL') - FramedBytes(sC) - FramedBytes(sL)
               <= Max(PendingBytes) ]_vars

HeldIds == Ids(sC \o qC) \cup Ids(sL \o qL)

\* Every packet the disc accepts eventually leaves it, handed out or dropped,
\* unless the run ends on NS_FATAL_ERROR or an assert: DoDequeue drains the
\* staging queues L4S first and then schedules the internal queues, so no
\* packet is left behind while the link keeps dequeuing.
EveryPacketLeaves ==
    \A id \in 1..MaxArrivals :
        id \in HeldIds ~> (id \notin HeldIds \/ fault # "none")

=============================================================================
