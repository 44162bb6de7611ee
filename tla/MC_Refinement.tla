---------------------------- MODULE MC_Refinement ----------------------------
(***************************************************************************)
(* DualPi2 implements DualQueueAbstract.  A band's abstract queue is its   *)
(* staging queue followed by its internal queue: staged packets were taken *)
(* from the internal queue earlier and DoDequeue hands them out first.     *)
(* The packets handed out are recorded by lastOut, the identities of the   *)
(* packets offered by nextId.                                               *)
(***************************************************************************)
EXTENDS DualPi2

Abs == INSTANCE DualQueueAbstract
         WITH held <- [b \in Bands |-> Staged(b) \o Live(b)],
              out  <- lastOut,
              next <- nextId

\* Every behaviour of the disc (enqueue, staging and ordinary dequeues,
\* pending-dequeue batches with their drops and top-up marks, PI2 updates) is
\* a behaviour of the abstract dual queue: per-band FIFO hand-out, packets
\* lost only by drops, marks only on ECT(1) packets of the L4S band.
AbsSpec == Abs!Spec

=============================================================================
