-------------------------- MODULE DualQueueAbstract --------------------------
(***************************************************************************)
(* What the DualPI2 queue disc promises the upstream and the link (spec    *)
(* section 3 "Lifecycle", section 5 "Ordering guarantees", section 8):     *)
(*                                                                         *)
(*  - every packet offered is either refused at once or held in the band   *)
(*    its ECN codepoint selects (ECT(1) and CE: L4S; the rest: Classic);   *)
(*  - a held packet leaves only by being dropped or handed out, and the    *)
(*    packet handed out of a band is the oldest one of that band still     *)
(*    held: no reordering inside a class, no duplicates, nothing invented; *)
(*  - while held, a packet changes only by being CE-marked, and only an    *)
(*    ECT(1) packet of the L4S band is marked.                             *)
(*                                                                         *)
(* It says nothing about which packets are dropped or marked, nor when:    *)
(* that is the AQM's business.                                             *)
(***************************************************************************)
EXTENDS Integers, SequencesExt

VARIABLES
    held,   \* held[b]: the packets of band b the disc holds, oldest first
    out,    \* out[b]: id of the last packet of band b handed to the link
    next    \* id the next packet offered will carry

vars == <<held, out, next>>

Bands == {"C", "L"}
Ect1 == 1
CE   == 3

BandOf(ecn) == IF ecn \in {Ect1, CE} THEN "L" ELSE "C"

Init ==
    /\ held = [b \in Bands |-> <<>>]
    /\ out  = [b \in Bands |-> 0]
    /\ next = 1

\* q is p, or p CE-marked when p is an ECT(1) packet of the L4S band
SameOrMarked(q, p, b) ==
    \/ q = p
    \/ b = "L" /\ p.ecn = Ect1 /\ q = [p EXCEPT !.ecn = CE]

\* t is s with some packets removed and the others possibly marked
RECURSIVE Survives(_, _, _)
Survives(t, s, b) ==
    CASE t = <<>>                      -> TRUE
      [] s = <<>>                      -> FALSE
      [] SameOrMarked(Head(t), Head(s), b) -> Survives(Tail(t), Tail(s), b)
      [] OTHER                         -> Survives(t, Tail(s), b)

\* The upstream offers packet number next; it is refused or held at the tail
Offer ==
    /\ next' = next + 1
    /\ out' = out
    /\ \/ held' = held
       \/ \E b \in Bands :
            /\ held'[b] # <<>>
            /\ Last(held'[b]).id = next
            /\ BandOf(Last(held'[b]).ecn) = b
            /\ held' = [held EXCEPT ![b] = Append(@, Last(held'[b]))]

\* Band b either hands out its oldest surviving packet or hands out nothing;
\* in both cases any held packet may be dropped and the rest marked.
Serve(b) ==
    IF out'[b] = out[b]
    THEN Survives(held'[b], held[b], b)
    ELSE \E i \in DOMAIN held[b] :
            /\ held[b][i].id = out'[b]
            /\ Survives(held'[b], SubSeq(held[b], i + 1, Len(held[b])), b)

\* One step of the disc: drops and marks in both bands, at most one hand-out
Service ==
    /\ next' = next
    /\ Cardinality({b \in Bands : out'[b] # out[b]}) <= 1
    /\ \A b \in Bands : Serve(b)

Next == Offer \/ Service

Spec == Init /\ [][Next]_vars

=============================================================================
