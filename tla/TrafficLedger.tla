--------------------------- MODULE TrafficLedger ---------------------------
(***************************************************************************)
(* What the traffic pipeline of the agent promises to the control plane,   *)
(* with no store, no session and no retransmission in sight: traffic that  *)
(* has been recorded stays recorded, and every recorded piece of traffic   *)
(* is billed at most once, under an identifier that is never reused.       *)
(***************************************************************************)
EXTENDS Naturals

CONSTANT Chunk           \* indivisible pieces of metered traffic

VARIABLES durable,       \* the traffic recorded so far
          bills          \* the set of [id, items] the control plane accepted

ledgerVars == <<durable, bills>>

Billed == UNION {b.items : b \in bills}

Init == /\ durable = {}
        /\ bills = {}

\* New traffic becomes durable.
Record == /\ \E cs \in SUBSET (Chunk \ durable) : durable' = durable \cup cs
          /\ UNCHANGED bills

\* A batch of durable traffic, none of it billed before, is billed under an
\* identifier no bill has.
Credit == /\ \E b \in bills' :
               /\ bills' = bills \cup {b}
               /\ \A old \in bills : old.id # b.id
               /\ b.items \subseteq durable \ Billed
          /\ UNCHANGED durable

Next == Record \/ Credit

Spec == Init /\ [][Next]_ledgerVars
=============================================================================
