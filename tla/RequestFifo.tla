----------------------------- MODULE RequestFifo ----------------------------
(***************************************************************************)
(* What the contract promises a user about the requests he makes on L1     *)
(* (a registration with its deposit, or a deposit): each is handed to L2   *)
(* exactly once, in the order they were made, and settled in that order.   *)
(***************************************************************************)
EXTENDS Naturals, Sequences, SequencesExt

VARIABLES
    requested,      \* the requests made, oldest first
    delivered,      \* the requests L2 blocks have taken, in their order
    settled         \* the requests of the blocks executed, in their order

vars == <<requested, delivered, settled>>

Init == requested = << >> /\ delivered = << >> /\ settled = << >>

\* A user makes a request.
Request ==
    /\ IsStrictPrefix(requested, requested')
    /\ Len(requested') = Len(requested) + 1
    /\ UNCHANGED <<delivered, settled>>

\* Blocks take the oldest requests that were not taken.
Deliver ==
    /\ IsStrictPrefix(delivered, delivered')
    /\ IsPrefix(delivered', requested)
    /\ UNCHANGED <<requested, settled>>

\* Blocks are executed: they settle the oldest requests that were not settled.
Settle ==
    /\ IsStrictPrefix(settled, settled')
    /\ IsPrefix(settled', delivered)
    /\ UNCHANGED <<requested, delivered>>

Next == Request \/ Deliver \/ Settle

Spec == Init /\ [][Next]_vars
=============================================================================
