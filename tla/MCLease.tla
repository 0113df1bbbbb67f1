------------------------------ MODULE MCLease ------------------------------
(* Small instances of Lease for TLC. *)
EXTENDS Lease

CONSTANTS p1, p2, run1, run2, state

\* Two sandboxes that name the same state dir.
SharedState == [p \in Procs |-> IF p = p1 THEN <<run1, state>> ELSE <<run2, state>>]

\* A sandbox, and another whose own lease nobody contends for.
Contender == [p \in Procs |-> IF p = p1 THEN <<run1, state>> ELSE <<state>>]
=============================================================================
