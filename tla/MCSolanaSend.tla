---------------------------- MODULE MCSolanaSend ----------------------------
(* Small instances of SolanaSend for TLC. *)
EXTENDS SolanaSend

CONSTANTS a, b, swap

\* Session a sends two transactions, the others one.
TwoThenOne == [s \in Sessions |-> IF s = a THEN 2 ELSE 1]
=============================================================================
