----------------------------- MODULE MCSoeCycle -----------------------------
(* Small instances of SoeCycle for TLC. *)
EXTENDS SoeCycle

\* Two weeks; the second one's decision may also be dated before the first's.
TwoWeeks == {[week |-> 1, at |-> 1], [week |-> 2, at |-> 2], [week |-> 2, at |-> 0]}
=============================================================================
