------------------------------- MODULE MCFeed -------------------------------
(* Small instances of Feed for TLC. *)
EXTENDS Feed

\* A period of four instants: an at-tick and, half way, a grid fire.
AtAndGrid == [k \in 0..3 |-> IF k = 0 THEN "at" ELSE IF k = 2 THEN "grid" ELSE "none"]
=============================================================================
