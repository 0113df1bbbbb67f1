--------------------------- MODULE MCLoopDispatch ---------------------------
(* Small instances of LoopDispatch for TLC. *)
EXTENDS LoopDispatch, TLC

\* Events are interchangeable, and so are turns and loops.
Symmetry == Permutations(Events) \cup Permutations(Loops) \cup Permutations(Turns)
=============================================================================
