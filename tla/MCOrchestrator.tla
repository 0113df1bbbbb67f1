--------------------------- MODULE MCOrchestrator ---------------------------
(* Small instances of Orchestrator for TLC. *)
EXTENDS Orchestrator

Step(id, work, deps) == [id |-> id, work |-> work, deps |-> deps]

\* A step, one that reads it (listed first) and one beside them.
Original == <<Step("b", "w", <<"a">>), Step("a", "w", <<>>), Step("c", "w", <<>>)>>
\* The first step is planned anew.
Changed == <<Step("b", "w", <<"a">>), Step("a", "v", <<>>), Step("c", "w", <<>>)>>
\* A join of the three.
Joined == Append(Original, Step("d", "w", <<"b", "c">>))
\* Broken ones: nothing, an agent or a step nobody knows, twice the same id,
\* a cycle, and a dependency named twice.
Broken == {<<>>, <<Step("a", "?", <<>>)>>, <<Step("a", "w", <<"z">>)>>,
           <<Step("a", "w", <<>>), Step("a", "v", <<>>)>>,
           <<Step("a", "w", <<"b">>), Step("b", "w", <<"a">>)>>,
           <<Step("a", "w", <<>>), Step("b", "w", <<"a", "a">>)>>}

\* The reading step is planned anew, and reads the one beside it too.
Widened == <<Step("b", "v", <<"a", "c">>), Step("a", "w", <<>>), Step("c", "w", <<>>)>>

SomePlans == {Original, Changed, Joined, Widened} \cup Broken
TwoPlans == {Original, Changed}
=============================================================================
