---------------------------- MODULE MCPaperDesk ----------------------------
(* Small instances of PaperDesk for TLC. *)
EXTENDS PaperDesk

CONSTANTS c1, c2, c3, desk, other

Order(coid, side, qty, exitAt) ==
    [coid |-> coid, close |-> FALSE, reduce |-> FALSE, side |-> side, qty |-> qty,
     exitAt |-> exitAt]
Close(coid) ==
    [coid |-> coid, close |-> TRUE, reduce |-> TRUE, side |-> 1, qty |-> 0, exitAt |-> None]

\* Entries of one sandbox, and one of a sandbox that names the same ledger.
Entries ==
    [c \in Calls |-> IF c = c1 THEN {Order("a", 1, 1, None)} ELSE {Order("b", 1, 1, None)}]
TwoDesks == [c \in Calls |-> IF c = c3 THEN other ELSE desk]

\* A short with a deadline; an increase with a later one, or a buy that may
\* flip it; under the buy's id, a close.
Trades ==
    [c \in Calls |-> IF c = c1 THEN {Order("a", -1, 1, 2)}
                     ELSE IF c = c2 THEN {Order("b", -1, 2, 3), Order("x", 1, 2, None)}
                     ELSE {Close("x")}]
OneDesk == [c \in Calls |-> desk]
=============================================================================
