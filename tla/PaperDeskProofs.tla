-------------------------- MODULE PaperDeskProofs --------------------------
(***************************************************************************)
(* Proofs about PaperDesk: the gate that runs inside place_tx, for every   *)
(* set of calls, requests, prices and limits.  The invariant says what a   *)
(* call has in hand (its request, a book once it is ready) and that the    *)
(* order table keeps its shape; the rest is read off one transaction.      *)
(***************************************************************************)
EXTENDS PaperDesk, SumProofs, FiniteSetTheorems, SequenceTheorems, WellFoundedInduction, TLAPS

-----------------------------------------------------------------------------
(* The invariant.                                                          *)

CallRec == [at: {"idle", "begun", "owing", "rows", "ready", "done"},
            req: Request \cup {None}, t: Nat, held: Int, mark: Prices \cup {None},
            rate: BOOLEAN, book: Prices \cup {None}, kill: Probes, row: Nat,
            how: {"none", "replayed", "conflict", "refused", "no_position", "denied", "placed"}]

OrderRec == [coid: STRING, print: [close: BOOLEAN, side: Int, qty: Nat], ro: BOOLEAN,
             side: Int, asked: Nat, filled: Nat, px: Nat, ts: Nat]

\* The clock, the market and the switch.
WorldTypes == now \in Nat /\ px \in Prices /\ file \in BOOLEAN

\* A call under way has its request, and a book once it is ready.
CallTypes ==
    /\ call \in [Calls -> CallRec]
    /\ \A c \in Calls :
         /\ call[c].at # "idle" => call[c].req \in Request
         /\ call[c].at = "ready" => call[c].book \in Prices

\* The account's row: its columns, the size held and the deadline.
AcctTypes ==
    /\ DOMAIN acct = {"cash", "qty", "avg", "opened", "lastHour", "exitAt"}
    /\ acct.qty \in Int
    /\ acct.exitAt \in Nat \cup {None}

RiskTypes == DOMAIN risk = {"reason", "since", "day", "base"}

OrderTypes == orders \in Seq(OrderRec)

DeskTypes == WorldTypes /\ CallTypes /\ AcctTypes /\ RiskTypes /\ OrderTypes

-----------------------------------------------------------------------------
(* The operators.                                                          *)

\* The least number of a set of naturals is one of them.
LEMMA MinIsIn ==
    ASSUME NEW S \in SUBSET Nat, S # {}
    PROVE  Min(S) \in S /\ \A y \in S : Min(S) <= y
<1>1. \E x \in S : \A y \in S : ~(<<y, x>> \in OpToRel(<, Nat))
  BY WFMin, NatLessThanWellFounded
<1>2. \E x \in S : \A y \in S : x <= y
  <2>1. PICK x \in S : \A y \in S : ~(<<y, x>> \in OpToRel(<, Nat))
    BY <1>1
  <2>2. ASSUME NEW y \in S PROVE x <= y
    <3>1. ~(y < x)
      BY <2>1 DEF OpToRel
    <3> QED BY <3>1
  <2> QED BY <2>2
<1> QED BY <1>2 DEF Min

\* A settlement changes the account's cash and last hour, nothing else.
LEMMA SettledKeeps ==
    ASSUME AcctTypes, NEW rate, NEW t
    PROVE  LET a == Settled(acct, owed, rate, t).acct IN
           /\ DOMAIN a = {"cash", "qty", "avg", "opened", "lastHour", "exitAt"}
           /\ a.qty = acct.qty /\ a.exitAt = acct.exitAt
<1>1. PICK h, x : Settled(acct, owed, rate, t).acct = [acct EXCEPT !.lastHour = h, !.cash = x]
  BY DEF Settled
<1> QED BY <1>1 DEF AcctTypes

LEMMA Opposite ==
    ASSUME NEW y \in Int, y + 1 = 0
    PROVE  -y = 1
  OBVIOUS

\* The sign and the size of a position.
LEMMA SignOf ==
    ASSUME NEW x \in Int
    PROVE  /\ Sign(x) \in {-1, 0, 1} /\ -Sign(x) \in {-1, 0, 1} /\ Abs(x) \in Nat
           /\ x > 0 => Sign(x) = 1 /\ -Sign(x) = -1 /\ Abs(x) = x
           /\ x < 0 => Sign(x) = -1 /\ -Sign(x) = 1 /\ Abs(x) = -x
           /\ x = 0 => Sign(x) = 0 /\ -Sign(x) = 0 /\ Abs(x) = 0
<1>1. CASE x > 0
  <2>1. Sign(x) = 1 /\ Abs(x) = x
    BY <1>1 DEF Sign, Abs
  <2> QED BY <1>1, <2>1
<1>2. CASE x < 0
  <2>1. Sign(x) = -1 /\ Abs(x) = -x
    BY <1>2 DEF Sign, Abs
  <2>2. -x \in Nat
    BY <1>2
  <2>4. Sign(x) \in Int /\ Sign(x) + 1 = 0
    BY <2>1
  <2>3. -Sign(x) = 1
    BY <2>4, Opposite
  <2> QED BY <1>2, <2>1, <2>2, <2>3
<1>3. CASE x = 0
  <2>1. Sign(x) = 0 /\ Abs(x) = 0
    BY <1>3 DEF Sign, Abs
  <2> QED BY <1>3, <2>1
<1> QED BY <1>1, <1>2, <1>3

\* The order placed: its side and a size.
LEMMA OrderTyped ==
    ASSUME CallTypes, NEW c \in Calls, call[c].req \in Request, NEW a, a.qty \in Int
    PROVE  /\ OrderOf(c, a).side \in {-1, 0, 1} /\ OrderOf(c, a).qty \in Nat
           /\ call[c].req.close => OrderOf(c, a).side = -Sign(a.qty) /\ OrderOf(c, a).qty = Abs(a.qty)
<1>1. -Sign(a.qty) \in {-1, 0, 1} /\ Abs(a.qty) \in Nat
  BY SignOf
<1>2. call[c].req.side \in Sides /\ call[c].req.qty \in Nat
  BY DEF Request
<1>3. CASE call[c].req.close
  BY <1>1, <1>3 DEF OrderOf
<1>4. CASE ~call[c].req.close
  BY <1>2, <1>4 DEF OrderOf, Sides
<1> QED BY <1>3, <1>4

\* A fill moves the position by what was filled.
LEMMA FillMoves ==
    ASSUME NEW a, DOMAIN a = {"cash", "qty", "avg", "opened", "lastHour", "exitAt"},
           NEW side, NEW q, NEW price, NEW t
    PROVE  /\ DOMAIN ApplyFill(a, side, q, price, t) = {"cash", "qty", "avg", "opened", "lastHour", "exitAt"}
           /\ ApplyFill(a, side, q, price, t).qty = a.qty + side * q
<1>1. CASE Sign(a.qty) \in {0, side}
  <2>1. PICK x, y, z : ApplyFill(a, side, q, price, t)
                         = [a EXCEPT !.qty = a.qty + side * q, !.cash = x, !.avg = y, !.opened = z]
    BY <1>1 DEF ApplyFill
  <2> QED BY <2>1
<1>2. CASE ~(Sign(a.qty) \in {0, side})
  <2>1. PICK x, y, z : ApplyFill(a, side, q, price, t)
                         = [a EXCEPT !.qty = a.qty + side * q, !.cash = x, !.avg = y, !.opened = z]
    BY <1>2 DEF ApplyFill
  <2> QED BY <2>1
<1> QED BY <1>1, <1>2

\* What a trip or a roll leaves of a sticky halt: all of it.
LEMMA StickyStands ==
    ASSUME NEW r, DOMAIN r = {"reason", "since", "day", "base"}, NEW t, NEW trips
    PROVE  /\ r.reason \in Sticky => Trip(r, trips, t).reason = r.reason
           /\ r.reason \in Sticky => EffectiveHalt(r, t) = r.reason
           /\ DOMAIN Trip(r, trips, t) = {"reason", "since", "day", "base"}
<1>1. r.reason \in Sticky => EffectiveHalt(r, t) = r.reason
  BY DEF EffectiveHalt, Sticky
<1>2. DOMAIN Trip(r, trips, t) = {"reason", "since", "day", "base"}
  BY DEF Trip
<1>3. r.reason \in Sticky => Trip(r, trips, t).reason = r.reason
  BY <1>1 DEF Trip
<1> QED BY <1>1, <1>2, <1>3

-----------------------------------------------------------------------------
(* What one transaction of place_tx does when it sends the order.          *)

\* The order o is placed and f of it filled: the account moves by f, the order
\* is stored, and the gate let it through as an entry or as an exit.
Sent(c, in, a, o, f) ==
    /\ in \in Inputs(c) /\ a.qty = acct.qty /\ a.exitAt = acct.exitAt /\ o = OrderOf(c, a)
    /\ o.side \in {-1, 0, 1} /\ o.qty \in Nat /\ f \in 0..o.qty
    /\ acct'.qty = acct.qty + o.side * f
    /\ DOMAIN acct' = {"cash", "qty", "avg", "opened", "lastHour", "exitAt"}
    /\ \/ f = 0 /\ acct'.exitAt = acct.exitAt
       \/ \E b : b.qty = acct'.qty /\ acct'.exitAt = ExitDeadline(a, b, call[c].req.exitAt)
    /\ orders' = Append(orders,
                   [coid |-> call[c].req.coid, print |-> Fingerprint(call[c].req),
                    ro |-> ReduceOnly(call[c].req), side |-> o.side, asked |-> o.qty, filled |-> f,
                    px |-> IF f = 0 THEN 0 ELSE call[c].book, ts |-> call[c].t])
    /\ \/ \E rolled, equity :
            /\ EntryAllowed(c, a, o, in, EitherProbe(call[c].kill, in.inside), rolled, equity)
            /\ equity = Equity(a, in.mark) /\ rolled = Roll(risk, call[c].t, equity)
       \/ Reduces(c, a, o)

LEMMA SentEffect ==
    ASSUME DeskTypes, NEW c \in Calls, PlaceSent(c)
    PROVE  /\ \E in, a, o, f : Sent(c, in, a, o, f)
           /\ MayJudge(c) /\ call[c].req \in Request
           /\ call' = [call EXCEPT ![c] = Answer(call[c].req, Len(orders) + 1, "placed")]
<1>0. MayJudge(c) /\ call[c].req \in Request /\ call[c].at = "ready"
      /\ call' = [call EXCEPT ![c] = Answer(call[c].req, Len(orders) + 1, "placed")]
  BY DEF PlaceSent, DeskTypes, CallTypes, MayJudge
<1>1. PICK in \in Inputs(c) :
         LET j == Judged(c, in)
             k == call[c]
             a == j.settled.acct
         IN  /\ Judges(j)
             /\ j.allow
             /\ \E f \in 0..(IF in.book = None THEN 0 ELSE j.order.qty) :
                  LET filled == ApplyFill(a, j.order.side, f, k.book, k.t) IN
                  /\ acct' = IF f = 0 THEN a
                             ELSE [filled EXCEPT !.exitAt = ExitDeadline(a, filled, call[c].req.exitAt)]
                  /\ orders' = Append(orders,
                                 [coid |-> call[c].req.coid, print |-> Fingerprint(call[c].req),
                                  ro |-> ReduceOnly(call[c].req), side |-> j.order.side,
                                  asked |-> j.order.qty, filled |-> f,
                                  px |-> IF f = 0 THEN 0 ELSE k.book, ts |-> k.t])
  BY DEF PlaceSent
<1>2. PICK j : j = Judged(c, in)
  OBVIOUS
<1>3. PICK a : a = Settled(acct, owed, call[c].rate, call[c].t).acct
  OBVIOUS
<1>4. PICK o : o = OrderOf(c, a)
  OBVIOUS
<1>5. PICK kill : kill = IF ReduceOnly(call[c].req) THEN call[c].kill ELSE EitherProbe(call[c].kill, in.inside)
  OBVIOUS
<1>6. PICK equity : equity = Equity(a, in.mark)
  OBVIOUS
<1>7. PICK rolled : rolled = Roll(risk, call[c].t, equity)
  OBVIOUS
<1>8. /\ j.settled.acct = a /\ j.order = o
      /\ j.allow <=> \/ EntryAllowed(c, a, o, in, kill, rolled, equity)
                     \/ ExitAllowed(c, a, o, in, kill, rolled)
  BY <1>2, <1>3, <1>4, <1>5, <1>6, <1>7 DEF Judged
<1>9. a.qty = acct.qty /\ a.exitAt = acct.exitAt /\ DOMAIN a = {"cash", "qty", "avg", "opened", "lastHour", "exitAt"}
      /\ acct.qty \in Int
  BY <1>3, SettledKeeps DEF DeskTypes, AcctTypes
<1>10. o.side \in {-1, 0, 1} /\ o.qty \in Nat
  BY <1>0, <1>4, <1>9, OrderTyped DEF DeskTypes
<1>11. PICK f \in 0..(IF in.book = None THEN 0 ELSE o.qty) :
         /\ acct' = IF f = 0 THEN a
                    ELSE [ApplyFill(a, o.side, f, call[c].book, call[c].t) EXCEPT
                            !.exitAt = ExitDeadline(a, ApplyFill(a, o.side, f, call[c].book, call[c].t), call[c].req.exitAt)]
         /\ orders' = Append(orders,
                        [coid |-> call[c].req.coid, print |-> Fingerprint(call[c].req),
                         ro |-> ReduceOnly(call[c].req), side |-> o.side, asked |-> o.qty, filled |-> f,
                         px |-> IF f = 0 THEN 0 ELSE call[c].book, ts |-> call[c].t])
  BY <1>1, <1>2, <1>8
<1>12. f \in 0..o.qty
  BY <1>10, <1>11
<1>13. PICK b : b = ApplyFill(a, o.side, f, call[c].book, call[c].t)
  OBVIOUS
<1>14. b.qty = a.qty + o.side * f /\ DOMAIN b = {"cash", "qty", "avg", "opened", "lastHour", "exitAt"}
  BY <1>9, <1>13, FillMoves
<1>15. /\ acct'.qty = acct.qty + o.side * f
       /\ DOMAIN acct' = {"cash", "qty", "avg", "opened", "lastHour", "exitAt"}
       /\ \/ f = 0 /\ acct'.exitAt = acct.exitAt
          \/ b.qty = acct'.qty /\ acct'.exitAt = ExitDeadline(a, b, call[c].req.exitAt)
  <2>1. CASE f = 0
    <3>1. o.side * f = 0
      BY <1>10, <2>1
    <3> QED BY <1>9, <1>11, <2>1, <3>1
  <2>2. CASE f # 0
    <3>1. acct' = [b EXCEPT !.exitAt = ExitDeadline(a, b, call[c].req.exitAt)]
      BY <1>11, <1>13, <2>2
    <3> QED BY <1>9, <1>14, <3>1
  <2> QED BY <2>1, <2>2
<1>16. \/ EntryAllowed(c, a, o, in, EitherProbe(call[c].kill, in.inside), rolled, equity)
       \/ Reduces(c, a, o)
  <2>1. EntryAllowed(c, a, o, in, kill, rolled, equity) \/ ExitAllowed(c, a, o, in, kill, rolled)
    BY <1>1, <1>2, <1>8
  <2>2. CASE EntryAllowed(c, a, o, in, kill, rolled, equity)
    <3>1. ~ReduceOnly(call[c].req)
      BY <2>2 DEF EntryAllowed
    <3>2. kill = EitherProbe(call[c].kill, in.inside)
      BY <1>5, <3>1
    <3> QED BY <2>2, <3>2
  <2>3. CASE ExitAllowed(c, a, o, in, kill, rolled)
    BY <2>3 DEF ExitAllowed
  <2> QED BY <2>1, <2>2, <2>3
<1>17. Sent(c, in, a, o, f)
  BY <1>1, <1>4, <1>6, <1>7, <1>9, <1>10, <1>11, <1>12, <1>15, <1>16 DEF Sent
<1> QED BY <1>0, <1>17

-----------------------------------------------------------------------------
(* Types.                                                                  *)

LEMMA IdleTyped == Idle \in CallRec /\ Idle.at = "idle"
  BY DEF Idle, CallRec, Probes

LEMMA AnswerTyped ==
    ASSUME NEW r \in Request, NEW row \in Nat,
           NEW how \in {"replayed", "conflict", "refused", "no_position", "denied", "placed"}
    PROVE  /\ Answer(r, row, how) \in CallRec
           /\ Answer(r, row, how).at = "done" /\ Answer(r, row, how).req = r
           /\ Answer(r, row, how).row = row /\ Answer(r, row, how).how = how
<1>1. "done" \in {"idle", "begun", "owing", "rows", "ready", "done"}
      /\ how \in {"none", "replayed", "conflict", "refused", "no_position", "denied", "placed"}
  OBVIOUS
<1>2. Answer(r, row, how) \in CallRec
  BY <1>1, IdleTyped DEF Answer, CallRec
<1>3. /\ Answer(r, row, how).at = "done" /\ Answer(r, row, how).req = r
      /\ Answer(r, row, how).row = row /\ Answer(r, row, how).how = how
  BY DEF Answer, Idle
<1> QED BY <1>2, <1>3

\* The least stored row of an id is a row of that id.
LEMMA StoredRow ==
    ASSUME OrderTypes, NEW coid, Stored(coid) # {}
    PROVE  Min(Stored(coid)) \in Stored(coid) /\ Min(Stored(coid)) \in Nat /\ Min(Stored(coid)) # 0
           /\ Min(Stored(coid)) \in DOMAIN orders
<1>1. DOMAIN orders = 1..Len(orders) /\ Len(orders) \in Nat
  BY DEF OrderTypes
<1>2. Stored(coid) \subseteq 1..Len(orders)
  BY <1>1 DEF Stored
<1>3. Min(Stored(coid)) \in Stored(coid)
  BY <1>1, <1>2, MinIsIn
<1> QED BY <1>1, <1>2, <1>3

\* A call answered from a stored row: its own request's, or a refusal.
LEMMA FromStoredTyped ==
    ASSUME OrderTypes, NEW r \in Request, NEW i \in DOMAIN orders
    PROVE  /\ FromStored(r, i) \in CallRec
           /\ FromStored(r, i).at = "done" /\ FromStored(r, i).req = r
           /\ FromStored(r, i).how \in {"replayed", "conflict"}
           /\ FromStored(r, i).row = 0 \/ (FromStored(r, i).row = i /\ orders[i].print = Fingerprint(r))
<1>1. i \in Nat /\ 0 \in Nat
  BY DEF OrderTypes
<1>2. CASE orders[i].print = Fingerprint(r)
  <2>1. FromStored(r, i) = Answer(r, i, "replayed")
    BY <1>2 DEF FromStored
  <2> QED BY <1>1, <1>2, <2>1, AnswerTyped
<1>3. CASE orders[i].print # Fingerprint(r)
  <2>1. FromStored(r, i) = Answer(r, 0, "conflict")
    BY <1>3 DEF FromStored
  <2> QED BY <1>1, <2>1, AnswerTyped
<1> QED BY <1>2, <1>3

\* One call moves and the others do not.
LEMMA OneCallMoves ==
    ASSUME CallTypes, NEW c \in Calls, NEW k, call' = [call EXCEPT ![c] = k], k \in CallRec,
           k.at # "idle" => k.req \in Request, k.at = "ready" => k.book \in Prices
    PROVE  CallTypes' /\ call'[c] = k /\ \A d \in Calls : d # c => call'[d] = call[d]
  BY DEF CallTypes

\* A roll, and a trip after it, is a risk_state row, and keeps a sticky halt.
LEMMA RolledTrip ==
    ASSUME RiskTypes, NEW t, NEW equity, NEW trips
    PROVE  LET n == Trip(Roll(risk, t, equity), trips, t) IN
           /\ DOMAIN n = {"reason", "since", "day", "base"}
           /\ risk.reason \in Sticky => n.reason = risk.reason
           /\ risk.reason \in Sticky => EffectiveHalt(Roll(risk, t, equity), t) = risk.reason
<1>1. PICK r : r = Roll(risk, t, equity)
  OBVIOUS
<1>2. DOMAIN r = {"reason", "since", "day", "base"} /\ r.reason = EffectiveHalt(risk, t)
  BY <1>1 DEF Roll
<1>3. risk.reason \in Sticky => r.reason = risk.reason
  BY <1>2, StickyStands DEF RiskTypes
<1> QED BY <1>1, <1>2, <1>3, StickyStands

\* What place_tx writes of the risk state and, when it denies, of the account.
LEMMA JudgedWrites ==
    ASSUME DeskTypes, NEW c \in Calls, NEW in
    PROVE  /\ DOMAIN Judged(c, in).risk = {"reason", "since", "day", "base"}
           /\ risk.reason \in Sticky => Judged(c, in).risk.reason = risk.reason
           /\ DOMAIN Judged(c, in).settled.acct = {"cash", "qty", "avg", "opened", "lastHour", "exitAt"}
           /\ Judged(c, in).settled.acct.qty = acct.qty /\ Judged(c, in).settled.acct.exitAt = acct.exitAt
<1>1. PICK equity, trips : Judged(c, in).risk = Trip(Roll(risk, call[c].t, equity), trips, call[c].t)
  BY DEF Judged
<1>2. PICK rate, t : Judged(c, in).settled = Settled(acct, owed, rate, t)
  BY DEF Judged
<1> QED BY <1>1, <1>2, RolledTrip, SettledKeeps DEF DeskTypes

\* The deadline after a fill is one of the two, or none.
LEMMA DeadlineTyped ==
    ASSUME NEW a, NEW b, NEW order \in Nat \cup {None}, a.exitAt \in Nat \cup {None}
    PROVE  ExitDeadline(a, b, order) \in Nat \cup {None}
  BY DEF ExitDeadline, Earlier

LEMMA FingerprintTyped ==
    ASSUME NEW r \in Request
    PROVE  Fingerprint(r) \in [close: BOOLEAN, side: Int, qty: Nat] /\ ReduceOnly(r) \in BOOLEAN
<1>1. r.close \in BOOLEAN /\ r.reduce \in BOOLEAN /\ r.side \in Int /\ r.qty \in Nat
  BY DEF Request, Sides
<1> QED BY <1>1 DEF Fingerprint, ReduceOnly

\* A placed order is a row of the table.
LEMMA PlacedTyped ==
    ASSUME DeskTypes, NEW c \in Calls, call[c].at = "ready", NEW in, NEW a, NEW o, NEW f, Sent(c, in, a, o, f)
    PROVE  OrderTypes' /\ AcctTypes'
<1>0. call[c].req \in Request /\ call[c].book \in Prices /\ call[c].t \in Nat /\ call[c].book \in Nat
  <2>1. call[c].req \in Request /\ call[c].book \in Prices /\ call[c] \in CallRec
    BY DEF DeskTypes, CallTypes
  <2> QED BY <2>1, DeskAssumption DEF CallRec
<1>1. o.side \in Int /\ o.qty \in Nat /\ f \in Nat /\ f \in 0..o.qty /\ acct.qty \in Int /\ acct.exitAt \in Nat \cup {None}
  BY DEF Sent, DeskTypes, AcctTypes
<1>2. Fingerprint(call[c].req) \in [close: BOOLEAN, side: Int, qty: Nat] /\ ReduceOnly(call[c].req) \in BOOLEAN
      /\ call[c].req.coid \in STRING /\ call[c].req.exitAt \in Nat \cup {None}
  BY <1>0, FingerprintTyped DEF Request
<1>3. (IF f = 0 THEN 0 ELSE call[c].book) \in Nat
  BY <1>0
<1>4. OrderTypes'
  <2>1. [coid |-> call[c].req.coid, print |-> Fingerprint(call[c].req),
         ro |-> ReduceOnly(call[c].req), side |-> o.side, asked |-> o.qty, filled |-> f,
         px |-> IF f = 0 THEN 0 ELSE call[c].book, ts |-> call[c].t] \in OrderRec
    BY <1>0, <1>1, <1>2, <1>3, Zenon DEF OrderRec
  <2> QED BY <2>1, AppendProperties DEF Sent, DeskTypes, OrderTypes
<1>5. AcctTypes'
  <2>1. acct.qty + o.side * f \in Int
    BY <1>1
  <2>2. acct'.exitAt \in Nat \cup {None}
    <3>1. CASE f = 0 /\ acct'.exitAt = acct.exitAt
      BY <1>1, <3>1
    <3>2. CASE \E b : b.qty = acct'.qty /\ acct'.exitAt = ExitDeadline(a, b, call[c].req.exitAt)
      <4>1. PICK b : acct'.exitAt = ExitDeadline(a, b, call[c].req.exitAt)
        BY <3>2
      <4>2. a.exitAt \in Nat \cup {None}
        BY <1>1 DEF Sent
      <4> QED BY <1>2, <4>1, <4>2, DeadlineTyped
    <3> QED BY <3>1, <3>2 DEF Sent
  <2> QED BY <2>1, <2>2 DEF Sent, AcctTypes
<1> QED BY <1>4, <1>5

\* A call under way reads on: its request stays.
LEMMA CallReadsOn ==
    ASSUME DeskTypes, NEW c \in Calls, Begin(c) \/ Snapshot(c) \/ Accrue(c) \/ Arrive(c)
    PROVE  /\ CallTypes' /\ \A d \in Calls : d # c => call'[d] = call[d]
           /\ \/ call'[c].row = call[c].row /\ call[c].at # "done" /\ call'[c].at # "done" /\ call[c].at # "ready"
                 /\ (call[c].at # "idle" => call'[c].req = call[c].req)
              \/ Begin(c) /\ call[c].at = "idle" /\ call'[c].at = "begun" /\ call'[c].row = 0
              \/ /\ call[c].at = "idle"
                 /\ \E r \in Request : Stored(r.coid) # {} /\ call'[c] = FromStored(r, Min(Stored(r.coid)))
<1>0. call \in [Calls -> CallRec] /\ call[c] \in CallRec /\ CallTypes /\ OrderTypes
  BY DEF DeskTypes, CallTypes
<1>1. CASE Begin(c)
  <2>1. PICK r \in Asks[c] :
          call' = [call EXCEPT ![c] = IF Stored(r.coid) = {}
                                      THEN [Idle EXCEPT !.at = "begun", !.req = r, !.t = now]
                                      ELSE FromStored(r, Min(Stored(r.coid)))]
    BY <1>1 DEF Begin
  <2>2. r \in Request /\ now \in Nat /\ call[c].at = "idle"
    BY <1>1, DeskAssumption DEF DeskTypes, WorldTypes, Begin
  <2>3. CASE Stored(r.coid) = {}
    <3>1. PICK k : k = [Idle EXCEPT !.at = "begun", !.req = r, !.t = now]
      OBVIOUS
    <3>2. k \in CallRec
      <4>1. "begun" \in {"idle", "begun", "owing", "rows", "ready", "done"}
        OBVIOUS
      <4> QED BY <2>2, <3>1, <4>1, IdleTyped DEF CallRec
    <3>3. k.at = "begun" /\ k.req = r /\ k.row = 0
      BY <3>1 DEF Idle
    <3>4. call' = [call EXCEPT ![c] = k]
      BY <2>1, <2>3, <3>1
    <3>5. CallTypes' /\ call'[c] = k /\ \A d \in Calls : d # c => call'[d] = call[d]
      BY <1>0, <2>2, <3>2, <3>3, <3>4, OneCallMoves
    <3> QED BY <1>1, <2>2, <3>3, <3>5
  <2>4. CASE Stored(r.coid) # {}
    <3>1. PICK i : i = Min(Stored(r.coid))
      OBVIOUS
    <3>2. i \in DOMAIN orders
      BY <1>0, <2>4, <3>1, StoredRow
    <3>3. FromStored(r, i) \in CallRec /\ FromStored(r, i).at = "done" /\ FromStored(r, i).req = r
      BY <1>0, <2>2, <3>2, FromStoredTyped
    <3>4. call' = [call EXCEPT ![c] = FromStored(r, i)]
      BY <2>1, <2>4, <3>1
    <3>5. CallTypes' /\ call'[c] = FromStored(r, i) /\ \A d \in Calls : d # c => call'[d] = call[d]
      BY <1>0, <2>2, <3>3, <3>4, OneCallMoves
    <3> QED BY <2>2, <2>4, <3>1, <3>5
  <2> QED BY <2>3, <2>4
<1>2. CASE Snapshot(c)
  <2>a. PICK rate \in {TRUE} \cup {~RateFails} :
          call' = [call EXCEPT ![c].held = acct.qty, ![c].mark = px, ![c].rate = rate,
                     ![c].at = IF rate /\ (owed # <<>> \/ DueHours(acct, call[c].t) # {})
                               THEN "owing" ELSE "rows"]
    BY <1>2 DEF Snapshot
  <2>b. PICK at : at = IF rate /\ (owed # <<>> \/ DueHours(acct, call[c].t) # {}) THEN "owing" ELSE "rows"
    OBVIOUS
  <2>c. at \in {"owing", "rows"}
    BY <2>b
  <2>1. call' = [call EXCEPT ![c] = [call[c] EXCEPT !.held = acct.qty, !.mark = px, !.rate = rate, !.at = at]]
    BY <1>0, <2>a, <2>b
  <2>2. call[c].at = "begun" /\ acct.qty \in Int /\ px \in Prices /\ rate \in BOOLEAN
    BY <1>2, DeskAssumption DEF Snapshot, DeskTypes, AcctTypes, WorldTypes
  <2>3. PICK k : k = [call[c] EXCEPT !.held = acct.qty, !.mark = px, !.rate = rate, !.at = at]
    OBVIOUS
  <2>4. k \in CallRec
    <3>1. at \in {"idle", "begun", "owing", "rows", "ready", "done"} /\ px \in Prices \cup {None}
      BY <2>2, <2>c
    <3> QED BY <1>0, <2>2, <2>3, <3>1 DEF CallRec
  <2>5. k.at = at /\ k.req = call[c].req /\ k.row = call[c].row
    BY <1>0, <2>3 DEF CallRec
  <2>6. CallTypes' /\ call'[c] = k /\ \A d \in Calls : d # c => call'[d] = call[d]
    <3>1. call[c].req \in Request
      BY <1>0, <2>2 DEF CallTypes
    <3> QED BY <1>0, <2>1, <2>c, <2>3, <2>4, <2>5, <3>1, OneCallMoves
  <2> QED BY <2>2, <2>c, <2>5, <2>6
<1>3. CASE Accrue(c)
  <2>1. call' = [call EXCEPT ![c] = [call[c] EXCEPT !.at = "rows"]] /\ call[c].at = "owing"
    BY <1>0, <1>3 DEF Accrue
  <2>3. PICK k : k = [call[c] EXCEPT !.at = "rows"]
    OBVIOUS
  <2>4. k \in CallRec /\ k.at = "rows" /\ k.req = call[c].req /\ k.row = call[c].row
    BY <1>0, <2>3 DEF CallRec
  <2>6. CallTypes' /\ call'[c] = k /\ \A d \in Calls : d # c => call'[d] = call[d]
    <3>1. call[c].req \in Request
      BY <1>0, <2>1 DEF CallTypes
    <3> QED BY <1>0, <2>1, <2>3, <2>4, <3>1, OneCallMoves
  <2> QED BY <2>1, <2>4, <2>6
<1>4. CASE Arrive(c)
  <2>1. PICK kill \in ProbeOf(file) :
          call' = [call EXCEPT ![c] = [call[c] EXCEPT !.at = "ready", !.t = now, !.book = px, !.kill = kill]]
    BY <1>0, <1>4 DEF Arrive
  <2>2. call[c].at = "rows" /\ now \in Nat /\ px \in Prices /\ kill \in Probes
    BY <1>4, <2>1 DEF Arrive, DeskTypes, WorldTypes, ProbeOf, Probes
  <2>3. PICK k : k = [call[c] EXCEPT !.at = "ready", !.t = now, !.book = px, !.kill = kill]
    OBVIOUS
  <2>4. k \in CallRec
    <3>1. "ready" \in {"idle", "begun", "owing", "rows", "ready", "done"} /\ px \in Prices \cup {None}
      BY <2>2
    <3> QED BY <1>0, <2>2, <2>3, <3>1 DEF CallRec
  <2>5. k.at = "ready" /\ k.req = call[c].req /\ k.row = call[c].row /\ k.book = px
    BY <1>0, <2>3 DEF CallRec
  <2>6. CallTypes' /\ call'[c] = k /\ \A d \in Calls : d # c => call'[d] = call[d]
    <3>1. call[c].req \in Request
      BY <1>0, <2>2 DEF CallTypes
    <3> QED BY <1>0, <2>1, <2>2, <2>3, <2>4, <2>5, <3>1, OneCallMoves
  <2> QED BY <2>2, <2>5, <2>6
<1> QED BY <1>1, <1>2, <1>3, <1>4

\* A call is answered.
LEMMA CallAnswered ==
    ASSUME DeskTypes, NEW c \in Calls,
           BeginRefused(c) \/ NoPosition(c) \/ PlaceStored(c) \/ PlaceDenied(c) \/ PlaceSent(c)
    PROVE  /\ CallTypes' /\ (\A d \in Calls : d # c => call'[d] = call[d])
           /\ call'[c].at = "done"
           /\ \/ call'[c].row = 0
              \/ PlaceStored(c) /\ \E r \in Request : Stored(r.coid) # {} /\ call'[c] = FromStored(r, Min(Stored(r.coid)))
              \/ PlaceSent(c) /\ call'[c].row = Len(orders) + 1 /\ call'[c].req = call[c].req
           /\ PlaceStored(c) => call'[c].how \in {"replayed", "conflict"}
<1>0. call \in [Calls -> CallRec] /\ CallTypes /\ OrderTypes /\ Len(orders) + 1 \in Nat /\ 0 \in Nat
  BY DEF DeskTypes, CallTypes, OrderTypes
<1>1. CASE BeginRefused(c)
  <2>1. PICK r \in Asks[c] : call' = [call EXCEPT ![c] = Answer(r, 0, "refused")]
    BY <1>1 DEF BeginRefused
  <2>2. r \in Request /\ call[c].at = "idle"
    BY <1>1, DeskAssumption DEF BeginRefused
  <2>3. PICK k : k = Answer(r, 0, "refused")
    OBVIOUS
  <2>4. k \in CallRec /\ k.at = "done" /\ k.req = r /\ k.row = 0
    BY <1>0, <2>2, <2>3, AnswerTyped
  <2> QED BY <1>0, <1>1, <2>1, <2>2, <2>3, <2>4, OneCallMoves DEF PlaceStored, MayJudge
<1>2. CASE NoPosition(c) \/ PlaceDenied(c) \/ PlaceSent(c)
  <2>1. call[c].at \in {"rows", "ready"} /\ call[c].req \in Request
    BY <1>0, <1>2 DEF NoPosition, PlaceDenied, PlaceSent, MayJudge, CallTypes
  <2>2. PICK row \in {0, Len(orders) + 1}, how \in {"no_position", "denied", "placed"} :
          /\ call' = [call EXCEPT ![c] = Answer(call[c].req, row, how)]
          /\ row = 0 \/ (PlaceSent(c) /\ row = Len(orders) + 1)
    BY <1>2 DEF NoPosition, PlaceDenied, PlaceSent
  <2>3. PICK k : k = Answer(call[c].req, row, how)
    OBVIOUS
  <2>4. k \in CallRec /\ k.at = "done" /\ k.req = call[c].req /\ k.row = row
    <3>1. row \in Nat /\ how \in {"replayed", "conflict", "refused", "no_position", "denied", "placed"}
      BY <1>0, <2>2
    <3> QED BY <2>1, <2>3, <3>1, AnswerTyped
  <2>5. CallTypes' /\ call'[c] = k /\ \A d \in Calls : d # c => call'[d] = call[d]
    BY <1>0, <2>1, <2>2, <2>3, <2>4, OneCallMoves
  <2>6. ~PlaceStored(c)
    BY <1>2 DEF NoPosition, PlaceDenied, PlaceSent, MayJudge, PlaceStored
  <2> QED BY <2>2, <2>4, <2>5, <2>6
<1>3. CASE PlaceStored(c)
  <2>1. PICK i : i = Min(Stored(call[c].req.coid))
    OBVIOUS
  <2>2. /\ Stored(call[c].req.coid) # {} /\ call[c].req \in Request
        /\ call' = [call EXCEPT ![c] = FromStored(call[c].req, i)]
    BY <1>0, <1>3, <2>1 DEF PlaceStored, CallTypes
  <2>3. i \in DOMAIN orders
    BY <1>0, <2>1, <2>2, StoredRow
  <2>4. /\ FromStored(call[c].req, i) \in CallRec /\ FromStored(call[c].req, i).at = "done"
        /\ FromStored(call[c].req, i).req = call[c].req /\ FromStored(call[c].req, i).how \in {"replayed", "conflict"}
    BY <1>0, <2>2, <2>3, FromStoredTyped
  <2>5. CallTypes' /\ call'[c] = FromStored(call[c].req, i) /\ \A d \in Calls : d # c => call'[d] = call[d]
    BY <1>0, <2>2, <2>4, OneCallMoves
  <2> QED BY <1>3, <2>1, <2>2, <2>4, <2>5
<1> QED BY <1>1, <1>2, <1>3

LEMMA DeskTypesStep == DeskTypes /\ [Next]_vars => DeskTypes'
<1> SUFFICES ASSUME DeskTypes, [Next]_vars PROVE DeskTypes'
  OBVIOUS
<1>w. WorldTypes'
  <2>0. now \in Nat /\ px \in Prices /\ file \in BOOLEAN
    BY DEF DeskTypes, WorldTypes
  <2>1. CASE Tick
    BY <2>0, <2>1 DEF Tick, WorldTypes
  <2>2. CASE MoveMarket
    BY <2>0, <2>2 DEF MoveMarket, WorldTypes
  <2>3. CASE TouchFile
    BY <2>0, <2>3 DEF TouchFile, WorldTypes
  <2>4. CASE UNCHANGED <<now, px, file>>
    BY <2>0, <2>4 DEF WorldTypes
  <2> QED BY <2>1, <2>2, <2>3, <2>4 DEF Next, vars, Begin, BeginRefused, Snapshot, Accrue, NoPosition, Arrive, PlaceStored,
             PlaceDenied, PlaceSent, StatusRead, StatusCommit, RiskHalt, ResumeAsked, ResumeCommit
<1>1. ASSUME NEW c \in Calls, Begin(c) \/ BeginRefused(c) \/ Snapshot(c) \/ NoPosition(c) \/ Arrive(c) \/ PlaceStored(c)
      PROVE  DeskTypes'
  <2>1. UNCHANGED <<acct, risk, orders>>
    BY <1>1 DEF Begin, BeginRefused, Snapshot, NoPosition, Arrive, PlaceStored, ledger
  <2>2. CallTypes'
    BY <1>1, CallReadsOn, CallAnswered
  <2> QED BY <1>w, <2>1, <2>2 DEF DeskTypes, AcctTypes, RiskTypes, OrderTypes
<1>2. ASSUME NEW c \in Calls, Accrue(c) PROVE DeskTypes'
  <2>1. UNCHANGED <<risk, orders>> /\ acct' = Settled(acct, owed, TRUE, call[c].t).acct
    BY <1>2 DEF Accrue
  <2>2. CallTypes'
    BY <1>2, CallReadsOn
  <2>3. AcctTypes'
    BY <2>1, SettledKeeps DEF DeskTypes, AcctTypes
  <2> QED BY <1>w, <2>1, <2>2, <2>3 DEF DeskTypes, RiskTypes, OrderTypes
<1>3. ASSUME NEW c \in Calls, PlaceDenied(c) PROVE DeskTypes'
  <2>1. CallTypes' /\ UNCHANGED orders
    BY <1>3, CallAnswered DEF PlaceDenied
  <2>2. PICK in \in Inputs(c) : acct' = Judged(c, in).settled.acct /\ risk' = Judged(c, in).risk
    BY <1>3 DEF PlaceDenied, Judges
  <2>3. AcctTypes' /\ RiskTypes'
    BY <2>2, JudgedWrites DEF DeskTypes, AcctTypes, RiskTypes
  <2> QED BY <1>w, <2>1, <2>3 DEF DeskTypes, OrderTypes
<1>4. ASSUME NEW c \in Calls, PlaceSent(c) PROVE DeskTypes'
  <2>1. CallTypes' /\ call[c].at = "ready"
    BY <1>4, CallAnswered DEF PlaceSent, MayJudge
  <2>2. PICK in \in Inputs(c) : risk' = Judged(c, in).risk
    BY <1>4 DEF PlaceSent, Judges
  <2>3. RiskTypes'
    BY <2>2, JudgedWrites DEF DeskTypes, RiskTypes
  <2>4. OrderTypes' /\ AcctTypes'
    BY <1>4, <2>1, SentEffect, PlacedTyped
  <2> QED BY <1>w, <2>1, <2>3, <2>4 DEF DeskTypes
<1>5. CASE StatusCommit
  <2>1. PICK mark, equity, rolled :
          /\ rolled = Roll(risk, status.t, equity)
          /\ risk' = Trip(rolled, TripsOf(status.kill, rolled, equity), status.t)
    BY <1>5 DEF StatusCommit
  <2>2. RiskTypes'
    BY <2>1, RolledTrip DEF DeskTypes, RiskTypes
  <2>3. UNCHANGED <<acct, orders, call>>
    BY <1>5 DEF StatusCommit, ledger
  <2> QED BY <1>w, <2>2, <2>3 DEF DeskTypes, CallTypes, AcctTypes, OrderTypes
<1>6. CASE RiskHalt \/ ResumeCommit
  <2>1. RiskTypes'
    BY <1>6, StickyStands DEF RiskHalt, ResumeCommit, DeskTypes, RiskTypes
  <2>2. UNCHANGED <<acct, orders, call>>
    BY <1>6 DEF RiskHalt, ResumeCommit, ledger
  <2> QED BY <1>w, <2>1, <2>2 DEF DeskTypes, CallTypes, AcctTypes, OrderTypes
<1>7. CASE StatusRead \/ TouchFile \/ ResumeAsked \/ MoveMarket \/ Tick \/ UNCHANGED vars
  <2>1. UNCHANGED <<acct, orders, call, risk>>
    BY <1>7 DEF StatusRead, TouchFile, ResumeAsked, MoveMarket, Tick, vars, ledger
  <2> QED BY <1>w, <2>1 DEF DeskTypes, CallTypes, AcctTypes, OrderTypes, RiskTypes
<1> QED BY <1>1, <1>2, <1>3, <1>4, <1>5, <1>6, <1>7 DEF Next

LEMMA DeskTyped == Spec => []DeskTypes
<1>1. Init => DeskTypes
  <2> SUFFICES ASSUME Init PROVE DeskTypes
    OBVIOUS
  <2>1. WorldTypes
    BY DeskAssumption DEF Init, WorldTypes
  <2>2. CallTypes
    <3>1. \A c \in Calls : call[c] = Idle /\ call[c].at = "idle"
      BY IdleTyped DEF Init
    <3>2. call \in [Calls -> CallRec]
      BY IdleTyped DEF Init
    <3> QED BY <3>1, <3>2 DEF CallTypes
  <2>3. AcctTypes /\ RiskTypes /\ OrderTypes
    BY DEF Init, Flat, AcctTypes, RiskTypes, OrderTypes
  <2> QED BY <2>1, <2>2, <2>3 DEF DeskTypes
<1>2. DeskTypes /\ [Next]_vars => DeskTypes'
  BY DeskTypesStep
<1> QED BY <1>1, <1>2, PTL DEF Spec

-----------------------------------------------------------------------------
(* One order per client_order_id.                                          *)

\* A call that has a row of the order table has been answered.
RowsStored ==
    \A c \in Calls : call[c].row # 0 => call[c].at = "done" /\ call[c].row \in DOMAIN orders

\* A step sends an order, or leaves the order table alone.
LEMMA StepCases ==
    ASSUME [Next]_vars
    PROVE  \/ \E c \in Calls : PlaceSent(c)
           \/ orders' = orders /\ call' = call
           \/ /\ orders' = orders
              /\ \E c \in Calls : Begin(c) \/ Snapshot(c) \/ Accrue(c) \/ Arrive(c)
           \/ /\ orders' = orders
              /\ \E c \in Calls : BeginRefused(c) \/ NoPosition(c) \/ PlaceStored(c) \/ PlaceDenied(c)
<1>1. CASE UNCHANGED vars
  BY <1>1 DEF vars, ledger
<1>2. CASE StatusRead \/ StatusCommit \/ TouchFile \/ RiskHalt \/ ResumeAsked \/ ResumeCommit \/ MoveMarket \/ Tick
  BY <1>2 DEF StatusRead, StatusCommit, TouchFile, RiskHalt, ResumeAsked, ResumeCommit, MoveMarket, Tick, ledger
<1>3. ASSUME NEW c \in Calls, Begin(c) \/ Snapshot(c) \/ Accrue(c) \/ Arrive(c)
      PROVE  orders' = orders
  BY <1>3 DEF Begin, Snapshot, Accrue, Arrive, ledger
<1>4. ASSUME NEW c \in Calls, BeginRefused(c) \/ NoPosition(c) \/ PlaceStored(c) \/ PlaceDenied(c)
      PROVE  orders' = orders
  BY <1>4 DEF BeginRefused, NoPosition, PlaceStored, PlaceDenied, ledger
<1> QED BY <1>1, <1>2, <1>3, <1>4 DEF Next

\* What a sent order appends.
LEMMA SentRow ==
    ASSUME DeskTypes, NEW c \in Calls, call[c].at = "ready", NEW in, NEW a, NEW o, NEW f, Sent(c, in, a, o, f)
    PROVE  /\ Len(orders) \in Nat /\ Len(orders') = Len(orders) + 1
           /\ DOMAIN orders = 1..Len(orders) /\ DOMAIN orders' = 1..(Len(orders) + 1)
           /\ \A i \in DOMAIN orders : orders'[i] = orders[i]
           /\ orders'[Len(orders) + 1].coid = call[c].req.coid
           /\ orders'[Len(orders) + 1].print = Fingerprint(call[c].req)
           /\ orders'[Len(orders) + 1].ro = ReduceOnly(call[c].req)
           /\ orders'[Len(orders) + 1].asked = o.qty /\ orders'[Len(orders) + 1].filled = f
           /\ orders'[Len(orders) + 1].ts = call[c].t
<1>1. PICK n : /\ orders' = Append(orders, n)
               /\ n = [coid |-> call[c].req.coid, print |-> Fingerprint(call[c].req),
                       ro |-> ReduceOnly(call[c].req), side |-> o.side, asked |-> o.qty, filled |-> f,
                       px |-> IF f = 0 THEN 0 ELSE call[c].book, ts |-> call[c].t]
  BY DEF Sent
<1>2. orders \in Seq(OrderRec) /\ orders' \in Seq(OrderRec)
  BY PlacedTyped DEF DeskTypes, OrderTypes
<1>3. Len(orders) \in Nat /\ DOMAIN orders = 1..Len(orders) /\ DOMAIN orders' = 1..Len(orders')
  BY <1>2, LenProperties
<1>4. /\ Len(orders') = Len(orders) + 1 /\ orders'[Len(orders) + 1] = n
      /\ \A i \in DOMAIN orders : orders'[i] = orders[i]
  BY <1>1, <1>2, <1>3
<1>5. /\ n.coid = call[c].req.coid /\ n.print = Fingerprint(call[c].req) /\ n.ro = ReduceOnly(call[c].req)
      /\ n.asked = o.qty /\ n.filled = f /\ n.ts = call[c].t
  BY <1>1
<1> QED BY <1>3, <1>4, <1>5

\* A call answered from the table has a row of its own id and its own request.
LEMMA StoredAnswer ==
    ASSUME DeskTypes, NEW r \in Request, Stored(r.coid) # {}
    PROVE  LET k == FromStored(r, Min(Stored(r.coid))) IN
           /\ k.at = "done" /\ k.req = r
           /\ k.row # 0 => k.row \in DOMAIN orders /\ orders[k.row].coid = r.coid
                           /\ orders[k.row].print = Fingerprint(r)
<1>1. PICK i : i = Min(Stored(r.coid))
  OBVIOUS
<1>2. i \in Stored(r.coid) /\ i \in DOMAIN orders
  BY <1>1, StoredRow DEF DeskTypes
<1>3. orders[i].coid = r.coid
  BY <1>2 DEF Stored
<1> QED BY <1>1, <1>2, <1>3, FromStoredTyped DEF DeskTypes

LEMMA OrdersKept == Spec => [](OneOrderPerId /\ RowsStored)
<1>1. Init => OneOrderPerId /\ RowsStored
  BY DEF Init, OneOrderPerId, RowsStored, Idle
<1>2. DeskTypes /\ OneOrderPerId /\ RowsStored /\ [Next]_vars => (OneOrderPerId /\ RowsStored)'
  <2> SUFFICES ASSUME DeskTypes, OneOrderPerId, RowsStored, [Next]_vars
               PROVE  (OneOrderPerId /\ RowsStored)'
    OBVIOUS
  <2>1. CASE orders' = orders /\ call' = call
    BY <2>1 DEF OneOrderPerId, RowsStored
  <2>2. ASSUME orders' = orders, NEW c \in Calls, \A d \in Calls : d # c => call'[d] = call[d],
               call'[c].row # 0 => /\ call'[c].at = "done" /\ call'[c].row \in DOMAIN orders
                                   /\ orders[call'[c].row].coid = call'[c].req.coid
                                   /\ orders[call'[c].row].print = Fingerprint(call'[c].req)
        PROVE  (OneOrderPerId /\ RowsStored)'
    <3>1. ASSUME NEW d \in Calls, call'[d].row # 0
          PROVE  /\ call'[d].at = "done" /\ call'[d].row \in DOMAIN orders
                 /\ orders[call'[d].row].coid = call'[d].req.coid
                 /\ orders[call'[d].row].print = Fingerprint(call'[d].req)
      <4>1. CASE d = c
        BY <2>2, <3>1, <4>1
      <4>2. CASE d # c
        BY <2>2, <3>1, <4>2 DEF OneOrderPerId, RowsStored
      <4> QED BY <4>1, <4>2
    <3> QED BY <2>2, <3>1 DEF OneOrderPerId, RowsStored
  <2>3. ASSUME orders' = orders, NEW c \in Calls, Begin(c) \/ Snapshot(c) \/ Accrue(c) \/ Arrive(c)
        PROVE  (OneOrderPerId /\ RowsStored)'
    <3>1. \A d \in Calls : d # c => call'[d] = call[d]
      BY <2>3, CallReadsOn
    <3>2. CASE call'[c].row = call[c].row /\ call[c].at # "done"
      BY <2>2, <2>3, <3>1, <3>2 DEF RowsStored
    <3>3. CASE call'[c].row = 0
      BY <2>2, <2>3, <3>1, <3>3
    <3>4. CASE \E r \in Request : Stored(r.coid) # {} /\ call'[c] = FromStored(r, Min(Stored(r.coid)))
      BY <2>2, <2>3, <3>1, <3>4, StoredAnswer
    <3> QED BY <2>3, <3>2, <3>3, <3>4, CallReadsOn
  <2>4. ASSUME orders' = orders, NEW c \in Calls,
               BeginRefused(c) \/ NoPosition(c) \/ PlaceStored(c) \/ PlaceDenied(c)
        PROVE  (OneOrderPerId /\ RowsStored)'
    <3>1. \A d \in Calls : d # c => call'[d] = call[d]
      BY <2>4, CallAnswered
    <3>2. CASE call'[c].row = 0
      BY <2>2, <2>4, <3>1, <3>2
    <3>3. CASE \E r \in Request : Stored(r.coid) # {} /\ call'[c] = FromStored(r, Min(Stored(r.coid)))
      BY <2>2, <2>4, <3>1, <3>3, StoredAnswer
    <3>4. ~PlaceSent(c)
      <4>1. ASSUME PlaceSent(c) PROVE FALSE
        <5>1. PICK in, a, o, f : Sent(c, in, a, o, f)
          BY <4>1, SentEffect
        <5>2. call[c].at = "ready"
          BY <4>1 DEF PlaceSent, MayJudge
        <5> QED BY <2>4, <5>1, <5>2, SentRow
      <4> QED BY <4>1
    <3> QED BY <2>4, <3>2, <3>3, <3>4, CallAnswered
  <2>5. ASSUME NEW c \in Calls, PlaceSent(c)
        PROVE  (OneOrderPerId /\ RowsStored)'
    <3>1. PICK in, a, o, f : Sent(c, in, a, o, f)
      BY <2>5, SentEffect
    <3>2. call[c].at = "ready" /\ Stored(call[c].req.coid) = {}
      BY <2>5, SentEffect DEF MayJudge
    <3>3. PICK n \in Nat : n = Len(orders) + 1 /\ DOMAIN orders = 1..(n - 1) /\ DOMAIN orders' = 1..n
                           /\ (\A i \in DOMAIN orders : orders'[i] = orders[i])
                           /\ orders'[n].coid = call[c].req.coid /\ orders'[n].print = Fingerprint(call[c].req)
      BY <3>1, <3>2, SentRow
    <3>4. \A i \in DOMAIN orders : orders[i].coid # call[c].req.coid
      BY <3>2 DEF Stored
    <3>5. ASSUME NEW i \in DOMAIN orders', NEW j \in DOMAIN orders', orders'[i].coid = orders'[j].coid
          PROVE  i = j
      <4>1. i \in DOMAIN orders \/ i = n
        BY <3>3
      <4>2. j \in DOMAIN orders \/ j = n
        BY <3>3
      <4> QED BY <3>3, <3>4, <3>5, <4>1, <4>2 DEF OneOrderPerId
    <3>6. /\ call'[c].row = n /\ call'[c].at = "done" /\ call'[c].req = call[c].req
          /\ \A d \in Calls : d # c => call'[d] = call[d]
      <4>1. call' = [call EXCEPT ![c] = Answer(call[c].req, n, "placed")] /\ call[c].req \in Request
        BY <2>5, <3>3, SentEffect
      <4>2. Answer(call[c].req, n, "placed").row = n /\ Answer(call[c].req, n, "placed").at = "done"
            /\ Answer(call[c].req, n, "placed").req = call[c].req
        BY <4>1, AnswerTyped
      <4> QED BY <4>1, <4>2 DEF DeskTypes, CallTypes
    <3>7. ASSUME NEW d \in Calls, call'[d].row # 0
          PROVE  /\ call'[d].at = "done" /\ call'[d].row \in DOMAIN orders'
                 /\ orders'[call'[d].row].coid = call'[d].req.coid
                 /\ orders'[call'[d].row].print = Fingerprint(call'[d].req)
      <4>1. CASE d = c
        BY <3>3, <3>6, <4>1
      <4>2. CASE d # c
        <5>1. call'[d] = call[d] /\ call[d].row \in DOMAIN orders /\ call[d].at = "done"
              /\ orders[call[d].row].coid = call[d].req.coid
              /\ orders[call[d].row].print = Fingerprint(call[d].req)
          BY <3>6, <3>7, <4>2 DEF OneOrderPerId, RowsStored
        <5> QED BY <3>3, <5>1
      <4> QED BY <4>1, <4>2
    <3> QED BY <3>5, <3>7 DEF OneOrderPerId, RowsStored
  <2> QED BY <2>1, <2>3, <2>4, <2>5, StepCases
<1> QED BY <1>1, <1>2, DeskTyped, PTL DEF Spec

\* However retries race, a client_order_id is placed once, and a call is
\* answered from the order of its own request: place_tx reads the id again in
\* the transaction that stores the order.
THEOREM OneOrder == Spec => []OneOrderPerId
<1> QED BY OrdersKept, PTL

-----------------------------------------------------------------------------
(* The rate of entries.                                                    *)

\* No clock in hand or stored is ahead of the clock.
Clocks ==
    /\ \A c \in Calls : call[c].t <= now
    /\ \A i \in DOMAIN orders : orders[i].ts <= now

\* The entries of the window that ends at t.
Windowed(t) ==
    {i \in DOMAIN orders : ~orders[i].ro /\ orders[i].ts > t - Window /\ orders[i].ts <= t}

\* The time never runs back.
LEMMA TimeMoves ==
    ASSUME DeskTypes, [Next]_vars
    PROVE  now \in Nat /\ now' \in {now, now + 1} /\ (now' # now => orders' = orders /\ call' = call)
<1>1. now \in Nat
  BY DEF DeskTypes, WorldTypes
<1>2. CASE Tick
  BY <1>1, <1>2 DEF Tick, ledger
<1>3. CASE now' = now
  BY <1>1, <1>3
<1> QED BY <1>2, <1>3 DEF Next, vars, Begin, BeginRefused, Snapshot, Accrue, NoPosition, Arrive, PlaceStored,
           PlaceDenied, PlaceSent, StatusRead, StatusCommit, RiskHalt, ResumeAsked, ResumeCommit, TouchFile, MoveMarket

\* A call's clock is its own, none, or the time.
LEMMA ClockRead ==
    ASSUME DeskTypes, [Next]_vars, NEW d \in Calls
    PROVE  call'[d].t \in {call[d].t, 0, now}
<1>0. call \in [Calls -> CallRec] /\ (\A c \in Calls : call[c] \in CallRec)
  BY DEF DeskTypes, CallTypes
<1>1. \A r, row, how : Answer(r, row, how).t = 0
  BY DEF Answer, Idle
<1>2. \A r, i : FromStored(r, i).t = 0
  BY <1>1 DEF FromStored
<1>3. CASE call' = call
  BY <1>3
<1>4. ASSUME NEW c \in Calls, NEW k, call' = [call EXCEPT ![c] = k], k.t \in {call[c].t, 0, now}
      PROVE  call'[d].t \in {call[d].t, 0, now}
  BY <1>0, <1>4
<1>5. ASSUME NEW c \in Calls, Begin(c) PROVE call'[d].t \in {call[d].t, 0, now}
  <2>1. PICK r, k :
          /\ call' = [call EXCEPT ![c] = k]
          /\ k = IF Stored(r.coid) = {} THEN [Idle EXCEPT !.at = "begun", !.req = r, !.t = now]
                 ELSE FromStored(r, Min(Stored(r.coid)))
    BY <1>5 DEF Begin
  <2>2. k.t \in {0, now}
    BY <1>2, <2>1 DEF Idle
  <2> QED BY <1>4, <2>1, <2>2
<1>6. ASSUME NEW c \in Calls, Snapshot(c) PROVE call'[d].t \in {call[d].t, 0, now}
  <2>1. PICK z, w : call' = [call EXCEPT ![c].held = acct.qty, ![c].mark = px, ![c].rate = z, ![c].at = w]
    BY <1>6 DEF Snapshot
  <2>2. call' = [call EXCEPT ![c] = [call[c] EXCEPT !.held = acct.qty, !.mark = px, !.rate = z, !.at = w]]
    BY <1>0, <2>1
  <2>3. [call[c] EXCEPT !.held = acct.qty, !.mark = px, !.rate = z, !.at = w].t = call[c].t
    BY <1>0 DEF CallRec
  <2> QED BY <1>4, <2>2, <2>3
<1>7. ASSUME NEW c \in Calls, Accrue(c) PROVE call'[d].t \in {call[d].t, 0, now}
  <2>1. call' = [call EXCEPT ![c] = [call[c] EXCEPT !.at = "rows"]]
    BY <1>0, <1>7 DEF Accrue
  <2>2. [call[c] EXCEPT !.at = "rows"].t = call[c].t
    BY <1>0 DEF CallRec
  <2> QED BY <1>4, <2>1, <2>2
<1>8. ASSUME NEW c \in Calls, Arrive(c) PROVE call'[d].t \in {call[d].t, 0, now}
  <2>1. PICK kill : call' = [call EXCEPT ![c] = [call[c] EXCEPT !.at = "ready", !.t = now, !.book = px, !.kill = kill]]
    BY <1>0, <1>8 DEF Arrive
  <2>2. [call[c] EXCEPT !.at = "ready", !.t = now, !.book = px, !.kill = kill].t = now
    BY <1>0 DEF CallRec
  <2> QED BY <1>4, <2>1, <2>2
<1>9. ASSUME NEW c \in Calls, BeginRefused(c) \/ NoPosition(c) \/ PlaceStored(c) \/ PlaceDenied(c) \/ PlaceSent(c)
      PROVE  call'[d].t \in {call[d].t, 0, now}
  <2>1. PICK k : call' = [call EXCEPT ![c] = k] /\ k.t = 0
    BY <1>1, <1>2, <1>9 DEF BeginRefused, NoPosition, PlaceStored, PlaceDenied, PlaceSent
  <2> QED BY <1>4, <2>1
<1> QED BY <1>3, <1>5, <1>6, <1>7, <1>8, <1>9, StepCases

\* A row of the order table.
LEMMA RowTyped ==
    ASSUME OrderTypes, NEW i \in DOMAIN orders
    PROVE  orders[i] \in OrderRec /\ orders[i].ts \in Nat
<1>1. orders[i] \in OrderRec
  BY DEF OrderTypes
<1> QED BY <1>1 DEF OrderRec

LEMMA ClocksStep == DeskTypes /\ Clocks /\ [Next]_vars => Clocks'
<1> SUFFICES ASSUME DeskTypes, Clocks, [Next]_vars PROVE Clocks'
  OBVIOUS
<1>0. now \in Nat /\ now' \in Nat /\ now <= now'
  BY TimeMoves
<1>1. ASSUME NEW d \in Calls PROVE call'[d].t <= now'
  <2>1. call[d].t \in Nat /\ call[d].t <= now
    BY DEF DeskTypes, CallTypes, CallRec, Clocks
  <2> QED BY <1>0, <2>1, ClockRead
<1>2. \A i \in DOMAIN orders : orders[i].ts \in Nat /\ orders[i].ts <= now
  BY RowTyped DEF DeskTypes, Clocks
<1>3. ASSUME NEW i \in DOMAIN orders' PROVE orders'[i].ts <= now'
  <2>1. CASE orders' = orders
    BY <1>0, <1>2, <1>3, <2>1
  <2>2. ASSUME NEW c \in Calls, PlaceSent(c) PROVE orders'[i].ts <= now'
    <3>1. PICK in, a, o, f : Sent(c, in, a, o, f)
      BY <2>2, SentEffect
    <3>2. call[c].at = "ready" /\ call[c].t \in Nat /\ call[c].t <= now
      BY <2>2, SentEffect DEF MayJudge, DeskTypes, CallTypes, CallRec, Clocks
    <3>3. i \in DOMAIN orders \/ i = Len(orders) + 1
      BY <3>1, <3>2, SentRow
    <3> QED BY <1>0, <1>2, <3>1, <3>2, <3>3, SentRow
  <2> QED BY <2>1, <2>2, StepCases
<1> QED BY <1>1, <1>3 DEF Clocks

\* Fewer rows, fewer entries.
LEMMA RowsCount ==
    ASSUME OrderTypes, NEW S \in SUBSET DOMAIN orders, NEW T \in SUBSET S
    PROVE  IsFiniteSet(S) /\ IsFiniteSet(T) /\ Cardinality(S) \in Nat /\ Cardinality(T) \in Nat
           /\ Cardinality(T) <= Cardinality(S)
<1>1. IsFiniteSet(DOMAIN orders)
  <2>1. DOMAIN orders = 1..Len(orders) /\ Len(orders) \in Nat
    BY DEF OrderTypes
  <2> QED BY <2>1, FS_Interval
<1> QED BY <1>1, FS_Subset, FS_CardinalityType

\* No window holds more than MaxOrders entries, although transactions commit
\* out of the order of their clocks: the gate counts every entry after the
\* window's start, later clocks than its own included, and the count is read
\* in the transaction that stores the order.
THEOREM EntriesCapped == Spec => []RateCap
<1>1. Init => Clocks /\ RateCap
  <2> SUFFICES ASSUME Init PROVE Clocks /\ RateCap
    OBVIOUS
  <2>1. DOMAIN orders = {} /\ MaxOrders \in Nat
    BY DeskAssumption DEF Init
  <2>2. RateCap
    <3>1. ASSUME NEW t \in 0..now PROVE Cardinality(Windowed(t)) <= MaxOrders
      <4>1. Windowed(t) = {}
        BY <2>1 DEF Windowed
      <4> QED BY <2>1, <4>1, FS_EmptySet
    <3> QED BY <3>1 DEF RateCap, Windowed
  <2>3. Clocks
    <3>1. \A c \in Calls : call[c].t = 0
      BY DEF Init, Idle
    <3> QED BY <2>1, <3>1, DeskAssumption DEF Init, Clocks
  <2> QED BY <2>2, <2>3
<1>2. DeskTypes /\ Clocks /\ RateCap /\ [Next]_vars => RateCap'
  <2> SUFFICES ASSUME DeskTypes, Clocks, RateCap, [Next]_vars PROVE RateCap'
    OBVIOUS
  <2>0. /\ now \in Nat /\ Window \in Nat \ {0} /\ MaxOrders \in Nat /\ OrderTypes
        /\ \A i \in DOMAIN orders : orders[i].ts \in Nat /\ orders[i].ts <= now
    BY DeskAssumption, RowTyped DEF DeskTypes, WorldTypes, Clocks
  <2>1. \A t \in 0..now : Cardinality(Windowed(t)) <= MaxOrders
    BY DEF RateCap, Windowed
  <2>2. CASE orders' = orders
    <3>1. ASSUME NEW t \in 0..now' PROVE Cardinality(Windowed(t)) <= MaxOrders
      <4>1. CASE t <= now
        BY <2>0, <2>1, <4>1, TimeMoves
      <4>2. CASE ~(t <= now)
        <5>1. t = now + 1
          BY <2>0, <4>2, TimeMoves
        <5>2. Windowed(t) \subseteq Windowed(now)
          <6>1. ASSUME NEW i \in DOMAIN orders, orders[i].ts > t - Window PROVE orders[i].ts > now - Window
            BY <2>0, <5>1, <6>1
          <6> QED BY <2>0, <6>1 DEF Windowed
        <5>3. Windowed(now) \subseteq DOMAIN orders
          BY DEF Windowed
        <5>4. Cardinality(Windowed(now)) \in Nat /\ Cardinality(Windowed(t)) \in Nat
              /\ Cardinality(Windowed(t)) <= Cardinality(Windowed(now))
          BY <2>0, <5>2, <5>3, RowsCount
        <5> QED BY <2>0, <2>1, <5>4
      <4> QED BY <4>1, <4>2
    <3> QED BY <2>2, <3>1 DEF RateCap, Windowed
  <2>3. ASSUME NEW c \in Calls, PlaceSent(c) PROVE RateCap'
    <3>1. PICK in, a, o, f : Sent(c, in, a, o, f)
      BY <2>3, SentEffect
    <3>2. call[c].at = "ready" /\ call[c].t \in Nat /\ now' = now
      BY <2>3, SentEffect DEF MayJudge, DeskTypes, CallTypes, CallRec, PlaceSent
    <3>3. PICK n \in Nat : n = Len(orders) + 1 /\ DOMAIN orders = 1..(n - 1) /\ DOMAIN orders' = 1..n
                           /\ (\A i \in DOMAIN orders : orders'[i] = orders[i])
                           /\ orders'[n].ts = call[c].t /\ orders'[n].ro = ReduceOnly(call[c].req)
      BY <3>1, <3>2, SentRow
    <3>4. ASSUME NEW t \in 0..now
          PROVE  Cardinality({i \in DOMAIN orders' : ~orders'[i].ro /\ orders'[i].ts > t - Window
                                                     /\ orders'[i].ts <= t}) <= MaxOrders
      <4>1. PICK S : S = {i \in DOMAIN orders' : ~orders'[i].ro /\ orders'[i].ts > t - Window
                                                 /\ orders'[i].ts <= t}
        OBVIOUS
      <4>2. CASE n \notin S
        <5>1. \A i \in S : i \in DOMAIN orders
          BY <3>3, <4>1, <4>2
        <5>2. S = Windowed(t)
          BY <3>3, <4>1, <4>2, <5>1 DEF Windowed
        <5> QED BY <2>1, <4>1, <5>2
      <4>3. CASE n \in S
        <5>1. ~ReduceOnly(call[c].req) /\ call[c].t > t - Window /\ call[c].t <= t
          BY <3>3, <4>1, <4>3
        <5>2. RecentEntries(call[c].t) < MaxOrders
          BY <3>1, <5>1 DEF Sent, EntryAllowed, Reduces
        <5>3. PICK R : R = {i \in DOMAIN orders : ~orders[i].ro /\ orders[i].ts > call[c].t - Window}
          OBVIOUS
        <5>4. Cardinality(R) < MaxOrders
          BY <5>2, <5>3 DEF RecentEntries
        <5>5. S \ {n} \subseteq R
          <6>1. ASSUME NEW i \in S, i # n PROVE i \in R
            <7>1. i \in DOMAIN orders /\ orders'[i] = orders[i]
              BY <3>3, <4>1, <6>1
            <7>2. ~orders[i].ro /\ orders[i].ts > t - Window
              BY <4>1, <6>1, <7>1
            <7>3. orders[i].ts > call[c].t - Window
              BY <2>0, <3>2, <5>1, <7>1, <7>2
            <7> QED BY <5>3, <7>1, <7>2, <7>3
          <6> QED BY <6>1
        <5>6. Cardinality(R) \in Nat /\ Cardinality(S \ {n}) \in Nat /\ Cardinality(S \ {n}) <= Cardinality(R)
              /\ IsFiniteSet(S \ {n})
          <6>1. R \subseteq DOMAIN orders
            BY <5>3
          <6> QED BY <2>0, <5>5, <6>1, RowsCount
        <5>7. S = (S \ {n}) \cup {n} /\ n \notin S \ {n}
          BY <4>3
        <5>8. Cardinality(S) = Cardinality(S \ {n}) + 1
          BY <5>6, <5>7, FS_AddElement
        <5> QED BY <2>0, <4>1, <5>4, <5>6, <5>8
      <4> QED BY <4>2, <4>3
    <3> QED BY <3>2, <3>4 DEF RateCap
  <2> QED BY <2>2, <2>3, StepCases
<1>3. DeskTypes /\ Clocks /\ [Next]_vars => Clocks'
  BY ClocksStep
<1> QED BY <1>1, <1>2, <1>3, DeskTyped, PTL DEF Spec

-----------------------------------------------------------------------------
(* The position's size.                                                    *)

\* Only a sent order moves the position or its deadline.
LEMMA AcctKept ==
    ASSUME DeskTypes, [Next]_vars, ~ \E c \in Calls : PlaceSent(c)
    PROVE  acct'.qty = acct.qty /\ acct'.exitAt = acct.exitAt /\ orders' = orders
<1>1. orders' = orders
  BY StepCases
<1>2. ASSUME NEW c \in Calls, Accrue(c) PROVE acct'.qty = acct.qty /\ acct'.exitAt = acct.exitAt
  <2>1. acct' = Settled(acct, owed, TRUE, call[c].t).acct
    BY <1>2 DEF Accrue
  <2> QED BY <2>1, SettledKeeps DEF DeskTypes
<1>3. ASSUME NEW c \in Calls, PlaceDenied(c) PROVE acct'.qty = acct.qty /\ acct'.exitAt = acct.exitAt
  <2>1. PICK in : acct' = Judged(c, in).settled.acct
    BY <1>3 DEF PlaceDenied
  <2> QED BY <2>1, JudgedWrites
<1>4. ASSUME NEW c \in Calls, Begin(c) \/ BeginRefused(c) \/ Snapshot(c) \/ NoPosition(c) \/ Arrive(c) \/ PlaceStored(c)
      PROVE  acct' = acct
  BY <1>4 DEF Begin, BeginRefused, Snapshot, NoPosition, Arrive, PlaceStored, ledger
<1>5. CASE UNCHANGED vars \/ StatusRead \/ StatusCommit \/ TouchFile \/ RiskHalt \/ ResumeAsked \/ ResumeCommit
           \/ MoveMarket \/ Tick
  <2>1. acct' = acct
    BY <1>5 DEF vars, StatusRead, StatusCommit, TouchFile, RiskHalt, ResumeAsked, ResumeCommit, MoveMarket, Tick, ledger
  <2> QED BY <1>1, <2>1
<1> QED BY <1>1, <1>2, <1>3, <1>4, <1>5 DEF Next

LEMMA ProductMonotone ==
    ASSUME NEW x \in Nat, NEW y \in Nat, NEW m \in Nat, NEW p \in Nat, x <= y, m <= p
    PROVE  x * m <= y * m /\ x * m <= x * p /\ x * m \in Nat /\ y * m \in Nat /\ x * p \in Nat
  OBVIOUS

\* A partial fill leaves the position between where it was and where a full
\* fill would have taken it.
LEMMA FillBetween ==
    ASSUME NEW q \in Int, NEW s \in {-1, 0, 1}, NEW n \in Nat, NEW f \in 0..n
    PROVE  /\ q + s * f \in Int /\ q + s * n \in Int
           /\ Abs(q + s * f) <= Abs(q) \/ Abs(q + s * f) <= Abs(q + s * n)
<1>1. CASE s = 1
  BY <1>1 DEF Abs
<1>2. CASE s = -1
  <2>1. s * f = -f /\ s * n = -n
    BY <1>2
  <2> QED BY <2>1 DEF Abs
<1>3. CASE s = 0
  BY <1>3 DEF Abs
<1> QED BY <1>1, <1>2, <1>3

\* An order that reduces takes the position towards zero and no further.
LEMMA ReduceShrinks ==
    ASSUME NEW q \in Int, q # 0, NEW n \in 1..Abs(q), NEW f \in 0..n
    PROVE  /\ Abs(q + (-Sign(q)) * f) <= Abs(q)
           /\ q * (q + (-Sign(q)) * f) >= 0
           /\ f = Abs(q) => q + (-Sign(q)) * f = 0
<1>0. Abs(q) \in Nat /\ f \in Nat /\ f <= Abs(q)
  BY SignOf
<1>1. CASE q > 0
  <2>1. -Sign(q) = -1 /\ Abs(q) = q
    BY <1>1, SignOf
  <2>2. q + (-Sign(q)) * f = q - f /\ q - f \in Nat
    BY <1>0, <1>1, <2>1
  <2>3. Abs(q - f) = q - f
    BY <2>2 DEF Abs
  <2>4. q * (q - f) >= 0
    <3>1. q \in Nat /\ q - f \in Nat
      BY <1>1, <2>2
    <3> QED BY <3>1
  <2> QED BY <1>0, <2>1, <2>2, <2>3, <2>4
<1>2. CASE q < 0
  <2>1. -Sign(q) = 1 /\ Abs(q) = -q
    BY <1>2, SignOf
  <2>2. q + (-Sign(q)) * f = q + f /\ q + f <= 0 /\ q + f \in Int
    BY <1>0, <1>2, <2>1
  <2>3. Abs(q + f) = -(q + f)
    BY <2>2 DEF Abs
  <2>4. q * (q + f) >= 0
    <3>1. PICK x \in Nat : x = -q
      BY <1>2
    <3>2. PICK y \in Nat : y = -(q + f)
      BY <2>2
    <3>3. q = -x /\ q + f = -y
      BY <3>1, <3>2, <2>2
    <3>4. q * (q + f) = x * y /\ x * y \in Nat
      BY <3>3
    <3> QED BY <3>4
  <2> QED BY <1>0, <2>1, <2>2, <2>3, <2>4
<1> QED BY <1>1, <1>2

\* Concurrent entries never take the position past the cap at the lowest
\* price it can have been judged at: place_tx judges the size stored, at the
\* mark or at the book, and a fill is never larger than the order judged.
THEOREM PositionCapped == Spec => []PositionCap
<1> DEFINE m == Min(Prices)
<1>0. m \in Nat /\ (\A p \in Prices : p \in Nat /\ m <= p) /\ MaxNotional \in Nat
  <2>1. Prices \in SUBSET Nat /\ Prices # {} /\ MaxNotional \in Nat
    BY DeskAssumption
  <2> QED BY <2>1, MinIsIn
<1> HIDE DEF m
<1>1. Init => PositionCap
  <2> SUFFICES ASSUME Init PROVE PositionCap
    OBVIOUS
  <2>1. Abs(acct.qty) = 0
    BY DEF Init, Flat, Abs
  <2> QED BY <1>0, <2>1 DEF PositionCap, m
<1>2. DeskTypes /\ PositionCap /\ [Next]_vars => PositionCap'
  <2> SUFFICES ASSUME DeskTypes, PositionCap, [Next]_vars PROVE PositionCap'
    OBVIOUS
  <2>0. acct.qty \in Int /\ Abs(acct.qty) \in Nat /\ Abs(acct.qty) * m <= MaxNotional
    BY SignOf DEF DeskTypes, AcctTypes, PositionCap, m
  <2>1. CASE ~ \E c \in Calls : PlaceSent(c)
    BY <2>0, <2>1, AcctKept DEF PositionCap, m
  <2>2. ASSUME NEW c \in Calls, PlaceSent(c) PROVE PositionCap'
    <3>1. PICK in, a, o, f : Sent(c, in, a, o, f)
      BY <2>2, SentEffect
    <3>2. /\ a.qty = acct.qty /\ o.side \in {-1, 0, 1} /\ o.qty \in Nat /\ f \in 0..o.qty
          /\ acct'.qty = acct.qty + o.side * f
      BY <3>1 DEF Sent
    <3>3. acct'.qty \in Int /\ Abs(acct'.qty) \in Nat
      BY <2>0, <3>2, FillBetween, SignOf
    <3>4. SUFFICES Abs(acct'.qty) * m <= MaxNotional
      BY DEF PositionCap, m
    <3>5. CASE Abs(acct'.qty) <= Abs(acct.qty)
      BY <1>0, <2>0, <3>3, <3>5, ProductMonotone
    <3>6. CASE Reduces(c, a, o)
      <4>1. acct.qty # 0 /\ o.side = -Sign(acct.qty) /\ o.qty \in 1..Abs(acct.qty)
        BY <3>2, <3>6 DEF Reduces
      <4> QED BY <2>0, <3>2, <3>5, <4>1, ReduceShrinks
    <3>7. ASSUME NEW rolled, NEW equity,
                 EntryAllowed(c, a, o, in, EitherProbe(call[c].kill, in.inside), rolled, equity),
                 equity = Equity(a, in.mark)
          PROVE  Abs(acct'.qty) * m <= MaxNotional
      <4>1. PICK p : p = IF a.qty = 0 THEN call[c].book ELSE in.mark
        OBVIOUS
      <4>2. p \in Prices
        <5>1. call[c].book \in Prices /\ call[c].mark \in Prices \cup {None}
          BY <2>2, SentEffect DEF MayJudge, DeskTypes, CallTypes, CallRec
        <5>2. in.mark \in {call[c].mark, None}
          BY <3>1 DEF Sent, Inputs
        <5>3. a.qty # 0 => in.mark # None
          BY <3>7 DEF EntryAllowed, Equity
        <5> QED BY <4>1, <5>1, <5>2, <5>3
      <4>3. PICK n \in Int : n = acct.qty + o.side * o.qty
        BY <2>0, <3>2, FillBetween
      <4>4. Abs(n) * p <= MaxNotional /\ Abs(n) \in Nat
        BY <3>2, <3>7, <4>1, <4>3, SignOf DEF EntryAllowed, ExposureOk
      <4>5. CASE Abs(acct'.qty) <= Abs(n)
        <5>1. p \in Nat /\ m <= p
          BY <1>0, <4>2
        <5>2. Abs(acct'.qty) * m <= Abs(n) * m /\ Abs(n) * m <= Abs(n) * p
              /\ Abs(acct'.qty) * m \in Nat /\ Abs(n) * m \in Nat /\ Abs(n) * p \in Nat
          BY <1>0, <3>3, <4>4, <4>5, <5>1, ProductMonotone
        <5> QED BY <1>0, <4>4, <5>2
      <4> QED BY <2>0, <3>2, <3>5, <4>3, <4>5, FillBetween
    <3> QED BY <3>1, <3>6, <3>7 DEF Sent
  <2> QED BY <2>1, <2>2
<1> QED BY <1>1, <1>2, DeskTyped, PTL DEF Spec

-----------------------------------------------------------------------------
(* What one step may never do.                                             *)

\* A new row of the order table is a sent order's.
LEMMA NewOrderSent ==
    ASSUME DeskTypes, [Next]_vars, NewOrder
    PROVE  \E c, in, a, o, f :
             /\ c \in Calls /\ PlaceSent(c) /\ Sent(c, in, a, o, f) /\ call[c].req \in Request
             /\ orders'[Len(orders')].ro = ReduceOnly(call[c].req)
             /\ orders'[Len(orders')].print = Fingerprint(call[c].req)
             /\ orders'[Len(orders')].asked = o.qty /\ orders'[Len(orders')].filled = f
<1>1. Len(orders) \in Nat
  BY DEF DeskTypes, OrderTypes
<1>2. orders' # orders
  BY <1>1 DEF NewOrder
<1>3. PICK c \in Calls : PlaceSent(c)
  BY <1>2, StepCases
<1>4. PICK in, a, o, f : Sent(c, in, a, o, f)
  BY <1>3, SentEffect
<1>5. call[c].at = "ready" /\ call[c].req \in Request
  BY <1>3, SentEffect DEF MayJudge
<1>6. /\ orders'[Len(orders')].ro = ReduceOnly(call[c].req)
      /\ orders'[Len(orders')].print = Fingerprint(call[c].req)
      /\ orders'[Len(orders')].asked = o.qty /\ orders'[Len(orders')].filled = f
  BY <1>4, <1>5, SentRow
<1> QED BY <1>3, <1>4, <1>5, <1>6

\* A halt holds: no entry is stored while the kill-switch file exists or a
\* sticky halt is recorded, and a sticky halt ends only by `tengu risk
\* resume' with the file gone.  The file is probed again, and the stored halt
\* read, in the transaction that stores the order.
THEOREM HaltStands == Spec => HaltHolds
<1>1. ASSUME DeskTypes, [Next]_vars, NewOrder, ~orders'[Len(orders')].ro
      PROVE  ~file /\ risk.reason \notin Sticky
  <2>1. PICK c, in, a, o, f : c \in Calls /\ Sent(c, in, a, o, f) /\ ~ReduceOnly(call[c].req)
    BY <1>1, NewOrderSent
  <2>2. PICK rolled, equity :
          /\ EntryAllowed(c, a, o, in, EitherProbe(call[c].kill, in.inside), rolled, equity)
          /\ rolled = Roll(risk, call[c].t, equity)
    BY <2>1 DEF Sent, Reduces
  <2>3. in.inside = "absent" /\ in.inside \in ProbeOf(file)
    <3>1. in.inside \in ProbeOf(file)
      BY <2>1 DEF Sent, Inputs
    <3>2. EitherProbe(call[c].kill, in.inside) = "absent"
      BY <2>2 DEF EntryAllowed
    <3>3. in.inside \notin {"present", "unknown"}
      BY <3>2 DEF EitherProbe
    <3> QED BY <3>1, <3>3 DEF ProbeOf
  <2>4. ~file
    BY <2>3 DEF ProbeOf
  <2>5. EffectiveHalt(Roll(risk, call[c].t, equity), call[c].t) = None
    BY <2>2 DEF EntryAllowed
  <2>6. risk.reason \notin Sticky
    <3>1. ASSUME risk.reason \in Sticky PROVE risk.reason = None
      BY <1>1, <2>5, <3>1, RolledTrip DEF DeskTypes
    <3>2. None \notin Sticky
      BY DeskAssumption DEF Reasons
    <3> QED BY <3>1, <3>2
  <2> QED BY <2>4, <2>6
<1>2. ASSUME DeskTypes, Next, risk.reason \in Sticky, risk'.reason # risk.reason
      PROVE  console = "typing" /\ ~file /\ risk'.reason = None
  <2>1. ASSUME NEW c \in Calls, PlaceDenied(c) \/ PlaceSent(c) PROVE FALSE
    <3>1. PICK in \in Inputs(c) : risk' = Judged(c, in).risk
      BY <2>1 DEF PlaceDenied, PlaceSent, Judges
    <3> QED BY <1>2, <3>1, JudgedWrites
  <2>2. ASSUME NEW c \in Calls, Begin(c) \/ BeginRefused(c) \/ Snapshot(c) \/ Accrue(c) \/ NoPosition(c) \/ Arrive(c)
                                \/ PlaceStored(c)
        PROVE  FALSE
    BY <1>2, <2>2 DEF Begin, BeginRefused, Snapshot, Accrue, NoPosition, Arrive, PlaceStored
  <2>3. CASE StatusCommit
    <3>1. PICK mark, equity, rolled :
            /\ rolled = Roll(risk, status.t, equity)
            /\ risk' = Trip(rolled, TripsOf(status.kill, rolled, equity), status.t)
      BY <2>3 DEF StatusCommit
    <3> QED BY <1>2, <3>1, RolledTrip DEF DeskTypes
  <2>4. CASE RiskHalt
    <3>1. risk' = Trip(risk, {"operator"}, now)
      BY <2>4 DEF RiskHalt
    <3> QED BY <1>2, <3>1, StickyStands DEF DeskTypes, RiskTypes
  <2>5. CASE ResumeCommit
    <3>1. PICK typed \in BOOLEAN, kill \in ProbeOf(file) :
            risk' = IF typed /\ kill = "absent" THEN [risk EXCEPT !.reason = None, !.since = 0] ELSE risk
      BY <2>5 DEF ResumeCommit
    <3>2. kill = "absent" /\ risk' = [risk EXCEPT !.reason = None, !.since = 0]
      BY <1>2, <3>1
    <3>3. ~file
      BY <3>1, <3>2 DEF ProbeOf
    <3>4. risk'.reason = None
      BY <1>2, <3>2 DEF DeskTypes, RiskTypes
    <3> QED BY <2>5, <3>3, <3>4 DEF ResumeCommit
  <2>6. CASE StatusRead \/ TouchFile \/ ResumeAsked \/ MoveMarket \/ Tick
    BY <1>2, <2>6 DEF StatusRead, TouchFile, ResumeAsked, MoveMarket, Tick
  <2> QED BY <1>2, <2>1, <2>2, <2>3, <2>4, <2>5, <2>6 DEF Next
<1>3. DeskTypes /\ [Next]_vars =>
        [/\ NewOrder /\ ~orders'[Len(orders')].ro => ~file /\ risk.reason \notin Sticky
         /\ risk.reason \in Sticky /\ risk'.reason # risk.reason
              => console = "typing" /\ ~file /\ risk'.reason = None]_vars
  BY <1>1, <1>2
<1> QED BY <1>3, DeskTyped, PTL DEF Spec, HaltHolds

\* With allow_reduce_degraded a close judged on an open position is sent,
\* whatever the halts, the kill switch, the losses and the rates: the order
\* is sized from the position read in the transaction, so it always reduces.
THEOREM ExitsSent == Spec => ExitsGoOut
<1>1. ASSUME DeskTypes, Next, NEW c \in Calls, Degraded, call[c].at = "ready", call[c].req.close, acct.qty # 0,
             call'[c].at = "done", call'[c].how \notin {"replayed", "conflict"}
      PROVE  NewOrder
  <2>1. ASSUME NEW d \in Calls, PlaceSent(d) PROVE NewOrder
    <3>1. PICK in, a, o, f : Sent(d, in, a, o, f)
      BY <1>1, <2>1, SentEffect
    <3>2. call[d].at = "ready"
      BY <1>1, <2>1, SentEffect DEF MayJudge
    <3> QED BY <1>1, <3>1, <3>2, SentRow DEF NewOrder
  <2>2. CASE call' = call
    BY <1>1, <2>2
  <2>3. ASSUME NEW d \in Calls, Begin(d) \/ Snapshot(d) \/ Accrue(d) \/ Arrive(d) PROVE FALSE
    <3>1. d # c
      BY <1>1, <2>3 DEF Begin, Snapshot, Accrue, Arrive
    <3> QED BY <1>1, <2>3, <3>1, CallReadsOn
  <2>4. ASSUME NEW d \in Calls, BeginRefused(d) \/ NoPosition(d) \/ PlaceStored(d) \/ PlaceDenied(d), d # c PROVE FALSE
    BY <1>1, <2>4, CallAnswered
  <2>5. ASSUME BeginRefused(c) \/ NoPosition(c) \/ PlaceStored(c) PROVE FALSE
    BY <1>1, <2>5, CallAnswered DEF BeginRefused, NoPosition
  <2>6. ASSUME PlaceDenied(c) PROVE FALSE
    <3>1. PICK in, j :
            /\ j = Judged(c, in)
            /\ ~j.allow \/ OthersMayDeny(c, j.settled.acct, j.order)
      BY <2>6 DEF PlaceDenied
    <3>2. PICK a : a = Settled(acct, owed, call[c].rate, call[c].t).acct
      OBVIOUS
    <3>3. a.qty = acct.qty /\ acct.qty \in Int /\ call[c].req \in Request
      BY <1>1, <3>2, SettledKeeps DEF DeskTypes, AcctTypes, CallTypes
    <3>4. PICK o : o = OrderOf(c, a)
      OBVIOUS
    <3>5. o.side = -Sign(a.qty) /\ o.qty = Abs(a.qty)
      BY <1>1, <3>3, <3>4, OrderTyped DEF DeskTypes
    <3>6. Reduces(c, a, o)
      <4>1. Abs(a.qty) \in 1..Abs(a.qty)
        BY <1>1, <3>3 DEF Abs
      <4> QED BY <1>1, <3>3, <3>5, <4>1 DEF Reduces, ReduceOnly
    <3>7. PICK kill, rolled, equity :
            /\ j.settled.acct = a /\ j.order = o
            /\ j.allow <=> \/ EntryAllowed(c, a, o, in, kill, rolled, equity)
                           \/ ExitAllowed(c, a, o, in, kill, rolled)
      BY <3>1, <3>2, <3>4 DEF Judged
    <3>8. j.allow
      BY <1>1, <3>6, <3>7 DEF ExitAllowed
    <3> QED BY <1>1, <3>1, <3>6, <3>7, <3>8 DEF OthersMayDeny
  <2> QED BY <1>1, <2>1, <2>2, <2>3, <2>4, <2>5, <2>6, StepCases
<1>2. DeskTypes /\ [Next]_vars =>
        [\A c \in Calls :
           Degraded /\ call[c].at = "ready" /\ call[c].req.close /\ acct.qty # 0
             /\ call'[c].at = "done" /\ call'[c].how \notin {"replayed", "conflict"}
           => NewOrder]_vars
  BY <1>1
<1> QED BY <1>2, DeskTyped, PTL DEF Spec, ExitsGoOut

\* A reduce-only order neither grows nor flips the position, and a close that
\* fills leaves it flat, whatever others did to it since the call began.
THEOREM ReducesOnly == Spec => CloseCloses
<1>1. ASSUME DeskTypes, [Next]_vars, NewOrder, orders'[Len(orders')].ro
      PROVE  /\ acct.qty * acct'.qty >= 0 /\ Abs(acct'.qty) <= Abs(acct.qty)
             /\ orders'[Len(orders')].print.close /\ orders'[Len(orders')].filled = orders'[Len(orders')].asked
                  => acct'.qty = 0
  <2>1. PICK c, in, a, o, f :
          /\ c \in Calls /\ Sent(c, in, a, o, f) /\ ReduceOnly(call[c].req) /\ call[c].req \in Request
          /\ orders'[Len(orders')].print = Fingerprint(call[c].req)
          /\ orders'[Len(orders')].asked = o.qty /\ orders'[Len(orders')].filled = f
    BY <1>1, NewOrderSent
  <2>2. Reduces(c, a, o)
    BY <2>1 DEF Sent, EntryAllowed
  <2>3. /\ acct.qty \in Int /\ acct.qty # 0 /\ o.side = -Sign(acct.qty) /\ o.qty \in 1..Abs(acct.qty)
        /\ f \in 0..o.qty /\ acct'.qty = acct.qty + o.side * f /\ a.qty = acct.qty /\ o = OrderOf(c, a)
    BY <1>1, <2>1, <2>2 DEF Sent, Reduces, DeskTypes, AcctTypes
  <2>4. /\ Abs(acct'.qty) <= Abs(acct.qty) /\ acct.qty * acct'.qty >= 0
        /\ f = Abs(acct.qty) => acct'.qty = 0
    BY <2>3, ReduceShrinks
  <2>5. ASSUME orders'[Len(orders')].print.close, orders'[Len(orders')].filled = orders'[Len(orders')].asked
        PROVE  f = Abs(acct.qty)
    <3>1. call[c].req.close
      BY <2>1, <2>5 DEF Fingerprint
    <3> QED BY <2>1, <2>3, <2>5, <3>1 DEF OrderOf
  <2> QED BY <2>4, <2>5
<1>2. DeskTypes /\ [Next]_vars =>
        [NewOrder /\ orders'[Len(orders')].ro =>
         /\ acct.qty * acct'.qty >= 0 /\ Abs(acct'.qty) <= Abs(acct.qty)
         /\ orders'[Len(orders')].print.close /\ orders'[Len(orders')].filled = orders'[Len(orders')].asked
              => acct'.qty = 0]_vars
  BY <1>1
<1> QED BY <1>2, DeskTyped, PTL DEF Spec, CloseCloses

\* While a position stays open its exit deadline is neither dropped nor moved
\* later: a fill that keeps the side keeps the earlier of the two.
THEOREM DeadlineStands == Spec => DeadlineKept
<1>1. ASSUME DeskTypes, [Next]_vars, acct.qty * acct'.qty > 0, acct.exitAt # None
      PROVE  acct'.exitAt # None /\ acct'.exitAt <= acct.exitAt
  <2>0. acct.qty \in Int /\ acct.exitAt \in Nat /\ None \notin Int
    BY <1>1, DeskAssumption DEF DeskTypes, AcctTypes
  <2>1. CASE ~ \E c \in Calls : PlaceSent(c)
    BY <1>1, <2>0, <2>1, AcctKept
  <2>2. ASSUME NEW c \in Calls, PlaceSent(c)
        PROVE  acct'.exitAt # None /\ acct'.exitAt <= acct.exitAt
    <3>1. PICK in, a, o, f : Sent(c, in, a, o, f)
      BY <1>1, <2>2, SentEffect
    <3>2. CASE f = 0 /\ acct'.exitAt = acct.exitAt
      BY <2>0, <3>2
    <3>3. ASSUME NEW b, b.qty = acct'.qty, acct'.exitAt = ExitDeadline(a, b, call[c].req.exitAt)
          PROVE  acct'.exitAt # None /\ acct'.exitAt <= acct.exitAt
      <4>1. /\ a.qty = acct.qty /\ a.exitAt = acct.exitAt /\ acct'.qty \in Int
            /\ call[c].req.exitAt \in Nat \cup {None}
        <5>1. call[c].req \in Request
          BY <1>1, <2>2, SentEffect
        <5>2. o.side \in {-1, 0, 1} /\ o.qty \in Nat /\ f \in 0..o.qty /\ acct'.qty = acct.qty + o.side * f
          BY <3>1 DEF Sent
        <5> QED BY <2>0, <3>1, <5>1, <5>2, FillBetween DEF Sent, Request
      <4>2. acct'.qty # 0 /\ Sign(acct.qty) = Sign(acct'.qty)
        <5>1. (acct.qty > 0 /\ acct'.qty > 0) \/ (acct.qty < 0 /\ acct'.qty < 0)
          BY <1>1, <2>0, <4>1
        <5> QED BY <2>0, <4>1, <5>1 DEF Sign
      <4>3. PICK x \in Nat : x = acct.exitAt
        BY <2>0
      <4>4. PICK y \in Nat \cup {None} : y = call[c].req.exitAt
        BY <4>1
      <4>5. acct'.exitAt \in {x, IF y = None THEN x ELSE Earlier(x, y)}
        BY <2>0, <3>3, <4>1, <4>2, <4>3, <4>4 DEF ExitDeadline
      <4>6. y # None => Earlier(x, y) \in Nat /\ Earlier(x, y) <= x
        BY DEF Earlier
      <4> QED BY <2>0, <4>3, <4>5, <4>6
    <3> QED BY <3>1, <3>2, <3>3 DEF Sent
  <2> QED BY <2>1, <2>2
<1>2. DeskTypes /\ [Next]_vars =>
        [acct.qty * acct'.qty > 0 /\ acct.exitAt # None
           => acct'.exitAt # None /\ acct'.exitAt <= acct.exitAt]_vars
  BY <1>1
<1> QED BY <1>2, DeskTyped, PTL DEF Spec, DeadlineKept

-----------------------------------------------------------------------------
(* Funding hours.                                                          *)

FundRec == [hour: Nat, qty: Int]

LEMMA MultipleOf ==
    ASSUME NEW H \in Nat \ {0}, NEW h \in Nat, h % H = 0
    PROVE  \E q \in Nat : h = q * H
<1>1. h \div H \in Nat /\ h = (h \div H) * H
  OBVIOUS
<1> QED BY <1>1

LEMMA MultipleMod ==
    ASSUME NEW H \in Nat \ {0}, NEW q \in Nat
    PROVE  q * H \in Nat /\ (q * H) % H = 0
  OBVIOUS

LEMMA MultipleOrder ==
    ASSUME NEW H \in Nat \ {0}, NEW p \in Nat, NEW q \in Nat
    PROVE  /\ p < q => p * H + H <= q * H
           /\ p <= q => p * H <= q * H
           /\ p * H <= q * H => p <= q
  OBVIOUS

\* The greatest number of a bounded set of naturals is one of them.
LEMMA MaxIsIn ==
    ASSUME NEW t \in Nat, NEW S \in SUBSET (0..t), S # {}
    PROVE  Max(S) \in S /\ \A y \in S : y <= Max(S)
<1>1. PICK D : D = {t - y : y \in S}
  OBVIOUS
<1>2. D \in SUBSET Nat /\ D # {}
  <2>1. ASSUME NEW y \in S PROVE t - y \in Nat
    OBVIOUS
  <2>2. PICK y : y \in S
    OBVIOUS
  <2>3. t - y \in D
    BY <1>1, <2>2
  <2> QED BY <1>1, <2>1, <2>3
<1>3. Min(D) \in D /\ \A d \in D : Min(D) <= d
  BY <1>2, MinIsIn
<1>4. PICK x \in S : Min(D) = t - x
  BY <1>1, <1>3
<1>5. ASSUME NEW y \in S PROVE y <= x
  <2>1. t - y \in D
    BY <1>1
  <2>2. t - x <= t - y /\ x \in Nat /\ y \in Nat
    BY <1>3, <1>4, <2>1
  <2> QED BY <2>2
<1> QED BY <1>5 DEF Max

\* The due hours are the multiples of an hour from the first to the last.
LEMMA DueProgression ==
    ASSUME NEW a, NEW t \in Nat, a.qty # 0, a.opened \in Nat, a.lastHour \in Nat \cup {None},
           DueHours(a, t) # {}
    PROVE  \E p, q \in Nat :
             /\ p <= q /\ Min(DueHours(a, t)) = p * Hour /\ Max(DueHours(a, t)) = q * Hour
             /\ Cardinality(DueHours(a, t)) = q - p + 1
             /\ \A i \in p..q : i * Hour \in DueHours(a, t)
<1>0. Hour \in Nat \ {0} /\ None \notin Int
  BY DeskAssumption
<1>1. PICK due : due = DueHours(a, t)
  OBVIOUS
<1>2. due \subseteq 0..t /\ due \in SUBSET Nat /\ due # {}
  BY <1>1 DEF DueHours
<1>3. PICK lo : lo = Min(due) /\ lo \in due /\ \A y \in due : lo <= y
  BY <1>2, MinIsIn
<1>4. PICK hi : hi = Max(due) /\ hi \in due /\ \A y \in due : y <= hi
  BY <1>2, MaxIsIn
<1>5. \A h \in due : h \in Nat /\ h % Hour = 0
  BY <1>1, <1>2 DEF DueHours
<1>6. PICK p \in Nat : lo = p * Hour
  BY <1>0, <1>3, <1>5, MultipleOf
<1>7. PICK q \in Nat : hi = q * Hour
  BY <1>0, <1>4, <1>5, MultipleOf
<1>8. p <= q
  BY <1>0, <1>3, <1>4, <1>6, <1>7, MultipleOrder
<1>9. ASSUME NEW i \in p..q PROVE i * Hour \in due
  <2>1. i \in Nat /\ i * Hour \in Nat /\ (i * Hour) % Hour = 0
    BY <1>0, MultipleMod
  <2>2. p * Hour <= i * Hour /\ i * Hour <= q * Hour
    BY <1>0, <1>9, <2>1, MultipleOrder
  <2>3. lo \in Nat /\ hi \in Nat /\ hi <= t /\ lo >= a.opened /\ (a.lastHour # None => lo > a.lastHour)
    <3>1. lo \in 0..t /\ hi \in 0..t
      BY <1>2, <1>3, <1>4
    <3>2. lo >= a.opened /\ (a.lastHour # None => lo > a.lastHour)
      BY <1>1, <1>3 DEF DueHours
    <3> QED BY <3>1, <3>2
  <2>4. i * Hour >= a.opened /\ (a.lastHour # None => i * Hour > a.lastHour) /\ i * Hour \in 0..t
    BY <1>6, <1>7, <2>1, <2>2, <2>3
  <2> QED BY <1>1, <2>1, <2>4 DEF DueHours
<1>10. ASSUME NEW h \in due PROVE \E i \in p..q : h = i * Hour
  <2>1. PICK i \in Nat : h = i * Hour
    BY <1>0, <1>5, MultipleOf
  <2>2. p * Hour <= i * Hour /\ i * Hour <= q * Hour
    BY <1>3, <1>4, <1>6, <1>7, <2>1
  <2>3. p <= i /\ i <= q
    BY <1>0, <2>2, MultipleOrder
  <2> QED BY <2>1, <2>3
<1>11. Cardinality(due) = q - p + 1
  <2>1. PICK g : g = [i \in p..q |-> i * Hour]
    OBVIOUS
  <2>2. g \in [p..q -> due]
    BY <1>9, <2>1
  <2>3. \A i, j \in p..q : g[i] = g[j] => i = j
    <3>1. ASSUME NEW i \in p..q, NEW j \in p..q, i * Hour = j * Hour PROVE i = j
      <4>1. i \in Nat /\ j \in Nat /\ i * Hour \in Nat /\ j * Hour \in Nat
        BY <1>0, MultipleMod
      <4>2. i <= j /\ j <= i
        BY <1>0, <3>1, <4>1, MultipleOrder
      <4> QED BY <4>1, <4>2
    <3> QED BY <2>1, <3>1
  <2>4. \A h \in due : \E i \in p..q : g[i] = h
    BY <1>10, <2>1
  <2>5. g \in Bijection(p..q, due)
    BY <2>2, <2>3, <2>4 DEF Bijection, Injection, Surjection, IsInjective
  <2>6. ExistsBijection(p..q, due)
    BY <2>5 DEF ExistsBijection
  <2>7. IsFiniteSet(p..q) /\ Cardinality(p..q) = q - p + 1
    <3>1. p \in Int /\ q \in Int /\ ~(p > q)
      BY <1>8
    <3> QED BY <3>1, FS_Interval
  <2> QED BY <2>6, <2>7, FS_Bijection
<1> QED BY <1>1, <1>3, <1>4, <1>6, <1>7, <1>8, <1>9, <1>11

\* The rows a settlement adds: one for each due hour.
DueRows(a, t) ==
    [i \in 1..Cardinality(DueHours(a, t)) |->
       [hour |-> Min(DueHours(a, t)) + (i - 1) * Hour, qty |-> a.qty]]

LEMMA RowsEnumerate ==
    ASSUME NEW a, NEW t \in Nat, a.qty \in Int, a.qty # 0 => a.opened \in Nat,
           a.lastHour \in Nat \cup {None}
    PROVE  /\ DueRows(a, t) \in Seq(FundRec)
           /\ \A i, j \in DOMAIN DueRows(a, t) : DueRows(a, t)[i].hour = DueRows(a, t)[j].hour => i = j
           /\ \A i \in DOMAIN DueRows(a, t) : DueRows(a, t)[i].hour \in DueHours(a, t)
           /\ \A h \in DueHours(a, t) : \E i \in DOMAIN DueRows(a, t) : DueRows(a, t)[i].hour = h
<1>0. Hour \in Nat \ {0}
  BY DeskAssumption
<1>1. CASE DueHours(a, t) = {}
  <2>1. Cardinality(DueHours(a, t)) = 0
    BY <1>1, FS_EmptySet
  <2>2. DOMAIN DueRows(a, t) = 1..0 /\ DueRows(a, t) \in [1..0 -> FundRec]
    BY <2>1 DEF DueRows
  <2>3. DueRows(a, t) \in Seq(FundRec)
    BY <2>2, SeqDef
  <2> QED BY <1>1, <2>2, <2>3
<1>2. CASE DueHours(a, t) # {}
  <2>1. a.qty # 0
    BY <1>2 DEF DueHours
  <2>2. PICK p, q \in Nat :
          /\ p <= q /\ Min(DueHours(a, t)) = p * Hour /\ Max(DueHours(a, t)) = q * Hour
          /\ Cardinality(DueHours(a, t)) = q - p + 1
          /\ \A i \in p..q : i * Hour \in DueHours(a, t)
    BY <1>2, <2>1, DueProgression
  <2>3. PICK n \in Nat : n = q - p + 1
    BY <2>2
  <2>4. DueRows(a, t) = [i \in 1..n |-> [hour |-> p * Hour + (i - 1) * Hour, qty |-> a.qty]]
    BY <2>2, <2>3 DEF DueRows
  <2>5. ASSUME NEW i \in 1..n PROVE p * Hour + (i - 1) * Hour = (p + i - 1) * Hour /\ p + i - 1 \in p..q
                                    /\ p * Hour + (i - 1) * Hour \in Nat
    <3>1. i - 1 \in Nat /\ p + i - 1 \in Nat /\ p + i - 1 \in p..q
      BY <2>2, <2>3
    <3>2. p * Hour + (i - 1) * Hour = (p + (i - 1)) * Hour
      BY <1>0, <3>1
    <3> QED BY <1>0, <3>1, <3>2
  <2>6. DueRows(a, t) \in [1..n -> FundRec]
    BY <2>4, <2>5 DEF FundRec
  <2>7. DueRows(a, t) \in Seq(FundRec) /\ DOMAIN DueRows(a, t) = 1..n
    BY <2>6, SeqDef
  <2>8. \A i \in 1..n : DueRows(a, t)[i].hour = (p + i - 1) * Hour
    BY <2>4, <2>5
  <2>9. \A i \in 1..n : DueRows(a, t)[i].hour \in DueHours(a, t)
    BY <2>2, <2>5, <2>8
  <2>10. ASSUME NEW i \in 1..n, NEW j \in 1..n, DueRows(a, t)[i].hour = DueRows(a, t)[j].hour PROVE i = j
    <3>1. PICK x \in Nat : x = p + i - 1
      BY <2>5
    <3>2. PICK y \in Nat : y = p + j - 1
      BY <2>5
    <3>3. x * Hour = y * Hour /\ x * Hour \in Nat /\ y * Hour \in Nat
      BY <1>0, <2>8, <2>10, <3>1, <3>2
    <3>4. x <= y /\ y <= x
      BY <1>0, <3>3, MultipleOrder
    <3> QED BY <3>1, <3>2, <3>4
  <2>11. ASSUME NEW h \in DueHours(a, t) PROVE \E i \in 1..n : DueRows(a, t)[i].hour = h
    <3>1. h \in Nat /\ h % Hour = 0 /\ DueHours(a, t) \in SUBSET (0..t) /\ DueHours(a, t) \in SUBSET Nat
      BY DEF DueHours
    <3>2. PICK k \in Nat : h = k * Hour
      BY <1>0, <3>1, MultipleOf
    <3>3. p * Hour <= k * Hour /\ k * Hour <= q * Hour
      <4>1. Min(DueHours(a, t)) <= h
        BY <1>2, <3>1, MinIsIn
      <4>2. h <= Max(DueHours(a, t))
        BY <1>2, <3>1, MaxIsIn
      <4> QED BY <2>2, <3>2, <4>1, <4>2
    <3>4. p <= k /\ k <= q
      BY <1>0, <3>3, MultipleOrder
    <3>5. PICK i \in 1..n : i = k - p + 1
      BY <2>3, <3>4
    <3>6. p + i - 1 = k
      BY <3>5
    <3> QED BY <2>8, <3>2, <3>6
  <2> QED BY <2>7, <2>9, <2>10, <2>11
<1> QED BY <1>1, <1>2

\* The rows ch charge each hour once, none after the last settled, the last
\* settled itself, and every hour of the open position up to it.
HoursInv(ch, a) ==
    /\ ch \in Seq(FundRec) /\ a.lastHour \in Nat \cup {None}
    /\ a.qty # 0 => a.opened \in Nat
    /\ \A i, j \in DOMAIN ch : ch[i].hour = ch[j].hour => i = j
    /\ \A i \in DOMAIN ch : a.lastHour # None /\ ch[i].hour <= a.lastHour
    /\ a.lastHour # None => a.lastHour % Hour = 0 /\ \E i \in DOMAIN ch : ch[i].hour = a.lastHour
    /\ a.qty # 0 /\ a.lastHour # None =>
         \A h \in a.opened..a.lastHour : h % Hour = 0 => \E i \in DOMAIN ch : ch[i].hour = h

\* A settlement charges the due hours.
LEMMA SettleHours ==
    ASSUME NEW ch, NEW a, NEW b, NEW t \in Nat, HoursInv(ch, a), a.qty \in Int,
           b.qty = a.qty, b.opened = a.opened,
           b.lastHour = IF DueHours(a, t) = {} THEN a.lastHour ELSE Max(DueHours(a, t))
    PROVE  /\ HoursInv(ch \o DueRows(a, t), b)
           /\ b.lastHour = a.lastHour \/ b.lastHour \in 0..t
<1>0. /\ a.lastHour \in Nat \cup {None} /\ (a.qty # 0 => a.opened \in Nat) /\ ch \in Seq(FundRec)
      /\ Hour \in Nat \ {0} /\ None \notin Int
  BY DeskAssumption DEF HoursInv
<1>1. PICK rows \in Seq(FundRec) :
        /\ rows = DueRows(a, t)
        /\ \A i, j \in DOMAIN rows : rows[i].hour = rows[j].hour => i = j
        /\ \A i \in DOMAIN rows : rows[i].hour \in DueHours(a, t)
        /\ \A h \in DueHours(a, t) : \E i \in DOMAIN rows : rows[i].hour = h
  BY <1>0, RowsEnumerate
<1>2. PICK due : due = DueHours(a, t)
  OBVIOUS
<1>3. due \in SUBSET (0..t)
  BY <1>2 DEF DueHours
<1>4. CASE due = {}
  <2>1. rows = <<>>
    <3>1. DOMAIN rows = {} /\ DOMAIN rows = 1..Len(rows) /\ Len(rows) \in Nat
      BY <1>1, <1>2, <1>4
    <3> QED BY <3>1
  <2>2. ch \o rows = ch
    BY <1>0, <2>1, ConcatEmptySeq
  <2>3. b.lastHour = a.lastHour
    BY <1>2, <1>4
  <2> QED BY <1>1, <2>2, <2>3 DEF HoursInv
<1>5. CASE due # {}
  <2>1. PICK top : top = Max(due) /\ top \in due /\ \A h \in due : h <= top
    BY <1>3, <1>5, MaxIsIn
  <2>2. /\ b.lastHour = top /\ top \in 0..t /\ top \in Nat /\ a.qty # 0 /\ top % Hour = 0
        /\ \A h \in due : h \in Nat /\ (a.lastHour # None => h > a.lastHour)
    BY <1>2, <1>3, <1>5, <2>1 DEF DueHours
  <2>3. PICK e, n, m :
          /\ n \in Nat /\ m \in Nat /\ e = ch \o rows /\ n = Len(ch) /\ m = Len(rows) /\ e \in Seq(FundRec) /\ Len(e) = n + m
          /\ \A i \in 1..(n + m) : e[i] = IF i <= n THEN ch[i] ELSE rows[i - n]
    <3>1. /\ ch \o rows \in Seq(FundRec) /\ Len(ch \o rows) = Len(ch) + Len(rows)
          /\ \A i \in 1..(Len(ch) + Len(rows)) :
               (ch \o rows)[i] = IF i <= Len(ch) THEN ch[i] ELSE rows[i - Len(ch)]
      BY <1>0, <1>1, ConcatProperties
    <3>2. Len(ch) \in Nat /\ Len(rows) \in Nat
      BY <1>0, <1>1, LenProperties
    <3>3. PICK e : e = ch \o rows
      OBVIOUS
    <3> QED BY <3>1, <3>2, <3>3
  <2>4. DOMAIN ch = 1..n /\ DOMAIN rows = 1..m /\ DOMAIN e = 1..(n + m) /\ n \in Nat /\ m \in Nat
    BY <1>0, <1>1, <2>3, LenProperties
  <2>5. \A i \in DOMAIN ch : i \in DOMAIN e /\ e[i] = ch[i]
    BY <2>3, <2>4
  <2>6. \A i \in DOMAIN rows : i + n \in DOMAIN e /\ e[i + n] = rows[i]
    <3>1. ASSUME NEW i \in DOMAIN rows PROVE i + n \in DOMAIN e /\ e[i + n] = rows[i]
      <4>1. i \in 1..m /\ i + n \in 1..(n + m) /\ ~(i + n <= n) /\ (i + n) - n = i
        BY <2>4
      <4> QED BY <2>3, <2>4, <4>1
    <3> QED BY <3>1
  <2>7. \A i \in DOMAIN e : \/ i \in DOMAIN ch /\ e[i] = ch[i]
                            \/ i - n \in DOMAIN rows /\ e[i] = rows[i - n]
    BY <2>3, <2>4
  <2>8. \A i \in DOMAIN ch : ch[i].hour \in Nat /\ a.lastHour \in Nat /\ ch[i].hour <= a.lastHour
    <3>1. \A i \in DOMAIN ch : ch[i] \in FundRec
      BY <1>0
    <3> QED BY <1>0, <3>1 DEF FundRec, HoursInv
  <2>9. ASSUME NEW i \in DOMAIN e PROVE e[i].hour <= top
    <3>1. CASE i \in DOMAIN ch /\ e[i] = ch[i]
      <4>1. ch[i].hour \in Nat /\ a.lastHour \in Nat /\ ch[i].hour <= a.lastHour
        BY <2>8, <3>1
      <4>2. top > a.lastHour
        BY <1>0, <2>1, <2>2, <4>1
      <4> QED BY <2>2, <3>1, <4>1, <4>2
    <3>2. CASE i - n \in DOMAIN rows /\ e[i] = rows[i - n]
      <4>1. rows[i - n].hour \in due
        BY <1>1, <1>2, <3>2
      <4> QED BY <2>1, <3>2, <4>1
    <3> QED BY <2>7, <3>1, <3>2
  <2>10. ASSUME NEW i \in DOMAIN e, NEW j \in DOMAIN e, e[i].hour = e[j].hour PROVE i = j
    <3>1. CASE i \in DOMAIN ch /\ e[i] = ch[i] /\ j \in DOMAIN ch /\ e[j] = ch[j]
      BY <2>10, <3>1 DEF HoursInv
    <3>2. CASE i - n \in DOMAIN rows /\ e[i] = rows[i - n] /\ j - n \in DOMAIN rows /\ e[j] = rows[j - n]
      <4>1. i - n = j - n
        BY <1>1, <2>10, <3>2
      <4> QED BY <2>4, <4>1
    <3>3. ASSUME NEW x \in DOMAIN ch, NEW y \in DOMAIN rows, ch[x].hour = rows[y].hour PROVE FALSE
      <4>1. ch[x].hour \in Nat /\ a.lastHour \in Nat /\ ch[x].hour <= a.lastHour
        BY <2>8
      <4>2. rows[y].hour \in Nat /\ (a.lastHour # None => rows[y].hour > a.lastHour)
        BY <1>1, <1>2, <2>2
      <4> QED BY <1>0, <3>3, <4>1, <4>2
    <3> QED BY <2>7, <2>10, <3>1, <3>2, <3>3
  <2>11. \E i \in DOMAIN e : e[i].hour = top
    <3>1. PICK i \in DOMAIN rows : rows[i].hour = top
      BY <1>1, <1>2, <2>1
    <3> QED BY <2>6, <3>1
  <2>12. ASSUME NEW h \in b.opened..b.lastHour, h % Hour = 0
         PROVE  \E i \in DOMAIN e : e[i].hour = h
    <3>0. h \in Nat /\ h >= a.opened /\ h \in 0..t /\ a.opened \in Nat
      BY <1>0, <2>2
    <3>1. CASE a.lastHour # None /\ h <= a.lastHour
      <4>1. a.lastHour \in Nat /\ h \in a.opened..a.lastHour
        BY <1>0, <3>0, <3>1
      <4>2. PICK i \in DOMAIN ch : ch[i].hour = h
        BY <2>2, <2>12, <3>1, <4>1 DEF HoursInv
      <4> QED BY <2>5, <4>2
    <3>2. CASE ~(a.lastHour # None /\ h <= a.lastHour)
      <4>1. a.lastHour # None => h > a.lastHour
        BY <1>0, <3>0, <3>2
      <4>2. h \in due
        BY <1>2, <2>2, <2>12, <3>0, <4>1 DEF DueHours
      <4>3. PICK i \in DOMAIN rows : rows[i].hour = h
        BY <1>1, <1>2, <4>2
      <4> QED BY <2>6, <4>3
    <3> QED BY <3>1, <3>2
  <2>13. top # None
    BY <1>0, <2>2
  <2>14. HoursInv(e, b)
    BY <1>0, <2>2, <2>3, <2>9, <2>10, <2>11, <2>12, <2>13 DEF HoursInv
  <2> QED BY <1>1, <2>2, <2>3, <2>14
<1> QED BY <1>4, <1>5

\* A fill keeps the rows right: a position opened by a call that waited less
\* than an hour was not open at any hour settled before, the last excepted.
LEMMA FillHours ==
    ASSUME NEW ch, NEW a, NEW b, NEW t \in Nat, HoursInv(ch, a), b.lastHour = a.lastHour,
           b.qty # 0 => b.opened = t \/ (a.qty # 0 /\ b.opened = a.opened),
           a.lastHour # None => a.lastHour - t < Hour
    PROVE  HoursInv(ch, b)
<1>0. Hour \in Nat \ {0} /\ None \notin Int /\ a.lastHour \in Nat \cup {None}
  BY DeskAssumption DEF HoursInv
<1>1. b.qty # 0 => b.opened \in Nat
  BY DEF HoursInv
<1>2. ASSUME b.qty # 0, b.lastHour # None, NEW h \in b.opened..b.lastHour, h % Hour = 0
      PROVE  \E i \in DOMAIN ch : ch[i].hour = h
  <2>1. CASE a.qty # 0 /\ b.opened = a.opened
    BY <1>2, <2>1 DEF HoursInv
  <2>2. CASE b.opened = t
    <3>1. a.lastHour \in Nat /\ h \in Nat /\ t <= h /\ h <= a.lastHour /\ a.lastHour - t < Hour
      BY <1>0, <1>2, <2>2
    <3>2. a.lastHour % Hour = 0 /\ \E i \in DOMAIN ch : ch[i].hour = a.lastHour
      BY <1>2 DEF HoursInv
    <3>3. PICK x \in Nat : h = x * Hour
      BY <1>0, <1>2, <3>1, MultipleOf
    <3>4. PICK y \in Nat : a.lastHour = y * Hour
      BY <1>0, <3>1, <3>2, MultipleOf
    <3>5. ~(x < y)
      <4>1. ASSUME x < y PROVE FALSE
        <5>1. h + Hour <= a.lastHour
          BY <1>0, <3>3, <3>4, <4>1, MultipleOrder
        <5> QED BY <1>0, <3>1, <5>1
      <4> QED BY <4>1
    <3>6. x <= y
      BY <1>0, <3>1, <3>3, <3>4, MultipleOrder
    <3>7. h = a.lastHour
      BY <3>3, <3>4, <3>5, <3>6
    <3> QED BY <3>2, <3>7
  <2> QED BY <1>2, <2>1, <2>2
<1> QED BY <1>1, <1>2 DEF HoursInv

\* The funding tables, and the hours of the account they charge.
BookInv ==
    /\ funding \in Seq(FundRec) /\ owed \in Seq(FundRec)
    /\ HoursInv(funding \o owed, acct)
    /\ acct.lastHour # None => acct.lastHour <= now

\* A call that waits for the ledger waits no longer than its lock allows.
Lags == \A c \in Calls : call[c].at = "ready" => now - call[c].t <= MaxLag

\* Booked or left owed, a settlement appends the due hours to what is charged.
LEMMA Settles ==
    ASSUME DeskTypes, BookInv, NEW rate \in BOOLEAN, NEW t \in Nat, t <= now
    PROVE  LET s == Settled(acct, owed, rate, t) IN
           /\ funding \o s.booked \in Seq(FundRec) /\ s.owed \in Seq(FundRec)
           /\ HoursInv((funding \o s.booked) \o s.owed, s.acct)
           /\ s.acct.lastHour # None => s.acct.lastHour <= now
           /\ s.acct.opened = acct.opened
<1>0. /\ acct.qty \in Int /\ DOMAIN acct = {"cash", "qty", "avg", "opened", "lastHour", "exitAt"} /\ now \in Nat
      /\ funding \in Seq(FundRec) /\ owed \in Seq(FundRec) /\ None \notin Int
      /\ acct.lastHour \in Nat \cup {None} /\ (acct.qty # 0 => acct.opened \in Nat)
  BY DeskAssumption DEF DeskTypes, AcctTypes, WorldTypes, BookInv, HoursInv
<1>1. PICK s : s = Settled(acct, owed, rate, t)
  OBVIOUS
<1>2. PICK rows : rows = DueRows(acct, t)
  OBVIOUS
<1>3. rows \in Seq(FundRec)
  BY <1>0, <1>2, RowsEnumerate
<1>4. PICK x : s.acct = [acct EXCEPT !.lastHour = IF DueHours(acct, t) = {} THEN acct.lastHour ELSE Max(DueHours(acct, t)),
                                     !.cash = x]
  BY <1>1 DEF Settled
<1>5. /\ s.acct.qty = acct.qty /\ s.acct.opened = acct.opened
      /\ s.acct.lastHour = IF DueHours(acct, t) = {} THEN acct.lastHour ELSE Max(DueHours(acct, t))
  BY <1>0, <1>4
<1>6. /\ HoursInv((funding \o owed) \o rows, s.acct)
      /\ s.acct.lastHour = acct.lastHour \/ s.acct.lastHour \in 0..t
  <2>1. PICK ch : ch = funding \o owed /\ HoursInv(ch, acct)
    BY DEF BookInv
  <2>2. PICK b : b = s.acct
    OBVIOUS
  <2> QED BY <1>0, <1>2, <1>5, <2>1, <2>2, SettleHours
<1>7. s.acct.lastHour # None => s.acct.lastHour <= now
  BY <1>0, <1>6 DEF BookInv
<1>8. /\ s.booked = IF rate THEN owed \o rows ELSE <<>>
      /\ s.owed = IF rate THEN <<>> ELSE owed \o rows
  BY <1>1, <1>2 DEF Settled, DueRows
<1>9. owed \o rows \in Seq(FundRec) /\ <<>> \in Seq(FundRec) /\ funding \o (owed \o rows) \in Seq(FundRec)
      /\ (funding \o owed) \o rows = funding \o (owed \o rows)
  BY <1>0, <1>3, ConcatProperties, ConcatAssociative
<1>10. CASE rate
  <2>1. s.booked = owed \o rows /\ s.owed = <<>>
    BY <1>8, <1>10
  <2>2. (funding \o (owed \o rows)) \o <<>> = funding \o (owed \o rows)
    BY <1>9, ConcatEmptySeq
  <2> QED BY <1>1, <1>5, <1>6, <1>7, <1>9, <2>1, <2>2
<1>11. CASE ~rate
  <2>1. s.booked = <<>> /\ s.owed = owed \o rows
    BY <1>8, <1>11
  <2>2. funding \o <<>> = funding
    BY <1>0, ConcatEmptySeq
  <2> QED BY <1>0, <1>1, <1>5, <1>6, <1>7, <1>9, <2>1, <2>2
<1> QED BY <1>10, <1>11

\* A fill opens a position now, or keeps the time it was opened.
LEMMA FillOpens ==
    ASSUME NEW a, DOMAIN a = {"cash", "qty", "avg", "opened", "lastHour", "exitAt"}, a.qty \in Int,
           NEW side, NEW q, NEW price, NEW t
    PROVE  /\ DOMAIN ApplyFill(a, side, q, price, t) = {"cash", "qty", "avg", "opened", "lastHour", "exitAt"}
           /\ ApplyFill(a, side, q, price, t).lastHour = a.lastHour
           /\ ApplyFill(a, side, q, price, t).qty # 0 =>
                ApplyFill(a, side, q, price, t).opened = t \/ (a.qty # 0 /\ ApplyFill(a, side, q, price, t).opened = a.opened)
<1>1. CASE Sign(a.qty) \in {0, side}
  <2>1. PICK x, y : ApplyFill(a, side, q, price, t)
                      = [a EXCEPT !.qty = a.qty + side * q, !.cash = x, !.avg = y,
                                  !.opened = IF a.qty = 0 THEN t ELSE a.opened]
    BY <1>1 DEF ApplyFill
  <2> QED BY <2>1
<1>2. CASE ~(Sign(a.qty) \in {0, side})
  <2>1. PICK x, y, closed :
          ApplyFill(a, side, q, price, t)
            = [a EXCEPT !.qty = a.qty + side * q, !.cash = x, !.avg = y,
                        !.opened = IF closed < q THEN t ELSE IF a.qty + side * q = 0 THEN None ELSE a.opened]
    BY <1>2 DEF ApplyFill
  <2>2. a.qty # 0
    BY <1>2 DEF Sign
  <2> QED BY <2>1, <2>2
<1> QED BY <1>1, <1>2

\* What a sent order does to the tables of hours.
LEMMA SentBooks ==
    ASSUME DeskTypes, BookInv, Clocks, Lags, NEW c \in Calls, PlaceSent(c), MaxLag < Hour
    PROVE  BookInv'
<1>0. /\ call[c].at = "ready" /\ call[c].t \in Nat /\ call[c].t <= now /\ call[c].rate \in BOOLEAN
      /\ now - call[c].t <= MaxLag /\ now' = now /\ now \in Nat /\ MaxLag \in Nat /\ Hour \in Nat
  BY DeskAssumption DEF PlaceSent, MayJudge, DeskTypes, CallTypes, CallRec, WorldTypes, Clocks, Lags
<1>1. PICK s : s = Settled(acct, owed, call[c].rate, call[c].t)
  OBVIOUS
<1>2. /\ funding \o s.booked \in Seq(FundRec) /\ s.owed \in Seq(FundRec)
      /\ HoursInv((funding \o s.booked) \o s.owed, s.acct)
      /\ s.acct.lastHour # None => s.acct.lastHour <= now
  BY <1>0, <1>1, Settles
<1>3. PICK in, o, f :
        /\ Judged(c, in).settled = s
        /\ owed' = s.owed /\ funding' = funding \o s.booked
        /\ acct' = IF f = 0 THEN s.acct
                   ELSE [ApplyFill(s.acct, o.side, f, call[c].book, call[c].t) EXCEPT
                           !.exitAt = ExitDeadline(s.acct, ApplyFill(s.acct, o.side, f, call[c].book, call[c].t),
                                                   call[c].req.exitAt)]
  <2>1. PICK in \in Inputs(c) :
         LET j == Judged(c, in)
             k == call[c]
             a == j.settled.acct
         IN  /\ Judges(j)
             /\ \E f \in 0..(IF in.book = None THEN 0 ELSE j.order.qty) :
                  LET filled == ApplyFill(a, j.order.side, f, k.book, k.t) IN
                  acct' = IF f = 0 THEN a
                          ELSE [filled EXCEPT !.exitAt = ExitDeadline(a, filled, call[c].req.exitAt)]
    BY DEF PlaceSent
  <2>2. PICK j : j = Judged(c, in)
    OBVIOUS
  <2>3. j.settled = s
    BY <1>1, <2>2 DEF Judged
  <2>4. owed' = s.owed /\ funding' = funding \o s.booked
    BY <2>1, <2>2, <2>3 DEF Judges
  <2> QED BY <2>1, <2>2, <2>3, <2>4
<1>4. acct.qty \in Int /\ s.acct.qty = acct.qty
      /\ DOMAIN s.acct = {"cash", "qty", "avg", "opened", "lastHour", "exitAt"}
  BY <1>1, SettledKeeps DEF DeskTypes, AcctTypes
<1>5. /\ acct'.lastHour = s.acct.lastHour
      /\ acct'.qty # 0 => acct'.opened = call[c].t \/ (s.acct.qty # 0 /\ acct'.opened = s.acct.opened)
  <2>1. CASE f = 0
    <3>1. acct' = s.acct
      BY <1>3, <2>1
    <3> QED BY <3>1
  <2>2. CASE f # 0
    <3>1. PICK b : b = ApplyFill(s.acct, o.side, f, call[c].book, call[c].t)
      OBVIOUS
    <3>2. PICK x : acct' = [b EXCEPT !.exitAt = x]
      BY <1>3, <2>2, <3>1
    <3>3. DOMAIN b = {"cash", "qty", "avg", "opened", "lastHour", "exitAt"}
      BY <1>4, <3>1, FillOpens
    <3>4. b.lastHour = s.acct.lastHour
          /\ (b.qty # 0 => b.opened = call[c].t \/ (s.acct.qty # 0 /\ b.opened = s.acct.opened))
      BY <1>4, <3>1, FillOpens
    <3> QED BY <3>2, <3>3, <3>4
  <2> QED BY <2>1, <2>2
<1>6. s.acct.lastHour # None => s.acct.lastHour - call[c].t < Hour
  <2>1. s.acct.lastHour \in Nat \cup {None}
    BY <1>2 DEF HoursInv
  <2> QED BY <1>0, <1>2, <2>1
<1>7. HoursInv((funding \o s.booked) \o s.owed, acct')
  <2>1. PICK ch, a : ch = (funding \o s.booked) \o s.owed /\ a = s.acct /\ HoursInv(ch, a)
    BY <1>2
  <2>2. PICK b : b = acct'
    OBVIOUS
  <2> QED BY <1>0, <1>5, <1>6, <2>1, <2>2, FillHours
<1>8. HoursInv(funding' \o owed', acct')
  BY <1>3, <1>7
<1> QED BY <1>0, <1>2, <1>3, <1>5, <1>8 DEF BookInv, HoursInv

LEMMA LagsStep == DeskTypes /\ Lags /\ [Next]_vars => Lags'
<1> SUFFICES ASSUME DeskTypes, Lags, [Next]_vars, NEW d \in Calls, call'[d].at = "ready"
             PROVE  now' - call'[d].t <= MaxLag
  BY DEF Lags
<1>0. /\ call \in [Calls -> CallRec] /\ call[d] \in CallRec /\ call[d].t \in Nat /\ now \in Nat /\ MaxLag \in Nat
      /\ (call[d].at = "ready" => now - call[d].t <= MaxLag)
  BY DeskAssumption DEF DeskTypes, CallTypes, CallRec, WorldTypes, Lags
<1>1. CASE Tick
  <2>1. call' = call /\ now' = now + 1 /\ (call[d].at = "ready" => now - call[d].t < MaxLag)
    BY <1>1 DEF Tick
  <2> QED BY <1>0, <2>1
<1>2. CASE now' = now /\ call'[d] = call[d]
  BY <1>0, <1>2
<1>3. ASSUME NEW c \in Calls, Arrive(c) PROVE now' - call'[d].t <= MaxLag
  <2>1. PICK kill : call' = [call EXCEPT ![c] = [call[c] EXCEPT !.at = "ready", !.t = now, !.book = px, !.kill = kill]]
    BY <1>0, <1>3 DEF Arrive
  <2>2. now' = now
    BY <1>3 DEF Arrive
  <2>3. CASE d = c
    <3>1. call'[d].t = now
      BY <1>0, <2>1, <2>3 DEF CallRec
    <3> QED BY <1>0, <2>2, <3>1
  <2>4. CASE d # c
    BY <1>0, <2>1, <2>2, <2>4
  <2> QED BY <2>3, <2>4
<1>4. ASSUME NEW c \in Calls, Begin(c) \/ Snapshot(c) \/ Accrue(c) PROVE now' = now /\ call'[d] = call[d]
  <2>1. now' = now
    BY <1>4 DEF Begin, Snapshot, Accrue
  <2>2. CASE d = c
    <3>1. call'[c].at # "ready"
      <4>1. CASE Begin(c)
        <5>1. PICK r \in Asks[c] :
                call' = [call EXCEPT ![c] = IF Stored(r.coid) = {}
                                            THEN [Idle EXCEPT !.at = "begun", !.req = r, !.t = now]
                                            ELSE FromStored(r, Min(Stored(r.coid)))]
          BY <4>1 DEF Begin
        <5>2. FromStored(r, Min(Stored(r.coid))).at = "done"
          BY DEF FromStored, Answer, Idle
        <5>3. [Idle EXCEPT !.at = "begun", !.req = r, !.t = now].at = "begun"
          BY DEF Idle
        <5> QED BY <1>0, <2>2, <5>1, <5>2, <5>3
      <4>2. CASE Snapshot(c)
        <5>1. PICK rate, at : call' = [call EXCEPT ![c].held = acct.qty, ![c].mark = px, ![c].rate = rate, ![c].at = at]
                              /\ at \in {"owing", "rows"}
          BY <4>2 DEF Snapshot
        <5> QED BY <1>0, <2>2, <5>1 DEF CallRec
      <4>3. CASE Accrue(c)
        BY <1>0, <2>2, <4>3 DEF Accrue, CallRec
      <4> QED BY <1>4, <4>1, <4>2, <4>3
    <3> QED BY <2>2, <3>1
  <2>3. CASE d # c
    BY <1>4, <2>1, <2>3, CallReadsOn
  <2> QED BY <2>2, <2>3
<1>5. ASSUME NEW c \in Calls, BeginRefused(c) \/ NoPosition(c) \/ PlaceStored(c) \/ PlaceDenied(c) \/ PlaceSent(c)
      PROVE  now' = now /\ call'[d] = call[d]
  <2>1. now' = now
    BY <1>5 DEF BeginRefused, NoPosition, PlaceStored, PlaceDenied, PlaceSent
  <2> QED BY <1>5, <2>1, CallAnswered
<1>6. CASE UNCHANGED vars \/ StatusRead \/ StatusCommit \/ TouchFile \/ RiskHalt \/ ResumeAsked \/ ResumeCommit
           \/ MoveMarket
  <2>1. now' = now /\ call' = call
    BY <1>6 DEF vars, StatusRead, StatusCommit, TouchFile, RiskHalt, ResumeAsked, ResumeCommit, MoveMarket
  <2> QED BY <1>2, <2>1
<1> QED BY <1>1, <1>2, <1>3, <1>4, <1>5, <1>6 DEF Next

\* Funding of an hour is charged once, booked or owed, and no hour of an open
\* position that counts as settled was skipped, however calls settle out of
\* the order of their clocks: provided a call waits less than an hour for the
\* ledger's lock (its busy_timeout is seconds).
THEOREM FundingChargedOnce ==
    ASSUME MaxLag < Hour
    PROVE  Spec => []FundingOnce
<1>1. Init => Clocks /\ Lags /\ BookInv
  <2> SUFFICES ASSUME Init PROVE Clocks /\ Lags /\ BookInv
    OBVIOUS
  <2>1. \A c \in Calls : call[c].t = 0 /\ call[c].at = "idle"
    BY DEF Init, Idle
  <2>2. now \in Nat /\ DOMAIN orders = {}
    BY DeskAssumption DEF Init
  <2>3. Clocks /\ Lags
    BY <2>1, <2>2 DEF Clocks, Lags
  <2>4. funding = <<>> /\ owed = <<>> /\ funding \o owed = <<>> /\ acct.lastHour = None /\ acct.qty = 0
        /\ <<>> \in Seq(FundRec) /\ DOMAIN <<>> = {}
    BY ConcatEmptySeq, EmptySeq DEF Init, Flat
  <2> QED BY <2>3, <2>4 DEF BookInv, HoursInv
<1>2. DeskTypes /\ Clocks /\ Lags /\ BookInv /\ [Next]_vars => BookInv'
  <2> SUFFICES ASSUME DeskTypes, Clocks, Lags, BookInv, [Next]_vars PROVE BookInv'
    OBVIOUS
  <2>0. now \in Nat /\ now' \in Nat /\ now <= now' /\ acct.lastHour \in Nat \cup {None}
        /\ \A c \in Calls : call[c].t \in Nat /\ call[c].t <= now /\ call[c].rate \in BOOLEAN
    <3>1. now \in Nat /\ now' \in Nat /\ now <= now'
      BY TimeMoves
    <3>2. acct.lastHour \in Nat \cup {None}
      BY DEF BookInv, HoursInv
    <3>3. \A c \in Calls : call[c] \in CallRec
      BY DEF DeskTypes, CallTypes
    <3> QED BY <3>1, <3>2, <3>3 DEF CallRec, Clocks
  <2>1. CASE UNCHANGED <<acct, owed, funding>>
    BY <2>0, <2>1 DEF BookInv
  <2>2. ASSUME NEW rate \in BOOLEAN, NEW t \in Nat, t <= now, NEW s, s = Settled(acct, owed, rate, t),
               acct' = s.acct, owed' = s.owed, funding' = funding \o s.booked, now' = now
        PROVE  BookInv'
    BY <2>2, Settles DEF BookInv
  <2>3. ASSUME NEW c \in Calls, Accrue(c) PROVE BookInv'
    <3>1. PICK s : s = Settled(acct, owed, TRUE, call[c].t)
      OBVIOUS
    <3>2. acct' = s.acct /\ owed' = s.owed /\ funding' = funding \o s.booked /\ now' = now
      BY <2>3, <3>1 DEF Accrue
    <3> QED BY <2>0, <2>2, <3>1, <3>2
  <2>4. ASSUME NEW c \in Calls, PlaceDenied(c) PROVE BookInv'
    <3>1. PICK s : s = Settled(acct, owed, call[c].rate, call[c].t)
      OBVIOUS
    <3>2. acct' = s.acct /\ owed' = s.owed /\ funding' = funding \o s.booked /\ now' = now
      <4>1. PICK in, j : j = Judged(c, in) /\ Judges(j) /\ acct' = j.settled.acct
        BY <2>4 DEF PlaceDenied
      <4>2. j.settled = s
        BY <3>1, <4>1 DEF Judged
      <4> QED BY <2>4, <4>1, <4>2 DEF Judges, PlaceDenied
    <3> QED BY <2>0, <2>2, <3>1, <3>2
  <2>5. ASSUME NEW c \in Calls, PlaceSent(c) PROVE BookInv'
    BY <2>5, SentBooks
  <2>6. ASSUME NEW c \in Calls, Begin(c) \/ BeginRefused(c) \/ Snapshot(c) \/ NoPosition(c) \/ Arrive(c) \/ PlaceStored(c)
        PROVE  UNCHANGED <<acct, owed, funding>>
    BY <2>6 DEF Begin, BeginRefused, Snapshot, NoPosition, Arrive, PlaceStored, ledger
  <2>7. CASE UNCHANGED vars \/ StatusRead \/ StatusCommit \/ TouchFile \/ RiskHalt \/ ResumeAsked \/ ResumeCommit
             \/ MoveMarket \/ Tick
    <3>1. UNCHANGED <<acct, owed, funding>>
      BY <2>7 DEF vars, StatusRead, StatusCommit, TouchFile, RiskHalt, ResumeAsked, ResumeCommit, MoveMarket, Tick, ledger
    <3> QED BY <2>1, <3>1
  <2> QED BY <2>1, <2>3, <2>4, <2>5, <2>6, <2>7 DEF Next
<1>3. BookInv => FundingOnce
  BY DEF BookInv, HoursInv, FundingOnce
<1> QED BY <1>1, <1>2, <1>3, ClocksStep, LagsStep, DeskTyped, PTL DEF Spec

-----------------------------------------------------------------------------
(* Money.                                                                  *)

\* What the orders paid for the units they bought, less what they got for
\* those they sold.
PaidOf(o) == o.side * o.filled * o.px

Paid(os) == SumFunction([i \in DOMAIN os |-> PaidOf(os[i])])

\* The orders that were charged a fee.
Filled(os) == {i \in DOMAIN os : os[i].filled > 0}

\* Rows booked after others add their units to them.
LEMMA ChargedJoins ==
    ASSUME NEW r \in Seq(FundRec), NEW s \in Seq(FundRec)
    PROVE  Charged(r \o s) = Charged(r) + Charged(s) /\ Charged(r) \in Int /\ Charged(s) \in Int
<1> DEFINE Units(q) == [i \in DOMAIN q |-> q[i].qty]
<1>1. PICK n \in Nat : n = Len(r) /\ DOMAIN r = 1..n
  BY LenProperties
<1>2. PICK m \in Nat : m = Len(s) /\ DOMAIN s = 1..m
  BY LenProperties
<1>3. DOMAIN (r \o s) = 1..(n + m)
  BY <1>1, <1>2, ConcatProperties, LenProperties
<1>4. PICK f, g, h : f = Units(r \o s) /\ g = Units(r) /\ h = Units(s)
  OBVIOUS
<1>5. ASSUME NEW i \in 1..n PROVE f[i] = g[i] /\ g[i] \in Int
  <2>1. (r \o s)[i] = r[i] /\ i \in 1..(n + m)
    BY <1>1, <1>2, ConcatProperties
  <2>2. r[i] \in FundRec
    BY <1>1
  <2> QED BY <1>1, <1>3, <1>4, <2>1, <2>2 DEF FundRec
<1>6. ASSUME NEW i \in 1..m PROVE f[n + i] = h[i] /\ h[i] \in Int
  <2>1. (r \o s)[n + i] = s[i] /\ n + i \in 1..(n + m)
    BY <1>1, <1>2, ConcatProperties
  <2>2. s[i] \in FundRec
    BY <1>2
  <2> QED BY <1>2, <1>3, <1>4, <2>1, <2>2 DEF FundRec
<1>7. /\ SumFunctionOnSet(f, 1..(n + m)) = SumFunctionOnSet(g, 1..n) + SumFunctionOnSet(h, 1..m)
      /\ SumFunctionOnSet(g, 1..n) \in Int /\ SumFunctionOnSet(h, 1..m) \in Int
  <2>1. \A i \in 1..n : f[i] = g[i] /\ g[i] \in Int
    BY <1>5
  <2>2. \A i \in 1..m : f[n + i] = h[i] /\ h[i] \in Int
    BY <1>6
  <2>3. Joins(f, n, g, m, h)
    BY <2>1, <2>2 DEF Joins
  <2> QED BY <2>3, SumJoins
<1>8. /\ Charged(r \o s) = SumFunctionOnSet(f, 1..(n + m))
      /\ Charged(r) = SumFunctionOnSet(g, 1..n) /\ Charged(s) = SumFunctionOnSet(h, 1..m)
  BY <1>1, <1>2, <1>3, <1>4 DEF Charged, SumFunction
<1> QED BY <1>7, <1>8

LEMMA ChargedNone == Charged(<<>>) = 0
<1>1. DOMAIN <<>> = {} /\ IsFiniteSet({})
  BY FS_EmptySet, EmptySeq
<1>2. PICK f : f = [i \in DOMAIN <<>> |-> <<>>[i].qty]
  OBVIOUS
<1>3. DOMAIN f = {}
  BY <1>1, <1>2
<1>4. SumFunctionOnSet(f, {}) = 0
  BY <1>1, SumUnfolds
<1> QED BY <1>2, <1>3, <1>4 DEF Charged, SumFunction

LEMMA PaidTyped ==
    ASSUME NEW o \in OrderRec
    PROVE  PaidOf(o) \in Int /\ o.filled \in Nat
<1>1. o.side \in Int /\ o.filled \in Nat /\ o.px \in Nat
  BY DEF OrderRec
<1>2. PICK x \in Int, y \in Int, z \in Int : x = o.side /\ y = o.filled /\ z = o.px
  BY <1>1
<1>3. x * y * z \in Int
  OBVIOUS
<1> QED BY <1>1, <1>2, <1>3 DEF PaidOf

\* An order stored after others adds what it paid to them, and one fee if it
\* was filled.
LEMMA PaidAppends ==
    ASSUME NEW os \in Seq(OrderRec), NEW o \in OrderRec
    PROVE  /\ Paid(Append(os, o)) = Paid(os) + PaidOf(o) /\ Paid(os) \in Int
           /\ Cardinality(Filled(Append(os, o))) = Cardinality(Filled(os)) + IF o.filled > 0 THEN 1 ELSE 0
           /\ Cardinality(Filled(os)) \in Nat
<1> DEFINE Money(q) == [i \in DOMAIN q |-> PaidOf(q[i])]
<1>1. PICK n \in Nat : n = Len(os) /\ DOMAIN os = 1..n
  BY LenProperties
<1>2. /\ DOMAIN Append(os, o) = 1..(n + 1) /\ Append(os, o)[n + 1] = o
      /\ \A i \in 1..n : Append(os, o)[i] = os[i]
  BY <1>1, AppendProperties, LenProperties
<1>3. PICK f, g, h : f = Money(Append(os, o)) /\ g = Money(os) /\ h = [i \in 1..1 |-> PaidOf(o)]
  OBVIOUS
<1>4. ASSUME NEW i \in 1..n PROVE f[i] = g[i] /\ g[i] \in Int
  <2>1. os[i] \in OrderRec /\ i \in 1..(n + 1)
    BY <1>1
  <2> QED BY <1>1, <1>2, <1>3, <2>1, PaidTyped
<1>5. ASSUME NEW i \in 1..1 PROVE f[n + i] = h[i] /\ h[i] \in Int
  <2>1. i = 1 /\ n + 1 \in 1..(n + 1)
    OBVIOUS
  <2> QED BY <1>2, <1>3, <2>1, PaidTyped
<1>6. /\ SumFunctionOnSet(f, 1..(n + 1)) = SumFunctionOnSet(g, 1..n) + SumFunctionOnSet(h, 1..1)
      /\ SumFunctionOnSet(g, 1..n) \in Int
  <2>1. \A i \in 1..n : f[i] = g[i] /\ g[i] \in Int
    BY <1>4
  <2>2. \A i \in 1..1 : f[n + i] = h[i] /\ h[i] \in Int
    BY <1>5
  <2>3. PICK m \in Nat : m = 1
    OBVIOUS
  <2>4. Joins(f, n, g, m, h)
    BY <2>1, <2>2, <2>3 DEF Joins
  <2>5. /\ SumFunctionOnSet(f, 1..(n + m)) = SumFunctionOnSet(g, 1..n) + SumFunctionOnSet(h, 1..m)
        /\ SumFunctionOnSet(g, 1..n) \in Int
    BY <2>4, SumJoins
  <2> QED BY <2>3, <2>5
<1>7. SumFunctionOnSet(h, 1..1) = PaidOf(o)
  <2>1. SumFunctionOnSet(h, 1..1) = h[1] + SumFunctionOnSet(h, 1..(1 - 1))
    <3>1. 1 \in Nat \ {0} /\ \A i \in 1..1 : h[i] \in Int
      BY <1>5
    <3> QED BY <3>1, SumLast, Zenon
  <2>2. 1..(1 - 1) = {} /\ IsFiniteSet({})
    BY FS_EmptySet
  <2>3. SumFunctionOnSet(h, {}) = 0
    BY <2>2, SumUnfolds
  <2>4. h[1] = PaidOf(o) /\ PaidOf(o) \in Int
    BY <1>3, PaidTyped
  <2> QED BY <2>1, <2>2, <2>3, <2>4
<1>8. Paid(Append(os, o)) = SumFunctionOnSet(f, 1..(n + 1)) /\ Paid(os) = SumFunctionOnSet(g, 1..n)
  BY <1>1, <1>2, <1>3 DEF Paid, SumFunction
<1>9. Filled(os) \subseteq 1..n /\ IsFiniteSet(1..n) /\ n + 1 \notin Filled(os)
  <2>1. Filled(os) \subseteq 1..n
    BY <1>1 DEF Filled
  <2>2. IsFiniteSet(1..n)
    BY FS_Interval
  <2> QED BY <2>1, <2>2
<1>10. IsFiniteSet(Filled(os)) /\ Cardinality(Filled(os)) \in Nat
  BY <1>9, FS_Subset, FS_CardinalityType
<1>11. Filled(Append(os, o)) = Filled(os) \cup IF o.filled > 0 THEN {n + 1} ELSE {}
  <2>1. 1..(n + 1) = (1..n) \cup {n + 1}
    OBVIOUS
  <2> QED BY <1>1, <1>2, <2>1 DEF Filled
<1>12. Cardinality(Filled(Append(os, o))) = Cardinality(Filled(os)) + IF o.filled > 0 THEN 1 ELSE 0
  <2>1. CASE o.filled > 0
    <3>1. Filled(Append(os, o)) = Filled(os) \cup {n + 1}
      BY <1>11, <2>1
    <3> QED BY <1>9, <1>10, <2>1, <3>1, FS_AddElement
  <2>2. CASE ~(o.filled > 0)
    <3>1. Filled(Append(os, o)) = Filled(os)
      BY <1>11, <2>2
    <3> QED BY <1>10, <2>2, <3>1
  <2> QED BY <2>1, <2>2
<1> QED BY <1>6, <1>7, <1>8, <1>10, <1>12

\* The account's money and times, and the rows of hours.
MoneyTypes ==
    /\ funding \in Seq(FundRec) /\ owed \in Seq(FundRec)
    /\ acct.cash \in Int /\ acct.avg \in Nat
    /\ acct.lastHour \in Nat \cup {None} /\ acct.opened \in Nat \cup {None}
    /\ acct.qty = 0 <=> acct.opened = None

\* A settlement takes the funding it books out of the cash.
LEMMA SettlesMoney ==
    ASSUME DeskTypes, MoneyTypes, NEW rate \in BOOLEAN, NEW t \in Nat, NEW s,
           s = Settled(acct, owed, rate, t)
    PROVE  /\ s.booked \in Seq(FundRec) /\ s.owed \in Seq(FundRec)
           /\ Charged(s.booked) \in Int
           /\ s.acct.cash = acct.cash - Rate * Charged(s.booked) /\ s.acct.cash \in Int
           /\ s.acct.avg = acct.avg /\ s.acct.qty = acct.qty /\ s.acct.opened = acct.opened
           /\ s.acct.lastHour \in Nat \cup {None}
           /\ DOMAIN s.acct = {"cash", "qty", "avg", "opened", "lastHour", "exitAt"}
<1>0. /\ acct.qty \in Int /\ DOMAIN acct = {"cash", "qty", "avg", "opened", "lastHour", "exitAt"}
      /\ owed \in Seq(FundRec) /\ None \notin Int /\ acct.cash \in Int /\ Rate \in Nat
      /\ acct.lastHour \in Nat \cup {None} /\ (acct.qty # 0 => acct.opened \in Nat)
  BY DeskAssumption DEF DeskTypes, AcctTypes, MoneyTypes
<1>1. PICK rows : rows = DueRows(acct, t)
  OBVIOUS
<1>2. rows \in Seq(FundRec)
  BY <1>0, <1>1, RowsEnumerate
<1>3. /\ s.booked = IF rate THEN owed \o rows ELSE <<>>
      /\ s.owed = IF rate THEN <<>> ELSE owed \o rows
  BY <1>1 DEF Settled, DueRows
<1>4. owed \o rows \in Seq(FundRec) /\ <<>> \in Seq(FundRec)
  BY <1>0, <1>2, ConcatProperties
<1>5. s.booked \in Seq(FundRec) /\ s.owed \in Seq(FundRec)
  BY <1>3, <1>4
<1>6. Charged(s.booked) \in Int
  <2>1. PICK q : q = s.booked /\ q \in Seq(FundRec)
    BY <1>5
  <2> QED BY <2>1, ChargedJoins
<1>7. PICK top : top = IF DueHours(acct, t) = {} THEN acct.lastHour ELSE Max(DueHours(acct, t))
  OBVIOUS
<1>8. top \in Nat \cup {None}
  <2>1. DueHours(acct, t) \in SUBSET (0..t)
    BY DEF DueHours
  <2>2. CASE DueHours(acct, t) = {}
    BY <1>0, <1>7, <2>2
  <2>3. CASE DueHours(acct, t) # {}
    <3>1. Max(DueHours(acct, t)) \in 0..t
      BY <2>1, <2>3, MaxIsIn
    <3> QED BY <1>7, <2>3, <3>1
  <2> QED BY <2>2, <2>3
<1>9. s.acct = [acct EXCEPT !.lastHour = top, !.cash = acct.cash - Rate * Charged(s.booked)]
  BY <1>7 DEF Settled
<1>10. acct.cash - Rate * Charged(s.booked) \in Int
  BY <1>0, <1>6
<1> QED BY <1>0, <1>5, <1>6, <1>8, <1>9, <1>10

-----------------------------------------------------------------------------
(* One fill.                                                               *)

\* Averaging, realising and flipping, in numbers.
LEMMA ReduceSum ==
    ASSUME NEW c \in Int, NEW q \in Int, NEW v \in Int, NEW f \in Int, NEW p \in Int, NEW e \in Int
    PROVE  /\ (c + f * (p - v) * 1 - e) - (q + (-1) * f) * v = c - q * v - (-1) * f * p - e
           /\ (c + f * (p - v) * (-1) - e) - (q + 1 * f) * v = c - q * v - 1 * f * p - e
  OBVIOUS

LEMMA FlipSum ==
    ASSUME NEW c \in Int, NEW q \in Int, NEW v \in Int, NEW f \in Int, NEW p \in Int, NEW e \in Int
    PROVE  /\ (c + q * (p - v) * 1 - e) - (q + (-1) * f) * p = c - q * v - (-1) * f * p - e
           /\ (c + (-q) * (p - v) * (-1) - e) - (q + 1 * f) * p = c - q * v - 1 * f * p - e
  OBVIOUS

\* The account's row, with its numbers.
Account(a) ==
    /\ DOMAIN a = {"cash", "qty", "avg", "opened", "lastHour", "exitAt"}
    /\ a.qty \in Int /\ a.cash \in Int /\ a.avg \in Nat /\ a.opened \in Nat \cup {None}
    /\ a.qty = 0 <=> a.opened = None

\* A fill that adds to a position leaves a whole average and takes the fee.
LEMMA FillAdds ==
    ASSUME NEW a, Account(a), NEW side \in Sides, NEW f \in Nat \ {0}, NEW price \in Nat, NEW t \in Nat,
           Sign(a.qty) \in {0, side}, NEW b, b = ApplyFill(a, side, f, price, t)
    PROVE  /\ b.cash = a.cash - Fee /\ b.cash \in Int /\ b.avg \in Nat /\ b.qty = a.qty + side * f
           /\ b.qty \in Int /\ b.qty # 0 /\ b.opened \in Nat /\ b.lastHour = a.lastHour
           /\ a.qty * b.qty >= 0 /\ Abs(b.qty) > Abs(a.qty)
<1> USE DEF Account
<1>0. Fee \in Nat /\ None \notin Int
  BY DeskAssumption
<1>1. PICK w : w = (Abs(a.qty) * a.avg + f * price) \div Abs(a.qty + side * f)
  OBVIOUS
<1>2. b = [a EXCEPT !.qty = a.qty + side * f, !.cash = a.cash - Fee, !.avg = w,
                    !.opened = IF a.qty = 0 THEN t ELSE a.opened]
  BY <1>1 DEF ApplyFill
<1>3. /\ b.qty = a.qty + side * f /\ b.cash = a.cash - Fee /\ b.avg = w /\ b.lastHour = a.lastHour
      /\ b.opened = IF a.qty = 0 THEN t ELSE a.opened
  BY <1>2
<1>4. PICK q \in Int, n \in Int : q = a.qty /\ n = a.qty + side * f
  BY DEF Sides
<1>5. \/ side = 1 /\ q >= 0 /\ n = q + f
      \/ side = -1 /\ q <= 0 /\ n = q - f
  BY <1>4 DEF Sides, Sign
<1>6. n # 0 /\ Abs(n) \in Nat /\ Abs(n) > 0 /\ Abs(q) \in Nat /\ Abs(n) > Abs(q)
  BY <1>5 DEF Abs
<1>7. q * n >= 0
  <2>1. CASE q >= 0 /\ n >= 0
    BY <2>1
  <2>2. CASE q <= 0 /\ n <= 0
    BY <2>2
  <2> QED BY <1>5, <2>1, <2>2
<1>8. w \in Nat
  <2>1. PICK x \in Nat : x = Abs(q) * a.avg + f * price
    BY <1>6
  <2>2. PICK y \in Nat : y = Abs(n) /\ y > 0
    BY <1>6
  <2>3. x \div y \in Nat
    BY <2>2
  <2> QED BY <1>1, <1>4, <2>1, <2>2, <2>3
<1>9. b.opened \in Nat
  BY <1>0, <1>3
<1> QED BY <1>0, <1>3, <1>4, <1>6, <1>7, <1>8, <1>9

\* A fill against a position realises what it closes, and opens the rest at
\* its price: what was paid and what is held change by the same sum.
LEMMA FillReduces ==
    ASSUME NEW a, Account(a), NEW side \in Sides, NEW f \in Nat \ {0}, NEW price \in Nat, NEW t \in Nat,
           ~(Sign(a.qty) \in {0, side}), NEW b, b = ApplyFill(a, side, f, price, t)
    PROVE  /\ b.cash \in Int /\ b.avg \in Nat /\ b.qty = a.qty + side * f /\ b.qty \in Int
           /\ b.opened \in Nat \cup {None} /\ (b.qty = 0 <=> b.opened = None)
           /\ b.lastHour = a.lastHour
           /\ b.cash - b.qty * b.avg = a.cash - a.qty * a.avg - side * f * price - Fee
<1> USE DEF Account
<1>0. Fee \in Nat /\ None \notin Int
  BY DeskAssumption
<1>1. PICK closed : closed = Earlier(f, Abs(a.qty))
  OBVIOUS
<1>2. b = [a EXCEPT !.qty = a.qty + side * f,
                    !.cash = a.cash + closed * (price - a.avg) * Sign(a.qty) - Fee,
                    !.avg = IF closed < f THEN price ELSE IF a.qty + side * f = 0 THEN 0 ELSE a.avg,
                    !.opened = IF closed < f THEN t ELSE IF a.qty + side * f = 0 THEN None ELSE a.opened]
  BY <1>1 DEF ApplyFill
<1>3. /\ b.qty = a.qty + side * f /\ b.lastHour = a.lastHour
      /\ b.cash = a.cash + closed * (price - a.avg) * Sign(a.qty) - Fee
      /\ b.avg = IF closed < f THEN price ELSE IF a.qty + side * f = 0 THEN 0 ELSE a.avg
      /\ b.opened = IF closed < f THEN t ELSE IF a.qty + side * f = 0 THEN None ELSE a.opened
  BY <1>2
<1>4. PICK q \in Int, c \in Int, v \in Nat : q = a.qty /\ c = a.cash /\ v = a.avg
  OBVIOUS
<1>5. \/ side = 1 /\ q < 0 /\ Sign(q) = -1 /\ Abs(q) = -q
      \/ side = -1 /\ q > 0 /\ Sign(q) = 1 /\ Abs(q) = q
  BY <1>4 DEF Sides, Sign, Abs
<1>6. CASE side = -1 /\ q > 0 /\ Sign(q) = 1 /\ Abs(q) = q
  <2>1. CASE f < q
    <3>1. closed = f /\ ~(closed < f) /\ q + (-1) * f # 0
      BY <1>1, <1>4, <1>6, <2>1 DEF Earlier
    <3>2. b.cash = c + f * (price - v) * 1 - Fee /\ b.avg = v /\ b.opened = a.opened /\ b.qty = q + (-1) * f
      BY <1>3, <1>4, <1>6, <3>1
    <3>3. a.opened \in Nat
      BY <1>4, <1>6
    <3> QED BY <1>0, <1>3, <1>4, <1>6, <3>1, <3>2, <3>3, ReduceSum
  <2>2. CASE f = q
    <3>1. closed = f /\ ~(closed < f) /\ q + (-1) * f = 0
      BY <1>1, <1>4, <1>6, <2>2 DEF Earlier
    <3>2. b.cash = c + f * (price - v) * 1 - Fee /\ b.avg = 0 /\ b.opened = None /\ b.qty = q + (-1) * f
      BY <1>3, <1>4, <1>6, <3>1
    <3>3. (q + (-1) * f) * v = 0 /\ (q + (-1) * f) * 0 = 0
      BY <3>1
    <3>4. (c + f * (price - v) * 1 - Fee) - (q + (-1) * f) * v = c - q * v - (-1) * f * price - Fee
      BY <1>0, ReduceSum
    <3>5. c + f * (price - v) * 1 - Fee \in Int /\ q + (-1) * f \in Int
      BY <1>0
    <3>6. b.cash - b.qty * b.avg = a.cash - a.qty * a.avg - side * f * price - Fee
      BY <1>4, <1>6, <3>2, <3>3, <3>4
    <3> QED BY <1>0, <1>3, <1>4, <1>6, <3>1, <3>2, <3>5, <3>6
  <2>3. CASE f > q
    <3>1. closed = q /\ closed < f /\ q + (-1) * f # 0
      BY <1>1, <1>4, <1>6, <2>3 DEF Earlier
    <3>2. b.cash = c + q * (price - v) * 1 - Fee /\ b.avg = price /\ b.opened = t /\ b.qty = q + (-1) * f
      BY <1>3, <1>4, <1>6, <3>1
    <3>3. (c + q * (price - v) * 1 - Fee) - (q + (-1) * f) * price = c - q * v - (-1) * f * price - Fee
      BY <1>0, FlipSum
    <3>4. c + q * (price - v) * 1 - Fee \in Int /\ q + (-1) * f \in Int
      BY <1>0
    <3>5. b.cash - b.qty * b.avg = a.cash - a.qty * a.avg - side * f * price - Fee
      BY <1>4, <1>6, <3>2, <3>3
    <3> QED BY <1>0, <1>3, <1>4, <1>6, <3>1, <3>2, <3>4, <3>5
  <2> QED BY <2>1, <2>2, <2>3
<1>7. CASE side = 1 /\ q < 0 /\ Sign(q) = -1 /\ Abs(q) = -q
  <2>1. CASE f < -q
    <3>1. closed = f /\ ~(closed < f) /\ q + 1 * f # 0
      BY <1>1, <1>4, <1>7, <2>1 DEF Earlier
    <3>2. b.cash = c + f * (price - v) * (-1) - Fee /\ b.avg = v /\ b.opened = a.opened /\ b.qty = q + 1 * f
      BY <1>3, <1>4, <1>7, <3>1
    <3>3. a.opened \in Nat
      BY <1>4, <1>7
    <3> QED BY <1>0, <1>3, <1>4, <1>7, <3>1, <3>2, <3>3, ReduceSum
  <2>2. CASE f = -q
    <3>1. closed = f /\ ~(closed < f) /\ q + 1 * f = 0
      BY <1>1, <1>4, <1>7, <2>2 DEF Earlier
    <3>2. b.cash = c + f * (price - v) * (-1) - Fee /\ b.avg = 0 /\ b.opened = None /\ b.qty = q + 1 * f
      BY <1>3, <1>4, <1>7, <3>1
    <3>3. (q + 1 * f) * v = 0 /\ (q + 1 * f) * 0 = 0
      BY <3>1
    <3>4. (c + f * (price - v) * (-1) - Fee) - (q + 1 * f) * v = c - q * v - 1 * f * price - Fee
      BY <1>0, ReduceSum
    <3>5. c + f * (price - v) * (-1) - Fee \in Int /\ q + 1 * f \in Int
      BY <1>0
    <3>6. b.cash - b.qty * b.avg = a.cash - a.qty * a.avg - side * f * price - Fee
      BY <1>4, <1>7, <3>2, <3>3, <3>4
    <3> QED BY <1>0, <1>3, <1>4, <1>7, <3>1, <3>2, <3>5, <3>6
  <2>3. CASE f > -q
    <3>1. closed = -q /\ closed < f /\ q + 1 * f # 0
      BY <1>1, <1>4, <1>7, <2>3 DEF Earlier
    <3>2. b.cash = c + (-q) * (price - v) * (-1) - Fee /\ b.avg = price /\ b.opened = t /\ b.qty = q + 1 * f
      BY <1>3, <1>4, <1>7, <3>1
    <3>3. (c + (-q) * (price - v) * (-1) - Fee) - (q + 1 * f) * price = c - q * v - 1 * f * price - Fee
      BY <1>0, FlipSum
    <3>4. c + (-q) * (price - v) * (-1) - Fee \in Int /\ q + 1 * f \in Int
      BY <1>0
    <3>5. b.cash - b.qty * b.avg = a.cash - a.qty * a.avg - side * f * price - Fee
      BY <1>4, <1>7, <3>2, <3>3
    <3> QED BY <1>0, <1>3, <1>4, <1>7, <3>1, <3>2, <3>4, <3>5
  <2> QED BY <2>1, <2>2, <2>3
<1> QED BY <1>5, <1>6, <1>7

-----------------------------------------------------------------------------
(* Cash.                                                                   *)

\* What place_tx writes when it sends: the settlement s, the fill f of the
\* order o, and its row.
SentRecord(c, o, f) ==
    [coid |-> call[c].req.coid, print |-> Fingerprint(call[c].req),
     ro |-> ReduceOnly(call[c].req), side |-> o.side, asked |-> o.qty, filled |-> f,
     px |-> IF f = 0 THEN 0 ELSE call[c].book, ts |-> call[c].t]

SentFill(c, s, o, f) ==
    /\ s = Settled(acct, owed, call[c].rate, call[c].t)
    /\ o.side \in Sides /\ o.qty \in Nat /\ f \in 0..o.qty
    /\ owed' = s.owed /\ funding' = funding \o s.booked
    /\ \/ f = 0 /\ acct' = s.acct
       \/ f # 0 /\ \E x : acct' = [ApplyFill(s.acct, o.side, f, call[c].book, call[c].t) EXCEPT !.exitAt = x]
    /\ orders' = Append(orders, SentRecord(c, o, f)) /\ SentRecord(c, o, f) \in OrderRec

LEMMA SentFills ==
    ASSUME DeskTypes, NEW c \in Calls, PlaceSent(c)
    PROVE  \E s, o, f : SentFill(c, s, o, f)
<1>0. MayJudge(c) /\ call[c].req \in Request /\ call[c].at = "ready"
      /\ call[c].book \in Prices /\ call[c] \in CallRec /\ acct.qty \in Int
  BY DEF PlaceSent, DeskTypes, CallTypes, MayJudge, AcctTypes
<1>1. PICK in \in Inputs(c) :
         LET j == Judged(c, in)
             k == call[c]
             a == j.settled.acct
         IN  /\ Judges(j)
             /\ j.allow
             /\ \E f \in 0..(IF in.book = None THEN 0 ELSE j.order.qty) :
                  LET filled == ApplyFill(a, j.order.side, f, k.book, k.t) IN
                  /\ acct' = IF f = 0 THEN a
                             ELSE [filled EXCEPT !.exitAt = ExitDeadline(a, filled, call[c].req.exitAt)]
                  /\ orders' = Append(orders,
                                 [coid |-> call[c].req.coid, print |-> Fingerprint(call[c].req),
                                  ro |-> ReduceOnly(call[c].req), side |-> j.order.side,
                                  asked |-> j.order.qty, filled |-> f,
                                  px |-> IF f = 0 THEN 0 ELSE k.book, ts |-> k.t])
  BY DEF PlaceSent
<1>2. PICK j : j = Judged(c, in)
  OBVIOUS
<1>3. PICK s : s = Settled(acct, owed, call[c].rate, call[c].t)
  OBVIOUS
<1>4. PICK o : o = OrderOf(c, s.acct)
  OBVIOUS
<1>5. j.settled = s /\ j.order = o
  BY <1>2, <1>3, <1>4 DEF Judged
<1>6. s.acct.qty = acct.qty
  BY <1>3, SettledKeeps DEF DeskTypes
<1>7. o.qty \in Nat /\ (call[c].req.close => o.side = -Sign(acct.qty))
  BY <1>0, <1>4, <1>6, OrderTyped DEF DeskTypes
<1>8. o.side \in Sides
  <2>1. \/ ~ReduceOnly(call[c].req)
        \/ acct.qty # 0 /\ o.side = -Sign(acct.qty)
    <3>1. PICK kill, rolled, equity :
            \/ EntryAllowed(c, s.acct, o, in, kill, rolled, equity)
            \/ ExitAllowed(c, s.acct, o, in, kill, rolled)
      <4>1. j.allow
        BY <1>1, <1>2
      <4>2. \E kill, rolled, equity :
              j.allow <=> \/ EntryAllowed(c, s.acct, o, in, kill, rolled, equity)
                          \/ ExitAllowed(c, s.acct, o, in, kill, rolled)
        BY <1>2, <1>3, <1>4 DEF Judged
      <4> QED BY <4>1, <4>2
    <3> QED BY <1>6, <3>1 DEF EntryAllowed, ExitAllowed, Reduces
  <2>2. CASE ~ReduceOnly(call[c].req)
    <3>1. o.side = call[c].req.side /\ call[c].req.side \in Sides
      BY <1>0, <1>4, <2>2 DEF ReduceOnly, OrderOf, Request
    <3> QED BY <3>1
  <2>3. CASE acct.qty # 0 /\ o.side = -Sign(acct.qty)
    <3>1. acct.qty > 0 \/ acct.qty < 0
      BY <1>0, <2>3
    <3> QED BY <1>0, <2>3, <3>1, SignOf DEF Sides
  <2> QED BY <2>1, <2>2, <2>3
<1>9. owed' = s.owed /\ funding' = funding \o s.booked
  BY <1>1, <1>2, <1>5 DEF Judges
<1>10. PICK f \in 0..(IF in.book = None THEN 0 ELSE o.qty) :
         /\ acct' = IF f = 0 THEN s.acct
                    ELSE [ApplyFill(s.acct, o.side, f, call[c].book, call[c].t) EXCEPT
                            !.exitAt = ExitDeadline(s.acct, ApplyFill(s.acct, o.side, f, call[c].book, call[c].t),
                                                    call[c].req.exitAt)]
         /\ orders' = Append(orders, SentRecord(c, o, f))
  BY <1>1, <1>2, <1>5 DEF SentRecord
<1>11. f \in 0..o.qty /\ f \in Nat
  BY <1>7, <1>10
<1>12. SentRecord(c, o, f) \in OrderRec
  <2>1. Fingerprint(call[c].req) \in [close: BOOLEAN, side: Int, qty: Nat] /\ ReduceOnly(call[c].req) \in BOOLEAN
        /\ call[c].req.coid \in STRING
    BY <1>0, FingerprintTyped DEF Request
  <2>2. o.side \in Int /\ (IF f = 0 THEN 0 ELSE call[c].book) \in Nat /\ call[c].t \in Nat
    <3>1. o.side \in Int
      BY <1>8 DEF Sides
    <3>2. call[c].book \in Nat
      BY <1>0, DeskAssumption
    <3>3. call[c].t \in Nat
      BY <1>0 DEF CallRec
    <3> QED BY <3>1, <3>2, <3>3
  <2> QED BY <1>7, <1>11, <2>1, <2>2, Zenon DEF OrderRec, SentRecord
<1>13. \/ f = 0 /\ acct' = s.acct
       \/ f # 0 /\ \E x : acct' = [ApplyFill(s.acct, o.side, f, call[c].book, call[c].t) EXCEPT !.exitAt = x]
  BY <1>10
<1> QED BY <1>3, <1>7, <1>8, <1>9, <1>10, <1>11, <1>12, <1>13 DEF SentFill

\* Units are added to a position at an average without a rounding: the model
\* divides whole numbers where the code divides floating-point ones.
AverageExact ==
    NewOrder /\ acct.qty * acct'.qty >= 0 /\ Abs(acct'.qty) > Abs(acct.qty) =>
        acct'.qty * acct'.avg = acct.qty * acct.avg + (acct'.qty - acct.qty) * orders'[Len(orders')].px

\* The cash, less the cost of what is held, is the deposit less what was paid.
Balanced(a, os, rows) ==
    a.cash - a.qty * a.avg
      = InitialCash - Paid(os) - Fee * Cardinality(Filled(os)) - Rate * Charged(rows)

LEMMA BalanceSum ==
    ASSUME NEW s \in Int, NEW p \in Int, NEW n \in Nat, NEW r \in Int, NEW i \in Int, NEW e \in Nat,
           NEW k \in Nat, NEW x \in Int, NEW w \in Int
    PROVE  /\ s = i - p - e * n - k * r => s - k * x = i - p - e * n - k * (r + x)
           /\ s = i - p - e * n - k * r => s - w - e = i - (p + w) - e * (n + 1) - k * r
  OBVIOUS

\* What a fill makes of the account: its types, and the balance when the
\* average is exact.
LEMMA SentMoney ==
    ASSUME DeskTypes, MoneyTypes, NEW c \in Calls, PlaceSent(c)
    PROVE  /\ MoneyTypes'
           /\ Balanced(acct, orders, funding) /\ AverageExact => Balanced(acct, orders, funding)'
<1>1. PICK s, o, f : SentFill(c, s, o, f)
  BY SentFills
<1>2. /\ call[c].rate \in BOOLEAN /\ call[c].t \in Nat /\ call[c].book \in Nat /\ acct.qty \in Int
      /\ orders \in Seq(OrderRec) /\ acct.avg \in Nat /\ acct.cash \in Int
      /\ acct.opened \in Nat \cup {None} /\ (acct.qty = 0 <=> acct.opened = None)
      /\ funding \in Seq(FundRec) /\ Fee \in Nat /\ Rate \in Nat /\ InitialCash \in Nat /\ None \notin Int
  <2>1. call[c] \in CallRec /\ call[c].at = "ready" /\ call[c].book \in Prices
    BY DEF PlaceSent, MayJudge, DeskTypes, CallTypes
  <2>2. call[c].rate \in BOOLEAN
    BY <2>1, Zenon DEF CallRec
  <2>3. call[c].t \in Nat /\ call[c].book \in Nat
    BY <2>1, DeskAssumption DEF CallRec
  <2>4. /\ orders \in Seq(OrderRec) /\ acct.qty \in Int
        /\ acct.avg \in Nat /\ acct.cash \in Int /\ funding \in Seq(FundRec)
        /\ acct.opened \in Nat \cup {None} /\ (acct.qty = 0 <=> acct.opened = None)
    BY DEF DeskTypes, AcctTypes, OrderTypes, MoneyTypes
  <2>5. Fee \in Nat /\ Rate \in Nat /\ InitialCash \in Nat /\ None \notin Int
    BY DeskAssumption
  <2> QED BY <2>2, <2>3, <2>4, <2>5
<1>3. /\ s.booked \in Seq(FundRec) /\ s.owed \in Seq(FundRec) /\ Charged(s.booked) \in Int
      /\ s.acct.cash = acct.cash - Rate * Charged(s.booked) /\ s.acct.cash \in Int
      /\ s.acct.avg = acct.avg /\ s.acct.qty = acct.qty /\ s.acct.opened = acct.opened
      /\ s.acct.lastHour \in Nat \cup {None}
      /\ DOMAIN s.acct = {"cash", "qty", "avg", "opened", "lastHour", "exitAt"}
  <2>1. s = Settled(acct, owed, call[c].rate, call[c].t)
    BY <1>1 DEF SentFill
  <2> QED BY <1>2, <2>1, SettlesMoney
<1>4. funding' \in Seq(FundRec) /\ owed' \in Seq(FundRec)
      /\ Charged(funding') = Charged(funding) + Charged(s.booked) /\ Charged(funding) \in Int
  <2>1. funding' = funding \o s.booked /\ owed' = s.owed
    BY <1>1 DEF SentFill
  <2>2. PICK r : r = s.booked /\ r \in Seq(FundRec)
    BY <1>3
  <2>3. funding \o r \in Seq(FundRec)
    BY <1>2, <2>2, ConcatProperties
  <2>4. Charged(funding \o r) = Charged(funding) + Charged(r) /\ Charged(funding) \in Int
    BY <1>2, <2>2, ChargedJoins
  <2> QED BY <1>3, <2>1, <2>2, <2>3, <2>4
<1>5. PICK row \in OrderRec : row = SentRecord(c, o, f) /\ orders' = Append(orders, row)
  BY <1>1 DEF SentFill
<1>6. /\ Paid(orders') = Paid(orders) + PaidOf(row) /\ Paid(orders) \in Int /\ PaidOf(row) \in Int
      /\ Cardinality(Filled(orders')) = Cardinality(Filled(orders)) + IF row.filled > 0 THEN 1 ELSE 0
      /\ Cardinality(Filled(orders)) \in Nat
  <2>1. PICK os : os = orders /\ os \in Seq(OrderRec)
    BY <1>2
  <2> QED BY <1>5, <2>1, PaidAppends, PaidTyped
<1>7. row.filled = f /\ row.side = o.side /\ row.px = (IF f = 0 THEN 0 ELSE call[c].book)
  BY <1>5 DEF SentRecord
<1>8. o.side \in Sides /\ f \in Nat
  BY <1>1 DEF SentFill
<1>9. orders'[Len(orders')] = row /\ NewOrder
  <2>1. Len(orders) \in Nat /\ Len(orders') = Len(orders) + 1 /\ orders'[Len(orders) + 1] = row
    BY <1>2, <1>5, AppendProperties, LenProperties
  <2> QED BY <2>1 DEF NewOrder
\* The settlement alone keeps the balance.
<1>10. Balanced(acct, orders, funding) =>
         s.acct.cash - s.acct.qty * s.acct.avg
           = InitialCash - Paid(orders) - Fee * Cardinality(Filled(orders)) - Rate * Charged(funding')
  <2> SUFFICES ASSUME Balanced(acct, orders, funding)
               PROVE  s.acct.cash - s.acct.qty * s.acct.avg
                        = InitialCash - Paid(orders) - Fee * Cardinality(Filled(orders)) - Rate * Charged(funding')
    OBVIOUS
  <2>1. PICK b \in Int, z \in Int : z = acct.cash /\ b = acct.qty * acct.avg
    BY <1>2
  <2>2. PICK p \in Int, n \in Nat, r \in Int, x \in Int :
          p = Paid(orders) /\ n = Cardinality(Filled(orders)) /\ r = Charged(funding) /\ x = Charged(s.booked)
    BY <1>3, <1>4, <1>6
  <2>3. z - b = InitialCash - p - Fee * n - Rate * r
    BY <2>1, <2>2 DEF Balanced
  <2>4. (z - b) - Rate * x = InitialCash - p - Fee * n - Rate * (r + x)
    BY <1>2, <2>3, BalanceSum
  <2>5. (z - Rate * x) - b = (z - b) - Rate * x
    BY <1>2
  <2>6. s.acct.cash = z - Rate * x /\ s.acct.qty * s.acct.avg = b /\ Charged(funding') = r + x
    BY <1>3, <1>4, <2>1, <2>2
  <2> QED BY <2>2, <2>4, <2>5, <2>6
<1>11. CASE f = 0
  <2>1. acct' = s.acct
    BY <1>1, <1>11 DEF SentFill
  <2>2. MoneyTypes'
    BY <1>2, <1>3, <1>4, <2>1 DEF MoneyTypes
  <2>3. PaidOf(row) = 0
    <3>1. PICK x \in Int : x = o.side
      BY <1>8 DEF Sides
    <3>2. x * 0 * 0 = 0
      OBVIOUS
    <3> QED BY <1>7, <1>11, <3>1, <3>2 DEF PaidOf
  <2>4. Paid(orders') = Paid(orders) /\ Cardinality(Filled(orders')) = Cardinality(Filled(orders))
    BY <1>6, <1>7, <1>11, <2>3
  <2>5. Balanced(acct, orders, funding) => Balanced(acct, orders, funding)'
    BY <1>10, <2>1, <2>4 DEF Balanced
  <2> QED BY <2>2, <2>5
<1>12. CASE f # 0
  <2>1. PICK a : a = s.acct
    OBVIOUS
  <2>a. PICK side \in Sides, price \in Nat, t \in Nat : side = o.side /\ price = call[c].book /\ t = call[c].t
    BY <1>2, <1>8
  <2>2. PICK b : b = ApplyFill(a, side, f, price, t)
    OBVIOUS
  <2>3. PICK x : acct' = [b EXCEPT !.exitAt = x]
    BY <1>1, <1>12, <2>1, <2>2, <2>a DEF SentFill
  <2>4. DOMAIN b = {"cash", "qty", "avg", "opened", "lastHour", "exitAt"}
    <3>1. DOMAIN a = {"cash", "qty", "avg", "opened", "lastHour", "exitAt"} /\ a.qty \in Int
      BY <1>2, <1>3, <2>1
    <3> QED BY <2>2, <3>1, FillOpens
  <2>5. /\ acct'.cash = b.cash /\ acct'.qty = b.qty /\ acct'.avg = b.avg
        /\ acct'.opened = b.opened /\ acct'.lastHour = b.lastHour
    BY <2>3, <2>4
  <2>6. /\ DOMAIN a = {"cash", "qty", "avg", "opened", "lastHour", "exitAt"}
        /\ a.qty \in Int /\ a.cash \in Int /\ a.avg \in Nat /\ a.opened \in Nat \cup {None}
        /\ f \in Nat \ {0} /\ a.lastHour \in Nat \cup {None}
        /\ a.qty = acct.qty /\ a.avg = acct.avg /\ Account(a)
    <3>1. a.qty = acct.qty /\ a.avg = acct.avg /\ a.opened = acct.opened
      BY <1>3, <2>1
    <3>2. a.qty = 0 <=> a.opened = None
      BY <1>2, <3>1
    <3>3. /\ DOMAIN a = {"cash", "qty", "avg", "opened", "lastHour", "exitAt"}
          /\ a.cash \in Int /\ a.lastHour \in Nat \cup {None}
      BY <1>3, <2>1
    <3>4. f \in Nat \ {0}
      BY <1>8, <1>12
    <3>5. a.qty \in Int /\ a.avg \in Nat /\ a.opened \in Nat \cup {None}
      BY <1>2, <3>1
    <3> QED BY <3>1, <3>2, <3>3, <3>4, <3>5 DEF Account
  <2>7. PaidOf(row) = o.side * f * call[c].book
    BY <1>7, <1>12 DEF PaidOf
  <2>8. /\ b.cash \in Int /\ b.avg \in Nat /\ b.qty \in Int /\ b.lastHour = a.lastHour
        /\ b.opened \in Nat \cup {None} /\ (b.qty = 0 <=> b.opened = None)
        /\ AverageExact => b.cash - b.qty * b.avg = a.cash - a.qty * a.avg - PaidOf(row) - Fee
    <3>1. CASE Sign(a.qty) \in {0, o.side}
      <4>1. /\ b.cash = a.cash - Fee /\ b.cash \in Int /\ b.avg \in Nat /\ b.qty = a.qty + o.side * f
            /\ b.qty \in Int /\ b.qty # 0 /\ b.opened \in Nat /\ b.lastHour = a.lastHour
            /\ a.qty * b.qty >= 0 /\ Abs(b.qty) > Abs(a.qty)
        <5>1. Sign(a.qty) \in {0, side}
          BY <2>a, <3>1
        <5>2. /\ b.cash = a.cash - Fee /\ b.cash \in Int /\ b.avg \in Nat /\ b.qty = a.qty + side * f
              /\ b.qty \in Int /\ b.qty # 0 /\ b.opened \in Nat /\ b.lastHour = a.lastHour
              /\ a.qty * b.qty >= 0 /\ Abs(b.qty) > Abs(a.qty)
          BY <2>2, <2>6, <5>1, FillAdds
        <5> QED BY <2>a, <5>2
      <4>2. AverageExact => b.qty * b.avg = a.qty * a.avg + (b.qty - a.qty) * call[c].book
        <5>1. row.px = call[c].book
          BY <1>7, <1>12
        <5> QED BY <1>9, <2>5, <2>6, <4>1, <5>1 DEF AverageExact
      <4>3. AverageExact => b.cash - b.qty * b.avg = a.cash - a.qty * a.avg - PaidOf(row) - Fee
        <5> SUFFICES ASSUME AverageExact
                     PROVE  b.cash - b.qty * b.avg = a.cash - a.qty * a.avg - PaidOf(row) - Fee
          OBVIOUS
        <5>1. PICK q \in Int, v \in Int, m \in Int, u \in Int :
                q = a.qty /\ v = a.avg /\ m = a.cash /\ u = o.side * f
          BY <1>8, <2>6 DEF Sides
        <5>2. b.qty - a.qty = u
          BY <2>6, <4>1, <5>1
        <5>3. PICK w \in Int : w = u * call[c].book
          BY <1>2
        <5>4. b.qty * b.avg = q * v + w
          BY <4>2, <5>1, <5>2, <5>3
        <5>5. PICK g \in Int : g = q * v
          OBVIOUS
        <5>6. (m - Fee) - (g + w) = m - g - w - Fee
          BY <1>2
        <5>7. PaidOf(row) = w
          BY <2>7, <5>1, <5>3
        <5> QED BY <4>1, <5>1, <5>4, <5>5, <5>6, <5>7
      <4> QED BY <1>2, <4>1, <4>3
    <3>2. CASE ~(Sign(a.qty) \in {0, o.side})
      <4>1. /\ b.cash \in Int /\ b.avg \in Nat /\ b.qty = a.qty + o.side * f /\ b.qty \in Int
            /\ b.opened \in Nat \cup {None} /\ (b.qty = 0 <=> b.opened = None)
            /\ b.lastHour = a.lastHour
            /\ b.cash - b.qty * b.avg = a.cash - a.qty * a.avg - o.side * f * call[c].book - Fee
        <5>1. ~(Sign(a.qty) \in {0, side})
          BY <2>a, <3>2
        <5>2. /\ b.cash \in Int /\ b.avg \in Nat /\ b.qty = a.qty + side * f /\ b.qty \in Int
              /\ b.opened \in Nat \cup {None} /\ (b.qty = 0 <=> b.opened = None)
              /\ b.lastHour = a.lastHour
              /\ b.cash - b.qty * b.avg = a.cash - a.qty * a.avg - side * f * price - Fee
          BY <2>2, <2>6, <5>1, FillReduces
        <5> QED BY <2>a, <5>2
      <4> QED BY <2>7, <4>1
    <3> QED BY <3>1, <3>2
  <2>9. MoneyTypes'
    BY <1>4, <2>5, <2>6, <2>8 DEF MoneyTypes
  <2>10. Balanced(acct, orders, funding) /\ AverageExact => Balanced(acct, orders, funding)'
    <3> SUFFICES ASSUME Balanced(acct, orders, funding), AverageExact
                 PROVE  acct'.cash - acct'.qty * acct'.avg
                          = InitialCash - Paid(orders') - Fee * Cardinality(Filled(orders')) - Rate * Charged(funding')
      BY DEF Balanced
    <3>1. PICK p \in Int, n \in Nat, r \in Int, w \in Int :
            p = Paid(orders) /\ n = Cardinality(Filled(orders)) /\ r = Charged(funding') /\ w = PaidOf(row)
      BY <1>3, <1>4, <1>6
    <3>2. PICK z \in Int : z = a.cash - a.qty * a.avg
      BY <2>6
    <3>3. z = InitialCash - p - Fee * n - Rate * r
      BY <1>10, <2>1, <3>1, <3>2
    <3>4. z - w - Fee = InitialCash - (p + w) - Fee * (n + 1) - Rate * r
      BY <1>2, <3>3, BalanceSum
    <3>5. acct'.cash - acct'.qty * acct'.avg = z - w - Fee
      BY <2>5, <2>8, <3>1, <3>2
    <3>6. Cardinality(Filled(orders')) = n + 1 /\ Paid(orders') = p + w
      <4>1. f > 0
        BY <1>8, <1>12
      <4> QED BY <1>6, <1>7, <3>1, <4>1
    <3> QED BY <3>1, <3>4, <3>5, <3>6
  <2> QED BY <2>9, <2>10
<1> QED BY <1>11, <1>12

LEMMA PaidNone == Paid(<<>>) = 0 /\ Cardinality(Filled(<<>>)) = 0
<1>1. DOMAIN <<>> = {} /\ IsFiniteSet({})
  BY FS_EmptySet, EmptySeq
<1>2. PICK f : f = [i \in DOMAIN <<>> |-> PaidOf(<<>>[i])]
  OBVIOUS
<1>3. DOMAIN f = {}
  BY <1>1, <1>2
<1>4. SumFunctionOnSet(f, {}) = 0
  BY <1>1, SumUnfolds
<1>5. Filled(<<>>) = {}
  BY <1>1 DEF Filled
<1>6. Cardinality({}) = 0
  BY FS_EmptySet
<1>7. Paid(<<>>) = 0
  BY <1>2, <1>3, <1>4 DEF Paid, SumFunction
<1> QED BY <1>5, <1>6, <1>7

LEMMA PaidTypes ==
    ASSUME NEW os \in Seq(OrderRec)
    PROVE  Paid(os) \in Int /\ Cardinality(Filled(os)) \in Nat
<1>1. CASE OrderRec = {}
  <2>1. os = <<>>
    BY <1>1, EmptySeq
  <2> QED BY <2>1, PaidNone
<1>2. CASE OrderRec # {}
  <2>1. PICK o : o \in OrderRec
    BY <1>2
  <2> QED BY <2>1, PaidAppends
<1> QED BY <1>1, <1>2

\* A settlement without an order keeps the balance: what it books leaves the
\* cash.
LEMMA SettledMoney ==
    ASSUME DeskTypes, MoneyTypes, NEW rate \in BOOLEAN, NEW t \in Nat, NEW s,
           s = Settled(acct, owed, rate, t), acct' = s.acct, owed' = s.owed,
           funding' = funding \o s.booked, orders' = orders
    PROVE  /\ MoneyTypes'
           /\ Balanced(acct, orders, funding) => Balanced(acct, orders, funding)'
<1>1. /\ s.booked \in Seq(FundRec) /\ s.owed \in Seq(FundRec) /\ Charged(s.booked) \in Int
      /\ s.acct.cash = acct.cash - Rate * Charged(s.booked) /\ s.acct.cash \in Int
      /\ s.acct.avg = acct.avg /\ s.acct.qty = acct.qty /\ s.acct.opened = acct.opened
      /\ s.acct.lastHour \in Nat \cup {None}
  BY SettlesMoney
<1>2. /\ orders \in Seq(OrderRec) /\ acct.qty \in Int /\ acct.avg \in Nat /\ acct.cash \in Int
      /\ acct.opened \in Nat \cup {None} /\ (acct.qty = 0 <=> acct.opened = None)
      /\ funding \in Seq(FundRec)
  BY DEF DeskTypes, AcctTypes, OrderTypes, MoneyTypes
<1>3. Fee \in Nat /\ Rate \in Nat /\ InitialCash \in Nat
  BY DeskAssumption
<1>4. funding' \in Seq(FundRec)
      /\ Charged(funding') = Charged(funding) + Charged(s.booked) /\ Charged(funding) \in Int
  <2>1. PICK r : r = s.booked /\ r \in Seq(FundRec)
    BY <1>1
  <2>2. funding \o r \in Seq(FundRec)
    BY <1>2, <2>1, ConcatProperties
  <2>3. Charged(funding \o r) = Charged(funding) + Charged(r) /\ Charged(funding) \in Int
    BY <1>2, <2>1, ChargedJoins
  <2> QED BY <2>1, <2>2, <2>3
<1>5. MoneyTypes'
  BY <1>1, <1>2, <1>4 DEF MoneyTypes
<1>6. ASSUME Balanced(acct, orders, funding)
      PROVE  acct'.cash - acct'.qty * acct'.avg
               = InitialCash - Paid(orders') - Fee * Cardinality(Filled(orders')) - Rate * Charged(funding')
  <2>0. Paid(orders) \in Int /\ Cardinality(Filled(orders)) \in Nat
    BY <1>2, PaidTypes
  <2>1. PICK b \in Int, z \in Int : z = acct.cash /\ b = acct.qty * acct.avg
    BY <1>2
  <2>2. PICK p \in Int, n \in Nat, r \in Int, x \in Int :
          p = Paid(orders) /\ n = Cardinality(Filled(orders)) /\ r = Charged(funding) /\ x = Charged(s.booked)
    BY <1>1, <1>4, <2>0
  <2>3. z - b = InitialCash - p - Fee * n - Rate * r
    BY <1>6, <2>1, <2>2 DEF Balanced
  <2>4. (z - b) - Rate * x = InitialCash - p - Fee * n - Rate * (r + x)
    BY <1>3, <2>3, BalanceSum
  <2>5. (z - Rate * x) - b = (z - b) - Rate * x
    BY <1>3
  <2>6. /\ acct'.cash = z - Rate * x /\ acct'.qty * acct'.avg = b /\ Charged(funding') = r + x
        /\ Paid(orders') = p /\ Cardinality(Filled(orders')) = n
    BY <1>1, <1>4, <2>1, <2>2
  <2> QED BY <2>4, <2>5, <2>6
<1> QED BY <1>5, <1>6 DEF Balanced

\* Every step keeps the money's types, and the balance when its average is
\* exact.
LEMMA MoneyStep ==
    ASSUME DeskTypes, MoneyTypes, [Next]_vars
    PROVE  /\ MoneyTypes'
           /\ Balanced(acct, orders, funding) /\ [AverageExact]_vars => Balanced(acct, orders, funding)'
<1>0. \A c \in Calls : call[c].t \in Nat /\ call[c].rate \in BOOLEAN
  <2>1. \A c \in Calls : call[c] \in CallRec
    BY DEF DeskTypes, CallTypes
  <2> QED BY <2>1 DEF CallRec
<1>1. CASE UNCHANGED <<acct, owed, funding, orders>>
  BY <1>1 DEF MoneyTypes, Balanced
<1>2. ASSUME NEW c \in Calls, Accrue(c)
      PROVE  MoneyTypes' /\ (Balanced(acct, orders, funding) => Balanced(acct, orders, funding)')
  <2>1. PICK s : s = Settled(acct, owed, TRUE, call[c].t)
    OBVIOUS
  <2>2. acct' = s.acct /\ owed' = s.owed /\ funding' = funding \o s.booked /\ orders' = orders
    BY <1>2, <2>1 DEF Accrue
  <2> QED BY <1>0, <2>1, <2>2, SettledMoney
<1>3. ASSUME NEW c \in Calls, PlaceDenied(c)
      PROVE  MoneyTypes' /\ (Balanced(acct, orders, funding) => Balanced(acct, orders, funding)')
  <2>1. PICK s : s = Settled(acct, owed, call[c].rate, call[c].t)
    OBVIOUS
  <2>2. acct' = s.acct /\ owed' = s.owed /\ funding' = funding \o s.booked /\ orders' = orders
    <3>1. PICK in, j : j = Judged(c, in) /\ Judges(j) /\ acct' = j.settled.acct
      BY <1>3 DEF PlaceDenied
    <3>2. j.settled = s
      BY <2>1, <3>1 DEF Judged
    <3> QED BY <1>3, <3>1, <3>2 DEF Judges, PlaceDenied
  <2> QED BY <1>0, <2>1, <2>2, SettledMoney
<1>4. ASSUME NEW c \in Calls, PlaceSent(c)
      PROVE  /\ MoneyTypes'
             /\ Balanced(acct, orders, funding) /\ [AverageExact]_vars => Balanced(acct, orders, funding)'
  <2>1. orders' # orders
    <3>1. PICK s, o, f : SentFill(c, s, o, f)
      BY <1>4, SentFills
    <3>2. PICK row \in OrderRec : orders' = Append(orders, row)
      BY <3>1 DEF SentFill
    <3>3. orders \in Seq(OrderRec)
      BY DEF DeskTypes, OrderTypes
    <3>4. Len(orders') = Len(orders) + 1 /\ Len(orders) \in Nat
      BY <3>2, <3>3, AppendProperties, LenProperties
    <3> QED BY <3>4
  <2>2. [AverageExact]_vars => AverageExact
    BY <2>1 DEF vars, ledger
  <2> QED BY <1>4, <2>2, SentMoney
<1>5. ASSUME NEW c \in Calls, Begin(c) \/ BeginRefused(c) \/ Snapshot(c) \/ NoPosition(c) \/ Arrive(c) \/ PlaceStored(c)
      PROVE  UNCHANGED <<acct, owed, funding, orders>>
  BY <1>5 DEF Begin, BeginRefused, Snapshot, NoPosition, Arrive, PlaceStored, ledger
<1>6. CASE UNCHANGED vars \/ StatusRead \/ StatusCommit \/ TouchFile \/ RiskHalt \/ ResumeAsked \/ ResumeCommit
           \/ MoveMarket \/ Tick
  <2>1. UNCHANGED <<acct, owed, funding, orders>>
    BY <1>6 DEF vars, StatusRead, StatusCommit, TouchFile, RiskHalt, ResumeAsked, ResumeCommit, MoveMarket, Tick, ledger
  <2> QED BY <1>1, <2>1
<1> QED BY <1>1, <1>2, <1>3, <1>4, <1>5, <1>6 DEF Next

LEMMA MoneyStarts == Init => MoneyTypes /\ Balanced(acct, orders, funding)
<1> SUFFICES ASSUME Init PROVE MoneyTypes /\ Balanced(acct, orders, funding)
  OBVIOUS
<1>1. /\ acct.cash = InitialCash /\ acct.qty = 0 /\ acct.avg = 0 /\ acct.opened = None
      /\ acct.lastHour = None /\ orders = <<>> /\ funding = <<>> /\ owed = <<>>
  BY DEF Init, Flat
<1>2. <<>> \in Seq(FundRec)
  BY EmptySeq
<1>3. InitialCash \in Nat /\ Fee \in Nat /\ Rate \in Nat
  BY DeskAssumption
<1>4. MoneyTypes
  BY <1>1, <1>2, <1>3 DEF MoneyTypes
<1>5. Paid(orders) = 0 /\ Cardinality(Filled(orders)) = 0 /\ Charged(funding) = 0
  BY <1>1, PaidNone, ChargedNone
<1>6. 0 * 0 = 0 /\ Fee * 0 = 0 /\ Rate * 0 = 0
  BY <1>3
<1>7. Balanced(acct, orders, funding)
  BY <1>1, <1>3, <1>5, <1>6 DEF Balanced
<1> QED BY <1>4, <1>7

\* Cash is conserved: whatever was bought, sold, flipped and funded, in any
\* order of the calls, cash is the deposit less what was paid out, plus the
\* cost of what is still held (Position::apply_fill, settle, append_cash) -
\* as long as no average was rounded.
THEOREM CashIsConserved == Spec /\ [][AverageExact]_vars => []CashConserved
<1>1. DeskTypes /\ MoneyTypes /\ Balanced(acct, orders, funding) /\ [Next]_vars /\ [AverageExact]_vars
        => MoneyTypes' /\ Balanced(acct, orders, funding)'
  BY MoneyStep
<1>2. DeskTypes /\ MoneyTypes /\ Balanced(acct, orders, funding) => CashConserved
  <2> SUFFICES ASSUME DeskTypes, MoneyTypes, Balanced(acct, orders, funding) PROVE CashConserved
    OBVIOUS
  <2>1. /\ orders \in Seq(OrderRec) /\ acct.qty \in Int /\ acct.avg \in Nat /\ acct.cash \in Int
        /\ funding \in Seq(FundRec)
    BY DEF DeskTypes, AcctTypes, OrderTypes, MoneyTypes
  <2>2. Paid(orders) \in Int /\ Cardinality(Filled(orders)) \in Nat /\ Charged(funding) \in Int
    BY <2>1, PaidTypes, ChargedJoins
  <2>3. PICK p \in Int, n \in Int, r \in Int :
          p = Paid(orders) /\ n = Fee * Cardinality(Filled(orders)) /\ r = Rate * Charged(funding)
    BY <2>2, DeskAssumption
  <2>4. PICK b \in Int, z \in Int : z = acct.cash /\ b = acct.qty * acct.avg
    BY <2>1
  <2>5. z - b = InitialCash - p - n - r
    BY <2>3, <2>4 DEF Balanced
  <2>6. z = InitialCash - p - n - r + b
    BY <2>5, DeskAssumption
  <2>7. SumFunction([i \in DOMAIN orders |-> orders[i].side * orders[i].filled * orders[i].px]) = p
    BY <2>3 DEF Paid, PaidOf
  <2>8. {i \in DOMAIN orders : orders[i].filled > 0} = Filled(orders)
    BY DEF Filled
  <2> QED BY <2>3, <2>4, <2>6, <2>7, <2>8 DEF CashConserved
<1> QED BY <1>1, <1>2, MoneyStarts, DeskTyped, PTL DEF Spec

-----------------------------------------------------------------------------
(* Every variable has its type.                                            *)

\* A risk_state row of a time no later than n.
RiskRow(r, n) ==
    /\ DOMAIN r = {"reason", "since", "day", "base"}
    /\ r.reason \in Reasons \cup {None}
    /\ r.since \in 0..n /\ r.day \in (0..n) \cup {None} /\ r.base \in Int \cup {None}

\* What risk_status has read, at a time that is over.
StatusTypes ==
    /\ status.t \in Nat /\ status.t <= now
    /\ status.mark \in Prices \cup {None}

\* The order rows: a side, and no more filled than asked.
RowTypes == \A i \in DOMAIN orders : orders[i].side \in Sides /\ orders[i].filled <= orders[i].asked

\* The owner, the console and the bounded counters.
RestTypes ==
    /\ now \in StartTime..MaxTime
    /\ owner \in {None, Unowned, Home} \cup {Sandbox[c] : c \in Calls}
    /\ console \in {"idle", "typing"} /\ ops \in 0..MaxOps /\ reads \in 0..MaxReads

LEMMA DayStartIn ==
    ASSUME NEW t \in Nat, NEW n \in Nat, t <= n
    PROVE  DayStart(t) \in 0..n
<1>1. PICK d \in Nat \ {0} : d = Day
  BY DeskAssumption
<1>2. t % d \in 0..(d - 1) /\ t = d * (t \div d) + (t % d) /\ t \div d \in Nat
  OBVIOUS
<1>3. PICK x \in Nat, q \in Nat : x = t % d /\ q = t \div d
  BY <1>2
<1>4. d * q \in Nat
  OBVIOUS
<1>5. PICK y \in Nat : y = d * q
  BY <1>4
<1>6. t = y + x
  BY <1>2, <1>3, <1>5
<1>7. t - x \in 0..n
  BY <1>6
<1> QED BY <1>1, <1>3, <1>7 DEF DayStart

LEMMA HaltTyped ==
    ASSUME NEW r, r.reason \in Reasons \cup {None}, NEW t
    PROVE  EffectiveHalt(r, t) \in Reasons \cup {None}
  BY DEF EffectiveHalt

LEMMA EquityTyped ==
    ASSUME NEW a, a.qty \in Int, a.cash \in Int, a.avg \in Nat, NEW mark \in Nat \cup {None}
    PROVE  Equity(a, mark) \in Int \cup {None}
<1>1. CASE mark = None \/ a.qty = 0
  BY <1>1 DEF Equity
<1>2. CASE mark # None /\ a.qty # 0
  <2>1. PICK q \in Int, z \in Int, v \in Int, m \in Int : q = a.qty /\ z = a.cash /\ v = a.avg /\ m = mark
    BY <1>2
  <2>2. z + q * (m - v) \in Int
    OBVIOUS
  <2> QED BY <1>2, <2>1, <2>2 DEF Equity
<1> QED BY <1>1, <1>2

\* A roll keeps the row one of a time no later than n.
LEMMA RollTyped ==
    ASSUME NEW n \in Nat, NEW t \in Nat, t <= n, NEW r, RiskRow(r, n), NEW e \in Int \cup {None}
    PROVE  RiskRow(Roll(r, t, e), n)
<1>1. PICK w : w = Roll(r, t, e)
  OBVIOUS
<1>2. /\ DOMAIN w = {"reason", "since", "day", "base"} /\ w.reason = EffectiveHalt(r, t)
      /\ w.since \in {0, r.since} /\ w.day = DayStart(t) /\ w.base \in {e, r.base}
  BY <1>1 DEF Roll
<1>3. w.reason \in Reasons \cup {None}
  BY <1>2, HaltTyped DEF RiskRow
<1>4. w.day \in 0..n
  BY <1>2, DayStartIn
<1>5. w.since \in 0..n /\ w.base \in Int \cup {None}
  BY <1>2 DEF RiskRow
<1> QED BY <1>1, <1>2, <1>3, <1>4, <1>5 DEF RiskRow

\* So does a trip: the halt it records is the first of those called for.
LEMMA TripTyped ==
    ASSUME NEW n \in Nat, NEW t \in Nat, t <= n, NEW r, RiskRow(r, n), NEW trips \in SUBSET Reasons
    PROVE  RiskRow(Trip(r, trips, t), n)
<1>1. PICK first : first = TripOrder[Min({i \in DOMAIN TripOrder : TripOrder[i] \in trips})]
  OBVIOUS
<1>2. trips # {} => first \in Reasons
  <2> SUFFICES ASSUME trips # {} PROVE first \in Reasons
    OBVIOUS
  <2>1. DOMAIN TripOrder = 1..4 /\ \A i \in 1..4 : TripOrder[i] \in Reasons
    BY DEF TripOrder, Reasons, Sticky
  <2>2. \E i \in 1..4 : TripOrder[i] \in trips
    <3>1. PICK x : x \in trips /\ x \in {"file", "total_loss", "operator", "daily_loss"}
      BY DEF Reasons, Sticky
    <3>2. TripOrder[1] = "file" /\ TripOrder[2] = "total_loss" /\ TripOrder[3] = "operator"
          /\ TripOrder[4] = "daily_loss"
      BY DEF TripOrder
    <3>3. x \in {TripOrder[1], TripOrder[2], TripOrder[3], TripOrder[4]}
      BY <3>1, <3>2
    <3>4. 1 \in 1..4 /\ 2 \in 1..4 /\ 3 \in 1..4 /\ 4 \in 1..4
      OBVIOUS
    <3> QED BY <3>1, <3>3, <3>4
  <2>3. PICK S : S = {i \in DOMAIN TripOrder : TripOrder[i] \in trips}
    OBVIOUS
  <2>4. S \in SUBSET Nat /\ S # {} /\ S \subseteq 1..4
    BY <2>1, <2>2, <2>3
  <2>5. Min(S) \in S
    BY <2>4, MinIsIn
  <2> QED BY <1>1, <2>1, <2>3, <2>4, <2>5
<1>3. PICK w : w = Trip(r, trips, t)
  OBVIOUS
<1>4. /\ DOMAIN w = {"reason", "since", "day", "base"} /\ w.day = r.day /\ w.base = r.base
      /\ w.since \in {t, 0, r.since}
      /\ w.reason = EffectiveHalt(r, t) \/ (trips # {} /\ w.reason = first)
  BY <1>1, <1>3 DEF Trip, RiskRow
<1>5. w.reason \in Reasons \cup {None}
  BY <1>2, <1>4, HaltTyped DEF RiskRow
<1>6. w.since \in 0..n
  BY <1>4 DEF RiskRow
<1> QED BY <1>3, <1>4, <1>5, <1>6 DEF RiskRow

LEMMA TripsTyped ==
    ASSUME NEW kill, NEW r, NEW e
    PROVE  TripsOf(kill, r, e) \in SUBSET Reasons
  BY DEF TripsOf, Breaches, Reasons, Sticky

\* The risk state a transaction of place_tx writes.
LEMMA JudgedRisk ==
    ASSUME DeskTypes, MoneyTypes, Clocks, RiskRow(risk, now), NEW c \in Calls, NEW in \in Inputs(c)
    PROVE  RiskRow(Judged(c, in).risk, now)
<1>1. /\ now \in Nat /\ call[c].t \in Nat /\ call[c].t <= now /\ call[c].rate \in BOOLEAN
      /\ call[c].mark \in Prices \cup {None}
  <2>1. call[c] \in CallRec /\ now \in Nat
    BY DEF DeskTypes, CallTypes, WorldTypes
  <2>2. call[c].rate \in BOOLEAN /\ call[c].mark \in Prices \cup {None} /\ call[c].t \in Nat
    BY <2>1, Zenon DEF CallRec
  <2> QED BY <2>1, <2>2 DEF Clocks
<1>2. in.mark \in Nat \cup {None}
  <2>1. in.mark \in {call[c].mark, None}
    BY DEF Inputs
  <2> QED BY <1>1, <2>1, DeskAssumption
<1>3. PICK s : s = Settled(acct, owed, call[c].rate, call[c].t)
  OBVIOUS
<1>4. s.acct.cash \in Int /\ s.acct.avg \in Nat /\ s.acct.qty \in Int
  <2>1. s.acct.cash \in Int /\ s.acct.avg = acct.avg /\ s.acct.qty = acct.qty
    BY <1>1, <1>3, SettlesMoney
  <2> QED BY <2>1 DEF DeskTypes, AcctTypes, MoneyTypes
<1>5. PICK e : e = Equity(s.acct, in.mark)
  OBVIOUS
<1>6. e \in Int \cup {None}
  BY <1>2, <1>4, <1>5, EquityTyped
<1>7. PICK r : r = Roll(risk, call[c].t, e)
  OBVIOUS
<1>8. RiskRow(r, now)
  BY <1>1, <1>6, <1>7, RollTyped
<1>9. PICK trips : trips \in SUBSET Reasons /\ Judged(c, in).risk = Trip(r, trips, call[c].t)
  <2>1. PICK o, kill, trips :
          /\ trips = IF IntentOk(s.acct, o, in) THEN TripsOf(kill, r, e) ELSE {}
          /\ Judged(c, in).risk = Trip(r, trips, call[c].t)
    BY <1>3, <1>5, <1>7 DEF Judged
  <2>2. trips \in SUBSET Reasons
    BY <2>1, TripsTyped
  <2> QED BY <2>1, <2>2
<1> QED BY <1>1, <1>8, <1>9, TripTyped

\* The risk state is written by place_tx, risk_status, `tengu risk halt' and
\* `tengu risk resume', each at a clock it has read.
LEMMA RiskStep ==
    DeskTypes /\ MoneyTypes /\ Clocks /\ StatusTypes /\ RiskRow(risk, now) /\ [Next]_vars
      => RiskRow(risk, now)'
<1> SUFFICES ASSUME DeskTypes, MoneyTypes, Clocks, StatusTypes, RiskRow(risk, now), [Next]_vars
             PROVE  RiskRow(risk', now')
  OBVIOUS
<1>0. now \in Nat /\ now' \in Nat /\ now <= now'
  BY TimeMoves
<1>1. ASSUME RiskRow(risk', now) PROVE RiskRow(risk', now')
  BY <1>0, <1>1 DEF RiskRow
<1>2. CASE UNCHANGED risk
  BY <1>1, <1>2
<1>3. ASSUME NEW c \in Calls, PlaceDenied(c) \/ PlaceSent(c) PROVE RiskRow(risk', now)
  <2>1. PICK in \in Inputs(c) : risk' = Judged(c, in).risk
    BY <1>3 DEF PlaceDenied, PlaceSent, Judges
  <2> QED BY <2>1, JudgedRisk
<1>4. CASE StatusCommit
  <2>1. PICK mark \in {status.mark, None} :
          risk' = Trip(Roll(risk, status.t, Equity(acct, mark)),
                       TripsOf(status.kill, Roll(risk, status.t, Equity(acct, mark)), Equity(acct, mark)),
                       status.t)
    BY <1>4 DEF StatusCommit
  <2>2. mark \in Nat \cup {None} /\ status.t \in Nat /\ status.t <= now
    BY DeskAssumption DEF StatusTypes
  <2>3. PICK e : e = Equity(acct, mark) /\ e \in Int \cup {None}
    BY <2>2, EquityTyped DEF DeskTypes, AcctTypes, MoneyTypes
  <2>4. PICK r : r = Roll(risk, status.t, e) /\ RiskRow(r, now)
    BY <1>0, <2>2, <2>3, RollTyped
  <2>5. PICK trips : trips = TripsOf(status.kill, r, e) /\ trips \in SUBSET Reasons
    BY TripsTyped
  <2>6. risk' = Trip(r, trips, status.t)
    BY <2>1, <2>3, <2>4, <2>5
  <2>7. RiskRow(risk', now)
    BY <1>0, <2>2, <2>4, <2>5, <2>6, TripTyped
  <2> QED BY <1>1, <2>7
<1>5. CASE RiskHalt
  <2>1. PICK trips : trips = {"operator"} /\ trips \in SUBSET Reasons
    BY DEF Reasons, Sticky
  <2>2. risk' = Trip(risk, trips, now)
    BY <1>5, <2>1 DEF RiskHalt
  <2>3. RiskRow(risk', now)
    BY <1>0, <2>1, <2>2, TripTyped
  <2> QED BY <1>1, <2>3
<1>6. CASE ResumeCommit
  <2>1. risk' = risk \/ risk' = [risk EXCEPT !.reason = None, !.since = 0]
    BY <1>6 DEF ResumeCommit
  <2>2. CASE risk' = [risk EXCEPT !.reason = None, !.since = 0]
    <3>1. PICK r : r = [risk EXCEPT !.reason = None, !.since = 0]
      OBVIOUS
    <3>2. /\ DOMAIN r = {"reason", "since", "day", "base"} /\ r.reason = None /\ r.since = 0
          /\ r.day = risk.day /\ r.base = risk.base
      BY <3>1 DEF RiskRow
    <3>3. RiskRow(r, now)
      BY <1>0, <3>2 DEF RiskRow
    <3> QED BY <1>1, <2>2, <3>1, <3>3
  <2> QED BY <1>1, <2>1, <2>2
<1>7. ASSUME NEW c \in Calls,
             Begin(c) \/ BeginRefused(c) \/ Snapshot(c) \/ Accrue(c) \/ NoPosition(c) \/ Arrive(c) \/ PlaceStored(c)
      PROVE  UNCHANGED risk
  BY <1>7 DEF Begin, BeginRefused, Snapshot, Accrue, NoPosition, Arrive, PlaceStored
<1>8. CASE UNCHANGED vars \/ StatusRead \/ TouchFile \/ ResumeAsked \/ MoveMarket \/ Tick
  BY <1>2, <1>8 DEF vars, StatusRead, TouchFile, ResumeAsked, MoveMarket, Tick
<1> QED BY <1>1, <1>2, <1>3, <1>4, <1>5, <1>6, <1>7, <1>8 DEF Next

LEMMA StatusStep == DeskTypes /\ StatusTypes /\ [Next]_vars => StatusTypes'
<1> SUFFICES ASSUME DeskTypes, StatusTypes, [Next]_vars PROVE StatusTypes'
  OBVIOUS
<1>0. now \in Nat /\ now' \in Nat /\ now <= now' /\ px \in Prices
  BY TimeMoves DEF DeskTypes, WorldTypes
<1>1. CASE UNCHANGED status
  BY <1>0, <1>1 DEF StatusTypes
<1>2. CASE StatusRead
  <2>1. status'.t = now /\ status'.mark = px
    BY <1>2 DEF StatusRead
  <2> QED BY <1>0, <2>1 DEF StatusTypes
<1>3. CASE StatusCommit
  <2>1. status'.t = 0 /\ status'.mark = None
    BY <1>3 DEF StatusCommit, NotReading
  <2> QED BY <1>0, <2>1 DEF StatusTypes
<1>4. ASSUME NEW c \in Calls,
             \/ Begin(c) \/ BeginRefused(c) \/ Snapshot(c) \/ Accrue(c) \/ NoPosition(c)
             \/ Arrive(c) \/ PlaceStored(c) \/ PlaceDenied(c) \/ PlaceSent(c)
      PROVE  UNCHANGED status
  BY <1>4 DEF Begin, BeginRefused, Snapshot, Accrue, NoPosition, Arrive, PlaceStored, PlaceDenied, PlaceSent
<1>5. CASE UNCHANGED vars \/ TouchFile \/ RiskHalt \/ ResumeAsked \/ ResumeCommit \/ MoveMarket \/ Tick
  BY <1>1, <1>5 DEF vars, TouchFile, RiskHalt, ResumeAsked, ResumeCommit, MoveMarket, Tick
<1> QED BY <1>1, <1>2, <1>3, <1>4, <1>5 DEF Next

LEMMA RowsStep == DeskTypes /\ RowTypes /\ [Next]_vars => RowTypes'
<1> SUFFICES ASSUME DeskTypes, RowTypes, [Next]_vars PROVE RowTypes'
  OBVIOUS
<1>1. CASE orders' = orders
  BY <1>1 DEF RowTypes
<1>2. ASSUME NEW c \in Calls, PlaceSent(c) PROVE RowTypes'
  <2>1. PICK s, o, f : SentFill(c, s, o, f)
    BY <1>2, SentFills
  <2>2. PICK row \in OrderRec : row = SentRecord(c, o, f) /\ orders' = Append(orders, row)
    BY <2>1 DEF SentFill
  <2>3. orders \in Seq(OrderRec)
    BY DEF DeskTypes, OrderTypes
  <2>4. PICK n \in Nat : /\ n = Len(orders) /\ DOMAIN orders = 1..n /\ DOMAIN orders' = 1..(n + 1)
                         /\ orders'[n + 1] = row /\ \A i \in 1..n : orders'[i] = orders[i]
    BY <2>2, <2>3, AppendProperties, LenProperties
  <2>5. row.side \in Sides /\ row.filled <= row.asked
    BY <2>1, <2>2 DEF SentFill, SentRecord
  <2> QED BY <2>4, <2>5 DEF RowTypes
<1> QED BY <1>1, <1>2, StepCases

LEMMA RestStep == RestTypes /\ [Next]_vars => RestTypes'
<1> SUFFICES ASSUME RestTypes, [Next]_vars PROVE RestTypes'
  OBVIOUS
<1>0. StartTime \in Nat /\ MaxTime \in Nat /\ MaxOps \in Nat /\ MaxReads \in Nat
  BY DeskAssumption
<1>1. now' \in StartTime..MaxTime
  <2>1. now' = now \/ (now < MaxTime /\ now' = now + 1)
    BY DEF Next, vars, Begin, BeginRefused, Snapshot, Accrue, NoPosition, Arrive, PlaceStored, PlaceDenied,
           PlaceSent, StatusRead, StatusCommit, TouchFile, RiskHalt, ResumeAsked, ResumeCommit, MoveMarket, Tick
  <2> QED BY <1>0, <2>1 DEF RestTypes
<1>2. owner' \in {None, Unowned, Home} \cup {Sandbox[c] : c \in Calls}
  <2>1. owner' \in {owner, Unowned, Home} \cup {Sandbox[c] : c \in Calls}
    BY DEF Next, vars, ledger, Claim, Begin, BeginRefused, Snapshot, Accrue, NoPosition, Arrive, PlaceStored,
           PlaceDenied, PlaceSent, StatusRead, StatusCommit, TouchFile, RiskHalt, ResumeAsked, ResumeCommit,
           MoveMarket, Tick
  <2> QED BY <2>1 DEF RestTypes
<1>3. console' \in {"idle", "typing"}
  <2>1. console' \in {console, "idle", "typing"}
    BY DEF Next, vars, Begin, BeginRefused, Snapshot, Accrue, NoPosition, Arrive, PlaceStored, PlaceDenied,
           PlaceSent, StatusRead, StatusCommit, TouchFile, RiskHalt, ResumeAsked, ResumeCommit, MoveMarket, Tick
  <2> QED BY <2>1 DEF RestTypes
<1>4. ops' \in 0..MaxOps
  <2>1. ops' = ops \/ (ops < MaxOps /\ ops' = ops + 1)
    BY DEF Next, vars, Operates, Begin, BeginRefused, Snapshot, Accrue, NoPosition, Arrive, PlaceStored,
           PlaceDenied, PlaceSent, StatusRead, StatusCommit, TouchFile, RiskHalt, ResumeAsked, ResumeCommit,
           MoveMarket, Tick
  <2> QED BY <1>0, <2>1 DEF RestTypes
<1>5. reads' \in 0..MaxReads
  <2>1. reads' = reads \/ (reads < MaxReads /\ reads' = reads + 1)
    BY DEF Next, vars, Begin, BeginRefused, Snapshot, Accrue, NoPosition, Arrive, PlaceStored, PlaceDenied,
           PlaceSent, StatusRead, StatusCommit, TouchFile, RiskHalt, ResumeAsked, ResumeCommit, MoveMarket, Tick
  <2> QED BY <1>0, <2>1 DEF RestTypes
<1> QED BY <1>1, <1>2, <1>3, <1>4, <1>5 DEF RestTypes

\* Type correctness: the ledger's rows, the risk state and what the calls have
\* read keep their types, no stored clock is ahead of the time, no order fills
\* more than it asked, and a position is open exactly when it has an opening
\* time (place_tx, exec, risk_status, `tengu risk').
THEOREM DeskTypeCorrect == Spec => []TypeOK
<1>1. Init => Clocks /\ StatusTypes /\ RiskRow(risk, now) /\ RowTypes /\ RestTypes
  <2> SUFFICES ASSUME Init PROVE Clocks /\ StatusTypes /\ RiskRow(risk, now) /\ RowTypes /\ RestTypes
    OBVIOUS
  <2>1. /\ now = StartTime /\ now \in Nat /\ MaxTime \in Nat /\ StartTime <= MaxTime /\ orders = <<>>
        /\ MaxOps \in Nat /\ MaxReads \in Nat
    BY DeskAssumption DEF Init
  <2>2. Clocks
    <3>1. \A c \in Calls : call[c].t = 0
      BY DEF Init, Idle
    <3> QED BY <2>1, <3>1 DEF Clocks
  <2>3. StatusTypes
    BY <2>1 DEF Init, NotReading, StatusTypes
  <2>4. RiskRow(risk, now)
    BY <2>1 DEF Init, RiskRow
  <2>5. RowTypes
    BY <2>1 DEF RowTypes
  <2>6. RestTypes
    BY <2>1 DEF Init, RestTypes
  <2> QED BY <2>2, <2>3, <2>4, <2>5, <2>6
<1>2. DeskTypes /\ MoneyTypes /\ [Next]_vars => MoneyTypes'
  BY MoneyStep
<1>3. DeskTypes /\ MoneyTypes /\ Clocks /\ RiskRow(risk, now) /\ RowTypes /\ RestTypes /\ RowsStored => TypeOK
  <2> SUFFICES ASSUME DeskTypes, MoneyTypes, Clocks, RiskRow(risk, now), RowTypes, RestTypes, RowsStored
               PROVE  TypeOK
    OBVIOUS
  <2>1. now \in Nat /\ px \in Prices /\ file \in BOOLEAN /\ Len(orders) \in Nat /\ DOMAIN orders = 1..Len(orders)
    BY DEF DeskTypes, WorldTypes, OrderTypes
  <2>2. ASSUME NEW i \in DOMAIN orders
        PROVE  /\ orders[i].side \in Sides /\ orders[i].filled \in 0..orders[i].asked
               /\ orders[i].ts \in 0..now
    <3>1. orders[i] \in OrderRec /\ orders[i].ts \in Nat
      BY RowTyped DEF DeskTypes
    <3>2. orders[i].filled \in Nat /\ orders[i].asked \in Nat
      BY <3>1 DEF OrderRec
    <3> QED BY <2>1, <3>1, <3>2 DEF RowTypes, Clocks
  <2>3. ASSUME NEW c \in Calls
        PROVE  /\ call[c].at \in {"idle", "begun", "owing", "rows", "ready", "done"}
               /\ call[c].row \in 0..Len(orders)
               /\ call[c].kill \in Probes /\ call[c].t \in 0..now
    <3>1. call[c] \in CallRec
      BY DEF DeskTypes, CallTypes
    <3>2. call[c].at \in {"idle", "begun", "owing", "rows", "ready", "done"} /\ call[c].kill \in Probes
      BY <3>1, Zenon DEF CallRec
    <3>3. call[c].t \in 0..now
      BY <2>1, <3>1 DEF CallRec, Clocks
    <3>4. call[c].row \in 0..Len(orders)
      BY <2>1, <3>1 DEF CallRec, RowsStored
    <3> QED BY <3>2, <3>3, <3>4
  <2>4. /\ acct.cash \in Int /\ acct.qty \in Int /\ acct.avg \in Nat
        /\ acct.opened \in Nat \cup {None} /\ (acct.qty = 0 <=> acct.opened = None)
        /\ acct.lastHour \in Nat \cup {None}
    BY DEF DeskTypes, AcctTypes, MoneyTypes
  <2>5. /\ risk.reason \in Reasons \cup {None}
        /\ risk.since \in 0..now /\ risk.day \in (0..now) \cup {None} /\ risk.base \in Int \cup {None}
    BY DEF RiskRow
  <2> QED BY <2>1, <2>2, <2>3, <2>4, <2>5, Zenon DEF RestTypes, TypeOK
<1> QED BY <1>1, <1>2, <1>3, MoneyStarts, OrdersKept, ClocksStep, StatusStep, RiskStep, RowsStep, RestStep,
           DeskTyped, PTL DEF Spec
=============================================================================
