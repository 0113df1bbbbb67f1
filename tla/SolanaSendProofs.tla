-------------------------- MODULE SolanaSendProofs --------------------------
(***************************************************************************)
(* Proofs about SolanaSend for any number of sessions and any length of    *)
(* their plans: the pending record tracks what may still land, tools build *)
(* on every landing they know of, and the pipeline implements WalletSends. *)
(***************************************************************************)
EXTENDS SolanaSend, TLAPS

\* What the theorems ask of the constants: one lease covers the steps before
\* the send and the longest poll (LEASE_TTL_MS = 150 s, MAX_POLL = 120 s), and
\* no tool sends a batch of independent transactions, whose records replace
\* one another.
LeaseCovers == MaxPrep + MaxPoll < Ttl /\ 2 * MaxPrep < Ttl
NoBatch == Batch = {}

-----------------------------------------------------------------------------
(* The inductive invariant.                                                *)

pcOf(s) == session[s].pc
ofOf(s) == session[s].of

\* s looks up a record it found, not its own transaction.
Resolving(s) == pcOf(s) \in {"fence", "clear"} /\ ofOf(s) # Mine(s)

\* s is done with the outcome of its own transaction.
Settling(s) == pcOf(s) \in {"fence", "clear"} /\ ofOf(s) = Mine(s)

Preparing == {"resolve", "ask", "askHeight", "build", "prepare", "record", "hand", "resend"}
Polling == {"poll", "height", "look", "wait"}
Recorded == {"hand", "resend", "execute", "answer"} \cup Polling

\* s is on the lease it took or renewed last.
OnLease(s) ==
    \/ pcOf(s) \in Preparing
    \/ Resolving(s)
    \/ pcOf(s) = "renew" /\ session[s].i = 1

\* s is on the lease it renewed for the transaction it waits for.
OnSendLease(s) ==
    \/ s \notin Ultra /\ (pcOf(s) \in Polling \/ Settling(s))
    \/ pcOf(s) \in {"execute", "answer"}
    \/ pcOf(s) = "renew" /\ session[s].i > 1

Inside(s) == OnLease(s) \/ OnSendLease(s)

\* The lease is the session's own, and long enough.
HeldBy(s) ==
    /\ OnLease(s) => /\ lease.holder = s
                     /\ lease.expires >= session[s].since + Ttl
                     /\ now <= session[s].since + MaxPrep
    /\ OnSendLease(s) => /\ lease.holder = s
                         /\ lease.expires + MaxPrep >= session[s].since + Ttl
                         /\ \/ now <= session[s].since + MaxPrep
                            \/ now <= session[s].since + MaxPoll

LeaseHeld == \A s \in Sessions : HeldBy(s)

\* What a session looks at is a transaction, after the record its own one.
Shape ==
    \A s \in Sessions :
        /\ session[s].i <= Plans[s]
        /\ pcOf(s) \in {"ask", "askHeight", "fence", "clear"} => ofOf(s) \in Tx
        /\ pcOf(s) \in Recorded => ofOf(s) = Mine(s)
        /\ pcOf(s) \in {"execute", "answer"} => s \in Ultra
        /\ pcOf(s) = "idle" => session[s].i = 1

BeforeRecord == {"idle", "resolve", "ask", "askHeight", "build", "renew", "prepare", "record"}

\* s has not recorded its j-th transaction yet.
Unborn(s, j) ==
    /\ pcOf(s) # "over"
    /\ \/ j > session[s].i
       \/ j = session[s].i /\ (pcOf(s) \in BeforeRecord \/ Resolving(s))

\* Nobody has seen such a transaction.
UnbornUnseen ==
    \A t \in Tx : Unborn(t[1], t[2]) =>
        t \notin sent /\ pending # t /\ report[t] = "none"

\* What a session's place says of its transaction.
Outcomes ==
    /\ \A t \in Tx : Landed(t) => t \in sent
    /\ \A s \in Sessions :
        /\ pcOf(s) \in Recorded => report[Mine(s)] = "none"
        /\ pcOf(s) = "hand" => Mine(s) \notin sent
        /\ pcOf(s) = "look" => now > lvbh[Mine(s)]
        /\ pcOf(s) = "fence" => Landed(ofOf(s))
        /\ pcOf(s) = "clear" => ~Live(ofOf(s))

\* The record a session on its lease found, or wrote, is not replaced.
RecordKept ==
    \A s \in Sessions :
        /\ pcOf(s) \in {"ask", "askHeight"} \/ Resolving(s) => pending \in {ofOf(s), NoTx}
        /\ pcOf(s) \in {"hand", "resend", "execute", "answer"} => pending = Mine(s)
        /\ s \notin Ultra /\ (pcOf(s) \in Polling \/ Settling(s)) => pending \in {Mine(s), NoTx}

\* Nothing of the wallet may land while a session plans its transaction.
NothingLive ==
    \A s \in Sessions : pcOf(s) \in {"build", "renew", "prepare", "record"} =>
        \A t \in Tx : ~Live(t)

SendInv == TypeOK /\ Shape /\ LeaseHeld /\ UnbornUnseen /\ Outcomes /\ RecordKept
             /\ NothingLive /\ Tracked

\* A landing that counts for BuildsOnLanded and the fence does not cover.
Unfenced(t) == Landed(t) /\ resolved[t] = "none" /\ slot[t] > fence

\* Such a landing is still on record; a session that clears a record or
\* plans has none.
FenceBeforeClear ==
    /\ \A t \in Tx : Unfenced(t) => pending = t
    /\ \A s \in Sessions :
        /\ pcOf(s) = "clear" => ~Unfenced(ofOf(s))
        /\ pcOf(s) \in {"build", "renew", "prepare", "record"} => \A t \in Tx : ~Unfenced(t)

\* BuildsOnLanded holds on, until the session is through.
BaseCovers ==
    \A s \in Sessions, t \in Tx :
        /\ s \notin Ultra
        /\ pcOf(s) \in Sending \cup Polling \/ Settling(s)
        /\ session[s].base # Unpinned
        /\ t[1] # s /\ Landed(t) /\ resolved[t] = "none"
        => slot[t] <= session[s].base

UltraUnpinned == \A s \in Ultra : pcOf(s) \in Sending => session[s].base = Unpinned

\* The record a session finds is not of the transaction it will send.
FoundIsOther == \A s \in Sessions : pcOf(s) \in {"ask", "askHeight"} => ofOf(s) # Mine(s)

FenceInv == FenceBeforeClear /\ BaseCovers /\ UltraUnpinned /\ FoundIsOther

-----------------------------------------------------------------------------
(* Types.                                                                  *)

\* The larger of two heights.
LEMMA MaxOfTwo ==
    ASSUME NEW x \in Int, NEW y \in Int
    PROVE  Max({x, y}) \in {x, y} /\ Max({x, y}) >= x /\ Max({x, y}) >= y
<1>1. \E m \in {x, y} : \A k \in {x, y} : m >= k
  <2>1. CASE x >= y
    BY <2>1
  <2>2. CASE ~(x >= y)
    BY <2>2
  <2> QED BY <2>1, <2>2
<1>2. Max({x, y}) \in {x, y} /\ \A k \in {x, y} : Max({x, y}) >= k
  BY <1>1 DEF Max
<1> QED BY <1>2

Reports == {"none", "refused", "failed", "expired", "unconfirmed", "confirmed", "reverted"}
Session(n) == [pc: Pcs, i: 1..10, of: Tx \cup {NoTx}, base: Unpinned..n, since: 0..n]

\* A session's own transaction is one of the wallet's.
LEMMA MineIsTx ==
    ASSUME TypeOK, Shape, NEW s \in Sessions
    PROVE  Mine(s) \in Tx /\ Mine(s)[1] = s /\ Mine(s)[2] = session[s].i
<1>1. session[s].i \in 1..10 /\ session[s].i <= Plans[s]
  BY DEF TypeOK, Shape
<1> QED BY <1>1 DEF Tx, Mine

LEMMA TypeInit == Init => TypeOK
<1> USE SendAssumption
<1>1. NoTx \notin Tx /\ Fresh \in Session(1)
  BY DEF Fresh, Session, Pcs, Idle, Unpinned
<1> QED BY <1>1 DEF Init, TypeOK, Free, Session

\* A session goes on, and keeps its type.
LEMMA SessionType ==
    ASSUME TypeOK, NEW s \in Sessions, NEW r \in Session(now),
           session' = [session EXCEPT ![s] = r]
    PROVE  session' \in [Sessions -> Session(now)]
  BY DEF TypeOK, Session

\* Advance keeps the types of what it changes.
LEMMA AdvanceType ==
    ASSUME TypeOK, Shape, NEW s \in Sessions, NEW v \in Reports, Advance(s, v)
    PROVE  /\ report' \in [Tx -> Reports]
           /\ session' \in [Sessions -> Session(now)]
<1>1. report' \in [Tx -> Reports]
  BY MineIsTx DEF Advance, TypeOK, Reports
<1>2. session[s] \in Session(now) /\ session[s].i <= Plans[s] /\ Plans[s] \in 1..10
  BY SendAssumption DEF TypeOK, Session, Shape
<1>3. "close" \in Pcs /\ "renew" \in Pcs
  BY DEF Pcs
<1>4. [session[s] EXCEPT !.pc = "close"] \in Session(now)
  BY <1>2, <1>3, Zenon DEF Session
<1>5. session[s].i < Plans[s] => session[s].i + 1 \in 1..10
  BY <1>2 DEF Session
<1>6. session[s].i < Plans[s] => [session[s] EXCEPT !.pc = "renew", !.i = session[s].i + 1] \in Session(now)
  BY <1>2, <1>3, <1>5, Zenon DEF Session
<1>7. PICK r \in Session(now) : session' = [session EXCEPT ![s] = r]
  <2>1. CASE (v = "confirmed" \/ s \in Batch) /\ session[s].i < Plans[s]
    <3>1. session' = [session EXCEPT ![s] = [session[s] EXCEPT !.pc = "renew", !.i = session[s].i + 1]]
      BY <2>1, Zenon DEF Advance
    <3> QED BY <2>1, <3>1, <1>6, Zenon
  <2>2. CASE ~((v = "confirmed" \/ s \in Batch) /\ session[s].i < Plans[s])
    BY <2>2, <1>4 DEF Advance
  <2> QED BY <2>1, <2>2
<1> QED BY <1>1, <1>7, SessionType

LEMMA TypeStep == TypeOK /\ Shape /\ [Next]_vars => TypeOK'
<1> SUFFICES ASSUME TypeOK, Shape, [Next]_vars PROVE TypeOK'
  OBVIOUS
<1> USE SendAssumption DEF chainVars, storeVars
<1>0. /\ now \in Nat /\ fence \in Nat /\ NoTx \notin Tx
      /\ session \in [Sessions -> Session(now)] /\ report \in [Tx -> Reports]
      /\ \A t \in Tx : slot[t] \in 0..now
  BY DEF TypeOK, Session, Reports
<1>1. ASSUME session' \in [Sessions -> Session(now)], report' \in [Tx -> Reports],
             UNCHANGED <<chainVars, storeVars, lvbh, resolved>>
      PROVE  TypeOK'
  BY <1>1 DEF TypeOK, Session, Reports
<1>2. ASSUME NEW s \in Sessions, NEW p \in Pcs, session' = [session EXCEPT ![s].pc = p]
      PROVE  session' \in [Sessions -> Session(now)]
  BY <1>0, <1>2 DEF Session
<1>3. ASSUME NEW s \in Sessions, NEW p \in Pcs,
             session' = [session EXCEPT ![s].pc = p, ![s].since = now]
      PROVE  session' \in [Sessions -> Session(now)]
  <2>1. now \in 0..now
    BY <1>0
  <2> QED BY <1>0, <1>3, <2>1, Zenon DEF Session
<1>4. Over \in Session(now)
  <2>1. Fresh \in Session(now) /\ "over" \in Pcs
    BY <1>0 DEF Fresh, Session, Pcs, Idle, Unpinned
  <2> QED BY <2>1, Zenon DEF Over, Session
<1>5. ASSUME NEW s \in Sessions, Step(s) \/ Crash(s) PROVE TypeOK'
  <2>0. Mine(s) \in Tx
    BY MineIsTx
  <2>1. CASE Open(s)
    <3>1. session' \in [Sessions -> Session(now)]
      BY <2>1, <1>3 DEF Open, Pcs
    <3>2. lease' \in [holder: Sessions \cup {NoOne}, expires: 0..(MaxTime + Ttl)]
      BY <2>1 DEF Open, TypeOK
    <3> QED BY <2>1, <3>1, <3>2 DEF Open, TypeOK, Session
  <2>2. CASE OpenRefused(s) \/ Crash(s)
    <3>1. session' \in [Sessions -> Session(now)]
      BY <2>2, <1>4, SessionType DEF OpenRefused, Crash
    <3> QED BY <2>2, <3>1, <1>0, <1>1 DEF OpenRefused, Crash
  <2>3. CASE ReadPending(s)
    <3>1. session' \in [Sessions -> Session(now)]
      <4>1. PICK p \in Pcs : session' = [session EXCEPT ![s].pc = p, ![s].of = pending]
        BY <2>3 DEF ReadPending, Pcs
      <4>2. pending \in Tx \cup {NoTx}
        BY DEF TypeOK
      <4> QED BY <4>1, <4>2, <1>0 DEF Session
    <3> QED BY <2>3, <3>1, <1>0, <1>1 DEF ReadPending
  <2>4. CASE ResolveFails(s) \/ AskStatus(s) \/ BuildFails(s)
    <3>1. PICK p \in Pcs : session' = [session EXCEPT ![s].pc = p]
      BY <2>4 DEF ResolveFails, AskStatus, BuildFails, Goes, Pcs
    <3> QED BY <2>4, <3>1, <1>0, <1>1, <1>2 DEF ResolveFails, AskStatus, BuildFails
  <2>5. CASE AskHeight(s)
    <3>1. session' \in [Sessions -> Session(now)]
      BY <2>5, <1>2 DEF AskHeight, Goes, Pcs
    <3>2. resolved' \in [Tx -> {"none", "expired", "unfenced"}]
      BY <2>5 DEF AskHeight, TypeOK
    <3> QED BY <2>5, <3>1, <3>2 DEF AskHeight, TypeOK, Session
  <2>6. CASE RaiseFence(s)
    <3>1. session' \in [Sessions -> Session(now)]
      BY <2>6, <1>2 DEF RaiseFence, Goes, Pcs
    <3>2. resolved' \in [Tx -> {"none", "expired", "unfenced"}]
      BY <2>6 DEF RaiseFence, TypeOK
    <3>3. session[s].of \in Tx
      BY <2>6 DEF RaiseFence, Goes, Shape, pcOf, ofOf
    <3>4. fence' \in 0..now
      <4>1. slot[session[s].of] \in 0..now /\ fence \in 0..now
        BY <3>3, <1>0 DEF TypeOK
      <4>2. Max({fence, slot[session[s].of]}) \in {fence, slot[session[s].of]}
        <5>1. slot[session[s].of] \in Int /\ fence \in Int
          BY <4>1, <1>0
        <5> QED BY <5>1, MaxOfTwo
      <4> QED BY <2>6, <4>1, <4>2 DEF RaiseFence
    <3> QED BY <2>6, <3>1, <3>2, <3>4 DEF RaiseFence, TypeOK, Session
  <2>7. CASE Clear(s)
    <3>1. session' \in [Sessions -> Session(now)] /\ report' \in [Tx -> Reports]
      <4>1. CASE session[s].of = Mine(s)
        <5>1. report[session[s].of] \in Reports
          BY <4>1, <2>0, <1>0
        <5> QED BY <2>7, <4>1, <5>1, AdvanceType DEF Clear
      <4>2. CASE session[s].of # Mine(s)
        BY <2>7, <4>2, <1>0, <1>2 DEF Clear, Goes, Pcs
      <4> QED BY <4>1, <4>2
    <3>2. pending' \in Tx \cup {NoTx}
      BY <2>7 DEF Clear, Cleared, TypeOK
    <3> QED BY <2>7, <3>1, <3>2 DEF Clear, TypeOK, Session, Reports
  <2>8. CASE Build(s)
    <3>1. session' \in [Sessions -> Session(now)]
      <4>1. PICK b \in Unpinned..now :
                session' = [session EXCEPT ![s].pc = "renew", ![s].base = b]
        <5>1. fence \in Unpinned..now /\ Unpinned \in Unpinned..now
          BY <1>0 DEF TypeOK, Unpinned
        <5> QED BY <2>8, <5>1 DEF Build
      <4>2. "renew" \in Pcs
        BY DEF Pcs
      <4> QED BY <4>1, <4>2, <1>0 DEF Session
    <3> QED BY <2>8, <3>1, <1>0, <1>1 DEF Build
  <2>9. CASE Renew(s)
    <3>1. session' \in [Sessions -> Session(now)]
      BY <2>9, <1>3 DEF Renew, Pcs
    <3>2. lease' \in [holder: Sessions \cup {NoOne}, expires: 0..(MaxTime + Ttl)]
      BY <2>9 DEF Renew, TypeOK
    <3> QED BY <2>9, <3>1, <3>2 DEF Renew, TypeOK, Session
  <2>10. CASE NotSent(s)
    <3>1. session' \in [Sessions -> Session(now)] /\ report' \in [Tx -> Reports]
      BY <2>10, AdvanceType DEF NotSent, Reports
    <3> QED BY <2>10, <3>1, <1>1 DEF NotSent
  <2>11. CASE Prepare(s)
    <3>1. session' \in [Sessions -> Session(now)]
      BY <2>11, <1>2 DEF Prepare, Goes, Pcs
    <3>2. lvbh' \in [Tx -> 0..(MaxTime + Validity)]
      BY <2>11, <2>0 DEF Prepare, TypeOK
    <3> QED BY <2>11, <3>1, <3>2 DEF Prepare, TypeOK, Session
  <2>12. CASE Record(s)
    <3>1. session' \in [Sessions -> Session(now)]
      BY <2>12, <2>0, <1>0 DEF Record, Session, Pcs, Waits
    <3> QED BY <2>12, <2>0, <3>1 DEF Record, TypeOK, Session
  <2>13. CASE Hand(s) \/ HandLost(s) \/ Resend(s) \/ Execute(s)
    <3>1. session' \in [Sessions -> Session(now)]
      BY <2>13, <1>2, <1>3 DEF Hand, HandLost, Resend, Execute, Polls, Goes, Pcs, Waits
    <3>2. sent' \subseteq Tx
      BY <2>13, <2>0 DEF Hand, HandLost, Resend, Execute, TypeOK
    <3> QED BY <2>13, <3>1, <3>2 DEF Hand, HandLost, Resend, Execute, TypeOK, Session
  <2>14. CASE HandRejected(s) \/ Poll(s) \/ Look(s)
    <3>1. session' \in [Sessions -> Session(now)]
      BY <2>14, <1>2 DEF HandRejected, Poll, Look, SeesLanded, Goes, Pcs, Waits
    <3>2. report' \in [Tx -> Reports]
      BY <2>14, <2>0, <1>0 DEF HandRejected, Poll, Look, SeesLanded, Reports
    <3> QED BY <2>14, <3>1, <3>2, <1>1 DEF HandRejected, Poll, Look
  <2>15. CASE Answer(s)
    <3>1. session' \in [Sessions -> Session(now)]
      BY <2>15, <1>2, <1>3 DEF Answer, Polls, Goes, Pcs, Waits
    <3>2. report' \in [Tx -> Reports]
      BY <2>15, <2>0, <1>0 DEF Answer, Reports
    <3> QED BY <2>15, <3>1, <3>2, <1>1 DEF Answer
  <2>16. CASE PollHeight(s)
    BY <2>16, <1>0, <1>1, <1>2 DEF PollHeight, Goes, Pcs, Waits
  <2>17. CASE Wait(s)
    <3>1. session' \in [Sessions -> Session(now)] /\ report' \in [Tx -> Reports]
      BY <2>17, <1>0, <1>2, AdvanceType DEF Wait, Goes, Pcs, Waits, Reports
    <3> QED BY <2>17, <3>1, <1>1 DEF Wait
  <2>18. CASE Close(s)
    <3>1. session' \in [Sessions -> Session(now)]
      BY <2>18, <1>4, SessionType DEF Close
    <3>2. lease' \in [holder: Sessions \cup {NoOne}, expires: 0..(MaxTime + Ttl)]
      BY <2>18 DEF Close, Free, TypeOK
    <3> QED BY <2>18, <3>1, <3>2 DEF Close, TypeOK, Session
  <2> QED BY <1>5, <2>1, <2>2, <2>3, <2>4, <2>5, <2>6, <2>7, <2>8, <2>9, <2>10, <2>11,
          <2>12, <2>13, <2>14, <2>15, <2>16, <2>17, <2>18 DEF Step
<1>6. ASSUME NEW t \in Tx, Land(t) PROVE TypeOK'
  BY <1>6, <1>0 DEF Land, TypeOK
<1>7. CASE Tick
  <2>1. now' = now + 1 /\ now < MaxTime
    BY <1>7 DEF Tick
  <2>2. session' \in [Sessions -> Session(now')]
    BY <1>7, <1>0, <2>1 DEF Tick, Session, Unpinned
  <2>3. slot' \in [Tx -> 0..now']
    BY <1>7, <1>0, <2>1 DEF Tick, TypeOK
  <2> QED BY <1>7, <2>1, <2>2, <2>3 DEF Tick, TypeOK, Session
<1>8. CASE UNCHANGED vars
  BY <1>8 DEF vars, TypeOK
<1> QED BY <1>5, <1>6, <1>7, <1>8 DEF Next

-----------------------------------------------------------------------------
(* How a step moves its session.                                           *)

\* Session s is now at p with these fields; the others did not move.
Moves(s, p, i, of, base, since) ==
    /\ session'[s].pc = p /\ session'[s].i = i /\ session'[s].of = of
    /\ session'[s].base = base /\ session'[s].since = since
    /\ \A o \in Sessions : o # s => session'[o] = session[o]

\* Only its place changes, and the clock of its time limit.
Goto(s, p) == Moves(s, p, session[s].i, session[s].of, session[s].base, session[s].since)
GotoNow(s, p) == Moves(s, p, session[s].i, session[s].of, session[s].base, now)

LEMMA GoesMoves ==
    ASSUME TypeOK, NEW s \in Sessions, NEW p, session' = [session EXCEPT ![s].pc = p]
    PROVE  Goto(s, p)
  BY DEF TypeOK, Goto, Moves

LEMMA PollsMoves ==
    ASSUME TypeOK, NEW s \in Sessions, NEW p,
           session' = [session EXCEPT ![s].pc = p, ![s].since = now]
    PROVE  GotoNow(s, p)
  BY DEF TypeOK, GotoNow, Moves

LEMMA OverMoves ==
    ASSUME TypeOK, NEW s \in Sessions, session' = [session EXCEPT ![s] = Over]
    PROVE  Moves(s, "over", 1, NoTx, 0, 0)
  BY DEF TypeOK, Moves, Over, Fresh

LEMMA AdvanceMoves ==
    ASSUME TypeOK, NEW s \in Sessions, NEW v, Advance(s, v)
    PROVE  \/ /\ v = "confirmed" \/ s \in Batch
              /\ session[s].i < Plans[s]
              /\ Moves(s, "renew", session[s].i + 1, session[s].of, session[s].base, session[s].since)
           \/ Goto(s, "close")
<1>1. CASE (v = "confirmed" \/ s \in Batch) /\ session[s].i < Plans[s]
  <2>1. session' = [session EXCEPT ![s] = [session[s] EXCEPT !.pc = "renew", !.i = session[s].i + 1]]
    BY <1>1, Zenon DEF Advance
  <2> QED BY <1>1, <2>1 DEF TypeOK, Moves
<1>2. CASE ~((v = "confirmed" \/ s \in Batch) /\ session[s].i < Plans[s])
  <2>1. session' = [session EXCEPT ![s] = [session[s] EXCEPT !.pc = "close"]]
    BY <1>2, Zenon DEF Advance
  <2> QED BY <1>2, <2>1 DEF TypeOK, Goto, Moves
<1> QED BY <1>1, <1>2

LEMMA ReadPendingMoves ==
    ASSUME TypeOK, NEW s \in Sessions, ReadPending(s)
    PROVE  Moves(s, IF pending = NoTx THEN "build" ELSE "ask",
                 session[s].i, pending, session[s].base, session[s].since)
  BY DEF ReadPending, TypeOK, Moves

LEMMA BuildMoves ==
    ASSUME TypeOK, NEW s \in Sessions, Build(s)
    PROVE  \E base \in {IF s \in Ultra THEN Unpinned ELSE fence, Unpinned} :
             Moves(s, "renew", session[s].i, session[s].of, base, session[s].since)
  BY DEF Build, TypeOK, Moves

LEMMA RecordMoves ==
    ASSUME TypeOK, NEW s \in Sessions, Record(s)
    PROVE  Moves(s, IF s \in Ultra THEN "execute" ELSE "hand", session[s].i, Mine(s),
                 session[s].base, IF s \in Ultra THEN now ELSE session[s].since)
  BY DEF Record, TypeOK, Moves

\* Where each action takes its session.
LEMMA Moved ==
    ASSUME TypeOK, NEW s \in Sessions
    PROVE  /\ Open(s) => pcOf(s) = "idle" /\ GotoNow(s, "resolve")
           /\ OpenRefused(s) \/ Close(s) \/ Crash(s) => Moves(s, "over", 1, NoTx, 0, 0)
           /\ ReadPending(s) =>
                /\ pcOf(s) = "resolve"
                /\ Moves(s, IF pending = NoTx THEN "build" ELSE "ask",
                         session[s].i, pending, session[s].base, session[s].since)
           /\ ResolveFails(s) => pcOf(s) \in {"resolve", "ask", "askHeight"} /\ Goto(s, "close")
           /\ AskStatus(s) => /\ pcOf(s) = "ask"
                              /\ Goto(s, IF Landed(ofOf(s)) THEN "fence" ELSE "askHeight")
           /\ AskHeight(s) => pcOf(s) = "askHeight" /\ Goto(s, "clear")
           /\ RaiseFence(s) => pcOf(s) = "fence" /\ Goto(s, "clear")
           /\ BuildFails(s) => pcOf(s) = "build" /\ Goto(s, "close")
           /\ Renew(s) => pcOf(s) = "renew" /\ GotoNow(s, "prepare")
           /\ Prepare(s) => pcOf(s) = "prepare" /\ Goto(s, "record")
           /\ Hand(s) => pcOf(s) = "hand" /\ GotoNow(s, "poll")
           /\ HandRejected(s) => pcOf(s) = "hand" /\ Goto(s, "clear")
           /\ HandLost(s) => pcOf(s) = "hand" /\ Goto(s, "resend")
           /\ Resend(s) => pcOf(s) = "resend" /\ GotoNow(s, "poll")
           /\ Execute(s) => pcOf(s) = "execute" /\ Goto(s, "answer")
           /\ Answer(s) => /\ pcOf(s) = "answer"
                           /\ \/ Goto(s, "fence") /\ Landed(Mine(s))
                              \/ Goto(s, "clear") /\ Mine(s) \notin sent
                              \/ Goto(s, "execute") /\ UNCHANGED report
                              \/ GotoNow(s, "poll") /\ UNCHANGED report
           /\ Poll(s) => /\ pcOf(s) = "poll"
                         /\ \/ Goto(s, "fence") /\ SeesLanded(s)
                            \/ Goto(s, "height") /\ UNCHANGED report
           /\ PollHeight(s) => /\ pcOf(s) = "height"
                               /\ \/ Goto(s, "look") /\ now > lvbh[Mine(s)]
                                  \/ Goto(s, "wait")
           /\ Look(s) => /\ pcOf(s) = "look"
                         /\ \/ Goto(s, "fence") /\ SeesLanded(s)
                            \/ /\ Goto(s, "clear") /\ ~Landed(Mine(s))
                               /\ report' = [report EXCEPT ![Mine(s)] = "expired"]
                            \/ Goto(s, "wait") /\ UNCHANGED report
           /\ Wait(s) => /\ pcOf(s) = "wait"
                         /\ \/ Advance(s, "unconfirmed")
                            \/ Goto(s, "poll") /\ UNCHANGED report
           /\ Clear(s) => /\ pcOf(s) = "clear"
                          /\ \/ ofOf(s) = Mine(s) /\ Advance(s, report[Mine(s)])
                             \/ ofOf(s) # Mine(s) /\ Goto(s, "build") /\ UNCHANGED report
<1> USE DEF pcOf, ofOf
<1>1. Open(s) => pcOf(s) = "idle" /\ GotoNow(s, "resolve")
  BY PollsMoves DEF Open
<1>2. OpenRefused(s) \/ Close(s) \/ Crash(s) => Moves(s, "over", 1, NoTx, 0, 0)
  BY OverMoves DEF OpenRefused, Close, Crash
<1>3. ReadPending(s) => pcOf(s) = "resolve" /\ Moves(s, IF pending = NoTx THEN "build" ELSE "ask",
                         session[s].i, pending, session[s].base, session[s].since)
  BY ReadPendingMoves DEF ReadPending
<1>4. ResolveFails(s) => pcOf(s) \in {"resolve", "ask", "askHeight"} /\ Goto(s, "close")
  BY GoesMoves DEF ResolveFails
<1>5. AskStatus(s) => pcOf(s) = "ask" /\ Goto(s, IF Landed(ofOf(s)) THEN "fence" ELSE "askHeight")
  BY GoesMoves DEF AskStatus, Goes
<1>6. /\ AskHeight(s) => pcOf(s) = "askHeight" /\ Goto(s, "clear")
      /\ RaiseFence(s) => pcOf(s) = "fence" /\ Goto(s, "clear")
      /\ BuildFails(s) => pcOf(s) = "build" /\ Goto(s, "close")
      /\ Prepare(s) => pcOf(s) = "prepare" /\ Goto(s, "record")
      /\ HandRejected(s) => pcOf(s) = "hand" /\ Goto(s, "clear")
      /\ HandLost(s) => pcOf(s) = "hand" /\ Goto(s, "resend")
      /\ Execute(s) => pcOf(s) = "execute" /\ Goto(s, "answer")
  BY GoesMoves DEF AskHeight, RaiseFence, BuildFails, Prepare, HandRejected, HandLost, Execute, Goes
<1>7. /\ Renew(s) => pcOf(s) = "renew" /\ GotoNow(s, "prepare")
      /\ Hand(s) => pcOf(s) = "hand" /\ GotoNow(s, "poll")
      /\ Resend(s) => pcOf(s) = "resend" /\ GotoNow(s, "poll")
  BY PollsMoves DEF Renew, Hand, Resend, Polls
<1>8. Answer(s) => /\ pcOf(s) = "answer"
                   /\ \/ Goto(s, "fence") /\ Landed(Mine(s))
                      \/ Goto(s, "clear") /\ Mine(s) \notin sent
                      \/ Goto(s, "execute") /\ UNCHANGED report
                      \/ GotoNow(s, "poll") /\ UNCHANGED report
  BY GoesMoves, PollsMoves DEF Answer, Goes, Polls
<1>9. Poll(s) => /\ pcOf(s) = "poll"
                 /\ \/ Goto(s, "fence") /\ SeesLanded(s)
                    \/ Goto(s, "height") /\ UNCHANGED report
  BY GoesMoves DEF Poll, Goes, SeesLanded
<1>10. PollHeight(s) => /\ pcOf(s) = "height"
                        /\ \/ Goto(s, "look") /\ now > lvbh[Mine(s)]
                           \/ Goto(s, "wait")
  BY GoesMoves DEF PollHeight, Goes
<1>11. Look(s) => /\ pcOf(s) = "look"
                  /\ \/ Goto(s, "fence") /\ SeesLanded(s)
                     \/ /\ Goto(s, "clear") /\ ~Landed(Mine(s))
                        /\ report' = [report EXCEPT ![Mine(s)] = "expired"]
                     \/ Goto(s, "wait") /\ UNCHANGED report
  BY GoesMoves DEF Look, Goes, SeesLanded
<1>12. Wait(s) => /\ pcOf(s) = "wait"
                  /\ \/ Advance(s, "unconfirmed")
                     \/ Goto(s, "poll") /\ UNCHANGED report
  BY GoesMoves DEF Wait, Goes
<1>13. Clear(s) => /\ pcOf(s) = "clear"
                   /\ \/ ofOf(s) = Mine(s) /\ Advance(s, report[Mine(s)])
                      \/ ofOf(s) # Mine(s) /\ Goto(s, "build") /\ UNCHANGED report
  BY GoesMoves DEF Clear, Goes
<1> QED BY <1>1, <1>2, <1>3, <1>4, <1>5, <1>6, <1>7, <1>8, <1>9, <1>10, <1>11, <1>12, <1>13

\* The fields of a session have their types.
LEMMA Fields ==
    ASSUME TypeOK
    PROVE  /\ now \in Nat /\ NoTx \notin Tx /\ lease.expires \in Nat
           /\ \A s \in Sessions : /\ session[s].i \in 1..10 /\ session[s].since \in Nat
                                  /\ session[s].of \in Tx \cup {NoTx} /\ Plans[s] \in 1..10
           /\ \A t \in Tx : lvbh[t] \in Nat /\ slot[t] \in Nat /\ t[1] \in Sessions /\ t[2] \in Nat
           /\ pending \in Tx \cup {NoTx}
  BY SendAssumption DEF TypeOK, Tx

\* A step of one session, of the cluster, or of the clock.
LEMMA NextCases ==
    ASSUME [Next]_vars
    PROVE  \/ \E s \in Sessions : Step(s) \/ Crash(s)
           \/ \E t \in Tx : Land(t)
           \/ Tick
           \/ UNCHANGED vars
  BY DEF Next

\* The cluster and the clock move no session.
LEMMA EnvironmentSteps ==
    ASSUME (\E t \in Tx : Land(t)) \/ Tick \/ UNCHANGED vars
    PROVE  UNCHANGED <<lease, pending, fence, lvbh, sent, session, report, resolved>>
  BY DEF Land, Tick, vars, storeVars, chainVars
LEMMA ShapeStep == TypeOK /\ Shape /\ [Next]_vars => Shape'
<1> SUFFICES ASSUME TypeOK, Shape, [Next]_vars PROVE Shape'
  OBVIOUS
<1>1. ASSUME NEW s \in Sessions, Step(s) \/ Crash(s) PROVE Shape'
  <2>1. ASSUME NEW p, NEW i \in 1..10, NEW of, NEW base, NEW since, Moves(s, p, i, of, base, since),
               i <= Plans[s],
               p \in {"ask", "askHeight", "fence", "clear"} => of \in Tx,
               p \in Recorded => of = <<s, i>>,
               p \in {"execute", "answer"} => s \in Ultra,
               p = "idle" => i = 1
        PROVE  Shape'
    BY <2>1 DEF Moves, Shape, pcOf, ofOf, Mine
  <2>2. /\ session[s].i <= Plans[s] /\ session[s].i \in 1..10 /\ Plans[s] \in 1..10
        /\ pcOf(s) \in {"ask", "askHeight", "fence", "clear"} => session[s].of \in Tx
        /\ pcOf(s) \in Recorded => session[s].of = <<s, session[s].i>>
        /\ pcOf(s) \in {"execute", "answer"} => s \in Ultra
        /\ pending # NoTx => pending \in Tx
        /\ Mine(s) = <<s, session[s].i>>
        /\ Mine(s) \in Tx
    BY Fields, MineIsTx DEF Shape, ofOf, Mine
  <2>3. CASE \E p \in {"resolve", "close", "build", "renew", "prepare", "record"} : Goto(s, p) \/ GotoNow(s, p)
    BY <2>1, <2>2, <2>3 DEF Goto, GotoNow, Recorded, Polling
  <2>4. CASE OpenRefused(s) \/ Close(s) \/ Crash(s)
    <3>1. Moves(s, "over", 1, NoTx, 0, 0)
      BY <2>4, Moved
    <3> QED BY <3>1, <2>2 DEF Recorded, Polling, Moves, Shape, pcOf, ofOf, Mine
  <2>5. CASE ReadPending(s)
    <3>1. PICK p \in {"build", "ask"} :
              /\ p = "ask" => pending # NoTx
              /\ Moves(s, p, session[s].i, pending, session[s].base, session[s].since)
      BY <2>5, Moved
    <3> QED BY <3>1, <2>1, <2>2 DEF Recorded, Polling
  <2>6. CASE AskStatus(s) \/ AskHeight(s) \/ RaiseFence(s)
    <3>1. ofOf(s) \in Tx /\ \E p \in {"fence", "askHeight", "clear"} : Goto(s, p)
      BY <2>6, <2>2, Moved DEF ofOf
    <3> QED BY <3>1, <2>1, <2>2 DEF Goto, Recorded, Polling, ofOf
  <2>7. ASSUME NEW v, Advance(s, v) PROVE Shape'
    <3>1. CASE Goto(s, "close")
      BY <3>1, <2>3
    <3>2. CASE session[s].i < Plans[s] /\ Moves(s, "renew", session[s].i + 1, session[s].of,
                                                session[s].base, session[s].since)
      BY <3>2, <2>2 DEF Recorded, Polling, Moves, Shape, pcOf, ofOf, Mine
    <3> QED BY <3>1, <3>2, <2>7, AdvanceMoves
  <2>8. CASE Build(s)
    <3>1. PICK base : Moves(s, "renew", session[s].i, session[s].of, base, session[s].since)
      BY <2>8, BuildMoves
    <3> QED BY <3>1, <2>2 DEF Recorded, Polling, Moves, Shape, pcOf, ofOf, Mine
  <2>9. CASE Record(s)
    <3>1. /\ session'[s].pc \in {"execute", "hand"} /\ session'[s].i = session[s].i
          /\ session'[s].pc = "execute" => s \in Ultra
          /\ session'[s].of = Mine(s)
          /\ \A o \in Sessions : o # s => session'[o] = session[o]
      BY <2>9, RecordMoves DEF Moves
    <3> QED BY <3>1, <2>2 DEF Recorded, Polling, Shape, pcOf, ofOf, Mine
  <2>10. ASSUME pcOf(s) \in Recorded,
                \E p \in Recorded \cup {"fence", "clear"} :
                   /\ Goto(s, p) \/ GotoNow(s, p)
                   /\ p \in {"execute", "answer"} => s \in Ultra
         PROVE  Shape'
    <3>1. PICK p \in Recorded \cup {"fence", "clear"} :
                   /\ Goto(s, p) \/ GotoNow(s, p)
                   /\ p \in {"execute", "answer"} => s \in Ultra
      BY <2>10
    <3>2. p # "idle" /\ session[s].of = <<s, session[s].i>> /\ session[s].of \in Tx
      BY <2>10, <2>2 DEF Recorded, Polling
    <3> QED BY <3>1, <3>2, <2>1, <2>2 DEF Goto, GotoNow
  <2>11. CASE Hand(s) \/ HandRejected(s) \/ HandLost(s) \/ Resend(s) \/ Execute(s) \/ Answer(s)
    BY <2>11, <2>10, <2>2, Moved DEF Recorded, Polling
  <2>12. CASE Poll(s) \/ PollHeight(s) \/ Look(s)
    BY <2>12, <2>10, Moved DEF Recorded, Polling
  <2>13. CASE Clear(s) \/ Wait(s) \/ NotSent(s)
    BY <2>13, <2>3, <2>7, <2>10, Moved DEF NotSent, Recorded, Polling
  <2>14. CASE Open(s) \/ ResolveFails(s) \/ BuildFails(s) \/ Renew(s) \/ Prepare(s)
    BY <2>14, <2>3, Moved
  <2> QED BY <1>1, <2>4, <2>5, <2>6, <2>8, <2>9, <2>11, <2>12, <2>13, <2>14 DEF Step
<1>2. CASE (\E t \in Tx : Land(t)) \/ Tick \/ UNCHANGED vars
  BY <1>2, EnvironmentSteps DEF Shape, pcOf, ofOf, Mine
<1> QED BY <1>1, <1>2, NextCases

-----------------------------------------------------------------------------
(* The lease keeps sessions apart.                                         *)

\* A session inside its lease holds it, and it has not expired.
LEMMA InsideHolds ==
    ASSUME TypeOK, LeaseCovers, LeaseHeld, NEW s \in Sessions, Inside(s)
    PROVE  lease.holder = s /\ lease.expires > now
<1> USE SendAssumption, Fields
<1>1. HeldBy(s) /\ session[s].since \in Nat
  BY DEF LeaseHeld
<1>2. CASE OnLease(s)
  BY <1>1, <1>2 DEF HeldBy, LeaseCovers
<1>3. CASE OnSendLease(s)
  BY <1>1, <1>3 DEF HeldBy, LeaseCovers
<1> QED BY <1>2, <1>3 DEF Inside

\* So there is one of them at most, and no other one can take the lease.
LEMMA Alone ==
    ASSUME TypeOK, LeaseCovers, LeaseHeld, NEW s \in Sessions, NEW o \in Sessions, s # o, Inside(o)
    PROVE  ~Inside(s) /\ ~Takes(s) /\ lease.holder # s
  BY InsideHolds, SendAssumption, Fields DEF Takes

\* What a session's step does to the lease and the clock.
LEMMA LeaseSteps ==
    ASSUME NEW s \in Sessions, Step(s) \/ Crash(s)
    PROVE  /\ now' = now
           /\ \/ lease' = lease
              \/ Takes(s) /\ lease' = [holder |-> s, expires |-> now + Ttl] /\ (Open(s) \/ Renew(s))
              \/ lease.holder = s /\ lease' = Free /\ Close(s)
<1> USE DEF chainVars, storeVars
<1>1. CASE Open(s) \/ Renew(s)
  BY <1>1 DEF Open, Renew
<1>2. CASE Close(s)
  BY <1>2 DEF Close
<1>3. CASE OpenRefused(s) \/ ReadPending(s) \/ ResolveFails(s) \/ AskStatus(s) \/ AskHeight(s)
           \/ RaiseFence(s) \/ Clear(s) \/ Build(s) \/ BuildFails(s) \/ NotSent(s) \/ Prepare(s)
  BY <1>3 DEF OpenRefused, ReadPending, ResolveFails, AskStatus, AskHeight, RaiseFence, Clear,
              Build, BuildFails, NotSent, Prepare
<1>4. CASE Record(s) \/ Hand(s) \/ HandRejected(s) \/ HandLost(s) \/ Resend(s) \/ Execute(s)
           \/ Answer(s) \/ Poll(s) \/ PollHeight(s) \/ Look(s) \/ Wait(s) \/ Crash(s)
  BY <1>4 DEF Record, Hand, HandRejected, HandLost, Resend, Execute, Answer, Poll, PollHeight,
              Look, Wait, Crash
<1> QED BY <1>1, <1>2, <1>3, <1>4 DEF Step

\* Others stay where they are.
LEMMA OthersStay ==
    ASSUME TypeOK, NEW s \in Sessions, Step(s) \/ Crash(s), NEW o \in Sessions, o # s
    PROVE  session'[o] = session[o]
<1>2. CASE OpenRefused(s) \/ ReadPending(s) \/ ResolveFails(s) \/ AskStatus(s) \/ AskHeight(s)
           \/ RaiseFence(s) \/ Build(s) \/ BuildFails(s) \/ Prepare(s) \/ Open(s) \/ Renew(s)
           \/ Close(s) \/ Crash(s)
  BY <1>2 DEF TypeOK, OpenRefused, ReadPending, ResolveFails, AskStatus, AskHeight, RaiseFence, Open, Renew,
              Build, BuildFails, Prepare, Goes, Close, Crash
<1>3. CASE Record(s) \/ Hand(s) \/ HandRejected(s) \/ HandLost(s) \/ Resend(s) \/ Execute(s)
           \/ Answer(s) \/ Poll(s) \/ PollHeight(s) \/ Look(s)
  BY <1>3 DEF TypeOK, Record, Hand, HandRejected, HandLost, Resend, Execute, Answer, Poll, PollHeight,
              Look, SeesLanded, Goes, Polls
<1>4. CASE Clear(s) \/ NotSent(s) \/ Wait(s)
  BY <1>4 DEF TypeOK, Clear, NotSent, Wait, Goes, Advance
<1> QED BY <1>2, <1>3, <1>4 DEF Step

LEMMA LeaseHeldStep ==
    LeaseCovers /\ NoBatch /\ TypeOK /\ Shape /\ LeaseHeld /\ [Next]_vars => LeaseHeld'
<1> SUFFICES ASSUME LeaseCovers, NoBatch, TypeOK, Shape, LeaseHeld, [Next]_vars PROVE LeaseHeld'
  OBVIOUS
<1> USE SendAssumption
<1>1. ASSUME NEW s \in Sessions, Step(s) \/ Crash(s) PROVE LeaseHeld'
  <2>0. session[s].i \in 1..10 /\ session[s].since \in Nat /\ now \in Nat /\ lease.expires \in Nat
    BY Fields
  <2>1. ASSUME NEW o \in Sessions, o # s PROVE HeldBy(o)'
    <3>1. session'[o] = session[o] /\ now' = now /\ HeldBy(o)
      BY <1>1, <2>1, OthersStay, LeaseSteps DEF LeaseHeld
    <3>2. (OnLease(o)' <=> OnLease(o)) /\ (OnSendLease(o)' <=> OnSendLease(o))
      BY <3>1 DEF OnLease, OnSendLease, Resolving, Settling, pcOf, ofOf, Mine
    <3>3. Inside(o) => lease' = lease
      BY <1>1, <2>1, LeaseSteps, Alone
    <3> QED BY <3>1, <3>2, <3>3 DEF HeldBy, Inside
  <2>2. HeldBy(s)'
    <3>0. HeldBy(s) /\ now' = now
      BY <1>1, LeaseSteps DEF LeaseHeld
    <3>1. CASE Open(s) \/ Renew(s)
      <4>1. PICK p \in {"resolve", "prepare"} : GotoNow(s, p)
        BY <3>1, Moved
      <4>2. lease' = [holder |-> s, expires |-> now + Ttl]
        BY <3>1 DEF Open, Renew
      <4> QED BY <4>1, <4>2, <3>0, <2>0
              DEF GotoNow, Moves, HeldBy, OnLease, OnSendLease, Resolving, Settling, Preparing, Polling, pcOf
    <3>2. CASE OpenRefused(s) \/ Close(s) \/ Crash(s) \/ ResolveFails(s) \/ BuildFails(s)
      <4>1. session'[s].pc \in {"over", "close"}
        BY <3>2, Moved DEF Goto, Moves
      <4> QED BY <4>1 DEF HeldBy, OnLease, OnSendLease, Resolving, Settling, Preparing, Polling, pcOf
    <3>4. CASE ReadPending(s) \/ AskStatus(s) \/ AskHeight(s) \/ Build(s) \/ Prepare(s)
      <4>1. pcOf(s) \in Preparing /\ lease' = lease /\ session'[s].since = session[s].since
        BY <3>4, Moved, BuildMoves DEF Goto, Moves, Preparing, ReadPending, AskStatus, AskHeight, Build, Prepare,
           storeVars, pcOf
      <4> QED BY <4>1, <2>0, <3>0 DEF HeldBy, OnLease
    <3>5. CASE RaiseFence(s)
      <4>1. /\ lease' = lease /\ session'[s].since = session[s].since /\ session'[s].pc = "clear"
            /\ session'[s].i = session[s].i /\ session'[s].of = session[s].of /\ pcOf(s) = "fence"
        BY <3>5, Moved DEF Goto, Moves, RaiseFence
      <4> QED BY <4>1, <3>0 DEF HeldBy, OnLease, OnSendLease, Resolving, Settling, Preparing, Polling, pcOf, ofOf, Mine
    <3>6. ASSUME NEW v, Advance(s, v), lease' = lease,
                 v = "confirmed" => Settling(s)
          PROVE  HeldBy(s)'
      <4>1. CASE Goto(s, "close")
        BY <4>1 DEF Goto, Moves, HeldBy, OnLease, OnSendLease, Resolving, Settling, Preparing, Polling, pcOf
      <4>2. CASE /\ v = "confirmed" /\ session[s].i < Plans[s]
                 /\ Moves(s, "renew", session[s].i + 1, session[s].of, session[s].base, session[s].since)
        <5>1. s \notin Ultra
          BY <4>2, <2>0
        <5> QED BY <4>2, <5>1, <3>0, <2>0, <3>6
                DEF Moves, HeldBy, OnLease, OnSendLease, Resolving, Settling, Preparing, Polling, pcOf
      <4> QED BY <4>1, <4>2, <3>6, AdvanceMoves DEF NoBatch
    <3>7. CASE Clear(s)
      <4>1. lease' = lease
        BY <3>7 DEF Clear
      <4>2. CASE ofOf(s) = Mine(s)
        BY <3>7, <3>6, <4>1, <4>2, Moved DEF Settling
      <4>3. CASE ofOf(s) # Mine(s)
        <5>1. OnLease(s) /\ Goto(s, "build")
          BY <3>7, <4>3, Moved DEF OnLease, Resolving
        <5> QED BY <5>1, <4>1, <3>0, <2>0 DEF Goto, Moves, HeldBy, OnLease, OnSendLease, Settling, pcOf, Polling
      <4> QED BY <4>2, <4>3
    <3>8. CASE NotSent(s) \/ Wait(s)
      <4>1. lease' = lease
        BY <3>8 DEF NotSent, Wait, storeVars
      <4>2. CASE Advance(s, "refused") \/ Advance(s, "unconfirmed")
        BY <3>6, <4>1, <4>2
      <4>3. CASE pcOf(s) = "wait" /\ Goto(s, "poll")
        BY <3>0, <4>1, <4>3 DEF Goto, Moves, HeldBy, OnLease, OnSendLease, Resolving, Settling, Preparing, Polling, pcOf
      <4> QED BY <3>8, <4>2, <4>3, Moved DEF NotSent
    <3>9. CASE Record(s)
      <4>1. /\ pcOf(s) = "record" /\ lease' = lease /\ OnLease(s)
            /\ session'[s].pc = IF s \in Ultra THEN "execute" ELSE "hand"
            /\ session'[s].since = IF s \in Ultra THEN now ELSE session[s].since
        BY <3>9, RecordMoves DEF Record, Moves, OnLease, Preparing, pcOf
      <4> QED BY <4>1, <3>0, <2>0 DEF HeldBy, OnLease, OnSendLease, Preparing, Polling, Resolving, Settling, pcOf
    <3>10. CASE Hand(s) \/ Resend(s) \/ HandRejected(s) \/ HandLost(s)
      <4>1. /\ OnLease(s) /\ lease' = lease
            /\ \/ session'[s].pc = "poll" /\ session'[s].since = now
               \/ session'[s].pc \in {"clear", "resend"} /\ session'[s].since = session[s].since
        BY <3>10, Moved DEF Goto, GotoNow, Moves, OnLease, Preparing, Hand, Resend, HandRejected, HandLost, storeVars
      <4> QED BY <4>1, <3>0, <2>0 DEF HeldBy, OnLease, OnSendLease, Preparing, Polling, Resolving, Settling, pcOf
    <3>11. CASE Execute(s) \/ Answer(s)
      <4>1. /\ pcOf(s) \in {"execute", "answer"} /\ lease' = lease /\ s \in Ultra /\ ofOf(s) = Mine(s)
            /\ \E p \in {"fence", "clear", "execute", "answer"} : Goto(s, p) \/ GotoNow(s, "poll")
        BY <3>11, Moved DEF Shape, Execute, Answer, storeVars, Recorded
      <4> QED BY <4>1, <3>0, <2>0 DEF Goto, GotoNow, Moves, HeldBy, OnLease, OnSendLease, Preparing, Polling,
              Resolving, Settling, pcOf, ofOf, Mine
    <3>12. CASE Poll(s) \/ PollHeight(s) \/ Look(s)
      <4>1. /\ pcOf(s) \in Polling /\ lease' = lease /\ ofOf(s) = Mine(s)
            /\ \E p \in {"fence", "clear", "height", "look", "wait"} : Goto(s, p)
        BY <3>12, Moved DEF Shape, Poll, PollHeight, Look, storeVars, Recorded, Polling
      <4> QED BY <4>1, <3>0, <2>0 DEF Goto, Moves, HeldBy, OnLease, OnSendLease, Preparing, Polling,
              Resolving, Settling, pcOf, ofOf, Mine
    <3> QED BY <1>1, <3>1, <3>2, <3>4, <3>5, <3>7, <3>8, <3>9, <3>10, <3>11, <3>12 DEF Step
  <2> QED BY <2>1, <2>2 DEF LeaseHeld
<1>2. CASE (\E t \in Tx : Land(t)) \/ UNCHANGED vars
  <2>1. UNCHANGED <<lease, session, now>>
    BY <1>2 DEF Land, vars, chainVars, storeVars
  <2> QED BY <2>1 DEF LeaseHeld, HeldBy, OnLease, OnSendLease, Resolving, Settling, pcOf, ofOf, Mine
<1>3. CASE Tick
  <2>1. now' = now + 1 /\ now \in Nat /\ UNCHANGED <<lease, session>>
    BY <1>3, Fields DEF Tick, storeVars
  <2>2. ASSUME NEW s \in Sessions PROVE HeldBy(s)'
    <3>1. HeldBy(s) /\ MayPass(s) /\ session[s].since \in Nat
      BY <1>3, Fields DEF Tick, LeaseHeld
    <3>2. (OnLease(s)' <=> OnLease(s)) /\ (OnSendLease(s)' <=> OnSendLease(s))
      BY <2>1 DEF OnLease, OnSendLease, Resolving, Settling, pcOf, ofOf, Mine
    <3>3. OnLease(s) => now' <= session[s].since + MaxPrep
      BY <2>1, <3>1 DEF MayPass, Idle, Waits, OnLease, Preparing, Resolving, pcOf
    <3>4. OnSendLease(s) => \/ now' <= session[s].since + MaxPrep
                            \/ now' <= session[s].since + MaxPoll
      BY <2>1, <3>1 DEF MayPass, Idle, Waits, OnSendLease, Polling, Settling, pcOf
    <3> QED BY <2>1, <3>1, <3>2, <3>3, <3>4 DEF HeldBy
  <2> QED BY <2>2 DEF LeaseHeld
<1> QED BY <1>1, <1>2, <1>3, NextCases

-----------------------------------------------------------------------------
(* What a session's step does to the chain, the record and the reports.    *)

LEMMA SentSteps ==
    ASSUME NEW s \in Sessions, Step(s) \/ Crash(s)
    PROVE  /\ slot' = slot
           /\ \/ sent' = sent
              \/ /\ sent' = sent \cup {Mine(s)}
                 /\ pcOf(s) \in {"hand", "resend", "execute"}
                 /\ UNCHANGED <<pending, lvbh, report>>
<1> USE DEF chainVars, storeVars
<1>1. CASE OpenRefused(s) \/ ReadPending(s) \/ ResolveFails(s) \/ AskStatus(s) \/ AskHeight(s)
           \/ RaiseFence(s) \/ Clear(s) \/ Build(s) \/ BuildFails(s) \/ NotSent(s) \/ Prepare(s)
           \/ Open(s) \/ Renew(s) \/ Close(s)
  BY <1>1 DEF OpenRefused, ReadPending, ResolveFails, AskStatus, AskHeight, RaiseFence, Clear,
              Build, BuildFails, NotSent, Prepare, Open, Renew, Close
<1>2. CASE Record(s) \/ HandRejected(s) \/ Answer(s) \/ Poll(s) \/ PollHeight(s) \/ Look(s)
           \/ Wait(s) \/ Crash(s)
  BY <1>2 DEF Record, HandRejected, Answer, Poll, PollHeight, Look, Wait, Crash
<1>3. CASE Hand(s) \/ HandLost(s) \/ Resend(s) \/ Execute(s)
  BY <1>3 DEF Hand, HandLost, Resend, Execute, Goes, pcOf
<1> QED BY <1>1, <1>2, <1>3 DEF Step

LEMMA PendingSteps ==
    ASSUME NEW s \in Sessions, Step(s) \/ Crash(s)
    PROVE  \/ pending' = pending
           \/ Record(s) /\ pcOf(s) = "record" /\ pending' = Mine(s)
           \/ pcOf(s) = "clear" /\ pending = ofOf(s) /\ pending' = NoTx
<1> USE DEF chainVars, storeVars, pcOf, ofOf
<1>1. CASE OpenRefused(s) \/ ReadPending(s) \/ ResolveFails(s) \/ AskStatus(s) \/ AskHeight(s)
           \/ RaiseFence(s) \/ Build(s) \/ BuildFails(s) \/ NotSent(s) \/ Prepare(s)
           \/ Open(s) \/ Renew(s) \/ Close(s)
  BY <1>1 DEF OpenRefused, ReadPending, ResolveFails, AskStatus, AskHeight, RaiseFence,
              Build, BuildFails, NotSent, Prepare, Open, Renew, Close
<1>2. CASE HandRejected(s) \/ Answer(s) \/ Poll(s) \/ PollHeight(s) \/ Look(s)
           \/ Wait(s) \/ Crash(s) \/ Hand(s) \/ HandLost(s) \/ Resend(s) \/ Execute(s)
  BY <1>2 DEF HandRejected, Answer, Poll, PollHeight, Look, Wait, Crash, Hand, HandLost, Resend, Execute
<1>3. CASE Record(s)
  BY <1>3 DEF Record
<1>4. CASE Clear(s)
  BY <1>4 DEF Clear, Cleared
<1> QED BY <1>1, <1>2, <1>3, <1>4 DEF Step

LEMMA LvbhSteps ==
    ASSUME TypeOK, Shape, NEW s \in Sessions, Step(s) \/ Crash(s)
    PROVE  \/ lvbh' = lvbh
           \/ /\ pcOf(s) = "prepare" /\ Prepare(s)
              /\ \A t \in Tx : t # Mine(s) => lvbh'[t] = lvbh[t]
<1> USE DEF chainVars, storeVars
<1>1. CASE OpenRefused(s) \/ ReadPending(s) \/ ResolveFails(s) \/ AskStatus(s) \/ AskHeight(s)
           \/ RaiseFence(s) \/ Clear(s) \/ Build(s) \/ BuildFails(s) \/ NotSent(s)
           \/ Open(s) \/ Renew(s) \/ Close(s)
  BY <1>1 DEF OpenRefused, ReadPending, ResolveFails, AskStatus, AskHeight, RaiseFence, Clear,
              Build, BuildFails, NotSent, Open, Renew, Close
<1>2. CASE HandRejected(s) \/ Answer(s) \/ Poll(s) \/ PollHeight(s) \/ Look(s) \/ Record(s)
           \/ Wait(s) \/ Crash(s) \/ Hand(s) \/ HandLost(s) \/ Resend(s) \/ Execute(s)
  BY <1>2 DEF HandRejected, Answer, Poll, PollHeight, Look, Wait, Crash, Hand, HandLost, Resend, Execute, Record
<1>3. CASE Prepare(s)
  BY <1>3, MineIsTx DEF Prepare, Goes, pcOf, TypeOK
<1> QED BY <1>1, <1>2, <1>3 DEF Step

\* A session tells of its own transaction only.
LEMMA ReportSteps ==
    ASSUME TypeOK, Shape, NEW s \in Sessions, Step(s) \/ Crash(s)
    PROVE  \/ report' = report
           \/ /\ pcOf(s) \in Recorded \cup {"renew", "prepare", "record"}
              /\ session'[s].pc \in {"fence", "clear", "close", "renew"}
              /\ \A t \in Tx : t # Mine(s) => report'[t] = report[t]
<1> USE DEF chainVars, storeVars
<1>0. report \in [Tx -> Reports] /\ Mine(s) \in Tx
  BY MineIsTx DEF TypeOK, Reports
<1>1. CASE OpenRefused(s) \/ ReadPending(s) \/ ResolveFails(s) \/ AskStatus(s) \/ AskHeight(s)
           \/ RaiseFence(s) \/ Build(s) \/ BuildFails(s) \/ Open(s) \/ Renew(s) \/ Close(s)
           \/ Prepare(s) \/ Crash(s)
  BY <1>1 DEF OpenRefused, ReadPending, ResolveFails, AskStatus, AskHeight, RaiseFence,
              Build, BuildFails, Open, Renew, Close, Prepare, Crash
<1>2. CASE PollHeight(s) \/ Record(s) \/ Hand(s) \/ HandLost(s) \/ Resend(s) \/ Execute(s)
  BY <1>2 DEF PollHeight, Hand, HandLost, Resend, Execute, Record
<1>3. ASSUME NEW v, Advance(s, v)
      PROVE  /\ session'[s].pc \in {"close", "renew"}
             /\ \A t \in Tx : t # Mine(s) => report'[t] = report[t]
  BY <1>0, <1>3, AdvanceMoves DEF Advance, Goto, Moves
<1>4. CASE NotSent(s) \/ Wait(s)
  BY <1>4, <1>3, Moved DEF NotSent, Recorded, Polling, pcOf
<1>5. CASE Clear(s)
  <2>1. CASE ofOf(s) = Mine(s)
    <3>1. report' = [report EXCEPT ![Mine(s)] = report[Mine(s)]]
      BY <1>5, <2>1, Moved DEF Advance
    <3> QED BY <3>1, <1>0
  <2> QED BY <1>5, <2>1, Moved
<1>6. CASE HandRejected(s)
  BY <1>6, <1>0, Moved DEF HandRejected, Goto, Moves, Recorded
<1>7. CASE Answer(s)
  BY <1>7, <1>0, Moved DEF Answer, Goto, Moves, Recorded
<1>8. CASE Poll(s)
  BY <1>8, <1>0, Moved DEF Poll, SeesLanded, Goto, Moves, Recorded, Polling
<1>9. CASE Look(s)
  BY <1>9, <1>0, Moved DEF Look, SeesLanded, Goto, Moves, Recorded, Polling
<1> QED BY <1>1, <1>2, <1>4, <1>5, <1>6, <1>7, <1>8, <1>9 DEF Step

\* A transaction that is not recorded yet was not recorded before.
LEMMA UnbornBefore ==
    ASSUME TypeOK, Shape, NEW s \in Sessions, Step(s) \/ Crash(s), NEW j \in Nat, Unborn(s, j)'
    PROVE  /\ Unborn(s, j)
           /\ j = session[s].i => /\ pcOf(s) \notin Recorded
                                  /\ session'[s].i = session[s].i
                                  /\ session'[s].pc \in BeforeRecord \cup {"fence", "clear"}
                                  /\ ~Record(s)
<1> USE DEF pcOf, ofOf, Mine
<1>0. session[s].i \in 1..10 /\ Mine(s) = <<s, session[s].i>>
  BY Fields
<1>1. CASE OpenRefused(s) \/ Close(s) \/ Crash(s)
  BY <1>1, Moved DEF Moves, Unborn
<1>2. CASE ResolveFails(s) \/ BuildFails(s)
  <2>1. Goto(s, "close") /\ pcOf(s) \in {"resolve", "ask", "askHeight", "build"}
    BY <1>2, Moved
  <2> QED BY <1>0, <2>1 DEF Goto, Moves, Unborn, Resolving, BeforeRecord
<1>3. CASE Open(s) \/ ReadPending(s) \/ AskStatus(s) \/ AskHeight(s) \/ Renew(s) \/ Prepare(s) \/ Build(s)
  <2>1. /\ pcOf(s) \in BeforeRecord
        /\ session'[s].i = session[s].i
        /\ session'[s].pc \in BeforeRecord \cup {"fence", "clear"}
        /\ ~Record(s)
    BY <1>3, Moved, BuildMoves DEF Goto, GotoNow, Moves, BeforeRecord, Build, Record
  <2> QED BY <2>1, <1>0 DEF Unborn, BeforeRecord, Recorded, Polling
<1>4. CASE RaiseFence(s)
  <2>1. pcOf(s) = "fence" /\ Goto(s, "clear")
    BY <1>4, Moved
  <2> QED BY <2>1, <1>0 DEF Goto, Moves, Unborn, Resolving, BeforeRecord, Recorded, Polling, Record
<1>5. ASSUME NEW v, Advance(s, v), pcOf(s) # "over" PROVE Unborn(s, j) /\ j # session[s].i
  <2>1. CASE Goto(s, "close")
    BY <1>0, <1>5, <2>1 DEF Goto, Moves, Unborn, Resolving, BeforeRecord
  <2>2. CASE Moves(s, "renew", session[s].i + 1, session[s].of, session[s].base, session[s].since)
    BY <1>0, <1>5, <2>2 DEF Moves, Unborn
  <2> QED BY <1>5, <2>1, <2>2, AdvanceMoves
<1>6. CASE Clear(s)
  <2>1. CASE Advance(s, report[Mine(s)])
    BY <1>5, <1>6, <2>1, Moved
  <2>2. CASE ofOf(s) # Mine(s) /\ Goto(s, "build")
    BY <1>0, <1>6, <2>2, Moved DEF Goto, Moves, Unborn, Resolving, BeforeRecord, Recorded, Polling, Record
  <2> QED BY <1>6, <2>1, <2>2, Moved
<1>7. CASE NotSent(s)
  BY <1>5, <1>7 DEF NotSent
<1>8. CASE Record(s)
  <2>1. session'[s].i = session[s].i /\ session'[s].pc \in {"execute", "hand"} /\ pcOf(s) = "record"
    BY <1>8, RecordMoves DEF Moves, Record
  <2> QED BY <2>1, <1>0 DEF Unborn, BeforeRecord, Resolving
<1>9. CASE pcOf(s) \in Recorded /\ ~Advance(s, "unconfirmed") /\ ~Crash(s)
  <2>1. ofOf(s) = Mine(s)
    BY <1>9 DEF Shape
  <2>2. \E p \in Recorded \cup {"fence", "clear"} : Goto(s, p) \/ GotoNow(s, p)
    <3>1. CASE Hand(s) \/ HandRejected(s) \/ HandLost(s) \/ Resend(s) \/ Execute(s) \/ Answer(s)
      BY <3>1, Moved DEF Recorded, Polling
    <3>2. CASE Poll(s) \/ PollHeight(s) \/ Look(s) \/ Wait(s)
      BY <3>2, <1>9, Moved DEF Recorded, Polling
    <3>3. pcOf(s) \notin BeforeRecord \cup {"fence", "clear", "close", "over"}
      BY <1>9 DEF Recorded, Polling, BeforeRecord
    <3>4. /\ ~Open(s) /\ ~OpenRefused(s) /\ ~ReadPending(s) /\ ~ResolveFails(s) /\ ~AskStatus(s) /\ ~AskHeight(s)
          /\ ~RaiseFence(s) /\ ~Clear(s) /\ ~Build(s) /\ ~BuildFails(s) /\ ~Renew(s) /\ ~NotSent(s)
          /\ ~Prepare(s) /\ ~Record(s) /\ ~Close(s)
      BY <3>3, Moved DEF BeforeRecord, NotSent, Build, Record, Close, OpenRefused
    <3> QED BY <1>9, <3>1, <3>2, <3>4 DEF Step
  <2>3. PICK p \in Recorded \cup {"fence", "clear"} :
             /\ session'[s].pc = p /\ session'[s].i = session[s].i /\ session'[s].of = session[s].of
    BY <2>2 DEF Goto, GotoNow, Moves
  <2> QED BY <1>0, <1>9, <2>1, <2>3 DEF Unborn, Resolving, BeforeRecord, Recorded, Polling
<1>10. CASE Advance(s, "unconfirmed") /\ pcOf(s) # "over"
  BY <1>5, <1>10
<1>11. CASE Hand(s) \/ HandRejected(s) \/ HandLost(s) \/ Resend(s) \/ Execute(s) \/ Answer(s)
            \/ Poll(s) \/ PollHeight(s) \/ Look(s) \/ Wait(s)
  <2>1. pcOf(s) \in Recorded /\ pcOf(s) # "over"
    BY <1>11, Moved DEF Recorded, Polling
  <2> QED BY <2>1, <1>9, <1>10, <1>1
<1> QED BY <1>1, <1>2, <1>3, <1>4, <1>6, <1>7, <1>8, <1>11 DEF Step

LEMMA UnbornUnseenStep == TypeOK /\ Shape /\ UnbornUnseen /\ [Next]_vars => UnbornUnseen'
<1> SUFFICES ASSUME TypeOK, Shape, UnbornUnseen, [Next]_vars, NEW t \in Tx, Unborn(t[1], t[2])'
             PROVE  t \notin sent' /\ pending' # t /\ report'[t] = "none"
  BY DEF UnbornUnseen
<1>0. t[1] \in Sessions /\ t[2] \in Nat /\ t = <<t[1], t[2]>> /\ NoTx \notin Tx
  BY SendAssumption DEF Tx
<1>1. ASSUME NEW s \in Sessions, Step(s) \/ Crash(s) 
      PROVE  t \notin sent' /\ pending' # t /\ report'[t] = "none"
  <2>1. CASE t[1] # s
    <3>1. session'[t[1]] = session[t[1]] /\ t # Mine(s)
      BY <1>0, <1>1, <2>1, OthersStay DEF Mine
    <3>2. Unborn(t[1], t[2])
      BY <3>1 DEF Unborn, Resolving, pcOf, ofOf, Mine
    <3> QED BY <1>0, <1>1, <3>1, <3>2, SentSteps, PendingSteps, ReportSteps DEF UnbornUnseen
  <2>2. CASE t[1] = s
    <3>1. Unborn(s, t[2])
      BY <1>0, <1>1, <2>2, UnbornBefore
    <3>2. t \notin sent /\ pending # t /\ report[t] = "none"
      BY <2>2, <3>1 DEF UnbornUnseen
    <3>3. CASE t # Mine(s)
      BY <1>0, <1>1, <3>2, <3>3, SentSteps, PendingSteps, ReportSteps
    <3>4. CASE t = Mine(s)
      <4>1. t[2] = session[s].i
        BY <3>4 DEF Mine
      <4>2. pcOf(s) \notin Recorded /\ ~Record(s)
        BY <1>0, <1>1, <2>2, <4>1, UnbornBefore
      <4>3. sent' = sent /\ pending' \in {pending, NoTx}
        BY <1>1, <4>2, SentSteps, PendingSteps DEF Recorded
      <4>4. report' = report
        <5>1. CASE NotSent(s)
          <6>1. Moves(s, "renew", session[s].i + 1, session[s].of, session[s].base, session[s].since)
                \/ Goto(s, "close")
            BY <5>1, AdvanceMoves DEF NotSent
          <6>2. session'[s].i = session[s].i /\ session'[s].pc \in BeforeRecord \cup {"fence", "clear"}
            BY <1>0, <1>1, <2>2, <4>1, UnbornBefore
          <6>3. session[s].i \in 1..10
            BY Fields
          <6> QED BY <6>1, <6>2, <6>3 DEF Moves, Goto, BeforeRecord
        <5>2. CASE ~NotSent(s)
          <6>1. pcOf(s) \in {"renew", "prepare", "record"} => report' = report
            <7>1. CASE OpenRefused(s) \/ Close(s) \/ Crash(s) \/ Renew(s) \/ Prepare(s) \/ Record(s)
              BY <7>1 DEF OpenRefused, Close, Crash, Renew, Prepare, Record
            <7>2. CASE pcOf(s) \in {"renew", "prepare", "record"}
              BY <1>1, <5>2, <7>1, <7>2, Moved DEF Step, Build, pcOf
            <7> QED BY <7>2
          <6> QED BY <1>1, <4>2, <6>1, ReportSteps
        <5> QED BY <5>1, <5>2
      <4> QED BY <1>0, <3>2, <4>3, <4>4
    <3> QED BY <3>3, <3>4
  <2> QED BY <2>1, <2>2
<1>2. CASE (\E u \in Tx : Land(u)) \/ Tick \/ UNCHANGED vars
  <2>1. Unborn(t[1], t[2]) /\ UNCHANGED <<sent, pending, report>>
    BY <1>2, EnvironmentSteps DEF Unborn, Resolving, pcOf, ofOf, Mine
  <2> QED BY <2>1 DEF UnbornUnseen
<1> QED BY <1>1, <1>2, NextCases

-----------------------------------------------------------------------------
(* What may still land, and its record.                                    *)

\* Only a session that hands its own recorded transaction over makes one live.
LEMMA LiveSteps ==
    ASSUME TypeOK, Shape, UnbornUnseen, NEW s \in Sessions, Step(s) \/ Crash(s),
           NEW t \in Tx, Live(t)'
    PROVE  \/ Live(t)
           \/ t = Mine(s) /\ pcOf(s) \in {"hand", "resend", "execute"} /\ pending' = pending
<1>1. slot' = slot /\ now' = now /\ Mine(s) \in Tx
  BY LeaseSteps, SentSteps, MineIsTx
<1>2. CASE lvbh' = lvbh
  BY <1>1, <1>2, SentSteps DEF Live, Landed
<1>3. CASE pcOf(s) = "prepare" /\ \A u \in Tx : u # Mine(s) => lvbh'[u] = lvbh[u]
  <2>1. sent' = sent
    BY <1>3, SentSteps
  <2>2. Mine(s) \notin sent
    BY <1>1, <1>3, MineIsTx DEF UnbornUnseen, Unborn, BeforeRecord
  <2> QED BY <1>1, <1>3, <2>1, <2>2 DEF Live, Landed
<1> QED BY <1>2, <1>3, LvbhSteps

LEMMA LiveDies ==
    ASSUME TypeOK, (\E u \in Tx : Land(u)) \/ Tick \/ UNCHANGED vars, NEW t \in Tx, Live(t)'
    PROVE  Live(t)
<1>1. sent' = sent /\ lvbh' = lvbh
  BY EnvironmentSteps
<1>2. now' >= now /\ (slot'[t] = 0 => slot[t] = 0) /\ now \in Nat /\ now' \in Nat /\ slot'[t] \in Nat /\ slot[t] \in Nat /\ lvbh[t] \in Nat
  <2>1. CASE \E u \in Tx : Land(u)
    BY <2>1, Fields DEF Land, TypeOK
  <2>2. CASE Tick \/ UNCHANGED vars
    BY <2>2, Fields DEF Tick, vars, chainVars
  <2> QED BY <2>1, <2>2
<1> QED BY <1>1, <1>2 DEF Live, Landed

LEMMA OutcomesStep ==
    LeaseCovers /\ TypeOK /\ Shape /\ LeaseHeld /\ UnbornUnseen /\ Outcomes /\ [Next]_vars => Outcomes'
<1> SUFFICES ASSUME LeaseCovers, TypeOK, Shape, LeaseHeld, UnbornUnseen, Outcomes, [Next]_vars PROVE Outcomes'
  OBVIOUS
<1> DEFINE Out(s) ==
        /\ pcOf(s) \in Recorded => report[Mine(s)] = "none"
        /\ pcOf(s) = "hand" => Mine(s) \notin sent
        /\ pcOf(s) = "look" => now > lvbh[Mine(s)]
        /\ pcOf(s) = "fence" => Landed(ofOf(s))
        /\ pcOf(s) = "clear" => ~Live(ofOf(s))
<1>0. \A s \in Sessions : Out(s)
  BY DEF Outcomes
<1>1. ASSUME NEW s \in Sessions, Step(s) \/ Crash(s) PROVE Outcomes'
  <2>0. slot' = slot /\ now' = now /\ Mine(s) \in Tx /\ Mine(s)[1] = s
    BY <1>1, LeaseSteps, SentSteps, MineIsTx
  <2>1. \A t \in Tx : Landed(t)' => t \in sent'
    BY <1>1, <2>0, SentSteps DEF Outcomes, Landed
  <2>2. ASSUME NEW o \in Sessions, o # s PROVE Out(o)'
    <3>1. session'[o] = session[o] /\ Mine(o) \in Tx /\ Mine(o) # Mine(s) /\ Mine(o)' = Mine(o)
      BY <1>1, <2>2, OthersStay, MineIsTx DEF Mine
    <3>2. /\ report'[Mine(o)] = report[Mine(o)] /\ lvbh'[Mine(o)] = lvbh[Mine(o)]
          /\ Mine(o) \notin sent => Mine(o) \notin sent'
      BY <1>1, <3>1, ReportSteps, LvbhSteps, SentSteps
    <3>3. pcOf(o) = "clear" => ~Live(ofOf(o))'
      <4>1. SUFFICES ASSUME pcOf(o) = "clear", Live(ofOf(o))' PROVE FALSE
        OBVIOUS
      <4>2. ofOf(o) \in Tx /\ ofOf(o)' = ofOf(o) /\ ~Live(ofOf(o))
        BY <4>1, <3>1, <1>0 DEF Shape, ofOf
      <4>3. ofOf(o) = Mine(s) /\ pcOf(s) \in {"hand", "resend", "execute"}
        BY <1>1, <4>1, <4>2, LiveSteps
      <4>4. Inside(s)
        BY <4>3 DEF Inside, OnLease, OnSendLease, Preparing
      <4>5. Inside(o)
        BY <4>1, <4>3, <3>1 DEF Inside, OnLease, Resolving
      <4> QED BY <2>2, <4>4, <4>5, Alone
    <3> QED BY <1>0, <2>0, <3>1, <3>2, <3>3 DEF pcOf, ofOf, Landed
  <2>3. Out(s)'
    <3>0. Out(s) /\ now \in Nat /\ lvbh[Mine(s)] \in Nat
      BY <1>0, <2>0, Fields
    <3>1. CASE session'[s].pc \notin Recorded \cup {"fence", "clear"}
      BY <3>1 DEF pcOf, Recorded, Polling
    <3>2. CASE Record(s)
      <4>1. /\ session'[s].pc \in {"execute", "hand"} /\ session'[s].i = session[s].i
            /\ pcOf(s) = "record" /\ report' = report /\ sent' = sent
        BY <3>2, RecordMoves DEF Moves, Record, pcOf, chainVars
      <4>2. Mine(s) \notin sent /\ report[Mine(s)] = "none"
        BY <2>0, <4>1, MineIsTx DEF UnbornUnseen, Unborn, BeforeRecord
      <4> QED BY <4>1, <4>2 DEF pcOf, Mine
    <3>3. CASE AskStatus(s) \/ AskHeight(s) \/ RaiseFence(s)
      <4>1. /\ \E p \in {"fence", "askHeight", "clear"} :
                  /\ Goto(s, p)
                  /\ p = "fence" => Landed(ofOf(s))
                  /\ p = "clear" => Landed(ofOf(s)) \/ now > lvbh[ofOf(s)]
            /\ ofOf(s) \in Tx /\ lvbh' = lvbh
        <5>1. CASE AskStatus(s)
          BY <5>1, Moved DEF Shape, AskStatus
        <5>2. CASE AskHeight(s)
          BY <5>2, Moved DEF Shape, AskHeight, ofOf
        <5>3. CASE RaiseFence(s)
          BY <5>3, Moved, <3>0 DEF Shape, RaiseFence
        <5> QED BY <3>3, <5>1, <5>2, <5>3
      <4>2. now \in Nat /\ lvbh[ofOf(s)] \in Nat
        BY <4>1, Fields
      <4> QED BY <2>0, <4>1, <4>2 DEF Goto, Moves, pcOf, ofOf, Landed, Live, Recorded, Polling
    <3>4. CASE Hand(s) \/ HandLost(s) \/ Resend(s) \/ Execute(s) \/ PollHeight(s)
      <4>1. /\ pcOf(s) \in Recorded /\ UNCHANGED <<report, lvbh>>
            /\ \E p \in {"poll", "resend", "answer", "look", "wait"} :
                 /\ Goto(s, p) \/ GotoNow(s, p)
                 /\ p = "look" => now > lvbh[Mine(s)]
        BY <3>4, Moved DEF Hand, HandLost, Resend, Execute, PollHeight, Recorded, Polling
      <4>2. /\ session'[s].pc \in {"poll", "resend", "answer", "look", "wait"} /\ Mine(s)' = Mine(s)
            /\ session'[s].pc = "look" => now > lvbh[Mine(s)]
        BY <4>1 DEF Goto, GotoNow, Moves, Mine
      <4> QED BY <2>0, <3>0, <4>1, <4>2 DEF pcOf, Recorded, Polling
    <3>5. CASE HandRejected(s)
      <4>1. Goto(s, "clear") /\ sent' = sent /\ Mine(s) \notin sent /\ ofOf(s) = Mine(s)
        BY <3>5, <3>0, Moved DEF HandRejected, Shape, Recorded, chainVars
      <4> QED BY <4>1 DEF Goto, Moves, pcOf, ofOf, Live, Recorded, Polling, Mine
    <3>6. CASE Answer(s) \/ Poll(s) \/ Look(s) \/ Wait(s)
      <4>1. /\ pcOf(s) \in Recorded /\ sent' = sent /\ lvbh' = lvbh /\ ofOf(s) = Mine(s)
            /\ pcOf(s) \in {"answer", "poll", "look", "wait"}
        BY <3>6, Moved DEF Answer, Poll, Look, Wait, Shape, Recorded, Polling, chainVars
      <4>2. CASE Goto(s, "fence") /\ Landed(Mine(s))
        BY <2>0, <4>1, <4>2 DEF Goto, Moves, pcOf, ofOf, Landed, Recorded, Polling
      <4>3. CASE Goto(s, "clear") /\ (Mine(s) \notin sent \/ now > lvbh[Mine(s)])
        BY <2>0, <3>0, <4>1, <4>3 DEF Goto, Moves, pcOf, ofOf, Live, Recorded, Polling
      <4>4. CASE UNCHANGED report /\ \E p \in {"execute", "poll", "height", "wait"} : Goto(s, p) \/ GotoNow(s, p)
        <5>1. session'[s].pc \in {"execute", "poll", "height", "wait"} /\ Mine(s)' = Mine(s)
          BY <4>4 DEF Goto, GotoNow, Moves, Mine
        <5> QED BY <3>0, <4>1, <4>4, <5>1 DEF pcOf
      <4>5. CASE Advance(s, "unconfirmed")
        <5>1. session'[s].pc \in {"close", "renew"}
          BY <4>5, AdvanceMoves DEF Goto, Moves
        <5> QED BY <5>1, <3>1 DEF Recorded, Polling
      <4>6. \/ Goto(s, "fence") /\ Landed(Mine(s))
            \/ Goto(s, "clear") /\ (Mine(s) \notin sent \/ now > lvbh[Mine(s)])
            \/ UNCHANGED report /\ \E p \in {"execute", "poll", "height", "wait"} : Goto(s, p) \/ GotoNow(s, p)
            \/ Advance(s, "unconfirmed")
        <5>1. CASE Answer(s)
          BY <5>1, Moved
        <5>2. CASE Poll(s) \/ Wait(s)
          BY <5>2, Moved DEF SeesLanded
        <5>3. CASE Look(s)
          BY <5>3, <3>0, Moved DEF SeesLanded
        <5> QED BY <3>6, <5>1, <5>2, <5>3
      <4> QED BY <4>2, <4>3, <4>4, <4>5, <4>6
    <3>7. CASE OpenRefused(s) \/ Close(s) \/ Crash(s) \/ Open(s) \/ ReadPending(s) \/ ResolveFails(s)
               \/ BuildFails(s) \/ Renew(s) \/ Prepare(s) \/ Build(s) \/ Clear(s) \/ NotSent(s)
      <4>1. CASE OpenRefused(s) \/ Close(s) \/ Crash(s) \/ Open(s) \/ ReadPending(s) \/ ResolveFails(s)
               \/ BuildFails(s) \/ Renew(s) \/ Prepare(s) \/ Build(s)
        <5>1. session'[s].pc \in {"over", "resolve", "build", "ask", "close", "prepare", "record", "renew"}
          BY <4>1, Moved, BuildMoves DEF Goto, GotoNow, Moves
        <5> QED BY <5>1, <3>1 DEF Recorded, Polling
      <4>2. CASE Clear(s) \/ NotSent(s)
        <5>1. session'[s].pc \in {"build", "close", "renew"}
          BY <4>2, Moved, AdvanceMoves DEF Goto, Moves, NotSent
        <5> QED BY <5>1, <3>1 DEF Recorded, Polling
      <4> QED BY <3>7, <4>1, <4>2
    <3> QED BY <1>1, <3>2, <3>3, <3>4, <3>5, <3>6, <3>7 DEF Step
  <2> QED BY <2>1, <2>2, <2>3 DEF Outcomes
<1>2. CASE (\E t \in Tx : Land(t)) \/ Tick \/ UNCHANGED vars
  <2>1. UNCHANGED <<sent, lvbh, session, report>>
    BY <1>2, EnvironmentSteps
  <2>2. now' >= now /\ now \in Nat /\ now' \in Nat /\ \A t \in Tx : lvbh[t] \in Nat /\ (Landed(t) => Landed(t)')
    <3>1. CASE \E t \in Tx : Land(t)
      BY <3>1, Fields DEF Land, Landed, TypeOK
    <3>2. CASE Tick \/ UNCHANGED vars
      BY <3>2, Fields DEF Tick, vars, chainVars, Landed
    <3> QED BY <1>2, <3>1, <3>2
  <2>3. \A t \in Tx : Landed(t)' => t \in sent
    <3>1. CASE \E t \in Tx : Land(t)
      BY <3>1, Fields DEF Land, Landed, TypeOK, Outcomes
    <3>2. CASE Tick \/ UNCHANGED vars
      BY <3>2, Fields DEF Tick, vars, chainVars, Landed, Outcomes
    <3> QED BY <1>2, <3>1, <3>2
  <2>4. ASSUME NEW s \in Sessions PROVE Out(s)'
    <3>1. Out(s) /\ Mine(s) \in Tx /\ lvbh[Mine(s)] \in Nat /\ (pcOf(s) \in {"fence", "clear"} => ofOf(s) \in Tx)
      BY <1>0, MineIsTx, <2>2 DEF Shape
    <3>2. Mine(s)' = Mine(s) /\ pcOf(s)' = pcOf(s) /\ ofOf(s)' = ofOf(s)
      BY <2>1 DEF Mine, pcOf, ofOf
    <3>3. pcOf(s) = "clear" => ~Live(ofOf(s))'
      BY <1>2, <3>1, <3>2, LiveDies
    <3>4. pcOf(s) = "fence" => Landed(ofOf(s))'
      BY <2>2, <3>1, <3>2 DEF Landed
    <3>5. pcOf(s) = "look" => now' > lvbh[Mine(s)]
      BY <2>2, <3>1
    <3> QED BY <2>1, <3>1, <3>2, <3>3, <3>4, <3>5
  <2> QED BY <2>1, <2>3, <2>4 DEF Outcomes
<1> QED BY <1>1, <1>2, NextCases

LEMMA RecordKeptStep ==
    LeaseCovers /\ TypeOK /\ Shape /\ LeaseHeld /\ RecordKept /\ [Next]_vars => RecordKept'
<1> SUFFICES ASSUME LeaseCovers, TypeOK, Shape, LeaseHeld, RecordKept, [Next]_vars PROVE RecordKept'
  OBVIOUS
<1> DEFINE Kept(s) ==
        /\ pcOf(s) \in {"ask", "askHeight"} \/ Resolving(s) => pending \in {ofOf(s), NoTx}
        /\ pcOf(s) \in {"hand", "resend", "execute", "answer"} => pending = Mine(s)
        /\ s \notin Ultra /\ (pcOf(s) \in Polling \/ Settling(s)) => pending \in {Mine(s), NoTx}
<1>0. \A s \in Sessions : Kept(s)
  BY DEF RecordKept
<1>1. ASSUME NEW s \in Sessions, Step(s) \/ Crash(s) PROVE RecordKept'
  <2>1. ASSUME NEW o \in Sessions, o # s PROVE Kept(o)'
    <3>1. session'[o] = session[o] /\ Mine(o) # Mine(s)
      BY <1>1, <2>1, OthersStay DEF Mine
    <3>2. /\ pcOf(o)' = pcOf(o) /\ Mine(o)' = Mine(o) /\ ofOf(o)' = ofOf(o)
          /\ Resolving(o)' = Resolving(o) /\ Settling(o)' = Settling(o)
      BY <3>1 DEF pcOf, Mine, ofOf, Resolving, Settling
    <3>3. CASE Inside(o)
      <4>1. ~Inside(s)
        BY <2>1, <3>3, Alone
      <4>2. pcOf(s) # "record"
        BY <4>1 DEF Inside, OnLease, Preparing
      <4>3. pcOf(s) = "clear" => ofOf(s) = Mine(s)
        BY <4>1 DEF Inside, OnLease, Resolving
      <4>4. \/ pending' = pending
            \/ pending' = NoTx /\ pending = Mine(s)
        BY <1>1, <4>2, <4>3, PendingSteps
      <4> QED BY <1>0, <3>1, <3>2, <4>4
    <3>4. CASE ~Inside(o)
      BY <3>2, <3>4 DEF Inside, OnLease, OnSendLease, Preparing
    <3> QED BY <3>3, <3>4
  <2>2. Kept(s)'
    <3>0. Kept(s)
      BY <1>0
    <3>1. CASE session'[s].pc \notin {"ask", "askHeight", "fence", "clear", "hand", "resend", "execute", "answer"} \cup Polling
      BY <3>1 DEF pcOf, Resolving, Settling
    <3>2. CASE ReadPending(s)
      <4>1. session'[s].of = pending /\ pending' = pending /\ session'[s].pc \in {"build", "ask"}
        BY <3>2, Moved DEF Moves, ReadPending, storeVars
      <4> QED BY <4>1 DEF pcOf, ofOf, Resolving, Settling, Polling
    <3>3. CASE AskStatus(s) \/ AskHeight(s) \/ RaiseFence(s)
      <4>1. /\ pcOf(s) \in {"ask", "askHeight", "fence"} /\ pending' = pending
            /\ \E p \in {"fence", "askHeight", "clear"} : Goto(s, p)
        BY <3>3, Moved DEF AskStatus, AskHeight, RaiseFence, storeVars
      <4>2. /\ session'[s].pc \in {"fence", "askHeight", "clear"}
            /\ Mine(s)' = Mine(s) /\ ofOf(s)' = ofOf(s)
        BY <4>1 DEF Goto, Moves, Mine, ofOf
      <4>3. \/ pending \in {ofOf(s), NoTx}
            \/ ofOf(s) = Mine(s) /\ s \in Ultra
        BY <3>0, <4>1 DEF Resolving, Settling
      <4> HIDE DEF Kept
      <4>4. Kept(s)'
        <5>1. (pcOf(s) \in {"ask", "askHeight"} \/ Resolving(s))' => pending' \in {ofOf(s)', NoTx}
          <6>1. CASE ofOf(s) = Mine(s) /\ s \in Ultra /\ pcOf(s) # "fence"
            BY <3>0, <4>1, <4>2, <6>1 DEF Kept
          <6>2. CASE ofOf(s) = Mine(s) /\ pcOf(s) = "fence"
            <7>1. RaiseFence(s)
              BY <3>3, <6>2, Moved
            <7>2. session'[s].pc = "clear"
              BY <7>1, Moved DEF Goto, Moves
            <7> QED BY <4>2, <6>2, <7>2 DEF Resolving, pcOf
          <6>3. CASE pending \in {ofOf(s), NoTx}
            BY <4>1, <4>2, <6>3
          <6> QED BY <4>3, <6>1, <6>2, <6>3
        <5>2. session'[s].pc \notin {"hand", "resend", "execute", "answer"} \cup Polling
          BY <4>2 DEF Polling
        <5>3. (s \notin Ultra /\ Settling(s))' => pending' \in {Mine(s)', NoTx}
          BY <4>1, <4>2, <4>3 DEF Settling
        <5> QED BY <5>1, <5>2, <5>3 DEF Kept, pcOf
      <4> QED BY <4>4
    <3>4. CASE Record(s)
      <4>1. session'[s].pc \in {"execute", "hand"} /\ session'[s].i = session[s].i /\ pending' = Mine(s)
        BY <3>4, RecordMoves DEF Moves, Record
      <4> QED BY <4>1 DEF pcOf, Resolving, Settling, Polling, Mine
    <3>5. CASE Hand(s) \/ HandRejected(s) \/ HandLost(s) \/ Resend(s) \/ Execute(s) \/ Answer(s)
      <4>1. /\ pcOf(s) \in {"hand", "resend", "execute", "answer"} /\ pending' = pending /\ ofOf(s) = Mine(s)
            /\ \E p \in {"poll", "clear", "resend", "answer", "fence", "execute"} : Goto(s, p) \/ GotoNow(s, p)
        BY <3>5, Moved DEF Hand, HandRejected, HandLost, Resend, Execute, Answer, storeVars, Shape, Recorded
      <4>2. ofOf(s)' = Mine(s) /\ Mine(s)' = Mine(s)
        BY <4>1 DEF Goto, GotoNow, Moves, Mine, ofOf
      <4> QED BY <3>0, <4>1, <4>2 DEF pcOf, Resolving, Settling, Polling
    <3>6. CASE Poll(s) \/ PollHeight(s) \/ Look(s) \/ (Wait(s) /\ ~Advance(s, "unconfirmed"))
      <4>1. /\ pcOf(s) \in Polling /\ pending' = pending /\ ofOf(s) = Mine(s)
            /\ \E p \in {"fence", "clear"} \cup Polling : Goto(s, p)
        BY <3>6, Moved DEF Poll, PollHeight, Look, Wait, storeVars, Shape, Recorded, Polling
      <4>2. /\ session'[s].pc \in {"fence", "clear"} \cup Polling
            /\ ofOf(s)' = Mine(s) /\ Mine(s)' = Mine(s)
        BY <4>1 DEF Goto, Moves, Mine, ofOf
      <4> QED BY <3>0, <4>1, <4>2 DEF pcOf, Resolving, Settling, Polling
    <3>7. CASE OpenRefused(s) \/ Close(s) \/ Crash(s) \/ Open(s) \/ ResolveFails(s)
               \/ BuildFails(s) \/ Renew(s) \/ Prepare(s) \/ Build(s)
      <4>1. session'[s].pc \in {"over", "resolve", "close", "prepare", "record", "renew"}
        BY <3>7, Moved, BuildMoves DEF Goto, GotoNow, Moves
      <4> QED BY <4>1, <3>1 DEF Polling
    <3>8. CASE Clear(s) \/ NotSent(s) \/ Advance(s, "unconfirmed")
      <4>1. session'[s].pc \in {"build", "close", "renew"}
        BY <3>8, Moved, AdvanceMoves DEF Goto, Moves, NotSent
      <4> QED BY <4>1, <3>1 DEF Polling
    <3> QED BY <1>1, <3>2, <3>3, <3>4, <3>5, <3>6, <3>7, <3>8 DEF Step
  <2> QED BY <2>1, <2>2 DEF RecordKept
<1>2. CASE (\E t \in Tx : Land(t)) \/ Tick \/ UNCHANGED vars
  BY <1>2, EnvironmentSteps DEF RecordKept, pcOf, ofOf, Mine, Resolving, Settling
<1> QED BY <1>1, <1>2, NextCases

LEMMA NothingLiveStep ==
    LeaseCovers /\ NoBatch /\ SendInv /\ [Next]_vars => NothingLive'
<1> SUFFICES ASSUME LeaseCovers, NoBatch, SendInv, [Next]_vars PROVE NothingLive'
  OBVIOUS
<1> USE DEF SendInv
<1> DEFINE Planning(p) == p \in {"build", "renew", "prepare", "record"}
<1>1. ASSUME NEW s \in Sessions, Step(s) \/ Crash(s),
             NEW o \in Sessions, Planning(session'[o].pc), NEW t \in Tx, Live(t)'
      PROVE  FALSE
  <2>1. CASE o # s
    <3>1. Planning(pcOf(o)) /\ Inside(o)
      BY <1>1, <2>1, OthersStay, Fields DEF pcOf, Inside, OnLease, OnSendLease, Preparing
    <3>2. ~Live(t)
      BY <3>1 DEF NothingLive
    <3>3. pcOf(s) \in {"hand", "resend", "execute"}
      BY <1>1, <3>2, LiveSteps
    <3>4. Inside(s)
      BY <3>3 DEF Inside, OnLease, OnSendLease, Preparing
    <3> QED BY <2>1, <3>1, <3>4, Alone
  <2>2. CASE o = s
    <3>1. pcOf(s) \notin {"hand", "resend", "execute"}
      <4>1. CASE pcOf(s) \in {"hand", "resend", "execute"}
        <5>1. CASE Hand(s) \/ HandRejected(s) \/ HandLost(s) \/ Resend(s) \/ Execute(s) \/ Crash(s)
          BY <1>1, <2>2, <5>1, Moved DEF Goto, GotoNow, Moves
        <5>2. ~(Hand(s) \/ HandRejected(s) \/ HandLost(s) \/ Resend(s) \/ Execute(s) \/ Crash(s)) => FALSE
          BY <1>1, <4>1, Moved DEF Step, NotSent, Build, Record, Close, OpenRefused, pcOf
        <5> QED BY <5>1, <5>2
      <4> QED BY <4>1
    <3>2. Live(t)
      BY <1>1, <3>1, LiveSteps
    <3>3. pending = t
      BY <3>2 DEF Tracked
    <3>4. ~Planning(pcOf(s))
      BY <3>2 DEF NothingLive
    <3>5. CASE ReadPending(s)
      <4>1. pending = NoTx
        BY <1>1, <2>2, <3>5, Moved DEF Moves
      <4> QED BY <3>3, <4>1, Fields
    <3>6. CASE Clear(s)
      <4>1. pcOf(s) = "clear" /\ ~Live(ofOf(s))
        BY <3>6, Moved DEF Outcomes
      <4>2. CASE ofOf(s) # Mine(s)
        BY <3>2, <3>3, <4>1, <4>2, Fields DEF RecordKept, Resolving
      <4>3. CASE ofOf(s) = Mine(s)
        <5>1. Advance(s, report[Mine(s)]) /\ ~Goto(s, "close")
          BY <1>1, <2>2, <3>6, <4>3, Moved DEF Goto, Moves
        <5>2. session[s].i < Plans[s] /\ session[s].i \in 1..10
          BY <5>1, AdvanceMoves, Fields
        <5>3. s \notin Ultra
          BY <5>2, SendAssumption
        <5>4. pending \in {Mine(s), NoTx}
          BY <4>1, <4>3, <5>3 DEF RecordKept, Settling
        <5> QED BY <3>2, <3>3, <4>1, <4>3, <5>4, Fields
      <4> QED BY <4>2, <4>3
    <3>7. CASE Wait(s)
      <4>1. Goto(s, "poll") \/ Goto(s, "close")
        BY <3>7, Moved, AdvanceMoves DEF NoBatch
      <4> QED BY <1>1, <2>2, <4>1 DEF Goto, Moves
    <3>8. CASE Open(s) \/ OpenRefused(s) \/ ResolveFails(s) \/ AskStatus(s) \/ AskHeight(s) \/ RaiseFence(s)
               \/ Build(s) \/ BuildFails(s) \/ Renew(s) \/ NotSent(s) \/ Prepare(s) \/ Record(s)
               \/ Close(s) \/ Crash(s)
      BY <1>1, <2>2, <3>4, <3>8, Moved DEF Goto, GotoNow, Moves, NotSent, Build, Record, pcOf
    <3>9. CASE Hand(s) \/ HandRejected(s) \/ HandLost(s) \/ Resend(s) \/ Execute(s) \/ Answer(s)
               \/ Poll(s) \/ PollHeight(s) \/ Look(s)
      BY <1>1, <2>2, <3>9, Moved DEF Goto, GotoNow, Moves
    <3> QED BY <1>1, <3>5, <3>6, <3>7, <3>8, <3>9 DEF Step
  <2> QED BY <2>1, <2>2
<1>2. CASE (\E t \in Tx : Land(t)) \/ Tick \/ UNCHANGED vars
  <2>1. session' = session
    BY <1>2, EnvironmentSteps
  <2> QED BY <1>2, <2>1, LiveDies DEF NothingLive, pcOf
<1> QED BY <1>1, <1>2, NextCases DEF NothingLive, pcOf

LEMMA TrackedStep == SendInv /\ [Next]_vars => Tracked'
<1> SUFFICES ASSUME SendInv, [Next]_vars, NEW t \in Tx, Live(t)' PROVE pending' = t
  BY DEF Tracked
<1> USE DEF SendInv
<1>1. ASSUME NEW s \in Sessions, Step(s) \/ Crash(s) PROVE pending' = t
  <2>1. CASE Live(t)
    <3>1. pending = t
      BY <2>1 DEF Tracked
    <3>2. pcOf(s) # "record"
      BY <2>1 DEF NothingLive
    <3>3. ~(pcOf(s) = "clear" /\ ofOf(s) = t)
      BY <2>1 DEF Outcomes
    <3> QED BY <1>1, <3>1, <3>2, <3>3, PendingSteps
  <2>2. CASE t = Mine(s) /\ pcOf(s) \in {"hand", "resend", "execute"} /\ pending' = pending
    BY <2>2 DEF RecordKept
  <2> QED BY <1>1, <2>1, <2>2, LiveSteps
<1>2. CASE (\E u \in Tx : Land(u)) \/ Tick \/ UNCHANGED vars
  BY <1>2, LiveDies, EnvironmentSteps DEF Tracked
<1> QED BY <1>1, <1>2, NextCases

LEMMA SendInvInit == Init => SendInv
<1> SUFFICES ASSUME Init PROVE SendInv
  OBVIOUS
<1>1. \A s \in Sessions : session[s] = Fresh /\ pcOf(s) = "idle" /\ session[s].i = 1
  BY DEF Init, Fresh, pcOf
<1>2. TypeOK /\ \A t \in Tx : ~Live(t) /\ ~Landed(t)
  BY TypeInit DEF Init, Live, Landed
<1>3. Shape
  BY <1>1, SendAssumption DEF Shape, Recorded, Polling
<1>4. LeaseHeld
  BY <1>1 DEF LeaseHeld, HeldBy, OnLease, OnSendLease, Resolving, Settling, Preparing, Polling
<1>5. UnbornUnseen
  BY SendAssumption DEF Init, UnbornUnseen
<1>6. Outcomes /\ RecordKept /\ NothingLive /\ Tracked
  BY <1>1, <1>2 DEF Outcomes, RecordKept, NothingLive, Tracked, Recorded, Polling, Resolving, Settling
<1> QED BY <1>2, <1>3, <1>4, <1>5, <1>6 DEF SendInv

LEMMA SendInvStep == LeaseCovers /\ NoBatch /\ SendInv /\ [Next]_vars => SendInv'
  BY TypeStep, ShapeStep, LeaseHeldStep, UnbornUnseenStep, OutcomesStep, RecordKeptStep,
     NothingLiveStep, TrackedStep DEF SendInv

LEMMA SendInvHolds == ASSUME LeaseCovers, NoBatch PROVE Spec => []SendInv
<1>1. Init => SendInv
  BY SendInvInit
<1>2. SendInv /\ [Next]_vars => SendInv'
  BY SendInvStep
<1> QED BY <1>1, <1>2, PTL DEF Spec

\* Every row, session and report keeps its type, and the fence never passes
\* the chain, with any leases and batches.
THEOREM TypeCorrect == Spec => []TypeOK
<1>1. Init => TypeOK /\ Shape
  BY SendInvInit DEF SendInv
<1>2. TypeOK /\ Shape /\ [Next]_vars => TypeOK' /\ Shape'
  BY TypeStep, ShapeStep
<1> QED BY <1>1, <1>2, PTL DEF Spec

\* Whatever may still land is on record, for any sessions and plans.
THEOREM RecordTracksSends == ASSUME LeaseCovers, NoBatch PROVE Spec => []Tracked
<1>1. SendInv => Tracked
  BY DEF SendInv
<1> QED BY <1>1, SendInvHolds, PTL

-----------------------------------------------------------------------------
(* The fence covers what has landed.                                       *)

\* The fence and `resolved' only ever take landings off the list.
LEMMA UnfencedSteps ==
    ASSUME TypeOK, Shape, NEW s \in Sessions, Step(s) \/ Crash(s), NEW t \in Tx
    PROVE  /\ slot' = slot
           /\ resolved'[t] = "none" => resolved[t] = "none"
           /\ Unfenced(t)' => Unfenced(t)
<1> USE DEF chainVars, storeVars
<1>1. slot' = slot /\ slot[t] \in Int /\ fence \in Int
  BY SentSteps, Fields DEF TypeOK
<1>2. CASE OpenRefused(s) \/ ReadPending(s) \/ ResolveFails(s) \/ AskStatus(s)
           \/ Clear(s) \/ Build(s) \/ BuildFails(s) \/ NotSent(s) \/ Prepare(s)
           \/ Open(s) \/ Renew(s) \/ Close(s)
  <2>1. UNCHANGED <<fence, resolved>>
    BY <1>2 DEF OpenRefused, ReadPending, ResolveFails, AskStatus, Clear,
              Build, BuildFails, NotSent, Prepare, Open, Renew, Close
  <2> QED BY <1>1, <2>1 DEF Unfenced, Landed
<1>3. CASE Record(s) \/ HandRejected(s) \/ Answer(s) \/ Poll(s) \/ PollHeight(s) \/ Look(s)
           \/ Wait(s) \/ Crash(s) \/ Hand(s) \/ HandLost(s) \/ Resend(s) \/ Execute(s)
  <2>1. UNCHANGED <<fence, resolved>>
    BY <1>3 DEF Record, HandRejected, Answer, Poll, PollHeight, Look, Wait, Crash, Hand, HandLost, Resend, Execute
  <2> QED BY <1>1, <2>1 DEF Unfenced, Landed
<1>4. CASE AskHeight(s)
  BY <1>1, <1>4 DEF AskHeight, TypeOK, Unfenced, Landed
<1>5. CASE RaiseFence(s)
  <2>1. slot[ofOf(s)] \in Int
    BY <1>5, Fields, Moved DEF Shape
  <2>2. Max({fence, slot[ofOf(s)]}) \in Int /\ Max({fence, slot[ofOf(s)]}) >= fence
    BY <1>1, <2>1, MaxOfTwo
  <2>3. fence' \in Int /\ fence' >= fence
    BY <1>1, <1>5, <2>2 DEF RaiseFence, ofOf
  <2>4. resolved'[t] = "none" => resolved[t] = "none"
    BY <1>5 DEF RaiseFence, TypeOK
  <2> QED BY <1>1, <2>3, <2>4 DEF Unfenced, Landed
<1> QED BY <1>2, <1>3, <1>4, <1>5 DEF Step

LEMMA FenceBeforeClearStep ==
    LeaseCovers /\ NoBatch /\ SendInv /\ SendInv' /\ FenceBeforeClear /\ [Next]_vars => FenceBeforeClear'
<1> SUFFICES ASSUME LeaseCovers, NoBatch, SendInv, SendInv', FenceBeforeClear, [Next]_vars
             PROVE FenceBeforeClear'
  OBVIOUS
<1> USE DEF SendInv
<1> DEFINE Planning(p) == p \in {"build", "renew", "prepare", "record"}
<1>1. ASSUME NEW s \in Sessions, Step(s) \/ Crash(s) PROVE FenceBeforeClear'
  <2>0. \A t \in Tx : Unfenced(t)' => Unfenced(t)
    BY <1>1, UnfencedSteps
  <2>1. ASSUME NEW t \in Tx, Unfenced(t)' PROVE pending' = t
    <3>1. Unfenced(t) /\ pending = t
      BY <2>0, <2>1 DEF FenceBeforeClear
    <3>2. pcOf(s) # "record" /\ ~(pcOf(s) = "clear" /\ ofOf(s) = t)
      BY <3>1 DEF FenceBeforeClear
    <3> QED BY <1>1, <3>1, <3>2, PendingSteps
  <2>2. ASSUME NEW o \in Sessions, o # s
        PROVE  /\ pcOf(o)' = "clear" => ~Unfenced(ofOf(o))'
               /\ Planning(pcOf(o)') => \A t \in Tx : ~Unfenced(t)'
    <3>1. session'[o] = session[o] /\ (pcOf(o) = "clear" => ofOf(o) \in Tx)
      BY <1>1, <2>2, OthersStay DEF Shape
    <3>2. pcOf(o)' = pcOf(o) /\ ofOf(o)' = ofOf(o)
      BY <3>1 DEF pcOf, ofOf
    <3> QED BY <2>0, <3>1, <3>2 DEF FenceBeforeClear
  <2>3. ASSUME Planning(session'[s].pc), NEW t \in Tx, Unfenced(t) PROVE FALSE
    <3>0. pending = t /\ ~Planning(pcOf(s)) /\ t # NoTx
      BY <2>3, Fields DEF FenceBeforeClear
    <3>1. CASE ReadPending(s)
      BY <2>3, <3>0, <3>1, Moved DEF Moves
    <3>2. CASE Clear(s)
      <4>1. pcOf(s) = "clear" /\ ofOf(s) # t
        BY <2>3, <3>2, Moved DEF FenceBeforeClear
      <4>2. CASE ofOf(s) # Mine(s)
        BY <3>0, <4>1, <4>2 DEF RecordKept, Resolving
      <4>3. CASE ofOf(s) = Mine(s)
        <5>1. Advance(s, report[Mine(s)]) /\ ~Goto(s, "close")
          BY <2>3, <3>2, <4>3, Moved DEF Goto, Moves
        <5>2. session[s].i < Plans[s] /\ session[s].i \in 1..10
          BY <5>1, AdvanceMoves, Fields
        <5>3. s \notin Ultra
          BY <5>2, SendAssumption
        <5> QED BY <3>0, <4>1, <4>3, <5>3 DEF RecordKept, Settling
      <4> QED BY <4>2, <4>3
    <3>3. CASE Wait(s)
      <4>1. Goto(s, "poll") \/ Goto(s, "close")
        BY <3>3, Moved, AdvanceMoves DEF NoBatch
      <4> QED BY <2>3, <4>1 DEF Goto, Moves
    <3>4. CASE Open(s) \/ OpenRefused(s) \/ ResolveFails(s) \/ AskStatus(s) \/ AskHeight(s) \/ RaiseFence(s)
               \/ Build(s) \/ BuildFails(s) \/ Renew(s) \/ NotSent(s) \/ Prepare(s) \/ Record(s)
               \/ Close(s) \/ Crash(s)
      BY <2>3, <3>0, <3>4, Moved DEF Goto, GotoNow, Moves, NotSent, Build, Record, pcOf
    <3>5. CASE Hand(s) \/ HandRejected(s) \/ HandLost(s) \/ Resend(s) \/ Execute(s) \/ Answer(s)
               \/ Poll(s) \/ PollHeight(s) \/ Look(s)
      BY <2>3, <3>5, Moved DEF Goto, GotoNow, Moves
    <3> QED BY <1>1, <3>1, <3>2, <3>3, <3>4, <3>5 DEF Step
  <2>4. ASSUME session'[s].pc = "clear" PROVE ~Unfenced(ofOf(s))'
    <3>1. CASE AskHeight(s)
      <4>1. Goto(s, "clear") /\ ofOf(s) \in Tx
        BY <3>1, Moved DEF Shape
      <4>2. resolved'[ofOf(s)] = "expired"
        BY <3>1, <4>1 DEF AskHeight, TypeOK, ofOf
      <4> QED BY <4>1, <4>2 DEF Goto, Moves, ofOf, Unfenced
    <3>2. CASE RaiseFence(s)
      <4>1. Goto(s, "clear") /\ ofOf(s) \in Tx /\ slot' = slot /\ fence \in Int /\ slot[ofOf(s)] \in Int
        BY <1>1, <3>2, Moved, SentSteps, Fields DEF Shape, TypeOK
      <4>2. Max({fence, slot[ofOf(s)]}) >= slot[ofOf(s)] /\ Max({fence, slot[ofOf(s)]}) \in Int
        BY <4>1, MaxOfTwo
      <4>3. \/ resolved'[ofOf(s)] = "unfenced"
            \/ fence' \in Int /\ fence' >= slot[ofOf(s)]
        BY <3>2, <4>1, <4>2 DEF RaiseFence, TypeOK, ofOf
      <4> QED BY <4>1, <4>3 DEF Goto, Moves, ofOf, Unfenced
    <3>3. CASE HandRejected(s) \/ Answer(s) \/ Look(s)
      <4>1. Goto(s, "clear") /\ Mine(s) \in Tx /\ slot' = slot /\ ofOf(s) = Mine(s)
        BY <1>1, <2>4, <3>3, Moved, SentSteps, MineIsTx DEF Shape, Goto, GotoNow, Moves, Recorded, Polling
      <4>2. ~Landed(Mine(s))
        <5>1. CASE HandRejected(s)
          BY <4>1, <5>1, Moved DEF Outcomes
        <5>2. CASE Answer(s) \/ Look(s)
          BY <2>4, <4>1, <5>2, Moved DEF Outcomes, Goto, GotoNow, Moves
        <5> QED BY <3>3, <5>1, <5>2
      <4> QED BY <4>1, <4>2 DEF Goto, Moves, ofOf, Unfenced, Landed
    <3>4. CASE Open(s) \/ OpenRefused(s) \/ ReadPending(s) \/ ResolveFails(s) \/ AskStatus(s)
               \/ Build(s) \/ BuildFails(s) \/ Renew(s) \/ Prepare(s) \/ Record(s) \/ Close(s) \/ Crash(s)
      BY <2>4, <3>4, Moved, BuildMoves, RecordMoves DEF Goto, GotoNow, Moves
    <3>5. CASE Hand(s) \/ HandLost(s) \/ Resend(s) \/ Execute(s) \/ Poll(s) \/ PollHeight(s)
      BY <2>4, <3>5, Moved DEF Goto, GotoNow, Moves
    <3>6. CASE Clear(s) \/ NotSent(s) \/ Wait(s)
      BY <2>4, <3>6, Moved, AdvanceMoves DEF Goto, Moves, NotSent
    <3> QED BY <1>1, <3>1, <3>2, <3>3, <3>4, <3>5, <3>6 DEF Step
  <2>5. Planning(pcOf(s)') => \A t \in Tx : ~Unfenced(t)'
    BY <2>0, <2>3 DEF pcOf
  <2>6. pcOf(s)' = "clear" => ~Unfenced(ofOf(s))'
    BY <2>4 DEF pcOf
  <2> QED BY <2>1, <2>2, <2>5, <2>6 DEF FenceBeforeClear
<1>2. ASSUME NEW u \in Tx, Land(u) PROVE FenceBeforeClear'
  <2>1. /\ UNCHANGED <<fence, session, pending, resolved>> /\ Live(u)
        /\ \A t \in Tx : t # u => slot'[t] = slot[t]
    BY <1>2 DEF Land, Live, TypeOK, storeVars
  <2>2. \A t \in Tx : Unfenced(t)' => Unfenced(t) \/ t = u
    BY <2>1 DEF Unfenced, Landed
  <2>3. pending = u
    BY <2>1 DEF Tracked
  <2>4. ASSUME NEW s \in Sessions
        PROVE  /\ pcOf(s)' = "clear" => ~Unfenced(ofOf(s))'
               /\ Planning(pcOf(s)') => \A t \in Tx : ~Unfenced(t)'
    <3>1. /\ pcOf(s)' = pcOf(s) /\ ofOf(s)' = ofOf(s)
          /\ pcOf(s) = "clear" => ofOf(s) \in Tx /\ ofOf(s) # u
          /\ ~Planning(pcOf(s))
      BY <2>1 DEF pcOf, ofOf, Shape, Outcomes, NothingLive
    <3> QED BY <2>2, <3>1 DEF FenceBeforeClear
  <2> QED BY <2>1, <2>2, <2>3, <2>4 DEF FenceBeforeClear
<1>3. CASE Tick \/ UNCHANGED vars
  <2>1. UNCHANGED <<fence, session, pending, resolved, slot>>
    BY <1>3 DEF Tick, vars, storeVars, chainVars
  <2> QED BY <2>1 DEF FenceBeforeClear, Unfenced, Landed, pcOf, ofOf
<1> QED BY <1>1, <1>2, <1>3, NextCases

\* Where a session plans, sends and waits: it came from such a place, with
\* the same reads, or has just built.
LEMMA SameReads ==
    ASSUME TypeOK, Shape, FoundIsOther, NEW s \in Sessions, Step(s) \/ Crash(s),
           (s \notin Ultra /\ (pcOf(s) \in Sending \cup Polling \/ Settling(s)))'
    PROVE  \/ Build(s) /\ session'[s].base \in {fence, Unpinned}
           \/ /\ pcOf(s) \in Sending \cup Polling \/ Settling(s)
              /\ session'[s].base = session[s].base
<1>0. session'[s].pc \in Sending \cup Polling \cup {"fence", "clear"}
  BY DEF pcOf, Settling
<1>1. CASE Open(s) \/ OpenRefused(s) \/ ReadPending(s) \/ ResolveFails(s) \/ BuildFails(s) \/ Close(s) \/ Crash(s)
  <2>1. session'[s].pc \in {"resolve", "over", "build", "ask", "close"}
    BY <1>1, Moved DEF Goto, GotoNow, Moves
  <2> QED BY <1>0, <2>1 DEF Sending, Polling
<1>2. CASE AskStatus(s) \/ AskHeight(s)
  <2>1. pcOf(s) \in {"ask", "askHeight"} /\ \E p \in {"fence", "askHeight", "clear"} : Goto(s, p)
    BY <1>2, Moved
  <2>2. session'[s].pc \in {"fence", "askHeight", "clear"} /\ ofOf(s)' # Mine(s)'
    BY <2>1 DEF FoundIsOther, Goto, Moves, ofOf, Mine
  <2> QED BY <2>2 DEF pcOf, Settling, Sending, Polling
<1>3. CASE RaiseFence(s)
  <2>1. pcOf(s) = "fence" /\ Goto(s, "clear")
    BY <1>3, Moved
  <2> QED BY <2>1 DEF Goto, Moves, pcOf, ofOf, Mine, Settling, Sending, Polling
<1>4. CASE Build(s)
  BY <1>4, BuildMoves DEF Moves
<1>5. ASSUME NEW v, Advance(s, v), pcOf(s) \in Sending \cup Polling \/ Settling(s)
      PROVE  session'[s].base = session[s].base
  BY <1>5, AdvanceMoves DEF Goto, Moves
<1>6. CASE Clear(s)
  <2>1. CASE ofOf(s) = Mine(s)
    BY <1>5, <1>6, <2>1, Moved DEF Settling
  <2>2. CASE ofOf(s) # Mine(s)
    <3>1. session'[s].pc = "build"
      BY <1>6, <2>2, Moved DEF Goto, Moves
    <3> QED BY <1>0, <3>1 DEF Sending, Polling
  <2> QED BY <2>1, <2>2
<1>7. CASE NotSent(s) \/ Wait(s)
  BY <1>5, <1>7, Moved DEF NotSent, Sending, Polling, Goto, Moves, pcOf
<1>8. CASE Renew(s) \/ Prepare(s) \/ Hand(s) \/ HandRejected(s) \/ HandLost(s) \/ Resend(s)
  BY <1>8, Moved DEF Goto, GotoNow, Moves, Sending
<1>9. CASE Poll(s) \/ PollHeight(s) \/ Look(s)
  BY <1>9, Moved DEF Goto, Moves, Polling
<1>10. CASE Record(s)
  BY <1>10, RecordMoves DEF Record, Moves, Sending, pcOf
<1>11. CASE Execute(s) \/ Answer(s)
  BY <1>11, Moved DEF Shape
<1> QED BY <1>1, <1>2, <1>3, <1>4, <1>6, <1>7, <1>8, <1>9, <1>10, <1>11 DEF Step

LEMMA BaseCoversStep ==
    LeaseCovers /\ NoBatch /\ SendInv /\ FenceInv /\ [Next]_vars => BaseCovers'
<1> SUFFICES ASSUME LeaseCovers, NoBatch, SendInv, FenceInv, [Next]_vars,
                    NEW s \in Sessions, NEW t \in Tx,
                    (s \notin Ultra /\ (pcOf(s) \in Sending \cup Polling \/ Settling(s)))',
                    session'[s].base # Unpinned, t[1] # s, Landed(t)', resolved'[t] = "none"
             PROVE  slot'[t] <= session'[s].base
  BY DEF BaseCovers
<1> USE DEF SendInv, FenceInv
<1>1. ASSUME NEW o \in Sessions, Step(o) \/ Crash(o)
      PROVE  slot'[t] <= session'[s].base
  <2>1. slot' = slot /\ resolved[t] = "none" /\ Landed(t)
    BY <1>1, UnfencedSteps DEF Landed
  <2>2. CASE pcOf(s) \in Sending \cup Polling \/ Settling(s)
    <3>1. session'[s].base = session[s].base \/ (o = s /\ Build(s))
      BY <1>1, OthersStay, SameReads
    <3>2. ~Build(s)
      BY <2>2 DEF Build, Sending, Polling, Settling, pcOf
    <3> QED BY <2>1, <2>2, <3>1, <3>2 DEF BaseCovers
  <2>3. CASE ~(pcOf(s) \in Sending \cup Polling \/ Settling(s))
    <3>1. o = s
      BY <1>1, <2>3, OthersStay DEF pcOf, Settling, ofOf, Mine
    <3>2. Build(s) /\ session'[s].base = fence
      BY <1>1, <2>3, <3>1, SameReads
    <3>3. ~Unfenced(t) /\ slot[t] \in Int /\ fence \in Int
      BY <3>2, Fields DEF FenceBeforeClear, Build, pcOf, TypeOK
    <3> QED BY <2>1, <3>2, <3>3 DEF Unfenced
  <2> QED BY <2>2, <2>3
<1>2. ASSUME NEW u \in Tx, Land(u) PROVE slot'[t] <= session'[s].base
  <2>1. /\ UNCHANGED <<session, resolved, pending>> /\ Live(u)
        /\ \A x \in Tx : x # u => slot'[x] = slot[x]
    BY <1>2 DEF Land, Live, TypeOK, storeVars
  <2>2. pcOf(s) \in Sending \cup Polling \/ Settling(s)
    BY <2>1 DEF pcOf, Settling, ofOf, Mine
  <2>3. pending = u
    BY <2>1 DEF Tracked
  <2>4. pcOf(s) \notin {"renew", "prepare", "record"}
    BY <2>1 DEF NothingLive
  <2>5. pending \in {Mine(s), NoTx}
    BY <2>2, <2>4 DEF RecordKept, Sending
  <2>6. u[1] = s
    BY <2>3, <2>5, MineIsTx, Fields
  <2>7. slot'[t] = slot[t]
    BY <2>1, <2>6
  <2> QED BY <2>1, <2>2, <2>7 DEF BaseCovers, Landed
<1>3. CASE Tick \/ UNCHANGED vars
  <2>1. UNCHANGED <<session, resolved, slot>>
    BY <1>3 DEF Tick, vars, storeVars, chainVars
  <2> QED BY <2>1 DEF BaseCovers, Landed, pcOf, ofOf, Mine, Settling
<1> QED BY <1>1, <1>2, <1>3, NextCases

LEMMA UltraUnpinnedStep == TypeOK /\ Shape /\ UltraUnpinned /\ [Next]_vars => UltraUnpinned'
<1> SUFFICES ASSUME TypeOK, Shape, UltraUnpinned, [Next]_vars, NEW u \in Ultra, session'[u].pc \in Sending
             PROVE  session'[u].base = Unpinned
  BY DEF UltraUnpinned, pcOf
<1>0. u \in Sessions /\ Plans[u] = 1 /\ (pcOf(u) \in Sending => session[u].base = Unpinned)
  BY SendAssumption DEF UltraUnpinned
<1>1. ASSUME NEW s \in Sessions, Step(s) \/ Crash(s) PROVE session'[u].base = Unpinned
  <2>1. CASE s # u
    BY <1>0, <1>1, <2>1, OthersStay DEF pcOf
  <2>2. CASE s = u
    <3>1. CASE Open(u) \/ OpenRefused(u) \/ ReadPending(u) \/ ResolveFails(u) \/ BuildFails(u) \/ Close(u)
               \/ Crash(u) \/ AskStatus(u) \/ AskHeight(u) \/ RaiseFence(u)
      BY <1>0, <3>1, Moved DEF Goto, GotoNow, Moves, Sending
    <3>2. CASE Build(u)
      BY <1>0, <3>2, BuildMoves DEF Moves
    <3>3. CASE Clear(u) \/ NotSent(u) \/ Wait(u)
      <4>1. session[u].i \in 1..10
        BY <1>0, Fields
      <4>2. session'[u].pc \in {"close", "build", "poll"}
        BY <1>0, <3>3, <4>1, Moved, AdvanceMoves DEF NotSent, Goto, Moves
      <4> QED BY <4>2 DEF Sending
    <3>4. CASE Renew(u) \/ Prepare(u) \/ Hand(u) \/ HandRejected(u) \/ HandLost(u) \/ Resend(u)
      BY <1>0, <3>4, Moved DEF Goto, GotoNow, Moves, Sending
    <3>5. CASE Record(u)
      BY <1>0, <3>5, RecordMoves DEF Moves, Sending
    <3>6. CASE Execute(u) \/ Answer(u) \/ Poll(u) \/ PollHeight(u) \/ Look(u)
      BY <1>0, <3>6, Moved DEF Goto, GotoNow, Moves, Sending
    <3> QED BY <1>1, <2>2, <3>1, <3>2, <3>3, <3>4, <3>5, <3>6 DEF Step
  <2> QED BY <2>1, <2>2
<1>2. CASE (\E t \in Tx : Land(t)) \/ Tick \/ UNCHANGED vars
  BY <1>0, <1>2, EnvironmentSteps DEF pcOf
<1> QED BY <1>1, <1>2, NextCases

LEMMA FoundIsOtherStep == TypeOK /\ Shape /\ UnbornUnseen /\ FoundIsOther /\ [Next]_vars => FoundIsOther'
<1> SUFFICES ASSUME TypeOK, Shape, UnbornUnseen, FoundIsOther, [Next]_vars,
                    NEW o \in Sessions, session'[o].pc \in {"ask", "askHeight"}
             PROVE  ofOf(o)' # Mine(o)'
  BY DEF FoundIsOther, pcOf
<1>1. ASSUME NEW s \in Sessions, Step(s) \/ Crash(s) PROVE ofOf(o)' # Mine(o)'
  <2>1. CASE s # o
    BY <1>1, <2>1, OthersStay DEF FoundIsOther, ofOf, Mine, pcOf
  <2>2. CASE ReadPending(o)
    <3>1. /\ pcOf(o) = "resolve" /\ session'[o].of = pending /\ session'[o].i = session[o].i
      BY <2>2, Moved DEF Moves
    <3>2. pending # Mine(o)
      BY <3>1, MineIsTx DEF UnbornUnseen, Unborn, BeforeRecord
    <3> QED BY <3>1, <3>2 DEF ofOf, Mine
  <2>3. CASE AskStatus(o)
    <3>1. pcOf(o) = "ask" /\ session'[o].of = session[o].of /\ session'[o].i = session[o].i
      BY <2>3, Moved DEF Goto, Moves
    <3> QED BY <3>1 DEF FoundIsOther, ofOf, Mine
  <2>4. CASE s = o /\ ~ReadPending(o) /\ ~AskStatus(o)
    <3>1. CASE Open(o) \/ OpenRefused(o) \/ ResolveFails(o) \/ BuildFails(o) \/ Close(o)
               \/ Crash(o) \/ AskHeight(o) \/ RaiseFence(o) \/ Build(o) \/ Renew(o) \/ Prepare(o) \/ Record(o)
      BY <3>1, Moved, BuildMoves, RecordMoves DEF Goto, GotoNow, Moves
    <3>2. CASE Clear(o) \/ NotSent(o) \/ Wait(o)
      BY <3>2, Moved, AdvanceMoves DEF NotSent, Goto, Moves
    <3>3. CASE Hand(o) \/ HandRejected(o) \/ HandLost(o) \/ Resend(o) \/ Execute(o) \/ Answer(o)
               \/ Poll(o) \/ PollHeight(o) \/ Look(o)
      BY <3>3, Moved DEF Goto, GotoNow, Moves
    <3> QED BY <1>1, <2>4, <3>1, <3>2, <3>3 DEF Step
  <2> QED BY <2>1, <2>2, <2>3, <2>4
<1>2. CASE (\E t \in Tx : Land(t)) \/ Tick \/ UNCHANGED vars
  BY <1>2, EnvironmentSteps DEF FoundIsOther, pcOf, ofOf, Mine
<1> QED BY <1>1, <1>2, NextCases

\* A pinned tool plans on every landing of the others that is not taken for
\* expired and whose fence is stored, for any sessions and plans.
THEOREM PinnedToolsBuildOnLanded == ASSUME LeaseCovers, NoBatch PROVE Spec => []BuildsOnLanded
<1>1. Init => FenceInv
  <2> SUFFICES ASSUME Init PROVE FenceInv
    OBVIOUS
  <2>1. (\A s \in Sessions : pcOf(s) = "idle") /\ (\A t \in Tx : ~Landed(t)) /\ Ultra \subseteq Sessions
    BY SendAssumption DEF Init, Fresh, pcOf, Landed
  <2> QED BY <2>1 DEF FenceInv, FenceBeforeClear, BaseCovers, UltraUnpinned, FoundIsOther, Unfenced, Sending
<1>2. SendInv /\ SendInv' /\ FenceInv /\ [Next]_vars => FenceInv'
  BY FenceBeforeClearStep, BaseCoversStep, UltraUnpinnedStep, FoundIsOtherStep DEF FenceInv, SendInv
<1>3. FenceInv => BuildsOnLanded
  BY DEF FenceInv, BaseCovers, UltraUnpinned, BuildsOnLanded, pcOf
<1> QED BY <1>1, <1>2, <1>3, SendInvHolds, PTL DEF Spec

-----------------------------------------------------------------------------
(* The pipeline implements WalletSends.                                    *)

fates == [t \in Tx |-> fateOf(t)]

LEMMA Fates ==
    ASSUME TypeOK, Outcomes, NEW t \in Tx
    PROVE  /\ fates[t] = fateOf(t)
           /\ fateOf(t) \in {"landed", "unsent", "live", "dead"}
           /\ fateOf(t) = "live" <=> Live(t)
           /\ fateOf(t) = "unsent" <=> t \notin sent
           /\ fateOf(t) = "landed" <=> Landed(t)
  BY DEF fates, fateOf, Live, Outcomes

\* What a session reports is true of its transaction, and told once.
LEMMA ToldTruly ==
    ASSUME SendInv, NEW s \in Sessions, Step(s) \/ Crash(s), report' # report
    PROVE  /\ report[Mine(s)] = "none"
           /\ \E v \in Wallet!True(fateOf(Mine(s))) : report' = [report EXCEPT ![Mine(s)] = v]
<1> USE DEF SendInv
<1>0. Mine(s) \in Tx /\ now \in Nat /\ lvbh[Mine(s)] \in Nat
  BY MineIsTx, Fields
<1>1. /\ fateOf(Mine(s)) \in {"landed", "unsent", "live", "dead"}
      /\ fateOf(Mine(s)) = "unsent" <=> Mine(s) \notin sent
      /\ fateOf(Mine(s)) = "landed" <=> Landed(Mine(s))
      /\ fateOf(Mine(s)) = "live" <=> Live(Mine(s))
  BY <1>0, Fates
<1>2. /\ "unconfirmed" \in Wallet!True(fateOf(Mine(s)))
      /\ Mine(s) \notin sent => {"refused", "failed", "expired"} \subseteq Wallet!True(fateOf(Mine(s)))
      /\ Landed(Mine(s)) => {"confirmed", "reverted"} \subseteq Wallet!True(fateOf(Mine(s)))
      /\ ~Landed(Mine(s)) /\ ~Live(Mine(s)) => "expired" \in Wallet!True(fateOf(Mine(s)))
  BY <1>1 DEF Wallet!True
<1>3. pcOf(s) \in Recorded => report[Mine(s)] = "none"
  BY DEF Outcomes
<1>4. CASE NotSent(s)
  <2>1. pcOf(s) \in BeforeRecord
    BY <1>4 DEF NotSent, BeforeRecord, pcOf
  <2>2. Mine(s) \notin sent /\ report[Mine(s)] = "none"
    BY <1>0, <2>1, MineIsTx DEF UnbornUnseen, Unborn, BeforeRecord
  <2> QED BY <1>2, <1>4, <2>2 DEF NotSent, Advance
<1>5. CASE HandRejected(s)
  BY <1>2, <1>3, <1>5, Moved DEF HandRejected, Outcomes, Recorded
<1>6. CASE Answer(s)
  BY <1>2, <1>3, <1>6, Moved DEF Answer, Recorded
<1>7. CASE Poll(s)
  BY <1>2, <1>3, <1>7, Moved DEF Poll, SeesLanded, Recorded, Polling
<1>8. CASE Look(s)
  <2>1. pcOf(s) = "look" /\ ~Live(Mine(s))
    BY <1>0, <1>8, Moved DEF Outcomes, Live
  <2> QED BY <1>2, <1>3, <1>8, <2>1, Moved DEF SeesLanded, Recorded, Polling
<1>9. CASE Wait(s)
  BY <1>2, <1>3, <1>9, Moved DEF Advance, Recorded, Polling
<1>10. CASE Clear(s)
  <2>1. CASE ofOf(s) = Mine(s)
    <3>1. report' = [report EXCEPT ![Mine(s)] = report[Mine(s)]]
      BY <1>10, <2>1, Moved DEF Advance
    <3> QED BY <3>1, <1>0 DEF TypeOK
  <2> QED BY <1>10, <2>1, Moved
<1>11. CASE OpenRefused(s) \/ ReadPending(s) \/ ResolveFails(s) \/ AskStatus(s) \/ AskHeight(s)
           \/ RaiseFence(s) \/ Build(s) \/ BuildFails(s) \/ Open(s) \/ Renew(s) \/ Close(s)
           \/ Prepare(s) \/ Crash(s) \/ PollHeight(s) \/ Record(s) \/ Hand(s) \/ HandLost(s)
           \/ Resend(s) \/ Execute(s)
  BY <1>11 DEF OpenRefused, ReadPending, ResolveFails, AskStatus, AskHeight, RaiseFence,
              Build, BuildFails, Open, Renew, Close, Prepare, Crash,
              PollHeight, Hand, HandLost, Resend, Execute, Record
<1> QED BY <1>4, <1>5, <1>6, <1>7, <1>8, <1>9, <1>10, <1>11 DEF Step

LEMMA WalletStep ==
    LeaseCovers /\ NoBatch /\ SendInv /\ SendInv' /\ [Next]_vars => [Wallet!Next]_(Wallet!vars)
<1> SUFFICES ASSUME LeaseCovers, NoBatch, SendInv, SendInv', [Next]_vars
             PROVE  Wallet!Next \/ (fates' = fates /\ report' = report)
  BY DEF Wallet!vars, fates
<1> USE DEF SendInv
<1>0. fates \in [Tx -> {"landed", "unsent", "live", "dead"}] /\ fates' \in [Tx -> {"landed", "unsent", "live", "dead"}]
  BY Fates DEF fates, fateOf
<1>1. ASSUME NEW s \in Sessions, Step(s) \/ Crash(s)
      PROVE  Wallet!Next \/ (fates' = fates /\ report' = report)
  <2>0. Mine(s) \in Tx /\ now' = now /\ slot' = slot
    BY <1>1, MineIsTx, LeaseSteps, SentSteps
  <2>1. CASE sent' = sent
    <3>1. ASSUME NEW t \in Tx PROVE fateOf(t)' = fateOf(t)
      <4>1. CASE lvbh'[t] = lvbh[t]
        BY <2>0, <2>1, <4>1 DEF fateOf, Landed
      <4>2. CASE lvbh'[t] # lvbh[t]
        <5>1. t = Mine(s) /\ pcOf(s) = "prepare"
          BY <1>1, <4>2, LvbhSteps
        <5>2. t \notin sent
          BY <5>1, MineIsTx DEF UnbornUnseen, Unborn, BeforeRecord
        <5> QED BY <2>0, <2>1, <5>2 DEF fateOf, Landed
      <4> QED BY <4>1, <4>2
    <3>2. fates' = fates
      BY <3>1 DEF fates
    <3>3. CASE report' # report
      <4>1. PICK v \in Wallet!True(fateOf(Mine(s))) : report' = [report EXCEPT ![Mine(s)] = v]
        BY <1>1, <3>3, ToldTruly
      <4>2. report[Mine(s)] = "none"
        BY <1>1, <3>3, ToldTruly
      <4>3. Wallet!Tell(Mine(s))
        <5>1. [t \in Tx |-> fateOf(t)][Mine(s)] = fateOf(Mine(s))
          BY <2>0
        <5> QED BY <3>2, <4>1, <4>2, <5>1 DEF Wallet!Tell, fates
      <4> QED BY <2>0, <4>3 DEF Wallet!Next
    <3> QED BY <3>2, <3>3
  <2>2. CASE sent' # sent
    <3>1. /\ sent' = sent \cup {Mine(s)} /\ Mine(s) \notin sent
          /\ pcOf(s) \in {"hand", "resend", "execute"}
          /\ UNCHANGED <<pending, lvbh, report>>
      BY <1>1, <2>2, SentSteps
    <3>2. report[Mine(s)] = "none" /\ pending = Mine(s)
      BY <3>1 DEF Outcomes, RecordKept, Recorded
    <3>3. PICK m \in Tx : m = Mine(s)
      BY <2>0
    <3>4. fateOf(m) = "unsent" /\ fateOf(m)' \in {"live", "dead"}
      BY <2>0, <3>1, <3>3, Fates DEF fateOf, Landed, Outcomes
    <3>5. \A t \in Tx : t # m => fateOf(t)' = fateOf(t)
      BY <2>0, <3>1, <3>3 DEF fateOf, Landed
    <3>6. \A t \in Tx : fateOf(t) # "live"
      BY <3>1, <3>2, Fates DEF Tracked, Live
    <3>7. fates' = [fates EXCEPT ![m] = fateOf(m)']
      BY <3>5 DEF fates
    <3>8. Wallet!Submit(m) \/ Wallet!SubmitLate(m)
      BY <3>1, <3>2, <3>3, <3>4, <3>6, <3>7 DEF Wallet!Submit, Wallet!SubmitLate, fates
    <3> QED BY <3>8 DEF Wallet!Next
  <2> QED BY <2>1, <2>2
<1>2. ASSUME NEW u \in Tx, Land(u) PROVE Wallet!Next
  <2>1. /\ UNCHANGED <<now, sent, lvbh, report>> /\ Live(u) /\ slot' = [slot EXCEPT ![u] = now]
        /\ now \in 1..MaxTime /\ slot \in [Tx -> Nat]
    BY <1>2, Fields DEF Land, Live, TypeOK
  <2>2. fateOf(u) = "live" /\ fateOf(u)' = "landed"
    BY <2>1, Fates DEF fateOf, Landed
  <2>3. \A t \in Tx : t # u => fateOf(t)' = fateOf(t)
    BY <2>1 DEF fateOf, Landed
  <2>4. fates' = [fates EXCEPT ![u] = "landed"]
    BY <2>2, <2>3 DEF fates
  <2>5. Wallet!Land(u)
    BY <2>1, <2>2, <2>4 DEF Wallet!Land, fates
  <2> QED BY <2>5 DEF Wallet!Next
<1>3. CASE Tick
  <2>1. /\ UNCHANGED <<slot, sent, lvbh, report>> /\ now' = now + 1 /\ now \in Nat
        /\ \A t \in Tx : lvbh[t] \in Nat
    BY <1>3, Fields DEF Tick
  <2>2. ASSUME NEW t \in Tx PROVE fateOf(t)' = fateOf(t) \/ (Live(t) /\ fateOf(t)' = "dead")
    BY <2>1 DEF fateOf, Landed, Live
  <2>3. CASE \A t \in Tx : fateOf(t)' = fateOf(t)
    BY <2>1, <2>3 DEF fates
  <2>4. CASE \E t \in Tx : fateOf(t)' # fateOf(t)
    <3>1. PICK u \in Tx : Live(u) /\ fateOf(u)' = "dead"
      BY <2>2, <2>4
    <3>2. \A t \in Tx : t # u => fateOf(t)' = fateOf(t)
      BY <2>2, <3>1 DEF Tracked
    <3>3. fates' = [fates EXCEPT ![u] = "dead"] /\ fateOf(u) = "live"
      BY <3>1, <3>2, Fates DEF fates
    <3>4. Wallet!Die(u)
      BY <2>1, <3>3 DEF Wallet!Die, fates
    <3> QED BY <3>4 DEF Wallet!Next
  <2> QED BY <2>3, <2>4
<1>4. CASE UNCHANGED vars
  BY <1>4 DEF vars, chainVars, fates, fateOf, Landed
<1> QED BY <1>1, <1>2, <1>3, <1>4, NextCases

\* The pipeline implements WalletSends for any sessions and plans: one
\* transaction of the wallet can land at a time, and its report is true.
THEOREM PipelineRefinesWallet == ASSUME LeaseCovers, NoBatch PROVE Spec => OneSendToldTruly
<1>1. Init => Wallet!Init
  BY DEF Init, Wallet!Init, fateOf, Landed
<1>2. SendInv /\ SendInv' /\ [Next]_vars => [Wallet!Next]_(Wallet!vars)
  BY WalletStep
<1> QED BY <1>1, <1>2, SendInvHolds, PTL DEF Spec, OneSendToldTruly, Wallet!Spec
=============================================================================
