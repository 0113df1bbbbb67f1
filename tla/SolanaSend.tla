----------------------------- MODULE SolanaSend -----------------------------
(***************************************************************************)
(* The send pipeline of the Solana write tools for one wallet:             *)
(* adapters/outbound/solana/send.rs (SendSession), the rows it shares with *)
(* every process of the install (writes_store.rs: lease, pending record,   *)
(* fence), the loop over a tool's transactions (tools/solana/              *)
(* write_common.rs) and Jupiter's /execute (write_swap.rs).                *)
(*                                                                         *)
(* A session is one tool call in one process.  Each store statement and    *)
(* each RPC answer is a step; other sessions, the cluster and the clock    *)
(* move in between, and a process may die before any of them.  One clock   *)
(* counts blocks and lease time.                                           *)
(***************************************************************************)
EXTENDS Integers, FiniteSets, FiniteSetsExt

CONSTANTS Sessions,
          Plans,     \* per session: how many transactions its tool plans
          Batch,     \* sessions whose transactions are `independent'
          Ultra,     \* sessions that send a Jupiter order through /execute
          NoOne, NoTx,
          Ttl,       \* LEASE_TTL_MS
          Validity,  \* blocks a blockhash stays valid
          MaxPrep,   \* longest from a lease call to the send (external)
          MaxPoll,   \* MAX_POLL, EXECUTE_WINDOW
          MaxTime    \* bound: the clock

Tx == {x \in Sessions \X (1..10) : x[2] <= Plans[x[1]]}

ASSUME SendAssumption ==
    /\ \A s \in Sessions : Plans[s] \in 1..10
    /\ Batch \subseteq Sessions /\ Ultra \subseteq Sessions
    /\ \A s \in Ultra : Plans[s] = 1
    /\ NoOne \notin Sessions /\ NoTx \notin Tx
    /\ Ttl \in Nat /\ Validity \in Nat /\ MaxPrep \in Nat /\ MaxPoll \in Nat
    /\ MaxTime \in Nat \ {0}

VARIABLES
    now,      \* block height and clock
    lease,    \* the row `wallet:<address>' of leases
    pending,  \* the wallet's row of pending_sends
    fence,    \* the wallet's row of fences
    lvbh,     \* per transaction: last_valid_block_height
    sent,     \* transactions the cluster may have received
    slot,     \* per transaction: the slot it landed in, 0 = not landed
    session,  \* per session: where its call stands
    report,   \* per transaction: the status of its TxReport
    resolved  \* per transaction: resolve_pending took it for expired, or its
              \* fence could not be stored

chainVars == <<now, sent, slot>>
storeVars == <<lease, pending, fence>>
vars == <<chainVars, storeVars, lvbh, session, report, resolved>>

-----------------------------------------------------------------------------

Free == [holder |-> NoOne, expires |-> 0]

\* pc: the await the call is in; i: its transaction; of: the transaction
\* whose outcome it looks up; base: the slot its reads are pinned at; since:
\* the clock its current time limit counts from.
Fresh == [pc |-> "idle", i |-> 1, of |-> NoTx, base |-> 0, since |-> 0]

Unpinned == -1

Over == [Fresh EXCEPT !.pc = "over"]     \* the call returned, or its process died

Idle == {"idle", "over"}
Waits == {"poll", "height", "look", "wait", "execute", "answer"}

Mine(s) == <<s, session[s].i>>
Landed(t) == slot[t] > 0

\* ACQUIRE_SQL: free, expired, or ours.
Takes(s) == lease.holder \in {NoOne, s} \/ lease.expires <= now

Init ==
    /\ now = 1
    /\ lease = Free /\ pending = NoTx /\ fence = 0
    /\ lvbh = [t \in Tx |-> 0]
    /\ sent = {}
    /\ slot = [t \in Tx |-> 0]
    /\ session = [s \in Sessions |-> Fresh]
    /\ report = [t \in Tx |-> "none"]
    /\ resolved = [t \in Tx |-> "none"]

\* Session s is at `from' and goes to `to'.
Goes(s, from, to) ==
    /\ session[s].pc = from
    /\ session' = [session EXCEPT ![s].pc = to]

\* s is done with its transaction, told as `v': the next one, or close.
Advance(s, v) ==
    /\ report' = [report EXCEPT ![Mine(s)] = v]
    /\ session' = [session EXCEPT ![s] =
          IF (v = "confirmed" \/ s \in Batch) /\ @.i < Plans[s]
          THEN [session[s] EXCEPT !.pc = "renew", !.i = session[s].i + 1]
          ELSE [@ EXCEPT !.pc = "close"]]

-----------------------------------------------------------------------------
(* open_session and resolve_pending.                                       *)

Open(s) ==
    /\ session[s].pc = "idle"
    /\ Takes(s)
    /\ lease' = [holder |-> s, expires |-> now + Ttl]
    /\ session' = [session EXCEPT ![s].pc = "resolve", ![s].since = now]
    /\ UNCHANGED <<chainVars, pending, fence, lvbh, report, resolved>>

\* lease_held.
OpenRefused(s) ==
    /\ session[s].pc = "idle"
    /\ ~Takes(s)
    /\ session' = [session EXCEPT ![s] = Over]
    /\ UNCHANGED <<chainVars, storeVars, lvbh, report, resolved>>

ReadPending(s) ==
    /\ session[s].pc = "resolve"
    /\ session' = [session EXCEPT
          ![s].pc = IF pending = NoTx THEN "build" ELSE "ask",
          ![s].of = pending]
    /\ UNCHANGED <<chainVars, storeVars, lvbh, report, resolved>>

\* The store or the RPC fails, or the record is still in flight: refused,
\* the lease released.
ResolveFails(s) ==
    /\ session[s].pc \in {"resolve", "ask", "askHeight"}
    /\ session' = [session EXCEPT ![s].pc = "close"]
    /\ UNCHANGED <<chainVars, storeVars, lvbh, report, resolved>>

AskStatus(s) ==
    /\ Goes(s, "ask", IF Landed(session[s].of) THEN "fence" ELSE "askHeight")
    /\ UNCHANGED <<chainVars, storeVars, lvbh, report, resolved>>

\* Not seen, and the block height is past its last: expired unseen.
AskHeight(s) ==
    LET t == session[s].of IN
    /\ Goes(s, "askHeight", "clear")
    /\ now > lvbh[t]
    /\ resolved' = [resolved EXCEPT ![t] = "expired"]
    /\ UNCHANGED <<chainVars, storeVars, lvbh, report>>

-----------------------------------------------------------------------------
(* A landing raises the fence, then clears the record.                     *)

\* Mutant: the record's last valid height in place of the landing slot.
RaiseFenceHeight(s) ==
    /\ Goes(s, "fence", "clear")
    /\ fence' = Max({fence, lvbh[session[s].of]})
    /\ UNCHANGED <<chainVars, lease, pending, lvbh, report, resolved>>

\* A store failure is only warned of.
RaiseFence(s) ==
    LET t == session[s].of IN
    /\ Goes(s, "fence", "clear")
    /\ \/ fence' = Max({fence, slot[t]}) /\ UNCHANGED resolved
       \/ resolved' = [resolved EXCEPT ![t] = "unfenced"] /\ UNCHANGED fence
    /\ UNCHANGED <<chainVars, lease, pending, lvbh, report>>

\* Mutant: the record is dropped by wallet alone.
ClearedAny(t) == NoTx

\* The record without transaction t: clear_pending compares the signature.
Cleared(t) == IF pending = t THEN NoTx ELSE pending

\* clear_pending (a failure is ignored): a session that was resolving goes
\* on to build, one that was sending is done with its transaction.
Clear(s) ==
    LET t == session[s].of IN
    /\ session[s].pc = "clear"
    /\ pending' \in {Cleared(t), pending}
    /\ IF t = Mine(s)
       THEN Advance(s, report[t])
       ELSE Goes(s, "clear", "build") /\ UNCHANGED report
    /\ UNCHANGED <<chainVars, lease, fence, lvbh, resolved>>

-----------------------------------------------------------------------------
(* Build, renew, simulate and sign, record.                                *)

\* The tool reads the accounts it plans from, pinned at or after the fence
\* (minContextSlot): `base' is the oldest slot it may have read.  A Jupiter
\* order is not pinned, nor is anything when the fence cannot be read.
Build(s) ==
    /\ session[s].pc = "build"
    /\ \E base \in {IF s \in Ultra THEN Unpinned ELSE fence, Unpinned} :
          session' = [session EXCEPT ![s].pc = "renew", ![s].base = base]
    /\ UNCHANGED <<chainVars, storeVars, lvbh, report, resolved>>

\* A read fails or a check says no: refused.
BuildFails(s) ==
    /\ Goes(s, "build", "close")
    /\ UNCHANGED <<chainVars, storeVars, lvbh, report, resolved>>

\* Mutant: the lease of the session's opening is taken for good.
RenewSkipped(s) ==
    /\ session[s].pc = "renew"
    /\ session' = [session EXCEPT ![s].pc = "prepare", ![s].since = now]
    /\ UNCHANGED <<chainVars, storeVars, lvbh, report, resolved>>

\* The lease again, for every transaction.
Renew(s) ==
    /\ session[s].pc = "renew"
    /\ Takes(s)
    /\ lease' = [holder |-> s, expires |-> now + Ttl]
    /\ session' = [session EXCEPT ![s].pc = "prepare", ![s].since = now]
    /\ UNCHANGED <<chainVars, pending, fence, lvbh, report, resolved>>

\* Lost to another session; or the store, the simulation, the blockhash or
\* the signer fails; or the record cannot be written: never sent.
NotSent(s) ==
    /\ session[s].pc \in {"renew", "prepare", "record"}
    /\ Advance(s, "refused")
    /\ UNCHANGED <<chainVars, storeVars, lvbh, resolved>>

\* The simulation passed; the blockhash fixes the last valid height.
Prepare(s) ==
    /\ Goes(s, "prepare", "record")
    /\ lvbh' = [lvbh EXCEPT ![Mine(s)] = now + Validity]
    /\ UNCHANGED <<chainVars, storeVars, report, resolved>>

\* put_pending replaces the wallet's record.
Record(s) ==
    /\ session[s].pc = "record"
    /\ pending' = Mine(s)
    /\ session' = [session EXCEPT ![s].of = Mine(s),
          ![s].pc = IF s \in Ultra THEN "execute" ELSE "hand",
          ![s].since = IF s \in Ultra THEN now ELSE @]
    /\ UNCHANGED <<chainVars, lease, fence, lvbh, report, resolved>>

-----------------------------------------------------------------------------
(* Submitters.  The cluster may have received what was handed over even    *)
(* when no answer comes back.                                              *)

Polls(s) == session' = [session EXCEPT ![s].pc = "poll", ![s].since = now]

\* sendTransaction: Accepted.
Hand(s) ==
    /\ session[s].pc = "hand"
    /\ sent' = sent \cup {Mine(s)}
    /\ Polls(s)
    /\ UNCHANGED <<now, slot, storeVars, lvbh, report, resolved>>

\* sendTransaction: a JSON-RPC error, the node did not forward it.
HandRejected(s) ==
    /\ Goes(s, "hand", "clear")
    /\ report' = [report EXCEPT ![Mine(s)] = "failed"]
    /\ UNCHANGED <<chainVars, storeVars, lvbh, resolved>>

\* sendTransaction: no answer.  Forwarded or not, it is sent once more.
HandLost(s) ==
    /\ Goes(s, "hand", "resend")
    /\ sent' \in {sent, sent \cup {Mine(s)}}
    /\ UNCHANGED <<now, slot, storeVars, lvbh, report, resolved>>

\* Mutant: an error answer of the second attempt proves the first did not
\* go out either.
ResendTrusted(s) ==
    \/ /\ session[s].pc = "resend"
       /\ sent' \in {sent, sent \cup {Mine(s)}}
       /\ Polls(s)
       /\ UNCHANGED <<now, slot, storeVars, lvbh, report, resolved>>
    \/ /\ Goes(s, "resend", "clear")
       /\ report' = [report EXCEPT ![Mine(s)] = "failed"]
       /\ UNCHANGED <<chainVars, storeVars, lvbh, resolved>>

\* The same bytes again; whatever comes back, polling decides.
Resend(s) ==
    /\ session[s].pc = "resend"
    /\ sent' \in {sent, sent \cup {Mine(s)}}
    /\ Polls(s)
    /\ UNCHANGED <<now, slot, storeVars, lvbh, report, resolved>>

\* /execute: Jupiter may send it, before or after the answer is lost.
Execute(s) ==
    /\ Goes(s, "execute", "answer")
    /\ sent' \in {sent, sent \cup {Mine(s)}}
    /\ UNCHANGED <<now, slot, storeVars, lvbh, report, resolved>>

\* classify_execute and the retry within the window: landed; a code that
\* means never sent; asked again; otherwise polled.
Answer(s) ==
    LET t == Mine(s) IN
    /\ session[s].pc = "answer"
    /\ \/ /\ Landed(t)
          /\ report' = [report EXCEPT ![t] = "confirmed"]
          /\ Goes(s, "answer", "fence")
       \/ /\ t \notin sent
          /\ report' = [report EXCEPT ![t] = "failed"]
          /\ Goes(s, "answer", "clear")
       \/ /\ now - session[s].since < MaxPoll
          /\ Goes(s, "answer", "execute")
          /\ UNCHANGED report
       \/ Polls(s) /\ UNCHANGED report
    /\ UNCHANGED <<chainVars, storeVars, lvbh, resolved>>

-----------------------------------------------------------------------------
(* confirm.                                                                *)

\* A status that says landed, with or without an on-chain error.
SeesLanded(s) ==
    /\ Landed(Mine(s))
    /\ report' \in {[report EXCEPT ![Mine(s)] = v] : v \in {"confirmed", "reverted"}}
    /\ session' = [session EXCEPT ![s].pc = "fence"]

Poll(s) ==
    /\ session[s].pc = "poll"
    /\ SeesLanded(s) \/ (Goes(s, "poll", "height") /\ UNCHANGED report)
    /\ UNCHANGED <<chainVars, storeVars, lvbh, resolved>>

\* getBlockHeight; a failure waits for the next round.
PollHeight(s) ==
    /\ \/ now > lvbh[Mine(s)] /\ Goes(s, "height", "look")
       \/ Goes(s, "height", "wait")
    /\ UNCHANGED <<chainVars, storeVars, lvbh, report, resolved>>

\* The last look in history, after the height.
Look(s) ==
    /\ session[s].pc = "look"
    /\ \/ SeesLanded(s)
       \/ /\ ~Landed(Mine(s))
          /\ report' = [report EXCEPT ![Mine(s)] = "expired"]
          /\ Goes(s, "look", "clear")
       \/ Goes(s, "look", "wait") /\ UNCHANGED report
    /\ UNCHANGED <<chainVars, storeVars, lvbh, resolved>>

\* MAX_POLL is up: unconfirmed, the record stays; else another round.
Wait(s) ==
    /\ session[s].pc = "wait"
    /\ IF now - session[s].since >= MaxPoll
       THEN Advance(s, "unconfirmed")
       ELSE Goes(s, "wait", "poll") /\ UNCHANGED report
    /\ UNCHANGED <<chainVars, storeVars, lvbh, resolved>>

-----------------------------------------------------------------------------
(* close, crashes, the cluster and the clock.                              *)

\* The holder's own lease is dropped, or the store fails.
Close(s) ==
    /\ session[s].pc = "close"
    /\ session' = [session EXCEPT ![s] = Over]
    /\ lease' \in {lease, IF lease.holder = s THEN Free ELSE lease}
    /\ UNCHANGED <<chainVars, pending, fence, lvbh, report, resolved>>

Crash(s) ==
    /\ session[s].pc \notin Idle
    /\ session' = [session EXCEPT ![s] = Over]
    /\ UNCHANGED <<chainVars, storeVars, lvbh, report, resolved>>

\* The cluster puts a received transaction in block `now' (confirmed).
Land(t) ==
    /\ t \in sent /\ ~Landed(t)
    /\ now <= lvbh[t]
    /\ slot' = [slot EXCEPT ![t] = now]
    /\ UNCHANGED <<now, sent, storeVars, lvbh, session, report, resolved>>

\* Time limits of the calls a session makes.
MayPass(s) ==
    session[s].pc \notin Idle =>
        now - session[s].since < IF session[s].pc \in Waits THEN MaxPoll ELSE MaxPrep

Tick ==
    /\ now < MaxTime
    /\ \A s \in Sessions : MayPass(s)
    /\ now' = now + 1
    /\ UNCHANGED <<sent, slot, storeVars, lvbh, session, report, resolved>>

-----------------------------------------------------------------------------

Step(s) ==
    \/ Open(s) \/ OpenRefused(s) \/ ReadPending(s) \/ ResolveFails(s)
    \/ AskStatus(s) \/ AskHeight(s) \/ RaiseFence(s) \/ Clear(s)
    \/ Build(s) \/ BuildFails(s) \/ Renew(s) \/ NotSent(s) \/ Prepare(s) \/ Record(s)
    \/ Hand(s) \/ HandRejected(s) \/ HandLost(s) \/ Resend(s)
    \/ Execute(s) \/ Answer(s)
    \/ Poll(s) \/ PollHeight(s) \/ Look(s) \/ Wait(s) \/ Close(s)

Next ==
    \/ \E s \in Sessions : Step(s) \/ Crash(s)
    \/ \E t \in Tx : Land(t)
    \/ Tick

Spec == Init /\ [][Next]_vars

-----------------------------------------------------------------------------
(* Properties.                                                             *)

Pcs == Idle \cup Waits \cup
       {"resolve", "ask", "askHeight", "fence", "clear", "build", "renew",
        "prepare", "record", "hand", "resend", "close"}

\* Every row, session and report has its type; the fence never passes the
\* chain (raise_fence, TxReport).
TypeOK ==
    /\ now \in 1..MaxTime
    /\ lease \in [holder: Sessions \cup {NoOne}, expires: 0..(MaxTime + Ttl)]
    /\ pending \in Tx \cup {NoTx}
    /\ fence \in 0..now
    /\ lvbh \in [Tx -> 0..(MaxTime + Validity)]
    /\ sent \subseteq Tx
    /\ slot \in [Tx -> 0..now]
    /\ session \in [Sessions -> [pc: Pcs, i: 1..10, of: Tx \cup {NoTx},
                                 base: Unpinned..now, since: 0..now]]
    /\ report \in [Tx -> {"none", "refused", "failed", "expired", "unconfirmed",
                          "confirmed", "reverted"}]
    /\ resolved \in [Tx -> {"none", "expired", "unfenced"}]

\* A transaction that may still land.
Live(t) == t \in sent /\ ~Landed(t) /\ now <= lvbh[t]

\* A transaction that may still land is the wallet's pending record, so the
\* next session finds it: through crashes, lost answers, lapsed leases and
\* late clears of other sessions (submit_signed records before it sends,
\* clear_pending compares the signature).
Tracked == \A t \in Tx : Live(t) => pending = t

Sending == {"renew", "prepare", "record", "hand", "resend"}

\* A tool whose reads are pinned plans its transactions from the chain at or
\* after every landing of another session that was not taken for expired and
\* whose fence was stored: the fence is raised before the record goes, and
\* the lease keeps others out from the reads to the send.
BuildsOnLanded ==
    \A s \in Sessions, t \in Tx :
        /\ session[s].pc \in Sending /\ session[s].base # Unpinned
        /\ t[1] # s /\ Landed(t) /\ resolved[t] = "none"
        => slot[t] <= session[s].base

fateOf(t) ==
    IF Landed(t) THEN "landed"
    ELSE IF t \notin sent THEN "unsent"
    ELSE IF now <= lvbh[t] THEN "live" ELSE "dead"

Wallet == INSTANCE WalletSends
    WITH fate <- [t \in Tx |-> fateOf(t)], told <- report

\* The pipeline implements WalletSends: one transaction of the wallet can
\* land at a time, and every TxReport is true of its transaction for good.
OneSendToldTruly == Wallet!Spec

-----------------------------------------------------------------------------
(* What the comments and docs say and the code does not do.                *)

\* domain/solana_write.rs:15: expired is "did not land, safe to retry".
ExpiredDidNotLand == \A t \in Tx : resolved[t] = "expired" => ~Landed(t)

=============================================================================
