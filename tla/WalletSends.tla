---------------------------- MODULE WalletSends ----------------------------
(***************************************************************************)
(* What the Solana write tools promise of one wallet's transactions,       *)
(* whatever sessions, crashes, leases and lost answers are behind it: at   *)
(* most one of them can land at a time, and what a tool reports of one is  *)
(* true (the WriteStatus table of domain/solana_write.rs).                 *)
(***************************************************************************)
CONSTANT Tx

VARIABLES fate,  \* what became of each transaction
          told   \* the status its report gives

vars == <<fate, told>>

Init == fate = [t \in Tx |-> "unsent"] /\ told = [t \in Tx |-> "none"]

\* The signed bytes may reach the cluster: no other transaction of the
\* wallet can still land, and nobody was told this one is not sent.
Submit(t) ==
    /\ fate[t] = "unsent" /\ told[t] = "none"
    /\ \A u \in Tx : fate[u] # "live"
    /\ fate' = [fate EXCEPT ![t] = "live"]
    /\ UNCHANGED told

\* It reaches the cluster too late to land.
SubmitLate(t) ==
    /\ fate[t] = "unsent" /\ told[t] = "none"
    /\ fate' = [fate EXCEPT ![t] = "dead"]
    /\ UNCHANGED told

Land(t) ==
    /\ fate[t] = "live"
    /\ fate' = [fate EXCEPT ![t] = "landed"]
    /\ UNCHANGED told

\* Its blockhash expires unseen.
Die(t) ==
    /\ fate[t] = "live"
    /\ fate' = [fate EXCEPT ![t] = "dead"]
    /\ UNCHANGED told

\* The statuses that are true of each fate.  An answer that was lost makes
\* an unsent transaction look sent; it then expires or stays unconfirmed.
True(f) ==
    CASE f = "unsent" -> {"refused", "failed", "expired", "unconfirmed"}
      [] f = "landed" -> {"confirmed", "reverted", "unconfirmed"}
      [] f = "dead"   -> {"expired", "unconfirmed"}
      [] f = "live"   -> {"unconfirmed"}

Tell(t) ==
    /\ told[t] = "none"
    /\ told' \in {[told EXCEPT ![t] = v] : v \in True(fate[t])}
    /\ UNCHANGED fate

Next == \E t \in Tx : Submit(t) \/ SubmitLate(t) \/ Land(t) \/ Die(t) \/ Tell(t)

Spec == Init /\ [][Next]_vars
=============================================================================
