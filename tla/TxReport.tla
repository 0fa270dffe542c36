------------------------------ MODULE TxReport ------------------------------
(***************************************************************************)
(* What one invocation of the CLI promises about the transaction it may    *)
(* broadcast.  An invocation broadcasts at most once; the cluster settles  *)
(* what was broadcast; the invocation ends by telling its user something,  *)
(* once, and what it tells has to be true then and to stay true whatever   *)
(* the cluster does afterwards.                                            *)
(*                                                                         *)
(* This is the abstract specification.  Submission (the RPC client) and    *)
(* the commands above it (Trade, WalletFunds, Payouts, Launch) are shown   *)
(* to implement it.                                                        *)
(***************************************************************************)
CONSTANT Invocations    \* the runs of the CLI

VARIABLES
  fate,                 \* [Invocations -> Fates], its transaction on the cluster
  told                  \* [Invocations -> Reports], what its user was told

reportVars == <<fate, told>>

(* "none": never reached a node; "flying": broadcast, not yet in a block;  *)
(* "ok" / "failed": in a block; "expired": its blockhash lapsed unseen.    *)
Fates == {"none", "flying", "ok", "failed", "expired"}
Landed == {"ok", "failed"}

(* "pending": still running; "nothing_sent": refused, or a dry run;        *)
(* "accepted": a signature to follow up; "landed": waited until a node     *)
(* had it confirmed; "failed": failed on chain; "silent": the process      *)
(* ended without a word on the transaction.                                *)
Reports == {"pending", "nothing_sent", "accepted", "landed", "failed", "silent"}

Supports(report, f) ==
  \/ report \in {"pending", "silent"}
  \/ report = "nothing_sent" /\ f = "none"
  \/ report = "accepted"     /\ f # "none"
  \/ report = "landed"       /\ f \in Landed
  \/ report = "failed"       /\ f = "failed"

ReportInit ==
  /\ fate = [i \in Invocations |-> "none"]
  /\ told = [i \in Invocations |-> "pending"]

(* A node can still receive a request whose sender has given up on it, so  *)
(* a silent invocation may yet be broadcast; one that said nothing was     *)
(* sent may not.                                                           *)
Broadcast(i) ==
  /\ told[i] \in {"pending", "silent"} /\ fate[i] = "none"
  /\ fate' = [fate EXCEPT ![i] = "flying"]
  /\ UNCHANGED told

Settle(i) ==
  /\ fate[i] = "flying"
  /\ \E f \in Landed \cup {"expired"} : fate' = [fate EXCEPT ![i] = f]
  /\ UNCHANGED told

Tell(i) ==
  /\ told[i] = "pending"
  /\ \E r \in Reports \ {"pending"} :
       /\ Supports(r, fate[i])
       /\ told' = [told EXCEPT ![i] = r]
  /\ UNCHANGED fate

ReportNext == \E i \in Invocations : Broadcast(i) \/ Settle(i) \/ Tell(i)

ReportSpec == ReportInit /\ [][ReportNext]_reportVars

(* A report is true of the transaction from the moment it is made.         *)
ReportsHold == \A i \in Invocations : Supports(told[i], fate[i])
=============================================================================
