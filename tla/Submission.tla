----------------------------- MODULE Submission -----------------------------
(***************************************************************************)
(* The RPC client's send path, protocol/client.py: send_tx,                *)
(* _send_and_confirm and get_transaction, with the read-back of a receipt, *)
(* core/amounts.py: confirmed_token_delta.  Every command that moves funds *)
(* ends in one call of it.                                                 *)
(*                                                                         *)
(* Around it, external: the cluster, which may receive a posted request    *)
(* late or never, lands a transaction as a success or a failure or lets    *)
(* its blockhash lapse, and a load-balanced endpoint, of which one node    *)
(* can miss a transaction that another has confirmed.                      *)
(***************************************************************************)
EXTENDS Integers

CONSTANTS
  Invocations,          \* the runs of the CLI
  Oversize,             \* those whose instructions do not fit even a v1 transaction
  Codes,                \* on-chain custom error codes (0: the error carries none)
  Receipts,             \* raw amounts a transaction can move into the wallet
  Attempts              \* _TX_READ_ATTEMPTS

ASSUME SubmissionAssumption ==
  /\ Oversize \subseteq Invocations
  /\ Receipts \subseteq Nat
  /\ Attempts \in Nat \ {0}

VARIABLES
  tx,                   \* tx[i]: i's transaction on the cluster
  call,                 \* call[i]: the await i's send_tx is in
  mode,                 \* mode[i]: what the caller asked of send_tx
  ret,                  \* ret[i]: how the call ended
  receipt,              \* receipt[i]: what confirmed_token_delta returned
  tries,                \* tries[i]: its attempts so far
  posts                 \* posts[i]: sendTransaction requests made (history)

submissionVars == <<tx, call, mode, ret, receipt, tries, posts>>

Landed == {"ok", "failed"}
(* "posted": the request has left the client and no node has it yet.       *)
Fates == Landed \cup {"none", "posted", "flying", "expired"}
NoReceipt == -1
NoTx == [fate |-> "none", code |-> 0, got |-> 0]
(* "send": return once a node answers; "confirm": wait; "receipt": wait,   *)
(* then read back the tokens received.                                     *)
Modes == {"send", "confirm", "receipt"}
Calls == {"idle", "blockhash", "posting", "confirming", "reading", "delta", "done"}
Rets == {"none", "too_large", "raised", "accepted", "unconfirmed", "failed",
         "confirmed", "killed"}

Tx == [fate : Fates, code : Codes \cup {0}, got : Nat]

TypeOK ==
  /\ tx \in [Invocations -> Tx]
  /\ call \in [Invocations -> Calls]
  /\ mode \in [Invocations -> Modes]
  /\ ret \in [Invocations -> Rets]
  /\ receipt \in [Invocations -> Nat \cup {NoReceipt}]
  /\ tries \in [Invocations -> 0 .. Attempts]
  /\ posts \in [Invocations -> Nat]

SubmissionInit ==
  /\ tx = [i \in Invocations |-> NoTx]
  /\ call = [i \in Invocations |-> "idle"]
  /\ mode = [i \in Invocations |-> "send"]
  /\ ret = [i \in Invocations |-> "none"]
  /\ receipt = [i \in Invocations |-> NoReceipt]
  /\ tries = [i \in Invocations |-> 0]
  /\ posts = [i \in Invocations |-> 0]

-----------------------------------------------------------------------------
(* The client.                                                             *)

Return(i, kind) ==
  /\ call' = [call EXCEPT ![i] = "done"]
  /\ ret' = [ret EXCEPT ![i] = kind]

Await(i, where) ==
  /\ call' = [call EXCEPT ![i] = where]
  /\ UNCHANGED ret

(* A command calls send_tx, which first asks for a blockhash.              *)
SendTx(i, m) ==
  /\ call[i] = "idle"
  /\ mode' = [mode EXCEPT ![i] = m]
  /\ Await(i, "blockhash")
  /\ UNCHANGED <<tx, receipt, tries, posts>>

(* With the blockhash, build_message compiles and sizes the message, and   *)
(* the signed transaction is posted with preflight skipped.                *)
BuildAndPost(i) ==
  /\ call[i] = "blockhash"
  /\ IF i \in Oversize
       THEN Return(i, "too_large") /\ UNCHANGED <<tx, posts>>
       ELSE /\ Await(i, "posting")
            /\ tx' = [tx EXCEPT ![i].fate = "posted"]
            /\ posts' = [posts EXCEPT ![i] = @ + 1]
  /\ UNCHANGED <<mode, receipt, tries>>

(* The blockhash or the post ends in an exception (HTTP error, timeout)    *)
(* that nothing below the process catches; the post may have arrived.      *)
RpcRaises(i) ==
  /\ call[i] \in {"blockhash", "posting"}
  /\ Return(i, "raised")
  /\ UNCHANGED <<tx, mode, receipt, tries, posts>>

(* The node answers the post with the signature.                           *)
SendAnswered(i) ==
  /\ call[i] = "posting"
  /\ tx[i].fate \notin {"none", "posted"}
  /\ IF mode[i] = "send" THEN Return(i, "accepted") ELSE Await(i, "confirming")
  /\ UNCHANGED <<tx, mode, receipt, tries, posts>>

(* (Mutant: a wait that timed out is taken for a confirmation.)            *)
ConfirmAnsweredEarly(i) ==
  /\ call[i] = "confirming"
  /\ Await(i, "reading")
  /\ UNCHANGED <<tx, mode, receipt, tries, posts>>

(* confirm_transaction returns once a node has the transaction confirmed,  *)
(* and says nothing of whether it succeeded.                               *)
ConfirmAnswered(i) ==
  /\ call[i] = "confirming"
  /\ tx[i].fate \in Landed
  /\ Await(i, "reading")
  /\ UNCHANGED <<tx, mode, receipt, tries, posts>>

(* (Mutants: an unconfirmed transaction is sent again; the exception is    *)
(* not wrapped, and the signature is lost with it; the wait has no limit.) *)
ConfirmRaisesAndResends(i) ==
  /\ call[i] \in {"confirming", "reading"}
  /\ Await(i, "blockhash")
  /\ UNCHANGED <<tx, mode, receipt, tries, posts>>

ConfirmRaisesBare(i) ==
  /\ call[i] \in {"confirming", "reading"}
  /\ Return(i, "raised")
  /\ UNCHANGED <<tx, mode, receipt, tries, posts>>

ConfirmNeverTimesOut(i) ==
  /\ call[i] = "reading"
  /\ Return(i, "unconfirmed")
  /\ UNCHANGED <<tx, mode, receipt, tries, posts>>

(* It times out or raises, or the read of the outcome does: the client     *)
(* raises a RuntimeError that names the signature.                         *)
ConfirmRaises(i) ==
  /\ call[i] \in {"confirming", "reading"}
  /\ Return(i, "unconfirmed")
  /\ UNCHANGED <<tx, mode, receipt, tries, posts>>

(* get_transaction answers: the outcome, or None from a node that has not  *)
(* seen it.  Only an outcome with an error raises TransactionFailedError.  *)
ReadStatus(i) ==
  /\ call[i] = "reading"
  /\ \E seen \in BOOLEAN :
       IF seen /\ tx[i].fate = "failed" THEN Return(i, "failed")
       ELSE IF mode[i] = "receipt" THEN Await(i, "delta")
       ELSE Return(i, "confirmed")
  /\ UNCHANGED <<tx, mode, receipt, tries, posts>>

(* (Mutant: the attempts are not counted against their limit.)             *)
DeltaMissedForever(i) ==
  /\ call[i] = "delta"
  /\ tries' = [tries EXCEPT ![i] = @ + 1]
  /\ tries[i] <= Attempts
  /\ UNCHANGED <<tx, call, mode, ret, receipt, posts>>

(* One attempt of confirmed_token_delta.  None found: sleep and ask again, *)
(* while attempts are left.                                                *)
DeltaMissed(i) ==
  /\ call[i] = "delta"
  /\ tries' = [tries EXCEPT ![i] = @ + 1]
  /\ IF tries[i] + 1 < Attempts THEN UNCHANGED <<call, ret>> ELSE Return(i, "confirmed")
  /\ UNCHANGED <<tx, mode, receipt, posts>>

(* (Mutant: the error is not looked at.)                                   *)
DeltaFoundUnchecked(i) ==
  /\ call[i] = "delta"
  /\ receipt' = [receipt EXCEPT ![i] = tx[i].got]
  /\ Return(i, "confirmed")
  /\ UNCHANGED <<tx, mode, tries, posts>>

(* Found: an error, balances the node did not record, or no gain leave no  *)
(* receipt; otherwise the gain of this very transaction is the receipt.    *)
DeltaFound(i) ==
  /\ call[i] = "delta"
  /\ \E recorded \in BOOLEAN :
       receipt' = [receipt EXCEPT ![i] =
         IF tx[i].fate = "ok" /\ recorded /\ tx[i].got > 0 THEN tx[i].got ELSE NoReceipt]
  /\ Return(i, "confirmed")
  /\ UNCHANGED <<tx, mode, tries, posts>>

(* The read fails: the receipt is given up, not the trade.                 *)
DeltaRaises(i) ==
  /\ call[i] = "delta"
  /\ Return(i, "confirmed")
  /\ UNCHANGED <<tx, mode, receipt, tries, posts>>

ClientStep(i) ==
  \/ BuildAndPost(i) \/ RpcRaises(i) \/ SendAnswered(i)
  \/ ConfirmAnswered(i) \/ ConfirmRaises(i) \/ ReadStatus(i)
  \/ DeltaMissed(i) \/ DeltaFound(i) \/ DeltaRaises(i)

(* The user interrupts the process; the signature has not been printed.    *)
Interrupt(i) ==
  /\ call[i] \notin {"idle", "done"}
  /\ Return(i, "killed")
  /\ UNCHANGED <<tx, mode, receipt, tries, posts>>

-----------------------------------------------------------------------------
(* The cluster (external).                                                 *)

Arrive(i) ==
  /\ tx[i].fate = "posted"
  /\ tx' = [tx EXCEPT ![i].fate = "flying"]
  /\ UNCHANGED <<call, mode, ret, receipt, tries, posts>>

Land(i, outcome, code, got) ==
  /\ tx[i].fate = "flying"
  /\ tx' = [tx EXCEPT ![i] = [fate |-> outcome, code |-> code, got |-> got]]
  /\ UNCHANGED <<call, mode, ret, receipt, tries, posts>>

Expire(i) ==
  /\ tx[i].fate = "flying"
  /\ tx' = [tx EXCEPT ![i].fate = "expired"]
  /\ UNCHANGED <<call, mode, ret, receipt, tries, posts>>

Cluster(i) ==
  \/ Arrive(i) \/ Expire(i)
  \/ \E got \in Receipts : Land(i, "ok", 0, got)
  \/ \E code \in Codes \cup {0} : Land(i, "failed", code, 0)

-----------------------------------------------------------------------------
SubmissionNext ==
  \E i \in Invocations :
    \/ \E m \in Modes : SendTx(i, m)
    \/ ClientStep(i) \/ Interrupt(i) \/ Cluster(i)

(* Every await of the client ends: the HTTP client has a timeout and       *)
(* confirm_transaction gives up after its own.  The cluster owes nothing.  *)
SubmissionSpec ==
  /\ SubmissionInit /\ [][SubmissionNext]_submissionVars
  /\ \A i \in Invocations : WF_submissionVars(ClientStep(i))
-----------------------------------------------------------------------------
(* What the user learns from the way the call ended.                       *)
Told(kind) ==
  CASE kind = "none" -> "pending"
    [] kind = "too_large" -> "nothing_sent"
    [] kind \in {"accepted", "unconfirmed"} -> "accepted"
    [] kind = "confirmed" -> "landed"
    [] kind = "failed" -> "failed"
    [] kind \in {"raised", "killed"} -> "silent"

(* A request under way has not been broadcast yet.                         *)
Broadcasted(fate) == IF fate = "posted" THEN "none" ELSE fate

Report == INSTANCE TxReport WITH
  fate <- [i \in Invocations |-> Broadcasted(tx[i].fate)],
  told <- [i \in Invocations |-> Told(ret[i])]

(* PROPERTY. send_tx implements the contract of TxReport: every way it can *)
(* end, through lost answers, timeouts, lagging nodes and interrupts,      *)
(* tells of its transaction something true that later stays true.          *)
ImplementsTxReport == Report!ReportSpec

(* PROPERTY. A receipt is exact: it is there only when the transaction     *)
(* succeeded, and it is what that transaction moved into the wallet        *)
(* (README: tokens_received_raw is read from the confirmed transaction).   *)
ExactReceipt ==
  \A i \in Invocations :
    receipt[i] # NoReceipt => /\ tx[i].fate = "ok"
                             /\ ret[i] = "confirmed"
                             /\ receipt[i] = tx[i].got

(* PROPERTY. Whatever goes wrong after the post, the client never posts a  *)
(* second transaction for one call.                                        *)
PostsAtMostOnce ==
  \A i \in Invocations :
    /\ posts[i] <= 1
    /\ posts[i] = 0 <=> tx[i].fate = "none"

(* PROPERTY. Once a node has answered with the signature, the call ends    *)
(* with that signature or with the on-chain failure, and in no other way   *)
(* but the user's interrupt: a failed wait never loses the signature       *)
(* (_send_and_confirm: "the send already happened").                       *)
SignatureSurvives ==
  [][\A i \in Invocations :
       call[i] \in {"confirming", "reading", "delta"} /\ call'[i] = "done"
         => ret'[i] \in {"confirmed", "unconfirmed", "failed", "killed"}]_submissionVars

(* PROPERTY. A call to send_tx ends, whatever the cluster does with the    *)
(* transaction: it is bounded by the HTTP timeout, by the timeout of       *)
(* confirm_transaction and by the attempts to read the receipt.            *)
SendEnds == \A i \in Invocations : call[i] = "blockhash" ~> call[i] = "done"

(* REFUTED. TransactionFailedError is "raised when a confirmed transaction *)
(* fails on-chain", so a call that returns after its wait means success.   *)
(* It does not: a node that misses the transaction answers None.           *)
ConfirmedMeansSucceeded ==
  \A i \in Invocations : ret[i] = "confirmed" => tx[i].fate = "ok"

-----------------------------------------------------------------------------
(* The inductive invariant: what each await knows of the transaction.      *)

Posted == {"posted", "flying", "expired"} \cup Landed

AwaitsKnow ==
  \A i \in Invocations :
    /\ call[i] \in {"idle", "blockhash"} => tx[i].fate = "none" /\ posts[i] = 0
    /\ call[i] = "posting" => tx[i].fate \in Posted
    /\ call[i] = "confirming" => tx[i].fate \in Posted \ {"posted"}
    /\ call[i] \in {"reading", "delta"} => tx[i].fate \in Landed
    /\ call[i] # "done" => tries[i] < Attempts

ReturnsKnow ==
  \A i \in Invocations :
    /\ ret[i] = "none" <=> call[i] # "done"
    /\ ret[i] = "too_large" => tx[i].fate = "none"
    /\ ret[i] \in {"accepted", "unconfirmed"} => tx[i].fate \in Posted \ {"posted"}
    /\ ret[i] = "confirmed" => tx[i].fate \in Landed
    /\ ret[i] = "failed" => tx[i].fate = "failed"

SubmissionInv ==
  /\ TypeOK
  /\ AwaitsKnow
  /\ ReturnsKnow
  /\ PostsAtMostOnce
  /\ ExactReceipt
=============================================================================
