------------------------------ MODULE FollowUp -------------------------------
(***************************************************************************)
(* What a user in doubt does next: pumpfun tx-status with the signature a  *)
(* command printed, or named in its error (core/tx_status.py:              *)
(* get_tx_status, commands/tx_status.py), as often as wanted, on an        *)
(* endpoint whose nodes do not all know the same.                          *)
(***************************************************************************)
EXTENDS Submission

VARIABLE answers        \* answers[i]: the statuses tx-status has given of i (history)

Statuses == {"not_found", "confirmed", "failed"}

FollowUpInit == SubmissionInit /\ answers = [i \in Invocations |-> {}]

(* A failure is reported by its error alone, TransactionFailedError: only  *)
(* the other ways to end after the post name the signature.                *)
NamesSignature(kind) == kind \in {"accepted", "unconfirmed", "confirmed"}

(* (Mutant: a transaction the node knows is taken for a success.)          *)
StatusOfKnown(fate) == "confirmed"

StatusOf(fate) == IF fate = "failed" THEN "failed" ELSE "confirmed"

(* One run of tx-status.  A node that does not have the transaction at     *)
(* 'confirmed', because it lags or because there is nothing to have,       *)
(* answers None; a request that fails raises, and answers nothing.         *)
AskStatus(i) ==
  /\ NamesSignature(ret[i])
  /\ \E status \in {"not_found"} \cup {StatusOf(f) : f \in {tx[i].fate} \cap Landed} :
       answers' = [answers EXCEPT ![i] = @ \cup {status}]
  /\ UNCHANGED submissionVars

FollowUpNext ==
  \/ SubmissionNext /\ UNCHANGED answers
  \/ \E i \in Invocations : AskStatus(i)

FollowUpSpec ==
  /\ FollowUpInit /\ [][FollowUpNext]_<<submissionVars, answers>>
  /\ \A i \in Invocations : WF_submissionVars(ClientStep(i))
-----------------------------------------------------------------------------
(* PROPERTY. tx-status settles what the command left open, whatever it     *)
(* left open: an answer that is not "not found" is true of the transaction,*)
(* is never followed by its opposite from another node, and agrees with    *)
(* the receipt if one was printed.  "Not found" alone says nothing: it may *)
(* precede either, and follow either.                                      *)
TrueStatus ==
  \A i \in Invocations :
    /\ answers[i] \subseteq Statuses
    /\ ~({"confirmed", "failed"} \subseteq answers[i])
    /\ "confirmed" \in answers[i] => tx[i].fate = "ok"
    /\ "failed" \in answers[i] => tx[i].fate = "failed" /\ receipt[i] = NoReceipt
=============================================================================
