---------------------------- MODULE MCSubmission ----------------------------
(* One invocation whose transaction fits and one whose does not, against   *)
(* every behaviour of the cluster; two different receipts.  *)
EXTENDS FollowUp

CONSTANTS fits, big

MCInvocations == {fits, big}
MCOversize == {big}
MCCodes == {6002, 6005}
MCReceipts == {5, 7}
=============================================================================
