------------------------- MODULE Submission_proofs --------------------------
(***************************************************************************)
(* Proofs about the send path, for every set of invocations, every set of  *)
(* error codes and receipts and every number of attempts.                  *)
(*                                                                         *)
(* SubmissionInv is inductive: what the client may tell when an await ends *)
(* depends on what that await established of the transaction, so the       *)
(* strengthening (AwaitsKnow) says, await by await, what is known.         *)
(***************************************************************************)
EXTENDS Submission, TLAPS

(* The initial states satisfy the invariant.                               *)
LEMMA InitInv == SubmissionInit => SubmissionInv
  BY SubmissionAssumption
  DEF SubmissionInit, SubmissionInv, TypeOK, AwaitsKnow, ReturnsKnow, PostsAtMostOnce,
      ExactReceipt, Tx, NoTx, Fates, Landed, Calls, Modes, Rets, NoReceipt, Posted

(* Moving one transaction to another fate changes nothing else of it.     *)
LEMMA SetFate ==
  ASSUME TypeOK, NEW i \in Invocations, NEW f \in Fates,
         tx' = [tx EXCEPT ![i].fate = f]
  PROVE  /\ tx' \in [Invocations -> Tx]
         /\ tx'[i].fate = f /\ tx'[i].got = tx[i].got
         /\ \A j \in Invocations \ {i} : tx'[j] = tx[j]
<1>1. tx[i] \in Tx
  BY DEF TypeOK
<1>2. [tx[i] EXCEPT !.fate = f] \in Tx
  BY <1>1 DEF Tx
<1>3. tx' = [tx EXCEPT ![i] = [tx[i] EXCEPT !.fate = f]]
  BY DEF TypeOK
<1>. QED
  BY <1>1, <1>2, <1>3 DEF TypeOK, Tx

(* Calling send_tx preserves the invariant (used by every caller).         *)
LEMMA SendTxInv ==
  ASSUME SubmissionInv, NEW i \in Invocations, NEW m \in Modes, SendTx(i, m)
  PROVE  SubmissionInv'
  BY SubmissionAssumption
  DEF SendTx, Await, SubmissionInv, TypeOK, AwaitsKnow, ReturnsKnow, PostsAtMostOnce,
         ExactReceipt, Tx, Fates, Landed, Calls, Modes, Rets, NoReceipt, Posted

(* So does every step of the client after the call.                        *)
LEMMA ClientStepInv ==
  ASSUME SubmissionInv, NEW i \in Invocations, ClientStep(i)
  PROVE  SubmissionInv'
<1> USE SubmissionAssumption
    DEF SubmissionInv, TypeOK, AwaitsKnow, ReturnsKnow, PostsAtMostOnce,
         ExactReceipt, Tx, Fates, Landed, Calls, Modes, Rets, NoReceipt, Posted,
        Return, Await
<1>1. CASE BuildAndPost(i)
  <2>1. TypeOK'
    <3>1. CASE i \in Oversize
      BY <1>1, <3>1 DEF BuildAndPost
    <3>2. CASE i \notin Oversize
      <4>1. tx' \in [Invocations -> Tx]
        BY <1>1, <3>2, SetFate DEF BuildAndPost
      <4>2. posts' \in [Invocations -> Nat]
        BY <1>1, <3>2 DEF BuildAndPost
      <4>3. call' \in [Invocations -> Calls] /\ UNCHANGED <<mode, ret, receipt, tries>>
        BY <1>1, <3>2 DEF BuildAndPost
      <4>. QED
        BY <4>1, <4>2, <4>3
    <3>. QED
      BY <3>1, <3>2
  <2>2. AwaitsKnow' /\ PostsAtMostOnce'
    BY <1>1 DEF BuildAndPost
  <2>3. ReturnsKnow'
    BY <1>1 DEF BuildAndPost
  <2>4. ExactReceipt'
    BY <1>1 DEF BuildAndPost
  <2>. QED
    BY <2>1, <2>2, <2>3, <2>4
<1>2. CASE RpcRaises(i)
  BY <1>2 DEF RpcRaises
<1>3. CASE SendAnswered(i)
  BY <1>3 DEF SendAnswered
<1>4. CASE ConfirmAnswered(i)
  BY <1>4 DEF ConfirmAnswered
<1>5. CASE ConfirmRaises(i)
  BY <1>5 DEF ConfirmRaises
<1>6. CASE ReadStatus(i)
  <2>1. CASE tx[i].fate = "failed" /\ Return(i, "failed")
    BY <1>6, <2>1 DEF ReadStatus
  <2>2. CASE Await(i, "delta")
    BY <1>6, <2>2 DEF ReadStatus
  <2>3. CASE Return(i, "confirmed")
    BY <1>6, <2>3 DEF ReadStatus
  <2>. QED
    BY <1>6, <2>1, <2>2, <2>3 DEF ReadStatus
<1>7. CASE DeltaMissed(i)
  <2>1. TypeOK'
    BY <1>7 DEF DeltaMissed
  <2>2. AwaitsKnow' /\ PostsAtMostOnce'
    BY <1>7 DEF DeltaMissed
  <2>3. ReturnsKnow'
    BY <1>7 DEF DeltaMissed
  <2>4. ExactReceipt'
    BY <1>7 DEF DeltaMissed
  <2>. QED
    BY <2>1, <2>2, <2>3, <2>4
<1>8. CASE DeltaFound(i)
  <2>1. TypeOK'
    BY <1>8 DEF DeltaFound
  <2>2. AwaitsKnow' /\ PostsAtMostOnce'
    BY <1>8 DEF DeltaFound
  <2>3. ReturnsKnow'
    BY <1>8 DEF DeltaFound
  <2>4. ExactReceipt'
    BY <1>8 DEF DeltaFound
  <2>. QED
    BY <2>1, <2>2, <2>3, <2>4
<1>9. CASE DeltaRaises(i)
  BY <1>9 DEF DeltaRaises
<1>. QED
  BY <1>1, <1>2, <1>3, <1>4, <1>5, <1>6, <1>7, <1>8, <1>9 DEF ClientStep

(* And an interrupt, at any await.                                         *)
LEMMA InterruptInv ==
  ASSUME SubmissionInv, NEW i \in Invocations, Interrupt(i)
  PROVE  SubmissionInv'
  BY SubmissionAssumption
  DEF Interrupt, Return, SubmissionInv, TypeOK, AwaitsKnow, ReturnsKnow, PostsAtMostOnce,
         ExactReceipt, Tx, Fates, Landed, Calls, Modes, Rets, NoReceipt, Posted

(* A step of send_tx moves no settled transaction and nobody else's call   *)
(* (used by every command that waits for it).                              *)
LEMMA ClientMoves ==
  ASSUME SubmissionInv, NEW i \in Invocations, ClientStep(i) \/ Interrupt(i)
  PROVE  /\ SubmissionInv' /\ call[i] \notin {"idle", "done"} /\ call'[i] # "idle"
         /\ Interrupt(i) => call'[i] = "done" /\ UNCHANGED tx
         /\ tx'[i].code = tx[i].code /\ tx'[i].got = tx[i].got
         /\ tx'[i].fate = tx[i].fate \/ (tx[i].fate = "none" /\ tx'[i].fate = "posted")
         /\ \A j \in Invocations \ {i} :
              call'[j] = call[j] /\ tx'[j] = tx[j] /\ ret'[j] = ret[j]
<1>. USE DEF SubmissionInv, TypeOK
<1>1. SubmissionInv'
  BY ClientStepInv, InterruptInv
<1>2. CASE BuildAndPost(i)
  <2>1. CASE i \in Oversize
    BY <1>1, <1>2, <2>1 DEF BuildAndPost, Return, Interrupt
  <2>2. CASE i \notin Oversize
    <3>1. tx' = [tx EXCEPT ![i].fate = "posted"] /\ call[i] = "blockhash"
      BY <1>2, <2>2 DEF BuildAndPost
    <3>2. tx'[i].fate = "posted" /\ tx'[i].got = tx[i].got
          /\ \A j \in Invocations \ {i} : tx'[j] = tx[j]
      BY <3>1, SetFate DEF Fates
    <3>3. tx'[i].code = tx[i].code
      BY <3>1 DEF Tx
    <3>4. tx[i].fate = "none"
      BY <3>1 DEF AwaitsKnow
    <3>. QED
      BY <1>1, <1>2, <2>2, <3>1, <3>2, <3>3, <3>4 DEF BuildAndPost, Await, Interrupt, Return
  <2>. QED
    BY <2>1, <2>2
<1>3. CASE ~BuildAndPost(i)
  BY <1>1, <1>3 DEF ClientStep, Interrupt, RpcRaises, SendAnswered, ConfirmAnswered,
         ConfirmRaises, ReadStatus, DeltaMissed, DeltaFound, DeltaRaises, Return, Await
<1>. QED
  BY <1>2, <1>3

(* The cluster settles a transaction only while it is flying, so it cannot *)
(* falsify what an await or a report relied on.                            *)
LEMMA ArriveInv ==
  ASSUME SubmissionInv, NEW i \in Invocations, Arrive(i)
  PROVE  SubmissionInv'
<1>1. tx' \in [Invocations -> Tx] /\ tx'[i].fate = "flying"
      /\ \A j \in Invocations \ {i} : tx'[j] = tx[j]
  BY SetFate DEF Arrive, SubmissionInv, Fates
<1>2. TypeOK'
  BY <1>1 DEF Arrive, SubmissionInv, TypeOK
<1>3. AwaitsKnow' /\ PostsAtMostOnce'
  BY <1>1 DEF Arrive, SubmissionInv, TypeOK, AwaitsKnow, PostsAtMostOnce, Posted, Landed
<1>4. ReturnsKnow'
  BY <1>1 DEF Arrive, SubmissionInv, TypeOK, ReturnsKnow, AwaitsKnow, Posted, Landed
<1>5. ExactReceipt'
  BY <1>1 DEF Arrive, SubmissionInv, TypeOK, ExactReceipt, ReturnsKnow, AwaitsKnow, Landed
<1>. QED
  BY <1>2, <1>3, <1>4, <1>5 DEF SubmissionInv

(* A flying transaction that lapses has not been reported as landed.       *)
LEMMA ExpireInv ==
  ASSUME SubmissionInv, NEW i \in Invocations, Expire(i)
  PROVE  SubmissionInv'
<1>1. tx' \in [Invocations -> Tx] /\ tx'[i].fate = "expired"
      /\ \A j \in Invocations \ {i} : tx'[j] = tx[j]
  BY SetFate DEF Expire, SubmissionInv, Fates
<1>2. TypeOK'
  BY <1>1 DEF Expire, SubmissionInv, TypeOK
<1>3. AwaitsKnow' /\ PostsAtMostOnce'
  BY <1>1 DEF Expire, SubmissionInv, TypeOK, AwaitsKnow, PostsAtMostOnce, Posted, Landed
<1>4. ReturnsKnow'
  BY <1>1 DEF Expire, SubmissionInv, TypeOK, ReturnsKnow, AwaitsKnow, Posted, Landed
<1>5. ExactReceipt'
  BY <1>1 DEF Expire, SubmissionInv, TypeOK, ExactReceipt, ReturnsKnow, AwaitsKnow, Landed
<1>. QED
  BY <1>2, <1>3, <1>4, <1>5 DEF SubmissionInv

(* Nor has one that lands been reported on, or a receipt been read of it.  *)
LEMMA LandInv ==
  ASSUME SubmissionInv, NEW i \in Invocations,
         NEW f \in Landed, NEW c \in Codes \cup {0}, NEW g \in Nat, Land(i, f, c, g)
  PROVE  SubmissionInv'
  BY SubmissionAssumption DEF Land, SubmissionInv, TypeOK, AwaitsKnow, ReturnsKnow, PostsAtMostOnce,
         ExactReceipt, Tx, Fates, Landed, Calls, Modes, Rets, NoReceipt, Posted

(* Steps that touch no part of the send path (used by every caller).       *)
LEMMA StutterInv ==
  ASSUME SubmissionInv, UNCHANGED submissionVars
  PROVE  SubmissionInv'
  BY DEF submissionVars, SubmissionInv, TypeOK, AwaitsKnow, ReturnsKnow, PostsAtMostOnce,
         ExactReceipt, Tx, Fates, Landed, Calls, Modes, Rets, NoReceipt, Posted

(* The send path keeps its invariant.                                      *)
LEMMA StepInv == SubmissionInv /\ [SubmissionNext]_submissionVars => SubmissionInv'
<1> SUFFICES ASSUME SubmissionInv, [SubmissionNext]_submissionVars
             PROVE  SubmissionInv'
  OBVIOUS
<1>1. CASE UNCHANGED submissionVars
  BY <1>1, StutterInv
<1>2. ASSUME NEW i \in Invocations, NEW m \in Modes, SendTx(i, m)
      PROVE  SubmissionInv'
  BY <1>2, SendTxInv
<1>3. ASSUME NEW i \in Invocations, ClientStep(i) \/ Interrupt(i)
      PROVE  SubmissionInv'
  BY <1>3, ClientStepInv, InterruptInv
<1>4. ASSUME NEW i \in Invocations, Cluster(i)
      PROVE  SubmissionInv'
  <2>1. CASE Arrive(i) \/ Expire(i)
    BY <2>1, ArriveInv, ExpireInv
  <2>2. ASSUME NEW got \in Receipts, Land(i, "ok", 0, got)
        PROVE  SubmissionInv'
    BY <2>2, LandInv, SubmissionAssumption DEF Landed
  <2>3. ASSUME NEW code \in Codes \cup {0}, Land(i, "failed", code, 0)
        PROVE  SubmissionInv'
    BY <2>3, LandInv DEF Landed
  <2>. QED
    BY <1>4, <2>1, <2>2, <2>3 DEF Cluster
<1>. QED
  BY <1>1, <1>2, <1>3, <1>4 DEF SubmissionNext

(* In every reachable state each await of send_tx knows of its transaction *)
(* what it goes on to report.                                              *)
THEOREM SubmissionInvariant == SubmissionSpec => []SubmissionInv
<1>1. QED
  BY InitInv, StepInv, PTL DEF SubmissionSpec

(* The state stays well typed.                                             *)
THEOREM SubmissionTypeOK == SubmissionSpec => []TypeOK
<1>1. SubmissionInv => TypeOK
  BY DEF SubmissionInv
<1>. QED
  BY <1>1, SubmissionInvariant, PTL

(* A receipt is the gain of the very transaction that was confirmed, and   *)
(* that transaction succeeded.                                             *)
THEOREM SubmissionExactReceipt == SubmissionSpec => []ExactReceipt
<1>1. SubmissionInv => ExactReceipt
  BY DEF SubmissionInv
<1>. QED
  BY <1>1, SubmissionInvariant, PTL

(* One call posts at most one transaction.                                 *)
THEOREM SubmissionPostsAtMostOnce == SubmissionSpec => []PostsAtMostOnce
<1>1. SubmissionInv => PostsAtMostOnce
  BY DEF SubmissionInv
<1>. QED
  BY <1>1, SubmissionInvariant, PTL

(* An await after the post ends the call with its signature, with the      *)
(* failure on chain, or by the user's interrupt: no exception of a wait or *)
(* of a read takes the signature away.                                     *)
THEOREM SubmissionSignatureSurvives == SubmissionSpec => SignatureSurvives
<1> DEFINE Late(i) == call[i] \in {"confirming", "reading", "delta"} /\ call'[i] = "done"
           Named(i) == ret'[i] \in {"confirmed", "unconfirmed", "failed", "killed"}
<1>1. ASSUME SubmissionInv, [SubmissionNext]_submissionVars,
             NEW i \in Invocations, Late(i)
      PROVE  Named(i)
  <2>. USE <1>1 DEF SubmissionInv, TypeOK, Return, Await
  <2>1. PICK j \in Invocations :
          \/ \E m \in Modes : SendTx(j, m)
          \/ ClientStep(j) \/ Interrupt(j) \/ Cluster(j)
    BY DEF SubmissionNext, submissionVars
  <2>2. CASE \E m \in Modes : SendTx(j, m)
    BY <2>2 DEF SendTx
  <2>3. CASE ClientStep(j)
    BY <2>3 DEF ClientStep, BuildAndPost, RpcRaises, SendAnswered, ConfirmAnswered,
         ConfirmRaises, ReadStatus, DeltaMissed, DeltaFound, DeltaRaises
  <2>4. CASE Interrupt(j)
    BY <2>4 DEF Interrupt
  <2>5. CASE Cluster(j)
    BY <2>5 DEF Cluster, Arrive, Expire, Land
  <2>. QED
    BY <2>1, <2>2, <2>3, <2>4, <2>5
<1>2. SubmissionInv /\ [SubmissionNext]_submissionVars
        => [\A i \in Invocations : Late(i) => Named(i)]_submissionVars
  BY <1>1
<1>. QED
  BY <1>2, SubmissionInvariant, PTL DEF SubmissionSpec, SignatureSurvives
-----------------------------------------------------------------------------
(* The refinement: send_tx implements the contract of TxReport.            *)

(* Ending a call with a report its transaction supports is a Tell.         *)
LEMMA ReturnTells ==
  ASSUME SubmissionInv, NEW i \in Invocations, NEW k \in Rets \ {"none"},
         ret[i] = "none", UNCHANGED tx, ret' = [ret EXCEPT ![i] = k],
         Report!Supports(Told(k), Broadcasted(tx[i].fate))
  PROVE  Report!Tell(i)
<1>1. Told(k) \in Report!Reports \ {"pending"} /\ Told(ret[i]) = "pending"
  BY DEF Told, Rets, Report!Reports
<1>2. [j \in Invocations |-> Told(ret'[j])]
        = [[j \in Invocations |-> Told(ret[j])] EXCEPT ![i] = Told(k)]
  BY DEF SubmissionInv, TypeOK
<1>. QED
  BY <1>1, <1>2 DEF Report!Tell

(* A step that moves neither a transaction beyond its post nor a report is *)
(* invisible.                                                              *)
LEMMA QuietStep ==
  ASSUME UNCHANGED <<tx, ret>>
  PROVE  UNCHANGED Report!reportVars
  BY DEF Report!reportVars

(* What ends a call was established by the await it ends.                  *)
LEMMA ClientRefines ==
  ASSUME SubmissionInv, NEW i \in Invocations, ClientStep(i) \/ Interrupt(i)
  PROVE  Report!ReportNext \/ UNCHANGED Report!reportVars
<1>1. ASSUME NEW k \in Rets \ {"none"}, Return(i, k), UNCHANGED tx, ret[i] = "none",
             Report!Supports(Told(k), Broadcasted(tx[i].fate))
      PROVE  Report!ReportNext
  BY <1>1, ReturnTells DEF Return, Report!ReportNext
<1>2. call[i] # "done" => ret[i] = "none"
  BY DEF SubmissionInv, ReturnsKnow
<1>3. CASE BuildAndPost(i)
  <2>1. CASE i \in Oversize
    <3>1. Report!Supports(Told("too_large"), Broadcasted(tx[i].fate))
      BY <1>3 DEF BuildAndPost, SubmissionInv, AwaitsKnow, Report!Supports, Told, Broadcasted
    <3>. QED
      BY <1>1, <1>2, <1>3, <2>1, <3>1 DEF BuildAndPost, Rets
  <2>2. CASE i \notin Oversize
    <3>1. tx[i].fate = "none" /\ UNCHANGED ret
      BY <1>3, <2>2 DEF BuildAndPost, Await, SubmissionInv, AwaitsKnow
    <3>2. tx'[i].fate = "posted" /\ \A j \in Invocations \ {i} : tx'[j] = tx[j]
      BY <1>3, <2>2, SetFate DEF BuildAndPost, SubmissionInv, Fates
    <3>3. [j \in Invocations |-> Broadcasted(tx'[j].fate)]
            = [j \in Invocations |-> Broadcasted(tx[j].fate)]
      BY <3>1, <3>2 DEF Broadcasted
    <3>. QED
      BY <3>1, <3>3 DEF Report!reportVars
  <2>. QED
    BY <2>1, <2>2
<1>4. CASE RpcRaises(i) \/ Interrupt(i)
  <2>1. Report!Supports(Told("raised"), Broadcasted(tx[i].fate))
        /\ Report!Supports(Told("killed"), Broadcasted(tx[i].fate))
    BY DEF Report!Supports, Told
  <2>. QED
    BY <1>1, <1>2, <1>4, <2>1 DEF RpcRaises, Interrupt, Rets
<1>5. CASE SendAnswered(i)
  <2>1. Report!Supports(Told("accepted"), Broadcasted(tx[i].fate))
    BY <1>5 DEF SendAnswered, Report!Supports, Told, Broadcasted
  <2>. QED
    BY <1>1, <1>2, <1>5, <2>1, QuietStep DEF SendAnswered, Await, Rets
<1>6. CASE ConfirmAnswered(i)
  BY <1>6, QuietStep DEF ConfirmAnswered, Await
<1>7. CASE ConfirmRaises(i)
  <2>1. Report!Supports(Told("unconfirmed"), Broadcasted(tx[i].fate))
    BY <1>7 DEF ConfirmRaises, SubmissionInv, AwaitsKnow, Posted, Landed,
                Report!Supports, Told, Broadcasted
  <2>. QED
    BY <1>1, <1>2, <1>7, <2>1 DEF ConfirmRaises, Rets
<1>8. CASE ReadStatus(i) \/ DeltaMissed(i) \/ DeltaFound(i) \/ DeltaRaises(i)
  <2>1. Report!Supports(Told("confirmed"), Broadcasted(tx[i].fate))
    BY <1>8 DEF ReadStatus, DeltaMissed, DeltaFound, DeltaRaises, SubmissionInv, AwaitsKnow,
                Landed, Report!Landed, Report!Supports, Told, Broadcasted
  <2>2. tx[i].fate = "failed" => Report!Supports(Told("failed"), Broadcasted(tx[i].fate))
    BY DEF Report!Supports, Told, Broadcasted
  <2>3. CASE ReadStatus(i)
    BY <1>1, <1>2, <2>1, <2>2, <2>3, QuietStep DEF ReadStatus, Await, Rets
  <2>4. CASE DeltaMissed(i) \/ DeltaFound(i) \/ DeltaRaises(i)
    BY <1>1, <1>2, <2>1, <2>4, QuietStep DEF DeltaMissed, DeltaFound, DeltaRaises, Rets
  <2>. QED
    BY <1>8, <2>3, <2>4
<1>. QED
  BY <1>3, <1>4, <1>5, <1>6, <1>7, <1>8 DEF ClientStep

(* A request reaching a node is the Broadcast: no report but silence can   *)
(* precede it.                                                             *)
LEMMA ArriveRefines ==
  ASSUME SubmissionInv, NEW i \in Invocations, Arrive(i)
  PROVE  Report!Broadcast(i)
<1>1. tx'[i].fate = "flying" /\ \A j \in Invocations \ {i} : tx'[j] = tx[j]
  BY SetFate DEF Arrive, SubmissionInv, Fates
<1>2. Broadcasted(tx[i].fate) = "none" /\ Told(ret[i]) \in {"pending", "silent"}
  BY DEF Arrive, SubmissionInv, TypeOK, ReturnsKnow, Rets, Landed, Posted, Broadcasted, Told
<1>3. [j \in Invocations |-> Broadcasted(tx'[j].fate)]
        = [[j \in Invocations |-> Broadcasted(tx[j].fate)] EXCEPT ![i] = "flying"]
  BY <1>1 DEF Broadcasted
<1>4. [j \in Invocations |-> Told(ret'[j])] = [j \in Invocations |-> Told(ret[j])]
  BY DEF Arrive
<1>. QED
  BY <1>2, <1>3, <1>4 DEF Report!Broadcast

(* Landing and lapsing are the Settle.                                     *)
LEMMA SettleRefines ==
  ASSUME SubmissionInv, NEW i \in Invocations, NEW f \in Landed \cup {"expired"},
         tx[i].fate = "flying", tx'[i].fate = f,
         \A j \in Invocations \ {i} : tx'[j] = tx[j], UNCHANGED ret
  PROVE  Report!Settle(i)
<1>1. Broadcasted(tx[i].fate) = "flying" /\ Broadcasted(f) = f
  BY DEF Broadcasted, Landed
<1>2. [j \in Invocations |-> Broadcasted(tx'[j].fate)]
        = [[j \in Invocations |-> Broadcasted(tx[j].fate)] EXCEPT ![i] = f]
  BY <1>1
<1>. QED
  BY <1>1, <1>2 DEF Report!Settle, Landed, Report!Landed

(* Every step of the send path is a step of the contract or invisible.     *)
LEMMA StepRefines ==
  SubmissionInv /\ [SubmissionNext]_submissionVars
    => [Report!ReportNext]_(Report!reportVars)
<1> SUFFICES ASSUME SubmissionInv, [SubmissionNext]_submissionVars
             PROVE  Report!ReportNext \/ UNCHANGED Report!reportVars
  OBVIOUS
<1>1. CASE UNCHANGED submissionVars
  BY <1>1, QuietStep DEF submissionVars
<1>2. ASSUME NEW i \in Invocations, NEW m \in Modes, SendTx(i, m)
      PROVE  UNCHANGED Report!reportVars
  BY <1>2, QuietStep DEF SendTx, Await
<1>3. ASSUME NEW i \in Invocations, Arrive(i)
      PROVE  Report!ReportNext
  BY <1>3, ArriveRefines DEF Report!ReportNext
<1>4. ASSUME NEW i \in Invocations, Expire(i)
      PROVE  Report!ReportNext
  BY <1>4, SetFate, SettleRefines DEF Expire, Report!ReportNext, SubmissionInv, Fates
<1>5. ASSUME NEW i \in Invocations, NEW f \in Landed, NEW c, NEW g, Land(i, f, c, g)
      PROVE  Report!ReportNext
  BY <1>5, SettleRefines DEF Land, Report!ReportNext, SubmissionInv, TypeOK
<1>6. ASSUME NEW i \in Invocations, Cluster(i)
      PROVE  Report!ReportNext
  BY <1>3, <1>4, <1>5, <1>6 DEF Cluster, Landed
<1>. QED
  BY <1>1, <1>2, <1>6, ClientRefines DEF SubmissionNext

(* Every way send_tx can end tells the truth about its transaction, and    *)
(* the truth of it lasts.                                                  *)
THEOREM SubmissionImplementsTxReport == SubmissionSpec => ImplementsTxReport
<1>1. SubmissionInit => Report!ReportInit
  BY DEF SubmissionInit, NoTx, Report!ReportInit, Broadcasted, Told
<1>. QED
  BY <1>1, StepRefines, SubmissionInvariant, PTL
  DEF SubmissionSpec, ImplementsTxReport, Report!ReportSpec
=============================================================================
