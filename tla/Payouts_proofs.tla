--------------------------- MODULE Payouts_proofs ---------------------------
(***************************************************************************)
(* Proofs about the payout commands, for any number of invocations, any    *)
(* balances and any number of moves by others.                             *)
(*                                                                         *)
(* What a command read is not read again before its transaction executes.  *)
(* It still holds then because of the way the chain moves: fees only grow  *)
(* until a collection takes them, an accumulator stays until it is closed, *)
(* a curve never becomes incomplete again (Onward).  So the invariant says *)
(* of what was read how it compares with the chain of now (Seen).          *)
(***************************************************************************)
EXTENDS Payouts, Submission_proofs

Early == Reads \cup {"idle"}
Ready == {"complete", "migrated"}

NoneCollected == \A j \in Invocations : ~Collected(j)
NoneClosed == \A j \in Invocations : ~(Asked(j, "close") /\ tx[j].fate = "ok")

-----------------------------------------------------------------------------
(* The invariant.                                                          *)

(* How far the command is, its send path, and its result.                  *)
Stage(i) ==
  /\ pc[i] \in Early => call[i] = "idle"
  /\ pc[i] = "submit" => call[i] # "idle"
  /\ pc[i] = "done" <=> res[i] # "none"
  /\ res[i] \in Refusals \cup {"raised"} => call[i] = "idle"
  /\ res[i] \in {"sent", "killed"} => call[i] \in {"idle", "done"}
  /\ res[i] = "sent" => call[i] = "done"

(* Which command makes which read.                                         *)
Way(i) ==
  /\ pc[i] = "accumulator" => Asked(i, "claim")
  /\ pc[i] \in {"curve", "programs"} => Asked(i, "migrate")
  /\ pc[i] \in {"pump", "amm"} => Asked(i, "collect")
  /\ pc[i] = "mint" => Asked(i, "claim") \/ Asked(i, "collect")

(* The chain as last finalized, and of now.                                *)
Finalized ==
  /\ fin.curve \in Ready => now.curve \in Ready
  /\ NoneClosed /\ fin.accumulator => now.accumulator
  /\ NoneCollected => /\ PumpAtStart <= fin.pump /\ fin.pump <= now.pump
                      /\ AmmAtStart <= fin.amm /\ fin.amm <= now.amm

(* What i has read, and the chain of now.                                  *)
Seen(i) ==
  /\ NoneCollected => view[i].pump <= now.pump /\ view[i].amm <= now.amm
  /\ pc[i] = "programs" \/ (Asked(i, "migrate") /\ call[i] # "idle") => now.curve \in Ready
  /\ NoneClosed /\ Asked(i, "claim") /\ call[i] # "idle" => now.accumulator
  /\ NoneCollected /\ ~view[i].blind =>
       /\ pc[i] = "amm" => PumpAtStart <= view[i].pump
       /\ res[i] = "no_fees" => PumpAtStart = 0 /\ AmmAtStart = 0

(* What became of i's transaction.                                         *)
OnChain(i) ==
  /\ Collected(i) /\ (\A j \in Invocations \ {i} : ~Collected(j))
       => tx[i].got >= view[i].pump + view[i].amm
  /\ tx[i].fate = "failed" =>
       \/ Asked(i, "close") \/ Lacks(i)
       \/ Asked(i, "claim") /\ ~NoneClosed
       \/ Asked(i, "migrate") /\ now.curve = "migrated"
       \/ Asked(i, "collect") /\ ~NoneCollected

InvocationInv(i) == Stage(i) /\ Way(i) /\ Seen(i) /\ OnChain(i)

PayoutsInv ==
  /\ SubmissionInv
  /\ PayoutsTypeOK
  /\ Finalized
  /\ \A i \in Invocations : InvocationInv(i)

(* What it gives.                                                          *)
LEMMA PayoutsInvImplies ==
  PayoutsInv => RecoversWhatItReports /\ NoFeesMeansNone /\ FailsOnlyIfBeaten
<1>. SUFFICES ASSUME PayoutsInv
              PROVE  RecoversWhatItReports /\ NoFeesMeansNone /\ FailsOnlyIfBeaten
  OBVIOUS
<1>1. RecoversWhatItReports
  BY DEF PayoutsInv, InvocationInv, OnChain, RecoversWhatItReports
<1>2. ASSUME NEW i \in Invocations, res[i] = "no_fees", ~view[i].blind,
             PumpAtStart + AmmAtStart > 0
      PROVE  \E j \in Invocations \ {i} : Collected(j)
  <2>1. ~Collected(i)
    BY <1>2 DEF PayoutsInv, InvocationInv, Stage, Refusals, SubmissionInv, AwaitsKnow, Collected
  <2>2. ~NoneCollected
    BY <1>2, PayoutsAssumption DEF PayoutsInv, InvocationInv, Seen
  <2>. QED
    BY <2>1, <2>2 DEF NoneCollected
<1>3. ASSUME NEW i \in Invocations, tx[i].fate = "failed"
      PROVE  \/ Asked(i, "close") \/ Lacks(i)
             \/ Asked(i, "claim") /\ \E j \in Invocations \ {i} :
                                        Asked(j, "close") /\ tx[j].fate = "ok"
             \/ Asked(i, "migrate") /\ now.curve = "migrated"
             \/ Asked(i, "collect") /\ \E j \in Invocations \ {i} : Collected(j)
  BY <1>3 DEF PayoutsInv, InvocationInv, OnChain, NoneClosed, NoneCollected, Collected, Asked
<1>. QED
  BY <1>1, <1>2, <1>3 DEF NoFeesMeansNone, FailsOnlyIfBeaten, PayoutsInv

-----------------------------------------------------------------------------
(* Steps of the command.                                                   *)

LEMMA PayoutsInitInv == PayoutsInit => PayoutsInv
<1>. SUFFICES ASSUME PayoutsInit PROVE PayoutsInv
  OBVIOUS
<1>. USE PayoutsAssumption DEF PayoutsInit
<1>1. SubmissionInv
  BY InitInv
<1>2. PayoutsTypeOK
  BY <1>1 DEF PayoutsTypeOK, SubmissionInv, View, Chain, ChainAtStart, Results
<1>3. Finalized
  BY DEF Finalized, ChainAtStart
<1>4. ASSUME NEW i \in Invocations PROVE InvocationInv(i)
  BY DEF InvocationInv, Stage, Way, Seen, OnChain, Early, Refusals, Collected, ChainAtStart,
         SubmissionInit, NoTx
<1>. QED
  BY <1>1, <1>2, <1>3, <1>4 DEF PayoutsInv

(* A step that executes nothing answers for the invocation that takes it.  *)
LEMMA OwnStep ==
  ASSUME PayoutsInv, NEW i \in Invocations, SubmissionInv', PayoutsTypeOK', InvocationInv(i)',
         UNCHANGED <<now, fin, req>>, tx'[i].fate = "ok" <=> tx[i].fate = "ok",
         \A j \in Invocations \ {i} :
           /\ pc'[j] = pc[j] /\ view'[j] = view[j] /\ res'[j] = res[j]
           /\ call'[j] = call[j] /\ tx'[j] = tx[j]
  PROVE  PayoutsInv'
<1>1. /\ \A j \in Invocations : Collected(j)' <=> Collected(j)
      /\ NoneCollected' <=> NoneCollected
      /\ NoneClosed' <=> NoneClosed
  BY DEF Collected, Asked, NoneCollected, NoneClosed
<1>2. Finalized'
  BY <1>1 DEF PayoutsInv, Finalized
<1>3. ASSUME NEW j \in Invocations \ {i} PROVE InvocationInv(j)'
  <2>1. InvocationInv(j)
    BY DEF PayoutsInv
  <2>2. Stage(j)' /\ Way(j)' /\ Seen(j)'
    BY <1>1, <2>1 DEF InvocationInv, Stage, Way, Seen, Asked
  <2>3. OnChain(j)'
    BY <1>1, <2>1 DEF InvocationInv, OnChain, Asked, Lacks, OpensAccounts
  <2>. QED
    BY <2>2, <2>3 DEF InvocationInv
<1>. QED
  BY <1>2, <1>3 DEF PayoutsInv

(* A step of the command that leaves the send path alone.                  *)
LEMMA QuietCommand ==
  ASSUME PayoutsInv, NEW i \in Invocations, pc[i] # "done", NEW v \in View, NEW r \in Results,
         NEW p \in Early \cup {"done"},
         pc' = [pc EXCEPT ![i] = p], view' = [view EXCEPT ![i] = v],
         res' = [res EXCEPT ![i] = r],
         UNCHANGED <<now, fin, others, req, submissionVars>>,
         Stage(i)', Way(i)', Seen(i)', call[i] = "idle" \/ v = view[i]
  PROVE  PayoutsInv'
<1>1. SubmissionInv'
  BY StutterInv DEF PayoutsInv
<1>2. PayoutsTypeOK'
  BY <1>1 DEF PayoutsInv, PayoutsTypeOK, SubmissionInv, Early
<1>3. \A j \in Invocations \ {i} :
        /\ pc'[j] = pc[j] /\ view'[j] = view[j] /\ res'[j] = res[j]
        /\ call'[j] = call[j] /\ tx'[j] = tx[j]
  BY DEF PayoutsInv, PayoutsTypeOK, submissionVars
<1>4. OnChain(i)'
  <2>1. InvocationInv(i) /\ view'[i] = v /\ UNCHANGED tx
    BY DEF PayoutsInv, PayoutsTypeOK, submissionVars
  <2>2. call[i] = "idle" => tx[i].fate = "none"
    BY DEF PayoutsInv, SubmissionInv, AwaitsKnow
  <2>3. CASE call[i] = "idle"
    BY <2>1, <2>2, <2>3 DEF OnChain, Collected
  <2>4. CASE v = view[i]
    BY <2>1, <2>4
    DEF InvocationInv, OnChain, Collected, Asked, NoneClosed, NoneCollected, Lacks,
        OpensAccounts
  <2>. QED
    BY <2>3, <2>4
<1>. QED
  BY <1>1, <1>2, <1>3, <1>4, OwnStep DEF InvocationInv, submissionVars

(* The end of a command that has sent nothing, or whose send_tx has ended. *)
LEMMA FinishInv ==
  ASSUME PayoutsInv, NEW i \in Invocations, NEW r \in Results \ {"none", "killed"},
         NEW v \in View, At(i, pc[i]), Finish(i, r), view' = [view EXCEPT ![i] = v],
         IF r = "sent" THEN pc[i] = "submit" /\ call[i] = "done" /\ v = view[i]
         ELSE pc[i] \in Early,
         NoneCollected => v.pump <= now.pump /\ v.amm <= now.amm,
         NoneCollected /\ ~v.blind /\ r = "no_fees" => PumpAtStart = 0 /\ AmmAtStart = 0
  PROVE  PayoutsInv'
<1>1. InvocationInv(i) /\ i \in DOMAIN pc /\ i \in DOMAIN res /\ i \in DOMAIN view
  BY DEF PayoutsInv, PayoutsTypeOK
<1>2. /\ pc'[i] = "done" /\ res'[i] = r /\ view'[i] = v
      /\ UNCHANGED <<now, fin, others, req, submissionVars, tx, call>>
  BY <1>1 DEF At, Finish, submissionVars
<1>3. Stage(i)'
  BY <1>1, <1>2 DEF InvocationInv, Stage, Early, Reads, Refusals, Results
<1>4. Way(i)'
  BY <1>2 DEF Way
<1>5. Seen(i)'
  BY <1>1, <1>2 DEF InvocationInv, Stage, Seen, NoneCollected, NoneClosed, Collected, Asked,
                    Early, Reads
<1>6. pc[i] # "done" /\ (call[i] = "idle" \/ v = view[i])
  BY <1>1 DEF InvocationInv, Stage, Early, Reads
<1>. QED
  BY <1>2, <1>3, <1>4, <1>5, <1>6, QuietCommand DEF At, Finish

(* Going on to the next read.                                              *)
LEMMA GotoInv ==
  ASSUME PayoutsInv, NEW i \in Invocations, NEW v \in View, NEW p \in Reads,
         pc[i] \in Early, At(i, pc[i]), Goto(i, p), view' = [view EXCEPT ![i] = v],
         p = "accumulator" => Asked(i, "claim"),
         p \in {"curve", "programs"} => Asked(i, "migrate"),
         p \in {"pump", "amm"} => Asked(i, "collect"),
         p = "mint" => Asked(i, "claim") \/ Asked(i, "collect"),
         NoneCollected => v.pump <= now.pump /\ v.amm <= now.amm,
         p = "programs" => now.curve \in Ready,
         NoneCollected /\ ~v.blind /\ p = "amm" => PumpAtStart <= v.pump
  PROVE  PayoutsInv'
<1>1. InvocationInv(i) /\ i \in DOMAIN pc /\ i \in DOMAIN view
  BY DEF PayoutsInv, PayoutsTypeOK
<1>2. call[i] = "idle" /\ res[i] = "none" /\ pc[i] # "done"
  BY <1>1 DEF InvocationInv, Stage, Early, Reads
<1>3. /\ pc'[i] = p /\ view'[i] = v
      /\ UNCHANGED <<now, fin, others, req, res, submissionVars, tx, call>>
  BY <1>1 DEF At, Goto, submissionVars
<1>4. Stage(i)'
  BY <1>2, <1>3 DEF Stage, Early, Reads, Refusals
<1>5. Way(i)'
  BY <1>3 DEF Way, Asked
<1>6. Seen(i)'
  BY <1>2, <1>3 DEF Seen, NoneCollected, NoneClosed, Collected, Asked
<1>7. res' = [res EXCEPT ![i] = "none"]
  BY <1>2, <1>3 DEF PayoutsInv, PayoutsTypeOK
<1>. QED
  BY <1>2, <1>3, <1>4, <1>5, <1>6, <1>7, QuietCommand DEF At, Goto, Early, Results

(* Sending, with what the transaction needs seen.                          *)
LEMMA SendInv ==
  ASSUME PayoutsInv, NEW i \in Invocations, pc[i] \in Early, NEW v \in View,
         At(i, pc[i]), Send(i), view' = [view EXCEPT ![i] = v],
         NoneCollected => v.pump <= now.pump /\ v.amm <= now.amm,
         Asked(i, "migrate") => now.curve \in Ready,
         NoneClosed /\ Asked(i, "claim") => now.accumulator
  PROVE  PayoutsInv'
<1>1. InvocationInv(i) /\ i \in DOMAIN pc /\ i \in DOMAIN view
  BY DEF PayoutsInv, PayoutsTypeOK
<1>2. PICK m \in Modes : SendTx(i, m)
  BY DEF Send, Modes
<1>3. SubmissionInv'
  BY <1>2, SendTxInv DEF PayoutsInv
<1>4. /\ UNCHANGED <<now, fin, others, req, res, tx>>
      /\ pc' = [pc EXCEPT ![i] = "submit"]
      /\ call' = [call EXCEPT ![i] = "blockhash"]
  BY <1>2 DEF At, Send, SendTx, Await
<1>5. PayoutsTypeOK'
  BY <1>3, <1>4 DEF PayoutsInv, PayoutsTypeOK, SubmissionInv
<1>6. /\ pc'[i] = "submit" /\ view'[i] = v /\ call'[i] = "blockhash"
      /\ tx[i].fate = "none" /\ res[i] = "none"
  BY <1>1, <1>4 DEF PayoutsInv, PayoutsTypeOK, SubmissionInv, TypeOK, AwaitsKnow,
                    InvocationInv, Stage, Early, Reads
<1>7. Stage(i)' /\ Way(i)'
  BY <1>4, <1>6 DEF Stage, Way, Early, Reads, Refusals
<1>8. Seen(i)'
  BY <1>4, <1>6 DEF Seen, NoneCollected, NoneClosed, Collected, Asked
<1>9. OnChain(i)'
  BY <1>4, <1>6 DEF OnChain, Collected
<1>10. \A j \in Invocations \ {i} :
         /\ pc'[j] = pc[j] /\ view'[j] = view[j] /\ res'[j] = res[j]
         /\ call'[j] = call[j] /\ tx'[j] = tx[j]
  BY <1>4 DEF PayoutsInv, PayoutsTypeOK, SubmissionInv, TypeOK
<1>. QED
  BY <1>3, <1>4, <1>5, <1>7, <1>8, <1>9, <1>10, OwnStep DEF InvocationInv

LEMMA CommandInv ==
  ASSUME PayoutsInv, NEW i \in Invocations, Command(i) PROVE PayoutsInv'
<1>1. /\ InvocationInv(i) /\ view[i] \in View /\ fin \in Chain /\ now \in Chain
      /\ Finalized /\ req[i].cmd \in Commands
      /\ view[i].pump \in Nat /\ view[i].amm \in Nat
  BY DEF PayoutsInv, PayoutsTypeOK, Request, View
<1>2. UNCHANGED view => view' = [view EXCEPT ![i] = view[i]]
  BY DEF PayoutsInv, PayoutsTypeOK
<1>3. ASSUME NEW where, At(i, where) PROVE pc[i] = where /\ At(i, pc[i])
  BY <1>3 DEF At
<1>4. NoneCollected => view[i].pump <= now.pump /\ view[i].amm <= now.amm
  BY <1>1 DEF InvocationInv, Seen
<1>. USE DEF Early, Reads
(* Ending with what was seen so far, of anything but the vaults.           *)
<1>5. ASSUME NEW r \in Results \ {"none", "killed", "sent", "no_fees"},
             At(i, pc[i]), pc[i] \in Early, Finish(i, r), UNCHANGED view
      PROVE  PayoutsInv'
  BY <1>1, <1>2, <1>4, <1>5, FinishInv
<1>6. CASE Refuse(i)
  BY <1>3, <1>5, <1>6 DEF Refuse, Results
<1>7. CASE Start(i)
  <2>1. pc[i] = "idle" /\ At(i, pc[i]) /\ UNCHANGED view
    BY <1>3, <1>7 DEF Start
  <2>2. CASE Asked(i, "close")
    <3>1. Send(i)
      BY <1>7, <2>2 DEF Start
    <3>. QED
      BY <1>1, <1>2, <1>4, <2>1, <2>2, <3>1, SendInv DEF Asked
  <2>3. CASE Asked(i, "migrate")
    <3>1. Goto(i, "curve")
      BY <1>7, <2>3 DEF Start, Asked
    <3>. QED
      BY <1>1, <1>2, <1>4, <2>1, <2>3, <3>1, GotoInv
  <2>4. CASE Asked(i, "claim") \/ Asked(i, "collect")
    <3>1. PICK p \in {"mint", AfterMint(i)} : Goto(i, p)
      BY <1>7, <2>4 DEF Start, Asked
    <3>2. /\ p \in {"mint", "accumulator", "pump"}
          /\ p = "accumulator" => Asked(i, "claim")
          /\ p = "pump" => Asked(i, "collect")
      BY <2>4 DEF AfterMint, Asked
    <3>. QED
      BY <1>1, <1>2, <1>4, <2>1, <2>4, <3>1, <3>2, GotoInv
  <2>. QED
    BY <1>1, <2>2, <2>3, <2>4 DEF Asked, Commands
<1>8. CASE ReadMint(i)
  <2>1. pc[i] = "mint" /\ At(i, pc[i]) /\ UNCHANGED view /\ Goto(i, AfterMint(i))
    BY <1>3, <1>8 DEF ReadMint
  <2>2. /\ AfterMint(i) \in {"accumulator", "pump"}
        /\ AfterMint(i) = "accumulator" => Asked(i, "claim")
        /\ AfterMint(i) = "pump" => Asked(i, "collect")
    BY <1>1, <2>1 DEF AfterMint, InvocationInv, Way
  <2>. QED
    BY <1>1, <1>2, <1>4, <2>1, <2>2, GotoInv
<1>9. CASE ReadAccumulator(i)
  <2>1. pc[i] = "accumulator" /\ At(i, pc[i]) /\ UNCHANGED view /\ Asked(i, "claim")
    BY <1>1, <1>3, <1>9 DEF ReadAccumulator, InvocationInv, Way
  <2>2. CASE fin.accumulator
    <3>1. Send(i) /\ (NoneClosed => now.accumulator) /\ ~Asked(i, "migrate")
      BY <1>1, <1>9, <2>1, <2>2 DEF ReadAccumulator, Finalized, Asked
    <3>. QED
      BY <1>1, <1>2, <1>4, <2>1, <3>1, SendInv
  <2>3. CASE ~fin.accumulator
    <3>1. Finish(i, "no_accumulator")
      BY <1>9, <2>3 DEF ReadAccumulator
    <3>. QED
      BY <1>5, <2>1, <3>1 DEF Results
  <2>. QED
    BY <2>2, <2>3
<1>10. CASE ReadCurve(i)
  <2>1. pc[i] = "curve" /\ At(i, pc[i]) /\ UNCHANGED view /\ Asked(i, "migrate")
    BY <1>1, <1>3, <1>10 DEF ReadCurve, InvocationInv, Way
  <2>2. CASE fin.curve \in Ready
    <3>1. CurveRefusal(fin.curve) = "none"
      BY <2>2 DEF CurveRefusal, Ready
    <3>2. Goto(i, "programs") /\ now.curve \in Ready
      BY <1>1, <1>10, <2>2, <3>1 DEF ReadCurve, Finalized
    <3>. QED
      BY <1>1, <1>2, <1>4, <2>1, <3>2, GotoInv
  <2>3. CASE fin.curve \notin Ready
    <3>1. CurveRefusal(fin.curve) \in {"not_found", "not_complete"}
      BY <1>1, <2>3 DEF CurveRefusal, Ready, Chain
    <3>2. Finish(i, CurveRefusal(fin.curve))
      BY <1>10, <3>1 DEF ReadCurve
    <3>. QED
      BY <1>5, <2>1, <3>1, <3>2 DEF Results
  <2>. QED
    BY <2>2, <2>3
<1>11. CASE ReadPrograms(i)
  <2>1. /\ pc[i] = "programs" /\ At(i, pc[i]) /\ UNCHANGED view /\ Asked(i, "migrate")
        /\ Send(i) /\ now.curve \in Ready
    BY <1>1, <1>3, <1>11 DEF ReadPrograms, InvocationInv, Way, Seen
  <2>. QED
    BY <1>1, <1>2, <1>4, <2>1, SendInv DEF Asked
(* What a vault was seen to hold, it holds or will, until it is collected. *)
<1>12. CASE ReadPump(i)
  <2>1. pc[i] = "pump" /\ At(i, pc[i]) /\ Asked(i, "collect") /\ Goto(i, "amm")
    BY <1>1, <1>3, <1>12 DEF ReadPump, InvocationInv, Way
  <2>2. PICK answered \in BOOLEAN :
          view' = [view EXCEPT ![i].pump = IF answered THEN VaultBalance(fin.pump) ELSE 0,
                               ![i].blind = ~answered]
    BY <1>12 DEF ReadPump
  <2>. DEFINE seen == IF answered THEN VaultBalance(fin.pump) ELSE 0
              v == [view[i] EXCEPT !.pump = seen, !.blind = ~answered]
  <2>3. fin.pump \in Nat /\ now.pump \in Nat /\ now.amm \in Nat
    BY <1>1 DEF Chain
  <2>4. seen \in Nat /\ (answered => seen = fin.pump) /\ (~answered => seen = 0)
    BY <2>3 DEF VaultBalance
  <2>5. v \in View /\ view' = [view EXCEPT ![i] = v]
    BY <1>1, <2>2, <2>4 DEF View, PayoutsInv, PayoutsTypeOK
  <2>6. v.pump = seen /\ v.amm = view[i].amm /\ v.blind = ~answered
    BY <1>1 DEF View
  <2>7. NoneCollected => v.pump <= now.pump /\ v.amm <= now.amm
    BY <1>1, <1>4, <2>3, <2>4, <2>6 DEF Finalized
  <2>8. NoneCollected /\ ~v.blind => PumpAtStart <= v.pump
    BY <1>1, <2>4, <2>6 DEF Finalized
  <2>. HIDE DEF v
  <2>. QED
    BY <2>1, <2>5, <2>7, <2>8, GotoInv
<1>13. CASE ReadAmm(i)
  <2>1. pc[i] = "amm" /\ At(i, pc[i]) /\ Asked(i, "collect")
    BY <1>1, <1>3, <1>13 DEF ReadAmm, InvocationInv, Way
  <2>2. PICK answered \in BOOLEAN :
          LET w == [view[i] EXCEPT !.amm = IF answered THEN fin.amm ELSE 0,
                                   !.blind = @ \/ ~answered] IN
          /\ view' = [view EXCEPT ![i] = w]
          /\ IF NothingToCollect(w) THEN Finish(i, "no_fees") ELSE Send(i)
    BY <1>13 DEF ReadAmm
  <2>. DEFINE seen == IF answered THEN fin.amm ELSE 0
              v == [view[i] EXCEPT !.amm = seen, !.blind = @ \/ ~answered]
  <2>3. fin.amm \in Nat /\ now.amm \in Nat /\ now.pump \in Nat /\ seen \in Nat
    BY <1>1 DEF Chain
  <2>4. v \in View
    BY <1>1, <2>3 DEF View
  <2>5. v.amm = seen /\ v.pump = view[i].pump /\ (~v.blind => answered /\ ~view[i].blind)
    BY <1>1 DEF View
  <2>6. NoneCollected => v.pump <= now.pump /\ v.amm <= now.amm
    BY <1>1, <1>4, <2>3, <2>5 DEF Finalized
  <2>7. /\ view' = [view EXCEPT ![i] = v]
        /\ IF NothingToCollect(v) THEN Finish(i, "no_fees") ELSE Send(i)
    BY <2>2
  <2>8. NoneCollected /\ ~v.blind => PumpAtStart <= v.pump /\ AmmAtStart <= v.amm
    BY <1>1, <2>1, <2>5 DEF InvocationInv, Seen, Finalized
  <2>. HIDE DEF v
  <2>9. CASE NothingToCollect(v)
    <3>1. NoneCollected /\ ~v.blind => PumpAtStart = 0 /\ AmmAtStart = 0
      BY <2>4, <2>8, <2>9, PayoutsAssumption DEF NothingToCollect, View
    <3>. QED
      BY <2>1, <2>4, <2>6, <2>7, <2>9, <3>1, FinishInv DEF Results
  <2>10. CASE ~NothingToCollect(v)
    BY <2>1, <2>4, <2>6, <2>7, <2>10, SendInv DEF Asked
  <2>. QED
    BY <2>9, <2>10
<1>14. CASE ReadRaises(i)
  BY <1>3, <1>5, <1>14 DEF ReadRaises, Results
<1>15. CASE Conclude(i)
  <2>1. pc[i] = "submit" /\ call[i] = "done" /\ At(i, pc[i]) /\ Finish(i, "sent") /\ UNCHANGED view
    BY <1>3, <1>15 DEF Conclude
  <2>. QED
    BY <1>1, <1>2, <1>4, <2>1, FinishInv DEF Results
<1>. QED
  BY <1>6, <1>7, <1>8, <1>9, <1>10, <1>11, <1>12, <1>13, <1>14, <1>15 DEF Command

-----------------------------------------------------------------------------
(* The send path, interrupts and the cluster.                              *)

LEMMA SendingInv ==
  ASSUME PayoutsInv, NEW i \in Invocations, Sending(i) PROVE PayoutsInv'
<1>1. pc[i] = "submit" /\ ClientStep(i) /\ UNCHANGED <<now, fin, others, req, pc, view, res>>
  BY DEF Sending, payoutVars
<1>2. /\ SubmissionInv' /\ call[i] # "idle" /\ call'[i] # "idle"
      /\ tx'[i].got = tx[i].got
      /\ tx'[i].fate = tx[i].fate \/ (tx[i].fate = "none" /\ tx'[i].fate = "posted")
      /\ \A j \in Invocations \ {i} : call'[j] = call[j] /\ tx'[j] = tx[j]
  BY <1>1, ClientMoves DEF PayoutsInv
<1>3. PayoutsTypeOK'
  BY <1>1, <1>2 DEF PayoutsInv, PayoutsTypeOK, SubmissionInv
<1>4. InvocationInv(i) /\ res[i] = "none"
  BY <1>1 DEF PayoutsInv, InvocationInv, Stage
<1>5. /\ \A j \in Invocations : Collected(j)' <=> Collected(j)
      /\ NoneCollected' <=> NoneCollected
      /\ NoneClosed' <=> NoneClosed
  BY <1>1, <1>2 DEF Collected, Asked, NoneCollected, NoneClosed
<1>6. Stage(i)'
  BY <1>1, <1>2, <1>4 DEF InvocationInv, Stage, Early, Reads, Refusals
<1>7. Way(i)' /\ Seen(i)'
  BY <1>1, <1>2, <1>4, <1>5 DEF InvocationInv, Way, Seen, Asked
<1>8. OnChain(i)'
  BY <1>1, <1>2, <1>4, <1>5 DEF InvocationInv, OnChain, Asked, Lacks, OpensAccounts
<1>. QED
  BY <1>1, <1>2, <1>3, <1>6, <1>7, <1>8, OwnStep DEF InvocationInv

LEMMA KillInv ==
  ASSUME PayoutsInv, NEW i \in Invocations, Kill(i) PROVE PayoutsInv'
<1>1. /\ pc[i] \notin {"idle", "done"}
      /\ pc' = [pc EXCEPT ![i] = "done"] /\ res' = [res EXCEPT ![i] = "killed"]
      /\ UNCHANGED <<now, fin, others, req, view>>
      /\ IF pc[i] = "submit" /\ call[i] # "done" THEN Interrupt(i) ELSE UNCHANGED submissionVars
  BY DEF Kill
<1>2. InvocationInv(i)
  BY DEF PayoutsInv
<1>3. /\ SubmissionInv' /\ UNCHANGED tx /\ call'[i] \in {"idle", "done"}
      /\ call'[i] = "idle" <=> call[i] = "idle"
      /\ \A j \in Invocations \ {i} : call'[j] = call[j]
  <2>1. CASE pc[i] = "submit" /\ call[i] # "done"
    <3>1. Interrupt(i)
      BY <1>1, <2>1
    <3>. QED
      BY <3>1, ClientMoves DEF PayoutsInv
  <2>2. CASE ~(pc[i] = "submit" /\ call[i] # "done")
    <3>1. UNCHANGED submissionVars /\ SubmissionInv'
      BY <1>1, <2>2, StutterInv DEF PayoutsInv
    <3>2. call[i] \in {"idle", "done"}
      BY <1>1, <1>2, <2>2 DEF InvocationInv, Stage, Early, PayoutsInv, PayoutsTypeOK
    <3>. QED
      BY <3>1, <3>2 DEF submissionVars
  <2>. QED
    BY <2>1, <2>2
<1>4. PayoutsTypeOK'
  BY <1>1, <1>3 DEF PayoutsInv, PayoutsTypeOK, SubmissionInv, Results
<1>5. pc'[i] = "done" /\ res'[i] = "killed"
  BY <1>1 DEF PayoutsInv, PayoutsTypeOK
<1>6. Stage(i)' /\ Way(i)'
  BY <1>3, <1>5 DEF Stage, Way, Early, Reads, Refusals
<1>7. Seen(i)'
  BY <1>1, <1>2, <1>3, <1>5
  DEF InvocationInv, Seen, NoneCollected, NoneClosed, Collected, Asked
<1>8. OnChain(i)'
  BY <1>1, <1>2, <1>3
  DEF InvocationInv, OnChain, NoneCollected, NoneClosed, Collected, Asked, Lacks,
      OpensAccounts
<1>9. \A j \in Invocations \ {i} : pc'[j] = pc[j] /\ res'[j] = res[j]
  BY <1>1 DEF PayoutsInv, PayoutsTypeOK
<1>. QED
  BY <1>1, <1>3, <1>4, <1>6, <1>7, <1>8, <1>9, OwnStep DEF InvocationInv

(* Steps of the chain: what was read compares with it as before.           *)
Onward ==
  /\ now.curve \in Ready => now'.curve \in Ready
  /\ now.curve = "migrated" => now'.curve = "migrated"
  /\ NoneClosed' /\ now.accumulator => now'.accumulator
  /\ NoneCollected' => now.pump <= now'.pump /\ now.amm <= now'.amm

LEMMA ChainStep ==
  ASSUME PayoutsInv, UNCHANGED <<req, pc, view, res, call>>, SubmissionInv',
         now' \in Chain, fin' \in {fin, now}, others' \in 0 .. MaxOthers, Onward,
         \A j \in Invocations : tx[j].fate = "ok" => tx'[j].fate = "ok",
         \A j \in Invocations :
           \/ tx'[j] = tx[j]
           \/ tx'[j].fate \notin Landed
           \/ OnChain(j)'
  PROVE  PayoutsInv'
<1>1. PayoutsTypeOK'
  BY DEF PayoutsInv, PayoutsTypeOK, SubmissionInv
<1>2. /\ \A j \in Invocations : Collected(j) => Collected(j)'
      /\ NoneCollected' => NoneCollected
      /\ NoneClosed' => NoneClosed
  BY DEF Collected, Asked, NoneCollected, NoneClosed
<1>3. /\ now.pump \in Nat /\ now.amm \in Nat /\ now'.pump \in Nat /\ now'.amm \in Nat
      /\ fin.pump \in Nat /\ fin.amm \in Nat
  BY DEF PayoutsInv, PayoutsTypeOK, Chain
<1>4. Finalized'
  <2>1. Finalized
    BY DEF PayoutsInv
  <2>2. CASE fin' = fin
    BY <1>2, <1>3, <2>1, <2>2, PayoutsAssumption DEF Finalized, Onward
  <2>3. CASE fin' = now
    <3>1. NoneCollected' => PumpAtStart <= now.pump /\ AmmAtStart <= now.amm
      BY <1>2, <1>3, <2>1, PayoutsAssumption DEF Finalized
    <3>. QED
      BY <2>3, <3>1 DEF Finalized, Onward
  <2>. QED
    BY <2>2, <2>3
<1>5. ASSUME NEW i \in Invocations PROVE InvocationInv(i)'
  <2>1. InvocationInv(i) /\ view[i].pump \in Nat /\ view[i].amm \in Nat
    BY DEF PayoutsInv, PayoutsTypeOK, View
  <2>2. Stage(i)' /\ Way(i)'
    BY <2>1 DEF InvocationInv, Stage, Way, Asked
  <2>3. Seen(i)'
    <3>1. NoneCollected' => view[i].pump <= now'.pump /\ view[i].amm <= now'.amm
      BY <1>2, <1>3, <2>1 DEF InvocationInv, Seen, Onward
    <3>. QED
      BY <1>2, <2>1, <3>1 DEF InvocationInv, Seen, Onward, Asked
  <2>4. OnChain(i)'
    <3>1. CASE tx'[i] = tx[i]
      BY <1>2, <2>1, <3>1
      DEF InvocationInv, OnChain, Onward, Asked, Collected, Lacks, OpensAccounts
    <3>2. CASE tx'[i].fate \notin Landed
      BY <3>2 DEF OnChain, Collected, Landed
    <3>. QED
      BY <3>1, <3>2
  <2>. QED
    BY <2>2, <2>3, <2>4 DEF InvocationInv
<1>. QED
  BY <1>1, <1>4, <1>5 DEF PayoutsInv

(* What lands, and why it fails.                                           *)
LEMMA LandsSo ==
  ASSUME PayoutsInv, NEW i \in Invocations, NEW f \in Landed, NEW g \in Nat,
         Land(i, f, 0, g), UNCHANGED <<req, view>>
  PROVE  /\ SubmissionInv' /\ call[i] # "idle" /\ UNCHANGED <<call, ret>>
         /\ tx[i].fate = "flying" /\ tx'[i].fate = f /\ tx'[i].got = g
         /\ \A j \in Invocations \ {i} : tx'[j] = tx[j]
         /\ f = "failed" => (NoneCollected' <=> NoneCollected) /\ (NoneClosed' <=> NoneClosed)
<1>1. SubmissionInv'
  BY LandInv DEF PayoutsInv
<1>2. /\ call[i] # "idle" /\ UNCHANGED <<call, ret>>
      /\ tx[i].fate = "flying" /\ tx'[i].fate = f /\ tx'[i].got = g
      /\ \A j \in Invocations \ {i} : tx'[j] = tx[j]
  BY DEF Land, PayoutsInv, SubmissionInv, TypeOK, AwaitsKnow
<1>. QED
  BY <1>1, <1>2 DEF NoneCollected, NoneClosed, Collected, Asked

LEMMA ExecuteInv ==
  ASSUME PayoutsInv, NEW i \in Invocations, Execute(i) PROVE PayoutsInv'
<1>1. /\ Executes(i) /\ Land(i, "ok", 0, Pays(i)) /\ now' = Leaves(i)
      /\ UNCHANGED <<fin, others, req, pc, view, res>>
  BY DEF Execute
<1>2. /\ InvocationInv(i) /\ now \in Chain /\ now.pump \in Nat /\ now.amm \in Nat
      /\ view[i].pump \in Nat /\ view[i].amm \in Nat /\ req[i].cmd \in Commands
  BY DEF PayoutsInv, PayoutsTypeOK, Chain, View, Request
<1>3. Pays(i) \in Nat
  BY <1>2 DEF Pays
<1>4. /\ SubmissionInv' /\ UNCHANGED call
      /\ tx[i].fate = "flying" /\ tx'[i].fate = "ok" /\ tx'[i].got = Pays(i)
      /\ \A j \in Invocations \ {i} : tx'[j] = tx[j]
  BY <1>1, <1>3, LandsSo DEF Landed
<1>5. Asked(i, "collect") => ~NoneCollected'
  BY <1>1, <1>4 DEF NoneCollected, Collected, Asked
<1>6. Asked(i, "close") => ~NoneClosed'
  BY <1>1, <1>4 DEF NoneClosed, Asked
<1>7. now' \in Chain /\ Onward
  <2>1. CASE Asked(i, "claim")
    BY <1>1, <1>2, <2>1 DEF Leaves, Asked, Onward
  <2>2. CASE Asked(i, "close")
    <3>1. now' = [now EXCEPT !.accumulator = FALSE]
      BY <1>1, <2>2 DEF Leaves, Asked
    <3>2. now' \in Chain
      BY <1>2, <3>1 DEF Chain
    <3>3. now'.pump = now.pump /\ now'.amm = now.amm /\ now'.curve = now.curve
      BY <1>2, <3>1 DEF Chain
    <3>. QED
      BY <1>2, <1>6, <2>2, <3>2, <3>3 DEF Onward
  <2>3. CASE Asked(i, "migrate")
    <3>1. now' = [now EXCEPT !.curve = "migrated"]
      BY <1>1, <2>3 DEF Leaves, Asked
    <3>. QED
      BY <1>2, <3>1 DEF Chain, Onward, Ready
  <2>4. CASE Asked(i, "collect")
    <3>1. now' = [now EXCEPT !.pump = IF CollectsPump(view[i]) THEN 0 ELSE @,
                             !.amm = IF CollectsAmm(view[i]) THEN 0 ELSE @]
      BY <1>1, <2>4 DEF Leaves, Asked
    <3>. DEFINE p == IF CollectsPump(view[i]) THEN 0 ELSE now.pump
                a == IF CollectsAmm(view[i]) THEN 0 ELSE now.amm
    <3>2. p \in Nat /\ a \in Nat /\ now' = [now EXCEPT !.pump = p, !.amm = a]
      BY <1>2, <3>1
    <3>. HIDE DEF p, a
    <3>3. now' \in Chain /\ now'.curve = now.curve /\ now'.accumulator = now.accumulator
      BY <1>2, <3>2 DEF Chain
    <3>. QED
      BY <1>5, <2>4, <3>3 DEF Onward
  <2>. QED
    BY <1>2, <2>1, <2>2, <2>3, <2>4 DEF Asked, Commands
<1>8. OnChain(i)'
  <2>1. SUFFICES ASSUME Collected(i)', \A j \in Invocations \ {i} : ~Collected(j)'
                 PROVE  Pays(i) >= view[i].pump + view[i].amm
    BY <1>1, <1>4 DEF OnChain
  <2>2. NoneCollected
    BY <1>1, <1>4, <2>1 DEF NoneCollected, Collected, Asked
  <2>3. view[i].pump <= now.pump /\ view[i].amm <= now.amm
    BY <1>2, <2>2 DEF InvocationInv, Seen
  <2>4. Asked(i, "collect")
    BY <1>1, <2>1 DEF Collected, Asked
  <2>. DEFINE p == IF CollectsPump(view[i]) THEN now.pump ELSE 0
              a == IF CollectsAmm(view[i]) THEN now.amm ELSE 0
  <2>5. Pays(i) = p + a
    BY <2>4 DEF Pays
  <2>6. p \in Nat /\ a \in Nat /\ p >= view[i].pump /\ a >= view[i].amm
    BY <1>2, <2>3 DEF CollectsPump, CollectsAmm
  <2>. HIDE DEF p, a
  <2>. QED
    BY <1>2, <2>5, <2>6
<1>9. \A j \in Invocations : tx[j].fate = "ok" => tx'[j].fate = "ok"
  BY <1>4
<1>10. others' \in 0 .. MaxOthers /\ fin' \in {fin, now}
  BY <1>1 DEF PayoutsInv, PayoutsTypeOK
<1>. QED
  BY <1>1, <1>4, <1>7, <1>8, <1>9, <1>10, ChainStep

LEMMA FailInv ==
  ASSUME PayoutsInv, NEW i \in Invocations, FailOnChain(i) PROVE PayoutsInv'
<1>1. MayFail(i) /\ Land(i, "failed", 0, 0) /\ UNCHANGED <<now, fin, others, req, pc, view, res>>
  BY DEF FailOnChain, payoutVars
<1>2. /\ InvocationInv(i) /\ now \in Chain /\ now.pump \in Nat /\ now.amm \in Nat
      /\ view[i].pump \in Nat /\ view[i].amm \in Nat /\ req[i].cmd \in Commands
  BY DEF PayoutsInv, PayoutsTypeOK, Chain, View, Request
<1>3. /\ SubmissionInv' /\ UNCHANGED call /\ call[i] # "idle"
      /\ tx[i].fate = "flying" /\ tx'[i].fate = "failed"
      /\ \A j \in Invocations \ {i} : tx'[j] = tx[j]
      /\ NoneCollected' <=> NoneCollected
      /\ NoneClosed' <=> NoneClosed
  BY <1>1, LandsSo DEF Landed
<1>4. Onward
  BY <1>1, <1>2, <1>3 DEF Onward
<1>5. \/ Asked(i, "close") \/ Lacks(i)
      \/ Asked(i, "claim") /\ ~NoneClosed
      \/ Asked(i, "migrate") /\ now.curve = "migrated"
      \/ Asked(i, "collect") /\ ~NoneCollected
  <2>. SUFFICES ASSUME ~Lacks(i)
                PROVE  \/ Asked(i, "close")
                       \/ Asked(i, "claim") /\ ~NoneClosed
                       \/ Asked(i, "migrate") /\ now.curve = "migrated"
                       \/ Asked(i, "collect") /\ ~NoneCollected
    OBVIOUS
  <2>1. CASE Asked(i, "claim")
    BY <1>1, <1>2, <1>3, <2>1 DEF MayFail, Executes, Asked, InvocationInv, Seen
  <2>2. CASE Asked(i, "migrate")
    <3>1. now.curve # "complete"
      BY <1>1, <2>2 DEF MayFail, Executes, Asked
    <3>2. now.curve \in Ready
      BY <1>2, <1>3, <2>2 DEF InvocationInv, Seen
    <3>. QED
      BY <2>2, <3>1, <3>2 DEF Ready
  <2>3. CASE Asked(i, "collect")
    <3>1. \/ view[i].pump > 0 /\ now.pump = 0
          \/ view[i].amm > 0 /\ now.amm = 0
      BY <1>1, <2>3 DEF MayFail, Executes, Asked, CollectsPump, CollectsAmm
    <3>. QED
      BY <1>2, <2>3, <3>1 DEF InvocationInv, Seen
  <2>. QED
    BY <1>2, <2>1, <2>2, <2>3 DEF Asked, Commands
<1>6. OnChain(i)'
  BY <1>1, <1>3, <1>5 DEF OnChain, Collected, Asked, Lacks, OpensAccounts
<1>7. \A j \in Invocations : tx[j].fate = "ok" => tx'[j].fate = "ok"
  BY <1>3
<1>8. others' \in 0 .. MaxOthers /\ fin' \in {fin, now} /\ now' \in Chain
  BY <1>1 DEF PayoutsInv, PayoutsTypeOK
<1>. QED
  BY <1>1, <1>3, <1>4, <1>6, <1>7, <1>8, ChainStep

LEMMA PayoutsStepInv == PayoutsInv /\ [PayoutsNext]_vars => PayoutsInv'
<1>. SUFFICES ASSUME PayoutsInv, [PayoutsNext]_vars PROVE PayoutsInv'
  OBVIOUS
<1>1. now \in Chain /\ now.pump \in Nat /\ now.amm \in Nat /\ others \in 0 .. MaxOthers
  BY DEF PayoutsInv, PayoutsTypeOK, Chain
<1>2. UNCHANGED <<tx, req>> =>
        (NoneCollected' <=> NoneCollected) /\ (NoneClosed' <=> NoneClosed)
  BY DEF NoneCollected, NoneClosed, Collected, Asked
<1>3. CASE UNCHANGED vars \/ Finalize
  <2>1. /\ SubmissionInv' /\ UNCHANGED <<tx, now, others, req, pc, view, res, call>>
        /\ fin' \in {fin, now}
    BY <1>3, StutterInv DEF vars, submissionVars, payoutVars, Finalize, PayoutsInv
  <2>2. Onward
    BY <1>1, <1>2, <2>1 DEF Onward
  <2>. QED
    BY <1>1, <2>1, <2>2, ChainStep
<1>4. CASE Others
  <2>1. /\ SubmissionInv' /\ UNCHANGED <<tx, fin, req, pc, view, res, call>>
        /\ others' \in 0 .. MaxOthers
    BY <1>1, <1>4, StutterInv, PayoutsAssumption DEF submissionVars, Others, PayoutsInv
  <2>2. \/ now' = [now EXCEPT !.pump = @ + 1]
        \/ now' = [now EXCEPT !.amm = @ + 1]
        \/ now' = [now EXCEPT !.accumulator = TRUE]
        \/ now.curve = "live" /\ now' = [now EXCEPT !.curve = "complete"]
        \/ now.curve = "complete" /\ now' = [now EXCEPT !.curve = "migrated"]
    BY <1>4 DEF Others
  <2>3. now' \in Chain
    <3>1. ASSUME NEW n \in Nat
          PROVE  [now EXCEPT !.pump = n] \in Chain /\ [now EXCEPT !.amm = n] \in Chain
      BY <1>1, <3>1 DEF Chain
    <3>2. [now EXCEPT !.accumulator = TRUE] \in Chain
      BY <1>1 DEF Chain
    <3>3. [now EXCEPT !.curve = "complete"] \in Chain /\ [now EXCEPT !.curve = "migrated"] \in Chain
      BY <1>1 DEF Chain
    <3>4. now.pump + 1 \in Nat /\ now.amm + 1 \in Nat
      BY <1>1
    <3>. QED
      BY <2>2, <3>1, <3>2, <3>3, <3>4
  <2>4. Onward
    BY <1>1, <1>2, <2>1, <2>2 DEF Onward, Chain, Ready
  <2>. QED
    BY <2>1, <2>3, <2>4, ChainStep
<1>5. ASSUME NEW i \in Invocations, (Arrive(i) \/ Expire(i)) /\ UNCHANGED payoutVars
      PROVE  PayoutsInv'
  <2>1. SubmissionInv' /\ UNCHANGED call
    BY <1>5, ArriveInv, ExpireInv DEF Arrive, Expire, PayoutsInv
  <2>2. /\ tx[i].fate # "ok" /\ tx'[i].fate \notin Landed
        /\ \A j \in Invocations \ {i} : tx'[j] = tx[j]
    BY <1>5 DEF Arrive, Expire, PayoutsInv, SubmissionInv, TypeOK, Tx, Landed
  <2>3. (NoneCollected' <=> NoneCollected) /\ (NoneClosed' <=> NoneClosed)
    BY <1>5, <2>2 DEF payoutVars, NoneCollected, NoneClosed, Collected, Asked, Landed
  <2>4. Onward
    BY <1>1, <1>5, <2>3 DEF Onward, payoutVars
  <2>. QED
    BY <1>1, <1>5, <2>1, <2>2, <2>4, ChainStep DEF payoutVars
<1>. QED
  BY <1>3, <1>4, <1>5, CommandInv, SendingInv, KillInv, ExecuteInv, FailInv DEF PayoutsNext

LEMMA AlwaysInv == PayoutsSpec => []PayoutsInv
  BY PayoutsInitInv, PayoutsStepInv, PTL DEF PayoutsSpec

(* A collection that succeeds pays at least what it reports as recovered,  *)
(* unless another came in between, whatever accrues meanwhile.             *)
THEOREM PayoutsRecoverTheReported == PayoutsSpec => []RecoversWhatItReports
<1>1. PayoutsInv => RecoversWhatItReports
  BY PayoutsInvImplies
<1>. QED
  BY <1>1, AlwaysInv, PTL

(* No fees to collect is told only when there were none, another           *)
(* collection took them, or a read failed.                                 *)
THEOREM PayoutsNoFees == PayoutsSpec => []NoFeesMeansNone
<1>1. PayoutsInv => NoFeesMeansNone
  BY PayoutsInvImplies
<1>. QED
  BY <1>1, AlwaysInv, PTL

(* A claim, a migration or a collection fails on chain only when someone   *)
(* came before it, for any number of invocations and moves of others.      *)
THEOREM PayoutsFailOnlyIfBeaten == PayoutsSpec => []FailsOnlyIfBeaten
<1>1. PayoutsInv => FailsOnlyIfBeaten
  BY PayoutsInvImplies
<1>. QED
  BY <1>1, AlwaysInv, PTL
-----------------------------------------------------------------------------
(* The refinement: the payout commands implement the contract of TxReport. *)

(* A step that neither moves a transaction nor ends a command is           *)
(* invisible: what send_tx returned is told when the command concludes.    *)
LEMMA QuietPayouts ==
  ASSUME UNCHANGED res,
         \A j \in Invocations : res[j] = "sent" => ret'[j] = ret[j],
         \A j \in Invocations : Broadcasted(tx'[j].fate) = Broadcasted(tx[j].fate)
  PROVE  UNCHANGED PayoutReport!reportVars
<1>1. ASSUME NEW j \in Invocations
      PROVE  CommandTold(res'[j], ret'[j]) = CommandTold(res[j], ret[j])
  <2>1. CASE res[j] = "sent"
    BY <2>1
  <2>2. CASE res[j] # "sent"
    BY <2>2 DEF CommandTold, Refusals
  <2>. QED
    BY <2>1, <2>2
<1>. QED
  BY <1>1 DEF PayoutReport!reportVars

(* Ending a command with a result its transaction supports is a Tell.      *)
LEMMA FinishTells ==
  ASSUME PayoutsInv, NEW i \in Invocations, pc[i] # "done", UNCHANGED tx,
         NEW r \in Results \ {"none"}, res' = [res EXCEPT ![i] = r],
         \A j \in Invocations \ {i} : ret'[j] = ret[j],
         PayoutReport!Supports(CommandTold(r, ret'[i]), Broadcasted(tx[i].fate)),
         r = "sent" => ret'[i] \in Rets \ {"none"}
  PROVE  PayoutReport!ReportNext
<1>1. res[i] = "none" /\ i \in DOMAIN res /\ DOMAIN res = Invocations
  BY DEF PayoutsInv, PayoutsTypeOK, InvocationInv, Stage
<1>2. CommandTold(res[i], ret[i]) = "pending"
  BY <1>1 DEF CommandTold, Refusals
<1>3. CommandTold(r, ret'[i]) \in PayoutReport!Reports \ {"pending"}
  <2>1. CASE r = "sent"
    BY <2>1 DEF CommandTold, Told, Rets, PayoutReport!Reports
  <2>2. CASE r # "sent"
    BY <2>2 DEF CommandTold, Results, Refusals, PayoutReport!Reports
  <2>. QED
    BY <2>1, <2>2
<1>4. [j \in Invocations |-> CommandTold(res'[j], ret'[j])]
        = [[j \in Invocations |-> CommandTold(res[j], ret[j])]
             EXCEPT ![i] = CommandTold(r, ret'[i])]
  BY <1>1
<1>. QED
  BY <1>2, <1>3, <1>4 DEF PayoutReport!Tell, PayoutReport!ReportNext

(* The command tells once: before it sent, that nothing was, or what       *)
(* send_tx established.                                                    *)
LEMMA CommandRefines ==
  ASSUME PayoutsInv, NEW i \in Invocations, Command(i)
  PROVE  PayoutReport!ReportNext \/ UNCHANGED PayoutReport!reportVars
<1>1. InvocationInv(i) /\ SubmissionInv
  BY DEF PayoutsInv
<1>2. ASSUME UNCHANGED <<res, tx, ret>> PROVE UNCHANGED PayoutReport!reportVars
  BY <1>2, QuietPayouts
<1>3. ASSUME NEW p, Goto(i, p) PROVE UNCHANGED <<res, tx, ret>>
  BY <1>3 DEF Goto, submissionVars
<1>4. Send(i) => UNCHANGED <<res, tx, ret>>
  BY DEF Send, SendTx, Await
<1>. USE DEF Early, Reads
<1>5. ASSUME NEW r \in Refusals \cup {"raised"}, Finish(i, r), pc[i] \in Early
      PROVE  PayoutReport!ReportNext
  <2>1. Broadcasted(tx[i].fate) = "none"
    BY <1>1, <1>5 DEF InvocationInv, Stage, SubmissionInv, AwaitsKnow, Broadcasted
  <2>2. CommandTold(r, ret'[i]) \in {"nothing_sent", "silent"}
    BY DEF CommandTold, Refusals
  <2>3. PayoutReport!Supports(CommandTold(r, ret'[i]), Broadcasted(tx[i].fate))
    BY <2>1, <2>2 DEF PayoutReport!Supports
  <2>4. UNCHANGED <<tx, ret>> /\ res' = [res EXCEPT ![i] = r]
    BY <1>5 DEF Finish, submissionVars
  <2>5. r \in Results \ {"none"} /\ r # "sent" /\ pc[i] # "done"
    BY <1>5 DEF Results, Refusals
  <2>. QED
    BY <2>3, <2>4, <2>5, FinishTells
<1>6. CASE Conclude(i)
  <2>1. pc[i] = "submit" /\ call[i] = "done" /\ Finish(i, "sent")
    BY <1>6 DEF Conclude, At
  <2>2. ret[i] \in Rets \ {"none"}
    BY <1>1, <2>1 DEF SubmissionInv, TypeOK, ReturnsKnow
  <2>3. PayoutReport!Supports(Told(ret[i]), Broadcasted(tx[i].fate))
    BY <1>1, <2>2 DEF SubmissionInv, ReturnsKnow, Told, Rets, Broadcasted, Posted, Landed,
                      PayoutReport!Supports, PayoutReport!Landed
  <2>4. UNCHANGED <<tx, ret>> /\ res' = [res EXCEPT ![i] = "sent"]
    BY <2>1 DEF Finish, submissionVars
  <2>5. CommandTold("sent", ret'[i]) = Told(ret[i])
    BY <2>4 DEF CommandTold, Refusals
  <2>. QED
    BY <2>1, <2>2, <2>3, <2>4, <2>5, FinishTells DEF Results
<1>7. CASE Refuse(i) \/ ReadRaises(i) \/ ReadAccumulator(i)
  BY <1>2, <1>4, <1>5, <1>7 DEF Refuse, ReadRaises, ReadAccumulator, At, Refusals
<1>8. CASE Start(i) \/ ReadMint(i) \/ ReadPrograms(i) \/ ReadPump(i)
  BY <1>2, <1>3, <1>4, <1>8 DEF Start, ReadMint, ReadPrograms, ReadPump
<1>9. CASE ReadCurve(i)
  <2>1. pc[i] = "curve" /\ fin.curve \in {"absent", "live", "complete", "migrated"}
    BY <1>9 DEF ReadCurve, At, PayoutsInv, PayoutsTypeOK, Chain
  <2>2. CurveRefusal(fin.curve) \in {"none", "not_found", "not_complete"}
    BY <2>1 DEF CurveRefusal
  <2>. QED
    BY <1>2, <1>3, <1>5, <1>9, <2>1, <2>2 DEF ReadCurve, Refusals
<1>10. CASE ReadAmm(i)
  <2>1. pc[i] = "amm" /\ (Finish(i, "no_fees") \/ Send(i))
    BY <1>10 DEF ReadAmm, At
  <2>. QED
    BY <1>2, <1>4, <1>5, <2>1 DEF Refusals
<1>. QED
  BY <1>6, <1>7, <1>8, <1>9, <1>10 DEF Command

(* The send path posts unseen.                                             *)
LEMMA SendingRefines ==
  ASSUME PayoutsInv, NEW i \in Invocations, Sending(i)
  PROVE  UNCHANGED PayoutReport!reportVars
<1>1. pc[i] = "submit" /\ ClientStep(i) /\ UNCHANGED res /\ res[i] = "none" /\ SubmissionInv
  BY DEF Sending, payoutVars, PayoutsInv, InvocationInv, Stage
<1>2. /\ \A j \in Invocations \ {i} : ret'[j] = ret[j] /\ tx'[j] = tx[j]
      /\ Broadcasted(tx'[i].fate) = Broadcasted(tx[i].fate)
  BY <1>1, ClientMoves DEF Broadcasted
<1>. QED
  BY <1>1, <1>2, QuietPayouts

(* An interrupt ends the command without a word on its transaction.        *)
LEMMA KillRefines ==
  ASSUME PayoutsInv, NEW i \in Invocations, Kill(i) PROVE PayoutReport!ReportNext
<1>1. pc[i] # "done" /\ res' = [res EXCEPT ![i] = "killed"] /\ UNCHANGED tx
      /\ \A j \in Invocations \ {i} : ret'[j] = ret[j]
  BY DEF Kill, Interrupt, Return, submissionVars, PayoutsInv, SubmissionInv, TypeOK
<1>2. CommandTold("killed", ret'[i]) = "silent"
  BY DEF CommandTold, Refusals
<1>3. PayoutReport!Supports(CommandTold("killed", ret'[i]), Broadcasted(tx[i].fate))
  BY <1>2 DEF PayoutReport!Supports
<1>. QED
  BY <1>1, <1>3, FinishTells DEF Results

(* A request that reaches a node is the Broadcast: nobody was told that    *)
(* nothing was sent.                                                       *)
LEMMA ArriveReports ==
  ASSUME PayoutsInv, NEW i \in Invocations, Arrive(i), UNCHANGED payoutVars
  PROVE  PayoutReport!ReportNext
<1>1. UNCHANGED <<res, ret>> /\ InvocationInv(i)
  BY DEF Arrive, payoutVars, PayoutsInv
<1>2. tx[i].fate = "posted" /\ Broadcasted(tx[i].fate) = "none"
  BY DEF Arrive, Broadcasted
<1>3. tx'[i].fate = "flying" /\ \A j \in Invocations \ {i} : tx'[j] = tx[j]
  BY SetFate DEF Arrive, PayoutsInv, SubmissionInv, Fates
<1>4. CommandTold(res[i], ret[i]) \in {"pending", "silent"}
  <2>1. call[i] # "idle" /\ Told(ret[i]) \in {"pending", "silent"}
    BY <1>2 DEF PayoutsInv, SubmissionInv, TypeOK, AwaitsKnow, ReturnsKnow, Rets, Landed,
                Posted, Told
  <2>2. res[i] \in {"none", "raised", "sent", "killed"}
    BY <1>1, <2>1 DEF InvocationInv, Stage, PayoutsInv, PayoutsTypeOK, Results, Refusals
  <2>. QED
    BY <2>1, <2>2 DEF CommandTold, Refusals
<1>5. [j \in Invocations |-> Broadcasted(tx'[j].fate)]
        = [[j \in Invocations |-> Broadcasted(tx[j].fate)] EXCEPT ![i] = "flying"]
  BY <1>3 DEF Broadcasted
<1>. QED
  BY <1>1, <1>2, <1>4, <1>5 DEF PayoutReport!Broadcast, PayoutReport!ReportNext

(* Landing and lapsing are the Settle.                                     *)
LEMMA SettleReports ==
  ASSUME PayoutsInv, NEW i \in Invocations,
         Execute(i) \/ FailOnChain(i) \/ (Expire(i) /\ UNCHANGED payoutVars)
  PROVE  PayoutReport!ReportNext
<1>1. UNCHANGED <<res, ret>>
  BY DEF Execute, FailOnChain, Land, Expire, payoutVars
<1>2. PICK f \in Landed \cup {"expired"} :
        /\ tx[i].fate = "flying" /\ tx'[i].fate = f
        /\ \A j \in Invocations \ {i} : tx'[j] = tx[j]
  <2>1. ASSUME NEW f \in Landed, NEW g, Land(i, f, 0, g)
        PROVE  /\ tx[i].fate = "flying" /\ tx'[i].fate = f
               /\ \A j \in Invocations \ {i} : tx'[j] = tx[j]
    BY <2>1 DEF Land, PayoutsInv, SubmissionInv, TypeOK
  <2>2. CASE Execute(i) \/ FailOnChain(i)
    BY <2>1, <2>2 DEF Execute, FailOnChain, Landed
  <2>3. CASE Expire(i)
    BY <2>3, SetFate DEF Expire, PayoutsInv, SubmissionInv, Fates
  <2>. QED
    BY <2>2, <2>3
<1>3. Broadcasted(tx[i].fate) = "flying" /\ Broadcasted(f) = f
  BY <1>2 DEF Broadcasted, Landed
<1>4. [j \in Invocations |-> Broadcasted(tx'[j].fate)]
        = [[j \in Invocations |-> Broadcasted(tx[j].fate)] EXCEPT ![i] = f]
  BY <1>2, <1>3
<1>. QED
  BY <1>1, <1>3, <1>4
  DEF PayoutReport!Settle, PayoutReport!ReportNext, Landed, PayoutReport!Landed

LEMMA PayoutsStepRefines ==
  PayoutsInv /\ [PayoutsNext]_vars => [PayoutReport!ReportNext]_(PayoutReport!reportVars)
<1>. SUFFICES ASSUME PayoutsInv, [PayoutsNext]_vars
              PROVE  PayoutReport!ReportNext \/ UNCHANGED PayoutReport!reportVars
  OBVIOUS
<1>1. CASE UNCHANGED vars \/ Others \/ Finalize
  <2>1. UNCHANGED <<tx, res, ret>>
    BY <1>1 DEF vars, payoutVars, submissionVars, Others, Finalize
  <2>. QED
    BY <2>1, QuietPayouts
<1>. QED
  BY <1>1, CommandRefines, SendingRefines, KillRefines, ArriveReports, SettleReports
  DEF PayoutsNext

(* What a payout command reports of its transaction is true when it is     *)
(* reported and stays true, whichever await it ends or is interrupted in.  *)
THEOREM PayoutsReportTruly == PayoutsSpec => PayoutsImplementTxReport
<1>1. PayoutsInit => PayoutReport!ReportInit
  BY DEF PayoutsInit, SubmissionInit, NoTx, PayoutReport!ReportInit, Broadcasted, CommandTold,
         Refusals
<1>. QED
  BY <1>1, PayoutsStepRefines, AlwaysInv, PTL
  DEF PayoutsSpec, PayoutsImplementTxReport, PayoutReport!ReportSpec
=============================================================================
