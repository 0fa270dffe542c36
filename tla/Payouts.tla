------------------------------ MODULE Payouts -------------------------------
(***************************************************************************)
(* The payout commands of core/trade.py: claim_cashback,                   *)
(* close_volume_accumulator, migrate_token, collect_creator_fees.  Each    *)
(* reads what there is to pay out, refuses or sends one transaction        *)
(* (Submission), and reports what it has read.                             *)
(*                                                                         *)
(* Several invocations act for one wallet and one coin, in one quote asset *)
(* (each has its own vaults).  Reads see the last finalized state (fin),   *)
(* transactions execute on the current one.                                *)
(* External: the programs; fees accruing; the curve completing; the        *)
(* wallet's trades, which open its volume accumulator; others migrating.   *)
(***************************************************************************)
EXTENDS Submission

CONSTANTS
  Asks,                 \* what the users of the invocations can ask for together
  PumpAtStart, AmmAtStart,  \* creator fees in the two vaults, above the rent kept
  CurveAtStart, AccumulatorAtStart,
  MaxOthers             \* moves of others (bound)

Commands == {"claim", "close", "migrate", "collect"}
(* sol: in the quote asset SOL, which needs no read of its mint; funded:   *)
(* the wallet has SOL for the accounts that the transaction may open, or   *)
(* has those accounts, which nothing checks.                               *)
Request == [cmd : Commands, sol : BOOLEAN, funded : BOOLEAN, confirm : BOOLEAN]
Chain == [accumulator : BOOLEAN, curve : {"absent", "live", "complete", "migrated"},
          pump : Nat, amm : Nat]

ASSUME PayoutsAssumption ==
  /\ Asks \subseteq [Invocations -> Request]
  /\ \A ask \in Asks : \A i, j \in Invocations : ask[i].sol = ask[j].sol
  /\ PumpAtStart \in Nat /\ AmmAtStart \in Nat /\ MaxOthers \in Nat
  /\ CurveAtStart \in {"absent", "live", "complete", "migrated"}
  /\ AccumulatorAtStart \in BOOLEAN

VARIABLES
  now, fin,             \* the chain: current, and as last finalized
  others,               \* moves of others so far
  req,                  \* req[i]: what i was asked
  pc,                   \* pc[i]: the read i awaits, or "submit"
  view,                 \* view[i]: the vaults' balances as i read them
  res                   \* res[i]: the result of the command

payoutVars == <<now, fin, others, req, pc, view, res>>
vars == <<submissionVars, payoutVars>>

Reads == {"mint", "accumulator", "curve", "programs", "pump", "amm"}
Results == {"none", "refused", "raised", "no_accumulator", "not_found", "not_complete",
            "no_fees", "sent", "killed"}
(* blind: a read that failed was taken for a zero (history).               *)
View == [pump : Nat, amm : Nat, blind : BOOLEAN]

PayoutsTypeOK ==
  /\ TypeOK
  /\ now \in Chain /\ fin \in Chain
  /\ others \in 0 .. MaxOthers
  /\ req \in [Invocations -> Request]
  /\ pc \in [Invocations -> Reads \cup {"idle", "submit", "done"}]
  /\ view \in [Invocations -> View]
  /\ res \in [Invocations -> Results]

ChainAtStart == [accumulator |-> AccumulatorAtStart, curve |-> CurveAtStart,
                 pump |-> PumpAtStart, amm |-> AmmAtStart]

PayoutsInit ==
  /\ SubmissionInit
  /\ now = ChainAtStart /\ fin = ChainAtStart
  /\ others = 0
  /\ req \in Asks
  /\ pc = [i \in Invocations |-> "idle"]
  /\ view = [i \in Invocations |-> [pump |-> 0, amm |-> 0, blind |-> FALSE]]
  /\ res = [i \in Invocations |-> "none"]

-----------------------------------------------------------------------------
(* The commands.                                                           *)

Goto(i, where) ==
  /\ pc' = [pc EXCEPT ![i] = where]
  /\ UNCHANGED <<res, submissionVars>>

Finish(i, result) ==
  /\ pc' = [pc EXCEPT ![i] = "done"]
  /\ res' = [res EXCEPT ![i] = result]
  /\ UNCHANGED submissionVars

Send(i) ==
  /\ pc' = [pc EXCEPT ![i] = "submit"]
  /\ SendTx(i, IF req[i].confirm THEN "confirm" ELSE "send")
  /\ UNCHANGED res

Asked(i, cmd) == req[i].cmd = cmd
At(i, where) == pc[i] = where /\ UNCHANGED <<now, fin, others, req>>

(* A bad mint, no RPC endpoint, no keystore or a wrong password.           *)
Refuse(i) == At(i, "idle") /\ Finish(i, "refused") /\ UNCHANGED view

AfterMint(i) == IF Asked(i, "claim") THEN "accumulator" ELSE "pump"

(* Claim and collect resolve the quote asset; close reads nothing.         *)
Start(i) ==
  /\ At(i, "idle")
  /\ IF Asked(i, "close") THEN Send(i)
     ELSE IF Asked(i, "migrate") THEN Goto(i, "curve")
     ELSE Goto(i, IF req[i].sol THEN AfterMint(i) ELSE "mint")
  /\ UNCHANGED view

ReadMint(i) == At(i, "mint") /\ Goto(i, AfterMint(i)) /\ UNCHANGED view

ReadAccumulator(i) ==
  /\ At(i, "accumulator")
  /\ IF fin.accumulator THEN Send(i) ELSE Finish(i, "no_accumulator")
  /\ UNCHANGED view

(* (Mutant: the curve's completion is left for the program to check.)      *)
CurveRefusalNone(curve) == IF curve = "absent" THEN "not_found" ELSE "none"

(* A migrated curve is still there, and complete.                          *)
CurveRefusal(curve) ==
  CASE curve = "absent" -> "not_found"
    [] curve = "live" -> "not_complete"
    [] curve \in {"complete", "migrated"} -> "none"

ReadCurve(i) ==
  /\ At(i, "curve")
  /\ IF CurveRefusal(fin.curve) = "none" THEN Goto(i, "programs")
     ELSE Finish(i, CurveRefusal(fin.curve))
  /\ UNCHANGED view

(* Global, the quote mint and the coin's token program.                    *)
ReadPrograms(i) == At(i, "programs") /\ Send(i) /\ UNCHANGED view

(* (Mutant: the rent kept is taken off unchecked, and once too often.)     *)
VaultBalanceLessRent(vault) == vault - 1

(* The lamports above the rent-exempt minimum, or nothing.                 *)
VaultBalance(vault) == IF vault > 0 THEN vault ELSE 0

(* The pump.fun vault: of SOL it holds lamports, and a failed read raises; *)
(* of another asset it is a token account, and a failed read is a zero.    *)
ReadPump(i) ==
  /\ At(i, "pump")
  /\ \E answered \in BOOLEAN :
       /\ req[i].sol => answered
       /\ view' = [view EXCEPT ![i].pump = IF answered THEN VaultBalance(fin.pump) ELSE 0,
                               ![i].blind = ~answered]
  /\ Goto(i, "amm")

(* (Mutants: one empty vault is enough to refuse; the vault of PumpSwap is *)
(* collected only when that of pump.fun is empty.)                         *)
NothingInEither(v) == v.pump <= 0 \/ v.amm <= 0
CollectsAmmInstead(v) == v.pump <= 0 /\ v.amm > 0

NothingToCollect(v) == v.pump <= 0 /\ v.amm <= 0
CollectsPump(v) == v.pump > 0
CollectsAmm(v) == v.amm > 0

(* The PumpSwap vault is a token account; then the transaction collects    *)
(* from each vault that was seen to hold something.                        *)
ReadAmm(i) ==
  /\ At(i, "amm")
  /\ \E answered \in BOOLEAN :
       LET v == [view[i] EXCEPT !.amm = IF answered THEN fin.amm ELSE 0,
                                !.blind = @ \/ ~answered] IN
       /\ view' = [view EXCEPT ![i] = v]
       /\ IF NothingToCollect(v) THEN Finish(i, "no_fees") ELSE Send(i)

(* Any other failed read raises, and the process ends.                     *)
ReadRaises(i) ==
  /\ At(i, pc[i])
  /\ pc[i] = "pump" => req[i].sol
  /\ pc[i] \in Reads \ {"amm"}
  /\ Finish(i, "raised")
  /\ UNCHANGED view

Conclude(i) == At(i, "submit") /\ call[i] = "done" /\ Finish(i, "sent") /\ UNCHANGED view

Command(i) ==
  \/ Refuse(i) \/ Start(i) \/ ReadMint(i) \/ ReadAccumulator(i) \/ ReadCurve(i)
  \/ ReadPrograms(i) \/ ReadPump(i) \/ ReadAmm(i) \/ ReadRaises(i) \/ Conclude(i)

Sending(i) == pc[i] = "submit" /\ ClientStep(i) /\ UNCHANGED payoutVars

Kill(i) ==
  /\ pc[i] \notin {"idle", "done"}
  /\ IF pc[i] = "submit" /\ call[i] # "done" THEN Interrupt(i) ELSE UNCHANGED submissionVars
  /\ pc' = [pc EXCEPT ![i] = "done"] /\ res' = [res EXCEPT ![i] = "killed"]
  /\ UNCHANGED <<now, fin, others, req, view>>

-----------------------------------------------------------------------------
(* The programs and the others (external).                                 *)

(* A claim or a collection opens the wallet's token account for the quote  *)
(* asset, but for SOL taken from the pump.fun vault; a migration opens the *)
(* accounts of the pool.                                                   *)
OpensAccounts(i) ==
  \/ Asked(i, "migrate")
  \/ Asked(i, "claim") /\ ~req[i].sol
  \/ Asked(i, "collect") /\ (CollectsAmm(view[i]) \/ ~req[i].sol)

Lacks(i) == OpensAccounts(i) /\ ~req[i].funded

(* What a transaction needs, what it pays, and what it leaves behind; a    *)
(* collection from a vault found empty may go through or not.              *)
Executes(i) ==
  CASE Asked(i, "claim") -> now.accumulator
    [] Asked(i, "close") -> now.accumulator
    [] Asked(i, "migrate") -> now.curve = "complete"
    [] Asked(i, "collect") -> TRUE

MayFail(i) ==
  \/ Lacks(i)
  \/ /\ Asked(i, "collect")
     /\ \/ CollectsPump(view[i]) /\ now.pump = 0
        \/ CollectsAmm(view[i]) /\ now.amm = 0
  \/ ~Executes(i)

Pays(i) ==
  IF Asked(i, "collect")
    THEN (IF CollectsPump(view[i]) THEN now.pump ELSE 0)
         + (IF CollectsAmm(view[i]) THEN now.amm ELSE 0)
    ELSE 0

Leaves(i) ==
  CASE Asked(i, "claim") -> now
    [] Asked(i, "close") -> [now EXCEPT !.accumulator = FALSE]
    [] Asked(i, "migrate") -> [now EXCEPT !.curve = "migrated"]
    [] Asked(i, "collect") ->
         [now EXCEPT !.pump = IF CollectsPump(view[i]) THEN 0 ELSE @,
                     !.amm = IF CollectsAmm(view[i]) THEN 0 ELSE @]

Execute(i) ==
  /\ Executes(i) /\ ~Lacks(i) /\ Land(i, "ok", 0, Pays(i))
  /\ now' = Leaves(i)
  /\ UNCHANGED <<fin, others, req, pc, view, res>>

FailOnChain(i) == MayFail(i) /\ Land(i, "failed", 0, 0) /\ UNCHANGED payoutVars

Others ==
  /\ others < MaxOthers /\ others' = others + 1
  /\ \/ now' = [now EXCEPT !.pump = @ + 1]
     \/ now' = [now EXCEPT !.amm = @ + 1]
     \/ now' = [now EXCEPT !.accumulator = TRUE]
     \/ now.curve = "live" /\ now' = [now EXCEPT !.curve = "complete"]
     \/ now.curve = "complete" /\ now' = [now EXCEPT !.curve = "migrated"]
  /\ UNCHANGED <<fin, req, pc, view, res, submissionVars>>

Finalize ==
  /\ fin' = now
  /\ UNCHANGED <<now, others, req, pc, view, res, submissionVars>>

PayoutsNext ==
  \/ \E i \in Invocations :
       \/ Command(i) \/ Sending(i) \/ Kill(i) \/ Execute(i) \/ FailOnChain(i)
       \/ (Arrive(i) \/ Expire(i)) /\ UNCHANGED payoutVars
  \/ Others \/ Finalize

PayoutsSpec == PayoutsInit /\ [][PayoutsNext]_vars
-----------------------------------------------------------------------------
Refusals == {"refused", "no_accumulator", "not_found", "not_complete", "no_fees"}

(* (Mutant: an unconfirmed transaction is reported as a failed one.)       *)
CommandToldFailure(result, kind) ==
  CASE result = "none" -> "pending"
    [] result \in {"killed", "raised"} -> "silent"
    [] result = "sent" -> IF kind = "unconfirmed" THEN "failed" ELSE Told(kind)
    [] result \in Refusals -> "nothing_sent"

(* What the user learns from how the command, and its send_tx, ended.      *)
CommandTold(result, kind) ==
  CASE result = "none" -> "pending"
    [] result \in {"killed", "raised"} -> "silent"
    [] result = "sent" -> Told(kind)
    [] result \in Refusals -> "nothing_sent"

PayoutReport == INSTANCE TxReport WITH
  fate <- [i \in Invocations |-> Broadcasted(tx[i].fate)],
  told <- [i \in Invocations |-> CommandTold(res[i], ret[i])]

(* PROPERTY. Every payout command reports its transaction as TxReport      *)
(* demands.                                                                *)
PayoutsImplementTxReport == PayoutReport!ReportSpec

Collected(i) == Asked(i, "collect") /\ tx[i].fate = "ok"

(* PROPERTY. A collection that succeeds pays at least what it reports as   *)
(* recovered, the balances it read before sending, unless another          *)
(* collection came in between: fees landing in between are swept too       *)
(* (comment at the result of collect_creator_fees).                        *)
RecoversWhatItReports ==
  \A i \in Invocations :
    Collected(i) /\ (\A j \in Invocations \ {i} : ~Collected(j))
      => tx[i].got >= view[i].pump + view[i].amm

(* PROPERTY. No fees to collect is told only when there were none, or      *)
(* another collection took them, or a read failed.                         *)
NoFeesMeansNone ==
  /\ PayoutsTypeOK
  /\ \A i \in Invocations :
       res[i] = "no_fees" /\ ~view[i].blind /\ PumpAtStart + AmmAtStart > 0
         => \E j \in Invocations \ {i} : Collected(j)

(* PROPERTY. A claim, a migration or a collection fails on chain only when *)
(* someone came before it, or the wallet cannot pay for the accounts that  *)
(* it opens: the checks made before the send leave no other reason.        *)
FailsOnlyIfBeaten ==
  \A i \in Invocations : tx[i].fate = "failed" =>
    \/ Asked(i, "close") \/ Lacks(i)
    \/ Asked(i, "claim") /\ \E j \in Invocations \ {i} : Asked(j, "close") /\ tx[j].fate = "ok"
    \/ Asked(i, "migrate") /\ now.curve = "migrated"
    \/ Asked(i, "collect") /\ \E j \in Invocations \ {i} : Collected(j)

=============================================================================
