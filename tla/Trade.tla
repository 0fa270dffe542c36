------------------------------- MODULE Trade --------------------------------
(***************************************************************************)
(* The buy and sell commands: commands/trade.py routes an invocation to    *)
(* the bonding curve (core/trade.py: buy_token, sell_token) or to PumpSwap *)
(* (core/pumpswap.py: buy_pumpswap, sell_pumpswap); each reads the chain   *)
(* through several awaits, prices the trade, refuses or goes to send_tx    *)
(* (Submission) and reports.                                               *)
(*                                                                         *)
(* Several invocations share one wallet and one coin.  Reads are answered  *)
(* at the client's default commitment, from the last finalized state       *)
(* (fin); transactions execute on the current one (now), which other       *)
(* traders move, which may complete the curve, and later open the pool.    *)
(***************************************************************************)
EXTENDS Submission, Quotes, FiniteSetsExt

CONSTANTS
  Requests,             \* what a user can ask for
  SolPaired,            \* is the coin's quote asset SOL?
  Virtual,              \* the pool's virtual quote reserves
  CurveFeeBps, AmmFeeBps,   \* the venues' fees
  FeeLamports, AtaRent, RentExempt,  \* priority fee; rent constants
  CurveAtStart, PoolAtMigration, WalletAtStart,
  OtherAmount, MaxOthers    \* what other traders put in, and how often (bound)

Sides == {"buy", "sell"}
Venues == {"curve", "amm"}
Market == [st : {"absent", "legacy", "live", "complete", "open"}, base : Nat, quote : Nat]
Wallet == [sol : Nat, usd : Nat, tok : Nat]
Chain == [curve : Market, amm : Market, wallet : Wallet]
Request == [side : Sides, all : BOOLEAN, amount : Nat, slip : 0 .. 100,
            confirm : BOOLEAN, dry : BOOLEAN, amm : BOOLEAN]

ASSUME TradeAssumption ==
  /\ Requests \subseteq Request
  /\ \A r \in Requests : r.side = "buy" => r.amount > 0 /\ ~r.all
  /\ SolPaired \in BOOLEAN
  /\ Virtual \in Nat
  /\ CurveFeeBps \in 0 .. Bps /\ AmmFeeBps \in 0 .. Bps
  /\ FeeLamports \in Nat /\ AtaRent \in Nat /\ RentExempt \in Nat
  /\ CurveAtStart \in Market /\ PoolAtMigration \in Market /\ WalletAtStart \in Wallet
  /\ CurveAtStart.st # "complete" /\ PoolAtMigration.st = "open"
  /\ \A m \in {CurveAtStart, PoolAtMigration} : m.base > 0 /\ m.quote > 0
  /\ OtherAmount \in Nat \ {0} /\ MaxOthers \in Nat
  /\ {6002, 6004, 6005} \subseteq Codes

VARIABLES
  now, fin,             \* the chain: current, and as last finalized
  others,               \* trades of others so far
  req,                  \* req[i]: what i was asked
  pc,                   \* pc[i]: the read i awaits, or "submit"
  view,                 \* view[i]: what i has read and worked out
  res                   \* res[i]: the result of the command

tradeVars == <<now, fin, others, req, pc, view, res>>
vars == <<submissionVars, tradeVars>>

Reads == {"curve", "pool", "tokens", "base", "vault", "sol", "usd"}
Refusals == {"refused", "not_found", "legacy_curve", "no_pool", "no_liquidity",
             "insufficient_balance", "no_tokens"}
Results == Refusals \cup {"none", "dry_run", "raised", "too_large", "accepted",
             "unconfirmed", "slippage", "tx_error", "confirmed", "killed"}

(* blind: a read whose failure the client turns into a zero did fail       *)
(* (history).  quoted, floor: the estimate, and the least accepted.        *)
NoView == [venue |-> "curve", base |-> 0, quote |-> 0, sol |-> 0, amount |-> 0,
           quoted |-> 0, floor |-> 0, blind |-> FALSE]
View == [venue : Venues, base : Nat, quote : Nat, sol : Nat, amount : Nat,
         quoted : Nat, floor : Nat, blind : BOOLEAN]
NoRequest == [side |-> "buy", all |-> FALSE, amount |-> 0, slip |-> 0,
              confirm |-> FALSE, dry |-> FALSE, amm |-> FALSE]

TradeTypeOK ==
  /\ TypeOK
  /\ now \in Chain /\ fin \in Chain
  /\ others \in 0 .. MaxOthers
  /\ req \in [Invocations -> Requests \cup {NoRequest}]
  /\ pc \in [Invocations -> Reads \cup {"idle", "submit", "done"}]
  /\ view \in [Invocations -> View]
  /\ res \in [Invocations -> Results]

ChainAtStart == [curve |-> CurveAtStart, wallet |-> WalletAtStart,
                 amm |-> [PoolAtMigration EXCEPT !.st = "absent"]]

TradeInit ==
  /\ SubmissionInit
  /\ now = ChainAtStart /\ fin = ChainAtStart
  /\ others = 0
  /\ req = [i \in Invocations |-> NoRequest]
  /\ pc = [i \in Invocations |-> "idle"]
  /\ view = [i \in Invocations |-> NoView]
  /\ res = [i \in Invocations |-> "none"]

-----------------------------------------------------------------------------
(* The command.                                                            *)

Goto(i, where) ==
  /\ pc' = [pc EXCEPT ![i] = where]
  /\ UNCHANGED <<res, submissionVars>>

Finish(i, result) ==
  /\ pc' = [pc EXCEPT ![i] = "done"]
  /\ res' = [res EXCEPT ![i] = result]
  /\ UNCHANGED submissionVars

See(i, v) == view' = [view EXCEPT ![i] = v]

(* Only --force-amm skips the curve.                                       *)
Start(i) ==
  /\ pc[i] = "idle"
  /\ \E r \in Requests :
       /\ req' = [req EXCEPT ![i] = r]
       /\ Goto(i, IF r.amm THEN "pool" ELSE "curve")
  /\ UNCHANGED <<now, fin, others, view>>

(* A bad mint, amount or slippage, no RPC endpoint, no keystore or a wrong *)
(* password: refused before anything is read.                              *)
Refuse(i) ==
  /\ pc[i] = "idle"
  /\ Finish(i, "refused")
  /\ UNCHANGED <<now, fin, others, req, view>>

(* A read that is not swallowed raises, and the process ends.              *)
ReadRaises(i) ==
  /\ pc[i] \in Reads \ {"vault", "usd"}
  /\ Finish(i, "raised")
  /\ UNCHANGED <<now, fin, others, req, view>>

(* An allowed trade goes to send_tx; a dry run ends with its quote.  A     *)
(* confirmed buy reads its receipt back.                                   *)
Dispatch(i, v) ==
  /\ See(i, v)
  /\ IF req[i].dry
       THEN Finish(i, "dry_run")
       ELSE /\ pc' = [pc EXCEPT ![i] = "submit"]
            /\ SendTx(i, IF ~req[i].confirm THEN "send"
                         ELSE IF req[i].side = "buy" THEN "receipt" ELSE "confirm")
            /\ UNCHANGED res

(* Sells quote from the reserves once the amount is known.                 *)
PriceSell(i, v) ==
  LET onCurve == v.venue = "curve"
      quoted == IF onCurve THEN SellQuoteOut(v.base, v.quote, v.amount)
                ELSE AmmSellOut(v.base, v.quote, v.amount, AmmFeeBps)
      floors == IF onCurve THEN CurveSellFloors(quoted, req[i].slip)
                ELSE {Floor(quoted, req[i].slip)}
  IN  \E floor \in floors :
        Dispatch(i, [v EXCEPT !.quoted = quoted, !.floor = floor])

(* Buys quote before the balance checks; a dry run only warns.             *)
PriceBuy(i, v, short) ==
  LET amount == req[i].amount
      quoted == IF v.venue = "curve" THEN BuyTokensOut(v.base, v.quote, amount)
                ELSE AmmBuyOut(v.base, v.quote, amount, AmmFeeBps)
      floors == IF v.venue = "curve" THEN CurveBuyFloors(quoted, req[i].slip)
                ELSE {Floor(quoted, req[i].slip)}
  IN  \E floor \in floors :
        LET priced == [v EXCEPT !.amount = amount, !.quoted = quoted, !.floor = floor]
        IN  IF short /\ ~req[i].dry
              THEN See(i, priced) /\ Finish(i, "insufficient_balance")
              ELSE Dispatch(i, priced)

(* _read_curve; "graduated" sends the command on to PumpSwap.              *)
ReadCurve(i) ==
  /\ pc[i] = "curve"
  /\ LET c == fin.curve
     IN  CASE c.st = "absent" -> Finish(i, "not_found") /\ UNCHANGED view
           [] c.st = "complete" -> Goto(i, "pool") /\ UNCHANGED view
           [] c.st = "legacy" -> Finish(i, "legacy_curve") /\ UNCHANGED view
           [] OTHER -> /\ See(i, [view[i] EXCEPT !.base = c.base, !.quote = c.quote])
                       /\ Goto(i, IF req[i].side = "buy" THEN "sol" ELSE "tokens")
  /\ UNCHANGED <<now, fin, others, req>>

(* _load_pool: the pool of the curve's quote asset, of SOL without curve.  *)
LoadPool(i) ==
  /\ pc[i] = "pool"
  /\ IF fin.amm.st = "open" /\ (fin.curve.st # "absent" \/ SolPaired)
       THEN /\ See(i, [view[i] EXCEPT !.venue = "amm"])
            /\ Goto(i, IF req[i].side = "buy" THEN "base" ELSE "tokens")
       ELSE Finish(i, "no_pool") /\ UNCHANGED view
  /\ UNCHANGED <<now, fin, others, req>>

(* What a read of a token account gives: any exception reads as zero.      *)
Answer(answered, balance) == IF answered THEN balance ELSE 0

(* The wallet's tokens, for a sell: all of them, or at least the amount.   *)
ReadTokens(i) ==
  /\ pc[i] = "tokens"
  /\ \E answered \in BOOLEAN :
       LET held == Answer(answered, fin.wallet.tok)
           amount == IF req[i].all THEN held ELSE req[i].amount
           v == [view[i] EXCEPT !.amount = amount, !.blind = @ \/ ~answered]
       IN  \/ /\ held < amount
              /\ See(i, v) /\ Finish(i, "insufficient_balance")
           \/ /\ held >= amount /\ amount = 0
              /\ See(i, v) /\ Finish(i, "no_tokens")
           \/ /\ held >= amount /\ amount > 0
              /\ IF v.venue = "curve" THEN PriceSell(i, v) ELSE See(i, v) /\ Goto(i, "base")
  /\ UNCHANGED <<now, fin, others, req>>

(* get_pool_balances reads the two vaults one after the other.             *)
ReadBase(i) ==
  /\ pc[i] = "base"
  /\ \E answered \in BOOLEAN :
       See(i, [view[i] EXCEPT !.base = Answer(answered, fin.amm.base),
                              !.blind = @ \/ ~answered])
  /\ Goto(i, "vault")
  /\ UNCHANGED <<now, fin, others, req>>

(* (Mutant: the quote side is not checked.)                                *)
ReadVaultUnchecked(i) ==
  /\ pc[i] = "vault"
  /\ \E answered \in BOOLEAN :
       LET v == [view[i] EXCEPT !.quote = Answer(answered, fin.amm.quote) + Virtual,
                                !.blind = @ \/ ~answered]
       IN  IF v.base <= 0 THEN See(i, v) /\ Finish(i, "no_liquidity")
           ELSE IF req[i].side = "sell" THEN PriceSell(i, v)
           ELSE See(i, v) /\ Goto(i, "sol")
  /\ UNCHANGED <<now, fin, others, req>>

ReadVault(i) ==
  /\ pc[i] = "vault"
  /\ \E answered \in BOOLEAN :
       LET depth == Answer(answered, fin.amm.quote) + Virtual
           v == [view[i] EXCEPT !.quote = depth, !.blind = @ \/ ~answered]
       IN  \/ /\ v.base <= 0 \/ depth <= 0
              /\ See(i, v) /\ Finish(i, "no_liquidity")
           \/ /\ v.base > 0 /\ depth > 0
              /\ IF req[i].side = "sell" THEN PriceSell(i, v) ELSE See(i, v) /\ Goto(i, "sol")
  /\ UNCHANGED <<now, fin, others, req>>

(* The SOL a buy needs for itself, its fees and the accounts it opens.     *)
Required(i) ==
  LET spend == IF SolPaired THEN req[i].amount ELSE 0
  IN  IF view[i].venue = "curve"
        THEN CurveRequired(spend, FeeLamports, AtaRent, RentExempt)
        ELSE AmmRequired(WsolFunding(spend), FeeLamports, AtaRent, RentExempt)

(* A coin not paired with SOL is paid from a token account, which the      *)
(* curve path reads in any case and PumpSwap's only if SOL suffices.       *)
ReadSol(i) ==
  /\ pc[i] = "sol"
  /\ LET v == [view[i] EXCEPT !.sol = fin.wallet.sol]
         short == v.sol < Required(i)
     IN  IF SolPaired \/ (short /\ v.venue = "amm")
           THEN PriceBuy(i, v, short)
           ELSE See(i, v) /\ Goto(i, "usd")
  /\ UNCHANGED <<now, fin, others, req>>

(* (Mutant: a failed read is taken for "unknown", and not checked.)        *)
ReadUsdUnknown(i) ==
  /\ pc[i] = "usd"
  /\ \E answered \in BOOLEAN :
       PriceBuy(i, [view[i] EXCEPT !.blind = @ \/ ~answered],
                \/ view[i].sol < Required(i)
                \/ answered /\ fin.wallet.usd < req[i].amount)
  /\ UNCHANGED <<now, fin, others, req>>

ReadUsd(i) ==
  /\ pc[i] = "usd"
  /\ \E answered \in BOOLEAN :
       PriceBuy(i, [view[i] EXCEPT !.blind = @ \/ ~answered],
                \/ view[i].sol < Required(i)
                \/ Answer(answered, fin.wallet.usd) < req[i].amount)
  /\ UNCHANGED <<now, fin, others, req>>

(* The codes each venue's program uses for a missed floor.                 *)
SlippageCodes(venue) == IF venue = "curve" THEN {6002, 6003, 6042} ELSE {6004, 6040}

(* (Mutants: every RuntimeError is taken for an on-chain failure; a trade  *)
(* that failed on the curve is tried again on PumpSwap; the estimate is    *)
(* given as the receipt.)                                                  *)
ConcludeAnyError(i) ==
  /\ pc[i] = "submit" /\ call[i] = "done"
  /\ Finish(i, IF ret[i] \in {"failed", "unconfirmed"} THEN "tx_error" ELSE ret[i])
  /\ UNCHANGED <<now, fin, others, req, view>>

ConcludeReroutes(i) ==
  /\ pc[i] = "submit" /\ call[i] = "done"
  /\ IF ret[i] = "failed" /\ view[i].venue = "curve"
       THEN /\ pc' = [pc EXCEPT ![i] = "pool"]
            /\ call' = [call EXCEPT ![i] = "idle"]
            /\ ret' = [ret EXCEPT ![i] = "none"]
            /\ UNCHANGED <<tx, mode, receipt, tries, posts, res>>
       ELSE Finish(i, IF ret[i] = "failed" THEN "tx_error" ELSE ret[i])
  /\ UNCHANGED <<now, fin, others, req, view>>

ConcludeWithEstimate(i) ==
  /\ pc[i] = "submit" /\ call[i] = "done"
  /\ pc' = [pc EXCEPT ![i] = "done"]
  /\ res' = [res EXCEPT ![i] = ret[i]]
  /\ receipt' = [receipt EXCEPT ![i] = IF ret[i] = "confirmed" THEN view[i].quoted ELSE @]
  /\ UNCHANGED <<tx, call, mode, ret, tries, posts>>
  /\ UNCHANGED <<now, fin, others, req, view>>

(* send_tx has returned or raised: _handle_tx_error and _tx_result.        *)
Conclude(i) ==
  /\ pc[i] = "submit" /\ call[i] = "done"
  /\ Finish(i, IF ret[i] # "failed" THEN ret[i]
               ELSE IF tx[i].code \in SlippageCodes(view[i].venue) THEN "slippage"
               ELSE "tx_error")
  /\ UNCHANGED <<now, fin, others, req, view>>

Command(i) ==
  \/ ReadRaises(i) \/ ReadCurve(i) \/ LoadPool(i) \/ ReadTokens(i)
  \/ ReadBase(i) \/ ReadVault(i) \/ ReadSol(i) \/ ReadUsd(i) \/ Conclude(i)
-----------------------------------------------------------------------------
(* The chain (external): the programs execute a trade on the current       *)
(* reserves, take their fee, and fail it below its floor.                  *)

Depth(venue) == now[venue].quote + (IF venue = "amm" THEN Virtual ELSE 0)
Fee(venue) == IF venue = "curve" THEN CurveFeeBps ELSE AmmFeeBps
Tradable(venue) == now[venue].st \in {"live", "open"}

Outcome(i) ==
  LET v == view[i]  m == now[v.venue]
  IN  IF req[i].side = "buy"
        THEN AmmBuyOut(m.base, Depth(v.venue), v.amount, Fee(v.venue))
        ELSE AmmSellOut(m.base, Depth(v.venue), v.amount, Fee(v.venue))

Payable(i) ==
  LET v == view[i]  w == now.wallet
  IN  IF req[i].side = "sell"
        THEN v.amount <= w.tok /\ Outcome(i) <= now[v.venue].quote
        ELSE v.amount <= (IF SolPaired THEN w.sol ELSE w.usd)

(* The chain after i's trade: the quote asset is SOL or the token.         *)
Traded(i) ==
  LET v == view[i]  out == Outcome(i)  asset == IF SolPaired THEN "sol" ELSE "usd"
      sold == req[i].side = "sell"
  IN  IF sold
        THEN [now EXCEPT ![v.venue].base = @ + v.amount, ![v.venue].quote = @ - out,
                         !.wallet.tok = @ - v.amount, !.wallet[asset] = @ + out]
        ELSE [now EXCEPT ![v.venue].base = @ - out, ![v.venue].quote = @ + v.amount,
                         !.wallet.tok = @ + out, !.wallet[asset] = @ - v.amount]

Execute(i) ==
  /\ Tradable(view[i].venue) /\ Payable(i)
  /\ Outcome(i) >= view[i].floor
  /\ Land(i, "ok", 0, Outcome(i))
  /\ now' = Traded(i)
  /\ UNCHANGED <<fin, others, req, pc, view, res>>

MissFloor(i) ==
  /\ Tradable(view[i].venue) /\ Outcome(i) < view[i].floor
  /\ Land(i, "failed", IF view[i].venue = "curve" THEN 6002 ELSE 6004, 0)
  /\ UNCHANGED tradeVars

(* Any other failure: the curve has completed, the wallet cannot pay, the  *)
(* compute budget ran out.                                                 *)
FailOtherwise(i) ==
  /\ Land(i, "failed", 6005, 0)
  /\ UNCHANGED tradeVars

OnCluster(i) ==
  \/ Execute(i) \/ MissFloor(i) \/ FailOtherwise(i)
  \/ (Arrive(i) \/ Expire(i)) /\ UNCHANGED tradeVars

(* Another trader buys or sells, within MaxOthers.                         *)
OtherTrade(venue) ==
  /\ others < MaxOthers /\ Tradable(venue)
  /\ others' = others + 1
  /\ LET m == now[venue]
         out == BuyTokensOut(m.base, Depth(venue), OtherAmount)
     IN  \/ now' = [now EXCEPT ![venue].base = @ - out, ![venue].quote = @ + OtherAmount]
         \/ /\ m.quote > OtherAmount
            /\ now' = [now EXCEPT ![venue].base = @ + out, ![venue].quote = @ - OtherAmount]
  /\ UNCHANGED <<fin, req, pc, view, res, submissionVars>>

(* The last tokens of the curve are bought; later the pool is opened.      *)
Complete ==
  /\ now.curve.st = "live"
  /\ now' = [now EXCEPT !.curve.st = "complete"]
  /\ UNCHANGED <<fin, others, req, pc, view, res, submissionVars>>

Migrate ==
  /\ now.curve.st = "complete" /\ now.amm.st = "absent"
  /\ now' = [now EXCEPT !.amm = PoolAtMigration]
  /\ UNCHANGED <<fin, others, req, pc, view, res, submissionVars>>

Finalize ==
  /\ fin # now /\ fin' = now
  /\ UNCHANGED <<now, others, req, pc, view, res, submissionVars>>

Environment ==
  \/ Complete \/ Migrate \/ Finalize
  \/ \E venue \in Venues : OtherTrade(venue)

-----------------------------------------------------------------------------
(* The steps of send_tx, and an interrupt of it, under the command.        *)
Sending(i) == ClientStep(i) /\ UNCHANGED tradeVars

TradeNext ==
  \/ \E i \in Invocations :
       \/ Start(i) \/ Refuse(i) \/ Command(i) \/ Sending(i) \/ OnCluster(i)
       \/ Interrupt(i) /\ UNCHANGED tradeVars
  \/ Environment

(* Every await of the process ends, by an answer or by its timeout.        *)
TradeSpec ==
  /\ TradeInit /\ [][TradeNext]_vars
  /\ \A i \in Invocations : WF_vars(Command(i)) /\ WF_vars(Sending(i))

-----------------------------------------------------------------------------
(* What the user learns from the result of the command.                    *)
ToldBy(result) ==
  CASE result = "none" -> "pending"
    [] result \in Refusals \cup {"dry_run", "too_large"} -> "nothing_sent"
    [] result \in {"accepted", "unconfirmed"} -> "accepted"
    [] result = "confirmed" -> "landed"
    [] result \in {"slippage", "tx_error"} -> "failed"
    [] result \in {"raised", "killed"} -> "silent"

CommandReport == INSTANCE TxReport WITH
  fate <- [i \in Invocations |-> Broadcasted(tx[i].fate)],
  told <- [i \in Invocations |-> ToldBy(res[i])]

(* PROPERTY. The commands implement the contract of TxReport: across the   *)
(* routing, the refusals, the dry run and the handling of errors, what an  *)
(* invocation reports of its trade is true and stays true; in particular   *)
(* a refusal, a dry run or a "slippage" never leaves a trade behind.       *)
TradeImplementsTxReport == CommandReport!ReportSpec

(* PROPERTY. A trade goes out on PumpSwap only when it was forced there or *)
(* the curve has completed, on the curve only when it was not forced, and  *)
(* an invocation sends one trade even when the curve completes under it.   *)
RoutedByTheCurve ==
  \A i \in Invocations :
    tx[i].fate # "none" =>
      /\ posts[i] = 1
      /\ view[i].venue = "amm" => req[i].amm \/ now.curve.st = "complete"
      /\ view[i].venue = "curve" => ~req[i].amm

(* PROPERTY. A trade that succeeded paid out at least what --slippage      *)
(* leaves of the estimate, less a raw unit for rounding, however many      *)
(* traders came between the reads and the execution.                       *)
ToleranceHonoured ==
  \A i \in Invocations :
    tx[i].fate = "ok" =>
      /\ tx[i].got * 100 >= view[i].quoted * (100 - req[i].slip) - 100
      /\ tx[i].got >= 1

(* PROPERTY. A trade is never sent on the strength of a read that failed   *)
(* and that the client took for a zero (get_token_account_balance): zeros  *)
(* of the wallet or the reserves end in a refusal or a dry run.  It holds  *)
(* of pools without virtual reserves.                                      *)
FailedReadNeverSends ==
  \A i \in Invocations : tx[i].fate # "none" => ~view[i].blind

(* What an invocation's exact fields say it moved into the wallet.         *)
RawField(i) ==
  IF res[i] # "confirmed" THEN 0
  ELSE IF req[i].side = "buy" THEN receipt[i] ELSE -view[i].amount

(* PROPERTY. The exact fields add up (README: "Use the _raw field for      *)
(* anything that has to add up"): when every trade that took place was     *)
(* reported confirmed, with its receipt if it is a buy, and nothing else   *)
(* was, tokens_received_raw and tokens_sold_raw of all the invocations     *)
(* account for the wallet's tokens, however the invocations interleaved.   *)
RawFieldsAddUp ==
  (\A i \in Invocations :
     /\ pc[i] = "done" /\ tx[i].fate \notin {"posted", "flying"}
     /\ tx[i].fate = "ok" <=> res[i] = "confirmed"
     /\ res[i] = "confirmed" /\ req[i].side = "buy" => receipt[i] # NoReceipt)
  => now.wallet.tok = WalletAtStart.tok + MapThenSumSet(RawField, Invocations)

(* PROPERTY. A command that started ends, whatever others trade and        *)
(* whatever becomes of its transaction.                                    *)
CommandEnds ==
  \A i \in Invocations : pc[i] \in {"curve", "pool"} ~> pc[i] = "done"
=============================================================================
