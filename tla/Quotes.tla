------------------------------- MODULE Quotes -------------------------------
(***************************************************************************)
(* The arithmetic of a trade: what protocol/curve.py, core/trade.py and    *)
(* core/pumpswap.py compute from reserves, amounts, fees and a slippage    *)
(* percentage.  Amounts are raw integer units.  Python's floor divisions   *)
(* are exact; the two floats among them are discussed where they occur.    *)
(***************************************************************************)
EXTENDS Integers

Bps == 10000
AtLeastOne(n) == IF n < 1 THEN 1 ELSE n

-----------------------------------------------------------------------------
(* Quotes.                                                                 *)

(* (Mutants: the reserve is not grown by the amount; rounded up.)          *)
BuyTokensOutFlat(base, quote, amount) == (amount * base) \div quote
BuyTokensOutRoundedUp(base, quote, amount) == (amount * base) \div (quote + amount) + 1

(* Constant product, fees not taken (calculate_buy_tokens_out).            *)
BuyTokensOut(base, quote, amount) == (amount * base) \div (quote + amount)

(* (Mutant: rounded up.)                                                   *)
SellQuoteOutRoundedUp(base, quote, tokens) == (tokens * quote) \div (base + tokens) + 1

(* calculate_sell_quote_out                                                *)
SellQuoteOut(base, quote, tokens) == (tokens * quote) \div (base + tokens)

(* What is left of an amount after a fee of feeBps.                        *)
AfterFee(amount, feeBps) == (amount * (Bps - feeBps)) \div Bps

(* PumpSwap takes its fee from a buy's input and from a sell's output.     *)
AmmBuyOut(base, quote, amount, feeBps) ==
  BuyTokensOut(base, quote, AfterFee(amount, feeBps))

AmmSellOut(base, quote, tokens, feeBps) ==
  AfterFee(SellQuoteOut(base, quote, tokens), feeBps)

-----------------------------------------------------------------------------
(* Floors.  The program rejects a zero floor, so 100% slippage still asks  *)
(* for one unit.                                                           *)

(* (Mutants: the percentage of slippage asked for, instead of what it      *)
(* leaves; the zero floor let through.)                                    *)
FloorOfSlippage(out, slippage) == AtLeastOne((out * slippage) \div 100)
FloorUnclamped(out, slippage) == (out * (100 - slippage)) \div 100

(* PumpSwap's, and an opening buy's: integers throughout.                  *)
Floor(out, slippage) == AtLeastOne((out * (100 - slippage)) \div 100)

(* A buy's on the curve truncates a float quotient, which can have been    *)
(* rounded up to the next unit.  A double below 2^50, and the whole supply *)
(* is below that, is off by at most a sixteenth (FloatBuyFloor): the       *)
(* remainder must be at least 94 of 100.                                   *)
CurveBuyFloors(out, slippage) ==
  LET product == out * (100 - slippage)
      lifted == IF product % 100 >= 94 THEN {product \div 100 + 1} ELSE {}
  IN  {AtLeastOne(n) : n \in {product \div 100} \cup lifted}

(* (Mutant: the short product is let below one.)                           *)
CurveSellFloorsUnclamped(out, slippage) ==
  LET exact == (out * (100 - slippage)) \div 100
  IN  {exact, exact - 1}

(* A sell's on the curve multiplies by the float 1 - slippage/100, which   *)
(* can fall just short of an exact result and lose a unit.                 *)
CurveSellFloors(out, slippage) ==
  LET exact == (out * (100 - slippage)) \div 100
      short == IF (out * (100 - slippage)) % 100 = 0 THEN {exact - 1} ELSE {}
  IN  {AtLeastOne(n) : n \in {exact} \cup short}

-----------------------------------------------------------------------------
(* The SOL a buy is required to have.                                      *)

CurveRequired(spend, fee, ataRent, rentExempt) == spend + fee + ataRent + rentExempt

(* A SOL buy on PumpSwap wraps a buffer of 10% on top of the amount.       *)
WsolFunding(amount) == (amount * 110) \div 100

AmmRequired(funding, fee, ataRent, rentExempt) ==
  funding + fee + 2 * ataRent + rentExempt
=============================================================================
