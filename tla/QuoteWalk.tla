------------------------------ MODULE QuoteWalk -----------------------------
(***************************************************************************)
(* One trader against a pool (or, with no fee, a bonding curve) that pays  *)
(* exactly what the client quotes.  The quotes are right when they follow  *)
(* the constant product: whatever the sequence of trades, the rounding is  *)
(* never in the trader's favour, and it costs him less than a unit.        *)
(***************************************************************************)
EXTENDS Quotes

CONSTANTS
  Base0, Quote0,        \* opening reserves
  FeeRates,             \* the total fees a trade may be charged, in basis points
  Amounts,              \* what a trade can put in
  Slippages,            \* percentages
  MaxPaid               \* bound on what the trader puts in

ASSUME QuoteWalkAssumption ==
  /\ Base0 \in Nat \ {0} /\ Quote0 \in Nat \ {0}
  /\ FeeRates \subseteq 0 .. Bps
  /\ Amounts \subseteq Nat \ {0}
  /\ Slippages \subseteq 0 .. 100
  /\ MaxPaid \in Nat

VARIABLES
  base, quote,          \* reserves
  tokens,               \* tokens the trader has taken out
  paid,                 \* quote the trader has put in, less what he got back
  fees                  \* quote withheld

walkVars == <<base, quote, tokens, paid, fees>>

WalkInit ==
  /\ base = Base0 /\ quote = Quote0
  /\ tokens = 0 /\ paid = 0 /\ fees = 0

Buy(amount, feeBps) ==
  LET net == AfterFee(amount, feeBps)
      out == AmmBuyOut(base, quote, amount, feeBps)
  IN  /\ base' = base - out
      /\ quote' = quote + net
      /\ tokens' = tokens + out
      /\ paid' = paid + amount
      /\ fees' = fees + (amount - net)

Sell(amount, feeBps) ==
  LET gross == SellQuoteOut(base, quote, amount)
      net == AmmSellOut(base, quote, amount, feeBps)
  IN  /\ amount <= tokens
      /\ base' = base + amount
      /\ quote' = quote - gross
      /\ tokens' = tokens - amount
      /\ paid' = paid - net
      /\ fees' = fees + (gross - net)

(* The bound: the walk stops buying once paid reaches MaxPaid.             *)
WalkNext ==
  \E amount \in Amounts, feeBps \in FeeRates :
    \/ paid + amount <= MaxPaid /\ Buy(amount, feeBps)
    \/ Sell(amount, feeBps)

WalkSpec == WalkInit /\ [][WalkNext]_walkVars

-----------------------------------------------------------------------------
(* PROPERTY. No sequence of trades at the client's quotes makes money: the *)
(* trader has never taken back more than he put in.                        *)
NoFreeLunch == paid >= 0 /\ tokens >= 0

(* PROPERTY. At any reserves a quote is the reference answer: the most     *)
(* that can be paid out without lowering the product of the reserves.      *)
QuotesAreTight ==
  \A a \in Amounts :
    LET t == BuyTokensOut(base, quote, a)
        q == SellQuoteOut(base, quote, a)
    IN  /\ (base - t) * (quote + a) >= base * quote
        /\ (base - t - 1) * (quote + a) < base * quote
        /\ (base + a) * (quote - q) >= base * quote
        /\ (base + a) * (quote - q - 1) < base * quote

(* PROPERTY. A floor is positive, is at most the quote unless the quote is *)
(* zero, and gives away no more than the slippage (and, on a curve sell,   *)
(* one raw unit), whichever way the floats on the curve were rounded.      *)
FloorsBracketQuotes ==
  \A a \in Amounts, s \in Slippages :
    LET out == BuyTokensOut(base, quote, a)
        gross == SellQuoteOut(base, quote, a)
    IN  /\ Floor(out, s) \in 1 .. AtLeastOne(out)
        /\ Floor(out, s) * 100 > out * (100 - s) - 100
        /\ \A f \in CurveBuyFloors(out, s) :
             /\ f \in 1 .. AtLeastOne(out)
             /\ f * 100 > out * (100 - s) - 100
             /\ f <= Floor(out, s) + 1
        /\ \A f \in CurveSellFloors(gross, s) :
             /\ f \in 1 .. AtLeastOne(gross)
             /\ f * 100 >= gross * (100 - s) - 100
=============================================================================
