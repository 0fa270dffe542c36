------------------------------- MODULE MCTrade ------------------------------
(* Small instances of the trade commands: reserves of tens, one coin, one  *)
(* wallet, one or two invocations.                                         *)
EXTENDS Trade

CONSTANTS i1, i2

Buying(amount, slip, confirm, dry, amm) ==
  [side |-> "buy", all |-> FALSE, amount |-> amount, slip |-> slip,
   confirm |-> confirm, dry |-> dry, amm |-> amm]
Selling(all, amount, slip, confirm, dry, amm) ==
  [side |-> "sell", all |-> all, amount |-> amount, slip |-> slip,
   confirm |-> confirm, dry |-> dry, amm |-> amm]

MCPair == {i1, i2}
MCOne == {i1}
MCCodes == {6002, 6004, 6005}
MCCurve == [st |-> "live", base |-> 60, quote |-> 30]
MCPool == [st |-> "open", base |-> 40, quote |-> 40]
MCWallet == [sol |-> 40, usd |-> 12, tok |-> 8]

(* A confirmed buy and a forced one, against a sale of everything.         *)
PairRequests ==
  {Buying(10, 50, TRUE, FALSE, FALSE), Selling(TRUE, 0, 20, TRUE, FALSE, FALSE)}

(* Every kind of request, for one invocation.  At 7% the curve's buy floor *)
(* is one that the float can lift by a unit.                               *)
OneRequests ==
  {Buying(10, s, c, d, a) : s \in {0, 7}, c, d, a \in BOOLEAN}
  \cup {Buying(30, 20, TRUE, FALSE, FALSE)}
  \cup {Selling(all, n, 20, c, d, a) : all \in BOOLEAN, n \in {0, 5}, c, d, a \in BOOLEAN}
  \cup {Selling(FALSE, 5, 100, TRUE, FALSE, FALSE), Selling(FALSE, 9, 0, TRUE, FALSE, FALSE)}
=============================================================================
