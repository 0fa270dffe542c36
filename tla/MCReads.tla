------------------------------ MODULE MCReads -------------------------------
(* A board of six rows read in pages of three, of which five can be        *)
(* reached; a coin of each kind of curve; batches of two.  Reserves so     *)
(* small that rounding matters in every trade.                             *)
EXTENDS ReadCommands

CONSTANTS a, b, c, d, e, other, somebody

MCAmounts == {1, 3, 6}
(* None, as on the curve, and 5%.                                          *)
MCFeeRates == {0, 500}
MCSlippages == {0, 1, 15, 50, 99, 100}

(* The oldest coins, one with every field set, one with those of the       *)
(* middle.                                                                 *)
MCCoins ==
  {Zero,
   [creator |-> somebody, mayhem |-> TRUE, cashback |-> TRUE, quote |-> "USDC",
    creator_fee |-> 30, holder |-> TRUE],
   [Zero EXCEPT !.creator = somebody, !.mayhem = TRUE],
   [Zero EXCEPT !.creator = somebody, !.quote = "other", !.creator_fee = 30]}
(* Each version's length, and lengths one byte short of a field.           *)
MCLengths == {0, 49, 82, 114, 124, 125}
MCKnownQuotes == {Sol, "USDC"}

MCRows == {a, b, c, d, e, other}
MCPumpCoins == {a, b, c, d, e}
MCBoards == {<<a, b, other, c, d, e>>, <<b, a, c>>, <<a>>, <<>>}
MCCurveOf == a :> "live" @@ b :> "none" @@ c :> "complete" @@ d :> "unreadable" @@ e :> "live"
               @@ other :> "none"
MCQuoteOf == a :> "token" @@ c :> "nomint" @@ e :> "token" @@ [r \in {b, d, other} |-> Sol]

(* The list comprehensions of the model are those of the code: of a page   *)
(* with repetitions, the rows of pump coins, and the rows appended to what *)
(* an earlier page left, each unless it is there already.                  *)
AppendNew(rows, row) ==
  IF IsPump(row) /\ ~Contains(rows, row) THEN Append(rows, row) ELSE rows
Pages == UNION {[1 .. n -> {a, b, c, other}] : n \in 0 .. 4}
ASSUME ComprehensionsAgree ==
  \A page \in Pages :
    /\ PumpRows(page) = SelectSeq(page, IsPump)
    /\ \A rows \in {<<>>, <<a>>, <<c, b>>} : Collect(rows, page) = FoldLeft(AppendNew, rows, page)
=============================================================================
