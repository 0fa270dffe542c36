------------------------- MODULE ReadCommands_proofs ------------------------
(***************************************************************************)
(* Proofs about the commands that only read, and about the trading that    *)
(* goes on under them, for all opening reserves, fees, amounts and         *)
(* percentages, any coins and any lengths of their accounts, and any       *)
(* boards.                                                                 *)
(*                                                                         *)
(* A quote never lowers the product of the reserves.  So along any         *)
(* sequence of trades the trader never takes back more than he put in: his *)
(* tokens came out of the base reserve, so the quote reserve is at least   *)
(* its opening value, and what it has gained is what he has paid.  And so  *)
(* pumpfun info, which reads the two sides of a pool one after the other,  *)
(* shows a price between those of the two moments.                         *)
(*                                                                         *)
(* A listing takes the rows of a board at some of its places.  Such a list *)
(* is known by rank: the k-th row taken is at the place below which k - 1  *)
(* places were taken, so two of them are equal when their places are, and  *)
(* what two overlapping pages return is what one long page would have.  A  *)
(* coin that did not climb two places between the pages is on one of them. *)
(*                                                                         *)
(* tx-status asks about a transaction that its send path may still be      *)
(* waiting for: what an answer said stays true because a transaction that  *)
(* has landed never changes again.                                         *)
(***************************************************************************)
EXTENDS ReadCommands, FollowUp, Quotes_proofs, Submission_proofs, FiniteSetTheorems

-----------------------------------------------------------------------------
(* Walks of trades.                                                        *)

(* The trader's tokens came out of the base reserve, what he has paid is   *)
(* in the quote reserve or withheld, and the product has not fallen.       *)
WalkInv ==
  /\ base \in Nat \ {0} /\ quote \in Nat \ {0}
  /\ tokens \in Nat /\ fees \in Nat /\ paid \in Int
  /\ base + tokens = Base0
  /\ quote + fees = Quote0 + paid
  /\ base * quote >= Base0 * Quote0

(* A buy at the client's quote keeps the invariant.                        *)
LEMMA BuyKeeps ==
  ASSUME WalkInv, NEW a \in Nat, NEW f \in 0 .. Bps, Buy(a, f)
  PROVE  WalkInv' /\ base' * quote' >= base * quote
<1> DEFINE net == AfterFee(a, f)
           out == BuyTokensOut(base, quote, net)
<1>1. net \in 0 .. a /\ net \in Nat
  BY FeeBounds
<1>. HIDE DEF net
<1>2. out \in Nat /\ out < base /\ (base - out) * (quote + net) >= base * quote
  BY <1>1, BuyTight DEF WalkInv
<1>3. /\ base' = base - out /\ quote' = quote + net /\ tokens' = tokens + out
      /\ paid' = paid + a /\ fees' = fees + (a - net)
  BY DEF Buy, AmmBuyOut, net
<1> HIDE DEF out
<1>4. base' * quote' >= Base0 * Quote0 /\ base' * quote' >= base * quote
  <2>1. base' * quote' \in Int /\ base * quote \in Int /\ Base0 * Quote0 \in Int
    BY <1>1, <1>2, <1>3, QuoteWalkAssumption DEF WalkInv
  <2>2. base' * quote' >= base * quote
    BY <1>2, <1>3
  <2>. QED
    BY <2>1, <2>2 DEF WalkInv
<1>. QED
  BY <1>1, <1>2, <1>3, <1>4, QuoteWalkAssumption DEF WalkInv

(* So does a sell.                                                         *)
LEMMA SellKeeps ==
  ASSUME WalkInv, NEW a \in Nat, NEW f \in 0 .. Bps, Sell(a, f)
  PROVE  WalkInv' /\ base' * quote' >= base * quote
<1> DEFINE gross == SellQuoteOut(base, quote, a)
           net == AfterFee(gross, f)
<1>1. gross \in Nat /\ gross < quote /\ (base + a) * (quote - gross) >= base * quote
  BY SellTight DEF WalkInv
<1>2. net \in 0 .. gross
  BY <1>1, FeeBounds
<1>3. /\ a <= tokens
      /\ base' = base + a /\ quote' = quote - gross /\ tokens' = tokens - a
      /\ paid' = paid - net /\ fees' = fees + (gross - net)
  BY DEF Sell, AmmSellOut
<1> HIDE DEF net, gross
<1>4. base' * quote' >= Base0 * Quote0 /\ base' * quote' >= base * quote
  <2>1. base' * quote' \in Int /\ base * quote \in Int /\ Base0 * Quote0 \in Int
    BY <1>1, <1>2, <1>3, QuoteWalkAssumption DEF WalkInv
  <2>2. base' * quote' >= base * quote
    BY <1>1, <1>3
  <2>. QED
    BY <2>1, <2>2 DEF WalkInv
<1>. QED
  BY <1>1, <1>2, <1>3, <1>4, QuoteWalkAssumption DEF WalkInv

(* With no more base than at the start, the quote reserve cannot be below  *)
(* its start, so neither is what was paid into it.                         *)
LEMMA WalkInvMeansNoFreeLunch == WalkInv => NoFreeLunch
<1> SUFFICES ASSUME WalkInv PROVE paid >= 0
  BY DEF NoFreeLunch, WalkInv
<1>1. base <= Base0
  BY QuoteWalkAssumption DEF WalkInv
<1>2. quote >= Quote0
  <2>1. SUFFICES ASSUME quote <= Quote0 - 1 PROVE FALSE
    BY QuoteWalkAssumption DEF WalkInv
  <2>2. base * quote <= Base0 * (Quote0 - 1)
    BY <1>1, <2>1, QuoteWalkAssumption DEF WalkInv
  <2>3. Base0 * (Quote0 - 1) < Base0 * Quote0
    BY QuoteWalkAssumption
  <2>. QED
    BY <2>2, <2>3, QuoteWalkAssumption DEF WalkInv
<1>. QED
  BY <1>2, QuoteWalkAssumption DEF WalkInv

(* The invariant holds along every walk, and no step of it lowers the      *)
(* product of the reserves.                                                *)
LEMMA WalkStep ==
  ASSUME WalkInv, [WalkNext]_walkVars
  PROVE  WalkInv' /\ base' * quote' >= base * quote
<1>1. CASE UNCHANGED walkVars
  BY <1>1 DEF walkVars, WalkInv
<1>2. CASE WalkNext
  BY <1>2, BuyKeeps, SellKeeps, QuoteWalkAssumption DEF WalkNext
<1>. QED
  BY <1>1, <1>2

LEMMA WalkInitInv == WalkInit => WalkInv
  BY QuoteWalkAssumption DEF WalkInit, WalkInv

LEMMA WalkInvariant == WalkSpec => []WalkInv
  BY WalkInitInv, WalkStep, PTL DEF WalkSpec

(* For all opening reserves, fees and amounts, no sequence of trades at    *)
(* the client's quotes returns more than was put in.                       *)
THEOREM WalkNoFreeLunch == WalkSpec => []NoFreeLunch
<1>. QED
  BY WalkInvariant, WalkInvMeansNoFreeLunch, PTL

(* At every point of every walk the client's quote is the reference one.   *)
THEOREM WalkQuotesAreTight == WalkSpec => []QuotesAreTight
<1>1. WalkInv => QuotesAreTight
  BY BuyTight, SellTight, QuoteWalkAssumption DEF WalkInv, QuotesAreTight
<1>. QED
  BY <1>1, WalkInvariant, PTL

(* For all reserves reached by trading, all amounts and all percentages,   *)
(* every floor is positive, at most the quote, and within the slippage.    *)
THEOREM WalkFloorsBracketQuotes == WalkSpec => []FloorsBracketQuotes
<1>1. WalkInv => FloorsBracketQuotes
  <2> SUFFICES ASSUME WalkInv, NEW a \in Amounts, NEW s \in Slippages
               PROVE  LET out == BuyTokensOut(base, quote, a)
                          gross == SellQuoteOut(base, quote, a)
                      IN  /\ Floor(out, s) \in 1 .. AtLeastOne(out)
                          /\ Floor(out, s) * 100 > out * (100 - s) - 100
                          /\ \A f \in CurveBuyFloors(out, s) :
                               /\ f \in 1 .. AtLeastOne(out)
                               /\ f * 100 > out * (100 - s) - 100
                               /\ f <= Floor(out, s) + 1
                          /\ \A f \in CurveSellFloors(gross, s) :
                               /\ f \in 1 .. AtLeastOne(gross)
                               /\ f * 100 >= gross * (100 - s) - 100
    BY DEF FloorsBracketQuotes
  <2>1. BuyTokensOut(base, quote, a) \in Nat /\ SellQuoteOut(base, quote, a) \in Nat
    BY BuyTight, SellTight, QuoteWalkAssumption DEF WalkInv
  <2>2. s \in 0 .. 100
    BY QuoteWalkAssumption
  <2>. QED
    BY <2>1, <2>2, FloorBounds, CurveBuyFloorBounds
<1>. QED
  BY <1>1, WalkInvariant, PTL

-----------------------------------------------------------------------------
(* pumpfun info.                                                           *)

(* Reading changes nothing of the trading under it: what is proved of      *)
(* WalkSpec holds while any of the commands runs.                          *)
THEOREM ReadingKeepsTheWalk == ReadSpec => WalkSpec
<1>1. ReadInit => WalkInit
  BY DEF ReadInit
<1>2. [ReadNext]_readVars => [WalkNext]_walkVars
  BY DEF ReadNext, Step, World, InfoStep, InfoWorld, Complete, Migrate, ExtendAccount,
         PoolTraded, readVars
<1>. QED
  BY <1>1, <1>2, PTL DEF ReadSpec, WalkSpec

(* So the three properties of trades hold of what goes on under it.        *)
THEOREM WalkWhileRead == ReadSpec => [](NoFreeLunch /\ QuotesAreTight /\ FloorsBracketQuotes)
<1>. QED
  BY ReadingKeepsTheWalk, WalkNoFreeLunch, WalkQuotesAreTight, WalkFloorsBracketQuotes, PTL

(* However short an account, what is read of it and shown is the coin.     *)
LEMMA ShownIsTheCoin ==
  ASSUME NEW c \in Coins, NEW n \in Nat, Fits(c, n)
  PROVE  Shown(Parse(c, n)) = c /\ Parse(c, n).quote = c.quote
<1>1. Optional = {"creator", "mayhem", "cashback", "quote", "creator_fee", "holder"}
  BY DEF Optional, Bytes
<1>2. \A f \in Optional : Bytes[f][2] \in Nat
  BY <1>1 DEF Bytes
<1>3. c = [f \in Optional |-> c[f]] /\ \A f \in Optional : c[f] # NoValue
  BY TokenInfoAssumption
<1>4. \A f \in Optional : Missing[f] \in {NoValue, Zero[f]}
  BY <1>1 DEF Missing, Zero
<1>5. \A f \in Optional : ~Present(f, n) => c[f] = Zero[f]
  BY <1>2 DEF Fits, Present
<1>6. \A f \in Optional : Present(f, n) => FieldRead(c, f, n) = c[f]
  BY <1>2 DEF FieldRead, Present
<1>7. \A f \in Optional : Shown(Parse(c, n))[f] = c[f]
  BY <1>3, <1>4, <1>5, <1>6 DEF Shown, Parse
<1>8. Shown(Parse(c, n)) = [f \in Optional |-> Shown(Parse(c, n))[f]]
  BY DEF Shown
<1>9. Parse(c, n).quote = c.quote
  <2>1. Missing.quote = Zero.quote
    BY DEF Missing, Zero
  <2>. QED
    BY <1>1, <1>5, <1>6, <2>1 DEF Parse
<1>. QED
  BY <1>3, <1>7, <1>8, <1>9

(* The coin's account and its pool.                                        *)
Account ==
  /\ curve.length = 0 => ~curve.complete
  /\ curve.length # 0 => Fits(coin, curve.length)
  /\ poolOpen => curve.complete
  /\ met.openAtStart => poolOpen

AfterCurve == InfoReads \ {"curve"}
AfterGlobal == {"again", "pool", "tokens", "base", "vault"}
AfterPool == {"tokens", "base", "vault"}

(* What each read leaves known when the next is awaited.                   *)
ReadsKnow ==
  /\ ipc = "done" <=> shown # "none"
  /\ ipc \in AfterCurve => /\ curve.length # 0 /\ seen.coin = coin
                           /\ seen.graduated => curve.complete
                           /\ met.openAtStart => seen.graduated
  /\ ipc \in AfterGlobal => curve.complete
  /\ ipc = "pool" => seen.quoteAsset = coin.quote \/ met.failed
  /\ ipc \in AfterPool => poolOpen

(* Between the reads of the two vaults trades go on, none of which lowers  *)
(* the product.                                                            *)
VaultsMeet ==
  ~met.failed =>
    /\ ipc = "vault" => /\ met.first[1] > 0 /\ seen.base = met.first[1]
                        /\ met.first[1] * met.first[2] <= base * quote
    /\ shown = "with_pool" =>
         /\ met.first[1] > 0 /\ seen.base = met.first[1] /\ seen.quote = met.last[2]
         /\ met.first[1] * met.first[2] <= met.last[1] * met.last[2]

InfoInv ==
  /\ WalkInv
  /\ InfoDescribesTheCoin
  /\ Account
  /\ ReadsKnow
  /\ VaultsMeet

(* Two sides that never lost product between their reads: a price made of  *)
(* both lies between the two.                                              *)
LEMMA BetweenPrices ==
  ASSUME NEW b1 \in Nat \ {0}, NEW q1 \in Nat, NEW b2 \in Nat, NEW q2 \in Nat,
         b1 * q1 <= b2 * q2
  PROVE  \/ q1 * b1 <= q2 * b1 /\ q2 * b2 <= q2 * b1
         \/ q2 * b1 <= q1 * b1 /\ q2 * b1 <= q2 * b2
         \/ b2 > b1 /\ q2 > q1
<1>1. ASSUME NEW x \in Nat, NEW y \in Nat, NEW z \in Nat, x <= y PROVE x * z <= y * z
  BY <1>1
<1>2. CASE q1 <= q2 /\ b2 <= b1
  <2>1. q1 * b1 <= q2 * b1
    BY <1>1, <1>2
  <2>2. q2 * b2 <= q2 * b1
    BY <1>1, <1>2
  <2>. QED
    BY <2>1, <2>2
<1>3. CASE q2 <= q1 /\ b1 <= b2
  <2>1. q2 * b1 <= q1 * b1
    BY <1>1, <1>3
  <2>2. q2 * b1 <= q2 * b2
    BY <1>1, <1>3
  <2>. QED
    BY <2>1, <2>2
<1>4. CASE q2 < q1 /\ b2 < b1
  <2>1. b2 * q2 <= b1 * q2
    BY <1>1, <1>4
  <2>2. b1 * q2 < b1 * q1
    BY <1>4
  <2>. QED
    BY <1>4, <2>1, <2>2
<1>. QED
  BY <1>2, <1>3, <1>4

LEMMA InfoInvImplies == InfoInv => PricesAreReal
<1>. SUFFICES ASSUME InfoInv, shown = "with_pool", ~met.failed PROVE PricesAreReal
  BY DEF PricesAreReal
<1>. DEFINE b1 == met.first[1]
            q1 == met.first[2]
            b2 == met.last[1]
            q2 == met.last[2]
<1>1. b1 \in Nat /\ q1 \in Nat /\ b2 \in Nat /\ q2 \in Nat
  BY DEF InfoInv, InfoDescribesTheCoin, InfoTypeOK, Met
<1>2. b1 > 0 /\ seen.base = b1 /\ seen.quote = q2 /\ b1 * q1 <= b2 * q2
  BY DEF InfoInv, VaultsMeet
<1>3. PoolPrice(met.first) = <<q1, b1>> /\ PoolPrice(met.last) = <<q2, b2>>
  BY DEF PoolPrice
<1>4. Price = <<q2, b1>>
  BY <1>1, <1>2 DEF Price
<1>. HIDE DEF b1, q1, b2, q2
<1>5. \/ q1 * b1 <= q2 * b1 /\ q2 * b2 <= q2 * b1
      \/ q2 * b1 <= q1 * b1 /\ q2 * b1 <= q2 * b2
      \/ b2 > b1 /\ q2 > q1
  BY <1>1, <1>2, BetweenPrices
<1>. QED
  BY <1>3, <1>4, <1>5 DEF PricesAreReal, AtMost, b1, q1, b2, q2

LEMMA InfoInitInv == WalkInit /\ InfoInit => InfoInv
<1>. SUFFICES ASSUME WalkInit, InfoInit PROVE InfoInv
  OBVIOUS
<1>. USE TokenInfoAssumption DEF InfoInit
<1>1. InfoTypeOK
  BY DEF InfoTypeOK, Seen, Met, InfoReads, InfoEnds
<1>2. InfoDescribesTheCoin
  BY <1>1 DEF InfoDescribesTheCoin
<1>3. Account /\ ReadsKnow /\ VaultsMeet
  BY DEF Account, ReadsKnow, VaultsMeet, AfterCurve, AfterGlobal, AfterPool
<1>. QED
  BY <1>2, <1>3, WalkInitInv DEF InfoInv

(* A failed read is remembered, and otherwise changes nothing.             *)
LEMMA FailingIs ==
  ASSUME InfoInv, Failing
  PROVE  /\ met' \in Met /\ met'.failed = TRUE
         /\ met'.openAtStart = met.openAtStart
<1>1. met \in Met
  BY DEF InfoInv, InfoDescribesTheCoin, InfoTypeOK
<1>2. met' \in Met
  BY <1>1 DEF Failing, Met
<1>3. met'.failed = TRUE
  BY <1>1 DEF Failing, Met
<1>4. met'.openAtStart = met.openAtStart
  BY <1>1 DEF Failing, Met
<1>. QED
  BY <1>2, <1>3, <1>4

(* A read moves neither coin, account nor pool.                            *)
LEMMA InfoStepInv == InfoInv /\ InfoStep => InfoInv'
<1>. SUFFICES ASSUME InfoInv, InfoStep PROVE InfoInv'
  OBVIOUS
<1>1. /\ UNCHANGED <<coin, curve, poolOpen, walkVars>>
      /\ WalkInv' /\ base' = base /\ quote' = quote
  BY WalkStep DEF InfoStep, InfoInv, walkVars
<1>2. /\ InfoTypeOK /\ seen \in Seen /\ met \in Met /\ coin \in Coins
      /\ curve.length \in Nat /\ curve.complete \in BOOLEAN
  BY TokenInfoAssumption DEF InfoInv, InfoDescribesTheCoin, InfoTypeOK
<1>3. base \in Nat /\ quote \in Nat /\ base > 0
  BY DEF InfoInv, WalkInv
(* It is enough to know the read, its outcome, and what was learned.       *)
<1>4. ASSUME ipc' \in InfoReads \cup {"done"}, shown' \in InfoEnds, seen' \in Seen, met' \in Met,
             met'.openAtStart = met.openAtStart, ReadsKnow', VaultsMeet',
             shown' \in {"curve_only", "with_warning", "with_pool"} => seen'.coin = coin,
             shown' = "with_pool" => curve.complete /\ poolOpen,
             met.openAtStart /\ ~met'.failed /\ ipc' = "done" => shown' = "with_pool"
      PROVE  InfoInv'
  <2>1. InfoTypeOK'
    BY <1>1, <1>2, <1>4 DEF InfoTypeOK
  <2>2. InfoDescribesTheCoin'
    BY <1>1, <1>4, <2>1 DEF InfoDescribesTheCoin
  <2>3. Account'
    BY <1>1, <1>4 DEF InfoInv, Account
  <2>. QED
    BY <1>1, <1>4, <2>2, <2>3 DEF InfoInv
<1>. USE DEF AfterCurve, AfterGlobal, AfterPool, InfoReads, InfoEnds
<1>5. CASE InfoCurve
  <2>1. ipc = "curve" /\ shown = "none"
    BY <1>5 DEF InfoCurve, InfoInv, ReadsKnow
  <2>2. CASE ipc' = "done" /\ shown' = "not_found" /\ seen' = seen
             /\ ((met' = met /\ curve.length = 0) \/ Failing)
    <3>1. /\ met' \in Met /\ met'.openAtStart = met.openAtStart
          /\ met'.failed = TRUE \/ curve.length = 0
      BY <1>2, <2>2, FailingIs
    <3>2. ReadsKnow' /\ VaultsMeet'
      BY <2>1, <2>2 DEF ReadsKnow, VaultsMeet
    <3>. QED
      BY <1>1, <1>2, <1>4, <2>1, <2>2, <3>1, <3>2 DEF InfoInv, Account
  <2>3. CASE /\ curve.length # 0 /\ met' = met
             /\ seen' = [seen EXCEPT !.coin = Shown(Parse(coin, curve.length)),
                                    !.graduated = curve.complete]
             /\ Awaits(IF Parse(coin, curve.length).quote \in KnownQuotes
                        THEN "global" ELSE "mint")
    <3>. DEFINE parsed == Parse(coin, curve.length)
    <3>1. Shown(parsed) = coin
      BY <1>2, <2>3, ShownIsTheCoin DEF InfoInv, Account
    <3>2. /\ seen' = [seen EXCEPT !.coin = coin, !.graduated = curve.complete]
          /\ ipc' \in {"global", "mint"} /\ shown' = shown
      BY <2>3, <3>1 DEF Awaits
    <3>3. seen' \in Seen
      BY <1>2, <3>2 DEF Seen
    <3>4. seen'.coin = coin
      BY <1>2, <3>2 DEF Seen
    <3>5. seen'.graduated = curve.complete
      BY <1>2, <3>2 DEF Seen
    <3>6. ReadsKnow' /\ VaultsMeet'
      BY <1>1, <1>2, <2>1, <2>3, <3>2, <3>4, <3>5 DEF InfoInv, Account, ReadsKnow, VaultsMeet
    <3>. QED
      BY <1>2, <1>4, <2>1, <2>3, <3>2, <3>3, <3>6
  <2>. QED
    BY <1>5, <2>2, <2>3 DEF InfoCurve, Ended
<1>6. CASE InfoMint \/ InfoGlobal
  <2>1. /\ ipc \in {"mint", "global"} /\ shown = "none" /\ met' = met /\ seen' = seen
        /\ \/ ipc' = "global" /\ shown' = "none"
           \/ seen.graduated /\ ipc' = "again" /\ shown' = "none"
           \/ ~seen.graduated /\ ipc' = "done" /\ shown' = "curve_only"
    BY <1>6 DEF InfoMint, InfoGlobal, Awaits, Ended, InfoInv, ReadsKnow
  <2>2. ReadsKnow' /\ VaultsMeet'
    BY <1>1, <2>1 DEF InfoInv, ReadsKnow, VaultsMeet
  <2>. QED
    BY <1>2, <1>4, <2>1, <2>2 DEF InfoInv, ReadsKnow
<1>7. CASE InfoRaises
  <2>1. ipc' = "done" /\ shown' = "raised" /\ seen' = seen /\ Failing
    BY <1>7 DEF InfoRaises, Ended
  <2>2. met' \in Met /\ met'.failed = TRUE /\ met'.openAtStart = met.openAtStart
    BY <2>1, FailingIs
  <2>3. ReadsKnow' /\ VaultsMeet'
    BY <2>1, <2>2 DEF ReadsKnow, VaultsMeet
  <2>. QED
    BY <1>2, <1>4, <2>1, <2>2, <2>3
<1>8. CASE InfoCurveAgain
  <2>1. /\ ipc = "again" /\ shown = "none" /\ ipc' = "pool" /\ shown' = "none"
        /\ seen.coin = coin /\ curve.length # 0
    BY <1>8 DEF InfoCurveAgain, Awaits, InfoInv, ReadsKnow
  <2>2. PICK asset \in {coin.quote, Sol} :
          /\ seen' = [seen EXCEPT !.quoteAsset = asset]
          /\ \/ met' = met /\ asset = coin.quote
             \/ Failing
    BY <1>2, <1>8, <2>1, ShownIsTheCoin DEF InfoCurveAgain, InfoInv, Account
  <2>0. /\ met' \in Met /\ met'.openAtStart = met.openAtStart
        /\ met'.failed = TRUE \/ asset = coin.quote
    BY <1>2, <2>2, FailingIs
  <2>3. /\ seen' \in Seen /\ seen'.coin = seen.coin /\ seen'.quoteAsset = asset
    BY <1>2, <2>2 DEF Seen
  <2>4. seen'.graduated = seen.graduated
    BY <1>2, <2>2 DEF Seen
  <2>5. ReadsKnow' /\ VaultsMeet'
    BY <1>1, <2>0, <2>1, <2>3, <2>4 DEF InfoInv, ReadsKnow, VaultsMeet
  <2>. QED
    BY <1>2, <1>4, <2>0, <2>1, <2>3, <2>5
<1>9. CASE InfoPool \/ InfoTokens
  <2>1. /\ ipc \in {"pool", "tokens"} /\ shown = "none" /\ seen' = seen
        /\ seen.coin = coin /\ curve.complete
        /\ ipc = "pool" => seen.quoteAsset = coin.quote \/ met.failed
        /\ ipc = "tokens" => poolOpen
    BY <1>9 DEF InfoPool, InfoTokens, InfoInv, ReadsKnow
  <2>2. CASE Ended("with_warning") /\ Failing
    <3>1. met' \in Met /\ met'.failed = TRUE /\ met'.openAtStart = met.openAtStart
      BY <2>2, FailingIs
    <3>2. ReadsKnow' /\ VaultsMeet'
      BY <2>2, <3>1 DEF ReadsKnow, VaultsMeet, Ended
    <3>. QED
      BY <1>2, <1>4, <2>1, <2>2, <3>1, <3>2 DEF Ended
  <2>3. CASE met' = met /\ ipc' \in {"tokens", "base"} /\ shown' = shown /\ poolOpen
    <3>1. ReadsKnow' /\ VaultsMeet'
      BY <1>1, <2>1, <2>3 DEF InfoInv, ReadsKnow, VaultsMeet
    <3>. QED
      BY <1>2, <1>4, <2>1, <2>3, <3>1
  <2>4. CASE met' = met /\ Ended("with_warning") /\ (~poolOpen \/ met.failed)
    <3>1. ReadsKnow' /\ VaultsMeet'
      BY <2>4 DEF ReadsKnow, VaultsMeet, Ended
    <3>. QED
      BY <1>2, <1>4, <2>1, <2>4, <3>1 DEF Ended, InfoInv, Account
  <2>. QED
    BY <1>9, <2>1, <2>2, <2>3, <2>4 DEF InfoPool, InfoTokens, Awaits
<1>10. CASE InfoBase
  <2>1. /\ ipc = "base" /\ ipc' = "vault" /\ shown = "none" /\ shown' = "none"
        /\ seen.coin = coin /\ curve.complete /\ poolOpen
    BY <1>10 DEF InfoBase, Awaits, InfoInv, ReadsKnow
  <2>2. CASE Failing /\ seen' = seen
    <3>1. met' \in Met /\ met'.failed = TRUE /\ met'.openAtStart = met.openAtStart
      BY <2>2, FailingIs
    <3>2. ReadsKnow' /\ VaultsMeet'
      BY <1>1, <2>1, <2>2, <3>1 DEF InfoInv, ReadsKnow, VaultsMeet
    <3>. QED
      BY <1>2, <1>4, <2>1, <2>2, <3>1, <3>2
  <2>3. CASE /\ seen' = [seen EXCEPT !.base = base]
             /\ met' = [met EXCEPT !.first = <<base, quote>>]
    <3>1. met' \in Met /\ met'.first = <<base, quote>> /\ met'.openAtStart = met.openAtStart
      BY <1>2, <1>3, <2>3 DEF Met
    <3>2. /\ seen' \in Seen /\ seen'.coin = seen.coin /\ seen'.base = base
          /\ seen'.graduated = seen.graduated
      BY <1>2, <1>3, <2>3 DEF Seen
    <3>3. base * quote \in Nat
      BY <1>3
    <3>4. VaultsMeet'
      BY <1>1, <1>3, <2>1, <3>1, <3>2, <3>3 DEF VaultsMeet
    <3>5. ReadsKnow'
      BY <1>1, <2>1, <3>1, <3>2 DEF InfoInv, ReadsKnow
    <3>. QED
      BY <1>2, <1>4, <2>1, <3>1, <3>2, <3>4, <3>5
  <2>. QED
    BY <1>10, <2>2, <2>3 DEF InfoBase
<1>11. CASE InfoVault
  <2>1. /\ ipc = "vault" /\ ipc' = "done" /\ shown = "none" /\ shown' = "with_pool"
        /\ seen.coin = coin /\ curve.complete /\ poolOpen
    BY <1>11 DEF InfoVault, Ended, InfoInv, ReadsKnow
  <2>2. CASE Failing /\ seen' = [seen EXCEPT !.quote = QuoteSide(0)]
    <3>1. met' \in Met /\ met'.failed = TRUE /\ met'.openAtStart = met.openAtStart
      BY <2>2, FailingIs
    <3>2. seen' \in Seen /\ seen'.coin = seen.coin
      BY <1>2, <2>2, TokenInfoAssumption, QuoteWalkAssumption DEF Seen, QuoteSide
    <3>3. ReadsKnow' /\ VaultsMeet'
      BY <2>1, <3>1 DEF ReadsKnow, VaultsMeet
    <3>. QED
      BY <1>2, <1>4, <2>1, <3>1, <3>2, <3>3
  <2>3. CASE /\ seen' = [seen EXCEPT !.quote = QuoteSide(quote - Virtual)]
             /\ met' = [met EXCEPT !.last = <<base, quote>>]
    <3>1. QuoteSide(quote - Virtual) = quote
      BY <1>3, TokenInfoAssumption, QuoteWalkAssumption DEF QuoteSide
    <3>2. /\ met' \in Met /\ met'.last = <<base, quote>> /\ met'.first = met.first
          /\ met'.openAtStart = met.openAtStart
      BY <1>2, <1>3, <2>3 DEF Met
    <3>3. met'.failed = met.failed
      BY <1>2, <1>3, <2>3 DEF Met
    <3>4. /\ seen' \in Seen /\ seen'.coin = seen.coin /\ seen'.base = seen.base
          /\ seen'.quote = quote
      BY <1>2, <1>3, <2>3, <3>1 DEF Seen
    <3>5. VaultsMeet'
      BY <2>1, <3>2, <3>3, <3>4 DEF InfoInv, VaultsMeet
    <3>6. ReadsKnow'
      BY <2>1 DEF ReadsKnow
    <3>. QED
      BY <1>2, <1>4, <2>1, <3>2, <3>4, <3>5, <3>6
  <2>. QED
    BY <1>11, <2>2, <2>3 DEF InfoVault
<1>. QED
  BY <1>5, <1>6, <1>7, <1>8, <1>9, <1>10, <1>11 DEF InfoStep

(* Around it, an account never shrinks, a curve never becomes incomplete,  *)
(* a pool never closes and the product never falls.                        *)
LEMMA InfoWorldInv == InfoInv /\ InfoWorld => InfoInv'
<1>. SUFFICES ASSUME InfoInv, InfoWorld PROVE InfoInv'
  OBVIOUS
<1>1. ipc # "done" /\ shown = "none" /\ UNCHANGED <<coin, ipc, seen, shown>>
  BY DEF InfoWorld, InfoInv, ReadsKnow
<1>2. /\ InfoTypeOK /\ seen \in Seen /\ met \in Met /\ coin \in Coins
      /\ curve \in [length : Lengths \cup {ExtendedLength}, complete : BOOLEAN]
      /\ curve.length \in Nat /\ curve.complete \in BOOLEAN /\ ExtendedLength \in Nat
  BY TokenInfoAssumption DEF InfoInv, InfoDescribesTheCoin, InfoTypeOK
<1>3. base \in Nat /\ quote \in Nat /\ base > 0
  BY DEF InfoInv, WalkInv
<1>4. ASSUME WalkInv', InfoTypeOK', Account', ReadsKnow', VaultsMeet'
      PROVE  InfoInv'
  BY <1>1, <1>4 DEF InfoInv, InfoDescribesTheCoin
<1>5. ASSUME UNCHANGED <<met, walkVars>>, InfoTypeOK', Account',
             curve.complete => curve'.complete, poolOpen => poolOpen',
             curve.length # 0 => curve'.length # 0
      PROVE  InfoInv'
  <2>1. base' = base /\ quote' = quote /\ WalkInv'
    BY <1>5, WalkStep DEF walkVars, InfoInv
  <2>2. VaultsMeet'
    BY <1>1, <1>5, <2>1 DEF InfoInv, VaultsMeet
  <2>3. ReadsKnow'
    BY <1>1, <1>5 DEF InfoInv, ReadsKnow
  <2>. QED
    BY <1>4, <1>5, <2>1, <2>2, <2>3
<1>6. CASE Complete
  <2>1. /\ curve' \in [length : Lengths \cup {ExtendedLength}, complete : BOOLEAN]
        /\ curve'.length = curve.length
    BY <1>2, <1>6 DEF Complete
  <2>2. curve'.complete
    BY <1>2, <1>6 DEF Complete
  <2>3. UNCHANGED <<poolOpen, met, walkVars>> /\ curve.length # 0
    BY <1>2, <1>6 DEF Complete
  <2>4. InfoTypeOK' /\ Account'
    BY <1>1, <1>2, <2>1, <2>2, <2>3 DEF InfoTypeOK, InfoInv, Account
  <2>. QED
    BY <1>5, <2>1, <2>2, <2>3, <2>4
<1>7. CASE Migrate
  <2>1. poolOpen' = TRUE /\ curve.complete /\ UNCHANGED <<curve, met, walkVars>>
    BY <1>7 DEF Migrate
  <2>2. InfoTypeOK' /\ Account'
    BY <1>1, <1>2, <2>1 DEF InfoTypeOK, InfoInv, Account
  <2>. QED
    BY <1>5, <2>1, <2>2
<1>8. CASE ExtendAccount
  <2>1. /\ 0 < curve.length /\ curve.length < ExtendedLength
        /\ curve' = [curve EXCEPT !.length = ExtendedLength]
        /\ UNCHANGED <<poolOpen, met, walkVars>>
    BY <1>8 DEF ExtendAccount
  <2>2. /\ curve' \in [length : Lengths \cup {ExtendedLength}, complete : BOOLEAN]
        /\ curve'.length = ExtendedLength
    BY <1>2, <2>1
  <2>3. curve'.complete = curve.complete
    BY <1>2, <2>1
  <2>4. Fits(coin, ExtendedLength)
    <3>1. \A f \in Optional : Bytes[f][2] \in Nat
      BY DEF Optional, Bytes
    <3>. QED
      BY <1>2, <2>1, <3>1 DEF InfoInv, Account, Fits, MinLength
  <2>5. InfoTypeOK' /\ Account'
    BY <1>1, <1>2, <2>1, <2>2, <2>3, <2>4 DEF InfoTypeOK, InfoInv, Account
  <2>. QED
    BY <1>2, <1>5, <2>1, <2>2, <2>3, <2>5
<1>9. CASE PoolTraded
  <2>1. /\ WalkNext /\ UNCHANGED <<curve, poolOpen>>
        /\ \/ met' = [met EXCEPT !.torn = @ + 1]
           \/ met' = met
    BY <1>9 DEF PoolTraded
  <2>2. WalkInv' /\ base' * quote' >= base * quote
    BY <2>1, WalkStep DEF InfoInv
  <2>3. met' \in Met /\ met'.first = met.first /\ met'.last = met.last
    BY <1>2, <2>1 DEF Met
  <2>4. met'.failed = met.failed
    BY <1>2, <2>1 DEF Met
  <2>5. met'.openAtStart = met.openAtStart
    BY <1>2, <2>1 DEF Met
  <2>6. InfoTypeOK' /\ Account' /\ ReadsKnow'
    BY <1>1, <1>2, <2>1, <2>3, <2>4, <2>5 DEF InfoTypeOK, InfoInv, Account, ReadsKnow
  <2>7. VaultsMeet'
    <3>. DEFINE first == met.first[1] * met.first[2]
                before == base * quote
                after == base' * quote'
    <3>1. first \in Nat /\ before \in Nat /\ after \in Nat
      <4>1. met.first[1] \in Nat /\ met.first[2] \in Nat
        BY <1>2 DEF Met
      <4>2. base' \in Nat /\ quote' \in Nat
        BY <2>2 DEF WalkInv
      <4>3. \A a, b \in Nat : a * b \in Nat
        OBVIOUS
      <4>. QED
        BY <1>3, <4>1, <4>2, <4>3
    <3>2. ~met.failed /\ ipc = "vault" =>
            met.first[1] > 0 /\ seen.base = met.first[1] /\ first <= before
      BY DEF InfoInv, VaultsMeet
    <3>3. after >= before
      BY <2>2
    <3>4. SUFFICES ASSUME ~met.failed, ipc = "vault"
                   PROVE  met.first[1] > 0 /\ seen.base = met.first[1] /\ first <= after
      BY <1>1, <2>3, <2>4 DEF VaultsMeet
    <3>. HIDE DEF first, before, after
    <3>. QED
      BY <3>1, <3>2, <3>3, <3>4
  <2>. QED
    BY <1>4, <2>2, <2>6, <2>7
<1>. QED
  BY <1>6, <1>7, <1>8, <1>9 DEF InfoWorld

LEMMA InfoAlways == ReadSpec => []InfoInv
<1>1. ReadInit => InfoInv
  BY InfoInitInv DEF ReadInit
<1>2. InfoInv /\ [ReadNext]_readVars => InfoInv'
  <2>. SUFFICES ASSUME InfoInv, [ReadNext]_readVars PROVE InfoInv'
    OBVIOUS
  <2>1. CASE UNCHANGED <<walkVars, infoVars>>
    BY <2>1 DEF walkVars, infoVars, InfoInv, WalkInv, InfoDescribesTheCoin, InfoTypeOK, Account,
       ReadsKnow, VaultsMeet
  <2>. QED
    BY <2>1, InfoStepInv, InfoWorldInv DEF ReadNext, Step, World, readVars
<1>. QED
  BY <1>1, <1>2, PTL DEF ReadSpec

(* What pumpfun info shows of a coin is the coin, for any coins and any    *)
(* lengths of their accounts, extended between the reads or not.           *)
THEOREM InfoShowsTheCoin == ReadSpec => []InfoDescribesTheCoin
<1>1. InfoInv => InfoDescribesTheCoin
  BY DEF InfoInv
<1>. QED
  BY <1>1, InfoAlways, PTL

(* The price pumpfun info shows of a pool lies between those of the two    *)
(* moments its sides were read, for all reserves and however many trades   *)
(* come in between, unless both sides have grown.                          *)
THEOREM InfoPricesAreReal == ReadSpec => []PricesAreReal
<1>. QED
  BY InfoInvImplies, InfoAlways, PTL

-----------------------------------------------------------------------------
(* Lists and the places in them (TokenLists).                              *)

Upto(places, n) == {m \in places : m <= n}
Rank(places, n) == Cardinality(Upto(places, n))

(* A finite set of places in ascending order: ranks are the numbers up to  *)
(* its size, each that of one place.                                       *)
LEMMA Ranks ==
  ASSUME NEW P \in SUBSET Nat, IsFiniteSet(P)
  PROVE  /\ Cardinality(P) \in Nat
         /\ \A n \in P : Rank(P, n) \in 1 .. Cardinality(P)
         /\ \A m, n \in P : m < n => Rank(P, m) < Rank(P, n)
         /\ \A k \in 1 .. Cardinality(P) : \E n \in P : Rank(P, n) = k
<1>1. Cardinality(P) \in Nat
  BY FS_CardinalityType
<1>2. \A n \in P : IsFiniteSet(Upto(P, n)) /\ Rank(P, n) \in 1 .. Cardinality(P)
  <2>. TAKE n \in P
  <2>1. Upto(P, n) \in SUBSET P /\ Upto(P, n) # {}
    BY DEF Upto
  <2>2. IsFiniteSet(Upto(P, n)) /\ Rank(P, n) <= Cardinality(P)
    BY <2>1, FS_Subset DEF Rank
  <2>3. Rank(P, n) \in Nat /\ Rank(P, n) # 0
    BY <2>1, <2>2, FS_CardinalityType, FS_EmptySet DEF Rank
  <2>. QED
    BY <1>1, <2>2, <2>3
<1>3. \A m, n \in P : m < n => Rank(P, m) < Rank(P, n)
  <2>. SUFFICES ASSUME NEW m \in P, NEW n \in P, m < n PROVE Rank(P, m) < Rank(P, n)
    OBVIOUS
  <2>1. m \in Nat /\ n \in Nat
    OBVIOUS
  <2>2. Upto(P, m) \in SUBSET Upto(P, n) /\ n \in Upto(P, n) /\ n \notin Upto(P, m)
    <3>1. \A x \in P : x <= m => x <= n
      BY <2>1
    <3>2. n <= n /\ ~(n <= m)
      BY <2>1
    <3>. QED
      BY <3>1, <3>2 DEF Upto
  <2>3. Upto(P, m) # Upto(P, n)
    BY <2>2
  <2>4. Rank(P, m) <= Rank(P, n) /\ Rank(P, m) # Rank(P, n)
    BY <1>2, <2>2, <2>3, FS_Subset DEF Rank
  <2>5. Rank(P, m) \in Nat /\ Rank(P, n) \in Nat
    BY <1>1, <1>2
  <2>. QED
    BY <2>4, <2>5
<1>4. \A k \in 1 .. Cardinality(P) : \E n \in P : Rank(P, n) = k
  <2>. DEFINE R == [n \in P |-> Rank(P, n)]
  <2>1. R \in [P -> 1 .. Cardinality(P)]
    BY <1>2
  <2>2. \A m, n \in P : Rank(P, m) = Rank(P, n) => m = n
    <3>1. \A m, n \in P : m < n \/ n < m \/ m = n
      OBVIOUS
    <3>2. \A n \in P : Rank(P, n) \in Nat
      BY <1>1, <1>2
    <3>. QED
      BY <1>3, <3>1, <3>2
  <2>3. R \in Injection(P, 1 .. Cardinality(P))
    BY <2>1, <2>2 DEF Injection, IsInjective
  <2>4. IsFiniteSet(1 .. Cardinality(P)) /\ Cardinality(1 .. Cardinality(P)) = Cardinality(P)
    BY <1>1, FS_Interval
  <2>5. R \in Surjection(P, 1 .. Cardinality(P))
    BY <2>3, <2>4, FS_Injection
  <2>. QED
    BY <2>5 DEF Surjection
<1>. QED
  BY <1>1, <1>2, <1>3, <1>4

LEMMA NthOne ==
  ASSUME NEW P \in SUBSET Nat, IsFiniteSet(P)
  PROVE  /\ \A k \in 1 .. Cardinality(P) : Nth(P, k) \in P /\ Rank(P, Nth(P, k)) = k
         /\ \A n \in P : Nth(P, Rank(P, n)) = n
<1>1. \A k \in 1 .. Cardinality(P) : Nth(P, k) \in P /\ Rank(P, Nth(P, k)) = k
  BY Ranks DEF Nth, Rank, Upto
<1>2. ASSUME NEW n \in P PROVE Nth(P, Rank(P, n)) = n
  <2>1. Rank(P, n) \in 1 .. Cardinality(P)
    BY Ranks
  <2>2. Nth(P, Rank(P, n)) \in P /\ Rank(P, Nth(P, Rank(P, n))) = Rank(P, n)
    BY <1>1, <2>1
  <2>3. \A m \in P : Rank(P, m) = Rank(P, n) => m = n
    BY Ranks
  <2>. QED
    BY <2>2, <2>3
<1>. QED
  BY <1>1, <1>2

(* The places up to c are the first, those beyond follow.                  *)
LEMMA NthSplits ==
  ASSUME NEW P \in SUBSET Nat, IsFiniteSet(P), NEW c \in Nat, NEW above,
         above = {n \in P : ~(n <= c)}
  PROVE  /\ Rank(P, c) \in Nat /\ Cardinality(above) \in Nat
         /\ Cardinality(P) = Rank(P, c) + Cardinality(above)
         /\ \A k \in 1 .. Rank(P, c) : Nth(P, k) = Nth(Upto(P, c), k)
         /\ \A k \in 1 .. Cardinality(above) : Nth(P, Rank(P, c) + k) = Nth(above, k)
<1>. DEFINE lower == Upto(P, c)
<1>1. lower \in SUBSET P /\ above \in SUBSET P /\ lower \cup above = P /\ lower \cap above = {}
  <2>1. \A n : n \in lower <=> n \in P /\ n <= c
    BY DEF Upto
  <2>2. \A n : n \in above <=> n \in P /\ ~(n <= c)
    OBVIOUS
  <2>. HIDE DEF lower
  <2>. QED
    BY <2>1, <2>2
<1>2. IsFiniteSet(lower) /\ IsFiniteSet(above)
  BY <1>1, FS_Subset
<1>3. Cardinality(lower) \in Nat /\ Cardinality(above) \in Nat /\ Cardinality({}) = 0
  BY <1>2, FS_CardinalityType, FS_EmptySet
<1>4. Cardinality(P) = Cardinality(lower) + Cardinality(above)
  <2>. HIDE DEF lower
  <2>1. Cardinality(lower \cup above)
          = Cardinality(lower) + Cardinality(above) - Cardinality(lower \cap above)
    BY ONLY <1>2, FS_Union
  <2>2. Cardinality(lower \cup above) = Cardinality(P) /\ Cardinality(lower \cap above) = 0
    BY ONLY <1>1, <1>3
  <2>. QED
    BY ONLY <1>3, <2>1, <2>2
<1>5. ASSUME NEW k \in 1 .. Cardinality(lower) PROVE Nth(P, k) = Nth(lower, k)
  <2>1. Nth(lower, k) \in lower /\ Rank(lower, Nth(lower, k)) = k
    BY <1>1, <1>2, <1>5, NthOne
  <2>2. Upto(P, Nth(lower, k)) = Upto(lower, Nth(lower, k))
    <3>1. Nth(lower, k) \in Nat /\ Nth(lower, k) <= c
      BY <2>1 DEF Upto
    <3>2. \A m \in P : m <= Nth(lower, k) => m <= c
      BY <3>1
    <3>. QED
      BY <3>2 DEF Upto
  <2>. QED
    BY <1>1, <2>1, <2>2, NthOne DEF Rank
<1>6. ASSUME NEW k \in 1 .. Cardinality(above)
      PROVE  Nth(P, Cardinality(lower) + k) = Nth(above, k)
  <2>. DEFINE n == Nth(above, k)
  <2>1. n \in above /\ Rank(above, n) = k /\ n \in P
    BY <1>1, <1>2, <1>6, NthOne
  <2>2. Upto(P, n) = lower \cup Upto(above, n) /\ lower \cap Upto(above, n) = {}
    <3>1. n \in Nat /\ ~(n <= c)
      BY <2>1
    <3>2. \A m \in P : m <= c => m <= n
      BY <3>1
    <3>3. \A m : m \in lower <=> m \in P /\ m <= c
      BY DEF Upto
    <3>4. \A m : m \in Upto(above, n) <=> m \in P /\ ~(m <= c) /\ m <= n
      BY DEF Upto
    <3>5. \A m : m \in Upto(P, n) <=> m \in P /\ m <= n
      BY DEF Upto
    <3>. HIDE DEF n, lower
    <3>. QED
      BY <3>2, <3>3, <3>4, <3>5
  <2>3. Upto(above, n) \in SUBSET above
    BY DEF Upto
  <2>4. IsFiniteSet(Upto(above, n))
    BY <1>2, <2>3, FS_Subset
  <2>. HIDE DEF n, lower
  <2>5. Rank(P, n) = Cardinality(lower) + k
    <3>1. Cardinality(Upto(P, n)) = Cardinality(lower) + Cardinality(Upto(above, n)) - Cardinality({})
      BY <1>2, <2>2, <2>4, FS_Union
    <3>. QED
      BY <1>3, <2>1, <3>1 DEF Rank
  <2>6. Nth(P, Rank(P, n)) = n
    BY <2>1, NthOne
  <2>. QED
    BY <2>5, <2>6 DEF n
<1>. QED
  BY <1>3, <1>4, <1>5, <1>6 DEF Rank

(* Places moved by d are moved by d.                                       *)
LEMMA ShiftSize ==
  ASSUME NEW P \in SUBSET Nat, IsFiniteSet(P), NEW d \in Nat
  PROVE  /\ IsFiniteSet({n + d : n \in P})
         /\ Cardinality({n + d : n \in P}) = Cardinality(P)
<1>. DEFINE S == {n + d : n \in P}
            f == [n \in P |-> n + d]
<1>1. f \in [P -> S]
  OBVIOUS
<1>2. \A m, n \in P : f[m] = f[n] => m = n
  OBVIOUS
<1>3. \A t \in S : \E n \in P : f[n] = t
  OBVIOUS
<1>4. f \in Bijection(P, S)
  BY <1>1, <1>2, <1>3 DEF Bijection, Injection, Surjection, IsInjective
<1>. QED
  BY <1>4, FS_Bijection DEF ExistsBijection

LEMMA NthShifts ==
  ASSUME NEW P \in SUBSET Nat, IsFiniteSet(P), NEW d \in Nat, NEW shifted,
         shifted = {n + d : n \in P}
  PROVE  /\ Cardinality(shifted) = Cardinality(P)
         /\ \A k \in 1 .. Cardinality(P) : Nth(shifted, k) = Nth(P, k) + d
<1>1. shifted \in SUBSET Nat /\ IsFiniteSet(shifted) /\ Cardinality(shifted) = Cardinality(P)
  <2>1. \A n \in P : n + d \in Nat
    OBVIOUS
  <2>. QED
    BY <2>1, ShiftSize
<1>2. ASSUME NEW k \in 1 .. Cardinality(P) PROVE Nth(shifted, k) = Nth(P, k) + d
  <2>. DEFINE n == Nth(P, k)
  <2>1. n \in P /\ Rank(P, n) = k
    BY <1>2, NthOne
  <2>2. Upto(P, n) \in SUBSET P
    BY DEF Upto
  <2>3. Upto(shifted, n + d) = {m + d : m \in Upto(P, n)}
    <3>. HIDE DEF n
    <3>1. \A m \in P : m + d <= n + d <=> m <= n
      <4>1. n \in Nat /\ \A m \in P : m \in Nat
        BY <2>1
      <4>. QED
        BY <4>1
    <3>2. \A t : t \in Upto(shifted, n + d) <=> \E m \in P : t = m + d /\ m + d <= n + d
      BY DEF Upto
    <3>3. \A t : t \in {m + d : m \in Upto(P, n)} <=> \E m \in P : t = m + d /\ m <= n
      BY DEF Upto
    <3>. QED
      BY ONLY <3>1, <3>2, <3>3
  <2>. HIDE DEF n
  <2>4. IsFiniteSet(Upto(P, n)) /\ Upto(P, n) \in SUBSET Nat
    BY <2>2, FS_Subset
  <2>5. Rank(shifted, n + d) = k
    BY <2>1, <2>3, <2>4, ShiftSize DEF Rank
  <2>6. n + d \in shifted
    BY <2>1
  <2>. QED
    BY <1>1, <2>5, <2>6, NthOne DEF n
<1>. QED
  BY <1>1, <1>2

(* What a comprehension keeps: the members at the places, each once.       *)
LEMMA KeepIs ==
  ASSUME NEW T, NEW seq \in Seq(T), NEW P \in SUBSET DOMAIN seq, NEW S,
         \A n \in P : seq[n] \in S
  PROVE  /\ P \in SUBSET Nat /\ IsFiniteSet(P) /\ Cardinality(P) \in Nat
         /\ Keep(seq, P) \in Seq(S) /\ Len(Keep(seq, P)) = Cardinality(P)
         /\ \A k \in 1 .. Cardinality(P) : Nth(P, k) \in P /\ Keep(seq, P)[k] = seq[Nth(P, k)]
         /\ \A n \in P : \E k \in 1 .. Cardinality(P) : Keep(seq, P)[k] = seq[n]
         /\ (\A m, n \in P : seq[m] = seq[n] => m = n) => IsInjective(Keep(seq, P))
<1>1. Len(seq) \in Nat /\ DOMAIN seq = 1 .. Len(seq)
  OBVIOUS
<1>2. P \in SUBSET Nat /\ P \in SUBSET (1 .. Len(seq))
  BY <1>1
<1>3. IsFiniteSet(P)
  <2>1. IsFiniteSet(1 .. Len(seq))
    BY <1>1, FS_Interval
  <2>. QED
    BY <1>2, <2>1, FS_Subset
<1>4. Cardinality(P) \in Nat
  BY <1>3, FS_CardinalityType
<1>5. \A k \in 1 .. Cardinality(P) : Nth(P, k) \in P /\ Rank(P, Nth(P, k)) = k
  BY <1>2, <1>3, NthOne
<1>6. \A n \in P : Rank(P, n) \in 1 .. Cardinality(P) /\ Nth(P, Rank(P, n)) = n
  BY <1>2, <1>3, NthOne, Ranks
<1>. DEFINE kept == Keep(seq, P)
<1>7. kept = [k \in 1 .. Cardinality(P) |-> seq[Nth(P, k)]]
  BY DEF Keep
<1>. HIDE DEF kept
<1>8. kept \in Seq(S) /\ Len(kept) = Cardinality(P) /\ DOMAIN kept = 1 .. Cardinality(P)
  <2>1. \A k \in 1 .. Cardinality(P) : seq[Nth(P, k)] \in S
    BY <1>5
  <2>2. kept \in [1 .. Cardinality(P) -> S]
    BY <1>7, <2>1
  <2>. QED
    BY <1>4, <2>2
<1>9. \A n \in P : \E k \in 1 .. Cardinality(P) : kept[k] = seq[n]
  BY <1>6, <1>7
<1>10. ASSUME \A m, n \in P : seq[m] = seq[n] => m = n PROVE IsInjective(kept)
  <2>1. ASSUME NEW j \in 1 .. Cardinality(P), NEW k \in 1 .. Cardinality(P), kept[j] = kept[k]
        PROVE  j = k
    <3>1. Nth(P, j) = Nth(P, k)
      BY <1>5, <1>7, <1>10, <2>1
    <3>. QED
      BY <1>5, <3>1
  <2>. QED
    BY <1>8, <2>1 DEF IsInjective
<1>. QED
  BY <1>2, <1>3, <1>4, <1>5, <1>7, <1>8, <1>9, <1>10 DEF kept

(* Slices.                                                                 *)
LEMMA PrefixIs ==
  ASSUME NEW T, NEW seq \in Seq(T), NEW n \in Nat
  PROVE  /\ Prefix(seq, n) \in Seq(T)
         /\ Len(Prefix(seq, n)) = IF n < Len(seq) THEN n ELSE Len(seq)
         /\ \A k \in 1 .. Len(Prefix(seq, n)) : Prefix(seq, n)[k] = seq[k]
         /\ IsInjective(seq) => IsInjective(Prefix(seq, n))
<1>. DEFINE m == IF n < Len(seq) THEN n ELSE Len(seq)
            cut == SubSeq(seq, 1, m)
<1>1. m \in 0 .. Len(seq) /\ Len(seq) \in Nat
  OBVIOUS
<1>. HIDE DEF m
<1>2. cut \in Seq(T) /\ Len(cut) = m /\ \A k \in 1 .. m : cut[k] = seq[k]
  BY <1>1
<1>3. DOMAIN cut = 1 .. m /\ DOMAIN seq = 1 .. Len(seq)
  BY <1>2
<1>4. ASSUME IsInjective(seq) PROVE IsInjective(cut)
  BY <1>1, <1>2, <1>3, <1>4 DEF IsInjective
<1>5. Prefix(seq, n) = cut
  BY DEF Prefix, m
<1>. QED
  BY <1>2, <1>4, <1>5 DEF m

LEMMA RestIs ==
  ASSUME NEW T, NEW seq \in Seq(T), NEW m \in 0 .. Len(seq)
  PROVE  /\ SubSeq(seq, m + 1, Len(seq)) \in Seq(T)
         /\ Len(SubSeq(seq, m + 1, Len(seq))) = Len(seq) - m
         /\ \A k \in 1 .. Len(seq) - m : SubSeq(seq, m + 1, Len(seq))[k] = seq[m + k]
<1>1. Len(seq) \in Nat
  OBVIOUS
<1>2. /\ SubSeq(seq, m + 1, Len(seq)) \in Seq(T)
      /\ Len(SubSeq(seq, m + 1, Len(seq))) = Len(seq) - m
  BY <1>1
<1>3. \A k \in 1 .. Len(seq) - m :
        SubSeq(seq, m + 1, Len(seq))[k] = seq[(m + 1) + k - 1] /\ (m + 1) + k - 1 = m + k
  BY <1>1
<1>. QED
  BY <1>2, <1>3

(* Sequences are equal when they agree place by place.                     *)
LEMMA SameSeq ==
  ASSUME NEW T, NEW s \in Seq(T), NEW t \in Seq(T), Len(s) = Len(t),
         \A k \in 1 .. Len(s) : s[k] = t[k]
  PROVE  s = t
<1>1. s = [k \in 1 .. Len(s) |-> s[k]] /\ t = [k \in 1 .. Len(t) |-> t[k]]
  OBVIOUS
<1>. QED
  BY <1>1

(* What the two ways to take the coins of a page return (_pump_coins and   *)
(* the loop of _board): coins only, and all of them; found.setdefault      *)
(* takes none twice and lets the earlier ones stand.                       *)
PumpPlaces(rows) == {n \in DOMAIN rows : IsPump(rows[n])}

LEMMA PumpRowsAre ==
  ASSUME NEW rows \in Seq(Rows)
  PROVE  /\ PumpRows(rows) \in Seq(PumpCoins)
         /\ Len(PumpRows(rows)) = Cardinality(PumpPlaces(rows))
         /\ \A k \in 1 .. Len(PumpRows(rows)) : \E n \in 1 .. Len(rows) : PumpRows(rows)[k] = rows[n]
         /\ \A n \in 1 .. Len(rows) : IsPump(rows[n]) => Contains(PumpRows(rows), rows[n])
         /\ IsInjective(rows) => IsInjective(PumpRows(rows))
<1>1. PumpPlaces(rows) \in SUBSET DOMAIN rows /\ PumpRows(rows) = Keep(rows, PumpPlaces(rows))
      /\ DOMAIN rows = 1 .. Len(rows)
  BY DEF PumpPlaces, PumpRows
<1>2. \A n \in PumpPlaces(rows) : rows[n] \in PumpCoins
  BY DEF PumpPlaces, IsPump
<1>3. IsInjective(rows) => \A m, n \in PumpPlaces(rows) : rows[m] = rows[n] => m = n
  BY <1>1 DEF IsInjective
<1>4. /\ PumpRows(rows) \in Seq(PumpCoins)
      /\ Len(PumpRows(rows)) = Cardinality(PumpPlaces(rows))
      /\ IsInjective(rows) => IsInjective(PumpRows(rows))
  BY <1>1, <1>2, <1>3, KeepIs
<1>5. \A k \in 1 .. Cardinality(PumpPlaces(rows)) :
        Nth(PumpPlaces(rows), k) \in PumpPlaces(rows)
        /\ PumpRows(rows)[k] = rows[Nth(PumpPlaces(rows), k)]
  BY <1>1, <1>2, KeepIs
<1>6. \A n \in PumpPlaces(rows) :
        \E k \in 1 .. Cardinality(PumpPlaces(rows)) : PumpRows(rows)[k] = rows[n]
  BY <1>1, <1>2, KeepIs
<1>7. \A n \in 1 .. Len(rows) : IsPump(rows[n]) => n \in PumpPlaces(rows)
  BY <1>1 DEF PumpPlaces
<1>8. \A n \in 1 .. Len(rows) : IsPump(rows[n]) => Contains(PumpRows(rows), rows[n])
  BY <1>4, <1>6, <1>7 DEF Contains
<1>. QED
  BY <1>1, <1>4, <1>5, <1>8

NewPlaces(rows, page) ==
  {n \in DOMAIN page : /\ IsPump(page[n]) /\ ~Contains(rows, page[n])
                       /\ \A m \in 1 .. n - 1 : page[m] # page[n]}

LEMMA Collected ==
  ASSUME NEW rows \in Seq(PumpCoins), NEW page \in Seq(Rows)
  PROVE  LET new == Keep(page, NewPlaces(rows, page))
             all == Collect(rows, page)
         IN  /\ all \in Seq(PumpCoins) /\ new \in Seq(PumpCoins)
             /\ Len(all) = Len(rows) + Len(new)
             /\ \A k \in 1 .. Len(rows) : all[k] = rows[k]
             /\ \A k \in 1 .. Len(new) : all[Len(rows) + k] = new[k]
<1>. DEFINE P == NewPlaces(rows, page)
            new == Keep(page, P)
<1>1. P \in SUBSET DOMAIN page /\ \A n \in P : page[n] \in PumpCoins
  BY DEF NewPlaces, IsPump
<1>. HIDE DEF P
<1>2. new \in Seq(PumpCoins)
  BY <1>1, KeepIs
<1>3. Collect(rows, page) = rows \o new
  BY DEF Collect, NewPlaces, P
<1>. HIDE DEF new
<1>4. /\ rows \o new \in Seq(PumpCoins) /\ Len(rows \o new) = Len(rows) + Len(new)
      /\ \A k \in 1 .. Len(rows) : (rows \o new)[k] = rows[k]
      /\ \A k \in 1 .. Len(new) : (rows \o new)[Len(rows) + k] = new[k]
  BY <1>2
<1>. QED
  BY <1>2, <1>3, <1>4 DEF new, P

LEMMA CollectedOnce ==
  ASSUME NEW rows \in Seq(PumpCoins), IsInjective(rows), NEW page \in Seq(Rows)
  PROVE  IsInjective(Collect(rows, page))
<1>. DEFINE P == NewPlaces(rows, page)
            new == Keep(page, P)
            all == Collect(rows, page)
<1>1. /\ P \in SUBSET DOMAIN page
      /\ \A n \in P : page[n] \in PumpCoins /\ ~Contains(rows, page[n])
  BY DEF NewPlaces, IsPump
<1>2. \A m, n \in P : page[m] = page[n] => m = n
  <2>1. \A m, n \in P : m < n => page[m] # page[n]
    BY DEF NewPlaces
  <2>2. \A m, n \in P : m \in Int /\ n \in Int
    BY <1>1
  <2>3. \A m, n \in P : m < n \/ n < m \/ m = n
    BY <2>2
  <2>. QED
    BY <2>1, <2>3
<1>. HIDE DEF P
<1>3. IsInjective(new)
  BY <1>1, <1>2, KeepIs
<1>4. /\ new \in Seq(PumpCoins)
      /\ \A k \in 1 .. Len(new) : \E n \in P : new[k] = page[n]
  BY <1>1, KeepIs
<1>5. /\ all \in Seq(PumpCoins) /\ Len(all) = Len(rows) + Len(new)
      /\ \A k \in 1 .. Len(rows) : all[k] = rows[k]
      /\ \A k \in 1 .. Len(new) : all[Len(rows) + k] = new[k]
  BY Collected DEF P
<1>. HIDE DEF new, all
<1>6. Len(rows) \in Nat /\ Len(new) \in Nat
  BY <1>4
<1>7. ASSUME NEW j \in 1 .. Len(all), NEW k \in 1 .. Len(all), all[j] = all[k] PROVE j = k
  <2>1. CASE j <= Len(rows) /\ k <= Len(rows)
    <3>1. rows[j] = rows[k] /\ j \in DOMAIN rows /\ k \in DOMAIN rows
      BY <1>5, <1>6, <1>7, <2>1
    <3>. QED
      BY <3>1 DEF IsInjective
  <2>2. CASE ~(j <= Len(rows)) /\ ~(k <= Len(rows))
    <3>. DEFINE i == j - Len(rows)
                h == k - Len(rows)
    <3>1. i \in 1 .. Len(new) /\ h \in 1 .. Len(new) /\ j = Len(rows) + i /\ k = Len(rows) + h
      BY <1>5, <1>6, <2>2
    <3>2. new[i] = new[h] /\ DOMAIN new = 1 .. Len(new)
      BY <1>4, <1>5, <1>7, <3>1
    <3>3. i = h
      BY <1>3, <3>1, <3>2 DEF IsInjective
    <3>. QED
      BY <3>1, <3>3
  <2>3. ASSUME NEW i \in 1 .. Len(all), NEW h \in 1 .. Len(all), i <= Len(rows),
               ~(h <= Len(rows))
        PROVE  all[i] # all[h]
    <3>. DEFINE g == h - Len(rows)
    <3>1. g \in 1 .. Len(new) /\ h = Len(rows) + g /\ i \in 1 .. Len(rows)
      BY <1>5, <1>6, <2>3
    <3>2. all[i] = rows[i] /\ all[h] = new[g]
      BY <1>5, <3>1
    <3>3. PICK n \in P : new[g] = page[n]
      BY <1>4, <3>1
    <3>. QED
      BY <1>1, <3>1, <3>2, <3>3 DEF Contains
  <2>. QED
    BY <1>7, <2>1, <2>2, <2>3
<1>. QED
  BY <1>5, <1>7 DEF IsInjective, all

LEMMA CollectedAll ==
  ASSUME NEW rows \in Seq(PumpCoins), NEW page \in Seq(Rows), IsInjective(page)
  PROVE  /\ \A k \in 1 .. Len(rows) : Contains(Collect(rows, page), rows[k])
         /\ \A n \in 1 .. Len(page) : IsPump(page[n]) => Contains(Collect(rows, page), page[n])
<1>. DEFINE P == NewPlaces(rows, page)
            new == Keep(page, P)
            all == Collect(rows, page)
<1>1. P \in SUBSET DOMAIN page /\ \A n \in P : page[n] \in PumpCoins
  BY DEF NewPlaces, IsPump
<1>2. /\ new \in Seq(PumpCoins) /\ Len(new) = Cardinality(P)
      /\ \A n \in P : \E k \in 1 .. Len(new) : new[k] = page[n]
  <2>. HIDE DEF P
  <2>. QED
    BY <1>1, KeepIs
<1>3. /\ all \in Seq(PumpCoins) /\ Len(all) = Len(rows) + Len(new)
      /\ \A k \in 1 .. Len(rows) : all[k] = rows[k]
      /\ \A k \in 1 .. Len(new) : all[Len(rows) + k] = new[k]
  BY Collected
<1>4. Len(rows) \in Nat /\ Len(new) \in Nat /\ DOMAIN page = 1 .. Len(page)
  BY <1>2
<1>. HIDE DEF new, all
<1>5. \A k \in 1 .. Len(rows) : Contains(all, rows[k])
  <2>1. \A k \in 1 .. Len(rows) : k \in 1 .. Len(all)
    BY <1>3, <1>4
  <2>. QED
    BY <1>3, <2>1 DEF Contains
<1>6. \A k \in 1 .. Len(new) : Contains(all, new[k])
  <2>1. \A k \in 1 .. Len(new) : Len(rows) + k \in 1 .. Len(all)
    BY <1>3, <1>4
  <2>. QED
    BY <1>3, <2>1 DEF Contains
<1>7. ASSUME NEW n \in 1 .. Len(page), IsPump(page[n]) PROVE Contains(all, page[n])
  <2>1. CASE Contains(rows, page[n])
    BY <1>5, <2>1 DEF Contains
  <2>2. CASE ~Contains(rows, page[n])
    <3>1. \A m \in 1 .. n - 1 : page[m] # page[n]
      BY <1>4 DEF IsInjective
    <3>2. n \in P
      BY <1>4, <1>7, <2>2, <3>1 DEF NewPlaces
    <3>. QED
      BY <1>2, <1>6, <3>2
  <2>. QED
    BY <2>1, <2>2
<1>. QED
  BY <1>5, <1>7 DEF all

(* Pages.  On a board that lists no row twice the first page is taken      *)
(* whole; the coins of a top of the board are the first of its coins.      *)
LEMMA FirstPage ==
  ASSUME NEW rows \in Seq(Rows), IsInjective(rows)
  PROVE  Collect(<<>>, rows) = PumpRows(rows)
<1>1. \A n \in DOMAIN rows : \A m \in 1 .. n - 1 : rows[m] # rows[n]
  <2>1. DOMAIN rows = 1 .. Len(rows) /\ Len(rows) \in Nat
    OBVIOUS
  <2>2. \A n \in 1 .. Len(rows) : \A m \in 1 .. n - 1 : m \in 1 .. Len(rows) /\ m # n
    BY <2>1
  <2>. QED
    BY <2>1, <2>2 DEF IsInjective
<1>2. \A r : ~Contains(<<>>, r)
  BY DEF Contains
<1>3. NewPlaces(<<>>, rows) = PumpPlaces(rows)
  BY <1>1, <1>2 DEF NewPlaces, PumpPlaces
<1>4. Collect(<<>>, rows) = <<>> \o PumpRows(rows)
  BY <1>3 DEF Collect, NewPlaces, PumpRows, PumpPlaces
<1>5. PumpRows(rows) \in Seq(PumpCoins)
  BY PumpRowsAre
<1>. QED
  BY <1>4, <1>5

LEMMA TopOfTheRows ==
  ASSUME NEW rows \in Seq(Rows), NEW c \in Nat
  PROVE  LET top == PumpRows(Prefix(rows, c))
             r == Rank(PumpPlaces(rows), c)
         IN  /\ PumpPlaces(Prefix(rows, c)) = Upto(PumpPlaces(rows), c)
             /\ r \in Nat /\ r <= Len(PumpRows(rows)) /\ Len(top) = r
             /\ \A k \in 1 .. r : top[k] = PumpRows(rows)[k]
<1>. DEFINE cut == Prefix(rows, c)
            P == PumpPlaces(rows)
            Q == PumpPlaces(cut)
            above == {n \in P : ~(n <= c)}
<1>1. /\ cut \in Seq(Rows) /\ Len(rows) \in Nat /\ Len(cut) \in Nat
      /\ DOMAIN cut = 1 .. Len(cut) /\ DOMAIN rows = 1 .. Len(rows)
      /\ Len(cut) = IF c < Len(rows) THEN c ELSE Len(rows)
      /\ \A k \in 1 .. Len(cut) : cut[k] = rows[k]
  BY PrefixIs
<1>. HIDE DEF cut
<1>2. Q = Upto(P, c)
  <2>1. \A n : n \in 1 .. Len(cut) <=> n \in 1 .. Len(rows) /\ n <= c
    BY <1>1
  <2>2. \A n : n \in Q <=> n \in 1 .. Len(cut) /\ IsPump(rows[n])
    BY <1>1 DEF PumpPlaces
  <2>3. \A n : n \in Upto(P, c) <=> n \in 1 .. Len(rows) /\ IsPump(rows[n]) /\ n <= c
    BY <1>1 DEF PumpPlaces, Upto
  <2>. HIDE DEF P, Q
  <2>. QED
    BY <2>1, <2>2, <2>3
<1>3. P \in SUBSET DOMAIN rows /\ Q \in SUBSET DOMAIN cut
  BY DEF PumpPlaces
<1>4. PumpRows(rows) = Keep(rows, P) /\ PumpRows(cut) = Keep(cut, Q)
  BY DEF PumpRows, PumpPlaces
<1>5. /\ \A n \in P : rows[n] \in PumpCoins
      /\ \A n \in Q : cut[n] \in PumpCoins
  BY DEF PumpPlaces, IsPump
<1>. HIDE DEF P, Q
<1>6. /\ P \in SUBSET Nat /\ IsFiniteSet(P) /\ Len(PumpRows(rows)) = Cardinality(P)
      /\ \A k \in 1 .. Cardinality(P) : PumpRows(rows)[k] = rows[Nth(P, k)]
  BY <1>3, <1>4, <1>5, KeepIs
<1>7. /\ Len(PumpRows(cut)) = Cardinality(Q)
      /\ \A k \in 1 .. Cardinality(Q) : Nth(Q, k) \in Q /\ PumpRows(cut)[k] = cut[Nth(Q, k)]
  BY <1>1, <1>3, <1>4, <1>5, KeepIs
<1>. DEFINE r == Rank(P, c)
<1>8. /\ r \in Nat /\ Cardinality(above) \in Nat
      /\ Cardinality(P) = r + Cardinality(above)
      /\ \A k \in 1 .. r : Nth(P, k) = Nth(Q, k)
  BY <1>2, <1>6, NthSplits
<1>9. Cardinality(Q) = r
  BY <1>2 DEF Rank
<1>. HIDE DEF r, above
<1>10. \A k \in 1 .. r : PumpRows(cut)[k] = PumpRows(rows)[k]
  <2>1. ASSUME NEW k \in 1 .. r PROVE PumpRows(cut)[k] = PumpRows(rows)[k]
    <3>1. k \in 1 .. Cardinality(P)
      BY <1>8
    <3>2. Nth(Q, k) \in 1 .. Len(cut) /\ PumpRows(cut)[k] = cut[Nth(Q, k)]
      BY <1>1, <1>3, <1>7, <1>9
    <3>. QED
      BY <1>1, <1>6, <1>8, <3>1, <3>2
  <2>. QED
    BY <2>1
<1>. QED
  BY <1>2, <1>6, <1>7, <1>8, <1>9, <1>10 DEF cut, P, Q, r

(* Two overlapping pages of a board that does not move are its coins       *)
(* within reach.                                                           *)
LEMMA TwoPages ==
  ASSUME NEW rows \in Seq(Rows), IsInjective(rows), Len(rows) >= Page
  PROVE  Collect(Collect(<<>>, Prefix(rows, Page)),
                 Prefix(SubSeq(rows, MaxOffset + 1, Len(rows)), Page))
           = PumpRows(Prefix(rows, Reach))
<1>. DEFINE top == Prefix(rows, Reach)
            one == Prefix(rows, Page)
            rest == SubSeq(rows, MaxOffset + 1, Len(rows))
            two == Prefix(rest, Page)
            P == PumpPlaces(top)
            Q == NewPlaces(PumpRows(one), two)
            above == {n \in P : ~(n <= Page)}
            r == Rank(P, Page)
<1>1. /\ Page \in Nat \ {0} /\ MaxOffset \in Nat /\ Page = MaxOffset + 1
      /\ Reach = MaxOffset + Page /\ Reach \in Nat /\ Len(rows) \in Nat
  BY TokenListsAssumption DEF Reach
<1>2. /\ top \in Seq(Rows) /\ IsInjective(top)
      /\ Len(top) = IF Reach < Len(rows) THEN Reach ELSE Len(rows)
      /\ \A k \in 1 .. Len(top) : top[k] = rows[k]
  BY <1>1, PrefixIs
<1>3. /\ one \in Seq(Rows) /\ IsInjective(one) /\ Len(one) = Page
      /\ \A k \in 1 .. Page : one[k] = rows[k]
  BY <1>1, PrefixIs
<1>4. /\ rest \in Seq(Rows) /\ Len(rest) = Len(rows) - MaxOffset
      /\ \A k \in 1 .. Len(rest) : rest[k] = rows[MaxOffset + k]
  <2>1. MaxOffset \in 0 .. Len(rows)
    BY <1>1
  <2>. QED
    BY <1>1, <2>1, RestIs
<1>. HIDE DEF rest, top, one
<1>5. /\ two \in Seq(Rows) /\ Len(two) = IF Page < Len(rest) THEN Page ELSE Len(rest)
      /\ \A k \in 1 .. Len(two) : two[k] = rest[k]
  BY <1>1, <1>4, PrefixIs
<1>. HIDE DEF two
<1>6. /\ Len(top) \in Nat /\ Len(two) \in Nat /\ Len(top) = MaxOffset + Len(two) /\ Len(two) >= 1
      /\ Page <= Len(top)
  BY <1>1, <1>2, <1>4, <1>5
<1>7. \A k \in 1 .. Len(two) : two[k] = top[MaxOffset + k] /\ MaxOffset + k \in 1 .. Len(top)
  BY <1>1, <1>2, <1>4, <1>5, <1>6
<1>8. \A k \in 1 .. Page : one[k] = top[k]
  BY <1>1, <1>2, <1>3, <1>6
<1>9. DOMAIN top = 1 .. Len(top) /\ DOMAIN two = 1 .. Len(two) /\ DOMAIN one = 1 .. Page
  BY <1>1, <1>2, <1>3, <1>5
<1>10. one = Prefix(top, Page)
  <2>1. /\ Prefix(top, Page) \in Seq(Rows) /\ Len(Prefix(top, Page)) = Page
        /\ \A k \in 1 .. Page : Prefix(top, Page)[k] = top[k]
    BY <1>1, <1>2, <1>6, PrefixIs
  <2>. QED
    BY <1>3, <1>8, <2>1, SameSeq
<1>11. /\ r \in Nat /\ Len(PumpRows(one)) = r /\ PumpPlaces(one) = Upto(P, Page)
       /\ \A k \in 1 .. r : PumpRows(one)[k] = PumpRows(top)[k]
  BY <1>1, <1>2, <1>10, TopOfTheRows
<1>12. PumpRows(one) \in Seq(PumpCoins) /\ Collect(<<>>, one) = PumpRows(one)
  BY <1>3, PumpRowsAre, FirstPage
<1>13. /\ \A k \in 1 .. r : \E n \in 1 .. Page : PumpRows(one)[k] = top[n]
       /\ \A n \in 1 .. Page : IsPump(top[n]) => Contains(PumpRows(one), top[n])
  <2>1. /\ \A k \in 1 .. Len(PumpRows(one)) : \E n \in 1 .. Len(one) : PumpRows(one)[k] = one[n]
        /\ \A n \in 1 .. Len(one) : IsPump(one[n]) => Contains(PumpRows(one), one[n])
    BY <1>3, PumpRowsAre
  <2>. HIDE DEF r
  <2>2. \A n \in 1 .. Page : IsPump(top[n]) => Contains(PumpRows(one), top[n])
    BY <1>3, <1>8, <2>1
  <2>3. \A k \in 1 .. r : \E n \in 1 .. Page : PumpRows(one)[k] = top[n]
    BY <1>3, <1>8, <1>11, <2>1
  <2>. QED
    BY <2>2, <2>3
<1>14. Q = {n \in 1 .. Len(two) : IsPump(top[MaxOffset + n]) /\ n # 1}
  <2>1. ASSUME NEW n \in 1 .. Len(two), n # 1, IsPump(two[n]) PROVE n \in Q
    <3>1. ~Contains(PumpRows(one), two[n])
      <4>1. \A m \in 1 .. Page : m \in 1 .. Len(top) /\ m # MaxOffset + n
        BY <1>1, <1>6, <2>1
      <4>2. \A m \in 1 .. Page : top[m] # top[MaxOffset + n]
        BY <1>2, <1>7, <1>9, <4>1 DEF IsInjective
      <4>. QED
        BY <1>7, <1>11, <1>13, <4>2 DEF Contains
    <3>2. \A m \in 1 .. n - 1 : two[m] # two[n]
      <4>1. \A m \in 1 .. n - 1 : m \in 1 .. Len(two) /\ MaxOffset + m # MaxOffset + n
        BY <1>1, <1>6
      <4>2. \A m \in 1 .. n - 1 : top[MaxOffset + m] # top[MaxOffset + n]
        BY <1>2, <1>7, <1>9, <4>1 DEF IsInjective
      <4>. QED
        BY <1>7, <4>1, <4>2
    <3>. QED
      BY <1>9, <2>1, <3>1, <3>2 DEF NewPlaces
  <2>2. ASSUME NEW n \in Q PROVE n \in 1 .. Len(two) /\ IsPump(two[n]) /\ n # 1
    <3>1. n \in 1 .. Len(two) /\ IsPump(two[n]) /\ ~Contains(PumpRows(one), two[n])
      BY <1>9, <2>2 DEF NewPlaces
    <3>2. n = 1 => two[n] = top[Page] /\ Page \in 1 .. Page
      BY <1>1, <1>7, <3>1
    <3>. QED
      BY <1>13, <3>1, <3>2
  <2>. HIDE DEF Q
  <2>. QED
    BY <1>7, <2>1, <2>2
<1>15. P = {n \in 1 .. Len(top) : IsPump(top[n])}
  BY <1>9 DEF PumpPlaces
<1>16. above = {n + MaxOffset : n \in Q}
  <2>1. ASSUME NEW n \in 1 .. Len(top), ~(n <= Page), IsPump(top[n])
        PROVE  \E m \in Q : n = m + MaxOffset
    <3>. DEFINE m == n - MaxOffset
    <3>1. m \in 1 .. Len(two) /\ m # 1 /\ MaxOffset + m = n /\ n = m + MaxOffset
      BY <1>1, <1>6, <2>1
    <3>. HIDE DEF m, Q
    <3>. QED
      BY <1>14, <2>1, <3>1
  <2>2. ASSUME NEW m \in Q
        PROVE  m + MaxOffset \in 1 .. Len(top) /\ ~(m + MaxOffset <= Page)
               /\ IsPump(top[m + MaxOffset])
    <3>. HIDE DEF Q
    <3>1. m \in 1 .. Len(two) /\ m # 1 /\ IsPump(top[MaxOffset + m])
      BY <1>14, <2>2
    <3>2. MaxOffset + m = m + MaxOffset
      BY <1>1, <3>1
    <3>. QED
      BY <1>1, <1>6, <3>1, <3>2
  <2>. HIDE DEF Q
  <2>3. \A n : n \in above <=> n \in 1 .. Len(top) /\ IsPump(top[n]) /\ ~(n <= Page)
    BY <1>15
  <2>4. \A n : n \in {m + MaxOffset : m \in Q} <=> \E m \in Q : n = m + MaxOffset
    OBVIOUS
  <2>. HIDE DEF above
  <2>. QED
    BY <2>1, <2>2, <2>3, <2>4
<1>17. /\ Q \in SUBSET DOMAIN two /\ P \in SUBSET DOMAIN top
       /\ \A n \in Q : two[n] \in PumpCoins
       /\ \A n \in P : top[n] \in PumpCoins
  BY DEF NewPlaces, PumpPlaces, IsPump
<1>. DEFINE new == Keep(two, Q)
<1>18. /\ Collect(PumpRows(one), two) \in Seq(PumpCoins) /\ new \in Seq(PumpCoins)
       /\ Len(Collect(PumpRows(one), two)) = r + Len(new)
       /\ \A k \in 1 .. r : Collect(PumpRows(one), two)[k] = PumpRows(one)[k]
       /\ \A k \in 1 .. Len(new) : Collect(PumpRows(one), two)[r + k] = new[k]
  <2>. DEFINE rows1 == PumpRows(one)
  <2>1. rows1 \in Seq(PumpCoins) /\ Len(rows1) = r
    BY <1>11, <1>12
  <2>2. Q = NewPlaces(rows1, two)
    OBVIOUS
  <2>. HIDE DEF rows1, r, Q
  <2>3. /\ Collect(rows1, two) \in Seq(PumpCoins) /\ new \in Seq(PumpCoins)
        /\ Len(Collect(rows1, two)) = Len(rows1) + Len(new)
        /\ \A k \in 1 .. Len(rows1) : Collect(rows1, two)[k] = rows1[k]
        /\ \A k \in 1 .. Len(new) : Collect(rows1, two)[Len(rows1) + k] = new[k]
    BY <1>5, <2>1, <2>2, Collected
  <2>. QED
    BY <2>1, <2>3 DEF rows1
<1>19. PumpRows(top) = Keep(top, P)
  BY DEF PumpRows, PumpPlaces
<1>. HIDE DEF P, Q
<1>20. /\ Q \in SUBSET Nat /\ IsFiniteSet(Q) /\ Cardinality(Q) \in Nat
       /\ Len(new) = Cardinality(Q)
       /\ \A k \in 1 .. Cardinality(Q) : Nth(Q, k) \in Q /\ new[k] = two[Nth(Q, k)]
  BY <1>5, <1>17, KeepIs
<1>21. /\ P \in SUBSET Nat /\ IsFiniteSet(P) /\ PumpRows(top) \in Seq(PumpCoins)
       /\ Len(PumpRows(top)) = Cardinality(P)
       /\ \A k \in 1 .. Cardinality(P) : PumpRows(top)[k] = top[Nth(P, k)]
  BY <1>2, <1>17, <1>19, KeepIs
<1>22. /\ Cardinality(P) = r + Cardinality(above)
       /\ \A k \in 1 .. Cardinality(above) : Nth(P, r + k) = Nth(above, k)
  BY <1>1, <1>21, NthSplits
<1>23. /\ Cardinality(above) = Cardinality(Q)
       /\ \A k \in 1 .. Cardinality(Q) : Nth(above, k) = Nth(Q, k) + MaxOffset
  <2>. HIDE DEF above
  <2>1. Q \in SUBSET Nat /\ IsFiniteSet(Q) /\ MaxOffset \in Nat
    BY ONLY <1>1, <1>20
  <2>. QED
    BY ONLY <1>16, <2>1, NthShifts
<1>. HIDE DEF r, new, above
<1>24. \A k \in 1 .. Len(new) : new[k] = PumpRows(top)[r + k]
  <2>. SUFFICES ASSUME NEW k \in 1 .. Len(new) PROVE new[k] = PumpRows(top)[r + k]
    OBVIOUS
  <2>1. r + k \in 1 .. Cardinality(P)
    BY <1>11, <1>20, <1>22, <1>23
  <2>2. Nth(Q, k) \in 1 .. Len(two) /\ new[k] = two[Nth(Q, k)]
    BY <1>9, <1>17, <1>20
  <2>3. new[k] = top[MaxOffset + Nth(Q, k)]
    BY <1>7, <2>2
  <2>4. Nth(P, r + k) = MaxOffset + Nth(Q, k)
    BY <1>1, <1>20, <1>22, <1>23, <2>2
  <2>. QED
    BY <1>21, <2>1, <2>3, <2>4
<1>25. \A k \in 1 .. r + Len(new) : Collect(PumpRows(one), two)[k] = PumpRows(top)[k]
  <2>. SUFFICES ASSUME NEW k \in 1 .. r + Len(new)
                PROVE  Collect(PumpRows(one), two)[k] = PumpRows(top)[k]
    OBVIOUS
  <2>1. CASE k <= r
    BY <1>11, <1>18, <2>1
  <2>2. CASE ~(k <= r)
    <3>. DEFINE j == k - r
    <3>1. j \in 1 .. Len(new) /\ k = r + j
      BY <1>11, <1>18, <2>2
    <3>. HIDE DEF j
    <3>. QED
      BY <1>18, <1>24, <3>1
  <2>. QED
    BY <2>1, <2>2
<1>26. Len(PumpRows(top)) = r + Len(new)
  BY <1>20, <1>21, <1>22, <1>23
<1>27. Collect(PumpRows(one), two) = PumpRows(top)
  BY <1>18, <1>21, <1>25, <1>26, SameSeq
<1>. QED
  BY <1>12, <1>27 DEF one, two, top, rest

(* Typing, and a board, as it was and as it is, that lists no row twice.   *)
Boards == {rows \in Seq(Rows) : IsInjective(rows)}

ListTyped ==
  /\ ListTypeOK /\ ask \in Asks
  /\ board \in Boards
  /\ boards \in [first : Boards, last : Boards, pages : 0 .. 2]
  /\ accounts \in Seq(Rows \cup {NoCurve}) /\ chain \in Seq(Rows \cup {NoCurve})
  /\ at \in 1 .. Len(found) + 1
  /\ decimals \cap BadQuotes = {}

(* Between the pages: before the first of them, or after a first one that  *)
(* was full and had too few coins.                                         *)
Paging ==
  lpc = "page" =>
    /\ listed = "none" /\ chain = <<>>
    /\ \/ boards.pages = 0 /\ offset = 0 /\ found = <<>>
       \/ /\ boards.pages = 1 /\ ask.source = "board" /\ offset = MaxOffset
          /\ Len(boards.first) >= Page
          /\ found = Collect(<<>>, Prefix(boards.first, Page))
          /\ Len(found) < ask.limit

(* After them.                                                             *)
Paged ==
  /\ lpc # "page" /\ listed # "api_error" =>
       /\ IsInjective(found) /\ Len(found) <= ask.limit /\ FirstOfTheBoard
       /\ Len(chain) = Len(found)
  /\ listed = "none" <=> lpc # "done"

(* The accounts read so far are those of the first rows.                   *)
AccountsInStep ==
  /\ Len(accounts) <= Len(found)
  /\ \A n \in DOMAIN accounts : accounts[n] = AccountsOf(found)[n]
  /\ lpc \in {"page", "global"} => accounts = <<>>
  /\ lpc \in {"page", "global", "accounts"} \/ listed = "listed" => at = 1
  /\ lpc \in {"rows", "mint"} \/ listed = "enriched" => Len(accounts) = Len(found)
  /\ lpc = "mint" => /\ at <= Len(found) /\ Readable(accounts[at])
                     /\ QuoteOf[accounts[at]] \in UnknownQuotes
  /\ listed = "enriched" => at > Len(found)

(* The rows above the one at hand show their curve if it can be read, the  *)
(* others nothing.                                                         *)
ShownAbove ==
  \A n \in DOMAIN chain :
    chain[n] = IF n < at /\ n \in Legible THEN found[n] ELSE NoCurve

ListInv == ListTyped /\ Paging /\ Paged /\ AccountsInStep /\ ShownAbove


(* The slice of a board from its offset (see the page of FetchPage).       *)
LEMMA WholeSlice ==
  ASSUME NEW T, NEW seq \in Seq(T)
  PROVE  /\ SubSeq(seq, 1, Len(seq)) = seq
         /\ \A n \in Nat : n >= Len(seq) => Prefix(seq, n) = seq
<1>. Len(seq) \in Nat
  OBVIOUS
<1>1. SubSeq(seq, 1, Len(seq)) = seq
  <2>1. /\ SubSeq(seq, 1, Len(seq)) \in Seq(T)
        /\ Len(SubSeq(seq, 1, Len(seq))) = Len(seq)
        /\ \A k \in 1 .. Len(seq) : SubSeq(seq, 1, Len(seq))[k] = seq[k]
    OBVIOUS
  <2>. QED
    BY <2>1, SameSeq
<1>2. \A n \in Nat : n >= Len(seq) => Prefix(seq, n) = SubSeq(seq, 1, Len(seq))
  BY DEF Prefix
<1>. QED
  BY <1>1, <1>2

(* One page is enough: it is the whole board, or all that can be reached,  *)
(* or holds as many coins as were asked for.                               *)
LEMMA OnePage ==
  ASSUME NEW rows \in Boards, NEW limit \in Nat,
         \/ Len(rows) < Page \/ MaxOffset = 0
         \/ Len(Collect(<<>>, Prefix(rows, Page))) >= limit
  PROVE  Prefix(Collect(<<>>, Prefix(rows, Page)), limit)
           = Prefix(PumpRows(Prefix(rows, Reach)), limit)
<1>. DEFINE one == Prefix(rows, Page)
            top == Prefix(rows, Reach)
<1>1. /\ rows \in Seq(Rows) /\ IsInjective(rows) /\ Len(rows) \in Nat
      /\ Page \in Nat \ {0} /\ MaxOffset \in Nat /\ Page = MaxOffset + 1
      /\ Reach = MaxOffset + Page /\ Reach \in Nat
  BY TokenListsAssumption DEF Reach, Boards
<1>2. /\ one \in Seq(Rows) /\ IsInjective(one)
      /\ Len(one) = IF Page < Len(rows) THEN Page ELSE Len(rows)
      /\ \A k \in 1 .. Len(one) : one[k] = rows[k]
  BY <1>1, PrefixIs
<1>3. Collect(<<>>, one) = PumpRows(one)
  BY <1>2, FirstPage
<1>4. CASE Len(rows) < Page
  <2>1. one = rows /\ top = rows
    BY <1>1, <1>4, WholeSlice
  <2>. QED
    BY <1>3, <2>1
<1>5. CASE MaxOffset = 0
  BY <1>1, <1>3, <1>5
<1>6. CASE ~(Len(rows) < Page) /\ Len(Collect(<<>>, one)) >= limit
  <2>. DEFINE r == Rank(PumpPlaces(top), Page)
  <2>1. /\ top \in Seq(Rows)
        /\ Len(top) = IF Reach < Len(rows) THEN Reach ELSE Len(rows)
        /\ \A k \in 1 .. Len(top) : top[k] = rows[k]
    BY <1>1, PrefixIs
  <2>. HIDE DEF one, top
  <2>2. /\ Len(one) = Page /\ Len(top) \in Nat /\ Page <= Len(top)
        /\ \A k \in 1 .. Page : one[k] = top[k]
    BY <1>1, <1>2, <1>6, <2>1
  <2>3. /\ Prefix(top, Page) \in Seq(Rows) /\ Len(Prefix(top, Page)) = Page
        /\ \A k \in 1 .. Page : Prefix(top, Page)[k] = top[k]
    BY <1>1, <2>1, <2>2, PrefixIs
  <2>4. one = Prefix(top, Page)
    BY <1>2, <2>2, <2>3, SameSeq
  <2>5. /\ r \in Nat /\ r <= Len(PumpRows(top)) /\ Len(PumpRows(one)) = r
        /\ \A k \in 1 .. r : PumpRows(one)[k] = PumpRows(top)[k]
    BY <1>1, <2>1, <2>4, TopOfTheRows
  <2>6. PumpRows(one) \in Seq(PumpCoins) /\ PumpRows(top) \in Seq(PumpCoins)
    BY <1>2, <2>1, PumpRowsAre
  <2>. HIDE DEF r
  <2>7. limit <= r
    BY <1>3, <1>6, <2>5
  <2>. DEFINE s == Prefix(PumpRows(one), limit)
              t == Prefix(PumpRows(top), limit)
  <2>8. /\ s \in Seq(PumpCoins) /\ Len(s) = IF limit < r THEN limit ELSE r
        /\ \A k \in 1 .. Len(s) : s[k] = PumpRows(one)[k]
    BY <2>5, <2>6, PrefixIs
  <2>9. /\ t \in Seq(PumpCoins)
        /\ Len(t) = IF limit < Len(PumpRows(top)) THEN limit ELSE Len(PumpRows(top))
        /\ \A k \in 1 .. Len(t) : t[k] = PumpRows(top)[k]
    BY <2>6, PrefixIs
  <2>10. Len(PumpRows(top)) \in Nat
    BY <2>6
  <2>. HIDE DEF s, t
  <2>11. Len(s) = limit /\ Len(t) = limit
    BY <2>5, <2>7, <2>8, <2>9, <2>10
  <2>12. \A k \in 1 .. limit : k \in 1 .. r
    BY <2>5, <2>7
  <2>13. \A k \in 1 .. Len(s) : s[k] = t[k]
    BY <2>5, <2>8, <2>9, <2>11, <2>12
  <2>14. s = t
    BY <2>8, <2>9, <2>11, <2>13, SameSeq
  <2>. QED
    BY <1>3, <2>14 DEF s, t, one, top
<1>. QED
  BY <1>4, <1>5, <1>6 DEF one, top

(* A coin's place on a board.                                              *)
LEMMA PlaceIs ==
  ASSUME NEW rows \in Boards, NEW r \in Reachable(rows)
  PROVE  /\ r \in PumpCoins /\ Place(rows, r) \in 1 .. Len(rows) /\ Place(rows, r) <= Reach
         /\ rows[Place(rows, r)] = r
<1>1. PICK n \in DOMAIN rows : rows[n] = r /\ n <= Reach
  BY DEF Reachable
<1>2. Place(rows, r) \in DOMAIN rows /\ rows[Place(rows, r)] = r
  BY <1>1 DEF Place
<1>3. Place(rows, r) = n
  BY <1>1, <1>2 DEF Boards, IsInjective
<1>4. DOMAIN rows = 1 .. Len(rows)
  BY DEF Boards
<1>. QED
  BY <1>1, <1>2, <1>3, <1>4 DEF Reachable

(* Of a board that did not move, a listing that is not full has all.       *)
LEMMA UnmovedHasAll ==
  ASSUME NEW rows \in Boards, NEW limit \in Nat, NEW r \in Reachable(rows),
         Len(Prefix(PumpRows(Prefix(rows, Reach)), limit)) < limit
  PROVE  Contains(Prefix(PumpRows(Prefix(rows, Reach)), limit), r)
<1>. DEFINE top == Prefix(rows, Reach)
            n == Place(rows, r)
<1>1. rows \in Seq(Rows) /\ Len(rows) \in Nat /\ Reach \in Nat
  BY TokenListsAssumption DEF Reach, Boards
<1>2. n \in 1 .. Len(rows) /\ n <= Reach /\ rows[n] = r /\ r \in PumpCoins
  BY PlaceIs
<1>3. /\ top \in Seq(Rows) /\ Len(top) = IF Reach < Len(rows) THEN Reach ELSE Len(rows)
      /\ \A k \in 1 .. Len(top) : top[k] = rows[k]
  BY <1>1, PrefixIs
<1>. HIDE DEF top, n
<1>4. n \in 1 .. Len(top) /\ top[n] = r
  BY <1>1, <1>2, <1>3
<1>5. PumpRows(top) \in Seq(PumpCoins) /\ Contains(PumpRows(top), r)
  BY <1>2, <1>3, <1>4, PumpRowsAre DEF IsPump
<1>6. Len(PumpRows(top)) \in Nat
  BY <1>5
<1>7. Len(Prefix(PumpRows(top), limit))
        = IF limit < Len(PumpRows(top)) THEN limit ELSE Len(PumpRows(top))
  BY <1>5, PrefixIs
<1>8. Len(PumpRows(top)) <= limit
  BY <1>6, <1>7 DEF top
<1>9. Prefix(PumpRows(top), limit) = PumpRows(top)
  BY <1>5, <1>8, WholeSlice
<1>. QED
  BY <1>5, <1>9 DEF top

(* Of one that moved between its two pages, a listing that is not full     *)
(* misses only what climbed across the overlap.                            *)
LEMMA MovedMissesClimbers ==
  ASSUME NEW first \in Boards, NEW last \in Boards, NEW limit \in Nat,
         NEW rows, rows = Collect(Collect(<<>>, Prefix(first, Page)),
                                  Prefix(SubSeq(last, MaxOffset + 1, Len(last)), Page)),
         Len(first) >= Page, Len(Prefix(rows, limit)) < limit,
         NEW r \in Reachable(first) \cap Reachable(last)
  PROVE  Contains(Prefix(rows, limit), r) \/ Place(first, r) >= Place(last, r) + 2
<1>. DEFINE one == Prefix(first, Page)
            rows1 == Collect(<<>>, one)
            rest == SubSeq(last, MaxOffset + 1, Len(last))
            two == Prefix(rest, Page)
            m == Place(first, r)
            n == Place(last, r)
<1>1. /\ Page \in Nat \ {0} /\ MaxOffset \in Nat /\ Page = MaxOffset + 1
      /\ Reach = MaxOffset + Page /\ Reach \in Nat
      /\ first \in Seq(Rows) /\ IsInjective(first) /\ Len(first) \in Nat
      /\ last \in Seq(Rows) /\ IsInjective(last) /\ Len(last) \in Nat
  BY TokenListsAssumption DEF Reach, Boards
<1>2. /\ r \in PumpCoins /\ m \in 1 .. Len(first) /\ m <= Reach /\ first[m] = r
      /\ n \in 1 .. Len(last) /\ n <= Reach /\ last[n] = r
  BY PlaceIs
<1>3. /\ one \in Seq(Rows) /\ IsInjective(one) /\ Len(one) = Page
      /\ \A k \in 1 .. Page : one[k] = first[k]
  BY <1>1, PrefixIs
<1>. HIDE DEF one, m, n
<1>4. rows1 = PumpRows(one) /\ rows1 \in Seq(PumpCoins) /\ IsInjective(rows1)
  BY <1>3, FirstPage, PumpRowsAre
<1>. HIDE DEF rows1
<1>5. /\ rest \in Seq(Rows)
      /\ Len(rest) = IF MaxOffset < Len(last) THEN Len(last) - MaxOffset ELSE 0
      /\ \A k \in 1 .. Len(rest) : rest[k] = last[MaxOffset + k]
  <2>1. CASE MaxOffset < Len(last)
    <3>1. MaxOffset \in 0 .. Len(last)
      BY <1>1, <2>1
    <3>. QED
      BY <1>1, <2>1, <3>1, RestIs
  <2>2. CASE ~(MaxOffset < Len(last))
    <3>1. rest \in Seq(Rows) /\ Len(rest) = 0
      BY <1>1, <2>2
    <3>. HIDE DEF rest
    <3>. QED
      BY <2>2, <3>1
  <2>. QED
    BY <2>1, <2>2
<1>6. IsInjective(rest)
  <2>. HIDE DEF rest
  <2>1. \A k \in DOMAIN rest : rest[k] = last[MaxOffset + k] /\ MaxOffset + k \in DOMAIN last
    <3>1. DOMAIN rest = 1 .. Len(rest) /\ DOMAIN last = 1 .. Len(last) /\ Len(rest) \in Nat
      BY <1>1, <1>5
    <3>2. \A k \in 1 .. Len(rest) : MaxOffset + k \in 1 .. Len(last)
      <4>1. \A off, len, left \in Nat :
              left = (IF off < len THEN len - off ELSE 0) =>
                \A k \in 1 .. left : off + k \in 1 .. len
        OBVIOUS
      <4>2. MaxOffset \in Nat /\ Len(last) \in Nat
        BY <1>1
      <4>. QED
        BY <1>5, <3>1, <4>1, <4>2
    <3>. QED
      BY <1>5, <3>1, <3>2
  <2>2. \A j, k \in DOMAIN rest : MaxOffset + j = MaxOffset + k => j = k
    BY <1>1, <1>5
  <2>. QED
    BY <1>1, <2>1, <2>2 DEF IsInjective
<1>. HIDE DEF rest
<1>7. /\ two \in Seq(Rows) /\ IsInjective(two)
      /\ Len(two) = IF Page < Len(rest) THEN Page ELSE Len(rest)
      /\ \A k \in 1 .. Len(two) : two[k] = rest[k]
  BY <1>1, <1>5, <1>6, PrefixIs
<1>. HIDE DEF two
<1>8. rows = Collect(rows1, two)
  BY DEF rows1, two, rest, one
<1>9. rows \in Seq(PumpCoins)
  BY <1>4, <1>7, <1>8, Collected
<1>10. Prefix(rows, limit) = rows
  <2>1. Len(rows) \in Nat
    BY <1>9
  <2>2. Len(Prefix(rows, limit)) = IF limit < Len(rows) THEN limit ELSE Len(rows)
    BY <1>9, PrefixIs
  <2>3. Len(rows) <= limit
    BY <2>1, <2>2
  <2>. QED
    BY <1>9, <2>3, WholeSlice
<1>11. /\ \A k \in 1 .. Len(rows1) : Contains(rows, rows1[k])
      /\ \A k \in 1 .. Len(two) : IsPump(two[k]) => Contains(rows, two[k])
  BY <1>4, <1>7, <1>8, CollectedAll
<1>12. CASE m <= Page
  <2>1. m \in 1 .. Page /\ one[m] = r /\ IsPump(one[m])
    BY <1>2, <1>3, <1>12 DEF IsPump
  <2>2. Contains(rows1, r)
    BY <1>3, <1>4, <2>1, PumpRowsAre
  <2>3. Contains(rows, r)
    BY <1>11, <2>2 DEF Contains
  <2>. QED
    BY <1>10, <2>3
<1>13. CASE n >= Page
  <2>. DEFINE k == n - MaxOffset
  <2>1. k \in 1 .. Len(two) /\ MaxOffset + k = n
    BY <1>1, <1>2, <1>5, <1>7, <1>13
  <2>. HIDE DEF k
  <2>2. two[k] = r /\ IsPump(two[k])
    BY <1>2, <1>5, <1>7, <2>1 DEF IsPump
  <2>3. Contains(rows, r)
    BY <1>11, <2>1, <2>2
  <2>. QED
    BY <1>10, <2>3
<1>14. CASE ~(m <= Page) /\ ~(n >= Page)
  <2>1. m >= n + 2
    BY <1>1, <1>2, <1>14
  <2>. QED
    BY <2>1 DEF m, n
<1>. QED
  BY <1>12, <1>13, <1>14

LEMMA ListInvImplies == ListInv => BoardWellRead /\ RowsKeepTheirCurve
<1>. SUFFICES ASSUME ListInv PROVE BoardWellRead /\ RowsKeepTheirCurve
  OBVIOUS
<1>1. ListTypeOK /\ boards.pages <= 2 /\ DOMAIN chain = 1 .. Len(chain)
      /\ DOMAIN found = 1 .. Len(found) /\ Len(found) \in Nat /\ found \in Seq(PumpCoins)
      /\ NoCurve \notin Rows /\ PumpCoins \subseteq Rows /\ at \in 1 .. Len(found) + 1
  BY TokenListsAssumption DEF ListInv, ListTyped, ListTypeOK
<1>2. Listed => lpc # "page" /\ listed # "api_error"
  BY DEF ListInv, Paging, Listed
<1>3. BoardWellRead
  BY <1>1, <1>2 DEF ListInv, Paged, BoardWellRead
<1>. DEFINE showing == {n \in DOMAIN chain : chain[n] # NoCurve}
<1>4. Legible \in SUBSET DOMAIN found
  BY DEF Legible
<1>5. \A n \in DOMAIN found : found[n] # NoCurve
  BY <1>1
<1>6. ASSUME Listed
      PROVE  /\ \A n \in showing : n \in Legible /\ chain[n] = found[n]
             /\ listed = "enriched" => showing = Legible
             /\ \A n \in showing, k \in Legible : k < n => k \in showing
  <2>1. DOMAIN chain = DOMAIN found
    BY <1>1, <1>2, <1>6 DEF ListInv, Paged
  <2>2. \A n \in DOMAIN chain :
          chain[n] = IF n < at /\ n \in Legible THEN found[n] ELSE NoCurve
    BY DEF ListInv, ShownAbove
  <2>3. \A n : n \in showing <=> n \in DOMAIN found /\ n < at /\ n \in Legible
    BY <1>5, <2>1, <2>2
  <2>4. \A n \in showing : n \in Legible /\ chain[n] = found[n]
    BY <2>1, <2>2, <2>3
  <2>5. \A n \in showing, k \in Legible : k < n => k \in showing
    BY <1>1, <1>4, <2>3
  <2>6. listed = "enriched" => showing = Legible
    <3>1. listed = "enriched" => \A n \in Legible : n < at
      BY <1>1, <1>4 DEF ListInv, AccountsInStep
    <3>. QED
      BY <1>4, <2>3, <3>1
  <2>. QED
    BY <2>4, <2>5, <2>6
<1>. QED
  BY <1>1, <1>3, <1>6 DEF RowsKeepTheirCurve

LEMMA ListInitInv == ListInit => ListInv
<1>. SUFFICES ASSUME ListInit PROVE ListInv
  OBVIOUS
<1>1. /\ board \in Boards /\ boards = [first |-> <<>>, last |-> <<>>, pages |-> 0]
      /\ ask \in Asks /\ lpc = "page" /\ listed = "none" /\ offset = 0 /\ found = <<>>
      /\ accounts = <<>> /\ at = 1 /\ decimals = {} /\ chain = <<>>
  BY TokenListsAssumption DEF ListInit, Boards
<1>2. <<>> \in Boards
  BY DEF Boards, IsInjective
<1>3. 0 \in 0 .. MaxOffset /\ 0 \in 0 .. 2
  BY TokenListsAssumption
<1>4. ListTyped
  <2>1. board \in Seq(Rows) /\ found \in Seq(PumpCoins) /\ Len(found) = 0
    BY <1>1 DEF Boards
  <2>2. accounts \in Seq(Rows \cup {NoCurve}) /\ chain \in Seq(Rows \cup {NoCurve})
        /\ DOMAIN chain = {} /\ Len(chain) = 0
    BY <1>1
  <2>3. ListTypeOK
    BY <1>1, <1>3, <2>1, <2>2 DEF ListTypeOK, ListReads
  <2>4. boards \in [first : Boards, last : Boards, pages : 0 .. 2]
    BY <1>1, <1>2, <1>3
  <2>. QED
    BY <1>1, <2>1, <2>2, <2>3, <2>4 DEF ListTyped
<1>5. Paging /\ Paged /\ AccountsInStep /\ ShownAbove
  BY <1>1 DEF Paging, Paged, AccountsInStep, ShownAbove
<1>. QED
  BY <1>4, <1>5 DEF ListInv

(* The board moves: it still lists no row twice.                           *)
LEMMA StillABoard ==
  ASSUME NEW rows \in Boards, NEW r \in Rows, NEW others,
         others = Keep(rows, {n \in DOMAIN rows : rows[n] # r})
  PROVE  /\ others \in Boards
         /\ \A n \in 1 .. Len(others) + 1 : InsertAt(others, n, r) \in Boards
<1>. DEFINE P == {n \in DOMAIN rows : rows[n] # r}
<1>1. rows \in Seq(Rows) /\ IsInjective(rows) /\ P \in SUBSET DOMAIN rows
  BY DEF Boards
<1>2. (\A n \in P : rows[n] \in Rows) /\ \A m, n \in P : rows[m] = rows[n] => m = n
  BY <1>1 DEF IsInjective
<1>3. \A n \in P : rows[n] # r
  OBVIOUS
<1>4. others = Keep(rows, P)
  OBVIOUS
<1>. HIDE DEF P
<1>5. others \in Seq(Rows) /\ IsInjective(others) /\ Len(others) \in Nat
  BY <1>1, <1>2, <1>4, KeepIs
<1>6. \A k \in 1 .. Len(others) : others[k] # r
  <2>1. /\ Len(others) = Cardinality(P)
        /\ \A k \in 1 .. Cardinality(P) : Nth(P, k) \in P /\ others[k] = rows[Nth(P, k)]
    <3>1. /\ Len(Keep(rows, P)) = Cardinality(P)
          /\ \A k \in 1 .. Cardinality(P) : Nth(P, k) \in P /\ Keep(rows, P)[k] = rows[Nth(P, k)]
      BY <1>1, <1>2, KeepIs
    <3>. QED
      BY <1>4, <3>1
  <2>. QED
    BY <1>3, <2>1
<1>7. ASSUME NEW n \in 1 .. Len(others) + 1 PROVE InsertAt(others, n, r) \in Boards
  <2>. DEFINE before == SubSeq(others, 1, n - 1)
              i == n - 1
              after == SubSeq(others, n, Len(others))
              all == before \o <<r>> \o after
  <2>1. n - 1 \in 0 .. Len(others) /\ i \in 0 .. Len(others)
    BY <1>5
  <2>2. /\ before \in Seq(Rows) /\ Len(before) = n - 1
        /\ \A k \in 1 .. n - 1 : before[k] = others[k]
    <3>1. before = SubSeq(others, 1, i)
      OBVIOUS
    <3>2. i = n - 1
      OBVIOUS
    <3>. HIDE DEF i, before
    <3>3. /\ before \in Seq(Rows) /\ Len(before) = i
          /\ \A k \in 1 .. i : before[k] = others[k]
      BY <1>5, <2>1, <3>1
    <3>. QED
      BY <3>2, <3>3
  <2>3. /\ after \in Seq(Rows) /\ Len(after) = Len(others) - n + 1
        /\ \A k \in 1 .. Len(others) - n + 1 : after[k] = others[n + k - 1]
    <3>4. i + 1 = n
      OBVIOUS
    <3>1. after = SubSeq(others, i + 1, Len(others))
      <4>. HIDE DEF i
      <4>. QED
        BY <3>4
    <3>2. /\ after \in Seq(Rows) /\ Len(after) = Len(others) - i
          /\ \A k \in 1 .. Len(others) - i : after[k] = others[i + k]
      BY <1>5, <2>1, <3>1, RestIs
    <3>3. Len(others) - i = Len(others) - n + 1 /\ \A k \in Int : i + k = n + k - 1
      BY <1>5
    <3>. HIDE DEF after, i
    <3>5. after \in Seq(Rows) /\ Len(after) = Len(others) - n + 1
      BY <3>2, <3>3
    <3>6. \A k \in 1 .. Len(others) - n + 1 : after[k] = others[n + k - 1]
      <4>. TAKE k \in 1 .. Len(others) - n + 1
      <4>1. k \in 1 .. Len(others) - i /\ i + k = n + k - 1
        BY <1>5, <2>1, <3>4
      <4>. QED
        BY <3>2, <4>1
    <3>. QED
      BY <3>5, <3>6
  <2>. HIDE DEF before, after
  <2>4. /\ before \o <<r>> \in Seq(Rows) /\ Len(before \o <<r>>) = n
        /\ \A k \in 1 .. n - 1 : (before \o <<r>>)[k] = others[k]
        /\ (before \o <<r>>)[n] = r
    BY <1>5, <2>1, <2>2
  <2>5. all \in Seq(Rows) /\ Len(all) = n + (Len(others) - n + 1)
    BY <1>5, <2>3, <2>4
  <2>6. Len(all) = Len(others) + 1
    BY <1>5, <2>5
  <2>7. \A k \in 1 .. Len(others) + 1 :
          all[k] = IF k < n THEN others[k] ELSE IF k = n THEN r ELSE others[k - 1]
    <3>. SUFFICES ASSUME NEW k \in 1 .. Len(others) + 1
                  PROVE all[k] = IF k < n THEN others[k] ELSE IF k = n THEN r ELSE others[k - 1]
      OBVIOUS
    <3>1. CASE k <= n
      <4>1. all[k] = (before \o <<r>>)[k]
        BY <1>5, <2>3, <2>4, <3>1
      <4>. QED
        BY <1>5, <2>4, <3>1, <4>1
    <3>2. CASE ~(k <= n)
      <4>. DEFINE j == k - n
      <4>1. j \in 1 .. Len(others) - n + 1 /\ k = n + j /\ n + j - 1 = k - 1
        BY <1>5, <3>2
      <4>2. all[k] = after[j]
        BY <1>5, <2>3, <2>4, <3>2, <4>1
      <4>. HIDE DEF j, all, i
      <4>3. after[j] = others[k - 1]
        BY <2>3, <4>1
      <4>4. ~(k < n) /\ k # n
        BY <3>2
      <4>. QED
        BY <4>2, <4>3, <4>4
    <3>. QED
      BY <3>1, <3>2
  <2>8. InsertAt(others, n, r) = all
    BY DEF InsertAt, before, after
  <2>. HIDE DEF all
  <2>9. ASSUME NEW j \in 1 .. Len(others) + 1, NEW k \in 1 .. Len(others) + 1, all[j] = all[k]
        PROVE  j = k
    <3>. DEFINE Old(l) == IF l < n THEN l ELSE l - 1
    <3>1. j # n => Old(j) \in 1 .. Len(others) /\ all[j] = others[Old(j)]
      BY <1>5, <2>7
    <3>2. k # n => Old(k) \in 1 .. Len(others) /\ all[k] = others[Old(k)]
      BY <1>5, <2>7
    <3>3. (j = n => all[j] = r) /\ (k = n => all[k] = r)
      BY <2>7
    <3>4. DOMAIN others = 1 .. Len(others)
      BY <1>5
    <3>5. j # n /\ k # n => Old(j) = Old(k)
      <4>. HIDE DEF Old
      <4>. QED
        BY <1>5, <2>9, <3>1, <3>2, <3>4 DEF IsInjective
    <3>6. j = n <=> k = n
      <4>. HIDE DEF Old
      <4>. QED
        BY <1>6, <2>9, <3>1, <3>2, <3>3
    <3>. QED
      BY <1>5, <3>5, <3>6
  <2>10. IsInjective(all)
    BY <2>5, <2>6, <2>9 DEF IsInjective
  <2>. QED
    BY <2>5, <2>8, <2>10 DEF Boards
<1>. QED
  BY <1>5, <1>7 DEF Boards

LEMMA BoardMovesInv == ListInv /\ BoardMoves => ListInv'
<1>. SUFFICES ASSUME ListInv, BoardMoves PROVE ListInv'
  OBVIOUS
<1>1. UNCHANGED <<ask, lpc, offset, found, boards, accounts, at, decimals, chain, listed>>
  BY DEF BoardMoves
<1>2. board \in Boards
  BY DEF ListInv, ListTyped
<1>3. board' \in Boards
  BY <1>2, StillABoard DEF BoardMoves
<1>4. ListTyped'
  BY <1>1, <1>3 DEF ListInv, ListTyped, ListTypeOK, Boards
<1>5. Paging' /\ Paged' /\ AccountsInStep' /\ ShownAbove'
  BY <1>1 DEF ListInv, Paging, Paged, FirstOfTheBoard, AccountsInStep, ShownAbove, Legible
<1>. QED
  BY <1>4, <1>5 DEF ListInv

(* A listing starts, or ends, with rows that show nothing of the chain.    *)
LEMMA ListingInv ==
  ASSUME ListInv, lpc = "page", NEW rows \in Seq(PumpCoins), Listing(rows),
         UNCHANGED <<board, moves, ask, offset, accounts, at, decimals>>,
         boards' \in [first : Boards, last : Boards, pages : 0 .. 2],
         IsInjective(rows), Len(rows) <= ask.limit, FirstOfTheBoard'
  PROVE  ListInv'
<1>1. /\ found' = rows /\ chain' = [n \in DOMAIN rows |-> NoCurve]
      /\ \/ lpc' = "global" /\ listed' = listed
         \/ lpc' = "done" /\ listed' = "listed"
  BY DEF Listing, Awaiting, Finished
<1>2. /\ ListTyped /\ ListTypeOK /\ listed = "none" /\ accounts = <<>> /\ at = 1
      /\ decimals \cap BadQuotes = {} /\ board \in Boards /\ offset \in 0 .. MaxOffset /\ ask \in Asks
  BY DEF ListInv, Paging, AccountsInStep, ListTyped, ListTypeOK
<1>3. Len(rows) \in Nat /\ DOMAIN rows = 1 .. Len(rows)
  OBVIOUS
<1>4. /\ chain' \in Seq(Rows \cup {NoCurve}) /\ Len(chain') = Len(rows)
      /\ DOMAIN chain' = 1 .. Len(rows) /\ \A n \in DOMAIN chain' : chain'[n] = NoCurve
  <2>1. chain' \in [1 .. Len(rows) -> Rows \cup {NoCurve}]
    BY <1>1, <1>3
  <2>. QED
    BY <1>1, <1>3, <2>1
<1>5. accounts' = <<>> /\ at' = 1 /\ 1 \in 1 .. Len(rows) + 1
      /\ accounts' \in Seq(Rows \cup {NoCurve})
  BY <1>2, <1>3
<1>6. ListTypeOK'
  <2>1. board' \in Seq(Rows) /\ offset' \in 0 .. MaxOffset
    BY <1>2 DEF Boards
  <2>2. lpc' \in ListReads \cup {"done"}
        /\ listed' \in {"none", "api_error", "listed", "enriched", "enrich_failed"}
    BY <1>1, <1>2 DEF ListReads
  <2>3. Len(chain') <= Len(found')
    BY <1>1, <1>3, <1>4
  <2>. QED
    BY <1>1, <1>4, <2>1, <2>2, <2>3 DEF ListTypeOK
<1>7. ListTyped'
  BY <1>1, <1>2, <1>4, <1>5, <1>6 DEF ListTyped
<1>8. Paging'
  BY <1>1 DEF Paging
<1>9. Paged'
  BY <1>1, <1>2, <1>4 DEF Paged
<1>10. AccountsInStep'
  BY <1>1, <1>2, <1>3, <1>5 DEF AccountsInStep
<1>11. ShownAbove'
  <2>1. \A n \in 1 .. Len(rows) : ~(n < 1)
    BY <1>3
  <2>. QED
    BY <1>4, <1>5, <2>1 DEF ShownAbove
<1>. QED
  BY <1>7, <1>8, <1>9, <1>10, <1>11 DEF ListInv

(* A page: the coins of a board's first two.                               *)
LEMMA PageInv == ListInv /\ FetchPage /\ UNCHANGED <<board, moves, ask, at>> => ListInv'
<1>. SUFFICES ASSUME ListInv, FetchPage, UNCHANGED <<board, moves, ask, at>> PROVE ListInv'
  OBVIOUS
<1>. DEFINE page == Prefix(SubSeq(board, offset + 1, Len(board)), Page)
            rows == Collect(found, page)
            stop == LastPage(page) \/ Len(rows) >= ask.limit
<1>1. /\ lpc = "page" /\ ask.source = "board" /\ SeeBoard
      /\ IF stop
           THEN Listing(Prefix(rows, ask.limit)) /\ UNCHANGED offset
           ELSE /\ found' = rows /\ offset' = NextOffset(page)
                /\ UNCHANGED <<lpc, listed, chain>>
      /\ UNCHANGED <<accounts, decimals>>
  BY DEF FetchPage
<1>2. /\ ListTyped /\ board \in Boards /\ boards \in [first : Boards, last : Boards, pages : 0 .. 2]
      /\ found \in Seq(PumpCoins) /\ ask \in Asks /\ ask.limit \in Nat \ {0}
      /\ offset \in 0 .. MaxOffset
  BY TokenListsAssumption DEF ListInv, ListTyped, ListTypeOK, Asks
<1>3. /\ board \in Seq(Rows) /\ IsInjective(board) /\ Len(board) \in Nat
      /\ Page \in Nat \ {0} /\ MaxOffset \in Nat /\ Page = MaxOffset + 1
  BY <1>2, TokenListsAssumption DEF Boards
<1>4. listed = "none" /\ chain = <<>> /\ accounts = <<>> /\ at = 1
  BY <1>1 DEF ListInv, Paging, AccountsInStep
<1>5. page \in Seq(Rows)
  <2>1. SubSeq(board, offset + 1, Len(board)) \in Seq(Rows)
    BY <1>2, <1>3
  <2>. QED
    BY <1>3, <2>1, PrefixIs
<1>. HIDE DEF page
<1>6. rows \in Seq(PumpCoins) /\ (IsInjective(found) => IsInjective(rows))
  BY <1>2, <1>5, Collected, CollectedOnce
<1>. HIDE DEF rows
<1>7. /\ Prefix(rows, ask.limit) \in Seq(PumpCoins)
      /\ Len(Prefix(rows, ask.limit)) <= ask.limit
      /\ IsInjective(rows) => IsInjective(Prefix(rows, ask.limit))
  <2>1. Len(rows) \in Nat
    BY <1>6
  <2>. QED
    BY <1>2, <1>6, <2>1, PrefixIs
<1>8. CASE boards.pages = 0 /\ offset = 0 /\ found = <<>>
  <2>1. boards' = [first |-> board, last |-> board, pages |-> 1]
    BY <1>1, <1>8 DEF SeeBoard
  <2>2. boards' \in [first : Boards, last : Boards, pages : 0 .. 2]
    BY <1>2, <2>1
  <2>3. page = Prefix(board, Page)
    <3>1. offset + 1 = 1
      BY <1>8
    <3>2. SubSeq(board, 1, Len(board)) = board
      BY <1>3, WholeSlice
    <3>. QED
      BY <3>1, <3>2 DEF page
  <2>4. rows = Collect(<<>>, Prefix(board, Page))
    BY <1>8, <2>3 DEF rows
  <2>5. IsInjective(rows)
    BY <1>6, <1>8 DEF IsInjective
  <2>6. Len(page) = IF Page < Len(board) THEN Page ELSE Len(board)
    BY <1>3, <2>3, PrefixIs
  <2>7. CASE stop
    <3>1. Len(board) < Page \/ MaxOffset = 0 \/ Len(rows) >= ask.limit
      BY <1>3, <1>8, <2>6, <2>7 DEF LastPage
    <3>2. Prefix(rows, ask.limit) = Prefix(PumpRows(Prefix(board, Reach)), ask.limit)
      BY <1>2, <2>4, <3>1, OnePage
    <3>3. \A r \in Reachable(board) :
            Len(Prefix(rows, ask.limit)) < ask.limit => Contains(Prefix(rows, ask.limit), r)
      BY <1>2, <3>2, UnmovedHasAll
    <3>4. found' = Prefix(rows, ask.limit) /\ Listing(Prefix(rows, ask.limit)) /\ UNCHANGED offset
      BY <1>1, <2>7 DEF Listing
    <3>5. FirstOfTheBoard'
      BY <1>1, <2>1, <3>2, <3>3, <3>4 DEF FirstOfTheBoard
    <3>. QED
      BY <1>1, <1>7, <2>2, <2>5, <3>4, <3>5, ListingInv
  <2>8. CASE ~stop
    <3>1. found' = rows /\ offset' = NextOffset(page) /\ UNCHANGED <<lpc, listed, chain>>
      BY <1>1, <2>8
    <3>2. Len(board) >= Page /\ Len(page) = Page /\ Len(rows) < ask.limit
      <4>1. Len(rows) \in Nat
        BY <1>6
      <4>. QED
        BY <1>2, <1>3, <2>6, <2>8, <4>1 DEF LastPage
    <3>3. offset' = MaxOffset
      BY <1>3, <1>8, <3>1, <3>2 DEF NextOffset
    <3>4. ListTypeOK'
      <4>1. offset' \in 0 .. MaxOffset /\ board' \in Seq(Rows) /\ found' \in Seq(PumpCoins)
        BY <1>3, <1>6, <3>1, <3>3
      <4>2. chain' = <<>> /\ Len(chain') = 0 /\ DOMAIN chain' = {} /\ Len(found') >= 0
        BY <1>4, <1>6, <3>1
      <4>. QED
        BY <1>1, <1>4, <3>1, <4>1, <4>2 DEF ListTypeOK, ListReads
    <3>5. ListTyped'
      <4>1. 1 \in 1 .. Len(found') + 1
        BY <1>6, <3>1
      <4>. QED
        BY <1>1, <1>2, <1>4, <2>2, <3>1, <3>4, <4>1 DEF ListTyped
    <3>6. Paging'
      BY <1>1, <1>4, <2>1, <2>4, <3>1, <3>2, <3>3 DEF Paging
    <3>7. Paged'
      BY <1>1, <1>4, <3>1 DEF Paged
    <3>8. AccountsInStep'
      <4>1. Len(found') >= 0
        BY <1>6, <3>1
      <4>. QED
        BY <1>1, <1>4, <3>1, <4>1 DEF AccountsInStep
    <3>9. ShownAbove'
      BY <1>4, <3>1 DEF ShownAbove
    <3>. QED
      BY <3>5, <3>6, <3>7, <3>8, <3>9 DEF ListInv
  <2>. QED
    BY <2>7, <2>8
<1>9. CASE /\ boards.pages = 1 /\ offset = MaxOffset /\ Len(boards.first) >= Page
           /\ found = Collect(<<>>, Prefix(boards.first, Page))
  <2>1. boards' = [first |-> boards.first, last |-> board, pages |-> 2]
    BY <1>1, <1>9 DEF SeeBoard
  <2>2. boards' \in [first : Boards, last : Boards, pages : 0 .. 2] /\ boards.first \in Boards
    BY <1>2, <2>1
  <2>3. stop
    BY <1>3, <1>9 DEF LastPage
  <2>4. rows = Collect(Collect(<<>>, Prefix(boards.first, Page)),
                       Prefix(SubSeq(board, MaxOffset + 1, Len(board)), Page))
    BY <1>9 DEF rows, page
  <2>5. IsInjective(rows)
    <3>1. boards.first \in Seq(Rows) /\ IsInjective(boards.first)
      BY <2>2 DEF Boards
    <3>2. Prefix(boards.first, Page) \in Seq(Rows) /\ IsInjective(Prefix(boards.first, Page))
      BY <1>3, <3>1, PrefixIs
    <3>3. IsInjective(found)
      BY <1>9, <3>2, FirstPage, PumpRowsAre
    <3>. QED
      BY <1>6, <3>3
  <2>6. boards.first = board => rows = PumpRows(Prefix(board, Reach))
    BY <1>3, <1>9, <2>4, TwoPages
  <2>7. \A r \in Reachable(boards.first) \cap Reachable(board) :
          Len(Prefix(rows, ask.limit)) < ask.limit =>
            Contains(Prefix(rows, ask.limit), r) \/ Place(boards.first, r) >= Place(board, r) + 2
    BY <1>2, <1>9, <2>2, <2>4, MovedMissesClimbers
  <2>8. found' = Prefix(rows, ask.limit) /\ Listing(Prefix(rows, ask.limit)) /\ UNCHANGED offset
    BY <1>1, <2>3 DEF Listing
  <2>9. FirstOfTheBoard'
    BY <1>1, <2>1, <2>6, <2>7, <2>8 DEF FirstOfTheBoard
  <2>. QED
    BY <1>1, <1>7, <2>2, <2>5, <2>8, <2>9, ListingInv
<1>. QED
  BY <1>1, <1>8, <1>9 DEF ListInv, Paging

LEMMA OnceInv == ListInv /\ FetchOnce /\ UNCHANGED <<board, moves, ask, at>> => ListInv'
<1>. SUFFICES ASSUME ListInv, FetchOnce, UNCHANGED <<board, moves, ask, at>> PROVE ListInv'
  OBVIOUS
<1>1. /\ lpc = "page" /\ ask.source = "search" /\ SeeBoard
      /\ Listing(Prefix(PumpRows(board), ask.limit))
      /\ UNCHANGED <<offset, accounts, decimals>>
  BY DEF FetchOnce
<1>2. board \in Boards /\ ask.limit \in Nat \ {0}
  BY TokenListsAssumption DEF ListInv, ListTyped, Asks
<1>3. boards' = [first |-> board, last |-> board, pages |-> 1]
  BY <1>1 DEF SeeBoard, ListInv, Paging
<1>4. boards' \in [first : Boards, last : Boards, pages : 0 .. 2]
  BY <1>2, <1>3
<1>5. PumpRows(board) \in Seq(PumpCoins) /\ IsInjective(PumpRows(board))
  BY <1>2, PumpRowsAre DEF Boards
<1>6. Len(PumpRows(board)) \in Nat
  BY <1>5
<1>. DEFINE rows == Prefix(PumpRows(board), ask.limit)
<1>7. rows \in Seq(PumpCoins) /\ IsInjective(rows) /\ Len(rows) <= ask.limit
  BY <1>2, <1>5, <1>6, PrefixIs
<1>8. found' = rows
  BY <1>1 DEF Listing
<1>. HIDE DEF rows
<1>9. FirstOfTheBoard'
  BY <1>1, <1>3, <1>8 DEF FirstOfTheBoard, rows
<1>. QED
  BY <1>1, <1>4, <1>7, <1>9, ListingInv DEF rows

LEMMA ApiFailsInv == ListInv /\ ApiFails /\ UNCHANGED <<board, moves, ask, at>> => ListInv'
<1>. SUFFICES ASSUME ListInv, ApiFails, UNCHANGED <<board, moves, ask, at>> PROVE ListInv'
  OBVIOUS
<1>1. /\ lpc = "page" /\ lpc' = "done" /\ listed' = "api_error"
      /\ UNCHANGED <<board, ask, at, offset, found, boards, accounts, decimals, chain>>
  BY DEF ApiFails, Finished
<1>2. ListTyped'
  BY <1>1 DEF ListInv, ListTyped, ListTypeOK, ListReads
<1>3. Paging' /\ Paged' /\ AccountsInStep' /\ ShownAbove'
  BY <1>1 DEF ListInv, Paging, Paged, AccountsInStep, ShownAbove, Legible
<1>. QED
  BY <1>2, <1>3 DEF ListInv

(* Past the pages nothing changes that the board's part is about.          *)
Onward ==
  \/ lpc' \in ListReads \ {"page"} /\ listed' = "none"
  \/ lpc' = "done" /\ listed' \in {"enriched", "enrich_failed"}

LEMMA PagedStays ==
  /\ ListInv /\ lpc \notin {"page", "done"} /\ Onward
  /\ UNCHANGED <<board, ask, offset, found, boards>>
  /\ chain' \in Seq(Rows \cup {NoCurve}) /\ Len(chain') = Len(chain)
  /\ accounts' \in Seq(Rows \cup {NoCurve}) /\ at' \in 1 .. Len(found) + 1
  /\ decimals' \cap BadQuotes = {}
  => ListTyped' /\ Paging' /\ Paged'
<1>. SUFFICES ASSUME ListInv, lpc \notin {"page", "done"}, Onward,
                     UNCHANGED <<board, ask, offset, found, boards>>,
                     chain' \in Seq(Rows \cup {NoCurve}), Len(chain') = Len(chain),
                     accounts' \in Seq(Rows \cup {NoCurve}), at' \in 1 .. Len(found) + 1,
                     decimals' \cap BadQuotes = {}
              PROVE  ListTyped' /\ Paging' /\ Paged'
  OBVIOUS
<1>1. listed = "none" /\ ListTyped /\ Len(chain) = Len(found) /\ ListTypeOK
  BY DEF ListInv, Paged, ListTyped
<1>2. DOMAIN chain' = 1 .. Len(chain') /\ \A n \in 1 .. Len(chain') : chain'[n] \in Rows \cup {NoCurve}
  OBVIOUS
<1>3. Len(found) \in Nat
  BY <1>1 DEF ListTypeOK
<1>4. ListTypeOK'
  <2>1. \A n \in DOMAIN chain' : chain'[n] = NoCurve \/ chain'[n] \in Rows
    BY <1>2
  <2>2. Len(chain') <= Len(found')
    BY <1>1, <1>3
  <2>3. board' \in Seq(Rows) /\ found' \in Seq(PumpCoins) /\ offset' \in 0 .. MaxOffset
    BY <1>1 DEF ListTypeOK
  <2>4. lpc' \in ListReads \cup {"done"}
        /\ listed' \in {"none", "api_error", "listed", "enriched", "enrich_failed"}
    BY DEF Onward, ListReads
  <2>. QED
    BY <2>1, <2>2, <2>3, <2>4 DEF ListTypeOK
<1>5. ListTyped'
  BY <1>1, <1>4 DEF ListTyped
<1>6. Paging'
  BY DEF Paging, Onward, ListReads
<1>7. FirstOfTheBoard'
  BY <1>1 DEF ListInv, Paged, FirstOfTheBoard
<1>8. Paged'
  BY <1>1, <1>7 DEF ListInv, Paged, Onward, ListReads
<1>. QED
  BY <1>5, <1>6, <1>8

LEMMA GlobalInv == ListInv /\ FetchGlobal /\ UNCHANGED <<board, moves, ask, at>> => ListInv'
<1>. SUFFICES ASSUME ListInv, FetchGlobal, UNCHANGED <<board, moves, ask, at>> PROVE ListInv'
  OBVIOUS
<1>1. /\ lpc = "global" /\ lpc' = "accounts" /\ listed' = listed
      /\ UNCHANGED <<board, ask, at, offset, found, boards, accounts, decimals, chain>>
  BY DEF FetchGlobal, Awaiting
<1>2. /\ chain \in Seq(Rows \cup {NoCurve}) /\ accounts \in Seq(Rows \cup {NoCurve})
      /\ at \in 1 .. Len(found) + 1 /\ decimals \cap BadQuotes = {} /\ listed = "none"
  BY <1>1 DEF ListInv, ListTyped, Paged
<1>3. ListTyped' /\ Paging' /\ Paged'
  <2>1. lpc \notin {"page", "done"} /\ Onward
    BY <1>1, <1>2 DEF ListReads, Onward
  <2>2. /\ chain' \in Seq(Rows \cup {NoCurve}) /\ Len(chain') = Len(chain)
        /\ accounts' \in Seq(Rows \cup {NoCurve}) /\ at' \in 1 .. Len(found) + 1
        /\ decimals' \cap BadQuotes = {}
    BY <1>1, <1>2
  <2>3. UNCHANGED <<board, ask, offset, found, boards>>
    BY <1>1
  <2>. QED
    BY <2>1, <2>2, <2>3, PagedStays
<1>4. AccountsInStep' /\ ShownAbove'
  BY <1>1, <1>2 DEF ListInv, AccountsInStep, ShownAbove, Legible
<1>. QED
  BY <1>3, <1>4 DEF ListInv

(* get_multiple_accounts answers in the order it was asked: a batch goes   *)
(* on where the last one ended.                                            *)
LEMMA AccountsInv == ListInv /\ FetchAccounts /\ UNCHANGED <<board, moves, ask, at>> => ListInv'
<1>. SUFFICES ASSUME ListInv, FetchAccounts, UNCHANGED <<board, moves, ask, at>> PROVE ListInv'
  OBVIOUS
<1>. DEFINE rest == SubSeq(found, Len(accounts) + 1, Len(found))
            batch == Prefix(rest, Batch)
            next == AccountsOf(batch)
            read == accounts \o next
<1>1. /\ lpc = "accounts" /\ accounts' = read /\ listed' = listed
      /\ lpc' = IF Len(rest) > Batch THEN "accounts" ELSE "rows"
      /\ UNCHANGED <<board, ask, at, offset, found, boards, decimals, chain>>
  BY DEF FetchAccounts, Awaiting
<1>2. /\ found \in Seq(Rows) /\ Len(found) \in Nat
      /\ accounts \in Seq(Rows \cup {NoCurve}) /\ Len(accounts) \in Nat
      /\ Len(accounts) <= Len(found) /\ Batch \in Nat \ {0} /\ DOMAIN found = 1 .. Len(found)
      /\ \A n \in 1 .. Len(accounts) : accounts[n] = AccountsOf(found)[n]
  BY TokenListsAssumption DEF ListInv, ListTyped, ListTypeOK, AccountsInStep
<1>3. /\ rest \in Seq(Rows) /\ Len(rest) = Len(found) - Len(accounts)
      /\ \A k \in 1 .. Len(rest) : rest[k] = found[Len(accounts) + k]
  <2>1. Len(accounts) \in 0 .. Len(found)
    BY <1>2
  <2>. QED
    BY <1>2, <2>1, RestIs
<1>. HIDE DEF rest
<1>4. /\ batch \in Seq(Rows) /\ Len(batch) = IF Batch < Len(rest) THEN Batch ELSE Len(rest)
      /\ \A k \in 1 .. Len(batch) : batch[k] = rest[k]
  BY <1>2, <1>3, PrefixIs
<1>. HIDE DEF batch
<1>5. /\ next \in Seq(Rows \cup {NoCurve}) /\ Len(next) = Len(batch)
      /\ \A k \in 1 .. Len(batch) :
           next[k] = IF CurveOf[batch[k]] = "none" THEN NoCurve ELSE batch[k]
  <2>1. DOMAIN batch = 1 .. Len(batch) /\ Len(batch) \in Nat
    BY <1>4
  <2>2. next = [n \in 1 .. Len(batch) |-> IF CurveOf[batch[n]] = "none" THEN NoCurve ELSE batch[n]]
    BY <2>1 DEF AccountsOf
  <2>. HIDE DEF next
  <2>3. next \in [1 .. Len(batch) -> Rows \cup {NoCurve}]
    BY <1>4, <2>1, <2>2
  <2>. QED
    BY <2>1, <2>2, <2>3
<1>. HIDE DEF next
<1>6. /\ read \in Seq(Rows \cup {NoCurve}) /\ Len(read) = Len(accounts) + Len(batch)
      /\ \A k \in 1 .. Len(accounts) : read[k] = accounts[k]
      /\ \A k \in 1 .. Len(batch) : read[Len(accounts) + k] = next[k]
  BY <1>2, <1>5
<1>. HIDE DEF read
<1>7. /\ Len(batch) \in Nat /\ Len(batch) <= Len(rest) /\ Len(read) <= Len(found)
      /\ ~(Len(rest) > Batch) => Len(read) = Len(found)
  <2>1. \A all, done, got, left, most \in Nat :
          done <= all /\ left = all - done /\ got = (IF most < left THEN most ELSE left) =>
            got <= left /\ done + got <= all /\ (~(left > most) => done + got = all)
    OBVIOUS
  <2>2. Len(batch) \in Nat /\ Len(rest) \in Nat
    BY <1>3, <1>4
  <2>3. /\ Len(batch) <= Len(rest) /\ Len(accounts) + Len(batch) <= Len(found)
        /\ ~(Len(rest) > Batch) => Len(accounts) + Len(batch) = Len(found)
    BY <1>2, <1>3, <1>4, <2>1, <2>2
  <2>. QED
    BY <1>6, <2>2, <2>3
<1>8. \A n \in 1 .. Len(read) : read[n] = AccountsOf(found)[n]
  <2>. SUFFICES ASSUME NEW n \in 1 .. Len(read) PROVE read[n] = AccountsOf(found)[n]
    OBVIOUS
  <2>1. CASE n <= Len(accounts)
    BY <1>2, <1>6, <2>1
  <2>2. CASE ~(n <= Len(accounts))
    <3>. DEFINE k == n - Len(accounts)
    <3>1. k \in 1 .. Len(batch) /\ Len(accounts) + k = n
      <4>1. n \in 1 .. Len(accounts) + Len(batch)
        BY <1>6
      <4>. QED
        BY <1>2, <1>7, <2>2, <4>1
    <3>2. n \in 1 .. Len(found)
      <4>1. Len(read) \in Nat
        BY <1>6
      <4>. QED
        BY <1>2, <1>7, <4>1
    <3>3. k \in 1 .. Len(rest)
      <4>1. Len(rest) \in Nat
        BY <1>3
      <4>. QED
        BY <1>7, <3>1, <4>1
    <3>. HIDE DEF k
    <3>4. batch[k] = found[n]
      BY <1>3, <1>4, <3>1, <3>3
    <3>5. AccountsOf(found)[n] = IF CurveOf[found[n]] = "none" THEN NoCurve ELSE found[n]
      BY <1>2, <3>2 DEF AccountsOf
    <3>. QED
      BY <1>5, <1>6, <3>1, <3>4, <3>5
  <2>. QED
    BY <2>1, <2>2
<1>9. at = 1 /\ listed = "none" /\ chain \in Seq(Rows \cup {NoCurve}) /\ decimals \cap BadQuotes = {}
      /\ at \in 1 .. Len(found) + 1
  BY <1>1 DEF ListInv, AccountsInStep, Paged, ListTyped
<1>10. ListTyped' /\ Paging' /\ Paged'
  <2>1. lpc \notin {"page", "done"} /\ Onward
    BY <1>1, <1>9 DEF ListReads, Onward
  <2>2. /\ chain' \in Seq(Rows \cup {NoCurve}) /\ Len(chain') = Len(chain)
        /\ accounts' \in Seq(Rows \cup {NoCurve}) /\ at' \in 1 .. Len(found) + 1
        /\ decimals' \cap BadQuotes = {}
    BY <1>1, <1>6, <1>9
  <2>3. UNCHANGED <<board, ask, offset, found, boards>>
    BY <1>1
  <2>. QED
    BY <2>1, <2>2, <2>3, PagedStays
<1>11. AccountsInStep'
  <2>1. DOMAIN accounts' = 1 .. Len(read)
    BY <1>1, <1>6
  <2>2. /\ Len(accounts') <= Len(found') /\ \A n \in DOMAIN accounts' : accounts'[n] = AccountsOf(found')[n]
    BY <1>1, <1>7, <1>8, <2>1
  <2>. QED
    BY <1>1, <1>7, <1>9, <2>2 DEF AccountsInStep
<1>12. ShownAbove'
  BY <1>1 DEF ListInv, ShownAbove, Legible
<1>. QED
  BY <1>10, <1>11, <1>12 DEF ListInv

LEMMA AccountIs ==
  ASSUME ListInv, NEW n \in DOMAIN accounts
  PROVE  /\ n \in DOMAIN found /\ found[n] \in Rows /\ found[n] # NoCurve
         /\ accounts[n] = IF CurveOf[found[n]] = "none" THEN NoCurve ELSE found[n]
         /\ Readable(accounts[n]) <=> CurveOf[found[n]] \notin {"none", "unreadable"}
<1>1. /\ found \in Seq(PumpCoins) /\ Len(found) \in Nat /\ DOMAIN found = 1 .. Len(found)
      /\ DOMAIN accounts = 1 .. Len(accounts) /\ Len(accounts) \in Nat
      /\ Len(accounts) <= Len(found) /\ accounts[n] = AccountsOf(found)[n]
      /\ PumpCoins \subseteq Rows /\ NoCurve \notin Rows
  BY TokenListsAssumption DEF ListInv, ListTyped, ListTypeOK, AccountsInStep
<1>2. n \in DOMAIN found
  BY <1>1
<1>3. found[n] \in Rows /\ found[n] # NoCurve
  BY <1>1, <1>2
<1>4. accounts[n] = IF CurveOf[found[n]] = "none" THEN NoCurve ELSE found[n]
  BY <1>1, <1>2 DEF AccountsOf
<1>. QED
  BY <1>2, <1>3, <1>4 DEF Readable

LEMMA RowsInv == ListInv /\ EnrichRow /\ UNCHANGED <<board, moves, ask>> => ListInv'
<1>. SUFFICES ASSUME ListInv, EnrichRow, UNCHANGED <<board, moves, ask>> PROVE ListInv'
  OBVIOUS
<1>1. lpc = "rows" /\ UNCHANGED <<board, ask, offset, found, boards, accounts, decimals>>
  BY DEF EnrichRow
<1>2. /\ found \in Seq(PumpCoins) /\ Len(found) \in Nat /\ DOMAIN found = 1 .. Len(found)
      /\ accounts \in Seq(Rows \cup {NoCurve}) /\ DOMAIN accounts = 1 .. Len(found)
      /\ Len(accounts) = Len(found)
      /\ chain \in Seq(Rows \cup {NoCurve}) /\ DOMAIN chain = 1 .. Len(found)
      /\ Len(chain) = Len(found)
      /\ at \in 1 .. Len(found) + 1 /\ decimals \cap BadQuotes = {} /\ listed = "none"
  BY <1>1 DEF ListInv, ListTyped, ListTypeOK, AccountsInStep, Paged
<1>3. \A n \in DOMAIN chain :
        chain[n] = IF n < at /\ n \in Legible THEN found[n] ELSE NoCurve
  BY DEF ListInv, ShownAbove
<1>4. Legible' = Legible
  BY <1>1 DEF Legible
<1>5. CASE at > Len(accounts)
  <2>1. lpc' = "done" /\ listed' = "enriched" /\ UNCHANGED <<at, chain>>
    BY <1>1, <1>2, <1>5 DEF EnrichRow, Finished
  <2>2. lpc \notin {"page", "done"} /\ Onward
    BY <1>1, <2>1 DEF Onward
  <2>3. ListTyped' /\ Paging' /\ Paged'
    BY <1>1, <1>2, <2>1, <2>2, PagedStays
  <2>4. AccountsInStep'
    BY <1>1, <1>2, <1>5, <2>1 DEF ListInv, AccountsInStep
  <2>5. ShownAbove'
    BY <1>3, <1>4, <1>1, <2>1 DEF ShownAbove
  <2>. QED
    BY <2>3, <2>4, <2>5 DEF ListInv
<1>6. CASE ~(at > Len(accounts))
  <2>1. at \in 1 .. Len(found) /\ at + 1 \in 1 .. Len(found) + 1 /\ at \in DOMAIN accounts
    BY <1>2, <1>6
  <2>2. /\ found[at] \in Rows /\ found[at] # NoCurve
        /\ accounts[at] = IF CurveOf[found[at]] = "none" THEN NoCurve ELSE found[at]
        /\ Readable(accounts[at]) <=> CurveOf[found[at]] \notin {"none", "unreadable"}
    BY <2>1, AccountIs
  <2>3. CASE ~Readable(accounts[at])
    <3>1. at' = at + 1 /\ UNCHANGED <<lpc, listed, chain>>
      BY <1>1, <1>6, <2>3 DEF EnrichRow, NextRow
    <3>2. at \notin Legible
      BY <2>2, <2>3 DEF Legible
    <3>3. lpc \notin {"page", "done"} /\ Onward
      BY <1>1, <1>2, <3>1 DEF Onward, ListReads
    <3>4. ListTyped' /\ Paging' /\ Paged'
      BY <1>1, <1>2, <2>1, <3>1, <3>3, PagedStays
    <3>5. AccountsInStep'
      BY <1>1, <1>2, <3>1 DEF ListInv, AccountsInStep
    <3>6. ShownAbove'
      <4>1. \A n \in 1 .. Len(found) : n \in Legible => (n < at + 1 <=> n < at)
        BY <1>2, <3>2
      <4>. QED
        BY <1>1, <1>2, <1>3, <1>4, <3>1, <4>1 DEF ShownAbove
    <3>. QED
      BY <3>4, <3>5, <3>6 DEF ListInv
  <2>4. CASE Readable(accounts[at]) /\ QuoteOf[accounts[at]] \in UnknownQuotes \ decimals
    <3>1. lpc' = "mint" /\ listed' = "none" /\ UNCHANGED <<at, chain>>
      BY <1>1, <1>2, <1>6, <2>4 DEF EnrichRow, Awaiting
    <3>2. lpc \notin {"page", "done"} /\ Onward
      BY <1>1, <3>1 DEF Onward, ListReads
    <3>3. ListTyped' /\ Paging' /\ Paged'
      BY <1>1, <1>2, <3>1, <3>2, PagedStays
    <3>4. AccountsInStep'
      BY <1>1, <1>2, <2>1, <2>4, <3>1 DEF ListInv, AccountsInStep
    <3>5. ShownAbove'
      BY <1>1, <1>3, <1>4, <3>1 DEF ShownAbove
    <3>. QED
      BY <3>3, <3>4, <3>5 DEF ListInv
  <2>5. CASE Readable(accounts[at]) /\ QuoteOf[accounts[at]] \notin UnknownQuotes \ decimals
    <3>1. /\ at' = at + 1 /\ chain' = [chain EXCEPT ![at] = accounts[at]]
          /\ UNCHANGED <<lpc, listed>>
      BY <1>1, <1>6, <2>5 DEF EnrichRow, NextRow, ShowCurve
    <3>2. accounts[at] = found[at] /\ CurveOf[found[at]] \notin {"none", "unreadable"}
      BY <2>2, <2>5
    <3>3. QuoteOf[found[at]] \notin BadQuotes
      BY <1>2, <2>5, <3>2, TokenListsAssumption
    <3>4. at \in Legible
      BY <1>2, <2>1, <3>2, <3>3 DEF Legible
    <3>5. /\ chain' \in Seq(Rows \cup {NoCurve}) /\ Len(chain') = Len(chain)
          /\ DOMAIN chain' = 1 .. Len(found)
          /\ \A n \in 1 .. Len(found) : chain'[n] = IF n = at THEN found[at] ELSE chain[n]
      BY <1>2, <2>1, <2>2, <3>1, <3>2
    <3>6. lpc \notin {"page", "done"} /\ Onward
      BY <1>1, <1>2, <3>1 DEF Onward, ListReads
    <3>7. ListTyped' /\ Paging' /\ Paged'
      BY <1>1, <1>2, <2>1, <3>1, <3>5, <3>6, PagedStays
    <3>8. AccountsInStep'
      BY <1>1, <1>2, <3>1 DEF ListInv, AccountsInStep
    <3>9. ShownAbove'
      <4>1. \A n \in 1 .. Len(found) : n # at => (n < at + 1 <=> n < at)
        BY <1>2
      <4>2. at < at + 1
        BY <1>2
      <4>. QED
        BY <1>1, <1>2, <1>3, <1>4, <3>1, <3>4, <3>5, <4>1, <4>2 DEF ShownAbove
    <3>. QED
      BY <3>7, <3>8, <3>9 DEF ListInv
  <2>. QED
    BY <2>3, <2>4, <2>5
<1>. QED
  BY <1>5, <1>6

LEMMA MintInv == ListInv /\ ReadDecimals /\ UNCHANGED <<board, moves, ask>> => ListInv'
<1>. SUFFICES ASSUME ListInv, ReadDecimals, UNCHANGED <<board, moves, ask>> PROVE ListInv'
  OBVIOUS
<1>1. /\ lpc = "mint" /\ lpc' = "rows" /\ listed' = listed /\ at' = at + 1
      /\ UNCHANGED <<board, ask, offset, found, boards, accounts>>
  BY DEF ReadDecimals, NextRow, Awaiting
<1>2. /\ found \in Seq(PumpCoins) /\ Len(found) \in Nat /\ DOMAIN found = 1 .. Len(found)
      /\ accounts \in Seq(Rows \cup {NoCurve}) /\ DOMAIN accounts = 1 .. Len(found)
      /\ Len(accounts) = Len(found)
      /\ chain \in Seq(Rows \cup {NoCurve}) /\ DOMAIN chain = 1 .. Len(found)
      /\ Len(chain) = Len(found)
      /\ at \in 1 .. Len(found) + 1 /\ decimals \cap BadQuotes = {} /\ listed = "none"
      /\ at <= Len(found) /\ Readable(accounts[at])
  BY <1>1 DEF ListInv, ListTyped, ListTypeOK, AccountsInStep, Paged
<1>3. at \in 1 .. Len(found) /\ at + 1 \in 1 .. Len(found) + 1 /\ at \in DOMAIN accounts
  BY <1>2
<1>4. \A n \in DOMAIN chain :
        chain[n] = IF n < at /\ n \in Legible THEN found[n] ELSE NoCurve
  BY DEF ListInv, ShownAbove
<1>5. Legible' = Legible
  BY <1>1 DEF Legible
<1>6. /\ found[at] \in Rows /\ accounts[at] = found[at]
      /\ CurveOf[found[at]] \notin {"none", "unreadable"}
  BY <1>2, <1>3, AccountIs
<1>7. lpc \notin {"page", "done"} /\ Onward
  BY <1>1, <1>2 DEF Onward, ListReads
<1>8. AccountsInStep'
  BY <1>1, <1>2 DEF ListInv, AccountsInStep
<1>9. CASE QuoteOf[accounts[at]] \in BadQuotes
  <2>1. UNCHANGED <<decimals, chain>>
    BY <1>9 DEF ReadDecimals
  <2>2. at \notin Legible
    BY <1>6, <1>9 DEF Legible
  <2>3. ListTyped' /\ Paging' /\ Paged'
    BY <1>1, <1>2, <1>3, <1>7, <2>1, PagedStays
  <2>4. ShownAbove'
    <3>1. \A n \in 1 .. Len(found) : n \in Legible => (n < at + 1 <=> n < at)
      BY <1>2, <2>2
    <3>. QED
      BY <1>1, <1>2, <1>4, <1>5, <2>1, <3>1 DEF ShownAbove
  <2>. QED
    BY <1>8, <2>3, <2>4 DEF ListInv
<1>10. CASE QuoteOf[accounts[at]] \notin BadQuotes
  <2>1. /\ decimals' = decimals \cup {QuoteOf[accounts[at]]}
        /\ chain' = [chain EXCEPT ![at] = accounts[at]]
    BY <1>10 DEF ReadDecimals, ShowCurve
  <2>2. decimals' \cap BadQuotes = {}
    BY <1>2, <1>10, <2>1
  <2>3. at \in Legible
    BY <1>2, <1>3, <1>6, <1>10 DEF Legible
  <2>4. /\ chain' \in Seq(Rows \cup {NoCurve}) /\ Len(chain') = Len(chain)
        /\ DOMAIN chain' = 1 .. Len(found)
        /\ \A n \in 1 .. Len(found) : chain'[n] = IF n = at THEN found[at] ELSE chain[n]
    BY <1>2, <1>3, <1>6, <2>1
  <2>5. ListTyped' /\ Paging' /\ Paged'
    BY <1>1, <1>2, <1>3, <1>7, <2>2, <2>4, PagedStays
  <2>6. ShownAbove'
    <3>1. \A n \in 1 .. Len(found) : n # at => (n < at + 1 <=> n < at)
      BY <1>2
    <3>2. at < at + 1
      BY <1>2
    <3>. QED
      BY <1>1, <1>2, <1>4, <1>5, <2>3, <2>4, <3>1, <3>2 DEF ShownAbove
  <2>. QED
    BY <1>8, <2>5, <2>6 DEF ListInv
<1>. QED
  BY <1>9, <1>10

LEMMA EnrichFailsInv == ListInv /\ EnrichFails /\ UNCHANGED <<board, moves, ask>> => ListInv'
<1>. SUFFICES ASSUME ListInv, EnrichFails, UNCHANGED <<board, moves, ask>> PROVE ListInv'
  OBVIOUS
<1>1. /\ lpc \in {"global", "accounts", "mint"} /\ lpc' = "done" /\ listed' = "enrich_failed"
      /\ UNCHANGED <<board, ask, offset, found, boards, accounts, at, decimals, chain>>
  BY DEF EnrichFails, Finished
<1>2. /\ chain \in Seq(Rows \cup {NoCurve}) /\ accounts \in Seq(Rows \cup {NoCurve})
      /\ at \in 1 .. Len(found) + 1 /\ decimals \cap BadQuotes = {}
  BY DEF ListInv, ListTyped
<1>3. lpc \notin {"page", "done"} /\ Onward
  BY <1>1 DEF Onward
<1>4. ListTyped' /\ Paging' /\ Paged'
  BY <1>1, <1>2, <1>3, PagedStays
<1>5. AccountsInStep' /\ ShownAbove'
  BY <1>1 DEF ListInv, AccountsInStep, ShownAbove, Legible
<1>. QED
  BY <1>4, <1>5 DEF ListInv

LEMMA ListAlways == ReadSpec => []ListInv
<1>1. ReadInit => ListInv
  BY ListInitInv DEF ReadInit
<1>2. ListInv /\ ListStep => ListInv'
  BY PageInv, OnceInv, ApiFailsInv, GlobalInv, AccountsInv, RowsInv, MintInv, EnrichFailsInv
     DEF ListStep
<1>3. ListInv /\ [ReadNext]_readVars => ListInv'
  <2>. SUFFICES ASSUME ListInv, [ReadNext]_readVars PROVE ListInv'
    OBVIOUS
  <2>1. CASE UNCHANGED listVars
    BY <2>1 DEF listVars, ListInv, ListTyped, ListTypeOK, Paging, Paged, FirstOfTheBoard,
       AccountsInStep, ShownAbove, Legible
  <2>. QED
    BY <1>2, <2>1, BoardMovesInv DEF ReadNext, Step, World, readVars
<1>. QED
  BY <1>1, <1>3, PTL DEF ReadSpec

(* A board is read in two requests at most and a listing is the top of it, *)
(* with no coin twice and of a board that moved meanwhile without only     *)
(* what climbed across the overlap of the pages: for any boards, page      *)
(* sizes and limits, and any number of moves (_board).                     *)
THEOREM ListingIsTheTopOfTheBoard == ReadSpec => []BoardWellRead
<1>. QED
  BY ListInvImplies, ListAlways, PTL

(* Every row shows its own coin's curve or none, in batches of any size    *)
(* and whatever read fails (_enrich).                                      *)
THEOREM RowsShowTheirOwn == ReadSpec => []RowsKeepTheirCurve
<1>. QED
  BY ListInvImplies, ListAlways, PTL

-----------------------------------------------------------------------------
(* tx-status.                                                              *)

(* Asking for the status is no step of the send path: whatever is proved   *)
(* of SubmissionSpec holds of a user who keeps asking.                     *)
THEOREM FollowUpKeepsSubmission == FollowUpSpec => SubmissionSpec
<1>1. FollowUpInit => SubmissionInit
  BY DEF FollowUpInit
<1>2. [FollowUpNext]_<<submissionVars, answers>> => [SubmissionNext]_submissionVars
  BY DEF FollowUpNext, AskStatus
<1>. QED
  BY <1>1, <1>2, PTL DEF FollowUpSpec, SubmissionSpec

(* A landed transaction never changes again.                               *)
LEMMA LandedStays ==
  ASSUME SubmissionInv, [SubmissionNext]_submissionVars,
         NEW i \in Invocations, tx[i].fate \in Landed
  PROVE  tx'[i].fate = tx[i].fate
<1>1. CASE UNCHANGED submissionVars
  BY <1>1 DEF submissionVars
<1>2. CASE SubmissionNext
  <2>1. PICK j \in Invocations :
          \/ \E m \in Modes : SendTx(j, m)
          \/ ClientStep(j) \/ Interrupt(j) \/ Cluster(j)
    BY <1>2 DEF SubmissionNext
  <2>. USE DEF SubmissionInv, TypeOK
  <2>2. CASE \E m \in Modes : SendTx(j, m)
    BY <2>2 DEF SendTx
  <2>3. CASE ClientStep(j)
    <3>1. CASE BuildAndPost(j)
      <4>1. call[j] = "blockhash" /\ tx[j].fate = "none"
        BY <3>1 DEF BuildAndPost, AwaitsKnow
      <4>2. i # j
        BY <4>1 DEF Landed
      <4>. QED
        BY <3>1, <4>2 DEF BuildAndPost
    <3>2. CASE ~BuildAndPost(j)
      BY <2>3, <3>2 DEF ClientStep, RpcRaises, SendAnswered, ConfirmAnswered, ConfirmRaises,
           ReadStatus, DeltaMissed, DeltaFound, DeltaRaises
    <3>. QED
      BY <3>1, <3>2
  <2>4. CASE Interrupt(j)
    BY <2>4 DEF Interrupt
  <2>5. CASE Cluster(j)
    <3>1. tx[j].fate \in {"posted", "flying"}
      BY <2>5 DEF Cluster, Arrive, Expire, Land
    <3>2. i # j
      BY <3>1 DEF Landed
    <3>. QED
      BY <2>5, <3>2 DEF Cluster, Arrive, Expire, Land
  <2>. QED
    BY <2>1, <2>2, <2>3, <2>4, <2>5
<1>. QED
  BY <1>1, <1>2

(* The inductive invariant of the composition.                             *)
FollowUpInv ==
  /\ SubmissionInv
  /\ answers \in [Invocations -> SUBSET Statuses]
  /\ TrueStatus

LEMMA FollowUpStep ==
  FollowUpInv /\ [FollowUpNext]_<<submissionVars, answers>> => FollowUpInv'
<1>. SUFFICES ASSUME FollowUpInv, [FollowUpNext]_<<submissionVars, answers>>
              PROVE  FollowUpInv'
  OBVIOUS
<1>1. [SubmissionNext]_submissionVars
  BY DEF FollowUpNext, AskStatus
<1>2. SubmissionInv'
  BY <1>1, StepInv DEF FollowUpInv
<1>3. CASE UNCHANGED answers
  <2>1. ASSUME NEW i \in Invocations, answers[i] \cap {"confirmed", "failed"} # {}
        PROVE  tx'[i].fate = tx[i].fate
    <3>1. tx[i].fate \in Landed
      BY <2>1 DEF FollowUpInv, TrueStatus, Landed
    <3>. QED
      BY <1>1, <3>1, LandedStays DEF FollowUpInv
  <2>2. ASSUME NEW i \in Invocations, "failed" \in answers[i]
        PROVE  receipt'[i] = NoReceipt
    <3>1. tx'[i].fate = "failed"
      BY <2>1, <2>2 DEF FollowUpInv, TrueStatus
    <3>. QED
      BY <3>1, <1>2 DEF SubmissionInv, ExactReceipt
  <2>. QED
    BY <1>2, <1>3, <2>1, <2>2 DEF FollowUpInv, TrueStatus
<1>4. CASE \E i \in Invocations : AskStatus(i)
  <2>1. PICK j \in Invocations : AskStatus(j)
    BY <1>4
  <2>2. PICK status \in {"not_found"} \cup {StatusOf(f) : f \in {tx[j].fate} \cap Landed} :
          answers' = [answers EXCEPT ![j] = @ \cup {status}]
    BY <2>1 DEF AskStatus
  <2>3. UNCHANGED <<tx, receipt>>
    BY <2>1 DEF AskStatus, submissionVars
  <2>4. /\ status \in Statuses
        /\ status = "confirmed" => tx[j].fate = "ok"
        /\ status = "failed" => tx[j].fate = "failed"
    BY <2>2 DEF StatusOf, Landed, Statuses
  <2>5. tx[j].fate = "failed" => receipt[j] = NoReceipt
    BY DEF FollowUpInv, SubmissionInv, ExactReceipt
  <2>6. answers' \in [Invocations -> SUBSET Statuses]
    BY <2>2, <2>4 DEF FollowUpInv
  <2>7. ASSUME NEW i \in Invocations, i # j
        PROVE  answers'[i] = answers[i]
    BY <2>2, <2>7 DEF FollowUpInv
  <2>8. answers'[j] = answers[j] \cup {status}
    BY <2>2 DEF FollowUpInv
  <2>9. TrueStatus'
    BY <2>3, <2>4, <2>5, <2>6, <2>7, <2>8 DEF FollowUpInv, TrueStatus
  <2>. QED
    BY <1>2, <2>6, <2>9 DEF FollowUpInv
<1>. QED
  BY <1>3, <1>4 DEF FollowUpNext

(* Every definite answer of tx-status is true, agrees with the receipt and *)
(* is never followed by its opposite: for any invocations, codes, receipts *)
(* and attempts, and however often the user asks.                          *)
THEOREM FollowUpTrueStatus == FollowUpSpec => []TrueStatus
<1>1. FollowUpInit => FollowUpInv
  BY InitInv DEF FollowUpInit, FollowUpInv, TrueStatus, Statuses
<1>2. FollowUpInv => TrueStatus
  BY DEF FollowUpInv
<1>. QED
  BY <1>1, <1>2, FollowUpStep, PTL DEF FollowUpSpec
=============================================================================
