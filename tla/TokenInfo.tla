------------------------------ MODULE TokenInfo -----------------------------
(***************************************************************************)
(* pumpfun info, core/info.py: get_token_info, and for a graduated coin    *)
(* core/pumpswap.py: get_pumpswap_info under it: eight reads, one after    *)
(* the other, of a coin that completes, migrates, is traded and has its    *)
(* curve account extended meanwhile.                                       *)
(*                                                                         *)
(* The pool's reserves are those of QuoteWalk, of which the virtual ones   *)
(* are a part of the quote side that is not in the vault.                  *)
(***************************************************************************)
EXTENDS QuoteWalk, CurveLayout

CONSTANTS
  Coins,                \* what a coin can be
  Lengths,              \* lengths of curve accounts (0: there is none)
  ExtendedLength,       \* what extend_account grows them to
  KnownQuotes,          \* KNOWN_QUOTE_MINTS: quote assets answered without a read
  Virtual,              \* the pool's virtual quote reserves
  MaxTorn               \* trades between the reads of the two vaults (bound)

ASSUME TokenInfoAssumption ==
  /\ Virtual \in 0 .. Quote0
  /\ Lengths \subseteq Nat /\ ExtendedLength \in Nat
  /\ \A c \in Coins : /\ c = [f \in Optional |-> c[f]]
                     /\ \A f \in Optional : c[f] # NoValue
  /\ Sol \in KnownQuotes
  /\ MaxTorn \in Nat

VARIABLES
  coin,                 \* what the coin is
  curve,                \* its curve account
  poolOpen,             \* has it migrated
  ipc,                  \* the read awaited
  seen,                 \* what was read
  shown,                \* how the command ended
  met                   \* the pool when its vaults were read, and what failed (history)

infoVars == <<coin, curve, poolOpen, ipc, seen, shown, met>>

InfoReads == {"curve", "mint", "global", "again", "pool", "tokens", "base", "vault"}
InfoEnds == {"none", "not_found", "raised", "curve_only", "with_warning", "with_pool"}

Seen == [coin : Coins \cup {Zero}, graduated : BOOLEAN,
         quoteAsset : {Sol} \cup {c.quote : c \in Coins}, base : Nat, quote : Nat]
Met == [openAtStart : BOOLEAN, failed : BOOLEAN, torn : Nat,
        first : Nat \X Nat, last : Nat \X Nat]

InfoTypeOK ==
  /\ coin \in Coins
  /\ curve \in [length : Lengths \cup {ExtendedLength}, complete : BOOLEAN]
  /\ poolOpen \in BOOLEAN
  /\ ipc \in InfoReads \cup {"done"}
  /\ shown \in InfoEnds
  /\ seen \in Seen
  /\ met \in Met

InfoInit ==
  /\ coin \in Coins
  /\ \E n \in Lengths, complete, open \in BOOLEAN :
       /\ n = 0 => ~complete
       /\ n = 0 \/ Fits(coin, n)
       /\ open => complete
       /\ curve = [length |-> n, complete |-> complete]
       /\ poolOpen = open
       /\ met = [openAtStart |-> open, failed |-> FALSE, torn |-> 0,
                 first |-> <<0, 0>>, last |-> <<0, 0>>]
  /\ ipc = "curve"
  /\ seen = [coin |-> Zero, graduated |-> FALSE, quoteAsset |-> Sol, base |-> 0, quote |-> 0]
  /\ shown = "none"

Ended(how) == ipc' = "done" /\ shown' = how
Awaits(where) == ipc' = where /\ UNCHANGED shown
Failing == met' = [met EXCEPT !.failed = TRUE]

-----------------------------------------------------------------------------
(* get_token_info.                                                         *)

(* A node that is behind answers that there is no account.                 *)
InfoCurve ==
  /\ ipc = "curve"
  /\ \/ /\ Ended("not_found") /\ UNCHANGED seen
        /\ IF curve.length = 0 THEN UNCHANGED met ELSE Failing
     \/ /\ curve.length # 0
        /\ LET parsed == Parse(coin, curve.length) IN
           /\ seen' = [seen EXCEPT !.coin = Shown(parsed), !.graduated = curve.complete]
           /\ Awaits(IF parsed.quote \in KnownQuotes THEN "global" ELSE "mint")
        /\ UNCHANGED met

InfoMint == ipc = "mint" /\ Awaits("global") /\ UNCHANGED <<seen, met>>

InfoGlobal ==
  /\ ipc = "global"
  /\ IF seen.graduated THEN Awaits("again") ELSE Ended("curve_only")
  /\ UNCHANGED <<seen, met>>

(* An exception of the RPC library passes through the handler of           *)
(* get_pumpswap_info, which is for RuntimeError and ValueError.            *)
InfoRaises ==
  /\ ipc \in {"curve", "mint", "global", "again", "tokens"}
  /\ Ended("raised")
  /\ Failing /\ UNCHANGED seen

-----------------------------------------------------------------------------
(* get_pumpswap_info.                                                      *)

(* (Mutant: the pool is looked for against SOL.)                           *)
InfoCurveSkipped ==
  /\ ipc = "again"
  /\ Awaits("pool")
  /\ UNCHANGED <<seen, met>>

(* _load_pool reads the curve again, for the pool's quote asset; answered  *)
(* that there is none, it takes SOL.                                       *)
InfoCurveAgain ==
  /\ ipc = "again"
  /\ \/ /\ seen' = [seen EXCEPT !.quoteAsset = Parse(coin, curve.length).quote]
        /\ UNCHANGED met
     \/ seen' = [seen EXCEPT !.quoteAsset = Sol] /\ Failing
  /\ Awaits("pool")

(* The pool's address comes from the coin and the quote asset.  Without    *)
(* the pool the curve's figures are shown, with a warning.                 *)
InfoPool ==
  /\ ipc = "pool"
  /\ \/ /\ poolOpen /\ seen.quoteAsset = coin.quote
        /\ Awaits("tokens") /\ UNCHANGED met
     \/ /\ ~(poolOpen /\ seen.quoteAsset = coin.quote)
        /\ Ended("with_warning") /\ UNCHANGED met
     \/ Ended("with_warning") /\ Failing
  /\ UNCHANGED seen

(* The mints of both sides; a node that misses one ends in the warning.    *)
InfoTokens ==
  /\ ipc = "tokens"
  /\ \/ Awaits("base") /\ UNCHANGED met
     \/ Ended("with_warning") /\ Failing
  /\ UNCHANGED seen

(* A vault that cannot be read is an empty one.                            *)
InfoBase ==
  /\ ipc = "base"
  /\ \/ /\ seen' = [seen EXCEPT !.base = base]
        /\ met' = [met EXCEPT !.first = <<base, quote>>]
     \/ Failing /\ UNCHANGED seen
  /\ Awaits("vault")

(* (Mutant: quoting off the vault alone.)                                  *)
QuoteSideOfVault(vault) == vault

QuoteSide(vault) == vault + Virtual

InfoVault ==
  /\ ipc = "vault"
  /\ \/ /\ seen' = [seen EXCEPT !.quote = QuoteSide(quote - Virtual)]
        /\ met' = [met EXCEPT !.last = <<base, quote>>]
     \/ Failing /\ seen' = [seen EXCEPT !.quote = QuoteSide(0)]
  /\ Ended("with_pool")

InfoStep ==
  /\ \/ InfoCurve \/ InfoMint \/ InfoGlobal \/ InfoRaises
     \/ InfoCurveAgain \/ InfoPool \/ InfoTokens \/ InfoBase \/ InfoVault
  /\ UNCHANGED <<coin, curve, poolOpen, walkVars>>

-----------------------------------------------------------------------------
(* Around it (external).                                                   *)

Complete ==
  /\ curve.length > 0 /\ ~curve.complete
  /\ curve' = [curve EXCEPT !.complete = TRUE]
  /\ UNCHANGED <<poolOpen, met, walkVars>>

Migrate ==
  /\ curve.complete /\ ~poolOpen
  /\ poolOpen' = TRUE
  /\ UNCHANGED <<curve, met, walkVars>>

ExtendAccount ==
  /\ 0 < curve.length /\ curve.length < ExtendedLength
  /\ curve' = [curve EXCEPT !.length = ExtendedLength]
  /\ UNCHANGED <<poolOpen, met, walkVars>>

(* Anyone trades on the pool; only the order against the two reads of its  *)
(* vaults matters, so trades stop with the command.  Nobody adds or takes  *)
(* out liquidity: the reserves are those of QuoteWalk, which has none.     *)
PoolTraded ==
  /\ poolOpen
  /\ WalkNext
  /\ IF ipc = "vault"
       THEN met.torn < MaxTorn /\ met' = [met EXCEPT !.torn = @ + 1]
       ELSE UNCHANGED met
  /\ UNCHANGED <<curve, poolOpen>>

InfoWorld ==
  /\ ipc # "done"
  /\ Complete \/ Migrate \/ ExtendAccount \/ PoolTraded
  /\ UNCHANGED <<coin, ipc, seen, shown>>
-----------------------------------------------------------------------------
(* pool_price: nothing where the base side is empty.                       *)
Price == IF seen.base <= 0 THEN <<0, 1>> ELSE <<seen.quote, seen.base>>

PoolPrice(reserves) == <<reserves[2], reserves[1]>>
AtMost(p, q) == p[1] * q[2] <= q[1] * p[2]

(* PROPERTY. Among trades, the price of a pool is one the pool went        *)
(* through while it was read, although its two sides are read at two       *)
(* moments: it lies between the prices at these, unless both reserves have *)
(* grown in between (the dust that trades leave), or a read failed.  (Of   *)
(* liquidity taken out or added between the two reads it says nothing:     *)
(* that moves both sides and the price shown is off by as much.)           *)
PricesAreReal ==
  shown = "with_pool" /\ ~met.failed =>
    LET p == PoolPrice(met.first)
        q == PoolPrice(met.last)
    IN  \/ AtMost(p, Price) /\ AtMost(Price, q)
        \/ AtMost(q, Price) /\ AtMost(Price, p)
        \/ met.last[1] > met.first[1] /\ met.last[2] > met.first[2]

(* PROPERTY. What is shown of a coin is what it is, however short its      *)
(* account and whether or not it is extended between the two reads of it;  *)
(* and a pool that was open all along is found, in the coin's own quote    *)
(* asset, unless a read failed.                                            *)
InfoDescribesTheCoin ==
  /\ InfoTypeOK
  /\ shown \in {"curve_only", "with_warning", "with_pool"} => seen.coin = coin
  /\ shown = "with_pool" => curve.complete /\ poolOpen
  /\ met.openAtStart /\ ~met.failed /\ ipc = "done" => shown = "with_pool"
=============================================================================
