---------------------------- MODULE Trade_proofs ----------------------------
(***************************************************************************)
(* Proofs about the trade commands, for every set of invocations and       *)
(* requests, all fees, rents, reserves and balances, and any number of     *)
(* trades by others.                                                       *)
(*                                                                         *)
(* A trade is right because of what its reads established before it was    *)
(* sent, so the invariant says, read by read, what is known (Stage, Route, *)
(* Price, Sight); the send path below keeps its own invariant, and the     *)
(* chain around it can complete a curve but never reopen it.               *)
(*                                                                         *)
(* That the exact fields add up is a fact about a sum over all the         *)
(* invocations: Balanced says of every state that the wallet holds what it *)
(* started with and what the landed trades moved, by exhibiting the        *)
(* account of every set of invocations, which a step amends pointwise; and *)
(* SumOfRawFields says that such an account is what MapThenSumSet sums.    *)
(***************************************************************************)
EXTENDS Trade, Submission_proofs, Quotes_proofs, FiniteSetTheorems

-----------------------------------------------------------------------------
(* The invariant.                                                          *)

(* Trading never empties a venue, and a curve stays complete.              *)
ChainSound ==
  /\ now \in Chain /\ fin \in Chain /\ others \in 0 .. MaxOthers
  /\ \A v \in Venues : Tradable(v) => now[v].base > 0 /\ Depth(v) > 0
  /\ fin.curve.st = "complete" => now.curve.st = "complete"

(* Where the command is, and where the send path is under it.              *)
Stage(i) ==
  /\ pc[i] \in Reads \cup {"idle"} => call[i] = "idle"
  /\ pc[i] = "submit" => call[i] # "idle"
  /\ res[i] = "none" <=> pc[i] # "done"
  /\ pc[i] = "done" /\ call[i] = "idle" => res[i] \in Refusals \cup {"dry_run", "raised"}
  /\ pc[i] = "done" /\ call[i] # "idle" => call[i] = "done" /\ ToldBy(res[i]) = Told(ret[i])

(* A PumpSwap trade was forced or sent there by a complete curve.          *)
Route(i) ==
  /\ pc[i] = "curve" => ~req[i].amm
  /\ pc[i] = "pool" => req[i].amm \/ now.curve.st = "complete"
  /\ pc[i] \in {"idle", "curve", "pool"} => view[i].venue = "curve"
  /\ pc[i] \in {"base", "vault"} => view[i].venue = "amm"
  /\ view[i].venue = "amm" => req[i].amm \/ now.curve.st = "complete"
  /\ pc[i] \in {"tokens", "sol", "usd"} /\ view[i].venue = "curve" => ~req[i].amm
  /\ call[i] # "idle" /\ view[i].venue = "curve" => ~req[i].amm

(* What was priced could be, and its floor honours the tolerance.          *)
Price(i) ==
  /\ pc[i] \in Reads => req[i] \in Requests
  /\ pc[i] \in {"sol", "usd"} => req[i].side = "buy"
  /\ pc[i] \in {"sol", "usd"} /\ view[i].venue = "amm" => view[i].quote > 0
  /\ pc[i] = "tokens" => req[i].side = "sell"
  /\ pc[i] \in {"base", "vault"} /\ req[i].side = "sell" => view[i].amount > 0
  /\ call[i] # "idle" =>
       /\ view[i].amount > 0 /\ view[i].floor >= 1
       /\ view[i].floor * 100 >= view[i].quoted * (100 - req[i].slip) - 100

(* A swallowed failure leaves a zero behind, and without virtual reserves  *)
(* no zero gets past the checks.                                           *)
Sight(i) ==
  Virtual = 0 =>
    /\ pc[i] \in (Reads \ {"vault"}) \cup {"idle"} => ~view[i].blind
    /\ pc[i] = "vault" /\ view[i].blind => view[i].base = 0
    /\ call[i] # "idle" => ~view[i].blind

Tolerance(i) ==
  tx[i].fate = "ok" =>
    /\ tx[i].got * 100 >= view[i].quoted * (100 - req[i].slip) - 100
    /\ tx[i].got >= 1

InvocationInv(i) == Stage(i) /\ Route(i) /\ Price(i) /\ Sight(i) /\ Tolerance(i)

Typed ==
  /\ req \in [Invocations -> Requests \cup {NoRequest}]
  /\ pc \in [Invocations -> Reads \cup {"idle", "submit", "done"}]
  /\ view \in [Invocations -> View]
  /\ res \in [Invocations -> Results]

TradeInv ==
  /\ SubmissionInv
  /\ ChainSound
  /\ Typed
  /\ \A i \in Invocations : InvocationInv(i)

(* What the invariant gives: types, routing, tolerance, and no trade on    *)
(* the strength of a failed read where no virtual reserves hide it.        *)
LEMMA TradeInvImplies ==
  ASSUME TradeInv
  PROVE  /\ TradeTypeOK /\ RoutedByTheCurve /\ ToleranceHonoured
         /\ Virtual = 0 => FailedReadNeverSends
<1>1. TradeTypeOK
  BY DEF TradeInv, SubmissionInv, ChainSound, Typed, TradeTypeOK
<1>2. \A i \in Invocations : tx[i].fate # "none" => call[i] # "idle" /\ posts[i] = 1
  BY DEF TradeInv, SubmissionInv, TypeOK, AwaitsKnow, PostsAtMostOnce
<1>3. RoutedByTheCurve
  BY <1>2 DEF TradeInv, InvocationInv, Route, RoutedByTheCurve
<1>4. ToleranceHonoured
  BY DEF TradeInv, InvocationInv, Tolerance, ToleranceHonoured
<1>5. Virtual = 0 => FailedReadNeverSends
  BY <1>2 DEF TradeInv, InvocationInv, Sight, FailedReadNeverSends
<1>. QED
  BY <1>1, <1>3, <1>4, <1>5

(* Initially.                                                              *)
LEMMA TradeInitInv == TradeInit => TradeInv
<1> SUFFICES ASSUME TradeInit PROVE TradeInv
  OBVIOUS
<1> USE TradeAssumption DEF TradeInit
<1>1. SubmissionInv
  BY InitInv
<1>2. ChainAtStart \in Chain
  BY DEF ChainAtStart, Chain, Market
<1>3. ChainSound
  <2>1. now["curve"] = CurveAtStart /\ now["amm"] = [PoolAtMigration EXCEPT !.st = "absent"]
    BY DEF ChainAtStart
  <2>2. CurveAtStart.quote \in Nat
    BY DEF Market
  <2>. QED
    BY <1>2, <2>1, <2>2 DEF ChainSound, ChainAtStart, Venues, Tradable, Depth, Chain, Market
<1>4. Typed
  BY DEF Typed, NoView, View, Venues, Results
<1>5. ASSUME NEW i \in Invocations PROVE InvocationInv(i)
  BY DEF InvocationInv, Stage, Route, Price, Sight, Tolerance, NoView, Reads,
         SubmissionInit, NoTx
<1>. QED
  BY <1>1, <1>3, <1>4, <1>5 DEF TradeInv

-----------------------------------------------------------------------------
(* Steps of the command.                                                   *)

(* An invocation that a step does not touch keeps what was known of it: a  *)
(* curve that was complete still is.                                       *)
LEMMA Untouched ==
  ASSUME TradeInv, NEW j \in Invocations,
         pc'[j] = pc[j], view'[j] = view[j], res'[j] = res[j], req'[j] = req[j],
         call'[j] = call[j], ret'[j] = ret[j], tx'[j] = tx[j],
         now.curve.st = "complete" => now'.curve.st = "complete"
  PROVE  InvocationInv(j)'
<1>1. InvocationInv(j)
  BY DEF TradeInv
<1>. QED
  BY <1>1 DEF InvocationInv, Stage, Route, Price, Sight, Tolerance

(* So a step of one command has to answer for its own invocation only.     *)
LEMMA OwnStep ==
  ASSUME TradeInv, NEW i \in Invocations, SubmissionInv', Typed', InvocationInv(i)',
         UNCHANGED <<now, fin, others>>,
         \A j \in Invocations \ {i} :
           /\ pc'[j] = pc[j] /\ view'[j] = view[j] /\ res'[j] = res[j] /\ req'[j] = req[j]
           /\ call'[j] = call[j] /\ ret'[j] = ret[j] /\ tx'[j] = tx[j]
  PROVE  TradeInv'
<1>1. \A j \in Invocations \ {i} : InvocationInv(j)'
  BY Untouched
<1>2. ChainSound'
  BY DEF TradeInv, ChainSound, Tradable, Depth
<1>. QED
  BY <1>1, <1>2 DEF TradeInv

(* A step of the command that leaves the send path alone.                  *)
LEMMA QuietCommand ==
  ASSUME TradeInv, NEW i \in Invocations, NEW p \in Reads \cup {"done"}, NEW v \in View,
         NEW r \in Results,
         pc' = [pc EXCEPT ![i] = p], view' = [view EXCEPT ![i] = v],
         res' = [res EXCEPT ![i] = r],
         UNCHANGED <<now, fin, others, req, submissionVars>>,
         InvocationInv(i)'
  PROVE  TradeInv'
<1>1. SubmissionInv'
  BY StutterInv DEF TradeInv
<1>2. Typed'
  BY DEF TradeInv, Typed
<1>3. \A j \in Invocations \ {i} :
        /\ pc'[j] = pc[j] /\ view'[j] = view[j] /\ res'[j] = res[j] /\ req'[j] = req[j]
        /\ call'[j] = call[j] /\ ret'[j] = ret[j] /\ tx'[j] = tx[j]
  BY DEF TradeInv, Typed, submissionVars
<1>. QED
  BY <1>1, <1>2, <1>3, OwnStep

(* Ending before anything was sent, with a refusal, a dry run or an error. *)
LEMMA RefusalInv ==
  ASSUME TradeInv, NEW i \in Invocations, pc[i] \in Reads \cup {"idle"},
         NEW r \in Refusals \cup {"dry_run", "raised"}, NEW v \in View,
         v.venue = view[i].venue, Finish(i, r), See(i, v), UNCHANGED <<now, fin, others, req>>
  PROVE  TradeInv'
<1>1. call[i] = "idle" /\ tx[i].fate = "none" /\ i \in DOMAIN pc /\ i \in DOMAIN res
      /\ i \in DOMAIN view
  BY DEF TradeInv, InvocationInv, Stage, SubmissionInv, AwaitsKnow, Typed
<1>2. pc'[i] = "done" /\ res'[i] = r /\ view'[i] = v /\ call'[i] = "idle"
      /\ tx'[i].fate = "none"
  BY <1>1 DEF Finish, See, submissionVars
<1>3. r # "none"
  BY DEF Refusals
<1>4. InvocationInv(i)'
  <2>1. InvocationInv(i)
    BY DEF TradeInv
  <2>. QED
    BY <1>2, <1>3, <2>1 DEF InvocationInv, Stage, Route, Price, Sight, Tolerance, Reads
<1>5. r \in Results
  BY DEF Results
<1>. QED
  BY <1>4, <1>5, QuietCommand DEF Finish, See

(* Going on to another read.                                               *)
LEMMA GotoInv ==
  ASSUME TradeInv, NEW i \in Invocations, pc[i] \in Reads, NEW p \in Reads, NEW v \in View,
         Goto(i, p), See(i, v), UNCHANGED <<now, fin, others, req>>,
         Route(i)', Price(i)', Sight(i)'
  PROVE  TradeInv'
<1>1. call[i] = "idle" /\ tx[i].fate = "none" /\ res[i] = "none" /\ i \in DOMAIN pc
      /\ i \in DOMAIN res
  BY DEF TradeInv, InvocationInv, Stage, SubmissionInv, AwaitsKnow, Typed, Reads
<1>2. Stage(i)' /\ Tolerance(i)'
  BY <1>1 DEF Goto, submissionVars, Stage, Tolerance, Reads
<1>3. res' = [res EXCEPT ![i] = "none"]
  BY <1>1 DEF Goto, TradeInv, Typed
<1>. QED
  BY <1>2, <1>3, QuietCommand DEF InvocationInv, Goto, See, Results

(* Sending an allowed trade, or ending a dry run with its quote.           *)
LEMMA DispatchInv ==
  ASSUME TradeInv, NEW i \in Invocations, pc[i] \in Reads, NEW v \in View,
         Dispatch(i, v), UNCHANGED <<now, fin, others, req>>,
         v.venue = view[i].venue,
         view[i].venue = "curve" => ~req[i].amm,
         v.amount > 0, v.floor >= 1,
         v.floor * 100 >= v.quoted * (100 - req[i].slip) - 100,
         Virtual = 0 => ~v.blind \/ req[i].dry
  PROVE  TradeInv'
<1>1. CASE req[i].dry
  BY <1>1, RefusalInv DEF Dispatch
<1>2. CASE ~req[i].dry
  <2>1. PICK m \in Modes : SendTx(i, m)
    BY <1>2 DEF Dispatch, Modes
  <2>2. SubmissionInv'
    BY <2>1, SendTxInv DEF TradeInv
  <2>3. pc' = [pc EXCEPT ![i] = "submit"] /\ view' = [view EXCEPT ![i] = v] /\ UNCHANGED res
    BY <1>2 DEF Dispatch, See
  <2>4. call' = [call EXCEPT ![i] = "blockhash"] /\ UNCHANGED <<ret, tx>>
    BY <2>1 DEF SendTx, Await
  <2>5. Typed'
    BY <2>3 DEF TradeInv, Typed
  <2>6. pc'[i] = "submit" /\ view'[i] = v /\ call'[i] = "blockhash" /\ tx'[i].fate = "none"
    BY <2>3, <2>4 DEF TradeInv, Typed, SubmissionInv, TypeOK, AwaitsKnow, InvocationInv, Stage
  <2>7. InvocationInv(i)
    BY DEF TradeInv
  <2>8. InvocationInv(i)'
    BY <1>2, <2>3, <2>6, <2>7
    DEF InvocationInv, Stage, Route, Price, Sight, Tolerance, Reads
  <2>9. \A j \in Invocations \ {i} :
          /\ pc'[j] = pc[j] /\ view'[j] = view[j] /\ res'[j] = res[j] /\ req'[j] = req[j]
          /\ call'[j] = call[j] /\ ret'[j] = ret[j] /\ tx'[j] = tx[j]
    BY <2>3, <2>4 DEF TradeInv, Typed, SubmissionInv, TypeOK
  <2>. QED
    BY <2>2, <2>5, <2>8, <2>9, OwnStep
<1>. QED
  BY <1>1, <1>2

(* What a request can be.                                                  *)
LEMMA RequestFacts ==
  ASSUME TradeInv, NEW i \in Invocations, pc[i] \in Reads
  PROVE  /\ req[i].slip \in 0 .. 100 /\ req[i].amount \in Nat
         /\ req[i].side \in Sides /\ req[i].dry \in BOOLEAN /\ req[i].all \in BOOLEAN
         /\ req[i].side = "buy" => req[i].amount > 0
<1>1. req[i] \in Requests
  BY DEF TradeInv, InvocationInv, Price
<1>. QED
  BY <1>1, TradeAssumption DEF Request

(* A sell is priced at reserves and an amount that make a quote, with a    *)
(* floor within the tolerance.                                             *)
LEMMA PriceSellInv ==
  ASSUME TradeInv, NEW i \in Invocations, pc[i] \in Reads, NEW v \in View,
         PriceSell(i, v), UNCHANGED <<now, fin, others, req>>,
         v.venue = view[i].venue, view[i].venue = "curve" => ~req[i].amm,
         v.amount > 0, Virtual = 0 => ~v.blind
  PROVE  TradeInv'
<1>1. v.base \in Nat /\ v.quote \in Nat /\ v.amount \in Nat /\ v.base + v.amount # 0
  BY DEF View
<1>2. /\ SellQuoteOut(v.base, v.quote, v.amount) \in Nat
      /\ AmmSellOut(v.base, v.quote, v.amount, AmmFeeBps) \in Nat
  <2>1. SellQuoteOut(v.base, v.quote, v.amount) \in Nat
    BY <1>1, SellNat
  <2>. QED
    BY <2>1, FeeBounds, TradeAssumption DEF AmmSellOut
<1>3. PICK quoted \in Nat :
        \E floor \in CurveSellFloors(quoted, req[i].slip) \cup {Floor(quoted, req[i].slip)} :
          Dispatch(i, [v EXCEPT !.quoted = quoted, !.floor = floor])
  BY <1>2 DEF PriceSell
<1>. PICK floor \in CurveSellFloors(quoted, req[i].slip) \cup {Floor(quoted, req[i].slip)} :
       Dispatch(i, [v EXCEPT !.quoted = quoted, !.floor = floor])
  BY <1>3
<1>4. req[i].slip \in 0 .. 100
  BY RequestFacts
<1>5. /\ floor \in Nat /\ floor >= 1
      /\ floor * 100 >= quoted * (100 - req[i].slip) - 100
  BY <1>3, <1>4, FloorHonours
<1> DEFINE w == [v EXCEPT !.quoted = quoted, !.floor = floor]
<1>6. /\ w \in View /\ w.venue = v.venue /\ w.amount = v.amount /\ w.blind = v.blind
      /\ w.quoted = quoted /\ w.floor = floor
  BY <1>3, <1>5 DEF View
<1> HIDE DEF w
<1>7. Dispatch(i, w)
  BY <1>3 DEF w
<1>. QED
  BY <1>5, <1>6, <1>7, DispatchInv

(* So is a buy, unless a balance is too short for it.                      *)
LEMMA PriceBuyInv ==
  ASSUME TradeInv, NEW i \in Invocations, pc[i] \in Reads, NEW v \in View, NEW short,
         PriceBuy(i, v, short), UNCHANGED <<now, fin, others, req>>,
         req[i].side = "buy", v.venue = view[i].venue,
         view[i].venue = "curve" => ~req[i].amm,
         view[i].venue = "amm" => v.quote > 0,
         Virtual = 0 => ~v.blind \/ short
  PROVE  TradeInv'
<1> DEFINE a == req[i].amount
           quoted == IF v.venue = "curve" THEN BuyTokensOut(v.base, v.quote, a)
                     ELSE AmmBuyOut(v.base, v.quote, a, AmmFeeBps)
<1>1. /\ v.base \in Nat /\ v.quote \in Nat /\ a \in Nat /\ a > 0
      /\ req[i].slip \in 0 .. 100
  BY RequestFacts DEF View
<1>2. quoted \in Nat
  <2>1. v.quote + a # 0
    BY <1>1
  <2>2. BuyTokensOut(v.base, v.quote, a) \in Nat
    BY <1>1, <2>1, BuyNat
  <2>3. v.venue = "amm" => AmmBuyOut(v.base, v.quote, a, AmmFeeBps) \in Nat
    <3>1. AfterFee(a, AmmFeeBps) \in Nat
      BY <1>1, FeeBounds, TradeAssumption
    <3>2. v.venue = "amm" => v.quote + AfterFee(a, AmmFeeBps) # 0
      BY <1>1, <3>1
    <3>. QED
      BY <1>1, <3>1, <3>2, BuyNat DEF AmmBuyOut
  <2>. QED
    BY <2>2, <2>3 DEF View, Venues
<1> DEFINE priced(f) == [v EXCEPT !.amount = a, !.quoted = quoted, !.floor = f]
<1>. PICK floor \in CurveBuyFloors(quoted, req[i].slip) \cup {Floor(quoted, req[i].slip)} :
       \/ short /\ ~req[i].dry /\ See(i, priced(floor)) /\ Finish(i, "insufficient_balance")
       \/ ~(short /\ ~req[i].dry) /\ Dispatch(i, priced(floor))
  BY DEF PriceBuy
<1> DEFINE w == priced(floor)
<1>3. (short /\ ~req[i].dry /\ See(i, w) /\ Finish(i, "insufficient_balance"))
      \/ (~(short /\ ~req[i].dry) /\ Dispatch(i, w))
  OBVIOUS
<1> HIDE DEF a, quoted
<1>4. floor \in Nat /\ floor >= 1 /\ floor * 100 >= quoted * (100 - req[i].slip) - 100
  BY <1>1, <1>2, FloorHonours
<1>5. /\ w \in View /\ w.venue = v.venue /\ w.amount = a /\ w.blind = v.blind
      /\ w.quoted = quoted /\ w.floor = floor
  BY <1>1, <1>2, <1>4 DEF View
<1> HIDE DEF w
<1>6. CASE short /\ ~req[i].dry /\ See(i, w) /\ Finish(i, "insufficient_balance")
  BY <1>5, <1>6, RefusalInv DEF Refusals
<1>7. CASE ~(short /\ ~req[i].dry) /\ Dispatch(i, w)
  BY <1>1, <1>4, <1>5, <1>7, DispatchInv
<1>. QED
  BY <1>3, <1>6, <1>7

-----------------------------------------------------------------------------
(* The steps of the command, one by one.                                   *)

(* What is known of an invocation before it sends.                         *)
LEMMA ViewFacts ==
  ASSUME TradeInv, NEW i \in Invocations
  PROVE  view[i] \in View /\ InvocationInv(i) /\ ChainSound
  BY DEF TradeInv, Typed, See

(* A step that reads nothing sees what was seen.                           *)
LEMMA SameView ==
  ASSUME TradeInv, NEW i \in Invocations, UNCHANGED view
  PROVE  See(i, view[i])
  BY DEF TradeInv, Typed, See

(* An invocation starts from nothing: no view, no call of send_tx.         *)
LEMMA StartInv ==
  ASSUME TradeInv, NEW i \in Invocations, Start(i)
  PROVE  TradeInv'
<1>1. PICK r \in Requests :
        req' = [req EXCEPT ![i] = r] /\ Goto(i, IF r.amm THEN "pool" ELSE "curve")
  BY DEF Start
<1>2. pc[i] = "idle" /\ UNCHANGED <<now, fin, others, view, res, submissionVars>>
  BY <1>1 DEF Start, Goto
<1>3. SubmissionInv'
  BY <1>2, StutterInv DEF TradeInv
<1>4. Typed'
  BY <1>1, <1>2 DEF Goto, TradeInv, Typed, Reads
<1>5. /\ pc'[i] = IF r.amm THEN "pool" ELSE "curve"
      /\ req'[i] = r /\ call' = call /\ tx' = tx /\ ret' = ret
  BY <1>1, <1>2 DEF Goto, TradeInv, Typed, submissionVars
<1>6. call[i] = "idle" /\ tx[i].fate = "none"
  BY <1>2 DEF TradeInv, InvocationInv, Stage, SubmissionInv, AwaitsKnow
<1>7. InvocationInv(i)'
  <2>1. InvocationInv(i)
    BY DEF TradeInv
  <2>2. Stage(i)' /\ Tolerance(i)'
    BY <1>2, <1>5, <1>6, <2>1 DEF InvocationInv, Stage, Tolerance, Reads
  <2>3. Route(i)'
    <3>1. view'[i].venue = "curve" /\ call'[i] = "idle"
      BY <1>2, <1>5, <1>6, <2>1 DEF InvocationInv, Route
    <3>. QED
      BY <1>5, <3>1 DEF Route
  <2>4. Price(i)'
    BY <1>5, <1>6 DEF Price
  <2>5. Sight(i)'
    <3>1. Virtual = 0 => ~view'[i].blind
      BY <1>2, <2>1 DEF InvocationInv, Sight
    <3>. QED
      BY <1>5, <1>6, <3>1 DEF Sight
  <2>. QED
    BY <2>2, <2>3, <2>4, <2>5 DEF InvocationInv
<1>8. \A j \in Invocations \ {i} : pc'[j] = pc[j] /\ req'[j] = req[j]
  BY <1>1 DEF Goto, TradeInv, Typed
<1>. QED
  BY <1>2, <1>3, <1>4, <1>5, <1>7, <1>8, OwnStep

(* Refusals before any read, and reads that raise, leave nothing behind.   *)
LEMMA RefuseInv ==
  ASSUME TradeInv, NEW i \in Invocations, Refuse(i) \/ ReadRaises(i)
  PROVE  TradeInv'
<1>1. PICK r \in {"refused", "raised"} : Finish(i, r)
  BY DEF Refuse, ReadRaises
<1>2. pc[i] \in Reads \cup {"idle"} /\ UNCHANGED <<now, fin, others, req, view>>
  BY DEF Refuse, ReadRaises
<1>. QED
  BY <1>1, <1>2, ViewFacts, SameView, RefusalInv DEF Refusals

(* The curve decides the route: complete, the trade belongs to PumpSwap.   *)
LEMMA ReadCurveInv ==
  ASSUME TradeInv, NEW i \in Invocations, ReadCurve(i)
  PROVE  TradeInv'
<1>1. pc[i] = "curve" /\ pc[i] \in Reads /\ UNCHANGED <<now, fin, others, req>>
  BY DEF ReadCurve, Reads
<1>2. InvocationInv(i) /\ view[i] \in View
  BY ViewFacts
<1>3. ASSUME NEW r \in {"not_found", "legacy_curve"}, Finish(i, r), UNCHANGED view
      PROVE  TradeInv'
  BY <1>1, <1>3, ViewFacts, SameView, RefusalInv DEF Refusals
<1>4. CASE fin.curve.st = "complete" /\ Goto(i, "pool") /\ UNCHANGED view
  <2>1. now'.curve.st = "complete"
    BY <1>1, <1>4, ViewFacts DEF ChainSound
  <2>2. pc'[i] = "pool" /\ call'[i] = "idle"
    BY <1>1, <1>2, <1>4 DEF Goto, TradeInv, Typed, InvocationInv, Stage, submissionVars
  <2>3. Route(i)' /\ Price(i)' /\ Sight(i)'
    BY <1>1, <1>2, <1>4, <2>1, <2>2 DEF InvocationInv, Route, Price, Sight, Reads
  <2>. QED
    BY <1>1, <1>4, <2>3, ViewFacts, SameView, GotoInv DEF Reads
<1> DEFINE v == [view[i] EXCEPT !.base = fin.curve.base, !.quote = fin.curve.quote]
           p == IF req[i].side = "buy" THEN "sol" ELSE "tokens"
<1>5. CASE See(i, v) /\ Goto(i, p)
  <2>1. v \in View /\ v.venue = view[i].venue /\ v.blind = view[i].blind
    BY <1>2, ViewFacts DEF ChainSound, Chain, Market, View
  <2>2. p \in Reads /\ p \in {"sol", "tokens"}
    BY DEF Reads
  <2> HIDE DEF v
  <2>3. pc'[i] = p /\ call'[i] = "idle" /\ view'[i] = v
    BY <1>1, <1>2, <1>5 DEF Goto, See, TradeInv, Typed, InvocationInv, Stage, submissionVars
  <2>4. req[i].side \in Sides
    BY <1>1, RequestFacts
  <2>5. Route(i)' /\ Price(i)' /\ Sight(i)'
    BY <1>1, <1>2, <2>1, <2>2, <2>3, <2>4
    DEF InvocationInv, Route, Price, Sight, Reads, Sides
  <2>. QED
    BY <1>1, <1>5, <2>1, <2>2, <2>5, GotoInv
<1>. QED
  BY <1>3, <1>4, <1>5 DEF ReadCurve

(* The pool is only looked for by those who may trade on it.               *)
LEMMA LoadPoolInv ==
  ASSUME TradeInv, NEW i \in Invocations, LoadPool(i)
  PROVE  TradeInv'
<1>1. pc[i] = "pool" /\ pc[i] \in Reads /\ UNCHANGED <<now, fin, others, req>>
  BY DEF LoadPool, Reads
<1>2. InvocationInv(i) /\ view[i] \in View
  BY ViewFacts
<1>3. CASE Finish(i, "no_pool") /\ UNCHANGED view
  BY <1>1, <1>3, ViewFacts, SameView, RefusalInv DEF Refusals
<1> DEFINE v == [view[i] EXCEPT !.venue = "amm"]
           p == IF req[i].side = "buy" THEN "base" ELSE "tokens"
<1>4. CASE See(i, v) /\ Goto(i, p)
  <2>1. v \in View /\ v.venue = "amm" /\ v.blind = view[i].blind
    BY <1>2 DEF View, Venues
  <2>2. p \in Reads
    BY DEF Reads
  <2> HIDE DEF v
  <2>3. pc'[i] = p /\ call'[i] = "idle" /\ view'[i] = v
    BY <1>1, <1>2, <1>4 DEF Goto, See, TradeInv, Typed, InvocationInv, Stage, submissionVars
  <2>4. req[i].side \in Sides
    BY <1>1, RequestFacts
  <2>5. Route(i)' /\ Price(i)' /\ Sight(i)'
    BY <1>1, <1>2, <2>1, <2>2, <2>3, <2>4
    DEF InvocationInv, Route, Price, Sight, Reads, Sides
  <2>. QED
    BY <1>1, <1>4, <2>1, <2>2, <2>5, GotoInv
<1>. QED
  BY <1>3, <1>4 DEF LoadPool

(* What a token account is read as.                                        *)
LEMMA AnswerNat ==
  ASSUME NEW answered \in BOOLEAN, NEW n \in Nat
  PROVE  Answer(answered, n) \in Nat /\ (~answered => Answer(answered, n) = 0)
  BY DEF Answer

(* A sell learns its amount: some tokens the wallet holds.  An unanswered  *)
(* read is a zero, and no positive amount is held by it.                   *)
LEMMA ReadTokensInv ==
  ASSUME TradeInv, NEW i \in Invocations, ReadTokens(i)
  PROVE  TradeInv'
<1>1. pc[i] = "tokens" /\ pc[i] \in Reads /\ UNCHANGED <<now, fin, others, req>>
  BY DEF ReadTokens, Reads
<1>2. InvocationInv(i) /\ view[i] \in View /\ req[i].amount \in Nat
      /\ req[i].side = "sell"
  BY <1>1, ViewFacts, RequestFacts DEF InvocationInv, Price
<1>3. PICK answered \in BOOLEAN :
        LET held == Answer(answered, fin.wallet.tok)
            amount == IF req[i].all THEN held ELSE req[i].amount
            v == [view[i] EXCEPT !.amount = amount, !.blind = @ \/ ~answered]
        IN  \/ /\ held < amount
               /\ See(i, v) /\ Finish(i, "insufficient_balance")
            \/ /\ held >= amount /\ amount = 0
               /\ See(i, v) /\ Finish(i, "no_tokens")
            \/ /\ held >= amount /\ amount > 0
               /\ IF v.venue = "curve" THEN PriceSell(i, v) ELSE See(i, v) /\ Goto(i, "base")
  BY DEF ReadTokens
<1> DEFINE held == Answer(answered, fin.wallet.tok)
           amount == IF req[i].all THEN held ELSE req[i].amount
           v == [view[i] EXCEPT !.amount = amount, !.blind = @ \/ ~answered]
<1>4. held \in Nat /\ (~answered => held = 0)
  <2>1. fin.wallet.tok \in Nat
    BY ViewFacts DEF ChainSound, Chain, Wallet
  <2>. QED
    BY <2>1, AnswerNat
<1> HIDE DEF held
<1>5. amount \in Nat
  BY <1>2, <1>4
<1> HIDE DEF amount
<1>6. v \in View /\ v.venue = view[i].venue /\ v.amount = amount
      /\ v.blind = (view[i].blind \/ ~answered) /\ v.quote = view[i].quote
  BY <1>2, <1>5 DEF View
<1>7. /\ \/ held < amount /\ See(i, v) /\ Finish(i, "insufficient_balance")
         \/ amount = 0 /\ See(i, v) /\ Finish(i, "no_tokens")
         \/ /\ held >= amount /\ amount > 0
            /\ \/ v.venue = "curve" /\ PriceSell(i, v)
               \/ v.venue # "curve" /\ See(i, v) /\ Goto(i, "base")
  BY <1>3 DEF amount, held
<1> HIDE DEF v
<1>8. ASSUME NEW r \in {"insufficient_balance", "no_tokens"}, See(i, v), Finish(i, r)
      PROVE  TradeInv'
  BY <1>1, <1>6, <1>8, RefusalInv DEF Refusals
<1>9. ASSUME held >= amount, amount > 0
      PROVE  v.amount > 0 /\ (Virtual = 0 => ~v.blind)
  <2>1. answered
    BY <1>4, <1>5, <1>9
  <2>. QED
    BY <1>1, <1>2, <1>6, <1>9, <2>1 DEF InvocationInv, Sight, Reads
<1>10. CASE held >= amount /\ amount > 0 /\ v.venue = "curve" /\ PriceSell(i, v)
  BY <1>1, <1>2, <1>6, <1>9, <1>10, PriceSellInv DEF InvocationInv, Route
<1>11. CASE held >= amount /\ amount > 0 /\ v.venue # "curve" /\ See(i, v) /\ Goto(i, "base")
  <2>1. pc'[i] = "base" /\ call'[i] = "idle" /\ view'[i] = v /\ view[i].venue = "amm"
    BY <1>1, <1>2, <1>6, <1>11 DEF Goto, See, TradeInv, Typed, InvocationInv, Stage,
                                    submissionVars, View, Venues
  <2>2. Route(i)' /\ Price(i)' /\ Sight(i)'
    BY <1>1, <1>2, <1>6, <1>9, <1>11, <2>1 DEF InvocationInv, Route, Price, Sight, Reads
  <2>. QED
    BY <1>1, <1>6, <1>11, <2>2, GotoInv DEF Reads
<1>. QED
  BY <1>7, <1>8, <1>10, <1>11

(* The vaults: a reserve that could not be read is a zero.                 *)
LEMMA ReadBaseInv ==
  ASSUME TradeInv, NEW i \in Invocations, ReadBase(i)
  PROVE  TradeInv'
<1>1. pc[i] = "base" /\ pc[i] \in Reads /\ UNCHANGED <<now, fin, others, req>>
      /\ Goto(i, "vault")
  BY DEF ReadBase, Reads
<1>2. InvocationInv(i) /\ view[i] \in View
  BY ViewFacts
<1>3. PICK answered \in BOOLEAN :
        See(i, [view[i] EXCEPT !.base = Answer(answered, fin.amm.base),
                               !.blind = @ \/ ~answered])
  BY DEF ReadBase
<1> DEFINE v == [view[i] EXCEPT !.base = Answer(answered, fin.amm.base),
                                !.blind = @ \/ ~answered]
<1>4. Answer(answered, fin.amm.base) \in Nat
      /\ (~answered => Answer(answered, fin.amm.base) = 0)
  <2>1. fin.amm.base \in Nat
    BY ViewFacts DEF ChainSound, Chain, Market
  <2>. QED
    BY <2>1, AnswerNat
<1>5. v \in View /\ v.venue = view[i].venue /\ v.amount = view[i].amount
      /\ v.blind = (view[i].blind \/ ~answered) /\ (~answered => v.base = 0)
  BY <1>2, <1>4 DEF View
<1>6. See(i, v)
  BY <1>3
<1> HIDE DEF v
<1>7. pc'[i] = "vault" /\ call'[i] = "idle" /\ view'[i] = v
  BY <1>1, <1>2, <1>6 DEF Goto, See, TradeInv, Typed, InvocationInv, Stage, submissionVars
<1>8. Route(i)' /\ Price(i)' /\ Sight(i)'
  BY <1>1, <1>2, <1>5, <1>7 DEF InvocationInv, Route, Price, Sight, Reads
<1>. QED
  BY <1>1, <1>5, <1>6, <1>8, GotoInv DEF Reads

(* Both reserves are positive beyond this read, so without virtual         *)
(* reserves both were answered.                                            *)
LEMMA ReadVaultInv ==
  ASSUME TradeInv, NEW i \in Invocations, ReadVault(i)
  PROVE  TradeInv'
<1>1. pc[i] = "vault" /\ pc[i] \in Reads /\ UNCHANGED <<now, fin, others, req>>
  BY DEF ReadVault, Reads
<1>2. InvocationInv(i) /\ view[i] \in View /\ req[i].side \in Sides
  BY <1>1, ViewFacts, RequestFacts
<1>3. PICK answered \in BOOLEAN :
        LET depth == Answer(answered, fin.amm.quote) + Virtual
            v == [view[i] EXCEPT !.quote = depth, !.blind = @ \/ ~answered]
        IN  \/ /\ v.base <= 0 \/ depth <= 0
               /\ See(i, v) /\ Finish(i, "no_liquidity")
            \/ /\ v.base > 0 /\ depth > 0
               /\ IF req[i].side = "sell" THEN PriceSell(i, v) ELSE See(i, v) /\ Goto(i, "sol")
  BY DEF ReadVault
<1> DEFINE depth == Answer(answered, fin.amm.quote) + Virtual
           v == [view[i] EXCEPT !.quote = depth, !.blind = @ \/ ~answered]
<1>4. depth \in Nat /\ (~answered /\ Virtual = 0 => depth = 0)
  <2>1. fin.amm.quote \in Nat
    BY ViewFacts DEF ChainSound, Chain, Market
  <2>. QED
    BY <2>1, AnswerNat, TradeAssumption
<1> HIDE DEF depth
<1>5. v \in View /\ v.venue = view[i].venue /\ v.amount = view[i].amount
      /\ v.blind = (view[i].blind \/ ~answered) /\ v.base = view[i].base /\ v.quote = depth
  BY <1>2, <1>4 DEF View
<1>6. \/ See(i, v) /\ Finish(i, "no_liquidity")
      \/ /\ v.base > 0 /\ depth > 0
         /\ \/ req[i].side = "sell" /\ PriceSell(i, v)
            \/ req[i].side = "buy" /\ See(i, v) /\ Goto(i, "sol")
  BY <1>2, <1>3 DEF depth, Sides
<1> HIDE DEF v
<1>7. view[i].venue = "amm"
  BY <1>1, <1>2 DEF InvocationInv, Route
<1>8. ASSUME v.base > 0, depth > 0
      PROVE  Virtual = 0 => ~v.blind
  <2>1. Virtual = 0 => answered
    BY <1>4, <1>8
  <2>2. view[i].base # 0
    BY <1>5, <1>8
  <2>3. Virtual = 0 => ~view[i].blind
    BY <1>1, <1>2, <2>2 DEF InvocationInv, Sight
  <2>. QED
    BY <1>5, <2>1, <2>3
<1>9. CASE See(i, v) /\ Finish(i, "no_liquidity")
  BY <1>1, <1>5, <1>9, RefusalInv DEF Refusals
<1>10. CASE v.base > 0 /\ depth > 0 /\ req[i].side = "sell" /\ PriceSell(i, v)
  <2>1. v.amount > 0
    BY <1>1, <1>2, <1>5, <1>10 DEF InvocationInv, Price
  <2>. QED
    BY <1>1, <1>5, <1>7, <1>8, <1>10, <2>1, PriceSellInv
<1>11. CASE v.base > 0 /\ depth > 0 /\ req[i].side = "buy" /\ See(i, v) /\ Goto(i, "sol")
  <2>1. pc'[i] = "sol" /\ call'[i] = "idle" /\ view'[i] = v
    BY <1>1, <1>2, <1>11 DEF Goto, See, TradeInv, Typed, InvocationInv, Stage, submissionVars
  <2>2. Route(i)' /\ Price(i)' /\ Sight(i)'
    BY <1>1, <1>2, <1>5, <1>7, <1>8, <1>11, <2>1
    DEF InvocationInv, Route, Price, Sight, Reads
  <2>. QED
    BY <1>1, <1>5, <1>11, <2>2, GotoInv DEF Reads
<1>. QED
  BY <1>6, <1>9, <1>10, <1>11

(* A buy's balances.  A payment account that could not be read is a zero,  *)
(* and no amount is paid from it.                                          *)
LEMMA ReadSolInv ==
  ASSUME TradeInv, NEW i \in Invocations, ReadSol(i)
  PROVE  TradeInv'
<1> DEFINE v == [view[i] EXCEPT !.sol = fin.wallet.sol]
<1>1. pc[i] = "sol" /\ pc[i] \in Reads /\ UNCHANGED <<now, fin, others, req>>
  BY DEF ReadSol, Reads
<1>2. InvocationInv(i) /\ view[i] \in View
  BY ViewFacts
<1>3. v \in View /\ v.venue = view[i].venue /\ v.amount = view[i].amount
      /\ v.blind = view[i].blind /\ v.quote = view[i].quote
  BY <1>2, ViewFacts DEF ChainSound, Chain, Wallet, View
<1>4. (\E short \in BOOLEAN : PriceBuy(i, v, short)) \/ (See(i, v) /\ Goto(i, "usd"))
  <2>1. (v.sol < Required(i)) \in BOOLEAN
    OBVIOUS
  <2>. QED
    BY <2>1 DEF ReadSol
<1> HIDE DEF v
<1>5. ASSUME NEW short \in BOOLEAN, PriceBuy(i, v, short)
      PROVE  TradeInv'
  <2>1. req[i].side = "buy" /\ (view[i].venue = "curve" => ~req[i].amm)
        /\ (view[i].venue = "amm" => v.quote > 0) /\ (Virtual = 0 => ~v.blind)
    BY <1>1, <1>2, <1>3 DEF InvocationInv, Route, Price, Sight, Reads
  <2>. QED
    BY <1>1, <1>3, <1>5, <2>1, PriceBuyInv
<1>6. CASE See(i, v) /\ Goto(i, "usd")
  <2>1. pc'[i] = "usd" /\ call'[i] = "idle" /\ view'[i] = v
    BY <1>1, <1>2, <1>6 DEF Goto, See, TradeInv, Typed, InvocationInv, Stage, submissionVars
  <2>2. Route(i)' /\ Price(i)' /\ Sight(i)'
    BY <1>1, <1>2, <1>3, <2>1 DEF InvocationInv, Route, Price, Sight, Reads
  <2>. QED
    BY <1>1, <1>3, <1>6, <2>2, GotoInv DEF Reads
<1>. QED
  BY <1>4, <1>5, <1>6

(* A coin paid from a token account: an account that could not be read     *)
(* falls short of any amount.                                              *)
LEMMA ReadUsdInv ==
  ASSUME TradeInv, NEW i \in Invocations, ReadUsd(i)
  PROVE  TradeInv'
<1>1. pc[i] = "usd" /\ pc[i] \in Reads /\ UNCHANGED <<now, fin, others, req>>
  BY DEF ReadUsd, Reads
<1>2. InvocationInv(i) /\ view[i] \in View /\ req[i].side = "buy"
      /\ req[i].amount \in Nat /\ req[i].amount > 0
  BY <1>1, ViewFacts, RequestFacts DEF InvocationInv, Price
<1>3. PICK answered \in BOOLEAN :
        PriceBuy(i, [view[i] EXCEPT !.blind = @ \/ ~answered],
                 \/ view[i].sol < Required(i)
                 \/ Answer(answered, fin.wallet.usd) < req[i].amount)
  BY DEF ReadUsd
<1> DEFINE v == [view[i] EXCEPT !.blind = @ \/ ~answered]
           short == \/ view[i].sol < Required(i)
                    \/ Answer(answered, fin.wallet.usd) < req[i].amount
<1>4. v \in View /\ v.venue = view[i].venue /\ v.quote = view[i].quote
      /\ v.blind = (view[i].blind \/ ~answered)
  BY <1>2 DEF View
<1>5. ~answered => short
  BY <1>2 DEF Answer
<1>6. PriceBuy(i, v, short)
  BY <1>3
<1> HIDE DEF v, short
<1>7. (view[i].venue = "curve" => ~req[i].amm) /\ (view[i].venue = "amm" => v.quote > 0)
      /\ (Virtual = 0 => ~v.blind \/ short)
  BY <1>1, <1>2, <1>4, <1>5 DEF InvocationInv, Route, Price, Sight, Reads
<1>. QED
  BY <1>1, <1>2, <1>4, <1>6, <1>7, PriceBuyInv

(* The command tells of its trade what the send path established.          *)
LEMMA ConcludeInv ==
  ASSUME TradeInv, NEW i \in Invocations, Conclude(i)
  PROVE  TradeInv'
<1> DEFINE r == IF ret[i] # "failed" THEN ret[i]
                ELSE IF tx[i].code \in SlippageCodes(view[i].venue) THEN "slippage"
                ELSE "tx_error"
<1>1. pc[i] = "submit" /\ call[i] = "done" /\ Finish(i, r)
      /\ UNCHANGED <<now, fin, others, req, view, submissionVars>>
  BY DEF Conclude, Finish
<1>2. InvocationInv(i) /\ view[i] \in View
  BY ViewFacts
<1>3. ret[i] \in Rets \ {"none"}
  BY <1>1 DEF TradeInv, SubmissionInv, TypeOK, ReturnsKnow
<1>4. r \in Results /\ r # "none" /\ ToldBy(r) = Told(ret[i])
  <2>1. CASE ret[i] = "failed"
    <3>1. r \in {"slippage", "tx_error"}
      BY <2>1
    <3>2. Told(ret[i]) = "failed"
      BY <2>1 DEF Told
    <3>. QED
      BY <3>1, <3>2 DEF Results, ToldBy, Refusals
  <2>2. CASE ret[i] # "failed"
    BY <1>3, <2>2 DEF Results, ToldBy, Told, Rets, Refusals
  <2>. QED
    BY <2>1, <2>2
<1> HIDE DEF r
<1>5. pc'[i] = "done" /\ res'[i] = r
  BY <1>1 DEF Finish, TradeInv, Typed
<1>6. UNCHANGED <<tx, call, ret>>
  BY <1>1 DEF submissionVars
<1>7. InvocationInv(i)'
  BY <1>1, <1>2, <1>4, <1>5, <1>6
  DEF InvocationInv, Stage, Route, Price, Sight, Tolerance, Reads
<1>8. view' = [view EXCEPT ![i] = view[i]]
  BY <1>1, SameView DEF See
<1>. QED
  BY <1>1, <1>2, <1>4, <1>7, <1>8, QuietCommand DEF Finish

(* A command step keeps the invariant.                                     *)
LEMMA CommandInv ==
  ASSUME TradeInv, NEW i \in Invocations, Start(i) \/ Refuse(i) \/ Command(i)
  PROVE  TradeInv'
  BY StartInv, RefuseInv, ReadCurveInv, LoadPoolInv, ReadTokensInv, ReadBaseInv,
     ReadVaultInv, ReadSolInv, ReadUsdInv, ConcludeInv DEF Command

-----------------------------------------------------------------------------
(* The send path under the command, and the cluster.                       *)

(* A step of send_tx moves neither the command nor a settled transaction.  *)
LEMMA SendingInv ==
  ASSUME TradeInv, NEW i \in Invocations, ClientStep(i) \/ Interrupt(i),
         UNCHANGED tradeVars
  PROVE  TradeInv'
<1>1. SubmissionInv'
  BY ClientStepInv, InterruptInv DEF TradeInv
<1>2. UNCHANGED <<now, fin, others, req, pc, view, res>>
  BY DEF tradeVars
<1>3. /\ call[i] \notin {"idle", "done"} /\ call'[i] # "idle"
      /\ tx'[i].fate = "ok" => tx'[i] = tx[i]
      /\ \A j \in Invocations \ {i} : call'[j] = call[j] /\ ret'[j] = ret[j] /\ tx'[j] = tx[j]
  <2>1. CASE BuildAndPost(i)
    <3>1. CASE i \in Oversize
      BY <2>1, <3>1 DEF BuildAndPost, Return, TradeInv, SubmissionInv, TypeOK
    <3>2. CASE i \notin Oversize
      <4>1. tx'[i].fate = "posted" /\ \A j \in Invocations \ {i} : tx'[j] = tx[j]
        BY <2>1, <3>2, SetFate DEF BuildAndPost, TradeInv, SubmissionInv, Fates
      <4>. QED
        BY <2>1, <3>2, <4>1 DEF BuildAndPost, Await, TradeInv, SubmissionInv, TypeOK
    <3>. QED
      BY <3>1, <3>2
  <2>2. CASE ~BuildAndPost(i)
    BY <2>2 DEF ClientStep, Interrupt, RpcRaises, SendAnswered, ConfirmAnswered,
                ConfirmRaises, ReadStatus, DeltaMissed, DeltaFound, DeltaRaises,
                Return, Await, TradeInv, SubmissionInv, TypeOK
  <2>. QED
    BY <2>1, <2>2
<1>4. Typed'
  BY <1>2 DEF TradeInv, Typed
<1>5. InvocationInv(i)'
  <2>1. InvocationInv(i)
    BY DEF TradeInv
  <2>2. Stage(i)'
    BY <1>2, <1>3, <2>1 DEF InvocationInv, Stage
  <2>. QED
    BY <1>2, <1>3, <2>1, <2>2 DEF InvocationInv, Stage, Route, Price, Sight, Tolerance, Reads
<1>. QED
  BY <1>1, <1>2, <1>3, <1>4, <1>5, OwnStep

(* Trading moves a venue's reserves and the wallet; nothing of it can be   *)
(* less than nothing.                                                      *)
LEMMA VenueMoves ==
  ASSUME TradeInv, NEW v \in Venues, NEW m \in Market, NEW w \in Wallet,
         m.st = now[v].st, m.base > 0, m.quote + (IF v = "amm" THEN Virtual ELSE 0) > 0,
         now' = [now EXCEPT ![v] = m, !.wallet = w],
         fin' = fin, others' \in 0 .. MaxOthers
  PROVE  ChainSound' /\ now'.curve.st = now.curve.st
<1>1. now \in Chain /\ ChainSound
  BY DEF TradeInv, ChainSound
<1>2. CASE v = "curve"
  <2>1. now'.curve = m /\ now'.amm = now.amm /\ now'.wallet = w /\ now' \in Chain
    BY <1>1, <1>2 DEF Chain
  <2>2. now'["curve"] = m /\ now'["amm"] = now["amm"]
    BY <2>1
  <2>. QED
    BY <1>1, <1>2, <2>1, <2>2 DEF ChainSound, Tradable, Depth, Venues
<1>3. CASE v = "amm"
  <2>1. now'.amm = m /\ now'.curve = now.curve /\ now'.wallet = w /\ now' \in Chain
    BY <1>1, <1>3 DEF Chain
  <2>2. now'["amm"] = m /\ now'["curve"] = now["curve"]
    BY <2>1
  <2>. QED
    BY <1>1, <1>3, <2>1, <2>2 DEF ChainSound, Tradable, Depth, Venues
<1>. QED
  BY <1>2, <1>3 DEF Venues

(* A step of the chain around an invocation that settles no trade, or one  *)
(* trade within its tolerance.                                             *)
LEMMA ChainStep ==
  ASSUME TradeInv, NEW i \in Invocations, SubmissionInv', ChainSound', Tolerance(i)',
         UNCHANGED <<req, pc, view, res, call, ret>>,
         \A j \in Invocations \ {i} : tx'[j] = tx[j],
         now.curve.st = "complete" => now'.curve.st = "complete"
  PROVE  TradeInv'
<1>1. \A j \in Invocations \ {i} : InvocationInv(j)'
  BY Untouched
<1>2. InvocationInv(i)'
  <2>1. InvocationInv(i)
    BY DEF TradeInv
  <2>. QED
    BY <2>1 DEF InvocationInv, Stage, Route, Price, Sight
<1>3. Typed'
  BY DEF TradeInv, Typed
<1>. QED
  BY <1>1, <1>2, <1>3 DEF TradeInv

(* What the venues pay for a trade never empties them.                     *)
LEMMA OutcomeBounds ==
  ASSUME TradeInv, NEW i \in Invocations, Tradable(view[i].venue), req[i].side \in Sides
  PROVE  LET ve == view[i].venue
         IN  /\ ve \in Venues /\ now[ve] \in Market /\ view[i].amount \in Nat
             /\ Depth(ve) = now[ve].quote + (IF ve = "amm" THEN Virtual ELSE 0)
             /\ Outcome(i) \in Nat
             /\ req[i].side = "buy" => Outcome(i) < now[ve].base
             /\ req[i].side = "sell" => Outcome(i) < Depth(ve) /\ now[ve].base > 0
             /\ Depth(ve) > 0
<1> DEFINE ve == view[i].venue
           a == view[i].amount
           b == now[ve].base
           d == Depth(ve)
<1>1. ve \in Venues /\ a \in Nat /\ now \in Chain
  BY ViewFacts DEF View, ChainSound
<1>2. now[ve] \in Market
  BY <1>1 DEF Chain, Venues
<1>3. d = now[ve].quote + (IF ve = "amm" THEN Virtual ELSE 0)
  BY DEF Depth
<1>4. b \in Nat \ {0} /\ d \in Nat \ {0}
  <2>1. b > 0 /\ d > 0
    BY <1>1, ViewFacts DEF ChainSound
  <2>. QED
    BY <1>2, <1>3, <2>1, TradeAssumption DEF Market
<1>5. Fee(ve) \in 0 .. Bps
  BY TradeAssumption DEF Fee
<1>6. CASE req[i].side = "buy"
  <2> DEFINE n == AfterFee(a, Fee(ve))
  <2>1. n \in Nat
    BY <1>1, <1>5, FeeBounds
  <2>2. Outcome(i) = BuyTokensOut(b, d, n)
    BY <1>6 DEF Outcome, AmmBuyOut
  <2> HIDE DEF n, b, d, a, ve
  <2>3. Outcome(i) \in Nat /\ Outcome(i) < b
    BY <1>4, <2>1, <2>2, BuyTight
  <2>. QED
    BY <1>1, <1>2, <1>3, <1>4, <1>6, <2>3 DEF b, d, a, ve
<1>7. CASE req[i].side = "sell"
  <2> DEFINE g == SellQuoteOut(b, d, a)
  <2>1. Outcome(i) = AfterFee(g, Fee(ve))
    BY <1>7 DEF Outcome, AmmSellOut
  <2> HIDE DEF b, d, a, ve
  <2>2. g \in Nat /\ g < d
    BY <1>1, <1>4, SellTight
  <2> HIDE DEF g
  <2>3. Outcome(i) \in Nat /\ Outcome(i) < d
    BY <1>4, <1>5, <2>1, <2>2, FeeBounds
  <2>. QED
    BY <1>1, <1>2, <1>3, <1>4, <1>7, <2>3 DEF b, d, a, ve
<1>. QED
  BY <1>6, <1>7 DEF Sides

(* Replacing two balances of the wallet.                                   *)
LEMMA WalletWith ==
  ASSUME NEW w \in Wallet, NEW t \in Nat, NEW asset \in {"sol", "usd"}, NEW n \in Nat
  PROVE  [w EXCEPT !.tok = t, ![asset] = n] \in Wallet
<1>1. CASE asset = "sol"
  BY <1>1 DEF Wallet
<1>2. CASE asset = "usd"
  BY <1>2 DEF Wallet
<1>. QED
  BY <1>1, <1>2

(* A transaction on the cluster was priced.                                *)
LEMMA PricedOnCluster ==
  ASSUME TradeInv, NEW i \in Invocations, tx[i].fate = "flying"
  PROVE  /\ view[i].amount > 0 /\ view[i].floor >= 1
         /\ view[i].floor * 100 >= view[i].quoted * (100 - req[i].slip) - 100
         /\ view[i] \in View
<1>1. call[i] # "idle"
  BY DEF TradeInv, SubmissionInv, AwaitsKnow
<1>. QED
  BY <1>1, ViewFacts DEF InvocationInv, Price

(* An executed trade met its floor, and the floor met the tolerance.       *)
LEMMA ExecuteInv ==
  ASSUME TradeInv, NEW i \in Invocations, Execute(i), req[i].side \in Sides
  PROVE  TradeInv'
<1> DEFINE ve == view[i].venue
           a == view[i].amount
           out == Outcome(i)
<1>1. /\ Tradable(ve) /\ Payable(i) /\ out >= view[i].floor
      /\ Land(i, "ok", 0, out) /\ now' = Traded(i)
      /\ UNCHANGED <<fin, others, req, pc, view, res>>
  BY DEF Execute
<1>2. /\ view[i] \in View /\ a > 0 /\ view[i].floor >= 1 /\ tx[i].fate = "flying"
      /\ view[i].floor * 100 >= view[i].quoted * (100 - req[i].slip) - 100
  BY <1>1, PricedOnCluster DEF Land
<1>3. /\ ve \in Venues /\ now[ve] \in Market /\ a \in Nat /\ out \in Nat
      /\ Depth(ve) = now[ve].quote + (IF ve = "amm" THEN Virtual ELSE 0) /\ Depth(ve) > 0
      /\ req[i].side = "buy" => out < now[ve].base
      /\ req[i].side = "sell" => out < Depth(ve) /\ now[ve].base > 0
  BY <1>1, OutcomeBounds
<1>4. now \in Chain /\ now.wallet \in Wallet
  BY ViewFacts DEF ChainSound, Chain
<1>5. \E m \in Market, w \in Wallet :
        /\ m.st = now[ve].st /\ m.base > 0
        /\ m.quote + (IF ve = "amm" THEN Virtual ELSE 0) > 0
        /\ now' = [now EXCEPT ![ve] = m, !.wallet = w]
  <2> DEFINE asset == IF SolPaired THEN "sol" ELSE "usd"
  <2>1. CASE req[i].side = "buy"
    <3> DEFINE b == now[ve].base - out
               q == now[ve].quote + a
               m == [now[ve] EXCEPT !.base = b, !.quote = q]
               w == [now.wallet EXCEPT !.tok = @ + out, ![asset] = @ - a]
    <3>1. a <= (IF SolPaired THEN now.wallet.sol ELSE now.wallet.usd)
      BY <1>1, <2>1 DEF Payable
    <3>2. w \in Wallet
      <4>1. asset \in {"sol", "usd"} /\ now.wallet.tok + out \in Nat
            /\ now.wallet[asset] - a \in Nat
        BY <1>3, <1>4, <3>1 DEF Wallet
      <4>. QED
        BY <1>4, <4>1, WalletWith
    <3>3. m \in Market /\ m.st = now[ve].st /\ m.base > 0
          /\ m.quote + (IF ve = "amm" THEN Virtual ELSE 0) > 0
      <4>1. now[ve].base \in Nat /\ now[ve].quote \in Nat
        BY <1>3 DEF Market
      <4>2. now[ve].base - out \in Nat \ {0} /\ now[ve].quote + a \in Nat \ {0}
        BY <1>2, <1>3, <2>1, <4>1
      <4>3. b \in Nat /\ q \in Nat
        BY <4>2
      <4> HIDE DEF b, q
      <4>4. m \in Market /\ m.st = now[ve].st /\ m.base = b /\ m.quote = q
        BY <1>3, <4>3 DEF Market
      <4> HIDE DEF m
      <4>. QED
        BY <4>2, <4>4, TradeAssumption DEF b, q
    <3>4. now' = [now EXCEPT ![ve] = m, !.wallet = w]
      BY <1>1, <1>3, <1>4, <2>1 DEF Traded, Chain, Venues
    <3>. QED
      BY <3>2, <3>3, <3>4
  <2>2. CASE req[i].side = "sell"
    <3> DEFINE b == now[ve].base + a
               q == now[ve].quote - out
               m == [now[ve] EXCEPT !.base = b, !.quote = q]
               w == [now.wallet EXCEPT !.tok = @ - a, ![asset] = @ + out]
    <3>1. a <= now.wallet.tok /\ out <= now[ve].quote
      BY <1>1, <2>2 DEF Payable
    <3>2. w \in Wallet
      <4>1. asset \in {"sol", "usd"} /\ now.wallet.tok - a \in Nat
            /\ now.wallet[asset] + out \in Nat
        BY <1>3, <1>4, <3>1 DEF Wallet
      <4>. QED
        BY <1>4, <4>1, WalletWith
    <3>3. m \in Market /\ m.st = now[ve].st /\ m.base > 0
          /\ m.quote + (IF ve = "amm" THEN Virtual ELSE 0) > 0
      <4>1. now[ve].base \in Nat /\ now[ve].quote \in Nat
        BY <1>3 DEF Market
      <4>2. now[ve].base + a \in Nat \ {0} /\ now[ve].quote - out \in Nat
            /\ (now[ve].quote - out) + (IF ve = "amm" THEN Virtual ELSE 0) > 0
        BY <1>2, <1>3, <2>2, <3>1, <4>1, TradeAssumption
      <4>3. b \in Nat /\ q \in Nat
        BY <4>2
      <4> HIDE DEF b, q
      <4>4. m \in Market /\ m.st = now[ve].st /\ m.base = b /\ m.quote = q
        BY <1>3, <4>3 DEF Market
      <4> HIDE DEF m
      <4>. QED
        BY <4>2, <4>4 DEF b, q
    <3>4. now' = [now EXCEPT ![ve] = m, !.wallet = w]
      BY <1>1, <1>3, <1>4, <2>2 DEF Traded, Chain, Venues
    <3>. QED
      BY <3>2, <3>3, <3>4
  <2>. QED
    BY <2>1, <2>2 DEF Sides
<1> HIDE DEF ve, a, out
<1>6. ChainSound' /\ now'.curve.st = now.curve.st
  <2>1. others' \in 0 .. MaxOthers /\ fin' = fin
    BY <1>1, ViewFacts DEF ChainSound
  <2>. QED
    BY <1>3, <1>5, <2>1, VenueMoves
<1>7. SubmissionInv'
  BY <1>1, <1>3, LandInv DEF TradeInv, Landed
<1>8. tx'[i].got = out /\ \A j \in Invocations \ {i} : tx'[j] = tx[j]
  BY <1>1 DEF Land, TradeInv, SubmissionInv, TypeOK
<1>9. Tolerance(i)'
  <2> DEFINE least == view[i].quoted * (100 - req[i].slip) - 100
  <2>1. req[i].slip \in 0 .. 100
    BY <1>2, TradeAssumption DEF TradeInv, Typed, Request, NoRequest
  <2>2. least \in Int /\ view[i].floor \in Nat
    BY <1>2, <2>1, ProductNat DEF View
  <2>3. least' = least
    BY <1>1
  <2> HIDE DEF least
  <2>4. out * 100 >= least /\ out >= 1
    BY <1>1, <1>2, <1>3, <2>2 DEF least
  <2>. QED
    BY <1>8, <2>3, <2>4 DEF Tolerance, least
<1>10. UNCHANGED <<call, ret>>
  BY <1>1 DEF Land
<1>. QED
  BY <1>1, <1>6, <1>7, <1>8, <1>9, <1>10, ChainStep

(* The other steps of the cluster settle no trade as a success.            *)
LEMMA SettleInv ==
  ASSUME TradeInv, NEW i \in Invocations, UNCHANGED tradeVars,
         MissFloor(i) \/ FailOtherwise(i) \/ Arrive(i) \/ Expire(i)
  PROVE  TradeInv'
<1>1. UNCHANGED <<now, fin, others, req, pc, view, res>>
  BY DEF tradeVars
<1>2. /\ SubmissionInv' /\ UNCHANGED <<call, ret>> /\ tx'[i].fate # "ok"
      /\ \A j \in Invocations \ {i} : tx'[j] = tx[j]
  <2>1. ASSUME NEW c \in {6002, 6004, 6005}, Land(i, "failed", c, 0)
        PROVE  /\ SubmissionInv' /\ UNCHANGED <<call, ret>> /\ tx'[i].fate # "ok"
               /\ \A j \in Invocations \ {i} : tx'[j] = tx[j]
    <3>1. c \in Codes \cup {0} /\ "failed" \in Landed
      BY TradeAssumption DEF Landed
    <3>2. SubmissionInv'
      BY <2>1, <3>1, LandInv DEF TradeInv
    <3>. QED
      BY <2>1, <3>2 DEF Land, TradeInv, SubmissionInv, TypeOK
  <2>2. CASE MissFloor(i) \/ FailOtherwise(i)
    BY <2>1, <2>2 DEF MissFloor, FailOtherwise
  <2>3. CASE Arrive(i) \/ Expire(i)
    <3>1. tx'[i].fate \in {"flying", "expired"} /\ \A j \in Invocations \ {i} : tx'[j] = tx[j]
      BY <2>3, SetFate DEF Arrive, Expire, TradeInv, SubmissionInv, Fates
    <3>2. UNCHANGED <<call, ret>>
      BY <2>3 DEF Arrive, Expire
    <3>. QED
      BY <2>3, <3>1, <3>2, ArriveInv, ExpireInv DEF TradeInv
  <2>. QED
    BY <2>2, <2>3
<1>3. ChainSound' /\ Tolerance(i)'
  BY <1>1, <1>2, ViewFacts DEF ChainSound, Tradable, Depth, Tolerance
<1>. QED
  BY <1>1, <1>2, <1>3, ChainStep

(* Other traders, the completion of the curve, the opening of the pool and *)
(* the finality of what was done move no invocation.                       *)
LEMMA EnvironmentStep ==
  ASSUME TradeInv, UNCHANGED <<req, pc, view, res, submissionVars>>, ChainSound',
         now.curve.st = "complete" => now'.curve.st = "complete"
  PROVE  TradeInv'
<1>1. SubmissionInv'
  BY StutterInv DEF TradeInv
<1>2. UNCHANGED <<tx, call, ret>>
  BY DEF submissionVars
<1>3. \A j \in Invocations : InvocationInv(j)'
  BY <1>2, Untouched
<1>4. Typed'
  BY DEF TradeInv, Typed
<1>. QED
  BY <1>1, <1>3, <1>4 DEF TradeInv

(* Another trader's trade leaves something in both reserves.               *)
LEMMA OtherTradeInv ==
  ASSUME TradeInv, NEW v \in Venues, OtherTrade(v)
  PROVE  TradeInv'
<1> DEFINE out == BuyTokensOut(now[v].base, Depth(v), OtherAmount)
<1>1. /\ Tradable(v) /\ others < MaxOthers /\ others' = others + 1
      /\ UNCHANGED <<fin, req, pc, view, res, submissionVars>>
      /\ \/ now' = [now EXCEPT ![v].base = @ - out, ![v].quote = @ + OtherAmount]
         \/ /\ now[v].quote > OtherAmount
            /\ now' = [now EXCEPT ![v].base = @ + out, ![v].quote = @ - OtherAmount]
  BY DEF OtherTrade
<1>2. ChainSound /\ now \in Chain /\ now[v] \in Market /\ now.wallet \in Wallet
  BY DEF TradeInv, ChainSound, Chain, Venues
<1>3. /\ now[v].base \in Nat \ {0} /\ now[v].quote \in Nat /\ Depth(v) \in Nat \ {0}
  <2>1. now[v].base > 0 /\ Depth(v) > 0
    BY <1>1, <1>2 DEF ChainSound
  <2>. QED
    BY <1>2, <2>1, TradeAssumption DEF Market, Depth
<1>4. out \in Nat /\ out < now[v].base
  <2> DEFINE b == now[v].base
             d == Depth(v)
  <2>1. b \in Nat \ {0} /\ d \in Nat \ {0} /\ OtherAmount \in Nat
    BY <1>3, TradeAssumption
  <2>2. out = BuyTokensOut(b, d, OtherAmount)
    OBVIOUS
  <2> HIDE DEF out, b, d
  <2>3. out \in Nat /\ out < b
    BY <2>1, <2>2, BuyTight
  <2>. QED
    BY <2>3 DEF b
<1> DEFINE Moved ==
             \E m \in Market :
               /\ m.st = now[v].st /\ m.base > 0
               /\ m.quote + (IF v = "amm" THEN Virtual ELSE 0) > 0
               /\ now' = [now EXCEPT ![v] = m, !.wallet = now.wallet]
<1>5. Moved
  <2> HIDE DEF out
  <2>1. ASSUME NEW b \in Nat \ {0}, NEW q \in Nat \ {0},
               now' = [now EXCEPT ![v].base = b, ![v].quote = q]
        PROVE  Moved
    <3> DEFINE m == [now[v] EXCEPT !.base = b, !.quote = q]
    <3>1. m \in Market /\ m.st = now[v].st /\ m.base = b /\ m.quote = q
      BY <1>2 DEF Market
    <3>2. now' = [now EXCEPT ![v] = m, !.wallet = now.wallet]
      BY <1>2, <2>1 DEF Chain, Venues
    <3> HIDE DEF m
    <3>3. m.base > 0 /\ m.quote + (IF v = "amm" THEN Virtual ELSE 0) > 0
      BY <3>1, TradeAssumption
    <3>. QED
      BY <3>1, <3>2, <3>3
  <2>2. CASE now' = [now EXCEPT ![v].base = @ - out, ![v].quote = @ + OtherAmount]
    <3>1. now[v].base - out \in Nat \ {0} /\ now[v].quote + OtherAmount \in Nat \ {0}
      BY <1>3, <1>4, TradeAssumption
    <3>. QED
      BY <2>1, <2>2, <3>1
  <2>3. CASE /\ now[v].quote > OtherAmount
             /\ now' = [now EXCEPT ![v].base = @ + out, ![v].quote = @ - OtherAmount]
    <3>1. now[v].base + out \in Nat \ {0} /\ now[v].quote - OtherAmount \in Nat \ {0}
      BY <1>3, <1>4, <2>3, TradeAssumption
    <3>. QED
      BY <2>1, <2>3, <3>1
  <2>. QED
    BY <1>1, <2>2, <2>3 DEF out
<1>6. others' \in 0 .. MaxOthers /\ fin' = fin
  BY <1>1, <1>2, TradeAssumption DEF ChainSound
<1>7. ChainSound' /\ now'.curve.st = now.curve.st
  BY <1>2, <1>5, <1>6, VenueMoves
<1>. QED
  BY <1>1, <1>7, EnvironmentStep

(* Completing the curve closes it for good; the pool opens with something  *)
(* in it; what becomes final had been so.                                  *)
LEMMA EnvironmentInv ==
  ASSUME TradeInv, Environment
  PROVE  TradeInv'
<1>1. ChainSound /\ now \in Chain /\ fin \in Chain
  BY DEF TradeInv, ChainSound
<1>2. CASE Complete
  <2>1. now'.curve.st = "complete" /\ now'.curve \in Market /\ now'.amm = now.amm
        /\ now' \in Chain
    BY <1>1, <1>2 DEF Complete, Chain, Market
  <2>2. now'["curve"].st = "complete" /\ now'["amm"] = now["amm"]
    BY <2>1
  <2>3. ChainSound'
    BY <1>1, <1>2, <2>1, <2>2 DEF Complete, ChainSound, Tradable, Depth, Venues
  <2>. QED
    BY <1>2, <2>1, <2>3, EnvironmentStep DEF Complete
<1>3. CASE Migrate
  <2>1. now'.amm = PoolAtMigration /\ now'.curve = now.curve /\ now' \in Chain
    BY <1>1, <1>3, TradeAssumption DEF Migrate, Chain
  <2>2. now'["amm"] = PoolAtMigration /\ now'["curve"] = now["curve"]
    BY <2>1
  <2>3. PoolAtMigration.base > 0 /\ PoolAtMigration.quote + Virtual > 0
    BY TradeAssumption DEF Market
  <2>4. ChainSound'
    BY <1>1, <1>3, <2>1, <2>2, <2>3 DEF Migrate, ChainSound, Tradable, Depth, Venues
  <2>. QED
    BY <1>3, <2>1, <2>4, EnvironmentStep DEF Migrate
<1>4. CASE Finalize
  <2>1. ChainSound'
    BY <1>1, <1>4 DEF Finalize, ChainSound, Tradable, Depth
  <2>. QED
    BY <1>4, <2>1, EnvironmentStep DEF Finalize
<1>. QED
  BY <1>2, <1>3, <1>4, OtherTradeInv DEF Environment

(* Every step keeps the invariant.                                         *)
LEMMA TradeStepInv == TradeInv /\ [TradeNext]_vars => TradeInv'
<1> SUFFICES ASSUME TradeInv, [TradeNext]_vars PROVE TradeInv'
  OBVIOUS
<1>1. CASE UNCHANGED vars
  <2>1. UNCHANGED <<req, pc, view, res, submissionVars>> /\ UNCHANGED <<now, fin, others>>
    BY <1>1 DEF vars, tradeVars
  <2>2. ChainSound'
    BY <2>1, ViewFacts DEF TradeInv, ChainSound, Tradable, Depth
  <2>. QED
    BY <2>1, <2>2, EnvironmentStep
<1>2. ASSUME NEW i \in Invocations, Start(i) \/ Refuse(i) \/ Command(i)
      PROVE  TradeInv'
  BY <1>2, CommandInv
<1>3. ASSUME NEW i \in Invocations, Sending(i) \/ (Interrupt(i) /\ UNCHANGED tradeVars)
      PROVE  TradeInv'
  BY <1>3, SendingInv DEF Sending
<1>4. ASSUME NEW i \in Invocations, OnCluster(i)
      PROVE  TradeInv'
  <2>1. req[i].side \in Sides
    BY TradeAssumption DEF TradeInv, Typed, Request, NoRequest, Sides
  <2>. QED
    BY <1>4, <2>1, ExecuteInv, SettleInv DEF OnCluster, MissFloor, FailOtherwise
<1>. QED
  BY <1>1, <1>2, <1>3, <1>4, EnvironmentInv DEF TradeNext

(* In every reachable state each read knows what it will be used for.      *)
THEOREM TradeInvariant == TradeSpec => []TradeInv
<1>1. QED
  BY TradeInitInv, TradeStepInv, PTL DEF TradeSpec

(* The state of the commands, the chain and the send path is well typed.   *)
THEOREM TradeTypes == TradeSpec => []TradeTypeOK
<1>1. TradeInv => TradeTypeOK
  BY TradeInvImplies
<1>. QED
  BY <1>1, TradeInvariant, PTL

(* A trade goes out once, and on the venue that the curve or the user said *)
(* it should, for any number of invocations and interleavings.             *)
THEOREM TradeRouted == TradeSpec => []RoutedByTheCurve
<1>1. TradeInv => RoutedByTheCurve
  BY TradeInvImplies
<1>. QED
  BY <1>1, TradeInvariant, PTL

(* A trade that succeeded honours its tolerance, for all reserves, fees    *)
(* and amounts, however the venue moved between the quote and the trade.   *)
THEOREM TradeTolerance == TradeSpec => []ToleranceHonoured
<1>1. TradeInv => ToleranceHonoured
  BY TradeInvImplies
<1>. QED
  BY <1>1, TradeInvariant, PTL

(* On pools without virtual reserves no trade rests on a failed read.      *)
THEOREM TradeSeesWhatItSends == Virtual = 0 /\ TradeSpec => []FailedReadNeverSends
<1>1. Virtual = 0 /\ TradeInv => FailedReadNeverSends
  BY TradeInvImplies
<1>2. CASE Virtual = 0
  <2>1. TradeInv => FailedReadNeverSends
    BY <1>1, <1>2
  <2>. QED
    BY <2>1, TradeInvariant, PTL
<1>. QED
  BY <1>2

-----------------------------------------------------------------------------
(* The wallet's tokens, as the sum of what the trades moved.               *)

(* A nonempty set of naturals has a least element: without one, stepping   *)
(* down from every number above some element would put 0 .. n injectively  *)
(* into 0 .. n - 1.                                                        *)
LEMMA LeastNumber ==
  ASSUME NEW N \in SUBSET Nat, NEW n \in N
  PROVE  \E m \in N : \A k \in N : m <= k
<1> SUFFICES ASSUME \A m \in N : \E k \in N : k < m PROVE FALSE
  OBVIOUS
<1> DEFINE Above == {k \in 0 .. n : \E m \in N : m <= k}
           f == [k \in 0 .. n |-> IF k \in Above THEN k - 1 ELSE k]
<1>1. n \in Nat /\ n \in Above
  OBVIOUS
<1>2. ASSUME NEW k \in Above PROVE k # 0 /\ k - 1 \in Above
  <2>1. PICK m \in N : m <= k
    OBVIOUS
  <2>2. PICK l \in N : l < m
    OBVIOUS
  <2>. QED
    BY <2>1, <2>2
<1>3. f \in [0 .. n -> 0 .. n - 1]
  <2> SUFFICES ASSUME NEW k \in 0 .. n PROVE f[k] \in 0 .. n - 1
    BY Zenon
  <2>. QED
    BY <1>1, <1>2
<1>4. ASSUME NEW j \in 0 .. n, NEW k \in 0 .. n, j # k, f[j] = f[k] PROVE FALSE
  <2>1. CASE j \in Above /\ k \notin Above
    <3>1. k = j - 1
      BY <1>4, <2>1
    <3>. QED
      BY <1>2, <2>1, <3>1
  <2>2. CASE j \notin Above /\ k \in Above
    <3>1. j = k - 1
      BY <1>4, <2>2
    <3>. QED
      BY <1>2, <2>2, <3>1
  <2> HIDE DEF Above
  <2>. QED
    BY <1>4, <2>1, <2>2
<1> HIDE DEF f
<1>5. /\ IsFiniteSet(0 .. n) /\ Cardinality(0 .. n) = n + 1
      /\ IsFiniteSet(0 .. n - 1) /\ Cardinality(0 .. n - 1) = n
  <2>1. /\ n \in Int /\ n - 1 \in Int /\ ~(0 > n) /\ n - 0 + 1 = n + 1
        /\ (IF 0 > n - 1 THEN 0 ELSE n - 1 - 0 + 1) = n
    BY <1>1
  <2>2. 0 \in Int
    OBVIOUS
  <2>3. IsFiniteSet(0 .. n) /\ Cardinality(0 .. n) = n + 1
    BY <2>1, <2>2, FS_Interval, Zenon
  <2>. QED
    BY <2>1, <2>2, <2>3, FS_Interval, Zenon
<1>6. n < n + 1
  BY <1>1
<1>7. \E j, k \in 0 .. n : j # k /\ f[j] = f[k]
  BY <1>3, <1>5, <1>6, FS_PigeonHole, Zenon
<1>. QED
  BY <1>4, <1>7

(* What a sum over the invocations is: any account of their sets that      *)
(* takes them one at a time ends in it.  A smallest set on which the two   *)
(* differ would leave a smaller one when an invocation is taken out.       *)
LEMMA SumOfRawFields ==
  ASSUME IsFiniteSet(Invocations), NEW book \in [SUBSET Invocations -> Int],
         book[{}] = 0,
         \A T \in SUBSET Invocations : \A i \in T : book[T] = RawField(i) + book[T \ {i}]
  PROVE  MapThenSumSet(RawField, Invocations) = book[Invocations]
<1> DEFINE one(T) == CHOOSE i \in T : TRUE
           Body(f) == [T \in SUBSET Invocations |->
             IF T = {} THEN 0 ELSE RawField(one(T)) + f[T \ {one(T)}]]
           g == CHOOSE f : f = Body(f)
           Differ == {T \in SUBSET Invocations : g[T] # book[T]}
           Sizes == {Cardinality(T) : T \in Differ}
<1>1. MapThenSumSet(RawField, Invocations) = g[Invocations]
  BY DEF MapThenSumSet, MapThenFoldSet
<1>2. ASSUME NEW T \in SUBSET Invocations, T # {}
      PROVE  one(T) \in T /\ T \ {one(T)} \in SUBSET Invocations
  BY <1>2
<1> HIDE DEF one
<1>3. g = Body(g)
  <2>1. book = Body(book)
    <3>1. ASSUME NEW T \in SUBSET Invocations PROVE book[T] = Body(book)[T]
      BY <1>2
    <3>. QED
      BY <3>1
  <2>. QED
    BY <2>1
<1> HIDE DEF g
<1>4. ASSUME NEW T \in Differ
      PROVE  \E U \in Differ : Cardinality(U) < Cardinality(T)
  <2>1. T # {}
    BY <1>3
  <2>2. one(T) \in T /\ T \ {one(T)} \in SUBSET Invocations
    BY <1>2, <2>1
  <2>3. /\ g[T] = RawField(one(T)) + g[T \ {one(T)}]
        /\ book[T] = RawField(one(T)) + book[T \ {one(T)}]
    BY <1>3, <2>1, <2>2
  <2>4. T \ {one(T)} \in Differ
    BY <2>2, <2>3
  <2>5. IsFiniteSet(T) /\ Cardinality(T) \in Nat
    BY FS_Subset, FS_CardinalityType
  <2>6. Cardinality(T \ {one(T)}) = Cardinality(T) - 1
    BY <2>2, <2>5, FS_RemoveElement
  <2>. QED
    BY <2>4, <2>5, <2>6
<1>5. Sizes \in SUBSET Nat
  BY FS_Subset, FS_CardinalityType
<1>6. Differ = {}
  <2> SUFFICES ASSUME NEW T \in Differ PROVE FALSE
    OBVIOUS
  <2>1. PICK m \in Sizes : \A k \in Sizes : m <= k
    <3>1. Cardinality(T) \in Sizes
      OBVIOUS
    <3> HIDE DEF Sizes
    <3>. QED
      BY <1>5, <3>1, LeastNumber
  <2>2. PICK U \in Differ : m = Cardinality(U)
    BY <2>1
  <2>3. PICK V \in Differ : Cardinality(V) < Cardinality(U)
    BY <1>4
  <2>4. Cardinality(V) \in Sizes /\ Cardinality(V) \in Nat /\ Cardinality(U) \in Nat
    BY <1>5
  <2>. QED
    BY <2>1, <2>2, <2>3, <2>4
<1>. QED
  BY <1>1, <1>6

(* What an invocation's trade has done to the wallet's tokens so far.      *)
Gained(i) == IF tx[i].fate # "ok" THEN 0
             ELSE IF req[i].side = "buy" THEN tx[i].got ELSE -view[i].amount

(* The wallet holds what it started with and what the trades moved.        *)
Balanced ==
  \E book \in [SUBSET Invocations -> Int] :
    /\ book[{}] = 0
    /\ \A T \in SUBSET Invocations : \A i \in T : book[T] = Gained(i) + book[T \ {i}]
    /\ now.wallet.tok = WalletAtStart.tok + book[Invocations]

(* Initially nothing has moved.                                            *)
LEMMA BalancedInit == TradeInit => Balanced
<1> SUFFICES ASSUME TradeInit PROVE Balanced
  OBVIOUS
<1> DEFINE book == [T \in SUBSET Invocations |-> 0]
<1>1. \A i \in Invocations : Gained(i) = 0
  BY DEF TradeInit, SubmissionInit, NoTx, Gained
<1>2. now.wallet.tok = WalletAtStart.tok /\ WalletAtStart.tok \in Nat
  BY TradeAssumption DEF TradeInit, ChainAtStart, Wallet
<1>3. book \in [SUBSET Invocations -> Int] /\ \A T \in SUBSET Invocations : book[T] = 0
  OBVIOUS
<1> HIDE DEF book
<1>4. ASSUME NEW T \in SUBSET Invocations, NEW i \in T
      PROVE  book[T] = Gained(i) + book[T \ {i}]
  <2>1. T \ {i} \in SUBSET Invocations /\ Gained(i) = 0
    BY <1>1
  <2>. QED
    BY <1>3, <2>1
<1>. QED
  BY <1>2, <1>3, <1>4 DEF Balanced

(* The types of what is added.                                             *)
LEMMA GainedInt ==
  ASSUME TradeInv, NEW i \in Invocations
  PROVE  Gained(i) \in Int /\ now.wallet.tok \in Nat /\ WalletAtStart.tok \in Nat
<1>1. tx[i].got \in Nat /\ view[i].amount \in Nat
  BY DEF TradeInv, SubmissionInv, TypeOK, Tx, Typed, View
<1>2. now.wallet \in Wallet
  BY DEF TradeInv, ChainSound, Chain
<1>. QED
  BY <1>1, <1>2, TradeAssumption DEF Gained, Wallet

(* A step that moves no token and settles no trade keeps the balance.      *)
LEMMA BalanceHeld ==
  ASSUME Balanced, \A i \in Invocations : Gained(i)' = Gained(i),
         now'.wallet.tok = now.wallet.tok
  PROVE  Balanced'
  BY DEF Balanced

(* So does one that moves as many as it adds to the gain of one trade.     *)
LEMMA BalanceMoved ==
  ASSUME TradeInv, Balanced, NEW i \in Invocations, NEW d \in Int,
         Gained(i) = 0, Gained(i)' = d,
         \A j \in Invocations \ {i} : Gained(j)' = Gained(j),
         now'.wallet.tok = now.wallet.tok + d
  PROVE  Balanced'
<1> PICK book \in [SUBSET Invocations -> Int] :
      /\ book[{}] = 0
      /\ \A T \in SUBSET Invocations : \A j \in T : book[T] = Gained(j) + book[T \ {j}]
      /\ now.wallet.tok = WalletAtStart.tok + book[Invocations]
  BY DEF Balanced
<1> DEFINE then == [T \in SUBSET Invocations |-> IF i \in T THEN book[T] + d ELSE book[T]]
<1>1. then \in [SUBSET Invocations -> Int] /\ then[{}] = 0
  OBVIOUS
<1>2. ASSUME NEW T \in SUBSET Invocations, NEW j \in T
      PROVE  then[T] = Gained(j)' + then[T \ {j}]
  <2>1. /\ T \ {j} \in SUBSET Invocations /\ book[T \ {j}] \in Int /\ book[T] \in Int
        /\ book[T] = Gained(j) + book[T \ {j}]
    OBVIOUS
  <2>2. Gained(j) \in Int
    BY GainedInt
  <2>3. CASE j = i
    BY <2>1, <2>2, <2>3
  <2>4. CASE j # i
    BY <2>1, <2>2, <2>4
  <2>. QED
    BY <2>3, <2>4
<1>3. now'.wallet.tok = WalletAtStart.tok + then[Invocations]
  BY GainedInt
<1> HIDE DEF then
<1>. QED
  BY <1>1, <1>2, <1>3 DEF Balanced

(* What a landed trade moved is settled: later steps keep it.              *)
LEMMA GainKept ==
  ASSUME NEW i \in Invocations,
         tx'[i].fate = tx[i].fate \/ (tx[i].fate # "ok" /\ tx'[i].fate # "ok"),
         tx[i].fate = "ok" => /\ tx'[i].got = tx[i].got /\ req'[i] = req[i]
                              /\ view'[i].amount = view[i].amount
  PROVE  Gained(i)' = Gained(i)
  BY DEF Gained

(* The command prices before it sends, and touches nothing after.          *)
LEMMA CommandKeeps ==
  ASSUME TradeInv, NEW i \in Invocations, Start(i) \/ Refuse(i) \/ Command(i)
  PROVE  /\ UNCHANGED <<now, tx>>
         /\ \A j \in Invocations : call[j] # "idle" => req'[j] = req[j] /\ view'[j] = view[j]
<1> DEFINE Keeps == /\ UNCHANGED <<now, tx>>
                    /\ \A j \in Invocations :
                         call[j] # "idle" => req'[j] = req[j] /\ view'[j] = view[j]
<1>1. pc[i] \in Reads \cup {"idle"} => call[i] = "idle"
  BY DEF TradeInv, InvocationInv, Stage
<1>2. req \in [Invocations -> Requests \cup {NoRequest}] /\ view \in [Invocations -> View]
  BY DEF TradeInv, Typed
<1>3. ASSUME NEW v, See(i, v), call[i] = "idle", UNCHANGED <<req, tx, now>>
      PROVE  Keeps
  BY <1>2, <1>3 DEF See
<1>4. ASSUME NEW v, Dispatch(i, v) PROVE See(i, v) /\ UNCHANGED tx
  BY <1>4 DEF Dispatch, Finish, SendTx, submissionVars
<1>5. ASSUME NEW v, PriceSell(i, v) PROVE (\E w : See(i, w)) /\ UNCHANGED tx
  BY <1>4, <1>5 DEF PriceSell
<1>6. ASSUME NEW v, NEW short, PriceBuy(i, v, short) PROVE (\E w : See(i, w)) /\ UNCHANGED tx
  BY <1>4, <1>6 DEF PriceBuy, Finish, submissionVars
<1>7. CASE Start(i) \/ Refuse(i) \/ ReadRaises(i) \/ Conclude(i)
  BY <1>1, <1>2, <1>7 DEF Start, Refuse, ReadRaises, Conclude, Goto, Finish, submissionVars
<1>8. CASE ReadCurve(i) \/ LoadPool(i)
  <2>1. /\ call[i] = "idle" /\ UNCHANGED <<now, req, tx>>
        /\ UNCHANGED view \/ \E v : See(i, v)
    BY <1>1, <1>8 DEF ReadCurve, LoadPool, Goto, Finish, submissionVars, Reads
  <2>. QED
    BY <1>3, <2>1
<1>9. CASE ReadTokens(i) \/ ReadBase(i) \/ ReadVault(i)
  <2>1. /\ call[i] = "idle" /\ UNCHANGED <<now, req, tx>>
        /\ \E v : See(i, v)
    BY <1>1, <1>5, <1>9
    DEF ReadTokens, ReadBase, ReadVault, Goto, Finish, submissionVars, Reads
  <2>. QED
    BY <1>3, <2>1
<1>10. CASE ReadSol(i) \/ ReadUsd(i)
  <2>1. /\ call[i] = "idle" /\ UNCHANGED <<now, req, tx>>
        /\ \E v : See(i, v)
    BY <1>1, <1>6, <1>10 DEF ReadSol, ReadUsd, Goto, Finish, submissionVars, Reads
  <2>. QED
    BY <1>3, <2>1
<1>. QED
  BY <1>7, <1>8, <1>9, <1>10 DEF Command

(* An executed trade moves into the wallet what it is recorded to have     *)
(* paid out, or out of it what was sold.                                   *)
LEMMA ExecuteBalances ==
  ASSUME TradeInv, Balanced, NEW i \in Invocations, Execute(i)
  PROVE  Balanced'
<1> DEFINE d == IF req[i].side = "buy" THEN Outcome(i) ELSE -view[i].amount
<1>1. /\ tx[i].fate = "flying" /\ Tradable(view[i].venue)
      /\ tx' = [tx EXCEPT ![i] = [fate |-> "ok", code |-> 0, got |-> Outcome(i)]]
      /\ now' = Traded(i) /\ UNCHANGED <<req, view>>
  BY DEF Execute, Land
<1>2. req[i].side \in Sides
  BY TradeAssumption DEF TradeInv, Typed, Request, NoRequest, Sides
<1>3. Outcome(i) \in Nat /\ view[i].amount \in Nat /\ view[i].venue \in Venues
  BY <1>1, <1>2, OutcomeBounds
<1>4. /\ tx'[i].fate = "ok" /\ tx'[i].got = Outcome(i)
      /\ \A j \in Invocations \ {i} : tx'[j] = tx[j]
  BY <1>1 DEF TradeInv, SubmissionInv, TypeOK
<1>5. Gained(i) = 0 /\ Gained(i)' = d
  BY <1>1, <1>4 DEF Gained
<1>6. \A j \in Invocations \ {i} : Gained(j)' = Gained(j)
  BY <1>1, <1>4 DEF Gained
<1>7. now'.wallet.tok = now.wallet.tok + d
  <2>1. now \in Chain /\ now.wallet \in Wallet
    BY DEF TradeInv, ChainSound, Chain
  <2>. QED
    BY <1>1, <1>2, <1>3, <2>1 DEF Traded, Chain, Wallet, Venues, Sides
<1>8. d \in Int
  BY <1>3
<1> HIDE DEF d
<1>. QED
  BY <1>5, <1>6, <1>7, <1>8, BalanceMoved

(* Every step keeps the balance.                                           *)
LEMMA BalanceStep == TradeInv /\ Balanced /\ [TradeNext]_vars => Balanced'
<1> SUFFICES ASSUME TradeInv, Balanced, [TradeNext]_vars PROVE Balanced'
  OBVIOUS
<1>1. \A i \in Invocations : tx[i].fate # "none" => call[i] # "idle"
  BY DEF TradeInv, SubmissionInv, AwaitsKnow
<1>2. CASE UNCHANGED vars \/ Environment
  <2>1. UNCHANGED <<req, view, tx>>
    BY <1>2 DEF vars, tradeVars, submissionVars, Environment, Complete, Migrate, Finalize,
                OtherTrade
  <2>2. now \in Chain
    BY DEF TradeInv, ChainSound
  <2>3. now'.wallet = now.wallet
    BY <1>2, <2>2 DEF vars, tradeVars, Environment, Complete, Migrate, Finalize,
                      OtherTrade, Chain, Venues
  <2>. QED
    BY <2>1, <2>3, BalanceHeld DEF Gained
<1>3. ASSUME NEW i \in Invocations, Start(i) \/ Refuse(i) \/ Command(i)
      PROVE  Balanced'
  <2>1. \A j \in Invocations : Gained(j)' = Gained(j)
    BY <1>1, <1>3, CommandKeeps, GainKept
  <2>. QED
    BY <1>3, <2>1, CommandKeeps, BalanceHeld
<1>4. ASSUME NEW i \in Invocations, Sending(i) \/ (Interrupt(i) /\ UNCHANGED tradeVars)
      PROVE  Balanced'
  <2>1. UNCHANGED <<now, req, view>> /\ (ClientStep(i) \/ Interrupt(i))
    BY <1>4 DEF Sending, tradeVars
  <2>2. /\ tx'[i].got = tx[i].got
        /\ tx'[i].fate = tx[i].fate \/ (tx[i].fate = "none" /\ tx'[i].fate = "posted")
        /\ \A j \in Invocations \ {i} : tx'[j] = tx[j]
    BY <2>1, ClientMoves DEF TradeInv
  <2>3. \A j \in Invocations : Gained(j)' = Gained(j)
    BY <2>1, <2>2, GainKept
  <2>. QED
    BY <2>1, <2>3, BalanceHeld
<1>5. ASSUME NEW i \in Invocations, OnCluster(i), ~Execute(i)
      PROVE  Balanced'
  <2>1. UNCHANGED <<now, req, view>>
    BY <1>5 DEF OnCluster, MissFloor, FailOtherwise, tradeVars
  <2>2. /\ tx[i].fate \in {"posted", "flying"} /\ tx'[i].fate # "ok"
        /\ \A j \in Invocations \ {i} : tx'[j] = tx[j]
    <3>1. CASE MissFloor(i) \/ FailOtherwise(i)
      BY <3>1 DEF MissFloor, FailOtherwise, Land, TradeInv, SubmissionInv, TypeOK
    <3>2. CASE Arrive(i) \/ Expire(i)
      BY <3>2, SetFate DEF Arrive, Expire, TradeInv, SubmissionInv, Fates
    <3>. QED
      BY <1>5, <3>1, <3>2 DEF OnCluster
  <2>3. \A j \in Invocations : Gained(j)' = Gained(j)
    BY <2>1, <2>2, GainKept
  <2>. QED
    BY <2>1, <2>3, BalanceHeld
<1>. QED
  BY <1>2, <1>3, <1>4, <1>5, ExecuteBalances DEF TradeNext

(* The exact fields of any finite number of invocations account for the    *)
(* wallet's tokens, once all have ended and reported what happened.        *)
THEOREM TradeRawFields == IsFiniteSet(Invocations) /\ TradeSpec => []RawFieldsAddUp
<1>1. TradeSpec => [](TradeInv /\ Balanced)
  BY BalancedInit, BalanceStep, TradeInitInv, TradeStepInv, PTL DEF TradeSpec
<1>2. ASSUME IsFiniteSet(Invocations), TradeInv, Balanced PROVE RawFieldsAddUp
  <2> SUFFICES ASSUME \A i \in Invocations :
                        /\ pc[i] = "done" /\ tx[i].fate \notin {"posted", "flying"}
                        /\ tx[i].fate = "ok" <=> res[i] = "confirmed"
                        /\ res[i] = "confirmed" /\ req[i].side = "buy"
                             => receipt[i] # NoReceipt
               PROVE  now.wallet.tok = WalletAtStart.tok + MapThenSumSet(RawField, Invocations)
    BY DEF RawFieldsAddUp
  <2>1. \A i \in Invocations : RawField(i) = Gained(i)
    BY <1>2 DEF RawField, Gained, TradeInv, SubmissionInv, ExactReceipt
  <2>2. PICK book \in [SUBSET Invocations -> Int] :
          /\ book[{}] = 0
          /\ \A T \in SUBSET Invocations : \A i \in T : book[T] = Gained(i) + book[T \ {i}]
          /\ now.wallet.tok = WalletAtStart.tok + book[Invocations]
    BY <1>2 DEF Balanced
  <2>3. \A T \in SUBSET Invocations : \A i \in T : book[T] = RawField(i) + book[T \ {i}]
    BY <2>1, <2>2
  <2>. QED
    BY <1>2, <2>2, <2>3, SumOfRawFields
<1>3. CASE IsFiniteSet(Invocations)
  <2>1. TradeInv /\ Balanced => RawFieldsAddUp
    BY <1>2, <1>3
  <2>. QED
    BY <1>1, <2>1, PTL
<1>. QED
  BY <1>3

-----------------------------------------------------------------------------
(* The refinement: the commands implement the contract of TxReport.        *)

(* A command that has not ended has told nothing.                          *)
LEMMA NothingTold == ToldBy("none") = "pending"
  BY DEF ToldBy, Refusals

(* A step that neither moves a transaction nor ends a command is           *)
(* invisible.                                                              *)
LEMMA QuietTrade ==
  ASSUME UNCHANGED <<tx, res>>
  PROVE  UNCHANGED CommandReport!reportVars
  BY DEF CommandReport!reportVars

(* Ending a command with a result its transaction supports is a Tell.      *)
LEMMA FinishTells ==
  ASSUME TradeInv, NEW i \in Invocations, pc[i] # "done", NEW r \in Results \ {"none"},
         Finish(i, r), CommandReport!Supports(ToldBy(r), Broadcasted(tx[i].fate))
  PROVE  CommandReport!ReportNext
<1>1. UNCHANGED tx /\ res' = [res EXCEPT ![i] = r] /\ res[i] = "none"
  BY ViewFacts DEF Finish, submissionVars, InvocationInv, Stage, TradeInv, Typed
<1>2. ToldBy(r) \in CommandReport!Reports \ {"pending"} /\ ToldBy(res[i]) = "pending"
  BY <1>1 DEF ToldBy, Results, CommandReport!Reports, Refusals
<1>3. [j \in Invocations |-> ToldBy(res'[j])]
        = [[j \in Invocations |-> ToldBy(res[j])] EXCEPT ![i] = ToldBy(r)]
  BY <1>1 DEF TradeInv, Typed
<1>. QED
  BY <1>1, <1>2, <1>3 DEF CommandReport!Tell, CommandReport!ReportNext

(* Until it has sent, a command goes on or ends without a trade.           *)
LEMMA BeforeSending ==
  ASSUME TradeInv, NEW i \in Invocations, pc[i] \in Reads \cup {"idle"},
         \/ UNCHANGED <<tx, res>>
         \/ \E r \in Refusals \cup {"dry_run", "raised"} : Finish(i, r)
  PROVE  CommandReport!ReportNext \/ UNCHANGED CommandReport!reportVars
<1>1. ASSUME NEW r \in Refusals \cup {"dry_run", "raised"}, Finish(i, r)
      PROVE  CommandReport!ReportNext
  <2>1. Broadcasted(tx[i].fate) = "none"
    BY ViewFacts DEF InvocationInv, Stage, TradeInv, SubmissionInv, AwaitsKnow, Broadcasted
  <2>2. ToldBy(r) \in {"nothing_sent", "silent"}
    BY DEF ToldBy, Refusals
  <2>3. CommandReport!Supports(ToldBy(r), Broadcasted(tx[i].fate))
    BY <2>1, <2>2 DEF CommandReport!Supports
  <2>4. r \in Results \ {"none"} /\ pc[i] # "done"
    BY DEF Results, Refusals, Reads
  <2>. QED
    BY <1>1, <2>3, <2>4, FinishTells
<1>. QED
  BY <1>1, QuietTrade

(* Calling send_tx tells nothing yet; a dry run ends having sent nothing.  *)
LEMMA DispatchQuiet ==
  ASSUME NEW i \in Invocations, NEW v, Dispatch(i, v)
  PROVE  UNCHANGED <<tx, res>> \/ Finish(i, "dry_run")
  BY DEF Dispatch, SendTx

(* A command tells of its trade once: before it sent one, or with what     *)
(* send_tx established.                                                    *)
LEMMA CommandRefines ==
  ASSUME TradeInv, NEW i \in Invocations, Start(i) \/ Refuse(i) \/ Command(i)
  PROVE  CommandReport!ReportNext \/ UNCHANGED CommandReport!reportVars
<1> DEFINE Before == /\ pc[i] \in Reads \cup {"idle"}
                     /\ \/ UNCHANGED <<tx, res>>
                        \/ \E r \in Refusals \cup {"dry_run", "raised"} : Finish(i, r)
<1>1. ASSUME NEW v, PriceSell(i, v)
      PROVE  UNCHANGED <<tx, res>> \/ Finish(i, "dry_run")
  BY <1>1, DispatchQuiet DEF PriceSell
<1>2. ASSUME NEW v, NEW short, PriceBuy(i, v, short)
      PROVE  UNCHANGED <<tx, res>> \/ Finish(i, "dry_run") \/ Finish(i, "insufficient_balance")
  BY <1>2, DispatchQuiet DEF PriceBuy
<1>3. CASE Start(i) \/ Refuse(i) \/ ReadRaises(i)
  <2>1. Before
    BY <1>3 DEF Start, Refuse, ReadRaises, Goto, submissionVars, Refusals
  <2>. QED
    BY <2>1, BeforeSending
<1>4. CASE ReadCurve(i) \/ LoadPool(i)
  <2>1. Before
    BY <1>4 DEF ReadCurve, LoadPool, Goto, submissionVars, Refusals, Reads
  <2>. QED
    BY <2>1, BeforeSending
<1>5. CASE ReadTokens(i) \/ ReadBase(i) \/ ReadVault(i)
  <2>1. Before
    BY <1>1, <1>5 DEF ReadTokens, ReadBase, ReadVault, Goto, submissionVars, Refusals, Reads
  <2>. QED
    BY <2>1, BeforeSending
<1>6. CASE ReadSol(i) \/ ReadUsd(i)
  <2>1. Before
    BY <1>2, <1>6 DEF ReadSol, ReadUsd, Goto, submissionVars, Refusals, Reads
  <2>. QED
    BY <2>1, BeforeSending
<1>7. CASE Conclude(i)
  <2> DEFINE r == IF ret[i] # "failed" THEN ret[i]
                  ELSE IF tx[i].code \in SlippageCodes(view[i].venue) THEN "slippage"
                  ELSE "tx_error"
  <2>1. pc[i] # "done" /\ call[i] = "done" /\ Finish(i, r)
    BY <1>7 DEF Conclude
  <2>2. ret[i] \in Rets \ {"none"}
    BY <2>1 DEF TradeInv, SubmissionInv, TypeOK, ReturnsKnow
  <2>3. r \in Results \ {"none"} /\ ToldBy(r) = Told(ret[i])
    <3>1. CASE ret[i] = "failed"
      <4>1. r \in {"slippage", "tx_error"}
        BY <3>1
      <4>2. Told(ret[i]) = "failed"
        BY <3>1 DEF Told
      <4>. QED
        BY <4>1, <4>2 DEF Results, ToldBy, Refusals
    <3>2. CASE ret[i] # "failed"
      BY <2>2, <3>2 DEF Results, ToldBy, Told, Rets, Refusals
    <3>. QED
      BY <3>1, <3>2
  <2>4. CommandReport!Supports(Told(ret[i]), Broadcasted(tx[i].fate))
    BY <2>2 DEF TradeInv, SubmissionInv, ReturnsKnow, Told, Rets, Broadcasted, Posted, Landed,
                CommandReport!Supports, CommandReport!Landed
  <2> HIDE DEF r
  <2>. QED
    BY <2>1, <2>3, <2>4, FinishTells
<1>. QED
  BY <1>3, <1>4, <1>5, <1>6, <1>7 DEF Command

(* The send path posts unseen; what it tells is told when the command      *)
(* concludes.                                                              *)
LEMMA SendingRefines ==
  ASSUME TradeInv, NEW i \in Invocations, ClientStep(i) \/ Interrupt(i),
         UNCHANGED tradeVars
  PROVE  UNCHANGED CommandReport!reportVars
<1>1. UNCHANGED res
  BY DEF tradeVars
<1>2. CASE BuildAndPost(i) /\ i \notin Oversize
  <2>1. tx[i].fate = "none"
    BY <1>2 DEF BuildAndPost, TradeInv, SubmissionInv, AwaitsKnow
  <2>2. tx'[i].fate = "posted" /\ \A j \in Invocations \ {i} : tx'[j] = tx[j]
    BY <1>2, SetFate DEF BuildAndPost, TradeInv, SubmissionInv, Fates
  <2>3. [j \in Invocations |-> Broadcasted(tx'[j].fate)]
          = [j \in Invocations |-> Broadcasted(tx[j].fate)]
    BY <2>1, <2>2 DEF Broadcasted
  <2>. QED
    BY <1>1, <2>3 DEF CommandReport!reportVars
<1>3. CASE ~(BuildAndPost(i) /\ i \notin Oversize)
  <2>1. UNCHANGED tx
    BY <1>3 DEF ClientStep, Interrupt, BuildAndPost, RpcRaises, SendAnswered,
                ConfirmAnswered, ConfirmRaises, ReadStatus, DeltaMissed, DeltaFound,
                DeltaRaises
  <2>. QED
    BY <1>1, <2>1, QuietTrade
<1>. QED
  BY <1>2, <1>3

(* A request that reaches a node is the Broadcast, landing and lapsing the *)
(* Settle.                                                                 *)
LEMMA ClusterRefines ==
  ASSUME TradeInv, NEW i \in Invocations, OnCluster(i)
  PROVE  CommandReport!ReportNext
<1>1. UNCHANGED res
  BY DEF OnCluster, Execute, MissFloor, FailOtherwise, tradeVars
<1>2. CASE Arrive(i)
  <2>1. tx[i].fate = "posted"
    BY <1>2 DEF Arrive
  <2>2. tx'[i].fate = "flying" /\ \A j \in Invocations \ {i} : tx'[j] = tx[j]
    BY <1>2, SetFate DEF Arrive, TradeInv, SubmissionInv, Fates
  <2>3. ToldBy(res[i]) \in {"pending", "silent"}
    <3>1. Told(ret[i]) \in {"pending", "silent"}
      BY <2>1 DEF TradeInv, SubmissionInv, TypeOK, ReturnsKnow, Rets, Landed, Posted, Told
    <3>2. call[i] # "idle"
      BY <2>1 DEF TradeInv, SubmissionInv, AwaitsKnow
    <3>3. res[i] = "none" \/ ToldBy(res[i]) = Told(ret[i])
      BY <3>2, ViewFacts DEF InvocationInv, Stage
    <3>. QED
      BY <3>1, <3>3, NothingTold
  <2>4. [j \in Invocations |-> Broadcasted(tx'[j].fate)]
          = [[j \in Invocations |-> Broadcasted(tx[j].fate)] EXCEPT ![i] = "flying"]
    BY <2>2 DEF Broadcasted
  <2>5. Broadcasted(tx[i].fate) = "none"
    BY <2>1 DEF Broadcasted
  <2>6. [j \in Invocations |-> ToldBy(res'[j])] = [j \in Invocations |-> ToldBy(res[j])]
    BY <1>1
  <2>. QED
    BY <2>3, <2>4, <2>5, <2>6 DEF CommandReport!Broadcast, CommandReport!ReportNext
<1>3. CASE ~Arrive(i)
  <2>1. PICK f \in Landed \cup {"expired"} :
          /\ tx[i].fate = "flying" /\ tx'[i].fate = f
          /\ \A j \in Invocations \ {i} : tx'[j] = tx[j]
    <3>1. ASSUME NEW f \in Landed, NEW c, NEW g, Land(i, f, c, g)
          PROVE  /\ tx[i].fate = "flying" /\ tx'[i].fate = f
                 /\ \A j \in Invocations \ {i} : tx'[j] = tx[j]
      BY <3>1 DEF Land, TradeInv, SubmissionInv, TypeOK
    <3>2. CASE Execute(i)
      BY <3>1, <3>2 DEF Execute, Landed
    <3>3. CASE MissFloor(i) \/ FailOtherwise(i)
      BY <3>1, <3>3 DEF MissFloor, FailOtherwise, Landed
    <3>4. CASE Expire(i)
      BY <3>4, SetFate DEF Expire, TradeInv, SubmissionInv, Fates
    <3>. QED
      BY <1>3, <3>2, <3>3, <3>4 DEF OnCluster
  <2>2. Broadcasted(tx[i].fate) = "flying" /\ Broadcasted(f) = f
    BY <2>1 DEF Broadcasted, Landed
  <2>3. [j \in Invocations |-> Broadcasted(tx'[j].fate)]
          = [[j \in Invocations |-> Broadcasted(tx[j].fate)] EXCEPT ![i] = f]
    BY <2>1, <2>2
  <2>4. [j \in Invocations |-> ToldBy(res'[j])] = [j \in Invocations |-> ToldBy(res[j])]
    BY <1>1
  <2>. QED
    BY <2>2, <2>3, <2>4
    DEF CommandReport!Settle, CommandReport!ReportNext, Landed, CommandReport!Landed
<1>. QED
  BY <1>2, <1>3

(* Every step of the commands is a step of the contract or invisible.      *)
LEMMA TradeStepRefines ==
  TradeInv /\ [TradeNext]_vars => [CommandReport!ReportNext]_(CommandReport!reportVars)
<1> SUFFICES ASSUME TradeInv, [TradeNext]_vars
             PROVE  CommandReport!ReportNext \/ UNCHANGED CommandReport!reportVars
  OBVIOUS
<1>1. CASE UNCHANGED vars \/ Environment
  <2>1. UNCHANGED <<tx, res>>
    BY <1>1 DEF vars, tradeVars, submissionVars, Environment, Complete, Migrate, Finalize,
                OtherTrade
  <2>. QED
    BY <2>1, QuietTrade
<1>2. ASSUME NEW i \in Invocations, Sending(i) \/ (Interrupt(i) /\ UNCHANGED tradeVars)
      PROVE  UNCHANGED CommandReport!reportVars
  BY <1>2, SendingRefines DEF Sending
<1>. QED
  BY <1>1, <1>2, CommandRefines, ClusterRefines DEF TradeNext

(* What a command reports of its trade is true when it is reported and     *)
(* stays true, for every request, route, refusal and failure.              *)
THEOREM TradeReportsTruly == TradeSpec => TradeImplementsTxReport
<1>1. TradeInit => CommandReport!ReportInit
  BY NothingTold DEF TradeInit, SubmissionInit, NoTx, CommandReport!ReportInit, Broadcasted
<1>. QED
  BY <1>1, TradeStepRefines, TradeInvariant, PTL
  DEF TradeSpec, TradeImplementsTxReport, CommandReport!ReportSpec
=============================================================================
