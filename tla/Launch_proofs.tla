---------------------------- MODULE Launch_proofs ----------------------------
(***************************************************************************)
(* Proofs about the launch command, for all programs an admin can choose   *)
(* among, all requests and any number of changes meanwhile.                *)
(*                                                                         *)
(* What the checks have seen is still what the command goes by when it     *)
(* uploads and sends, and nothing it has seen is read again: so the        *)
(* invariant says of each await which checks are behind it (Checked), of   *)
(* what was sent that it was priced by what was seen (SentRight), and of a *)
(* transaction in a block what it met there (OnChain).                     *)
(***************************************************************************)
EXTENDS Launch, Submission_proofs, Quotes_proofs

Early == {"idle", "global", "control", "mint", "held", "upload"}
Results == {"none", "refused", "raised", "ipfs_failed", "sent", "killed"}

-----------------------------------------------------------------------------
(* The invariant.                                                          *)

(* How far the command is, its send path, and its result.                  *)
Stage(i) ==
  /\ pc[i] \in Early => call[i] = "idle"
  /\ pc[i] \in Early \ {"upload"} => ~uploaded[i]
  /\ pc[i] = "submit" => call[i] # "idle"
  /\ pc[i] = "done" <=> res[i] # "none"
  /\ res[i] \in {"refused", "ipfs_failed"} => call[i] = "idle"
  /\ res[i] \in {"sent", "killed"} => call[i] \in {"idle", "done"}
  /\ res[i] = "sent" => call[i] = "done"
  /\ res[i] = "raised" => call[i] = "idle"

(* The four checks, in their order.                                        *)
MayhemFits(q) == ~(q.mayhem /\ q.quote # Sol)
HolderFits(v, q) == q.holder => v.global.holder
QuoteFits(v, q) == ~FeeRefused(v, q) /\ Admitted(v, q.quote)
Funded(v, q) == q.quote # Sol /\ q.buy > 0 => v.held >= q.buy

AllChecked(v, q) == MayhemFits(q) /\ HolderFits(v, q) /\ QuoteFits(v, q) /\ Funded(v, q)

Checked(i) ==
  /\ pc[i] \in Early \ {"idle"} => MayhemFits(req[i])
  /\ pc[i] \in {"control", "mint", "held"} => HolderFits(view[i], req[i])
  /\ pc[i] \in {"mint", "held"} => QuoteFits(view[i], req[i])
  /\ pc[i] = "mint" => req[i].quote # Sol
  /\ uploaded[i] \/ call[i] # "idle" \/ pc[i] = "upload" => AllChecked(view[i], req[i])

SentRight(i) ==
  call[i] # "idle" /\ req[i].buy > 0 =>
    /\ sent[i].expected = OpeningBuyTokens(view[i], req[i])
    /\ sent[i].floor = Floor(sent[i].expected, req[i].slippage)

(* What a transaction met decided what became of it.                       *)
OnChain(i) ==
  LET p == met[i].program
      refused == Rejects(p, met[i].held, req[i])
      got == Pays(p, req[i], met[i].rate)
  IN
  /\ IF tx[i].fate \in Landed THEN met[i].rate \in AppliedRates(p, req[i])
                              ELSE tx[i].code = 0
  /\ tx[i].fate = "ok" => /\ tx[i].code = 0 /\ ~refused /\ tx[i].got = got
                          /\ req[i].buy > 0 => got >= sent[i].floor
  /\ tx[i].code = Rejected => refused
  /\ tx[i].code = TooFewTokens => ~refused /\ req[i].buy > 0 /\ got < sent[i].floor

InvocationInv(i) == Stage(i) /\ Checked(i) /\ SentRight(i) /\ OnChain(i)

LaunchInv ==
  /\ SubmissionInv
  /\ LaunchTypeOK
  /\ \A i \in Invocations : InvocationInv(i)

-----------------------------------------------------------------------------
(* What it gives.                                                          *)

(* A rate that the program may apply leaves something or nothing of an     *)
(* amount, not less.                                                       *)
LEMMA RateBounds ==
  ASSUME NEW p \in Programs, NEW rate \in Nat, rate \in {0, p.creator} \/ rate <= p.ceiling
  PROVE  p.fee + rate \in 0 .. Bps
<1>1. /\ p.fee \in Nat /\ p.creator \in Nat /\ p.ceiling \in Nat
      /\ p.fee + p.creator <= Bps /\ p.fee + p.ceiling <= Bps
  BY LaunchAssumption
<1>. DEFINE f == p.fee
<1>2. f \in Nat /\ f + rate <= 10000
  BY <1>1 DEF Bps
<1>. HIDE DEF f
<1>3. f + rate \in 0 .. 10000
  BY <1>2
<1>. QED
  BY <1>3 DEF Bps, f

LEMMA RatesApplied ==
  ASSUME NEW p \in Programs, NEW q \in Asks, q.fee > 0 => q.fee <= p.ceiling,
         NEW rate \in AppliedRates(p, q)
  PROVE  rate \in Nat /\ (rate \in {0, p.creator} \/ rate <= p.ceiling)
<1>1. q.fee \in Nat \cup {NoFee} /\ p.creator \in Nat
  BY LaunchAssumption DEF Request
<1>. QED
  BY <1>1 DEF AppliedRates, NoFee

LEMMA ReservesPositive ==
  ASSUME NEW p \in Programs, NEW c \in Programs, NEW quote
  PROVE  OpeningReserves(p, c.registry, quote) \in Nat \ {0}
  BY LaunchAssumption DEF OpeningReserves

(* The program pays exactly what the client reckons from the same state.   *)
LEMMA PaysAsReckoned ==
  ASSUME NEW p \in Programs, NEW q \in Asks, NEW rate \in Nat,
         rate \in {0, p.creator} \/ rate <= p.ceiling
  PROVE  LET in == AfterFee(q.buy, p.fee + rate)
         IN  /\ Pays(p, q, rate)
                  = BuyTokensOut(p.tokens, OpeningReserves(p, p.registry, q.quote), in)
             /\ Pays(p, q, rate) \in Nat
<1> DEFINE in == AfterFee(q.buy, p.fee + rate)
           quote == OpeningReserves(p, p.registry, q.quote)
           fair == {t \in 0 .. p.tokens : (p.tokens - t) * (quote + in) >= p.tokens * quote}
           b == BuyTokensOut(p.tokens, quote, in)
<1>1. q.buy \in Nat /\ p.tokens \in Nat \ {0} /\ quote \in Nat \ {0}
  BY LaunchAssumption, ReservesPositive DEF Request
<1>2. in \in Nat
  <2>1. p.fee + rate \in 0 .. Bps
    BY RateBounds
  <2>. QED
    BY <1>1, <2>1, FeeBounds
<1> DEFINE tokens == p.tokens
<1>3. /\ b \in Nat /\ b < tokens
      /\ (tokens - b) * (quote + in) >= tokens * quote
      /\ (tokens - b - 1) * (quote + in) < tokens * quote
  BY <1>1, <1>2, BuyTight
<1>4. b \in fair
  BY <1>1, <1>3
<1>5. ASSUME NEW s \in fair PROVE s <= b
  <2> SUFFICES ASSUME s > b PROVE FALSE
    BY <1>1, <1>3
  <2> DEFINE x == quote + in
  <2>1. x \in Nat /\ tokens - s \in Nat /\ tokens - b - 1 \in Nat /\ tokens - s <= tokens - b - 1
    BY <1>1, <1>2, <1>3
  <2>2. tokens * quote \in Nat
    BY <1>1, ProductNat
  <2>3. (tokens - s) * x <= (tokens - b - 1) * x
    <3> DEFINE m == tokens - s
               n == tokens - b - 1
    <3>1. m \in Nat /\ n \in Nat /\ m <= n
      BY <2>1
    <3> HIDE DEF m, n, x
    <3>2. (n - m) * x \in Nat /\ n * x = m * x + (n - m) * x /\ m * x \in Nat
      BY <2>1, <3>1, ProductNat
    <3>3. m * x <= n * x
      BY <3>2
    <3>. QED
      BY <3>3 DEF m, n
  <2>4. (tokens - s) * x >= tokens * quote /\ (tokens - b - 1) * x < tokens * quote
    BY <1>3
  <2>5. (tokens - s) * x \in Nat /\ (tokens - b - 1) * x \in Nat
    BY <2>1, ProductNat
  <2> HIDE DEF x, tokens, quote
  <2>. QED
    BY <2>2, <2>3, <2>4, <2>5
<1>6. \A t \in fair : (\A s \in fair : s <= t) => t = b
  BY <1>1, <1>3, <1>4, <1>5
<1>7. Pays(p, q, rate) = CHOOSE t \in fair : \A s \in fair : s <= t
  BY DEF Pays
<1> HIDE DEF fair, b, quote, in
<1>8. Pays(p, q, rate) = b
  BY <1>4, <1>5, <1>6, <1>7
<1>. QED
  BY <1>3, <1>8 DEF b, quote, in
(* So the opening buy goes as reckoned, unless the settings moved.         *)
LEMMA LaunchInvImplies ==
  ASSUME LaunchInv PROVE RefusesBeforeUploading /\ OpeningBuyAsEstimated
<1>1. ASSUME NEW i \in Invocations
      PROVE  /\ req[i] \in Asks /\ req[i] \in Request
             /\ view[i] \in View /\ met[i] \in Met /\ tx[i] \in Tx
             /\ InvocationInv(i)
             /\ tx[i].fate # "none" => call[i] # "idle"
             /\ posts[i] > 0 => call[i] # "idle"
  BY LaunchAssumption DEF LaunchInv, LaunchTypeOK, SubmissionInv, TypeOK, AwaitsKnow
<1>2. ASSUME NEW i \in Invocations, ~SettingsMoved(i), AllChecked(view[i], req[i])
      PROVE  /\ ~Ignores(met[i].program, req[i])
             /\ Rejects(met[i].program, met[i].held, req[i]) => met[i].held < view[i].held
  <2>1. /\ met[i].program = view[i].global
        /\ req[i].quote # Sol \/ req[i].fee > 0 => met[i].program = view[i].control
    BY <1>2 DEF SettingsMoved
  <2>2. req[i].fee \in Int /\ req[i].buy \in Nat /\ view[i].held \in Nat /\ met[i].held \in Nat
    BY <1>1 DEF Request, NoFee, View, Met
  <2>. QED
    BY <1>2, <2>1, <2>2
    DEF AllChecked, MayhemFits, HolderFits, QuoteFits, Funded, FeeRefused, Admitted,
        Rejects, Ignores
<1>3. RefusesBeforeUploading
  <2>. SUFFICES ASSUME NEW i \in Invocations
       PROVE  /\ (uploaded[i] \/ posts[i] > 0)
                   /\ (req[i].quote # Sol => view[i].global = view[i].control)
                   => /\ ~Rejects(view[i].global, view[i].held, req[i])
                      /\ ~Ignores(view[i].control, req[i])
              /\ tx[i].code = Rejected \/ (tx[i].fate = "ok" /\ Ignores(met[i].program, req[i]))
                   => SettingsMoved(i) \/ met[i].held < view[i].held
    BY DEF RefusesBeforeUploading
  <2>1. ASSUME uploaded[i] \/ posts[i] > 0,
               req[i].quote # Sol => view[i].global = view[i].control
        PROVE  /\ ~Rejects(view[i].global, view[i].held, req[i])
               /\ ~Ignores(view[i].control, req[i])
    <3>1. AllChecked(view[i], req[i])
      BY <1>1, <2>1 DEF InvocationInv, Checked
    <3>2. req[i].fee \in Int /\ req[i].buy \in Nat /\ view[i].held \in Nat
      BY <1>1 DEF Request, NoFee, View
    <3>3. Sol \notin DOMAIN view[i].control.registry
      BY <1>1, LaunchAssumption DEF View
    <3>. QED
      BY <2>1, <3>1, <3>2, <3>3
      DEF AllChecked, MayhemFits, HolderFits, QuoteFits, Funded, FeeRefused, Admitted,
          Rejects, Ignores
  <2>2. ASSUME tx[i].code = Rejected \/ (tx[i].fate = "ok" /\ Ignores(met[i].program, req[i])),
               ~SettingsMoved(i)
        PROVE  met[i].held < view[i].held
    <3>1. tx[i].fate \in Landed
      BY <1>1, <2>2 DEF InvocationInv, OnChain, Rejected, Landed
    <3>2. AllChecked(view[i], req[i])
      BY <1>1, <3>1 DEF InvocationInv, Checked, Landed
    <3>. QED
      BY <1>1, <1>2, <2>2, <3>2 DEF InvocationInv, OnChain
  <2>. QED
    BY <2>1, <2>2
<1>4. ASSUME NEW i \in Invocations, req[i].buy > 0, tx[i].fate \in Landed
      PROVE  /\ tx[i].fate = "ok" =>
                  /\ tx[i].got * 100 > sent[i].expected * (100 - req[i].slippage) - 100
                  /\ tx[i].got = sent[i].expected \/ SettingsMoved(i) \/ ZeroAsNone(i)
             /\ tx[i].code = TooFewTokens
                  => SettingsMoved(i) \/ sent[i].expected = 0 \/ ZeroAsNone(i)
  <2>1. call[i] # "idle" /\ AllChecked(view[i], req[i])
    BY <1>1, <1>4 DEF InvocationInv, Checked, Landed
  <2>2. /\ sent[i].expected = OpeningBuyTokens(view[i], req[i])
        /\ sent[i].floor = Floor(sent[i].expected, req[i].slippage)
    BY <1>1, <1>4, <2>1 DEF InvocationInv, SentRight
  <2>. DEFINE e == sent[i].expected
              f == sent[i].floor
              s == req[i].slippage
              g == Pays(met[i].program, req[i], met[i].rate)
              asked == SettingsMoved(i) \/ ZeroAsNone(i)
  <2>3. e \in Nat /\ s \in 0 .. 100
    BY <1>1 DEF LaunchInv, LaunchTypeOK, NoBuy, Request
  <2>4. f \in 1 .. AtLeastOne(e) /\ f * 100 > e * (100 - s) - 100
    BY <2>2, <2>3, FloorBounds
  <2>5. ~Rejects(met[i].program, met[i].held, req[i]) =>
          g \in Nat /\ (asked \/ g = e)
    <3>. SUFFICES ASSUME ~Rejects(met[i].program, met[i].held, req[i])
                  PROVE  g \in Nat /\ (asked \/ g = e)
      OBVIOUS
    <3>1. /\ met[i].program \in Programs /\ met[i].rate \in AppliedRates(met[i].program, req[i])
          /\ req[i].fee \in Nat \cup {NoFee} /\ met[i].program.ceiling \in Nat
      BY <1>1, <1>4, LaunchAssumption DEF Met, InvocationInv, OnChain, Request
    <3>2. req[i].fee > 0 => req[i].fee <= met[i].program.ceiling
      BY <3>1 DEF Rejects, NoFee
    <3>3. /\ met[i].rate \in Nat
          /\ met[i].rate \in {0, met[i].program.creator} \/ met[i].rate <= met[i].program.ceiling
      BY <1>1, <3>1, <3>2, RatesApplied
    <3>4. g \in Nat
      BY <1>1, <3>1, <3>3, PaysAsReckoned
    <3>5. ASSUME ~asked PROVE g = e
      <4>1. /\ met[i].program = view[i].global
            /\ req[i].quote # Sol \/ req[i].fee > 0 => met[i].program = view[i].control
        BY <3>5 DEF SettingsMoved
      <4>2. ~Ignores(met[i].program, req[i])
        BY <1>2, <2>1, <3>5
      <4>3. OpeningReserves(view[i].global, view[i].control.registry, req[i].quote)
              = OpeningReserves(met[i].program, met[i].program.registry, req[i].quote)
        BY <4>1 DEF OpeningReserves
      <4>4. met[i].rate = CreatorRate(view[i].global, req[i].fee)
        BY <3>1, <3>5, <4>1, <4>2 DEF AppliedRates, CreatorRate, ZeroAsNone, NoFee
      <4>. QED
        BY <1>1, <2>2, <3>1, <3>3, <4>1, <4>3, <4>4, PaysAsReckoned DEF OpeningBuyTokens
    <3>. QED
      BY <3>4, <3>5
  <2>6. CASE tx[i].fate = "ok"
    <3>1. tx[i].got = g /\ g >= f /\ g \in Nat /\ (asked \/ g = e)
          /\ tx[i].code = 0
      BY <1>1, <1>4, <2>5, <2>6 DEF InvocationInv, OnChain
    <3>2. e * (100 - s) \in Nat /\ f \in Nat
      BY <2>3, <2>4, ProductNat
    <3>. HIDE DEF e, f, s, g
    <3>3. g * 100 > e * (100 - s) - 100
      <4>. DEFINE x == e * (100 - s)
      <4>1. x \in Nat /\ f * 100 > x - 100
        BY <2>4, <3>2
      <4>. HIDE DEF x
      <4>2. g * 100 > x - 100
        BY <3>1, <3>2, <4>1
      <4>. QED
        BY <4>2 DEF x
    <3>. QED
      BY <3>1, <3>3 DEF e, f, s, g, TooFewTokens
  <2>7. CASE tx[i].fate # "ok"
    <3>1. ASSUME tx[i].code = TooFewTokens, ~asked PROVE e = 0
      <4>1. g < f /\ g = e
        BY <1>1, <2>5, <3>1 DEF InvocationInv, OnChain
      <4>. HIDE DEF e, f, g
      <4>. QED
        BY <2>3, <2>4, <4>1 DEF AtLeastOne
    <3>. QED
      BY <2>7, <3>1
  <2>. QED
    BY <2>6, <2>7
<1>5. ASSUME NEW i \in Invocations, tx[i].fate \notin Landed
      PROVE  tx[i].fate # "ok" /\ tx[i].code # TooFewTokens
  BY <1>1, <1>5 DEF InvocationInv, OnChain, Landed, TooFewTokens
<1>6. OpeningBuyAsEstimated
  BY <1>4, <1>5 DEF OpeningBuyAsEstimated, LaunchInv
<1>. QED
  BY <1>3, <1>6
-----------------------------------------------------------------------------
(* Steps of the command.                                                   *)

LEMMA LaunchInitInv == LaunchInit => LaunchInv
<1>. SUFFICES ASSUME LaunchInit PROVE LaunchInv
  OBVIOUS
<1>. USE LaunchAssumption DEF LaunchInit
<1>1. SubmissionInv
  BY InitInv
<1>2. LaunchTypeOK
  BY <1>1 DEF LaunchTypeOK, SubmissionInv, View, Met, NoBuy
<1>3. ASSUME NEW i \in Invocations PROVE InvocationInv(i)
  BY DEF InvocationInv, Stage, Checked, SentRight, OnChain, Early, SubmissionInit, NoTx,
         Landed, Rejected, TooFewTokens
<1>. QED
  BY <1>1, <1>2, <1>3 DEF LaunchInv

(* A step answers for the invocation that takes it.                        *)
LEMMA OwnStep ==
  ASSUME LaunchInv, NEW i \in Invocations, SubmissionInv', LaunchTypeOK', InvocationInv(i)',
         \A j \in Invocations \ {i} :
           /\ pc'[j] = pc[j] /\ view'[j] = view[j] /\ res'[j] = res[j] /\ req'[j] = req[j]
           /\ uploaded'[j] = uploaded[j] /\ sent'[j] = sent[j] /\ met'[j] = met[j]
           /\ call'[j] = call[j] /\ tx'[j] = tx[j]
  PROVE  LaunchInv'
<1>1. ASSUME NEW j \in Invocations \ {i} PROVE InvocationInv(j)'
  <2>1. InvocationInv(j)
    BY DEF LaunchInv
  <2>. QED
    BY <2>1 DEF InvocationInv, Stage, Checked, SentRight, OnChain
<1>. QED
  BY <1>1 DEF LaunchInv

(* A step that leaves the send path alone.                                 *)
LEMMA QuietCommand ==
  ASSUME LaunchInv, NEW i \in Invocations, NEW v \in View, NEW r \in Results,
         NEW p \in Early \cup {"done"}, NEW u \in BOOLEAN,
         pc' = [pc EXCEPT ![i] = p], view' = [view EXCEPT ![i] = v],
         res' = [res EXCEPT ![i] = r], uploaded' = [uploaded EXCEPT ![i] = u],
         UNCHANGED <<program, held, changes, req, met, sent, submissionVars>>,
         InvocationInv(i)'
  PROVE  LaunchInv'
<1>1. SubmissionInv'
  BY StutterInv DEF LaunchInv
<1>2. LaunchTypeOK'
  BY <1>1 DEF LaunchInv, LaunchTypeOK, SubmissionInv, Early, Results
<1>3. \A j \in Invocations \ {i} :
        /\ pc'[j] = pc[j] /\ view'[j] = view[j] /\ res'[j] = res[j] /\ req'[j] = req[j]
        /\ uploaded'[j] = uploaded[j] /\ sent'[j] = sent[j] /\ met'[j] = met[j]
        /\ call'[j] = call[j] /\ tx'[j] = tx[j]
  BY DEF LaunchInv, LaunchTypeOK, submissionVars
<1>. QED
  BY <1>1, <1>2, <1>3, OwnStep

(* The end of a command: what it saw is what it sent, if it sent.          *)
LEMMA FinishInv ==
  ASSUME LaunchInv, NEW i \in Invocations, NEW r \in Results \ {"none", "killed"},
         pc[i] # "done", NEW v \in View, At(i, pc[i]), Finish(i, r),
         view' = [view EXCEPT ![i] = v],
         uploaded[i] \/ call[i] # "idle" => v = view[i],
         IF r = "sent" THEN call[i] = "done" ELSE pc[i] \in Early
  PROVE  LaunchInv'
<1>1. InvocationInv(i) /\ i \in DOMAIN pc /\ i \in DOMAIN res /\ i \in DOMAIN view
  BY DEF LaunchInv, LaunchTypeOK
<1>2. /\ pc'[i] = "done" /\ res'[i] = r /\ view'[i] = v
      /\ UNCHANGED <<program, held, changes, req, met, uploaded, sent, submissionVars, tx, call>>
  BY <1>1 DEF At, Finish, submissionVars
<1>3. Stage(i)'
  BY <1>1, <1>2 DEF InvocationInv, Stage, Early, Results
<1>4. Checked(i)'
  BY <1>1, <1>2 DEF InvocationInv, Checked, Early
<1>5. SentRight(i)'
  BY <1>1, <1>2 DEF InvocationInv, SentRight
<1>6. OnChain(i)'
  BY <1>1, <1>2 DEF InvocationInv, OnChain
<1>7. uploaded' = [uploaded EXCEPT ![i] = uploaded[i]] /\ uploaded[i] \in BOOLEAN
  BY <1>2 DEF LaunchInv, LaunchTypeOK
<1>. QED
  BY <1>2, <1>3, <1>4, <1>5, <1>6, <1>7, QuietCommand DEF InvocationInv, At, Finish

(* Going on to the next read, with the checks before it passed.            *)
LEMMA GotoInv ==
  ASSUME LaunchInv, NEW i \in Invocations, NEW v \in View,
         NEW p \in {"global", "control", "mint", "held"},
         pc[i] \in Early \ {"upload"}, At(i, pc[i]), Goto(i, p),
         view' = [view EXCEPT ![i] = v],
         MayhemFits(req[i]),
         p # "global" => HolderFits(v, req[i]),
         p \in {"mint", "held"} => QuoteFits(v, req[i]),
         p = "mint" => req[i].quote # Sol
  PROVE  LaunchInv'
<1>1. InvocationInv(i) /\ i \in DOMAIN pc /\ i \in DOMAIN res /\ i \in DOMAIN view
  BY DEF LaunchInv, LaunchTypeOK
<1>2. call[i] = "idle" /\ ~uploaded[i] /\ res[i] = "none"
  BY <1>1 DEF InvocationInv, Stage, LaunchInv, LaunchTypeOK, Early
<1>3. /\ pc'[i] = p /\ view'[i] = v
      /\ UNCHANGED <<program, held, changes, req, met, res, uploaded, sent, submissionVars, tx, call>>
  BY <1>1 DEF At, Goto, submissionVars
<1>4. Stage(i)' /\ Checked(i)' /\ SentRight(i)'
  BY <1>2, <1>3 DEF Stage, Checked, SentRight, Early
<1>5. OnChain(i)'
  BY <1>1, <1>3 DEF InvocationInv, OnChain
<1>6. /\ uploaded' = [uploaded EXCEPT ![i] = FALSE]
      /\ res' = [res EXCEPT ![i] = "none"]
  BY <1>2, <1>3 DEF LaunchInv, LaunchTypeOK
<1>. QED
  BY <1>3, <1>4, <1>5, <1>6, QuietCommand DEF InvocationInv, At, Goto, Early, Results

(* Sending, with every check passed: the opening buy is priced by what the *)
(* checks saw.                                                             *)
LEMMA SendInv ==
  ASSUME LaunchInv, NEW i \in Invocations, pc[i] \in Early, NEW v \in View, NEW w \in View,
         At(i, pc[i]), Send(i, v), UNCHANGED uploaded, view' = [view EXCEPT ![i] = w],
         w.global = v.global, w.control = v.control, AllChecked(w, req[i])
  PROVE  LaunchInv'
<1>1. InvocationInv(i) /\ i \in DOMAIN pc /\ i \in DOMAIN view /\ i \in DOMAIN sent
      /\ req[i] \in Asks /\ req[i] \in Request
  BY LaunchAssumption DEF LaunchInv, LaunchTypeOK
<1>2. PICK m \in Modes : SendTx(i, m)
  BY DEF Send, Modes
<1>3. SubmissionInv'
  BY <1>2, SendTxInv DEF LaunchInv
<1>4. /\ UNCHANGED <<program, held, changes, req, met, res, tx, uploaded>>
      /\ pc' = [pc EXCEPT ![i] = "submit"]
      /\ call' = [call EXCEPT ![i] = "blockhash"]
  BY <1>2 DEF At, Send, SendTx, Await
<1>. DEFINE e == OpeningBuyTokens(v, req[i])
            buy == [expected |-> e, floor |-> Floor(e, req[i].slippage)]
<1>5. e \in Nat
  <2>1. v.global \in Programs /\ v.control \in Programs /\ req[i].fee \in Nat \cup {NoFee}
        /\ req[i].buy \in Nat
    BY <1>1 DEF View, Request
  <2>2. req[i].fee > 0 => req[i].fee <= v.global.ceiling
    <3>1. v.global.ceiling \in Nat
      BY <2>1, LaunchAssumption
    <3>. QED
      BY <2>1, <3>1 DEF AllChecked, QuoteFits, FeeRefused, NoFee
  <2>3. v.global.fee + CreatorRate(v.global, req[i].fee) \in 0 .. Bps
    <3>1. v.global.creator \in Nat
      BY <2>1, LaunchAssumption
    <3>. DEFINE rate == CreatorRate(v.global, req[i].fee)
    <3>2. rate \in Nat /\ (rate \in {0, v.global.creator} \/ rate <= v.global.ceiling)
      BY <2>1, <2>2, <3>1 DEF CreatorRate, NoFee
    <3>. HIDE DEF rate
    <3>3. v.global.fee + rate \in 0 .. Bps
      BY <2>1, <3>2, RateBounds
    <3>. QED
      BY <3>3 DEF rate
  <2>. DEFINE in == AfterFee(req[i].buy, v.global.fee + CreatorRate(v.global, req[i].fee))
              quote == OpeningReserves(v.global, v.control.registry, req[i].quote)
  <2>4. in \in Nat /\ quote \in Nat \ {0} /\ v.global.tokens \in Nat \ {0}
    <3>1. AfterFee(req[i].buy, v.global.fee + CreatorRate(v.global, req[i].fee)) \in 0 .. req[i].buy
      BY <2>1, <2>3, FeeBounds
    <3>2. in \in Nat
      BY <2>1, <3>1
    <3>. QED
      BY <2>1, <3>2, ReservesPositive, LaunchAssumption
  <2>. HIDE DEF in, quote
  <2>5. BuyTokensOut(v.global.tokens, quote, in) \in Nat
    BY <2>4, BuyTight
  <2>. QED
    BY <2>5 DEF OpeningBuyTokens, in, quote
<1>. HIDE DEF e
<1>6. buy \in [expected : Nat, floor : Nat \ {0}]
  <2>1. req[i].slippage \in 0 .. 100 /\ AtLeastOne(e) \in Nat
    BY <1>1, <1>5 DEF Request, AtLeastOne
  <2>2. Floor(e, req[i].slippage) \in Nat \ {0}
    <3>. DEFINE f == Floor(e, req[i].slippage)
                most == AtLeastOne(e)
    <3>1. f \in 1 .. most /\ most \in Nat
      BY <1>5, <2>1, FloorBounds
    <3>. HIDE DEF f, most
    <3>2. f \in Nat \ {0}
      BY <3>1
    <3>. QED
      BY <3>2 DEF f
  <2>. QED
    BY <1>5, <2>2
<1>7. sent' = [sent EXCEPT ![i] = IF req[i].buy = 0 THEN NoBuy ELSE buy]
  BY DEF Send, MinTokensOut, e
<1>8. LaunchTypeOK'
  <2>1. sent' \in [Invocations -> [expected : Nat, floor : Nat \ {0}] \cup {NoBuy}]
    BY <1>6, <1>7 DEF LaunchInv, LaunchTypeOK
  <2>. QED
    BY <1>3, <1>4, <2>1 DEF LaunchInv, LaunchTypeOK, SubmissionInv
<1>9. /\ pc'[i] = "submit" /\ view'[i] = w /\ call'[i] = "blockhash" /\ tx'[i] = tx[i]
      /\ tx[i].fate = "none" /\ res[i] = "none"
  BY <1>1, <1>4 DEF LaunchInv, SubmissionInv, TypeOK, AwaitsKnow, InvocationInv, Stage, Early,
                    LaunchTypeOK
<1>10. Stage(i)' /\ Checked(i)'
  BY <1>1, <1>4, <1>9 DEF InvocationInv, Stage, Checked, Early
<1>11. SentRight(i)'
  <2>1. SUFFICES ASSUME req[i].buy > 0
                 PROVE  sent'[i].expected = OpeningBuyTokens(w, req[i]) /\ sent'[i] = buy
    BY <1>4, <1>9 DEF SentRight
  <2>2. sent'[i] = buy
    <3>1. req[i].buy # 0
      BY <2>1
    <3>. QED
      BY <1>1, <1>7, <3>1
  <2>. QED
    BY <2>2 DEF e, OpeningBuyTokens
<1>12. OnChain(i)'
  BY <1>1, <1>9 DEF InvocationInv, OnChain, Landed, Rejected, TooFewTokens
<1>13. \A j \in Invocations \ {i} :
        /\ pc'[j] = pc[j] /\ view'[j] = view[j] /\ res'[j] = res[j] /\ req'[j] = req[j]
        /\ uploaded'[j] = uploaded[j] /\ sent'[j] = sent[j] /\ met'[j] = met[j]
        /\ call'[j] = call[j] /\ tx'[j] = tx[j]
  BY <1>4, <1>7 DEF LaunchInv, LaunchTypeOK, SubmissionInv, TypeOK
<1>. QED
  BY <1>3, <1>8, <1>10, <1>11, <1>12, <1>13, OwnStep DEF InvocationInv
(* With every check passed, an upload or the transaction is started.       *)
LEMMA UploadOrSendInv ==
  ASSUME LaunchInv, NEW i \in Invocations, pc[i] \in Early \ {"upload"},
         NEW v \in View, NEW w \in View,
         At(i, pc[i]), UploadOrSend(i, v), view' = [view EXCEPT ![i] = w],
         w.global = v.global, w.control = v.control, AllChecked(w, req[i])
  PROVE  LaunchInv'
<1>1. CASE req[i].hosted
  BY <1>1, SendInv DEF UploadOrSend
<1>2. CASE ~req[i].hosted
  <2>1. InvocationInv(i) /\ i \in DOMAIN pc /\ i \in DOMAIN uploaded /\ i \in DOMAIN view
    BY DEF LaunchInv, LaunchTypeOK
  <2>2. call[i] = "idle" /\ res[i] = "none"
    BY <2>1 DEF InvocationInv, Stage, LaunchInv, LaunchTypeOK, Early
  <2>3. /\ pc' = [pc EXCEPT ![i] = "upload"] /\ uploaded' = [uploaded EXCEPT ![i] = TRUE]
        /\ UNCHANGED <<program, held, changes, req, met, res, sent, submissionVars, tx, call>>
    BY <1>2 DEF UploadOrSend, At, submissionVars
  <2>4. pc'[i] = "upload" /\ uploaded'[i] /\ view'[i] = w
    BY <2>1, <2>3
  <2>5. Stage(i)' /\ Checked(i)' /\ SentRight(i)'
    BY <2>2, <2>3, <2>4 DEF Stage, Checked, SentRight, Early, AllChecked
  <2>6. OnChain(i)'
    BY <2>1, <2>3 DEF InvocationInv, OnChain
  <2>7. res' = [res EXCEPT ![i] = "none"]
    BY <2>2, <2>3 DEF LaunchInv, LaunchTypeOK
  <2>. QED
    BY <2>3, <2>5, <2>6, <2>7, QuietCommand DEF InvocationInv, Early, Results
<1>. QED
  BY <1>1, <1>2

LEMMA AfterMintInv ==
  ASSUME LaunchInv, NEW i \in Invocations, pc[i] \in Early \ {"upload"}, NEW v \in View,
         At(i, pc[i]), AfterMint(i, v), view' = [view EXCEPT ![i] = v],
         MayhemFits(req[i]), HolderFits(v, req[i]), QuoteFits(v, req[i])
  PROVE  LaunchInv'
<1>1. CASE req[i].buy > 0 /\ req[i].quote # Sol
  BY <1>1, GotoInv DEF AfterMint
<1>2. CASE ~(req[i].buy > 0 /\ req[i].quote # Sol)
  <2>1. AllChecked(v, req[i])
    BY <1>2 DEF AllChecked, Funded
  <2>. QED
    BY <1>2, <2>1, UploadOrSendInv DEF AfterMint
<1>. QED
  BY <1>1, <1>2

LEMMA AfterChecksInv ==
  ASSUME LaunchInv, NEW i \in Invocations, pc[i] \in Early \ {"upload"}, NEW v \in View,
         At(i, pc[i]), AfterChecks(i, v), view' = [view EXCEPT ![i] = v],
         MayhemFits(req[i]), HolderFits(v, req[i]), QuoteFits(v, req[i])
  PROVE  LaunchInv'
<1>1. CASE req[i].quote \in KnownQuotes
  BY <1>1, AfterMintInv DEF AfterChecks
<1>2. CASE req[i].quote \notin KnownQuotes
  <2>1. Goto(i, "mint") /\ req[i].quote # Sol
    BY <1>2 DEF AfterChecks, KnownQuotes
  <2>. QED
    BY <2>1, GotoInv
<1>. QED
  BY <1>1, <1>2

LEMMA CommandInv ==
  ASSUME LaunchInv, NEW i \in Invocations, Command(i) PROVE LaunchInv'
<1>1. InvocationInv(i) /\ view[i] \in View /\ program.fin \in Programs /\ held.fin \in Nat
  BY DEF LaunchInv, LaunchTypeOK
<1>2. UNCHANGED view => view' = [view EXCEPT ![i] = view[i]]
  BY DEF LaunchInv, LaunchTypeOK
<1>3. ASSUME NEW where, At(i, where) PROVE pc[i] = where /\ At(i, pc[i])
  BY <1>3 DEF At
<1>4. pc[i] \in Early => call[i] = "idle" /\ (pc[i] # "upload" => ~uploaded[i])
  BY <1>1 DEF InvocationInv, Stage
<1>5. CASE Refuse(i)
  BY <1>1, <1>2, <1>3, <1>5, FinishInv DEF Refuse, Early, Results
<1>6. CASE Start(i)
  <2>1. pc[i] = "idle" /\ At(i, pc[i]) /\ UNCHANGED view
    BY <1>3, <1>6 DEF Start
  <2>2. CASE MayhemFits(req[i])
    <3>1. Goto(i, "global")
      BY <1>6, <2>2 DEF Start, MayhemFits
    <3>. QED
      BY <1>1, <1>2, <2>1, <2>2, <3>1, GotoInv DEF Early
  <2>3. CASE ~MayhemFits(req[i])
    <3>1. Finish(i, "refused")
      BY <1>6, <2>3 DEF Start, MayhemFits
    <3>. QED
      BY <1>1, <1>2, <2>1, <3>1, FinishInv DEF Early, Results
  <2>. QED
    BY <2>2, <2>3
<1>7. CASE ReadGlobal(i)
  <2>. DEFINE v == [view[i] EXCEPT !.global = program.fin]
  <2>1. v \in View
    BY <1>1 DEF View
  <2>2. pc[i] = "global" /\ At(i, pc[i]) /\ view' = [view EXCEPT ![i] = v]
    BY <1>3, <1>7 DEF ReadGlobal
  <2>3. MayhemFits(req[i]) /\ call[i] = "idle" /\ ~uploaded[i]
    BY <1>1, <1>4, <2>2 DEF InvocationInv, Checked, Early
  <2>4. \/ Finish(i, "refused")
        \/ HolderFits(v, req[i]) /\ Goto(i, "control")
        \/ HolderFits(v, req[i]) /\ ~(req[i].quote # Sol \/ req[i].fee > 0) /\ AfterChecks(i, v)
    BY <1>7 DEF ReadGlobal, HolderFits
  <2>5. ~(req[i].quote # Sol \/ req[i].fee > 0) => QuoteFits(v, req[i])
    BY DEF QuoteFits, FeeRefused, Admitted
  <2>. HIDE DEF v
  <2>6. CASE Finish(i, "refused")
    BY <2>1, <2>2, <2>3, <2>6, FinishInv DEF Early, Results
  <2>7. CASE HolderFits(v, req[i]) /\ Goto(i, "control")
    BY <2>1, <2>2, <2>3, <2>7, GotoInv DEF Early
  <2>8. CASE HolderFits(v, req[i]) /\ QuoteFits(v, req[i]) /\ AfterChecks(i, v)
    BY <2>1, <2>2, <2>3, <2>8, AfterChecksInv DEF Early
  <2>. QED
    BY <2>4, <2>5, <2>6, <2>7, <2>8
<1>8. CASE ReadControl(i)
  <2>. DEFINE v == [view[i] EXCEPT !.control = program.fin]
  <2>1. v \in View /\ v.global = view[i].global
    BY <1>1 DEF View
  <2>2. pc[i] = "control" /\ At(i, pc[i]) /\ view' = [view EXCEPT ![i] = v]
    BY <1>3, <1>8 DEF ReadControl
  <2>3. /\ MayhemFits(req[i]) /\ HolderFits(v, req[i]) /\ call[i] = "idle" /\ ~uploaded[i]
    BY <1>1, <1>4, <2>1, <2>2 DEF InvocationInv, Checked, Early, HolderFits
  <2>4. Finish(i, "refused") \/ (QuoteFits(v, req[i]) /\ AfterChecks(i, v))
    BY <1>8 DEF ReadControl, QuoteFits
  <2>. HIDE DEF v
  <2>5. CASE Finish(i, "refused")
    BY <2>1, <2>2, <2>3, <2>5, FinishInv DEF Early, Results
  <2>6. CASE QuoteFits(v, req[i]) /\ AfterChecks(i, v)
    BY <2>1, <2>2, <2>3, <2>6, AfterChecksInv DEF Early
  <2>. QED
    BY <2>4, <2>5, <2>6
<1>9. CASE ReadMint(i)
  <2>1. pc[i] = "mint" /\ At(i, pc[i]) /\ AfterMint(i, view[i]) /\ UNCHANGED view
    BY <1>3, <1>9 DEF ReadMint
  <2>2. MayhemFits(req[i]) /\ HolderFits(view[i], req[i]) /\ QuoteFits(view[i], req[i])
    BY <1>1, <2>1 DEF InvocationInv, Checked, Early
  <2>. QED
    BY <1>1, <1>2, <2>1, <2>2, AfterMintInv DEF Early
<1>10. CASE ReadHeld(i)
  <2>1. PICK seen \in {held.fin, 0} :
          /\ view' = [view EXCEPT ![i].held = seen]
          /\ IF seen < req[i].buy THEN Finish(i, "refused") ELSE UploadOrSend(i, view[i])
    BY <1>10 DEF ReadHeld
  <2>. DEFINE w == [view[i] EXCEPT !.held = seen]
  <2>2. /\ w \in View /\ w.global = view[i].global /\ w.control = view[i].control
        /\ w.held = seen /\ seen \in Nat
    BY <1>1 DEF View
  <2>3. pc[i] = "held" /\ At(i, pc[i])
    BY <1>3, <1>10 DEF ReadHeld
  <2>4. view' = [view EXCEPT ![i] = w]
    BY <2>1
  <2>5. /\ MayhemFits(req[i]) /\ HolderFits(w, req[i]) /\ QuoteFits(w, req[i])
        /\ call[i] = "idle" /\ ~uploaded[i]
    BY <1>1, <1>4, <2>2, <2>3
    DEF InvocationInv, Checked, Early, HolderFits, QuoteFits, FeeRefused, Admitted
  <2>6. req[i].buy \in Nat
    BY LaunchAssumption DEF LaunchInv, LaunchTypeOK, Request
  <2>. HIDE DEF w
  <2>7. CASE seen < req[i].buy
    BY <2>1, <2>2, <2>3, <2>4, <2>5, <2>7, FinishInv DEF Early, Results
  <2>8. CASE ~(seen < req[i].buy)
    <3>1. UploadOrSend(i, view[i]) /\ AllChecked(w, req[i])
      BY <2>1, <2>2, <2>5, <2>6, <2>8 DEF AllChecked, Funded
    <3>. QED
      BY <1>1, <2>2, <2>3, <2>4, <3>1, UploadOrSendInv DEF Early
  <2>. QED
    BY <2>7, <2>8
<1>11. CASE Upload(i)
  <2>1. pc[i] = "upload" /\ At(i, pc[i]) /\ UNCHANGED view
    BY <1>3, <1>11 DEF Upload
  <2>2. CASE Send(i, view[i]) /\ UNCHANGED uploaded
    <3>1. AllChecked(view[i], req[i])
      BY <1>1, <2>1 DEF InvocationInv, Checked
    <3>. QED
      BY <1>1, <1>2, <2>1, <2>2, <3>1, SendInv DEF Early
  <2>3. CASE Finish(i, "ipfs_failed")
    BY <1>1, <1>2, <2>1, <2>3, FinishInv DEF Early, Results
  <2>. QED
    BY <1>11, <2>2, <2>3 DEF Upload
<1>12. CASE ReadRaises(i)
  BY <1>1, <1>2, <1>12, FinishInv DEF ReadRaises, Early, Results
<1>13. CASE Conclude(i)
  BY <1>1, <1>2, <1>3, <1>13, FinishInv DEF Conclude, Results
<1>. QED
  BY <1>5, <1>6, <1>7, <1>8, <1>9, <1>10, <1>11, <1>12, <1>13 DEF Command
-----------------------------------------------------------------------------
(* The send path, interrupts and the cluster.                              *)

LEMMA SendingInv ==
  ASSUME LaunchInv, NEW i \in Invocations, Sending(i) PROVE LaunchInv'
<1>1. pc[i] = "submit" /\ ClientStep(i)
      /\ UNCHANGED <<program, held, changes, req, pc, view, res, uploaded, sent, met>>
  BY DEF Sending, launchVars
<1>2. /\ SubmissionInv' /\ call[i] # "idle" /\ call'[i] # "idle"
      /\ tx'[i].code = tx[i].code /\ tx'[i].got = tx[i].got
      /\ tx'[i].fate = tx[i].fate \/ (tx[i].fate = "none" /\ tx'[i].fate = "posted")
      /\ \A j \in Invocations \ {i} : call'[j] = call[j] /\ tx'[j] = tx[j]
  BY <1>1, ClientMoves DEF LaunchInv
<1>3. LaunchTypeOK'
  BY <1>1, <1>2 DEF LaunchInv, LaunchTypeOK, SubmissionInv
<1>4. InvocationInv(i)
  BY DEF LaunchInv
<1>5. Stage(i)'
  BY <1>1, <1>2, <1>4 DEF InvocationInv, Stage, Early
<1>6. Checked(i)' /\ SentRight(i)' /\ OnChain(i)'
  BY <1>1, <1>2, <1>4 DEF InvocationInv, Checked, SentRight, OnChain, Landed
<1>. QED
  BY <1>1, <1>2, <1>3, <1>5, <1>6, OwnStep DEF InvocationInv

LEMMA KillInv ==
  ASSUME LaunchInv, NEW i \in Invocations, Kill(i) PROVE LaunchInv'
<1>1. /\ pc[i] \notin {"idle", "done"}
      /\ pc' = [pc EXCEPT ![i] = "done"] /\ res' = [res EXCEPT ![i] = "killed"]
      /\ UNCHANGED <<program, held, changes, req, view, uploaded, sent, met>>
      /\ IF pc[i] = "submit" /\ call[i] # "done" THEN Interrupt(i) ELSE UNCHANGED submissionVars
  BY DEF Kill
<1>2. InvocationInv(i)
  BY DEF LaunchInv
<1>3. /\ SubmissionInv' /\ UNCHANGED tx /\ call'[i] \in {"idle", "done"}
      /\ call'[i] = "idle" <=> call[i] = "idle"
      /\ \A j \in Invocations \ {i} : call'[j] = call[j]
  <2>1. CASE pc[i] = "submit" /\ call[i] # "done"
    <3>1. Interrupt(i)
      BY <1>1, <2>1
    <3>. QED
      BY <3>1, ClientMoves DEF LaunchInv
  <2>2. CASE ~(pc[i] = "submit" /\ call[i] # "done")
    <3>1. UNCHANGED submissionVars /\ SubmissionInv'
      BY <1>1, <2>2, StutterInv DEF LaunchInv
    <3>2. call[i] \in {"idle", "done"}
      BY <1>1, <1>2, <2>2 DEF InvocationInv, Stage, Early, LaunchInv, LaunchTypeOK
    <3>. QED
      BY <3>1, <3>2 DEF submissionVars
  <2>. QED
    BY <2>1, <2>2
<1>4. LaunchTypeOK'
  BY <1>1, <1>3 DEF LaunchInv, LaunchTypeOK, SubmissionInv
<1>5. pc'[i] = "done" /\ res'[i] = "killed"
  BY <1>1 DEF LaunchInv, LaunchTypeOK
<1>6. Stage(i)' /\ Checked(i)' /\ SentRight(i)' /\ OnChain(i)'
  BY <1>1, <1>2, <1>3, <1>5
  DEF InvocationInv, Stage, Checked, SentRight, OnChain, Early, Landed
<1>7. \A j \in Invocations \ {i} : pc'[j] = pc[j] /\ res'[j] = res[j]
  BY <1>1 DEF LaunchInv, LaunchTypeOK
<1>. QED
  BY <1>1, <1>3, <1>4, <1>6, <1>7, OwnStep DEF InvocationInv

(* What lands met the program as it is.                                    *)
LEMMA ExecuteInv ==
  ASSUME LaunchInv, NEW i \in Invocations, Execute(i) PROVE LaunchInv'
<1>. DEFINE p == program.now
            q == req[i]
<1>0. PICK rate \in AppliedRates(p, q) :
        LET pays == Pays(p, q, rate) IN
        /\ met' = [met EXCEPT ![i] = [program |-> p, held |-> held.now, rate |-> rate]]
        /\ IF Rejects(p, held.now, q) THEN Land(i, "failed", Rejected, 0) /\ UNCHANGED held
           ELSE IF q.buy > 0 /\ pays < sent[i].floor
             THEN Land(i, "failed", TooFewTokens, 0) /\ UNCHANGED held
           ELSE /\ Land(i, "ok", 0, pays)
                /\ held' = [held EXCEPT !.now = IF q.quote = Sol THEN @ ELSE @ - q.buy]
  BY DEF Execute
<1>. DEFINE m == [program |-> p, held |-> held.now, rate |-> rate]
            refused == Rejects(p, held.now, q)
            g == Pays(p, q, rate)
<1>1. /\ InvocationInv(i) /\ p \in Programs /\ held.now \in Nat /\ q \in Asks
      /\ q.buy \in Nat /\ q.fee \in Nat \cup {NoFee} /\ p.ceiling \in Nat /\ p.creator \in Nat
  BY LaunchAssumption DEF LaunchInv, LaunchTypeOK, Request
<1>. DEFINE bounded == rate \in {0, p.creator} \/ rate <= p.ceiling
<1>a. rate \in Nat
  BY <1>1 DEF AppliedRates, NoFee
<1>2. ~refused => g \in Nat
  <2>1. ~refused /\ q.fee > 0 => q.fee <= p.ceiling
    BY <1>1 DEF Rejects, NoFee
  <2>2. ~refused => bounded
    BY <1>1, <2>1, RatesApplied
  <2>. QED
    BY <1>1, <1>a, <2>2, PaysAsReckoned
<1>3. tx[i].fate = "flying" /\ call[i] # "idle"
  BY DEF Execute, Land, LaunchInv, SubmissionInv, AwaitsKnow
<1>. DEFINE short == q.buy > 0 /\ g < sent[i].floor
<1>4. PICK f \in Landed, c \in {0, Rejected, TooFewTokens}, got \in Nat :
        /\ Land(i, f, c, got)
        /\ f = "ok" <=> c = 0
        /\ f = "ok" => ~refused /\ ~short /\ got = g
        /\ c = Rejected => refused
        /\ c = TooFewTokens => ~refused /\ short
        /\ UNCHANGED held \/ (~refused /\ q.quote # Sol
                              /\ held' = [held EXCEPT !.now = held.now - q.buy])
  <2>1. CASE refused
    BY <1>0, <2>1 DEF Landed, Rejected, TooFewTokens
  <2>2. CASE ~refused /\ short
    BY <1>0, <2>2 DEF Landed, Rejected, TooFewTokens
  <2>3. CASE ~refused /\ ~short
    <3>1. Land(i, "ok", 0, g) /\ held' = [held EXCEPT !.now = IF q.quote = Sol THEN @ ELSE @ - q.buy]
      BY <1>0, <2>3
    <3>2. UNCHANGED held \/ (q.quote # Sol /\ held' = [held EXCEPT !.now = held.now - q.buy])
      <4>1. held = [held EXCEPT !.now = held.now]
        BY DEF LaunchInv, LaunchTypeOK
      <4>. QED
        BY <3>1, <4>1
    <3>. QED
      BY <1>2, <2>3, <3>1, <3>2 DEF Landed, Rejected, TooFewTokens
  <2>. QED
    BY <2>1, <2>2, <2>3
<1>5. /\ met' = [met EXCEPT ![i] = m]
      /\ UNCHANGED <<program, changes, req, pc, view, res, uploaded, sent, call>>
  BY <1>0, <1>4 DEF Execute, Land
<1>6. m \in Met
  BY <1>1, <1>a DEF Met
<1>7. SubmissionInv'
  <2>1. c \in Codes \cup {0}
    BY LaunchAssumption
  <2>. QED
    BY <1>4, <2>1, LandInv DEF LaunchInv
<1>8. held' \in [now : Nat, fin : Nat]
  <2>1. CASE UNCHANGED held
    BY <2>1 DEF LaunchInv, LaunchTypeOK
  <2>2. CASE ~refused /\ q.quote # Sol /\ held' = [held EXCEPT !.now = held.now - q.buy]
    <3>1. held.now - q.buy \in Nat
      BY <1>1, <2>2 DEF Rejects
    <3>. QED
      BY <2>2, <3>1 DEF LaunchInv, LaunchTypeOK
  <2>. QED
    BY <1>4, <2>1, <2>2
<1>9. LaunchTypeOK'
  BY <1>5, <1>6, <1>7, <1>8 DEF LaunchInv, LaunchTypeOK, SubmissionInv
<1>10. tx'[i] = [fate |-> f, code |-> c, got |-> got] /\ met'[i] = m
  BY <1>4, <1>5 DEF Land, LaunchInv, LaunchTypeOK, TypeOK
<1>11. Stage(i)' /\ Checked(i)' /\ SentRight(i)'
  BY <1>1, <1>5 DEF InvocationInv, Stage, Checked, SentRight
<1>12. OnChain(i)'
  <2>1. sent[i].floor \in Nat
    BY DEF LaunchInv, LaunchTypeOK, NoBuy
  <2>2. m.program = p /\ m.held = held.now /\ m.rate = rate /\ rate \in AppliedRates(p, q)
    OBVIOUS
  <2>. HIDE DEF m, p
  <2>. QED
    BY <1>1, <1>2, <1>4, <1>5, <1>10, <2>1, <2>2 DEF OnChain, Landed
<1>13. \A j \in Invocations \ {i} : met'[j] = met[j] /\ tx'[j] = tx[j]
  BY <1>4, <1>5 DEF Land, LaunchInv, LaunchTypeOK, TypeOK
<1>. QED
  BY <1>5, <1>7, <1>9, <1>11, <1>12, <1>13, OwnStep DEF InvocationInv

(* Steps that move no command and settle no launch.                        *)
LEMMA OthersInv ==
  ASSUME LaunchInv, UNCHANGED <<req, pc, view, res, uploaded, sent, met, call>>,
         program' \in [now : Programs, fin : Programs], held' \in [now : Nat, fin : Nat],
         changes' \in 0 .. MaxChanges, SubmissionInv',
         \A i \in Invocations :
           \/ tx'[i] = tx[i]
           \/ /\ tx'[i].code = tx[i].code
              /\ tx[i].fate \notin Landed /\ tx'[i].fate \notin Landed
  PROVE  LaunchInv'
<1>1. LaunchTypeOK'
  BY DEF LaunchInv, LaunchTypeOK, SubmissionInv
<1>2. ASSUME NEW i \in Invocations PROVE InvocationInv(i)'
  <2>1. InvocationInv(i)
    BY DEF LaunchInv
  <2>. QED
    BY <2>1 DEF InvocationInv, Stage, Checked, SentRight, OnChain, Landed, Rejected, TooFewTokens
<1>. QED
  BY <1>1, <1>2 DEF LaunchInv

LEMMA LaunchStepInv == LaunchInv /\ [LaunchNext]_vars => LaunchInv'
<1>. SUFFICES ASSUME LaunchInv, [LaunchNext]_vars PROVE LaunchInv'
  OBVIOUS
<1>. USE DEF LaunchInv, LaunchTypeOK
<1>1. CASE UNCHANGED vars
  <2>1. SubmissionInv' /\ UNCHANGED <<launchVars, call, tx>>
    BY <1>1, StutterInv DEF vars, submissionVars
  <2>. QED
    BY <2>1, OthersInv DEF launchVars
<1>2. ASSUME NEW i \in Invocations, (Arrive(i) \/ Expire(i)) /\ UNCHANGED launchVars
      PROVE  LaunchInv'
  <2>1. SubmissionInv' /\ UNCHANGED call
    BY <1>2, ArriveInv, ExpireInv DEF Arrive, Expire
  <2>2. \A j \in Invocations \ {i} : tx'[j] = tx[j]
    BY <1>2 DEF Arrive, Expire, TypeOK
  <2>3. /\ tx'[i].code = tx[i].code
        /\ tx[i].fate \notin Landed /\ tx'[i].fate \notin Landed
    BY <1>2 DEF Arrive, Expire, TypeOK, Tx, Landed
  <2>. QED
    BY <1>2, <2>1, <2>2, <2>3, OthersInv DEF launchVars
<1>3. CASE Others \/ Finalize
  <2>1. SubmissionInv' /\ UNCHANGED <<req, pc, view, res, uploaded, sent, met, call, tx>>
    BY <1>3, StutterInv DEF Others, Finalize, submissionVars
  <2>2. changes' \in 0 .. MaxChanges
    BY <1>3, LaunchAssumption DEF Others, Finalize
  <2>3. program' \in [now : Programs, fin : Programs] /\ held' \in [now : Nat, fin : Nat]
    BY <1>3 DEF Others, Finalize
  <2>. QED
    BY <2>1, <2>2, <2>3, OthersInv
<1>. QED
  BY <1>1, <1>2, <1>3, CommandInv, SendingInv, KillInv, ExecuteInv DEF LaunchNext

LEMMA AlwaysInv == LaunchSpec => []LaunchInv
  BY LaunchInitInv, LaunchStepInv, PTL DEF LaunchSpec

(* Nothing is uploaded or sent that the program, as the checks saw it,     *)
(* would reject or ignore; what it does reject on chain has changed since, *)
(* for every program, request and number of changes by the admin.          *)
THEOREM LaunchRefusesEarly == LaunchSpec => []RefusesBeforeUploading
<1>1. LaunchInv => RefusesBeforeUploading
  BY LaunchInvImplies
<1>. QED
  BY <1>1, AlwaysInv, PTL

(* The opening buy receives exactly what was printed, unless the settings  *)
(* moved; then it keeps the slippage or fails as a whole: for all reserves *)
(* and fees.                                                               *)
THEOREM LaunchBuysAsEstimated == LaunchSpec => []OpeningBuyAsEstimated
<1>1. LaunchInv => OpeningBuyAsEstimated
  BY LaunchInvImplies
<1>. QED
  BY <1>1, AlwaysInv, PTL
-----------------------------------------------------------------------------
(* The refinement: the launch command implements the contract of TxReport. *)

(* A step that neither moves a transaction nor ends a command is           *)
(* invisible: what send_tx returned is told when the command concludes.    *)
LEMMA QuietLaunch ==
  ASSUME UNCHANGED res,
         \A j \in Invocations : res[j] = "sent" => ret'[j] = ret[j],
         \A j \in Invocations : Broadcasted(tx'[j].fate) = Broadcasted(tx[j].fate)
  PROVE  UNCHANGED LaunchReport!reportVars
<1>1. ASSUME NEW j \in Invocations
      PROVE  CommandTold(res'[j], ret'[j]) = CommandTold(res[j], ret[j])
  <2>1. CASE res[j] = "sent"
    BY <2>1
  <2>2. CASE res[j] # "sent"
    BY <2>2 DEF CommandTold
  <2>. QED
    BY <2>1, <2>2
<1>. QED
  BY <1>1 DEF LaunchReport!reportVars

(* Ending a command with a result its transaction supports is a Tell.      *)
LEMMA FinishTells ==
  ASSUME LaunchInv, NEW i \in Invocations, pc[i] # "done", UNCHANGED tx,
         NEW r \in Results \ {"none"}, res' = [res EXCEPT ![i] = r],
         \A j \in Invocations \ {i} : ret'[j] = ret[j],
         LaunchReport!Supports(CommandTold(r, ret'[i]), Broadcasted(tx[i].fate)),
         r = "sent" => ret'[i] \in Rets \ {"none"}
  PROVE  LaunchReport!ReportNext
<1>1. res[i] = "none" /\ i \in DOMAIN res /\ DOMAIN res = Invocations
  BY DEF LaunchInv, LaunchTypeOK, InvocationInv, Stage
<1>2. CommandTold(res[i], ret[i]) = "pending"
  BY <1>1 DEF CommandTold
<1>3. CommandTold(r, ret'[i]) \in LaunchReport!Reports \ {"pending"}
  BY DEF CommandTold, Told, Results, Rets, LaunchReport!Reports
<1>4. [j \in Invocations |-> CommandTold(res'[j], ret'[j])]
        = [[j \in Invocations |-> CommandTold(res[j], ret[j])]
             EXCEPT ![i] = CommandTold(r, ret'[i])]
  BY <1>1
<1>. QED
  BY <1>2, <1>3, <1>4 DEF LaunchReport!Tell, LaunchReport!ReportNext

(* The command tells once: before it sent, that nothing was, or what       *)
(* send_tx established.                                                    *)
LEMMA CommandRefines ==
  ASSUME LaunchInv, NEW i \in Invocations, Command(i)
  PROVE  LaunchReport!ReportNext \/ UNCHANGED LaunchReport!reportVars
<1>1. InvocationInv(i) /\ SubmissionInv
  BY DEF LaunchInv
<1>2. ASSUME UNCHANGED <<res, tx, ret>> PROVE UNCHANGED LaunchReport!reportVars
  BY <1>2, QuietLaunch
<1>3. ASSUME NEW p, Goto(i, p) PROVE UNCHANGED <<res, tx, ret>>
  BY <1>3 DEF Goto, submissionVars
<1>4. ASSUME NEW v, UploadOrSend(i, v) PROVE UNCHANGED <<res, tx, ret>>
  BY <1>4 DEF UploadOrSend, Send, SendTx, Await, submissionVars
<1>5. ASSUME NEW v, AfterChecks(i, v) \/ AfterMint(i, v) PROVE UNCHANGED <<res, tx, ret>>
  BY <1>3, <1>4, <1>5 DEF AfterChecks, AfterMint
<1>6. ASSUME NEW r \in {"refused", "raised", "ipfs_failed"}, Finish(i, r), pc[i] \in Early
      PROVE  LaunchReport!ReportNext
  <2>1. Broadcasted(tx[i].fate) = "none"
    BY <1>1, <1>6 DEF InvocationInv, Stage, SubmissionInv, AwaitsKnow, Broadcasted
  <2>2. CommandTold(r, ret'[i]) \in {"nothing_sent", "silent"}
    BY DEF CommandTold
  <2>3. LaunchReport!Supports(CommandTold(r, ret'[i]), Broadcasted(tx[i].fate))
    BY <2>1, <2>2 DEF LaunchReport!Supports
  <2>4. UNCHANGED <<tx, ret>> /\ res' = [res EXCEPT ![i] = r]
    BY <1>6 DEF Finish, submissionVars
  <2>5. r \in Results \ {"none"} /\ r # "sent" /\ pc[i] # "done"
    BY <1>6 DEF Results, Early
  <2>. QED
    BY <2>3, <2>4, <2>5, FinishTells
<1>7. CASE Conclude(i)
  <2>1. pc[i] = "submit" /\ call[i] = "done" /\ Finish(i, "sent")
    BY <1>7 DEF Conclude, At
  <2>2. ret[i] \in Rets \ {"none"}
    BY <1>1, <2>1 DEF SubmissionInv, TypeOK, ReturnsKnow
  <2>3. LaunchReport!Supports(Told(ret[i]), Broadcasted(tx[i].fate))
    BY <1>1, <2>2 DEF SubmissionInv, ReturnsKnow, Told, Rets, Broadcasted, Posted, Landed,
                      LaunchReport!Supports, LaunchReport!Landed
  <2>4. UNCHANGED <<tx, ret>> /\ res' = [res EXCEPT ![i] = "sent"]
    BY <2>1 DEF Finish, submissionVars
  <2>5. CommandTold("sent", ret'[i]) = Told(ret[i])
    BY <2>4 DEF CommandTold
  <2>. QED
    BY <2>1, <2>2, <2>3, <2>4, <2>5, FinishTells DEF Results
<1>8. CASE Refuse(i) \/ Start(i) \/ ReadRaises(i)
  BY <1>2, <1>3, <1>6, <1>8 DEF Refuse, Start, ReadRaises, At, Early
<1>9. CASE ReadGlobal(i) \/ ReadControl(i)
  BY <1>2, <1>3, <1>5, <1>6, <1>9 DEF ReadGlobal, ReadControl, At, Early
<1>10. CASE ReadMint(i) \/ ReadHeld(i)
  BY <1>2, <1>4, <1>5, <1>6, <1>10 DEF ReadMint, ReadHeld, At, Early
<1>11. CASE Upload(i)
  <2>1. Send(i, view[i]) => UNCHANGED <<res, tx, ret>>
    BY DEF Send, SendTx, Await
  <2>. QED
    BY <1>2, <1>6, <1>11, <2>1 DEF Upload, At, Early
<1>. QED
  BY <1>7, <1>8, <1>9, <1>10, <1>11 DEF Command
(* The send path posts unseen.                                             *)
LEMMA SendingRefines ==
  ASSUME LaunchInv, NEW i \in Invocations, Sending(i)
  PROVE  UNCHANGED LaunchReport!reportVars
<1>1. pc[i] = "submit" /\ ClientStep(i) /\ UNCHANGED res /\ res[i] = "none"
  BY DEF Sending, launchVars, LaunchInv, LaunchTypeOK, InvocationInv, Stage
<1>2. \A j \in Invocations \ {i} : ret'[j] = ret[j] /\ tx'[j] = tx[j]
  <2>1. \A j \in Invocations \ {i} : ret'[j] = ret[j]
    BY <1>1 DEF ClientStep, BuildAndPost, RpcRaises, SendAnswered, ConfirmAnswered,
         ConfirmRaises, ReadStatus, DeltaMissed, DeltaFound, DeltaRaises, Return, Await,
         LaunchInv, SubmissionInv, TypeOK
  <2>. QED
    BY <1>1, <2>1, ClientMoves DEF LaunchInv
<1>3. Broadcasted(tx'[i].fate) = Broadcasted(tx[i].fate)
  BY <1>1, ClientMoves DEF LaunchInv, Broadcasted
<1>4. \A j \in Invocations : Broadcasted(tx'[j].fate) = Broadcasted(tx[j].fate)
  BY <1>2, <1>3
<1>. QED
  BY <1>1, <1>2, <1>4, QuietLaunch

(* An interrupt ends the command without a word on its transaction.        *)
LEMMA KillRefines ==
  ASSUME LaunchInv, NEW i \in Invocations, Kill(i) PROVE LaunchReport!ReportNext
<1>1. pc[i] # "done" /\ res' = [res EXCEPT ![i] = "killed"] /\ UNCHANGED tx
      /\ \A j \in Invocations \ {i} : ret'[j] = ret[j]
  BY DEF Kill, Interrupt, Return, submissionVars, LaunchInv, SubmissionInv, TypeOK
<1>2. CommandTold("killed", ret'[i]) = "silent"
  BY DEF CommandTold
<1>3. LaunchReport!Supports(CommandTold("killed", ret'[i]), Broadcasted(tx[i].fate))
  BY <1>2 DEF LaunchReport!Supports
<1>. QED
  BY <1>1, <1>3, FinishTells DEF Results

(* A request that reaches a node is the Broadcast, landing and lapsing the *)
(* Settle.                                                                 *)
LEMMA ClusterRefines ==
  ASSUME LaunchInv, NEW i \in Invocations,
         Execute(i) \/ ((Arrive(i) \/ Expire(i)) /\ UNCHANGED launchVars)
  PROVE  LaunchReport!ReportNext
<1>1. /\ UNCHANGED <<res, ret>> /\ InvocationInv(i)
      /\ [j \in Invocations |-> CommandTold(res'[j], ret'[j])]
           = [j \in Invocations |-> CommandTold(res[j], ret[j])]
  <2>1. UNCHANGED <<res, ret>>
    BY DEF Execute, Land, Arrive, Expire, launchVars
  <2>. QED
    BY <2>1 DEF LaunchInv
<1>2. CASE Arrive(i)
  <2>1. tx[i].fate = "posted" /\ Broadcasted(tx[i].fate) = "none"
    BY <1>2 DEF Arrive, Broadcasted
  <2>2. tx'[i].fate = "flying" /\ \A j \in Invocations \ {i} : tx'[j] = tx[j]
    BY <1>2, SetFate DEF Arrive, LaunchInv, SubmissionInv, Fates
  <2>3. CommandTold(res[i], ret[i]) \in {"pending", "silent"}
    <3>1. call[i] # "idle" /\ Told(ret[i]) \in {"pending", "silent"}
      BY <2>1 DEF LaunchInv, SubmissionInv, TypeOK, AwaitsKnow, ReturnsKnow, Rets, Landed,
                  Posted, Told
    <3>2. res[i] \in {"none", "raised", "sent", "killed"}
      BY <1>1, <3>1 DEF InvocationInv, Stage, LaunchInv, LaunchTypeOK
    <3>. QED
      BY <3>1, <3>2 DEF CommandTold
  <2>4. [j \in Invocations |-> Broadcasted(tx'[j].fate)]
          = [[j \in Invocations |-> Broadcasted(tx[j].fate)] EXCEPT ![i] = "flying"]
    BY <2>2 DEF Broadcasted
  <2>. QED
    BY <1>1, <2>1, <2>3, <2>4 DEF LaunchReport!Broadcast, LaunchReport!ReportNext
<1>3. CASE ~Arrive(i)
  <2>1. PICK f \in Landed \cup {"expired"} :
          /\ tx[i].fate = "flying" /\ tx'[i].fate = f
          /\ \A j \in Invocations \ {i} : tx'[j] = tx[j]
    <3>1. ASSUME NEW f \in Landed, NEW c, NEW g, Land(i, f, c, g)
          PROVE  /\ tx[i].fate = "flying" /\ tx'[i].fate = f
                 /\ \A j \in Invocations \ {i} : tx'[j] = tx[j]
      BY <3>1 DEF Land, LaunchInv, SubmissionInv, TypeOK
    <3>2. CASE Execute(i)
      BY <3>1, <3>2 DEF Execute, Landed
    <3>3. CASE Expire(i)
      BY <3>3, SetFate DEF Expire, LaunchInv, SubmissionInv, Fates
    <3>. QED
      BY <1>3, <3>2, <3>3
  <2>2. Broadcasted(tx[i].fate) = "flying" /\ Broadcasted(f) = f
    BY <2>1 DEF Broadcasted, Landed
  <2>3. [j \in Invocations |-> Broadcasted(tx'[j].fate)]
          = [[j \in Invocations |-> Broadcasted(tx[j].fate)] EXCEPT ![i] = f]
    BY <2>1, <2>2
  <2>. QED
    BY <1>1, <2>2, <2>3
    DEF LaunchReport!Settle, LaunchReport!ReportNext, Landed, LaunchReport!Landed
<1>. QED
  BY <1>2, <1>3

LEMMA LaunchStepRefines ==
  LaunchInv /\ [LaunchNext]_vars => [LaunchReport!ReportNext]_(LaunchReport!reportVars)
<1>. SUFFICES ASSUME LaunchInv, [LaunchNext]_vars
              PROVE  LaunchReport!ReportNext \/ UNCHANGED LaunchReport!reportVars
  OBVIOUS
<1>1. CASE UNCHANGED vars \/ Others \/ Finalize
  <2>1. UNCHANGED <<tx, res, ret>>
    BY <1>1 DEF vars, launchVars, submissionVars, Others, Finalize
  <2>. QED
    BY <2>1, QuietLaunch
<1>. QED
  BY <1>1, CommandRefines, SendingRefines, KillRefines, ClusterRefines DEF LaunchNext

(* What launch reports of its transaction is true when it is reported and  *)
(* stays true, whatever it is asked, refused or interrupted in.            *)
THEOREM LaunchReportsTruly == LaunchSpec => LaunchImplementsTxReport
<1>1. LaunchInit => LaunchReport!ReportInit
  BY DEF LaunchInit, SubmissionInit, NoTx, LaunchReport!ReportInit, Broadcasted, CommandTold
<1>. QED
  BY <1>1, LaunchStepRefines, AlwaysInv, PTL
  DEF LaunchSpec, LaunchImplementsTxReport, LaunchReport!ReportSpec
=============================================================================
