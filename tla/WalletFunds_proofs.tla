------------------------- MODULE WalletFunds_proofs -------------------------
(***************************************************************************)
(* Proofs about the wallet commands, for any accounts, balances, batch     *)
(* size, fees, rents and recipients, and any number of moves by others.    *)
(*                                                                         *)
(* The reads of a command lag: listings and balances are those of the      *)
(* finalized chain, which may or may not know of the close a drain has     *)
(* just sent.  On a wallet nobody else touches there are only two chains   *)
(* to be read, before the close and after it, and the invariant            *)
(* (Undisturbed) says, for either order in which the close and the payment *)
(* may land, what is left of the SOL by then.                              *)
(***************************************************************************)
EXTENDS WalletFunds, Submission_proofs, FiniteSetTheorems

PayCommands == {"transfer", "sweep", "token", "drain"}
Sweeps == {"sweep", "close", "drain"}
Unsent == {"idle", "warn1", "warn2", "list1", "list2", "mint", "tokens"}

CloseLanded == tx["close"].fate = "ok"
PayLanded == tx["pay"].fate = "ok"

-----------------------------------------------------------------------------
(* The invariant.                                                          *)

(* How far the command is, and its two calls of send_tx.                   *)
Stage ==
  /\ pc \in Unsent => call["close"] = "idle"
  /\ pc \in Unsent \cup {"close", "balance"} => call["pay"] = "idle"
  /\ pc \in {"balance", "pay", "done"} => call["close"] \in {"idle", "done"}
  /\ pc = "done" => call["pay"] \in {"idle", "done"}
  /\ \A i \in Sends : pc = i => call[i] # "idle"
  /\ pc = "done" <=> res # "none"

(* Which command takes which way.                                          *)
Way ==
  /\ pc \in {"warn1", "warn2"} => req.cmd = "drain"
  /\ pc \in {"list1", "list2", "close"} \/ call["close"] # "idle" => req.cmd \in {"close", "drain"}
  /\ pc = "balance" => req.cmd \in {"sweep", "drain"}
  /\ pc \in {"mint", "tokens"} => req.cmd = "token"
  /\ pc = "pay" \/ call["pay"] # "idle" => req.cmd \in PayCommands
  /\ pc \notin {"idle", "done"} \/ call["pay"] # "idle" => ~DrainsToItself

(* The accounts closed are those of the batch, once it has landed.         *)
ClosesTheBatch ==
  /\ \A a \in Accounts : now.acct[a] = Closed <=> CloseLanded /\ a \in view.batch
  /\ view.closed \in {0, Cardinality(view.batch)}
  /\ call["close"] = "idle" => view.closed = 0

(* Only a token transfer takes tokens away, so that each of drain's        *)
(* listings names those of its program.                                    *)
KeepsTokens ==
  req.cmd = "drain" => \A a \in Accounts : TokensAtStart[a] > 0 => now.acct[a] > 0

WarnedSoFar ==
  req.cmd = "drain" /\ ~view.blind =>
    /\ pc = "warn2" =>
         \A a \in Accounts : TokensAtStart[a] > 0 /\ ProgramOf[a] = 1 => a \in view.warned
    /\ \/ pc \in {"list1", "list2", "close", "balance", "pay"}
       \/ res \in {"sent", "insufficient_balance"}
       => \A a \in Accounts : TokensAtStart[a] > 0 => a \in view.warned

(* What a close adds to the SOL.                                           *)
Gain == Rent * Cardinality(view.batch) - req.fee
SolAfterClose == SolAtStart + Gain

(* The chain of a wallet that nobody else touches.  What a sweep pays is   *)
(* what the wallet is left with at the fee, and so enough for any address, *)
(* unless a close came in between; then it is what was left at the close's *)
(* fee.                                                                    *)
Undisturbed ==
  others = 0 /\ Reckons =>
    /\ \A a \in Accounts : /\ now.acct[a] \in {TokensAtStart[a], Closed}
                           /\ fin.acct[a] \in {TokensAtStart[a], Closed}
    /\ \A a \in view.empty \cup view.batch : TokensAtStart[a] = 0
    /\ CloseLanded => KeepsRent(SolAtStart - req.fee)
    /\ CloseLanded /\ req.cmd = "drain" => Gain >= RentExempt
    /\ ~PayLanded =>
         /\ now.sol = IF CloseLanded THEN SolAfterClose ELSE SolAtStart
         /\ fin.sol = SolAtStart \/ (CloseLanded /\ fin.sol = SolAfterClose)
    /\ PayLanded /\ ~CloseLanded /\ req.cmd = "drain" => now.sol = 0
    /\ call["pay"] # "idle" =>
         /\ view.amount > 0
         /\ \/ view.amount = SolAtStart - req.fee
            \/ CloseLanded /\ view.amount = SolAfterClose - req.fee
    /\ \A i \in Sends : tx[i].fate # "failed"

(* A batch on its way is not empty.                                        *)
BatchSent == call["close"] # "idle" => view.batch # {}

WalletInv ==
  /\ SubmissionInv
  /\ WalletTypeOK
  /\ Stage
  /\ Way
  /\ ClosesTheBatch
  /\ KeepsTokens
  /\ WarnedSoFar
  /\ BatchSent
  /\ Undisturbed

(* What it gives.                                                          *)
LEMMA WalletInvImplies ==
  WalletInv => UndisturbedSucceeds /\ CountsWhatItCloses /\ WarnsOfTokens
<1>. SUFFICES ASSUME WalletInv
              PROVE  UndisturbedSucceeds /\ CountsWhatItCloses /\ WarnsOfTokens
  OBVIOUS
<1>1. UndisturbedSucceeds
  BY DEF WalletInv, Undisturbed, UndisturbedSucceeds
<1>. DEFINE gone == {a \in Accounts : now.acct[a] = Closed}
<1>2. CloseLanded => gone = view.batch
  BY DEF WalletInv, ClosesTheBatch, WalletTypeOK, View
<1>3. ~CloseLanded => Cardinality(gone) = 0
  <2>1. ~CloseLanded => gone = {}
    BY DEF WalletInv, ClosesTheBatch
  <2>. QED
    BY <2>1, FS_EmptySet
<1>4. view.closed > 0 => view.closed = Cardinality(view.batch)
  BY DEF WalletInv, ClosesTheBatch
<1>5. CountsWhatItCloses
  BY <1>2, <1>3, <1>4 DEF CountsWhatItCloses, CloseLanded, WalletInv
<1>6. WarnsOfTokens
  BY DEF WalletInv, WarnedSoFar, WarnsOfTokens
<1>. QED
  BY <1>1, <1>5, <1>6

LEMMA WalletInitInv == WalletInit => WalletInv
<1>. SUFFICES ASSUME WalletInit PROVE WalletInv
  OBVIOUS
<1>. USE WalletAssumption DEF WalletInit, ChainAtStart
<1>1. SubmissionInv
  BY InitInv
<1>2. WalletTypeOK
  <2>1. now.sol = SolAtStart /\ now.acct = TokensAtStart /\ now \in Chain /\ fin = now
    BY DEF Chain
  <2>. QED
    BY <1>1, <2>1 DEF WalletTypeOK, SubmissionInv, View, Results, Reads
<1>3. \A i \in Sends : call[i] = "idle" /\ tx[i].fate = "none"
  BY DEF SubmissionInit, NoTx
<1>4. Stage /\ Way /\ BatchSent
  BY <1>3 DEF Stage, Way, BatchSent, Unsent, Sends
<1>5. ClosesTheBatch
  BY <1>3 DEF ClosesTheBatch, CloseLanded, Closed, Sends
<1>6. KeepsTokens /\ WarnedSoFar
  BY DEF KeepsTokens, WarnedSoFar
<1>7. Undisturbed
  BY <1>3 DEF Undisturbed, CloseLanded, PayLanded, Sends
<1>. QED
  BY <1>1, <1>2, <1>4, <1>5, <1>6, <1>7 DEF WalletInv

-----------------------------------------------------------------------------
(* Steps of the command.                                                   *)

LEMMA FeeType == WalletInv => req \in Request /\ req.fee \in Nat \ {0}
  BY WalletAssumption DEF WalletInv, WalletTypeOK, Request

LEMMA SameAsked ==
  UNCHANGED req => (Reckons' <=> Reckons) /\ (DrainsToItself' <=> DrainsToItself)
  BY DEF Reckons, RentCoversFee, DrainsToItself

(* A batch of accounts can be counted, and where one account's rent covers *)
(* the fee its closing pays for itself.                                    *)
LEMMA BatchCounts ==
  ASSUME NEW B \in SUBSET Accounts, req.fee \in Nat
  PROVE  /\ IsFiniteSet(B) /\ Cardinality(B) \in Nat
         /\ B # {} => Cardinality(B) >= 1
         /\ B # {} /\ RentCoversFee => Rent * Cardinality(B) - req.fee >= RentExempt
<1>1. IsFiniteSet(B) /\ Cardinality(B) \in Nat
  BY WalletAssumption, FS_Subset, FS_CardinalityType
<1>2. B # {} => Cardinality(B) >= 1
  BY <1>1, FS_EmptySet
<1>3. ASSUME NEW k \in Nat, k >= 1 PROVE Rent * k >= Rent
  BY <1>3, WalletAssumption
<1>4. B # {} => Rent * Cardinality(B) >= Rent
  BY <1>1, <1>2, <1>3
<1>5. Rent * Cardinality(B) \in Nat
  BY <1>1, WalletAssumption
<1>6. RentCoversFee => Rent - req.fee >= RentExempt
  BY WalletAssumption DEF RentCoversFee
<1>7. ASSUME NEW r \in Nat, r >= Rent, RentCoversFee PROVE r - req.fee >= RentExempt
  BY <1>6, <1>7, WalletAssumption
<1>. QED
  BY <1>1, <1>2, <1>4, <1>5, <1>7

(* A step of the command moves no chain: a call not made yet has no        *)
(* transaction, an account listed as empty was so when it was finalized,   *)
(* and the amount of a sweep is what was finalized less the fee.           *)
LEMMA OwnStep ==
  ASSUME WalletInv, UNCHANGED <<now, fin, others, req, tx>>, SubmissionInv', WalletTypeOK',
         Stage', Way', WarnedSoFar', BatchSent',
         view'.batch = view.batch \/ call["close"] = "idle",
         view'.closed \in {0, Cardinality(view'.batch)},
         call'["close"] = "idle" => view'.closed = 0,
         \A a \in view'.empty \cup view'.batch :
           a \in view.empty \cup view.batch \/ (a \in Accounts /\ fin.acct[a] = 0),
         others = 0 /\ Reckons /\ call'["pay"] # "idle" =>
           \/ call["pay"] # "idle" /\ view'.amount = view.amount
           \/ /\ call["pay"] = "idle" /\ view'.amount = fin.sol - req.fee
              /\ view'.amount > 0
  PROVE  WalletInv'
<1>1. \A i \in Sends : call[i] = "idle" => tx[i].fate = "none"
  BY WalletAssumption DEF WalletInv, SubmissionInv, AwaitsKnow
<1>2. ClosesTheBatch'
  BY <1>1 DEF WalletInv, ClosesTheBatch, CloseLanded, Sends
<1>3. KeepsTokens'
  BY DEF WalletInv, KeepsTokens
<1>4. Undisturbed'
  <2>. SUFFICES ASSUME others = 0, Reckons
                PROVE  Undisturbed'
    BY SameAsked DEF Undisturbed
  <2>1. /\ CloseLanded' <=> CloseLanded
        /\ PayLanded' <=> PayLanded
        /\ CloseLanded => Gain' = Gain /\ SolAfterClose' = SolAfterClose
    BY <1>1 DEF CloseLanded, PayLanded, Gain, SolAfterClose, Sends
  <2>2. \A a \in Accounts : fin.acct[a] = 0 => TokensAtStart[a] = 0
    BY DEF WalletInv, Undisturbed, Closed
  <2>3. \A a \in view'.empty \cup view'.batch : TokensAtStart[a] = 0
    BY <2>2 DEF WalletInv, Undisturbed
  <2>4. call["pay"] = "idle" => ~PayLanded
    BY <1>1 DEF PayLanded, Sends
  <2>5. call'["pay"] # "idle" =>
         /\ view'.amount > 0
         /\ \/ view'.amount = SolAtStart - req.fee
            \/ CloseLanded /\ view'.amount = SolAfterClose - req.fee
    BY <2>4 DEF WalletInv, Undisturbed
  <2>. QED
    BY <2>1, <2>3, <2>5 DEF WalletInv, Undisturbed
<1>. QED
  BY <1>2, <1>3, <1>4 DEF WalletInv

(* A call of send_tx.                                                      *)
LEMMA SendMoves ==
  ASSUME WalletInv, NEW i \in Sends, Send(i)
  PROVE  /\ SubmissionInv' /\ UNCHANGED <<tx, ret, res>> /\ pc' = i
         /\ call[i] = "idle" /\ call'[i] = "blockhash"
         /\ \A j \in Sends \ {i} : call'[j] = call[j]
<1>1. PICK m \in Modes : SendTx(i, m) /\ pc' = i /\ UNCHANGED res
  BY DEF Send, Modes
<1>2. SubmissionInv'
  BY <1>1, WalletAssumption, SendTxInv DEF WalletInv
<1>. QED
  BY <1>1, <1>2, WalletAssumption DEF SendTx, Await, WalletInv, SubmissionInv, TypeOK

(* The payment is sent: of all commands a sweep and a drain base it on the *)
(* balance.                                                                *)
LEMMA PayInv ==
  ASSUME WalletInv, NEW amount \in Nat, Pay(amount), UNCHANGED <<now, fin, others, req>>,
         pc \in {"idle", "balance", "mint", "tokens"}, req.cmd \in PayCommands,
         req.cmd \in Sweeps => pc = "balance" /\ amount = fin.sol - req.fee /\ amount > 0,
         ~DrainsToItself
  PROVE  WalletInv'
<1>1. /\ SubmissionInv' /\ UNCHANGED <<tx, ret, res>> /\ pc' = "pay"
      /\ call["pay"] = "idle" /\ call'["pay"] = "blockhash" /\ call'["close"] = call["close"]
  BY SendMoves DEF Pay, Sends
<1>2. /\ view' \in View /\ view'.amount = amount /\ view'.warned = view.warned
      /\ view'.blind = view.blind /\ view'.empty = view.empty /\ view'.batch = view.batch
      /\ view'.closed = view.closed
  BY DEF Pay, WalletInv, WalletTypeOK, View
<1>3. WalletTypeOK'
  BY <1>1, <1>2 DEF WalletInv, WalletTypeOK, SubmissionInv, Sends
<1>4. Stage' /\ Way' /\ BatchSent'
  BY <1>1, <1>2, SameAsked DEF WalletInv, Stage, Way, BatchSent, Unsent, Sends, PayCommands
<1>5. WarnedSoFar'
  BY <1>1, <1>2 DEF WalletInv, WarnedSoFar, Sweeps, Stage
<1>6. Reckons => req.cmd \in Sweeps
  BY DEF Reckons, Sweeps
<1>. QED
  BY <1>1, <1>2, <1>3, <1>4, <1>5, <1>6, OwnStep DEF WalletInv, ClosesTheBatch

(* A step that sends nothing and goes on, or ends the command.             *)
LEMMA QuietInv ==
  ASSUME WalletInv, pc # "done", NEW p \in Reads \cup {"done"}, NEW r \in Results, pc' = p, res' = r,
         view' \in View, UNCHANGED <<now, fin, others, req, submissionVars>>,
         Stage', Way', WarnedSoFar',
         view'.batch = view.batch \/ call["close"] = "idle",
         view'.closed \in {0, Cardinality(view'.batch)},
         call["close"] = "idle" => view'.closed = 0,
         call["close"] # "idle" => view'.batch # {},
         \A a \in view'.empty \cup view'.batch :
           a \in view.empty \cup view.batch \/ (a \in Accounts /\ fin.acct[a] = 0),
         call["pay"] # "idle" => view'.amount = view.amount
  PROVE  WalletInv'
<1>1. SubmissionInv' /\ UNCHANGED <<tx, call>>
  BY StutterInv DEF submissionVars, WalletInv
<1>2. WalletTypeOK'
  BY <1>1 DEF WalletInv, WalletTypeOK, SubmissionInv
<1>3. BatchSent'
  BY <1>1 DEF BatchSent
<1>. QED
  BY <1>1, <1>2, <1>3, OwnStep

(* With what was read so far as it was.                                    *)
LEMMA SameView ==
  ASSUME WalletInv, pc # "done", NEW p \in Reads \cup {"done"}, NEW r \in Results, pc' = p, res' = r,
         UNCHANGED <<now, fin, others, req, view, submissionVars>>,
         Stage', Way', WarnedSoFar'
  PROVE  WalletInv'
<1>1. /\ view \in View
      /\ view.closed \in {0, Cardinality(view.batch)}
      /\ call["close"] = "idle" => view.closed = 0
      /\ call["close"] # "idle" => view.batch # {}
      /\ view.empty \cup view.batch \subseteq Accounts
  BY DEF WalletInv, WalletTypeOK, View, ClosesTheBatch, BatchSent
<1>. QED
  BY <1>1, QuietInv

LEMMA StartInv == WalletInv /\ (Refuse \/ Start) => WalletInv'
<1>. SUFFICES ASSUME WalletInv, Refuse \/ Start PROVE WalletInv'
  OBVIOUS
<1>1. pc = "idle" /\ res = "none" /\ req \in Request /\ UNCHANGED <<now, fin, others, req>>
  BY WalletAssumption DEF Refuse, Start, WalletInv, WalletTypeOK, Stage
<1>2. ASSUME NEW p \in Reads \cup {"done"}, NEW r \in Results, pc' = p, res' = r,
             UNCHANGED <<view, submissionVars>>,
             \/ p = "done" /\ r = "refused"
             \/ r = "none" /\ ~DrainsToItself /\
                              \/ p = "balance" /\ req.cmd = "sweep"
                              \/ p = "mint" /\ req.cmd = "token"
                              \/ p = "list1" /\ req.cmd = "close"
                              \/ p = "warn1" /\ req.cmd = "drain"
      PROVE  WalletInv'
  <2>1. UNCHANGED call
    BY <1>2 DEF submissionVars
  <2>2. Stage' /\ Way'
    BY <1>1, <1>2, <2>1, SameAsked DEF WalletInv, Stage, Way, Unsent, Sends
  <2>3. WarnedSoFar'
    BY <1>1, <1>2 DEF WarnedSoFar
  <2>. QED
    BY <1>1, <1>2, <2>2, <2>3, SameView
<1>3. CASE Refuse
  BY <1>1, <1>2, <1>3 DEF Refuse, Finish, Results
<1>4. CASE Start
  <2>1. CASE req.cmd = "transfer"
    <3>1. Pay(req.amount) /\ ~DrainsToItself /\ req.amount \in Nat
      BY <1>1, <1>4, <2>1 DEF Start, Request
    <3>. QED
      BY <1>1, <2>1, <3>1, PayInv DEF PayCommands, Sweeps
  <2>2. CASE req.cmd = "sweep"
    <3>1. Goto("balance") /\ ~DrainsToItself /\ UNCHANGED view
      BY <1>4, <2>2 DEF Start
    <3>. QED
      BY <1>1, <1>2, <2>2, <3>1 DEF Goto, Results, Reads
  <2>3. CASE req.cmd = "token"
    <3>1. Goto("mint") /\ ~DrainsToItself /\ UNCHANGED view
      BY <1>4, <2>3 DEF Start
    <3>. QED
      BY <1>1, <1>2, <2>3, <3>1 DEF Goto, Results, Reads
  <2>4. CASE req.cmd = "close"
    <3>1. Goto("list1") /\ ~DrainsToItself /\ UNCHANGED view
      BY <1>4, <2>4 DEF Start
    <3>. QED
      BY <1>1, <1>2, <2>4, <3>1 DEF Goto, Results, Reads
  <2>5. CASE req.cmd = "drain"
    <3>1. Goto("warn1") /\ ~DrainsToItself /\ UNCHANGED view
      BY <1>4, <2>5 DEF Start
    <3>. QED
      BY <1>1, <1>2, <2>5, <3>1 DEF Goto, Results, Reads
  <2>. QED
    BY <1>1, <2>1, <2>2, <2>3, <2>4, <2>5 DEF Request, Commands
<1>. QED
  BY <1>3, <1>4

(* drain's listings: at "confirmed", which is the chain of now, so that    *)
(* each names every account of its program that holds tokens.              *)
LEMMA WarnInv ==
  WalletInv /\ (Warn(1, "warn1", "warn2") \/ Warn(2, "warn2", "list1")) => WalletInv'
<1>1. ASSUME WalletInv, NEW program \in {1, 2}, NEW here, NEW next \in Reads,
             Warn(program, here, next),
             program = 1 => here = "warn1" /\ next = "warn2",
             program = 2 => here = "warn2" /\ next = "list1"
      PROVE  WalletInv'
  <2>1. PICK answered \in BOOLEAN :
          view' = [view EXCEPT !.warned = Warned(@, now, program, answered),
                               !.blind = @ \/ ~answered]
    BY <1>1 DEF Warn
  <2>2. /\ pc = here /\ pc' = next /\ res' = res /\ res = "none"
        /\ UNCHANGED <<now, fin, others, req, submissionVars>>
    BY <1>1 DEF Warn, Goto, WalletInv, Stage
  <2>. DEFINE w == Warned(view.warned, now, program, answered)
              b == view.blind \/ ~answered
  <2>3. w \in SUBSET Accounts /\ b \in BOOLEAN
    BY <1>1 DEF Warned, Listed, WalletInv, WalletTypeOK, View
  <2>4. view' = [view EXCEPT !.warned = w, !.blind = b]
    BY <2>1
  <2>5. view.warned \subseteq w
    BY DEF Warned
  <2>6. ~b => /\ ~view.blind
              /\ \A a \in Accounts : now.acct[a] > 0 /\ ProgramOf[a] = program => a \in w
    BY <1>1 DEF Warned, Listed, Closed, WalletInv, WalletTypeOK, Chain
  <2>. HIDE DEF w, b
  <2>7. view' \in View
    BY <1>1, <2>3, <2>4 DEF WalletInv, WalletTypeOK, View
  <2>8. /\ view'.warned = w /\ view'.empty = view.empty /\ view'.batch = view.batch
        /\ view'.closed = view.closed /\ view'.amount = view.amount
    BY <1>1, <2>4 DEF WalletInv, WalletTypeOK, View
  <2>9. view'.blind = b
    BY <1>1, <2>3, <2>4 DEF WalletInv, WalletTypeOK, View
  <2>10. call["close"] = "idle" /\ UNCHANGED call
    BY <1>1, <2>2 DEF WalletInv, Stage, Unsent, submissionVars
  <2>11. Stage' /\ Way'
    BY <1>1, <2>2, <2>10, SameAsked DEF WalletInv, Stage, Way, Unsent, Sends
  <2>12. WarnedSoFar'
    <3>1. SUFFICES ASSUME req.cmd = "drain", ~b,
                          NEW a \in Accounts, TokensAtStart[a] > 0,
                          program = 1 => ProgramOf[a] = 1
                   PROVE  a \in w
      BY <1>1, <2>2, <2>8, <2>9 DEF WarnedSoFar
    <3>2. now.acct[a] > 0
      BY <1>1, <3>1 DEF WalletInv, KeepsTokens
    <3>3. ProgramOf[a] \in {1, 2}
      BY WalletAssumption
    <3>4. CASE ProgramOf[a] = program
      BY <2>6, <3>1, <3>2, <3>4
    <3>5. CASE ProgramOf[a] = 1 /\ program = 2
      BY <1>1, <2>2, <2>5, <2>6, <3>1, <3>5 DEF WalletInv, WarnedSoFar
    <3>. QED
      BY <3>1, <3>3, <3>4, <3>5
  <2>13. view'.empty \cup view'.batch \subseteq Accounts
    BY <2>7 DEF View
  <2>. QED
    BY <1>1, <2>2, <2>7, <2>8, <2>10, <2>11, <2>12, <2>13, QuietInv
    DEF WalletInv, WalletTypeOK, ClosesTheBatch, Reads
<1>. QED
  BY <1>1 DEF Reads

LEMMA EmptyOnesAre ==
  ASSUME NEW program, NEW answered, NEW a \in EmptyOnes(program, answered)
  PROVE  a \in Accounts /\ fin.acct[a] = 0
  BY DEF EmptyOnes, Listed

LEMMA List1Inv == WalletInv /\ List1 => WalletInv'
<1>. SUFFICES ASSUME WalletInv, List1 PROVE WalletInv'
  OBVIOUS
<1>1. PICK answered \in BOOLEAN : view' = [view EXCEPT !.empty = EmptyOnes(1, answered)]
  BY DEF List1
<1>2. /\ pc = "list1" /\ pc' = "list2" /\ res' = res /\ res = "none"
      /\ UNCHANGED <<now, fin, others, req, submissionVars>>
  BY DEF List1, Goto, WalletInv, Stage
<1>3. EmptyOnes(1, answered) \in SUBSET Accounts
  BY EmptyOnesAre
<1>4. /\ view' \in View /\ view'.warned = view.warned /\ view'.blind = view.blind
      /\ view'.empty = EmptyOnes(1, answered) /\ view'.batch = view.batch
      /\ view'.closed = view.closed /\ view'.amount = view.amount
  BY <1>1, <1>3 DEF WalletInv, WalletTypeOK, View
<1>5. call["close"] = "idle" /\ UNCHANGED call
  BY <1>2 DEF WalletInv, Stage, Unsent, submissionVars
<1>6. Stage' /\ Way'
  BY <1>2, <1>5, SameAsked DEF WalletInv, Stage, Way, Unsent, Sends
<1>7. WarnedSoFar'
  BY <1>2, <1>4 DEF WalletInv, WarnedSoFar
<1>8. \A a \in view'.empty \cup view'.batch :
        a \in view.empty \cup view.batch \/ (a \in Accounts /\ fin.acct[a] = 0)
  BY <1>4, EmptyOnesAre
<1>. QED
  BY <1>2, <1>4, <1>5, <1>6, <1>7, <1>8, QuietInv
  DEF WalletInv, WalletTypeOK, ClosesTheBatch, Reads, Results

LEMMA List2Inv == WalletInv /\ List2 => WalletInv'
<1>. SUFFICES ASSUME WalletInv, List2 PROVE WalletInv'
  OBVIOUS
<1>. DEFINE Found(answered) == view.empty \cup EmptyOnes(2, answered)
<1>1. /\ pc = "list2" /\ res = "none" /\ call["close"] = "idle" /\ call["pay"] = "idle"
      /\ req.cmd \in {"close", "drain"} /\ UNCHANGED <<now, fin, others, req>>
      /\ view.closed = 0
  BY DEF List2, WalletInv, Stage, Way, Unsent, ClosesTheBatch
<1>2. ASSUME UNCHANGED view, Finish("nothing_to_close") \/ Goto("balance"),
             req.cmd = "drain" <=> pc' = "balance"
      PROVE  WalletInv'
  <2>1. UNCHANGED <<call, submissionVars>>
    BY <1>2 DEF Finish, Goto, submissionVars
  <2>2. Stage' /\ Way'
    BY <1>1, <1>2, <2>1, SameAsked DEF WalletInv, Stage, Way, Unsent, Sends, Finish, Goto
  <2>3. WarnedSoFar'
    BY <1>1, <1>2 DEF WalletInv, WarnedSoFar, Finish, Goto
  <2>. QED
    BY <1>1, <1>2, <2>1, <2>2, <2>3, SameView DEF Finish, Goto, Reads, Results
<1>3. ASSUME NEW answered \in BOOLEAN, NEW batch \in SUBSET Found(answered),
             Found(answered) # {},
             Cardinality(batch) = IF Cardinality(Found(answered)) > BatchSize
                                    THEN BatchSize ELSE Cardinality(Found(answered)),
             Send("close"), view' = [view EXCEPT !.empty = Found(answered), !.batch = batch]
      PROVE  WalletInv'
  <2>1. /\ SubmissionInv' /\ UNCHANGED <<tx, ret, res>> /\ pc' = "close"
        /\ call'["close"] = "blockhash" /\ call'["pay"] = call["pay"]
    BY <1>3, SendMoves DEF Sends
  <2>2. Found(answered) \in SUBSET Accounts
    BY EmptyOnesAre DEF WalletInv, WalletTypeOK, View
  <2>3. /\ view' \in View /\ view'.warned = view.warned /\ view'.blind = view.blind
        /\ view'.empty = Found(answered) /\ view'.batch = batch
        /\ view'.closed = view.closed /\ view'.amount = view.amount
    BY <1>3, <2>2 DEF WalletInv, WalletTypeOK, View
  <2>4. batch # {}
    <3>1. Cardinality(Found(answered)) >= 1 /\ Cardinality(Found(answered)) \in Nat
      BY <1>3, <2>2, BatchCounts, FeeType
    <3>2. Cardinality(batch) >= 1
      BY <1>3, <3>1, WalletAssumption
    <3>. QED
      BY <3>2, FS_EmptySet
  <2>5. WalletTypeOK'
    BY <1>1, <2>1, <2>3 DEF WalletInv, WalletTypeOK, SubmissionInv, Sends
  <2>6. Stage' /\ Way' /\ BatchSent'
    BY <1>1, <2>1, <2>3, <2>4, SameAsked DEF WalletInv, Stage, Way, BatchSent, Unsent, Sends
  <2>7. WarnedSoFar'
    BY <1>1, <2>1, <2>3 DEF WalletInv, WarnedSoFar
  <2>8. \A a \in view'.empty \cup view'.batch :
          a \in view.empty \cup view.batch \/ (a \in Accounts /\ fin.acct[a] = 0)
    BY <1>3, <2>3, EmptyOnesAre
  <2>. QED
    BY <1>1, <2>1, <2>3, <2>5, <2>6, <2>7, <2>8, OwnStep
<1>. QED
  BY <1>1, <1>2, <1>3 DEF List2, Finish, Goto

LEMMA AfterCloseInv == WalletInv /\ AfterClose => WalletInv'
<1>. SUFFICES ASSUME WalletInv, AfterClose PROVE WalletInv'
  OBVIOUS
<1>1. /\ pc = "close" /\ call["close"] = "done" /\ res = "none"
      /\ UNCHANGED <<now, fin, others, req, submissionVars, call>>
      /\ \/ req.cmd = "drain" /\ pc' = "balance" /\ res' = res
         \/ req.cmd # "drain" /\ pc' = "done" /\ res' = "sent"
  BY DEF AfterClose, Goto, Finish, WalletInv, Stage, submissionVars
<1>2. PICK n \in {0, Cardinality(view.batch)} : view' = [view EXCEPT !.closed = n]
  BY DEF AfterClose, ClosedCount
<1>3. n \in Nat
  BY BatchCounts, FeeType DEF WalletInv, WalletTypeOK, View
<1>4. /\ view' \in View /\ view'.warned = view.warned /\ view'.blind = view.blind
      /\ view'.empty = view.empty /\ view'.batch = view.batch
      /\ view'.closed = n /\ view'.amount = view.amount
  BY <1>2, <1>3 DEF WalletInv, WalletTypeOK, View
<1>5. Stage' /\ Way'
  BY <1>1, SameAsked DEF WalletInv, Stage, Way, Unsent, Sends
<1>6. WarnedSoFar'
  BY <1>1, <1>4 DEF WalletInv, WarnedSoFar
<1>7. call["close"] # "idle" => view'.batch # {}
  BY <1>4 DEF WalletInv, BatchSent
<1>. QED
  BY <1>1, <1>4, <1>5, <1>6, <1>7, QuietInv DEF Reads, Results, WalletInv, WalletTypeOK

LEMMA ReadInv ==
  WalletInv /\ (ReadBalance \/ ReadMint \/ ReadTokens \/ ReadRaises \/ AfterPay) => WalletInv'
<1>. SUFFICES ASSUME WalletInv, ReadBalance \/ ReadMint \/ ReadTokens \/ ReadRaises \/ AfterPay
              PROVE  WalletInv'
  OBVIOUS
<1>1. /\ UNCHANGED <<now, fin, others, req>> /\ res = "none"
      /\ \/ pc = "balance" /\ req.cmd \in {"sweep", "drain"}
         \/ pc \in {"mint", "tokens"} /\ req.cmd = "token"
         \/ pc = "pay" /\ call["pay"] = "done"
  BY DEF WalletInv, Stage, Way, ReadBalance, ReadMint, ReadTokens, ReadRaises, AfterPay
<1>0. ~DrainsToItself
  BY DEF WalletInv, Way, ReadBalance, ReadMint, ReadTokens, ReadRaises, AfterPay
<1>2. ASSUME NEW r \in {"insufficient_balance", "no_tokens", "raised", "sent"}, Finish(r),
             UNCHANGED view, r = "sent" => pc = "pay",
             r = "insufficient_balance" => pc = "balance", r = "no_tokens" => req.cmd = "token"
      PROVE  WalletInv'
  <2>1. pc' = "done" /\ res' = r /\ UNCHANGED <<call, submissionVars>>
    BY <1>2 DEF Finish, submissionVars
  <2>2. Stage' /\ Way'
    BY <1>1, <1>2, <2>1, SameAsked DEF WalletInv, Stage, Way, Unsent, Sends
  <2>3. WarnedSoFar'
    BY <1>1, <1>2, <2>1 DEF WalletInv, WarnedSoFar
  <2>. QED
    BY <1>1, <1>2, <2>1, <2>2, <2>3, SameView DEF Results
<1>3. CASE ReadBalance
  <2>1. fin.sol \in Nat /\ req.fee \in Nat
    BY FeeType DEF WalletInv, WalletTypeOK, Chain
  <2>2. CASE TooLittle(fin.sol)
    BY <1>2, <1>3, <2>2 DEF ReadBalance
  <2>3. CASE ~TooLittle(fin.sol)
    <3>1. Pay(fin.sol - req.fee) /\ fin.sol - req.fee \in Nat /\ fin.sol - req.fee > 0 /\ pc = "balance"
      BY <1>3, <2>1, <2>3 DEF ReadBalance, TooLittle, SweepAmount
    <3>. QED
      BY <1>0, <1>1, <3>1, PayInv DEF PayCommands
  <2>. QED
    BY <2>2, <2>3
<1>4. CASE ReadMint
  <2>1. pc = "mint" /\ req.cmd = "token" /\ req.amount \in Nat
    BY <1>1, <1>4, WalletAssumption DEF ReadMint, WalletInv, WalletTypeOK, Request
  <2>2. CASE req.all
    <3>1. pc' = "tokens" /\ UNCHANGED <<res, view, call, submissionVars>>
      BY <1>4, <2>2 DEF ReadMint, Goto, submissionVars
    <3>2. Stage' /\ Way' /\ WarnedSoFar'
      BY <1>1, <2>1, <3>1, SameAsked DEF WalletInv, Stage, Way, WarnedSoFar, Unsent, Sends
    <3>. QED
      BY <1>1, <2>1, <3>1, <3>2, SameView DEF Reads, Results
  <2>3. CASE ~req.all
    BY <1>0, <1>1, <1>2, <1>4, <2>1, <2>3, PayInv DEF ReadMint, PayCommands, Sweeps
  <2>. QED
    BY <2>2, <2>3
<1>5. CASE ReadTokens
  <2>. DEFINE held == fin.acct[req.account]
  <2>1. pc = "tokens" /\ req.cmd = "token" /\ held \in Nat \cup {Closed}
    BY <1>1, <1>5, WalletAssumption DEF ReadTokens, WalletInv, WalletTypeOK, Request, Chain
  <2>2. CASE held > 0 /\ Pay(held)
    BY <1>0, <1>1, <2>1, <2>2, PayInv DEF PayCommands, Sweeps, Closed
  <2>3. CASE Finish("no_tokens") /\ UNCHANGED view
    BY <1>2, <2>1, <2>3
  <2>. QED
    BY <1>5, <2>2, <2>3 DEF ReadTokens
<1>6. CASE ReadRaises \/ AfterPay
  BY <1>2, <1>6 DEF ReadRaises, AfterPay
<1>. QED
  BY <1>3, <1>4, <1>5, <1>6

LEMMA CommandInv == WalletInv /\ Command => WalletInv'
  BY StartInv, WarnInv, List1Inv, List2Inv, AfterCloseInv, ReadInv DEF Command

-----------------------------------------------------------------------------
(* The send path and interrupts.                                           *)

(* They move no chain, and no transaction that was broadcast.              *)
LEMMA PathStep ==
  ASSUME WalletInv, UNCHANGED <<now, fin, others, req, view>>, SubmissionInv', WalletTypeOK',
         Stage', Way', WarnedSoFar',
         \A i \in Sends : /\ call[i] = "idle" <=> call'[i] = "idle"
                          /\ \A f \in Landed : tx'[i].fate = f <=> tx[i].fate = f
  PROVE  WalletInv'
<1>1. /\ CloseLanded' <=> CloseLanded
      /\ PayLanded' <=> PayLanded
      /\ \A i \in Sends : tx'[i].fate = "failed" <=> tx[i].fate = "failed"
      /\ \A i \in Sends : call[i] = "idle" <=> call'[i] = "idle"
  BY DEF CloseLanded, PayLanded, Landed, Sends
<1>2. ClosesTheBatch' /\ KeepsTokens' /\ BatchSent'
  BY <1>1 DEF WalletInv, ClosesTheBatch, KeepsTokens, BatchSent, Sends
<1>3. Undisturbed'
  <2>1. Gain' = Gain /\ SolAfterClose' = SolAfterClose
    BY DEF Gain, SolAfterClose
  <2>. QED
    BY <1>1, <2>1, SameAsked DEF WalletInv, Undisturbed, Sends
<1>. QED
  BY <1>2, <1>3 DEF WalletInv

LEMMA SendingInv == WalletInv /\ Sending => WalletInv'
<1>. SUFFICES ASSUME WalletInv, Sending PROVE WalletInv'
  OBVIOUS
<1>1. /\ pc \in Sends /\ ClientStep(pc)
      /\ UNCHANGED <<now, fin, others, req, pc, view, res>>
  BY DEF Sending, walletVars
<1>2. /\ SubmissionInv' /\ call[pc] # "idle" /\ call'[pc] # "idle"
      /\ tx'[pc].fate = tx[pc].fate \/ (tx[pc].fate = "none" /\ tx'[pc].fate = "posted")
      /\ \A j \in Sends \ {pc} : call'[j] = call[j] /\ tx'[j] = tx[j]
  BY <1>1, ClientMoves, WalletAssumption DEF WalletInv
<1>3. WalletTypeOK'
  BY <1>1, <1>2 DEF WalletInv, WalletTypeOK, SubmissionInv
<1>4. Stage' /\ Way' /\ WarnedSoFar'
  BY <1>1, <1>2, SameAsked DEF WalletInv, Stage, Way, WarnedSoFar, Unsent, Sends
<1>5. \A i \in Sends : /\ call[i] = "idle" <=> call'[i] = "idle"
                       /\ \A f \in Landed : tx'[i].fate = f <=> tx[i].fate = f
  BY <1>2 DEF Landed
<1>. QED
  BY <1>1, <1>2, <1>3, <1>4, <1>5, PathStep

LEMMA KillInv == WalletInv /\ Kill => WalletInv'
<1>. SUFFICES ASSUME WalletInv, Kill PROVE WalletInv'
  OBVIOUS
<1>1. /\ pc \notin {"idle", "done"} /\ pc' = "done" /\ res' = "killed"
      /\ UNCHANGED <<now, fin, others, req, view>>
  BY DEF Kill
<1>2. /\ SubmissionInv' /\ UNCHANGED tx
      /\ \A i \in Sends : call[i] = "idle" <=> call'[i] = "idle"
      /\ \A i \in Sends : call'[i] = call[i] \/ call'[i] = "done"
      /\ pc \in Sends => call'[pc] = "done"
  <2>1. CASE pc \in Sends /\ call[pc] # "done"
    <3>1. Interrupt(pc)
      BY <2>1 DEF Kill
    <3>2. /\ SubmissionInv' /\ UNCHANGED tx /\ call[pc] # "idle" /\ call'[pc] = "done"
          /\ \A j \in Sends \ {pc} : call'[j] = call[j]
      BY <2>1, <3>1, ClientMoves, WalletAssumption DEF WalletInv
    <3>. QED
      BY <2>1, <3>2
  <2>2. CASE ~(pc \in Sends /\ call[pc] # "done")
    BY <2>2, StutterInv DEF Kill, submissionVars, WalletInv
  <2>. QED
    BY <2>1, <2>2
<1>3. WalletTypeOK'
  BY <1>1, <1>2 DEF WalletInv, WalletTypeOK, SubmissionInv, Results
<1>4. Stage'
  BY <1>1, <1>2 DEF WalletInv, WalletTypeOK, Stage, Unsent, Sends, Reads
<1>5. Way' /\ WarnedSoFar'
  BY <1>1, <1>2, SameAsked DEF WalletInv, Way, WarnedSoFar, Sends
<1>. QED
  BY <1>1, <1>2, <1>3, <1>4, <1>5, PathStep

-----------------------------------------------------------------------------
(* The chain.                                                              *)

(* A step around the command: its transactions settle, the chain moves.    *)
LEMMA ChainStep ==
  ASSUME WalletInv, UNCHANGED <<req, pc, view, res, call>>, SubmissionInv',
         now' \in Chain, fin' \in {fin, now}, others' \in 0 .. MaxOthers,
         ClosesTheBatch', KeepsTokens', Undisturbed'
  PROVE  WalletInv'
<1>1. WalletTypeOK' /\ Stage' /\ Way' /\ WarnedSoFar' /\ BatchSent'
  BY SameAsked DEF WalletInv, WalletTypeOK, SubmissionInv, Stage, Way, WarnedSoFar, BatchSent
<1>. QED
  BY <1>1 DEF WalletInv

(* What lands was sent.                                                    *)
LEMMA LandsSo ==
  ASSUME WalletInv, NEW i \in Sends, NEW f \in Landed, Land(i, f, 0, 0)
  PROVE  /\ SubmissionInv' /\ UNCHANGED <<call, ret>> /\ call[i] # "idle"
         /\ tx[i].fate = "flying" /\ tx'[i].fate = f
         /\ \A j \in Sends \ {i} : tx'[j] = tx[j]
<1>1. SubmissionInv'
  BY LandInv, WalletAssumption DEF WalletInv
<1>2. /\ UNCHANGED <<call, ret>> /\ call[i] # "idle"
      /\ tx[i].fate = "flying" /\ tx'[i].fate = f
      /\ \A j \in Sends \ {i} : tx'[j] = tx[j]
  BY WalletAssumption DEF Land, WalletInv, SubmissionInv, TypeOK, AwaitsKnow
<1>. QED
  BY <1>1, <1>2

(* A transaction that fails costs its fee.  On an undisturbed wallet none  *)
(* does.                                                                   *)
LEMMA FailInv ==
  ASSUME WalletInv, NEW i \in Sends, FailAtFee(i), FeePaid,
         UNCHANGED <<fin, others, req, pc, view, res>>,
         ~(others = 0 /\ Reckons)
  PROVE  WalletInv'
<1>1. /\ SubmissionInv' /\ UNCHANGED call
      /\ tx[i].fate = "flying" /\ tx'[i].fate = "failed"
      /\ \A j \in Sends \ {i} : tx'[j] = tx[j]
  BY LandsSo DEF FailAtFee, Landed
<1>2. now.sol - req.fee \in Nat /\ now \in Chain
  BY FeeType DEF FeePaid, WalletInv, WalletTypeOK, Chain
<1>3. now' \in Chain /\ now'.acct = now.acct
  BY <1>2 DEF FailAtFee, Chain
<1>4. CloseLanded' <=> CloseLanded
  BY <1>1 DEF CloseLanded, Sends
<1>5. ClosesTheBatch' /\ KeepsTokens'
  BY <1>1, <1>3, <1>4 DEF WalletInv, ClosesTheBatch, KeepsTokens
<1>6. Undisturbed'
  BY SameAsked DEF Undisturbed
<1>. QED
  BY <1>1, <1>3, <1>5, <1>6, ChainStep DEF WalletInv, WalletTypeOK

LEMMA LandCloseInv == WalletInv /\ LandClose => WalletInv'
<1>. SUFFICES ASSUME WalletInv, LandClose PROVE WalletInv'
  OBVIOUS
<1>1. tx["close"].fate = "flying" /\ FeePaid /\ UNCHANGED <<fin, others, req, pc, view, res>>
  BY DEF LandClose
<1>2. /\ call["close"] # "idle" /\ view.batch # {} /\ view.batch \subseteq Accounts
      /\ ~CloseLanded /\ now \in Chain /\ req.cmd \in {"close", "drain"}
  BY <1>1, WalletAssumption DEF WalletInv, SubmissionInv, AwaitsKnow, BatchSent, CloseLanded,
     WalletTypeOK, View, Sends, Way
<1>3. CASE \A a \in view.batch : now.acct[a] = 0
  <2>. DEFINE sol == now.sol - req.fee + Rent * Cardinality(view.batch)
              acct == [a \in Accounts |-> IF a \in view.batch THEN Closed ELSE now.acct[a]]
  <2>1. Land("close", "ok", 0, 0) /\ now' = [now EXCEPT !.sol = sol, !.acct = acct]
    BY <1>3 DEF LandClose
  <2>2. /\ SubmissionInv' /\ UNCHANGED call /\ tx'["close"].fate = "ok"
        /\ tx'["pay"] = tx["pay"]
    BY <2>1, LandsSo DEF Landed, Sends
  <2>3. /\ Cardinality(view.batch) \in Nat /\ (RentCoversFee => Gain >= RentExempt)
        /\ Rent * Cardinality(view.batch) \in Nat /\ req.fee \in Nat
    BY <1>2, BatchCounts, FeeType, WalletAssumption DEF Gain
  <2>4. now.sol \in Nat /\ now.sol - req.fee \in Nat /\ sol \in Nat /\ sol = now.sol + Gain
    BY <1>1, <1>2, <2>3, WalletAssumption DEF FeePaid, Chain, Gain
  <2>5. acct \in [Accounts -> Nat \cup {Closed}]
    BY <1>2 DEF Chain
  <2>6. now'.sol = sol /\ now'.acct = acct /\ now' \in Chain
    BY <1>2, <2>1, <2>4, <2>5 DEF Chain
  <2>7. CloseLanded' /\ (PayLanded' <=> PayLanded)
    BY <2>2 DEF CloseLanded, PayLanded
  <2>. HIDE DEF sol
  <2>8. ClosesTheBatch'
    <3>1. \A a \in Accounts : now.acct[a] # Closed
      BY <1>2 DEF WalletInv, ClosesTheBatch
    <3>2. \A a \in Accounts : now'.acct[a] = Closed <=> a \in view.batch
      BY <2>6, <3>1
    <3>. QED
      BY <1>1, <2>2, <2>7, <3>2 DEF WalletInv, ClosesTheBatch
  <2>9. KeepsTokens'
    <3>1. ASSUME NEW a \in Accounts, TokensAtStart[a] > 0, req.cmd = "drain"
          PROVE  now'.acct[a] > 0
      BY <1>3, <2>6, <3>1 DEF WalletInv, KeepsTokens
    <3>. QED
      BY <1>1, <3>1 DEF KeepsTokens
  <2>10. Undisturbed'
    <3>. SUFFICES ASSUME others = 0, Reckons PROVE Undisturbed'
      BY <1>1, SameAsked DEF Undisturbed
    <3>1. Gain' = Gain /\ SolAfterClose' = SolAfterClose
      BY <1>1 DEF Gain, SolAfterClose
    <3>2. ~PayLanded
      <4>1. CASE req.cmd = "drain"
        <5>1. PayLanded => now.sol = 0
          BY <1>2, <4>1 DEF WalletInv, Undisturbed
        <5>. QED
          BY <2>4, <5>1, FeeType
      <4>2. CASE req.cmd = "close"
        <5>1. call["pay"] = "idle"
          BY <4>2 DEF WalletInv, Way, PayCommands
        <5>. QED
          BY <5>1, WalletAssumption DEF PayLanded, WalletInv, SubmissionInv, AwaitsKnow, Sends
      <4>. QED
        BY <1>2, <4>1, <4>2
    <3>3. now.sol = SolAtStart /\ fin.sol = SolAtStart
      BY <1>2, <3>2 DEF WalletInv, Undisturbed
    <3>4. now'.sol = SolAfterClose
      BY <2>4, <2>6, <3>3 DEF SolAfterClose
    <3>5. \A a \in Accounts : now'.acct[a] \in {TokensAtStart[a], Closed}
      BY <2>6 DEF WalletInv, Undisturbed
    <3>6. \A i \in Sends : tx'[i].fate # "failed"
      BY <2>2 DEF WalletInv, Undisturbed, Sends
    <3>7. /\ req.cmd = "drain" => Gain >= RentExempt
          /\ KeepsRent(SolAtStart - req.fee)
      BY <1>1, <2>3, <3>3 DEF Reckons, FeePaid
    <3>. QED
      BY <1>1, <1>2, <2>2, <2>7, <3>1, <3>2, <3>3, <3>4, <3>5, <3>6, <3>7
      DEF WalletInv, Undisturbed, KeepsRent
  <2>. QED
    BY <1>1, <2>2, <2>6, <2>8, <2>9, <2>10, ChainStep DEF WalletInv, WalletTypeOK
<1>4. CASE ~(\A a \in view.batch : now.acct[a] = 0)
  <2>1. FailAtFee("close")
    BY <1>4 DEF LandClose
  <2>2. ASSUME others = 0, Reckons
        PROVE  \A a \in view.batch : now.acct[a] = 0
    BY <1>2, <2>2 DEF WalletInv, Undisturbed, ClosesTheBatch
  <2>. QED
    BY <1>1, <1>4, <2>1, <2>2, FailInv DEF Sends
<1>. QED
  BY <1>3, <1>4

LEMMA LandSolInv == WalletInv /\ LandSol => WalletInv'
<1>. SUFFICES ASSUME WalletInv, LandSol PROVE WalletInv'
  OBVIOUS
<1>. DEFINE paid == now.sol - req.fee
            left == IF req.self THEN paid ELSE paid - view.amount
            held == IF req.self THEN now.to ELSE now.to + view.amount
            Fits == view.amount <= paid /\ KeepsRent(left) /\ (req.self \/ KeepsRent(held))
<1>1. /\ tx["pay"].fate = "flying" /\ FeePaid /\ req.cmd # "token"
      /\ UNCHANGED <<fin, others, req, pc, view, res>>
  BY DEF LandSol
<1>2. /\ call["pay"] # "idle" /\ ~PayLanded /\ now \in Chain
      /\ now.sol \in Nat /\ now.to \in Nat /\ view.amount \in Nat
      /\ req.fee \in Nat
      /\ paid \in Nat /\ KeepsRent(paid)
  BY <1>1, FeeType, WalletAssumption DEF WalletInv, SubmissionInv, AwaitsKnow, PayLanded,
     WalletTypeOK, View, Chain, Sends, FeePaid
<1>3. ASSUME others = 0, Reckons
      PROVE  Fits /\ (~CloseLanded /\ req.cmd = "drain" => left = 0)
  <2>1. /\ now.sol = IF CloseLanded THEN SolAfterClose ELSE SolAtStart
        /\ view.amount > 0
        /\ \/ view.amount = SolAtStart - req.fee
           \/ CloseLanded /\ view.amount = SolAfterClose - req.fee
        /\ CloseLanded => KeepsRent(SolAtStart - req.fee)
        /\ CloseLanded /\ req.cmd = "drain" => Gain >= RentExempt
    BY <1>2, <1>3 DEF WalletInv, Undisturbed
  <2>2. SolAtStart \in Nat /\ RentExempt \in Nat
    BY WalletAssumption
  <2>3. req.cmd = "drain" => ~req.self
    BY <1>2 DEF WalletInv, Way, DrainsToItself
  <2>4. CASE view.amount = paid
    BY <1>2, <2>1, <2>2, <2>3, <2>4 DEF KeepsRent
  <2>5. CASE CloseLanded /\ view.amount = SolAtStart - req.fee
    <3>1. req.cmd = "drain"
      BY <1>2, <2>5, WalletAssumption
      DEF WalletInv, Way, CloseLanded, SubmissionInv, AwaitsKnow, PayCommands, Sends, Landed
    <3>2. Gain = now.sol - SolAtStart
      BY <1>2, <2>1, <2>2, <2>5, BatchCounts, WalletAssumption
      DEF SolAfterClose, Gain, WalletInv, WalletTypeOK, View
    <3>3. paid - view.amount >= RentExempt /\ view.amount >= RentExempt
      BY <1>2, <2>1, <2>2, <2>5, <3>1, <3>2 DEF KeepsRent
    <3>. QED
      BY <1>2, <2>2, <2>3, <2>5, <3>1, <3>3 DEF KeepsRent
  <2>. QED
    BY <2>1, <2>4, <2>5
<1>4. CASE Fits
  <2>1. Land("pay", "ok", 0, 0) /\ now' = [now EXCEPT !.sol = left, !.to = held]
    BY <1>4 DEF LandSol
  <2>2. /\ SubmissionInv' /\ UNCHANGED call /\ tx'["pay"].fate = "ok"
        /\ tx'["close"] = tx["close"]
    BY <2>1, LandsSo DEF Landed, Sends
  <2>3. left \in Nat /\ held \in Nat
    BY <1>2, <1>4
  <2>. HIDE DEF left, held, Fits
  <2>4. now' \in Chain /\ now'.acct = now.acct /\ now'.sol = left
    BY <1>2, <2>1, <2>3 DEF Chain
  <2>5. (CloseLanded' <=> CloseLanded) /\ PayLanded'
    BY <2>2 DEF CloseLanded, PayLanded
  <2>6. ClosesTheBatch' /\ KeepsTokens'
    BY <1>1, <2>2, <2>4, <2>5 DEF WalletInv, ClosesTheBatch, KeepsTokens
  <2>7. Undisturbed'
    <3>. SUFFICES ASSUME others = 0, Reckons PROVE Undisturbed'
      BY <1>1, SameAsked DEF Undisturbed
    <3>1. Gain' = Gain /\ SolAfterClose' = SolAfterClose
      BY <1>1 DEF Gain, SolAfterClose
    <3>2. \A i \in Sends : tx'[i].fate # "failed"
      BY <2>2 DEF WalletInv, Undisturbed, Sends
    <3>. QED
      BY <1>1, <1>2, <1>3, <2>2, <2>4, <2>5, <3>1, <3>2 DEF WalletInv, Undisturbed
  <2>. QED
    BY <1>1, <2>2, <2>4, <2>6, <2>7, ChainStep DEF WalletInv, WalletTypeOK
<1>5. CASE ~Fits
  <2>1. FailAtFee("pay")
    BY <1>5 DEF LandSol
  <2>. QED
    BY <1>1, <1>3, <1>5, <2>1, FailInv DEF Sends
<1>. QED
  BY <1>4, <1>5

LEMMA LandTokenInv == WalletInv /\ LandToken => WalletInv'
<1>. SUFFICES ASSUME WalletInv, LandToken PROVE WalletInv'
  OBVIOUS
<1>1. /\ req.cmd = "token" /\ tx["pay"].fate = "flying" /\ FeePaid
      /\ UNCHANGED <<fin, others, req, pc, view, res>>
  BY DEF LandToken
<1>2. /\ now \in Chain /\ now.sol \in Nat /\ view.amount \in Nat
      /\ req.account \in Accounts /\ now.acct[req.account] \in Nat \cup {Closed}
      /\ req.fee \in Nat /\ Rent \in Nat
  BY FeeType, WalletAssumption DEF WalletInv, WalletTypeOK, View, Chain, Request
<1>3. CASE FailAtFee("pay")
  BY <1>1, <1>3, FailInv DEF Sends, Reckons
<1>4. CASE ~FailAtFee("pay")
  <2>1. PICK opened \in {0, 1} :
          /\ now.sol - req.fee - opened * Rent >= 0
          /\ now.acct[req.account] >= view.amount
          /\ Land("pay", "ok", 0, 0)
          /\ now' = [now EXCEPT !.sol = now.sol - req.fee - opened * Rent,
                                !.acct[req.account] = IF req.self THEN @ ELSE @ - view.amount]
    BY <1>4 DEF LandToken
  <2>2. /\ SubmissionInv' /\ UNCHANGED call /\ tx'["close"] = tx["close"]
    BY <2>1, LandsSo DEF Landed, Sends
  <2>. DEFINE left == now.sol - req.fee - opened * Rent
              held == IF req.self THEN now.acct[req.account]
                      ELSE now.acct[req.account] - view.amount
  <2>3. left \in Nat /\ held \in Nat /\ now.acct[req.account] # Closed
    BY <1>2, <2>1 DEF Closed
  <2>4. now' = [now EXCEPT !.sol = left, !.acct = [now.acct EXCEPT ![req.account] = held]]
    BY <1>2, <2>1 DEF Chain
  <2>. HIDE DEF left, held
  <2>5. now' \in Chain /\ now'.acct = [now.acct EXCEPT ![req.account] = held]
    BY <1>2, <2>3, <2>4 DEF Chain
  <2>6. \A a \in Accounts : now'.acct[a] = Closed <=> now.acct[a] = Closed
    BY <1>2, <2>3, <2>5 DEF Chain, Closed
  <2>7. CloseLanded' <=> CloseLanded
    BY <2>2 DEF CloseLanded
  <2>8. ClosesTheBatch'
    BY <1>1, <2>2, <2>6, <2>7 DEF WalletInv, ClosesTheBatch
  <2>9. KeepsTokens' /\ Undisturbed'
    BY <1>1 DEF KeepsTokens, Undisturbed, Reckons
  <2>. QED
    BY <1>1, <2>2, <2>5, <2>8, <2>9, ChainStep DEF WalletInv, WalletTypeOK
<1>. QED
  BY <1>3, <1>4

LEMMA OthersInv == WalletInv /\ Others => WalletInv'
<1>. SUFFICES ASSUME WalletInv, Others PROVE WalletInv'
  OBVIOUS
<1>1. /\ others' \in 0 .. MaxOthers /\ others' # 0
      /\ UNCHANGED <<fin, req, pc, view, res, submissionVars, call>>
      /\ now \in Chain /\ now.sol \in Nat
  BY WalletAssumption DEF Others, submissionVars, WalletInv, WalletTypeOK, Chain
<1>2. SubmissionInv' /\ (CloseLanded' <=> CloseLanded)
  BY <1>1, StutterInv DEF WalletInv, CloseLanded, submissionVars
<1>3. ASSUME NEW s \in Nat, now' = [now EXCEPT !.sol = s]
      PROVE  now' \in Chain /\ now'.acct = now.acct
  BY <1>1, <1>3 DEF Chain
<1>4. /\ now' \in Chain
      /\ \A a \in Accounts : /\ now'.acct[a] = Closed <=> now.acct[a] = Closed
                             /\ now.acct[a] > 0 => now'.acct[a] > 0
  <2>1. CASE SolArrives \/ SolSpent
    <3>1. now.sol + OtherAmount \in Nat
          /\ (now.sol >= OtherAmount => now.sol - OtherAmount \in Nat)
      BY <1>1, WalletAssumption
    <3>. QED
      BY <1>3, <2>1, <3>1 DEF SolArrives, SolSpent
  <2>3. CASE RecipientMoves
    <3>1. PICK held \in {0, now.to + OtherAmount} : now' = [now EXCEPT !.to = held]
      BY <2>3 DEF RecipientMoves
    <3>2. held \in Nat
      BY <1>1, WalletAssumption DEF Chain
    <3>. QED
      BY <1>1, <3>1, <3>2 DEF Chain
  <2>2. CASE TokensArrive
    <3>1. PICK a \in Accounts :
            now.acct[a] # Closed /\ now' = [now EXCEPT !.acct[a] = @ + 1]
      BY <2>2 DEF TokensArrive
    <3>. DEFINE more == now.acct[a] + 1
    <3>2. more \in Nat /\ more > 0 /\ now' = [now EXCEPT !.acct = [now.acct EXCEPT ![a] = more]]
      BY <1>1, <3>1 DEF Chain
    <3>. HIDE DEF more
    <3>3. now' \in Chain /\ now'.acct = [now.acct EXCEPT ![a] = more]
      BY <1>1, <3>2 DEF Chain
    <3>. QED
      BY <1>1, <3>1, <3>2, <3>3 DEF Chain, Closed
  <2>. QED
    BY <2>1, <2>2, <2>3 DEF Others
<1>5. ClosesTheBatch' /\ KeepsTokens' /\ Undisturbed'
  BY <1>1, <1>2, <1>4 DEF WalletInv, ClosesTheBatch, KeepsTokens, Undisturbed
<1>. QED
  BY <1>1, <1>2, <1>4, <1>5, ChainStep

LEMMA FinalizeInv == WalletInv /\ Finalize => WalletInv'
<1>. SUFFICES ASSUME WalletInv, Finalize PROVE WalletInv'
  OBVIOUS
<1>1. fin' = now /\ UNCHANGED <<now, others, req, pc, view, res, tx, call, submissionVars>>
  BY DEF Finalize, submissionVars
<1>2. (CloseLanded' <=> CloseLanded) /\ (PayLanded' <=> PayLanded)
      /\ Gain' = Gain /\ SolAfterClose' = SolAfterClose
  BY <1>1 DEF CloseLanded, PayLanded, Gain, SolAfterClose
<1>3. SubmissionInv' /\ ClosesTheBatch' /\ KeepsTokens'
  BY <1>1, <1>2, StutterInv DEF WalletInv, ClosesTheBatch, KeepsTokens
<1>4. Undisturbed'
  BY <1>1, <1>2, SameAsked DEF WalletInv, Undisturbed
<1>. QED
  BY <1>1, <1>3, <1>4, ChainStep DEF WalletInv, WalletTypeOK

LEMMA TravelInv ==
  ASSUME WalletInv, NEW i \in Sends, Arrive(i) \/ Expire(i), UNCHANGED walletVars
  PROVE  WalletInv'
<1>1. SubmissionInv' /\ UNCHANGED <<call, now, fin, others, req, pc, view, res>>
  BY ArriveInv, ExpireInv, WalletAssumption DEF Arrive, Expire, walletVars, WalletInv
<1>2. /\ tx[i].fate \notin Landed /\ tx'[i].fate \notin Landed
      /\ \A j \in Sends \ {i} : tx'[j] = tx[j]
  BY WalletAssumption DEF Arrive, Expire, WalletInv, SubmissionInv, TypeOK, Tx, Landed
<1>3. WalletTypeOK' /\ Stage' /\ Way' /\ WarnedSoFar'
  BY <1>1, SameAsked DEF WalletInv, WalletTypeOK, SubmissionInv, Stage, Way, WarnedSoFar
<1>. QED
  BY <1>1, <1>2, <1>3, PathStep

LEMMA WalletStepInv == WalletInv /\ [WalletNext]_vars => WalletInv'
<1>. SUFFICES ASSUME WalletInv, [WalletNext]_vars PROVE WalletInv'
  OBVIOUS
<1>1. CASE UNCHANGED vars
  <2>1. SubmissionInv' /\ UNCHANGED <<tx, call, now, fin, others, req, pc, view, res>>
    BY <1>1, StutterInv DEF vars, walletVars, submissionVars, WalletInv
  <2>2. WalletTypeOK' /\ Stage' /\ Way' /\ WarnedSoFar'
    BY <2>1, SameAsked DEF WalletInv, WalletTypeOK, SubmissionInv, Stage, Way, WarnedSoFar
  <2>. QED
    BY <2>1, <2>2, PathStep
<1>2. CASE Cluster2
  BY <1>2, LandCloseInv, LandSolInv, LandTokenInv, TravelInv DEF Cluster2
<1>. QED
  BY <1>1, <1>2, CommandInv, SendingInv, KillInv, OthersInv, FinalizeInv DEF WalletNext

LEMMA AlwaysInv == WalletSpec => []WalletInv
  BY WalletInitInv, WalletStepInv, PTL DEF WalletSpec

(* On a wallet nobody else touches no sweep or close fails on chain, for   *)
(* any accounts, balances, fee and rent, to whatever recipient; and no     *)
(* drain whose fee one account's rent covers.                              *)
THEOREM WalletUndisturbedSucceeds == WalletSpec => []UndisturbedSucceeds
<1>1. WalletInv => UndisturbedSucceeds
  BY WalletInvImplies
<1>. QED
  BY <1>1, AlwaysInv, PTL

(* As many accounts are closed as are reported, and none before the close  *)
(* has landed, whatever others do to them meanwhile.                       *)
THEOREM WalletCountsWhatItCloses == WalletSpec => []CountsWhatItCloses
<1>1. WalletInv => CountsWhatItCloses
  BY WalletInvImplies
<1>. QED
  BY <1>1, AlwaysInv, PTL

(* A drain has warned of every account that holds tokens, for any number   *)
(* of them under either token program.                                     *)
THEOREM WalletWarnsOfTokens == WalletSpec => []WarnsOfTokens
<1>1. WalletInv => WarnsOfTokens
  BY WalletInvImplies
<1>. QED
  BY <1>1, AlwaysInv, PTL
-----------------------------------------------------------------------------
(* The refinement: each of the two transactions is reported as TxReport    *)
(* demands.                                                                *)

Known(i) == Broadcasted(tx[i].fate)

(* A step as one transaction and its report see it.                        *)
Unseen(i) == Known(i)' = Known(i) /\ CommandTold(i)' = CommandTold(i)
Travels(i) ==
  /\ CommandTold(i) \in {"pending", "silent"} /\ CommandTold(i)' = CommandTold(i)
  /\ Known(i) = "none" /\ Known(i)' = "flying"
Settles(i) ==
  /\ CommandTold(i)' = CommandTold(i)
  /\ Known(i) = "flying" /\ Known(i)' \in Landed \cup {"expired"}
Tells(i) ==
  /\ CommandTold(i) = "pending" /\ Known(i)' = Known(i)
  /\ CommandTold(i)' \in CloseReport!Reports \ {"pending"}
  /\ CloseReport!Supports(CommandTold(i)', Known(i))
Moves(i) == Unseen(i) \/ Travels(i) \/ Settles(i) \/ Tells(i)

(* The two instances of the contract are the contract of one transaction.  *)
LEMMA CloseFollows ==
  Moves("close") => [CloseReport!ReportNext]_(CloseReport!reportVars)
<1>. USE DEF Known, Fate, ToldOf
<1>1. Unseen("close") => UNCHANGED CloseReport!reportVars
  BY DEF Unseen, CloseReport!reportVars
<1>2. Travels("close") => CloseReport!Broadcast("close")
  BY DEF Travels, CloseReport!Broadcast
<1>3. Settles("close") => CloseReport!Settle("close")
  BY DEF Settles, CloseReport!Settle, Landed, CloseReport!Landed
<1>4. Tells("close") => CloseReport!Tell("close")
  BY DEF Tells, CloseReport!Tell
<1>. QED
  BY <1>1, <1>2, <1>3, <1>4 DEF Moves, CloseReport!ReportNext

LEMMA PayFollows ==
  Moves("pay") => [PayReport!ReportNext]_(PayReport!reportVars)
<1>. USE DEF Known, Fate, ToldOf
<1>1. Unseen("pay") => UNCHANGED PayReport!reportVars
  BY DEF Unseen, PayReport!reportVars
<1>2. Travels("pay") => PayReport!Broadcast("pay")
  BY DEF Travels, PayReport!Broadcast
<1>3. Settles("pay") => PayReport!Settle("pay")
  BY DEF Settles, PayReport!Settle, Landed, PayReport!Landed
<1>4. Tells("pay") => PayReport!Tell("pay")
  BY DEF Tells, PayReport!Tell, CloseReport!Reports, CloseReport!Supports, CloseReport!Landed,
         PayReport!Reports, PayReport!Supports, PayReport!Landed
<1>. QED
  BY <1>1, <1>2, <1>3, <1>4 DEF Moves, PayReport!ReportNext

(* Nothing is told before the command ends, and nothing more after.        *)
LEMMA QuietMoves ==
  ASSUME NEW i \in Sends, Known(i)' = Known(i), UNCHANGED <<pc, res>>,
         pc = "done" => UNCHANGED <<call, ret>>
  PROVE  Moves(i)
  BY DEF Moves, Unseen, CommandTold, PayRaised, SendReported

LEMMA RunningMoves ==
  ASSUME NEW i \in Sends, Known(i)' = Known(i), pc # "done", pc' # "done"
  PROVE  Moves(i)
  BY DEF Moves, Unseen, CommandTold

(* What a command that ends says of a transaction was established by the   *)
(* call that sent it: also of the close, which ended before the payment.   *)
LEMMA EndTells ==
  ASSUME WalletInv', NEW i \in Sends, pc # "done", pc' = "done", UNCHANGED tx
  PROVE  Moves(i)
<1>1. CommandTold(i) = "pending" /\ Known(i)' = Known(i)
  BY DEF CommandTold, Known
<1>2. CASE CommandTold(i)' = "silent"
  BY <1>1, <1>2 DEF Moves, Tells, CloseReport!Reports, CloseReport!Supports
<1>3. CASE CommandTold(i)' # "silent"
  <2>1. CommandTold(i)' = SendReported(i)'
    BY <1>3 DEF CommandTold
  <2>2. CASE call'[i] = "idle"
    <3>1. tx[i].fate = "none"
      BY <2>2, WalletAssumption DEF WalletInv, SubmissionInv, AwaitsKnow
    <3>2. CommandTold(i)' = "nothing_sent" /\ Known(i) = "none"
      BY <2>1, <2>2, <3>1 DEF SendReported, Known, Broadcasted
    <3>. QED
      BY <1>1, <3>2 DEF Moves, Tells, CloseReport!Reports, CloseReport!Supports
  <2>3. CASE call'[i] # "idle"
    <3>1. call'[i] = "done"
      BY <2>3 DEF WalletInv, Stage, Sends
    <3>2. ret'[i] \in Rets \ {"none"}
      BY <3>1, WalletAssumption DEF WalletInv, SubmissionInv, TypeOK, ReturnsKnow
    <3>3. CommandTold(i)' = Told(ret'[i])
      BY <2>1, <2>3 DEF SendReported
    <3>4. Told(ret'[i]) \in CloseReport!Reports \ {"pending"}
      BY <3>2 DEF Told, Rets, CloseReport!Reports
    <3>5. CloseReport!Supports(Told(ret'[i]), Broadcasted(tx'[i].fate))
      BY <3>2, WalletAssumption DEF WalletInv, SubmissionInv, ReturnsKnow, Told, Rets,
         Broadcasted, Posted, Landed, CloseReport!Supports, CloseReport!Landed
    <3>. QED
      BY <1>1, <3>3, <3>4, <3>5 DEF Moves, Tells, Known
  <2>. QED
    BY <2>2, <2>3
<1>. QED
  BY <1>2, <1>3

LEMMA CommandMoves ==
  ASSUME WalletInv, WalletInv', Command \/ Kill, NEW i \in Sends
  PROVE  Moves(i)
<1>1. UNCHANGED tx /\ pc # "done"
  <2>1. ASSUME NEW j, Send(j) PROVE UNCHANGED tx
    BY <2>1 DEF Send, SendTx
  <2>2. ASSUME NEW amount, Pay(amount) PROVE UNCHANGED tx
    BY <2>1, <2>2 DEF Pay
  <2>3. ASSUME NEW where, Goto(where) PROVE UNCHANGED tx
    BY <2>3 DEF Goto, submissionVars
  <2>4. ASSUME NEW result, Finish(result) PROVE UNCHANGED tx
    BY <2>4 DEF Finish, submissionVars
  <2>5. CASE Start
    <3>1. req.cmd \in Commands /\ pc = "idle"
      BY <2>5, WalletAssumption DEF Start, WalletInv, WalletTypeOK, Request
    <3>. QED
      BY <2>2, <2>3, <2>5, <3>1 DEF Start, Commands
  <2>6. CASE Kill
    BY <2>6 DEF Kill, Interrupt, submissionVars
  <2>7. CASE Command /\ ~Start
    BY <2>1, <2>2, <2>3, <2>4, <2>7
    DEF Command, Refuse, Warn, List1, List2, AfterClose, ReadBalance, ReadMint, ReadTokens,
        ReadRaises, AfterPay
  <2>. QED
    BY <2>5, <2>6, <2>7
<1>2. Known(i)' = Known(i)
  BY <1>1 DEF Known
<1>. QED
  BY <1>1, <1>2, RunningMoves, EndTells

LEMMA SendingMoves ==
  ASSUME WalletInv, Sending, NEW i \in Sends PROVE Moves(i)
<1>1. pc \in Sends /\ ClientStep(pc) /\ UNCHANGED <<pc, res>>
  BY DEF Sending, walletVars
<1>2. /\ tx'[pc].fate = tx[pc].fate \/ (tx[pc].fate = "none" /\ tx'[pc].fate = "posted")
      /\ \A j \in Sends \ {pc} : tx'[j] = tx[j]
  BY <1>1, ClientMoves, WalletAssumption DEF WalletInv
<1>3. Known(i)' = Known(i)
  BY <1>2 DEF Known, Broadcasted
<1>. QED
  BY <1>1, <1>3, RunningMoves DEF Sends

(* The cluster: a request that reaches a node finds nothing said of it,    *)
(* and what lands or lapses leaves what was said alone.                    *)
LEMMA ClusterMoves ==
  ASSUME WalletInv, Cluster2, NEW i \in Sends PROVE Moves(i)
<1>. USE WalletAssumption
<1>1. UNCHANGED <<pc, res, call, ret>>
  BY DEF Cluster2, LandClose, LandSol, LandToken, FailAtFee, Land, Arrive, Expire, walletVars
<1>2. CommandTold(i)' = CommandTold(i)
  BY <1>1 DEF CommandTold, PayRaised, SendReported
<1>3. ASSUME NEW j \in Sends, NEW f \in Landed, Land(j, f, 0, 0) PROVE Moves(i)
  <2>1. /\ tx[j].fate = "flying" /\ tx'[j].fate = f
        /\ \A k \in Sends \ {j} : tx'[k] = tx[k]
    BY <1>3, LandsSo
  <2>2. CASE i = j
    BY <1>2, <2>1, <2>2 DEF Moves, Settles, Known, Broadcasted, Landed
  <2>3. CASE i # j
    BY <1>2, <2>1, <2>3 DEF Moves, Unseen, Known
  <2>. QED
    BY <2>2, <2>3
<1>4. ASSUME NEW j \in Sends, Expire(j) PROVE Moves(i)
  <2>1. /\ tx[j].fate = "flying" /\ tx'[j].fate = "expired"
        /\ \A k \in Sends \ {j} : tx'[k] = tx[k]
    BY <1>4, SetFate DEF Expire, WalletInv, SubmissionInv, Fates
  <2>2. CASE i = j
    BY <1>2, <2>1, <2>2 DEF Moves, Settles, Known, Broadcasted, Landed
  <2>3. CASE i # j
    BY <1>2, <2>1, <2>3 DEF Moves, Unseen, Known
  <2>. QED
    BY <2>2, <2>3
<1>5. ASSUME NEW j \in Sends, Arrive(j) PROVE Moves(i)
  <2>1. /\ tx[j].fate = "posted" /\ tx'[j].fate = "flying"
        /\ \A k \in Sends \ {j} : tx'[k] = tx[k]
    BY <1>5, SetFate DEF Arrive, WalletInv, SubmissionInv, Fates
  <2>2. CASE i = j
    <3>1. call[i] # "idle" /\ Told(ret[i]) \in {"pending", "silent"}
      BY <2>1, <2>2 DEF WalletInv, SubmissionInv, TypeOK, AwaitsKnow, ReturnsKnow, Rets,
                  Landed, Posted, Told
    <3>2. CommandTold(i) \in {"pending", "silent"}
      BY <3>1 DEF CommandTold, SendReported
    <3>. QED
      BY <1>2, <2>1, <2>2, <3>2 DEF Moves, Travels, Known, Broadcasted
  <2>3. CASE i # j
    BY <1>2, <2>1, <2>3 DEF Moves, Unseen, Known
  <2>. QED
    BY <2>2, <2>3
<1>. QED
  BY <1>3, <1>4, <1>5 DEF Cluster2, LandClose, LandSol, LandToken, FailAtFee, Landed, Sends

LEMMA WalletStepMoves ==
  WalletInv /\ [WalletNext]_vars => \A i \in Sends : Moves(i)
<1>. SUFFICES ASSUME WalletInv, [WalletNext]_vars, NEW i \in Sends PROVE Moves(i)
  OBVIOUS
<1>1. CASE UNCHANGED vars \/ Others \/ Finalize
  <2>1. UNCHANGED <<pc, res, tx, call, ret>>
    BY <1>1 DEF vars, walletVars, submissionVars, Others, Finalize
  <2>2. Known(i)' = Known(i)
    BY <2>1 DEF Known
  <2>. QED
    BY <2>1, <2>2, QuietMoves
<1>2. WalletInv'
  BY WalletStepInv
<1>. QED
  BY <1>1, <1>2, CommandMoves, SendingMoves, ClusterMoves DEF WalletNext

(* What a wallet command says of each of its transactions is true when it  *)
(* says it and stays true, across the two that a drain sends.              *)
THEOREM WalletReportsTruly == WalletSpec => WalletImplementsTxReport
<1>1. WalletInit => CloseReport!ReportInit /\ PayReport!ReportInit
  BY WalletAssumption DEF WalletInit, SubmissionInit, NoTx, CloseReport!ReportInit,
     PayReport!ReportInit, Fate, ToldOf, Broadcasted, CommandTold, Sends
<1>2. WalletInv /\ [WalletNext]_vars =>
        /\ [CloseReport!ReportNext]_(CloseReport!reportVars)
        /\ [PayReport!ReportNext]_(PayReport!reportVars)
  BY WalletStepMoves, CloseFollows, PayFollows DEF Sends
<1>. QED
  BY <1>1, <1>2, AlwaysInv, PTL
  DEF WalletSpec, WalletImplementsTxReport, CloseReport!ReportSpec, PayReport!ReportSpec
=============================================================================
