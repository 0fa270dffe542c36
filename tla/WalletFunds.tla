---------------------------- MODULE WalletFunds -----------------------------
(***************************************************************************)
(* The wallet commands that move funds, core/wallet.py under               *)
(* commands/wallet.py: transfer (an amount of SOL, all of it, or a token), *)
(* close-atas and drain.  One invocation sends at most two transactions:   *)
(* "close", which closes a batch of empty token accounts, and "pay", the   *)
(* transfer; each is a call of Submission's send_tx.                       *)
(*                                                                         *)
(* Around it, external: the cluster charges every landed transaction its   *)
(* fee, returns an account's rent when it is closed, and keeps an account, *)
(* the wallet's as the recipient's, either empty or rent exempt; others    *)
(* send to and spend from the wallet and the recipient.                    *)
(***************************************************************************)
EXTENDS Submission, FiniteSets

CONSTANTS
  Requests,             \* what a user can ask for
  Accounts,             \* the wallet's token accounts
  ProgramOf,            \* the token program of each: 1 (Token) or 2 (Token-2022)
  BatchSize,            \* closes put into one transaction (20 in the code)
  Rent, RentExempt,     \* a token account's rent; the least SOL an account keeps
  SolAtStart, TokensAtStart,
  RecipientAtStart,     \* what the recipient can hold (0: a fresh address)
  OtherAmount, MaxOthers   \* what others move, and how often (bound)

Commands == {"transfer", "sweep", "token", "close", "drain"}
(* self: the recipient is the wallet.  fee: of each transaction, from      *)
(* --priority-fee and --compute-units.                                     *)
Request == [cmd : Commands, confirm : BOOLEAN, all : BOOLEAN, amount : Nat,
            account : Accounts, self : BOOLEAN, fee : Nat \ {0}]
Closed == -1
(* to: the SOL of the recipient, when that is someone else.                *)
Chain == [sol : Nat, to : Nat, acct : [Accounts -> Nat \cup {Closed}]]
Sends == {"close", "pay"}

ASSUME WalletAssumption ==
  /\ Invocations = Sends
  /\ Requests \subseteq Request
  /\ IsFiniteSet(Accounts)
  /\ ProgramOf \in [Accounts -> {1, 2}]
  /\ BatchSize \in Nat \ {0}
  /\ Rent \in Nat /\ RentExempt \in Nat
  /\ SolAtStart \in Nat /\ RecipientAtStart \subseteq Nat /\ TokensAtStart \in [Accounts -> Nat]
  /\ OtherAmount \in Nat \ {0} /\ MaxOthers \in Nat

VARIABLES
  now, fin,             \* the chain: current, and as last finalized
  others,               \* moves of others so far
  req,                  \* what the command was asked
  pc,                   \* the read it awaits, or the transaction it is sending
  view,                 \* what it has read and worked out
  res                   \* the result of the command

walletVars == <<now, fin, others, req, pc, view, res>>
vars == <<submissionVars, walletVars>>

Reads == {"warn1", "warn2", "list1", "list2", "balance", "mint", "tokens"}
Results == {"none", "refused", "raised", "nothing_to_close", "insufficient_balance",
            "no_tokens", "sent", "killed"}
(* blind: a listing failed and was taken for an empty one (history).       *)
View == [warned : SUBSET Accounts, blind : BOOLEAN, empty : SUBSET Accounts,
         batch : SUBSET Accounts, closed : Nat, amount : Nat]

WalletTypeOK ==
  /\ TypeOK
  /\ now \in Chain /\ fin \in Chain
  /\ others \in 0 .. MaxOthers
  /\ req \in Requests
  /\ pc \in Reads \cup Sends \cup {"idle", "done"}
  /\ view \in View
  /\ res \in Results

ChainAtStart == [sol : {SolAtStart}, to : RecipientAtStart, acct : {TokensAtStart}]

WalletInit ==
  /\ SubmissionInit
  /\ now \in ChainAtStart /\ fin = now
  /\ others = 0
  /\ req \in Requests
  /\ pc = "idle"
  /\ view = [warned |-> {}, blind |-> FALSE, empty |-> {}, batch |-> {},
             closed |-> 0, amount |-> 0]
  /\ res = "none"

-----------------------------------------------------------------------------
(* The commands.                                                           *)

Goto(where) == pc' = where /\ UNCHANGED <<res, submissionVars>>
Finish(result) == pc' = "done" /\ res' = result /\ UNCHANGED submissionVars

Send(which) ==
  /\ pc' = which
  /\ SendTx(which, IF req.confirm THEN "confirm" ELSE "send")
  /\ UNCHANGED res

Pay(amount) == Send("pay") /\ view' = [view EXCEPT !.amount = amount]

(* No keystore, a wrong password, a bad address, a drain to oneself.       *)
Refuse ==
  /\ pc = "idle"
  /\ Finish("refused")
  /\ UNCHANGED <<now, fin, others, req, view>>

DrainsToItself == req.cmd = "drain" /\ req.self

(* transfer_sol reads nothing: the amount asked is sent unchecked.         *)
Start ==
  /\ pc = "idle"
  /\ ~DrainsToItself
  /\ CASE req.cmd = "transfer" -> Pay(req.amount)
       [] req.cmd = "sweep" -> Goto("balance") /\ UNCHANGED view
       [] req.cmd = "token" -> Goto("mint") /\ UNCHANGED view
       [] req.cmd = "close" -> Goto("list1") /\ UNCHANGED view
       [] req.cmd = "drain" -> Goto("warn1") /\ UNCHANGED view
  /\ UNCHANGED <<now, fin, others, req>>

(* One program's open accounts; a read that fails is answered with none.   *)
Listed(chain, program, answered) ==
  {a \in Accounts : answered /\ ProgramOf[a] = program /\ chain.acct[a] # Closed}

(* (Mutant: the second listing replaces the first.)                        *)
WarnedLastOnly(before, chain, program, answered) ==
  {a \in Listed(chain, program, answered) : chain.acct[a] # 0}

Warned(before, chain, program, answered) ==
  before \cup {a \in Listed(chain, program, answered) : chain.acct[a] # 0}

(* drain first lists what still holds tokens, at "confirmed", one program  *)
(* after the other.                                                        *)
Warn(program, here, next) ==
  /\ pc = here
  /\ \E answered \in BOOLEAN :
       view' = [view EXCEPT !.warned = Warned(@, now, program, answered),
                            !.blind = @ \/ ~answered]
  /\ Goto(next)
  /\ UNCHANGED <<now, fin, others, req>>

(* close_empty_atas lists them again, at the default commitment.           *)
EmptyOnes(program, answered) ==
  {a \in Listed(fin, program, answered) : fin.acct[a] = 0}

List1 ==
  /\ pc = "list1"
  /\ \E answered \in BOOLEAN : view' = [view EXCEPT !.empty = EmptyOnes(1, answered)]
  /\ Goto("list2")
  /\ UNCHANGED <<now, fin, others, req>>

(* A batch of the empty ones, in the order they were answered, is closed   *)
(* by one transaction; with none, drain goes on to the transfer.           *)
List2 ==
  /\ pc = "list2"
  /\ \E answered \in BOOLEAN :
       LET empty == view.empty \cup EmptyOnes(2, answered) IN
       IF empty = {}
         THEN /\ IF req.cmd = "drain" THEN Goto("balance") ELSE Finish("nothing_to_close")
              /\ UNCHANGED view
         ELSE \E batch \in SUBSET empty :
                /\ Cardinality(batch) = IF Cardinality(empty) > BatchSize
                                          THEN BatchSize ELSE Cardinality(empty)
                /\ Send("close")
                /\ view' = [view EXCEPT !.empty = empty, !.batch = batch]
  /\ UNCHANGED <<now, fin, others, req>>

(* (Mutant: what was found is reported for what was put into the batch.)   *)
ClosedCountFound == Cardinality(view.empty)

ClosedCount == Cardinality(view.batch)

(* The close's send_tx has ended.  close-atas ends with it; drain reports  *)
(* an exception as ata_error with nothing closed, and goes on either way.  *)
AfterClose ==
  /\ pc = "close" /\ call["close"] = "done"
  /\ view' = [view EXCEPT !.closed =
                IF ret["close"] \in {"accepted", "confirmed"} THEN ClosedCount ELSE 0]
  /\ IF req.cmd = "drain" THEN Goto("balance") ELSE Finish("sent")
  /\ UNCHANGED <<now, fin, others, req>>

(* (Mutants: the fee is forgotten; a balance below it is not refused.)     *)
SweepAmountWithoutFee(sol) == sol
TooLittleIgnored(sol) == sol = req.fee

SweepAmount(sol) == sol - req.fee
TooLittle(sol) == sol - req.fee <= 0

(* transfer_all_sol sends the balance less the fee: at the default         *)
(* commitment, which need not know yet of the close just confirmed.        *)
ReadBalance ==
  /\ pc = "balance"
  /\ IF TooLittle(fin.sol)
       THEN Finish("insufficient_balance") /\ UNCHANGED view
       ELSE Pay(SweepAmount(fin.sol))
  /\ UNCHANGED <<now, fin, others, req>>

(* transfer_token asks for the mint's program and decimals, and for "all"  *)
(* for the balance, in which a failed read is a zero.                      *)
ReadMint ==
  /\ pc = "mint"
  /\ IF req.all THEN Goto("tokens") /\ UNCHANGED view
     ELSE IF req.amount = 0 THEN Finish("no_tokens") /\ UNCHANGED view
     ELSE Pay(req.amount)
  /\ UNCHANGED <<now, fin, others, req>>

ReadTokens ==
  /\ pc = "tokens"
  /\ LET held == fin.acct[req.account] IN
     \/ Finish("no_tokens") /\ UNCHANGED view
     \/ held > 0 /\ Pay(held)
  /\ UNCHANGED <<now, fin, others, req>>

(* A read that is not swallowed raises, and the process ends; of a drain,  *)
(* the report of the close is lost with it.                                *)
ReadRaises ==
  /\ pc \in {"balance", "mint"}
  /\ Finish("raised")
  /\ UNCHANGED <<now, fin, others, req, view>>

AfterPay ==
  /\ pc = "pay" /\ call["pay"] = "done"
  /\ Finish("sent")
  /\ UNCHANGED <<now, fin, others, req, view>>

Command ==
  \/ Refuse \/ Start
  \/ Warn(1, "warn1", "warn2") \/ Warn(2, "warn2", "list1")
  \/ List1 \/ List2 \/ AfterClose
  \/ ReadBalance \/ ReadMint \/ ReadTokens \/ ReadRaises \/ AfterPay

(* The send path runs under the command.                                   *)
Sending == pc \in Sends /\ ClientStep(pc) /\ UNCHANGED walletVars

(* The user interrupts the process; no except clause of drain takes it.    *)
Kill ==
  /\ pc \notin {"idle", "done"}
  /\ IF pc \in Sends /\ call[pc] # "done" THEN Interrupt(pc) ELSE UNCHANGED submissionVars
  /\ pc' = "done" /\ res' = "killed"
  /\ UNCHANGED <<now, fin, others, req, view>>

-----------------------------------------------------------------------------
(* The cluster and the others (external).                                  *)

KeepsRent(sol) == sol = 0 \/ sol >= RentExempt

(* A transaction is taken into a block only if its fee can be paid, and    *)
(* leaves the payer empty or rent exempt before anything else is executed. *)
FeePaid == now.sol >= req.fee /\ KeepsRent(now.sol - req.fee)

FailAtFee(i) ==
  /\ Land(i, "failed", 0, 0)
  /\ now' = [now EXCEPT !.sol = @ - req.fee]

LandClose ==
  /\ tx["close"].fate = "flying" /\ FeePaid
  /\ IF \A a \in view.batch : now.acct[a] = 0
       THEN /\ Land("close", "ok", 0, 0)
            /\ now' = [now EXCEPT
                 !.sol = @ - req.fee + Rent * Cardinality(view.batch),
                 !.acct = [a \in Accounts |-> IF a \in view.batch THEN Closed ELSE @[a]]]
       ELSE FailAtFee("close")
  /\ UNCHANGED <<fin, others, req, pc, view, res>>

(* Both sides are left empty or rent exempt: a fresh address cannot be     *)
(* sent less than that.  A transfer to oneself moves nothing.              *)
LandSol ==
  /\ req.cmd # "token" /\ tx["pay"].fate = "flying" /\ FeePaid
  /\ LET paid == now.sol - req.fee
         left == IF req.self THEN paid ELSE paid - view.amount
         held == IF req.self THEN now.to ELSE now.to + view.amount
     IN  IF view.amount <= paid /\ KeepsRent(left) /\ (req.self \/ KeepsRent(held))
           THEN /\ Land("pay", "ok", 0, 0)
                /\ now' = [now EXCEPT !.sol = left, !.to = held]
           ELSE FailAtFee("pay")
  /\ UNCHANGED <<fin, others, req, pc, view, res>>

(* The recipient's token account is opened, at the sender's cost, if       *)
(* missing; the sender's own is there.                                     *)
LandToken ==
  /\ req.cmd = "token" /\ tx["pay"].fate = "flying" /\ FeePaid
  /\ \E opened \in IF req.self THEN {0} ELSE {0, 1} :
       LET left == now.sol - req.fee - opened * Rent IN
       IF /\ left >= 0 /\ KeepsRent(left)
          /\ now.acct[req.account] >= view.amount
         THEN /\ Land("pay", "ok", 0, 0)
              /\ now' = [now EXCEPT !.sol = left,
                   !.acct[req.account] = IF req.self THEN @ ELSE @ - view.amount]
         ELSE FailAtFee("pay")
  /\ UNCHANGED <<fin, others, req, pc, view, res>>

Cluster2 ==
  \/ LandClose \/ LandSol \/ LandToken
  \/ \E i \in Sends : (Arrive(i) \/ Expire(i)) /\ UNCHANGED walletVars

SolArrives ==
  /\ KeepsRent(now.sol + OtherAmount)
  /\ now' = [now EXCEPT !.sol = @ + OtherAmount]
SolSpent ==
  /\ now.sol >= OtherAmount /\ KeepsRent(now.sol - OtherAmount)
  /\ now' = [now EXCEPT !.sol = @ - OtherAmount]
RecipientMoves ==
  \E held \in {0, now.to + OtherAmount} :
    KeepsRent(held) /\ now' = [now EXCEPT !.to = held]
TokensArrive ==
  \E a \in Accounts : now.acct[a] # Closed /\ now' = [now EXCEPT !.acct[a] = @ + 1]

Others ==
  /\ others < MaxOthers /\ others' = others + 1
  /\ SolArrives \/ SolSpent \/ RecipientMoves \/ TokensArrive
  /\ UNCHANGED <<fin, req, pc, view, res, submissionVars>>

Finalize ==
  /\ fin' = now
  /\ UNCHANGED <<now, others, req, pc, view, res, submissionVars>>

WalletNext == Command \/ Sending \/ Kill \/ Cluster2 \/ Others \/ Finalize

(* As in Submission: every await of the client ends; nothing is owed by    *)
(* the cluster or by others.                                               *)
WalletSpec ==
  /\ WalletInit /\ [][WalletNext]_vars
  /\ WF_vars(Command) /\ WF_vars(Sending)
-----------------------------------------------------------------------------
(* What the user learns of each transaction.                               *)

(* (Mutant: ATA close failed is read as nothing having been sent.)         *)
SendReportedAtFaceValue(i) ==
  IF call[i] = "idle" \/ (i = "close" /\ ret[i] = "raised")
    THEN "nothing_sent" ELSE Told(ret[i])

SendReported(i) == IF call[i] = "idle" THEN "nothing_sent" ELSE Told(ret[i])

(* A command that ends by an exception reports that, and no transaction    *)
(* before it.                                                              *)
PayRaised == pc = "done" /\ ret["pay"] \in {"too_large", "raised", "unconfirmed", "failed"}

CommandTold(i) ==
  IF pc # "done" THEN "pending"
  ELSE IF res \in {"raised", "killed"} \/ (i = "close" /\ PayRaised) THEN "silent"
  ELSE SendReported(i)

Fate(i) == [j \in {i} |-> Broadcasted(tx[i].fate)]
ToldOf(i) == [j \in {i} |-> CommandTold(i)]

CloseReport == INSTANCE TxReport WITH
  Invocations <- {"close"}, fate <- Fate("close"), told <- ToldOf("close")
PayReport == INSTANCE TxReport WITH
  Invocations <- {"pay"}, fate <- Fate("pay"), told <- ToldOf("pay")

(* PROPERTY. Each transaction of a wallet command is reported as TxReport  *)
(* demands, across the two that drain sends: what it says of the first is  *)
(* said only after the second, and still has to be true then.              *)
WalletImplementsTxReport == CloseReport!ReportSpec /\ PayReport!ReportSpec

(* One account's rent pays for its closing and leaves a wallet rent        *)
(* exempt: so at the commands' default fee of 25000 lamports, not at every *)
(* --priority-fee.                                                         *)
RentCoversFee == Rent >= req.fee + RentExempt

(* Commands that work out for themselves what they can send or close.  A   *)
(* drain's payment may be reckoned without the close before it, and then   *)
(* leaves behind what that returned.                                       *)
Reckons ==
  \/ req.cmd \in {"sweep", "close"}
  \/ req.cmd = "drain" /\ RentCoversFee

(* PROPERTY. With nobody else touching the wallet or the recipient, a      *)
(* sweep, a close or a drain never fails on chain, to a fresh address or a *)
(* used one: in whatever order the two transactions of a drain land, and   *)
(* whether or not the balance it read knew of the first, every account it  *)
(* closes is empty and the payment leaves both sides rent exempt or empty. *)
(* (One too small for a fresh address is never taken into a block: with    *)
(* its fee paid, the wallet would hold just that.)                         *)
UndisturbedSucceeds ==
  others = 0 /\ Reckons => \A i \in Sends : tx[i].fate # "failed"

(* PROPERTY. The number of accounts reported as closed is the number the   *)
(* transaction closes, if it lands; nothing is closed that is not in it.   *)
CountsWhatItCloses ==
  LET gone == Cardinality({a \in Accounts : now.acct[a] = Closed}) IN
  /\ WalletTypeOK
  /\ view.closed > 0 /\ tx["close"].fate = "ok" => view.closed = gone
  /\ tx["close"].fate # "ok" => gone = 0

(* PROPERTY. A drain that reports has warned of every account that held    *)
(* tokens when it began, unless a listing failed.                          *)
WarnsOfTokens ==
  /\ req.cmd = "drain" /\ pc = "done" /\ res \in {"sent", "insufficient_balance"}
  /\ ~view.blind
  => \A a \in Accounts : TokensAtStart[a] > 0 => a \in view.warned

(* PROPERTY. A command ends, whatever becomes of its transactions.         *)
WalletEnds == pc # "idle" ~> pc = "done"

(* REFUTED. README: wallet drain is "Close all ATAs + transfer remaining   *)
(* SOL".  A drain that waits for both transactions and reports both as     *)
(* confirmed leaves the rent it recovered behind: the balance it sweeps is *)
(* the finalized one, from before the close.                               *)
DrainLeavesNothing ==
  /\ req.cmd = "drain" /\ others = 0 /\ pc = "done" /\ res = "sent"
  /\ \A i \in Sends : ret[i] = "confirmed" /\ tx[i].fate = "ok"
  => now.sol = 0
=============================================================================
