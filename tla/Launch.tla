------------------------------- MODULE Launch -------------------------------
(***************************************************************************)
(* core/launch.py: launch_token, with the checks of protocol/quote.py it   *)
(* makes before it uploads the coin's metadata and sends one transaction   *)
(* (Submission) that creates the coin and makes the opening buy.           *)
(*                                                                         *)
(* The checks and the opening price come from two accounts of the program, *)
(* Global and the QuoteControl registry, that its admin can change at any  *)
(* moment.  Reads see the last finalized state (fin), the transaction      *)
(* executes on the current one.  External: the program, the admin, the     *)
(* upload service, the wallet's other spending.                            *)
(*                                                                         *)
(* Left out: wallets short of SOL, which nothing checks; programs that     *)
(* disable mayhem coins or creation.                                       *)
(***************************************************************************)
EXTENDS Submission, Quotes

CONSTANTS
  Asks,                 \* what the user of an invocation can ask for
  Programs,             \* the program's settings an admin can choose among
  HeldAtStart,          \* the wallet's tokens in the quote asset
  MaxChanges            \* changes by the admin and others (bound)

Sol == "SOL"
Quoted == {Sol, "USDC", "listed", "other"}
(* Their token program and decimals are known without a read.              *)
KnownQuotes == {Sol, "USDC"}

(* No --creator-fee-bps, which is not a fee of 0.                          *)
NoFee == -1

(* fee: the creator fee asked for; hosted: a --uri was given.              *)
Request == [quote : Quoted, fee : Nat \cup {NoFee}, holder : BOOLEAN, mayhem : BOOLEAN, buy : Nat,
            slippage : 0 .. 100, hosted : BOOLEAN, confirm : BOOLEAN]

(* tokens, solReserves, quoteReserves: the reserves a coin opens with;     *)
(* fee, creator: the fees of a trade; registry: the reserves QuoteControl  *)
(* lists; the other fields are Global's, by its names.                     *)
Program == [holder : BOOLEAN, configurable : BOOLEAN, ceiling : Nat,
            whitelisted : SUBSET Quoted, fee : Nat, creator : Nat, tokens : Nat \ {0},
            solReserves : Nat \ {0}, quoteReserves : Nat \ {0},
            registry : UNION {[listed -> Nat \ {0}] : listed \in SUBSET Quoted}]

(* Errors of the program, by what refuses a launch.                        *)
Rejected == 1           \* the create, or what the buy spends
TooFewTokens == 2       \* the buy's floor

ASSUME LaunchAssumption ==
  /\ Asks \subseteq Request
  /\ \A p \in Programs :
       /\ {p.ceiling, p.fee, p.creator} \subseteq Nat
       /\ {p.tokens, p.solReserves, p.quoteReserves} \subseteq Nat \ {0}
       /\ DOMAIN p.registry \subseteq Quoted \ {Sol}
       /\ \A quote \in DOMAIN p.registry : p.registry[quote] \in Nat \ {0}
       /\ p.fee + p.creator <= Bps /\ p.fee + p.ceiling <= Bps
  /\ {HeldAtStart, MaxChanges} \subseteq Nat
  /\ {Rejected, TooFewTokens} \subseteq Codes

VARIABLES
  program,              \* the settings: [now, fin]
  held,                 \* the wallet's tokens in the quote asset: [now, fin]
  changes,              \* changes by others so far
  req,                  \* req[i]: what i was asked
  pc,                   \* pc[i]: the read i awaits, or "upload" or "submit"
  view,                 \* view[i]: what i has read
  res,                  \* res[i]: the result of the command
  uploaded,             \* uploaded[i]: has an upload been started (history)
  sent,                 \* sent[i]: the opening buy sent, see NoBuy
  met                   \* met[i]: what i's transaction met on chain (history)

launchVars == <<program, held, changes, req, pc, view, res, uploaded, sent, met>>
vars == <<submissionVars, launchVars>>

NoBuy == [expected |-> 0, floor |-> 0]
(* Global and QuoteControl are read one after the other.                   *)
View == [global : Programs, control : Programs, held : Nat]
Met == [program : Programs, held : Nat, rate : Nat]

LaunchTypeOK ==
  /\ TypeOK
  /\ program \in [now : Programs, fin : Programs]
  /\ held \in [now : Nat, fin : Nat]
  /\ changes \in 0 .. MaxChanges
  /\ req \in [Invocations -> Asks]
  /\ pc \in [Invocations -> {"idle", "global", "control", "mint", "held", "upload",
                             "submit", "done"}]
  /\ view \in [Invocations -> View]
  /\ res \in [Invocations -> {"none", "refused", "raised", "ipfs_failed", "sent", "killed"}]
  /\ uploaded \in [Invocations -> BOOLEAN]
  /\ sent \in [Invocations -> [expected : Nat, floor : Nat \ {0}] \cup {NoBuy}]
  /\ met \in [Invocations -> Met]

LaunchInit ==
  /\ SubmissionInit
  /\ \E p \in Programs : program = [now |-> p, fin |-> p]
  /\ held = [now |-> HeldAtStart, fin |-> HeldAtStart]
  /\ changes = 0
  /\ req \in [Invocations -> Asks]
  /\ pc = [i \in Invocations |-> "idle"]
  /\ view = [i \in Invocations |-> [global |-> program.fin, control |-> program.fin, held |-> 0]]
  /\ res = [i \in Invocations |-> "none"]
  /\ uploaded = [i \in Invocations |-> FALSE]
  /\ sent = [i \in Invocations |-> NoBuy]
  /\ met = [i \in Invocations |-> [program |-> program.fin, held |-> 0, rate |-> 0]]

-----------------------------------------------------------------------------
(* The command.                                                            *)

At(i, where) == pc[i] = where /\ UNCHANGED <<program, held, changes, req, met>>

Goto(i, where) ==
  /\ pc' = [pc EXCEPT ![i] = where]
  /\ UNCHANGED <<res, uploaded, sent, submissionVars>>

Finish(i, result) ==
  /\ pc' = [pc EXCEPT ![i] = "done"]
  /\ res' = [res EXCEPT ![i] = result]
  /\ UNCHANGED <<uploaded, sent, submissionVars>>

(* The creator fee that opening_buy_tokens reckons with.                   *)
CreatorRate(global, fee) == IF fee = NoFee THEN global.creator ELSE fee

(* opening_quote_reserves, for a mint that one of the two admits; a        *)
(* registry entry goes before Global's figure.                             *)
OpeningReserves(global, registry, quote) ==
  IF quote = Sol THEN global.solReserves
  ELSE IF quote \in DOMAIN registry THEN registry[quote]
  ELSE global.quoteReserves

(* (Mutant: the creator's share of the fee is forgotten.)                  *)
OpeningBuyTokensLessFee(v, q) ==
  BuyTokensOut(v.global.tokens, OpeningReserves(v.global, v.control.registry, q.quote),
               AfterFee(q.buy, v.global.fee))

OpeningBuyTokens(v, q) ==
  BuyTokensOut(v.global.tokens, OpeningReserves(v.global, v.control.registry, q.quote),
               AfterFee(q.buy, v.global.fee + CreatorRate(v.global, q.fee)))

(* (Mutant: a buy too small for the percentage asks for nothing.)          *)
MinTokensOutUnclamped(expected, slippage) == FloorUnclamped(expected, slippage)

MinTokensOut(expected, slippage) == Floor(expected, slippage)

(* A new mint key pair is made, and one transaction sent, priced by what   *)
(* has been read.                                                          *)
Send(i, v) ==
  /\ pc' = [pc EXCEPT ![i] = "submit"]
  /\ sent' = [sent EXCEPT ![i] =
       IF req[i].buy = 0 THEN NoBuy
       ELSE LET expected == OpeningBuyTokens(v, req[i])
            IN  [expected |-> expected, floor |-> MinTokensOut(expected, req[i].slippage)]]
  /\ SendTx(i, IF req[i].confirm THEN "confirm" ELSE "send")
  /\ UNCHANGED res

(* The metadata is uploaded unless it is hosted already.                   *)
UploadOrSend(i, v) ==
  IF req[i].hosted THEN Send(i, v) /\ UNCHANGED uploaded
  ELSE /\ pc' = [pc EXCEPT ![i] = "upload"]
       /\ uploaded' = [uploaded EXCEPT ![i] = TRUE]
       /\ UNCHANGED <<res, sent, submissionVars>>

AfterMint(i, v) ==
  IF req[i].buy > 0 /\ req[i].quote # Sol THEN Goto(i, "held") ELSE UploadOrSend(i, v)

AfterChecks(i, v) ==
  IF req[i].quote \in KnownQuotes THEN AfterMint(i, v) ELSE Goto(i, "mint")

(* Bad options, a bad quote mint, no RPC endpoint, a wrong password.       *)
Refuse(i) == At(i, "idle") /\ Finish(i, "refused") /\ UNCHANGED view

(* check_mayhem_quote raises before anything is read.                      *)
Start(i) ==
  /\ At(i, "idle")
  /\ IF req[i].mayhem /\ req[i].quote # Sol THEN Finish(i, "refused") ELSE Goto(i, "global")
  /\ UNCHANGED view

(* On SOL, with no creator fee or one of 0, no check looks at the registry.*)
ReadGlobal(i) ==
  /\ At(i, "global")
  /\ LET v == [view[i] EXCEPT !.global = program.fin] IN
     /\ view' = [view EXCEPT ![i] = v]
     /\ IF req[i].holder /\ ~v.global.holder THEN Finish(i, "refused")
        ELSE IF req[i].quote # Sol \/ req[i].fee > 0 THEN Goto(i, "control")
        ELSE AfterChecks(i, v)

(* (Mutant: the registry is not asked whether the fee will take effect.)   *)
FeeRefusedByCeiling(v, q) ==
  q.fee > 0 /\ (~v.global.configurable \/ q.fee > v.global.ceiling)

(* check_creator_fee                                                       *)
FeeRefused(v, q) ==
  /\ q.fee > 0
  /\ ~v.global.configurable \/ q.fee > v.global.ceiling
     \/ q.quote \notin DOMAIN v.control.registry

Admitted(v, quote) ==
  quote = Sol \/ quote \in DOMAIN v.control.registry \/ quote \in v.global.whitelisted

ReadControl(i) ==
  /\ At(i, "control")
  /\ LET v == [view[i] EXCEPT !.control = program.fin] IN
     /\ view' = [view EXCEPT ![i] = v]
     /\ IF FeeRefused(v, req[i]) \/ ~Admitted(v, req[i].quote) THEN Finish(i, "refused")
        ELSE AfterChecks(i, v)

ReadMint(i) == At(i, "mint") /\ AfterMint(i, view[i]) /\ UNCHANGED view

(* A failed read of the wallet's tokens is a zero.                         *)
ReadHeld(i) ==
  /\ At(i, "held")
  /\ \E seen \in {held.fin, 0} :
       /\ view' = [view EXCEPT ![i].held = seen]
       /\ IF seen < req[i].buy THEN Finish(i, "refused") ELSE UploadOrSend(i, view[i])

Upload(i) ==
  /\ At(i, "upload")
  /\ \/ Send(i, view[i]) /\ UNCHANGED uploaded
     \/ Finish(i, "ipfs_failed")
  /\ UNCHANGED view

(* Any other failed read, or an upload answered with no JSON.              *)
ReadRaises(i) ==
  /\ pc[i] \in {"global", "control", "mint", "upload"}
  /\ At(i, pc[i]) /\ Finish(i, "raised") /\ UNCHANGED view

Conclude(i) == At(i, "submit") /\ call[i] = "done" /\ Finish(i, "sent") /\ UNCHANGED view

Command(i) ==
  \/ Refuse(i) \/ Start(i) \/ ReadGlobal(i) \/ ReadControl(i) \/ ReadMint(i) \/ ReadHeld(i)
  \/ Upload(i) \/ ReadRaises(i) \/ Conclude(i)

Sending(i) == pc[i] = "submit" /\ ClientStep(i) /\ UNCHANGED launchVars

Kill(i) ==
  /\ pc[i] \notin {"idle", "done"}
  /\ IF pc[i] = "submit" /\ call[i] # "done" THEN Interrupt(i) ELSE UNCHANGED submissionVars
  /\ pc' = [pc EXCEPT ![i] = "done"] /\ res' = [res EXCEPT ![i] = "killed"]
  /\ UNCHANGED <<program, held, changes, req, view, uploaded, sent, met>>

-----------------------------------------------------------------------------
(* The program and the others (external).                                  *)

(* Why a program refuses a launch, as the checks of the client tell it.    *)
Rejects(p, tokens, q) ==
  \/ q.mayhem /\ q.quote # Sol
  \/ q.holder /\ ~p.holder
  \/ q.fee > 0 /\ (~p.configurable \/ q.fee > p.ceiling)
  \/ q.quote \notin {Sol} \cup DOMAIN p.registry \cup p.whitelisted
  \/ q.quote # Sol /\ q.buy > tokens

(* It applies a creator fee on the coins of its registry only.             *)
Ignores(p, q) == q.fee > 0 /\ q.quote \notin DOMAIN p.registry

(* The creator fee it may charge.  A fee of 0 it may take for none: from a *)
(* holder-reward coin it gets the same bytes for both.                     *)
AppliedRates(p, q) ==
  IF q.fee > 0 /\ ~Ignores(p, q) THEN {q.fee}
  ELSE {p.creator} \cup (IF q.fee = 0 THEN {0} ELSE {})

(* The most that a buy, less its fees, can take out at the opening         *)
(* reserves without lessening their product.                               *)
Pays(p, q, rate) ==
  LET quote == OpeningReserves(p, p.registry, q.quote)
      in == AfterFee(q.buy, p.fee + rate)
      fair == {t \in 0 .. p.tokens : (p.tokens - t) * (quote + in) >= p.tokens * quote}
  IN  CHOOSE t \in fair : \A s \in fair : s <= t

Execute(i) ==
  LET p == program.now
      q == req[i]
  IN
  /\ \E rate \in AppliedRates(p, q) :
       LET pays == Pays(p, q, rate) IN
       /\ met' = [met EXCEPT ![i] = [program |-> p, held |-> held.now, rate |-> rate]]
       /\ IF Rejects(p, held.now, q) THEN Land(i, "failed", Rejected, 0) /\ UNCHANGED held
          ELSE IF q.buy > 0 /\ pays < sent[i].floor
            THEN Land(i, "failed", TooFewTokens, 0) /\ UNCHANGED held
          ELSE /\ Land(i, "ok", 0, pays)
               /\ held' = [held EXCEPT !.now = IF q.quote = Sol THEN @ ELSE @ - q.buy]
  /\ UNCHANGED <<program, changes, req, pc, view, res, uploaded, sent>>

Others ==
  /\ changes < MaxChanges /\ changes' = changes + 1
  /\ \/ \E p \in Programs : program' = [program EXCEPT !.now = p] /\ UNCHANGED held
     \/ held.now > 0 /\ held' = [held EXCEPT !.now = @ - 1] /\ UNCHANGED program
  /\ UNCHANGED <<req, pc, view, res, uploaded, sent, met, submissionVars>>

Finalize ==
  /\ program' = [program EXCEPT !.fin = program.now]
  /\ held' = [held EXCEPT !.fin = held.now]
  /\ UNCHANGED <<changes, req, pc, view, res, uploaded, sent, met, submissionVars>>

LaunchNext ==
  \/ \E i \in Invocations :
       \/ Command(i) \/ Sending(i) \/ Kill(i) \/ Execute(i)
       \/ (Arrive(i) \/ Expire(i)) /\ UNCHANGED launchVars
  \/ Others \/ Finalize

LaunchSpec == LaunchInit /\ [][LaunchNext]_vars
-----------------------------------------------------------------------------
(* (Mutant: what raises, a wait that timed out too, reads as nothing sent.) *)
CommandToldNothing(result, kind) ==
  CASE result = "none" -> "pending"
    [] result = "killed" -> "silent"
    [] result = "sent" -> IF kind = "unconfirmed" THEN "nothing_sent" ELSE Told(kind)
    [] result \in {"refused", "ipfs_failed", "raised"} -> "nothing_sent"

(* What the user learns from how the command, and its send_tx, ended.      *)
CommandTold(result, kind) ==
  CASE result = "none" -> "pending"
    [] result \in {"killed", "raised"} -> "silent"
    [] result = "sent" -> Told(kind)
    [] result \in {"refused", "ipfs_failed"} -> "nothing_sent"

LaunchReport == INSTANCE TxReport WITH
  fate <- [i \in Invocations |-> Broadcasted(tx[i].fate)],
  told <- [i \in Invocations |-> CommandTold(res[i], ret[i])]

(* PROPERTY. A launch reports its transaction as TxReport demands.         *)
LaunchImplementsTxReport == LaunchReport!ReportSpec

(* Did the settings differ from those read, at one of the reads.           *)
SettingsMoved(i) ==
  \/ met[i].program # view[i].global
  \/ (req[i].quote # Sol \/ req[i].fee > 0) /\ met[i].program # view[i].control

(* PROPERTY. Nothing is uploaded or sent that the program, as the checks   *)
(* saw it, would reject or silently ignore (comment in launch_token); and  *)
(* what it does reject or ignore on chain has changed since, or the        *)
(* wallet's tokens were spent.                                             *)
RefusesBeforeUploading ==
  \A i \in Invocations :
    /\ (uploaded[i] \/ posts[i] > 0) /\ (req[i].quote # Sol => view[i].global = view[i].control)
         => /\ ~Rejects(view[i].global, view[i].held, req[i])
            /\ ~Ignores(view[i].control, req[i])
    /\ tx[i].code = Rejected \/ (tx[i].fate = "ok" /\ Ignores(met[i].program, req[i]))
         => SettingsMoved(i) \/ met[i].held < view[i].held

(* Was a creator fee of 0 charged as if none had been given.               *)
ZeroAsNone(i) == req[i].fee = 0 /\ met[i].rate # 0

(* PROPERTY. The opening buy receives what was printed as expected, to the *)
(* unit, as nobody can buy in between (docstring of launch_token); if the  *)
(* settings changed it receives what the slippage leaves of that, or fails *)
(* as a whole.  A buy too small for one token fails.  The exception: a     *)
(* creator fee of 0 that the program takes for none, which costs more.     *)
OpeningBuyAsEstimated ==
  /\ LaunchTypeOK
  /\ \A i \in Invocations : req[i].buy > 0 =>
     /\ tx[i].fate = "ok" =>
          /\ tx[i].got * 100 > sent[i].expected * (100 - req[i].slippage) - 100
          /\ tx[i].got = sent[i].expected \/ SettingsMoved(i) \/ ZeroAsNone(i)
     /\ tx[i].code = TooFewTokens
          => SettingsMoved(i) \/ sent[i].expected = 0 \/ ZeroAsNone(i)
=============================================================================
