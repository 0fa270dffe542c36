------------------------------ MODULE MCWallet -------------------------------
(* One command of every kind, on a wallet with three token accounts under  *)
(* the two programs, one of them not empty, and a batch of one less than   *)
(* the empty ones can be; a fresh recipient, one with an account, and the  *)
(* wallet itself; one move of others.  Of 12 SOL and a least balance of 3, *)
(* fees of 2 (which one account's rent covers), of 6 (which it does not)   *)
(* and of 10 (which leaves too little to hold, or to open an account with).*)
EXTENDS WalletFunds, TLC

CONSTANTS full, empty1, empty2

MCAccounts == {full, empty1, empty2}
MCProgramOf == (full :> 1) @@ (empty1 :> 1) @@ (empty2 :> 2)
MCTokensAtStart == (full :> 3) @@ (empty1 :> 0) @@ (empty2 :> 0)
MCOversize == {}

Ask(cmds, all, amounts, selfs, fees) ==
  [cmd : cmds, confirm : BOOLEAN, all : {all}, amount : amounts, account : {full},
   self : selfs, fee : fees]

MCRequests ==
  Ask({"transfer"}, FALSE, {2, 8}, BOOLEAN, {2})
  \cup Ask({"sweep"}, FALSE, {0}, BOOLEAN, {2, 10})
  \cup Ask({"close"}, FALSE, {0}, {FALSE}, {2, 6})
  \cup Ask({"drain"}, FALSE, {0}, {FALSE}, {2, 6})
  \cup Ask({"drain"}, FALSE, {0}, {TRUE}, {2})
  \cup Ask({"token"}, TRUE, {0}, {FALSE}, {2})
  \cup Ask({"token"}, FALSE, {0, 2}, BOOLEAN, {2})
=============================================================================
