------------------------------ MODULE MCLaunch ------------------------------
(* One launch of any kind.  The admin can change each setting that a check *)
(* or the price looks at, on its own; the figures are scaled down so that  *)
(* a buy moves the price and the fees round.                               *)
EXTENDS Launch, TLC

CONSTANT i1

MCInvocations == {i1}

Usual == [holder |-> TRUE, configurable |-> TRUE, ceiling |-> 800,
          whitelisted |-> {"USDC"}, fee |-> 100, creator |-> 500, tokens |-> 300,
          solReserves |-> 30, quoteReserves |-> 45, registry |-> ("listed" :> 12)]

MCPrograms ==
  {Usual, [Usual EXCEPT !.holder = FALSE, !.ceiling = 600, !.creator = 2500],
   [Usual EXCEPT !.configurable = FALSE, !.whitelisted = {}, !.solReserves = 31,
                 !.registry = "listed" :> 14],
   [Usual EXCEPT !.whitelisted = {"USDC", "listed"}, !.registry = <<>>]}

MCAsks ==
  [quote : Quoted, fee : {NoFee, 700}, holder : BOOLEAN, mayhem : {FALSE}, buy : {0, 7},
   slippage : {5}, hosted : {FALSE}, confirm : {TRUE}]
  \cup [quote : {Sol, "USDC"}, fee : {NoFee}, holder : {FALSE}, mayhem : BOOLEAN, buy : {1, 8},
        slippage : {5, 100}, hosted : {TRUE}, confirm : BOOLEAN]
  \cup [quote : {Sol, "listed"}, fee : {0}, holder : {FALSE}, mayhem : {FALSE}, buy : {7},
        slippage : {5, 30}, hosted : {TRUE}, confirm : {FALSE}]
=============================================================================
