------------------------------ MODULE MCPayouts -----------------------------
(* Two invocations whose commands can get in each other's way, one waiting *)
(* and one not, in SOL or in a token; a live curve, an accumulator, fees   *)
(* in the vault of pump.fun, none yet in that of PumpSwap; one move of     *)
(* others; a wallet with SOL for new accounts, or without.                 *)
EXTENDS Payouts, TLC

CONSTANTS i1, i2

MCInvocations == {i1, i2}
Ask(first, second, sol, funded) ==
  (i1 :> [cmd |-> first, sol |-> sol, funded |-> funded, confirm |-> TRUE])
  @@ (i2 :> [cmd |-> second, sol |-> sol, funded |-> funded, confirm |-> FALSE])

MCAsks ==
  {Ask("collect", "collect", TRUE, TRUE), Ask("collect", "collect", FALSE, TRUE),
   Ask("collect", "claim", FALSE, FALSE), Ask("collect", "migrate", TRUE, FALSE),
   Ask("claim", "close", TRUE, TRUE), Ask("close", "claim", FALSE, TRUE),
   Ask("migrate", "migrate", TRUE, TRUE), Ask("migrate", "close", TRUE, TRUE)}
=============================================================================
