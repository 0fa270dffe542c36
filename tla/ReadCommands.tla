---------------------------- MODULE ReadCommands ----------------------------
(***************************************************************************)
(* The commands that read and send nothing: one run of a listing           *)
(* (TokenLists) or of pumpfun info (TokenInfo), against what changes under *)
(* it.                                                                     *)
(***************************************************************************)
EXTENDS TokenInfo, TokenLists

VARIABLE command
readVars == <<command, walkVars, infoVars, listVars>>

(* What the command that is not run was asked does not matter.             *)
InfoIdle == coin = (CHOOSE c \in Coins : TRUE) /\ curve.length = 0
ListIdle == board = (CHOOSE b \in BoardsAtStart : TRUE) /\ ask = (CHOOSE q \in Asks : TRUE)

ReadInit ==
  /\ WalkInit /\ InfoInit /\ ListInit
  /\ \/ command = "list" /\ InfoIdle
     \/ command = "info" /\ ListIdle

Step ==
  \/ command = "list" /\ ListStep /\ UNCHANGED <<command, walkVars, infoVars>>
  \/ command = "info" /\ InfoStep /\ UNCHANGED <<command, listVars>>

World ==
  \/ command = "list" /\ BoardMoves /\ UNCHANGED <<command, walkVars, infoVars>>
  \/ command = "info" /\ InfoWorld /\ UNCHANGED <<command, listVars>>

ReadNext == Step \/ World

ReadSpec == ReadInit /\ [][ReadNext]_readVars
=============================================================================
