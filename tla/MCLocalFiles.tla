---------------------------- MODULE MCLocalFiles -----------------------------
(* Three runs, each with any command on either file; two settings, one of  *)
(* them a number, which can be given by flag.  Runs are interchangeable.   *)
EXTENDS LocalFiles, TLC

CONSTANTS p1, p2, p3, rpc, priority_fee, number, word

MCProcs == {p1, p2, p3}
MCNames == {rpc, priority_fee}
MCValues == {number, word}
MCNumeric == {priority_fee}
MCInvalid == {word}
MCOrder == <<rpc, priority_fee>>
MCAsked ==
  [cmd : {"create", "import"}, force : BOOLEAN, given : {{}}]
    \cup [cmd : {"set"}, name : {priority_fee}, value : {number, word}, given : {{}}]
    \cup [cmd : {"set"}, name : {rpc}, value : {word}, given : {{}}]
    \cup [cmd : {"delete"}, name : {rpc}, value : {word}, given : {{}}]
    \cup [cmd : {"delete"}, name : {priority_fee}, value : {word}, given : {{}, {priority_fee}}]
MCSymmetry == Permutations(MCProcs)
=============================================================================
