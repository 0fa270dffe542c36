----------------------------- MODULE CurveLayout ----------------------------
(***************************************************************************)
(* How protocol/curve.py: parse_bonding_curve reads a curve account of any *)
(* length.  The program has appended fields over time, so the account of   *)
(* an older coin ends before them; extend_account grows one with zeros.    *)
(*                                                                         *)
(* Of the bytes only their number is modelled: an account is its length    *)
(* and what the coin's fields are.                                         *)
(***************************************************************************)
EXTENDS Integers

CONSTANTS
  Nobody,               \* the all-zero key
  NoValue,              \* Python's None
  Garbage               \* bytes from beyond the account's end

Sol == "SOL"

(* The bytes of each optional field: [first, end).                         *)
Bytes ==
  [creator |-> <<49, 81>>, mayhem |-> <<81, 82>>, cashback |-> <<82, 83>>,
   quote |-> <<83, 115>>, creator_fee |-> <<115, 123>>, holder |-> <<124, 125>>]

Optional == DOMAIN Bytes
MinLength == 49

(* What zeros mean to the program: no creator, flags off, SOL, no fee.     *)
Zero ==
  [creator |-> Nobody, mayhem |-> FALSE, cashback |-> FALSE,
   quote |-> Sol, creator_fee |-> 0, holder |-> FALSE]

(* A coin's account of that length can hold all that the coin is.          *)
Fits(coin, length) ==
  /\ length >= MinLength
  /\ \A f \in Optional : Bytes[f][2] > length => coin[f] = Zero[f]

(* (Mutant: the last byte of a field is not asked for.)                    *)
PresentButLast(f, length) == length + 1 >= Bytes[f][2]

(* What the program checks of the length, field by field.                  *)
Present(f, length) == length >= Bytes[f][2]

FieldRead(coin, f, length) ==
  IF Bytes[f][2] <= length THEN coin[f] ELSE Garbage

(* None for what is absent, except the flags that read as False and the    *)
(* quote asset, which normalize_quote_mint reads as SOL.                   *)
Missing == [Zero EXCEPT !.creator = NoValue, !.creator_fee = NoValue, !.holder = NoValue]

Parse(coin, length) ==
  [f \in Optional |-> IF Present(f, length) THEN FieldRead(coin, f, length) ELSE Missing[f]]

(* As pumpfun info shows them: no creator, no fee and no rewards in place  *)
(* of None.                                                                *)
Shown(parsed) ==
  [f \in Optional |-> IF parsed[f] = NoValue THEN Zero[f] ELSE parsed[f]]
=============================================================================
