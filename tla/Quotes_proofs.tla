---------------------------- MODULE Quotes_proofs ---------------------------
(***************************************************************************)
(* Lemmas about the quotes and the floors, for all reserves, amounts, fees *)
(* and percentages.  Everything rests on the two bounds of a floor         *)
(* division.                                                               *)
(***************************************************************************)
EXTENDS Quotes, TLAPS

(* The floor of a quotient: the largest multiple that fits.                *)
LEMMA DivBounds ==
  ASSUME NEW x \in Nat, NEW d \in Nat \ {0}
  PROVE  /\ x \div d \in Nat
         /\ (x \div d) * d <= x
         /\ x < ((x \div d) + 1) * d
  OBVIOUS

(* Amounts times reserves stay natural numbers.                            *)
LEMMA ProductNat ==
  ASSUME NEW x \in Nat, NEW y \in Nat
  PROVE  x * y \in Nat
  OBVIOUS

(* A buy pays the most that keeps the product of the reserves.             *)
LEMMA BuyTight ==
  ASSUME NEW b \in Nat \ {0}, NEW q \in Nat \ {0}, NEW a \in Nat
  PROVE  LET t == BuyTokensOut(b, q, a)
         IN  /\ t \in Nat /\ t < b
             /\ (b - t) * (q + a) >= b * q
             /\ (b - t - 1) * (q + a) < b * q
<1> DEFINE t == (a * b) \div (q + a)
<1>1. a * b \in Nat /\ q + a \in Nat \ {0}
  BY ProductNat
<1>2. t \in Nat /\ t * (q + a) <= a * b /\ a * b < (t + 1) * (q + a)
  BY <1>1, DivBounds
<1> HIDE DEF t
<1>3. (b - t) * (q + a) = b * q + (a * b - t * (q + a))
  BY <1>2
<1>4. (b - t - 1) * (q + a) = b * q + (a * b - (t + 1) * (q + a))
  BY <1>2
<1>5. (b - t) * (q + a) >= b * q /\ (b - t - 1) * (q + a) < b * q
  BY <1>1, <1>2, <1>3, <1>4
<1>6. t < b
  <2>1. b * q > 0
    OBVIOUS
  <2>2. (b - t) * (q + a) > 0
    BY <1>2, <1>5, <2>1
  <2>. QED
    BY <1>2, <2>2
<1>. QED
  BY <1>2, <1>5, <1>6 DEF t, BuyTokensOut

(* A sell is the same quote with the reserves exchanged.                   *)
LEMMA SellTight ==
  ASSUME NEW b \in Nat \ {0}, NEW q \in Nat \ {0}, NEW a \in Nat
  PROVE  LET g == SellQuoteOut(b, q, a)
         IN  /\ g \in Nat /\ g < q
             /\ (b + a) * (q - g) >= b * q
             /\ (b + a) * (q - g - 1) < b * q
<1>1. SellQuoteOut(b, q, a) = BuyTokensOut(q, b, a)
  BY DEF SellQuoteOut, BuyTokensOut
<1> DEFINE g == BuyTokensOut(q, b, a)
<1>2. /\ g \in Nat /\ g < q
      /\ (q - g) * (b + a) >= q * b
      /\ (q - g - 1) * (b + a) < q * b
  BY BuyTight
<1> HIDE DEF g
<1>3. /\ (q - g) * (b + a) = (b + a) * (q - g)
      /\ (q - g - 1) * (b + a) = (b + a) * (q - g - 1)
      /\ q * b = b * q
  BY <1>2
<1>. QED
  BY <1>1, <1>2, <1>3 DEF g

(* A fee takes something between nothing and everything.                   *)
LEMMA FeeBounds ==
  ASSUME NEW n \in Nat, NEW f \in 0 .. Bps
  PROVE  AfterFee(n, f) \in 0 .. n
<1> DEFINE x == n * (Bps - f)
<1>1. x \in Nat /\ x <= n * 10000
  BY ProductNat DEF Bps
<1> HIDE DEF x
<1>2. x \div 10000 \in Nat /\ (x \div 10000) * 10000 <= x
  BY <1>1, DivBounds
<1>3. x \div 10000 <= n
  BY <1>1, <1>2
<1>. QED
  BY <1>2, <1>3 DEF x, AfterFee, Bps

(* The floors of an estimate: positive, no more than it, and within the    *)
(* slippage, less a unit.                                                  *)
LEMMA FloorBounds ==
  ASSUME NEW out \in Nat, NEW s \in 0 .. 100
  PROVE  /\ Floor(out, s) \in 1 .. AtLeastOne(out)
         /\ Floor(out, s) * 100 > out * (100 - s) - 100
         /\ \A f \in CurveSellFloors(out, s) :
              f \in 1 .. AtLeastOne(out) /\ f * 100 >= out * (100 - s) - 100
<1> DEFINE x == out * (100 - s)
           n == x \div 100
<1>1. x \in Nat /\ x <= out * 100
  BY ProductNat
<1> HIDE DEF x
<1>2. n \in Nat /\ n * 100 <= x /\ x < (n + 1) * 100 /\ (x % 100 = 0 => n * 100 = x)
  BY <1>1, DivBounds
<1> HIDE DEF n
<1>3. n <= out /\ n * 100 > x - 100
  BY <1>1, <1>2
<1>4. Floor(out, s) = AtLeastOne(n)
  BY DEF Floor, n, x
<1>5. \A f \in CurveSellFloors(out, s) :
        f = AtLeastOne(n) \/ (f = AtLeastOne(n - 1) /\ n * 100 = x)
  <2>1. CASE x % 100 = 0
    <3>1. CurveSellFloors(out, s) = {AtLeastOne(k) : k \in {n} \cup {n - 1}}
      BY <2>1 DEF CurveSellFloors, n, x
    <3>. QED
      BY <1>2, <2>1, <3>1
  <2>2. CASE x % 100 # 0
    <3>1. CurveSellFloors(out, s) = {AtLeastOne(k) : k \in {n} \cup {}}
      BY <2>2 DEF CurveSellFloors, n, x
    <3>. QED
      BY <3>1
  <2>. QED
    BY <2>1, <2>2
<1>6. /\ AtLeastOne(n) \in 1 .. AtLeastOne(out) /\ AtLeastOne(n) * 100 > x - 100
      /\ AtLeastOne(n - 1) \in 1 .. AtLeastOne(out)
      /\ n * 100 = x => AtLeastOne(n - 1) * 100 >= x - 100
  BY <1>1, <1>2, <1>3 DEF AtLeastOne
<1>. QED
  BY <1>1, <1>4, <1>5, <1>6 DEF x

(* A curve buy's is that floor or one more, and never above the estimate.  *)
LEMMA CurveBuyFloorBounds ==
  ASSUME NEW out \in Nat, NEW s \in 0 .. 100, NEW f \in CurveBuyFloors(out, s)
  PROVE  /\ f \in 1 .. AtLeastOne(out)
         /\ f * 100 > out * (100 - s) - 100
         /\ f <= Floor(out, s) + 1
<1> DEFINE x == out * (100 - s)
           n == x \div 100
<1>1. x \in Nat /\ x <= out * 100 /\ (s >= 1 => x <= out * 99) /\ (s = 0 => x = out * 100)
  BY ProductNat
<1>2. f = AtLeastOne(n) \/ (f = AtLeastOne(n + 1) /\ x % 100 >= 94)
  <2>1. f \in {AtLeastOne(k) : k \in {n} \cup (IF x % 100 >= 94 THEN {n + 1} ELSE {})}
    BY DEF CurveBuyFloors
  <2>. QED
    BY <2>1
<1>3. Floor(out, s) = AtLeastOne(n)
  BY DEF Floor
<1> HIDE DEF x
<1>4. n \in Nat /\ n * 100 <= x /\ x < (n + 1) * 100 /\ (x % 100 >= 94 => n * 100 + 94 <= x)
  BY <1>1, DivBounds
<1> HIDE DEF n
<1>5. n <= out /\ n * 100 > x - 100
  BY <1>1, <1>4
<1>6. x % 100 >= 94 => n + 1 <= out
  <2>1. s = 0 => x % 100 = 0
    BY <1>1
  <2>. QED
    BY <1>1, <1>4, <2>1
<1>7. /\ f \in 1 .. AtLeastOne(out) /\ f * 100 > x - 100 /\ f <= AtLeastOne(n) + 1
  BY <1>1, <1>2, <1>4, <1>5, <1>6 DEF AtLeastOne
<1>. QED
  BY <1>3, <1>7 DEF x

(* Why those floors: the quotient n / 100 becomes the nearest multiple r   *)
(* of 1 / q, where q is at least 8 for a double below 2^50, and is then    *)
(* truncated.                                                              *)
THEOREM FloatBuyFloor ==
  ASSUME NEW out \in Nat, NEW s \in 0 .. 100, NEW q \in Nat, q >= 8, NEW r \in Nat,
         r * 100 - out * (100 - s) * q \in -50 .. 50
  PROVE  AtLeastOne(r \div q) \in CurveBuyFloors(out, s)
<1> DEFINE x == out * (100 - s)
           n == x \div 100
           f == r \div q
<1>1. x \in Nat
  BY ProductNat
<1>2. /\ AtLeastOne(n) \in CurveBuyFloors(out, s)
      /\ x % 100 >= 94 => AtLeastOne(n + 1) \in CurveBuyFloors(out, s)
  BY DEF CurveBuyFloors
<1>3. r * 100 - x * q \in -50 .. 50
  OBVIOUS
<1> HIDE DEF x
<1>4. n \in Nat /\ n * 100 <= x /\ x < (n + 1) * 100 /\ x = n * 100 + (x % 100) /\ x % 100 \in 0 .. 99
  BY <1>1, DivBounds
<1>5. f \in Nat /\ f * q <= r /\ r < (f + 1) * q
  BY DivBounds
<1> HIDE DEF n, f
<1> DEFINE m == x % 100
<1>6. x * q = (n * q) * 100 + m * q /\ m \in 0 .. 99
  BY <1>1, <1>4
<1> HIDE DEF m
<1>7. n * q \in Nat /\ m * q \in Nat /\ m * q <= 99 * q /\ f * q \in Nat /\ x * q \in Nat
  BY <1>1, <1>4, <1>5, <1>6, ProductNat
<1>8. r >= n * q
  BY <1>3, <1>6, <1>7
<1>9. r <= (n + 1) * q
  <2>1. (n + 1) * q = n * q + q
    BY <1>4
  <2>. QED
    BY <1>3, <1>6, <1>7, <2>1
<1>10. f = n \/ (f = n + 1 /\ r = (n + 1) * q)
  <2>1. f >= n
    <3>1. SUFFICES ASSUME f + 1 <= n PROVE FALSE
      BY <1>4, <1>5
    <3>2. (f + 1) * q <= n * q
      BY <1>4, <1>5, <3>1
    <3>. QED
      BY <1>5, <1>7, <1>8, <3>2
  <2>2. f <= n + 1 /\ (f = n + 1 => r = (n + 1) * q)
    <3>1. SUFFICES ASSUME f >= n + 1 PROVE f = n + 1 /\ r = (n + 1) * q
      BY <1>4, <1>5
    <3>2. f >= n + 2 => f * q >= (n + 2) * q
      BY <1>4, <1>5
    <3>3. (n + 2) * q > (n + 1) * q /\ f * q >= (n + 1) * q
      BY <1>4, <1>5, <3>1
    <3>. QED
      BY <1>4, <1>5, <1>9, <3>1, <3>2, <3>3
  <2>. QED
    BY <1>4, <1>5, <2>1, <2>2
<1>11. r = (n + 1) * q => m >= 94
  <2>1. SUFFICES ASSUME r = (n + 1) * q, m <= 93 PROVE FALSE
    BY <1>6
  <2>2. r * 100 = (n * q) * 100 + q * 100
    BY <1>4, <2>1
  <2>3. m * q <= 93 * q
    BY <1>6, <2>1
  <2>. QED
    BY <1>3, <1>6, <1>7, <2>2, <2>3
<1>. QED
  BY <1>2, <1>10, <1>11 DEF f, m

(* Whichever floor is sent with a trade, it asks for something and honours *)
(* the tolerance.                                                          *)
LEMMA FloorHonours ==
  ASSUME NEW out \in Nat, NEW s \in 0 .. 100,
         NEW f \in CurveSellFloors(out, s) \cup CurveBuyFloors(out, s) \cup {Floor(out, s)}
  PROVE  f \in Nat /\ f >= 1 /\ f * 100 >= out * (100 - s) - 100
<1>1. AtLeastOne(out) \in Nat
  BY DEF AtLeastOne
<1>2. f \in 1 .. AtLeastOne(out) /\ f * 100 >= out * (100 - s) - 100
  <2> DEFINE x == out * (100 - s)
  <2>1. x \in Nat
    BY ProductNat
  <2>2. /\ Floor(out, s) \in 1 .. AtLeastOne(out) /\ Floor(out, s) * 100 > x - 100
        /\ \A g \in CurveSellFloors(out, s) :
             g \in 1 .. AtLeastOne(out) /\ g * 100 >= x - 100
        /\ \A g \in CurveBuyFloors(out, s) :
             g \in 1 .. AtLeastOne(out) /\ g * 100 > x - 100
    BY FloorBounds, CurveBuyFloorBounds
  <2> HIDE DEF x
  <2>3. f \in 1 .. AtLeastOne(out) /\ f * 100 >= x - 100
    BY <1>1, <2>1, <2>2
  <2>. QED
    BY <2>3 DEF x
<1>. QED
  BY <1>1, <1>2

(* The quotes of naturals are naturals.                                    *)
LEMMA BuyNat ==
  ASSUME NEW b \in Nat, NEW q \in Nat, NEW a \in Nat, q + a # 0
  PROVE  BuyTokensOut(b, q, a) \in Nat
<1>1. a * b \in Nat /\ q + a \in Nat \ {0}
  BY ProductNat
<1>. QED
  BY <1>1, DivBounds DEF BuyTokensOut

(* So is a sell's quote a natural, when the base reserve can grow to       *)
(* something.                                                              *)
LEMMA SellNat ==
  ASSUME NEW b \in Nat, NEW q \in Nat, NEW a \in Nat, b + a # 0
  PROVE  SellQuoteOut(b, q, a) \in Nat
<1>1. a * q \in Nat /\ b + a \in Nat \ {0}
  BY ProductNat
<1>. QED
  BY <1>1, DivBounds DEF SellQuoteOut

=============================================================================
