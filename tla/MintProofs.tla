----------------------------- MODULE MintProofs -----------------------------
(***************************************************************************)
(* Proofs about x/mint, for every precision One, every genesis and every   *)
(* set of parameters the authority may ask for.                            *)
(***************************************************************************)
EXTENDS Mint, TLAPS

-----------------------------------------------------------------------------
(* Arithmetic.                                                             *)

LEMMA ProductType == \A a, b \in Int : a * b \in Int
  OBVIOUS

LEMMA ProductSign == \A a, b \in Nat : a * b \in Nat
  OBVIOUS

LEMMA ProductOrder == \A a, b \in Int, c \in Nat : a <= b => a * c <= b * c
  <1>1. SUFFICES ASSUME NEW a \in Int, NEW b \in Int, NEW c \in Nat, a <= b
                 PROVE  a * c <= b * c
    OBVIOUS
  <1>2. (b - a) * c \in Nat
    <2>1. b - a \in Nat
      BY <1>1
    <2>2. QED
      BY <2>1, ProductSign
  <1>3. (b - a) * c = b * c - a * c
    OBVIOUS
  <1>4. QED
    BY <1>2, <1>3, ProductType

(* A common factor that is positive may be left out of an inequality. *)
LEMMA CancelFactor ==
    \A a, b \in Int, c \in Nat \ {0} : a * c <= b * c => a <= b
  <1>1. SUFFICES ASSUME NEW a \in Int, NEW b \in Int, NEW c \in Nat \ {0}, a > b
                 PROVE  a * c > b * c
    OBVIOUS
  <1>2. (b + 1) * c <= a * c
    BY <1>1, ProductOrder
  <1>3. (b + 1) * c = b * c + c
    OBVIOUS
  <1>4. QED
    BY <1>2, <1>3, ProductType

LEMMA DivFacts ==
    ASSUME NEW a \in Int, NEW b \in Nat \ {0}
    PROVE  /\ a \div b \in Int
           /\ a % b \in 0 .. (b - 1)
           /\ a = (a \div b) * b + (a % b)
  OBVIOUS

LEMMA DivBounds ==
    ASSUME NEW a \in Int, NEW b \in Nat \ {0}
    PROVE  /\ (a \div b) * b <= a
           /\ a < (a \div b) * b + b
  <1>1. (a \div b) * b \in Int
    BY DivFacts, ProductType
  <1>2. QED
    BY <1>1, DivFacts

LEMMA DivOfNat ==
    ASSUME NEW a \in Nat, NEW b \in Nat \ {0}
    PROVE  a \div b \in Nat
  OBVIOUS

LEMMA DivOfZero ==
    ASSUME NEW b \in Nat \ {0}
    PROVE  0 \div b = 0
  <1>1. 0 \div b \in Nat /\ (0 \div b) * b <= 0 * b
    BY DivOfNat, DivBounds
  <1>2. QED
    BY <1>1, CancelFactor

LEMMA NegationOfZero ==
    ASSUME NEW a \in Int, a <= 0, a >= 0
    PROVE  - a = a /\ a = 0
  OBVIOUS

-----------------------------------------------------------------------------
(* The roundings of sdk.Dec.                                               *)

LEMMA OneFacts == One \in Nat /\ One >= 2
  BY MintAssumption

(* What int64 makes of a number of blocks: itself, or a negative number of *)
(* no larger size.                                                         *)
LEMMA Int64Facts ==
    ASSUME NEW n \in 1 .. (Word - 1)
    PROVE  /\ n \in Nat \ {0}
           /\ Int64(n) \in Int \ {0}
           /\ 2 * n < Word => Int64(n) = n
           /\ ~ (2 * n < Word) => - Int64(n) \in Nat \ {0} /\ - Int64(n) <= n
  BY MintAssumption DEF Int64

(* A positive divisor, and a negative one: the signs go to the dividend. *)
LEMMA QuoTruncateSigns ==
    ASSUME NEW a \in Int, NEW b \in Nat \ {0}
    PROVE  /\ QuoTruncate(a, b) = IF a >= 0 THEN a \div b ELSE - ((- a) \div b)
           /\ QuoTruncate(a, - b) = - QuoTruncate(a, b)
  <1>1. a \div b \in Int /\ (- a) \div b \in Int
    BY DivFacts
  <1>2. QuoTruncate(a, b) = IF a >= 0 THEN a \div b ELSE - ((- a) \div b)
    BY DEF QuoTruncate
  <1>3. QuoTruncate(a, - b) = IF - a >= 0 THEN (- a) \div b ELSE - (a \div b)
    <2>1. ~ (- b > 0) /\ - (- b) = b /\ - (- a) = a
      OBVIOUS
    <2>2. QED
      BY <2>1 DEF QuoTruncate
  <1>4. CASE a <= 0 /\ a >= 0
    <2>1. - a = a /\ a = 0
      BY <1>4, NegationOfZero
    <2>2. a \div b = 0
      BY <2>1, DivOfZero, Zenon
    <2>3. (- a) \div b = 0
      BY <2>1, <2>2, Zenon
    <2>4. QED
      BY <1>2, <1>3, <1>4, <2>1, <2>2, <2>3
  <1>5. CASE a < 0 \/ a > 0
    BY <1>1, <1>2, <1>3, <1>5
  <1>6. QED
    BY <1>2, <1>4, <1>5

LEMMA QuoTruncateType ==
    ASSUME NEW a \in Int, NEW b \in Int \ {0}
    PROVE  QuoTruncate(a, b) \in Int
  <1>1. ASSUME NEW c \in Nat \ {0}
        PROVE  QuoTruncate(a, c) \in Int
    <2>1. a \div c \in Int /\ (- a) \div c \in Int
      BY DivFacts
    <2>2. QED
      BY <2>1, QuoTruncateSigns
  <1>2. CASE b > 0
    BY <1>1, <1>2
  <1>3. CASE b < 0
    <2>1. - b \in Nat \ {0} /\ - (- b) = b
      BY <1>3
    <2>2. QuoTruncate(a, - b) \in Int /\ QuoTruncate(a, b) = - QuoTruncate(a, - b)
      BY <1>1, <2>1, QuoTruncateSigns
    <2>3. QED
      BY <2>2
  <1>4. QED
    BY <1>2, <1>3

(* The quotient of a natural is one, and b times it is at most a, and      *)
(* within b of it.                                                         *)
LEMMA QuoTruncateNat ==
    ASSUME NEW a \in Nat, NEW b \in Nat \ {0}
    PROVE  /\ QuoTruncate(a, b) \in Nat
           /\ QuoTruncate(a, b) * b <= a
           /\ a < QuoTruncate(a, b) * b + b
  <1>1. a \in Int /\ a >= 0
    OBVIOUS
  <1>2. QuoTruncate(a, b) = a \div b
    BY <1>1, QuoTruncateSigns
  <1>3. QED
    BY <1>1, <1>2, DivOfNat, DivBounds

LEMMA QuoTruncateNegative ==
    ASSUME NEW a \in Int, NEW b \in Nat \ {0}, a < 0
    PROVE  /\ - QuoTruncate(a, b) \in Nat
           /\ a <= QuoTruncate(a, b) * b
           /\ QuoTruncate(a, b) * b < a + b
  <1> DEFINE q == (- a) \div b
  <1>1. q \in Nat
    BY DivOfNat
  <1>2. q * b <= - a /\ - a < q * b + b
    BY DivBounds
  <1>3. QuoTruncate(a, b) = - q
    BY QuoTruncateSigns
  <1>4. (- q) * b = - (q * b) /\ q * b \in Int
    BY <1>1, ProductType
  <1> HIDE DEF q
  <1>5. QED
    BY <1>1, <1>2, <1>3, <1>4

(* In either direction, the quotient times b is within b of a. *)
LEMMA QuoTruncateBounds ==
    ASSUME NEW a \in Int, NEW b \in Nat \ {0}
    PROVE  /\ QuoTruncate(a, b) * b < a + b
           /\ QuoTruncate(a, b) * b > a - b
  <1>1. QuoTruncate(a, b) * b \in Int
    BY QuoTruncateType, ProductType
  <1>2. CASE a >= 0
    <2>1. a \in Nat
      BY <1>2
    <2>2. QuoTruncate(a, b) * b <= a /\ a < QuoTruncate(a, b) * b + b
      BY <2>1, QuoTruncateNat
    <2>3. QED
      BY <1>1, <2>2
  <1>3. CASE a < 0
    BY <1>1, <1>3, QuoTruncateNegative
  <1>4. QED
    BY <1>2, <1>3

(* Rounding a / One moves it by half a unit at most. *)
LEMMA ChopBounds ==
    ASSUME NEW a \in Int
    PROVE  /\ ChopPrecisionAndRound[a] \in Int
           /\ 2 * (ChopPrecisionAndRound[a] * One) <= 2 * a + One
           /\ 2 * (ChopPrecisionAndRound[a] * One) >= 2 * a - One
  <1> DEFINE n == 2 * a + One
             nearest == n \div (2 * One)
             c == ChopPrecisionAndRound[a]
  <1>1. n \in Int /\ 2 * One \in Nat \ {0} /\ One \in Int
    BY OneFacts
  <1>2. nearest \in Int /\ n = nearest * (2 * One) + (n % (2 * One))
    <2> HIDE DEF n
    <2>1. QED
      BY <1>1, DivFacts
  <1>3. nearest * (2 * One) <= n /\ n < nearest * (2 * One) + 2 * One
    <2> HIDE DEF n
    <2>1. QED
      BY <1>1, DivBounds
  <1>4. nearest * (2 * One) = 2 * (nearest * One) /\ nearest * One \in Int
    BY <1>1, <1>2, ProductType
  <1>5. c = IF n % (2 * One) = 0 /\ nearest % 2 = 1 THEN nearest - 1 ELSE nearest
    BY DEF ChopPrecisionAndRound
  <1>6. (nearest - 1) * One = nearest * One - One
    BY <1>1, <1>2
  <1>7. n = 2 * a + One
    OBVIOUS
  <1> HIDE DEF n, nearest
  <1>8. CASE c = nearest
    BY <1>1, <1>2, <1>3, <1>4, <1>7, <1>8
  <1>9. CASE c = nearest - 1 /\ n % (2 * One) = 0
    BY <1>1, <1>2, <1>3, <1>4, <1>6, <1>7, <1>9
  <1>10. QED
    BY <1>5, <1>8, <1>9

(* Bounds that are whole units survive the rounding. *)
LEMMA ChopWithin ==
    ASSUME NEW a \in Int, NEW k \in Int, NEW l \in Int,
           a <= k * One, l * One <= a
    PROVE  l <= ChopPrecisionAndRound[a] /\ ChopPrecisionAndRound[a] <= k
  <1> DEFINE c == ChopPrecisionAndRound[a]
  <1>1. c \in Int /\ 2 * (c * One) <= 2 * a + One /\ 2 * (c * One) >= 2 * a - One
    BY ChopBounds
  <1>2. /\ (k + 1) * One = k * One + One /\ k * One \in Int
        /\ (l - 1) * One = l * One - One /\ l * One \in Int
        /\ c * One \in Int
    BY <1>1, OneFacts, ProductType
  <1> HIDE DEF c
  <1>3. ~ (c >= k + 1)
    <2>1. c >= k + 1 => (k + 1) * One <= c * One
      BY <1>1, OneFacts, ProductOrder
    <2>2. QED
      BY <2>1, <1>1, <1>2, OneFacts
  <1>4. ~ (c <= l - 1)
    <2>1. c <= l - 1 => c * One <= (l - 1) * One
      BY <1>1, OneFacts, ProductOrder
    <2>2. QED
      BY <2>1, <1>1, <1>2, OneFacts
  <1>5. QED
    BY <1>1, <1>3, <1>4 DEF c

-----------------------------------------------------------------------------
(* The bounds of the inflation rate.                                       *)

(* Of m tokens a year and a supply s, the rate is such that rate times     *)
(* supply is m, up to one unit of the last decimal place of the rate.      *)
LEMMA RateBounds ==
    ASSUME NEW m \in Int, NEW s \in Nat \ {0}
    PROVE  /\ Quo(m * One, s * One) \in Int
           /\ Quo(m * One, s * One) * s <= m * One + s
           /\ Quo(m * One, s * One) * s >= m * One - s
  <1> DEFINE w == (m * One) * One
             t == QuoTruncate(w * One, s * One)
             c == ChopPrecisionAndRound[t]
  <1>0. Quo(m * One, s * One) = c
    BY DEF Quo
  <1>1. /\ m * One \in Int /\ w \in Int /\ w * One \in Int
        /\ s * One \in Nat \ {0}
    <2>1. s * One \in Nat /\ s * One >= 1 * One
      BY OneFacts, ProductSign, ProductOrder
    <2>2. QED
      BY <2>1, OneFacts, ProductType
  <1>2. t \in Int /\ t * (s * One) < w * One + s * One /\ t * (s * One) > w * One - s * One
    <2> HIDE DEF w
    <2>1. s * One \in Int \ {0}
      BY <1>1
    <2>2. t \in Int
      BY <1>1, <2>1, QuoTruncateType
    <2>3. QED
      BY <1>1, <2>2, QuoTruncateBounds
  <1>3. c \in Int /\ 2 * (c * One) <= 2 * t + One /\ 2 * (c * One) >= 2 * t - One
    BY <1>2, ChopBounds
  <1>4. w = (m * One) * One
    OBVIOUS
  <1> HIDE DEF w, t, c
  <1>5. t * s <= w + s /\ w - s <= t * s
    <2>1. /\ t * (s * One) = (t * s) * One
          /\ w * One + s * One = (w + s) * One
          /\ w * One - s * One = (w - s) * One
      BY <1>1, <1>2, OneFacts
    <2>2. t * s \in Int /\ w + s \in Int /\ w - s \in Int
      BY <1>1, <1>2, ProductType
    <2>3. (t * s) * One <= (w + s) * One /\ (w - s) * One <= (t * s) * One
      BY <1>1, <1>2, <2>1, <2>2, OneFacts, ProductType
    <2>4. QED
      BY <2>2, <2>3, OneFacts, CancelFactor
  <1>6. /\ 2 * ((c * s) * One) <= 2 * (t * s) + One * s
        /\ 2 * ((c * s) * One) >= 2 * (t * s) - One * s
    <2>1. /\ (2 * (c * One)) * s <= (2 * t + One) * s
          /\ (2 * t - One) * s <= (2 * (c * One)) * s
      <3>1. 2 * (c * One) \in Int /\ 2 * t + One \in Int /\ 2 * t - One \in Int
        BY <1>2, <1>3, OneFacts, ProductType
      <3>2. QED
        BY <3>1, <1>3, ProductOrder
    <2>2. /\ (2 * (c * One)) * s = 2 * ((c * s) * One)
          /\ (2 * t + One) * s = 2 * (t * s) + One * s
          /\ (2 * t - One) * s = 2 * (t * s) - One * s
      BY <1>2, <1>3, OneFacts
    <2>3. QED
      BY <2>1, <2>2
  <1>7. 2 * s <= One * s
    BY OneFacts, ProductOrder
  <1>8. /\ (c * s) * One <= (m * One + s) * One
        /\ (m * One - s) * One <= (c * s) * One
    <2>1. /\ (m * One + s) * One = w + One * s
          /\ (m * One - s) * One = w - One * s
      BY <1>1, <1>4, OneFacts
    <2>2. (c * s) * One \in Int /\ t * s \in Int /\ One * s \in Int
      BY <1>2, <1>3, OneFacts, ProductType
    <2>3. QED
      BY <2>1, <2>2, <1>1, <1>5, <1>6, <1>7
  <1>9. c * s \in Int /\ m * One + s \in Int /\ m * One - s \in Int
    BY <1>1, <1>3, ProductType
  <1>10. QED
    BY <1>0, <1>3, <1>8, <1>9, OneFacts, CancelFactor

(* The share of one block in b, in whole tokens. *)
Share(annual, b) == QuoTruncate(QuoTruncate(annual, b), One)

(* All of it within the yearly provisions, and less than a token below     *)
(* them.                                                                   *)
LEMMA ShareBounds ==
    ASSUME NEW annual \in Int, NEW b \in Nat \ {0}, Share(annual, b) >= 0
    PROVE  /\ Share(annual, b) \in Nat
           /\ Share(annual, b) > 0 => (Share(annual, b) * b) * One <= annual
           /\ annual < ((Share(annual, b) + 1) * b) * One
  <1> DEFINE q == QuoTruncate(annual, b)
             p == QuoTruncate(q, One)
  <1>0. Share(annual, b) = p
    BY DEF Share
  <1>1. b \in Nat \ {0} /\ One \in Nat \ {0}
    BY OneFacts
  <1>2. q \in Int
    BY <1>1, QuoTruncateType
  <1>3. p \in Int
    <2> HIDE DEF q
    <2>1. QED
      BY <1>1, <1>2, QuoTruncateType
  <1>4. /\ (p * b) * One = (p * One) * b /\ ((p + 1) * b) * One = ((p + 1) * One) * b
        /\ (p + 1) * One = p * One + One
        /\ (p * One) * b \in Int /\ p * One \in Int /\ q * b \in Int
        /\ ((p + 1) * One) * b \in Int
    <2> HIDE DEF p, q
    <2>1. QED
      BY <1>1, <1>2, <1>3, ProductType
  <1>5. p \in Nat
    BY <1>0, <1>3
  <1>6. CASE annual >= 0
    <2>1. q \in Nat /\ q * b <= annual /\ annual < q * b + b
      BY <1>1, <1>6, QuoTruncateNat
    <2>2. p * One <= q /\ q < p * One + One
      <3> HIDE DEF q
      <3>1. QED
        BY <1>1, <2>1, QuoTruncateNat
    <2> HIDE DEF p, q
    <2>3. (p * One) * b <= q * b
      BY <1>1, <1>2, <1>4, <2>2, ProductOrder
    <2>4. (q + 1) * b <= ((p + 1) * One) * b
      <3>1. q + 1 <= (p + 1) * One /\ q + 1 \in Int /\ (p + 1) * One \in Int
        BY <1>1, <1>2, <1>3, <1>4, <2>2
      <3>2. QED
        BY <3>1, <1>1, ProductOrder
    <2>5. (q + 1) * b = q * b + b
      BY <1>1, <1>2
    <2>6. QED
      BY <1>0, <1>1, <1>4, <1>5, <2>1, <2>3, <2>4, <2>5
  <1>7. CASE annual < 0
    <2>1. - q \in Nat
      BY <1>1, <1>7, QuoTruncateNegative
    <2>2. p <= 0
      <3> HIDE DEF q
      <3>1. CASE q = 0
        BY <3>1, <1>1, OneFacts, QuoTruncateSigns
      <3>2. CASE q < 0
        BY <3>2, <1>1, <1>2, <1>3, QuoTruncateNegative
      <3>3. QED
        BY <2>1, <1>2, <3>1, <3>2
    <2> HIDE DEF p, q
    <2>3. ((p + 1) * One) * b \in Nat
      BY <1>1, <1>5, ProductSign
    <2>4. QED
      BY <1>0, <1>3, <1>4, <1>5, <1>7, <2>2, <2>3
  <1>8. QED
    BY <1>6, <1>7

(* A set of parameters whose blocks of a year int64 keeps. *)
YearFits(p) == 2 * p.blocksPerYear < Word

(* What a block provides.  Where int64 negates the blocks of a year, the   *)
(* provision is a negative share, and only one that is truncated to zero   *)
(* or of negative provisions is no negative number.                        *)
LEMMA ProvisionBounds ==
    ASSUME NEW annual \in Int, params.blocksPerYear \in 1 .. (Word - 1),
           BlockProvision(annual) >= 0
    PROVE  /\ BlockProvision(annual) \in Nat
           /\ (YearFits(params) \/ annual >= 0) /\ BlockProvision(annual) > 0 =>
                (BlockProvision(annual) * params.blocksPerYear) * One <= annual
           /\ annual < ((BlockProvision(annual) + 1) * params.blocksPerYear) * One
  <1> DEFINE b == params.blocksPerYear
             m == - Int64(b)
             q == QuoTruncate(annual, m)
             p == BlockProvision(annual)
  <1>1. b \in Nat \ {0} /\ One \in Nat \ {0}
    BY OneFacts, Int64Facts
  <1>2. CASE YearFits(params)
    <2>1. BlockProvision(annual) = Share(annual, b)
      BY <1>2, Int64Facts DEF BlockProvision, Share, YearFits
    <2>2. QED
      BY <1>1, <2>1, ShareBounds
  <1>3. CASE ~ YearFits(params)
    <2>1. m \in Nat \ {0} /\ m <= b /\ Int64(b) = - m
      BY <1>3, Int64Facts DEF YearFits
    <2> HIDE DEF m, b
    <2>2. q \in Int /\ QuoTruncate(annual, - m) = - q
      BY <2>1, QuoTruncateType, QuoTruncateSigns
    <2> HIDE DEF q
    <2>3. p = QuoTruncate(- q, One)
      BY <2>1, <2>2 DEF BlockProvision, b
    <2>4. p \in Nat
      BY <1>1, <2>2, <2>3, QuoTruncateType
    <2>5. (p + 1) * m \in Nat \ {0} /\ ((p + 1) * b) * One \in Nat \ {0}
      <3>1. ASSUME NEW x \in Nat \ {0}, NEW y \in Nat \ {0}
            PROVE  x * y \in Nat \ {0}
        <4>1. 1 * y <= x * y /\ x * y \in Nat
          BY <3>1, ProductOrder, ProductSign
        <4>2. QED
          BY <4>1
      <3> HIDE DEF p
      <3>2. p + 1 \in Nat \ {0}
        BY <2>4
      <3>3. QED
        BY <1>1, <2>1, <3>1, <3>2
    <2>6. CASE annual < 0
      <3> HIDE DEF p
      <3>1. QED
        BY <1>3, <2>4, <2>5, <2>6 DEF p, b
    <2>7. CASE annual >= 0
      <3>1. q \in Nat
        BY <2>1, <2>7, QuoTruncateNat DEF q
      <3>2. - p = Share(annual, m)
        <4>1. CASE q <= 0
          <5>1. - q = q /\ q = 0
            BY <3>1, <4>1, NegationOfZero
          <5>2. q \div One = 0
            BY <1>1, <5>1, DivOfZero, Zenon
          <5>3. QuoTruncate(q, One) = 0
            BY <1>1, <3>1, <5>2, QuoTruncateSigns
          <5>4. p = 0 /\ Share(annual, m) = 0
            <6>1. Share(annual, m) = QuoTruncate(q, One)
              BY DEF Share, q
            <6>2. QED
              BY <2>3, <5>1, <5>3, <6>1, Zenon
          <5>5. p \in Int /\ p <= 0 /\ p >= 0
            BY <5>4
          <5>6. - p = p
            <6> HIDE DEF p
            <6>1. QED
              BY <5>5, NegationOfZero
          <5>7. QED
            BY <5>4, <5>6, Zenon
        <4>2. CASE q > 0
          <5>1. /\ QuoTruncate(- q, One) = - (q \div One)
                /\ QuoTruncate(q, One) = q \div One
                /\ q \div One \in Int
            BY <1>1, <3>1, <4>2, QuoTruncateSigns, DivFacts
          <5>2. QED
            BY <2>3, <5>1 DEF Share, q
        <4>3. QED
          BY <3>1, <4>1, <4>2
      <3>3. Share(annual, m) \in Nat
        BY <1>1, <3>1, QuoTruncateNat DEF Share, q
      <3>4. p = 0 /\ Share(annual, m) = 0
        <4> HIDE DEF p
        <4>1. QED
          BY <2>4, <3>2, <3>3
      <3>5. annual < ((0 + 1) * m) * One
        BY <2>1, <3>4, ShareBounds
      <3>6. m * One <= b * One /\ m * One \in Int /\ b * One \in Int
        BY <1>1, <2>1, ProductOrder, ProductType
      <3>7. annual < ((p + 1) * b) * One
        BY <1>1, <2>1, <3>4, <3>5, <3>6
      <3>8. QED
        BY <2>4, <3>4, <3>7 DEF b
    <2>8. QED
      BY <2>6, <2>7
  <1>4. QED
    BY <1>2, <1>3

-----------------------------------------------------------------------------
(* The rate of a block.                                                    *)

LEMMA QuoType ==
    ASSUME NEW a \in Int, NEW b \in Int \ {0}
    PROVE  Quo(a, b) \in Int
  <1> DEFINE num == a * One * One
  <1>1. num \in Int
    BY OneFacts, ProductType
  <1> HIDE DEF num
  <1>2. QuoTruncate(num, b) \in Int
    BY <1>1, QuoTruncateType
  <1>3. QED
    BY <1>2, ChopBounds DEF Quo, num

LEMMA MulType ==
    ASSUME NEW a \in Int, NEW b \in Int
    PROVE  Mul(a, b) \in Int
  BY ProductType, ChopBounds DEF Mul

LEMMA ParamsFacts ==
    ASSUME TypeOK
    PROVE  /\ params.inflationRateChange \in Nat
           /\ params.goalBonded \in Nat \ {0}
           /\ params.blocksPerYear \in 1 .. (Word - 1)
           /\ params.blocksPerYear \in Nat \ {0}
           /\ Int64(params.blocksPerYear) * One \in Int \ {0}
           /\ params.maxTokenPerYear \in Int /\ params.minTokenPerYear \in Int
           /\ params.minTokenPerYear <= params.maxTokenPerYear
           /\ pool \in Nat /\ others \in Nat /\ Supply \in Nat
           /\ minter.inflation \in Int
  <1>1. /\ params.inflationRateChange \in Nat
        /\ params.goalBonded \in Nat \ {0}
        /\ params.blocksPerYear \in 1 .. (Word - 1)
        /\ params.maxTokenPerYear \in Int /\ params.minTokenPerYear \in Int
        /\ params.minTokenPerYear <= params.maxTokenPerYear
        /\ pool \in Nat /\ others \in Nat /\ Supply \in Nat
        /\ minter.inflation \in Int
    BY OneFacts, MintAssumption DEF TypeOK, Params, Validate, Supply
  <1>2. Int64(params.blocksPerYear) * One \in Int \ {0}
    <2>1. \A i \in Int \ {0} : i * One \in Int \ {0}
      BY OneFacts
    <2>2. QED
      BY <1>1, <2>1, Int64Facts
  <1>3. QED
    BY <1>1, <1>2, Int64Facts

(* At most all of the supply is bonded. *)
LEMMA BondedRatioBounds ==
    ASSUME TypeOK, NEW n \in 0 .. others
    PROVE  BondedRatio(n) \in 0 .. One
  <1>1. CASE Supply > 0
    <2> DEFINE q == QuoTruncate(n * One, Supply)
    <2>1. n \in Nat /\ n <= Supply /\ Supply \in Nat \ {0}
      BY <1>1, ParamsFacts DEF Supply
    <2>2. n * One \in Nat /\ n * One <= Supply * One
      BY <2>1, OneFacts, ProductSign, ProductOrder
    <2>3. q \in Nat /\ q * Supply <= n * One
      BY <2>1, <2>2, QuoTruncateNat
    <2> HIDE DEF q
    <2>4. q * Supply <= One * Supply
      <3>1. Supply * One = One * Supply /\ q * Supply \in Int /\ One * Supply \in Int
        BY <2>1, <2>3, OneFacts, ProductType
      <3>2. QED
        BY <3>1, <2>2, <2>3
    <2>5. q <= One
      BY <2>1, <2>3, <2>4, OneFacts, CancelFactor
    <2>6. QED
      BY <1>1, <2>3, <2>5, OneFacts DEF BondedRatio, q
  <1>2. CASE ~ (Supply > 0)
    BY <1>2, OneFacts DEF BondedRatio
  <1>3. QED
    BY <1>1, <1>2

LEMMA RateChangeType ==
    ASSUME TypeOK, NEW r \in Int
    PROVE  InflationRateChange(r) \in Int
  <1> DEFINE bonded == Quo(r, params.goalBonded)
             yearly == Mul(One - bonded, params.inflationRateChange)
  <1>1. /\ params.goalBonded \in Nat \ {0}
        /\ params.inflationRateChange \in Int
        /\ Int64(params.blocksPerYear) * One \in Int \ {0}
    BY ParamsFacts
  <1>2. bonded \in Int
    BY <1>1, QuoType
  <1>3. yearly \in Int
    <2> HIDE DEF bonded
    <2>1. One - bonded \in Int
      BY <1>2, OneFacts
    <2>2. QED
      BY <1>1, <2>1, MulType
  <1>4. InflationRateChange(r) = Quo(yearly, Int64(params.blocksPerYear) * One)
    BY DEF InflationRateChange
  <1> HIDE DEF yearly
  <1>5. QED
    BY <1>1, <1>3, <1>4, QuoType

(* The rate of a block lies between its bounds, whatever the rate was; the *)
(* lower one wins where the roundings leave it above the other.            *)
LEMMA RateWithinBounds ==
    ASSUME TypeOK, NEW r \in Int, Supply > 0
    PROVE  /\ NextInflationRate(r) \in Int
           /\ InflationMax \in Int /\ InflationMin \in Int
           /\ NextInflationRate(r) >= InflationMin
           /\ NextInflationRate(r) <= InflationMax \/ NextInflationRate(r) = InflationMin
           /\ \/ NextInflationRate(r) \in {InflationMin, InflationMax}
              \/ NextInflationRate(r) = minter.inflation + InflationRateChange(r)
  <1>1. InflationRateChange(r) \in Int /\ minter.inflation \in Int
    BY RateChangeType, ParamsFacts
  <1>2. InflationMax \in Int /\ InflationMin \in Int
    <2>1. Supply \in Nat \ {0}
      BY ParamsFacts
    <2>2. QED
      BY <2>1, ParamsFacts, RateBounds DEF InflationMax, InflationMin
  <1>3. Supply # 0
    BY ParamsFacts
  <1>4. QED
    BY <1>1, <1>2, <1>3 DEF NextInflationRate

LEMMA RateType ==
    ASSUME TypeOK, NEW r \in Int
    PROVE  NextInflationRate(r) \in Int
  <1>1. CASE Supply = 0
    BY <1>1, ParamsFacts DEF NextInflationRate
  <1>2. CASE Supply > 0
    BY <1>2, RateWithinBounds
  <1>3. QED
    BY <1>1, <1>2, ParamsFacts

(* The yearly provisions of a block stay within what the parameters allow  *)
(* and ask for, up to one unit of the rate.                                *)
LEMMA AnnualBounds ==
    ASSUME TypeOK, NEW r \in Int, Supply > 0
    PROVE  /\ NextAnnualProvisions(NextInflationRate(r))
                <= params.maxTokenPerYear * One + Supply
           /\ NextAnnualProvisions(NextInflationRate(r))
                >= params.minTokenPerYear * One - Supply
  <1> DEFINE c == NextInflationRate(r)
  <1>1. Supply \in Nat \ {0}
    BY ParamsFacts
  <1>2. /\ InflationMax * Supply <= params.maxTokenPerYear * One + Supply
        /\ InflationMin * Supply <= params.minTokenPerYear * One + Supply
        /\ InflationMin * Supply >= params.minTokenPerYear * One - Supply
    BY <1>1, ParamsFacts, RateBounds DEF InflationMax, InflationMin
  <1>3. /\ c \in Int /\ InflationMax \in Int /\ InflationMin \in Int
        /\ c >= InflationMin
        /\ c <= InflationMax \/ c = InflationMin
    BY RateWithinBounds
  <1>4. params.minTokenPerYear * One <= params.maxTokenPerYear * One
    BY ParamsFacts, OneFacts, ProductOrder
  <1> HIDE DEF c
  <1>5. /\ InflationMin * Supply <= c * Supply
        /\ c <= InflationMax => c * Supply <= InflationMax * Supply
    BY <1>1, <1>3, ProductOrder
  <1>6. /\ c * Supply \in Int /\ InflationMax * Supply \in Int /\ InflationMin * Supply \in Int
        /\ params.minTokenPerYear * One \in Int /\ params.maxTokenPerYear * One \in Int
    BY <1>1, <1>3, ParamsFacts, OneFacts, ProductType
  <1>7. c * Supply <= params.maxTokenPerYear * One + Supply
    BY <1>1, <1>2, <1>3, <1>4, <1>5, <1>6
  <1>8. c * Supply >= params.minTokenPerYear * One - Supply
    BY <1>1, <1>2, <1>5, <1>6
  <1>9. QED
    BY <1>7, <1>8 DEF NextAnnualProvisions, c

-----------------------------------------------------------------------------
(* A block at bonded ratio r provides amount, or cannot pay it. *)
Pays(r, amount) ==
    LET annual == NextAnnualProvisions(NextInflationRate(r))
    IN  /\ annual \in Int
        /\ amount = BlockProvision(annual)
        /\ minter' = [inflation |-> NextInflationRate(r), annualProvisions |-> annual]
        /\ height' = 1 - height
        /\ UNCHANGED <<params, allowed, halted>>
        /\ \/ amount <= pool /\ pool' = pool - amount /\ others' = others + amount
           \/ amount > pool /\ UNCHANGED <<pool, others>>

(* What a block does, once its amounts have their types. *)
LEMMA BlockStep ==
    ASSUME TypeOK, Block
    PROVE  \/ /\ halted' = TRUE
              /\ UNCHANGED <<minter, params, allowed, pool, others, height>>
           \/ \E r \in 0 .. One, amount \in Nat : Pays(r, amount)
  <1>1. PICK n \in 0 .. others : BeginBlocker(n)
    BY DEF Block
  <1> DEFINE r == BondedRatio(n)
             inflation == NextInflationRate(r)
             annual == NextAnnualProvisions(inflation)
             amount == BlockProvision(annual)
  <1>2. r \in 0 .. One /\ r \in Int
    BY BondedRatioBounds, OneFacts
  <1>3. inflation \in Int
    <2> HIDE DEF r
    <2>1. QED
      BY <1>2, RateType
  <1>4. annual \in Int
    <2> HIDE DEF inflation
    <2>1. inflation * Supply \in Int
      BY <1>3, ParamsFacts, ProductType
    <2>2. QED
      BY <2>1 DEF NextAnnualProvisions
  <1>5. amount >= 0 => amount \in Nat
    <2> HIDE DEF annual
    <2>1. QED
      BY <1>4, ParamsFacts, ProvisionBounds
  <1>6. \/ /\ amount >= 0
           /\ minter' = [inflation |-> inflation, annualProvisions |-> annual]
           /\ AddCollectedFees(amount)
           /\ height' = 1 - height
           /\ UNCHANGED <<params, allowed, halted>>
        \/ /\ halted' = TRUE
           /\ UNCHANGED <<minter, params, allowed, pool, others, height>>
    BY <1>1 DEF BeginBlocker
  <1>7. CASE /\ amount >= 0
             /\ minter' = [inflation |-> inflation, annualProvisions |-> annual]
             /\ AddCollectedFees(amount)
             /\ height' = 1 - height
             /\ UNCHANGED <<params, allowed, halted>>
    <2>1. amount \in Nat
      BY <1>5, <1>7
    <2>2. \/ /\ amount <= pool
             /\ pool' = pool - amount /\ others' = others + amount
          \/ /\ amount > pool
             /\ UNCHANGED <<pool, others>>
      <3> HIDE DEF amount
      <3>1. QED
        BY <1>7, <2>1, ParamsFacts DEF AddCollectedFees
    <2>3. QED
      BY <1>2, <1>4, <1>7, <2>1, <2>2 DEF Pays
  <1>8. QED
    BY <1>6, <1>7

(* What the other actions do. *)
LEMMA OtherStep ==
    ASSUME TypeOK, Next, ~ Block
    PROVE  /\ UNCHANGED <<minter, halted, height>>
           /\ others' \in Nat /\ others' <= others /\ pool' \in Nat
           /\ params' = params \/ params' \in ParamsProposed
           /\ params' \in Params /\ Validate(params')
           /\ allowed' \subseteq Funder
  <1>1. CASE \E p \in ParamsProposed : UpdateParams(p)
    BY <1>1, MintAssumption, ParamsFacts DEF UpdateParams, TypeOK, Validate
  <1>2. CASE \E a \in Funder : AddAccountToFundModuleSet(a)
    BY <1>2, ParamsFacts DEF AddAccountToFundModuleSet, TypeOK, Validate
  <1>3. CASE \E n \in 1 .. others : Burn(n)
    BY <1>3, ParamsFacts DEF Burn, TypeOK, Validate
  <1>4. CASE Restart
    BY <1>4, ParamsFacts DEF Restart, TypeOK, Validate
  <1>5. QED
    BY <1>1, <1>2, <1>3, <1>4 DEF Next

LEMMA MintTypeInit == Init => TypeOK
  <1> SUFFICES ASSUME Init
               PROVE  TypeOK
    OBVIOUS
  <1>1. minter \in [inflation : Int, annualProvisions : Int]
    <2>1. Inflations \subseteq Int /\ {0} \subseteq Int
      BY MintAssumption
    <2>2. QED
      BY <2>1 DEF Init
  <1>2. params \in Params
    BY MintAssumption DEF Init
  <1>3. pool \in Nat /\ others \in Nat
    BY MintAssumption DEF Init
  <1>4. QED
    BY <1>1, <1>2, <1>3 DEF Init, TypeOK

LEMMA MintTypeNext == TypeOK /\ [Next]_vars => TypeOK'
  <1> SUFFICES ASSUME TypeOK, [Next]_vars
               PROVE  TypeOK'
    OBVIOUS
  <1>1. CASE Block
    <2>1. CASE /\ halted' = TRUE
               /\ UNCHANGED <<minter, params, allowed, pool, others, height>>
      BY <2>1 DEF TypeOK, Validate
    <2>2. CASE \E r \in 0 .. One, amount \in Nat : Pays(r, amount)
      <3>1. PICK r \in 0 .. One, amount \in Nat : Pays(r, amount)
        BY <2>2
      <3>2. NextInflationRate(r) \in Int
        BY OneFacts, RateType
      <3>3. pool' \in Nat /\ others' \in Nat
        BY <3>1, ParamsFacts DEF Pays
      <3>4. QED
        BY <3>1, <3>2, <3>3 DEF Pays, TypeOK, Validate
    <2>3. QED
      BY <1>1, <2>1, <2>2, BlockStep
  <1>2. CASE Next /\ ~ Block
    BY <1>2, OtherStep DEF TypeOK, Validate
  <1>3. CASE UNCHANGED vars
    BY <1>3 DEF vars, TypeOK, Validate
  <1>4. QED
    BY <1>1, <1>2, <1>3

(* The type invariant, in which the accounts never go below zero and the   *)
(* parameters in use are always ones that Validate accepts.                *)
THEOREM MintTypeCorrect == Spec => []TypeOK
  <1>1. Init => TypeOK
    BY MintTypeInit
  <1>2. TypeOK /\ [Next]_vars => TypeOK'
    BY MintTypeNext
  <1>3. QED
    BY <1>1, <1>2, PTL DEF Spec

-----------------------------------------------------------------------------
(* Conditions on the parameters.                                           *)

(* The parameters in use are always some that were asked for. *)
ParamsAsked == params \in ParamsProposed \cup {GenesisParams}

LEMMA ParamsAskedInit == Init => ParamsAsked
  BY DEF Init, ParamsAsked

LEMMA ParamsAskedNext == TypeOK /\ ParamsAsked /\ [Next]_vars => ParamsAsked'
  <1> SUFFICES ASSUME TypeOK, ParamsAsked, [Next]_vars
               PROVE  ParamsAsked'
    OBVIOUS
  <1>1. CASE Block
    BY <1>1, BlockStep DEF Pays, ParamsAsked
  <1>2. CASE Next /\ ~ Block
    BY <1>2, OtherStep DEF ParamsAsked
  <1>3. CASE UNCHANGED vars
    BY <1>3 DEF vars, ParamsAsked
  <1>4. QED
    BY <1>1, <1>2, <1>3

LEMMA ParamsAlwaysAsked == Spec => []ParamsAsked
  <1>1. Init => ParamsAsked
    BY ParamsAskedInit
  <1>2. TypeOK /\ ParamsAsked /\ [Next]_vars => ParamsAsked'
    BY ParamsAskedNext
  <1>3. QED
    BY <1>1, <1>2, MintTypeCorrect, PTL DEF Spec

(* The sets of parameters the chain can come to use. *)
Accepted == {p \in ParamsProposed \cup {GenesisParams} : Validate(p)}

FloorNotNegative(p) == p.minTokenPerYear >= 0

LEMMA ParamsAccepted ==
    ASSUME TypeOK, ParamsAsked
    PROVE  params \in Accepted
  BY DEF TypeOK, ParamsAsked, Accepted

(* With a minimum that is not negative, neither is the lower bound. *)
LEMMA FloorRate ==
    ASSUME TypeOK, Supply > 0, FloorNotNegative(params)
    PROVE  InflationMin >= 0
  <1> DEFINE m == params.minTokenPerYear
             num == ((m * One) * One) * One
             t == QuoTruncate(num, Supply * One)
  <1>1. m \in Nat /\ Supply \in Nat \ {0}
    BY ParamsFacts DEF FloorNotNegative
  <1>2. num \in Nat
    BY <1>1, OneFacts, ProductSign
  <1>3. Supply * One \in Nat \ {0}
    <2>1. 1 * One <= Supply * One /\ Supply * One \in Nat
      BY <1>1, OneFacts, ProductOrder, ProductSign
    <2>2. QED
      BY <2>1, OneFacts
  <1>4. InflationMin = ChopPrecisionAndRound[t]
    BY DEF InflationMin, Quo
  <1> HIDE DEF num
  <1>5. t \in Nat
    BY <1>2, <1>3, QuoTruncateNat
  <1> HIDE DEF t
  <1>6. 0 * One <= t /\ t <= t * One /\ t \in Int
    <2>1. 1 * t <= One * t /\ One * t = t * One
      BY <1>5, OneFacts, ProductOrder
    <2>2. QED
      BY <2>1, <1>5, OneFacts
  <1>7. QED
    BY <1>4, <1>6, ChopWithin

-----------------------------------------------------------------------------
(* Payouts.                                                                *)

(* Where int64 negates the blocks of a year, the minimum does not. *)
NegatesOnce == \A p \in Accepted : YearFits(p) \/ FloorNotNegative(p)

LEMMA PayoutStep ==
    ASSUME TypeOK, ParamsAsked, NegatesOnce, [Next]_vars, others' > others
    PROVE  /\ pool' = pool - (others' - others)
           /\ (others' - others) * params.blocksPerYear * One
                <= params.maxTokenPerYear * One + Supply
  <1>1. Block
    BY OtherStep, ParamsFacts DEF vars
  <1>2. PICK r \in 0 .. One, amount \in Nat : Pays(r, amount)
    <2>1. others' # others
      BY ParamsFacts
    <2>2. QED
      BY <1>1, <2>1, BlockStep
  <1> DEFINE annual == NextAnnualProvisions(NextInflationRate(r))
  <1>3. /\ annual \in Int /\ amount = BlockProvision(annual)
        /\ pool' = pool - amount /\ others' - others = amount /\ amount > 0
    BY <1>2, ParamsFacts DEF Pays
  <1>4. (amount * params.blocksPerYear) * One <= annual
    <2>1. YearFits(params) \/ annual >= 0
      <3>1. CASE FloorNotNegative(params) /\ Supply > 0
        <4>1. /\ InflationMin >= 0 /\ InflationMin \in Int
              /\ NextInflationRate(r) \in Int /\ NextInflationRate(r) >= InflationMin
          BY <3>1, OneFacts, FloorRate, RateWithinBounds
        <4>2. NextInflationRate(r) \in Nat
          BY <4>1
        <4>3. QED
          BY <4>2, ParamsFacts, ProductSign DEF NextAnnualProvisions
      <3>2. CASE Supply = 0
        <4>1. NextInflationRate(r) \in Int
          BY OneFacts, RateType
        <4>2. QED
          BY <3>2, <4>1 DEF NextAnnualProvisions
      <3>3. QED
        BY <3>1, <3>2, ParamsFacts, ParamsAccepted DEF NegatesOnce
    <2> HIDE DEF annual
    <2>2. QED
      BY <1>3, <2>1, ParamsFacts, ProvisionBounds
  <1>5. (amount * params.blocksPerYear) * One \in Int
    BY ParamsFacts, OneFacts, ProductType
  <1>6. params.maxTokenPerYear * One \in Int
    BY ParamsFacts, OneFacts, ProductType
  <1>7. CASE Supply > 0
    <2>1. annual <= params.maxTokenPerYear * One + Supply
      BY <1>7, OneFacts, AnnualBounds
    <2> HIDE DEF annual
    <2>2. QED
      BY <1>3, <1>4, <1>5, <1>6, <2>1, ParamsFacts
  <1>8. CASE Supply = 0
    <2>1. pool = 0
      BY <1>8, ParamsFacts DEF Supply
    <2>2. QED
      BY <2>1, <1>2, <1>3 DEF Pays
  <1>9. QED
    BY <1>7, <1>8, ParamsFacts

(* No block pays out more than its share of maxTokenPerYear, one unit of   *)
(* the rate aside, and nothing but a block pays out: the sum of what is    *)
(* spent is bounded by the parameters of the blocks, for every precision   *)
(* of sdk.Dec (NextInflationRate, BlockProvision, AddCollectedFees).  Two  *)
(* negations, of the blocks of a year by int64 and of the minimum, would   *)
(* make a positive provision of a negative one.                            *)
THEOREM MintPayoutsBounded ==
    ASSUME NegatesOnce
    PROVE  Spec => PayoutsBounded
  <1>1. TypeOK /\ ParamsAsked /\ [Next]_vars =>
          [others' > others =>
             LET paid == others' - others
             IN  /\ pool' = pool - paid
                 /\ paid * params.blocksPerYear * One
                        <= params.maxTokenPerYear * One + Supply]_vars
    BY PayoutStep
  <1>2. QED
    BY <1>1, MintTypeCorrect, ParamsAlwaysAsked, PTL DEF Spec, PayoutsBounded

LEMMA FloorStep ==
    ASSUME TypeOK, [Next]_vars, height' # height
    PROVE  \/ Supply = 0
           \/ pool < BlockProvision(minter'.annualProvisions)
           \/ (pool - pool' + 1) * params.blocksPerYear * One
                >= params.minTokenPerYear * One - Supply
  <1>1. Block
    BY OtherStep DEF vars
  <1>2. PICK r \in 0 .. One, amount \in Nat : Pays(r, amount)
    BY <1>1, BlockStep
  <1> DEFINE annual == NextAnnualProvisions(NextInflationRate(r))
  <1>3. /\ annual \in Int /\ amount = BlockProvision(annual)
        /\ minter'.annualProvisions = annual
        /\ amount <= pool => pool - pool' = amount
    BY <1>2, ParamsFacts DEF Pays
  <1>4. annual < ((amount + 1) * params.blocksPerYear) * One
    <2> HIDE DEF annual
    <2>1. QED
      BY <1>3, ParamsFacts, ProvisionBounds
  <1>5. ((amount + 1) * params.blocksPerYear) * One \in Int
    BY ParamsFacts, OneFacts, ProductType
  <1>6. params.minTokenPerYear * One \in Int
    BY ParamsFacts, OneFacts, ProductType
  <1>7. CASE Supply > 0 /\ amount <= pool
    <2>1. annual >= params.minTokenPerYear * One - Supply
      BY <1>7, OneFacts, AnnualBounds
    <2> HIDE DEF annual
    <2>2. QED
      BY <1>3, <1>4, <1>5, <1>6, <1>7, <2>1, ParamsFacts
  <1>8. CASE amount > pool
    BY <1>3, <1>8, ParamsFacts
  <1>9. QED
    BY <1>7, <1>8, ParamsFacts

(* Every block whose provision the pool can pay pays its share of          *)
(* minTokenPerYear, less the fraction of a token TruncateInt cuts off and  *)
(* one unit of the rate, whether it changes the minter or not and whatever *)
(* int64 makes of the blocks of a year.                                    *)
THEOREM MintFloorPaid == Spec => FloorPaid
  <1>1. TypeOK /\ [Next]_vars =>
          [height' # height =>
             \/ Supply = 0
             \/ pool < BlockProvision(minter'.annualProvisions)
             \/ (pool - pool' + 1) * params.blocksPerYear * One
                    >= params.minTokenPerYear * One - Supply]_vars
    BY FloorStep
  <1>2. QED
    BY <1>1, MintTypeCorrect, PTL DEF Spec, FloorPaid

-----------------------------------------------------------------------------
(* The change of the rate.                                                 *)

(* With a goal of at least half the supply, no bonded ratio is more than   *)
(* twice the goal.                                                         *)
LEMMA BondedToGoal ==
    ASSUME NEW r \in 0 .. One, NEW g \in Nat \ {0}, 2 * g >= One
    PROVE  Quo(r, g) \in 0 .. (2 * One)
  <1> DEFINE num == (r * One) * One
             t == QuoTruncate(num, g)
  <1>0. Quo(r, g) = ChopPrecisionAndRound[t]
    BY DEF Quo
  <1>1. r \in Nat /\ r <= One /\ r * One \in Nat /\ num \in Nat
    BY OneFacts, ProductSign
  <1>2. num <= (One * One) * One
    <2>1. r * One <= One * One
      BY <1>1, OneFacts, ProductOrder
    <2>2. QED
      BY <2>1, <1>1, OneFacts, ProductOrder, ProductType
  <1> HIDE DEF num
  <1>3. t \in Nat /\ t * g <= num
    BY <1>1, QuoTruncateNat
  <1> HIDE DEF t
  <1>4. t <= (2 * One) * One
    <2>1. t * One <= t * (2 * g)
      <3>1. One * t <= (2 * g) * t
        BY <1>3, OneFacts, ProductOrder
      <3>2. One * t = t * One /\ (2 * g) * t = t * (2 * g)
        BY <1>3, OneFacts
      <3>3. QED
        BY <3>1, <3>2
    <2>2. t * (2 * g) = 2 * (t * g) /\ ((2 * One) * One) * One = 2 * ((One * One) * One)
      BY <1>3, OneFacts
    <2>3. t * One <= ((2 * One) * One) * One
      <3>1. t * g \in Int /\ (One * One) * One \in Int /\ t * One \in Int /\ num \in Int
        BY <1>1, <1>3, OneFacts, ProductType
      <3>2. QED
        BY <3>1, <2>1, <2>2, <1>2, <1>3
    <2>4. QED
      BY <2>3, <1>3, OneFacts, CancelFactor, ProductType
  <1>5. 0 * One <= t /\ 2 * One \in Int /\ t \in Int
    BY <1>3, OneFacts
  <1>6. 0 <= ChopPrecisionAndRound[t] /\ ChopPrecisionAndRound[t] <= 2 * One
    BY <1>4, <1>5, ChopWithin
  <1>7. QED
    BY <1>0, <1>5, <1>6, ChopBounds, OneFacts

(* A factor of at most one in size leaves no more than inflationRateChange.*)
LEMMA YearlyChange ==
    ASSUME NEW y \in Int, - One <= y, y <= One, NEW k \in Nat
    PROVE  Mul(y, k) \in Int /\ - k <= Mul(y, k) /\ Mul(y, k) <= k
  <1>1. y * k <= One * k /\ (- One) * k <= y * k
    BY OneFacts, ProductOrder
  <1>2. One * k = k * One /\ (- One) * k = (- k) * One /\ y * k \in Int
    BY OneFacts, ProductType
  <1>3. - k \in Int /\ y * k <= k * One /\ (- k) * One <= y * k
    BY <1>1, <1>2
  <1> DEFINE z == y * k
  <1> HIDE DEF z
  <1>4. z \in Int /\ z <= k * One /\ (- k) * One <= z
    BY <1>2, <1>3 DEF z
  <1>5. - k <= ChopPrecisionAndRound[z] /\ ChopPrecisionAndRound[z] <= k
    BY <1>3, <1>4, ChopWithin
  <1>6. QED
    BY <1>4, <1>5, ChopBounds DEF Mul, z

(* The share of one block, of b in a year, in either direction. *)
LEMMA ShareOfBlock ==
    ASSUME NEW x \in Int, NEW k \in Nat, - k <= x, x <= k, NEW b \in Nat \ {0}
    PROVE  /\ Quo(x, b * One) \in Int
           /\ 2 * (Quo(x, b * One) * b) <= 2 * k + b
           /\ 2 * (Quo(x, b * One) * b) >= - (2 * k + b)
  <1> DEFINE num == (x * One) * One
             t == QuoTruncate(num, b * One)
             c == ChopPrecisionAndRound[t]
  <1>0. Quo(x, b * One) = c
    BY DEF Quo
  <1>1. b * One \in Nat \ {0} /\ x * One \in Int /\ num \in Int
    <2>1. 1 * One <= b * One /\ b * One \in Nat
      BY OneFacts, ProductOrder, ProductSign
    <2>2. QED
      BY <2>1, OneFacts, ProductType
  <1>2. /\ num <= (k * One) * One /\ num >= ((- k) * One) * One
    <2>1. x * One <= k * One /\ (- k) * One <= x * One
      BY OneFacts, ProductOrder
    <2>2. k * One \in Int /\ (- k) * One \in Int
      BY OneFacts, ProductType
    <2>3. QED
      BY <1>1, <2>1, <2>2, OneFacts, ProductOrder
  <1>3. num >= 0 => num \in Nat
    BY <1>1
  <1>4. t \in Int
    <2> HIDE DEF num
    <2>1. QED
      BY <1>1, QuoTruncateType
  <1>5. /\ t * (b * One) <= (k * One) * One
        /\ t * (b * One) >= ((- k) * One) * One
    <2> HIDE DEF num
    <2>1. t * (b * One) \in Int /\ (k * One) * One \in Int /\ ((- k) * One) * One \in Int
      BY <1>1, <1>4, OneFacts, ProductType
    <2>2. CASE num >= 0
      <3>1. t \in Nat /\ t * (b * One) <= num
        BY <1>1, <1>3, <2>2, QuoTruncateNat
      <3>2. t * (b * One) \in Nat
        BY <3>1, <1>1, ProductSign
      <3>3. ((- k) * One) * One <= 0
        <4>1. (k * One) * One \in Nat /\ ((- k) * One) * One = - ((k * One) * One)
          BY OneFacts, ProductSign
        <4>2. QED
          BY <4>1
      <3>4. QED
        BY <1>1, <1>2, <2>1, <3>1, <3>2, <3>3
    <2>3. CASE num < 0
      <3>1. - t \in Nat /\ num <= t * (b * One)
        BY <1>1, <2>3, QuoTruncateNegative
      <3>2. (- t) * (b * One) \in Nat /\ (- t) * (b * One) = - (t * (b * One))
        BY <3>1, <1>1, <1>4, ProductSign
      <3>3. (k * One) * One \in Nat
        BY OneFacts, ProductSign
      <3>4. QED
        BY <1>1, <1>2, <2>1, <3>1, <3>2, <3>3
    <2>4. QED
      BY <1>1, <2>2, <2>3
  <1>6. c \in Int /\ 2 * (c * One) <= 2 * t + One /\ 2 * (c * One) >= 2 * t - One
    BY <1>4, ChopBounds
  <1> HIDE DEF num, t, c
  <1>7. t * b <= k * One /\ (- k) * One <= t * b
    <2>1. t * (b * One) = (t * b) * One
      BY <1>4, OneFacts
    <2>2. t * b \in Int /\ k * One \in Int /\ (- k) * One \in Int
      BY <1>4, OneFacts, ProductType
    <2>3. QED
      BY <1>5, <2>1, <2>2, OneFacts, CancelFactor
  <1>8. /\ (2 * (c * One)) * b <= (2 * t + One) * b
        /\ (2 * t - One) * b <= (2 * (c * One)) * b
    <2>1. 2 * (c * One) \in Int /\ 2 * t + One \in Int /\ 2 * t - One \in Int
      BY <1>4, <1>6, OneFacts, ProductType
    <2>2. QED
      BY <1>6, <2>1, ProductOrder
  <1>9. /\ (2 * (c * b)) * One <= (2 * k + b) * One
        /\ (- (2 * k + b)) * One <= (2 * (c * b)) * One
    <2>1. /\ (2 * (c * One)) * b = (2 * (c * b)) * One
          /\ (2 * t + One) * b = 2 * (t * b) + b * One
          /\ (2 * t - One) * b = 2 * (t * b) - b * One
          /\ (2 * k + b) * One = 2 * (k * One) + b * One
          /\ (- (2 * k + b)) * One = 2 * ((- k) * One) - b * One
      BY <1>4, <1>6, OneFacts
    <2>2. /\ t * b \in Int /\ k * One \in Int /\ (- k) * One \in Int /\ b * One \in Int
          /\ (2 * (c * b)) * One \in Int
      BY <1>4, <1>6, OneFacts, ProductType
    <2>3. QED
      BY <1>7, <1>8, <2>1, <2>2
  <1>10. 2 * (c * b) \in Int /\ 2 * k + b \in Int /\ - (2 * k + b) \in Int
    BY <1>6, ProductType
  <1>11. 2 * (c * b) <= 2 * k + b /\ - (2 * k + b) <= 2 * (c * b)
    BY <1>9, <1>10, OneFacts, CancelFactor
  <1>12. QED
    BY <1>0, <1>6, <1>10, <1>11

(* Every goal that Validate accepts is half the supply or more. *)
GoalsAtLeastHalf == \A p \in Accepted : 2 * p.goalBonded >= One

(* Where int64 negates the blocks of a year, the bounds leave the rate no  *)
(* room.                                                                   *)
YearFitsOrNoRoom ==
    \A p \in Accepted : YearFits(p) \/ p.maxTokenPerYear = p.minTokenPerYear

LEMMA RateChangeBounds ==
    ASSUME TypeOK, ParamsAsked, GoalsAtLeastHalf, YearFits(params), NEW r \in 0 .. One
    PROVE  LET change == InflationRateChange(r)
               k == params.inflationRateChange
               b == params.blocksPerYear
           IN  /\ change \in Int
               /\ 2 * (change * b) <= 2 * k + b
               /\ 2 * (change * b) >= - (2 * k + b)
  <1> DEFINE bonded == Quo(r, params.goalBonded)
             yearly == Mul(One - bonded, params.inflationRateChange)
  <1>1. /\ params.goalBonded \in Nat \ {0} /\ 2 * params.goalBonded >= One
        /\ params.inflationRateChange \in Nat
        /\ params.blocksPerYear \in Nat \ {0}
    BY ParamsFacts, ParamsAccepted DEF GoalsAtLeastHalf
  <1>2. bonded \in 0 .. (2 * One)
    BY <1>1, BondedToGoal
  <1>3. /\ yearly \in Int
        /\ - params.inflationRateChange <= yearly
        /\ yearly <= params.inflationRateChange
    <2> HIDE DEF bonded
    <2>1. One - bonded \in Int /\ - One <= One - bonded /\ One - bonded <= One
      BY <1>2, OneFacts
    <2>2. QED
      BY <1>1, <2>1, YearlyChange
  <1>4. InflationRateChange(r) = Quo(yearly, params.blocksPerYear * One)
    BY ParamsFacts, Int64Facts DEF InflationRateChange, YearFits
  <1> HIDE DEF yearly
  <1>5. QED
    BY <1>1, <1>3, <1>4, ShareOfBlock

LEMMA RateStep ==
    ASSUME TypeOK, ParamsAsked, GoalsAtLeastHalf, YearFitsOrNoRoom, [Next]_vars,
           minter'.inflation # minter.inflation
    PROVE  LET change == minter'.inflation - minter.inflation
               size == IF change >= 0 THEN change ELSE - change
           IN  \/ minter'.inflation \in {InflationMin, InflationMax}
               \/ 2 * size * params.blocksPerYear
                      <= 2 * params.inflationRateChange + params.blocksPerYear
  <1>1. Block
    BY OtherStep DEF vars
  <1>2. PICK r \in 0 .. One, amount \in Nat : Pays(r, amount)
    BY <1>1, BlockStep
  <1>3. minter'.inflation = NextInflationRate(r)
    BY <1>2 DEF Pays
  <1>4. Supply > 0
    BY <1>3, ParamsFacts DEF NextInflationRate
  <1> DEFINE change == InflationRateChange(r)
             b == params.blocksPerYear
             k == params.inflationRateChange
  <1>5. \/ minter'.inflation \in {InflationMin, InflationMax}
        \/ minter'.inflation = minter.inflation + change /\ YearFits(params)
    <2>1. CASE YearFits(params)
      BY <2>1, <1>3, <1>4, OneFacts, RateWithinBounds
    <2>2. CASE params.maxTokenPerYear = params.minTokenPerYear
      <3>1. InflationMax = InflationMin
        BY <2>2 DEF InflationMax, InflationMin
      <3>2. QED
        BY <3>1, <1>3, <1>4, OneFacts, RateWithinBounds
    <2>3. QED
      BY <2>1, <2>2, ParamsAccepted DEF YearFitsOrNoRoom
  <1>6. ASSUME YearFits(params)
        PROVE  /\ change \in Int /\ b \in Nat /\ k \in Nat /\ minter.inflation \in Int
               /\ 2 * (change * b) <= 2 * k + b /\ 2 * (change * b) >= - (2 * k + b)
    BY <1>6, RateChangeBounds, ParamsFacts
  <1>7. CASE minter'.inflation = minter.inflation + change /\ YearFits(params)
    <2> HIDE DEF change, b, k
    <2>1. minter'.inflation - minter.inflation = change
      BY <1>6, <1>7
    <2>2. /\ 2 * change * b = 2 * (change * b)
          /\ 2 * (- change) * b = - (2 * (change * b))
          /\ change * b \in Int
      BY <1>6, <1>7, ProductType
    <2>3. 2 * change * b <= 2 * k + b /\ 2 * (- change) * b <= 2 * k + b
      BY <1>6, <1>7, <2>2
    <2>4. QED
      BY <2>1, <2>3 DEF b, k
  <1>8. QED
    BY <1>5, <1>7

(* Where every goal is half the supply or more and int64 negates no blocks *)
(* of a year that the rate depends on, a block that moves the rate to no   *)
(* bound moves it by its share of inflationRateChange at most, with the    *)
(* roundings of BondedRatio, Quo and Mul.                                  *)
THEOREM MintRateChangesSlowly ==
    ASSUME GoalsAtLeastHalf, YearFitsOrNoRoom
    PROVE  Spec => RateChangesSlowly
  <1>1. TypeOK /\ ParamsAsked /\ [Next]_vars =>
          [minter'.inflation # minter.inflation =>
             LET change == minter'.inflation - minter.inflation
                 size == IF change >= 0 THEN change ELSE - change
             IN  \/ minter'.inflation \in {InflationMin, InflationMax}
                 \/ 2 * size * params.blocksPerYear
                        <= 2 * params.inflationRateChange + params.blocksPerYear]_vars
    BY RateStep
  <1>2. QED
    BY <1>1, MintTypeCorrect, ParamsAlwaysAsked, PTL DEF Spec, RateChangesSlowly

-----------------------------------------------------------------------------
(* Validate lets a negative minTokenPerYear pass, and a blocksPerYear that *)
(* int64 negates.                                                          *)

FloorsNotNegative == \A p \in Accepted : FloorNotNegative(p)
YearsFit == \A p \in Accepted : YearFits(p)

MinterInv == MinterValid /\ halted = FALSE

LEMMA RateNotNegative ==
    ASSUME TypeOK, ParamsAsked, FloorsNotNegative, MinterValid, NEW r \in Int
    PROVE  NextInflationRate(r) \in Nat
  <1>1. CASE Supply = 0
    BY <1>1, ParamsFacts DEF NextInflationRate, MinterValid
  <1>2. CASE Supply > 0
    <2>1. InflationMin >= 0
      BY <1>2, ParamsAccepted, FloorRate DEF FloorsNotNegative
    <2>2. QED
      BY <1>2, <2>1, RateWithinBounds
  <1>3. QED
    BY <1>1, <1>2, ParamsFacts

LEMMA MinterInvNext ==
    ASSUME TypeOK, ParamsAsked, FloorsNotNegative, YearsFit, MinterInv, [Next]_vars
    PROVE  MinterInv'
  <1>1. CASE Block
    <2>1. PICK n \in 0 .. others : BeginBlocker(n)
      BY <1>1 DEF Block
    <2> DEFINE inflation == NextInflationRate(BondedRatio(n))
               annual == NextAnnualProvisions(inflation)
               amount == BlockProvision(annual)
    <2>2. BondedRatio(n) \in Int
      BY BondedRatioBounds, OneFacts
    <2>3. inflation \in Nat
      BY <2>2, RateNotNegative DEF MinterInv
    <2>4. annual \in Nat
      <3> HIDE DEF inflation
      <3>1. inflation * Supply \in Nat
        BY <2>3, ParamsFacts, ProductSign
      <3>2. QED
        BY <3>1 DEF NextAnnualProvisions
    <2>5. amount >= 0
      <3> HIDE DEF annual
      <3>1. QuoTruncate(annual, params.blocksPerYear) \in Nat
        BY <2>4, ParamsFacts, QuoTruncateNat
      <3>2. QuoTruncate(QuoTruncate(annual, params.blocksPerYear), One) \in Nat
        BY <3>1, OneFacts, QuoTruncateNat
      <3>3. Int64(params.blocksPerYear) = params.blocksPerYear
        BY ParamsFacts, ParamsAccepted, Int64Facts DEF YearsFit, YearFits
      <3>4. QED
        BY <3>2, <3>3 DEF BlockProvision
    <2>6. /\ minter' = [inflation |-> inflation, annualProvisions |-> annual]
          /\ halted' = halted
      <3>1. ~ (amount < 0)
        <4>1. amount \in Int
          <5> HIDE DEF annual
          <5>1. QED
            BY <2>4, <2>5, ParamsFacts, ProvisionBounds
        <4> HIDE DEF amount
        <4>2. QED
          BY <4>1, <2>5
      <3>2. QED
        BY <2>1, <3>1 DEF BeginBlocker
    <2> HIDE DEF inflation, annual
    <2>7. QED
      BY <2>3, <2>6 DEF MinterInv, MinterValid
  <1>2. CASE Next /\ ~ Block
    BY <1>2, OtherStep DEF MinterInv, MinterValid
  <1>3. CASE UNCHANGED vars
    BY <1>3 DEF vars, MinterInv, MinterValid
  <1>4. QED
    BY <1>1, <1>2, <1>3

(* What ValidateMinter asks of a genesis holds of every minter, and no     *)
(* block has a negative provision to panic at, when no minTokenPerYear is  *)
(* negative and int64 keeps every blocksPerYear: two things that Validate  *)
(* does not ask.                                                           *)
THEOREM MintNeverHalts ==
    ASSUME FloorsNotNegative, YearsFit
    PROVE  Spec => [](MinterValid /\ ~ halted)
  <1>1. Init => MinterInv
    <2>1. Init => minter.inflation \in Inflations
      BY DEF Init
    <2>2. \A i \in Inflations : i >= 0
      BY MintAssumption
    <2>3. QED
      BY <2>1, <2>2 DEF Init, MinterInv, MinterValid
  <1>2. TypeOK /\ ParamsAsked /\ MinterInv /\ [Next]_vars => MinterInv'
    BY MinterInvNext
  <1>3. MinterInv => MinterValid /\ ~ halted
    BY DEF MinterInv
  <1>4. QED
    BY <1>1, <1>2, <1>3, MintTypeCorrect, ParamsAlwaysAsked, PTL DEF Spec
=============================================================================
