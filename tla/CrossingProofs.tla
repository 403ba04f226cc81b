----------------------------- MODULE CrossingProofs -----------------------------
(***************************************************************************)
(* Proofs about what crosses between Rust and JavaScript: HostArgs for     *)
(* every width of the integer types, any signatures and any arguments;     *)
(* Collections for any conversions of the items; Iterables for any number  *)
(* of items and calls.  Each machine has an invariant of its own; at the   *)
(* end they are put together.                                              *)
(***************************************************************************)
EXTENDS Crossing, Facts

-----------------------------------------------------------------------------
(* The widths of the integer types.                                        *)

LEMMA Sizes ==
  /\ Small \in Nat \ {0} /\ Safe \in Nat \ {0} /\ Wide \in Nat \ {0}
  /\ 2 * Small <= Safe /\ 2 * Safe <= Wide
<1>1. /\ SmallBits \in Nat /\ SafeBits \in Nat /\ WideBits \in Nat
      /\ SmallBits + 1 \in Nat /\ SafeBits + 1 \in Nat
      /\ SmallBits + 1 <= SafeBits /\ SafeBits + 1 <= WideBits
  BY HostArgsAssumption
<1>2. Small \in Nat \ {0} /\ Safe \in Nat \ {0} /\ Wide \in Nat \ {0}
  BY <1>1, PowerTyped DEF Small, Safe, Wide
<1>3. 2^(SmallBits + 1) = 2 * Small /\ 2^(SafeBits + 1) = 2 * Safe
  BY <1>1, NextPower DEF Small, Safe
<1>4. 2^(SmallBits + 1) <= Safe
  BY <1>1, PowersDivide DEF Safe
<1>5. 2^(SafeBits + 1) <= Wide
  BY <1>1, PowersDivide DEF Wide
<1> QED  BY <1>2, <1>3, <1>4, <1>5

LEMMA Widths ==
  ASSUME NEW T \in IntTypes
  PROVE  /\ Lowest(T) \in Int /\ Highest(T) \in Int
         /\ Lowest(T) <= 0 /\ 0 <= Highest(T)
         /\ T \in {"i32", "u32"} => -Safe <= Lowest(T) /\ Highest(T) <= Safe
         /\ -Wide <= Lowest(T) /\ Highest(T) <= 2 * Wide - 1
BY Sizes DEF IntTypes, Lowest, Highest

-----------------------------------------------------------------------------
(* Doubles.                                                                *)

\* The distances between the doubles that reach n.
Reaching(n) == {s \in {2^e : e \in 0..WideBits} : -Safe * s <= n /\ n <= Safe * s}

LEMMA SpacingFound ==
  ASSUME NEW n \in Int, NEW e \in 0..WideBits,
         -Safe * 2^e <= n, n <= Safe * 2^e
  PROVE  /\ Spacing(n) \in Reaching(n)
         /\ Spacing(n) <= 2^e
<1> DEFINE B == Reaching(n)
<1>1. 2^e \in B
  BY DEF Reaching
<1>2. B \subseteq Nat
  <2>1. WideBits \in Nat
    BY HostArgsAssumption
  <2>2. \A d \in 0..WideBits : 2^d \in Nat
    BY <2>1, PowerTyped
  <2> QED  BY <2>2 DEF Reaching
<1>3. Spacing(n) = CHOOSE s \in B : \A t \in B : s =< t
  BY DEF Spacing, Min, Reaching
<1> HIDE DEF B
<1>4. PICK m \in B : \A t \in B : m <= t
  BY <1>1, <1>2, SmallestNat
<1>5. Spacing(n) \in B /\ \A t \in B : Spacing(n) <= t
  BY <1>3, <1>4
<1> QED  BY <1>1, <1>5 DEF B

\* The spacing is a power of two that divides those above it.
LEMMA SpacingDivides ==
  ASSUME NEW n \in Int, Spacing(n) \in Reaching(n)
  PROVE  /\ Spacing(n) \in Nat \ {0}
         /\ \E k \in Nat : Wide = k * Spacing(n)
<1>1. PICK e \in 0..WideBits : Spacing(n) = 2^e
  BY DEF Reaching
<1>2. WideBits \in Nat /\ e \in Nat /\ e <= WideBits /\ WideBits - e \in Nat
  BY <1>1, HostArgsAssumption
<1>3. 2^e \in Nat \ {0} /\ 2^(WideBits - e) \in Nat
  BY <1>2, PowerTyped
<1>4. Wide = 2^(WideBits - e) * 2^e
  BY <1>2, PowersDivide DEF Wide
<1> QED  BY <1>1, <1>3, <1>4

LEMMA DivMod ==
  ASSUME NEW n \in Int, NEW s \in Nat \ {0}
  PROVE  /\ n \div s \in Int /\ n % s \in 0..(s - 1)
         /\ n = (n \div s) * s + (n % s)
<1>1. n \div s \in Int /\ n % s \in 0..(s - 1)
  OBVIOUS
<1>2. n = (n \div s) * s + (n % s)
  OBVIOUS
<1> QED  BY <1>1, <1>2

\* Rounding a number does not cross a multiple of its spacing.
LEMMA RoundsWithin ==
  ASSUME NEW n \in Int, NEW s \in Nat \ {0}, s = Spacing(n), NEW k \in Int
  PROVE  /\ Double(n) \in Int
         /\ n <= k * s => Double(n) <= k * s
         /\ k * s <= n => k * s <= Double(n)
<1> DEFINE q == n \div s
           r == n % s
           up == 2 * r > s \/ (2 * r = s /\ q % 2 = 1)
<1>1. q \in Int /\ r \in 0..(s - 1) /\ n = q * s + r
  BY DivMod
<1>2. Double(n) = (IF up THEN q + 1 ELSE q) * s
  BY DEF Double
<1>3. up => r > 0
  <2>1. up => 2 * r >= s
    <3> HIDE DEF q, r
    <3> QED  BY <1>1
  <2> HIDE DEF up, q, r
  <2> QED  BY <1>1, <2>1
<1> HIDE DEF q, r, up
<1>4. ASSUME NEW a \in Int, NEW b \in Int, a < b
      PROVE  (a + 1) * s <= b * s
  <2>1. \A d \in Nat : 0 <= d * s
    OBVIOUS
  <2>2. b - (a + 1) \in Nat
    BY <1>4
  <2>3. 0 <= (b - (a + 1)) * s
    BY <2>1, <2>2
  <2>4. (b - (a + 1)) * s = b * s - (a + 1) * s
    OBVIOUS
  <2> QED  BY <2>3, <2>4
<1>5. /\ k * s \in Int /\ q * s \in Int /\ (q + 1) * s = q * s + s
  BY <1>1
<1>6. n <= k * s => Double(n) <= k * s
  <2> SUFFICES ASSUME n <= k * s PROVE Double(n) <= k * s
    OBVIOUS
  <2>1. q * s <= k * s
    BY <1>1, <1>5
  <2>2. CASE up
    <3>1. q * s < k * s
      BY <1>1, <1>3, <1>5, <2>2
    <3>2. q < k
      <4>1. CASE k < q
        <5>1. (k + 1) * s <= q * s
          BY <1>1, <1>4, <4>1
        <5>2. (k + 1) * s = k * s + s
          OBVIOUS
        <5> QED  BY <1>5, <3>1, <5>1, <5>2
      <4> QED  BY <1>1, <3>1, <4>1
    <3>3. (q + 1) * s <= k * s
      BY <1>1, <1>4, <3>2
    <3> QED  BY <1>2, <2>2, <3>3
  <2>3. CASE ~ up
    BY <1>2, <2>1, <2>3
  <2> QED  BY <2>2, <2>3
<1>7. k * s <= n => k * s <= Double(n)
  <2> SUFFICES ASSUME k * s <= n PROVE k * s <= Double(n)
    OBVIOUS
  <2>1. k <= q
    <3>1. CASE q < k
      <4>1. (q + 1) * s <= k * s
        BY <1>1, <1>4, <3>1
      <4> QED  BY <1>1, <1>5, <4>1
    <3> QED  BY <1>1, <3>1
  <2>2. k * s <= q * s
    <3>1. CASE k < q
      <4>1. (k + 1) * s <= q * s
        BY <1>1, <1>4, <3>1
      <4>2. (k + 1) * s = k * s + s
        OBVIOUS
      <4> QED  BY <1>5, <4>1, <4>2
    <3>2. CASE k = q
      BY <1>5, <3>2
    <3> QED  BY <1>1, <2>1, <3>1, <3>2
  <2>3. Double(n) = q * s \/ Double(n) = q * s + s
    BY <1>2, <1>5
  <2> QED  BY <1>5, <2>2, <2>3
<1>8. Double(n) \in Int
  BY <1>1, <1>2
<1> QED  BY <1>6, <1>7, <1>8

LEMMA SafeStays ==
  ASSUME NEW n \in Int, -Safe <= n, n <= Safe
  PROVE  Double(n) = n
<1> DEFINE e == 0
<1>1. 2^e = 1 /\ e \in 0..WideBits
  BY HostArgsAssumption
<1>2. Safe * 2^e = Safe /\ -Safe * 2^e = -Safe
  BY <1>1, Sizes
<1> HIDE DEF e
<1>3. Spacing(n) \in Reaching(n) /\ Spacing(n) <= 1
  BY <1>1, <1>2, SpacingFound
<1>4. Spacing(n) = 1
  BY <1>3, SpacingDivides
<1> DEFINE s == Spacing(n)
<1>5. s = 1 /\ s \in Nat \ {0} /\ n * s = n
  BY <1>4
<1> HIDE DEF s
<1>6. /\ Double(n) \in Int
      /\ n <= n * s => Double(n) <= n * s
      /\ n * s <= n => n * s <= Double(n)
  BY <1>5, RoundsWithin DEF s
<1> QED  BY <1>5, <1>6

\* A power of two above the safe integers: the number below it rounds to it or
\* stays below, and stays above the safe ones.
LEMMA TopRounds ==
  ASSUME NEW d \in {Wide, 2 * Wide}, NEW e \in 1..WideBits, d = Safe * 2^e
  PROVE  /\ Double(d - 1) \in Int
         /\ Double(d - 1) <= d /\ Safe <= Double(d - 1)
<1> DEFINE n == d - 1
           b == 2^e
<1>1. WideBits \in Nat /\ e \in Nat /\ e - 1 \in Nat /\ e \in 0..WideBits
  BY HostArgsAssumption
<1>2. /\ Wide \in Nat \ {0} /\ d \in Nat \ {0} /\ n \in Nat /\ n <= d
      /\ b \in Nat \ {0} /\ 2 <= b /\ Safe \in Nat \ {0} /\ 2 <= Safe
  <2>1. 2^((e - 1) + 1) = 2 * 2^(e - 1) /\ 2^(e - 1) \in Nat \ {0}
    BY <1>1, NextPower, PowerTyped
  <2>2. (e - 1) + 1 = e
    BY <1>1
  <2>3. b = 2 * 2^(e - 1)
    BY <2>1, <2>2
  <2>4. b \in Nat \ {0} /\ 2 <= b
    <3> HIDE DEF b
    <3> QED  BY <2>1, <2>3
  <2>5. Wide \in Nat \ {0} /\ Safe \in Nat \ {0} /\ 2 <= Safe
    BY Sizes
  <2> HIDE DEF b
  <2> QED  BY <2>4, <2>5
<1>3. -Safe * b <= n /\ n <= Safe * b
  <2>1. Safe * b = d /\ -Safe * b = -d
    BY <1>2
  <2> HIDE DEF b
  <2> QED  BY <1>2, <2>1
<1>4. Spacing(n) \in Reaching(n) /\ Spacing(n) <= b
  <2> HIDE DEF n
  <2> QED  BY <1>1, <1>2, <1>3, SpacingFound
<1> DEFINE s == Spacing(n)
<1>5. PICK k \in Nat : Wide = k * s
  <2> HIDE DEF n
  <2> QED  BY <1>2, <1>4, SpacingDivides
<1>6. s \in Nat \ {0} /\ s <= b
  <2> HIDE DEF n
  <2> QED  BY <1>2, <1>4, SpacingDivides
<1>7. PICK j \in Nat : d = j * s
  <2>1. CASE d = Wide
    BY <1>5, <2>1
  <2>2. CASE d = 2 * Wide
    <3> HIDE DEF s
    <3>1. (2 * k) * s = 2 * (k * s) /\ 2 * k \in Nat
      BY <1>6
    <3> QED  BY <1>5, <2>2, <3>1
  <2> QED  BY <2>1, <2>2
<1>8. /\ Double(n) \in Int
      /\ n <= j * s => Double(n) <= j * s
      /\ (j - 1) * s <= n => (j - 1) * s <= Double(n)
  <2>1. s = Spacing(n) /\ n \in Int /\ j \in Int /\ j - 1 \in Int
    BY <1>2
  <2> HIDE DEF s, n
  <2> QED  BY <1>6, <2>1, RoundsWithin
<1>9. (j - 1) * s = d - s
  <2> HIDE DEF s
  <2> QED  BY <1>6, <1>7
<1>10. d - b >= Safe
  <2> HIDE DEF b
  <2>1. (Safe - 2) * (b - 2) >= 0
    <3>1. \A x, y \in Nat : x * y >= 0
      OBVIOUS
    <3>2. Safe - 2 \in Nat /\ b - 2 \in Nat
      BY <1>2
    <3> QED  BY <3>1, <3>2
  <2>2. (Safe - 2) * (b - 2) = Safe * b - 2 * Safe - 2 * b + 4
    BY <1>2
  <2>3. d = Safe * b
    BY DEF b
  <2> QED  BY <1>2, <2>1, <2>2, <2>3
<1> HIDE DEF s, b
<1> QED  BY <1>2, <1>6, <1>7, <1>8, <1>9, <1>10

\* The bounds of the types as doubles.
LEMMA BoundsRound ==
  ASSUME NEW T \in IntTypes
  PROVE  /\ Double(Lowest(T)) = Lowest(T)
         /\ Double(Highest(T)) \in Int /\ Double(Highest(T)) <= Highest(T) + 1
         /\ T \in {"i32", "u32"} => Double(Highest(T)) = Highest(T)
         /\ T \in {"i64", "u64"} => Safe <= Double(Highest(T))
<1>1. CASE T \in {"i32", "u32"}
  <2>1. Double(Lowest(T)) = Lowest(T) /\ Double(Highest(T)) = Highest(T)
    <3>1. /\ Lowest(T) \in Int /\ -Safe <= Lowest(T) /\ Lowest(T) <= Safe
          /\ Highest(T) \in Int /\ -Safe <= Highest(T) /\ Highest(T) <= Safe
      BY <1>1, Widths, Sizes
    <3> QED  BY <3>1, SafeStays
  <2> QED  BY <1>1, <2>1, Widths
<1>2. /\ SafeBits \in Nat /\ WideBits \in Nat /\ SafeBits >= 1
      /\ WideBits - SafeBits \in 1..WideBits
      /\ WideBits - SafeBits + 1 \in 1..WideBits
      /\ SafeBits + (WideBits - SafeBits) = WideBits
      /\ SafeBits + (WideBits - SafeBits + 1) = WideBits + 1
  BY HostArgsAssumption
<1>3. CASE T = "i64"
  <2>1. Double(Lowest(T)) = Lowest(T)
    <3> DEFINE n == -Wide
               s == Spacing(n)
    <3>1. /\ n \in Int /\ WideBits \in 0..WideBits
          /\ -Safe * 2^WideBits <= n /\ n <= Safe * 2^WideBits
      <4>1. Safe >= 1 /\ Wide \in Nat /\ Safe \in Nat
        BY Sizes
      <4>2. \A x, y \in Nat : x >= 1 => -x * y <= -y /\ -y <= x * y
        <5> TAKE x, y \in Nat
        <5> HAVE x >= 1
        <5>1. \A z \in Nat : z * y >= 0
          OBVIOUS
        <5>2. (x - 1) * y >= 0
          BY <5>1, x - 1 \in Nat
        <5>3. (x - 1) * y = x * y - y /\ -x * y = -(x * y) /\ x * y \in Int
          OBVIOUS
        <5> QED  BY <5>2, <5>3
      <4>3. -Safe * Wide <= -Wide /\ -Wide <= Safe * Wide
        BY <4>1, <4>2
      <4> QED  BY <1>2, <4>1, <4>3 DEF Wide
    <3>2. s \in Reaching(n)
      <4> HIDE DEF n
      <4> QED  BY <3>1, SpacingFound
    <3>3. s \in Nat \ {0} /\ s = Spacing(n)
      <4> HIDE DEF n
      <4> QED  BY <3>1, <3>2, SpacingDivides
    <3>4. PICK k \in Nat : Wide = k * s
      <4> HIDE DEF n
      <4> QED  BY <3>1, <3>2, SpacingDivides
    <3> HIDE DEF s
    <3>5. -k \in Int /\ (-k) * s = n
      BY <3>3, <3>4
    <3> DEFINE m == -k
    <3>6. m \in Int /\ m * s = n
      BY <3>5
    <3> HIDE DEF m, n
    <3>7. /\ Double(n) \in Int
          /\ n <= m * s => Double(n) <= m * s
          /\ m * s <= n => m * s <= Double(n)
      BY <3>1, <3>3, <3>6, RoundsWithin
    <3>8. Double(n) = n
      BY <3>1, <3>6, <3>7
    <3> QED  BY <1>3, <3>8 DEF n, Lowest
  <2>2. Wide = Safe * 2^(WideBits - SafeBits)
    <3>1. 2^(SafeBits + (WideBits - SafeBits)) = 2^SafeBits * 2^(WideBits - SafeBits)
      BY <1>2, PowerOfSum, WideBits - SafeBits \in Nat
    <3> QED  BY <1>2, <3>1 DEF Wide, Safe
  <2>3. /\ Double(Wide - 1) \in Int
        /\ Double(Wide - 1) <= Wide /\ Safe <= Double(Wide - 1)
    <3>1. Wide \in {Wide, 2 * Wide}
      OBVIOUS
    <3> QED  BY <1>2, <2>2, <3>1, TopRounds
  <2>4. Highest(T) = Wide - 1
    BY <1>3 DEF Highest
  <2> QED  BY <1>3, <2>1, <2>3, <2>4, Sizes
<1>4. CASE T = "u64"
  <2>1. Double(Lowest(T)) = Lowest(T)
    <3>1. Lowest(T) \in Int /\ -Safe <= Lowest(T) /\ Lowest(T) <= Safe
      BY <1>4, Sizes DEF Lowest
    <3> QED  BY <3>1, SafeStays
  <2>2. 2 * Wide = Safe * 2^(WideBits - SafeBits + 1)
    <3>1. 2^(SafeBits + (WideBits - SafeBits + 1))
            = 2^SafeBits * 2^(WideBits - SafeBits + 1)
      BY <1>2, PowerOfSum, WideBits - SafeBits + 1 \in Nat
    <3>2. 2^(WideBits + 1) = 2 * 2^WideBits
      BY <1>2, NextPower
    <3> QED  BY <1>2, <3>1, <3>2 DEF Wide, Safe
  <2>3. /\ Double(2 * Wide - 1) \in Int
        /\ Double(2 * Wide - 1) <= 2 * Wide /\ Safe <= Double(2 * Wide - 1)
    <3> DEFINE d == 2 * Wide
    <3>1. d \in {Wide, 2 * Wide} /\ d = Safe * 2^(WideBits - SafeBits + 1)
      BY <2>2
    <3> HIDE DEF d
    <3>2. Double(d - 1) \in Int /\ Double(d - 1) <= d /\ Safe <= Double(d - 1)
      BY <1>2, <3>1, TopRounds
    <3> QED  BY <3>2 DEF d
  <2>4. Highest(T) = 2 * Wide - 1
    BY <1>4 DEF Highest
  <2> QED  BY <1>4, <2>1, <2>3, <2>4, Sizes
<1> QED  BY <1>1, <1>3, <1>4 DEF IntTypes

-----------------------------------------------------------------------------
(* Conversions.                                                            *)

LEMMA MinOfTwo ==
  ASSUME NEW a \in Int, NEW b \in Int
  PROVE  /\ Min({a, b}) = (IF a <= b THEN a ELSE b)
         /\ Max({a, b}) = (IF a <= b THEN b ELSE a)
<1>1. Min({a, b}) \in {a, b} /\ \A y \in {a, b} : Min({a, b}) <= y
  <2>1. \E x \in {a, b} : \A y \in {a, b} : x <= y
    OBVIOUS
  <2> QED  BY <2>1 DEF Min
<1>2. Max({a, b}) \in {a, b} /\ \A y \in {a, b} : Max({a, b}) >= y
  <2>1. \E x \in {a, b} : \A y \in {a, b} : x >= y
    OBVIOUS
  <2> QED  BY <2>1 DEF Max
<1> QED  BY <1>1, <1>2

LEMMA CastSaturates ==
  ASSUME NEW T \in IntTypes, NEW n \in Int
  PROVE  /\ Cast(T, n) \in Width(T)
         /\ n \in Width(T) => Cast(T, n) = n
         /\ n > Highest(T) => Cast(T, n) = Highest(T)
<1> DEFINE lo == Lowest(T)
           hi == Highest(T)
           m == IF hi <= n THEN hi ELSE n
<1>1. lo \in Int /\ hi \in Int /\ lo <= hi /\ m \in Int
  BY Widths
<1> HIDE DEF lo, hi
<1>2. Min({hi, n}) = m
  BY <1>1, MinOfTwo
<1> HIDE DEF m
<1>3. Cast(T, n) = IF lo <= m THEN m ELSE lo
  BY <1>1, <1>2, MinOfTwo DEF Cast, lo, hi
<1> QED  BY <1>1, <1>3 DEF m, Width, lo, hi

LEMMA Truncated ==
  ASSUME NEW n \in Int
  PROVE  /\ ToI64(n) \in Int
         /\ n \in Width("i64") => ToI64(n) = n
         /\ Wide <= n /\ n < 2 * Wide => ToI64(n) < 0
<1> DEFINE s == 2 * Wide
           m == n + Wide
           q == m \div s
           r == m % s
<1>1. Wide \in Nat \ {0} /\ s \in Nat \ {0} /\ m \in Int
  BY Sizes
<1>2. q \in Int /\ r \in 0..(s - 1) /\ m = q * s + r
  <2> HIDE DEF s, m
  <2> QED  BY <1>1, DivMod
<1>3. ToI64(n) = r - Wide
  BY DEF ToI64
<1>4. m < s /\ 0 <= m => r = m
  <2> HIDE DEF s, m
  <2> QED  BY <1>1
<1>5. s <= m /\ m < 2 * s => r = m - s
  <2> SUFFICES ASSUME s <= m, m < 2 * s PROVE r = m - s
    OBVIOUS
  <2> HIDE DEF s, m, r, q
  <2>0. s \in Int /\ q * s \in Int /\ r \in Int /\ 0 <= r /\ r < s
    BY <1>1, <1>2
  <2>1. CASE q <= 0
    <3>1. q * s <= 0
      <4>1. \A x, y \in Nat : 0 <= x * y
        OBVIOUS
      <4>2. 0 <= (-q) * s
        BY <1>1, <1>2, <2>1, <4>1, -q \in Nat
      <4>3. (-q) * s = -(q * s)
        BY <1>1, <1>2
      <4> QED  BY <2>0, <4>2, <4>3
    <3> QED  BY <1>1, <1>2, <2>0, <3>1
  <2>2. CASE q >= 2
    <3>1. q * s >= 2 * s
      <4>1. \A x, y \in Nat : 0 <= x * y
        OBVIOUS
      <4>2. 0 <= (q - 2) * s
        BY <1>1, <1>2, <2>2, <4>1, q - 2 \in Nat
      <4>3. (q - 2) * s = q * s - 2 * s
        BY <1>1, <1>2
      <4> QED  BY <2>0, <4>2, <4>3
    <3> QED  BY <1>1, <1>2, <2>0, <3>1
  <2>3. CASE q = 1
    <3>1. q * s = s
      BY <1>1, <2>3
    <3> QED  BY <1>1, <1>2, <2>0, <3>1
  <2> QED  BY <1>2, <2>1, <2>2, <2>3
<1> HIDE DEF q, r
<1>6. ToI64(n) \in Int
  BY <1>1, <1>2, <1>3
<1>7. n \in Width("i64") => ToI64(n) = n
  BY <1>1, <1>3, <1>4 DEF Width, Lowest, Highest
<1>8. Wide <= n /\ n < 2 * Wide => ToI64(n) < 0
  BY <1>1, <1>3, <1>5
<1> QED  BY <1>6, <1>7, <1>8

\* What reading a number makes of it.
IsExact(T, v, m) ==
  \/ m = v.n
  \/ v.tag = "number" /\ v.n = Highest(T) + 1 /\ m = Highest(T)
  \/ v.tag = "bigint" /\ v.n \notin Width("i64") /\ m = ToI64(v.n)

LEMMA ReadsExactly ==
  ASSUME NEW T \in IntTypes, NEW v \in JsValues, NumberFromJs(T, v) # <<>>
  PROVE  \E m \in Width(T) : NumberFromJs(T, v) = <<JsValue(T, m)>> /\ IsExact(T, v, m)
<1>1. v.n \in Int /\ v.tag \in {"number", "bigint"}
  BY DEF JsValues, NumberFromJs, IntTypes
<1>2. CASE v.tag = "bigint"
  <2> DEFINE m == ToI64(v.n)
  <2>1. m \in Int /\ (v.n \in Width("i64") => m = v.n)
    BY <1>1, Truncated
  <2>2. NumberFromJs(T, v) = IF Fits(T, m) THEN <<JsValue(T, m)>> ELSE <<>>
    BY <1>2 DEF NumberFromJs, IntTypes
  <2> HIDE DEF m
  <2>3. m \in Width(T)
    BY <2>2 DEF Fits
  <2>4. IsExact(T, v, m)
    BY <1>2, <2>1 DEF IsExact, m
  <2> QED  BY <2>2, <2>3, <2>4 DEF Fits
<1>3. CASE v.tag = "number"
  <2> DEFINE m == Cast(T, v.n)
  <2>1. /\ m \in Width(T)
        /\ v.n \in Width(T) => m = v.n
        /\ v.n > Highest(T) => m = Highest(T)
    BY <1>1, CastSaturates
  <2>2. NumberFromJs(T, v) = IF InBounds(T, v.n) THEN <<JsValue(T, m)>> ELSE <<>>
    BY <1>3 DEF NumberFromJs, IntTypes
  <2> HIDE DEF m
  <2>3. Double(Lowest(T)) <= v.n /\ v.n <= Double(Highest(T))
    BY <2>2 DEF InBounds
  <2>4. /\ Lowest(T) <= v.n /\ v.n <= Highest(T) + 1
        /\ Lowest(T) \in Int /\ Highest(T) \in Int
    BY <1>1, <2>3, BoundsRound, Widths
  <2>5. v.n \in Width(T) \/ (v.n = Highest(T) + 1 /\ v.n > Highest(T))
    BY <1>1, <2>4 DEF Width
  <2>6. IsExact(T, v, m)
    BY <1>3, <2>1, <2>5 DEF IsExact
  <2> QED  BY <2>1, <2>2, <2>6
<1> QED  BY <1>1, <1>2, <1>3

\* A number that is written and read as the same type.
LEMMA WrittenThenRead ==
  ASSUME NEW T \in IntTypes, NEW n \in Width(T)
  PROVE  /\ NumberFromJs(T, NumberIntoJs(T, n)) # <<>> =>
              NumberFromJs(T, NumberIntoJs(T, n)) = <<JsValue(T, n)>>
         /\ NumberFromJs(T, NumberIntoJs(T, n)) = <<>> => n > Highest("i64")
<1> DEFINE v == NumberIntoJs(T, n)
<1>1. /\ n \in Int /\ Lowest(T) <= n /\ n <= Highest(T)
      /\ -Wide <= n /\ n <= 2 * Wide - 1
  BY Widths, Sizes DEF Width
<1>2. CASE T \in {"i32", "u32"} \/ StaysNumber(n)
  <2>1. -Safe <= n /\ n <= Safe
    BY <1>1, <1>2, Widths, Sizes DEF StaysNumber
  <2>2. v = JsValue("number", n)
    BY <1>1, <1>2, <2>1, SafeStays DEF NumberIntoJs
  <2>3. v.tag = "number" /\ v.n = n
    BY <2>2 DEF JsValue
  <2>4. Double(Lowest(T)) <= n /\ n <= Double(Highest(T))
    <3>1. Double(Lowest(T)) <= n
      BY <1>1, BoundsRound
    <3>2. CASE T \in {"i32", "u32"}
      BY <1>1, <3>1, <3>2, BoundsRound
    <3>3. CASE T \in {"i64", "u64"}
      BY <1>1, <2>1, <3>1, <3>3, BoundsRound, Sizes
    <3> QED  BY <3>2, <3>3 DEF IntTypes
  <2>5. Cast(T, n) = n
    BY <1>1, CastSaturates
  <2> HIDE DEF v
  <2>6. NumberFromJs(T, v) = <<JsValue(T, n)>>
    BY <2>3, <2>4, <2>5 DEF NumberFromJs, IntTypes, InBounds
  <2> QED  BY <2>6 DEF v
<1>3. CASE ~ (T \in {"i32", "u32"} \/ StaysNumber(n))
  <2>1. v.tag = "bigint" /\ v.n = n
    BY <1>3 DEF NumberIntoJs, JsValue
  <2> HIDE DEF v
  <2>2. NumberFromJs(T, v) = IF Fits(T, ToI64(n)) THEN <<JsValue(T, ToI64(n))>> ELSE <<>>
    BY <2>1 DEF NumberFromJs, IntTypes
  <2>3. Highest("i64") = Wide - 1 /\ Lowest("i64") = -Wide /\ Wide \in Nat
    BY Sizes DEF Highest, Lowest
  <2>4. CASE n <= Highest("i64")
    <3>1. n \in Width("i64")
      BY <1>1, <2>3, <2>4 DEF Width
    <3>2. ToI64(n) = n
      BY <1>1, <3>1, Truncated
    <3> QED  BY <2>2, <3>2 DEF Fits, v
  <2>5. CASE n > Highest("i64")
    <3>1. ToI64(n) < 0 /\ ToI64(n) \in Int
      BY <1>1, <2>3, <2>5, Truncated
    <3>2. T = "u64"
      BY <1>1, <1>3, <2>3, <2>5 DEF IntTypes
    <3>3. ~ Fits(T, ToI64(n))
      BY <3>1, <3>2 DEF Fits, Width, Lowest
    <3> QED  BY <2>2, <2>5, <3>3 DEF v
  <2> QED  BY <1>1, <2>3, <2>4, <2>5
<1> QED  BY <1>2, <1>3

\* What a parameter may hold.
Held == [tag: {"undefined", "odd", "object", "number", "bigint"} \cup IntTypes, n: Int]

LEMMA ReadTyped ==
  ASSUME NEW T \in Types, NEW v \in JsValues, NumberFromJs(T, v) # <<>>
  PROVE  \E w \in Held : NumberFromJs(T, v) = <<w>> /\ Holds(T, w)
<1>1. CASE T \in IntTypes
  <2>1. PICK m \in Width(T) : NumberFromJs(T, v) = <<JsValue(T, m)>>
    BY <1>1, ReadsExactly
  <2>2. m \in Int
    BY <1>1, <2>1, Widths DEF Width
  <2>3. JsValue(T, m) \in Held /\ Holds(T, JsValue(T, m))
    BY <1>1, <2>1, <2>2 DEF Held, Holds, JsValue
  <2> QED  BY <2>1, <2>3
<1>2. CASE T \in {"f64", "value"}
  <2>1. v \in Held /\ NumberFromJs(T, v) = <<v>>
    BY <1>2 DEF Held, JsValues, NumberFromJs
  <2>2. Holds(T, v)
    BY <1>2 DEF Holds, NumberFromJs, IntTypes
  <2> QED  BY <2>1, <2>2
<1> QED  BY <1>1, <1>2 DEF Types

LEMMA IntoJsTyped ==
  ASSUME NEW T \in IntTypes, NEW n \in Width(T)
  PROVE  NumberIntoJs(T, n) \in JsValues
<1>1. n \in Int /\ n <= Highest(T) /\ Lowest(T) <= n
  BY Widths DEF Width
<1>2. T \in {"i32", "u32"} \/ StaysNumber(n) => Double(n) \in Int
  <2>1. T \in {"i32", "u32"} \/ StaysNumber(n) => -Safe <= n /\ n <= Safe
    BY <1>1, Widths, Sizes DEF StaysNumber
  <2> QED  BY <1>1, <2>1, SafeStays
<1> QED  BY <1>1, <1>2 DEF NumberIntoJs, JsValue, JsValues

-----------------------------------------------------------------------------
(* The cursor of Params.                                                   *)

TakersBefore(i) == {j \in 1..(i - 1) : sig[j].kind \in {"plain", "opt"}}
RestBefore(i) == \E j \in 1..(i - 1) : sig[j].kind = "rest"

\* Where the cursor stands when the i-th parameter is converted, read off the
\* declaration.
Cursor(i) ==
  IF RestBefore(i) \/ Cardinality(TakersBefore(i)) > Len(args) THEN Len(args)
  ELSE Cardinality(TakersBefore(i))

LEMMA TakersCounted ==
  ASSUME NEW i \in Nat
  PROVE  IsFiniteSet(TakersBefore(i)) /\ Cardinality(TakersBefore(i)) \in Nat
<1>1. IsFiniteSet(1..(i - 1))
  BY FS_Interval, i - 1 \in Int
<1>2. TakersBefore(i) \in SUBSET (1..(i - 1))
  BY DEF TakersBefore
<1> QED  BY <1>1, <1>2, FS_Subset, FS_CardinalityType

LEMMA CursorMoves ==
  ASSUME args \in Seq(JsValues), sig \in Seq(ParamSpec), NEW i \in DOMAIN sig
  PROVE  /\ Cursor(i) \in 0..Len(args)
         /\ sig[i].kind \in {"plain", "opt"} =>
              Cursor(i + 1) = IF Cursor(i) < Len(args) THEN Cursor(i) + 1 ELSE Cursor(i)
         /\ sig[i].kind = "rest" => Cursor(i + 1) = Len(args)
         /\ sig[i].kind = "exhaustive" => Cursor(i + 1) = Cursor(i)
<1>1. /\ i \in Nat /\ i + 1 \in Nat /\ i \notin 1..(i - 1)
      /\ 1..(i + 1 - 1) = (1..(i - 1)) \cup {i}
  OBVIOUS
<1>2. RestBefore(i + 1) <=> (RestBefore(i) \/ sig[i].kind = "rest")
  BY <1>1 DEF RestBefore
<1> DEFINE taken == Cardinality(TakersBefore(i))
           len == Len(args)
<1>3. taken \in Nat /\ IsFiniteSet(TakersBefore(i)) /\ len \in Nat
  BY <1>1, TakersCounted
<1>4. CASE sig[i].kind \in {"plain", "opt"}
  <2>1. TakersBefore(i + 1) = TakersBefore(i) \cup {i} /\ i \notin TakersBefore(i)
    BY <1>1, <1>4 DEF TakersBefore
  <2>2. Cardinality(TakersBefore(i + 1)) = taken + 1
    BY <1>3, <2>1, FS_AddElement
  <2>3. RestBefore(i + 1) <=> RestBefore(i)
    BY <1>2, <1>4
  <2> HIDE DEF taken, len
  <2>4. /\ Cursor(i) = IF RestBefore(i) \/ taken > len THEN len ELSE taken
        /\ Cursor(i + 1) = IF RestBefore(i) \/ taken + 1 > len THEN len ELSE taken + 1
    BY <2>2, <2>3 DEF Cursor, taken, len
  <2> QED  BY <1>3, <1>4, <2>4 DEF len
<1>5. CASE sig[i].kind \in {"rest", "exhaustive"}
  <2>1. TakersBefore(i + 1) = TakersBefore(i)
    BY <1>1, <1>5 DEF TakersBefore
  <2>2. RestBefore(i + 1) <=> (RestBefore(i) \/ sig[i].kind = "rest")
    BY <1>2
  <2> HIDE DEF taken, len
  <2>3. /\ Cursor(i) = IF RestBefore(i) \/ taken > len THEN len ELSE taken
        /\ Cursor(i + 1) = IF RestBefore(i + 1) \/ taken > len THEN len ELSE taken
    BY <2>1 DEF Cursor, taken, len
  <2> QED  BY <1>3, <1>5, <2>2, <2>3 DEF len
<1>6. sig[i].kind \in ParamKinds
  <2>1. sig[i] \in ParamSpec
    OBVIOUS
  <2> QED  BY <2>1 DEF ParamSpec
<1> QED  BY <1>4, <1>5, <1>6 DEF ParamKinds

\* The cursor shows what is left of the arguments.
LEMMA GivenFromCursor ==
  ASSUME args \in Seq(JsValues), NEW i \in Nat, index = Cursor(i)
  PROVE  /\ index \in 0..Len(args)
         /\ Given(i) \in Seq(JsValues) /\ Len(Given(i)) = Len(args) - index
         /\ \A k \in 1..(Len(args) - index) : Given(i)[k] = args[index + k]
         /\ First(i) = Argument /\ Argument \in JsValues
<1> DEFINE taken == Cardinality(TakersBefore(i))
<1>1. taken \in Nat /\ Len(args) \in Nat
  BY TakersCounted
<1>2. Given(i) = IF RestBefore(i) THEN <<>> ELSE SubSeq(args, taken + 1, Len(args))
  BY DEF Given, RestBefore, TakersBefore
<1> HIDE DEF taken
<1>3. index = IF RestBefore(i) \/ taken > Len(args) THEN Len(args) ELSE taken
  BY DEF Cursor, taken
<1>4. index \in 0..Len(args)
  BY <1>1, <1>3
<1>5. /\ Given(i) \in Seq(JsValues) /\ Len(Given(i)) = Len(args) - index
      /\ \A k \in 1..(Len(args) - index) : Given(i)[k] = args[index + k]
  <2>1. CASE RestBefore(i) \/ taken > Len(args)
    <3>1. index = Len(args)
      BY <1>3, <2>1
    <3>2. Given(i) = <<>>
      <4>1. taken > Len(args) => SubSeq(args, taken + 1, Len(args)) = <<>>
        BY <1>1
      <4> QED  BY <1>2, <2>1, <4>1
    <3> QED  BY <1>1, <3>1, <3>2
  <2>2. CASE ~ (RestBefore(i) \/ taken > Len(args))
    <3>1. index = taken /\ Given(i) = SubSeq(args, index + 1, Len(args))
      BY <1>2, <1>3, <2>2
    <3> QED  BY <1>1, <1>4, <3>1
  <2> QED  BY <2>1, <2>2
<1>6. Argument \in JsValues
  <2>1. UndefinedArg \in JsValues
    BY DEF UndefinedArg, JsValue, JsValues
  <2>2. index < Len(args) => args[index + 1] \in JsValues
    BY <1>1, <1>4
  <2> QED  BY <2>1, <2>2 DEF Argument
<1>7. First(i) = Argument
  <2>1. CASE index < Len(args)
    <3>1. Given(i) # <<>> /\ Head(Given(i)) = Given(i)[1] /\ Given(i)[1] = args[index + 1]
      BY <1>4, <1>5, <2>1
    <3> QED  BY <2>1, <3>1 DEF First, Argument
  <2>2. CASE index = Len(args)
    <3>1. Given(i) = <<>>
      BY <1>1, <1>5, <2>2
    <3> QED  BY <1>1, <2>2, <3>1 DEF First, Argument
  <2> QED  BY <1>1, <1>4, <2>1, <2>2
<1> QED  BY <1>4, <1>5, <1>6, <1>7

-----------------------------------------------------------------------------
(* The inductive invariant of the conversion of arguments.                 *)

ArgTypes ==
  /\ args \in Seq(JsValues) /\ sig \in Seq(ParamSpec) /\ got \in Seq(Seq(Held))
  /\ TypeOK

\* The cursor stands where the declaration says.
CursorInPlace ==
  /\ phase = "js" => index = 0 /\ got = <<>> /\ sig = <<>>
  /\ phase = "converting" => index = Cursor(Len(got) + 1)
  /\ phase = "threw" => Len(got) < Len(sig)

FromRust ==
  origin # <<>> => \E T \in IntTypes : \E n \in Width(T) :
    origin = <<T, n>> /\ args # <<>> /\ args[1] = NumberIntoJs(T, n)

ArgsInv == ArgTypes /\ CursorInPlace /\ ArgumentsInPlace /\ FromRust

LEMMA ArgsInit ==
  Init => ArgsInv
<1> SUFFICES ASSUME Init PROVE ArgsInv
  OBVIOUS
<1>1. ArgTypes
  BY DEF Init, ArgTypes, TypeOK
<1> QED  BY <1>1 DEF Init, ArgsInv, CursorInPlace, ArgumentsInPlace, FromRust

\* What the declaration means does not change while the call is under way.
LEMMA MeantKept ==
  ASSUME sig' = sig, args' = args
  PROVE  /\ \A i : Meant(i)' = Meant(i)
         /\ \A i : Refuses(i)' = Refuses(i)
         /\ \A i : Cursor(i)' = Cursor(i)
<1>1. \A i : Given(i)' = Given(i)
  BY DEF Given
<1>2. \A i : First(i)' = First(i)
  BY <1>1 DEF First
<1>3. \A i : Meant(i)' = Meant(i)
  BY <1>1, <1>2 DEF Meant
<1>4. \A i : Refuses(i)' = Refuses(i)
  BY <1>3 DEF Refuses
<1>5. \A i : TakersBefore(i)' = TakersBefore(i) /\ RestBefore(i)' = RestBefore(i)
  BY DEF TakersBefore, RestBefore
<1>6. \A i : Cursor(i)' = Cursor(i)
  BY <1>5 DEF Cursor
<1> QED  BY <1>3, <1>4, <1>6

-----------------------------------------------------------------------------
(* The steps.                                                              *)

LEMMA ArgumentsPassed ==
  ASSUME ArgsInv,
         \/ \E i \in DOMAIN ArgSets : \E v \in ArgSets[i] : Pass(v)
         \/ \E T \in IntTypes : \E n \in Width(T) : PassReturned(T, n)
  PROVE  ArgsInv'
<1>1. /\ phase = "js" /\ phase' = "js" /\ index = 0 /\ index' = 0
      /\ got = <<>> /\ got' = <<>> /\ sig = <<>> /\ sig' = <<>>
  BY DEF ArgsInv, CursorInPlace, Pass, PassReturned
<1>2. args' \in Seq(JsValues) /\ FromRust'
  <2>1. ASSUME NEW i \in DOMAIN ArgSets, NEW v \in ArgSets[i], Pass(v)
        PROVE  args' \in Seq(JsValues) /\ FromRust'
    <3>1. v \in JsValues
      BY HostArgsAssumption, SignaturesAssumption
    <3>2. args \in Seq(JsValues) /\ args' = Append(args, v) /\ origin' = origin
      BY <2>1 DEF ArgsInv, ArgTypes, Pass
    <3>3. args # <<>> => args'[1] = args[1]
      BY <3>1, <3>2
    <3>4. args' \in Seq(JsValues) /\ args' # <<>>
      BY <3>1, <3>2
    <3> QED  BY <3>2, <3>3, <3>4 DEF ArgsInv, FromRust
  <2>2. ASSUME NEW T \in IntTypes, NEW n \in Width(T), PassReturned(T, n)
        PROVE  args' \in Seq(JsValues) /\ FromRust'
    <3>1. NumberIntoJs(T, n) \in JsValues
      BY IntoJsTyped
    <3>2. args' = <<NumberIntoJs(T, n)>> /\ origin' = <<T, n>>
      BY <2>2 DEF PassReturned
    <3>3. args' \in Seq(JsValues) /\ args' # <<>> /\ args'[1] = NumberIntoJs(T, n)
      BY <3>1, <3>2
    <3> QED  BY <3>2, <3>3 DEF FromRust
  <2> QED  BY <2>1, <2>2
<1>3. ArgTypes'
  BY <1>1, <1>2 DEF ArgTypes, TypeOK
<1>4. CursorInPlace' /\ ArgumentsInPlace'
  BY <1>1 DEF CursorInPlace, ArgumentsInPlace
<1> QED  BY <1>2, <1>3, <1>4 DEF ArgsInv

LEMMA HostCalled ==
  ASSUME ArgsInv, NEW s \in Signatures, CallHost(s)
  PROVE  ArgsInv'
<1>1. /\ phase' = "converting" /\ sig' = s /\ s \in Seq(ParamSpec)
      /\ args' = args /\ index' = 0 /\ got' = <<>> /\ origin' = origin
      /\ args \in Seq(JsValues) /\ args' \in Seq(JsValues)
  BY SignaturesAssumption DEF CallHost, ArgsInv, ArgTypes, CursorInPlace
<1>2. Cursor(1)' = 0
  <2>1. TakersBefore(1)' = {} /\ ~ RestBefore(1)'
    BY DEF TakersBefore, RestBefore
  <2>2. Len(args') \in Nat
    BY <1>1
  <2>3. Cardinality(TakersBefore(1)') = 0
    <3>1. Cardinality({}) = 0
      BY FS_EmptySet
    <3> QED  BY <2>1, <3>1
  <2>4. Cursor(1)' = IF RestBefore(1)' \/ Cardinality(TakersBefore(1)') > Len(args')
                    THEN Len(args') ELSE Cardinality(TakersBefore(1)')
    BY DEF Cursor
  <2> QED  BY <2>1, <2>2, <2>3, <2>4
<1>3. ArgTypes'
  BY <1>1 DEF ArgTypes, TypeOK
<1>4. CursorInPlace' /\ ArgumentsInPlace'
  <2>1. Len(got') + 1 = 1
    BY <1>1
  <2>2. index' = Cursor(Len(got) + 1)'
    BY <1>1, <1>2, <2>1
  <2> QED  BY <1>1, <2>2 DEF CursorInPlace, ArgumentsInPlace
<1>5. FromRust'
  BY <1>1 DEF ArgsInv, FromRust
<1> QED  BY <1>3, <1>4, <1>5 DEF ArgsInv

\* A parameter takes what it is given.
LEMMA ParameterStored ==
  ASSUME ArgsInv, phase = "converting", Len(got) < Len(sig),
         NEW values \in Seq(Held), Store(values), UNCHANGED <<args, sig, origin>>,
         ~ Refuses(Len(got) + 1),
         values = [k \in DOMAIN Meant(Len(got) + 1) |-> Head(Meant(Len(got) + 1)[k])],
         \A k \in DOMAIN values : Holds(sig[Len(got) + 1].type, values[k]),
         index' = Cursor(Len(got) + 2), index' \in 0..Len(args)
  PROVE  ArgsInv'
<1> DEFINE i == Len(got) + 1
<1>1. /\ args' = args /\ sig' = sig /\ origin' = origin /\ phase' = phase
      /\ got \in Seq(Seq(Held)) /\ got' = Append(got, values)
  BY DEF ArgsInv, ArgTypes, Store
<1>2. /\ got' \in Seq(Seq(Held)) /\ Len(got') = i /\ DOMAIN got' = DOMAIN got \cup {i}
      /\ got'[i] = values /\ \A j \in DOMAIN got : got'[j] = got[j]
      /\ Len(got') + 1 = Len(got) + 2 /\ i \notin DOMAIN got
  BY <1>1
<1>3. /\ \A j : Meant(j)' = Meant(j) /\ Refuses(j)' = Refuses(j)
      /\ \A j : Cursor(j)' = Cursor(j)
  BY <1>1, MeantKept
<1>4. ArgTypes'
  <2>1. \A j \in DOMAIN got' : \A k \in DOMAIN got'[j] : Holds(sig'[j].type, got'[j][k])
    BY <1>1, <1>2 DEF ArgsInv, ArgTypes, TypeOK
  <2>2. Len(got') <= Len(sig')
    BY <1>1, <1>2 DEF ArgsInv, ArgTypes
  <2> QED  BY <1>1, <1>2, <2>1, <2>2 DEF ArgsInv, ArgTypes, TypeOK
<1>5. CursorInPlace'
  <2>1. index' = Cursor(Len(got) + 1)'
    BY <1>2, <1>3
  <2> QED  BY <1>1, <2>1 DEF CursorInPlace
<1>6. ArgumentsInPlace'
  <2>1. ASSUME NEW j \in DOMAIN got'
        PROVE  ~ Refuses(j)' /\ got'[j] = [k \in DOMAIN Meant(j)' |-> Head(Meant(j)'[k])]
    <3>1. ~ Refuses(j) /\ got'[j] = [k \in DOMAIN Meant(j) |-> Head(Meant(j)[k])]
      <4>1. CASE j \in DOMAIN got
        BY <1>2, <4>1 DEF ArgsInv, ArgumentsInPlace
      <4>2. CASE j = i
        BY <1>2, <4>2
      <4> QED  BY <1>2, <4>1, <4>2
    <3>2. Meant(j)' = Meant(j) /\ Refuses(j)' = Refuses(j)
      BY <1>3
    <3> QED  BY <3>1, <3>2
  <2> QED  BY <1>1, <2>1 DEF ArgumentsInPlace
<1>7. FromRust'
  BY <1>1 DEF ArgsInv, FromRust
<1> QED  BY <1>4, <1>5, <1>6, <1>7 DEF ArgsInv

\* A parameter that refuses what it is given ends the call.
LEMMA ParameterRefused ==
  ASSUME ArgsInv, phase = "converting", Len(got) < Len(sig),
         Fail, UNCHANGED <<args, sig, origin>>, Refuses(Len(got) + 1),
         index' \in 0..Len(args)
  PROVE  ArgsInv'
<1>1. /\ args' = args /\ sig' = sig /\ origin' = origin /\ got' = got /\ phase' = "threw"
  BY DEF Fail
<1>2. \A j : Meant(j)' = Meant(j) /\ Refuses(j)' = Refuses(j)
  BY <1>1, MeantKept
<1>3. ArgTypes' /\ CursorInPlace'
  BY <1>1 DEF ArgsInv, ArgTypes, TypeOK, CursorInPlace
<1>4. ArgumentsInPlace'
  <2>1. \A j \in DOMAIN got' :
          ~ Refuses(j)' /\ got'[j] = [k \in DOMAIN Meant(j)' |-> Head(Meant(j)'[k])]
    BY <1>1, <1>2 DEF ArgsInv, ArgumentsInPlace
  <2>2. Refuses(Len(got) + 1)'
    BY <1>1, <1>2
  <2> QED  BY <2>1, <2>2 DEF ArgumentsInPlace
<1>5. FromRust'
  BY <1>1 DEF ArgsInv, FromRust
<1> QED  BY <1>3, <1>4, <1>5 DEF ArgsInv

\* Where a parameter stands that is converted.
LEMMA AtParameter ==
  ASSUME ArgsInv, phase = "converting", Len(got) < Len(sig)
  PROVE  LET i == Len(got) + 1 IN
         /\ i \in DOMAIN sig /\ i \in Nat /\ i + 1 = Len(got) + 2
         /\ Param = sig[i] /\ Param.type \in Types /\ Param.kind \in ParamKinds
         /\ index = Cursor(i) /\ index \in 0..Len(args) /\ Len(args) \in Nat
         /\ args \in Seq(JsValues) /\ sig \in Seq(ParamSpec)
<1> DEFINE i == Len(got) + 1
<1>1. args \in Seq(JsValues) /\ sig \in Seq(ParamSpec) /\ got \in Seq(Seq(Held))
  BY DEF ArgsInv, ArgTypes
<1>2. i \in DOMAIN sig /\ i \in Nat /\ i + 1 = Len(got) + 2
  BY <1>1
<1>3. sig[i] \in ParamSpec
  BY <1>1, <1>2
<1>4. Param = sig[i] /\ Param.type \in Types /\ Param.kind \in ParamKinds
  BY <1>3 DEF Param, ParamSpec
<1>5. index = Cursor(i) /\ index \in 0..Len(args)
  BY DEF ArgsInv, CursorInPlace, ArgTypes, TypeOK
<1> QED  BY <1>1, <1>2, <1>4, <1>5

LEMMA PlainConverted ==
  ASSUME ArgsInv, FromPlain
  PROVE  ArgsInv'
<1> DEFINE i == Len(got) + 1
           c == NumberFromJs(Param.type, Argument)
<1>1. /\ phase = "converting" /\ Len(got) < Len(sig) /\ Param.kind = "plain"
      /\ UNCHANGED <<args, sig, origin>> /\ index' = Advance
      /\ IF c = <<>> THEN Fail ELSE Store(c)
  BY DEF FromPlain, Converting
<1>2. /\ i \in DOMAIN sig /\ i \in Nat /\ i + 1 = Len(got) + 2
      /\ Param = sig[i] /\ Param.type \in Types
      /\ index = Cursor(i) /\ index \in 0..Len(args) /\ Len(args) \in Nat
      /\ args \in Seq(JsValues) /\ sig \in Seq(ParamSpec)
  BY <1>1, AtParameter
<1>3. First(i) = Argument /\ Argument \in JsValues
  BY <1>2, GivenFromCursor
<1>4. Meant(i) = <<c>>
  BY <1>1, <1>2, <1>3 DEF Meant
<1>5. Refuses(i) <=> c = <<>>
  BY <1>4 DEF Refuses, ToSet
<1>6. index' = Cursor(i + 1) /\ index' \in 0..Len(args)
  BY <1>1, <1>2, CursorMoves DEF Advance
<1>7. CASE c = <<>>
  BY <1>1, <1>2, <1>5, <1>6, <1>7, ParameterRefused
<1>8. CASE c # <<>>
  <2>1. PICK w \in Held : c = <<w>> /\ Holds(Param.type, w)
    BY <1>2, <1>3, <1>8, ReadTyped
  <2>2. c = [k \in DOMAIN Meant(i) |-> Head(Meant(i)[k])]
    <3> HIDE DEF c
    <3> QED  BY <1>4, <2>1
  <2>3. c \in Seq(Held) /\ \A k \in DOMAIN c : Holds(sig[i].type, c[k])
    <3> HIDE DEF c
    <3> QED  BY <1>2, <2>1
  <2>4. Store(c) /\ ~ Refuses(i)
    BY <1>1, <1>5, <1>8
  <2> HIDE DEF c
  <2> QED  BY <1>1, <1>2, <1>6, <2>2, <2>3, <2>4, ParameterStored
<1> QED  BY <1>7, <1>8

LEMMA OptConverted ==
  ASSUME ArgsInv, FromOpt
  PROVE  ArgsInv'
<1> DEFINE i == Len(got) + 1
           c == NumberFromJs(Param.type, Argument)
           none == <<>>
<1>1. /\ phase = "converting" /\ Len(got) < Len(sig) /\ Param.kind = "opt"
      /\ UNCHANGED <<args, sig, origin>> /\ index' = Advance
      /\ IF Argument = UndefinedArg THEN Store(none)
         ELSE IF c = <<>> THEN Fail ELSE Store(c)
  BY DEF FromOpt, Converting
<1>2. /\ i \in DOMAIN sig /\ i \in Nat /\ i + 1 = Len(got) + 2
      /\ Param = sig[i] /\ Param.type \in Types
      /\ index = Cursor(i) /\ index \in 0..Len(args) /\ Len(args) \in Nat
      /\ args \in Seq(JsValues) /\ sig \in Seq(ParamSpec)
  BY <1>1, AtParameter
<1>3. First(i) = Argument /\ Argument \in JsValues
  BY <1>2, GivenFromCursor
<1>4. Meant(i) = IF Argument = UndefinedArg THEN <<>> ELSE <<c>>
  BY <1>1, <1>2, <1>3 DEF Meant
<1>5. Refuses(i) <=> Argument # UndefinedArg /\ c = <<>>
  BY <1>4 DEF Refuses, ToSet
<1>6. index' = Cursor(i + 1) /\ index' \in 0..Len(args)
  BY <1>1, <1>2, CursorMoves DEF Advance
<1>7. CASE Argument # UndefinedArg /\ c = <<>>
  BY <1>1, <1>2, <1>5, <1>6, <1>7, ParameterRefused
<1>8. CASE Argument = UndefinedArg
  <2>1. none = [k \in DOMAIN Meant(i) |-> Head(Meant(i)[k])]
    <3>1. Meant(i) = <<>>
      BY <1>4, <1>8
    <3> QED  BY <3>1
  <2>2. none \in Seq(Held) /\ \A k \in DOMAIN none : Holds(sig[i].type, none[k])
    OBVIOUS
  <2>3. Store(none) /\ ~ Refuses(i)
    BY <1>1, <1>5, <1>8
  <2> HIDE DEF none, c
  <2> QED  BY <1>1, <1>2, <1>6, <2>1, <2>2, <2>3, ParameterStored
<1>9. CASE Argument # UndefinedArg /\ c # <<>>
  <2>1. PICK w \in Held : c = <<w>> /\ Holds(Param.type, w)
    BY <1>2, <1>3, <1>9, ReadTyped
  <2>2. c = [k \in DOMAIN Meant(i) |-> Head(Meant(i)[k])]
    <3> HIDE DEF c
    <3>1. Meant(i) = <<c>>
      BY <1>4, <1>9
    <3> QED  BY <2>1, <3>1
  <2>3. c \in Seq(Held) /\ \A k \in DOMAIN c : Holds(sig[i].type, c[k])
    <3> HIDE DEF c
    <3> QED  BY <1>2, <2>1
  <2>4. Store(c) /\ ~ Refuses(i)
    BY <1>1, <1>5, <1>9
  <2> HIDE DEF c
  <2> QED  BY <1>1, <1>2, <1>6, <2>2, <2>3, <2>4, ParameterStored
<1> QED  BY <1>7, <1>8, <1>9

LEMMA RestConverted ==
  ASSUME ArgsInv, FromRest
  PROVE  ArgsInv'
<1> DEFINE i == Len(got) + 1
           c == [k \in 1..(Len(args) - index) |-> NumberFromJs(Param.type, args[index + k])]
           all == [k \in DOMAIN c |-> Head(c[k])]
<1>1. /\ phase = "converting" /\ Len(got) < Len(sig) /\ Param.kind = "rest"
      /\ UNCHANGED <<args, sig, origin>> /\ index' = Len(args)
      /\ IF <<>> \in ToSet(c) THEN Fail ELSE Store(all)
  BY DEF FromRest, Converting
<1>2. /\ i \in DOMAIN sig /\ i \in Nat /\ i + 1 = Len(got) + 2
      /\ Param = sig[i] /\ Param.type \in Types
      /\ index = Cursor(i) /\ index \in 0..Len(args) /\ Len(args) \in Nat
      /\ args \in Seq(JsValues) /\ sig \in Seq(ParamSpec)
  BY <1>1, AtParameter
<1>3. Meant(i) = c
  <2>1. /\ Given(i) \in Seq(JsValues) /\ Len(Given(i)) = Len(args) - index
        /\ \A k \in 1..(Len(args) - index) : Given(i)[k] = args[index + k]
    BY <1>2, GivenFromCursor
  <2>2. DOMAIN Given(i) = 1..(Len(args) - index)
    BY <2>1
  <2>3. Meant(i) = [k \in DOMAIN Given(i) |-> NumberFromJs(Param.type, Given(i)[k])]
    BY <1>1, <1>2 DEF Meant
  <2> QED  BY <2>1, <2>2, <2>3
<1>4. Refuses(i) <=> <<>> \in ToSet(c)
  BY <1>3 DEF Refuses
<1>5. index' = Cursor(i + 1) /\ index' \in 0..Len(args)
  BY <1>1, <1>2, CursorMoves
<1>6. CASE <<>> \in ToSet(c)
  BY <1>1, <1>2, <1>4, <1>5, <1>6, ParameterRefused
<1>7. CASE <<>> \notin ToSet(c)
  <2>1. ASSUME NEW k \in DOMAIN c
        PROVE  all[k] \in Held /\ Holds(sig[i].type, all[k])
    <3>1. c[k] = NumberFromJs(Param.type, args[index + k]) /\ args[index + k] \in JsValues
      BY <1>2
    <3>2. c[k] # <<>>
      BY <1>7 DEF ToSet
    <3>3. PICK w \in Held : c[k] = <<w>> /\ Holds(Param.type, w)
      BY <1>2, <3>1, <3>2, ReadTyped
    <3>4. all[k] = w
      BY <3>3
    <3> QED  BY <1>2, <3>3, <3>4
  <2>2. all \in Seq(Held) /\ DOMAIN all = DOMAIN c
    <3>1. DOMAIN c = 1..(Len(args) - index) /\ Len(args) - index \in Nat
      BY <1>2
    <3>2. DOMAIN all = DOMAIN c /\ \A k \in DOMAIN all : all[k] \in Held
      BY <2>1
    <3>3. all = [k \in 1..(Len(args) - index) |-> Head(c[k])]
      BY <3>1
    <3> QED  BY <3>1, <3>2, <3>3
  <2>3. all = [k \in DOMAIN Meant(i) |-> Head(Meant(i)[k])]
    BY <1>3
  <2>4. Store(all) /\ ~ Refuses(i)
    BY <1>1, <1>4, <1>7
  <2>5. \A k \in DOMAIN all : Holds(sig[i].type, all[k])
    BY <2>1
  <2> HIDE DEF all, c
  <2> QED  BY <1>1, <1>2, <1>5, <2>2, <2>3, <2>4, <2>5, ParameterStored
<1> QED  BY <1>6, <1>7

LEMMA ExhaustiveChecked ==
  ASSUME ArgsInv, FromExhaustive
  PROVE  ArgsInv'
<1> DEFINE i == Len(got) + 1
           none == <<>>
<1>1. /\ phase = "converting" /\ Len(got) < Len(sig) /\ Param.kind = "exhaustive"
      /\ UNCHANGED <<args, sig, origin>> /\ index' = index
      /\ IF index < Len(args) THEN Fail ELSE Store(none)
  BY DEF FromExhaustive, Converting
<1>2. /\ i \in DOMAIN sig /\ i \in Nat /\ i + 1 = Len(got) + 2
      /\ Param = sig[i] /\ Param.type \in Types
      /\ index = Cursor(i) /\ index \in 0..Len(args) /\ Len(args) \in Nat
      /\ args \in Seq(JsValues) /\ sig \in Seq(ParamSpec)
  BY <1>1, AtParameter
<1>3. Given(i) = <<>> <=> ~ (index < Len(args))
  <2>1. Given(i) \in Seq(JsValues) /\ Len(Given(i)) = Len(args) - index
    BY <1>2, GivenFromCursor
  <2> QED  BY <1>2, <2>1
<1>4. Meant(i) = IF index < Len(args) THEN << <<>> >> ELSE <<>>
  BY <1>1, <1>2, <1>3 DEF Meant
<1>5. Refuses(i) <=> index < Len(args)
  BY <1>4 DEF Refuses, ToSet
<1>6. index' = Cursor(i + 1) /\ index' \in 0..Len(args)
  BY <1>1, <1>2, CursorMoves
<1>7. CASE index < Len(args)
  BY <1>1, <1>2, <1>5, <1>6, <1>7, ParameterRefused
<1>8. CASE ~ (index < Len(args))
  <2>1. none = [k \in DOMAIN Meant(i) |-> Head(Meant(i)[k])]
    <3>1. Meant(i) = <<>>
      BY <1>4, <1>8
    <3> QED  BY <3>1
  <2>2. none \in Seq(Held) /\ \A k \in DOMAIN none : Holds(sig[i].type, none[k])
    OBVIOUS
  <2>3. Store(none) /\ ~ Refuses(i)
    BY <1>1, <1>5, <1>8
  <2> HIDE DEF none
  <2> QED  BY <1>1, <1>2, <1>6, <2>1, <2>2, <2>3, ParameterStored
<1> QED  BY <1>7, <1>8

LEMMA ArgsStep ==
  ArgsInv /\ [Next]_vars => ArgsInv'
<1> SUFFICES ASSUME ArgsInv, [Next]_vars PROVE ArgsInv'
  OBVIOUS
<1>1. CASE \/ \E i \in DOMAIN ArgSets : \E v \in ArgSets[i] : Pass(v)
           \/ \E T \in IntTypes : \E n \in Width(T) : PassReturned(T, n)
  BY <1>1, ArgumentsPassed
<1>2. CASE \E s \in Signatures : CallHost(s)
  BY <1>2, HostCalled
<1>3. CASE FromPlain \/ FromOpt \/ FromRest \/ FromExhaustive
  BY <1>3, PlainConverted, OptConverted, RestConverted, ExhaustiveChecked
<1>4. CASE Run \/ UNCHANGED vars
  <2>1. /\ UNCHANGED <<args, index, sig, got, origin>>
        /\ phase' = phase \/ phase' = "ran"
    BY <1>4 DEF Run, vars
  <2>2. \A j : Meant(j)' = Meant(j) /\ Refuses(j)' = Refuses(j) /\ Cursor(j)' = Cursor(j)
    BY <2>1, MeantKept
  <2>3. ArgTypes' /\ FromRust'
    BY <2>1 DEF ArgsInv, ArgTypes, TypeOK, FromRust
  <2>4. CursorInPlace'
    BY <1>4, <2>1, <2>2 DEF ArgsInv, CursorInPlace, Run, vars
  <2>5. ArgumentsInPlace'
    BY <2>1, <2>2 DEF ArgsInv, ArgumentsInPlace
  <2> QED  BY <2>3, <2>4, <2>5 DEF ArgsInv
<1> QED  BY <1>1, <1>2, <1>3, <1>4 DEF Next

LEMMA ArgsAlways ==
  Spec => []ArgsInv
BY ArgsInit, ArgsStep, PTL DEF Spec

\* The parameters of a host function, for any signatures and arguments of any
\* number, hold what their declaration reads, and the first that refuses its
\* arguments ends the call.
THEOREM EachItsArgument ==
  Spec => []ArgumentsInPlace
<1>1. ArgsInv => ArgumentsInPlace
  BY DEF ArgsInv
<1> QED  BY <1>1, ArgsAlways, PTL

\* The conversion of arguments is well-typed: an integer is of its width.
THEOREM ArgumentsTyped ==
  Spec => []TypeOK
<1>1. ArgsInv => TypeOK
  BY DEF ArgsInv, ArgTypes
<1> QED  BY <1>1, ArgsAlways, PTL

\* For every width of the types, an integer parameter is the number passed, but
\* for the double above its maximum and a BigInt beyond 64 bits.
THEOREM NumbersExact ==
  Spec => []Exact
<1>1. ASSUME ArgsInv PROVE Exact
  <2> SUFFICES ASSUME NEW i \in DOMAIN got, sig[i].kind \in {"plain", "opt"},
                      sig[i].type \in IntTypes, got[i] # <<>>
               PROVE  IsExact(sig[i].type, First(i), got[i][1].n)
    BY DEF Exact, IsExact
  <2> DEFINE T == sig[i].type
             v == First(i)
             c == NumberFromJs(T, v)
  <2>1. args \in Seq(JsValues) /\ i \in Nat
    BY <1>1 DEF ArgsInv, ArgTypes
  <2>2. v \in JsValues
    <3>1. UndefinedArg \in JsValues
      BY DEF UndefinedArg, JsValue, JsValues
    <3>2. Given(i) \in Seq(JsValues)
      <4> DEFINE taken == Cardinality(TakersBefore(i))
      <4>1. taken \in Nat
        BY <2>1, TakersCounted
      <4>2. Given(i) = IF RestBefore(i) THEN <<>> ELSE SubSeq(args, taken + 1, Len(args))
        BY DEF Given, RestBefore, TakersBefore
      <4> HIDE DEF taken
      <4> QED  BY <2>1, <4>1, <4>2
    <3> QED  BY <3>1, <3>2 DEF First
  <2>3. ~ Refuses(i) /\ got[i] = [k \in DOMAIN Meant(i) |-> Head(Meant(i)[k])]
    BY <1>1 DEF ArgsInv, ArgumentsInPlace
  <2>4. Meant(i) = <<c>> \/ Meant(i) = <<>>
    BY DEF Meant
  <2>5. Meant(i) = <<c>>
    <3>1. Meant(i) = <<>> => got[i] = <<>>
      BY <2>3
    <3> QED  BY <2>4, <3>1
  <2>6. c # <<>> /\ got[i][1] = Head(c)
    <3> HIDE DEF c
    <3> QED  BY <2>3, <2>5 DEF Refuses, ToSet
  <2>7. PICK m \in Width(T) : c = <<JsValue(T, m)>> /\ IsExact(T, v, m)
    BY <2>2, <2>6, ReadsExactly
  <2>8. got[i][1].n = m
    <3> HIDE DEF c
    <3> QED  BY <2>6, <2>7 DEF JsValue
  <2> QED  BY <2>7, <2>8
<1> QED  BY <1>1, ArgsAlways, PTL

\* For every width of the types, a number that went to JavaScript comes back as
\* it was, or, above i64::MAX, is refused.
THEOREM NumbersReturn ==
  Spec => []RoundTrip
<1>1. ASSUME ArgsInv PROVE RoundTrip
  <2> SUFFICES ASSUME origin # <<>>, sig # <<>>,
                      sig[1] = [kind |-> "plain", type |-> origin[1]]
               PROVE  /\ got # <<>> => got[1][1].n = origin[2]
                      /\ phase = "threw" /\ got = <<>> => origin[2] > Highest("i64")
    BY DEF RoundTrip
  <2>0. PICK T \in IntTypes : \E n \in Width(T) :
          origin = <<T, n>> /\ args # <<>> /\ args[1] = NumberIntoJs(T, n)
    BY <1>1 DEF ArgsInv, FromRust
  <2>1. PICK n \in Width(T) : origin = <<T, n>> /\ args # <<>> /\ args[1] = NumberIntoJs(T, n)
    BY <2>0
  <2> DEFINE c == NumberFromJs(T, NumberIntoJs(T, n))
  <2>2. /\ args \in Seq(JsValues) /\ got \in Seq(Seq(Held)) /\ sig[1].kind = "plain"
        /\ sig[1].type = T /\ origin[2] = n
    BY <1>1, <2>1 DEF ArgsInv, ArgTypes
  <2>3. First(1) = NumberIntoJs(T, n)
    <3>1. TakersBefore(1) = {} /\ ~ RestBefore(1)
      BY DEF TakersBefore, RestBefore
    <3>2. Given(1) = SubSeq(args, 0 + 1, Len(args))
      BY <3>1, FS_EmptySet DEF Given, TakersBefore, RestBefore
    <3>3. Given(1) # <<>> /\ Head(Given(1)) = args[1]
      BY <2>1, <2>2, <3>2
    <3> QED  BY <2>1, <3>3 DEF First
  <2>4. Meant(1) = <<c>>
    BY <2>2, <2>3 DEF Meant
  <2>5. Refuses(1) <=> c = <<>>
    <3> HIDE DEF c
    <3> QED  BY <2>4 DEF Refuses, ToSet
  <2>6. ASSUME got # <<>> PROVE got[1][1].n = n
    <3>1. 1 \in DOMAIN got
      BY <2>2, <2>6
    <3>2. ~ Refuses(1) /\ got[1] = [k \in DOMAIN Meant(1) |-> Head(Meant(1)[k])]
      BY <1>1, <3>1 DEF ArgsInv, ArgumentsInPlace
    <3>3. c = <<JsValue(T, n)>>
      BY <2>5, <3>2, WrittenThenRead
    <3>4. got[1][1] = JsValue(T, n)
      <4> HIDE DEF c
      <4> QED  BY <2>4, <3>2, <3>3
    <3> QED  BY <3>4 DEF JsValue
  <2>7. ASSUME phase = "threw", got = <<>> PROVE n > Highest("i64")
    <3>1. Refuses(1)
      <4>1. Len(got) + 1 = 1
        BY <2>7
      <4> QED  BY <1>1, <2>7, <4>1 DEF ArgsInv, ArgumentsInPlace
    <3> QED  BY <2>5, <3>1, WrittenThenRead
  <2> QED  BY <2>2, <2>6, <2>7
<1> QED  BY <1>1, ArgsAlways, PTL

-----------------------------------------------------------------------------
(* Iterables: items reach JavaScript in order, and what is exhausted stays *)
(* exhausted.                                                              *)

Frame == [by: Callers, item: Nat, stage: Stages]
Answers == {"item", "end", "error"} \X Nat

IterTypes ==
  /\ cell \in {"some", "none"} /\ given \in Nat
  /\ frames \in Seq(Frame)
  /\ seen \in Seq(Nat) /\ ended \in BOOLEAN
  /\ reader \in [made: BOOLEAN, done: BOOLEAN, got: Seq(Answers)]

\* The borrow admits one call of next at a time, and the iterator is dropped
\* before anybody hears of its end.
OneCall ==
  /\ Len(frames) <= 1
  /\ ended => cell = "none"
  /\ frames # <<>> => (cell = "none" <=> Top.stage = "end")

\* An item under way is newer than all that were delivered.
Ordered ==
  /\ ItemsInOrder
  /\ \A i \in DOMAIN seen : seen[i] <= given
  /\ frames # <<>> /\ Top.stage = "item" =>
       Top.item <= given /\ \A i \in DOMAIN seen : seen[i] < Top.item

\* A reader that was told the end, or an error, is done and calls nothing.
ReaderDone ==
  /\ reader.done \/ reader.got # <<>> => reader.made
  /\ reader.got # <<>> /\ reader.got[Len(reader.got)][1] # "item" => reader.done
  /\ frames # <<>> /\ Top.by = "reader" =>
       reader.made /\ ~reader.done /\ source = "iterable"

IterInv == IterTypes /\ OneCall /\ Ordered /\ ReaderDone

LEMMA IterInit ==
  IterablesInit => IterInv
<1> SUFFICES ASSUME IterablesInit PROVE IterInv
  OBVIOUS
<1>1. IterTypes
  <2>1. reader \in [made: BOOLEAN, done: BOOLEAN, got: Seq(Answers)]
    BY DEF IterablesInit
  <2>2. frames \in Seq(Frame) /\ seen \in Seq(Nat)
    BY DEF IterablesInit
  <2> QED  BY <2>1, <2>2 DEF IterablesInit, IterTypes, Frame
<1>2. OneCall /\ Ordered /\ ReaderDone
  BY DEF IterablesInit, OneCall, Ordered, ReaderDone, ItemsInOrder
<1> QED  BY <1>1, <1>2 DEF IterInv

-----------------------------------------------------------------------------
(* Helpers.                                                                *)

\* While a call is under way it is the only one.
LEMMA OnlyFrame ==
  ASSUME IterInv, frames # <<>>
  PROVE  /\ Top \in Frame /\ Pop = <<>>
         /\ \A frame \in Frame : /\ SetTop(frame) \in Seq(Frame)
                                 /\ Len(SetTop(frame)) = 1
                                 /\ SetTop(frame)[1] = frame
<1>1. frames \in Seq(Frame) /\ Len(frames) = 1
  <2>1. frames \in Seq(Frame) /\ Len(frames) <= 1
    BY DEF IterInv, IterTypes, OneCall
  <2>2. Len(frames) \in Nat \ {0}
    BY <2>1, FrontFacts
  <2>3. \A n \in Nat \ {0} : n <= 1 => n = 1
    OBVIOUS
  <2> QED  BY <2>1, <2>2, <2>3, Zenon
<1>2. Top \in Frame
  BY <1>1 DEF Top
<1>3. Pop = <<>>
  BY <1>1 DEF Pop
<1>4. ASSUME NEW frame \in Frame
      PROVE  /\ SetTop(frame) \in Seq(Frame)
             /\ Len(SetTop(frame)) = 1 /\ SetTop(frame)[1] = frame
  BY <1>1 DEF SetTop
<1> QED  BY <1>2, <1>3, <1>4

\* What a JsIterator does with an answer keeps what is known of it.
LEMMA AnswerKeeps ==
  ASSUME NEW outcome \in {"item", "end", "error"}, NEW item \in Nat,
         IterTypes, reader' = Answered(outcome, item)
  PROVE  /\ reader' \in [made: BOOLEAN, done: BOOLEAN, got: Seq(Answers)]
         /\ reader'.made = reader.made /\ reader'.got # <<>>
         /\ reader'.got[Len(reader'.got)] = <<outcome, item>>
         /\ reader'.done <=> outcome # "item"
<1> DEFINE s == Append(reader.got, <<outcome, item>>)
<1>1. <<outcome, item>> \in Answers
  BY DEF Answers
<1>2. reader.got \in Seq(Answers) /\ reader.made \in BOOLEAN
  BY DEF IterTypes
<1>3. s \in Seq(Answers) /\ s # <<>> /\ s[Len(s)] = <<outcome, item>>
  BY <1>1, <1>2
<1>4. /\ reader'.made = reader.made /\ reader'.done = (outcome # "item")
      /\ reader'.got = s
      /\ reader' \in [made: BOOLEAN, done: BOOLEAN, got: Seq(Answers)]
  <2>1. reader' = [reader EXCEPT !.done = (outcome # "item"), !.got = s]
    BY DEF Answered
  <2> HIDE DEF s
  <2> QED  BY <2>1, <1>3 DEF IterTypes
<1> QED  BY <1>3, <1>4

-----------------------------------------------------------------------------
(* The steps of a call of next.                                            *)

\* A step that neither starts nor ends a call nor delivers.
Calling ==
  \/ \E by \in Callers : CallNext(by)
  \/ HostGives \/ HostEnds
Returning == Unwind \/ Deliver \/ DeliverEnd
Reading == MakeReader \/ ReadForeign \/ ReadFinished

LEMMA CallingSafe ==
  ASSUME IterInv, Calling
  PROVE  IterInv'
<1> USE DEF IterInv
<1>1. ASSUME NEW by \in Callers, CallNext(by) PROVE IterInv'
  <2>1. /\ UNCHANGED <<source, cell, given, seen, ended>>
        /\ by = "reader" => source = "iterable" /\ reader.made /\ ~reader.done
    BY <1>1 DEF CallNext
  <2>2. CASE Borrowed
    <3>1. frames' = frames /\ Fails(by)
      BY <1>1, <2>2 DEF CallNext
    <3>2. by = "reader" => Top.by # "reader"
      <4>1. Len(frames) \in DOMAIN frames
        BY <2>2 DEF Borrowed, IterTypes
      <4> QED  BY <1>1, <4>1 DEF CallNext, Top
    <3>3. CASE by = "reader"
      <4>1. reader' = Answered("error", 0)
        BY <3>1, <3>3 DEF Fails
      <4> QED  BY <2>1, <3>1, <3>2, <3>3, <4>1, AnswerKeeps
               DEF IterTypes, OneCall, Ordered, ReaderDone, ItemsInOrder, Top
    <3>4. CASE by # "reader"
      BY <2>1, <3>1, <3>4 DEF Fails, IterTypes, OneCall, Ordered, ReaderDone,
         ItemsInOrder, Top
    <3> QED  BY <3>3, <3>4
  <2>3. CASE ~Borrowed
    <3> DEFINE frame == [by |-> by, item |-> 0,
                         stage |-> IF cell = "some" THEN "host" ELSE "end"]
    <3>1. frames = <<>> /\ frames' = Append(frames, frame) /\ reader' = reader
      BY <1>1, <2>3 DEF CallNext, Borrowed
    <3>2. frame \in Frame
      BY DEF Frame, Stages
    <3>3. frames' \in Seq(Frame) /\ Len(frames') = 1 /\ frames'[1] = frame
      BY <3>1, <3>2
    <3>4. Top' = frame
      BY <3>3 DEF Top
    <3> QED  BY <2>1, <3>1, <3>3, <3>4 DEF IterTypes, OneCall, Ordered, ReaderDone,
             ItemsInOrder
  <2> QED  BY <2>2, <2>3
<1>2. CASE HostGives
  <2>1. /\ Top \in Frame /\ Top.stage = "host" /\ frames # <<>>
        /\ given' = given + 1 /\ UNCHANGED <<source, cell, seen, ended, reader>>
    BY <1>2, OnlyFrame DEF HostGives
  <2> DEFINE frame == [Top EXCEPT !.stage = "item", !.item = given + 1]
  <2>2. /\ frame \in Frame /\ frame.stage = "item" /\ frame.item = given + 1
        /\ frame.by = Top.by
    <3>1. given + 1 \in Nat /\ "item" \in Stages
      BY DEF IterTypes, Stages
    <3> QED  BY <2>1, <3>1 DEF Frame
  <2>3. frames' \in Seq(Frame) /\ Len(frames') = 1 /\ Top' = frame
    BY <1>2, <2>1, <2>2, OnlyFrame DEF HostGives, Top
  <2> HIDE DEF frame
  <2>4. IterTypes' /\ OneCall' /\ ReaderDone'
    BY <2>1, <2>2, <2>3 DEF IterTypes, OneCall, ReaderDone
  <2>5. Ordered'
    <3>1. \A i \in DOMAIN seen : seen[i] \in Nat /\ seen[i] <= given /\ given \in Nat
      BY DEF Ordered, IterTypes
    <3> QED  BY <2>1, <2>2, <2>3, <3>1 DEF Ordered, ItemsInOrder
  <2> QED  BY <2>4, <2>5
<1>3. CASE HostEnds
  <2>1. /\ Top \in Frame /\ Top.stage = "host" /\ frames # <<>>
        /\ cell' = "none" /\ UNCHANGED <<source, given, seen, ended, reader>>
    BY <1>3, OnlyFrame DEF HostEnds
  <2> DEFINE frame == [Top EXCEPT !.stage = "end"]
  <2>2. frame \in Frame /\ frame.stage = "end" /\ frame.by = Top.by
    BY <2>1 DEF Frame, Stages
  <2>3. frames' \in Seq(Frame) /\ Len(frames') = 1 /\ Top' = frame
    BY <1>3, <2>1, <2>2, OnlyFrame DEF HostEnds, Top
  <2> HIDE DEF frame
  <2> QED  BY <2>1, <2>2, <2>3 DEF IterTypes, OneCall, Ordered, ReaderDone, ItemsInOrder
<1> QED  BY <1>1, <1>2, <1>3 DEF Calling

-----------------------------------------------------------------------------
(* The ends of a call, and the reader.                                     *)

\* What the reader learns at the end of its call, or that it is not its call.
LEMMA ReaderLearns ==
  ASSUME IterInv, NEW outcome \in {"item", "end", "error"}, NEW item \in Nat,
         frames # <<>>, frames' = <<>>, source' = source,
         reader' = IF Top.by = "reader" THEN Answered(outcome, item) ELSE reader
  PROVE  /\ reader' \in [made: BOOLEAN, done: BOOLEAN, got: Seq(Answers)]
         /\ ReaderDone'
<1> USE DEF IterInv
<1>1. CASE Top.by = "reader"
  <2>1. reader' = Answered(outcome, item)
    BY <1>1
  <2>2. /\ reader' \in [made: BOOLEAN, done: BOOLEAN, got: Seq(Answers)]
        /\ reader'.made = reader.made /\ reader'.got # <<>>
        /\ reader'.got[Len(reader'.got)] = <<outcome, item>>
        /\ reader'.done <=> outcome # "item"
    BY <2>1, AnswerKeeps
  <2> QED  BY <2>2 DEF ReaderDone
<1>2. CASE Top.by # "reader"
  BY <1>2 DEF ReaderDone, IterTypes
<1> QED  BY <1>1, <1>2

LEMMA ReturningSafe ==
  ASSUME IterInv, Returning
  PROVE  IterInv'
<1> USE DEF IterInv
<1>1. frames # <<>> /\ frames' = <<>> /\ UNCHANGED <<source, given>>
  BY OnlyFrame DEF Returning, Unwind, Deliver, DeliverEnd
<1>2. Top \in Frame
  BY <1>1, OnlyFrame
<1>3. CASE Unwind
  <2>1. UNCHANGED <<cell, seen, ended>>
        /\ reader' = IF Top.by = "reader" THEN Answered("error", 0) ELSE reader
    BY <1>3 DEF Unwind, Fails
  <2>2. /\ reader' \in [made: BOOLEAN, done: BOOLEAN, got: Seq(Answers)]
        /\ ReaderDone'
    BY <1>1, <2>1, ReaderLearns
  <2> QED  BY <1>1, <2>1, <2>2 DEF IterTypes, OneCall, Ordered, ItemsInOrder
<1>4. CASE Deliver
  <2>1. /\ Top.stage = "item" /\ seen' = Append(seen, Top.item)
        /\ UNCHANGED <<cell, ended>>
    BY <1>4 DEF Deliver
  <2>2. PICK outcome \in {"item", "error"} :
          reader' = IF Top.by = "reader" THEN Answered(outcome, Top.item) ELSE reader
    BY <1>2, <1>4 DEF Deliver, Frame, Callers
  <2>3. Top.item \in Nat
    BY <1>2 DEF Frame
  <2>4. /\ reader' \in [made: BOOLEAN, done: BOOLEAN, got: Seq(Answers)]
        /\ ReaderDone'
    BY <1>1, <2>2, <2>3, ReaderLearns
  <2>5. /\ seen' \in Seq(Nat) /\ DOMAIN seen' = DOMAIN seen \cup {Len(seen) + 1}
        /\ Len(seen) \in Nat /\ DOMAIN seen = 1..Len(seen)
        /\ \A i \in DOMAIN seen : seen'[i] = seen[i]
        /\ seen'[Len(seen) + 1] = Top.item
    BY <2>1, <2>3 DEF IterTypes
  <2>6. /\ \A i \in DOMAIN seen : seen[i] < Top.item
        /\ Top.item <= given
        /\ \A i \in DOMAIN seen : seen[i] <= given
    BY <1>1, <2>1 DEF Ordered
  <2>7. ItemsInOrder'
    <3> SUFFICES ASSUME NEW i \in DOMAIN seen', NEW j \in DOMAIN seen', i < j
                 PROVE  seen'[i] < seen'[j]
      BY DEF ItemsInOrder
    <3>1. i \in DOMAIN seen
      BY <2>5
    <3>2. CASE j \in DOMAIN seen
      BY <3>1, <3>2, <2>5 DEF Ordered, ItemsInOrder
    <3>3. CASE j = Len(seen) + 1
      BY <3>1, <3>3, <2>5, <2>6
    <3> QED  BY <3>2, <3>3, <2>5
  <2>8. Ordered'
    BY <1>1, <2>5, <2>6, <2>7 DEF Ordered
  <2> QED  BY <1>1, <2>1, <2>4, <2>5, <2>8 DEF IterTypes, OneCall
<1>5. CASE DeliverEnd
  <2>1. /\ Top.stage = "end" /\ ended' = TRUE /\ UNCHANGED <<cell, seen>>
        /\ reader' = IF Top.by = "reader" THEN Answered("end", 0) ELSE reader
    BY <1>5 DEF DeliverEnd
  <2>2. /\ reader' \in [made: BOOLEAN, done: BOOLEAN, got: Seq(Answers)]
        /\ ReaderDone'
    BY <1>1, <2>1, ReaderLearns
  <2>3. cell = "none"
    BY <1>1, <2>1 DEF OneCall
  <2> QED  BY <1>1, <2>1, <2>2, <2>3 DEF IterTypes, OneCall, Ordered, ItemsInOrder
<1> QED  BY <1>3, <1>4, <1>5 DEF Returning

\* An answer while no call of the reader's is under way.
LEMMA AnsweredDone ==
  ASSUME IterInv, NEW outcome \in {"item", "end", "error"}, NEW item \in Nat,
         reader.made, source = "foreign" \/ reader.done,
         UNCHANGED <<frames, source>>, reader' = Answered(outcome, item),
         reader.done => outcome # "item"
  PROVE  /\ reader' \in [made: BOOLEAN, done: BOOLEAN, got: Seq(Answers)]
         /\ ReaderDone'
<1>1. /\ reader' \in [made: BOOLEAN, done: BOOLEAN, got: Seq(Answers)]
      /\ reader'.made = reader.made /\ reader'.got # <<>>
      /\ reader'.got[Len(reader'.got)] = <<outcome, item>>
      /\ reader'.done <=> outcome # "item"
  BY AnswerKeeps DEF IterInv
<1>2. frames # <<>> => Top.by # "reader"
  BY DEF IterInv, ReaderDone
<1> QED  BY <1>1, <1>2 DEF ReaderDone, Top

LEMMA ReadingSafe ==
  ASSUME IterInv, Reading
  PROVE  IterInv'
<1> USE DEF IterInv
<1>1. UNCHANGED <<source, cell, frames, seen, ended>>
  BY DEF Reading, MakeReader, ReadForeign, ReadFinished
<1>2. given' \in Nat /\ given <= given'
  BY DEF Reading, MakeReader, ReadForeign, ReadFinished, IterTypes
<1>3. /\ reader' \in [made: BOOLEAN, done: BOOLEAN, got: Seq(Answers)]
      /\ ReaderDone'
  <2>1. CASE MakeReader
    BY <1>1, <2>1 DEF MakeReader, IterTypes, ReaderDone, Top
  <2>2. CASE ReadForeign
    <3>1. PICK outcome \in {"item", "end", "error"}, item \in Nat :
            reader' = Answered(outcome, item)
      BY <2>2 DEF ReadForeign, IterTypes
    <3>2. reader.made /\ ~reader.done /\ source = "foreign"
      BY <2>2 DEF ReadForeign
    <3> QED  BY <1>1, <3>1, <3>2, AnsweredDone
  <2>3. CASE ReadFinished
    <3>1. reader.done /\ reader' = [reader EXCEPT !.got = Append(@, <<"end", 0>>)]
      BY <2>3 DEF ReadFinished
    <3>2. reader' = Answered("end", 0)
      BY <3>1 DEF Answered, IterTypes
    <3>3. reader.made
      BY <3>1 DEF ReaderDone
    <3> QED  BY <1>1, <3>1, <3>2, <3>3, AnsweredDone
  <2> QED  BY <2>1, <2>2, <2>3 DEF Reading
<1>4. Ordered'
  <2>1. \A i \in DOMAIN seen : seen[i] \in Nat /\ seen[i] <= given
    BY DEF Ordered, IterTypes
  <2>2. frames # <<>> => Top \in Frame
    BY OnlyFrame
  <2>3. given \in Nat
    BY DEF IterTypes
  <2>4. \A i \in DOMAIN seen : seen[i] <= given'
    BY <1>2, <2>1, <2>3
  <2>5. frames # <<>> /\ Top.stage = "item" => Top.item <= given'
    BY <1>2, <2>2, <2>3 DEF Ordered, Frame
  <2> QED  BY <1>1, <2>4, <2>5 DEF Ordered, ItemsInOrder, Top
<1> QED  BY <1>1, <1>2, <1>3, <1>4 DEF IterTypes, OneCall, Top

LEMMA IterStep ==
  IterInv /\ [IterablesNext]_iterVars => IterInv'
<1> SUFFICES ASSUME IterInv, [IterablesNext]_iterVars PROVE IterInv'
  OBVIOUS
<1>1. CASE UNCHANGED iterVars
  BY <1>1 DEF iterVars, IterInv, IterTypes, OneCall, Ordered, ItemsInOrder, ReaderDone,
     Top
<1> QED  BY <1>1, CallingSafe, ReturningSafe, ReadingSafe
         DEF IterablesNext, Calling, Returning, Reading

-----------------------------------------------------------------------------
(* The theorems.                                                           *)

LEMMA IterAlways ==
  IterablesSpec => []IterInv
BY IterInit, IterStep, PTL DEF IterablesSpec

\* iterable.rs:33-47: however often next is called from anywhere, the host
\* iterator itself included, and however often it panics or an item fails to
\* convert, JavaScript sees the items in their order and none twice.
THEOREM OrderOfItems ==
  IterablesSpec => []ItemsInOrder
<1>1. IterInv => ItemsInOrder
  BY DEF IterInv, Ordered
<1> QED  BY <1>1, IterAlways, PTL

\* A step keeps what is exhausted exhausted.
LEMMA ExhaustedStep ==
  ASSUME IterInv, [IterablesNext]_iterVars
  PROVE  [KeepsExhausted]_iterVars
<1> SUFFICES ASSUME IterablesNext PROVE KeepsExhausted
  BY DEF iterVars
<1> USE DEF IterInv
<1> DEFINE Told(r) == r.got # <<>> /\ r.got[Len(r.got)][1] # "item"
<1>1. ASSUME ended PROVE UNCHANGED <<seen>> /\ (source = "iterable" => UNCHANGED given)
  <2>1. frames # <<>> => Top.stage = "end"
    BY <1>1 DEF OneCall
  <2> QED  BY <2>1 DEF IterablesNext, CallNext, HostGives, HostEnds, Unwind, Deliver, DeliverEnd,
           MakeReader, ReadForeign, ReadFinished
<1>2. ASSUME reader' # reader, Told(reader)
      PROVE  reader'.got[Len(reader'.got)][1] = "end"
  <2>1. reader.made /\ reader.done /\ (frames # <<>> => Top.by # "reader")
    BY <1>2 DEF ReaderDone
  <2>2. ReadFinished
    <3>1. ASSUME NEW by \in Callers, CallNext(by) PROVE reader' = reader
      BY <2>1, <3>1 DEF CallNext, Fails
    <3>2. ASSUME HostGives \/ HostEnds PROVE reader' = reader
      BY <3>2 DEF HostGives, HostEnds
    <3>3. ASSUME Unwind \/ Deliver \/ DeliverEnd PROVE reader' = reader
      <4>1. Top \in Frame /\ Top.by = "js"
        BY <2>1, <3>3, OnlyFrame DEF Unwind, Deliver, DeliverEnd, Frame, Callers
      <4> QED  BY <3>3, <4>1 DEF Unwind, Deliver, DeliverEnd, Fails
    <3>4. ~MakeReader /\ ~ReadForeign
      BY <2>1 DEF MakeReader, ReadForeign
    <3> QED  BY <1>2, <3>1, <3>2, <3>3, <3>4 DEF IterablesNext
  <2>3. reader' = Answered("end", 0)
    BY <2>1, <2>2 DEF ReadFinished, Answered, IterTypes
  <2> QED  BY <2>3, AnswerKeeps
<1> QED  BY <1>1, <1>2 DEF KeepsExhausted

\* iterable.rs:13, "Single-use: once exhausted it stays exhausted", and a
\* JsIterator that ended or failed answers None from then on.
THEOREM ExhaustedForGood ==
  IterablesSpec => StaysExhausted
<1>1. IterInv /\ [IterablesNext]_iterVars => [KeepsExhausted]_iterVars
  BY ExhaustedStep
<1> QED  BY <1>1, IterAlways, PTL DEF IterablesSpec, StaysExhausted

-----------------------------------------------------------------------------
(* Collections: the elements of a sequence that are in a set.              *)

Keeping(s, S, f) ==
  f = [n \in 0..Len(s) |->
        IF n = 0 THEN <<>>
        ELSE IF s[n] \in S THEN Append(f[n - 1], s[n]) ELSE f[n - 1]]
Kept(s, S) == CHOOSE f : Keeping(s, S, f)

KeepsOne(s, S, f, n) ==
  f[n] = IF n = 0 THEN <<>>
         ELSE IF s[n] \in S THEN Append(f[n - 1], s[n]) ELSE f[n - 1]

LEMMA KeptExists ==
  ASSUME NEW X, NEW s \in Seq(X), NEW S
  PROVE  Keeping(s, S, Kept(s, S)) /\ Only(s, S) = Kept(s, S)[Len(s)]
<1> DEFINE F == [0..Len(s) -> Seq(X)]
           UpTo(f, n) == \A m \in 0..n : KeepsOne(s, S, f, m)
           B == {n \in 0..Len(s) : ~ \E f \in F : UpTo(f, n)}
<1>1. Len(s) \in Nat
  OBVIOUS
<1>2. B = {}
  <2>1. SUFFICES ASSUME B # {} PROVE FALSE
    OBVIOUS
  <2>2. PICK n \in B : \A m \in B : n <= m
    <3>1. B \subseteq Nat
      BY <1>1
    <3> HIDE DEF B
    <3> QED  BY <2>1, <3>1, SmallestNat
  <2>3. n \in 0..Len(s) /\ ~ \E f \in F : UpTo(f, n)
    OBVIOUS
  <2>4. n # 0
    <3> DEFINE z == [k \in 0..Len(s) |-> <<>>]
    <3>1. z \in F /\ z[0] = <<>>
      BY <1>1
    <3>2. UpTo(z, 0)
      <4> HIDE DEF z
      <4> QED  BY <3>1 DEF KeepsOne
    <3> HIDE DEF z, UpTo, F
    <3> QED  BY <2>3, <3>1, <3>2
  <2>5. n - 1 \in 0..Len(s) /\ n - 1 \notin B
    <3>1. n - 1 \in 0..Len(s) /\ ~ (n <= n - 1)
      BY <1>1, <2>3, <2>4
    <3> HIDE DEF B
    <3> QED  BY <2>2, <3>1
  <2>6. PICK f \in F : UpTo(f, n - 1)
    BY <2>5
  <2> DEFINE x == IF s[n] \in S THEN Append(f[n - 1], s[n]) ELSE f[n - 1]
             g == [f EXCEPT ![n] = x]
  <2>7. x \in Seq(X)
    <3>1. s[n] \in X
      BY <1>1, <2>3, <2>4
    <3>2. f[n - 1] \in Seq(X)
      BY <2>5
    <3> DEFINE y == f[n - 1]
    <3> HIDE DEF y
    <3>3. y \in Seq(X)
      BY <3>2 DEF y
    <3>4. Append(y, s[n]) \in Seq(X)
      BY <3>1, <3>3
    <3> QED  BY <3>3, <3>4 DEF y
  <2>8. g \in F /\ g[n] = x /\ \A m \in 0..(n - 1) : g[m] = f[m]
    <3> HIDE DEF x
    <3> QED  BY <1>1, <2>3, <2>7
  <2>9. ASSUME NEW m \in 0..n PROVE KeepsOne(s, S, g, m)
    <3>1. CASE m = n
      <4>1. g[n - 1] = f[n - 1]
        BY <1>1, <2>3, <2>4, <2>8
      <4> HIDE DEF g
      <4> QED  BY <2>4, <2>8, <3>1, <4>1 DEF KeepsOne
    <3>2. CASE m # n
      <4>1. m \in 0..(n - 1) /\ (m # 0 => m - 1 \in 0..(n - 1))
        BY <1>1, <2>3, <3>2
      <4>2. KeepsOne(s, S, f, m)
        BY <2>6, <4>1
      <4>3. g[m] = f[m] /\ (m # 0 => g[m - 1] = f[m - 1])
        BY <2>8, <4>1
      <4> HIDE DEF g
      <4> QED  BY <4>2, <4>3 DEF KeepsOne
    <3> QED  BY <3>1, <3>2
  <2>10. UpTo(g, n)
    <3> HIDE DEF g
    <3> QED  BY <2>9
  <2> HIDE DEF g, UpTo, F
  <2> QED  BY <2>3, <2>8, <2>10
<1>3. PICK f \in F : UpTo(f, Len(s))
  <2>1. Len(s) \in 0..Len(s)
    BY <1>1
  <2>2. Len(s) \notin B
    <3> HIDE DEF B
    <3> QED  BY <1>2
  <2> HIDE DEF UpTo, F
  <2> QED  BY <2>1, <2>2
<1>4. Keeping(s, S, f)
  <2>1. f = [n \in 0..Len(s) |-> f[n]]
    OBVIOUS
  <2>2. \A n \in 0..Len(s) :
          f[n] = IF n = 0 THEN <<>>
                 ELSE IF s[n] \in S THEN Append(f[n - 1], s[n]) ELSE f[n - 1]
    BY <1>3 DEF KeepsOne
  <2> QED  BY <2>1, <2>2 DEF Keeping
<1>5. Keeping(s, S, Kept(s, S))
  BY <1>4 DEF Kept
<1>6. Only(s, S) = Kept(s, S)[Len(s)]
  BY DEF Only, Kept, Keeping
<1> QED  BY <1>5, <1>6

\* h says where the elements of r were taken from among the first n of s.
TakenFrom(h, r, s, S, n) ==
  /\ h \in Seq(1..n) /\ Len(h) = Len(r)
  /\ \A i \in DOMAIN r : r[i] = s[h[i]] /\ r[i] \in S
  /\ \A i, j \in DOMAIN r : i < j => h[i] < h[j]
  /\ \A k \in 1..n : s[k] \in S => \E i \in DOMAIN r : h[i] = k

LEMMA TakenNext ==
  ASSUME NEW X, NEW s \in Seq(X), NEW S, NEW r \in Seq(X), NEW n \in Nat, n < Len(s),
         NEW h, TakenFrom(h, r, s, S, n)
  PROVE  /\ s[n + 1] \in S =>
              TakenFrom(Append(h, n + 1), Append(r, s[n + 1]), s, S, n + 1)
         /\ s[n + 1] \notin S => TakenFrom(h, r, s, S, n + 1)
<1> DEFINE m == n + 1
<1>1. /\ h \in Seq(1..n) /\ h \in Seq(1..m) /\ Len(h) = Len(r)
      /\ m \in Nat /\ s[m] \in X /\ m \in DOMAIN s
  BY DEF TakenFrom
<1>2. \A k \in 1..m : k \in 1..n \/ k = m
  OBVIOUS
<1>3. CASE s[m] \notin S
  BY <1>1, <1>2, <1>3 DEF TakenFrom
<1>4. CASE s[m] \in S
  <2> DEFINE g == Append(h, m)
             q == Append(r, s[m])
             l == Len(r) + 1
  <2>1. /\ g \in Seq(1..m) /\ Len(g) = l /\ q \in Seq(X) /\ Len(q) = l /\ l \in Nat
        /\ DOMAIN q = DOMAIN r \cup {l} /\ l \notin DOMAIN r /\ DOMAIN r = 1..Len(r)
        /\ g[l] = m /\ q[l] = s[m]
        /\ \A i \in DOMAIN r : g[i] = h[i] /\ q[i] = r[i] /\ h[i] \in 1..n
    BY <1>1
  <2> HIDE DEF g, q, l
  <2>2. \A i \in DOMAIN q : q[i] = s[g[i]] /\ q[i] \in S
    BY <1>4, <2>1 DEF TakenFrom
  <2>3. ASSUME NEW i \in DOMAIN q, NEW j \in DOMAIN q, i < j PROVE g[i] < g[j]
    <3>1. i \in DOMAIN r
      BY <2>1, <2>3 DEF l
    <3>2. CASE j \in DOMAIN r
      BY <2>1, <2>3, <3>1, <3>2 DEF TakenFrom
    <3>3. CASE j = l
      BY <2>1, <3>1, <3>3
    <3> QED  BY <2>1, <3>2, <3>3
  <2>4. ASSUME NEW k \in 1..m, s[k] \in S PROVE \E i \in DOMAIN q : g[i] = k
    <3>1. CASE k \in 1..n
      BY <2>1, <2>4, <3>1 DEF TakenFrom
    <3>2. CASE k = m
      BY <2>1, <3>2
    <3> QED  BY <1>2, <3>1, <3>2
  <2>5. TakenFrom(g, q, s, S, m)
    BY <2>1, <2>2, <2>3, <2>4 DEF TakenFrom
  <2> QED  BY <1>4, <2>5 DEF g, q
<1> QED  BY <1>3, <1>4

LEMMA OnlyTakes ==
  ASSUME NEW X, NEW s \in Seq(X), NEW S
  PROVE  Only(s, S) \in Seq(X) /\ \E h : TakenFrom(h, Only(s, S), s, S, Len(s))
<1> DEFINE f == Kept(s, S)
           Good(n) == f[n] \in Seq(X) /\ \E h : TakenFrom(h, f[n], s, S, n)
           B == {n \in 0..Len(s) : ~ Good(n)}
<1>1. Keeping(s, S, f) /\ Only(s, S) = f[Len(s)] /\ Len(s) \in Nat
  BY KeptExists
<1>2. \A n \in 0..Len(s) :
        f[n] = IF n = 0 THEN <<>>
               ELSE IF s[n] \in S THEN Append(f[n - 1], s[n]) ELSE f[n - 1]
  <2> HIDE DEF f
  <2> QED  BY <1>1 DEF Keeping
<1> HIDE DEF f
<1>3. B = {}
  <2>1. SUFFICES ASSUME B # {} PROVE FALSE
    OBVIOUS
  <2>2. PICK n \in B : \A m \in B : n <= m
    <3>1. B \subseteq Nat
      BY <1>1
    <3> HIDE DEF B
    <3> QED  BY <2>1, <3>1, SmallestNat
  <2>3. n \in 0..Len(s) /\ ~ Good(n)
    OBVIOUS
  <2>4. n # 0
    <3>1. f[0] = <<>>
      BY <1>1, <1>2
    <3>2. TakenFrom(<<>>, <<>>, s, S, 0)
      BY DEF TakenFrom
    <3>3. Good(0)
      BY <3>1, <3>2
    <3> QED  BY <2>3, <3>3
  <2>5. n - 1 \in 0..Len(s) /\ n - 1 < Len(s) /\ n - 1 \notin B /\ (n - 1) + 1 = n
    <3>1. n - 1 \in 0..Len(s) /\ ~ (n <= n - 1) /\ n - 1 < Len(s) /\ (n - 1) + 1 = n
      BY <1>1, <2>3, <2>4
    <3> HIDE DEF B
    <3> QED  BY <2>2, <3>1
  <2>6. Good(n - 1)
    BY <2>5
  <2> DEFINE p == n - 1
             r == f[p]
  <2>7. PICK h : TakenFrom(h, r, s, S, p)
    BY <2>6
  <2>8. r \in Seq(X) /\ p \in Nat /\ p < Len(s) /\ p + 1 = n /\ s[n] \in X
    BY <1>1, <2>3, <2>4, <2>5, <2>6
  <2>9. f[n] = IF s[n] \in S THEN Append(r, s[n]) ELSE r
    BY <1>2, <2>3, <2>4
  <2> HIDE DEF p, r
  <2>10. /\ s[p + 1] \in S => TakenFrom(Append(h, p + 1), Append(r, s[p + 1]), s, S, p + 1)
         /\ s[p + 1] \notin S => TakenFrom(h, r, s, S, p + 1)
    BY <2>7, <2>8, TakenNext
  <2>11. CASE s[n] \in S
    <3>1. TakenFrom(Append(h, n), f[n], s, S, n)
      BY <2>8, <2>9, <2>10, <2>11
    <3>2. f[n] \in Seq(X)
      BY <2>8, <2>9, <2>11
    <3> QED  BY <2>3, <3>1, <3>2
  <2>12. CASE s[n] \notin S
    <3>1. TakenFrom(h, f[n], s, S, n)
      BY <2>8, <2>9, <2>10, <2>12
    <3>2. f[n] \in Seq(X)
      BY <2>8, <2>9, <2>12
    <3> QED  BY <2>3, <3>1, <3>2
  <2> QED  BY <2>11, <2>12
<1>4. Good(Len(s))
  BY <1>1, <1>3
<1> QED  BY <1>1, <1>4

\* No two elements have the same first component.
OwnFirsts(s) == \A i, j \in DOMAIN s : s[i][1] = s[j][1] => i = j

\* In words: the elements in the set, none twice that was not there twice, in
\* particular by a key of theirs.
LEMMA OnlyFacts ==
  ASSUME NEW X, NEW s \in Seq(X), NEW S
  PROVE  /\ Only(s, S) \in Seq(X)
         /\ ToSet(Only(s, S)) = ToSet(s) \cap S
         /\ IsInjective(s) => IsInjective(Only(s, S))
         /\ OwnFirsts(s) => OwnFirsts(Only(s, S))
<1> DEFINE r == Only(s, S)
<1>1. r \in Seq(X)
  BY OnlyTakes
<1>2. PICK h : TakenFrom(h, r, s, S, Len(s))
  BY OnlyTakes
<1> HIDE DEF r
<1>3. /\ \A i \in DOMAIN r : h[i] \in DOMAIN s /\ r[i] = s[h[i]] /\ r[i] \in S
      /\ \A i, j \in DOMAIN r : h[i] = h[j] => i = j
      /\ \A k \in DOMAIN s : s[k] \in S => \E i \in DOMAIN r : h[i] = k
  <2>1. h \in Seq(1..Len(s)) /\ DOMAIN h = DOMAIN r /\ DOMAIN s = 1..Len(s)
    BY <1>1, <1>2 DEF TakenFrom
  <2>2. \A i \in DOMAIN r : h[i] \in DOMAIN s
    BY <2>1
  <2>3. ASSUME NEW i \in DOMAIN r, NEW j \in DOMAIN r, h[i] = h[j] PROVE i = j
    <3>1. i \in Int /\ j \in Int /\ h[i] \in Int /\ h[j] \in Int
      BY <1>1, <2>1
    <3>2. ~ (i < j) /\ ~ (j < i)
      BY <1>2, <2>3, <3>1 DEF TakenFrom
    <3> QED  BY <3>1, <3>2
  <2> QED  BY <1>2, <2>1, <2>2, <2>3 DEF TakenFrom
<1>4. ToSet(r) = ToSet(s) \cap S
  BY <1>3 DEF ToSet
<1>5. IsInjective(s) => IsInjective(r)
  BY <1>3 DEF IsInjective
<1>6. OwnFirsts(s) => OwnFirsts(r)
  BY <1>3 DEF OwnFirsts
<1> QED  BY <1>1, <1>4, <1>5, <1>6 DEF r

-----------------------------------------------------------------------------
(* Collections: what both sides hold.                                      *)

PropsMade(props) ==
  /\ props \in Seq(ToSet(props))
  /\ \A p \in ToSet(props) : IsProperty(p)
  /\ OwnFirsts(props)
WellMade(v) ==
  /\ v[1] \in Tags
  /\ v[1] = "array" => v[2] \in Seq(Items)
  /\ v[1] = "object" => PropsMade(v[2])

LEMMA SeqGrows ==
  ASSUME NEW A, NEW B, A \subseteq B, NEW s \in Seq(A)
  PROVE  s \in Seq(B)
OBVIOUS

LEMMA ItemTags == \A v \in Items : v[1] \in Tags
<1> SUFFICES ASSUME NEW v \in Items PROVE v[1] \in Tags
  OBVIOUS
<1>1. CASE v = Undefined
  BY <1>1 DEF Undefined, Tags
<1>2. CASE v \in Handed
  BY <1>2, CollectionsAssumption
<1>3. CASE \E u \in Inputs : u[1] = "array" /\ v \in ToSet(u[2])
  BY <1>3, CollectionsAssumption DEF IsValue
<1> QED  BY <1>1, <1>2, <1>3 DEF Items

LEMMA InputsHeld == \A v \in Inputs : WellMade(v)
<1> SUFFICES ASSUME NEW v \in Inputs PROVE WellMade(v)
  OBVIOUS
<1>1. IsValue(v)
  BY CollectionsAssumption
<1>2. ASSUME v[1] = "array" PROVE v[2] \in Seq(Items)
  <2>1. v[2] \in Seq(ToSet(v[2])) /\ ToSet(v[2]) \subseteq Items
    BY <1>1, <1>2 DEF IsValue, Items
  <2> DEFINE s == v[2]
  <2> HIDE DEF s
  <2>2. s \in Seq(ToSet(s)) /\ ToSet(s) \subseteq Items
    BY <2>1 DEF s
  <2>3. s \in Seq(Items)
    BY <2>2
  <2> QED  BY <2>3 DEF s
<1>3. ASSUME v[1] = "object" PROVE PropsMade(v[2])
  BY <1>1, <1>3 DEF IsValue, PropsMade, OwnFirsts, IsInjective
<1> QED  BY <1>1, <1>2, <1>3 DEF IsValue, WellMade

\* JavaScript changes an array.
LEMMA ArrayHeld ==
  ASSUME NEW s \in Seq(Items)
  PROVE  WellMade(Arr(s))
BY DEF WellMade, Arr, Tags

LEMMA ObjectHeld ==
  ASSUME NEW props, PropsMade(props)
  PROVE  WellMade(Obj(props))
BY DEF WellMade, Obj, Tags

LEMMA KeysAre ==
  ASSUME NEW props, PropsMade(props)
  PROVE  /\ DOMAIN props = 1..Len(props) /\ Len(props) \in Nat
         /\ KeysOf(props) = {p[1] : p \in ToSet(props)}
         /\ \A i \in DOMAIN props : IsProperty(props[i]) /\ props[i] \in ToSet(props)
         /\ \A i, j \in DOMAIN props : props[i][1] = props[j][1] => i = j
<1>1. DOMAIN props = 1..Len(props) /\ Len(props) \in Nat
  BY DEF PropsMade
<1>2. KeysOf(props) = {p[1] : p \in ToSet(props)}
  BY DEF KeysOf, ToSet
<1>3. \A i \in DOMAIN props : IsProperty(props[i]) /\ props[i] \in ToSet(props)
  BY DEF PropsMade, ToSet
<1>4. ASSUME NEW i \in DOMAIN props, NEW j \in DOMAIN props, props[i][1] = props[j][1]
      PROVE  i = j
  BY <1>4 DEF PropsMade, OwnFirsts
<1> QED  BY <1>1, <1>2, <1>3, <1>4

\* Some of the properties: their keys too are each one's own.
LEMMA SomeMade ==
  ASSUME NEW props, PropsMade(props), NEW S
  PROVE  PropsMade(Only(props, S)) /\ ToSet(Only(props, S)) = ToSet(props) \cap S
<1> DEFINE r == Only(props, S)
           X == ToSet(props)
<1>1. props \in Seq(X)
  BY DEF PropsMade
<1>2. /\ r \in Seq(X) /\ ToSet(r) = X \cap S
      /\ OwnFirsts(props) => OwnFirsts(r)
  <2>1. X = ToSet(props)
    OBVIOUS
  <2> HIDE DEF X
  <2> QED  BY <1>1, <2>1, OnlyFacts
<1>3. r \in Seq(ToSet(r))
  <2> HIDE DEF r
  <2>1. r \in Seq(X)
    BY <1>2
  <2> QED  BY <2>1 DEF ToSet
<1> HIDE DEF r
<1> QED  BY <1>2, <1>3 DEF PropsMade, r

LEMMA SeqMade ==
  ASSUME NEW q, NEW n \in Nat, DOMAIN q = 1..n, q = [i \in DOMAIN q |-> q[i]],
         \A i \in 1..n : IsProperty(q[i]),
         \A i, j \in 1..n : q[i][1] = q[j][1] => i = j
  PROVE  PropsMade(q)
<1>1. \A i \in 1..n : q[i] \in ToSet(q)
  BY DEF ToSet
<1>2. q \in [1..n -> ToSet(q)]
  BY <1>1
<1>3. q \in Seq(ToSet(q))
  BY <1>2
<1>4. \A p \in ToSet(q) : IsProperty(p)
  BY DEF ToSet
<1>5. OwnFirsts(q)
  BY DEF OwnFirsts
<1> QED  BY <1>3, <1>4, <1>5 DEF PropsMade

LEMMA AssignMade ==
  ASSUME NEW props, PropsMade(props), NEW key, key[1] \in {"string", "symbol"}, NEW v
  PROVE  PropsMade(SetProperty(props, key, v))
<1>1. /\ DOMAIN props = 1..Len(props) /\ Len(props) \in Nat
      /\ KeysOf(props) = {p[1] : p \in ToSet(props)}
      /\ \A i \in DOMAIN props : IsProperty(props[i]) /\ props[i] \in ToSet(props)
      /\ \A i, j \in DOMAIN props : props[i][1] = props[j][1] => i = j
  BY KeysAre
<1> DEFINE n == Len(props)
<1>2. CASE key \in KeysOf(props)
  <2> DEFINE q == [i \in DOMAIN props |->
               IF props[i][1] = key THEN <<key, v, props[i][3]>> ELSE props[i]]
  <2>1. \A i \in 1..n : q[i][1] = props[i][1] /\ IsProperty(q[i])
    BY <1>1 DEF IsProperty
  <2>2. DOMAIN q = 1..n /\ q = [i \in DOMAIN q |-> q[i]]
    BY <1>1
  <2>3. \A i, j \in 1..n : q[i][1] = q[j][1] => i = j
    <3> HIDE DEF q
    <3> QED  BY <1>1, <2>1
  <2>4. n \in Nat
    BY <1>1
  <2> HIDE DEF q, n
  <2>5. PropsMade(q)
    BY <2>1, <2>2, <2>3, <2>4, SeqMade
  <2> QED  BY <1>2, <2>5 DEF SetProperty, q
<1>3. CASE key \notin KeysOf(props)
  <2> DEFINE q == Append(props, <<key, v, TRUE>>)
             X == ToSet(props) \cup {<<key, v, TRUE>>}
             m == n + 1
  <2>1. props \in Seq(X)
    <3> DEFINE Y == ToSet(props)
    <3>1. props \in Seq(Y) /\ Y \subseteq X
      BY DEF PropsMade
    <3> HIDE DEF X, Y
    <3> QED  BY <3>1, SeqGrows
  <2>2. q = [i \in DOMAIN q |-> q[i]] /\ DOMAIN q = 1..m /\ q[m] = <<key, v, TRUE>>
        /\ \A i \in 1..n : q[i] = props[i]
    <3> DEFINE e == <<key, v, TRUE>>
    <3>1. e \in X
      OBVIOUS
    <3> HIDE DEF X, e
    <3>2. /\ Append(props, e) \in Seq(X) /\ Len(Append(props, e)) = m
          /\ Append(props, e)[m] = e
          /\ \A i \in 1..n : Append(props, e)[i] = props[i]
      BY <1>1, <2>1, <3>1
    <3>3. Append(props, e) = [i \in DOMAIN Append(props, e) |-> Append(props, e)[i]]
      BY <3>2, SeqIsFunction
    <3>4. DOMAIN Append(props, e) = 1..m
      <4> DEFINE a == Append(props, e)
      <4>1. a \in Seq(X) /\ Len(a) = m
        BY <3>2
      <4> HIDE DEF a
      <4>2. DOMAIN a = 1..m
        BY <4>1
      <4> QED  BY <4>2 DEF a
    <3> QED  BY <3>2, <3>3, <3>4 DEF e
  <2> HIDE DEF q
  <2>3. \A i \in 1..m : i = m \/ i \in 1..n
    BY <1>1
  <2>4. \A i \in 1..m : IsProperty(q[i])
    <3>1. IsProperty(q[m])
      BY <2>2 DEF IsProperty
    <3>2. \A i \in 1..n : IsProperty(q[i])
      BY <1>1, <2>2
    <3> QED  BY <2>3, <3>1, <3>2
  <2>5. \A i \in 1..n : q[i][1] # key /\ q[i] = props[i]
    BY <1>1, <1>3, <2>2 DEF KeysOf
  <2>6. \A i, j \in 1..m : q[i][1] = q[j][1] => i = j
    <3>1. q[m][1] = key
      BY <2>2
    <3> QED  BY <1>1, <2>3, <2>5, <3>1
  <2>7. m \in Nat
    BY <1>1
  <2> HIDE DEF m
  <2>8. PropsMade(q)
    BY <2>2, <2>4, <2>6, <2>7, SeqMade
  <2> QED  BY <1>3, <2>8 DEF SetProperty, q
<1> QED  BY <1>2, <1>3

LEMMA HideMade ==
  ASSUME NEW props, PropsMade(props), NEW key
  PROVE  PropsMade([i \in DOMAIN props |->
                     IF props[i][1] = key
                     THEN <<key, props[i][2], FALSE>> ELSE props[i]])
<1>1. /\ DOMAIN props = 1..Len(props) /\ Len(props) \in Nat
      /\ \A i \in DOMAIN props : IsProperty(props[i])
      /\ \A i, j \in DOMAIN props : props[i][1] = props[j][1] => i = j
  BY KeysAre
<1> DEFINE n == Len(props)
           q == [i \in DOMAIN props |->
                  IF props[i][1] = key
                  THEN <<key, props[i][2], FALSE>> ELSE props[i]]
<1>2. \A i \in 1..n : q[i][1] = props[i][1] /\ IsProperty(q[i])
  BY <1>1 DEF IsProperty
<1>3. DOMAIN q = 1..n /\ q = [i \in DOMAIN q |-> q[i]]
  BY <1>1
<1>4. \A i, j \in 1..n : q[i][1] = q[j][1] => i = j
  <2> HIDE DEF q
  <2> QED  BY <1>1, <1>2
<1>5. n \in Nat
  BY <1>1
<1> HIDE DEF q, n
<1>6. PropsMade(q)
  BY <1>2, <1>3, <1>4, <1>5, SeqMade
<1> QED  BY <1>6 DEF q

-----------------------------------------------------------------------------
(* Collections: the keys that are asked for.                               *)

LEMMA TaggedFacts ==
  ASSUME NEW props, PropsMade(props), NEW tag
  PROVE  /\ Tagged(props, tag) \in Seq(KeysOf(props))
         /\ ToSet(Tagged(props, tag)) = {key \in KeysOf(props) : key[1] = tag}
         /\ IsInjective(Tagged(props, tag))
<1> DEFINE K == KeysOf(props)
           ks == [i \in DOMAIN props |-> props[i][1]]
           S == {key \in K : key[1] = tag}
<1>1. DOMAIN props = 1..Len(props) /\ Len(props) \in Nat /\ OwnFirsts(props)
  BY DEF PropsMade
<1>2. ks \in Seq(K) /\ ToSet(ks) = K /\ IsInjective(ks)
  <2>1. K = {ks[i] : i \in DOMAIN ks}
    BY DEF KeysOf
  <2>2. ks \in [1..Len(props) -> K]
    BY <1>1 DEF KeysOf
  <2>3. ks \in Seq(K)
    <3> HIDE DEF ks, K
    <3> QED  BY <1>1, <2>2
  <2>4. IsInjective(ks)
    BY <1>1 DEF OwnFirsts, IsInjective
  <2>5. ToSet(ks) = K
    <3> HIDE DEF ks, K
    <3> QED  BY <2>1 DEF ToSet
  <2> QED  BY <2>3, <2>4, <2>5
<1>3. S \subseteq K /\ Tagged(props, tag) = Only(ks, S)
  BY DEF Tagged
<1>4. S = {key \in KeysOf(props) : key[1] = tag} /\ K = KeysOf(props)
  OBVIOUS
<1> HIDE DEF K, ks, S
<1>5. Only(ks, S) \in Seq(K) /\ ToSet(Only(ks, S)) = S /\ IsInjective(Only(ks, S))
  <2>1. /\ Only(ks, S) \in Seq(K) /\ ToSet(Only(ks, S)) = ToSet(ks) \cap S
        /\ IsInjective(ks) => IsInjective(Only(ks, S))
    BY <1>2, OnlyFacts
  <2> QED  BY <1>2, <1>3, <2>1
<1> QED  BY <1>3, <1>4, <1>5

\* What own_props asks for.
Asked(props, filter) ==
  {p[1] : p \in {q \in ToSet(props) :
                   /\ filter.enumOnly => q[3]
                   /\ filter[q[1][1]]}}
AllFilters == [string: BOOLEAN, symbol: BOOLEAN, enumOnly: BOOLEAN]

LEMMA OwnKeysFacts ==
  ASSUME NEW v, v[1] = "object", PropsMade(v[2]), NEW filter \in AllFilters
  PROVE  /\ OwnKeys(v, filter) \in Seq(KeysOf(v[2]))
         /\ ToSet(OwnKeys(v, filter)) = Asked(v[2], filter)
         /\ IsInjective(OwnKeys(v, filter))
<1> DEFINE P == v[2]
           S == {p \in ToSet(P) : filter.enumOnly => p[3]}
           asked == Only(P, S)
           K == KeysOf(P)
           A == KeysOf(asked)
           a == IF filter.string THEN Tagged(asked, "string") ELSE <<>>
           b == IF filter.symbol THEN Tagged(asked, "symbol") ELSE <<>>
           SA == {key \in A : filter.string /\ key[1] = "string"}
           SB == {key \in A : filter.symbol /\ key[1] = "symbol"}
<1>1. PropsOf(v) = P /\ OwnKeys(v, filter) = a \o b
  BY DEF PropsOf, OwnKeys
<1>2. PropsMade(asked) /\ ToSet(asked) = S
  <2>1. S \subseteq ToSet(P)
    OBVIOUS
  <2> HIDE DEF P, S
  <2>2. PropsMade(P)
    BY DEF P
  <2>3. PropsMade(Only(P, S)) /\ ToSet(Only(P, S)) = ToSet(P) \cap S
    BY <2>2, SomeMade
  <2> QED  BY <2>1, <2>3
<1>3. A = {p[1] : p \in S}
  <2> HIDE DEF asked
  <2>1. A = {p[1] : p \in ToSet(asked)}
    BY <1>2, KeysAre
  <2> QED  BY <1>2, <2>1
<1>4. K = {p[1] : p \in ToSet(P)} /\ \A p \in ToSet(P) : IsProperty(p)
  BY KeysAre DEF PropsMade
<1>5. A \subseteq K /\ \A key \in A : key[1] \in {"string", "symbol"}
  <2> HIDE DEF A, K, P
  <2> QED  BY <1>3, <1>4 DEF IsProperty
<1>6. a \in Seq(A) /\ ToSet(a) = SA /\ IsInjective(a)
  <2> HIDE DEF asked
  <2>1. CASE filter.string
    <3>1. /\ Tagged(asked, "string") \in Seq(A) /\ IsInjective(Tagged(asked, "string"))
          /\ ToSet(Tagged(asked, "string")) = {key \in A : key[1] = "string"}
      BY <1>2, TaggedFacts
    <3> HIDE DEF A
    <3> QED  BY <2>1, <3>1
  <2>2. CASE ~ filter.string
    <3>1. ToSet(<<>>) = {} /\ IsInjective(<<>>)
      BY DEF ToSet, IsInjective
    <3> HIDE DEF A
    <3> QED  BY <2>2, <3>1
  <2> QED  BY <2>1, <2>2
<1>7. b \in Seq(A) /\ ToSet(b) = SB /\ IsInjective(b)
  <2> HIDE DEF asked
  <2>1. CASE filter.symbol
    <3>1. /\ Tagged(asked, "symbol") \in Seq(A) /\ IsInjective(Tagged(asked, "symbol"))
          /\ ToSet(Tagged(asked, "symbol")) = {key \in A : key[1] = "symbol"}
      BY <1>2, TaggedFacts
    <3> HIDE DEF A
    <3> QED  BY <2>1, <3>1
  <2>2. CASE ~ filter.symbol
    <3>1. ToSet(<<>>) = {} /\ IsInjective(<<>>)
      BY DEF ToSet, IsInjective
    <3> HIDE DEF A
    <3> QED  BY <2>2, <3>1
  <2> QED  BY <2>1, <2>2
<1>8. SA \cap SB = {}
  <2> HIDE DEF A
  <2> QED  OBVIOUS
<1>9. SA \cup SB = Asked(P, filter)
  <2>1. \A key : key[1] \in {"string", "symbol"} =>
          (filter[key[1]] <=> \/ filter.string /\ key[1] = "string"
                              \/ filter.symbol /\ key[1] = "symbol")
    OBVIOUS
  <2>2. SA \cup SB = {key \in A : filter[key[1]]}
    <3> HIDE DEF A
    <3> QED  BY <1>5, <2>1
  <2>3. {key \in A : filter[key[1]]} = Asked(P, filter)
    <3>1. A = {p[1] : p \in {p \in ToSet(P) : filter.enumOnly => p[3]}}
      BY <1>3
    <3> HIDE DEF A, P
    <3> QED  BY <3>1 DEF Asked
  <2> QED  BY <2>2, <2>3
<1> HIDE DEF a, b, SA, SB, A, K
<1>10. /\ a \o b \in Seq(A) /\ ToSet(a \o b) = SA \cup SB /\ IsInjective(a \o b)
  <2>1. /\ ToSet(a \o b) = ToSet(a) \cup ToSet(b)
        /\ IsInjective(a) /\ IsInjective(b) /\ ToSet(a) \cap ToSet(b) = {}
              => IsInjective(a \o b)
    BY <1>6, <1>7, ConcatElems
  <2> QED  BY <1>6, <1>7, <1>8, <2>1
<1>11. a \o b \in Seq(K)
  BY <1>5, <1>10, SeqGrows
<1> QED  BY <1>1, <1>9, <1>10, <1>11 DEF K

\* Elements of one sequence in the order of another, and keys in that of their
\* properties.
InOrderOf(r, s) ==
  \A i, j \in DOMAIN r : i < j => \E k, l \in DOMAIN s : k < l /\ s[k] = r[i] /\ s[l] = r[j]
Firsts(props) == [i \in DOMAIN props |-> props[i][1]]

LEMMA OnlyInOrder ==
  ASSUME NEW X, NEW s \in Seq(X), NEW S
  PROVE  InOrderOf(Only(s, S), s)
<1> DEFINE r == Only(s, S)
<1>1. r \in Seq(X)
  BY OnlyTakes
<1>2. PICK h : TakenFrom(h, r, s, S, Len(s))
  BY OnlyTakes
<1> HIDE DEF r
<1>3. h \in Seq(1..Len(s)) /\ DOMAIN h = DOMAIN r /\ DOMAIN s = 1..Len(s)
  BY <1>1, <1>2 DEF TakenFrom
<1>4. ASSUME NEW i \in DOMAIN r, NEW j \in DOMAIN r, i < j
      PROVE  \E k, l \in DOMAIN s : k < l /\ s[k] = r[i] /\ s[l] = r[j]
  <2>1. h[i] \in DOMAIN s /\ h[j] \in DOMAIN s
    BY <1>3
  <2>2. h[i] < h[j] /\ s[h[i]] = r[i] /\ s[h[j]] = r[j]
    BY <1>2, <1>4 DEF TakenFrom
  <2> QED  BY <2>1, <2>2
<1> QED  BY <1>4 DEF InOrderOf, r

LEMMA OrderThrough ==
  ASSUME NEW q, NEW r, NEW s, InOrderOf(q, r), InOrderOf(r, s)
  PROVE  InOrderOf(q, s)
<1> SUFFICES ASSUME NEW i \in DOMAIN q, NEW j \in DOMAIN q, i < j
             PROVE  \E k, l \in DOMAIN s : k < l /\ s[k] = q[i] /\ s[l] = q[j]
  BY DEF InOrderOf
<1>1. PICK k, l \in DOMAIN r : k < l /\ r[k] = q[i] /\ r[l] = q[j]
  BY DEF InOrderOf
<1> QED  BY <1>1 DEF InOrderOf

\* The keys that are tagged, of some of the properties, are in the order of all.
LEMMA TaggedInOrder ==
  ASSUME NEW props, PropsMade(props), NEW S, NEW tag
  PROVE  InOrderOf(Tagged(Only(props, S), tag), Firsts(props))
<1> DEFINE some == Only(props, S)
<1>1. PropsMade(some) /\ InOrderOf(some, props)
  BY SomeMade, OnlyInOrder DEF PropsMade
<1> HIDE DEF some
<1>2. Firsts(some) \in Seq(KeysOf(some))
  <2>1. DOMAIN some = 1..Len(some) /\ Len(some) \in Nat
    BY <1>1, KeysAre
  <2>2. Firsts(some) \in [1..Len(some) -> KeysOf(some)]
    BY <2>1 DEF Firsts, KeysOf
  <2> QED  BY <2>1, <2>2
<1>3. InOrderOf(Tagged(some, tag), Firsts(some))
  BY <1>2, OnlyInOrder DEF Tagged, Firsts
<1>4. InOrderOf(Firsts(some), Firsts(props))
  <2>1. ASSUME NEW i \in DOMAIN some, NEW j \in DOMAIN some, i < j
        PROVE  \E k, l \in DOMAIN props :
                 k < l /\ props[k][1] = some[i][1] /\ props[l][1] = some[j][1]
    <3>1. PICK k, l \in DOMAIN props : k < l /\ props[k] = some[i] /\ props[l] = some[j]
      BY <1>1, <2>1 DEF InOrderOf
    <3> QED  BY <3>1
  <2> QED  BY <2>1 DEF InOrderOf, Firsts
<1> QED  BY <1>3, <1>4, OrderThrough DEF some

\* The keys asked for: the strings before the symbols, each in their order.
LEMMA OwnKeysInOrder ==
  ASSUME NEW v, v[1] = "object", PropsMade(v[2]), NEW filter \in AllFilters
  PROVE  \A i, j \in DOMAIN OwnKeys(v, filter) :
           i < j => Precedes(OwnKeys(v, filter)[i], OwnKeys(v, filter)[j], v[2])
<1> DEFINE P == v[2]
           asked == Only(P, {p \in ToSet(P) : filter.enumOnly => p[3]})
           a == IF filter.string THEN Tagged(asked, "string") ELSE <<>>
           b == IF filter.symbol THEN Tagged(asked, "symbol") ELSE <<>>
           O == a \o b
           K == KeysOf(asked)
<1>1. OwnKeys(v, filter) = O
  BY DEF PropsOf, OwnKeys
<1>2. PropsMade(asked)
  BY SomeMade
<1>3. \A tag : /\ InOrderOf(Tagged(asked, tag), Firsts(P))
               /\ Tagged(asked, tag) \in Seq(K)
               /\ \A i \in DOMAIN Tagged(asked, tag) : Tagged(asked, tag)[i][1] = tag
  <2> SUFFICES ASSUME NEW tag
               PROVE  /\ InOrderOf(Tagged(asked, tag), Firsts(P))
                      /\ Tagged(asked, tag) \in Seq(K)
                      /\ \A i \in DOMAIN Tagged(asked, tag) : Tagged(asked, tag)[i][1] = tag
    OBVIOUS
  <2>1. InOrderOf(Tagged(asked, tag), Firsts(P))
    BY TaggedInOrder
  <2>2. /\ Tagged(asked, tag) \in Seq(K)
        /\ ToSet(Tagged(asked, tag)) = {key \in K : key[1] = tag}
    BY <1>2, TaggedFacts
  <2> DEFINE t == Tagged(asked, tag)
  <2> HIDE DEF K, t
  <2>3. \A i \in DOMAIN t : t[i][1] = tag
    BY <2>2 DEF ToSet, t
  <2> QED  BY <2>1, <2>2, <2>3 DEF t
<1>4. InOrderOf(<<>>, Firsts(P)) /\ <<>> \in Seq(K)
  BY DEF InOrderOf
<1> HIDE DEF asked, P, K
<1>5. /\ InOrderOf(a, Firsts(P)) /\ a \in Seq(K)
      /\ \A i \in DOMAIN a : a[i][1] = "string"
  BY <1>3, <1>4
<1>6. /\ InOrderOf(b, Firsts(P)) /\ b \in Seq(K)
      /\ \A i \in DOMAIN b : b[i][1] = "symbol"
  BY <1>3, <1>4
<1> HIDE DEF a, b
<1>7. /\ \A i \in DOMAIN a : O[i] = a[i]
      /\ \A i \in DOMAIN O : i \in Int /\ (i \in DOMAIN a \/ i - Len(a) \in DOMAIN b)
      /\ \A i \in DOMAIN O : i \notin DOMAIN a => O[i] = b[i - Len(a)]
      /\ \A i, j \in DOMAIN O : i < j /\ j \in DOMAIN a => i \in DOMAIN a
      /\ Len(a) \in Int
  BY <1>5, <1>6
<1> HIDE DEF O
<1>8. ASSUME NEW i \in DOMAIN O, NEW j \in DOMAIN O, i < j
      PROVE  Precedes(O[i], O[j], P)
  <2>1. CASE j \in DOMAIN a
    <3>1. i \in DOMAIN a /\ O[i] = a[i] /\ O[j] = a[j] /\ a[i][1] = a[j][1]
      BY <1>5, <1>7, <1>8, <2>1
    <3>2. PICK k, l \in DOMAIN Firsts(P) :
            k < l /\ Firsts(P)[k] = a[i] /\ Firsts(P)[l] = a[j]
      BY <1>5, <1>8, <2>1, <3>1 DEF InOrderOf
    <3> QED  BY <3>1, <3>2 DEF Precedes, Firsts
  <2>2. CASE i \in DOMAIN a /\ j \notin DOMAIN a
    <3>1. O[i][1] = "string" /\ O[j][1] = "symbol"
      BY <1>5, <1>6, <1>7, <2>2
    <3> QED  BY <3>1 DEF Precedes
  <2>3. CASE i \notin DOMAIN a /\ j \notin DOMAIN a
    <3> DEFINE m == i - Len(a)
               n == j - Len(a)
    <3>1. m \in DOMAIN b /\ n \in DOMAIN b /\ m < n /\ O[i] = b[m] /\ O[j] = b[n]
      BY <1>7, <1>8, <2>3
    <3> HIDE DEF m, n
    <3>2. PICK k, l \in DOMAIN Firsts(P) :
            k < l /\ Firsts(P)[k] = b[m] /\ Firsts(P)[l] = b[n]
      BY <1>6, <3>1 DEF InOrderOf
    <3> QED  BY <1>6, <3>1, <3>2 DEF Precedes, Firsts
  <2> QED  BY <1>7, <1>8, <2>1, <2>2, <2>3
<1> QED  BY <1>1, <1>8 DEF P

-----------------------------------------------------------------------------
(* Collections: the invariant.                                             *)

Results == {From(T, v) : T \in ItemTypes, v \in Items}
Reads == Nat \X Results

\* An array is walked from both ends: what was read, at which index, and, until
\* somebody edits the array, of which element.
ArrayWalk ==
  walk.kind = "array" =>
    LET whole == Len(start[2])
    IN  /\ target[1] = "array" /\ start[2] \in Seq(Items)
        /\ walk \in [kind: {"array"}, item: ItemTypes, index: Nat, len: Nat,
                     front: Seq(Reads), back: Seq(Reads)]
        /\ walk.index <= walk.len /\ walk.len <= whole
        /\ Len(walk.front) = walk.index /\ Len(walk.back) = whole - walk.len
        /\ \A i \in 1..walk.index : walk.front[i][1] = i - 1
        /\ \A j \in 1..(whole - walk.len) : walk.back[j][1] = whole - j
        /\ edits = 0 =>
             /\ start = target
             /\ \A i \in 1..walk.index :
                  walk.front[i][2] = From(walk.item, start[2][i])
             /\ \A j \in 1..(whole - walk.len) :
                  walk.back[j][2] = From(walk.item, start[2][(whole - j) + 1])

KeysGiven == [i \in DOMAIN walk.given |-> walk.given[i][1]]

\* The keys of an object: those given and those left are those it had.
PropsWalk ==
  walk.kind = "props" =>
    LET had == KeysOf(start[2])
    IN  /\ start[1] = "object" /\ PropsMade(start[2])
        /\ walk \in [kind: {"props"}, key: KeyTypes, item: ItemTypes, filter: AllFilters,
                     keys: Seq(had), given: Seq(ToSet(walk.given))]
        /\ KeysGiven \in Seq(had)
        /\ KeysGiven \o walk.keys = OwnKeys(start, walk.filter)
        /\ edits = 0 =>
             /\ start = target
             /\ \A i \in DOMAIN walk.given :
                  walk.given[i][2] =
                    PairFrom(walk.key, walk.given[i][1],
                             From(walk.item, Property(start, walk.given[i][1])))

CollInv ==
  /\ written \in Written \cup {<<>>}
  /\ edits \in 0..MaxEdits
  /\ WellMade(target)
  /\ walk = NoWalk \/ walk.kind \in {"array", "props"}
  /\ ArrayWalk
  /\ PropsWalk

LEMMA Elements ==
  ASSUME NEW s \in Seq(Items), NEW i \in Nat
  PROVE  Element(s, i) \in Items
<1>1. CASE i < Len(s)
  <2>1. i + 1 \in DOMAIN s
    BY <1>1
  <2> QED  BY <1>1, <2>1 DEF Element
<1>2. CASE ~ (i < Len(s))
  BY <1>2 DEF Element, Items
<1> QED  BY <1>1, <1>2

\* While nothing is edited or read, nothing changes.
LEMMA WalkKept ==
  ASSUME ArrayWalk, PropsWalk, UNCHANGED <<walk, start>>, edits' # 0,
         target'[1] = target[1]
  PROVE  ArrayWalk' /\ PropsWalk'
<1>1. ArrayWalk'
  BY DEF ArrayWalk
<1>2. PropsWalk'
  BY DEF PropsWalk, KeysGiven
<1> QED  BY <1>1, <1>2


LEMMA CollEditArray == CollInv /\ EditArray => CollInv'
<1> SUFFICES ASSUME CollInv, EditArray PROVE CollInv'
  OBVIOUS
<1>1. edits' \in 0..MaxEdits /\ edits' # 0 /\ target'[1] = target[1]
  <2>1. target'[1] = "array" /\ target[1] = "array"
    BY DEF EditArray, Arr
  <2> QED  BY <2>1, CollectionsAssumption DEF CollInv, EditArray
<1>2. ArrayWalk' /\ PropsWalk'
  BY <1>1, WalkKept DEF CollInv, EditArray
<1>3. target[2] \in Seq(Items)
  BY DEF CollInv, EditArray, WellMade
<1>4. Handed \subseteq Items
  BY DEF Items
<1>5. WellMade(target)'
  <2> DEFINE s == target[2]
  <2>1. \A v \in Handed : WellMade(Arr(Append(s, v)))
    <3> SUFFICES ASSUME NEW v \in Handed PROVE WellMade(Arr(Append(s, v)))
      OBVIOUS
    <3> HIDE DEF s
    <3>1. Append(s, v) \in Seq(Items)
      BY <1>3, <1>4 DEF s
    <3> QED  BY <3>1, ArrayHeld
  <2>2. s # <<>> => WellMade(Arr(Front(s)))
    BY <1>3, FrontFacts, ArrayHeld
  <2>3. \A v \in Handed, i \in DOMAIN s : WellMade(Arr([s EXCEPT ![i] = v]))
    <3> SUFFICES ASSUME NEW v \in Handed, NEW i \in DOMAIN s
                 PROVE  WellMade(Arr([s EXCEPT ![i] = v]))
      OBVIOUS
    <3>1. s \in Seq(Items) /\ v \in Items
      BY <1>3, <1>4
    <3> HIDE DEF s
    <3>2. [s EXCEPT ![i] = v] \in Seq(Items)
      BY <3>1
    <3> QED  BY <3>2, ArrayHeld
  <2>4. \/ \E v \in Handed : target' = Arr(Append(s, v))
        \/ s # <<>> /\ target' = Arr(Front(s))
        \/ \E v \in Handed, i \in DOMAIN s : target' = Arr([s EXCEPT ![i] = v])
    BY DEF EditArray
  <2>5. WellMade(target')
    <3> HIDE DEF s
    <3> QED  BY <2>1, <2>2, <2>3, <2>4
  <2> QED  BY <2>5 DEF WellMade
<1> QED  BY <1>1, <1>2, <1>5 DEF CollInv, EditArray

LEMMA CollEditObject == CollInv /\ EditObject => CollInv'
<1> SUFFICES ASSUME CollInv, EditObject PROVE CollInv'
  OBVIOUS
<1>1. edits' \in 0..MaxEdits /\ edits' # 0 /\ target'[1] = target[1]
  <2>1. target'[1] = "object" /\ target[1] = "object"
    <3>1. \A x : Obj(x)[1] = "object"
      BY DEF Obj
    <3> QED  BY <3>1 DEF EditObject
  <2> QED  BY <2>1, CollectionsAssumption DEF CollInv, EditObject
<1>2. ArrayWalk' /\ PropsWalk'
  BY <1>1, WalkKept DEF CollInv, EditObject
<1>3. PropsMade(target[2])
  BY DEF CollInv, EditObject, WellMade
<1>4. WellMade(target')
  <2> DEFINE P == target[2]
  <2>1. PICK key \in KeysOf(P) \cup {Str(<<"new">>)} :
          \/ target' = Obj(Only(P, {p \in ToSet(P) : p[1] # key}))
          \/ \E v \in Handed : target' = Obj(SetProperty(P, key, v))
          \/ target' = Obj([i \in DOMAIN P |->
                             IF P[i][1] = key
                             THEN <<key, P[i][2], FALSE>> ELSE P[i]])
    BY DEF EditObject
  <2>2. PropsMade(P)
    BY <1>3
  <2> HIDE DEF P
  <2>3. key[1] \in {"string", "symbol"}
    <3>1. \A k \in KeysOf(P) : k[1] \in {"string", "symbol"}
      BY <2>2, KeysAre DEF IsProperty, PropsMade
    <3> QED  BY <3>1 DEF Str
  <2>4. CASE target' = Obj(Only(P, {p \in ToSet(P) : p[1] # key}))
    BY <2>2, <2>4, SomeMade, ObjectHeld
  <2>5. CASE \E v \in Handed : target' = Obj(SetProperty(P, key, v))
    BY <2>2, <2>3, <2>5, AssignMade, ObjectHeld
  <2>6. CASE target' = Obj([i \in DOMAIN P |->
                             IF P[i][1] = key
                             THEN <<key, P[i][2], FALSE>> ELSE P[i]])
    BY <2>2, <2>6, HideMade, ObjectHeld
  <2> QED  BY <2>1, <2>4, <2>5, <2>6
<1>5. WellMade(target)'
  BY <1>4 DEF WellMade
<1> QED  BY <1>1, <1>2, <1>5 DEF CollInv, EditObject

LEMMA CollStartIter == CollInv /\ StartIter => CollInv'
<1> SUFFICES ASSUME CollInv, StartIter PROVE CollInv'
  OBVIOUS
<1>1. target[2] \in Seq(Items)
  BY DEF CollInv, StartIter, WellMade
<1>2. PICK T \in ItemTypes :
        walk' = [kind |-> "array", item |-> T, index |-> 0,
                 len |-> Len(target[2]), front |-> <<>>, back |-> <<>>]
  BY DEF StartIter
<1>3. ArrayWalk'
  BY <1>1, <1>2 DEF ArrayWalk, StartIter
<1>4. PropsWalk'
  BY <1>2 DEF PropsWalk
<1>5. WellMade(target)' /\ walk'.kind = "array"
  BY <1>2 DEF WellMade, CollInv, StartIter
<1> QED  BY <1>3, <1>4, <1>5 DEF CollInv, StartIter

LEMMA CollStartProps == CollInv /\ StartProps => CollInv'
<1> SUFFICES ASSUME CollInv, StartProps PROVE CollInv'
  OBVIOUS
<1>1. target[1] = "object" /\ PropsMade(target[2])
  BY DEF CollInv, StartProps, WellMade
<1>2. PICK K \in KeyTypes : \E T \in ItemTypes, filter \in Filters :
        walk' = [kind |-> "props", key |-> K, item |-> T, filter |-> filter,
                 keys |-> OwnKeys(target, filter), given |-> <<>>]
  BY DEF StartProps
<1>3. PICK T \in ItemTypes, filter \in Filters :
        walk' = [kind |-> "props", key |-> K, item |-> T, filter |-> filter,
                 keys |-> OwnKeys(target, filter), given |-> <<>>]
  BY <1>2
<1>4. filter \in AllFilters
  BY CollectionsAssumption DEF AllFilters
<1>5. OwnKeys(target, filter) \in Seq(KeysOf(target[2]))
  BY <1>1, <1>4, OwnKeysFacts
<1>6. PropsWalk'
  <2>1. /\ walk'.kind = "props" /\ walk'.key = K /\ walk'.item = T /\ walk'.filter = filter
        /\ walk'.keys = OwnKeys(target, filter) /\ walk'.given = <<>>
        /\ walk' \in [kind: {"props"}, key: KeyTypes, item: ItemTypes, filter: AllFilters,
                      keys: Seq(KeysOf(target[2])), given: Seq(ToSet(<<>>))]
    BY <1>3, <1>4, <1>5
  <2>2. start' = target /\ target' = target /\ edits' = edits
    BY DEF StartProps
  <2>3. KeysGiven' = <<>> /\ <<>> \in Seq(KeysOf(target[2]))
        /\ <<>> \in Seq(ToSet(<<>>)) /\ DOMAIN (walk'.given) = {}
    BY <2>1 DEF KeysGiven
  <2>4. <<>> \o OwnKeys(target, filter) = OwnKeys(target, filter)
    BY <1>5
  <2> QED  BY <1>1, <1>4, <1>5, <2>1, <2>2, <2>3, <2>4 DEF PropsWalk
<1>7. ArrayWalk'
  BY <1>3 DEF ArrayWalk
<1>8. WellMade(target)' /\ walk'.kind = "props"
  BY <1>3 DEF WellMade, CollInv, StartProps
<1> QED  BY <1>6, <1>7, <1>8 DEF CollInv, StartProps

\* A value is written or met before anything is walked, or else edited.
LEMMA CollWrite == CollInv /\ (Write \/ Meet) => CollInv'
<1> SUFFICES ASSUME CollInv, Write \/ Meet PROVE CollInv'
  OBVIOUS
<1>1. /\ UNCHANGED <<edits, walk, start>> /\ target = Undefined
      /\ written' \in Written \cup {<<>>} /\ target' \in Inputs
  BY DEF CollInv, Write, Meet, NoTarget, Inputs
<1>2. WellMade(target')
  BY <1>1, InputsHeld
<1>3. target[1] \notin {"array", "object"}
  BY <1>1 DEF Undefined
<1>4. ArrayWalk'
  BY <1>1, <1>3 DEF CollInv, ArrayWalk
<1>5. PropsWalk'
  BY <1>1, <1>3 DEF CollInv, PropsWalk, KeysGiven
<1>6. WellMade(target)'
  BY <1>2 DEF WellMade
<1> QED  BY <1>1, <1>4, <1>5, <1>6 DEF CollInv

\* One more read from the front.
LEMMA CollNextFront == CollInv /\ NextFront => CollInv'
<1> SUFFICES ASSUME CollInv, NextFront PROVE CollInv'
  OBVIOUS
<1> DEFINE W == Len(start[2])
           n == walk.index
           l == walk.len
           v == Element(target[2], n)
           r == <<n, From(walk.item, v)>>
           f == walk.front
           b == walk.back
           g == Append(f, r)
<1>1. /\ start[2] \in Seq(Items) /\ W \in Nat /\ n \in Nat /\ l \in Nat /\ n < l /\ l <= W
      /\ target[1] = "array" /\ target[2] \in Seq(Items)
      /\ Len(f) = n /\ f \in Seq(Reads) /\ walk.item \in ItemTypes
      /\ b \in Seq(Reads) /\ Len(b) = W - l
  BY DEF CollInv, ArrayWalk, NextFront, WellMade
<1>2. /\ \A i \in 1..n : f[i][1] = i - 1
      /\ \A j \in 1..(W - l) : b[j][1] = W - j
      /\ edits = 0 => start = target
      /\ edits = 0 => \A i \in 1..n : f[i][2] = From(walk.item, start[2][i])
      /\ edits = 0 => \A j \in 1..(W - l) :
                        b[j][2] = From(walk.item, start[2][(W - j) + 1])
  BY DEF CollInv, ArrayWalk, NextFront
<1>3. v \in Items /\ r \in Reads
  BY <1>1, Elements DEF Reads, Results
<1>4. edits = 0 => v = start[2][n + 1]
  BY <1>1, <1>2 DEF Element
<1>5. /\ walk' = [walk EXCEPT !.front = g, !.index = n + 1]
      /\ UNCHANGED <<written, target, edits, start>>
  BY DEF NextFront, Read
<1>6. walk \in [kind: {"array"}, item: ItemTypes, index: Nat, len: Nat,
                front: Seq(Reads), back: Seq(Reads)]
  BY DEF CollInv, ArrayWalk, NextFront
<1> DEFINE m == n + 1
<1>7. /\ g \in Seq(Reads) /\ Len(g) = m /\ g[m] = r /\ m \in Nat
      /\ \A i \in 1..n : g[i] = f[i]
      /\ \A i \in 1..m : i \in 1..n \/ i = m
  <2> HIDE DEF r
  <2> QED  BY <1>1, <1>3
<1>8. r[1] = m - 1 /\ r[2] = From(walk.item, v) /\ m <= l /\ m = n + 1
  BY <1>1
<1> HIDE DEF g, r, m, v
<1>9. /\ walk' \in [kind: {"array"}, item: ItemTypes, index: Nat, len: Nat,
                     front: Seq(Reads), back: Seq(Reads)]
      /\ walk'.kind = "array" /\ walk'.index = m /\ walk'.len = l /\ walk'.front = g
      /\ walk'.back = b /\ walk'.item = walk.item
  BY <1>5, <1>6, <1>7, <1>8
<1>10. \A i \in 1..m : g[i][1] = i - 1
  BY <1>2, <1>7, <1>8
<1>11. edits = 0 => \A i \in 1..m : g[i][2] = From(walk.item, start[2][i])
  BY <1>2, <1>4, <1>7, <1>8
<1> HIDE DEF W, n, l, f, b
<1>12. ArrayWalk'
  BY <1>1, <1>2, <1>5, <1>7, <1>8, <1>9, <1>10, <1>11 DEF ArrayWalk, W, n, l, f, b
<1>13. PropsWalk'
  BY <1>9 DEF PropsWalk
<1>14. WellMade(target)'
  BY <1>5 DEF WellMade, CollInv
<1> QED  BY <1>5, <1>9, <1>12, <1>13, <1>14 DEF CollInv

\* One more read from the back.
LEMMA CollNextBack == CollInv /\ NextBack => CollInv'
<1> SUFFICES ASSUME CollInv, NextBack PROVE CollInv'
  OBVIOUS
<1> DEFINE W == Len(start[2])
           n == walk.index
           l == walk.len
           k == l - 1
           v == Element(target[2], k)
           r == <<k, From(walk.item, v)>>
           f == walk.front
           b == walk.back
           g == Append(b, r)
           c == W - l
           m == c + 1
<1>1. /\ start[2] \in Seq(Items) /\ W \in Nat /\ n \in Nat /\ l \in Nat /\ n < l /\ l <= W
      /\ target[1] = "array" /\ target[2] \in Seq(Items)
      /\ Len(f) = n /\ f \in Seq(Reads) /\ walk.item \in ItemTypes
      /\ b \in Seq(Reads) /\ Len(b) = c
  BY DEF CollInv, ArrayWalk, NextBack, WellMade
<1>2. /\ \A i \in 1..n : f[i][1] = i - 1
      /\ \A j \in 1..c : b[j][1] = W - j
      /\ edits = 0 => start = target
      /\ edits = 0 => \A i \in 1..n : f[i][2] = From(walk.item, start[2][i])
      /\ edits = 0 => \A j \in 1..c : b[j][2] = From(walk.item, start[2][(W - j) + 1])
  BY DEF CollInv, ArrayWalk, NextBack
<1>3. k \in Nat /\ c \in Nat /\ m \in Nat /\ W - k = m /\ W - m = k /\ n <= k /\ k <= W
      /\ k < W /\ (W - m) + 1 = k + 1
  <2> HIDE DEF W, n, l
  <2> QED  BY <1>1
<1>4. v \in Items /\ r \in Reads
  <2> HIDE DEF k
  <2>1. v \in Items
    BY <1>1, <1>3, Elements
  <2>2. k \in Nat /\ walk.item \in ItemTypes
    BY <1>1, <1>3
  <2> HIDE DEF v
  <2>3. From(walk.item, v) \in Results
    BY <2>1, <2>2 DEF Results
  <2> QED  BY <2>1, <2>2, <2>3 DEF Reads
<1>5. edits = 0 => v = start[2][k + 1]
  <2> HIDE DEF k
  <2> QED  BY <1>1, <1>2, <1>3 DEF Element
<1>6. /\ walk' = [walk EXCEPT !.back = g, !.len = k]
      /\ UNCHANGED <<written, target, edits, start>>
  BY DEF NextBack, Read
<1>7. walk \in [kind: {"array"}, item: ItemTypes, index: Nat, len: Nat,
                front: Seq(Reads), back: Seq(Reads)]
  BY DEF CollInv, ArrayWalk, NextBack
<1>8. /\ g \in Seq(Reads) /\ Len(g) = m /\ g[m] = r
      /\ \A i \in 1..c : g[i] = b[i]
      /\ \A i \in 1..m : i \in 1..c \/ i = m
  <2>1. b \in Seq(Reads) /\ Len(b) = c /\ c \in Nat /\ r \in Reads
    BY <1>1, <1>3, <1>4
  <2> HIDE DEF r, b, c
  <2>2. g \in Seq(Reads) /\ Len(g) = m /\ g[m] = r /\ \A i \in 1..c : g[i] = b[i]
    BY <2>1
  <2>3. \A i \in 1..m : i \in 1..c \/ i = m
    BY <2>1
  <2> QED  BY <2>2, <2>3
<1>9. r[1] = k /\ r[2] = From(walk.item, v)
  OBVIOUS
<1> HIDE DEF g, r, m, v, c, k
<1>10. /\ walk' \in [kind: {"array"}, item: ItemTypes, index: Nat, len: Nat,
                     front: Seq(Reads), back: Seq(Reads)]
       /\ walk'.kind = "array" /\ walk'.index = n /\ walk'.len = k /\ walk'.front = f
       /\ walk'.back = g /\ walk'.item = walk.item
  BY <1>3, <1>6, <1>7, <1>8
<1>11. \A j \in 1..m : g[j][1] = W - j
  BY <1>2, <1>3, <1>8, <1>9
<1>12. edits = 0 => \A j \in 1..m : g[j][2] = From(walk.item, start[2][(W - j) + 1])
  BY <1>2, <1>3, <1>5, <1>8, <1>9
<1> HIDE DEF W, n, l, f, b
<1>13. ArrayWalk'
  BY <1>1, <1>2, <1>3, <1>6, <1>8, <1>10, <1>11, <1>12 DEF ArrayWalk, W, n, l, f, b
<1>14. PropsWalk'
  BY <1>10 DEF PropsWalk
<1>15. WellMade(target)'
  BY <1>6 DEF WellMade, CollInv
<1> QED  BY <1>6, <1>10, <1>13, <1>14, <1>15 DEF CollInv

\* The next key of those that were collected.
LEMMA CollNextProp == CollInv /\ NextProp => CollInv'
<1> SUFFICES ASSUME CollInv, NextProp PROVE CollInv'
  OBVIOUS
<1> DEFINE K == KeysOf(start[2])
           key == Head(walk.keys)
           e == <<key, PairFrom(walk.key, key, From(walk.item, Property(target, key)))>>
           f == walk.given
           g == Append(f, e)
           ks == KeysGiven
           rest == Tail(walk.keys)
           X == ToSet(f) \cup {e}
           n == Len(f)
           m == n + 1
<1>1. /\ start[1] = "object" /\ PropsMade(start[2])
      /\ walk \in [kind: {"props"}, key: KeyTypes, item: ItemTypes, filter: AllFilters,
                   keys: Seq(K), given: Seq(ToSet(f))]
      /\ walk.keys \in Seq(K) /\ walk.keys # <<>>
      /\ f \in Seq(ToSet(f)) /\ ks \in Seq(K)
      /\ ks \o walk.keys = OwnKeys(start, walk.filter)
      /\ edits = 0 => start = target
      /\ edits = 0 => \A i \in DOMAIN f :
           f[i][2] = PairFrom(walk.key, f[i][1],
                              From(walk.item, Property(start, f[i][1])))
  BY DEF CollInv, PropsWalk, NextProp
<1>2. /\ walk' = [walk EXCEPT !.keys = rest, !.given = g]
      /\ UNCHANGED <<written, target, edits, start>>
  BY DEF NextProp
<1>3. e[1] = key
      /\ e[2] = PairFrom(walk.key, key, From(walk.item, Property(target, key)))
  OBVIOUS
<1>4. /\ key \in K /\ rest \in Seq(K) /\ Append(ks, key) \in Seq(K)
      /\ Append(ks, key) \o rest = ks \o walk.keys
  <2> DEFINE left == walk.keys
  <2>1. left \in Seq(K) /\ left # <<>> /\ ks \in Seq(K)
    BY <1>1
  <2> HIDE DEF K, ks, left
  <2>2. Head(left) \in K /\ Tail(left) \in Seq(K) /\ Append(ks, Head(left)) \in Seq(K)
    BY <2>1
  <2>3. Append(ks, Head(left)) \o Tail(left) = ks \o left
    BY <2>1, MoveHead
  <2> QED  BY <2>2, <2>3 DEF left
<1> HIDE DEF e
<1>5. f \in Seq(X) /\ n \in Nat /\ DOMAIN f = 1..n
  <2> DEFINE Y == ToSet(f)
  <2>1. f \in Seq(Y) /\ Y \subseteq X
    BY <1>1
  <2> HIDE DEF Y, X
  <2> QED  BY <2>1, SeqGrows
<1>6. /\ g \in Seq(X) /\ Len(g) = m /\ g[m] = e /\ DOMAIN g = 1..m /\ m \in Nat
      /\ \A i \in 1..n : g[i] = f[i]
      /\ \A i \in 1..m : i \in 1..n \/ i = m
  <2>1. e \in X
    OBVIOUS
  <2> HIDE DEF X, f
  <2> QED  BY <1>5, <2>1
<1> HIDE DEF g, X, K, rest, key
<1>7. g \in Seq(ToSet(g))
  BY <1>6 DEF ToSet
<1>8. [i \in DOMAIN g |-> g[i][1]] = Append(ks, key)
  <2> DEFINE a == [i \in DOMAIN g |-> g[i][1]]
             b == Append(ks, key)
  <2>1. ks = [i \in 1..n |-> f[i][1]]
    BY <1>5 DEF KeysGiven
  <2>2. Len(ks) = n /\ \A i \in 1..n : ks[i] = f[i][1]
    <3>1. DOMAIN ks = 1..n
      BY <2>1
    <3>2. \A i \in 1..n : ks[i] = f[i][1]
      BY <2>1
    <3> HIDE DEF ks
    <3> QED  BY <1>1, <1>5, <3>1, <3>2
  <2>3. /\ b \in Seq(K) /\ Len(b) = m /\ b[m] = key /\ \A i \in 1..n : b[i] = ks[i]
    <3> HIDE DEF ks
    <3> QED  BY <1>1, <1>4, <1>5, <2>2
  <2>4. DOMAIN a = 1..m /\ \A i \in 1..m : a[i] = g[i][1]
    BY <1>6
  <2> HIDE DEF ks, b
  <2>5. b = [i \in 1..m |-> b[i]]
    BY <1>6, <2>3
  <2>6. \A i \in 1..m : b[i] = g[i][1]
    BY <1>3, <1>6, <2>2, <2>3
  <2> QED  BY <1>6, <2>5, <2>6 DEF b
<1>9. edits = 0 => \A i \in 1..m :
           g[i][2] = PairFrom(walk.key, g[i][1],
                              From(walk.item, Property(start, g[i][1])))
  BY <1>1, <1>3, <1>5, <1>6
<1>10. /\ walk' \in [kind: {"props"}, key: KeyTypes, item: ItemTypes, filter: AllFilters,
                    keys: Seq(K), given: Seq(ToSet(g))]
       /\ walk'.kind = "props" /\ walk'.key = walk.key /\ walk'.item = walk.item
       /\ walk'.filter = walk.filter /\ walk'.keys = rest /\ walk'.given = g
  <2> HIDE DEF f
  <2> QED  BY <1>1, <1>2, <1>4, <1>7
<1>11. KeysGiven' = Append(ks, key)
  BY <1>8, <1>10 DEF KeysGiven
<1> HIDE DEF ks, f
<1>12. PropsWalk'
  BY <1>1, <1>2, <1>4, <1>6, <1>7, <1>9, <1>10, <1>11 DEF PropsWalk, K
<1>13. ArrayWalk'
  BY <1>10 DEF ArrayWalk
<1>14. WellMade(target)'
  BY <1>2 DEF WellMade, CollInv
<1> QED  BY <1>2, <1>10, <1>12, <1>13, <1>14 DEF CollInv

LEMMA CollStart == CollectionsInit => CollInv
<1> SUFFICES ASSUME CollectionsInit PROVE CollInv
  OBVIOUS
<1>1. WellMade(target)
  BY DEF CollectionsInit, WellMade, NoTarget, Undefined, Tags
<1>2. walk.kind = "none"
  BY DEF CollectionsInit, NoWalk
<1> QED  BY <1>1, <1>2, CollectionsAssumption
         DEF CollInv, CollectionsInit, ArrayWalk, PropsWalk

LEMMA CollStep == CollInv /\ [CollectionsNext]_collectionVars => CollInv'
<1> SUFFICES ASSUME CollInv, [CollectionsNext]_collectionVars PROVE CollInv'
  OBVIOUS
<1>1. CASE Write \/ Meet
  BY <1>1, CollWrite
<1>2. CASE EditArray
  BY <1>2, CollEditArray
<1>3. CASE EditObject
  BY <1>3, CollEditObject
<1>4. CASE StartIter
  BY <1>4, CollStartIter
<1>5. CASE NextFront
  BY <1>5, CollNextFront
<1>6. CASE NextBack
  BY <1>6, CollNextBack
<1>7. CASE StartProps
  BY <1>7, CollStartProps
<1>8. CASE NextProp
  BY <1>8, CollNextProp
<1>9. CASE UNCHANGED collectionVars
  <2>1. UNCHANGED <<written, target, edits, walk, start>>
    BY <1>9 DEF collectionVars
  <2>2. ArrayWalk' /\ PropsWalk' /\ WellMade(target)'
    BY <2>1 DEF CollInv, ArrayWalk, PropsWalk, KeysGiven, WellMade
  <2> QED  BY <2>1, <2>2 DEF CollInv
<1> QED
  BY <1>1, <1>2, <1>3, <1>4, <1>5, <1>6, <1>7, <1>8, <1>9 DEF CollectionsNext

LEMMA CollReachable == CollectionsSpec => []CollInv
BY CollStart, CollStep, PTL DEF CollectionsSpec

-----------------------------------------------------------------------------
(* Collections: what the invariant says.                                   *)

\* CollectionTypes.
LEMMA CollTypes == CollInv => CollectionTypes
<1> SUFFICES ASSUME CollInv PROVE CollectionTypes
  OBVIOUS
<1>1. walk.kind \in {"none", "array", "props"}
  BY DEF CollInv, NoWalk
<1>2. ASSUME walk.kind = "array"
      PROVE  /\ walk.index \in 0..walk.len /\ walk.len \in 0..Len(start[2])
             /\ \A r \in ToSet(walk.front \o walk.back) : IsResult(r[2])
  <2>1. /\ walk.index \in Nat /\ walk.len \in Nat /\ Len(start[2]) \in Nat
        /\ walk.index <= walk.len /\ walk.len <= Len(start[2])
        /\ walk.front \in Seq(Reads) /\ walk.back \in Seq(Reads)
    BY <1>2 DEF CollInv, ArrayWalk
  <2>2. walk.front \o walk.back \in Seq(Reads)
    BY <2>1
  <2>3. \A r \in Reads : IsResult(r[2])
    BY CollectionsAssumption DEF Reads, Results
  <2>4. ToSet(walk.front \o walk.back) \subseteq Reads
    BY <2>2, ElemsTyped
  <2>5. walk.index \in 0..walk.len /\ walk.len \in 0..Len(start[2])
    BY <2>1
  <2> QED  BY <2>3, <2>4, <2>5
<1> QED  BY <1>1, <1>2 DEF CollInv, CollectionTypes

\* InterpretationSound: type_of and the views ask the same questions.
LEMMA ViewsSound ==
  ASSUME NEW v, v[1] \in Tags, NEW view \in Views, InterpretableAs(TypeOf(v), view)
  PROVE  ViewAccepts(view, v)
<1>1. CASE ~ IsObject(v)
  <2>1. TypeOf(v) = v[1] /\ v[1] \notin {"array", "object", "date", "invalid date", "cell"}
    <3> DEFINE ob == IsObject(v)
               ar == Has(v, "array")
               fu == Has(v, "function")
               co == Has(v, "constructor")
               pr == Has(v, "promise")
               er == Has(v, "error")
    <3>1. TypeOf(v) =
            CASE ~ob -> v[1]
              [] ar -> "array"
              [] fu -> IF co THEN "constructor" ELSE "function"
              [] pr /\ ~fu -> "promise"
              [] er /\ ~fu /\ ~pr -> "exception"
              [] OTHER -> "object"
      BY DEF TypeOf
    <3>2. ~ob /\ ~ar /\ ~fu /\ ~pr /\ ~er
      BY <1>1 DEF IsObject, Has
    <3> HIDE DEF ob, ar, fu, co, pr, er
    <3>3. TypeOf(v) = v[1]
      BY <3>1, <3>2
    <3> QED  BY <1>1, <3>3 DEF IsObject
  <2>2. v[1] \in {"undefined", "null", "bool", "int", "float", "big_int", "string",
                 "symbol"}
    BY <2>1 DEF Tags
  <2> HIDE DEF TypeOf
  <2>3. view \in {"string", "symbol", "big_int"} /\ view = v[1]
    BY <2>1, <2>2 DEF InterpretableAs, Views
  <2> QED  BY <2>3 DEF ViewAccepts
<1>2. CASE IsObject(v)
  <2> DEFINE ob == IsObject(v)
             ar == Has(v, "array")
             fu == Has(v, "function")
             co == Has(v, "constructor")
             pr == Has(v, "promise")
             er == Has(v, "error")
  <2>1. TypeOf(v) =
          CASE ~ob -> v[1]
            [] ar -> "array"
            [] fu -> IF co THEN "constructor" ELSE "function"
            [] pr /\ ~fu -> "promise"
            [] er /\ ~fu /\ ~pr -> "exception"
            [] OTHER -> "object"
    BY DEF TypeOf
  <2> HIDE DEF ob, ar, fu, co, pr, er
  <2>2. ob
    BY <1>2 DEF ob
  <2>3. /\ TypeOf(v) = "array" => ar
        /\ TypeOf(v) = "constructor" => co /\ fu
        /\ TypeOf(v) = "function" => fu
        /\ TypeOf(v) = "promise" => pr
        /\ TypeOf(v) = "exception" => er
        /\ TypeOf(v) \in {"array", "constructor", "function", "promise",
                          "exception", "object"}
    BY <2>1, <2>2
  <2>4. \/ view = "object"
        \/ view = TypeOf(v)
        \/ view = "function" /\ TypeOf(v) = "constructor"
    BY <2>3 DEF InterpretableAs, Views
  <2>5. ViewAccepts(view, v) <=>
          CASE view = "object" -> ob
            [] view = "function" -> fu
            [] view = "constructor" -> co
            [] view = "array" -> ar
            [] view = "promise" -> pr
            [] view = "exception" -> er
            [] OTHER -> v[1] = view
    BY DEF ViewAccepts, ob, fu, co, ar, pr, er
  <2> QED  BY <2>2, <2>3, <2>4, <2>5
<1> QED  BY <1>1, <1>2

LEMMA CollViews == CollInv => InterpretationSound
<1> SUFFICES ASSUME CollInv PROVE InterpretationSound
  OBVIOUS
<1>1. target[1] \in Tags
  BY DEF CollInv, WellMade
<1>2. target[1] = "array" => \A v \in ToSet(target[2]) : v[1] \in Tags
  BY ItemTags, ElemsTyped DEF CollInv, WellMade
<1> QED  BY <1>1, <1>2, ViewsSound DEF InterpretationSound

\* WalkComplete: the reads are those from the front and then, backwards, those
\* from the back.
LEMMA CollWalks == CollInv => WalkComplete
<1> SUFFICES ASSUME CollInv, walk.kind = "array"
             PROVE  LET reads == walk.front \o Reverse(walk.back)
                        indices == [i \in DOMAIN reads |-> reads[i][1]]
                        whole == Len(start[2])
                    IN  /\ IsInjective(indices)
                        /\ ToSet(indices) \subseteq 0..(whole - 1)
                        /\ walk.index = walk.len => indices = [i \in 1..whole |-> i - 1]
                        /\ walk.index = walk.len /\ start = target /\ edits = 0 =>
                             SeqFrom(target, LAMBDA v : From(walk.item, v)) =
                               AllOk([i \in DOMAIN reads |-> reads[i][2]])
  BY DEF WalkComplete
<1> DEFINE W == Len(start[2])
           n == walk.index
           l == walk.len
           f == walk.front
           b == walk.back
           c == W - l
           z == n + c
           rb == Reverse(b)
           reads == f \o rb
           indices == [i \in DOMAIN reads |-> reads[i][1]]
           At(i) == IF i <= n THEN i - 1 ELSE (l - n) + (i - 1)
<1>1. /\ start[2] \in Seq(Items) /\ W \in Nat /\ n \in Nat /\ l \in Nat /\ n <= l /\ l <= W
      /\ target[1] = "array"
      /\ Len(f) = n /\ f \in Seq(Reads) /\ b \in Seq(Reads) /\ Len(b) = c
  BY DEF CollInv, ArrayWalk
<1>2. /\ \A i \in 1..n : f[i][1] = i - 1
      /\ \A j \in 1..c : b[j][1] = W - j
      /\ edits = 0 => start = target
      /\ edits = 0 => \A i \in 1..n : f[i][2] = From(walk.item, start[2][i])
      /\ edits = 0 => \A j \in 1..c : b[j][2] = From(walk.item, start[2][(W - j) + 1])
  BY DEF CollInv, ArrayWalk
<1> HIDE DEF W, n, l, f, b
<1>3. c \in Nat /\ z \in Nat
  BY <1>1
<1>4. rb \in Seq(Reads) /\ Len(rb) = c /\ \A j \in 1..c : rb[j] = b[(c - j) + 1]
  <2> HIDE DEF c
  <2>1. rb = [j \in 1..c |-> b[(c - j) + 1]]
    BY <1>1 DEF Reverse
  <2>2. \A j \in 1..c : b[(c - j) + 1] \in Reads
    BY <1>1, <1>3
  <2> HIDE DEF rb
  <2>3. rb \in [1..c -> Reads]
    BY <2>1, <2>2
  <2> QED  BY <1>3, <2>1, <2>3
<1> HIDE DEF rb
<1>5. /\ reads \in Seq(Reads) /\ Len(reads) = z /\ DOMAIN reads = 1..z
      /\ \A i \in 1..n : reads[i] = f[i]
      /\ \A j \in 1..c : reads[n + j] = rb[j]
  <2> HIDE DEF c
  <2>1. reads \in Seq(Reads) /\ Len(reads) = z
    <3>1. f \in Seq(Reads) /\ rb \in Seq(Reads) /\ Len(f) = n /\ Len(rb) = c
      BY <1>1, <1>4
    <3>2. f \o rb \in Seq(Reads) /\ Len(f \o rb) = Len(f) + Len(rb)
      BY <3>1
    <3> QED  BY <3>1, <3>2
  <2>2. /\ \A i \in 1..n : reads[i] = f[i]
        /\ \A j \in 1..c : reads[n + j] = rb[j]
    BY <1>1, <1>3, <1>4
  <2> HIDE DEF reads, z
  <2>3. DOMAIN reads = 1..z
    BY <2>1
  <2> QED  BY <2>1, <2>2, <2>3
<1> HIDE DEF reads
<1>6. ASSUME NEW i \in 1..z
      PROVE  \/ i \in 1..n /\ reads[i] = f[i]
             \/ /\ ~ (i <= n) /\ (c - (i - n)) + 1 \in 1..c
                /\ reads[i] = b[(c - (i - n)) + 1]
  <2>1. CASE i <= n
    <3>1. i \in 1..n
      BY <2>1
    <3> QED  BY <1>5, <3>1
  <2>2. CASE ~ (i <= n)
    <3> DEFINE j == i - n
    <3>1. j \in 1..c /\ n + j = i /\ (c - j) + 1 \in 1..c
      <4> HIDE DEF c
      <4> QED  BY <1>1, <1>3, <2>2
    <3>2. reads[n + j] = rb[j] /\ rb[j] = b[(c - j) + 1]
      <4> HIDE DEF j, c
      <4> QED  BY <1>4, <1>5, <3>1
    <3> QED  BY <2>2, <3>1, <3>2
  <2> QED  BY <2>1, <2>2
<1>7. \A i \in 1..z : reads[i][1] = At(i)
  <2> SUFFICES ASSUME NEW i \in 1..z PROVE reads[i][1] = At(i)
    OBVIOUS
  <2>1. CASE i \in 1..n /\ reads[i] = f[i]
    <3>1. reads[i][1] = i - 1
      BY <1>2, <2>1
    <3> QED  BY <2>1, <3>1
  <2>2. CASE /\ ~ (i <= n) /\ (c - (i - n)) + 1 \in 1..c
             /\ reads[i] = b[(c - (i - n)) + 1]
    <3> DEFINE j == (c - (i - n)) + 1
    <3>1. j \in 1..c /\ reads[i] = b[j]
      BY <2>2
    <3>2. W - j = (l - n) + (i - 1)
      BY <1>1, <1>3
    <3> HIDE DEF j, c
    <3>3. reads[i][1] = W - j
      BY <1>2, <3>1
    <3> QED  BY <2>2, <3>2, <3>3
  <2> QED  BY <1>6, <2>1, <2>2
<1>8. DOMAIN indices = 1..z /\ \A i \in 1..z : indices[i] = At(i)
  BY <1>5, <1>7
<1>9. \A i \in 1..z : At(i) \in 0..(W - 1)
  BY <1>1, <1>3
<1>10. \A i, j \in 1..z : At(i) = At(j) => i = j
  BY <1>1, <1>3
<1>11. IsInjective(indices)
  <2> HIDE DEF indices, At
  <2> QED  BY <1>8, <1>10 DEF IsInjective
<1>12. ToSet(indices) \subseteq 0..(W - 1)
  <2> HIDE DEF indices, At
  <2> QED  BY <1>8, <1>9 DEF ToSet
<1>13. ASSUME n = l PROVE z = W /\ \A i \in 1..z : At(i) = i - 1
  BY <1>1, <1>13
<1>14. n = l => indices = [i \in 1..W |-> i - 1]
  <2>1. indices = [i \in 1..z |-> reads[i][1]]
    BY <1>5
  <2>2. ASSUME n = l PROVE \A i \in 1..z : reads[i][1] = i - 1
    <3> HIDE DEF At
    <3> QED  BY <1>7, <1>13, <2>2
  <2> QED  BY <1>13, <2>1, <2>2
<1>15. ASSUME n = l, edits = 0
       PROVE  SeqFrom(target, LAMBDA v : From(walk.item, v)) =
                AllOk([i \in DOMAIN reads |-> reads[i][2]])
  <2>1. start = target /\ DOMAIN target[2] = 1..W
    <3>1. start = target
      BY <1>2, <1>15
    <3>2. DOMAIN start[2] = 1..W
      BY <1>1 DEF W
    <3> QED  BY <3>1, <3>2
  <2>2. \A i \in 1..z : reads[i][2] = From(walk.item, start[2][i])
    <3> SUFFICES ASSUME NEW i \in 1..z PROVE reads[i][2] = From(walk.item, start[2][i])
      OBVIOUS
    <3>1. CASE i \in 1..n /\ reads[i] = f[i]
      BY <1>2, <1>15, <3>1
    <3>2. CASE /\ ~ (i <= n) /\ (c - (i - n)) + 1 \in 1..c
               /\ reads[i] = b[(c - (i - n)) + 1]
      <4> DEFINE j == (c - (i - n)) + 1
      <4>1. j \in 1..c /\ reads[i] = b[j]
        BY <3>2
      <4>2. (W - j) + 1 = i
        BY <1>1, <1>3, <1>15
      <4> HIDE DEF j, c
      <4>3. reads[i][2] = From(walk.item, start[2][(W - j) + 1])
        BY <1>2, <1>15, <4>1
      <4> QED  BY <4>2, <4>3
    <3> QED  BY <1>6, <3>1, <3>2
  <2>3. z = W
    BY <1>13, <1>15
  <2> HIDE DEF z
  <2>4. [i \in DOMAIN reads |-> reads[i][2]]
          = [i \in DOMAIN target[2] |-> From(walk.item, target[2][i])]
    BY <1>5, <2>1, <2>2, <2>3
  <2>5. SeqFrom(target, LAMBDA v : From(walk.item, v))
          = AllOk([i \in DOMAIN target[2] |-> From(walk.item, target[2][i])])
    BY <1>1 DEF SeqFrom
  <2> QED  BY <2>4, <2>5
<1> QED  BY <1>11, <1>12, <1>14, <1>15 DEF reads, rb, W, n, l, f, b

\* KeysAsTheyWere.
LEMMA CollKeys == CollInv => KeysAsTheyWere
<1> SUFFICES ASSUME CollInv, walk.kind = "props" PROVE KeysAsTheyWere
  BY DEF KeysAsTheyWere
<1> DEFINE O == OwnKeys(start, walk.filter)
           ks == KeysGiven
           f == walk.given
           shown == ks \o walk.keys
<1>1. /\ start[1] = "object" /\ PropsMade(start[2]) /\ walk.filter \in AllFilters
      /\ walk.keys \in Seq(KeysOf(start[2]))
      /\ ks \in Seq(KeysOf(start[2])) /\ shown = O
      /\ edits = 0 => start = target
      /\ edits = 0 => \A i \in DOMAIN f :
           f[i][2] = PairFrom(walk.key, f[i][1],
                              From(walk.item, Property(start, f[i][1])))
  BY DEF CollInv, PropsWalk
<1>2. /\ O \in Seq(KeysOf(start[2])) /\ IsInjective(O)
      /\ ToSet(O) = Asked(start[2], walk.filter)
  BY <1>1, OwnKeysFacts
<1>3. shown = [i \in DOMAIN walk.given |-> walk.given[i][1]] \o walk.keys
  BY DEF KeysGiven
<1>4. ASSUME walk.keys = <<>>, walk.filter = KeysFilter, edits = 0
      PROVE  MapFrom(walk.key, target, LAMBDA v : From(walk.item, v)) =
               Mapped(AllOk([i \in DOMAIN f |-> f[i][2]]), LastOfEach)
  <2>1. ks = O
    <3> HIDE DEF ks, O
    <3> QED  BY <1>1, <1>4
  <2>2. DOMAIN O = DOMAIN f /\ \A i \in DOMAIN f : O[i] = f[i][1]
    <3> HIDE DEF O
    <3> QED  BY <2>1 DEF KeysGiven
  <2>3. O = OwnKeys(target, KeysFilter) /\ IsObject(target) /\ start = target
    BY <1>1, <1>4 DEF IsObject
  <2> DEFINE g == [i \in DOMAIN O |->
                    PairFrom(walk.key, O[i], From(walk.item, Property(target, O[i])))]
  <2>4. [i \in DOMAIN f |-> f[i][2]] = g
    <3> HIDE DEF O
    <3> QED  BY <1>1, <1>4, <2>2, <2>3
  <2>5. MapFrom(walk.key, target, LAMBDA v : From(walk.item, v))
          = Mapped(AllOk(g), LastOfEach)
    BY <2>3 DEF MapFrom
  <2> QED  BY <2>4, <2>5
<1> HIDE DEF O, ks
<1>5. ToSet(shown) = Asked(start[2], walk.filter) /\ IsInjective(shown)
  BY <1>1, <1>2
<1>6. \A i, j \in DOMAIN shown : i < j => Precedes(shown[i], shown[j], start[2])
  <2>1. \A i, j \in DOMAIN O : i < j => Precedes(O[i], O[j], start[2])
    BY <1>1, OwnKeysInOrder DEF O
  <2> HIDE DEF shown
  <2> QED  BY <1>1, <2>1
<1> HIDE DEF shown
<1> QED  BY <1>3, <1>4, <1>5, <1>6 DEF KeysAsTheyWere, Asked

-----------------------------------------------------------------------------
(* Iterables: the bounds of their counters.                                *)

IterBounds ==
  /\ source \in Sources /\ given <= MaxItems /\ calls \in 0..MaxCalls
  /\ ToSet(seen) \subseteq 1..MaxItems
  /\ frames # <<>> => /\ Top.item <= MaxItems
                      /\ Top.stage = "item" => Top.item # 0

LEMMA BoundsInit == IterablesInit => IterBounds
BY BoundsAssumption DEF IterablesInit, IterBounds, ToSet

LEMMA BoundsStep ==
  IterInv /\ IterBounds /\ [IterablesNext]_iterVars => IterBounds'
<1> SUFFICES ASSUME IterInv, IterBounds, [IterablesNext]_iterVars PROVE IterBounds'
  OBVIOUS
<1>0. /\ MaxItems \in Nat /\ MaxCalls \in Nat /\ given \in Nat /\ calls \in 0..MaxCalls
      /\ source \in Sources /\ given <= MaxItems /\ ToSet(seen) \subseteq 1..MaxItems
      /\ seen \in Seq(Nat) /\ frames \in Seq(Frame)
  BY BoundsAssumption DEF IterInv, IterTypes, IterBounds
<1>1. ASSUME NEW by \in Callers, CallNext(by) PROVE IterBounds'
  <2>1. /\ UNCHANGED <<source, given, seen>> /\ calls' \in 0..MaxCalls
    BY <1>0, <1>1 DEF CallNext
  <2>2. CASE Borrowed
    <3>1. UNCHANGED frames
      BY <1>1, <2>2 DEF CallNext
    <3> QED  BY <2>1, <3>1 DEF IterBounds, Top
  <2>3. CASE ~Borrowed
    <3> DEFINE frame == [by |-> by, item |-> 0,
                         stage |-> IF cell = "some" THEN "host" ELSE "end"]
    <3>1. frames = <<>> /\ frames' = Append(frames, frame)
      BY <1>1, <2>3 DEF CallNext, Borrowed
    <3>2. Top' = frame
      BY <3>1 DEF Top
    <3>3. frame.item = 0 /\ frame.stage # "item"
      OBVIOUS
    <3> HIDE DEF frame
    <3> QED  BY <1>0, <2>1, <3>2, <3>3 DEF IterBounds
  <2> QED  BY <2>2, <2>3
<1>2. CASE HostGives
  <2> DEFINE frame == [Top EXCEPT !.stage = "item", !.item = given + 1]
  <2>1. /\ frames # <<>> /\ frames' = SetTop(frame) /\ given' = given + 1
        /\ given < MaxItems /\ UNCHANGED <<source, seen, calls>>
    BY <1>2 DEF HostGives
  <2>2. frame \in Frame /\ frame.item = given + 1
    <3>1. given + 1 \in Nat /\ "item" \in Stages
      BY <1>0 DEF Stages
    <3>2. Top \in Frame
      BY <2>1, OnlyFrame
    <3> QED  BY <3>1, <3>2 DEF Frame
  <2> HIDE DEF frame
  <2>3. Len(frames') = 1 /\ frames'[1] = frame
    BY <2>1, <2>2, OnlyFrame
  <2>4. Top' = frame
    BY <2>3 DEF Top
  <2> QED  BY <1>0, <2>1, <2>2, <2>4 DEF IterBounds
<1>3. CASE HostEnds
  <2> DEFINE frame == [Top EXCEPT !.stage = "end"]
  <2>1. /\ frames # <<>> /\ frames' = SetTop(frame)
        /\ UNCHANGED <<source, given, seen, calls>>
    BY <1>3 DEF HostEnds
  <2>2. frame \in Frame /\ frame.item = Top.item /\ frame.stage = "end"
    BY <2>1, OnlyFrame DEF Frame, Stages
  <2> HIDE DEF frame
  <2>3. Len(frames') = 1 /\ frames'[1] = frame
    BY <2>1, <2>2, OnlyFrame
  <2>4. Top' = frame
    BY <2>3 DEF Top
  <2> QED  BY <1>0, <2>1, <2>2, <2>4 DEF IterBounds
<1>4. CASE Unwind \/ DeliverEnd
  <2>1. frames' = <<>> /\ UNCHANGED <<source, given, seen, calls>>
    BY <1>4, OnlyFrame DEF Unwind, DeliverEnd
  <2> QED  BY <2>1 DEF IterBounds
<1>5. CASE Deliver
  <2>1. /\ frames' = <<>> /\ UNCHANGED <<source, given, calls>>
        /\ seen' = Append(seen, Top.item) /\ frames # <<>> /\ Top.stage = "item"
    BY <1>5, OnlyFrame DEF Deliver
  <2>2. Top.item \in Nat /\ Top.item \in 1..MaxItems
    BY <1>0, <2>1, OnlyFrame DEF IterBounds, Frame
  <2>3. ToSet(seen') = ToSet(seen) \cup {Top.item}
    BY <1>0, <2>1, <2>2, AppendElems
  <2> QED  BY <1>0, <2>1, <2>2, <2>3 DEF IterBounds
<1>6. CASE MakeReader \/ ReadFinished
  BY <1>0, <1>6 DEF IterBounds, Top, MakeReader, ReadFinished
<1>7. CASE ReadForeign
  <2>1. given' \in {given, given + 1} /\ given' <= MaxItems
    BY <1>0, <1>7 DEF ReadForeign
  <2> QED  BY <1>0, <1>7, <2>1 DEF IterBounds, Top, ReadForeign
<1>8. CASE UNCHANGED iterVars
  BY <1>8 DEF IterBounds, Top, iterVars
<1> QED
  BY <1>1, <1>2, <1>3, <1>4, <1>5, <1>6, <1>7, <1>8 DEF IterablesNext

LEMMA BoundsType == IterInv /\ IterBounds => IterableTypes
<1> SUFFICES ASSUME IterInv, IterBounds PROVE IterableTypes
  OBVIOUS
<1>1. frames \in Seq(Frame) /\ Len(frames) <= 1 /\ reader.done \in BOOLEAN
      /\ given \in 0..MaxItems
  BY BoundsAssumption DEF IterInv, IterTypes, OneCall, IterBounds
<1>2. ToSet(frames) \subseteq [by: Callers, item: 0..MaxItems, stage: Stages]
  <2> SUFFICES ASSUME NEW i \in DOMAIN frames
               PROVE  frames[i] \in [by: Callers, item: 0..MaxItems, stage: Stages]
    BY DEF ToSet
  <2>1. i = Len(frames) /\ frames # <<>> /\ frames[i] = Top
    BY <1>1 DEF Top
  <2>2. Top \in Frame /\ Top.item <= MaxItems
    BY <2>1, OnlyFrame DEF IterBounds
  <2> QED  BY <2>1, <2>2, BoundsAssumption DEF Frame
<1> QED  BY <1>1, <1>2 DEF IterableTypes, IterInv, IterTypes, IterBounds

-----------------------------------------------------------------------------
(* The three together.                                                     *)

\* No machine disturbs another: what crosses is, to each of the three, its own
\* behaviour.  So whatever is proved of one holds where they are put together.
THEOREM CrossingParts ==
  CrossingSpec => Spec /\ CollectionsSpec /\ IterablesSpec
<1>1. CrossingInit => Init /\ CollectionsInit /\ IterablesInit
  BY DEF CrossingInit
<1>2. [CrossingNext]_crossingVars =>
        [Next]_vars /\ [CollectionsNext]_collectionVars /\ [IterablesNext]_iterVars
  BY DEF CrossingNext, crossingVars
<1> QED  BY <1>1, <1>2, PTL DEF CrossingSpec, Spec, CollectionsSpec, IterablesSpec

\* The arguments, the numbers, the collections and the iterables are of their types:
\* a cursor stays within the arguments, a walk within the array it started on.
THEOREM CrossingTyped ==
  CrossingSpec => []AllTypesOK
<1>1. IterablesSpec => []IterableTypes
  BY IterInit, IterStep, BoundsInit, BoundsStep, BoundsType, PTL DEF IterablesSpec
<1>2. CollectionsSpec => []CollectionTypes
  BY CollReachable, CollTypes, PTL
<1>3. TypeOK /\ CollectionTypes /\ IterableTypes => AllTypesOK
  BY DEF AllTypesOK
<1> QED  BY <1>1, <1>2, <1>3, CrossingParts, ArgumentsTyped, PTL

\* Array::iter for any items and any edits between two steps of it: no index is
\* read twice, none beyond the length it began with, and all are read in the end.
THEOREM WalksAreWhole ==
  CollectionsSpec => []WalkComplete
BY CollReachable, CollWalks, PTL

\* keys, props and own_props for any object, filter and edits: each key it had is
\* given once, and in order.
THEOREM KeysAreGiven ==
  CollectionsSpec => []KeysAsTheyWere
BY CollReachable, CollKeys, PTL

\* For every value, the typed view of a type that type_of may be interpreted as
\* takes the value.
THEOREM ViewsAgree ==
  CollectionsSpec => []InterpretationSound
BY CollReachable, CollViews, PTL
=============================================================================
