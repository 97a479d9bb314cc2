--------------------------- MODULE LiquidityProofs ---------------------------
(***************************************************************************)
(* Proofs about the liquidity quote, for every table of tick ratios that   *)
(* increases, every scale and every input.                                 *)
(***************************************************************************)
EXTENDS LiquidityQuote, TLAPS

Pos == Nat \ {0}

-----------------------------------------------------------------------------
(* Division rounded down and up.                                           *)

LEMMA DivideDown ==
  ASSUME NEW n \in Nat, NEW d \in Pos
  PROVE  /\ n \div d \in Nat
         /\ n % d \in Nat /\ n % d < d
         /\ n = d * (n \div d) + (n % d)
BY SMTT(30) DEF Pos

(* Products keep the order of their factors. *)
LEMMA TimesOrdered ==
  ASSUME NEW a \in Nat, NEW b \in Nat, NEW c \in Nat, a <= b
  PROVE  a * c <= b * c
BY SMTT(30)

(* Quotients of a strict bound. *)
LEMMA QuotientBound ==
  ASSUME NEW n \in Nat, NEW m \in Nat, NEW d \in Pos, n <= m * d
  PROVE  n \div d <= m
<1> DEFINE q == n \div d
<1>1. q \in Nat /\ d * q <= n
  BY DivideDown DEF Pos
<1>2. CASE q >= m + 1
  <2>1. (m + 1) * d <= q * d
    BY <1>1, <1>2, TimesOrdered DEF Pos
  <2>2. (m + 1) * d = m * d + d /\ q * d = d * q /\ m * d \in Nat /\ d * q \in Nat
    BY <1>1 DEF Pos
  <2> QED
    BY <2>1, <2>2, <1>1 DEF Pos
<1> QED
  BY <1>1, <1>2

LEMMA DivideUpType ==
  ASSUME NEW n \in Nat, NEW d \in Pos
  PROVE  DivideUp(n, d) \in Nat /\ n <= DivideUp(n, d) * d
<1> DEFINE q == n \div d
           r == n % d
<1>1. q \in Nat /\ r \in Nat /\ r < d /\ n = d * q + r
  BY DivideDown
<1>2. d * q = q * d /\ (q + 1) * d = q * d + d /\ q * d \in Nat
  BY <1>1 DEF Pos
<1> QED
  BY <1>1, <1>2 DEF DivideUp, Pos

(* What is divided and rounded up stays within any bound that divides. *)
LEMMA DivideUpBound ==
  ASSUME NEW n \in Nat, NEW m \in Nat, NEW d \in Pos, n <= m * d
  PROVE  DivideUp(n, d) <= m
<1> DEFINE q == n \div d
           r == n % d
<1>1. q \in Nat /\ r \in Nat /\ r < d /\ n = d * q + r
  BY DivideDown
<1>2. q <= m
  BY QuotientBound
<1>3. d * q = q * d /\ m * d \in Nat /\ q * d \in Nat
  BY <1>1 DEF Pos
<1>4. r # 0 => q # m
  BY <1>1, <1>3 DEF Pos
<1> QED
  BY <1>1, <1>2, <1>4 DEF DivideUp

LEMMA DivideUpZero ==
  ASSUME NEW d \in Pos
  PROVE  DivideUp(0, d) = 0
<1>1. DivideUp(0, d) <= 0 /\ DivideUp(0, d) \in Nat
  BY DivideUpBound, DivideUpType DEF Pos
<1> QED
  BY <1>1

LEMMA DivideUpMonotone ==
  ASSUME NEW n \in Nat, NEW k \in Nat, NEW d \in Pos, n <= k
  PROVE  DivideUp(n, d) <= DivideUp(k, d)
<1>1. DivideUp(k, d) \in Nat /\ k <= DivideUp(k, d) * d
  BY DivideUpType
<1>2. DivideUp(k, d) * d \in Nat
  BY <1>1 DEF Pos
<1>3. n <= DivideUp(k, d) * d
  BY <1>1, <1>2
<1> QED
  BY <1>1, <1>3, DivideUpBound

(* A greater divisor gives no more. *)
LEMMA DivideUpAntitone ==
  ASSUME NEW n \in Nat, NEW d \in Pos, NEW e \in Pos, d <= e
  PROVE  DivideUp(n, e) <= DivideUp(n, d)
<1> DEFINE u == DivideUp(n, d)
<1>1. u \in Nat /\ n <= u * d
  BY DivideUpType
<1>2. d * u <= e * u
  BY <1>1, TimesOrdered DEF Pos
<1>3. d * u = u * d /\ e * u = u * e /\ u * d \in Nat /\ u * e \in Nat
  BY <1>1 DEF Pos
<1>4. n <= u * e
  BY <1>1, <1>2, <1>3
<1> QED
  BY <1>1, <1>4, DivideUpBound

-----------------------------------------------------------------------------
(* The amounts of a liquidity and the liquidity of the amounts.            *)

LEMMA Sides ==
  ASSUME NEW a \in Pos, NEW b \in Pos, a <= b
  PROVE  Lesser(a, b) = a /\ Greater(a, b) = b /\ b - a \in Nat
BY DEF Lesser, Greater, Pos

LEMMA Amount0Type ==
  ASSUME NEW a \in Pos, NEW b \in Pos, NEW l \in Nat, a <= b
  PROVE  /\ l * Q * (b - a) \in Nat
         /\ DivideUp(l * Q * (b - a), b) \in Nat
         /\ Amount0Delta(a, b, l) = DivideUp(DivideUp(l * Q * (b - a), b), a)
         /\ Amount0Delta(a, b, l) \in Nat
<1>1. l * Q * (b - a) \in Nat
  BY Sides, SizesAssumption
<1>2. DivideUp(l * Q * (b - a), b) \in Nat
  BY <1>1, DivideUpType
<1>3. DivideUp(DivideUp(l * Q * (b - a), b), a) \in Nat
  BY <1>2, DivideUpType
<1> QED
  BY <1>1, <1>2, <1>3, Sides DEF Amount0Delta

LEMMA Amount1Type ==
  ASSUME NEW a \in Pos, NEW b \in Pos, NEW l \in Nat, a <= b
  PROVE  /\ l * (b - a) \in Nat
         /\ Amount1Delta(a, b, l) = DivideUp(l * (b - a), Q)
         /\ Amount1Delta(a, b, l) \in Nat
<1>1. l * (b - a) \in Nat
  BY Sides
<1>2. DivideUp(l * (b - a), Q) \in Nat
  BY <1>1, DivideUpType, SizesAssumption DEF Pos
<1> QED
  BY <1>1, <1>2, Sides DEF Amount1Delta

LEMMA Liquidity0Type ==
  ASSUME NEW a \in Pos, NEW b \in Pos, NEW x \in Nat, a < b
  PROVE  /\ (a * b) \div Q \in Nat
         /\ LiquidityForAmount0(a, b, x) = (x * ((a * b) \div Q)) \div (b - a)
         /\ LiquidityForAmount0(a, b, x) \in Nat
         /\ LiquidityForAmount0(a, b, x) * (b - a) <= x * ((a * b) \div Q)
<1> DEFINE i == (a * b) \div Q
           d == b - a
           y == (x * i) \div d
<1>0. a <= b
  BY DEF Pos
<1>1. a * b \in Nat /\ Q \in Pos
  BY SizesAssumption DEF Pos
<1>2. i \in Nat
  BY <1>1, DivideDown
<1>3. d \in Pos
  BY DEF Pos
<1>4. x * i \in Nat
  BY <1>2
<1>5. y \in Nat /\ d * y <= x * i
  <2> HIDE DEF i, d
  <2>1. y \in Nat /\ (x * i) % d \in Nat /\ x * i = d * y + ((x * i) % d)
    BY <1>3, <1>4, DivideDown
  <2> HIDE DEF y
  <2>2. d * y \in Nat
    BY <2>1, <1>3 DEF Pos
  <2> QED
    BY <2>1, <2>2
<1>6. LiquidityForAmount0(a, b, x) = y
  BY <1>0, Sides DEF LiquidityForAmount0
<1>7. y * d = d * y
  BY <1>3, <1>5 DEF Pos
<1> QED
  BY <1>2, <1>5, <1>6, <1>7

LEMMA Liquidity1Type ==
  ASSUME NEW a \in Pos, NEW b \in Pos, NEW x \in Nat, a < b
  PROVE  /\ LiquidityForAmount1(a, b, x) \in Nat
         /\ LiquidityForAmount1(a, b, x) * (b - a) <= x * Q
<1> DEFINE d == b - a
           y == (x * Q) \div d
<1>0. a <= b
  BY DEF Pos
<1>1. d \in Pos /\ x * Q \in Nat
  BY SizesAssumption DEF Pos
<1>2. y \in Nat /\ d * y <= x * Q
  <2> HIDE DEF d
  <2>1. y \in Nat /\ (x * Q) % d \in Nat /\ x * Q = d * y + ((x * Q) % d)
    BY <1>1, DivideDown
  <2> HIDE DEF y
  <2>2. d * y \in Nat
    BY <2>1, <1>1 DEF Pos
  <2> QED
    BY <2>1, <2>2
<1>3. LiquidityForAmount1(a, b, x) = y
  BY <1>0, Sides DEF LiquidityForAmount1
<1>4. y * d = d * y
  BY <1>1, <1>2 DEF Pos
<1> QED
  BY <1>2, <1>3, <1>4

(* No liquidity that amount x of token 0 allows needs more than x of it. *)
LEMMA Amount0Fits ==
  ASSUME NEW a \in Pos, NEW b \in Pos, NEW x \in Nat, NEW l \in Nat, a < b,
         l <= LiquidityForAmount0(a, b, x)
  PROVE  Amount0Delta(a, b, l) <= x
<1> DEFINE i == (a * b) \div Q
           d == b - a
           y == LiquidityForAmount0(a, b, x)
<1>0. a <= b
  BY DEF Pos
<1>1. i \in Nat /\ y \in Nat /\ y * d <= x * i
  BY Liquidity0Type
<1>2. d \in Nat /\ Q \in Nat /\ a \in Nat /\ b \in Nat
  BY SizesAssumption DEF Pos
<1>3. l * d <= x * i
  <2>1. l * d <= y * d
    BY <1>1, <1>2, TimesOrdered
  <2> QED
    BY <2>1, <1>1, <1>2
<1>4. i * Q <= a * b
  <2>1. a * b \in Nat /\ Q \in Pos
    BY SizesAssumption DEF Pos
  <2>2. (a * b) % Q \in Nat /\ a * b = Q * i + ((a * b) % Q)
    BY <2>1, DivideDown
  <2>3. Q * i \in Nat /\ Q * i = i * Q
    BY <1>1, <1>2
  <2> QED
    BY <2>1, <2>2, <2>3
<1> HIDE DEF i, d, y
<1>5. (l * d) * Q <= (x * i) * Q
  BY <1>1, <1>2, <1>3, TimesOrdered
<1>6. (i * Q) * x <= (a * b) * x
  BY <1>1, <1>2, <1>4, TimesOrdered
<1>7. (l * d) * Q = l * Q * d /\ (x * i) * Q = (i * Q) * x /\ (a * b) * x = (x * a) * b
  BY <1>1, <1>2
<1>8. l * Q * d \in Nat /\ (i * Q) * x \in Nat /\ (x * a) * b \in Nat /\ x * a \in Nat
  BY <1>1, <1>2
<1>9. l * Q * d <= (x * a) * b
  BY <1>5, <1>6, <1>7, <1>8
<1>10. DivideUp(l * Q * d, b) <= x * a
  BY <1>8, <1>9, DivideUpBound
<1>11. DivideUp(l * Q * d, b) \in Nat
  BY <1>8, DivideUpType
<1>12. DivideUp(DivideUp(l * Q * d, b), a) <= x
  BY <1>10, <1>11, DivideUpBound
<1> QED
  BY <1>0, <1>12, Amount0Type DEF d

LEMMA Amount1Fits ==
  ASSUME NEW a \in Pos, NEW b \in Pos, NEW x \in Nat, NEW l \in Nat, a < b,
         l <= LiquidityForAmount1(a, b, x)
  PROVE  Amount1Delta(a, b, l) <= x
<1> DEFINE d == b - a
           y == LiquidityForAmount1(a, b, x)
<1>0. a <= b
  BY DEF Pos
<1>1. y \in Nat /\ y * d <= x * Q /\ d \in Nat /\ x * Q \in Nat /\ Q \in Pos
  BY Liquidity1Type, SizesAssumption DEF Pos
<1>2. l * d <= y * d
  BY <1>1, TimesOrdered
<1>3. l * d \in Nat /\ y * d \in Nat
  BY <1>1
<1>4. DivideUp(l * d, Q) <= x
  BY <1>1, <1>2, <1>3, DivideUpBound
<1> QED
  BY <1>0, <1>4, Amount1Type

(* A higher price needs less of token 0 and a lower one less of token 1. *)
LEMMA Amount0Antitone ==
  ASSUME NEW a \in Pos, NEW c \in Pos, NEW b \in Pos, NEW l \in Nat, a <= c, c <= b
  PROVE  Amount0Delta(c, b, l) <= Amount0Delta(a, b, l)
<1> DEFINE na == l * Q * (b - a)
           nc == l * Q * (b - c)
           ia == DivideUp(na, b)
           ic == DivideUp(nc, b)
<1>1. a <= b
  BY DEF Pos
<1>2. /\ na \in Nat /\ ia \in Nat /\ Amount0Delta(a, b, l) = DivideUp(ia, a)
      /\ nc \in Nat /\ ic \in Nat /\ Amount0Delta(c, b, l) = DivideUp(ic, c)
  BY <1>1, Amount0Type
<1>3. nc <= na
  <2>1. l * Q \in Nat /\ b - c \in Nat /\ b - a \in Nat /\ b - c <= b - a
    BY SizesAssumption DEF Pos
  <2>2. (b - c) * (l * Q) <= (b - a) * (l * Q)
    BY <2>1, TimesOrdered
  <2> QED
    BY <2>1, <2>2
<1> HIDE DEF na, nc
<1>4. ic <= ia
  BY <1>2, <1>3, DivideUpMonotone
<1> HIDE DEF ia, ic
<1>5. DivideUp(ic, c) <= DivideUp(ia, c) /\ DivideUp(ia, c) <= DivideUp(ia, a)
  BY <1>2, <1>4, DivideUpMonotone, DivideUpAntitone
<1>6. DivideUp(ic, c) \in Nat /\ DivideUp(ia, c) \in Nat /\ DivideUp(ia, a) \in Nat
  BY <1>2, DivideUpType
<1> QED
  BY <1>2, <1>5, <1>6

LEMMA Amount1Monotone ==
  ASSUME NEW a \in Pos, NEW c \in Pos, NEW b \in Pos, NEW l \in Nat, a <= c, c <= b
  PROVE  Amount1Delta(a, c, l) <= Amount1Delta(a, b, l)
<1>1. a <= b
  BY DEF Pos
<1>2. /\ l * (c - a) \in Nat /\ Amount1Delta(a, c, l) = DivideUp(l * (c - a), Q)
      /\ l * (b - a) \in Nat /\ Amount1Delta(a, b, l) = DivideUp(l * (b - a), Q)
  BY <1>1, Amount1Type
<1>3. l * (c - a) <= l * (b - a)
  <2>1. c - a \in Nat /\ b - a \in Nat /\ c - a <= b - a
    BY DEF Pos
  <2>2. (c - a) * l <= (b - a) * l
    BY <2>1, TimesOrdered
  <2> QED
    BY <2>1, <2>2
<1> QED
  BY <1>2, <1>3, DivideUpMonotone, SizesAssumption DEF Pos

-----------------------------------------------------------------------------
(* The square root: what was tried never falls below the root, and what is *)
(* left when no candidate is better is the root.                           *)

RootType == [value : Nat, result : Nat, candidate : Nat]

Following(r) == (r.value \div r.result + r.result) \div 2

(* Only a number of at least four enters the loop, and leaves it improved. *)
Converging(r) ==
  /\ \A n \in Nat : n * n <= r.value => n <= r.result /\ n <= r.candidate
  /\ r.value <= 3 => r.result = IF r.value = 0 THEN 0 ELSE 1
  /\ r.value > 3 => Improves(r) \/ r.candidate = Following(r)

LEMMA QuotientLeast ==
  ASSUME NEW n \in Nat, NEW m \in Nat, NEW d \in Pos, m * d <= n
  PROVE  m <= n \div d
<1> DEFINE q == n \div d
<1>1. q \in Nat /\ n % d \in Nat /\ n % d < d /\ n = d * q + (n % d)
  BY DivideDown
<1> HIDE DEF q
<1>2. CASE q + 1 <= m
  <2>1. (q + 1) * d <= m * d
    BY <1>1, <1>2, TimesOrdered DEF Pos
  <2>2. (q + 1) * d = d * q + d /\ d * q \in Nat /\ m * d \in Nat
    BY <1>1 DEF Pos
  <2> QED
    BY <2>1, <2>2, <1>1 DEF Pos
<1>3. q + 1 <= m \/ m <= q
  BY <1>1
<1> QED
  BY <1>2, <1>3 DEF q

(* The product of two numbers is at most the square of half their sum. *)
LEMMA Means ==
  ASSUME NEW m \in Nat, NEW c \in Nat, NEW n \in Nat, m + c <= 2 * n
  PROVE  m * c <= n * n
<1>1. CASE m <= n
  <2>1. PICK e \in Nat : m = n - e
    BY <1>1
  <2>2. c <= n + e
    BY <2>1
  <2>3. c * m <= (n + e) * m
    BY <2>1, <2>2, TimesOrdered
  <2>4. (n + e) * m = n * n - e * e /\ e * e \in Nat
    BY <2>1
  <2> QED
    BY <2>3, <2>4
<1>2. CASE n <= m
  <2>1. PICK e \in Nat : m = n + e
    BY <1>2
  <2>2. c <= n - e /\ n - e \in Nat
    BY <2>1
  <2>3. c * m <= (n - e) * m
    BY <2>1, <2>2, TimesOrdered
  <2>4. (n - e) * m = n * n - e * e /\ e * e \in Nat
    BY <2>1
  <2> QED
    BY <2>3, <2>4
<1> QED
  BY <1>1, <1>2

LEMMA NewtonStep ==
  ASSUME NEW v \in Nat, NEW c \in Pos, NEW n \in Nat, n * n <= v
  PROVE  (v \div c + c) \div 2 \in Nat /\ n <= (v \div c + c) \div 2
<1> DEFINE q == v \div c
<1>1. q \in Nat /\ v % c \in Nat /\ v % c < c /\ v = c * q + (v % c)
  BY DivideDown
<1> HIDE DEF q
<1>2. c \in Nat
  BY DEF Pos
<1>3. CASE (q + 1) + c <= 2 * n
  <2>1. (q + 1) * c <= n * n
    BY <1>1, <1>2, <1>3, Means
  <2>2. (q + 1) * c = c * q + c /\ c * q \in Nat /\ n * n \in Nat
    BY <1>1, <1>2
  <2> QED
    BY <2>1, <2>2, <1>1, <1>2
<1>4. 2 * n <= q + c => n <= (q + c) \div 2
  BY <1>1, <1>2
<1>5. (q + c) \div 2 \in Nat
  BY <1>1, <1>2
<1> QED
  BY <1>1, <1>2, <1>3, <1>4, <1>5 DEF q

LEMMA NewtonBegins ==
  ASSUME NEW v \in Nat
  PROVE  Newton(v) \in RootType /\ Newton(v).value = v /\ Converging(Newton(v))
<1> DEFINE r == Newton(v)
<1>1. r \in RootType /\ r.value = v
  BY DEF Newton, RootType
<1>2. ASSUME NEW n \in Nat, n * n <= v PROVE n <= r.result /\ n <= r.candidate
  <2>1. n <= n * n
    <3>1. CASE n = 0
      BY <3>1
    <3>2. CASE 1 <= n
      BY <3>2, TimesOrdered
    <3> QED
      BY <3>1, <3>2
  <2>2. n <= v
    BY <1>2, <2>1
  <2>3. 2 <= n => 2 * n <= n * n
    BY TimesOrdered
  <2>4. v <= 3 /\ v # 0 => n <= 1
    BY <1>2, <2>3
  <2>5. n <= v \div 2 + 1
    BY <1>2, <2>2, <2>3
  <2> QED
    BY <2>2, <2>4, <2>5 DEF Newton
<1>3. v > 3 => Improves(r)
  BY DEF Newton, Improves
<1> QED
  BY <1>1, <1>2, <1>3 DEF Converging, Newton

LEMMA NewtonContinues ==
  ASSUME NEW r \in RootType, Converging(r), Improves(r),
         NEW s, s = [r EXCEPT !.result = r.candidate,
                              !.candidate = (r.value \div r.candidate + r.candidate) \div 2]
  PROVE  s \in RootType /\ s.value = r.value /\ Converging(s)
<1>1. r.value \in Nat /\ r.candidate \in Nat /\ r.value > 3
  BY DEF RootType, Improves
<1>2. r.candidate \in Pos
  <2>1. 1 * 1 <= r.value => 1 <= r.candidate
    BY DEF Converging
  <2> QED
    BY <2>1, <1>1 DEF Pos
<1>3. /\ s.value = r.value /\ s.result = r.candidate
      /\ s.candidate = (r.value \div r.candidate + r.candidate) \div 2
  BY DEF RootType
<1>4. s.candidate \in Nat
  <2>1. 0 * 0 <= r.value
    BY <1>1
  <2> QED
    BY <1>1, <1>2, <1>3, <2>1, NewtonStep
<1>5. s \in RootType
  BY <1>1, <1>3, <1>4 DEF RootType
<1>6. ASSUME NEW n \in Nat, n * n <= s.value PROVE n <= s.result /\ n <= s.candidate
  BY <1>1, <1>2, <1>3, <1>6, NewtonStep DEF Converging
<1>7. s.candidate = Following(s)
  BY <1>3 DEF Following
<1> QED
  BY <1>1, <1>3, <1>5, <1>6, <1>7 DEF Converging

(* The root of no more than a square is no more than its side ... *)
LEMMA RootBelow ==
  ASSUME NEW r \in RootType, Converging(r), ~Improves(r), NEW p \in Pos, r.value <= p * p
  PROVE  r.result <= p
<1>1. r.value \in Nat /\ r.result \in Nat /\ r.candidate \in Nat /\ p \in Nat /\ p >= 1
  BY DEF RootType, Pos
<1>2. CASE r.value <= 3
  BY <1>1, <1>2 DEF Converging
<1>3. CASE r.value > 3
  <2> DEFINE w == r.result
             q == r.value \div w
  <2>1. w \in Pos
    <3>1. 1 * 1 <= r.value => 1 <= r.result
      BY DEF Converging
    <3> QED
      BY <3>1, <1>1, <1>3 DEF Pos
  <2>2. q \in Nat /\ r.value % w \in Nat /\ r.value = w * q + (r.value % w)
    BY <1>1, <2>1, DivideDown
  <2>3. w <= (q + w) \div 2
    BY <1>1, <1>3 DEF Converging, Improves, Following
  <2> HIDE DEF q
  <2>4. w <= q
    BY <1>1, <2>2, <2>3
  <2> HIDE DEF w
  <2>5. w * w <= q * w /\ q * w = w * q /\ w * q \in Nat /\ w * w \in Nat
    BY <2>1, <2>2, <2>4, TimesOrdered DEF Pos
  <2>6. w * w <= p * p
    BY <1>1, <2>2, <2>5
  <2>7. CASE p + 1 <= w
    <3>1. (p + 1) * (p + 1) <= w * (p + 1) /\ (p + 1) * w <= w * w
      BY <1>1, <2>1, <2>7, TimesOrdered DEF Pos
    <3>2. (p + 1) * (p + 1) = p * p + 2 * p + 1 /\ w * (p + 1) = (p + 1) * w
      BY <1>1, <2>1 DEF Pos
    <3>3. p * p \in Nat /\ (p + 1) * w \in Nat
      BY <1>1, <2>1 DEF Pos
    <3> QED
      BY <1>1, <2>5, <2>6, <3>1, <3>2, <3>3
  <2> QED
    BY <1>1, <2>1, <2>7 DEF Pos, w
<1> QED
  BY <1>1, <1>2, <1>3

(* ... and the root of no less than a square no less than it. *)
LEMMA RootAbove ==
  ASSUME NEW r \in RootType, Converging(r), NEW p \in Pos, p * p <= r.value
  PROVE  p <= r.result
BY DEF Converging, Pos

-----------------------------------------------------------------------------
(* The position of the price, by tick and by ratio.                        *)

LEMMA LeastOf ==
  ASSUME NEW S, NEW x \in Nat, NEW y \in Nat, S = {x} \/ S = {x, y}
  PROVE  Least(S) \in S /\ \A n \in S : Least(S) <= n
<1>1. \E m \in S : \A n \in S : m <= n
  <2>1. CASE x <= y
    BY <2>1
  <2>2. CASE y <= x
    BY <2>2
  <2> QED
    BY <2>1, <2>2
<1> QED
  BY <1>1 DEF Least

LEMMA RatioOrder ==
  ASSUME NEW t \in Ticks, NEW u \in Ticks
  PROVE  /\ Ratio[t] \in Pos
         /\ t < u => Ratio[t] < Ratio[u]
         /\ t <= u => Ratio[t] <= Ratio[u]
<1>1. t \in Int /\ u \in Int
  BY TicksAssumption DEF Ticks
<1>2. Ratio[t] \in Pos /\ Ratio[u] \in Pos /\ (t < u => Ratio[t] < Ratio[u])
  BY RatioAssumption DEF Pos
<1>3. t <= u => t < u \/ t = u
  BY <1>1
<1> QED
  BY <1>2, <1>3 DEF Pos

LEMMA Located ==
  ASSUME NEW in \in Inputs, Admissible(in)
  PROVE  /\ in.price \in Pos /\ in.amount0 \in Nat /\ in.amount1 \in Nat
         /\ Ratio[in.lower] \in Pos /\ Ratio[in.upper] \in Pos
         /\ Ratio[in.lower] < Ratio[in.upper]
         /\ in.tick < in.lower => in.price < Ratio[in.lower]
         /\ in.tick >= in.lower => in.price >= Ratio[in.lower]
         /\ in.tick < in.upper => in.price < Ratio[in.upper]
         /\ in.tick >= in.upper => in.price >= Ratio[in.upper]
<1>1. /\ in.price \in Nat /\ in.amount0 \in Nat /\ in.amount1 \in Nat
      /\ in.lower \in Ticks /\ in.upper \in Ticks /\ in.tick \in MinTick..(MaxTick - 1)
  BY SizesAssumption DEF Inputs
<1>2. /\ in.lower \in Int /\ in.upper \in Int /\ in.tick \in Int
      /\ in.tick \in Ticks /\ in.tick + 1 \in Ticks
  BY <1>1, TicksAssumption DEF Ticks
<1>3. Ratio[in.tick] \in Pos /\ Ratio[in.tick + 1] \in Pos
  BY <1>2, RatioOrder
<1>4. /\ in.lower < in.upper
      /\ Ratio[in.tick] <= in.price /\ in.price < Ratio[in.tick + 1]
  BY DEF Admissible
<1>5. ASSUME NEW u \in Ticks
      PROVE  /\ Ratio[u] \in Pos
             /\ in.tick < u => in.price < Ratio[u]
             /\ in.tick >= u => in.price >= Ratio[u]
  <2>1. in.tick < u => in.tick + 1 <= u
    BY <1>2, TicksAssumption DEF Ticks
  <2>2. Ratio[u] \in Pos /\ (in.tick + 1 <= u => Ratio[in.tick + 1] <= Ratio[u])
    BY <1>2, RatioOrder
  <2>3. u <= in.tick => Ratio[u] <= Ratio[in.tick]
    BY <1>2, RatioOrder
  <2> QED
    BY <1>1, <1>2, <1>3, <1>4, <2>1, <2>2, <2>3, TicksAssumption DEF Pos, Ticks
<1>6. Ratio[in.lower] < Ratio[in.upper]
  BY <1>1, <1>4, RatioOrder
<1> QED
  BY <1>1, <1>3, <1>4, <1>5, <1>6 DEF Pos

(* At an admissible input the amounts by tick are those by price. *)
LEMMA TickIsPrice ==
  ASSUME NEW in \in Inputs, Admissible(in), NEW l \in Nat
  PROVE  AmountsAtTick(in, l) = AmountsAtPrice(in.price, Ratio[in.lower], Ratio[in.upper], l)
<1> DEFINE lo == Ratio[in.lower]
           hi == Ratio[in.upper]
<1>1. /\ in.price \in Pos /\ lo \in Pos /\ hi \in Pos /\ lo < hi
      /\ in.tick \in Int /\ in.lower \in Int /\ in.upper \in Int
      /\ in.lower < in.upper
  BY Located, TicksAssumption DEF Inputs, Ticks, Admissible
<1>2. CASE in.tick < in.lower
  BY <1>1, <1>2, Located DEF AmountsAtTick, AmountsAtPrice, Pos
<1>3. CASE in.tick >= in.upper
  BY <1>1, <1>3, Located DEF AmountsAtTick, AmountsAtPrice, Pos
<1>4. CASE in.tick >= in.lower /\ in.tick < in.upper
  <2>1. lo <= in.price /\ in.price < hi
    BY <1>4, Located DEF Pos
  <2>2. AmountsAtTick(in, l) = <<Amount0Delta(in.price, hi, l), Amount1Delta(lo, in.price, l)>>
    BY <1>1, <1>4 DEF AmountsAtTick
  <2>3. CASE lo < in.price
    BY <1>1, <2>1, <2>2, <2>3 DEF AmountsAtPrice, Pos
  <2>4. CASE lo = in.price
    <3>1. lo <= lo /\ l * (lo - lo) = 0
      BY <1>1 DEF Pos
    <3>2. Amount1Delta(lo, lo, l) = 0
      BY <1>1, <3>1, Amount1Type, DivideUpZero, SizesAssumption DEF Pos
    <3> QED
      BY <1>1, <2>1, <2>2, <2>4, <3>2 DEF AmountsAtPrice, Pos
  <2> QED
    BY <1>1, <2>1, <2>3, <2>4 DEF Pos
<1> QED
  BY <1>1, <1>2, <1>3, <1>4

(* As the price rises the position holds less of token 0, more of token 1. *)
LEMMA PricesMonotone ==
  ASSUME NEW p \in Pos, NEW c \in Pos, NEW lo \in Pos, NEW hi \in Pos, NEW l \in Nat,
         lo < hi, p <= c
  PROVE  /\ AmountsAtPrice(p, lo, hi, l) \in Nat \X Nat
         /\ AmountsAtPrice(c, lo, hi, l)[1] <= AmountsAtPrice(p, lo, hi, l)[1]
         /\ AmountsAtPrice(p, lo, hi, l)[2] <= AmountsAtPrice(c, lo, hi, l)[2]
<1> DEFINE A(x) == AmountsAtPrice(x, lo, hi, l)
           side(x) == IF x <= lo THEN lo ELSE IF x < hi THEN x ELSE hi
<1>1. ASSUME NEW x \in Pos
      PROVE  /\ side(x) \in Pos /\ lo <= side(x) /\ side(x) <= hi
             /\ A(x)[1] = Amount0Delta(side(x), hi, l) /\ A(x)[2] = Amount1Delta(lo, side(x), l)
             /\ A(x) \in Nat \X Nat
  <2>1. side(x) \in Pos /\ lo <= side(x) /\ side(x) <= hi
    BY <1>1 DEF Pos
  <2>2. lo <= lo /\ hi <= hi /\ lo <= hi /\ l * (lo - lo) = 0 /\ l * Q * (hi - hi) = 0
    BY SizesAssumption DEF Pos
  <2>3. Amount1Delta(lo, lo, l) = 0
    BY <2>2, Amount1Type, DivideUpZero, SizesAssumption DEF Pos
  <2>4. Amount0Delta(hi, hi, l) = 0
    BY <2>2, Amount0Type, DivideUpZero
  <2>5. Amount0Delta(side(x), hi, l) \in Nat /\ Amount1Delta(lo, side(x), l) \in Nat
    BY <2>1, Amount0Type, Amount1Type
  <2>6. A(x) = <<Amount0Delta(side(x), hi, l), Amount1Delta(lo, side(x), l)>>
    BY <2>3, <2>4 DEF AmountsAtPrice
  <2> QED
    BY <2>1, <2>5, <2>6
<1>2. side(p) <= side(c)
  BY DEF Pos
<1>3. Amount0Delta(side(c), hi, l) <= Amount0Delta(side(p), hi, l)
  BY <1>1, <1>2, Amount0Antitone
<1>4. Amount1Delta(lo, side(p), l) <= Amount1Delta(lo, side(c), l)
  BY <1>1, <1>2, Amount1Monotone
<1> QED
  BY <1>1, <1>3, <1>4

(* The liquidity of the capital asks for no more than the capital. *)
LEMMA CapitalSuffices ==
  ASSUME NEW in \in Inputs, Admissible(in)
  PROVE  /\ Least(OfCapital(in)) \in Nat
         /\ AmountsAtTick(in, Least(OfCapital(in))) \in Nat \X Nat
         /\ ~Exceeds(AmountsAtTick(in, Least(OfCapital(in))), <<in.amount0, in.amount1>>)
<1> DEFINE p == in.price
           lo == Ratio[in.lower]
           hi == Ratio[in.upper]
           x == in.amount0
           y == in.amount1
           S == OfCapital(in)
           l == Least(S)
           A == AmountsAtPrice(p, lo, hi, l)
<1>1. /\ p \in Pos /\ lo \in Pos /\ hi \in Pos /\ lo < hi /\ x \in Nat /\ y \in Nat
  BY Located
<1>2. S = Candidates(p, lo, hi, <<x, y>>)
  BY DEF OfCapital
<1> HIDE DEF p, lo, hi, x, y, S, l
<1>3. ASSUME p <= lo PROVE l \in Nat /\ A[1] <= x /\ A[2] <= y
  <2>1. S = {LiquidityForAmount0(lo, hi, x)}
    BY <1>2, <1>3 DEF Candidates
  <2>2. LiquidityForAmount0(lo, hi, x) \in Nat
    BY <1>1, Liquidity0Type
  <2>3. l = LiquidityForAmount0(lo, hi, x)
    BY <2>1, <2>2, LeastOf DEF l
  <2>4. Amount0Delta(lo, hi, l) <= x
    BY <1>1, <2>2, <2>3, Amount0Fits
  <2>5. A = <<Amount0Delta(lo, hi, l), 0>>
    BY <1>3 DEF AmountsAtPrice
  <2> QED
    BY <1>1, <2>2, <2>3, <2>4, <2>5
<1>4. ASSUME p >= hi PROVE l \in Nat /\ A[1] <= x /\ A[2] <= y
  <2>1. S = {LiquidityForAmount1(lo, hi, y)}
    BY <1>1, <1>2, <1>4 DEF Candidates, Pos
  <2>2. LiquidityForAmount1(lo, hi, y) \in Nat
    BY <1>1, Liquidity1Type
  <2>3. l = LiquidityForAmount1(lo, hi, y)
    BY <2>1, <2>2, LeastOf DEF l
  <2>4. Amount1Delta(lo, hi, l) <= y
    BY <1>1, <2>2, <2>3, Amount1Fits
  <2>5. A = <<0, Amount1Delta(lo, hi, l)>>
    BY <1>1, <1>4 DEF AmountsAtPrice, Pos
  <2> QED
    BY <1>1, <2>2, <2>3, <2>4, <2>5
<1>5. ASSUME lo < p /\ p < hi PROVE l \in Nat /\ A[1] <= x /\ A[2] <= y
  <2> DEFINE l0 == LiquidityForAmount0(p, hi, x)
             l1 == LiquidityForAmount1(lo, p, y)
  <2>1. S = {l0, l1}
    BY <1>1, <1>2, <1>5 DEF Candidates, Pos
  <2>2. l0 \in Nat /\ l1 \in Nat
    BY <1>1, <1>5, Liquidity0Type, Liquidity1Type
  <2>3. l \in Nat /\ l <= l0 /\ l <= l1
    <3> HIDE DEF l0, l1
    <3> QED
      BY <2>1, <2>2, LeastOf DEF l
  <2>4. Amount0Delta(p, hi, l) <= x /\ Amount1Delta(lo, p, l) <= y
    BY <1>1, <1>5, <2>3, Amount0Fits, Amount1Fits
  <2>5. A = <<Amount0Delta(p, hi, l), Amount1Delta(lo, p, l)>>
    BY <1>1, <1>5 DEF AmountsAtPrice, Pos
  <2> QED
    BY <1>1, <2>3, <2>4, <2>5
<1>6. /\ l \in Nat /\ A[1] <= x /\ A[2] <= y
  BY <1>1, <1>3, <1>4, <1>5 DEF Pos
<1>7. A \in Nat \X Nat
  <2>1. p <= p
    BY <1>1 DEF Pos
  <2> QED
    BY <1>1, <1>6, <2>1, PricesMonotone
<1>8. AmountsAtTick(in, l) = A
  BY <1>6, TickIsPrice DEF p, lo, hi
<1> QED
  BY <1>1, <1>6, <1>7, <1>8 DEF Exceeds, l, S, x, y

(* Prices on their sides of the observed one ask for no more than it does. *)
LEMMA MinimaFit ==
  ASSUME NEW in \in Inputs, Admissible(in), NEW l \in Nat, NEW c \in Pos, NEW f \in Pos,
         in.price <= c, f <= in.price \/ f <= Ratio[in.lower]
  PROVE  ~Exceeds(<<AmountsAtPrice(c, Ratio[in.lower], Ratio[in.upper], l)[1],
                    AmountsAtPrice(f, Ratio[in.lower], Ratio[in.upper], l)[2]>>,
                  AmountsAtTick(in, l))
<1> DEFINE lo == Ratio[in.lower]
           hi == Ratio[in.upper]
           A(x) == AmountsAtPrice(x, lo, hi, l)
<1>1. in.price \in Pos /\ lo \in Pos /\ hi \in Pos /\ lo < hi
  BY Located
<1>2. /\ A(in.price) \in Nat \X Nat /\ A(c) \in Nat \X Nat /\ A(f) \in Nat \X Nat
      /\ A(c)[1] <= A(in.price)[1]
  <2>1. \A x \in Pos : x <= x
    BY DEF Pos
  <2> HIDE DEF lo, hi
  <2> QED
    BY <1>1, <2>1, PricesMonotone
<1>3. A(f)[2] <= A(in.price)[2]
  <2>1. CASE f <= in.price
    BY <1>1, <2>1, PricesMonotone
  <2>2. CASE f <= lo
    <3>1. A(f)[2] = 0
      BY <2>2 DEF AmountsAtPrice
    <3> QED
      BY <1>2, <3>1
  <2> QED
    BY <2>1, <2>2
<1>4. AmountsAtTick(in, l) = A(in.price)
  BY TickIsPrice
<1> HIDE DEF A
<1>5. ~Exceeds(<<A(c)[1], A(f)[2]>>, A(in.price))
  BY <1>2, <1>3 DEF Exceeds
<1> QED
  BY <1>4, <1>5 DEF A

LEMMA SquaredSides ==
  ASSUME input \in Inputs, Admissible(input)
  PROVE  /\ Squared(-1) \in Nat /\ Squared(-1) <= input.price * input.price
         /\ Squared(1) \in Nat /\ input.price * input.price <= Squared(1)
<1> DEFINE p == input.price
           s == input.slippage
           pp == p * p
<1>1. pp \in Nat /\ Basis \in Pos /\ s \in 0..Basis
  BY Located, SizesAssumption DEF Pos, Inputs
<1> HIDE DEF s, pp
<1>2. Basis - s \in Nat /\ Basis + s \in Nat /\ Basis \in Nat
  BY <1>1 DEF Pos
<1>3. (Basis - s) * pp <= Basis * pp /\ Basis * pp <= (Basis + s) * pp
  <2>1. Basis - s <= Basis /\ Basis <= Basis + s
    BY <1>1, <1>2 DEF Pos
  <2> QED
    BY <1>1, <1>2, <2>1, TimesOrdered
<1>4. /\ pp * (Basis - s) = (Basis - s) * pp /\ pp * Basis = Basis * pp
      /\ pp * (Basis + s) = (Basis + s) * pp
      /\ pp * (Basis - s) \in Nat /\ pp * (Basis + s) \in Nat
  BY <1>1, <1>2
<1>5. (pp * (Basis - s)) \div Basis <= pp /\ (pp * (Basis - s)) \div Basis \in Nat
  BY <1>1, <1>3, <1>4, QuotientBound, DivideDown
<1>6. pp <= (pp * (Basis + s)) \div Basis /\ (pp * (Basis + s)) \div Basis \in Nat
  BY <1>1, <1>3, <1>4, QuotientLeast, DivideDown
<1>7. Basis + (-1) * s = Basis - s /\ Basis + 1 * s = Basis + s
  BY <1>1, <1>2
<1>8. /\ Squared(-1) = (pp * (Basis - s)) \div Basis
      /\ Squared(1) = (pp * (Basis + s)) \div Basis
  BY <1>7 DEF Squared, pp, s
<1> QED
  BY <1>5, <1>6, <1>8 DEF pp

-----------------------------------------------------------------------------
(* The invariant: what each stage of the calculation knows.                *)

Known ==
  /\ input \in Inputs /\ liquidity \in Nat /\ root \in RootType
  /\ stage \notin {"received", "blocked"} => Admissible(input)
  /\ stage = "measured" => liquidity = Least(OfCapital(input))
  /\ stage \in {"rounded", "below", "above"} => maxima = AmountsAtTick(input, liquidity)

Rooted ==
  /\ stage \in {"below", "above"} => Converging(root)
  /\ stage = "below" => root.value = Squared(-1)
  /\ stage = "above" => root.value = Squared(1)

Floored ==
  stage = "above" =>
    /\ floor \in Pos
    /\ floor <= input.price \/ (floor = MinRatio + 1 /\ input.price = MinRatio)

LInv == Known /\ Rooted /\ Floored /\ ArithmeticHolds

LEMMA LInit == Init => LInv
BY DEF Init, LInv, Known, Rooted, Floored, ArithmeticHolds, RootType

LEMMA BlockKeeps ==
  ASSUME LInv, NEW code, Block(code), code # "ARITHMETIC_INVARIANT_VIOLATION"
  PROVE  LInv'
BY DEF LInv, Known, Rooted, Floored, ArithmeticHolds, Block

LEMMA ValidateKeeps == LInv /\ Validate => LInv'
<1> SUFFICES ASSUME LInv, Validate PROVE LInv'
  OBVIOUS
<1>1. CASE Block("INPUT_INVALID")
  BY <1>1, BlockKeeps
<1>2. CASE Admissible(input) /\ stage' = "admitted" /\
           UNCHANGED <<input, liquidity, maxima, root, floor, minima, issue>>
  BY <1>2 DEF LInv, Known, Rooted, Floored, ArithmeticHolds, Admissible, AtTheEdge
<1> QED
  BY <1>1, <1>2 DEF Validate

LEMMA MeasureKeeps == LInv /\ Measure => LInv'
<1> SUFFICES ASSUME LInv, Measure PROVE LInv'
  OBVIOUS
<1>1. CASE Block("ZERO_LIQUIDITY") \/ Block("LIQUIDITY_EXCEEDS_UINT128")
  BY <1>1, BlockKeeps
<1>2. CASE /\ liquidity' = Least(OfCapital(input)) /\ stage' = "measured"
           /\ UNCHANGED <<input, maxima, root, floor, minima, issue>>
  <2>1. input \in Inputs /\ Admissible(input)
    BY DEF LInv, Known, Measure
  <2>2. liquidity' \in Nat
    BY <1>2, <2>1, CapitalSuffices
  <2> QED
    BY <1>2, <2>1, <2>2
    DEF LInv, Known, Rooted, Floored, ArithmeticHolds, Admissible, AtTheEdge, OfCapital
<1> QED
  BY <1>1, <1>2 DEF Measure

LEMMA RoundUpKeeps == LInv /\ RoundUp => LInv'
<1> SUFFICES ASSUME LInv, RoundUp PROVE LInv'
  OBVIOUS
<1>1. input \in Inputs /\ Admissible(input) /\ liquidity = Least(OfCapital(input))
  BY DEF LInv, Known, RoundUp
<1>2. ~Exceeds(maxima', <<input.amount0, input.amount1>>)
  BY <1>1, CapitalSuffices DEF RoundUp
<1>3. stage' = "rounded" /\ issue' = "none"
  BY <1>2 DEF RoundUp, Expect
<1> QED
  BY <1>1, <1>3
  DEF LInv, Known, Rooted, Floored, ArithmeticHolds, RoundUp, Admissible, AmountsAtTick

LEMMA RemeasureKeeps == LInv /\ Remeasure => LInv'
<1> SUFFICES ASSUME LInv, Remeasure PROVE LInv'
  OBVIOUS
<1>1. CASE \/ Block("CALLDATA_LIQUIDITY_CANDIDATE_EXCEEDS_UINT128")
           \/ Block("CALLDATA_ZERO_LIQUIDITY") \/ Block("CALLDATA_LIQUIDITY_DRIFT")
  BY <1>1, BlockKeeps
<1>2. CASE /\ stage' = "below" /\ root' = Newton(Squared(-1))
           /\ UNCHANGED <<input, liquidity, maxima, floor, minima, issue>>
  <2>1. /\ input \in Inputs /\ Admissible(input) /\ maxima = AmountsAtTick(input, liquidity)
    BY DEF LInv, Known, Remeasure
  <2>2. root' \in RootType /\ root'.value = Squared(-1) /\ Converging(root')
    BY <1>2, <2>1, SquaredSides, NewtonBegins
  <2>3. Converging(root)' /\ Squared(-1)' = Squared(-1)
    BY <1>2, <2>2 DEF Converging, Improves, Following, Squared
  <2> QED
    BY <1>2, <2>1, <2>2, <2>3
    DEF LInv, Known, Rooted, Floored, ArithmeticHolds, AtTheEdge, Admissible, AmountsAtTick
<1> QED
  BY <1>1, <1>2 DEF Remeasure

LEMMA RefineKeeps == LInv /\ Refine => LInv'
<1> SUFFICES ASSUME LInv, Refine PROVE LInv'
  OBVIOUS
<1>1. root \in RootType /\ Converging(root) /\ Improves(root)
  BY DEF LInv, Known, Rooted, Refine
<1>2. root' \in RootType /\ root'.value = root.value /\ Converging(root')
  BY <1>1, NewtonContinues DEF Refine
<1>3. Converging(root)'
  BY <1>2 DEF Converging, Improves, Following
<1> QED
  BY <1>2, <1>3
  DEF LInv, Known, Rooted, Floored, ArithmeticHolds, AtTheEdge, Refine, Admissible,
      AmountsAtTick, Squared

LEMMA BoundBelowKeeps == LInv /\ BoundBelow => LInv'
<1> SUFFICES ASSUME LInv, BoundBelow PROVE LInv'
  OBVIOUS
<1>1. /\ input \in Inputs /\ Admissible(input) /\ maxima = AmountsAtTick(input, liquidity)
      /\ root \in RootType /\ Converging(root) /\ root.value = Squared(-1)
      /\ ~Improves(root)
  BY DEF LInv, Known, Rooted, BoundBelow
<1>2. /\ input.price \in Pos /\ MinRatio \in Pos /\ MinRatio <= input.price
      /\ root.result \in Nat
  <2>1. MinTick \in Ticks
    BY TicksAssumption DEF Ticks
  <2> QED
    BY <1>1, <2>1, Located, RatioAssumption DEF Admissible, MinRatio, RootType, Pos
<1>3. root.result <= input.price
  BY <1>1, <1>2, SquaredSides, RootBelow
<1>4. floor' = IF root.result <= MinRatio THEN MinRatio + 1 ELSE root.result
  BY DEF BoundBelow
<1>5. /\ floor' \in Pos
      /\ floor' <= input.price \/ (floor' = MinRatio + 1 /\ input.price = MinRatio)
  BY <1>2, <1>3, <1>4 DEF Pos
<1>6. root' \in RootType /\ root'.value = Squared(1) /\ Converging(root')
  BY <1>1, SquaredSides, NewtonBegins DEF BoundBelow
<1>7. Converging(root)'
  BY <1>6 DEF Converging, Improves, Following
<1> QED
  BY <1>1, <1>5, <1>6, <1>7
  DEF LInv, Known, Rooted, Floored, ArithmeticHolds, AtTheEdge, BoundBelow, Admissible,
      AmountsAtTick, Squared

LEMMA ConcludeKeeps == LInv /\ Conclude => LInv'
<1> SUFFICES ASSUME LInv, Conclude PROVE LInv'
  OBVIOUS
<1>1. /\ input \in Inputs /\ Admissible(input) /\ maxima = AmountsAtTick(input, liquidity)
      /\ liquidity \in Nat /\ root \in RootType /\ Converging(root)
      /\ root.value = Squared(1) /\ ~Improves(root) /\ floor \in Pos
      /\ floor <= input.price \/ (floor = MinRatio + 1 /\ input.price = MinRatio)
  BY DEF LInv, Known, Rooted, Floored, Conclude
<1>2. input.price \in Pos /\ input.price < MaxRatio /\ MaxRatio \in Pos
  <2>1. MaxTick \in Ticks
    BY TicksAssumption DEF Ticks
  <2> QED
    BY <1>1, <2>1, Located, RatioAssumption DEF Admissible, MaxRatio, Pos
<1>3. input.price <= Ceiling /\ Ceiling \in Pos
  <2>1. input.price <= root.result /\ root.result \in Nat
    BY <1>1, <1>2, SquaredSides, RootAbove DEF RootType
  <2> QED
    BY <1>2, <2>1 DEF Ceiling, Pos
<1>4. AtTheEdge \/ floor <= input.price \/ floor <= Ratio[input.lower]
  <2>1. ASSUME floor = MinRatio + 1, input.lower # MinTick PROVE floor <= Ratio[input.lower]
    <3>1. MinTick \in Ticks /\ input.lower \in Ticks /\ MinTick < input.lower
      BY <1>1, <2>1, TicksAssumption DEF Inputs, Ticks
    <3>2. MinRatio < Ratio[input.lower] /\ MinRatio \in Pos /\ Ratio[input.lower] \in Pos
      BY <3>1, RatioOrder DEF MinRatio
    <3> QED
      BY <2>1, <3>2 DEF Pos
  <2> QED
    BY <1>1, <2>1 DEF AtTheEdge
<1>5. ASSUME ~AtTheEdge PROVE ~Exceeds(minima', maxima)
  <2>1. minima' = <<AmountsAtPrice(Ceiling, Ratio[input.lower], Ratio[input.upper], liquidity)[1],
                    AmountsAtPrice(floor, Ratio[input.lower], Ratio[input.upper], liquidity)[2]>>
    BY DEF Conclude
  <2> QED
    BY <1>1, <1>3, <1>4, <1>5, <2>1, MinimaFit
<1>6. input' = input /\ liquidity' = liquidity /\ root' = root /\ maxima' = maxima
  BY DEF Conclude
<1>7. stage' \in {"quoted", "blocked"}
  BY DEF Conclude, Expect
<1>8. issue' = "ARITHMETIC_INVARIANT_VIOLATION" => AtTheEdge
  BY <1>5 DEF Conclude, Expect
<1>9. ArithmeticHolds'
  BY <1>6, <1>8 DEF ArithmeticHolds, AtTheEdge
<1> QED
  BY <1>1, <1>6, <1>7, <1>9 DEF LInv, Known, Rooted, Floored, Admissible

(* LInv is inductive. *)
LEMMA Invariance == Spec => []LInv
<1>1. LInv /\ UNCHANGED vars => LInv'
  BY DEF LInv, Known, Rooted, Floored, ArithmeticHolds, AtTheEdge, vars, Admissible, OfCapital,
         AmountsAtTick, Converging, Improves, Following, Squared
<1>2. LInv /\ [Step]_vars => LInv'
  BY <1>1, ValidateKeeps, MeasureKeeps, RoundUpKeeps, RemeasureKeeps, RefineKeeps,
     BoundBelowKeeps, ConcludeKeeps DEF Step
<1> QED
  BY LInit, <1>2, PTL DEF Spec

(***************************************************************************)
(* For every increasing table of tick ratios, every scale and every input: *)
(* the amounts of the calldata never exceed the capital, and no minimum    *)
(* exceeds them, except where the price and the range both begin at the    *)
(* protocol's least price: the checks that calculatePancakeV3LiquidityQuote*)
(* makes of its own arithmetic never fail elsewhere.                       *)
(***************************************************************************)
THEOREM QuoteArithmetic == Spec => []ArithmeticHolds
<1>1. LInv => ArithmeticHolds
  BY DEF LInv
<1> QED
  BY <1>1, Invariance, PTL

-----------------------------------------------------------------------------
(* What integerSquareRoot returns. *)

LEMMA RootFound ==
  ASSUME NEW r \in RootType, Converging(r)
  PROVE  IF Improves(r) THEN r.candidate # 0 ELSE IsRoot(r.result, r.value)
<1>1. r.value \in Nat /\ r.result \in Nat /\ r.candidate \in Nat
  BY DEF RootType
<1>2. CASE Improves(r)
  <2>1. 1 * 1 <= r.value
    BY <1>1, <1>2 DEF Improves
  <2>2. 1 <= r.candidate
    BY <2>1 DEF Converging
  <2> QED
    BY <1>1, <1>2, <2>2
<1>3. CASE ~Improves(r)
  <2> DEFINE w == r.result
             q == r.value \div w
  <2>1. r.value < (w + 1) * (w + 1)
    <3>1. (w + 1) * (w + 1) <= r.value => w + 1 <= w
      BY <1>1 DEF Converging
    <3>2. (w + 1) * (w + 1) \in Nat
      BY <1>1
    <3> QED
      BY <1>1, <3>1, <3>2
  <2>2. CASE r.value <= 3
    <3>1. r.result = IF r.value = 0 THEN 0 ELSE 1
      BY <2>2 DEF Converging
    <3>2. r.value \in {0, 1, 2, 3}
      BY <1>1, <2>2
    <3> QED
      BY <1>3, <3>1, <3>2 DEF IsRoot
  <2>3. CASE r.value > 3
    <3>1. w \in Pos
      <4>1. 1 * 1 <= r.value => 1 <= w
        BY DEF Converging
      <4> QED
        BY <4>1, <1>1, <2>3 DEF Pos
    <3>2. q \in Nat /\ r.value % w \in Nat /\ r.value = w * q + (r.value % w)
      BY <1>1, <3>1, DivideDown
    <3>3. w <= (q + w) \div 2
      BY <1>1, <1>3, <2>3 DEF Converging, Improves, Following
    <3> HIDE DEF q
    <3>4. w <= q
      BY <1>1, <3>2, <3>3
    <3> HIDE DEF w
    <3>5. w * w <= q * w /\ q * w = w * q /\ w * q \in Nat /\ w * w \in Nat
      BY <3>1, <3>2, <3>4, TimesOrdered DEF Pos
    <3>6. w * w <= r.value
      BY <1>1, <3>2, <3>5
    <3> QED
      BY <1>3, <2>1, <3>6 DEF IsRoot, w
  <2> QED
    BY <1>1, <2>2, <2>3
<1> QED
  BY <1>2, <1>3

(***************************************************************************)
(* For every value, the iteration of integerSquareRoot divides by no zero  *)
(* and ends with the exact integer root.                                   *)
(***************************************************************************)
THEOREM RootIsExact == Spec => []RootExact
<1>1. LInv => RootExact
  BY RootFound DEF LInv, Known, Rooted, RootExact
<1> QED
  BY <1>1, Invariance, PTL

(***************************************************************************)
(* Every step lowers the rank, or keeps it and lowers the root under way,  *)
(* and both are natural numbers: no calculation goes on for ever.          *)
(***************************************************************************)
THEOREM QuoteApproaches == Spec => Approaches
<1>1. LInv /\ [Step]_vars => [Nearer]_vars
  <2> SUFFICES ASSUME LInv, Step PROVE Nearer
    OBVIOUS
  <2>1. Rank \in Nat /\ root.result \in Nat
    BY DEF LInv, Known, RootType, Rank
  <2>2. CASE Refine
    <3>1. root'.result = root.candidate /\ root.candidate < root.result
      BY <2>2 DEF Refine, Improves, LInv, Known, RootType
    <3>2. Rank' = Rank
      BY <2>2 DEF Refine, Rank
    <3> QED
      BY <2>1, <3>1, <3>2 DEF Nearer
  <2>3. CASE Validate
    BY <2>1, <2>3 DEF Validate, Block, Nearer, Rank
  <2>4. CASE Measure
    BY <2>1, <2>4 DEF Measure, Block, Nearer, Rank
  <2>5. CASE RoundUp
    BY <2>1, <2>5 DEF RoundUp, Expect, Nearer, Rank
  <2>6. CASE Remeasure
    BY <2>1, <2>6 DEF Remeasure, Block, Nearer, Rank
  <2>7. CASE BoundBelow
    BY <2>1, <2>7 DEF BoundBelow, Nearer, Rank
  <2>8. CASE Conclude
    BY <2>1, <2>8 DEF Conclude, Expect, Nearer, Rank
  <2> QED
    BY <2>2, <2>3, <2>4, <2>5, <2>6, <2>7, <2>8 DEF Step
<1> QED
  BY <1>1, Invariance, PTL DEF Spec, Approaches

-----------------------------------------------------------------------------
(* The liquidity of the calldata. *)

LEMMA DivideMonotone ==
  ASSUME NEW n \in Nat, NEW k \in Nat, NEW d \in Pos, n <= k
  PROVE  n \div d <= k \div d
<1> DEFINE q == n \div d
<1>1. q \in Nat /\ n % d \in Nat /\ n = d * q + (n % d)
  BY DivideDown
<1> HIDE DEF q
<1>2. q * d = d * q /\ d * q \in Nat
  BY <1>1 DEF Pos
<1>3. q * d <= k
  BY <1>1, <1>2
<1> QED
  BY <1>1, <1>3, QuotientLeast DEF q

LEMMA Liquidity0Monotone ==
  ASSUME NEW a \in Pos, NEW b \in Pos, NEW x \in Nat, NEW y \in Nat, a < b, x <= y
  PROVE  LiquidityForAmount0(a, b, x) <= LiquidityForAmount0(a, b, y)
<1> DEFINE i == (a * b) \div Q
<1>1. /\ i \in Nat
      /\ LiquidityForAmount0(a, b, x) = (x * i) \div (b - a)
      /\ LiquidityForAmount0(a, b, y) = (y * i) \div (b - a)
  BY Liquidity0Type
<1>2. b - a \in Pos
  BY DEF Pos
<1> HIDE DEF i
<1>3. x * i <= y * i /\ x * i \in Nat /\ y * i \in Nat
  BY <1>1, TimesOrdered
<1> QED
  BY <1>1, <1>2, <1>3, DivideMonotone

LEMMA Liquidity1Is ==
  ASSUME NEW a \in Pos, NEW b \in Pos, NEW x \in Nat, a < b
  PROVE  LiquidityForAmount1(a, b, x) = (x * Q) \div (b - a)
<1>1. a <= b
  BY DEF Pos
<1> QED
  BY <1>1, Sides DEF LiquidityForAmount1

LEMMA Liquidity1Monotone ==
  ASSUME NEW a \in Pos, NEW b \in Pos, NEW x \in Nat, NEW y \in Nat, a < b, x <= y
  PROVE  LiquidityForAmount1(a, b, x) <= LiquidityForAmount1(a, b, y)
<1>1. b - a \in Pos /\ Q \in Nat
  BY SizesAssumption DEF Pos
<1>2. x * Q <= y * Q /\ x * Q \in Nat /\ y * Q \in Nat
  BY <1>1, TimesOrdered
<1> QED
  BY <1>1, <1>2, Liquidity1Is, DivideMonotone

(* Of token 1 an amount gives back the liquidity it was rounded up for. *)
LEMMA Amount1GivesBack ==
  ASSUME NEW a \in Pos, NEW b \in Pos, NEW l \in Nat, a < b
  PROVE  l <= LiquidityForAmount1(a, b, Amount1Delta(a, b, l))
<1> DEFINE u == Amount1Delta(a, b, l)
<1>0. a <= b /\ b - a \in Pos
  BY DEF Pos
<1>1. l * (b - a) \in Nat /\ u = DivideUp(l * (b - a), Q) /\ u \in Nat /\ Q \in Pos
  BY <1>0, Amount1Type, SizesAssumption DEF Pos
<1>2. l * (b - a) <= u * Q
  BY <1>1, DivideUpType
<1>3. u * Q \in Nat
  BY <1>1 DEF Pos
<1> HIDE DEF u
<1>4. l <= (u * Q) \div (b - a)
  BY <1>0, <1>2, <1>3, QuotientLeast
<1> QED
  BY <1>1, <1>4, Liquidity1Is DEF u

(* The amounts of a liquidity of the capital allow no more than it, and    *)
(* as much where only token 1 counts.                                      *)
LEMMA CalldataAllows ==
  ASSUME NEW in \in Inputs, Admissible(in),
         NEW l, l = Least(OfCapital(in)),
         NEW A, A = AmountsAtTick(in, l),
         NEW again, again = Least(Candidates(in.price, Ratio[in.lower], Ratio[in.upper], A))
  PROVE  /\ l \in Nat /\ again \in Nat /\ again <= l
         /\ in.price >= Ratio[in.upper] => again = l
<1> DEFINE p == in.price
           lo == Ratio[in.lower]
           hi == Ratio[in.upper]
           x == in.amount0
           y == in.amount1
           S == OfCapital(in)
           T == Candidates(p, lo, hi, A)
<1>1. /\ p \in Pos /\ lo \in Pos /\ hi \in Pos /\ lo < hi /\ x \in Nat /\ y \in Nat
  BY Located
<1>2. S = Candidates(p, lo, hi, <<x, y>>)
  BY DEF OfCapital
<1>3. /\ l \in Nat /\ A \in Nat \X Nat /\ ~Exceeds(A, <<x, y>>)
      /\ A = AmountsAtPrice(p, lo, hi, l)
  BY CapitalSuffices, TickIsPrice
<1>4. A[1] \in Nat /\ A[2] \in Nat /\ A[1] <= x /\ A[2] <= y
  BY <1>1, <1>3 DEF Exceeds
<1> HIDE DEF p, lo, hi, x, y, S, T
<1>5. ASSUME p <= lo PROVE again \in Nat /\ again <= l
  <2>1. S = {LiquidityForAmount0(lo, hi, x)} /\ T = {LiquidityForAmount0(lo, hi, A[1])}
    BY <1>2, <1>5 DEF Candidates, T
  <2>2. LiquidityForAmount0(lo, hi, x) \in Nat /\ LiquidityForAmount0(lo, hi, A[1]) \in Nat
    BY <1>1, <1>4, Liquidity0Type
  <2>3. LiquidityForAmount0(lo, hi, A[1]) <= LiquidityForAmount0(lo, hi, x)
    BY <1>1, <1>4, Liquidity0Monotone
  <2>4. l = LiquidityForAmount0(lo, hi, x)
    BY <2>1, <2>2, LeastOf DEF S
  <2>5. again = LiquidityForAmount0(lo, hi, A[1])
    BY <2>1, <2>2, LeastOf DEF T, p, lo, hi
  <2> QED
    BY <2>2, <2>3, <2>4, <2>5
<1>6. ASSUME p >= hi PROVE again \in Nat /\ again = l
  <2>1. S = {LiquidityForAmount1(lo, hi, y)} /\ T = {LiquidityForAmount1(lo, hi, A[2])}
    BY <1>1, <1>2, <1>6 DEF Candidates, Pos, T
  <2>2. LiquidityForAmount1(lo, hi, y) \in Nat /\ LiquidityForAmount1(lo, hi, A[2]) \in Nat
    BY <1>1, <1>4, Liquidity1Type
  <2>3. LiquidityForAmount1(lo, hi, A[2]) <= LiquidityForAmount1(lo, hi, y)
    BY <1>1, <1>4, Liquidity1Monotone
  <2>4. l = LiquidityForAmount1(lo, hi, y)
    BY <2>1, <2>2, LeastOf DEF S
  <2>5. again = LiquidityForAmount1(lo, hi, A[2])
    BY <2>1, <2>2, LeastOf DEF T, p, lo, hi
  <2>6. A[2] = Amount1Delta(lo, hi, l)
    BY <1>1, <1>3, <1>6 DEF AmountsAtPrice, Pos
  <2>7. l <= LiquidityForAmount1(lo, hi, A[2])
    BY <1>1, <1>3, <2>6, Amount1GivesBack
  <2> QED
    BY <1>3, <2>2, <2>3, <2>4, <2>5, <2>7
<1>7. ASSUME lo < p /\ p < hi PROVE again \in Nat /\ again <= l
  <2> DEFINE l0(n) == LiquidityForAmount0(p, hi, n)
             l1(n) == LiquidityForAmount1(lo, p, n)
  <2>1. S = {l0(x), l1(y)} /\ T = {l0(A[1]), l1(A[2])}
    BY <1>1, <1>2, <1>7 DEF Candidates, Pos, T
  <2>2. l0(x) \in Nat /\ l1(y) \in Nat /\ l0(A[1]) \in Nat /\ l1(A[2]) \in Nat
    BY <1>1, <1>4, <1>7, Liquidity0Type, Liquidity1Type
  <2>3. l0(A[1]) <= l0(x) /\ l1(A[2]) <= l1(y)
    BY <1>1, <1>4, <1>7, Liquidity0Monotone, Liquidity1Monotone
  <2> HIDE DEF l0, l1
  <2>4. l \in {l0(x), l1(y)}
    BY <2>1, <2>2, LeastOf DEF S
  <2>5. again \in T /\ again <= l0(A[1]) /\ again <= l1(A[2])
    BY <2>1, <2>2, LeastOf DEF T, p, lo, hi
  <2> QED
    BY <2>1, <2>2, <2>3, <2>4, <2>5
<1> QED
  BY <1>1, <1>3, <1>5, <1>6, <1>7 DEF Pos, p, hi

Ended == issue # "none" => stage = "blocked"

(* What the remeasured amounts come from. *)
Held ==
  /\ stage = "measured" => liquidity \in Nat /\ liquidity > 0
  /\ stage = "rounded" => liquidity = Least(OfCapital(input)) /\ liquidity > 0

DInv == Held /\ Ended /\ DriftsDown

LEMMA DInit == Init => DInv
BY DEF Init, DInv, Held, Ended, DriftsDown

LEMMA DKeeps == LInv /\ DInv /\ [Step]_vars => DInv'
<1> SUFFICES ASSUME LInv, DInv, [Step]_vars PROVE DInv'
  OBVIOUS
<1> USE DEF DInv, Held, Ended, DriftsDown
<1>1. CASE Validate
  BY <1>1 DEF Validate, Block
<1>2. CASE Measure
  <2>1. input \in Inputs /\ Admissible(input)
    BY <1>2 DEF LInv, Known, Measure
  <2>2. Least(OfCapital(input)) \in Nat
    BY <2>1, CapitalSuffices
  <2> QED
    BY <1>2, <2>2 DEF Measure, Block
<1>3. CASE RoundUp
  <2>1. liquidity = Least(OfCapital(input)) /\ OfCapital(input)' = OfCapital(input)
    BY <1>3 DEF LInv, Known, RoundUp, OfCapital
  <2> QED
    BY <1>3, <2>1 DEF RoundUp, Expect
<1>4. CASE Remeasure
  <2>1. /\ input \in Inputs /\ Admissible(input) /\ maxima = AmountsAtTick(input, liquidity)
        /\ liquidity = Least(OfCapital(input))
    BY <1>4 DEF LInv, Known, Remeasure
  <2>2. /\ liquidity \in Nat /\ liquidity > 0 /\ Least(OfCalldata) \in Nat
        /\ Least(OfCalldata) <= liquidity
        /\ input.price >= Ratio[input.upper] => Least(OfCalldata) = liquidity
    BY <1>4, <2>1, CalldataAllows DEF OfCalldata, Remeasure
  <2>3. CASE Block("CALLDATA_LIQUIDITY_CANDIDATE_EXCEEDS_UINT128")
    BY <1>4, <2>3 DEF Block, Remeasure
  <2>4. CASE /\ Block("CALLDATA_ZERO_LIQUIDITY") \/ Block("CALLDATA_LIQUIDITY_DRIFT")
             /\ Least(OfCalldata) # liquidity
    <3>1. Least(OfCalldata) < liquidity /\ ~(input.price >= Ratio[input.upper])
      BY <2>2, <2>4
    <3>2. input.price < Ratio[input.upper]
      BY <2>1, <3>1, Located DEF Pos
    <3>3. OfCalldata' = OfCalldata /\ liquidity' = liquidity /\ input' = input /\ stage' = "blocked"
      BY <2>4 DEF Block, OfCalldata
    <3> QED
      BY <3>1, <3>2, <3>3
  <2>5. CASE stage' = "below" /\ issue' = issue
    BY <1>4, <2>5 DEF Remeasure
  <2> QED
    BY <1>4, <2>2, <2>3, <2>4, <2>5 DEF Remeasure, OfCalldata
<1>5. CASE Refine \/ BoundBelow
  BY <1>5 DEF Refine, BoundBelow
<1>6. CASE Conclude
  BY <1>6 DEF Conclude, Expect
<1>7. CASE UNCHANGED vars
  BY <1>7 DEF vars, OfCapital, OfCalldata
<1> QED
  BY <1>1, <1>2, <1>3, <1>4, <1>5, <1>6, <1>7 DEF Step

(***************************************************************************)
(* The calldata never mints more than the capital's liquidity, and drifts  *)
(* below it only where token 0 takes part.                                 *)
(***************************************************************************)
THEOREM QuoteDriftsDown == Spec => []DriftsDown
<1>1. DInv => DriftsDown
  BY DEF DInv
<1> QED
  BY <1>1, Invariance, DInit, DKeeps, PTL DEF Spec
=============================================================================
