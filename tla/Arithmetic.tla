------------------------------ MODULE Arithmetic ------------------------------
(***************************************************************************)
(* Division with remainder, and powers of two: what the proofs about       *)
(* addresses, bursts and the iterative units need of numbers.              *)
(***************************************************************************)
EXTENDS Integers, WellFoundedInduction, TLAPS

(* Division with remainder, its result, and that there is no other.        *)
LEMMA Euclid ==
  ASSUME NEW x \in Nat, NEW n \in Nat \ {0}
  PROVE  /\ x \div n \in Nat /\ x % n \in 0 .. n - 1
         /\ (x \div n) * n \in Nat
         /\ x = (x \div n) * n + (x % n)
<1>1. x \div n \in Nat
  BY SMTT(30)
<1>2. x % n \in 0 .. n - 1
  BY SMTT(30)
<1>3. (x \div n) * n \in Nat
  BY <1>1, SMTT(30)
<1>4. x = n * (x \div n) + (x % n)
  BY SMTT(30)
<1>5. n * (x \div n) = (x \div n) * n
  BY <1>1, SMTT(30)
<1> QED
  BY <1>1, <1>2, <1>3, <1>4, <1>5

(* The quotient is the number whose multiples enclose the dividend.        *)
LEMMA DivUnique ==
  ASSUME NEW a \in Nat, NEW q \in Nat, NEW d \in Nat \ {0}, q * d <= a, a < q * d + d
  PROVE  a \div d = q
BY SMTT(30)

(* A number written as a multiple and a remainder has just those.          *)
LEMMA ModUnique ==
  ASSUME NEW x \in Nat, NEW n \in Nat \ {0}, NEW q \in Nat, NEW r \in 0 .. n - 1,
         x = q * n + r
  PROVE  x \div n = q /\ x % n = r
<1>1. q * n \in Nat
  BY SMT
<1>2. x \div n = q
  BY <1>1, DivUnique, SMTT(30)
<1> QED
  BY <1>1, <1>2, Euclid, SMTT(30)

(* A number below the divisor is its own remainder.                        *)
LEMMA Small ==
  ASSUME NEW x \in Nat, NEW n \in Nat \ {0}, x < n
  PROVE  x \div n = 0 /\ x % n = x
<1>1. PICK q \in Nat : q = 0
  OBVIOUS
<1>2. q * n = 0
  BY <1>1
<1>3. x \in 0 .. n - 1 /\ x = q * n + x
  BY <1>2
<1>4. x \div n = q /\ x % n = x
  BY <1>3, ModUnique
<1> QED
  BY <1>1, <1>4

(* One bit of x more.                                                      *)
LEMMA NextBit ==
  ASSUME NEW x \in Nat, NEW u \in Nat \ {0}
  PROVE  /\ x \div (2 * u) = (x \div u) \div 2
         /\ x % (2 * u) = (x % u) + u * ((x \div u) % 2)
         /\ (x \div u) % 2 \in {0, 1}
<1> DEFINE b == x \div u
           h == b \div 2
           l == b % 2
<1>1. /\ b \in Nat /\ x % u \in 0 .. u - 1 /\ x = b * u + (x % u)
      /\ b * u \in Nat
  BY Euclid
<1>2. h \in Nat /\ l \in {0, 1} /\ b = 2 * h + l
  BY <1>1
<1> HIDE DEF b, h, l
<1>3. u * l \in Nat /\ u * l <= u
  BY <1>2
<1>4. b * u = h * (2 * u) + u * l
  BY <1>2, SMTT(30)
<1>5. x = h * (2 * u) + ((x % u) + u * l)
  BY <1>1, <1>2, <1>3, <1>4, SMTT(30)
<1>6. (x % u) + u * l \in 0 .. (2 * u) - 1
  BY <1>1, <1>3
<1>7. x \div (2 * u) = h /\ x % (2 * u) = (x % u) + u * l
  <2> DEFINE n == 2 * u
             z == (x % u) + u * l
  <2>1. n \in Nat \ {0} /\ z \in 0 .. n - 1 /\ x = h * n + z
    BY <1>5, <1>6
  <2> HIDE DEF n, z
  <2>2. x \div n = h /\ x % n = z
    BY <1>2, <2>1, ModUnique
  <2> QED
    BY <2>2 DEF n, z
<1> QED
  BY <1>2, <1>7 DEF b, h, l

(* Counting up in a ring.                                                  *)
LEMMA ModStep ==
  ASSUME NEW x \in Nat, NEW n \in Nat \ {0}
  PROVE  /\ x % n \in 0 .. n - 1
         /\ (x + 1) % n = IF x % n = n - 1 THEN 0 ELSE (x % n) + 1
<1> DEFINE q == x \div n
           r == x % n
<1>1. q \in Nat /\ r \in 0 .. n - 1 /\ x = q * n + r /\ q * n \in Nat
  BY Euclid
<1> HIDE DEF q, r
<1>2. CASE r = n - 1
  <2>1. (q + 1) * n = q * n + n
    BY <1>1, SMTT(30)
  <2>2. x + 1 = (q + 1) * n + 0
    BY <1>1, <1>2, <2>1
  <2>3. (x + 1) % n = 0
    BY <1>1, <2>2, ModUnique
  <2> QED
    BY <1>1, <1>2, <2>3 DEF r
<1>3. CASE r # n - 1
  <2>1. r + 1 \in 0 .. n - 1 /\ x + 1 = q * n + (r + 1)
    BY <1>1, <1>3
  <2>2. (x + 1) % n = r + 1
    BY <1>1, <2>1, ModUnique
  <2> QED
    BY <1>1, <1>3, <2>2 DEF r
<1> QED
  BY <1>2, <1>3

(* Rounding down to a multiple.                                            *)
LEMMA RoundDown ==
  ASSUME NEW a \in Nat, NEW n \in Nat \ {0}
  PROVE  /\ (a \div n) * n \in Nat
         /\ (a \div n) * n <= a /\ a < (a \div n) * n + n
BY SMTT(30)

(* A product of positive numbers is positive.                              *)
LEMMA Positive ==
  ASSUME NEW b \in Nat \ {0}, NEW n \in Nat \ {0}
  PROVE  b * n \in Nat \ {0}
BY SMTT(30)

(* Multiplying by a positive number keeps the order.                       *)
LEMMA TimesMonotone ==
  ASSUME NEW x \in Nat, NEW y \in Nat, NEW b \in Nat \ {0}
  PROVE  x <= y <=> x * b <= y * b
BY SMTT(30)

(* A multiple of n, times b.                                               *)
LEMMA Products ==
  ASSUME NEW q \in Nat, NEW b \in Nat \ {0}, NEW n \in Nat \ {0}
  PROVE  /\ (q * n) * b = q * (b * n)
         /\ (q * n + n) * b = q * (b * n) + b * n
         /\ q * n \in Nat
BY SMTT(30)

(* Integers, which may be negative.                                        *)
LEMMA IntEuclid ==
  ASSUME NEW x \in Int, NEW n \in Nat \ {0}
  PROVE  \E q \in Int : x = q * n + (x % n) /\ x % n \in 0 .. n - 1
<1>1. x \div n \in Int /\ x % n \in 0 .. n - 1
  BY SMTT(30)
<1>2. x = n * (x \div n) + (x % n)
  BY SMTT(30)
<1>3. n * (x \div n) = (x \div n) * n
  BY <1>1, SMTT(30)
<1> QED
  BY <1>1, <1>2, <1>3

(* The remainder is unique for negative numbers too.                       *)
LEMMA IntModUnique ==
  ASSUME NEW x \in Int, NEW n \in Nat \ {0}, NEW q \in Int, NEW r \in 0 .. n - 1,
         x = q * n + r
  PROVE  x % n = r
<1>1. PICK s \in Int : x = s * n + (x % n) /\ x % n \in 0 .. n - 1
  BY IntEuclid
<1> DEFINE z == x % n
<1>2. z \in 0 .. n - 1 /\ s * n + z = q * n + r
  BY <1>1
<1> HIDE DEF z
<1>3. (s - q) * n = r - z
  BY <1>2, SMTT(30)
<1>4. ASSUME s - q >= 1 PROVE FALSE
  <2>1. (s - q) * n >= n
    BY <1>4, SMTT(30)
  <2> QED
    BY <1>2, <1>3, <2>1
<1>5. ASSUME s - q <= -1 PROVE FALSE
  <2>1. (q - s) * n >= n
    BY <1>5, SMTT(30)
  <2>2. (q - s) * n = -((s - q) * n)
    BY SMTT(30)
  <2> QED
    BY <1>2, <1>3, <2>1, <2>2
<1>6. s = q
  BY <1>4, <1>5
<1> QED
  BY <1>2, <1>6 DEF z

(* The complement of n bits is the negative, modulo 2 ^ n and what divides *)
(* it.                                                                     *)
LEMMA ModOfMultiple ==
  ASSUME NEW x \in Int, NEW k \in Int, NEW n \in Nat \ {0}
  PROVE  (k * n + x) % n = x % n
<1>1. PICK q \in Int : x = q * n + (x % n) /\ x % n \in 0 .. n - 1
  BY IntEuclid
<1> DEFINE r == x % n
<1>2. r \in 0 .. n - 1 /\ x = q * n + r
  BY <1>1
<1> HIDE DEF r
<1>3. k * n \in Int /\ k * n + x = (k + q) * n + r
  BY <1>2, SMTT(30)
<1> DEFINE y == k * n + x
<1>4. y \in Int /\ y = (k + q) * n + r
  BY <1>3
<1> HIDE DEF y
<1>5. y % n = r
  BY <1>2, <1>4, IntModUnique
<1> QED
  BY <1>5 DEF y, r

Reduces(x, m, n) == (x % m) % n = x % n

(* Truncating twice is truncating to the narrower width.                   *)
LEMMA ModOfMod ==
  ASSUME NEW x \in Int, NEW n \in Nat \ {0}, NEW k \in Nat \ {0}, NEW m \in Nat \ {0},
         m = k * n
  PROVE  Reduces(x, m, n)
<1>1. PICK q \in Int : x = q * m + (x % m) /\ x % m \in 0 .. m - 1
  BY IntEuclid
<1> DEFINE z == x % m
<1>2. z \in 0 .. m - 1 /\ x = q * m + z
  BY <1>1
<1> HIDE DEF z
<1>3. q * k \in Int /\ q * m = (q * k) * n
  BY SMTT(30)
<1> DEFINE j == q * k
<1> HIDE DEF j
<1>4. j \in Int /\ x = j * n + z /\ z \in Int
  BY <1>2, <1>3 DEF j
<1>5. (j * n + z) % n = z % n
  BY <1>4, ModOfMultiple
<1> QED
  BY <1>4, <1>5 DEF z, Reduces

(* Moving two numbers up by as many bits keeps their order.                *)
LEMMA Scale ==
  ASSUME NEW a \in Nat, NEW b \in Nat, NEW s \in Nat \ {0}
  PROVE  a * s \in Nat /\ (a < b <=> a * s < b * s) /\ (a = 0 <=> a * s = 0)
<1>1. a * s \in Nat /\ b * s \in Nat
  BY SMTT(30)
<1>2. a < b <=> a * s < b * s
  BY <1>1, TimesMonotone
<1>3. a = 0 <=> a * s = 0
  BY SMTT(30)
<1> QED
  BY <1>1, <1>2, <1>3

Scaled(x, n, a, b, s) == x \div n = a \div b /\ x % n = (a % b) * s

(* It keeps their quotient, and moves their remainder up as well.          *)
LEMMA ScaleDiv ==
  ASSUME NEW a \in Nat, NEW b \in Nat \ {0}, NEW s \in Nat \ {0},
         NEW x \in Nat, x = a * s, NEW n \in Nat, n = b * s
  PROVE  Scaled(x, n, a, b, s)
<1> DEFINE q == a \div b
           r == a % b
           z == r * s
<1>1. q \in Nat /\ r \in 0 .. b - 1 /\ a = q * b + r
  BY Euclid
<1> HIDE DEF q, r
<1>2. x \in Nat /\ n \in Nat \ {0}
  BY SMTT(30)
<1>3. z \in Nat /\ z < n
  <2>1. (r + 1) * s <= b * s
    BY <1>1, TimesMonotone
  <2>2. (r + 1) * s = r * s + s /\ r * s \in Nat
    BY <1>1, SMTT(30)
  <2> QED
    BY <1>2, <2>1, <2>2
<1>4. x = q * n + z
  BY <1>1, SMTT(30)
<1> HIDE DEF z
<1>5. x \div n = q /\ x % n = z
  BY <1>1, <1>2, <1>3, <1>4, ModUnique
<1> QED
  BY <1>5 DEF Scaled, z, q, r
-----------------------------------------------------------------------------
(* Induction, on a set.                                                    *)
LEMMA Smallest ==
  ASSUME NEW S \in SUBSET Nat, S # {}
  PROVE  \E i \in S : \A j \in S : i <= j
<1>1. PICK i \in S : \A j \in S : ~ (<<j, i>> \in OpToRel(<, Nat))
  BY NatLessThanWellFounded, WFMin, Zenon
<1>2. \A j \in S : ~(j < i)
  BY <1>1 DEF OpToRel
<1> QED
  BY <1>2

(* Induction, for a set given as such: no least number is outside it.      *)
LEMMA Inductive ==
  ASSUME NEW S, 0 \in S, \A n \in Nat : n \in S => n + 1 \in S
  PROVE  Nat \subseteq S
<1> DEFINE T == Nat \ S
<1>1. ASSUME T # {} PROVE FALSE
  <2>1. PICK i \in T : \A j \in T : i <= j
    BY <1>1, Smallest
  <2>2. i \in Nat \ {0} /\ i - 1 \in Nat
    BY <2>1
  <2>3. i - 1 \in S
    BY <2>1, <2>2
  <2>4. (i - 1) + 1 \in S
    BY <2>2, <2>3
  <2> QED
    BY <2>1, <2>2, <2>4
<1> QED
  BY <1>1

(* The function a unit's model calls Pow2 exists, and doubles.             *)
IsPow2(f) == f = [n \in Nat |-> IF n = 0 THEN 1 ELSE 2 * f[n - 1]]
Doubles(f, n) == /\ f \in [0 .. n -> Nat] /\ f[0] = 1
                 /\ \A i \in 1 .. n : f[i] = 2 * f[i - 1]

(* There is a sequence of doublings of every length.                       *)
LEMMA DoublesExist == \A n \in Nat : \E f : Doubles(f, n)
<1> DEFINE S == {n \in Nat : \E f : Doubles(f, n)}
<1>1. 0 \in S
  <2>1. Doubles([i \in 0 .. 0 |-> 1], 0)
    BY DEF Doubles
  <2> QED
    BY <2>1
<1>2. ASSUME NEW n \in Nat, n \in S PROVE n + 1 \in S
  <2>1. PICK f : Doubles(f, n)
    BY <1>2
  <2> DEFINE g == [i \in 0 .. n + 1 |-> IF i = n + 1 THEN 2 * f[n] ELSE f[i]]
  <2>2. Doubles(g, n + 1)
    BY <2>1 DEF Doubles
  <2> QED
    BY <2>2
<1>3. Nat \subseteq S
  BY <1>1, <1>2, Inductive, Zenon
<1> QED
  BY <1>3

(* Two of them agree as far as both of them go.                            *)
LEMMA DoublesUnique ==
  ASSUME NEW n \in Nat, NEW m \in Nat, n <= m, NEW f, NEW g, Doubles(f, n), Doubles(g, m)
  PROVE  f[n] = g[n]
<1> DEFINE S == {i \in Nat : i <= n => f[i] = g[i]}
<1>1. 0 \in S
  BY DEF Doubles
<1>2. ASSUME NEW i \in Nat, i \in S PROVE i + 1 \in S
  <2> SUFFICES ASSUME i + 1 <= n PROVE f[i + 1] = g[i + 1]
    OBVIOUS
  <2>1. i + 1 \in 1 .. n /\ i + 1 \in 1 .. m /\ (i + 1) - 1 = i /\ f[i] = g[i]
    BY <1>2
  <2> QED
    BY <2>1 DEF Doubles
<1>3. Nat \subseteq S
  BY <1>1, <1>2, Inductive, Zenon
<1> QED
  BY <1>3

(* So the powers of two are a function on all numbers.                     *)
LEMMA Pow2Exists == \E f : IsPow2(f)
<1> DEFINE c == [n \in Nat |-> CHOOSE f : Doubles(f, n)]
           g == [n \in Nat |-> c[n][n]]
<1>1. \A n \in Nat : Doubles(c[n], n)
  BY DoublesExist
<1> HIDE DEF c
<1>2. g[0] = 1
  BY <1>1 DEF Doubles
<1>3. ASSUME NEW n \in Nat \ {0} PROVE g[n] = 2 * g[n - 1]
  <2>1. n \in 1 .. n /\ n - 1 \in Nat /\ n - 1 <= n
    OBVIOUS
  <2>2. c[n][n] = 2 * c[n][n - 1]
    BY <1>1, <2>1 DEF Doubles
  <2>3. c[n - 1][n - 1] = c[n][n - 1]
    BY <1>1, <2>1, DoublesUnique
  <2> QED
    BY <2>1, <2>2, <2>3
<1>4. \A n \in Nat : g[n] = IF n = 0 THEN 1 ELSE 2 * g[n - 1]
  BY <1>2, <1>3
<1>5. g = [n \in Nat |-> g[n]]
  OBVIOUS
<1> HIDE DEF g
<1>6. IsPow2(g)
  BY <1>4, <1>5 DEF IsPow2
<1> QED
  BY <1>6

(* The first ones, and each from the one before.                           *)
LEMMA Pow2Steps ==
  ASSUME NEW f, IsPow2(f)
  PROVE  /\ f[0] = 1 /\ f[1] = 2
         /\ \A n \in Nat : f[n] \in Nat \ {0} /\ f[n + 1] = 2 * f[n]
<1>1. \A n \in Nat : f[n] = IF n = 0 THEN 1 ELSE 2 * f[n - 1]
  BY DEF IsPow2
<1>2. ASSUME NEW n \in Nat PROVE f[n + 1] = 2 * f[n]
  <2>1. n + 1 \in Nat /\ n + 1 # 0 /\ (n + 1) - 1 = n
    OBVIOUS
  <2> QED
    BY <1>1, <2>1
<1>3. f[0] = 1
  BY <1>1
<1> DEFINE S == {n \in Nat : f[n] \in Nat \ {0}}
<1>4. 0 \in S
  BY <1>3
<1>5. ASSUME NEW n \in Nat, n \in S PROVE n + 1 \in S
  BY <1>2, <1>5
<1>6. Nat \subseteq S
  BY <1>4, <1>5, Inductive, Zenon
<1>7. f[1] = 2
  <2>1. 1 \in Nat /\ 1 # 0 /\ 1 - 1 = 0
    OBVIOUS
  <2> QED
    BY <1>1, <1>3, <2>1
<1> QED
  BY <1>2, <1>3, <1>6, <1>7

(* Shifts add.                                                             *)
LEMMA Pow2Sum ==
  ASSUME NEW f, IsPow2(f), NEW m \in Nat, NEW n \in Nat
  PROVE  f[m + n] = f[m] * f[n]
<1>1. f[0] = 1 /\ \A i \in Nat : f[i] \in Nat \ {0} /\ f[i + 1] = 2 * f[i]
  BY Pow2Steps
<1> DEFINE S == {i \in Nat : f[m + i] = f[m] * f[i]}
<1>2. 0 \in S
  BY <1>1
<1>3. ASSUME NEW i \in Nat, i \in S PROVE i + 1 \in S
  <2>1. m + i \in Nat /\ (m + i) + 1 = m + (i + 1)
    OBVIOUS
  <2>2. f[m + (i + 1)] = 2 * (f[m] * f[i])
    BY <1>1, <1>3, <2>1
  <2>3. f[m] * (2 * f[i]) = 2 * (f[m] * f[i])
    BY <1>1
  <2> QED
    BY <1>1, <2>2, <2>3
<1>4. Nat \subseteq S
  BY <1>2, <1>3, Inductive, Zenon
<1> QED
  BY <1>4
=============================================================================
