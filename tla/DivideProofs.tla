----------------------------- MODULE DivideProofs -----------------------------
(***************************************************************************)
(* The divider divides, at every width: what its registers mean at every   *)
(* step, and that it is the unit Exu takes it for.                         *)
(***************************************************************************)
EXTENDS Divide, Arithmetic

(* The register: a quotient so far, above it the rest of the dividend and  *)
(* the partial remainder, one bit up.                                      *)
Packed(a, u, v, q, p) == (2 * u) * (p * v + (a % v)) + q
Below(a, u, v, q) == (2 * u) * (a % v) + q
(* What the quotient and the partial remainder are of.                     *)
Divides(a, d, v, q, p) == /\ q \in Nat /\ p \in 0 .. d - 1
                          /\ a \div v = q * d + p
ShiftIn(r, bit, n) == ((2 * r) % n) + bit

(* The register read in the other halves: t above m, and the low part.     *)
LEMMA Repack ==
  ASSUME NEW a \in Nat, NEW u \in Nat \ {0}, NEW w \in Nat \ {0},
         NEW m \in Nat, m = 2 * (u * w), NEW q \in 0 .. u - 1, NEW t \in Nat
  PROVE  /\ Below(a, u, w, q) \in 0 .. m - 1
         /\ Packed(a, u, w, q, t) = m * t + Below(a, u, w, q)
         /\ m * t \in Nat
<1> DEFINE c == a % w
           l == (2 * u) * c
<1>1. c \in 0 .. w - 1
  BY Euclid
<1> HIDE DEF c
<1>2. l \in Nat /\ l + 2 * u <= m
  <2>1. (c + 1) * (2 * u) <= w * (2 * u)
    BY <1>1, TimesMonotone
  <2>2. (c + 1) * (2 * u) = l + 2 * u /\ w * (2 * u) = m /\ l \in Nat
    BY <1>1, SMTT(30)
  <2> QED
    BY <2>1, <2>2
<1>3. (2 * u) * (t * w + c) = m * t + l /\ m * t \in Nat
  BY <1>1, SMTT(30)
<1> HIDE DEF l
<1>4. l + q \in 0 .. m - 1
  BY <1>2
<1>5. (2 * u) * (t * w + c) + q = m * t + (l + q)
  BY <1>2, <1>3
<1> QED
  BY <1>3, <1>4, <1>5 DEF Packed, Below, l, c

(* A partial remainder never needs the bit that the shift drops.           *)
LEMMA RoomAbove ==
  ASSUME NEW a \in Nat, NEW u \in Nat \ {0}, NEW w \in Nat \ {0},
         NEW m \in Nat, m = 2 * (u * w), a < m,
         NEW d \in Nat \ {0}, d <= a, NEW q, NEW p, Divides(a, d, w, q, p)
  PROVE  2 * p + 2 <= m
<1> DEFINE b == a \div w
           k == u * w
<1>1. b \in Nat /\ b * w <= a /\ b * w \in Nat
  BY RoundDown, Euclid
<1>2. b = q * d + p /\ q \in Nat /\ p \in 0 .. d - 1
  BY DEF Divides
<1>3. k \in Nat \ {0} /\ m = 2 * k
  BY Positive
<1>4. b <= a
  <2> HIDE DEF b
  <2>1. b <= b * w
    BY <1>1, SMTT(30)
  <2> QED
    BY <1>1, <2>1
<1>5. CASE q # 0
  <2>1. d <= q * d /\ q * d \in Nat
    BY <1>2, <1>5, SMTT(30)
  <2> HIDE DEF b, k
  <2>2. d + p <= b
    BY <1>1, <1>2, <2>1
  <2> QED
    BY <1>1, <1>2, <1>3, <1>4, <2>2
<1>6. CASE q = 0
  <2>1. b = p
    BY <1>2, <1>6
  <2>2. CASE w = 1
    <3>1. b = a
      BY <2>2
    <3> QED
      BY <1>2, <2>1, <3>1
  <2>3. CASE w # 1
    <3>1. p * w <= a
      BY <1>1, <2>1
    <3> HIDE DEF b, k
    <3>2. p * 2 <= p * w
      BY <1>2, <2>3, SMTT(30)
    <3>3. p * w \in Nat
      BY <1>2, SMTT(30)
    <3> QED
      BY <1>2, <1>3, <3>1, <3>2, <3>3
  <2> QED
    BY <2>2, <2>3
<1> QED
  BY <1>5, <1>6

(* One bit more of the quotient.                                           *)
LEMMA NextDigit ==
  ASSUME NEW a \in Nat, NEW d \in Nat \ {0}, NEW w \in Nat \ {0},
         NEW q, NEW p, Divides(a, d, 2 * w, q, p)
  PROVE  LET b == (a \div w) % 2
             t == 2 * p + b
         IN  /\ b \in {0, 1} /\ t \in Nat
             /\ a % (2 * w) = (a % w) + w * b
             /\ t < d  => Divides(a, d, w, 2 * q, t)
             /\ t >= d => Divides(a, d, w, 2 * q + 1, t - d)
<1> DEFINE e == a \div w
           b == e % 2
           t == 2 * p + b
<1>1. /\ a \div (2 * w) = e \div 2 /\ a % (2 * w) = (a % w) + w * b
      /\ b \in {0, 1}
  BY NextBit
<1>2. e \in Nat /\ e \div 2 = q * d + p /\ q \in Nat /\ p \in 0 .. d - 1
  BY <1>1, Euclid DEF Divides
<1> HIDE DEF e
<1>3. e = 2 * (e \div 2) + b
  BY <1>2
<1> HIDE DEF b
<1>4. e = 2 * (q * d + p) + b /\ q * d \in Nat
  BY <1>2, <1>3, SMTT(30)
<1>5. (2 * q) * d = 2 * (q * d) /\ (2 * q + 1) * d = 2 * (q * d) + d
  BY <1>2, SMTT(30)
<1>6. ASSUME t < d PROVE Divides(a, d, w, 2 * q, t)
  BY <1>1, <1>2, <1>4, <1>5, <1>6 DEF Divides, e
<1>7. ASSUME t >= d PROVE Divides(a, d, w, 2 * q + 1, t - d)
  BY <1>1, <1>2, <1>4, <1>5, <1>7 DEF Divides, e
<1> QED
  BY <1>1, <1>2, <1>6, <1>7 DEF b, e

(* The shift is a doubling: nothing leaves at the top.                     *)
LEMMA ShiftsIn ==
  ASSUME NEW a \in Nat, NEW u \in Nat \ {0}, NEW w \in Nat \ {0},
         NEW m \in Nat, m = 2 * (u * w), NEW q \in 0 .. u - 1,
         NEW t \in Nat, 2 * t + 2 <= m, NEW b \in {0, 1}
  PROVE  /\ ShiftIn(Packed(a, u, w, q, t), b, m * m) = Packed(a, 2 * u, w, 2 * q + b, t)
         /\ Packed(a, 2 * u, w, 2 * q + b, t) \in 0 .. m * m - 1
<1> DEFINE r == Packed(a, u, w, q, t)
           l == Below(a, u, w, q)
           c == a % w
           x == m * t
<1>1. l \in 0 .. m - 1 /\ r = x + l /\ x \in Nat
  BY Repack
<1> DEFINE s == 2 * r + b
           n == m * m
<1>2. c \in Nat
  BY Euclid
<1>3. (2 * (2 * u)) * (t * w + c) = 2 * ((2 * u) * (t * w + c))
  <2> DEFINE f == t * w + c
  <2>1. f \in Nat
    BY <1>2, SMTT(30)
  <2> HIDE DEF f
  <2> QED
    BY <2>1, SMTT(30)
<1>4. Packed(a, 2 * u, w, 2 * q + b, t) = s
  <2> DEFINE g == (2 * u) * (t * w + c)
  <2>1. g \in Nat
    BY <1>2, SMTT(30)
  <2>2. r = g + q /\ Packed(a, 2 * u, w, 2 * q + b, t) = 2 * g + (2 * q + b)
    BY <1>3 DEF Packed
  <2> HIDE DEF g, r
  <2> QED
    BY <2>1, <2>2
<1> HIDE DEF r, c, l
<1>5. s \in 0 .. n - 1 /\ n \in Nat \ {0} /\ 2 * r \in 0 .. n - 1
  <2>1. (2 * t + 2) * m <= n /\ n \in Nat
    BY SMTT(30)
  <2>2. (2 * t + 2) * m = 2 * x + 2 * m
    BY SMTT(30)
  <2> HIDE DEF n, x
  <2> QED
    BY <1>1, <2>1, <2>2
<1> HIDE DEF n
<1>6. (2 * r) % n = 2 * r
  BY <1>1, <1>5, Small
<1> QED
  BY <1>4, <1>5, <1>6 DEF ShiftIn, r, n

(* A step of the loop: one bit of the dividend, one of the quotient.       *)
Advances(a, u, w, d, m, r) ==
  \E q2 \in 0 .. 2 * u - 1 : \E p2 : \E r2 \in 0 .. m * m - 1 :
    /\ Divides(a, d, w, q2, p2)
    /\ r2 = Packed(a, 2 * u, w, q2, p2)
    /\ r2 = IF r \div m < d THEN ShiftIn(r, 0, m * m)
                            ELSE ShiftIn(r - d * m, 1, m * m)

(* One iteration on the register, as numbers: a bit of the dividend goes to*)
(* the partial remainder, a bit of the quotient comes in at the bottom.    *)
LEMMA DivideStep ==
  ASSUME NEW a \in Nat, NEW u \in Nat \ {0}, NEW w \in Nat \ {0},
         NEW m \in Nat, m = 2 * (u * w), a < m,
         NEW d \in Nat \ {0}, d <= a,
         NEW q \in 0 .. u - 1, NEW p, Divides(a, d, 2 * w, q, p),
         NEW r, r = Packed(a, u, 2 * w, q, p)
  PROVE  Advances(a, u, w, d, m, r)
<1> USE DEF Advances
<1> DEFINE b == (a \div w) % 2
           t == 2 * p + b
           l == Below(a, u, w, q)
<1>1. /\ b \in {0, 1} /\ t \in Nat /\ a % (2 * w) = (a % w) + w * b
      /\ t < d  => Divides(a, d, w, 2 * q, t)
      /\ t >= d => Divides(a, d, w, 2 * q + 1, t - d)
  BY NextDigit
<1>2. p \in Nat /\ a % w \in Nat
  BY Euclid DEF Divides
<1> HIDE DEF b
<1>3. r = Packed(a, u, w, q, t)
  <2> DEFINE c == a % w
  <2>1. c \in Nat /\ a % (2 * w) = c + w * b
    BY <1>1, <1>2
  <2> HIDE DEF c
  <2>2. p * (2 * w) + (c + w * b) = t * w + c
    BY <1>1, <1>2, <2>1, SMTT(30)
  <2> HIDE DEF t
  <2> QED
    BY <2>1, <2>2 DEF Packed, c
<1> HIDE DEF t
<1>4. /\ l \in 0 .. m - 1 /\ r = m * t + l /\ m * t \in Nat
  BY <1>1, <1>3, Repack
<1> HIDE DEF l
<1>5. r \in Nat /\ m \in Nat \ {0} /\ r \div m = t
  <2>1. m * t = t * m
    BY <1>1, SMTT(30)
  <2>2. r \in Nat /\ m \in Nat \ {0} /\ r = t * m + l
    BY <1>4, <2>1
  <2> QED
    BY <1>1, <1>4, <2>2, ModUnique
<1>6. CASE t < d
  <2>1. Divides(a, d, w, 2 * q, t)
    BY <1>1, <1>6
  <2>2. 2 * t + 2 <= m
    BY <2>1, RoomAbove
  <2>3. /\ ShiftIn(r, 0, m * m) = Packed(a, 2 * u, w, 2 * q + 0, t)
        /\ Packed(a, 2 * u, w, 2 * q + 0, t) \in 0 .. m * m - 1
    BY <1>1, <1>3, <2>2, ShiftsIn
  <2>4. 2 * q + 0 = 2 * q /\ 2 * q \in 0 .. 2 * u - 1
    OBVIOUS
  <2> QED
    BY <1>5, <1>6, <2>1, <2>3, <2>4, Zenon
<1>7. CASE t >= d
  <2>1. Divides(a, d, w, 2 * q + 1, t - d) /\ t - d \in Nat
    BY <1>1, <1>7
  <2>2. 2 * (t - d) + 2 <= m
    BY <2>1, RoomAbove
  <2>3. r - d * m = Packed(a, u, w, q, t - d)
    <3> DEFINE f == t - d
    <3>1. f \in Nat /\ t = f + d
      BY <1>1, <2>1
    <3> HIDE DEF f
    <3>2. m * t = m * f + d * m /\ d * m \in Nat /\ m * f \in Nat
      BY <3>1, SMTT(30)
    <3>3. Packed(a, u, w, q, f) = m * f + l
      BY <3>1, Repack DEF l
    <3> QED
      BY <1>4, <3>2, <3>3 DEF f
  <2>4. /\ ShiftIn(r - d * m, 1, m * m) = Packed(a, 2 * u, w, 2 * q + 1, t - d)
        /\ Packed(a, 2 * u, w, 2 * q + 1, t - d) \in 0 .. m * m - 1
    BY <2>1, <2>2, <2>3, ShiftsIn
  <2>5. 2 * q + 1 \in 0 .. 2 * u - 1
    OBVIOUS
  <2>6. ~(r \div m < d)
    BY <1>1, <1>5, <1>7
  <2> QED
    BY <2>1, <2>4, <2>5, <2>6, Zenon
<1> QED
  BY <1>1, <1>6, <1>7
-----------------------------------------------------------------------------
(* The widths.                                                             *)
LEMMA Powers ==
  /\ Pow2[0] = 1 /\ Pow2[1] = 2
  /\ \A n \in Nat : Pow2[n] \in Nat \ {0} /\ Pow2[n + 1] = 2 * Pow2[n]
  /\ \A m, n \in Nat : Pow2[m + n] = Pow2[m] * Pow2[n]
<1>1. IsPow2(Pow2)
  BY Pow2Exists DEF Pow2, IsPow2
<1> QED
  BY <1>1, Pow2Steps, Pow2Sum

(* The powers of two that the widths of the registers are.                 *)
LEMMA Widths ==
  /\ H \in Nat \ {0} /\ XLEN \in Nat \ {0} /\ XLEN = 2 * H
  /\ Pow2[H] \in Nat \ {0} /\ Pow2[XLEN] \in Nat \ {0} /\ XWord = 0 .. Pow2[XLEN] - 1
  /\ Pow2[H - 1] \in Nat \ {0} /\ Pow2[XLEN - 1] \in Nat \ {0}
  /\ Pow2[H] = 2 * Pow2[H - 1] /\ Pow2[XLEN] = 2 * Pow2[XLEN - 1]
  /\ Pow2[XLEN] = Pow2[H] * Pow2[H] /\ Pow2[XLEN - 1] = Pow2[H - 1] * Pow2[H]
  /\ Pow2[H + 1] = 2 * Pow2[H] /\ Pow2[XLEN + 1] = 2 * Pow2[XLEN]
  /\ Pow2[2 * XLEN] = Pow2[XLEN] * Pow2[XLEN]
  /\ Pow2[2 * XLEN - 1] = Pow2[XLEN - 1] * Pow2[XLEN]
<1>1. H \in Nat \ {0} /\ XLEN \in Nat \ {0} /\ XLEN = 2 * H
  BY WidthAssumption DEF XLEN
<1>2. /\ XLEN = H + H /\ XLEN - 1 = (H - 1) + H /\ H = (H - 1) + 1
      /\ XLEN = (XLEN - 1) + 1 /\ 2 * XLEN = XLEN + XLEN
      /\ 2 * XLEN - 1 = (XLEN - 1) + XLEN
      /\ H - 1 \in Nat /\ XLEN - 1 \in Nat
  BY <1>1
<1>3. /\ Pow2[XLEN] = Pow2[H] * Pow2[H] /\ Pow2[XLEN - 1] = Pow2[H - 1] * Pow2[H]
      /\ Pow2[2 * XLEN] = Pow2[XLEN] * Pow2[XLEN]
      /\ Pow2[2 * XLEN - 1] = Pow2[XLEN - 1] * Pow2[XLEN]
  <2> DEFINE Sum(i, j, k) == i \in Nat /\ j \in Nat /\ k = i + j
  <2>1. ASSUME NEW i, NEW j, NEW k, Sum(i, j, k) PROVE Pow2[k] = Pow2[i] * Pow2[j]
    BY <2>1, Powers
  <2>2. /\ Sum(H, H, XLEN) /\ Sum(H - 1, H, XLEN - 1) /\ Sum(XLEN, XLEN, 2 * XLEN)
        /\ Sum(XLEN - 1, XLEN, 2 * XLEN - 1)
    BY <1>1, <1>2
  <2> HIDE DEF Sum
  <2> QED
    BY <2>1, <2>2, Zenon
<1>4. /\ Pow2[H] = 2 * Pow2[H - 1] /\ Pow2[XLEN] = 2 * Pow2[XLEN - 1]
      /\ Pow2[H + 1] = 2 * Pow2[H] /\ Pow2[XLEN + 1] = 2 * Pow2[XLEN]
  BY <1>1, <1>2, Powers
<1>5. /\ Pow2[H] \in Nat \ {0} /\ Pow2[XLEN] \in Nat \ {0}
      /\ Pow2[H - 1] \in Nat \ {0} /\ Pow2[XLEN - 1] \in Nat \ {0}
  BY <1>1, <1>2, Powers
<1> QED
  BY <1>1, <1>3, <1>4, <1>5 DEF XWord

(* An operand of n bits in the top of m = n * s, and its magnitude.        *)
Signed(sign, z, n, half) == IF sign /\ z >= half THEN z - n ELSE z
ShiftedUp(sign, z, m, s, k) == IF sign /\ z * s >= k THEN (m - z * s) % m ELSE z * s
(* What the alignment keeps: the sign bit, and the magnitude in its place. *)
IsAligned(sign, z, n, half, m, s, k) ==
  LET A == Signed(sign, z, n, half)
      M == ShiftedUp(sign, z, m, s, k)
  IN  /\ A \in Int /\ Abs(A) \in 0 .. n - 1
      /\ M = Abs(A) * s /\ M \in 0 .. m - 1
      /\ sign => (z * s >= k <=> A < 0) /\ 2 * M <= m
      /\ ~sign => A >= 0

(* The sign and the magnitude survive the alignment (divide.sv:38-61).     *)
LEMMA Alignment ==
  ASSUME NEW s \in Nat \ {0}, NEW half \in Nat \ {0}, NEW n \in Nat, n = 2 * half,
         NEW k \in Nat \ {0}, k = half * s, NEW m \in Nat, m = 2 * k,
         NEW z \in 0 .. n - 1, NEW sign \in BOOLEAN
  PROVE  IsAligned(sign, z, n, half, m, s, k)
<1> USE DEF IsAligned
<1> DEFINE x == z * s
<1>1. z \in Nat /\ z + 1 <= n /\ n \in Nat \ {0}
  OBVIOUS
<1>2. (z + 1) * s <= n * s /\ (z + 1) * s = x + s /\ n * s = m /\ x \in Nat
  <2>1. (z + 1) * s <= n * s
    BY <1>1, TimesMonotone
  <2>2. (z + 1) * s = x + s /\ n * s = m /\ x \in Nat
    BY <1>1, SMTT(30)
  <2> QED
    BY <2>1, <2>2
<1>3. half <= z <=> half * s <= z * s
  BY <1>1, TimesMonotone
<1> HIDE DEF x
<1>4. half <= z <=> k <= x
  BY <1>3 DEF x
<1>5. m \in Nat \ {0} /\ x \in 0 .. m - 1
  BY <1>2
<1>6. CASE sign /\ z >= half
  <2>1. (n - z) * s = m - x
    BY <1>1, <1>2, SMTT(30) DEF x
  <2> DEFINE y == m - x
  <2>2. y \in Nat /\ y < m /\ 2 * y <= m
    BY <1>2, <1>4, <1>6
  <2> HIDE DEF y
  <2>3. y % m = y
    BY <1>5, <2>2, Small
  <2>4. /\ Signed(sign, z, n, half) = z - n /\ z - n < 0 /\ z - n \in Int
        /\ Abs(z - n) = n - z /\ n - z \in 0 .. n - 1
    BY <1>1, <1>6 DEF Signed, Abs
  <2>5. ShiftedUp(sign, z, m, s, k) = y
    BY <1>4, <1>5, <1>6, <2>3 DEF ShiftedUp, x, y
  <2>6. y = Abs(z - n) * s
    BY <2>1, <2>4 DEF y
  <2>7. /\ y = Abs(z - n) * s /\ y \in 0 .. m - 1
        /\ sign => (x >= k <=> z - n < 0) /\ 2 * y <= m
        /\ ~sign => z - n >= 0
    BY <1>2, <1>4, <1>6, <2>2, <2>4, <2>6
  <2> QED
    BY <2>4, <2>5, <2>7, Zenon DEF x
<1>7. CASE ~(sign /\ z >= half)
  <2>1. /\ Signed(sign, z, n, half) = z /\ Abs(z) = z
    BY <1>1, <1>7 DEF Signed, Abs
  <2>2. ShiftedUp(sign, z, m, s, k) = x
    BY <1>1, <1>4, <1>5, <1>7 DEF ShiftedUp, x
  <2>3. x = Abs(z) * s
    BY <2>1 DEF x
  <2>4. sign => 2 * x <= m /\ ~(x >= k)
    BY <1>1, <1>4, <1>5, <1>7
  <2> QED
    BY <1>1, <1>5, <2>1, <2>2, <2>3, <2>4 DEF x
<1> QED
  BY <1>6, <1>7

(* The operands of an instruction.                                         *)
Modulus(i) == IF i.word THEN Pow2[H] ELSE Pow2[XLEN]
Lift(i) == IF i.word THEN Pow2[H] ELSE 1

(* The same of a request's operands: lifted magnitudes.                    *)
LEMMA Operands ==
  ASSUME NEW i \in Request, NEW v \in XWord
  PROVE  /\ Operand(i, v) \in Int /\ Abs(Operand(i, v)) \in 0 .. Modulus(i) - 1
         /\ Magnitude(i, v) = Abs(Operand(i, v)) * Lift(i)
         /\ Magnitude(i, v) \in 0 .. Pow2[XLEN] - 1
         /\ i.sign => /\ Top(i.word, v) <=> Operand(i, v) < 0
                      /\ 2 * Magnitude(i, v) <= Pow2[XLEN]
         /\ ~i.sign => Operand(i, v) >= 0
<1>2. i.word \in BOOLEAN /\ i.sign \in BOOLEAN
  <2>1. CASE i = NoRequest
    BY <2>1 DEF NoRequest
  <2>2. CASE i # NoRequest
    BY <2>2 DEF Request
  <2> QED
    BY <2>1, <2>2
<1> DEFINE m == Pow2[XLEN]
           h == Pow2[H]
           k == Pow2[XLEN - 1]
           g == Pow2[H - 1]
<1>1. /\ m \in Nat \ {0} /\ h \in Nat \ {0} /\ k \in Nat \ {0} /\ g \in Nat \ {0}
      /\ h = 2 * g /\ m = 2 * k /\ k = g * h /\ v \in 0 .. m - 1
  BY Widths
<1>3. v \in Nat /\ v % h \in 0 .. h - 1
  <2> HIDE DEF h, m, k, g
  <2>1. v \in Nat /\ h \in Nat \ {0}
    BY <1>1
  <2> QED
    BY <2>1, Euclid
<1>4. CASE i.word
  <2> DEFINE z == v % h
  <2>1. Operand(i, v) = Signed(i.sign, z, h, g)
    BY <1>4 DEF Operand, Signed
  <2>2. Magnitude(i, v) = ShiftedUp(i.sign, z, m, h, k)
    BY <1>4 DEF Magnitude, ShiftedUp, Align, Top, Negate
  <2>3. Top(i.word, v) <=> z * h >= k
    BY <1>4 DEF Align, Top
  <2>4. Modulus(i) = h /\ Lift(i) = h
    BY <1>4 DEF Modulus, Lift
  <2>5. z \in 0 .. h - 1
    BY <1>3
  <2> HIDE DEF z, h, g, k, m
  <2>6. IsAligned(i.sign, z, h, g, m, h, k)
    BY <1>1, <1>2, <2>5, Alignment
  <2> QED
    BY <2>1, <2>2, <2>3, <2>4, <2>6, Zenon DEF IsAligned, m
<1>5. CASE ~i.word
  <2>1. v % m = v /\ v * 1 = v
    BY <1>1, <1>3, Small
  <2>2. Operand(i, v) = Signed(i.sign, v, m, k)
    BY <1>5, <2>1 DEF Operand, Signed
  <2>3. Magnitude(i, v) = ShiftedUp(i.sign, v, m, 1, k)
    BY <1>5, <2>1 DEF Magnitude, ShiftedUp, Align, Top, Negate
  <2>4. Top(i.word, v) <=> v * 1 >= k
    BY <1>5, <2>1 DEF Align, Top
  <2>5. Modulus(i) = m /\ Lift(i) = 1
    BY <1>5 DEF Modulus, Lift
  <2> HIDE DEF h, g, k, m
  <2>6. 1 \in Nat \ {0} /\ k = k * 1
    BY <1>1
  <2>7. IsAligned(i.sign, v, m, k, m, 1, k)
    BY <1>1, <1>2, <2>6, Alignment
  <2> QED
    BY <2>2, <2>3, <2>4, <2>5, <2>7, Zenon DEF IsAligned, m
<1> QED
  BY <1>2, <1>4, <1>5
-----------------------------------------------------------------------------
(* Negative numbers in complement.                                         *)
Minus(b, z) == IF b THEN -z ELSE z

(* Negation in m values is negation of the number, truncated.              *)
LEMMA Complement ==
  ASSUME NEW m \in Nat \ {0}, NEW Q \in 0 .. m - 1, NEW b \in BOOLEAN
  PROVE  (IF b THEN (m - Q) % m ELSE Q) = Minus(b, Q) % m
<1>1. Q \in Nat /\ Q % m = Q
  BY Small
<1>2. (1 * m + (-Q)) % m = (-Q) % m /\ 1 * m + (-Q) = m - Q
  <2>1. PICK j \in Int : j = -Q
    OBVIOUS
  <2>2. PICK k \in Int : k = 1
    OBVIOUS
  <2>3. (k * m + j) % m = j % m
    BY ModOfMultiple
  <2> QED
    BY <2>1, <2>2, <2>3
<1> QED
  BY <1>1, <1>2 DEF Minus

(* The quotient is rounded towards zero, the remainder has the sign of the *)
(* dividend.                                                               *)
LEMMA Truncated ==
  ASSUME NEW A \in Int, NEW B \in Int, B # 0
  PROVE  /\ Quotient(A, B) = Minus((A < 0) # (B < 0), Abs(A) \div Abs(B))
         /\ A - B * Quotient(A, B) = Minus(A < 0, Abs(A) % Abs(B))
         /\ Abs(A) \div Abs(B) \in Nat /\ Abs(A) % Abs(B) \in 0 .. Abs(B) - 1
<1> DEFINE a == Abs(A)
           b == Abs(B)
           q == a \div b
           r == a % b
<1>1. /\ a \in Nat /\ b \in Nat \ {0}
      /\ A = Minus(A < 0, a) /\ B = Minus(B < 0, b)
  BY DEF Abs, Minus
<1>2. q \in Nat /\ r \in 0 .. b - 1 /\ a = q * b + r /\ q * b \in Nat
  BY <1>1, Euclid
<1>3. Quotient(A, B) = Minus((A < 0) # (B < 0), q)
  BY DEF Quotient, Minus
<1> HIDE DEF a, b, q, r
<1>4. /\ b * q = q * b /\ (-b) * q = -(q * b)
      /\ b * (-q) = -(q * b) /\ (-b) * (-q) = q * b
  BY <1>1, <1>2, SMTT(30)
<1>5. A - B * Quotient(A, B) = Minus(A < 0, r)
  BY <1>1, <1>2, <1>3, <1>4 DEF Minus
<1> QED
  BY <1>2, <1>3, <1>5 DEF a, b, q, r

(* The magnitudes are to each other as the operands.                       *)
LEMMA Proportion ==
  ASSUME NEW i \in Request, NEW x \in XWord, NEW y \in XWord
  PROVE  LET a == Magnitude(i, x)
             d == Magnitude(i, y)
             A == Abs(Operand(i, x))
             B == Abs(Operand(i, y))
         IN  /\ d = 0 <=> Operand(i, y) = 0
             /\ a < d <=> A < B
             /\ EarlyRef(i, x, y) <=> d = 0 \/ a < d
             /\ d # 0 => a \div d = A \div B /\ a % d = (A % B) * Lift(i)
<1> DEFINE a == Magnitude(i, x)
           d == Magnitude(i, y)
           A == Abs(Operand(i, x))
           B == Abs(Operand(i, y))
           s == Lift(i)
<1>1. s \in Nat \ {0}
  BY Widths DEF Lift
<1>2. A \in Nat /\ B \in Nat /\ a = A * s /\ d = B * s
  BY Operands
<1>3. Operand(i, y) = 0 <=> B = 0
  <2>1. Operand(i, y) \in Int
    BY Operands
  <2> QED
    BY <2>1 DEF Abs
<1>4. EarlyRef(i, x, y) <=> Operand(i, y) = 0 \/ A < B
  BY DEF EarlyRef
<1> HIDE DEF a, d, A, B, s
<1>5. /\ d = 0 <=> B = 0
      /\ a < d <=> A < B
  BY <1>1, <1>2, Scale
<1>6. /\ d = 0 <=> Operand(i, y) = 0
      /\ a < d <=> A < B
      /\ d # 0 => a \div d = A \div B /\ a % d = (A % B) * s
  <2>1. ASSUME d # 0 PROVE a \div d = A \div B /\ a % d = (A % B) * s
    <3>1. A \in Nat /\ B \in Nat \ {0} /\ a = A * s /\ d = B * s
      BY <1>2, <1>5, <2>1
    <3>2. a \in Nat /\ d \in Nat
      BY <1>1, <3>1, SMTT(30)
    <3>3. Scaled(a, d, A, B, s)
      BY <1>1, <3>1, <3>2, ScaleDiv
    <3> QED
      BY <3>3 DEF Scaled
  <2> QED
    BY <1>3, <1>5, <2>1
<1>7. EarlyRef(i, x, y) <=> d = 0 \/ a < d
  BY <1>4, <1>6
<1> QED
  BY <1>6, <1>7 DEF a, d, A, B, s

(* A result is truncated, or extended, to the width of a word.             *)
LEMMA ResultIsWord ==
  ASSUME NEW i, NEW z \in Int
  PROVE  Result(i, z) \in XWord
<1> DEFINE m == Pow2[XLEN]
           h == Pow2[H]
           g == Pow2[H - 1]
<1>1. /\ m \in Nat \ {0} /\ h \in Nat \ {0} /\ h <= m /\ XWord = 0 .. m - 1
  <2>1. h \in Nat \ {0} /\ m = h * h /\ XWord = 0 .. m - 1
    BY Widths
  <2> HIDE DEF h, m
  <2>2. h <= h * h /\ h * h \in Nat \ {0}
    BY <2>1, SMTT(30)
  <2> QED
    BY <2>1, <2>2
<1> HIDE DEF m, h, g
<1>2. z % m \in 0 .. m - 1 /\ z % h \in 0 .. h - 1
  BY <1>1, IntEuclid
<1> DEFINE e == z % h
<1>3. SextWord(e) = IF e >= g THEN e + m - h ELSE e
  BY DEF SextWord, g, m, h
<1>4. e \in 0 .. h - 1 /\ e \in Nat
  BY <1>2
<1> HIDE DEF e
<1>5. SextWord(e) \in 0 .. m - 1
  BY <1>1, <1>3, <1>4
<1>6. CASE i.word
  BY <1>1, <1>5, <1>6 DEF Result, h, e
<1>7. CASE ~i.word
  BY <1>1, <1>2, <1>7 DEF Result, m
<1> QED
  BY <1>6, <1>7

(* So the answers the instruction set asks for are words.                  *)
LEMMA AnswersAreWords ==
  ASSUME NEW i \in Request, NEW x \in XWord, NEW y \in XWord
  PROVE  DivRef(i, x, y) \in XWord /\ RemRef(i, x, y) \in XWord
<1> DEFINE A == Operand(i, x)
           B == Operand(i, y)
<1>1. A \in Int /\ B \in Int
  BY Operands
<1>2. DivRef(i, x, y) = Result(i, IF B = 0 THEN -1 ELSE Quotient(A, B))
  BY DEF DivRef
<1>3. RemRef(i, x, y) = Result(i, IF B = 0 THEN A ELSE A - B * Quotient(A, B))
  BY DEF RemRef
<1> HIDE DEF A, B
<1>4. CASE B = 0
  <2>1. -1 \in Int
    OBVIOUS
  <2> QED
    BY <1>1, <1>2, <1>3, <1>4, <2>1, ResultIsWord
<1>5. CASE B # 0
  <2>1. /\ Quotient(A, B) = Minus((A < 0) # (B < 0), Abs(A) \div Abs(B))
        /\ A - B * Quotient(A, B) = Minus(A < 0, Abs(A) % Abs(B))
        /\ Abs(A) \div Abs(B) \in Nat /\ Abs(A) % Abs(B) \in Int
    BY <1>1, <1>5, Truncated
  <2>2. Quotient(A, B) \in Int /\ A - B * Quotient(A, B) \in Int
    BY <2>1 DEF Minus
  <2> QED
    BY <1>2, <1>3, <1>5, <2>2, ResultIsWord
<1> QED
  BY <1>4, <1>5
-----------------------------------------------------------------------------
(* What the sign bits of the aligned operands say.                         *)
LEMMA SignBits ==
  ASSUME NEW i \in Request, NEW x \in XWord, NEW y \in XWord
  PROVE  /\ (i.sign /\ Top(i.word, x)) <=> Operand(i, x) < 0
         /\ (i.sign /\ Top(i.word, x) # Top(i.word, y))
              <=> (Operand(i, x) < 0) # (Operand(i, y) < 0)
         /\ ~i.sign => Operand(i, x) >= 0 /\ Operand(i, y) >= 0
<1>1. Operand(i, x) \in Int /\ Operand(i, y) \in Int
  BY Operands
<1>2. /\ i.sign => (Top(i.word, x) <=> Operand(i, x) < 0)
      /\ i.sign => (Top(i.word, y) <=> Operand(i, y) < 0)
  BY Operands
<1>3. ~i.sign => Operand(i, x) >= 0 /\ Operand(i, y) >= 0
  BY Operands
<1>4. ~i.sign => ~(Operand(i, x) < 0) /\ ~(Operand(i, y) < 0)
  BY <1>1, <1>3
<1>5. Top(i.word, x) \in BOOLEAN /\ Top(i.word, y) \in BOOLEAN
  BY DEF Top
<1> QED
  BY <1>2, <1>3, <1>4, <1>5

(* The complement of a word is the result of the negated number.           *)
LEMMA NegatedResult ==
  ASSUME NEW i, NEW Q \in XWord, NEW b \in BOOLEAN
  PROVE  /\ NegateIf(b, Q) = Minus(b, Q) % Pow2[XLEN]
         /\ NegateIf(b, Q) % Pow2[H] = Minus(b, Q) % Pow2[H]
         /\ Result(i, Minus(b, Q)) = IF i.word THEN SextWord(NegateIf(b, Q) % Pow2[H])
                                     ELSE NegateIf(b, Q)
<1> DEFINE m == Pow2[XLEN]
           h == Pow2[H]
           z == Minus(b, Q)
<1>1. m \in Nat \ {0} /\ h \in Nat \ {0} /\ m = h * h /\ Q \in 0 .. m - 1
  BY Widths
<1>2. NegateIf(b, Q) = IF b THEN (m - Q) % m ELSE Q
  BY DEF NegateIf, Negate
<1> HIDE DEF m, h
<1>3. z \in Int
  BY <1>1 DEF Minus
<1>4. NegateIf(b, Q) = z % m
  BY <1>1, <1>2, Complement
<1> HIDE DEF z
<1>5. Reduces(z, m, h)
  BY <1>1, <1>3, ModOfMod
<1> QED
  BY <1>4, <1>5 DEF Reduces, Result, m, h, z

(* The quotient register after the last step, as decoded.                  *)
LEMMA QuotientOut ==
  ASSUME NEW i \in Request, NEW x \in XWord, NEW y \in XWord,
         Magnitude(i, y) # 0, NEW q, q = Magnitude(i, x) \div Magnitude(i, y)
  PROVE  LET b == i.sign /\ Top(i.word, x) # Top(i.word, y)
             z == NegateIf(b, q)
         IN  DivRef(i, x, y) = IF i.word THEN SextWord(z % Pow2[H]) ELSE z
<1> DEFINE A == Operand(i, x)
           B == Operand(i, y)
           b == i.sign /\ Top(i.word, x) # Top(i.word, y)
<1>1. A \in Int /\ B \in Int /\ B # 0 /\ q = Abs(A) \div Abs(B)
  BY Operands, Proportion
<1>2. b <=> (A < 0) # (B < 0)
  BY SignBits
<1>3. DivRef(i, x, y) = Result(i, Quotient(A, B))
  BY <1>1 DEF DivRef
<1>4. q \in XWord
  <2> DEFINE m == Pow2[XLEN]
             a == Magnitude(i, x)
             d == Magnitude(i, y)
  <2>1. a \in 0 .. m - 1 /\ d \in 0 .. m - 1 /\ d # 0 /\ XWord = 0 .. m - 1 /\ m \in Nat
    BY Operands, Widths
  <2>2. q = a \div d
    OBVIOUS
  <2> HIDE DEF m, a, d
  <2>3. a \in Nat /\ d \in Nat \ {0}
    BY <2>1
  <2>4. q \in Nat /\ q * d \in Nat /\ q * d <= a
    BY <2>2, <2>3, RoundDown, Euclid
  <2>5. q <= q * d
    BY <2>3, <2>4, SMTT(30)
  <2> QED
    BY <2>1, <2>3, <2>4, <2>5
<1> HIDE DEF A, B, b
<1>5. Quotient(A, B) = Minus(b, q)
  <2>1. Quotient(A, B) = Minus((A < 0) # (B < 0), q)
    BY <1>1, Truncated
  <2> QED
    BY <1>2, <2>1 DEF Minus
<1>6. b \in BOOLEAN
  BY DEF b
<1>7. Result(i, Minus(b, q)) = IF i.word THEN SextWord(NegateIf(b, q) % Pow2[H])
                               ELSE NegateIf(b, q)
  BY <1>4, <1>6, NegatedResult
<1> QED
  BY <1>3, <1>5, <1>7 DEF b

(* A number in the upper half of a word, negated and brought down.         *)
LEMMA LiftedNegate ==
  ASSUME NEW h \in Nat \ {0}, NEW m \in Nat, m = h * h, NEW c \in 0 .. h - 1,
         NEW b \in BOOLEAN
  PROVE  (IF b THEN (m - c * h) % m ELSE c * h) \div h = Minus(b, c) % h
<1> DEFINE e == (h - c) % h
           n == h - c
           x == m - c * h
<1>1. c \in Nat /\ n \in Nat
  OBVIOUS
<1>2. (IF b THEN n % h ELSE c) = Minus(b, c) % h
  BY Complement
<1>3. x = n * h /\ x \in Nat
  <2>1. (h - c) * h = m - c * h /\ (h - c) * h \in Nat
    BY <1>1, SMTT(30)
  <2> QED
    BY <2>1
<1> HIDE DEF n, x
<1>4. Scaled(x, m, n, h, h)
  BY <1>1, <1>3, ScaleDiv
<1>5. x % m = (n % h) * h
  BY <1>4 DEF Scaled
<1>6. ASSUME NEW f \in Nat, NEW y \in Nat, y = f * h PROVE y \div h = f
  BY <1>6, DivUnique
<1>7. n % h \in Nat
  BY <1>1, Euclid
<1>8. x % m \in Nat /\ c * h \in Nat
  BY <1>1, <1>5, <1>7, SMTT(30)
<1>9. (x % m) \div h = n % h
  BY <1>5, <1>6, <1>7, <1>8
<1>10. (c * h) \div h = c
  BY <1>1, <1>6, <1>8
<1> QED
  BY <1>2, <1>9, <1>10 DEF x, n

(* A remainder is less than half of what is divided.                       *)
LEMMA HalfAtMost ==
  ASSUME NEW a \in Nat, NEW d \in Nat \ {0}, d <= a
  PROVE  2 * (a % d) < a
<1> DEFINE q == a \div d
           r == a % d
<1>1. q \in Nat /\ r \in 0 .. d - 1 /\ a = q * d + r
  BY Euclid
<1> HIDE DEF q, r
<1>2. q # 0
  <2>1. ASSUME q = 0 PROVE FALSE
    <3>1. a = r
      BY <1>1, <2>1
    <3> QED
      BY <1>1, <3>1
  <2> QED
    BY <2>1
<1>3. q * d >= d
  BY <1>1, <1>2, SMTT(30)
<1>4. 2 * r < a
  <2>1. q * d \in Nat
    BY <1>1, SMTT(30)
  <2> QED
    BY <1>1, <1>3, <2>1
<1> QED
  BY <1>4 DEF r

(* The partial remainder after the last step, as decoded.                  *)
LEMMA RemainderOut ==
  ASSUME NEW i \in Request, NEW x \in XWord, NEW y \in XWord,
         Magnitude(i, y) # 0, ~(Magnitude(i, x) < Magnitude(i, y)),
         NEW p, p = Magnitude(i, x) % Magnitude(i, y)
  PROVE  LET r == NegateIf(i.sign /\ Top(i.word, x), p)
         IN  RemRef(i, x, y) = CASE i.sign /\ i.word   -> SextWord(r \div Pow2[H])
                                 [] i.sign /\ ~i.word  -> r
                                 [] ~i.sign /\ i.word  -> p \div Pow2[H]
                                 [] ~i.sign /\ ~i.word -> p
<1> DEFINE A == Operand(i, x)
           B == Operand(i, y)
           b == i.sign /\ Top(i.word, x)
           c == Abs(A) % Abs(B)
           h == Pow2[H]
           m == Pow2[XLEN]
           g == Pow2[H - 1]
<1>1. /\ m \in Nat \ {0} /\ h \in Nat \ {0} /\ g \in Nat \ {0}
      /\ m = h * h /\ h = 2 * g /\ XWord = 0 .. m - 1
  BY Widths
<1>2. /\ A \in Int /\ B \in Int /\ B # 0 /\ ~(Abs(A) < Abs(B))
      /\ p = c * Lift(i)
  BY Operands, Proportion
<1>3. (b <=> A < 0) /\ (~i.sign => ~b)
  BY SignBits
<1>4. Abs(A) \in 0 .. Modulus(i) - 1 /\ Abs(B) \in 0 .. Modulus(i) - 1
  BY Operands
<1>5. i.sign \in BOOLEAN /\ i.word \in BOOLEAN
  <2>1. CASE i = NoRequest
    BY <2>1 DEF NoRequest
  <2>2. CASE i # NoRequest
    BY <2>2 DEF Request
  <2> QED
    BY <2>1, <2>2
<1>6. RemRef(i, x, y) = Result(i, A - B * Quotient(A, B))
  BY <1>2 DEF RemRef
<1>7. /\ A - B * Quotient(A, B) = Minus(A < 0, c)
      /\ c \in 0 .. Abs(B) - 1
  BY <1>2, Truncated
<1>8. Minus(A < 0, c) = Minus(b, c)
  BY <1>3 DEF Minus
<1>9. RemRef(i, x, y) = Result(i, Minus(b, c))
  BY <1>6, <1>7, <1>8
<1>10. 2 * c < Abs(A) /\ Abs(A) \in Nat /\ Abs(B) \in Nat
  <2>1. Abs(A) \in Nat /\ Abs(B) \in Nat \ {0}
    BY <1>2 DEF Abs
  <2>2. 2 * (Abs(A) % Abs(B)) < Abs(A)
    <3> DEFINE aa == Abs(A)
               bb == Abs(B)
    <3>1. aa \in Nat /\ bb \in Nat \ {0} /\ bb <= aa
      BY <1>2, <2>1
    <3> HIDE DEF aa, bb
    <3>2. 2 * (aa % bb) < aa
      BY <3>1, HalfAtMost
    <3> QED
      BY <3>2 DEF aa, bb
  <2> QED
    BY <2>1, <2>2
<1>11. b \in BOOLEAN
  BY <1>5 DEF b, Top
<1>12. c \in Nat /\ 2 * c < Modulus(i)
  <2>1. Modulus(i) \in Nat
    BY <1>1 DEF Modulus
  <2> HIDE DEF A, B, c
  <2> QED
    BY <1>4, <1>7, <1>10, <2>1
<1> HIDE DEF A, B, b, c, h, m, g
<1>13. CASE ~i.word
  <2>1. p = c /\ c \in XWord
    BY <1>1, <1>2, <1>12, <1>13 DEF Lift, Modulus, m
  <2>2. RemRef(i, x, y) = NegateIf(b, p)
    BY <1>9, <1>11, <1>13, <2>1, NegatedResult
  <2>3. ~b => NegateIf(b, p) = p
    BY DEF NegateIf
  <2> QED
    BY <1>3, <1>5, <1>13, <2>2, <2>3 DEF b
<1>14. CASE i.word
  <2>1. p = c * h /\ c \in 0 .. h - 1 /\ 2 * c < h
    BY <1>1, <1>2, <1>12, <1>14 DEF Lift, Modulus, h
  <2>2. NegateIf(b, p) = IF b THEN (m - c * h) % m ELSE c * h
    BY <2>1 DEF NegateIf, Negate, m
  <2>3. NegateIf(b, p) \div h = Minus(b, c) % h
    BY <1>1, <1>11, <2>1, <2>2, LiftedNegate
  <2>4. RemRef(i, x, y) = SextWord(Minus(b, c) % h)
    BY <1>9, <1>14 DEF Result, h
  <2>5. CASE i.sign
    BY <1>14, <2>3, <2>4, <2>5 DEF b, h
  <2>6. CASE ~i.sign
    <3>1. ~b /\ NegateIf(b, p) = p /\ Minus(b, c) = c
      BY <1>3, <2>6 DEF NegateIf, Minus
    <3>2. c % h = c
      BY <1>1, <1>12, <2>1, Small
    <3>3. SextWord(c) = c
      <4>1. ~(c >= g)
        BY <1>1, <2>1
      <4> QED
        BY <4>1 DEF SextWord, g
    <3> QED
      BY <1>14, <2>3, <2>4, <2>6, <3>1, <3>2, <3>3 DEF h
  <2> QED
    BY <1>5, <2>5, <2>6
<1> QED
  BY <1>5, <1>13, <1>14

(* Twice reduced, the complement is the negative.                          *)
NegatedIn(c, k, h) == ((k - c) % k) % h = (-c) % h

(* Negating a wide register and slicing that negates the slice             *)
(* (divide.sv:120, 133).                                                   *)
LEMMA NegatedTwice ==
  ASSUME NEW j \in Nat \ {0}, NEW h \in Nat \ {0}, NEW k \in Nat, k = j * h,
         NEW c \in Nat, c <= k
  PROVE  NegatedIn(c, k, h)
<1>1. PICK f \in Int : f = -c
  OBVIOUS
<1>2. j \in Int /\ k \in Nat \ {0} /\ k - c \in Int /\ k - c = j * h + f
  BY <1>1, Positive
<1>3. (j * h + f) % h = f % h
  BY <1>2, ModOfMultiple
<1>4. ((k - c) % k) % h = (k - c) % h
  <2> DEFINE z == k - c
  <2>1. z \in Int /\ k \in Nat \ {0}
    BY <1>2
  <2> HIDE DEF z
  <2>2. Reduces(z, k, h)
    BY <2>1, ModOfMod
  <2> QED
    BY <2>2 DEF Reduces, z
<1> QED
  BY <1>1, <1>2, <1>3, <1>4 DEF NegatedIn

(* The dividend of a word form, negated over the whole register and taken  *)
(* from the middle of it.                                                  *)
LEMMA EarlyWord ==
  ASSUME NEW g \in Nat \ {0}, NEW h \in Nat \ {0}, h = 2 * g,
         NEW m \in Nat, m = h * h, NEW n \in Nat, n = m * m,
         NEW c \in 0 .. h - 1, NEW b \in BOOLEAN
  PROVE  ((IF b THEN (n - 2 * (c * h)) % n ELSE 2 * (c * h)) \div (2 * h)) % h
           = Minus(b, c) % h
<1> DEFINE t == 2 * h
           j == g * h
           k == j * h
           z == k - c
           x == z * t
<1>1. c \in Nat /\ t \in Nat \ {0} /\ 2 * (c * h) = c * t
  BY SMTT(30)
<1>2. j \in Nat \ {0} /\ k \in Nat \ {0} /\ h <= k
  <2>1. j \in Nat \ {0}
    BY Positive
  <2> HIDE DEF j
  <2>2. j * h \in Nat \ {0}
    BY <2>1, Positive
  <2>3. h <= j * h
    BY <2>1, SMTT(30)
  <2> QED
    BY <2>1, <2>2, <2>3
<1>3. n = k * t
  <2>1. m = 2 * j
    BY SMTT(30)
  <2> HIDE DEF j
  <2>2. m * m = (j * h) * (2 * h)
    <3>1. m * m = (2 * j) * (h * h)
      BY <2>1
    <3> QED
      BY <1>2, <3>1, SMTT(30)
  <2> QED
    BY <2>2
<1> HIDE DEF t, k, j
<1>4. z \in Nat /\ x = n - c * t /\ x \in Nat /\ c * t \in Nat
  <2>1. z \in Nat
    BY <1>1, <1>2
  <2>2. (k - c) * t = k * t - c * t /\ c * t \in Nat
    BY <1>1, <1>2, SMTT(30)
  <2>3. x \in Nat
    <3> HIDE DEF z
    <3> QED
      BY <1>1, <2>1, SMTT(30)
  <2> QED
    BY <1>3, <2>1, <2>2, <2>3
<1> HIDE DEF z, x
<1>5. Scaled(x, n, z, k, t)
  BY <1>1, <1>2, <1>3, <1>4, ScaleDiv DEF x
<1>6. x % n = (z % k) * t
  BY <1>5 DEF Scaled
<1>7. ASSUME NEW f \in Nat, NEW y \in Nat, y = f * t PROVE y \div t = f
  BY <1>1, <1>7, DivUnique
<1>8. z % k \in Nat
  BY <1>2, <1>4, Euclid
<1>9. x % n \in Nat
  BY <1>1, <1>6, <1>8, SMTT(30)
<1>10. (x % n) \div t = z % k /\ (c * t) \div t = c
  BY <1>1, <1>4, <1>6, <1>7, <1>8, <1>9
<1>11. (z % k) % h = (-c) % h
  <2>1. c \in Nat /\ c <= k /\ k \in Nat /\ k = j * h
    BY <1>1, <1>2 DEF k
  <2>2. NegatedIn(c, k, h)
    BY <1>2, <2>1, NegatedTwice
  <2> QED
    BY <2>2 DEF NegatedIn, z
<1> QED
  BY <1>1, <1>4, <1>10, <1>11 DEF Minus, t

(* A trivial division: of the dividend, one bit up in the register.        *)
LEMMA TrivialOut ==
  ASSUME NEW i \in Request, NEW x \in XWord, NEW y \in XWord,
         Magnitude(i, y) = 0 \/ Magnitude(i, x) < Magnitude(i, y)
  PROVE  LET b == i.sign /\ Top(i.word, x)
             a == Magnitude(i, x)
             whole == IF b THEN Negate(2 * a, 2 * XLEN) ELSE 2 * a
         IN  /\ DivRef(i, x, y) = IF Magnitude(i, y) = 0 THEN Pow2[XLEN] - 1 ELSE 0
             /\ RemRef(i, x, y) = IF i.word THEN SextWord(Slice(whole, XLEN, H + 1))
                                  ELSE NegateIf(b, Slice(2 * a, XLEN, 1))
<1> DEFINE A == Operand(i, x)
           B == Operand(i, y)
           b == i.sign /\ Top(i.word, x)
           c == Abs(A)
           a == Magnitude(i, x)
           d == Magnitude(i, y)
           h == Pow2[H]
           m == Pow2[XLEN]
           g == Pow2[H - 1]
           n == Pow2[2 * XLEN]
           whole == IF b THEN Negate(2 * a, 2 * XLEN) ELSE 2 * a
<1>1. /\ m \in Nat \ {0} /\ h \in Nat \ {0} /\ g \in Nat \ {0}
      /\ m = h * h /\ h = 2 * g /\ XWord = 0 .. m - 1 /\ n = m * m
      /\ Pow2[H + 1] = 2 * h /\ Pow2[1] = 2
  BY Widths, Powers
<1>2. /\ A \in Int /\ B \in Int /\ a = c * Lift(i) /\ a \in 0 .. m - 1
      /\ c \in 0 .. Modulus(i) - 1 /\ (d = 0 <=> B = 0) /\ (a < d <=> c < Abs(B))
  BY Operands, Proportion
<1>3. b <=> A < 0
  BY SignBits
<1>4. i.word \in BOOLEAN /\ b \in BOOLEAN
  <2>1. CASE i = NoRequest
    BY <2>1 DEF NoRequest, Top
  <2>2. CASE i # NoRequest
    BY <2>2 DEF Request, Top
  <2> QED
    BY <2>1, <2>2
<1>5. A = Minus(b, c) /\ c \in Nat
  BY <1>2, <1>3 DEF Abs, Minus
<1>6. RemRef(i, x, y) = Result(i, IF B = 0 THEN A ELSE A - B * Quotient(A, B))
  BY DEF RemRef
<1>7. DivRef(i, x, y) = Result(i, IF B = 0 THEN -1 ELSE Quotient(A, B))
  BY DEF DivRef
<1>8. d = 0 \/ a < d
  OBVIOUS
<1> HIDE DEF A, B, b, c, a, d, h, m, g, n, whole
<1>9. ASSUME B # 0
      PROVE  Quotient(A, B) = 0 /\ A - B * Quotient(A, B) = A
  <2>1. Abs(B) \in Nat \ {0} /\ c < Abs(B)
    BY <1>2, <1>8, <1>9 DEF Abs
  <2>2. c \div Abs(B) = 0 /\ c % Abs(B) = c
    BY <1>5, <2>1, Small
  <2>3. /\ Quotient(A, B) = Minus((A < 0) # (B < 0), c \div Abs(B))
        /\ A - B * Quotient(A, B) = Minus(A < 0, c % Abs(B))
    BY <1>2, <1>9, Truncated DEF c
  <2>4. Minus(A < 0, c) = A
    BY <1>3, <1>5 DEF Minus
  <2> QED
    BY <2>2, <2>3, <2>4 DEF Minus
<1>10. RemRef(i, x, y) = Result(i, Minus(b, c))
  BY <1>5, <1>6, <1>9
<1>11. DivRef(i, x, y) = IF d = 0 THEN m - 1 ELSE 0
  <2>1. CASE d = 0
    <3>1. DivRef(i, x, y) = Result(i, -1)
      BY <1>2, <1>7, <2>1
    <3>2. ASSUME NEW k \in Nat \ {0} PROVE (-1) % k = k - 1
      <4>1. PICK f \in Int : f = -1
        OBVIOUS
      <4>2. f = f * k + (k - 1) /\ k - 1 \in 0 .. k - 1
        BY <4>1
      <4>3. f % k = k - 1
        BY <4>2, IntModUnique
      <4> QED
        BY <4>1, <4>3
    <3>3. SextWord(h - 1) = m - 1
      <4>1. h - 1 >= g
        BY <1>1
      <4>2. SextWord(h - 1) = (h - 1) + m - h
        BY <4>1 DEF SextWord, g, m, h
      <4> QED
        BY <1>1, <4>2
    <3> QED
      BY <1>1, <2>1, <3>1, <3>2, <3>3 DEF Result, h, m
  <2>2. CASE d # 0
    <3>1. DivRef(i, x, y) = Result(i, 0)
      BY <1>2, <1>7, <1>9, <2>2
    <3>2. 0 % m = 0 /\ 0 % h = 0
      BY <1>1, Small
    <3>3. SextWord(0) = 0
      <4>1. ~(0 >= g)
        BY <1>1
      <4> QED
        BY <4>1 DEF SextWord, g
    <3> QED
      BY <2>2, <3>1, <3>2, <3>3 DEF Result, h, m
  <2> QED
    BY <2>1, <2>2
<1>12. CASE ~i.word
  <2>1. a = c /\ a \in XWord
    BY <1>1, <1>2, <1>5, <1>12 DEF Lift
  <2>2. (XLEN - 1) + 1 = XLEN /\ a \in Nat
    BY <1>2, Widths
  <2>3. Slice(2 * a, XLEN, 1) = a
    <3>1. Slice(2 * a, XLEN, 1) = ((2 * a) \div 2) % m
      BY <1>1, <2>2 DEF Slice, m
    <3>2. (2 * a) \div 2 = a
      BY <2>2
    <3>3. a % m = a
      BY <1>1, <1>2, <2>2, Small
    <3> QED
      BY <3>1, <3>2, <3>3
  <2>4. Result(i, Minus(b, c)) = NegateIf(b, a)
    BY <1>4, <1>12, <2>1, NegatedResult
  <2> QED
    BY <1>10, <1>11, <1>12, <2>3, <2>4 DEF a, b, d, m
<1>13. CASE i.word
  <2>1. a = c * h /\ c \in 0 .. h - 1
    BY <1>1, <1>2, <1>13 DEF Lift, Modulus, h
  <2>2. whole = IF b THEN (n - 2 * (c * h)) % n ELSE 2 * (c * h)
    BY <2>1 DEF whole, Negate, n
  <2>3. (XLEN - (H + 1)) + 1 = H
    BY Widths
  <2>4. Slice(whole, XLEN, H + 1) = (whole \div (2 * h)) % h
    BY <1>1, <2>3 DEF Slice, h
  <2>5. n \in Nat /\ m \in Nat
    BY <1>1, SMTT(30)
  <2>6. Slice(whole, XLEN, H + 1) = Minus(b, c) % h
    BY <1>1, <1>4, <2>1, <2>2, <2>4, <2>5, EarlyWord
  <2>7. Result(i, Minus(b, c)) = SextWord(Minus(b, c) % h)
    BY <1>13 DEF Result, h
  <2> QED
    BY <1>10, <1>11, <1>13, <2>6, <2>7 DEF a, b, d, m, whole
<1> QED
  BY <1>4, <1>12, <1>13
-----------------------------------------------------------------------------
(* The invariant: besides the two that are checked, what is in execution,  *)
(* and that only a division that is not trivial gets past its first step.  *)
ModeOf(i, x, y) ==
  [sign |-> i.sign, compare |-> Magnitude(i, x) < Magnitude(i, y),
   right |-> Top(i.word, x) # Top(i.word, y),
   x |-> i.sign /\ Top(i.word, x), word |-> i.word]

DivideInv ==
  /\ TypeOK /\ LoopInvariant
  /\ state = "EXECUTE" =>
       /\ op.i.op = "div" /\ op = Asked(op.i, op.x, op.y)
       /\ mode = ModeOf(op.i, op.x, op.y)
       /\ Cn # XLEN => divisor # 0 /\ ~mode.compare

(* What the registers hold about the request while it is executed.         *)
LEMMA Executing ==
  ASSUME DivideInv, state = "EXECUTE"
  PROVE  /\ op.i \in Request /\ op.x \in XWord /\ op.y \in XWord
         /\ divisor = Magnitude(op.i, op.y)
         /\ mode.compare = (Magnitude(op.i, op.x) < Magnitude(op.i, op.y))
         /\ mode.sign = op.i.sign /\ mode.word = op.i.word
         /\ mode.right = (Top(op.i.word, op.x) # Top(op.i.word, op.y))
         /\ mode.x = (op.i.sign /\ Top(op.i.word, op.x))
         /\ op.early = EarlyRef(op.i, op.x, op.y)
         /\ op.div = DivRef(op.i, op.x, op.y) /\ op.rem = RemRef(op.i, op.x, op.y)
<1>1. op.i \in Request /\ op.x \in XWord /\ op.y \in XWord
  BY DEF DivideInv, TypeOK
<1>2. divisor = Magnitude(op.i, op.y)
  BY DEF DivideInv, LoopInvariant
<1>3. mode = ModeOf(op.i, op.x, op.y) /\ op = Asked(op.i, op.x, op.y)
  BY DEF DivideInv
<1>4. ASSUME NEW i, NEW x, NEW y, NEW e, e = ModeOf(i, x, y)
      PROVE  /\ e.compare = (Magnitude(i, x) < Magnitude(i, y))
             /\ e.sign = i.sign /\ e.word = i.word
             /\ e.right = (Top(i.word, x) # Top(i.word, y))
             /\ e.x = (i.sign /\ Top(i.word, x))
  BY <1>4 DEF ModeOf
<1>5. ASSUME NEW i, NEW x, NEW y, NEW e, e = Asked(i, x, y)
      PROVE  /\ e.early = EarlyRef(i, x, y)
             /\ e.div = DivRef(i, x, y) /\ e.rem = RemRef(i, x, y)
  BY <1>5 DEF Asked
<1>6. /\ mode.compare = (Magnitude(op.i, op.x) < Magnitude(op.i, op.y))
      /\ mode.sign = op.i.sign /\ mode.word = op.i.word
      /\ mode.right = (Top(op.i.word, op.x) # Top(op.i.word, op.y))
      /\ mode.x = (op.i.sign /\ Top(op.i.word, op.x))
  BY <1>3, <1>4
<1>7. /\ op.early = EarlyRef(op.i, op.x, op.y)
      /\ op.div = DivRef(op.i, op.x, op.y) /\ op.rem = RemRef(op.i, op.x, op.y)
  BY <1>3, <1>5
<1> QED
  BY <1>1, <1>2, <1>6, <1>7, Zenon

(* What the register holds, read off and put back.                         *)
LEMMA Loop ==
  ASSUME DivideInv, state = "EXECUTE"
  PROVE  LET u == Pow2[XLEN - Cn]
             v == Pow2[Cn]
             a == Magnitude(op.i, op.x)
             q == remainder % u
             p == (a \div v) - q * divisor
         IN  /\ u \in Nat \ {0} /\ v \in Nat \ {0} /\ q \in 0 .. u - 1
             /\ Pow2[XLEN] = u * v
             /\ a \in 0 .. Pow2[XLEN] - 1 /\ divisor \in 0 .. Pow2[XLEN] - 1
             /\ remainder = Packed(a, u, v, q, p)
             /\ divisor # 0 => Divides(a, divisor, v, q, p)
<1> DEFINE u == Pow2[XLEN - Cn]
           v == Pow2[Cn]
           a == Magnitude(op.i, op.x)
           d == divisor
           q == remainder % u
           p == (a \div v) - q * d
           m == Pow2[XLEN]
<1>1. /\ m \in Nat \ {0} /\ a \in 0 .. m - 1 /\ d \in 0 .. m - 1
      /\ Cn \in 0 .. XLEN /\ XLEN \in Nat /\ remainder \in Nat
  <2>1. op.i \in Request /\ op.x \in XWord /\ op.y \in XWord /\ d = Magnitude(op.i, op.y)
    BY Executing
  <2>2. 2 * XLEN \in Nat /\ Pow2[2 * XLEN] \in Nat
    <3>1. m \in Nat /\ Pow2[2 * XLEN] = m * m /\ XLEN \in Nat
      BY Widths
    <3> HIDE DEF m
    <3> QED
      BY <3>1, SMTT(30)
  <2> QED
    BY <2>1, <2>2, Operands, Widths DEF DivideInv, TypeOK
<1>2. /\ u \in Nat \ {0} /\ v \in Nat \ {0} /\ m = u * v
      /\ Pow2[(XLEN - Cn) + 1] = 2 * u
  <2>1. XLEN - Cn \in Nat /\ Cn \in Nat /\ (XLEN - Cn) + Cn = XLEN
    BY <1>1
  <2> QED
    BY <2>1, Powers
<1>3. /\ remainder = Pow2[(XLEN - Cn) + 1] * (p * v + (a % v)) + q
      /\ p >= 0 /\ (XLEN - Cn > 0 => p < d)
  BY DEF DivideInv, LoopInvariant
<1>4. Cn = XLEN => u = 1
  <2>1. Cn = XLEN => XLEN - Cn = 0
    BY <1>1
  <2> QED
    BY <2>1, Powers
<1>5. remainder = Packed(a, u, v, q, p)
  BY <1>2, <1>3 DEF Packed
<1> HIDE DEF u, v, a, d, m, p
<1>6. q \in 0 .. u - 1 /\ a \div v \in Nat
  <2>1. a \in Nat
    BY <1>1
  <2> QED
    BY <1>1, <1>2, <2>1, Euclid
<1> HIDE DEF q
<1>7. q * d \in Nat
  <2>1. q \in Nat /\ d \in Nat
    BY <1>1, <1>2, <1>6
  <2> QED
    BY <2>1, SMTT(30)
<1>8. ASSUME d # 0 PROVE Divides(a, d, v, q, p)
  <2>1. p \in Nat /\ a \div v = q * d + p
    BY <1>3, <1>6, <1>7 DEF p
  <2>2. p < d
    <3>1. CASE Cn # XLEN
      BY <1>1, <1>3, <3>1
    <3>2. CASE Cn = XLEN
      <4>1. v = m /\ q = 0
        BY <1>1, <1>2, <1>4, <1>6, <3>2 DEF v, m
      <4>2. a \in Nat /\ a < m
        BY <1>1
      <4>3. a \div v = 0
        BY <1>2, <4>1, <4>2, Small
      <4>4. p = 0
        BY <1>1, <4>1, <4>3 DEF p
      <4> QED
        BY <1>1, <1>8, <4>4
    <3> QED
      BY <3>1, <3>2
  <2> QED
    BY <1>1, <1>2, <1>6, <2>1, <2>2 DEF Divides
<1> QED
  BY <1>1, <1>2, <1>5, <1>6, <1>8 DEF u, v, a, d, q, p, m

(* The two parts are the ones that were packed.                            *)
LEMMA Unpack ==
  ASSUME NEW a \in Nat, NEW u \in Nat \ {0}, NEW w \in Nat \ {0}, NEW d \in Nat \ {0},
         NEW q \in 0 .. u - 1, NEW p, Divides(a, d, w, q, p),
         NEW r, r = Packed(a, u, w, q, p)
  PROVE  r % u = q /\ (a \div w) - q * d = p /\ p >= 0 /\ p < d
<1> DEFINE f == p * w + (a % w)
           c == a % w
<1>1. q \in Nat /\ p \in 0 .. d - 1 /\ a \div w = q * d + p
  BY DEF Divides
<1>2. f \in Nat
  <2>1. c \in Nat
    BY Euclid
  <2> HIDE DEF c
  <2>2. p * w + c \in Nat
    BY <1>1, <2>1, SMTT(30)
  <2> QED
    BY <2>2 DEF c
<1>3. r = (2 * u) * f + q
  BY DEF Packed
<1> HIDE DEF f
<1>4. (2 * u) * f = (2 * f) * u /\ (2 * f) * u \in Nat
  BY <1>2, SMTT(30)
<1> DEFINE e == 2 * f
<1>5. r = e * u + q /\ r \in Nat /\ e \in Nat
  BY <1>1, <1>2, <1>3, <1>4
<1> HIDE DEF e
<1>6. r % u = q
  BY <1>5, ModUnique
<1>7. q * d \in Nat
  BY <1>1, SMTT(30)
<1> QED
  BY <1>1, <1>6, <1>7

(* Step by step.                                                           *)
LEMMA Starts ==
  ASSUME DivideInv, NEW i \in Request, NEW x \in XWord, NEW y \in XWord,
         i.op = "div", Start(i, x, y)
  PROVE  DivideInv'
<1> DEFINE m == Pow2[XLEN]
           a == Magnitude(i, x)
           d == Magnitude(i, y)
<1>1. /\ m \in Nat \ {0} /\ XLEN \in Nat /\ XWord = 0 .. m - 1
      /\ m = 2 * Pow2[XLEN - 1] /\ Pow2[XLEN - 1] \in Nat \ {0}
      /\ Pow2[2 * XLEN] = m * m /\ a \in 0 .. m - 1 /\ d \in 0 .. m - 1
  BY Widths, Operands
<1>2. op' = Asked(i, x, y) /\ op'.i = i /\ op'.x = x /\ op'.y = y
  BY DEF Start, Asked
<1>3. mode' = ModeOf(i, x, y)
  BY DEF Start, ModeOf
<1>4. i.word \in BOOLEAN /\ i.sign \in BOOLEAN
  <2>1. CASE i = NoRequest
    BY <2>1 DEF NoRequest
  <2>2. CASE i # NoRequest
    BY <2>2 DEF Request
  <2> QED
    BY <2>1, <2>2
<1>5. /\ state' = "EXECUTE" /\ Cn' = XLEN /\ remainder' = 2 * a /\ divisor' = d
      /\ out' = Quiet
  BY DEF Start, Steps
<1>6. TypeOK'
  <2>1. 2 * a \in 0 .. Pow2[2 * XLEN] - 1
    <3>1. 2 * m <= m * m /\ m * m \in Nat
      <4> DEFINE k == Pow2[XLEN - 1]
      <4>1. k \in Nat \ {0} /\ m = 2 * k
        BY <1>1
      <4> HIDE DEF k, m
      <4> QED
        BY <4>1, SMTT(30)
    <3>2. 2 * a \in 0 .. m * m - 1
      <4> DEFINE e == m * m
      <4>1. 2 * m <= e /\ e \in Nat /\ m \in Nat /\ a \in 0 .. m - 1
        BY <1>1, <3>1
      <4> HIDE DEF m, a, e
      <4>2. 2 * a \in 0 .. e - 1
        BY <4>1
      <4> QED
        BY <4>2 DEF e
    <3> QED
      BY <1>1, <3>2, Zenon
  <2>2. Quiet \in [ok : BOOLEAN, div : XWord, rem : XWord]
    BY <1>1 DEF Quiet
  <2>3. ModeOf(i, x, y) \in [{"sign", "compare", "right", "x", "word"} -> BOOLEAN]
    <3>1. /\ (a < d) \in BOOLEAN /\ (Top(i.word, x) # Top(i.word, y)) \in BOOLEAN
          /\ (i.sign /\ Top(i.word, x)) \in BOOLEAN
      OBVIOUS
    <3>2. ASSUME NEW b \in BOOLEAN, NEW c \in BOOLEAN, NEW e \in BOOLEAN,
                 NEW f \in BOOLEAN, NEW g \in BOOLEAN
          PROVE  [sign |-> b, compare |-> c, right |-> e, x |-> f, word |-> g]
                   \in [{"sign", "compare", "right", "x", "word"} -> BOOLEAN]
      OBVIOUS
    <3> QED
      BY <1>4, <3>1, <3>2, Zenon DEF ModeOf
  <2>4. Asked(i, x, y) \in
          [i : Request, x : XWord, y : XWord, early : BOOLEAN, div : XWord, rem : XWord]
    <3>1. EarlyRef(i, x, y) \in BOOLEAN
      BY DEF EarlyRef
    <3>2. DivRef(i, x, y) \in XWord /\ RemRef(i, x, y) \in XWord
      BY AnswersAreWords
    <3> QED
      BY <3>1, <3>2 DEF Asked
  <2> QED
    BY <1>1, <1>2, <1>3, <1>5, <2>1, <2>2, <2>3, <2>4 DEF TypeOK
<1>7. LoopInvariant'
  <2>1. XLEN - Cn' = 0 /\ Pow2[0] = 1 /\ Pow2[0 + 1] = 2 /\ ~(XLEN - Cn' > 0)
    BY <1>1, <1>5, Powers
  <2>2. a \in Nat /\ d \in Nat /\ a < m /\ m \in Nat \ {0}
    BY <1>1
  <2> HIDE DEF a, d, m
  <2>3. a \div m = 0 /\ a % m = a
    BY <2>2, Small
  <2>4. (2 * a) % 1 = 0 /\ 0 * d = 0 /\ 0 * m = 0
    BY <2>2
  <2>5. 2 * a = 2 * (0 * m + a) + 0 /\ 0 - 0 * d = 0
    BY <2>2, <2>4
  <2> DEFINE q == remainder' % Pow2[XLEN - Cn']
             p == (a \div Pow2[Cn']) - q * divisor'
  <2>6. q = 0 /\ p = 0
    BY <1>5, <2>1, <2>3, <2>4, <2>5 DEF m
  <2>7. remainder' = Pow2[(XLEN - Cn') + 1] * (p * Pow2[Cn'] + (a % Pow2[Cn'])) + q
    BY <1>5, <2>1, <2>3, <2>5, <2>6 DEF m
  <2> QED
    BY <1>2, <1>5, <2>1, <2>6, <2>7 DEF LoopInvariant, a, d
<1> QED
  BY <1>2, <1>3, <1>5, <1>6, <1>7 DEF DivideInv

(* An iteration keeps the invariant.                                       *)
LEMMA Iterates ==
  ASSUME DivideInv, state = "EXECUTE", Cn # 0, divisor # 0, ~mode.compare, Iterate
  PROVE  DivideInv'
<1> DEFINE m == Pow2[XLEN]
           u == Pow2[XLEN - Cn]
           v == Pow2[Cn]
           w == Pow2[Cn - 1]
           a == Magnitude(op.i, op.x)
           d == divisor
           q == remainder % u
           p == (a \div v) - q * d
           n == Pow2[2 * XLEN]
<1>1. /\ XLEN \in Nat \ {0} /\ Cn \in 1 .. XLEN /\ n = m * m /\ m \in Nat
  BY Widths DEF DivideInv, TypeOK
<1>2. /\ u \in Nat \ {0} /\ q \in 0 .. u - 1 /\ m = u * v
      /\ a \in 0 .. m - 1 /\ d \in 0 .. m - 1
      /\ remainder = Packed(a, u, v, q, p) /\ Divides(a, d, v, q, p)
  BY Loop
<1>3. w \in Nat \ {0} /\ v = 2 * w /\ Pow2[XLEN - (Cn - 1)] = 2 * u
      /\ Pow2[(XLEN - (Cn - 1)) + 1] = 2 * (2 * u)
  <2>1. /\ Cn - 1 \in Nat /\ XLEN - Cn \in Nat /\ Cn = (Cn - 1) + 1
        /\ XLEN - (Cn - 1) = (XLEN - Cn) + 1 /\ XLEN - (Cn - 1) \in Nat
    BY <1>1
  <2> QED
    BY <2>1, Powers
<1>4. ~(a < d)
  BY Executing
<1>5. /\ remainder' = IF remainder \div m < d THEN ShiftIn(remainder, 0, n)
                                              ELSE ShiftIn(remainder - d * m, 1, n)
      /\ Cn' = Cn - 1 /\ UNCHANGED <<state, divisor, mode, out, op>>
  BY DEF Iterate, Step, Shifted, ShiftIn
<1> HIDE DEF m, u, v, w, a, d, q, p, n
<1>6. Advances(a, u, w, d, m, remainder)
  <2>1. a \in Nat /\ d \in Nat \ {0} /\ a < m /\ d <= a
    BY <1>1, <1>2, <1>4 DEF d
  <2>2. m = 2 * (u * w)
    BY <1>2, <1>3, SMTT(30)
  <2>3. Divides(a, d, 2 * w, q, p) /\ remainder = Packed(a, u, 2 * w, q, p)
    BY <1>2, <1>3
  <2> QED
    BY <1>1, <1>2, <1>3, <2>1, <2>2, <2>3, DivideStep
<1>7. PICK q2 \in 0 .. 2 * u - 1 : \E p2 :
        /\ remainder' \in 0 .. n - 1
        /\ Divides(a, d, w, q2, p2)
        /\ remainder' = Packed(a, 2 * u, w, q2, p2)
  BY <1>1, <1>5, <1>6 DEF Advances
<1>8. PICK p2 : /\ remainder' \in 0 .. n - 1
                /\ Divides(a, d, w, q2, p2)
                /\ remainder' = Packed(a, 2 * u, w, q2, p2)
  BY <1>7
<1>9. TypeOK'
  <2>1. Cn' \in 0 .. XLEN
    BY <1>1, <1>5
  <2> QED
    BY <1>5, <1>8, <2>1 DEF DivideInv, TypeOK, n
<1>10. LoopInvariant'
  <2>1. a \in Nat /\ d \in Nat \ {0}
    BY <1>1, <1>2 DEF d
  <2>2. remainder' % (2 * u) = q2 /\ (a \div w) - q2 * d = p2 /\ p2 >= 0 /\ p2 < d
    <3> DEFINE z == 2 * u
    <3>1. /\ z \in Nat \ {0} /\ q2 \in 0 .. z - 1 /\ Divides(a, d, w, q2, p2)
          /\ remainder' = Packed(a, z, w, q2, p2)
      BY <1>2, <1>8
    <3> HIDE DEF z
    <3>2. remainder' % z = q2 /\ (a \div w) - q2 * d = p2 /\ p2 >= 0 /\ p2 < d
      BY <1>3, <2>1, <3>1, Unpack
    <3> QED
      BY <3>2 DEF z
  <2>3. /\ Pow2[XLEN - Cn'] = 2 * u /\ Pow2[(XLEN - Cn') + 1] = 2 * (2 * u)
        /\ Pow2[Cn'] = w
    BY <1>3, <1>5 DEF w
  <2>4. remainder' = (2 * (2 * u)) * (p2 * w + (a % w)) + q2
    BY <1>8 DEF Packed
  <2>5. divisor = Magnitude(op.i, op.y)
    BY Executing
  <2> HIDE DEF DivideInv
  <2> QED
    BY <1>5, <2>2, <2>3, <2>4, <2>5 DEF LoopInvariant, a, d
<1> QED
  BY <1>5, <1>9, <1>10 DEF DivideInv

(* The parts of the register after the last step.                          *)
LEMMA TopOf ==
  ASSUME NEW k \in Nat \ {0}, NEW m \in Nat, m = 2 * k, NEW p \in Nat, 2 * p < m,
         NEW q \in 0 .. m - 1, NEW r \in Nat, r = (2 * m) * p + q
  PROVE  /\ (r \div (2 * m)) % k = p
         /\ 2 * p < k => (r \div (k * m)) % 2 = 0
<1> DEFINE t == 2 * m
<1>1. t \in Nat \ {0} /\ t * p = p * t /\ q \in 0 .. t - 1
  BY SMTT(30)
<1>2. r = p * t + q
  BY <1>1
<1> HIDE DEF t
<1>3. r \div t = p
  BY <1>1, <1>2, ModUnique
<1>4. p % k = p
  BY Small
<1>5. ASSUME 2 * p < k PROVE (r \div (k * m)) % 2 = 0
  <2> DEFINE n == k * m
             s == 2 * p
  <2>1. (s + 1) * m <= k * m
    BY <1>5, TimesMonotone
  <2>2. (s + 1) * m = (2 * m) * p + m /\ (2 * m) * p \in Nat /\ n \in Nat \ {0}
    BY SMTT(30)
  <2> HIDE DEF n
  <2>3. r < n
    BY <2>1, <2>2 DEF n
  <2>4. r \div n = 0
    BY <2>2, <2>3, Small
  <2> QED
    BY <2>4 DEF n
<1> QED
  BY <1>3, <1>4, <1>5 DEF t

(* When the counter has run out, the quotient and the remainder are there. *)
LEMMA Finishes ==
  ASSUME DivideInv, state = "EXECUTE", Cn = 0
  PROVE  FinishedOut = [ok |-> TRUE, div |-> op.div, rem |-> op.rem]
<1> DEFINE m == Pow2[XLEN]
           k == Pow2[XLEN - 1]
           i == op.i
           a == Magnitude(i, op.x)
           d == divisor
           q == remainder % m
           p == a - q * d
           b == i.sign /\ Top(i.word, op.x)
           c == i.sign /\ Top(i.word, op.x) # Top(i.word, op.y)
<1>1. /\ XLEN \in Nat \ {0} /\ m \in Nat \ {0} /\ k \in Nat \ {0} /\ m = 2 * k
      /\ Pow2[XLEN + 1] = 2 * m /\ Pow2[2 * XLEN - 1] = k * m /\ Pow2[1] = 2
  BY Widths, Powers
<1>2. d # 0 /\ ~(a < d) /\ d = Magnitude(i, op.y)
  BY <1>1, Executing DEF DivideInv
<1>3. /\ q \in 0 .. m - 1 /\ a \in 0 .. m - 1 /\ d \in 0 .. m - 1
      /\ remainder = Packed(a, m, 1, q, p) /\ Divides(a, d, 1, q, p)
  <2>1. XLEN - Cn = XLEN /\ Pow2[Cn] = 1
    BY <1>1, Powers
  <2>2. a \in Nat /\ a \div 1 = a
    <3>1. a \in 0 .. Pow2[XLEN] - 1
      BY Loop
    <3> QED
      BY <1>1, <3>1
  <2>3. /\ q \in 0 .. m - 1 /\ a \in 0 .. m - 1 /\ d \in 0 .. m - 1
        /\ remainder = Packed(a, m, 1, q, (a \div 1) - q * d)
        /\ Divides(a, d, 1, q, (a \div 1) - q * d)
    BY <1>2, <2>1, Loop
  <2> QED
    BY <2>2, <2>3
<1>4. /\ i \in Request /\ op.x \in XWord /\ op.y \in XWord
      /\ mode.sign = i.sign /\ mode.word = i.word
      /\ mode.right = (Top(i.word, op.x) # Top(i.word, op.y)) /\ mode.x = b
      /\ op.div = DivRef(i, op.x, op.y) /\ op.rem = RemRef(i, op.x, op.y)
  BY Executing
<1>5. i.sign => 2 * a <= m
  BY <1>4, Operands
<1>6. RemUnsign = (remainder \div (2 * m)) % k
  <2>1. ((2 * XLEN - 1) - (XLEN + 1)) + 1 = XLEN - 1
    BY <1>1
  <2> QED
    BY <1>1, <2>1 DEF RemUnsign, Slice
<1>7. RemSign = RemUnsign + k * ((remainder \div (k * m)) % 2)
  <2>1. ((2 * XLEN - 1) - (2 * XLEN - 1)) + 1 = 1
    BY <1>1
  <2> QED
    BY <1>1, <2>1 DEF RemSign, Slice
<1> HIDE DEF m, k, a, d, q, p
<1>8. /\ q \in Nat /\ p \in 0 .. d - 1 /\ a = q * d + p /\ d \in Nat \ {0} /\ a \in Nat
  BY <1>1, <1>2, <1>3 DEF Divides
<1>9. q = a \div d /\ p = a % d
  BY <1>8, ModUnique
<1>10. 2 * p < a
  <2>1. 2 * (a % d) < a
    BY <1>2, <1>8, HalfAtMost
  <2> QED
    BY <1>9, <2>1
<1>11. remainder = (2 * m) * p + q /\ remainder \in Nat
  <2>1. a % 1 = 0 /\ p * 1 + 0 = p /\ p \in Nat
    BY <1>8
  <2>2. (2 * m) * p \in Nat
    BY <1>1, <2>1, SMTT(30)
  <2>3. remainder = (2 * m) * p + q
    BY <1>3, <2>1 DEF Packed
  <2> QED
    BY <1>8, <2>2, <2>3
<1>12. /\ (remainder \div (2 * m)) % k = p
       /\ 2 * p < k => (remainder \div (k * m)) % 2 = 0
  <2>1. p \in Nat /\ 2 * p < m /\ m \in Nat
    BY <1>1, <1>3, <1>8, <1>10
  <2> QED
    BY <1>1, <1>3, <1>11, <2>1, TopOf
<1>13. RemUnsign = p /\ (i.sign => RemSign = p)
  <2>1. i.sign => 2 * p < k
    BY <1>1, <1>5, <1>8, <1>10
  <2>2. k * 0 = 0 /\ p + 0 = p
    BY <1>1, <1>8
  <2> QED
    BY <1>6, <1>7, <1>12, <2>1, <2>2
<1>14. LET z == NegateIf(c, q)
       IN  op.div = IF i.word THEN SextWord(z % Pow2[H]) ELSE z
  BY <1>2, <1>4, <1>9, QuotientOut DEF a, d
<1>15. LET r == NegateIf(b, p)
       IN  op.rem = CASE i.sign /\ i.word   -> SextWord(r \div Pow2[H])
                      [] i.sign /\ ~i.word  -> r
                      [] ~i.sign /\ i.word  -> p \div Pow2[H]
                      [] ~i.sign /\ ~i.word -> p
  BY <1>2, <1>4, <1>9, RemainderOut DEF a, d
<1> HIDE DEF i, b, c
<1>16. FinishedOut.div = op.div
  <2>1. remainder % Pow2[XLEN] = q
    BY DEF q, m
  <2>2. (mode.sign /\ mode.right) <=> c
    BY <1>4 DEF c
  <2>3. NegateIf(mode.sign /\ mode.right, q) = NegateIf(c, q)
    BY <2>2 DEF NegateIf
  <2> QED
    BY <1>4, <1>14, <2>1, <2>3 DEF FinishedOut
<1>17. FinishedOut.rem = op.rem
  <2>1. i.sign => SignedRemainder = NegateIf(b, p)
    BY <1>4, <1>13 DEF SignedRemainder
  <2>2. i.sign \in BOOLEAN /\ i.word \in BOOLEAN
    <3>1. CASE i = NoRequest
      BY <3>1 DEF NoRequest
    <3>2. CASE i # NoRequest
      BY <1>4, <3>2 DEF Request
    <3> QED
      BY <3>1, <3>2
  <2>3. FinishedOut.rem = CASE i.sign /\ i.word   -> SextWord(SignedRemainder \div Pow2[H])
                            [] i.sign /\ ~i.word  -> SignedRemainder
                            [] ~i.sign /\ i.word  -> RemUnsign \div Pow2[H]
                            [] ~i.sign /\ ~i.word -> RemUnsign
    BY <1>4 DEF FinishedOut
  <2>4. CASE i.sign
    BY <1>15, <2>1, <2>2, <2>3, <2>4
  <2>5. CASE ~i.sign
    BY <1>13, <1>15, <2>2, <2>3, <2>5
  <2> QED
    BY <2>2, <2>4, <2>5
<1>18. FinishedOut = [ok |-> TRUE, div |-> FinishedOut.div, rem |-> FinishedOut.rem]
  BY DEF FinishedOut
<1> QED
  BY <1>16, <1>17, <1>18

(* A trivial division stops at once with its answer.                       *)
LEMMA StopsEarly ==
  ASSUME DivideInv, state = "EXECUTE", Cn # 0, divisor = 0 \/ mode.compare
  PROVE  /\ EarlyOut = [ok |-> TRUE, div |-> op.div, rem |-> op.rem]
         /\ op.early
<1> DEFINE m == Pow2[XLEN]
           i == op.i
           a == Magnitude(i, op.x)
           d == divisor
           b == i.sign /\ Top(i.word, op.x)
           whole == IF b THEN Negate(2 * a, 2 * XLEN) ELSE 2 * a
<1>1. /\ i \in Request /\ op.x \in XWord /\ op.y \in XWord
      /\ d = Magnitude(i, op.y) /\ mode.compare = (a < d)
      /\ mode.word = i.word /\ mode.x = b
      /\ op.early = EarlyRef(i, op.x, op.y)
      /\ op.div = DivRef(i, op.x, op.y) /\ op.rem = RemRef(i, op.x, op.y)
  BY Executing
<1>2. d = 0 \/ a < d
  BY <1>1
<1>3. op.early
  <2>1. EarlyRef(i, op.x, op.y) <=> d = 0 \/ a < d
    BY <1>1, Proportion
  <2> QED
    BY <1>1, <1>2, <2>1
<1>4. Cn = XLEN
  BY DEF DivideInv
<1>5. remainder = 2 * a
  <2>1. XLEN - Cn = 0 /\ Pow2[0] = 1 /\ Pow2[0 + 1] = 2 /\ m \in Nat \ {0}
    BY <1>4, Widths, Powers
  <2>2. a \in 0 .. m - 1 /\ a \in Nat
    BY <1>1, Operands, <2>1
  <2> DEFINE q == remainder % 1
             p == (a \div m) - q * d
  <2>3. remainder = Pow2[(XLEN - Cn) + 1] * (p * m + (a % m)) + q
    BY <1>4, <2>1 DEF DivideInv, LoopInvariant
  <2>4. a \div m = 0 /\ a % m = a
    <3> HIDE DEF a, m
    <3> QED
      BY <2>1, <2>2, Small
  <2>5. remainder \in Nat
    <3>1. m \in Nat /\ Pow2[2 * XLEN] = m * m
      BY Widths
    <3>2. m * m \in Nat
      <4> HIDE DEF m
      <4> QED
        BY <3>1, SMTT(30)
    <3> QED
      BY <3>1, <3>2 DEF DivideInv, TypeOK
  <2>6. q = 0
    BY <2>5
  <2> HIDE DEF q
  <2>7. 0 * d = 0 /\ 0 * m = 0
    <3>1. d \in Nat
      BY <1>1, Operands, <2>1
    <3> QED
      BY <2>1, <3>1
  <2>8. p = 0
    BY <2>4, <2>6, <2>7
  <2> HIDE DEF p, a, m
  <2> QED
    BY <2>1, <2>2, <2>3, <2>4, <2>6, <2>7, <2>8
<1>6. /\ op.div = IF d = 0 THEN m - 1 ELSE 0
      /\ op.rem = IF i.word THEN SextWord(Slice(whole, XLEN, H + 1))
                  ELSE NegateIf(b, Slice(2 * a, XLEN, 1))
  BY <1>1, <1>2, TrivialOut
<1>7. EarlyOut.div = op.div
  BY <1>6 DEF EarlyOut
<1>8. EarlyOut.rem = op.rem
  BY <1>1, <1>5, <1>6 DEF EarlyOut
<1>9. EarlyOut = [ok |-> TRUE, div |-> EarlyOut.div, rem |-> EarlyOut.rem]
  BY DEF EarlyOut
<1> QED
  BY <1>3, <1>7, <1>8, <1>9

Modes == [{"sign", "compare", "right", "x", "word"} -> BOOLEAN]
Outs == [ok : BOOLEAN, div : XWord, rem : XWord]
Ops == [i : Request, x : XWord, y : XWord, early : BOOLEAN, div : XWord, rem : XWord]

(* The empty values have the types of the registers.                       *)
LEMMA NothingTyped ==
  /\ XLEN \in Nat /\ 0 \in XWord /\ 0 \in 0 .. Pow2[2 * XLEN] - 1
  /\ Quiet \in Outs /\ NoOp \in Ops /\ NoMode \in Modes
<1>1. Pow2[2 * XLEN] \in Nat \ {0} /\ 0 \in XWord /\ XLEN \in Nat
  <2> DEFINE n == Pow2[2 * XLEN]
             m == Pow2[XLEN]
  <2>1. n = m * m /\ m \in Nat \ {0} /\ XWord = 0 .. m - 1 /\ XLEN \in Nat
    BY Widths
  <2> HIDE DEF n, m
  <2>2. n \in Nat \ {0}
    BY <2>1, Positive
  <2>3. 0 \in XWord
    BY <2>1
  <2> QED
    BY <2>1, <2>2, <2>3 DEF n
<1>2. Quiet \in Outs /\ NoOp \in Ops
  BY <1>1 DEF Quiet, NoOp, Request, Outs, Ops
<1>3. NoMode \in Modes
  <2>1. ASSUME NEW b \in BOOLEAN
        PROVE  [sign |-> b, compare |-> b, right |-> b, x |-> b, word |-> b] \in Modes
    BY DEF Modes
  <2> QED
    BY <2>1, Zenon DEF NoMode
<1> QED
  BY <1>1, <1>2, <1>3

(* The end of an operation keeps it, whatever is shown.                    *)
LEMMA Settles ==
  ASSUME DivideInv, NEW o \in [ok : BOOLEAN, div : XWord, rem : XWord], Finish(o)
  PROVE  DivideInv'
BY DEF DivideInv, TypeOK, LoopInvariant, Finish

(* No clock edge and no reset disturbs it.                                 *)
LEMMA DivideSteps ==
  ASSUME DivideInv, [Next]_vars
  PROVE  DivideInv'
<1>1. ASSUME NEW i \in Request, NEW x \in XWord, NEW y \in XWord, Take(i, x, y)
      PROVE  DivideInv'
  <2>1. CASE i.op = "div"
    BY <1>1, <2>1, Starts DEF Take
  <2>2. CASE i.op # "div"
    <3>1. Rest /\ state = "IDLE"
      BY <1>1, <2>2 DEF Take
    <3>2. mode' \in Modes
      <4>1. mode' = [NoMode EXCEPT !.x = mode.x] /\ mode.x \in BOOLEAN
        BY <3>1 DEF Rest, DivideInv, TypeOK
      <4> QED
        BY <4>1, NothingTyped DEF Modes
    <3>3. TypeOK'
      BY <3>1, <3>2, NothingTyped DEF DivideInv, TypeOK, Rest, Modes, Outs, Ops
    <3> QED
      BY <3>1, <3>3 DEF DivideInv, LoopInvariant, Rest
  <2> QED
    BY <2>1, <2>2
<1>2. [ok |-> TRUE, div |-> op.div, rem |-> op.rem] \in [ok : BOOLEAN, div : XWord, rem : XWord]
  BY DEF DivideInv, TypeOK
<1>3. CASE state = "EXECUTE" /\ Cn = 0 /\ Finish(FinishedOut)
  <2>1. FinishedOut \in [ok : BOOLEAN, div : XWord, rem : XWord]
    BY <1>2, <1>3, Finishes, Zenon
  <2> QED
    BY <1>3, <2>1, Settles
<1>4. CASE state = "EXECUTE" /\ Cn # 0 /\ (divisor = 0 \/ mode.compare) /\ Finish(EarlyOut)
  <2>1. EarlyOut \in [ok : BOOLEAN, div : XWord, rem : XWord]
    BY <1>2, <1>4, StopsEarly, Zenon
  <2> QED
    BY <1>4, <2>1, Settles
<1>5. CASE state = "EXECUTE" /\ Cn # 0 /\ divisor # 0 /\ ~mode.compare /\ Iterate
  BY <1>5, Iterates
<1>6. CASE Reset
  BY <1>6 DEF DivideInv, TypeOK, LoopInvariant, Reset
<1>7. CASE UNCHANGED vars
  BY <1>7 DEF DivideInv, TypeOK, LoopInvariant, vars
<1> QED
  BY <1>1, <1>3, <1>4, <1>5, <1>6, <1>7 DEF Next, Work

(* It holds at power-up.                                                   *)
LEMMA DivideBegins == Init => DivideInv
<1> SUFFICES ASSUME Init PROVE DivideInv
  OBVIOUS
<1>1. TypeOK
  BY NothingTyped DEF Init, TypeOK, Modes, Outs, Ops
<1> QED
  BY <1>1 DEF Init, DivideInv, LoopInvariant

(* What the registers of divide.sv hold between any two of its steps       *)
(* (divide.sv:63-155), whatever the operands and resets, at every width:   *)
(* the low bits of the quotient, the partial remainder less than the       *)
(* divisor, and the bit that remainder_num drops is never needed.          *)
THEOREM DividerLoops == Spec => [](TypeOK /\ LoopInvariant)
<1>1. DivideInv => TypeOK /\ LoopInvariant
  BY DEF DivideInv
<1> QED
  BY <1>1, DivideBegins, DivideSteps, PTL DEF Spec
-----------------------------------------------------------------------------
(* The unit as Exu sees it.                                                *)
Fields == {"state", "Cn", "early", "div", "rem", "data_ok", "div_data", "rem_data"}

(* The mapped state is a record of the unit's fields.                      *)
LEMMA BarIsRecord == /\ divuBar = [f \in Fields |-> divuBar[f]]
                     /\ divuBar' = [f \in Fields |-> divuBar'[f]]
BY DEF divuBar, Fields

(* Two records with the same fields.                                       *)
LEMMA SameBar ==
  ASSUME NEW e, e = [f \in Fields |-> e[f]],
         divuBar'.state = e.state, divuBar'.Cn = e.Cn, divuBar'.early = e.early,
         divuBar'.div = e.div, divuBar'.rem = e.rem, divuBar'.data_ok = e.data_ok,
         divuBar'.div_data = e.div_data, divuBar'.rem_data = e.rem_data
  PROVE  divuBar' = e
<1>1. \A f \in Fields : divuBar'[f] = e[f]
  BY DEF Fields
<1> QED
  BY <1>1, BarIsRecord

(* A start, as the core sees it: the answer is promised here.              *)
LEMMA BarStarts ==
  ASSUME NEW i, NEW x, NEW y, Start(i, x, y)
  PROVE  divuBar' = Unit!DivStart(i, x, y)
<1>1. PICK e : e = Unit!DivStart(i, x, y)
  OBVIOUS
<1>2. e = [f \in Fields |-> e[f]]
  BY <1>1 DEF divuBar, Fields, Unit!DivStart
<1>3. /\ e.state = "EXECUTE" /\ e.Cn = XLEN
      /\ e.div = DivRef(i, x, y) /\ e.rem = RemRef(i, x, y)
      /\ e.div_data = 0 /\ e.rem_data = 0
  BY <1>1 DEF divuBar, Unit!DivStart
<1>4. e.early = EarlyRef(i, x, y) /\ e.data_ok = FALSE
  BY <1>1 DEF divuBar, Unit!DivStart
<1>5. /\ op'.early = EarlyRef(i, x, y)
      /\ op'.div = DivRef(i, x, y) /\ op'.rem = RemRef(i, x, y)
  BY DEF Start, Asked
<1>6. /\ divuBar'.state = "EXECUTE" /\ divuBar'.Cn = XLEN
      /\ divuBar'.div = DivRef(i, x, y) /\ divuBar'.rem = RemRef(i, x, y)
      /\ divuBar'.div_data = 0 /\ divuBar'.rem_data = 0
  BY <1>5 DEF divuBar, Start, Steps, Quiet
<1>7. divuBar'.early = EarlyRef(i, x, y) /\ divuBar'.data_ok = FALSE
  BY <1>5 DEF divuBar, Start, Quiet
<1>8. divuBar'.early = e.early /\ divuBar'.data_ok = e.data_ok
  BY <1>4, <1>7, Zenon
<1>9. divuBar' = e
  BY <1>2, <1>3, <1>6, <1>8, SameBar
<1> QED
  BY <1>1, <1>9

(* An idle clock edge.                                                     *)
LEMMA BarRests ==
  ASSUME Rest
  PROVE  divuBar' = Unit!DivRest
<1>1. PICK e : e = Unit!DivRest
  OBVIOUS
<1>2. e = [f \in Fields |-> e[f]]
  BY <1>1 DEF divuBar, Fields, Unit!DivRest
<1>3. /\ e.state = divuBar.state /\ e.Cn = divuBar.Cn
      /\ e.div = 0 /\ e.rem = 0 /\ e.div_data = 0 /\ e.rem_data = 0
  BY <1>1 DEF divuBar, Unit!DivRest
<1>4. e.early = FALSE /\ e.data_ok = FALSE
  BY <1>1 DEF divuBar, Unit!DivRest
<1>5. /\ divuBar'.state = divuBar.state /\ divuBar'.Cn = divuBar.Cn
      /\ divuBar'.div = 0 /\ divuBar'.rem = 0
      /\ divuBar'.div_data = 0 /\ divuBar'.rem_data = 0
  BY DEF divuBar, Rest, Quiet, NoOp
<1>6. divuBar'.early = FALSE /\ divuBar'.data_ok = FALSE
  BY DEF divuBar, Rest, Quiet, NoOp
<1>7. divuBar'.early = e.early /\ divuBar'.data_ok = e.data_ok
  BY <1>4, <1>6, Zenon
<1>8. divuBar' = e
  BY <1>2, <1>3, <1>5, <1>7, SameBar
<1> QED
  BY <1>1, <1>8

(* The end, with the promised answer.                                      *)
LEMMA BarFinishes ==
  ASSUME NEW o, o = [ok |-> TRUE, div |-> op.div, rem |-> op.rem], Finish(o)
  PROVE  divuBar' = Unit!DivFinish
<1>1. PICK e : e = Unit!DivFinish
  OBVIOUS
<1>2. e = [f \in Fields |-> e[f]]
  BY <1>1 DEF divuBar, Fields, Unit!DivFinish
<1>3. /\ e.state = "IDLE" /\ e.Cn = Cn /\ e.div = op.div /\ e.rem = op.rem
      /\ e.div_data = op.div /\ e.rem_data = op.rem
  BY <1>1 DEF divuBar, Unit!DivFinish
<1>4. e.early = op.early /\ e.data_ok = TRUE
  BY <1>1 DEF divuBar, Unit!DivFinish
<1>5. /\ divuBar'.state = "IDLE" /\ divuBar'.Cn = Cn
      /\ divuBar'.div = op.div /\ divuBar'.rem = op.rem
      /\ divuBar'.div_data = op.div /\ divuBar'.rem_data = op.rem
  BY DEF divuBar, Finish
<1>6. divuBar'.early = op.early /\ divuBar'.data_ok = TRUE
  BY DEF divuBar, Finish
<1>7. divuBar'.early = e.early /\ divuBar'.data_ok = e.data_ok
  BY <1>4, <1>6, Zenon
<1>8. divuBar' = e
  BY <1>2, <1>3, <1>5, <1>7, SameBar
<1> QED
  BY <1>1, <1>8

(* An iteration counts a step, and nothing else can be seen.               *)
LEMMA BarIterates ==
  ASSUME Iterate
  PROVE  divuBar' = Unit!DivIterate
<1>1. PICK e : e = Unit!DivIterate
  OBVIOUS
<1>2. e = [f \in Fields |-> e[f]]
  BY <1>1 DEF divuBar, Fields, Unit!DivIterate
<1>3. /\ e.state = state /\ e.Cn = Cn - 1 /\ e.div = op.div /\ e.rem = op.rem
      /\ e.div_data = out.div /\ e.rem_data = out.rem
  BY <1>1 DEF divuBar, Unit!DivIterate
<1>4. e.early = op.early /\ e.data_ok = out.ok
  BY <1>1 DEF divuBar, Unit!DivIterate
<1>5. /\ divuBar'.state = state /\ divuBar'.Cn = Cn - 1
      /\ divuBar'.div = op.div /\ divuBar'.rem = op.rem
      /\ divuBar'.div_data = out.div /\ divuBar'.rem_data = out.rem
  BY DEF divuBar, Iterate
<1>6. divuBar'.early = op.early /\ divuBar'.data_ok = out.ok
  BY DEF divuBar, Iterate
<1>7. divuBar'.early = e.early /\ divuBar'.data_ok = e.data_ok
  BY <1>4, <1>6, Zenon
<1>8. divuBar' = e
  BY <1>2, <1>3, <1>5, <1>7, SameBar
<1> QED
  BY <1>1, <1>8

(* A reset returns to IDLE and leaves the outputs.                         *)
LEMMA BarIsReset ==
  ASSUME Reset
  PROVE  Unit!DivReset
<1>1. PICK e : e = [divuBar EXCEPT !.state = "IDLE"]
  OBVIOUS
<1>2. e = [f \in Fields |-> e[f]]
  BY <1>1 DEF divuBar, Fields
<1>3. /\ e.state = "IDLE" /\ e.Cn = Cn /\ e.div = op.div /\ e.rem = op.rem
      /\ e.div_data = out.div /\ e.rem_data = out.rem
  BY <1>1 DEF divuBar
<1>4. e.early = op.early /\ e.data_ok = out.ok
  BY <1>1 DEF divuBar
<1>5. /\ divuBar'.state = "IDLE" /\ divuBar'.Cn = Cn
      /\ divuBar'.div = op.div /\ divuBar'.rem = op.rem
      /\ divuBar'.div_data = out.div /\ divuBar'.rem_data = out.rem
  BY DEF divuBar, Reset
<1>6. divuBar'.early = op.early /\ divuBar'.data_ok = out.ok
  BY DEF divuBar, Reset
<1>7. divuBar'.early = e.early /\ divuBar'.data_ok = e.data_ok
  BY <1>4, <1>6, Zenon
<1>8. divuBar' = e
  BY <1>2, <1>3, <1>5, <1>7, SameBar
<1> QED
  BY <1>1, <1>8 DEF Unit!DivReset

(* The fields that the guards of the unit read.                            *)
LEMMA BarReads ==
  divuBar.state = state /\ divuBar.Cn = Cn /\ (divuBar.early <=> op.early)
BY DEF divuBar

DivStep == Unit!DivPosedge(op'.i, op'.x, op'.y) \/ Unit!DivReset

(* Every step is one of the unit the core sees, or none.                   *)
LEMMA DivideMaps ==
  ASSUME DivideInv, [Next]_vars
  PROVE  [DivStep]_divuBar
<1>1. ASSUME NEW i \in Request, NEW x \in XWord, NEW y \in XWord, Take(i, x, y)
      PROVE  DivStep
  <2>1. CASE i.op = "div"
    <3>1. Start(i, x, y) /\ state = "IDLE"
      BY <1>1, <2>1 DEF Take
    <3>2. op'.i = i /\ op'.x = x /\ op'.y = y
      BY <3>1 DEF Start, Asked
    <3>3. divuBar.state = "IDLE" /\ Unit!div(i)
      BY <2>1, <3>1, BarReads DEF Unit!div, OpOf
    <3>4. divuBar' = Unit!DivStart(i, x, y)
      BY <3>1, BarStarts
    <3>5. Unit!DivPosedge(i, x, y)
      BY <3>3, <3>4 DEF Unit!DivPosedge
    <3> QED
      BY <3>2, <3>5 DEF DivStep
  <2>2. CASE i.op # "div"
    <3>1. Rest /\ state = "IDLE"
      BY <1>1, <2>2 DEF Take
    <3>2. op'.i = NoRequest
      BY <3>1 DEF Rest, NoOp
    <3>3. divuBar.state = "IDLE" /\ ~Unit!div(op'.i)
      BY <3>1, <3>2, BarReads DEF Unit!div, OpOf, NoRequest
    <3>4. divuBar' = Unit!DivRest
      BY <3>1, BarRests
    <3>5. Unit!DivPosedge(op'.i, op'.x, op'.y)
      BY <3>3, <3>4 DEF Unit!DivPosedge
    <3> QED
      BY <3>5 DEF DivStep
  <2> QED
    BY <2>1, <2>2
<1>2. CASE state = "EXECUTE" /\ Cn = 0 /\ Finish(FinishedOut)
  <2>1. divuBar' = Unit!DivFinish
    BY <1>2, Finishes, BarFinishes
  <2>2. Unit!DivPosedge(op'.i, op'.x, op'.y)
    BY <1>2, <2>1, BarReads DEF Unit!DivPosedge
  <2> QED
    BY <2>2 DEF DivStep
<1>3. CASE state = "EXECUTE" /\ Cn # 0 /\ (divisor = 0 \/ mode.compare) /\ Finish(EarlyOut)
  <2>1. divuBar' = Unit!DivFinish /\ op.early
    BY <1>3, StopsEarly, BarFinishes
  <2>2. Unit!DivPosedge(op'.i, op'.x, op'.y)
    BY <1>3, <2>1, BarReads DEF Unit!DivPosedge
  <2> QED
    BY <2>2 DEF DivStep
<1>4. CASE state = "EXECUTE" /\ Cn # 0 /\ divisor # 0 /\ ~mode.compare /\ Iterate
  <2>1. ~op.early
    <3>1. /\ op.i \in Request /\ op.x \in XWord /\ op.y \in XWord
          /\ divisor = Magnitude(op.i, op.y)
          /\ mode.compare = (Magnitude(op.i, op.x) < Magnitude(op.i, op.y))
          /\ op.early = EarlyRef(op.i, op.x, op.y)
      BY <1>4, Executing
    <3>2. EarlyRef(op.i, op.x, op.y)
            <=> Magnitude(op.i, op.y) = 0 \/ Magnitude(op.i, op.x) < Magnitude(op.i, op.y)
      BY <3>1, Proportion
    <3> QED
      BY <1>4, <3>1, <3>2
  <2>2. divuBar' = Unit!DivIterate
    BY <1>4, BarIterates
  <2>3. Unit!DivPosedge(op'.i, op'.x, op'.y)
    BY <1>4, <2>1, <2>2, BarReads DEF Unit!DivPosedge
  <2> QED
    BY <2>3 DEF DivStep
<1>5. CASE Reset
  BY <1>5, BarIsReset DEF DivStep
<1>6. CASE UNCHANGED vars
  BY <1>6 DEF vars, divuBar
<1> QED
  BY <1>1, <1>2, <1>3, <1>4, <1>5, <1>6 DEF Next, Work

(* divide.sv is the unit the core's exu.sv is modelled with: after XLEN    *)
(* steps, or one if the divisor is zero or the larger, it has the quotient *)
(* and the remainder of the M extension, whatever the operands, the signs, *)
(* the word forms and the width, and a reset leaves its outputs.           *)
THEOREM DividerDivides == Spec => ImplementsDivUnit
<1>1. Init => Unit!DivInit
  BY DEF Init, Unit!DivInit, divuBar, NoOp, Quiet
<1>2. Spec => [][DivStep]_divuBar
  BY DivideBegins, DivideSteps, DivideMaps, PTL DEF Spec
<1>3. Spec => Unit!DivInit
  BY <1>1 DEF Spec
<1> QED
  BY <1>2, <1>3 DEF ImplementsDivUnit, DivStep
=============================================================================
