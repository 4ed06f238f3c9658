---------------------------- MODULE DatapathProofs ----------------------------
(***************************************************************************)
(* The multiplier multiplies, at every width: what its registers mean at   *)
(* every step, and that it is the unit Exu takes it for.  At the end, the  *)
(* multiplier and the divider side by side.                                *)
(***************************************************************************)
EXTENDS Datapath, DivideProofs

(* The register, a product so far above what is left of x, and its step.   *)
Partial(x, y, u, v) == ((x % u) * y) * v + (x \div u)
AddOrShift(r, y, k, m) ==
  IF r % 2 = 1 THEN (((r \div m) % m) + y) * k + ((r \div 2) % k) ELSE r \div 2

(* It fits.                                                                *)
LEMMA Fits ==
  ASSUME NEW u \in Nat \ {0}, NEW v \in Nat \ {0}, NEW m \in Nat \ {0}, m = u * v,
         NEW x \in 0 .. m - 1, NEW y \in 0 .. m - 1
  PROVE  /\ Partial(x, y, u, v) \in 0 .. m * m - 1
         /\ (x % u) * y \in Nat
<1> DEFINE c == (x % u) * y
           b == x \div u
<1>1. /\ b \in Nat /\ x % u \in 0 .. u - 1 /\ x = b * u + (x % u)
      /\ b * u \in Nat
  <2>1. x \in Nat
    OBVIOUS
  <2> QED
    BY <2>1, Euclid
<1>2. b < v
  <2>1. ASSUME v <= b PROVE FALSE
    <3>1. v * u <= b * u
      BY <1>1, <2>1, TimesMonotone
    <3>2. v * u = m
      BY SMTT(30)
    <3> QED
      BY <1>1, <3>1, <3>2
  <2> QED
    BY <1>1, <2>1
<1>3. c \in Nat /\ c + 1 <= u * m
  <2> DEFINE a == x % u
  <2>1. a \in Nat /\ a + 1 <= u /\ y \in Nat /\ y <= m
    BY <1>1
  <2> HIDE DEF a
  <2>2. a * y \in Nat /\ a * y <= a * m
    BY <2>1, SMTT(30)
  <2>3. (a + 1) * m <= u * m /\ (a + 1) * m = a * m + m /\ a * m \in Nat
    BY <2>1, SMTT(30)
  <2>4. u * m \in Nat
    BY SMTT(30)
  <2> QED
    BY <2>2, <2>3, <2>4 DEF a
<1> HIDE DEF b, c
<1>4. (c + 1) * v <= (u * m) * v /\ (c + 1) * v = c * v + v /\ c * v \in Nat
  <2>1. u * m \in Nat
    BY SMTT(30)
  <2>2. (c + 1) * v <= (u * m) * v
    BY <1>3, <2>1, TimesMonotone
  <2> QED
    BY <1>3, <2>2, SMTT(30)
<1>5. (u * m) * v = m * m
  BY SMTT(30)
<1>6. m * m \in Nat
  BY SMTT(30)
<1>7. c * v + b \in 0 .. m * m - 1
  BY <1>1, <1>2, <1>4, <1>5, <1>6
<1> QED
  BY <1>3, <1>7 DEF b, c, Partial

(* A step of the loop: one bit of x, from m = u * 2w to m = 2u * w.        *)
LEMMA AddStep ==
  ASSUME NEW u \in Nat \ {0}, NEW w \in Nat \ {0}, NEW k \in Nat \ {0}, k = u * w,
         NEW m \in Nat \ {0}, m = 2 * k,
         NEW x \in 0 .. m - 1, NEW y \in 0 .. m - 1,
         NEW r, r = Partial(x, y, u, 2 * w)
  PROVE  AddOrShift(r, y, k, m) = Partial(x, y, 2 * u, w)
<1> DEFINE a == x % u
           b == x \div u
           c == a * y
           t == c * w
           h == r \div m
<1>1. b \in Nat /\ a \in Nat /\ y \in Nat /\ x \in Nat
  <2>1. x \in Nat /\ y \in Nat
    OBVIOUS
  <2>2. b \in Nat /\ a \in 0 .. u - 1
    BY <2>1, Euclid
  <2> QED
    BY <2>1, <2>2
<1>2. m = u * (2 * w)
  BY SMTT(30)
<1>3. c \in Nat /\ r \in 0 .. m * m - 1
  <2>1. 2 * w \in Nat \ {0}
    OBVIOUS
  <2>2. c \in Nat /\ (c * (2 * w)) + b \in 0 .. m * m - 1
    BY <1>2, <2>1, Fits DEF Partial
  <2> QED
    BY <2>2 DEF Partial
<1>4. t \in Nat /\ c * (2 * w) = 2 * t
  <2> HIDE DEF c
  <2> QED
    BY <1>3, SMTT(30)
<1>5. r = 2 * t + b
  BY <1>4 DEF Partial
<1> HIDE DEF a, b, c, t
<1>6. r \div 2 = t + (b \div 2) /\ r % 2 = b % 2
  <2> DEFINE q == b \div 2
             z == b % 2
  <2>1. q \in Nat /\ z \in 0 .. 2 - 1 /\ b = q * 2 + z
    BY <1>1
  <2> HIDE DEF q, z
  <2>2. t + q \in Nat /\ r \in Nat /\ r = (t + q) * 2 + z
    BY <1>1, <1>4, <1>5, <2>1
  <2>3. r \div 2 = t + q /\ r % 2 = z
    BY <2>1, <2>2, ModUnique
  <2> QED
    BY <2>3 DEF q, z
<1>7. /\ x \div (2 * u) = b \div 2
      /\ x % (2 * u) = a + u * (b % 2)
      /\ b % 2 \in {0, 1}
  BY <1>1, NextBit DEF a, b
<1>8. CASE r % 2 # 1
  <2>1. b % 2 = 0 /\ x % (2 * u) = a
    BY <1>1, <1>6, <1>7, <1>8
  <2> QED
    BY <1>6, <1>7, <1>8, <2>1 DEF t, c, AddOrShift, Partial
<1>9. CASE r % 2 = 1
  <2>1. x % (2 * u) = a + u
    BY <1>1, <1>6, <1>7, <1>9
  <2>2. ((a + u) * y) * w = t + y * k
    BY <1>1, SMTT(30) DEF t, c
  <2>3. r \in Nat /\ m * m \in Nat /\ h \in Nat /\ r % m \in 0 .. m - 1 /\ r = h * m + (r % m)
    <3>1. m * m \in Nat
      BY SMTT(30)
    <3>2. r \in Nat
      BY <1>3, <3>1
    <3> QED
      BY <3>1, <3>2, Euclid
  <2>4. h < m
    <3>1. ASSUME m <= h PROVE FALSE
      <4>1. m * m <= h * m
        BY <2>3, <3>1, TimesMonotone
      <4>2. h * m \in Nat
        BY <2>3, Positive, Products
      <4> QED
        BY <1>3, <2>3, <4>1, <4>2
    <3> QED
      BY <2>3, <3>1
  <2> HIDE DEF h
  <2>5. h % m = h
    BY <2>3, <2>4, Small
  <2>6. h * m = 2 * (h * k) /\ h * k \in Nat
    BY <2>3, SMTT(30)
  <2> DEFINE l == (r % m) \div 2
  <2>7. l \in 0 .. k - 1 /\ r \div 2 = h * k + l
    BY <2>3, <2>6
  <2> HIDE DEF l
  <2>8. (r \div 2) % k = l
    <3> DEFINE e == r \div 2
    <3>1. e \in Nat /\ e = h * k + l
      BY <2>3, <2>7
    <3> HIDE DEF e
    <3>2. e % k = l
      BY <2>3, <2>7, <3>1, ModUnique
    <3> QED
      BY <3>2 DEF e
  <2>9. (h + y) * k = h * k + y * k /\ y * k \in Nat
    BY <1>1, <2>3, SMTT(30)
  <2>10. ((h + y) * k) + l = (t + y * k) + (b \div 2)
    BY <1>1, <1>4, <1>6, <2>6, <2>7, <2>9
  <2> QED
    BY <1>7, <1>9, <2>1, <2>2, <2>5, <2>8, <2>10 DEF h, AddOrShift, Partial
<1> QED
  BY <1>8, <1>9
-----------------------------------------------------------------------------
(* The powers of two that the widths of the registers are.                 *)
LEMMA MulWidths ==
  /\ H \in Nat \ {0} /\ XLEN \in Nat \ {0} /\ XWord = 0 .. Pow2[XLEN] - 1
  /\ Pow2[XLEN] \in Nat \ {0} /\ Pow2[H] \in Nat \ {0} /\ Pow2[H] <= Pow2[XLEN]
  /\ Pow2[2 * XLEN + 1] = 2 * (Pow2[XLEN] * Pow2[XLEN])
<1>1. H \in Nat \ {0} /\ XLEN \in Nat \ {0} /\ XLEN = H + H
  BY WidthAssumption DEF XLEN
<1>2. Pow2[XLEN] \in Nat \ {0} /\ Pow2[H] \in Nat \ {0} /\ Pow2[XLEN] = Pow2[H] * Pow2[H]
  BY <1>1, Powers
<1>3. Pow2[H] <= Pow2[XLEN]
  <2> DEFINE h == Pow2[H]
  <2>1. h \in Nat \ {0} /\ Pow2[XLEN] = h * h
    BY <1>2
  <2> HIDE DEF h
  <2>2. h <= h * h
    BY <2>1, SMTT(30)
  <2> QED
    BY <2>1, <2>2 DEF h
<1>4. Pow2[2 * XLEN + 1] = 2 * (Pow2[XLEN] * Pow2[XLEN])
  <2> DEFINE n == 2 * XLEN
  <2>1. n = XLEN + XLEN /\ n \in Nat
    BY <1>1
  <2> HIDE DEF n
  <2>2. Pow2[n] = Pow2[XLEN] * Pow2[XLEN] /\ Pow2[n + 1] = 2 * Pow2[n]
    BY <1>1, <2>1, Powers
  <2> QED
    BY <2>2 DEF n
<1> QED
  BY <1>1, <1>2, <1>3, <1>4 DEF XWord

(* The product in the register is a word, extended or not.                 *)
LEMMA ProductInWord ==
  ASSUME NEW z \in Nat
  PROVE  z % Pow2[XLEN] \in XWord /\ SextWord(z % Pow2[H]) \in XWord
<1> DEFINE m == Pow2[XLEN]
           h == Pow2[H]
<1>1. m \in Nat \ {0} /\ h \in Nat \ {0} /\ h <= m /\ XWord = 0 .. m - 1
  BY MulWidths
<1> HIDE DEF m, h
<1>2. z % m \in 0 .. m - 1 /\ z % h \in 0 .. h - 1
  BY <1>1, Euclid
<1> QED
  BY <1>1, <1>2 DEF SextWord, m, h
-----------------------------------------------------------------------------
(* The invariant: besides the two that are checked, what is in execution.  *)
MultiplyInv ==
  /\ MulTypeOK /\ MulLoopInvariant
  /\ mult_state = "EXECUTE" => mult_op.i \in Request /\ mult_op.i.op = "mul" /\ isword = mult_op.i.word

(* Step 0: both operands are in place, and there is no product yet.        *)
LEMMA MulStarts ==
  ASSUME MultiplyInv, NEW i \in Request, NEW x \in XWord, NEW y \in XWord,
         i.op = "mul", MulStart(i, x, y)
  PROVE  MultiplyInv'
<1> DEFINE m == Pow2[XLEN]
<1>1. /\ m \in Nat \ {0} /\ XLEN \in Nat /\ x \in 0 .. m - 1 /\ y \in 0 .. m - 1
      /\ Pow2[2 * XLEN + 1] = 2 * (m * m)
  BY MulWidths
<1>2. i.word \in BOOLEAN
  BY DEF Request, NoRequest
<1>3. MulTypeOK'
  <2>1. x \in 0 .. 2 * (m * m) - 1
    <3> HIDE DEF m
    <3>1. m <= m * m /\ m * m \in Nat
      BY <1>1, SMTT(30)
    <3> QED
      BY <1>1, <3>1
  <2>2. 0 \in XWord
    BY <1>1, MulWidths
  <2> QED
    BY <1>1, <1>2, <2>1, <2>2 DEF MulTypeOK, MulStart, MulSteps, MulQuiet
<1>4. MulLoopInvariant'
  <2>1. Pow2[XLEN - mult_Cn'] = 1 /\ mult_Cn' = XLEN
    BY <1>1, Powers DEF MulStart, MulSteps
  <2>2. x \in Nat /\ x % 1 = 0 /\ x \div 1 = x /\ y \in Nat /\ m \in Nat
    BY <1>1
  <2>3. (0 * y) * m + x = x
    BY <2>2
  <2> QED
    BY <2>1, <2>2, <2>3 DEF MulStart, MulLoopInvariant
<1> QED
  BY <1>2, <1>3, <1>4 DEF MultiplyInv, MulStart

(* A step takes one bit of the multiplier and keeps the sum.               *)
LEMMA MulIterates ==
  ASSUME MultiplyInv, mult_state = "EXECUTE", mult_Cn # 0, MulIterate
  PROVE  MultiplyInv'
<1> DEFINE m == Pow2[XLEN]
           k == Pow2[XLEN - 1]
           u == Pow2[XLEN - mult_Cn]
           w == Pow2[mult_Cn - 1]
           x == mult_op.x
           y == mult_op.y
<1>1. /\ XLEN \in Nat \ {0} /\ m \in Nat \ {0} /\ mult_Cn \in 1 .. XLEN
      /\ x \in 0 .. m - 1 /\ y \in 0 .. m - 1
      /\ Pow2[2 * XLEN + 1] = 2 * (m * m)
  BY MulWidths DEF MultiplyInv, MulTypeOK
<1>2. /\ k \in Nat \ {0} /\ u \in Nat \ {0} /\ w \in Nat \ {0}
      /\ k = u * w /\ m = 2 * k /\ Pow2[mult_Cn] = 2 * w
      /\ Pow2[XLEN - (mult_Cn - 1)] = 2 * u
  <2>1. /\ XLEN - 1 \in Nat /\ XLEN - mult_Cn \in Nat /\ mult_Cn - 1 \in Nat
        /\ XLEN - 1 = (XLEN - mult_Cn) + (mult_Cn - 1) /\ XLEN = (XLEN - 1) + 1
        /\ mult_Cn = (mult_Cn - 1) + 1 /\ XLEN - (mult_Cn - 1) = (XLEN - mult_Cn) + 1
    BY <1>1
  <2> QED
    BY <2>1, Powers
<1>3. micand = y /\ mult_reg = Partial(x, y, u, 2 * w)
  BY <1>2 DEF MultiplyInv, MulLoopInvariant, Partial
<1>4. /\ Slice(mult_reg, 2 * XLEN - 1, XLEN) = (mult_reg \div m) % m
      /\ Slice(mult_reg, XLEN - 1, 1) = (mult_reg \div 2) % k
  <2>1. ((2 * XLEN - 1) - XLEN) + 1 = XLEN /\ ((XLEN - 1) - 1) + 1 = XLEN - 1
    BY <1>1
  <2>2. Pow2[1] = 2
    BY Powers
  <2> QED
    BY <2>1, <2>2 DEF Slice
<1>5. /\ mult_reg' = AddOrShift(mult_reg, y, k, m)
      /\ mult_Cn' = mult_Cn - 1 /\ UNCHANGED <<mult_state, micand, isword, mult_out, mult_op>>
  BY <1>3, <1>4 DEF MulIterate, Plus, AddOrShift
<1> HIDE DEF m, k, u, w, x, y
<1>6. mult_reg' = Partial(x, y, 2 * u, w)
  BY <1>1, <1>2, <1>3, <1>5, AddStep
<1>7. mult_reg' \in 0 .. 2 * (m * m) - 1
  <2>1. 2 * u \in Nat \ {0} /\ m = (2 * u) * w
    BY <1>2, SMTT(30)
  <2>2. mult_reg' \in 0 .. m * m - 1
    BY <1>1, <1>2, <1>6, <2>1, Fits
  <2>3. m * m \in Nat
    BY <1>1, SMTT(30)
  <2> QED
    BY <2>2, <2>3
<1>8. MulTypeOK'
  BY <1>1, <1>5, <1>7 DEF MultiplyInv, MulTypeOK
<1>9. MulLoopInvariant'
  <2>1. Pow2[XLEN - mult_Cn'] = 2 * u /\ Pow2[mult_Cn'] = w
    BY <1>2, <1>5 DEF w
  <2> QED
    BY <1>3, <1>5, <1>6, <2>1 DEF MulLoopInvariant, Partial, x, y
<1> QED
  BY <1>5, <1>8, <1>9 DEF MultiplyInv

(* When the counter has run out, the product is there.                     *)
LEMMA MulFinishes ==
  ASSUME MultiplyInv, mult_state = "EXECUTE", mult_Cn = 0
  PROVE  mult_reg = mult_op.x * mult_op.y /\ Product = MulRef(mult_op.i, mult_op.x, mult_op.y)
<1> DEFINE m == Pow2[XLEN]
           x == mult_op.x
           y == mult_op.y
<1>1. /\ XLEN \in Nat \ {0} /\ m \in Nat \ {0} /\ x \in 0 .. m - 1 /\ y \in 0 .. m - 1
  BY MulWidths DEF MultiplyInv, MulTypeOK
<1>2. mult_reg = ((x % m) * y) * 1 + (x \div m)
  <2>1. XLEN - mult_Cn = XLEN /\ Pow2[mult_Cn] = 1
    BY <1>1, Powers
  <2> QED
    BY <2>1 DEF MultiplyInv, MulLoopInvariant
<1> HIDE DEF m, x, y
<1>3. x \in Nat /\ y \in Nat
  BY <1>1
<1>4. x % m = x /\ x \div m = 0
  BY <1>1, <1>3, Small
<1>5. mult_reg = x * y
  BY <1>2, <1>3, <1>4, SMTT(30)
<1> QED
  BY <1>5 DEF MultiplyInv, Product, MulRef, Result, x, y

(* No clock edge and no reset disturbs the invariant.                      *)
LEMMA MultiplySteps ==
  ASSUME MultiplyInv, [MultiplyNext]_multiplyVars
  PROVE  MultiplyInv'
<1>1. ASSUME NEW i \in Request, NEW x \in XWord, NEW y \in XWord, MulTake(i, x, y)
      PROVE  MultiplyInv'
  <2>1. CASE i.op = "mul"
    BY <1>1, <2>1, MulStarts DEF MulTake
  <2>2. CASE i.op # "mul"
    <3>1. MulRest /\ mult_state = "IDLE"
      BY <1>1, <2>2 DEF MulTake
    <3>2. 0 \in XWord
      BY MulWidths
    <3> QED
      BY <3>1, <3>2 DEF MultiplyInv, MulTypeOK, MulLoopInvariant, MulRest, MulQuiet
  <2> QED
    BY <2>1, <2>2
<1>2. CASE mult_state = "EXECUTE" /\ mult_Cn = 0 /\ MulFinish
  <2>1. mult_reg \in Nat
    BY MulWidths DEF MultiplyInv, MulTypeOK
  <2>2. Product \in XWord
    BY <2>1, ProductInWord DEF Product
  <2> QED
    BY <1>2, <2>2 DEF MultiplyInv, MulTypeOK, MulLoopInvariant, MulFinish
<1>3. CASE mult_state = "EXECUTE" /\ mult_Cn # 0 /\ MulIterate
  BY <1>3, MulIterates
<1>4. CASE MulReset
  BY <1>4 DEF MultiplyInv, MulTypeOK, MulLoopInvariant, MulReset
<1>5. CASE UNCHANGED multiplyVars
  BY <1>5 DEF MultiplyInv, MulTypeOK, MulLoopInvariant, multiplyVars
<1> QED
  BY <1>1, <1>2, <1>3, <1>4, <1>5 DEF MultiplyNext, MulWork

(* It holds at power-up.                                                   *)
LEMMA MultiplyStarts == MultiplyInit => MultiplyInv
<1>1. /\ XLEN \in Nat \ {0} /\ 0 \in XWord /\ Pow2[2 * XLEN + 1] \in Nat \ {0}
  <2>1. XLEN \in Nat \ {0} /\ 2 * XLEN + 1 \in Nat
    BY MulWidths
  <2>2. 0 \in XWord
    BY MulWidths
  <2>3. Pow2[2 * XLEN + 1] \in Nat \ {0}
    BY <2>1, Powers
  <2> QED
    BY <2>1, <2>2, <2>3
<1>2. MulQuiet \in [ok : BOOLEAN, data : XWord] /\ NoMul \in [i : Request, x : XWord, y : XWord]
  BY <1>1 DEF MulQuiet, NoMul, Request
<1> SUFFICES ASSUME MultiplyInit PROVE MultiplyInv
  OBVIOUS
<1>3. mult_state = "IDLE" /\ mult_Cn \in 0 .. XLEN /\ 0 \in 0 .. Pow2[2 * XLEN + 1] - 1
  BY <1>1 DEF MultiplyInit
<1>4. MulTypeOK
  BY <1>1, <1>2, <1>3 DEF MultiplyInit, MulTypeOK
<1> QED
  BY <1>3, <1>4 DEF MultiplyInv, MulLoopInvariant

(* What the register of multiply.sv holds between any two of its steps     *)
(* (multiply.sv:40-71), whatever the operands and resets, at every width:  *)
(* no bit of the product, no bit of the multiplier and no carry is lost.   *)
THEOREM MultiplierLoops == MultiplySpec => [](MulTypeOK /\ MulLoopInvariant)
<1>1. MultiplyInv => MulTypeOK /\ MulLoopInvariant
  BY DEF MultiplyInv
<1> QED
  BY <1>1, MultiplyStarts, MultiplySteps, PTL DEF MultiplySpec

MulFields == {"state", "Cn", "product", "data_ok", "data"}

(* The mapped state is a record of the unit's fields.                      *)
LEMMA MulBarIsRecord == /\ muluBar = [f \in MulFields |-> muluBar[f]]
                     /\ muluBar' = [f \in MulFields |-> muluBar'[f]]
BY DEF muluBar, MulFields

(* An idle clock edge, as the core sees it.                                *)
LEMMA MulBarRests ==
  ASSUME MulRest
  PROVE  muluBar' = [muluBar EXCEPT !.data_ok = FALSE, !.data = 0]
<1>1. PICK e : e = [muluBar EXCEPT !.data_ok = FALSE, !.data = 0]
  OBVIOUS
<1>2. e = [f \in MulFields |-> e[f]]
  BY <1>1 DEF muluBar, MulFields
<1>3. /\ e.state = muluBar.state /\ e.Cn = muluBar.Cn
      /\ e.product = muluBar.product /\ e.data = 0
  BY <1>1 DEF muluBar
<1>4. e.data_ok = FALSE
  BY <1>1 DEF muluBar
<1>5. /\ muluBar'.state = muluBar.state /\ muluBar'.Cn = muluBar.Cn
      /\ muluBar'.product = muluBar.product /\ muluBar'.data = 0
  BY DEF muluBar, MulRest, MulQuiet
<1>6. muluBar'.data_ok = FALSE
  BY DEF muluBar, MulRest, MulQuiet
<1>7. \A f \in MulFields : muluBar'[f] = e[f]
  <2>1. muluBar'.data_ok = e.data_ok
    BY <1>4, <1>6, Zenon
  <2> QED
    BY <1>3, <1>5, <2>1 DEF MulFields
<1> QED
  BY <1>1, <1>2, <1>7, MulBarIsRecord

(* The last one shows the product that was promised at the first.          *)
LEMMA MulBarFinishes ==
  ASSUME MultiplyInv, mult_state = "EXECUTE", mult_Cn = 0, MulFinish
  PROVE  muluBar' = [muluBar EXCEPT !.state = "IDLE", !.data_ok = TRUE,
                                    !.data = muluBar.product]
<1>1. PICK e : e = [muluBar EXCEPT !.state = "IDLE", !.data_ok = TRUE,
                                   !.data = muluBar.product]
  OBVIOUS
<1>2. e = [f \in MulFields |-> e[f]]
  BY <1>1 DEF muluBar, MulFields
<1>3. /\ e.state = "IDLE" /\ e.Cn = muluBar.Cn
      /\ e.product = muluBar.product /\ e.data = muluBar.product
  BY <1>1 DEF muluBar
<1>4. e.data_ok = TRUE
  BY <1>1 DEF muluBar
<1>5. Product = MulRef(mult_op.i, mult_op.x, mult_op.y) /\ mult_op # NoMul
  BY MulFinishes DEF MultiplyInv, NoMul, NoRequest
<1>6. /\ muluBar'.state = "IDLE" /\ muluBar'.Cn = muluBar.Cn
      /\ muluBar'.product = muluBar.product /\ muluBar'.data = muluBar.product
  BY <1>5 DEF muluBar, MulFinish
<1>7. muluBar'.data_ok = TRUE
  BY DEF muluBar, MulFinish
<1>8. \A f \in MulFields : muluBar'[f] = e[f]
  <2>1. muluBar'.data_ok = e.data_ok
    BY <1>4, <1>7, Zenon
  <2> QED
    BY <1>3, <1>6, <2>1 DEF MulFields
<1> QED
  BY <1>1, <1>2, <1>8, MulBarIsRecord

MulStep ==
  \/ Mul!MulPosedge(mult_op'.i, mult_op'.x, mult_op'.y)
  \/ Mul!MulPosedge(NoRequest, 0, 0)
  \/ Mul!MulReset

(* Every step is one of the unit the core sees, or none.                   *)
LEMMA MultiplyMaps ==
  ASSUME MultiplyInv, [MultiplyNext]_multiplyVars
  PROVE  [MulStep]_muluBar
<1> USE DEF muluBar
<1>1. ASSUME NEW i \in Request, NEW x \in XWord, NEW y \in XWord, MulTake(i, x, y)
      PROVE  MulStep
  <2>1. CASE i.op = "mul"
    <3>1. MulStart(i, x, y) /\ mult_state = "IDLE"
      BY <1>1, <2>1 DEF MulTake
    <3>2. mult_op' = [i |-> i, x |-> x, y |-> y] /\ mult_op' # NoMul
      BY <2>1, <3>1 DEF MulStart, NoMul, NoRequest
    <3>3. muluBar.state = "IDLE" /\ Mul!mul(mult_op'.i)
      BY <2>1, <3>1, <3>2 DEF Mul!mul, OpOf
    <3>4. muluBar' = [state |-> "EXECUTE", Cn |-> XLEN,
                      product |-> MulRef(mult_op'.i, mult_op'.x, mult_op'.y),
                      data_ok |-> FALSE, data |-> 0]
      BY <3>1, <3>2 DEF MulStart, MulSteps, MulQuiet
    <3>5. Mul!MulPosedge(mult_op'.i, mult_op'.x, mult_op'.y)
      BY <3>3, <3>4 DEF Mul!MulPosedge
    <3> QED
      BY <3>5 DEF MulStep
  <2>2. CASE i.op # "mul"
    <3>1. MulRest /\ mult_state = "IDLE"
      BY <1>1, <2>2 DEF MulTake
    <3>2. muluBar.state = "IDLE" /\ ~Mul!mul(NoRequest)
      BY <3>1 DEF Mul!mul, OpOf, NoRequest
    <3>3. muluBar' = [muluBar EXCEPT !.data_ok = FALSE, !.data = 0]
      BY <3>1, MulBarRests
    <3> HIDE DEF muluBar
    <3>4. Mul!MulPosedge(NoRequest, 0, 0)
      BY <3>2, <3>3 DEF Mul!MulPosedge
    <3> QED
      BY <3>4 DEF MulStep
  <2> QED
    BY <2>1, <2>2
<1>2. CASE mult_state = "EXECUTE" /\ mult_Cn = 0 /\ MulFinish
  <2>1. muluBar.state = "EXECUTE" /\ muluBar.Cn = 0
    BY <1>2
  <2>2. muluBar' = [muluBar EXCEPT !.state = "IDLE", !.data_ok = TRUE,
                                   !.data = muluBar.product]
    BY <1>2, MulBarFinishes
  <2> HIDE DEF muluBar
  <2>3. Mul!MulPosedge(NoRequest, 0, 0)
    BY <2>1, <2>2 DEF Mul!MulPosedge
  <2> QED
    BY <2>3 DEF MulStep
<1>3. CASE mult_state = "EXECUTE" /\ mult_Cn # 0 /\ MulIterate
  <2>1. Mul!MulPosedge(NoRequest, 0, 0)
    BY <1>3 DEF MulIterate, Mul!MulPosedge
  <2> QED
    BY <2>1 DEF MulStep
<1>4. CASE MulReset
  <2>1. Mul!MulReset
    BY <1>4 DEF MulReset, Mul!MulReset
  <2> QED
    BY <2>1 DEF MulStep
<1>5. CASE UNCHANGED multiplyVars
  BY <1>5 DEF multiplyVars
<1> QED
  BY <1>1, <1>2, <1>3, <1>4, <1>5 DEF MultiplyNext, MulWork

(* multiply.sv is the unit the core's exu.sv is modelled with: XLEN steps  *)
(* after an operand it has the low half of the product, or of the word     *)
(* form's the lower quarter extended, whatever the operands and the width. *)
THEOREM MultiplierMultiplies == MultiplySpec => ImplementsMulUnit
<1>1. MultiplyInit => Mul!MulInit
  BY DEF MultiplyInit, Mul!MulInit, muluBar, NoMul, MulQuiet
<1>2. MultiplySpec => [][MulStep]_muluBar
  BY MultiplyStarts, MultiplySteps, MultiplyMaps, PTL DEF MultiplySpec
<1>3. MultiplySpec => Mul!MulInit
  BY <1>1 DEF MultiplySpec
<1> QED
  BY <1>2, <1>3 DEF ImplementsMulUnit, MulStep
-----------------------------------------------------------------------------
(* A step of the parts is a step of each of them, or leaves it alone.      *)
LEMMA PartsSeparate == PartsSpec => Spec /\ MultiplySpec
<1>1. PartsInit => Init /\ MultiplyInit
  BY DEF PartsInit
<1>2. [PartsNext]_partsVars => [Next]_vars /\ [MultiplyNext]_multiplyVars
  BY DEF PartsNext, partsVars, unitVars
<1> QED
  BY <1>1, <1>2, PTL DEF PartsSpec, Spec, MultiplySpec

(* Side by side, too, no register of divide.sv and multiply.sv overflows,  *)
(* at any width.                                                           *)
THEOREM UnitsAreTyped == PartsSpec => []UnitsTypeOK
<1>1. (TypeOK /\ LoopInvariant) /\ (MulTypeOK /\ MulLoopInvariant) => UnitsTypeOK
  BY DEF UnitsTypeOK
<1> QED
  BY <1>1, PartsSeparate, DividerLoops, MultiplierLoops, PTL

(* And the partial results of divide.sv and multiply.sv mean the same      *)
(* after every step.                                                       *)
THEOREM UnitsLoop == PartsSpec => []LoopInvariants
<1>1. (TypeOK /\ LoopInvariant) /\ (MulTypeOK /\ MulLoopInvariant) => LoopInvariants
  BY DEF LoopInvariants
<1> QED
  BY <1>1, PartsSeparate, DividerLoops, MultiplierLoops, PTL
=============================================================================
