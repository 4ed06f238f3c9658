-------------------------------- MODULE MulDiv --------------------------------
(***************************************************************************)
(* The arithmetic of the iterative units at a small width: 64 is XLEN, 32  *)
(* is H, bit vectors are the naturals they denote.  Below it, what the M   *)
(* extension asks of the instructions decoder.sv sends to the units.       *)
(***************************************************************************)
EXTENDS Integers

CONSTANT H                           \* width of a word form's operands

ASSUME WidthAssumption == H \in Nat \ {0, 1}

XLEN == 2 * H
Pow2[n \in Nat] == IF n = 0 THEN 1 ELSE 2 * Pow2[n - 1]
XWord == 0 .. Pow2[XLEN] - 1

Slice(v, hi, lo) == (v \div Pow2[lo]) % Pow2[hi - lo + 1]
Negate(v, n) == (Pow2[n] - v) % Pow2[n]                       \* ~v + 1, n bits
SextWord(w) == IF w >= Pow2[H - 1] THEN w + Pow2[XLEN] - Pow2[H] ELSE w

(* What the units see of the decoded instruction: div_valid or mult_valid, *)
(* the signed forms, and the word forms (muldivword).                      *)
NoRequest == [op |-> "none", sign |-> FALSE, word |-> FALSE]
Request == [op : {"div", "mul"}, sign : BOOLEAN, word : BOOLEAN] \cup {NoRequest}
OpOf(i) == i.op
-----------------------------------------------------------------------------
(* Reference: operands as integers, division truncated towards zero.       *)
Operand(i, v) ==
  LET n == IF i.word THEN H ELSE XLEN
      u == v % Pow2[n]
  IN  IF i.sign /\ u >= Pow2[n - 1] THEN u - Pow2[n] ELSE u
Result(i, z) == IF i.word THEN SextWord(z % Pow2[H]) ELSE z % Pow2[XLEN]
Abs(z) == IF z < 0 THEN -z ELSE z
Quotient(a, b) == IF (a < 0) = (b < 0) THEN Abs(a) \div Abs(b)
                                       ELSE -(Abs(a) \div Abs(b))

DivRef(i, x, y) ==
  LET a == Operand(i, x)
      b == Operand(i, y)
  IN  Result(i, IF b = 0 THEN -1 ELSE Quotient(a, b))
RemRef(i, x, y) ==
  LET a == Operand(i, x)
      b == Operand(i, y)
  IN  Result(i, IF b = 0 THEN a ELSE a - b * Quotient(a, b))
MulRef(i, x, y) == Result(i, x * y)
EarlyRef(i, x, y) ==
  LET b == Operand(i, y) IN b = 0 \/ Abs(Operand(i, x)) < Abs(b)
=============================================================================
