--------------------------------- MODULE Lanes ---------------------------------
(***************************************************************************)
(* The byte lanes of the 64-bit buses.  A word is its eight bytes, lowest  *)
(* first; a mask or a strobe is the set of lanes it selects.  mem.sv and   *)
(* the test bench's LoadOp each work out the lanes of an access; the       *)
(* memory device turns strobes into masks.                                 *)
(***************************************************************************)
EXTENDS Integers

Lane == 0 .. 7
Byte == 0 .. 255
Word == [Lane -> Byte]
ZeroWord == [k \in Lane |-> 0]
Width == {1, 2, 4, 8}

Offset(a) == a % 8
Aligned(n, a) == a % n = 0
Fill(signed, b) == IF signed /\ b >= 128 THEN 255 ELSE 0

ShiftUp(v, k) == [j \in Lane |-> IF j >= k THEN v[j - k] ELSE 0]
ShiftDown(v, k) == [j \in Lane |-> IF j + k \in Lane THEN v[j + k] ELSE 0]
-----------------------------------------------------------------------------
(* mem.sv.  Of an access that crosses its word the lanes past the end are  *)
(* lost; only aligned loads have a defined result.                         *)

(* Mutant: the strobe is not moved to the lanes of the address.           *)
strobe_unshifted(n, a) == 0 .. n - 1
strobe(n, a) == IF n = 8 THEN Lane ELSE {k \in Lane : k - Offset(a) \in 0 .. n - 1}
data_t(a, v) == ShiftUp(v, Offset(a))
dmem_out(n, signed, a, w) ==
  IF n = 8 THEN w
  ELSE [k \in Lane |-> IF k < n THEN w[Offset(a) + k]
                       ELSE Fill(signed, w[Offset(a) + n - 1])]
-----------------------------------------------------------------------------
(* class LoadOp.  SIZEn_SHTm is the width n in bytes and the shift m / 8;  *)
(* parse rounds the address down to the width.                             *)
LoadOp == [width : Width \cup {0}, shift : Lane]
DISCARD == [width |-> 0, shift |-> 0]
SIZE8_SHT0 == [width |-> 8, shift |-> 0]

(* Mutant: bit 2 of the address is ignored.                                *)
parse_low(n, a) == [width |-> n, shift |-> ((a % 4) \div n) * n]
parse(n, a) == [width |-> n, shift |-> (Offset(a) \div n) * n]
OpStrobe(op) == {k \in Lane : k - op.shift \in 0 .. op.width - 1}
OpMask(op) == {k \in Lane : k - op.shift \in 0 .. op.width - 1}
place(op, data) == ShiftUp(data, op.shift)
apply(op, data) == IF op = DISCARD THEN ZeroWord ELSE ShiftDown(data, op.shift)
(* apply(data, dest): the narrower stores fall through, over the same      *)
(* bytes; the others of dest keep their value.                             *)
applyTo(op, data, old) ==
  [k \in Lane |-> IF k < op.width THEN apply(op, data)[k] ELSE old[k]]
-----------------------------------------------------------------------------
(* CBusDevice::sync: each half of the strobe selects a mask of 32 bits.    *)
STROBE_TO_MASK(half) == {k \in 0 .. 3 : k \in half}
device_mask(s) ==
  STROBE_TO_MASK(s \cap 0 .. 3) \cup {k + 4 : k \in STROBE_TO_MASK({j - 4 : j \in s \cap 4 .. 7})}
=============================================================================
