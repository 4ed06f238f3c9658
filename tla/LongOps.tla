------------------------------- MODULE LongOps -------------------------------
(***************************************************************************)
(* The part of Machine that exu.sv's iterative units see: values,          *)
(* instructions by group, and what a multiplication or division yields.    *)
(***************************************************************************)
EXTENDS Naturals

CONSTANTS
  Word,             \* the 64-bit values: registers, memory and bus data
  Zero,             \* 64'b0
  Instr,            \* 32-bit instructions
  Op(_),            \* which group of RF_W / DM_R / DM_W / RD_M / ALUop it sets
  CN,               \* steps of an iterative multiplication or division
  DivFn(_, _, _),   \* (instr, rs1, rs2): what divide.sv leaves in div_data,
  RemFn(_, _, _),   \* ... in rem_data,
  MulFn(_, _, _),   \* ... and multiply.sv in mult_data
  Early(_, _, _)    \* (instr, rs1, rs2): divisor = 0 or dividend < divisor

OpClass == {"alu", "load", "store", "div", "rem", "mul", "none"}

(* exu.sv's wires.                                                         *)
div(i) == Op(i) \in {"div", "rem"}
mul(i) == Op(i) = "mul"

ASSUME LongOpTypes ==
  /\ Zero \in Word
  /\ CN \in Nat \ {0}
  /\ \A i \in Instr : Op(i) \in OpClass
  /\ \A i \in Instr, v, w \in Word : /\ DivFn(i, v, w) \in Word
                                     /\ RemFn(i, v, w) \in Word
                                     /\ MulFn(i, v, w) \in Word
                                     /\ Early(i, v, w) \in BOOLEAN
=============================================================================
