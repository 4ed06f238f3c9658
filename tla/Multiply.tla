------------------------------- MODULE Multiply -------------------------------
(* exu/multiply.sv register by register: a shift-and-add multiplier.       *)
EXTENDS MulDiv

CONSTANT MulResetCn                  \* the step counts at which resets arrive

VARIABLES mult_state, mult_Cn,
          mult_reg,        \* 129 bits: partial product over multiplier
          micand, isword,
          mult_out,        \* mult_data_ok, mult_data
          mult_op          \* history: the request in execution

multiplyVars == <<mult_state, mult_Cn, mult_reg, micand, isword, mult_out, mult_op>>

NoMul == [i |-> NoRequest, x |-> 0, y |-> 0]
MulQuiet == [ok |-> FALSE, data |-> 0]

MulTypeOK ==
  /\ mult_state \in {"IDLE", "EXECUTE"} /\ mult_Cn \in 0 .. XLEN
  /\ mult_reg \in 0 .. Pow2[2 * XLEN + 1] - 1 /\ micand \in XWord
  /\ isword \in BOOLEAN /\ mult_out \in [ok : BOOLEAN, data : XWord]
  /\ mult_op \in [i : Request, x : XWord, y : XWord]

(* At the end of the power-up reset.                                       *)
MultiplyInit ==
  /\ mult_state = "IDLE" /\ mult_Cn = 0 /\ mult_reg = 0 /\ micand = 0
  /\ isword = FALSE /\ mult_out = MulQuiet /\ mult_op = NoMul

(* Mutant: one step too many.                                              *)
MulStepsLong == XLEN + 1
MulSteps == XLEN

MulStart(i, x, y) ==
  /\ mult_state' = "EXECUTE" /\ mult_Cn' = MulSteps
  /\ mult_reg' = x /\ micand' = y /\ isword' = i.word
  /\ mult_out' = MulQuiet
  /\ mult_op' = [i |-> i, x |-> x, y |-> y]

(* mult_reg keeps the last product.                                        *)
MulRest ==
  /\ mult_out' = MulQuiet /\ isword' = FALSE
  /\ UNCHANGED <<mult_state, mult_Cn, mult_reg, micand, mult_op>>

(* Mutant: mulw extends with zeros.                                        *)
ProductUnsigned == IF isword THEN mult_reg % Pow2[H] ELSE mult_reg % Pow2[XLEN]
Product == IF isword THEN SextWord(mult_reg % Pow2[H]) ELSE mult_reg % Pow2[XLEN]

MulFinish ==
  /\ mult_state' = "IDLE" /\ mult_out' = [ok |-> TRUE, data |-> Product]
  /\ UNCHANGED <<mult_Cn, mult_reg, micand, isword, mult_op>>

(* Mutant: plus is as wide as its operands.                                *)
PlusNarrow(p) == (p + micand) % Pow2[XLEN]
Plus(p) == p + micand

MulIterate ==
  /\ mult_reg' = IF mult_reg % 2 = 1
                 THEN Plus(Slice(mult_reg, 2 * XLEN - 1, XLEN)) * Pow2[XLEN - 1]
                        + Slice(mult_reg, XLEN - 1, 1)
                 ELSE mult_reg \div 2
  /\ mult_Cn' = mult_Cn - 1
  /\ UNCHANGED <<mult_state, micand, isword, mult_out, mult_op>>

(* posedge clk; an operand counts only on an idle unit.                    *)
MulTake(i, x, y) ==
  \/ mult_state = "IDLE" /\ i.op = "mul" /\ MulStart(i, x, y)
  \/ mult_state = "IDLE" /\ i.op # "mul" /\ MulRest

MulWork ==
  \/ mult_state = "EXECUTE" /\ mult_Cn = 0 /\ MulFinish
  \/ mult_state = "EXECUTE" /\ mult_Cn # 0 /\ MulIterate

MulReset ==
  /\ mult_Cn \in MulResetCn
  /\ mult_state' = "IDLE"
  /\ UNCHANGED <<mult_Cn, mult_reg, micand, isword, mult_out, mult_op>>

(* To the multiplier a division is a cycle without a request, and there is *)
(* one form of multiplication for both signs.                              *)
MultiplyNext ==
  \/ \E i \in Request, x, y \in XWord : i.op # "div" /\ ~i.sign /\ MulTake(i, x, y)
  \/ MulWork
  \/ MulReset

MultiplySpec == MultiplyInit /\ [][MultiplyNext]_multiplyVars
-----------------------------------------------------------------------------
(* After k steps the low bits of mult_reg are the bits of the multiplier   *)
(* not yet used, and above them is the product with those used; no carry   *)
(* of plus is lost (multiply.sv:30).                                       *)
MulLoopInvariant ==
  mult_state = "EXECUTE" =>
    LET used == Pow2[XLEN - mult_Cn] IN
    /\ micand = mult_op.y
    /\ mult_reg = (mult_op.x % used) * mult_op.y * Pow2[mult_Cn] + (mult_op.x \div used)

(* The unit is what Exu takes it for: the low half of the product, of      *)
(* signed and unsigned operands alike, after XLEN steps.                   *)
muluBar ==
  [state |-> mult_state, Cn |-> mult_Cn,
   product |-> IF mult_op = NoMul THEN 0 ELSE MulRef(mult_op.i, mult_op.x, mult_op.y),
   data_ok |-> mult_out.ok, data |-> mult_out.data]

Mul == INSTANCE MulUnit WITH
  mulu <- muluBar, Word <- XWord, Zero <- 0, Instr <- Request, Op <- OpOf,
  CN <- XLEN, DivFn <- DivRef, RemFn <- RemRef, MulFn <- MulRef, Early <- EarlyRef

(* On the clock edges of an idle unit op' is the last request, not this    *)
(* one: the second disjunct is a cycle without a request.                  *)
ImplementsMulUnit ==
  /\ Mul!MulInit
  /\ [][\/ Mul!MulPosedge(mult_op'.i, mult_op'.x, mult_op'.y)
        \/ Mul!MulPosedge(NoRequest, 0, 0)
        \/ Mul!MulReset]_muluBar
=============================================================================
