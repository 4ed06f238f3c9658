-------------------------------- MODULE Divide --------------------------------
(***************************************************************************)
(* exu/divide.sv register by register: a shift-and-subtract divider on     *)
(* magnitudes, with the word forms aligned to the top half.                *)
(***************************************************************************)
EXTENDS MulDiv

CONSTANT ResetCn                     \* the step counts at which resets arrive

VARIABLES state, Cn,
          remainder,       \* 128 bits: partial remainder, dividend, quotient
          divisor,
          mode,            \* sign_reg, compare, right_sign, x_sign, isword
          out,             \* div_data_ok, div_data, rem_data
          op               \* history: the request in execution, and its answer

vars == <<state, Cn, remainder, divisor, mode, out, op>>

Asked(i, x, y) ==
  [i |-> i, x |-> x, y |-> y,
   early |-> EarlyRef(i, x, y), div |-> DivRef(i, x, y), rem |-> RemRef(i, x, y)]
NoOp == [i |-> NoRequest, x |-> 0, y |-> 0, early |-> FALSE, div |-> 0, rem |-> 0]
NoMode == [sign |-> FALSE, compare |-> FALSE, right |-> FALSE, x |-> FALSE,
           word |-> FALSE]
Quiet == [ok |-> FALSE, div |-> 0, rem |-> 0]

TypeOK ==
  /\ state \in {"IDLE", "EXECUTE"} /\ Cn \in 0 .. XLEN
  /\ remainder \in 0 .. Pow2[2 * XLEN] - 1 /\ divisor \in XWord
  /\ mode \in [{"sign", "compare", "right", "x", "word"} -> BOOLEAN]
  /\ out \in [ok : BOOLEAN, div : XWord, rem : XWord]
  /\ op \in [i : Request, x : XWord, y : XWord, early : BOOLEAN, div : XWord, rem : XWord]

(* At the end of the power-up reset.                                       *)
Init ==
  /\ state = "IDLE" /\ Cn = 0 /\ remainder = 0 /\ divisor = 0
  /\ mode = NoMode /\ out = Quiet /\ op = NoOp
-----------------------------------------------------------------------------
Align(word, v) == IF word THEN (v % Pow2[H]) * Pow2[H] ELSE v
Top(word, v) == Align(word, v) >= Pow2[XLEN - 1]
Magnitude(i, v) == IF i.sign /\ Top(i.word, v) THEN Negate(Align(i.word, v), XLEN)
                                               ELSE Align(i.word, v)

(* Mutant: one step too many.                                              *)
StepsLong == XLEN + 1
Steps == XLEN

Start(i, x, y) ==
  /\ state' = "EXECUTE" /\ Cn' = Steps
  /\ remainder' = 2 * Magnitude(i, x) /\ divisor' = Magnitude(i, y)
  /\ mode' = [sign |-> i.sign, compare |-> Magnitude(i, x) < Magnitude(i, y),
              right |-> Top(i.word, x) # Top(i.word, y),
              x |-> i.sign /\ Top(i.word, x), word |-> i.word]
  /\ out' = Quiet
  /\ op' = Asked(i, x, y)

Rest ==
  /\ remainder' = 0 /\ out' = Quiet /\ op' = NoOp
  /\ mode' = [NoMode EXCEPT !.x = mode.x]
  /\ UNCHANGED <<state, Cn, divisor>>
-----------------------------------------------------------------------------
(* remainder_num_unsign drops the bit the last shift made room for, and    *)
(* remainder_num_sign copies the top bit into the place that leaves.       *)
RemUnsign == Slice(remainder, 2 * XLEN - 1, XLEN + 1)
RemSign == RemUnsign + Pow2[XLEN - 1] * Slice(remainder, 2 * XLEN - 1, 2 * XLEN - 1)
NegateIf(b, v) == IF b THEN Negate(v, XLEN) ELSE v

(* Mutant: the remainder takes the sign of the quotient.                   *)
SignedRemainderLikeQuotient == NegateIf(mode.right, RemSign)
SignedRemainder == NegateIf(mode.x, RemSign)

(* After the last step.  remuw is zero-extended here.                      *)
FinishedOut ==
  LET q == NegateIf(mode.sign /\ mode.right, remainder % Pow2[XLEN])
      r == SignedRemainder
  IN  [ok |-> TRUE,
       div |-> IF mode.word THEN SextWord(q % Pow2[H]) ELSE q,
       rem |-> CASE mode.sign /\ mode.word   -> SextWord(r \div Pow2[H])
                 [] mode.sign /\ ~mode.word  -> r
                 [] ~mode.sign /\ mode.word  -> RemUnsign \div Pow2[H]
                 [] ~mode.sign /\ ~mode.word -> RemUnsign]

(* Division by zero, or by more than the dividend: remainder still holds   *)
(* the dividend's magnitude, one bit up.                                   *)
EarlyOut ==
  LET whole == IF mode.x THEN Negate(remainder, 2 * XLEN) ELSE remainder
  IN  [ok |-> TRUE,
       div |-> IF divisor = 0 THEN Pow2[XLEN] - 1 ELSE 0,
       rem |-> IF mode.word THEN SextWord(Slice(whole, XLEN, H + 1))
               ELSE NegateIf(mode.x, Slice(remainder, XLEN, 1))]

Finish(o) ==
  /\ state' = "IDLE" /\ out' = o
  /\ UNCHANGED <<Cn, remainder, divisor, mode, op>>

Shifted(r, bit) == ((2 * r) % Pow2[2 * XLEN]) + bit
(* Mutant: a partial remainder equal to the divisor is not reduced.        *)
StepLate(r) == IF r \div Pow2[XLEN] <= divisor THEN Shifted(r, 0)
               ELSE Shifted(r - divisor * Pow2[XLEN], 1)

Step(r) == IF r \div Pow2[XLEN] < divisor THEN Shifted(r, 0)
           ELSE Shifted(r - divisor * Pow2[XLEN], 1)

Iterate ==
  /\ remainder' = Step(remainder) /\ Cn' = Cn - 1
  /\ UNCHANGED <<state, divisor, mode, out, op>>

(* posedge clk; an operand counts only on an idle unit.                    *)
Take(i, x, y) ==
  \/ state = "IDLE" /\ i.op = "div" /\ Start(i, x, y)
  \/ state = "IDLE" /\ i.op # "div" /\ Rest

Work ==
  \/ state = "EXECUTE" /\ Cn = 0 /\ Finish(FinishedOut)
  \/ state = "EXECUTE" /\ Cn # 0 /\ (divisor = 0 \/ mode.compare) /\ Finish(EarlyOut)
  \/ state = "EXECUTE" /\ Cn # 0 /\ divisor # 0 /\ ~mode.compare /\ Iterate

Reset ==
  /\ Cn \in ResetCn
  /\ state' = "IDLE"
  /\ UNCHANGED <<Cn, remainder, divisor, mode, out, op>>

(* To the divider a multiplication is a cycle without a request.          *)
Next ==
  \/ \E i \in Request, x, y \in XWord : i.op # "mul" /\ Take(i, x, y)
  \/ Work
  \/ Reset

Spec == Init /\ [][Next]_vars
-----------------------------------------------------------------------------
(* Halfway through, after k steps: the low k bits of remainder are the     *)
(* quotient of the first k bits of the dividend, above them the bits not   *)
(* yet taken and the remainder so far, one bit up; nothing is lost off the *)
(* top though the partial remainder has no 65th bit (divide.sv:144).       *)
LoopInvariant ==
  state = "EXECUTE" =>
    LET k == XLEN - Cn
        dividend == Magnitude(op.i, op.x)
        prefix == dividend \div Pow2[Cn]
        q == remainder % Pow2[k]
        p == prefix - q * divisor
    IN  /\ divisor = Magnitude(op.i, op.y)
        /\ remainder = Pow2[k + 1] * (p * Pow2[Cn] + (dividend % Pow2[Cn])) + q
        /\ p >= 0 /\ (k > 0 => p < divisor)

(* The unit is what Exu takes it for: the quotient and remainder of the M  *)
(* extension for every operand, sign and width, after one step if they are *)
(* trivial and after XLEN otherwise, held until the next clock edge, and   *)
(* a reset that stops the unit but leaves its outputs.                     *)
divuBar ==
  [state |-> state, Cn |-> Cn,
   early |-> op.early, div |-> op.div, rem |-> op.rem,
   data_ok |-> out.ok, div_data |-> out.div, rem_data |-> out.rem]

Unit == INSTANCE DivUnit WITH
  divu <- divuBar, Word <- XWord, Zero <- 0, Instr <- Request, Op <- OpOf,
  CN <- XLEN, DivFn <- DivRef, RemFn <- RemRef, MulFn <- MulRef, Early <- EarlyRef

ImplementsDivUnit ==
  Unit!DivInit /\ [][Unit!DivPosedge(op'.i, op'.x, op'.y) \/ Unit!DivReset]_divuBar
=============================================================================
