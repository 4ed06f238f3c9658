--------------------------------- MODULE Exu ---------------------------------
(***************************************************************************)
(* exu/exu.sv with exu/divide.sv and exu/multiply.sv.  An ordinary         *)
(* instruction completes in the cycle after its fetch, a multiplication or *)
(* division when its unit says so.  The iterations of the units are        *)
(* abstracted: a unit holds the result its working registers lead to.      *)
(***************************************************************************)
EXTENDS Machine, DivUnit, MulUnit

VARIABLES exu_valid,   \* an instruction is in execution: no fetch meanwhile
          data_ok,     \* an ordinary instruction completes in this cycle
          alu_out

exuVars == <<exu_valid, data_ok, alu_out, divu, mulu>>

ExuTypeOK ==
  /\ exu_valid \in BOOLEAN /\ data_ok \in BOOLEAN
  /\ alu_out \in Word
  /\ divu \in Divider /\ mulu \in Multiplier

ExuInit ==
  /\ exu_valid = FALSE /\ data_ok = FALSE
  /\ alu_out = Zero
  /\ DivInit /\ MulInit

exu_data_ok == data_ok \/ divu.data_ok \/ mulu.data_ok

(* Mutants: data_ok is set for long operations too; only the end of an     *)
(* ordinary instruction clears exu_valid.                                  *)
CtrlPosedgeNoGate(ifu_finish, long) ==
  \/ exu_data_ok /\ exu_valid' = FALSE /\ data_ok' = FALSE
  \/ ifu_finish /\ ~exu_data_ok /\ exu_valid' = TRUE /\ data_ok' = TRUE
  \/ ~ifu_finish /\ ~exu_data_ok /\ UNCHANGED <<exu_valid, data_ok>>
CtrlPosedgeForgets(ifu_finish, long) ==
  \/ data_ok /\ exu_valid' = FALSE /\ data_ok' = FALSE
  \/ ifu_finish /\ ~data_ok /\ exu_valid' = TRUE /\ data_ok' = ~long
  \/ ~ifu_finish /\ ~data_ok /\ UNCHANGED <<exu_valid, data_ok>>

(* The fetch sets exu_valid, and the completion, assigned last, clears it. *)
CtrlPosedge(ifu_finish, long) ==
  \/ /\ exu_data_ok
     /\ exu_valid' = FALSE /\ data_ok' = FALSE
  \/ /\ ifu_finish /\ ~exu_data_ok
     /\ exu_valid' = TRUE
     /\ data_ok' = (data_ok \/ ~long)
  \/ /\ ~ifu_finish /\ ~exu_data_ok
     /\ UNCHANGED <<exu_valid, data_ok>>

(* A clock edge out of reset: i is the instruction on the fetch port,      *)
(* valid or not, a and b the registers it names.                           *)
ExuPosedge(ifu_finish, i, a, b, pc) ==
  /\ CtrlPosedge(ifu_finish, div(i) \/ mul(i))
  /\ alu_out' = AluFn(i, a, b, pc)
  /\ DivPosedge(i, a, b)
  /\ MulPosedge(i, a, b)

(* rst resets three registers only: data_ok and the units' data_ok keep    *)
(* their values.  alu_out has no reset and samples as on a clock edge.     *)
ExuReset(i, a, b, pc) ==
  /\ exu_valid' = FALSE
  /\ DivReset /\ MulReset
  /\ alu_out' = AluFn(i, a, b, pc)
  /\ UNCHANGED data_ok
=============================================================================
