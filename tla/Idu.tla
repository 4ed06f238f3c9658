--------------------------------- MODULE Idu ---------------------------------
(***************************************************************************)
(* idu/idu.sv: the controls of the instruction in execution, latched from  *)
(* the decoder as the fetch completes.  The module's "rst" port is wired   *)
(* to exu_data_ok (cpu.sv:58): the controls are cleared by the completion  *)
(* of the instruction, and by nothing else.                                *)
(***************************************************************************)
EXTENDS Machine

VARIABLES DM_R, DM_W,          \* a load, a store waits for its address
          RD_M_reg, RF_W_reg,  \* source and enable of the register write
          rdc_reg, rs2c_reg,   \* its destination; the register a store reads
          dreq_size            \* dreq_size_with_sign

iduVars == <<DM_R, DM_W, RD_M_reg, RF_W_reg, rdc_reg, rs2c_reg, dreq_size>>

(* The inputs of rdmux.sv.                                                 *)
RdSource == {"alu_out", "dmem_out", "div_data", "rem_data", "mul_data"}

IduTypeOK ==
  /\ DM_R \in BOOLEAN /\ DM_W \in BOOLEAN /\ RF_W_reg \in BOOLEAN
  /\ RD_M_reg \in RdSource
  /\ rdc_reg \in Reg /\ rs2c_reg \in Reg
  /\ dreq_size \in Size

IduInit ==
  /\ DM_R = FALSE /\ DM_W = FALSE /\ RF_W_reg = FALSE
  /\ RD_M_reg = "alu_out"
  /\ rdc_reg = X0 /\ rs2c_reg = X0
  /\ dreq_size = [width |-> 1, unsigned |-> FALSE]

(* decoder.sv's RD_M.                                                      *)
RD_M_of(i) == CASE Op(i) = "load" -> "dmem_out"
                [] Op(i) = "div"  -> "div_data"
                [] Op(i) = "rem"  -> "rem_data"
                [] Op(i) = "mul"  -> "mul_data"
                [] OTHER          -> "alu_out"

(* dstall, the answer to a load, overrides the latched write controls.     *)
RF_W(dstall) == dstall \/ RF_W_reg
RD_M(dstall) == IF dstall THEN "dmem_out" ELSE RD_M_reg
rs2c(instr)  == IF DM_W THEN rs2c_reg ELSE Rs2(instr)

Latch(instr) ==
  /\ DM_R' = (Op(instr) = "load")
  /\ DM_W' = (Op(instr) = "store")
  /\ RF_W_reg' = WritesRd(instr)
  /\ RD_M_reg' = RD_M_of(instr)
  /\ rdc_reg' = Rd(instr)
  /\ rs2c_reg' = Rs2(instr)
  /\ dreq_size' = SizeOf(instr)

Clear ==
  /\ DM_R' = FALSE /\ DM_W' = FALSE /\ RF_W_reg' = FALSE
  /\ RD_M_reg' = "alu_out"
  /\ UNCHANGED <<rdc_reg, rs2c_reg, dreq_size>>

(* The assignments of idu_valid come last and win over those of rst.       *)
IduPosedge(rst, idu_valid, instr) ==
  \/ idu_valid /\ Latch(instr)
  \/ rst /\ ~idu_valid /\ Clear
  \/ ~rst /\ ~idu_valid /\ UNCHANGED iduVars
=============================================================================
