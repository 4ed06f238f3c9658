-------------------------------- MODULE SimTop -------------------------------
(***************************************************************************)
(* cpu.sv, src/core.sv and SimTop.sv: the core's components on one clock,  *)
(* its two buses arbitrated onto the memory.  An operator without a        *)
(* parameter that is no register is a wire, named as in the source.        *)
(***************************************************************************)
EXTENDS Ifu, Idu, Exu, Regfile, Memu, CBusArbiter, CBusDevice

ASSUME TwoInputs == NUM_INPUTS = 2

VARIABLES
  reset,
  valid, valid_tem2,          \* cpu.sv: the commit, two cycles late
  RF_W_tem1, RF_W_tem2,       \* core.sv: the register write, two cycles late
  rdc_tem1, rdc_tem2,
  rd_tem1, rd_tem2

commitVars == <<valid, valid_tem2, RF_W_tem1, RF_W_tem2, rdc_tem1, rdc_tem2,
                rd_tem1, rd_tem2>>
vars == <<ifuVars, iduVars, exuVars, regfileVars, dreq, arbiterVars, deviceVars,
          commitVars, reset>>

-----------------------------------------------------------------------------
(* The buses.  SimTop.sv's {icreq, dcreq} makes the data bus input 0.      *)
DBUS == 0
IBUS == 1

(* Mutant: the next instruction is fetched during execution.               *)
ifu_valid_always == TRUE
ifu_valid == ~exu_valid
icreq == [valid |-> ifu_valid, is_write |-> FALSE, addr |-> pc_reg,
          size |-> FetchWidth, data |-> Zero]
dcreq == dreq
ireqs == [i \in Inputs |-> IF i = DBUS THEN dcreq ELSE icreq]
oreq == [ireqs[index] EXCEPT !.valid = busy /\ @]

(* DBusToCBus.sv, once for each bus: okay, and the data or '0.             *)
iresp_data_ok == Granted(IBUS) /\ Ready
dresp_data_ok == Granted(DBUS) /\ Ready
dresp_data == IF Granted(DBUS) THEN Data ELSE Zero
instr == Half(pc_reg, IF Granted(IBUS) THEN Data ELSE Zero)

-----------------------------------------------------------------------------
(* The core's wires (cpu.sv).                                              *)
dstall == ~dreq.is_write /\ dresp_data_ok
rs1_out == rs1(Rs1(instr))
rs2_out == rs2(rs2c(instr))
skip == Redirect(instr, rs1_out, rs2_out)
br_out == Target(instr, rs1_out, pc_reg)

rdmux_out ==
  CASE RD_M(dstall) = "alu_out"  -> alu_out
    [] RD_M(dstall) = "dmem_out" -> dmem_out(dreq_size, dresp_data)
    [] RD_M(dstall) = "div_data" -> divu.div_data
    [] RD_M(dstall) = "rem_data" -> divu.rem_data
    [] RD_M(dstall) = "mul_data" -> mulu.data

-----------------------------------------------------------------------------
Init ==
  /\ reset = TRUE
  /\ IfuInit /\ IduInit /\ ExuInit /\ RegfileInit /\ MemuInit
  /\ ArbiterInit /\ DeviceInit
  /\ valid = FALSE /\ valid_tem2 = FALSE
  /\ RF_W_tem1 = FALSE /\ RF_W_tem2 = FALSE
  /\ rdc_tem1 = X0 /\ rdc_tem2 = X0
  /\ rd_tem1 = Zero /\ rd_tem2 = Zero

(* The commit of an instruction: when it completes, a load when its data   *)
(* arrives.  None of these registers has a reset.                          *)
CommitPosedge ==
  /\ valid_tem2' = ((exu_data_ok /\ ~DM_R) \/ (dresp_data_ok /\ ~dreq.is_write))
  /\ valid' = valid_tem2
  /\ RF_W_tem1' = RF_W(dstall) /\ RF_W_tem2' = RF_W_tem1
  /\ rdc_tem1' = rdc_reg       /\ rdc_tem2' = rdc_tem1
  /\ rd_tem1' = rdmux_out      /\ rd_tem2' = rd_tem1

(* The registers with a synchronous reset or none.                         *)
SyncPosedge ==
  /\ IduPosedge(exu_data_ok, iresp_data_ok, instr)
  /\ RegfilePosedge(reset, RF_W(dstall), Rs1(instr), rs2c(instr), rdc_reg, rdmux_out)
  /\ MemuPosedge(DM_R, DM_W, AddrOf(alu_out), rs2_out, dreq_size, dresp_data_ok)
  /\ ArbiterPosedge(reset, ireqs, Ready)
  /\ DevicePosedge(oreq)
  /\ CommitPosedge
  /\ UNCHANGED reset

(* A clock edge out of reset.                                              *)
Posedge ==
  /\ ~reset
  /\ IfuPosedge(~iresp_data_ok, skip, br_out)
  /\ ExuPosedge(iresp_data_ok, instr, rs1_out, rs2_out, pc_reg)
  /\ SyncPosedge

(* A clock edge in reset.                                                  *)
PosedgeInReset ==
  /\ reset
  /\ IfuReset
  /\ ExuReset(instr, rs1_out, rs2_out, pc_reg)
  /\ SyncPosedge

ReleaseReset ==
  /\ reset
  /\ reset' = FALSE
  /\ UNCHANGED <<ifuVars, iduVars, exuVars, regfileVars, dreq, arbiterVars,
                 deviceVars, commitVars>>

Next == Posedge \/ PosedgeInReset \/ ReleaseReset
Spec == Init /\ [][Next]_vars

(* The clock runs; whoever drives reset releases it; and, p_disable being  *)
(* less than 1, the memory is enabled again and again.                     *)
Fairness == /\ WF_vars(Posedge /\ enable')
            /\ WF_vars(ReleaseReset)
LiveSpec == Spec /\ Fairness

-----------------------------------------------------------------------------
(* Every register of the design holds a value of its type.                 *)
TypeOK ==
  /\ IfuTypeOK /\ IduTypeOK /\ ExuTypeOK /\ RegfileTypeOK /\ MemuTypeOK
  /\ ArbiterTypeOK /\ DeviceTypeOK
  /\ reset \in BOOLEAN /\ valid \in BOOLEAN /\ valid_tem2 \in BOOLEAN
  /\ RF_W_tem1 \in BOOLEAN /\ RF_W_tem2 \in BOOLEAN
  /\ rdc_tem1 \in Reg /\ rdc_tem2 \in Reg
  /\ rd_tem1 \in Word /\ rd_tem2 \in Word

(* No master and no arbitration step disturbs a transaction the memory has *)
(* begun: the assertions of cbus_device.cpp:39-43 never fire.              *)
BusStable == SanityChecks(oreq)

(* The core relies on there being one instruction in it at a time, though  *)
(* no register says so: when a fetch completes, nothing of the instruction *)
(* before it is left, neither in execution, nor on its way to memory, nor  *)
(* waiting to be reported (exu.sv:45-58, mem.sv:50-65, cpu.sv:48-51).      *)
OneInFlight ==
  iresp_data_ok => /\ ~exu_valid /\ ~exu_data_ok
                   /\ divu.state = "IDLE" /\ mulu.state = "IDLE"
                   /\ ~DM_R /\ ~DM_W /\ ~RF_W_reg /\ ~dreq.valid
                   /\ ~valid_tem2 /\ ~valid

(* exu_data_ok ORs three completions (exu.sv:36): they never coincide, and *)
(* none comes without an instruction in execution that waits for it.       *)
OneCompletion ==
  /\ exu_data_ok => exu_valid
  /\ ~(data_ok /\ divu.data_ok) /\ ~(data_ok /\ mulu.data_ok)
  /\ ~(divu.data_ok /\ mulu.data_ok)

(* The bypasses of regfile.sv (39-46, 54-55) hold values that have been    *)
(* overwritten; none is on show when operands are read, by the decoder as  *)
(* a fetch completes or by a store a cycle later.                          *)
BypassNeverStale ==
  iresp_data_ok \/ DM_W => /\ rs1_out = regarray[Rs1(instr)]
                           /\ rs2_out = regarray[rs2c(instr)]

(* core.sv:67 passes skip on to difftest, which would then not compare the *)
(* instruction: it is low whenever a commit is on show.                    *)
CommitNeverSkipped == valid => ~skip

(* "is the field "data" valid?" (common.sv:206): no unit starts on what the *)
(* fetch port shows in a cycle without data_ok.                            *)
UnitsStartOnData ==
  [][(divu.state = "IDLE" /\ divu'.state = "EXECUTE")
     \/ (mulu.state = "IDLE" /\ mulu'.state = "EXECUTE") => iresp_data_ok]_vars

(* Execution never stops: there is always another commit to come.          *)
Progress == []<>valid

(* The instruction bus, which yields to the data bus whenever both ask    *)
(* (SimTop.sv:41, CBusArbiter.sv:36-45), is served in the end.             *)
FetchServed == ifu_valid ~> iresp_data_ok
=============================================================================
