----------------------------- MODULE SimTopProofs ----------------------------
(***************************************************************************)
(* For every machine that meets the assumptions: type correctness of       *)
(* SimTop, its phase invariant, and the safety properties that follow;     *)
(* then that the core implements the instruction set, each clock edge an   *)
(* instruction of Isa, the commit of one, or nothing.                      *)
(***************************************************************************)
EXTENDS SimTopIsa, SimTopInv, TLAPS

-----------------------------------------------------------------------------
(* The wires.                                                              *)

(* The arbiter prefers the data bus, and is idle only when nobody asks.    *)
LEMMA ArbiterChoice ==
  ASSUME TypeOK
  PROVE  /\ Inputs = {DBUS, IBUS}
         /\ Select(ireqs) = IF ~dreq.valid /\ ifu_valid THEN IBUS ELSE DBUS
         /\ ireqs[Select(ireqs)].valid = (dreq.valid \/ ifu_valid)
<1>1. Inputs = {DBUS, IBUS} /\ DBUS # IBUS
  BY TwoInputs DEF Inputs, DBUS, IBUS
<1>2. /\ ireqs[DBUS].valid = dreq.valid
      /\ ireqs[IBUS].valid = ifu_valid
  BY <1>1 DEF ireqs, dcreq, icreq
<1>3. dreq.valid \in BOOLEAN /\ ifu_valid \in BOOLEAN
  BY DEF TypeOK, MemuTypeOK, DataRequest, ExuTypeOK, ifu_valid
<1>4. CASE dreq.valid
  <2>1. ireqs[DBUS].valid = TRUE
    BY <1>2, <1>3, <1>4
  <2>2. \A j \in Inputs : DBUS <= j
    BY <1>1 DEF DBUS, IBUS
  <2>3. ~(IBUS <= DBUS)
    BY DEF DBUS, IBUS
  <2>4. \A i \in Inputs : (/\ ireqs[i].valid
                           /\ \A j \in Inputs : ireqs[j].valid => i <= j) <=> i = DBUS
    BY <1>1, <2>1, <2>2, <2>3, Zenon
  <2>5. Select(ireqs) = DBUS
    BY <1>1, <2>1, <2>4 DEF Select
  <2> QED
    BY <1>1, <1>2, <1>3, <1>4, <2>5
<1>5. CASE ~dreq.valid /\ ifu_valid
  <2>1. ireqs[IBUS].valid = TRUE /\ ireqs[DBUS].valid = FALSE
    BY <1>2, <1>3, <1>5
  <2>2. IBUS <= IBUS
    BY DEF IBUS
  <2>3. \A i \in Inputs : (/\ ireqs[i].valid
                           /\ \A j \in Inputs : ireqs[j].valid => i <= j) <=> i = IBUS
    BY <1>1, <2>1, <2>2, Zenon
  <2>4. Select(ireqs) = IBUS
    BY <1>1, <2>1, <2>3 DEF Select
  <2> QED
    BY <1>1, <1>2, <1>3, <1>5, <2>4
<1>6. CASE ~dreq.valid /\ ~ifu_valid
  <2>1. Select(ireqs) = DBUS
    BY <1>1, <1>2, <1>6 DEF Select, DBUS
  <2> QED
    BY <1>1, <1>2, <1>3, <1>6, <2>1
<1> QED
  BY <1>4, <1>5, <1>6

(* Every wire carries a value of its width.                                *)
LEMMA WireTypes ==
  ASSUME TypeOK
  PROVE  /\ Data \in Word /\ dresp_data \in Word
         /\ instr \in Instr
         /\ rs2c(instr) \in Reg
         /\ rs1_out \in Word /\ rs2_out \in Word
         /\ skip \in BOOLEAN /\ br_out \in Addr
         /\ rdmux_out \in Word
<1>1. Data \in Word /\ dresp_data \in Word
  BY ValueSets, LongOpTypes, IdleDataWords
  DEF TypeOK, DeviceTypeOK, Data, Ready, Transaction, dresp_data
<1>2. instr \in Instr
  BY <1>1, ValueSets, LongOpTypes DEF TypeOK, IfuTypeOK, instr
<1>3. Rs1(instr) \in Reg /\ rs2c(instr) \in Reg
  BY <1>2, DecoderTypes DEF TypeOK, IduTypeOK, rs2c
<1>4. rs1_out \in Word /\ rs2_out \in Word
  BY <1>3 DEF TypeOK, RegfileTypeOK, rs1_out, rs2_out, rs1, rs2
<1>5. skip \in BOOLEAN
  BY <1>2, <1>4, DecoderTypes DEF skip
<1>6. br_out \in Addr
  BY <1>2, <1>4, DatapathTypes DEF TypeOK, IfuTypeOK, br_out
<1>7. RD_M(dstall) \in RdSource
  BY DEF TypeOK, IduTypeOK, RD_M, RdSource
<1>8. dmem_out(dreq_size, dresp_data) \in Word
  BY <1>1, DatapathTypes DEF TypeOK, IduTypeOK, MemuTypeOK, DataRequest, dmem_out
<1>9. /\ alu_out \in Word /\ mulu.data \in Word
      /\ divu.div_data \in Word /\ divu.rem_data \in Word
  BY DEF TypeOK, ExuTypeOK, Divider, Multiplier
<1>10. rdmux_out \in Word
  BY <1>7, <1>8, <1>9 DEF rdmux_out, RdSource
<1> QED
  BY <1>1, <1>2, <1>3, <1>4, <1>5, <1>6, <1>10

-----------------------------------------------------------------------------
(* Type correctness, component by component.                               *)

(* The registers at power-up.                                              *)
LEMMA InitTypes == Init => TypeOK
<1> SUFFICES ASSUME Init PROVE TypeOK
  OBVIOUS
<1> USE DEF Init
<1>1. IfuTypeOK /\ IduTypeOK
  BY ValueSets, LongOpTypes DEF IfuInit, IfuTypeOK, IduInit, IduTypeOK, RdSource, Size, Width
<1>2. ExuTypeOK
  <2>1. 0 \in 0 .. CN
    BY LongOpTypes
  <2>2. divu \in Divider
    BY <2>1, LongOpTypes DEF ExuInit, DivInit, Divider
  <2>3. mulu \in Multiplier
    BY <2>1, LongOpTypes DEF ExuInit, MulInit, Multiplier
  <2> QED
    BY <2>2, <2>3, LongOpTypes DEF ExuInit, ExuTypeOK
<1>3. RegfileTypeOK /\ MemuTypeOK
  BY ValueSets, LongOpTypes DEF RegfileInit, RegfileTypeOK, MemuInit, MemuTypeOK, DataRequest, Width
<1>4. ArbiterTypeOK
  <2>1. 0 \in Inputs
    BY TwoInputs DEF Inputs
  <2> QED
    BY <2>1 DEF ArbiterInit, ArbiterTypeOK
<1>5. DeviceTypeOK
  BY ValueSets, LongOpTypes DEF DeviceInit, DeviceTypeOK, Transaction, Width
<1> QED
  BY <1>1, <1>2, <1>3, <1>4, <1>5, ValueSets, LongOpTypes DEF TypeOK

(* The program counters.                                                   *)
LEMMA IfuTypes ==
  ASSUME TypeOK
  PROVE  /\ IfuPosedge(~iresp_data_ok, skip, br_out) => IfuTypeOK'
         /\ IfuReset => IfuTypeOK'
  BY WireTypes, ValueSets DEF TypeOK, IfuTypeOK, IfuPosedge, IfuReset, ifuVars

(* The latched controls.                                                   *)
LEMMA IduTypes ==
  ASSUME TypeOK, IduPosedge(exu_data_ok, iresp_data_ok, instr)
  PROVE  IduTypeOK'
<1>1. IduTypeOK /\ instr \in Instr
  BY WireTypes DEF TypeOK
<1>2. CASE Latch(instr)
  <2>1. RD_M_of(instr) \in RdSource
    BY DEF RD_M_of, RdSource
  <2> QED
    BY <1>1, <1>2, <2>1, DecoderTypes DEF Latch, IduTypeOK, WritesRd
<1>3. CASE Clear
  BY <1>1, <1>3 DEF Clear, IduTypeOK, RdSource
<1>4. CASE UNCHANGED iduVars
  BY <1>1, <1>4 DEF iduVars, IduTypeOK
<1> QED
  BY <1>2, <1>3, <1>4 DEF IduPosedge

(* The counter of a unit never leaves 0 .. CN.                             *)
LEMMA DivTypes ==
  ASSUME NEW i \in Instr, NEW x \in Word, NEW y \in Word,
         divu \in Divider, DivPosedge(i, x, y)
  PROVE  divu' \in Divider
<1>1. /\ divu.Cn \in 0 .. CN /\ CN \in 0 .. CN
      /\ divu.Cn # 0 => divu.Cn - 1 \in 0 .. CN
  BY LongOpTypes DEF Divider
<1>2. /\ DivFn(i, x, y) \in Word /\ RemFn(i, x, y) \in Word
      /\ Early(i, x, y) \in BOOLEAN /\ Zero \in Word
  BY LongOpTypes
<1>3. CASE divu' = DivStart(i, x, y)
  BY <1>1, <1>2, <1>3 DEF DivStart, Divider
<1>4. CASE divu' = DivRest
  BY <1>1, <1>2, <1>4 DEF DivRest, Divider
<1>5. CASE divu' = DivFinish
  BY <1>1, <1>5 DEF DivFinish, Divider
<1>6. CASE divu.Cn # 0 /\ divu' = DivIterate
  BY <1>1, <1>6 DEF DivIterate, Divider
<1> QED
  BY <1>3, <1>4, <1>5, <1>6 DEF DivPosedge

(* The multiplier, whose product is a word.                                *)
LEMMA MulTypes ==
  ASSUME NEW i \in Instr, NEW x \in Word, NEW y \in Word,
         mulu \in Multiplier, MulPosedge(i, x, y)
  PROVE  mulu' \in Multiplier
<1>1. /\ mulu.Cn \in 0 .. CN /\ CN \in 0 .. CN
      /\ mulu.Cn # 0 => mulu.Cn - 1 \in 0 .. CN
  BY LongOpTypes DEF Multiplier
<1>2. MulFn(i, x, y) \in Word /\ Zero \in Word
  BY LongOpTypes
<1>3. CASE mulu' = [state |-> "EXECUTE", Cn |-> CN, product |-> MulFn(i, x, y),
                    data_ok |-> FALSE, data |-> Zero]
  BY <1>1, <1>2, <1>3 DEF Multiplier
<1>4. CASE mulu' = [mulu EXCEPT !.data_ok = FALSE, !.data = Zero]
  BY <1>2, <1>4 DEF Multiplier
<1>5. CASE mulu' = [mulu EXCEPT !.state = "IDLE", !.data_ok = TRUE, !.data = mulu.product]
  BY <1>5 DEF Multiplier
<1>6. CASE mulu.Cn # 0 /\ mulu' = [mulu EXCEPT !.Cn = @ - 1]
  BY <1>1, <1>6 DEF Multiplier
<1> QED
  BY <1>3, <1>4, <1>5, <1>6 DEF MulPosedge

(* The execution unit with its divider and multiplier.                     *)
LEMMA ExuTypes ==
  ASSUME TypeOK
  PROVE  /\ ExuPosedge(iresp_data_ok, instr, rs1_out, rs2_out, pc_reg) => ExuTypeOK'
         /\ ExuReset(instr, rs1_out, rs2_out, pc_reg) => ExuTypeOK'
<1>1. /\ ExuTypeOK /\ pc_reg \in Addr
      /\ instr \in Instr /\ rs1_out \in Word /\ rs2_out \in Word
  BY WireTypes DEF TypeOK, IfuTypeOK
<1>2. AluFn(instr, rs1_out, rs2_out, pc_reg) \in Word
  BY <1>1, DatapathTypes
<1>3. ASSUME ExuPosedge(iresp_data_ok, instr, rs1_out, rs2_out, pc_reg)
      PROVE  ExuTypeOK'
  <2>1. exu_valid' \in BOOLEAN /\ data_ok' \in BOOLEAN
    BY <1>1, <1>3 DEF ExuPosedge, CtrlPosedge, ExuTypeOK
  <2>2. divu' \in Divider
    BY <1>1, <1>3, DivTypes DEF ExuPosedge, ExuTypeOK
  <2>3. mulu' \in Multiplier
    BY <1>1, <1>3, MulTypes DEF ExuPosedge, ExuTypeOK
  <2> QED
    BY <1>2, <1>3, <2>1, <2>2, <2>3 DEF ExuPosedge, ExuTypeOK
<1>4. ASSUME ExuReset(instr, rs1_out, rs2_out, pc_reg)
      PROVE  ExuTypeOK'
  BY <1>1, <1>2, <1>4 DEF ExuReset, DivReset, MulReset, ExuTypeOK, Divider, Multiplier
<1> QED
  BY <1>3, <1>4

(* The registers and the bypasses.                                         *)
LEMMA RegfileTypes ==
  ASSUME TypeOK,
         RegfilePosedge(reset, RF_W(dstall), Rs1(instr), rs2c(instr), rdc_reg, rdmux_out)
  PROVE  RegfileTypeOK'
<1>1. RegfileTypeOK /\ rdc_reg \in Reg /\ rdmux_out \in Word
  BY WireTypes DEF TypeOK, IduTypeOK
<1>2. CASE RegfileClear
  BY <1>1, <1>2, ValueSets, LongOpTypes DEF RegfileClear, RegfileTypeOK
<1>3. CASE RegfileWrite(Rs1(instr), rs2c(instr), rdc_reg, rdmux_out)
  BY <1>1, <1>3 DEF RegfileWrite, RegfileTypeOK
<1>4. CASE RegfileKeep
  BY <1>1, <1>4 DEF RegfileKeep, RegfileTypeOK
<1> QED
  BY <1>2, <1>3, <1>4 DEF RegfilePosedge

(* The request of a load or store.                                         *)
LEMMA MemuTypes ==
  ASSUME TypeOK,
         MemuPosedge(DM_R, DM_W, AddrOf(alu_out), rs2_out, dreq_size, dresp_data_ok)
  PROVE  MemuTypeOK'
<1>1. /\ dreq \in DataRequest /\ dreq_size.width \in Width
      /\ AddrOf(alu_out) \in Addr /\ rs2_out \in Word
  BY WireTypes, ValueSets DEF TypeOK, MemuTypeOK, IduTypeOK, Size, ExuTypeOK
<1>2. Place(AddrOf(alu_out), rs2_out) \in Word
  BY <1>1, DatapathTypes
<1>3. CASE dreq' = [dreq EXCEPT !.valid = TRUE, !.addr = AddrOf(alu_out),
                             !.size = dreq_size.width, !.is_write = FALSE]
  BY <1>1, <1>3 DEF MemuTypeOK, DataRequest
<1>4. CASE dreq' = [valid |-> TRUE, addr |-> AddrOf(alu_out),
                    size |-> dreq_size.width, is_write |-> TRUE,
                    data |-> Place(AddrOf(alu_out), rs2_out)]
  BY <1>1, <1>2, <1>4 DEF MemuTypeOK, DataRequest
<1>5. CASE dreq' = [dreq EXCEPT !.valid = FALSE]
  BY <1>1, <1>5 DEF MemuTypeOK, DataRequest
<1>6. CASE UNCHANGED dreq
  BY <1>1, <1>6 DEF MemuTypeOK
<1> QED
  BY <1>3, <1>4, <1>5, <1>6 DEF MemuPosedge

(* The arbiter, whose choice is one of its inputs.                         *)
LEMMA ArbiterTypes ==
  ASSUME TypeOK, ArbiterPosedge(reset, ireqs, Ready)
  PROVE  ArbiterTypeOK'
<1>1. dreq.valid \in BOOLEAN /\ ifu_valid \in BOOLEAN /\ ArbiterTypeOK
  BY DEF TypeOK, MemuTypeOK, DataRequest, ExuTypeOK, ifu_valid
<1>2. Inputs = {DBUS, IBUS} /\ 0 \in Inputs
  BY ArbiterChoice, TwoInputs DEF Inputs
<1>3. Select(ireqs) \in Inputs /\ ireqs[Select(ireqs)].valid \in BOOLEAN
  BY <1>1, <1>2, ArbiterChoice
<1> QED
  BY <1>1, <1>2, <1>3 DEF ArbiterPosedge, ArbiterReset, ArbiterTypeOK, arbiterVars

(* The request on the bus.                                                 *)
LEMMA BusRequestTypes ==
  ASSUME TypeOK
  PROVE  /\ oreq.valid \in BOOLEAN /\ oreq.is_write \in BOOLEAN
         /\ oreq.addr \in Addr /\ oreq.size \in Width /\ oreq.data \in Word
<1>1. index \in Inputs
  BY DEF TypeOK, ArbiterTypeOK
<1>2. dreq \in DataRequest /\ icreq \in DataRequest
  BY ValueSets, LongOpTypes DEF TypeOK, MemuTypeOK, IfuTypeOK, ExuTypeOK, icreq, ifu_valid,
                   DataRequest, FetchWidth, Width
<1>3. ireqs[index] \in DataRequest
  BY <1>1, <1>2 DEF ireqs, dcreq
<1>4. busy \in BOOLEAN
  BY DEF TypeOK, ArbiterTypeOK
<1> QED
  BY <1>3, <1>4 DEF oreq, DataRequest

(* The memory and its transaction.                                         *)
LEMMA DeviceTypes ==
  ASSUME TypeOK, DevicePosedge(oreq)
  PROVE  DeviceTypeOK'
<1>1. DeviceTypeOK
  BY DEF TypeOK
<1>2. enable' \in BOOLEAN /\ rdata' \in IdleData
  BY DEF DevicePosedge
<1>3. CASE Wait(oreq)
  BY <1>1, <1>2, <1>3 DEF Wait, DeviceTypeOK
<1>4. CASE Start(oreq)
  BY <1>1, <1>2, <1>4, BusRequestTypes DEF Start, DeviceTypeOK, Transaction
<1>5. CASE Finish(oreq)
  <2>1. tx.addr \in Addr /\ LocOf(tx.addr) \in Loc
    BY <1>1, ValueSets DEF DeviceTypeOK, Transaction
  <2>2. Merge(oreq.size, tx.addr, mem[LocOf(tx.addr)], oreq.data) \in Word
    BY <1>1, <2>1, BusRequestTypes, DatapathTypes DEF DeviceTypeOK
  <2>3. mem' \in [Loc -> Word]
    BY <1>1, <1>5, <2>2 DEF Finish, DeviceTypeOK
  <2> QED
    BY <1>1, <1>2, <1>5, <2>3 DEF Finish, DeviceTypeOK, Transaction
<1> QED
  BY <1>3, <1>4, <1>5 DEF DevicePosedge

(* The pipeline of commits.                                                *)
LEMMA CommitTypes ==
  ASSUME TypeOK, CommitPosedge
  PROVE  /\ valid' \in BOOLEAN /\ valid_tem2' \in BOOLEAN
         /\ RF_W_tem1' \in BOOLEAN /\ RF_W_tem2' \in BOOLEAN
         /\ rdc_tem1' \in Reg /\ rdc_tem2' \in Reg
         /\ rd_tem1' \in Word /\ rd_tem2' \in Word
  BY WireTypes DEF TypeOK, CommitPosedge, IduTypeOK, RF_W

(* All components together, at an edge.                                    *)
LEMMA SyncTypes ==
  ASSUME TypeOK, SyncPosedge, IfuTypeOK', ExuTypeOK'
  PROVE  TypeOK'
<1>1. IduTypeOK' /\ RegfileTypeOK' /\ MemuTypeOK' /\ ArbiterTypeOK' /\ DeviceTypeOK'
  BY IduTypes, RegfileTypes, MemuTypes, ArbiterTypes, DeviceTypes DEF SyncPosedge
<1>2. CommitPosedge /\ reset' \in BOOLEAN
  BY DEF SyncPosedge, TypeOK
<1> QED
  BY <1>1, <1>2, CommitTypes DEF TypeOK

(* A step that leaves the registers alone keeps their types.               *)
LEMMA StutterTypes ==
  ASSUME TypeOK, reset' \in BOOLEAN,
         UNCHANGED <<ifuVars, iduVars, exuVars, regfileVars, dreq, arbiterVars,
                     deviceVars, commitVars>>
  PROVE  TypeOK'
<1>1. IfuTypeOK' /\ IduTypeOK' /\ ExuTypeOK' /\ RegfileTypeOK'
  BY DEF TypeOK, IfuTypeOK, IduTypeOK, ExuTypeOK, RegfileTypeOK,
         ifuVars, iduVars, exuVars, regfileVars
<1>2. MemuTypeOK' /\ ArbiterTypeOK' /\ DeviceTypeOK'
  BY DEF TypeOK, MemuTypeOK, ArbiterTypeOK, DeviceTypeOK, arbiterVars, deviceVars
<1> QED
  BY <1>1, <1>2 DEF TypeOK, commitVars

(* Every step keeps every type.                                            *)
LEMMA StepTypes == TypeOK /\ [Next]_vars => TypeOK'
<1> SUFFICES ASSUME TypeOK, [Next]_vars PROVE TypeOK'
  OBVIOUS
<1>1. CASE Posedge
  BY <1>1, IfuTypes, ExuTypes, SyncTypes DEF Posedge
<1>2. CASE PosedgeInReset
  BY <1>2, IfuTypes, ExuTypes, SyncTypes DEF PosedgeInReset
<1>3. CASE ReleaseReset
  BY <1>3, StutterTypes DEF ReleaseReset
<1>4. CASE UNCHANGED vars
  BY <1>4, StutterTypes DEF vars, TypeOK
<1> QED
  BY <1>1, <1>2, <1>3, <1>4 DEF Next

(* Every register of the core holds a value of its type, for every word    *)
(* size, memory, instruction set and count of iterations.                  *)
THEOREM TypeCorrect == Spec => []TypeOK
<1>1. Init => TypeOK
  BY InitTypes
<1>2. TypeOK /\ [Next]_vars => TypeOK'
  BY StepTypes
<1> QED
  BY <1>1, <1>2, PTL DEF Spec

-----------------------------------------------------------------------------
(* What a clock edge does in each phase.                                   *)

(* Without a grant the fetch port shows an instruction that does nothing;  *)
(* without a response it shows none that starts a unit.                    *)
LEMMA IdlePort ==
  ASSUME TypeOK
  PROVE  /\ ~iresp_data_ok => ~div(instr) /\ ~mul(instr)
         /\ ~Granted(IBUS) => /\ Rs1(instr) = X0 /\ Rs2(instr) = X0
                              /\ \A v, w \in Word : ~Redirect(instr, v, w)
<1>1. pc_reg \in Addr /\ rdata \in IdleData
  BY DEF TypeOK, IfuTypeOK, DeviceTypeOK
<1>2. CASE ~Granted(IBUS)
  <2>1. instr = Idle(pc_reg)
    BY <1>2 DEF instr, Idle
  <2> QED
    BY <1>1, <1>2, <2>1, ZeroDecodesToNothing DEF div, mul
<1>3. CASE Granted(IBUS) /\ ~iresp_data_ok
  <2>1. instr = Half(pc_reg, rdata)
    BY <1>3 DEF instr, Data, iresp_data_ok
  <2> QED
    BY <1>1, <1>3, <2>1, IdleStartsNoUnit
<1> QED
  BY <1>2, <1>3

(* A register write never bypasses: the read ports then show register 0.   *)
LEMMA WritesBypassNothing ==
  ASSUME TypeOK, Granted(IBUS) => ~RF_W(dstall), DM_W => ~RF_W(dstall),
         RegfilePosedge(reset, RF_W(dstall), Rs1(instr), rs2c(instr), rdc_reg, rdmux_out)
  PROVE  NoBypass'
<1>1. CASE RF_W(dstall)
  <2>1. Rs1(instr) = X0 /\ rs2c(instr) = X0
    BY <1>1, IdlePort DEF rs2c
  <2> QED
    BY <1>1, <2>1 DEF RegfilePosedge, RegfileClear, RegfileWrite, RegfileKeep, NoBypass
<1>2. CASE ~RF_W(dstall)
  BY <1>2 DEF RegfilePosedge, RegfileClear, RegfileKeep, NoBypass
<1> QED
  BY <1>1, <1>2

(* Units at rest stay so unless the fetch port shows work for one of them. *)
LEMMA UnitsRest ==
  ASSUME TypeOK, UnitsIdle, ~div(instr), ~mul(instr),
         ExuPosedge(iresp_data_ok, instr, rs1_out, rs2_out, pc_reg)
  PROVE  UnitsIdle' /\ ~divu'.data_ok /\ ~mulu'.data_ok
<1>1. divu \in Divider /\ mulu \in Multiplier
  BY DEF TypeOK, ExuTypeOK
<1>2. divu' = DivRest
  BY DEF ExuPosedge, DivPosedge, UnitsIdle
<1>3. mulu' = [mulu EXCEPT !.data_ok = FALSE, !.data = Zero]
  BY DEF ExuPosedge, MulPosedge, UnitsIdle
<1> QED
  BY <1>1, <1>2, <1>3 DEF DivRest, Divider, Multiplier, UnitsIdle

(* The request on the bus is the owner's.                                  *)
LEMMA OwnerRequest ==
  ASSUME TypeOK
  PROVE  /\ oreq.valid = (busy /\ ireqs[index].valid)
         /\ oreq.is_write = ireqs[index].is_write
         /\ oreq.addr = ireqs[index].addr
         /\ oreq.size = ireqs[index].size
         /\ index \in {DBUS, IBUS}
         /\ ireqs[DBUS] = dreq /\ ireqs[IBUS] = icreq
<1>1. index \in {DBUS, IBUS} /\ Inputs = {DBUS, IBUS}
  BY ArbiterChoice DEF TypeOK, ArbiterTypeOK
<1>2. ireqs[DBUS] = dreq /\ ireqs[IBUS] = icreq
  BY <1>1 DEF ireqs, dcreq, DBUS, IBUS
<1>3. dreq \in DataRequest /\ icreq \in DataRequest
  BY ValueSets, LongOpTypes DEF TypeOK, MemuTypeOK, IfuTypeOK, ExuTypeOK, icreq, ifu_valid,
                   DataRequest, FetchWidth, Width
<1>4. ireqs[index] \in DataRequest
  BY <1>1, <1>2, <1>3
<1> QED
  BY <1>1, <1>2, <1>4 DEF oreq, DataRequest

(* The bus stays free while nobody asks for it.                            *)
LEMMA FreeBus ==
  ASSUME TypeOK, BusFree, ~dreq.valid, ~ifu_valid,
         ArbiterPosedge(reset, ireqs, Ready), DevicePosedge(oreq)
  PROVE  BusFree'
<1>1. ~busy'
  BY ArbiterChoice DEF BusFree, ArbiterPosedge, ArbiterReset
<1>2. ~oreq.valid
  BY OwnerRequest DEF BusFree
<1>3. tx' = tx
  BY <1>2 DEF DevicePosedge, Wait, Start, Finish, BusFree
<1> QED
  BY <1>1, <1>3 DEF BusFree

(* A clock edge while one master alone asks and owns what there is to own: *)
(* k is that master.                                                       *)
LEMMA OneMaster ==
  ASSUME TypeOK, NEW k \in {DBUS, IBUS}, ~reset,
         Select(ireqs) = k, ireqs[k].valid, busy => index = k,
         TxMatches(ireqs[k]),
         ArbiterPosedge(reset, ireqs, Ready), DevicePosedge(oreq)
  PROVE  /\ busy' => index' = k
         /\ Granted(k) /\ Ready => BusFree'
         /\ ~(Granted(k) /\ Ready) =>
              (tx'.busy => /\ busy'
                           /\ tx'.is_write = ireqs[k].is_write
                           /\ tx'.addr = ireqs[k].addr
                           /\ tx'.size = ireqs[k].size)
         /\ tx'.busy => busy
<1>1. tx \in Transaction /\ busy \in BOOLEAN /\ ireqs[k].valid \in BOOLEAN
  BY OwnerRequest DEF TypeOK, DeviceTypeOK, ArbiterTypeOK, MemuTypeOK, ExuTypeOK,
                      DataRequest, icreq, ifu_valid
<1>2. Ready => Granted(k)
  BY DEF Ready, Granted, TxMatches
<1>3. busy' => index' = k
  BY DEF ArbiterPosedge, arbiterVars
<1>4. ASSUME Granted(k), Ready PROVE BusFree' /\ busy
  <2>1. busy /\ ~busy'
    BY <1>4 DEF ArbiterPosedge, Granted
  <2>2. tx' = [tx EXCEPT !.busy = FALSE]
    BY <1>4 DEF DevicePosedge, Wait, Start, Finish, Ready
  <2> QED
    BY <1>1, <2>1, <2>2 DEF BusFree, Transaction
<1>5. ASSUME ~Ready
      PROVE  tx'.busy => /\ busy /\ busy'
                         /\ tx'.is_write = ireqs[k].is_write
                         /\ tx'.addr = ireqs[k].addr
                         /\ tx'.size = ireqs[k].size
  <2>1. busy => busy'
    BY <1>5 DEF ArbiterPosedge, arbiterVars
  <2>2. CASE Wait(oreq)
    BY <2>1, <2>2 DEF Wait, TxMatches
  <2>3. CASE Start(oreq)
    <3>1. busy /\ index = k
      BY <2>3, OwnerRequest DEF Start
    <3> QED
      BY <2>1, <2>3, <3>1, OwnerRequest DEF Start
  <2>4. ~Finish(oreq)
    BY <1>5 DEF Finish, Ready
  <2> QED
    BY <2>2, <2>3, <2>4 DEF DevicePosedge
<1> QED
  BY <1>2, <1>3, <1>4, <1>5 DEF BusFree

-----------------------------------------------------------------------------
(* One lemma for each phase: where its clock edge leads.                   *)

(* A fetch ends with nothing else at work, or goes on.                     *)
LEMMA FetchingStep ==
  ASSUME TypeOK, Fetching, NoBypass, Posedge
  PROVE  (Fetching \/ Completing \/ Computing)' /\ NoBypass'
<1> USE DEF Posedge, SyncPosedge
<1>1. /\ ~exu_data_ok /\ ifu_valid /\ ~dresp_data_ok /\ ~dstall
      /\ RF_W(dstall) = FALSE
  BY DEF Fetching, NoControls, NoCompletion, exu_data_ok, ifu_valid, dresp_data_ok,
         dstall, Granted, RF_W, TypeOK, IduTypeOK, DBUS, IBUS
<1>2. NoBypass'
  BY <1>1, WritesBypassNothing
<1>3. /\ Select(ireqs) = IBUS /\ ireqs[IBUS].valid /\ ireqs[IBUS] = icreq
      /\ busy => index = IBUS
      /\ TxMatches(ireqs[IBUS])
  BY <1>1, ArbiterChoice, OwnerRequest DEF Fetching, icreq
<1>4. /\ busy' => index' = IBUS
      /\ iresp_data_ok => BusFree'
      /\ ~iresp_data_ok => (tx'.busy => /\ busy'
                                        /\ tx'.is_write = icreq.is_write
                                        /\ tx'.addr = icreq.addr
                                        /\ tx'.size = icreq.size)
      /\ tx'.busy => busy
  BY <1>3, OneMaster DEF iresp_data_ok
<1>5. UNCHANGED dreq /\ ~dreq.valid
  BY <1>1 DEF MemuPosedge, Fetching, NoControls
<1>6. valid_tem2' = FALSE /\ valid' = valid_tem2
  BY <1>1 DEF CommitPosedge
<1>7. CASE iresp_data_ok
  <2>1. ~valid_tem2 /\ ~valid
    BY <1>7 DEF Fetching, Draining, iresp_data_ok, Granted, Ready
  <2>2. Drained' /\ BusFree' /\ ~dreq'.valid
    BY <1>4, <1>5, <1>6, <1>7, <2>1 DEF Drained
  <2>3. exu_valid' = TRUE /\ data_ok' = ~(div(instr) \/ mul(instr))
    BY <1>1, <1>7 DEF ExuPosedge, CtrlPosedge, Fetching, NoCompletion
  <2>4. Latch(instr)
    BY <1>7 DEF IduPosedge
  <2>5. /\ ~(DM_R /\ DM_W)'
        /\ (RF_W_reg => ~DM_R /\ ~DM_W)'
        /\ div(instr) \/ mul(instr) => ~DM_R' /\ ~DM_W'
    BY <2>4 DEF Latch, WritesRd, div, mul
  <2>6. divu \in Divider /\ mulu \in Multiplier
    BY DEF TypeOK, ExuTypeOK
  <2>7. CASE div(instr)
    <3>1. divu' = DivStart(instr, rs1_out, rs2_out)
      BY <2>7 DEF ExuPosedge, DivPosedge, Fetching, UnitsIdle
    <3>2. ~mul(instr)
      BY <2>7 DEF div, mul
    <3>3. mulu' = [mulu EXCEPT !.data_ok = FALSE, !.data = Zero]
      BY <3>2 DEF ExuPosedge, MulPosedge, Fetching, UnitsIdle
    <3> QED
      BY <1>2, <2>2, <2>3, <2>5, <2>6, <2>7, <3>1, <3>3
      DEF Computing, NoCompletion, DivStart, Divider, Multiplier, Fetching, UnitsIdle
  <2>8. CASE mul(instr)
    <3>1. ~div(instr)
      BY <2>8 DEF div, mul
    <3>2. divu' = DivRest
      BY <3>1 DEF ExuPosedge, DivPosedge, Fetching, UnitsIdle
    <3>3. mulu'.state = "EXECUTE" /\ mulu'.data_ok = FALSE
      BY <2>8 DEF ExuPosedge, MulPosedge, Fetching, UnitsIdle
    <3> QED
      BY <1>2, <2>2, <2>3, <2>5, <2>6, <2>8, <3>2, <3>3
      DEF Computing, NoCompletion, DivRest, Divider, Fetching, UnitsIdle
  <2>9. CASE ~div(instr) /\ ~mul(instr)
    <3>1. UnitsIdle' /\ ~divu'.data_ok /\ ~mulu'.data_ok
      BY <2>9, UnitsRest DEF Fetching
    <3> QED
      BY <1>2, <2>2, <2>3, <2>5, <2>9, <3>1 DEF Completing
  <2> QED
    BY <2>7, <2>8, <2>9
<1>8. CASE ~iresp_data_ok
  <2>1. UnitsIdle' /\ ~divu'.data_ok /\ ~mulu'.data_ok
    BY <1>8, IdlePort, UnitsRest DEF Fetching
  <2>2. UNCHANGED <<exu_valid, data_ok>>
    BY <1>1, <1>8 DEF ExuPosedge, CtrlPosedge
  <2>3. UNCHANGED iduVars
    BY <1>1, <1>8 DEF IduPosedge
  <2>4. pc_reg' = pc_reg /\ icreq' = icreq
    BY <1>8, <2>2 DEF IfuPosedge, ifuVars, icreq, ifu_valid
  <2>5. TxMatches(icreq)'
    BY <1>4, <1>8, <2>4 DEF TxMatches
  <2>6. Draining'
    BY <1>4, <1>6 DEF Draining, Fetching
  <2>7. NoControls' /\ NoCompletion' /\ ~exu_valid' /\ ~dreq'.valid
    BY <1>5, <2>1, <2>2, <2>3 DEF Fetching, NoControls, NoCompletion, iduVars
  <2> QED
    BY <1>2, <1>4, <2>1, <2>5, <2>6, <2>7 DEF Fetching
<1> QED
  BY <1>7, <1>8

(* An instruction that has completed waits for memory, or is over.         *)
LEMMA CompletingStep ==
  ASSUME TypeOK, Completing, NoBypass, Posedge
  PROVE  (Fetching \/ Accessing)' /\ NoBypass'
<1> USE DEF Posedge, SyncPosedge
<1>1. /\ exu_data_ok /\ ~ifu_valid /\ ~iresp_data_ok /\ ~dresp_data_ok /\ ~dstall
      /\ ~Granted(IBUS) /\ RF_W(dstall) = RF_W_reg
  BY DEF Completing, exu_data_ok, ifu_valid, iresp_data_ok, dresp_data_ok,
         dstall, Granted, BusFree, RF_W, TypeOK, IduTypeOK
<1>2. NoBypass'
  BY <1>1, WritesBypassNothing DEF Completing
<1>3. BusFree'
  BY <1>1, FreeBus DEF Completing
<1>4. ~exu_valid' /\ ~data_ok'
  BY <1>1 DEF ExuPosedge, CtrlPosedge
<1>5. UnitsIdle' /\ ~divu'.data_ok /\ ~mulu'.data_ok
  BY <1>1, IdlePort, UnitsRest DEF Completing
<1>6. NoControls'
  BY <1>1 DEF IduPosedge, Clear, NoControls
<1>7. valid_tem2' = ~DM_R /\ ~valid'
  BY <1>1 DEF CommitPosedge, Completing, Drained, TypeOK, IduTypeOK
<1>8. CASE DM_R \/ DM_W
  <2>1. dreq'.valid /\ (DM_W => dreq'.is_write)
    <3>1. dreq \in DataRequest
      BY DEF TypeOK, MemuTypeOK
    <3>2. CASE DM_R
      BY <3>1, <3>2 DEF MemuPosedge, Completing, DataRequest
    <3>3. CASE ~DM_R /\ DM_W
      BY <3>3 DEF MemuPosedge
    <3> QED
      BY <1>8, <3>2, <3>3
  <2> QED
    BY <1>2, <1>3, <1>4, <1>5, <1>6, <1>7, <1>8, <2>1
    DEF Accessing, NoCompletion, BusFree, TxMatches, Draining
<1>9. CASE ~DM_R /\ ~DM_W
  <2>1. ~dreq'.valid
    BY <1>1, <1>9 DEF MemuPosedge, Completing
  <2> QED
    BY <1>2, <1>3, <1>4, <1>5, <1>6, <1>7, <1>9, <2>1
    DEF Fetching, NoCompletion, BusFree, TxMatches, Draining
<1> QED
  BY <1>8, <1>9

(* A unit goes on until it has its result.                                 *)
LEMMA ComputingStep ==
  ASSUME TypeOK, Computing, NoBypass, Posedge
  PROVE  (Computing \/ Computed)' /\ NoBypass'
<1> USE DEF Posedge, SyncPosedge
<1>1. /\ ~exu_data_ok /\ ~ifu_valid /\ ~iresp_data_ok /\ ~dresp_data_ok /\ ~dstall
      /\ ~Granted(IBUS)
  BY DEF Computing, NoCompletion, exu_data_ok, ifu_valid, iresp_data_ok, dresp_data_ok,
         dstall, Granted, BusFree
<1>2. NoBypass'
  BY <1>1, WritesBypassNothing DEF Computing
<1>3. BusFree'
  BY <1>1, FreeBus DEF Computing
<1>4. UNCHANGED <<exu_valid, data_ok>> /\ UNCHANGED iduVars /\ UNCHANGED dreq
  BY <1>1 DEF ExuPosedge, CtrlPosedge, IduPosedge, MemuPosedge, Computing
<1>5. Drained'
  BY <1>1 DEF CommitPosedge, Computing, Drained
<1>6. divu \in Divider /\ mulu \in Multiplier /\ ~div(instr) /\ ~mul(instr)
  BY <1>1, IdlePort DEF TypeOK, ExuTypeOK
<1>7. CASE divu.state = "EXECUTE"
  <2>1. mulu.state = "IDLE"
    BY <1>6, <1>7 DEF Computing, Multiplier
  <2>2. mulu'.state = "IDLE" /\ mulu'.data_ok = FALSE
    BY <1>6, <2>1 DEF ExuPosedge, MulPosedge, Multiplier
  <2>3. divu' \in {DivFinish, DivIterate}
    BY <1>7 DEF ExuPosedge, DivPosedge
  <2>4. CASE divu' = DivFinish
    BY <1>2, <1>3, <1>4, <1>5, <1>6, <2>2, <2>4
    DEF Computed, DivFinish, Divider, UnitsIdle, Computing, NoCompletion, iduVars
  <2>5. CASE divu' = DivIterate
    BY <1>2, <1>3, <1>4, <1>5, <1>6, <1>7, <2>2, <2>5
    DEF Computing, DivIterate, Divider, NoCompletion, iduVars
  <2> QED
    BY <2>3, <2>4, <2>5
<1>8. CASE mulu.state = "EXECUTE"
  <2>1. divu.state = "IDLE"
    BY <1>6, <1>8 DEF Computing, Divider
  <2>2. divu'.state = "IDLE" /\ divu'.data_ok = FALSE
    BY <1>6, <2>1 DEF ExuPosedge, DivPosedge, DivRest, Divider
  <2>3. \/ mulu'.state = "IDLE" /\ mulu'.data_ok = TRUE
        \/ mulu'.state = "EXECUTE" /\ mulu'.data_ok = FALSE
    BY <1>6, <1>8 DEF ExuPosedge, MulPosedge, Multiplier, Computing, NoCompletion
  <2> QED
    BY <1>2, <1>3, <1>4, <1>5, <2>2, <2>3
    DEF Computing, Computed, UnitsIdle, NoCompletion, iduVars
<1> QED
  BY <1>7, <1>8 DEF Computing

(* A result of a unit is taken at once.                                    *)
LEMMA ComputedStep ==
  ASSUME TypeOK, Computed, NoBypass, Posedge
  PROVE  Fetching' /\ NoBypass'
<1> USE DEF Posedge, SyncPosedge
<1>1. /\ exu_data_ok /\ ~ifu_valid /\ ~iresp_data_ok /\ ~dresp_data_ok /\ ~dstall
      /\ ~Granted(IBUS)
  <2>1. divu.data_ok \/ mulu.data_ok
    BY DEF Computed, TypeOK, ExuTypeOK, Divider, Multiplier
  <2> QED
    BY <2>1 DEF Computed, exu_data_ok, ifu_valid, iresp_data_ok, dresp_data_ok,
                dstall, Granted, BusFree
<1>2. NoBypass'
  BY <1>1, WritesBypassNothing DEF Computed
<1>3. BusFree'
  BY <1>1, FreeBus DEF Computed
<1>4. ~exu_valid' /\ ~data_ok'
  BY <1>1 DEF ExuPosedge, CtrlPosedge
<1>5. UnitsIdle' /\ ~divu'.data_ok /\ ~mulu'.data_ok
  BY <1>1, IdlePort, UnitsRest DEF Computed
<1>6. NoControls'
  BY <1>1 DEF IduPosedge, Clear, NoControls
<1>7. ~dreq'.valid /\ ~valid'
  BY <1>1 DEF MemuPosedge, CommitPosedge, Computed, Drained
<1> QED
  BY <1>2, <1>3, <1>4, <1>5, <1>6, <1>7
  DEF Fetching, NoCompletion, BusFree, TxMatches, Draining

(* A load or store ends with its answer, or goes on.                       *)
LEMMA AccessingStep ==
  ASSUME TypeOK, Accessing, NoBypass, Posedge
  PROVE  (Fetching \/ Accessing)' /\ NoBypass'
<1> USE DEF Posedge, SyncPosedge
<1>1. /\ ~exu_data_ok /\ ~Granted(IBUS) /\ ~iresp_data_ok
  BY DEF Accessing, NoCompletion, exu_data_ok, iresp_data_ok, Granted, DBUS, IBUS
<1>2. NoBypass'
  BY <1>1, WritesBypassNothing DEF Accessing, NoControls
<1>3. /\ Select(ireqs) = DBUS /\ ireqs[DBUS].valid /\ ireqs[DBUS] = dreq
      /\ busy => index = DBUS
      /\ TxMatches(ireqs[DBUS])
  BY ArbiterChoice, OwnerRequest DEF Accessing, dcreq
<1>4. /\ busy' => index' = DBUS
      /\ dresp_data_ok => BusFree'
      /\ ~dresp_data_ok => (tx'.busy => /\ busy'
                                        /\ tx'.is_write = dreq.is_write
                                        /\ tx'.addr = dreq.addr
                                        /\ tx'.size = dreq.size)
      /\ tx'.busy => busy
  BY <1>3, OneMaster DEF dresp_data_ok
<1>5. UNCHANGED <<exu_valid, data_ok>> /\ UNCHANGED iduVars
  BY <1>1 DEF ExuPosedge, CtrlPosedge, IduPosedge
<1>6. UnitsIdle' /\ ~divu'.data_ok /\ ~mulu'.data_ok
  BY <1>1, IdlePort, UnitsRest DEF Accessing
<1>7. NoControls' /\ NoCompletion' /\ ~exu_valid'
  BY <1>5, <1>6 DEF Accessing, NoControls, NoCompletion, iduVars
<1>8. CASE dresp_data_ok
  <2>1. ~dreq'.valid
    BY <1>8 DEF MemuPosedge, Accessing, NoControls, TypeOK, MemuTypeOK, DataRequest
  <2>2. ~valid'
    BY <1>8 DEF CommitPosedge, Accessing, Draining, dresp_data_ok, Granted
  <2> QED
    BY <1>2, <1>4, <1>6, <1>7, <1>8, <2>1, <2>2
    DEF Fetching, BusFree, TxMatches, Draining
<1>9. CASE ~dresp_data_ok
  <2>1. UNCHANGED dreq
    BY <1>9 DEF MemuPosedge, Accessing, NoControls
  <2>2. ~valid_tem2' /\ valid' = valid_tem2
    BY <1>1, <1>9 DEF CommitPosedge
  <2>3. Draining'
    BY <1>4, <2>2 DEF Draining, Accessing
  <2>4. TxMatches(dcreq)'
    BY <1>4, <1>9, <2>1 DEF TxMatches, dcreq
  <2> QED
    BY <1>2, <1>4, <1>6, <1>7, <2>1, <2>2, <2>3, <2>4 DEF Accessing
<1> QED
  BY <1>8, <1>9

-----------------------------------------------------------------------------
(* The phase invariant.                                                    *)

(* Power-up is the first phase.                                            *)
LEMMA InitPhase == Init => PhaseInv
<1> SUFFICES ASSUME Init PROVE PhaseInv
  OBVIOUS
<1>1. UnitsIdle /\ NoCompletion /\ ~exu_valid
  BY DEF Init, ExuInit, DivInit, MulInit, UnitsIdle, NoCompletion
<1>2. NoControls /\ ~dreq.valid /\ BusFree /\ Drained /\ NoBypass
  BY DEF Init, IduInit, MemuInit, ArbiterInit, DeviceInit, RegfileInit,
         NoControls, BusFree, Drained, NoBypass
<1>3. Fetching
  BY <1>1, <1>2 DEF Fetching, BusFree, Drained, TxMatches, Draining
<1> QED
  BY <1>2, <1>3 DEF PhaseInv, Phase, PowerUp

(* In reset no request reaches the memory, and nothing else moves.         *)
LEMMA ResetStep ==
  ASSUME TypeOK, PhaseInv, PosedgeInReset
  PROVE  PhaseInv'
<1> USE DEF PosedgeInReset, SyncPosedge
<1>1. Fetching /\ BusFree /\ Drained /\ reset /\ reset' = reset
  BY DEF PhaseInv, PowerUp
<1>2. /\ ~exu_data_ok /\ ~dresp_data_ok /\ ~iresp_data_ok /\ ~dstall
      /\ RF_W(dstall) = FALSE
  BY <1>1 DEF Fetching, NoControls, NoCompletion, BusFree, exu_data_ok, dresp_data_ok,
              iresp_data_ok, dstall, Granted, RF_W, TypeOK, IduTypeOK
<1>3. NoBypass'
  BY <1>2, WritesBypassNothing
<1>4. ~busy'
  BY <1>1 DEF ArbiterPosedge, ArbiterReset
<1>5. ~tx'.busy
  <2>1. ~oreq.valid
    BY <1>1, OwnerRequest DEF BusFree
  <2> QED
    BY <1>1, <2>1 DEF DevicePosedge, Wait, Start, Finish, BusFree
<1>6. UNCHANGED iduVars /\ UNCHANGED dreq
  BY <1>1, <1>2 DEF IduPosedge, MemuPosedge, Fetching, NoControls
<1>7. divu \in Divider /\ mulu \in Multiplier
  BY DEF TypeOK, ExuTypeOK
<1>8. UnitsIdle' /\ NoCompletion' /\ ~exu_valid'
  BY <1>1, <1>7 DEF ExuReset, DivReset, MulReset, Fetching, UnitsIdle, NoCompletion, Divider, Multiplier
<1>9. Drained'
  BY <1>1, <1>2 DEF CommitPosedge, Drained
<1>10. Fetching'
  BY <1>1, <1>4, <1>5, <1>6, <1>8, <1>9
  DEF Fetching, NoControls, TxMatches, Draining, Drained, iduVars
<1> QED
  BY <1>3, <1>4, <1>5, <1>9, <1>10 DEF PhaseInv, Phase, PowerUp, BusFree

(* Wires, and so phases, depend on nothing but the registers.              *)
LEMMA StutterPhase ==
  ASSUME PhaseInv, reset' => reset,
         UNCHANGED <<ifuVars, iduVars, exuVars, regfileVars, dreq, arbiterVars,
                     deviceVars, commitVars>>
  PROVE  PhaseInv'
<1>1. /\ UNCHANGED <<pc_reg, exu_valid, data_ok, divu, mulu, DM_R, DM_W, RF_W_reg>>
      /\ UNCHANGED <<dreq, busy, index, tx, valid, valid_tem2>>
      /\ UNCHANGED <<isequal_rdrs1, isequal_rdrs2>>
  BY DEF ifuVars, iduVars, exuVars, regfileVars, arbiterVars, deviceVars, commitVars
<1>2. icreq' = icreq /\ dcreq' = dcreq
  BY <1>1 DEF icreq, ifu_valid, dcreq
<1>3. /\ Fetching' = Fetching /\ Completing' = Completing
      /\ Computing' = Computing /\ Computed' = Computed /\ Accessing' = Accessing
  BY <1>1, <1>2 DEF Fetching, Completing, Computing, Computed, Accessing, UnitsIdle,
       NoCompletion, NoControls, TxMatches, Draining, BusFree, Drained
<1> QED
  BY <1>1, <1>3 DEF PhaseInv, Phase, PowerUp, BusFree, Drained, NoBypass

(* Every step keeps, or goes to, one of the phases.                        *)
LEMMA StepPhase == TypeOK /\ PhaseInv /\ [Next]_vars => PhaseInv'
<1> SUFFICES ASSUME TypeOK, PhaseInv, [Next]_vars PROVE PhaseInv'
  OBVIOUS
<1>1. CASE Posedge
  <2>1. NoBypass /\ ~reset'
    BY <1>1 DEF PhaseInv, Posedge, SyncPosedge
  <2>2. Phase' /\ NoBypass'
    BY <1>1, <2>1, FetchingStep, CompletingStep, ComputingStep, ComputedStep,
       AccessingStep DEF PhaseInv, Phase
  <2> QED
    BY <2>1, <2>2 DEF PhaseInv, PowerUp
<1>2. CASE PosedgeInReset
  BY <1>2, ResetStep
<1>3. CASE ReleaseReset
  BY <1>3, StutterPhase DEF ReleaseReset
<1>4. CASE UNCHANGED vars
  BY <1>4, StutterPhase DEF vars
<1> QED
  BY <1>1, <1>2, <1>3, <1>4 DEF Next

(* The core is always in one of its five phases.                           *)
THEOREM PhaseCorrect == Spec => []PhaseInv
<1>1. Init => PhaseInv
  BY InitPhase
<1>2. TypeOK /\ PhaseInv /\ [Next]_vars => PhaseInv'
  BY StepPhase
<1> QED
  BY <1>1, <1>2, TypeCorrect, PTL DEF Spec

-----------------------------------------------------------------------------
(* What follows from the phases.                                           *)

(* The assertions of the memory device never fire.                         *)
THEOREM BusIsStable == Spec => []BusStable
<1>1. TypeOK /\ PhaseInv => BusStable
  <2> SUFFICES ASSUME TypeOK, PhaseInv, enable, tx.busy
               PROVE  /\ oreq.valid /\ oreq.is_write = tx.is_write
                      /\ oreq.size = tx.size /\ oreq.addr = tx.addr
    BY DEF BusStable, SanityChecks
  <2>1. CASE Fetching
    <3>1. busy /\ index = IBUS /\ ireqs[index] = icreq /\ icreq.valid
      BY <2>1, OwnerRequest DEF Fetching, TxMatches, icreq, ifu_valid
    <3> QED
      BY <2>1, <3>1, OwnerRequest DEF Fetching, TxMatches
  <2>2. CASE Accessing
    <3>1. busy /\ index = DBUS /\ ireqs[index] = dreq /\ dreq.valid
      BY <2>2, OwnerRequest DEF Accessing, TxMatches
    <3> QED
      BY <2>2, <3>1, OwnerRequest DEF Accessing, TxMatches, dcreq
  <2>3. ~Completing /\ ~Computing /\ ~Computed
    BY DEF Completing, Computing, Computed, BusFree
  <2> QED
    BY <2>1, <2>2, <2>3 DEF PhaseInv, Phase
<1> QED
  BY <1>1, TypeCorrect, PhaseCorrect, PTL

(* When a fetch completes, the core holds nothing of an earlier            *)
(* instruction.                                                            *)
THEOREM OneInstructionInFlight == Spec => []OneInFlight
<1>1. TypeOK /\ PhaseInv => OneInFlight
  <2> SUFFICES ASSUME TypeOK, PhaseInv, iresp_data_ok PROVE OneInFlight
    BY DEF OneInFlight
  <2>1. busy /\ index = IBUS /\ tx.busy
    BY DEF iresp_data_ok, Granted, Ready
  <2>2. Fetching
    BY <2>1 DEF PhaseInv, Phase, Completing, Computing, Computed, Accessing, BusFree,
                DBUS, IBUS
  <2> QED
    BY <2>1, <2>2 DEF OneInFlight, Fetching, UnitsIdle, NoCompletion, NoControls,
                      Draining, exu_data_ok
<1> QED
  BY <1>1, TypeCorrect, PhaseCorrect, PTL

(* The three completions never coincide and never come unasked for.        *)
THEOREM OneCompletionAtATime == Spec => []OneCompletion
<1>1. TypeOK /\ PhaseInv => OneCompletion
  <2> SUFFICES ASSUME TypeOK, PhaseInv PROVE OneCompletion
    OBVIOUS
  <2>1. /\ exu_valid \in BOOLEAN /\ data_ok \in BOOLEAN
        /\ divu.data_ok \in BOOLEAN /\ mulu.data_ok \in BOOLEAN
    BY DEF TypeOK, ExuTypeOK, Divider, Multiplier
  <2>2. CASE Fetching \/ Accessing
    BY <2>2 DEF Fetching, Accessing, NoCompletion, OneCompletion, exu_data_ok
  <2>3. CASE Completing
    BY <2>3 DEF Completing, OneCompletion
  <2>4. CASE Computing
    BY <2>4 DEF Computing, NoCompletion, OneCompletion
  <2>5. CASE Computed
    BY <2>1, <2>5 DEF Computed, OneCompletion
  <2> QED
    BY <2>2, <2>3, <2>4, <2>5 DEF PhaseInv, Phase
<1> QED
  BY <1>1, TypeCorrect, PhaseCorrect, PTL

(* No operand is ever the overwritten value of a bypass.                   *)
THEOREM BypassIsNeverStale == Spec => []BypassNeverStale
<1>1. PhaseInv => BypassNeverStale
  BY DEF PhaseInv, NoBypass, BypassNeverStale, rs1_out, rs2_out, rs1, rs2
<1> QED
  BY <1>1, PhaseCorrect, PTL

(* If the idle data lines never look like a jump, as those of CBusDevice   *)
(* do not, difftest is never told to skip an instruction.                  *)
THEOREM CommitIsNeverSkipped ==
  ASSUME \A a \in Addr, d \in IdleData, v, w \in Word : ~Redirect(Half(a, d), v, w)
  PROVE  Spec => []CommitNeverSkipped
<1>1. TypeOK /\ PhaseInv => CommitNeverSkipped
  <2> SUFFICES ASSUME TypeOK, PhaseInv, valid PROVE ~skip
    BY DEF CommitNeverSkipped
  <2>1. /\ rs1_out \in Word /\ rs2_out \in Word
        /\ pc_reg \in Addr /\ rdata \in IdleData
    BY WireTypes DEF TypeOK, IfuTypeOK, DeviceTypeOK
  <2>2. ~tx.busy
    BY DEF PhaseInv, Phase, Fetching, Completing, Computing, Computed, Accessing,
           Drained, Draining
  <2>3. CASE Granted(IBUS)
    <3>1. instr = Half(pc_reg, rdata)
      BY <2>2, <2>3 DEF instr, Data, Ready
    <3> QED
      BY <2>1, <3>1 DEF skip
  <2>4. CASE ~Granted(IBUS)
    BY <2>1, <2>4, IdlePort DEF skip
  <2> QED
    BY <2>3, <2>4
<1> QED
  BY <1>1, TypeCorrect, PhaseCorrect, PTL
-----------------------------------------------------------------------------
(* The refinement of Isa.                                                  *)

(* The edge, apart from the phase it comes in.                             *)
LEMMA EdgeWrites ==
  ASSUME TypeOK, Posedge
  PROVE  /\ ~RF_W(dstall) => regarray' = regarray
         /\ RF_W(dstall) =>
              regarray' = IF rdc_reg # X0 THEN [regarray EXCEPT ![rdc_reg] = rdmux_out]
                          ELSE regarray
         /\ RF_W_tem1' = RF_W(dstall) /\ rdc_tem1' = rdc_reg /\ rd_tem1' = rdmux_out
         /\ ~reset /\ ~reset'
  BY DEF Posedge, SyncPosedge, RegfilePosedge, RegfileWrite, RegfileKeep, CommitPosedge

(* The memory changes with the answer to a write only.                     *)
LEMMA EdgeMemory ==
  ASSUME TypeOK, Posedge
  PROVE  mem' = IF Ready /\ tx.is_write
                THEN [mem EXCEPT ![LocOf(tx.addr)] =
                        Merge(oreq.size, tx.addr, @, oreq.data)]
                ELSE mem
  BY DEF Posedge, SyncPosedge, DevicePosedge, Wait, Start, Finish, Ready,
         TypeOK, DeviceTypeOK, Transaction

(* What difftest is shown after the edge.                                  *)
LEMMA EdgeCommit ==
  ASSUME TypeOK, Posedge
  PROVE  commitBar' =
           IF valid_tem2
           THEN LET wdest == IF RF_W_tem1 THEN rdc_tem1 ELSE X0
                IN  [kind |-> "commit", pc |-> pc_delay', wdest |-> wdest,
                     wdata |-> IF wdest = X0 THEN regarray'[X0] ELSE rd_tem1,
                     gpr |-> regarray']
           ELSE NoneBar
  BY DEF Posedge, SyncPosedge, CommitPosedge, commitBar

(* With nothing in execution and nothing asked of memory, the abstract     *)
(* registers and memory are the core's.                                    *)
LEMMA NothingPending ==
  NoControls /\ ~dreq.valid => ~Loading /\ ~Pending /\ regsBar = regarray /\ memBar = mem
  BY DEF NoControls, Loading, Pending, regsBar, memBar

(* Without controls and request nothing is brought forward.                *)
LEMMA NothingPendingNext ==
  (NoControls /\ ~dreq.valid)' =>
    ~Loading' /\ ~Pending' /\ regsBar' = regarray' /\ memBar' = mem'
  BY DEF NoControls, Loading, Pending, regsBar, memBar

(* A cycle that starts nothing, and a commit, on the registers of the core.*)
LEMMA IsaSteps ==
  /\ Arch!Quiet <=> commitBar' = NoneBar /\ UNCHANGED <<pc_reg, regsBar, memBar, currentBar>>
  /\ Arch!Commit <=>
       /\ currentBar # NoneBar
       /\ commitBar' = [kind |-> "commit", pc |-> currentBar.pc,
                        wdest |-> currentBar.wdest,
                        wdata |-> regsBar[currentBar.wdest], gpr |-> regsBar]
       /\ currentBar' = NoneBar
       /\ UNCHANGED <<pc_reg, regsBar, memBar>>
BY DEF Arch!Quiet, Arch!Commit, Arch!None, Arch!Committed, NoneBar

(* The execution of an instruction, likewise.                              *)
LEMMA ExecuteStep ==
  Arch!Execute <=>
    LET i == Half(pc_reg, memBar[LocOf(pc_reg)])
        a == regsBar[Rs1(i)]
        b == regsBar[Rs2(i)]
        writes == (WritesRd(i) \/ Op(i) = "load") /\ Rd(i) # X0
    IN  /\ currentBar = NoneBar
        /\ pc_reg' = IF Redirect(i, a, b) THEN Target(i, a, pc_reg) ELSE NextAddr(pc_reg)
        /\ regsBar' = IF writes THEN [regsBar EXCEPT ![Rd(i)] = Arch!Result(i, a, b)]
                      ELSE regsBar
        /\ memBar' = IF Op(i) = "store"
                     THEN Arch!StoreTo(i, AddrOf(AluFn(i, a, b, pc_reg)), b) ELSE memBar
        /\ currentBar' = [kind |-> "issued", pc |-> pc_reg,
                          wdest |-> IF writes THEN Rd(i) ELSE X0]
        /\ commitBar' = NoneBar
  BY DEF Arch!Execute, Arch!Fetched, Arch!None, Arch!Issued, NoneBar, Arch!WritesRd, WritesRd

(* An edge that only passes the previous instruction on to difftest.       *)
LEMMA CommitShown ==
  ASSUME TypeOK, Posedge, CommitIsTrue, ~exu_valid, ~Loading, regsBar = regarray,
         UNCHANGED <<pc_reg, pc_delay, regarray, regsBar, memBar>>,
         currentBar' = NoneBar
  PROVE  Arch!Quiet \/ Arch!Commit
<1>1. CASE ~valid_tem2
  <2>1. currentBar = NoneBar /\ commitBar' = NoneBar
    BY <1>1, EdgeCommit DEF currentBar
  <2> QED
    BY <2>1, IsaSteps
<1>2. CASE valid_tem2
  <2> DEFINE wdest == IF RF_W_tem1 THEN rdc_tem1 ELSE X0
  <2>1. currentBar = [kind |-> "issued", pc |-> pc_delay, wdest |-> wdest]
    BY <1>2 DEF currentBar
  <2>2. commitBar' = [kind |-> "commit", pc |-> pc_delay, wdest |-> wdest,
                      wdata |-> IF wdest = X0 THEN regarray[X0] ELSE rd_tem1,
                      gpr |-> regarray]
    BY <1>2, EdgeCommit
  <2>3. (IF wdest = X0 THEN regarray[X0] ELSE rd_tem1) = regarray[wdest]
    BY <1>2 DEF CommitIsTrue
  <2> HIDE DEF wdest
  <2>4. currentBar # NoneBar /\ currentBar.pc = pc_delay /\ currentBar.wdest = wdest
    BY <2>1 DEF NoneBar
  <2> QED
    BY <2>2, <2>3, <2>4, IsaSteps
<1> QED
  BY <1>1, <1>2

-----------------------------------------------------------------------------
(* One lemma for each phase.                                               *)

(* While a fetch waits, the instruction before it may be committed.        *)
LEMMA FetchWaits ==
  ASSUME TypeOK, Fetching, NoBypass, CommitIsTrue, Posedge, ~iresp_data_ok
  PROVE  Arch!Quiet \/ Arch!Commit
<1> USE DEF Posedge, SyncPosedge
<1>1. /\ ~exu_data_ok /\ ~dresp_data_ok /\ RF_W(dstall) = FALSE
  BY DEF Fetching, NoControls, NoCompletion, exu_data_ok, dresp_data_ok,
         dstall, Granted, RF_W, TypeOK, IduTypeOK, DBUS, IBUS
<1>2. ~Ready
  BY DEF Fetching, TxMatches, Ready, iresp_data_ok, Granted
<1>3. UNCHANGED <<pc_reg, pc_delay, exu_valid, dreq, regarray, mem>> /\ UNCHANGED iduVars
  BY <1>1, <1>2, EdgeWrites, EdgeMemory
  DEF IfuPosedge, ifuVars, ExuPosedge, CtrlPosedge, MemuPosedge, Fetching, NoControls, IduPosedge
<1>4. /\ NoControls /\ ~dreq.valid /\ NoControls' /\ ~dreq'.valid
      /\ ~exu_valid /\ ~exu_valid'
  BY <1>3 DEF Fetching, NoControls, iduVars
<1>5. /\ regsBar = regarray /\ memBar = mem /\ ~Loading
      /\ regsBar' = regarray' /\ memBar' = mem' /\ ~Loading'
  BY <1>4, NothingPending, NothingPendingNext
<1>6. UNCHANGED <<regsBar, memBar>>
  BY <1>3, <1>5
<1>7. ~valid_tem2'
  BY <1>1 DEF CommitPosedge
<1>8. currentBar' = NoneBar
  BY <1>4, <1>5, <1>7 DEF currentBar
<1> QED
  BY <1>3, <1>4, <1>5, <1>6, <1>8, CommitShown

(* The cycle after a fetch: what the next state of the core holds of the   *)
(* instruction.                                                            *)
LEMMA FetchLatches ==
  ASSUME TypeOK, Fetching, NoBypass, Posedge, iresp_data_ok
  PROVE  /\ ~valid_tem2 /\ ~valid_tem2' /\ exu_valid'
         /\ instr = Half(pc_reg, mem[LocOf(pc_reg)])
         /\ rs1_out = regarray[Rs1(instr)] /\ rs2_out = regarray[Rs2(instr)]
         /\ UNCHANGED <<mem, regarray, dreq>> /\ ~dreq.valid
         /\ Latch(instr)
         /\ alu_out' = AluFn(instr, rs1_out, rs2_out, pc_reg)
         /\ pc_reg' = IF Redirect(instr, rs1_out, rs2_out)
                      THEN Target(instr, rs1_out, pc_reg) ELSE NextAddr(pc_reg)
         /\ pc_delay' = pc_reg
<1> USE DEF Posedge, SyncPosedge
<1>1. /\ ~exu_data_ok /\ ~dresp_data_ok /\ RF_W(dstall) = FALSE
  BY DEF Fetching, NoControls, NoCompletion, exu_data_ok, dresp_data_ok,
         dstall, Granted, RF_W, TypeOK, IduTypeOK, DBUS, IBUS
<1>2. Granted(IBUS) /\ Ready /\ tx.busy /\ busy
  BY DEF iresp_data_ok, Granted, Ready
<1>3. tx.addr = pc_reg /\ tx.is_write = FALSE
  BY <1>2 DEF Fetching, TxMatches, icreq
<1>4. instr = Half(pc_reg, mem[LocOf(pc_reg)])
  BY <1>2, <1>3 DEF instr, Data
<1>5. UNCHANGED <<mem, regarray, dreq>> /\ ~dreq.valid
  BY <1>1, <1>2, <1>3, EdgeWrites, EdgeMemory DEF MemuPosedge, Fetching, NoControls
<1>6. ~valid_tem2 /\ ~valid_tem2'
  BY <1>1, <1>2 DEF Fetching, Draining, CommitPosedge
<1>7. exu_valid' /\ Latch(instr)
  BY <1>1 DEF ExuPosedge, CtrlPosedge, IduPosedge
<1>8. rs1_out = regarray[Rs1(instr)] /\ rs2_out = regarray[Rs2(instr)]
  BY DEF rs1_out, rs2_out, rs1, rs2, rs2c, NoBypass, Fetching, NoControls
<1>9. alu_out' = AluFn(instr, rs1_out, rs2_out, pc_reg)
  BY DEF ExuPosedge
<1>10. /\ pc_reg' = IF Redirect(instr, rs1_out, rs2_out)
                    THEN Target(instr, rs1_out, pc_reg) ELSE NextAddr(pc_reg)
       /\ pc_delay' = pc_reg
  BY DEF IfuPosedge, skip, br_out
<1> QED
  BY <1>4, <1>5, <1>6, <1>7, <1>8, <1>9, <1>10

(* The value the destination register is yet to get is the result of the   *)
(* instruction.                                                            *)
LEMMA FetchedResult ==
  ASSUME TypeOK, Fetching, NoBypass, Posedge, iresp_data_ok, ~busy'
  PROVE  /\ Pending' <=> (WritesRd(instr) \/ Op(instr) = "load")
         /\ Pending' => PendingValue' =
              CASE Op(instr) = "alu"  -> AluFn(instr, rs1_out, rs2_out, pc_reg)
                [] Op(instr) = "div"  -> DivFn(instr, rs1_out, rs2_out)
                [] Op(instr) = "rem"  -> RemFn(instr, rs1_out, rs2_out)
                [] Op(instr) = "mul"  -> MulFn(instr, rs1_out, rs2_out)
                [] Op(instr) = "load" ->
                     LET from == AddrOf(AluFn(instr, rs1_out, rs2_out, pc_reg))
                     IN  Extract(SizeOf(instr), from, mem[LocOf(from)])
<1> DEFINE result == AluFn(instr, rs1_out, rs2_out, pc_reg)
<1>1. /\ UNCHANGED <<mem, dreq>> /\ ~dreq.valid /\ alu_out' = result
      /\ DM_R' = (Op(instr) = "load") /\ RF_W_reg' = WritesRd(instr)
      /\ RD_M_reg' = RD_M_of(instr) /\ dreq_size' = SizeOf(instr)
  BY FetchLatches DEF Latch
<1>2. Loading' <=> Op(instr) = "load"
  BY <1>1 DEF Loading
<1>3. Pending' <=> (WritesRd(instr) \/ Op(instr) = "load")
  BY <1>1, <1>2 DEF Pending
<1>4. divu \in Divider /\ mulu \in Multiplier /\ UnitsIdle
  BY DEF TypeOK, ExuTypeOK, Fetching
<1>5. /\ DivPosedge(instr, rs1_out, rs2_out) /\ MulPosedge(instr, rs1_out, rs2_out)
  BY DEF Posedge, ExuPosedge
<1>6. CASE Op(instr) = "load"
  <2>1. LoadAddr' = AddrOf(result)
    BY <1>1, <1>6 DEF LoadAddr
  <2>2. PendingValue' = Extract(SizeOf(instr), AddrOf(result), mem[LocOf(AddrOf(result))])
    BY <1>1, <1>2, <1>6, <2>1 DEF PendingValue
  <2> QED
    BY <1>3, <1>6, <2>2
<1>7. CASE Op(instr) \in {"div", "rem"}
  <2>1. divu' = DivStart(instr, rs1_out, rs2_out)
    BY <1>4, <1>5, <1>7 DEF DivPosedge, UnitsIdle, div
  <2>2. /\ divu'.state = "EXECUTE" /\ divu'.div = DivFn(instr, rs1_out, rs2_out)
        /\ divu'.rem = RemFn(instr, rs1_out, rs2_out)
    BY <1>4, <2>1 DEF DivStart, Divider
  <2>3. ~Loading' /\ mulu'.state = "IDLE"
    BY <1>2, <1>4, <1>5, <1>7 DEF MulPosedge, Multiplier, UnitsIdle, mul
  <2>4. PendingValue' = IF RD_M_reg' = "div_data" THEN divu'.div ELSE divu'.rem
    BY <2>2, <2>3 DEF PendingValue
  <2> QED
    BY <1>1, <1>3, <1>7, <2>2, <2>4 DEF RD_M_of
<1>8. CASE Op(instr) = "mul"
  <2>1. divu'.state = "IDLE"
    BY <1>4, <1>5, <1>8 DEF DivPosedge, DivRest, Divider, UnitsIdle, div
  <2>2. mulu'.state = "EXECUTE" /\ mulu'.product = MulFn(instr, rs1_out, rs2_out)
    BY <1>4, <1>5, <1>8 DEF MulPosedge, UnitsIdle, mul
  <2>3. PendingValue' = mulu'.product
    BY <1>2, <1>8, <2>1, <2>2 DEF PendingValue
  <2> QED
    BY <1>3, <1>8, <2>2, <2>3
<1>9. CASE Op(instr) = "alu"
  <2>1. divu'.state = "IDLE" /\ mulu'.state = "IDLE"
    BY <1>4, <1>5, <1>9 DEF DivPosedge, MulPosedge, DivRest, Divider, Multiplier,
       UnitsIdle, div, mul
  <2>2. PendingValue' = rdmux_out'
    BY <1>2, <1>9, <2>1 DEF PendingValue
  <2>3. RD_M_reg' = "alu_out"
    BY <1>1, <1>9 DEF RD_M_of
  <2>4. dstall' = FALSE
    BY DEF dstall, dresp_data_ok, Granted
  <2>5. rdmux_out' = alu_out'
    BY <2>3, <2>4 DEF rdmux_out, RD_M
  <2> QED
    BY <1>1, <1>3, <1>9, <2>2, <2>5
<1> QED
  BY <1>3, <1>6, <1>7, <1>8, <1>9 DEF WritesRd

(* A fetch that completes executes its instruction, in the abstract.       *)
LEMMA FetchExecutes ==
  ASSUME TypeOK, Fetching, NoBypass, Posedge, iresp_data_ok
  PROVE  Arch!Execute
<1> DEFINE i == Half(pc_reg, memBar[LocOf(pc_reg)])
           a == regsBar[Rs1(i)]
           b == regsBar[Rs2(i)]
           writes == (WritesRd(i) \/ Op(i) = "load") /\ Rd(i) # X0
           to == AddrOf(AluFn(i, a, b, pc_reg))
<1>1. /\ NoControls /\ ~dreq.valid /\ ~exu_valid
      /\ regsBar = regarray /\ memBar = mem /\ ~Loading
  BY NothingPending DEF Fetching
<1>2. (Completing \/ Computing)' /\ NoBypass'
  BY FetchingStep, FetchLatches DEF Fetching
<1>3. BusFree' /\ ~dreq'.valid
  BY <1>2 DEF Completing, Computing
<1>4. i = instr /\ a = rs1_out /\ b = rs2_out
  BY <1>1, FetchLatches
<1>5. currentBar = NoneBar
  BY <1>1, FetchLatches DEF currentBar
<1>6. commitBar' = NoneBar
  BY FetchLatches, EdgeCommit
<1>7. pc_reg' = IF Redirect(i, a, b) THEN Target(i, a, pc_reg) ELSE NextAddr(pc_reg)
  BY <1>4, FetchLatches
<1>8. /\ Pending' <=> (WritesRd(i) \/ Op(i) = "load")
      /\ Pending' => PendingValue' = Arch!Result(i, a, b)
  BY <1>1, <1>3, <1>4, FetchedResult DEF BusFree, Arch!Result
<1>9. rdc_reg' = Rd(i) /\ regarray' = regarray
  BY <1>4, FetchLatches DEF Latch
<1>10. regsBar' = IF writes THEN [regsBar EXCEPT ![Rd(i)] = Arch!Result(i, a, b)]
                  ELSE regsBar
  <2> HIDE DEF i, a, b
  <2> QED
    BY <1>1, <1>8, <1>9 DEF regsBar
<1>11. currentBar' = [kind |-> "issued", pc |-> pc_reg,
                      wdest |-> IF writes THEN Rd(i) ELSE X0]
  <2>1. exu_valid' /\ pc_delay' = pc_reg
    BY FetchLatches
  <2> HIDE DEF i, a, b
  <2> QED
    BY <1>8, <1>9, <2>1 DEF currentBar
<1>12. memBar' = IF Op(i) = "store" THEN Arch!StoreTo(i, to, b) ELSE memBar
  <2>1. /\ DM_W' = (Op(i) = "store") /\ mem' = mem /\ alu_out' = AluFn(i, a, b, pc_reg)
        /\ dreq_size' = SizeOf(i) /\ rs2c_reg' = Rs2(i)
    BY <1>4, FetchLatches DEF Latch
  <2>2. CASE Op(i) = "store"
    <3>1. rs2_out' = b
      BY <1>1, <1>2, <1>9, <2>1, <2>2 DEF rs2_out, rs2, rs2c, NoBypass
    <3> HIDE DEF i, a, b
    <3>2. memBar' = [mem EXCEPT ![LocOf(to)] = Merge(SizeOf(i).width, to, @, Place(to, b))]
      BY <2>1, <2>2, <3>1 DEF memBar
    <3> QED
      BY <1>1, <2>2, <3>2 DEF Arch!StoreTo
  <2>3. CASE Op(i) # "store"
    <3>1. ~DM_W'
      BY <2>1, <2>3
    <3> QED
      BY <1>1, <1>3, <2>1, <2>3, <3>1 DEF memBar
  <2> QED
    BY <2>2, <2>3
<1> QED
  BY <1>5, <1>6, <1>7, <1>10, <1>11, <1>12, ExecuteStep

(* An instruction that completes without the memory: its register is       *)
(* written as the abstract already has it, and its commit is on the way.   *)
LEMMA WriteBack ==
  ASSUME TypeOK, Completing \/ Computed, ~DM_R, ~DM_W, Posedge
  PROVE  Arch!Quiet
<1> USE DEF Posedge, SyncPosedge
<1>1. /\ divu.data_ok \in BOOLEAN /\ mulu.data_ok \in BOOLEAN /\ RF_W_reg \in BOOLEAN
  BY DEF TypeOK, ExuTypeOK, Divider, Multiplier, IduTypeOK
<1>2. /\ exu_valid /\ exu_data_ok /\ UnitsIdle /\ ~dreq.valid /\ BusFree /\ Drained
  BY <1>1 DEF Completing, Computed, exu_data_ok
<1>3. /\ ~iresp_data_ok /\ ~dresp_data_ok /\ ~dstall /\ ~Ready /\ RF_W(dstall) = RF_W_reg
  BY <1>1, <1>2 DEF iresp_data_ok, dresp_data_ok, dstall, Granted, Ready, BusFree, RF_W
<1>4. UNCHANGED <<pc_reg, pc_delay, dreq, mem, rdc_reg>> /\ NoControls' /\ ~exu_valid'
  BY <1>2, <1>3, EdgeMemory DEF IfuPosedge, ifuVars, MemuPosedge, IduPosedge, Clear,
     NoControls, ExuPosedge, CtrlPosedge
<1>5. commitBar' = NoneBar /\ valid_tem2'
  BY <1>2, EdgeCommit DEF Drained, CommitPosedge
<1>6. ~Loading /\ (Pending <=> RF_W_reg) /\ memBar = mem
  BY <1>2 DEF Loading, Pending, memBar
<1>7. ~Loading' /\ ~Pending' /\ regsBar' = regarray' /\ memBar' = mem'
  BY <1>2, <1>4, NothingPendingNext
<1>8. PendingValue = rdmux_out
  BY <1>2, <1>6 DEF PendingValue, UnitsIdle
<1>9. regsBar' = regsBar
  BY <1>3, <1>6, <1>7, <1>8, EdgeWrites DEF regsBar
<1>10. currentBar' = currentBar
  <2>1. currentBar = [kind |-> "issued", pc |-> pc_delay,
                      wdest |-> IF Pending THEN rdc_reg ELSE X0]
    BY <1>2 DEF currentBar
  <2>2. currentBar' = [kind |-> "issued", pc |-> pc_delay,
                       wdest |-> IF RF_W_reg THEN rdc_reg ELSE X0]
    BY <1>3, <1>4, <1>5, <1>7, EdgeWrites DEF currentBar
  <2> QED
    BY <1>6, <2>1, <2>2
<1> QED
  BY <1>4, <1>5, <1>6, <1>7, <1>9, <1>10, IsaSteps

(* A load or store hands its request to the bus.                           *)
LEMMA RequestMade ==
  ASSUME TypeOK, Completing, NoBypass, DM_R \/ DM_W, Posedge
  PROVE  Arch!Quiet
<1> USE DEF Posedge, SyncPosedge
<1>1. /\ RF_W_reg = FALSE /\ DM_R \in BOOLEAN /\ DM_W \in BOOLEAN /\ dreq \in DataRequest
  BY DEF TypeOK, MemuTypeOK, IduTypeOK, Completing
<1>2. /\ exu_valid /\ exu_data_ok /\ ~dreq.valid /\ BusFree /\ Drained
  BY DEF Completing, exu_data_ok
<1>3. /\ ~iresp_data_ok /\ ~dresp_data_ok /\ ~dstall /\ ~Ready /\ ~RF_W(dstall)
  BY <1>1, <1>2 DEF iresp_data_ok, dresp_data_ok, dstall, Granted, Ready, BusFree, RF_W
<1>4. /\ UNCHANGED <<pc_reg, pc_delay, mem, rdc_reg, dreq_size, regarray>>
      /\ NoControls' /\ ~exu_valid'
  BY <1>2, <1>3, EdgeMemory, EdgeWrites DEF IfuPosedge, ifuVars, IduPosedge, Clear,
     NoControls, ExuPosedge, CtrlPosedge
<1>5. commitBar' = NoneBar
  BY <1>2, EdgeCommit DEF Drained
<1>6. CASE DM_R
  <2>1. ~DM_W
    BY <1>6 DEF Completing
  <2>2. /\ dreq'.valid /\ dreq'.is_write = FALSE /\ dreq'.addr = AddrOf(alu_out)
    BY <1>1, <1>6 DEF MemuPosedge, DataRequest
  <2>3. Loading /\ Loading' /\ LoadAddr' = LoadAddr
    BY <1>4, <1>6, <2>2 DEF Loading, LoadAddr, NoControls
  <2>4. Pending /\ Pending' /\ PendingValue' = PendingValue
    BY <1>4, <2>3 DEF Pending, PendingValue
  <2>5. UNCHANGED regsBar
    BY <1>4, <2>4 DEF regsBar
  <2>6. memBar = mem /\ memBar' = mem'
    BY <1>2, <1>4, <2>1, <2>2 DEF memBar, NoControls
  <2>7. UNCHANGED currentBar
    BY <1>2, <1>4, <2>3, <2>4 DEF currentBar
  <2> QED
    BY <1>4, <1>5, <2>5, <2>6, <2>7, IsaSteps
<1>7. CASE ~DM_R
  <2> DEFINE to == AddrOf(alu_out)
  <2>1. DM_W
    BY <1>1, <1>7
  <2>2. dreq' = [valid |-> TRUE, addr |-> to, size |-> dreq_size.width,
                 is_write |-> TRUE, data |-> Place(to, rs2_out)]
    BY <1>7, <2>1 DEF MemuPosedge
  <2>3. ~Loading /\ ~Loading' /\ ~Pending /\ ~Pending'
    BY <1>1, <1>2, <1>4, <1>7, <2>2 DEF Loading, Pending, NoControls
  <2>4. UNCHANGED regsBar
    BY <1>4, <2>3 DEF regsBar
  <2>5. UNCHANGED memBar
    BY <1>4, <2>1, <2>2 DEF memBar, NoControls
  <2>6. valid_tem2' /\ RF_W_tem1' = FALSE
    BY <1>1, <1>2, <1>3, <1>7, EdgeWrites DEF CommitPosedge, RF_W
  <2>7. UNCHANGED currentBar
    BY <1>2, <1>4, <2>3, <2>6 DEF currentBar
  <2> QED
    BY <1>4, <1>5, <2>4, <2>5, <2>7, IsaSteps
<1> QED
  BY <1>6, <1>7

(* The result a unit leads to is the one it shows in the end.              *)
LEMMA UnitLeadsToResult ==
  ASSUME TypeOK, Computing, NoBypass, UnitIsSource, Posedge
  PROVE  PendingValue' = PendingValue
<1> USE DEF Posedge, SyncPosedge
<1>1. /\ divu \in Divider /\ mulu \in Multiplier
      /\ ~Loading /\ ~iresp_data_ok /\ ~dresp_data_ok /\ ~exu_data_ok
  BY DEF TypeOK, ExuTypeOK, Computing, NoCompletion, exu_data_ok, Loading,
         iresp_data_ok, dresp_data_ok, Granted, BusFree
<1>2. ~div(instr) /\ ~mul(instr)
  BY <1>1, IdlePort
<1>3. UNCHANGED <<RD_M_reg, DM_R, dreq>>
  BY <1>1 DEF IduPosedge, iduVars, MemuPosedge, Computing
<1>4. ~Loading' /\ ~dstall'
  <2>1. BusFree'
    BY ComputingStep DEF Computing, Computed
  <2> QED
    BY <1>1, <1>3, <2>1 DEF Loading, dstall, dresp_data_ok, Granted, BusFree
<1>5. /\ DivPosedge(instr, rs1_out, rs2_out) /\ MulPosedge(instr, rs1_out, rs2_out)
  BY DEF ExuPosedge
<1>6. CASE divu.state = "EXECUTE"
  <2>1. mulu.state = "IDLE" /\ mulu'.state = "IDLE"
    BY <1>1, <1>2, <1>5, <1>6 DEF Computing, Multiplier, MulPosedge
  <2>2. RD_M_reg \in {"div_data", "rem_data"}
    BY <1>6 DEF UnitIsSource
  <2>3. PendingValue = IF RD_M_reg = "div_data" THEN divu.div ELSE divu.rem
    BY <1>1, <1>6, <2>1 DEF PendingValue
  <2>4. CASE divu' = DivFinish
    <3>1. /\ divu'.state = "IDLE" /\ divu'.div_data = divu.div
          /\ divu'.rem_data = divu.rem
      BY <1>1, <2>4 DEF DivFinish, Divider
    <3>2. PendingValue' = rdmux_out'
      BY <1>4, <2>1, <3>1 DEF PendingValue
    <3> QED
      BY <1>3, <1>4, <2>2, <2>3, <3>1, <3>2 DEF rdmux_out, RD_M
  <2>5. CASE divu' = DivIterate
    <3>1. divu'.state = "EXECUTE" /\ divu'.div = divu.div /\ divu'.rem = divu.rem
      BY <1>1, <1>6, <2>5 DEF DivIterate, Divider
    <3> QED
      BY <1>3, <1>4, <2>1, <2>3, <3>1 DEF PendingValue
  <2> QED
    BY <1>5, <1>6, <2>4, <2>5 DEF DivPosedge
<1>7. CASE mulu.state = "EXECUTE"
  <2>1. divu.state = "IDLE"
    BY <1>1, <1>7 DEF Computing, Divider
  <2>2. divu'.state = "IDLE"
    BY <1>1, <1>2, <1>5, <2>1 DEF DivPosedge, DivRest, Divider
  <2>3. PendingValue = mulu.product
    BY <1>1, <1>7, <2>1 DEF PendingValue
  <2>4. CASE mulu' = [mulu EXCEPT !.state = "IDLE", !.data_ok = TRUE, !.data = mulu.product]
    <3>1. mulu'.state = "IDLE" /\ mulu'.data = mulu.product
      BY <1>1, <2>4 DEF Multiplier
    <3>2. PendingValue' = rdmux_out'
      BY <1>4, <2>2, <3>1 DEF PendingValue
    <3> QED
      BY <1>3, <1>4, <1>7, <2>3, <3>1, <3>2 DEF rdmux_out, RD_M, UnitIsSource
  <2>5. CASE mulu' = [mulu EXCEPT !.Cn = @ - 1]
    <3>1. mulu'.state = "EXECUTE" /\ mulu'.product = mulu.product
      BY <1>1, <1>7, <2>5 DEF Multiplier
    <3> QED
      BY <1>4, <2>2, <2>3, <3>1 DEF PendingValue
  <2> QED
    BY <1>1, <1>5, <1>7, <2>4, <2>5 DEF MulPosedge
<1> QED
  BY <1>6, <1>7 DEF Computing

(* A cycle of a unit, which writes what it shows so far to the register    *)
(* that will hold the result.                                              *)
LEMMA UnitIterates ==
  ASSUME TypeOK, Computing, NoBypass, UnitIsSource, Posedge
  PROVE  Arch!Quiet
<1> USE DEF Posedge, SyncPosedge
<1>1. /\ exu_valid /\ ~exu_data_ok /\ ~dreq.valid /\ BusFree /\ Drained /\ ~DM_R /\ ~DM_W
  BY DEF Computing, NoCompletion, exu_data_ok
<1>2. /\ ~iresp_data_ok /\ ~dresp_data_ok /\ ~dstall /\ ~Ready
      /\ RF_W(dstall) = RF_W_reg /\ RF_W_reg \in BOOLEAN
  BY <1>1 DEF iresp_data_ok, dresp_data_ok, dstall, Granted, Ready, BusFree, RF_W,
              TypeOK, IduTypeOK
<1>3. /\ UNCHANGED <<pc_reg, pc_delay, dreq, mem, exu_valid>> /\ UNCHANGED iduVars
  BY <1>1, <1>2, EdgeMemory DEF IfuPosedge, ifuVars, MemuPosedge, IduPosedge,
     ExuPosedge, CtrlPosedge
<1>4. /\ ~Loading /\ ~Loading' /\ Pending = RF_W_reg /\ Pending' = RF_W_reg
      /\ memBar = mem /\ memBar' = mem'
  BY <1>1, <1>2, <1>3 DEF Loading, Pending, memBar, iduVars
<1>5. regsBar' = regsBar
  BY <1>2, <1>3, <1>4, EdgeWrites, UnitLeadsToResult DEF regsBar, iduVars
<1>6. currentBar' = currentBar
  BY <1>1, <1>3, <1>4 DEF currentBar, iduVars
<1>7. commitBar' = NoneBar
  BY <1>1, EdgeCommit DEF Drained
<1> QED
  BY <1>3, <1>4, <1>5, <1>6, <1>7, IsaSteps

(* The bus during a load or store.                                         *)
LEMMA AccessBus ==
  ASSUME TypeOK, Accessing, Posedge
  PROVE  /\ ~iresp_data_ok /\ ~exu_data_ok
         /\ Ready <=> dresp_data_ok
         /\ Ready => /\ busy /\ tx.is_write = dreq.is_write /\ tx.addr = dreq.addr
                     /\ oreq.size = dreq.size /\ oreq.data = dreq.data
         /\ UNCHANGED <<pc_reg, pc_delay, exu_valid, divu.state, mulu.state>> /\ UNCHANGED iduVars
         /\ dresp_data_ok => dreq' = [dreq EXCEPT !.valid = FALSE]
         /\ ~dresp_data_ok => UNCHANGED dreq
         /\ RF_W(dstall) = dstall
<1> USE DEF Posedge, SyncPosedge
<1>1. /\ ~iresp_data_ok /\ ~exu_data_ok
  BY DEF Accessing, NoCompletion, exu_data_ok, iresp_data_ok, Granted, DBUS, IBUS
<1>2. Ready <=> dresp_data_ok
  BY DEF Accessing, TxMatches, Ready, dresp_data_ok, Granted
<1>3. ASSUME Ready
      PROVE  /\ busy /\ tx.is_write = dreq.is_write /\ tx.addr = dreq.addr
             /\ oreq.size = dreq.size /\ oreq.data = dreq.data
  <2>1. busy /\ index = DBUS /\ tx.is_write = dreq.is_write /\ tx.addr = dreq.addr
    BY <1>3 DEF Accessing, TxMatches, dcreq, Ready
  <2>2. oreq = [dreq EXCEPT !.valid = busy /\ @]
    BY <2>1, OwnerRequest DEF oreq
  <2> QED
    BY <2>1, <2>2 DEF TypeOK, MemuTypeOK, DataRequest
<1>4. UNCHANGED <<pc_reg, pc_delay, exu_valid>> /\ UNCHANGED iduVars
  BY <1>1 DEF IfuPosedge, ifuVars, ExuPosedge, CtrlPosedge, IduPosedge
<1>5. UNCHANGED <<divu.state, mulu.state>>
  <2>1. UnitsIdle'
    BY <1>1, IdlePort, UnitsRest DEF Accessing
  <2> QED
    BY <2>1 DEF Accessing, UnitsIdle
<1>6. /\ dresp_data_ok => dreq' = [dreq EXCEPT !.valid = FALSE]
      /\ ~dresp_data_ok => UNCHANGED dreq
  BY DEF MemuPosedge, Accessing, NoControls
<1>7. RF_W(dstall) = dstall
  <2>1. dstall \in BOOLEAN /\ RF_W_reg = FALSE
    BY DEF TypeOK, IduTypeOK, Accessing, NoControls, dstall
  <2> QED
    BY <2>1 DEF RF_W
<1> QED
  BY <1>1, <1>2, <1>3, <1>4, <1>5, <1>6, <1>7

(* A load in flight, and its answer, which the build must extend.          *)
LEMMA LoadStep ==
  ASSUME TypeOK, Accessing, NoBypass, ~dreq.is_write, RawLoads = FALSE, Posedge
  PROVE  Arch!Quiet
<1> USE DEF Posedge, SyncPosedge
<1>1. /\ dreq.valid /\ NoControls /\ ~exu_valid /\ ~valid_tem2 /\ dreq \in DataRequest
  BY DEF Accessing, TypeOK, MemuTypeOK
<1>2. /\ UNCHANGED <<pc_reg, pc_delay, exu_valid>> /\ NoControls'
      /\ UNCHANGED <<DM_R, DM_W, rdc_reg, dreq_size>>
  BY <1>1, AccessBus DEF iduVars, NoControls
<1>3. mem' = mem
  BY <1>1, AccessBus, EdgeMemory
<1>4. commitBar' = NoneBar
  BY <1>1, EdgeCommit
<1>5. Loading /\ Pending /\ LoadAddr = dreq.addr
  BY <1>1 DEF Loading, Pending, LoadAddr, NoControls
<1>6. PendingValue = Extract(dreq_size, dreq.addr, mem[LocOf(dreq.addr)])
  BY <1>5 DEF PendingValue
<1>7. memBar = mem /\ memBar' = mem'
  <2>1. dreq'.is_write = dreq.is_write
    BY <1>1, AccessBus DEF DataRequest
  <2> QED
    BY <1>1, <1>2, <2>1 DEF memBar, NoControls
<1>8. currentBar = [kind |-> "issued", pc |-> pc_delay, wdest |-> rdc_reg]
  BY <1>5 DEF currentBar
<1>9. CASE ~dresp_data_ok
  <2>1. UNCHANGED dreq /\ ~dstall /\ UNCHANGED regarray
    BY <1>9, AccessBus, EdgeWrites DEF dstall
  <2>2. Loading' /\ Pending' /\ LoadAddr' = LoadAddr
    BY <1>2, <1>5, <2>1 DEF Loading, Pending, LoadAddr, NoControls
  <2>3. PendingValue' = PendingValue
    BY <1>2, <1>3, <1>5, <2>2 DEF PendingValue
  <2>4. UNCHANGED regsBar
    BY <1>2, <1>5, <2>1, <2>2, <2>3 DEF regsBar
  <2>5. UNCHANGED currentBar
    BY <1>2, <1>8, <2>2 DEF currentBar
  <2> QED
    BY <1>2, <1>3, <1>4, <1>7, <2>4, <2>5, IsaSteps
<1>10. CASE dresp_data_ok
  <2>1. dstall /\ Ready /\ Granted(DBUS) /\ ~tx.is_write /\ tx.addr = dreq.addr
    BY <1>10, AccessBus DEF dstall, dresp_data_ok
  <2>2. rdmux_out = PendingValue
    <3>1. dresp_data = mem[LocOf(dreq.addr)]
      BY <2>1 DEF dresp_data, Data
    <3>2. rdmux_out = dmem_out(dreq_size, dresp_data)
      BY <2>1 DEF rdmux_out, RD_M
    <3> QED
      BY <1>6, <3>1, <3>2 DEF dmem_out
  <2>3. regarray' = IF rdc_reg # X0 THEN [regarray EXCEPT ![rdc_reg] = PendingValue]
                    ELSE regarray
    BY <2>1, <2>2, AccessBus, EdgeWrites
  <2>4. ~dreq'.valid
    BY <1>1, <1>10, AccessBus DEF DataRequest
  <2>5. ~Loading' /\ ~Pending' /\ regsBar' = regarray'
    BY <1>2, <2>4, NothingPendingNext
  <2>6. regsBar' = regsBar
    BY <1>5, <2>3, <2>5 DEF regsBar
  <2>7. valid_tem2' /\ RF_W_tem1' /\ rdc_tem1' = rdc_reg
    BY <1>10, <2>1, AccessBus, EdgeWrites DEF CommitPosedge
  <2>8. currentBar' = currentBar
    BY <1>1, <1>2, <1>8, <2>5, <2>7 DEF currentBar
  <2> QED
    BY <1>2, <1>3, <1>4, <1>7, <2>6, <2>8, IsaSteps
<1> QED
  BY <1>9, <1>10

(* A store on its way to memory, and its commit, which does not wait.      *)
LEMMA StoreStep ==
  ASSUME TypeOK, Accessing, NoBypass, CommitIsTrue, dreq.is_write, Posedge
  PROVE  Arch!Quiet \/ Arch!Commit
<1> USE DEF Posedge, SyncPosedge
<1>1. /\ dreq.valid /\ NoControls /\ ~exu_valid /\ dreq \in DataRequest /\ ~dstall
  BY DEF Accessing, TypeOK, MemuTypeOK, dstall
<1>2. /\ UNCHANGED <<pc_reg, pc_delay, exu_valid>> /\ NoControls'
      /\ UNCHANGED regarray
  BY <1>1, AccessBus, EdgeWrites DEF iduVars, NoControls
<1>3. dreq'.is_write
  BY <1>1, AccessBus DEF DataRequest
<1>4. ~Loading /\ ~Loading' /\ ~Pending /\ ~Pending'
  BY <1>1, <1>2, <1>3 DEF Loading, Pending, NoControls
<1>5. regsBar = regarray /\ UNCHANGED regsBar
  BY <1>2, <1>4 DEF regsBar
<1>6. UNCHANGED memBar
  <2>1. memBar = [mem EXCEPT ![LocOf(dreq.addr)] = Merge(dreq.size, dreq.addr, @, dreq.data)]
    BY <1>1 DEF memBar, NoControls
  <2>2. CASE dresp_data_ok
    <3>1. ~dreq'.valid
      BY <1>1, <2>2, AccessBus DEF DataRequest
    <3>2. memBar' = mem'
      BY <1>2, <3>1 DEF memBar, NoControls
    <3> QED
      BY <1>1, <2>1, <2>2, <3>2, AccessBus, EdgeMemory
  <2>3. CASE ~dresp_data_ok
    <3>1. mem' = mem /\ dreq' = dreq
      BY <2>3, AccessBus, EdgeMemory
    <3> QED
      BY <1>1, <1>2, <2>1, <3>1 DEF memBar, NoControls
  <2> QED
    BY <2>2, <2>3
<1>7. ~valid_tem2'
  BY <1>1, AccessBus DEF CommitPosedge
<1>8. currentBar' = NoneBar
  BY <1>1, <1>2, <1>4, <1>7 DEF currentBar
<1> QED
  BY <1>1, <1>2, <1>4, <1>5, <1>6, <1>8, CommitShown

-----------------------------------------------------------------------------
(* The invariant the refinement rests on.                                  *)

(* A unit's result is that of the instruction it works for.                *)
LEMMA UnitSourceStep ==
  ASSUME TypeOK, PhaseInv, UnitIsSource, Posedge
  PROVE  UnitIsSource'
<1> USE DEF Posedge, SyncPosedge
<1>1. divu \in Divider /\ mulu \in Multiplier
  BY DEF TypeOK, ExuTypeOK
<1>2. /\ DivPosedge(instr, rs1_out, rs2_out) /\ MulPosedge(instr, rs1_out, rs2_out)
  BY DEF ExuPosedge
<1>3. CASE iresp_data_ok
  <2>1. UnitsIdle
    <3>1. busy /\ index = IBUS
      BY <1>3 DEF iresp_data_ok, Granted
    <3> QED
      BY <3>1 DEF PhaseInv, Phase, Fetching, Completing, Computing, Computed, Accessing,
                  BusFree, DBUS, IBUS
  <2>2. RD_M_reg' = RD_M_of(instr)
    BY <1>3 DEF IduPosedge, Latch
  <2>3. /\ divu'.state = "EXECUTE" => div(instr)
        /\ mulu'.state = "EXECUTE" => mul(instr)
    BY <1>1, <1>2, <2>1 DEF DivPosedge, MulPosedge, DivRest, UnitsIdle, Divider, Multiplier
  <2> QED
    BY <2>2, <2>3 DEF UnitIsSource, RD_M_of, div, mul
<1>4. CASE ~iresp_data_ok
  <2>1. ~div(instr) /\ ~mul(instr)
    BY <1>4, IdlePort
  <2>2. /\ divu'.state = "EXECUTE" => divu.state = "EXECUTE"
        /\ mulu'.state = "EXECUTE" => mulu.state = "EXECUTE"
    BY <1>1, <1>2, <2>1 DEF DivPosedge, MulPosedge, DivRest, DivFinish, Divider, Multiplier
  <2>3. CASE exu_data_ok
    <3>1. divu.state # "EXECUTE" /\ mulu.state # "EXECUTE"
      BY <2>3 DEF PhaseInv, Phase, Fetching, Completing, Computing, Computed, Accessing,
                  UnitsIdle, NoCompletion, exu_data_ok
    <3> QED
      BY <2>2, <3>1 DEF UnitIsSource
  <2>4. CASE ~exu_data_ok
    <3>1. UNCHANGED RD_M_reg
      BY <1>4, <2>4 DEF IduPosedge, iduVars
    <3> QED
      BY <2>2, <3>1 DEF UnitIsSource
  <2> QED
    BY <2>3, <2>4
<1> QED
  BY <1>3, <1>4

(* The commit pipeline holds what was written two cycles ago.              *)
LEMMA CommitStep ==
  ASSUME TypeOK, Posedge
  PROVE  CommitIsTrue'
<1> SUFFICES ASSUME valid_tem2', RF_W_tem1', rdc_tem1' # X0
             PROVE  rd_tem1' = regarray'[rdc_tem1']
  BY DEF CommitIsTrue
<1>1. /\ RF_W(dstall) /\ rdc_reg # X0 /\ rdc_tem1' = rdc_reg /\ rd_tem1' = rdmux_out
      /\ regarray' = [regarray EXCEPT ![rdc_reg] = rdmux_out]
  BY EdgeWrites
<1> QED
  BY <1>1 DEF TypeOK, RegfileTypeOK, IduTypeOK

(* The invariant of the refinement at power-up.                            *)
LEMMA InitIsa == Init => IsaInv
  BY DEF Init, IfuInit, RegfileInit, ExuInit, DivInit, MulInit,
         IsaInv, UnitIsSource, CommitIsTrue, ResetHolds

(* No step disturbs it.                                                    *)
LEMMA StepIsaInv == TypeOK /\ PhaseInv /\ IsaInv /\ [Next]_vars => IsaInv'
<1> SUFFICES ASSUME TypeOK, PhaseInv, IsaInv, [Next]_vars PROVE IsaInv'
  OBVIOUS
<1>1. CASE Posedge
  <2>1. ~reset'
    BY <1>1, EdgeWrites
  <2> QED
    BY <1>1, <2>1, UnitSourceStep, CommitStep DEF IsaInv, ResetHolds
<1>2. CASE PosedgeInReset
  <2> USE DEF PosedgeInReset, SyncPosedge
  <2>1. reset /\ divu \in Divider /\ mulu \in Multiplier
    BY <1>2 DEF TypeOK, ExuTypeOK
  <2>2. UnitIsSource'
    BY <1>2, <2>1 DEF UnitIsSource, ExuReset, DivReset, MulReset, Divider, Multiplier
  <2>3. ~valid_tem2'
    BY <1>2, <2>1 DEF CommitPosedge, PhaseInv, PowerUp, Fetching, NoCompletion, BusFree,
       exu_data_ok, dresp_data_ok, Granted
  <2>4. ResetHolds'
    BY <1>2, <2>1 DEF ResetHolds, IfuReset, RegfilePosedge, RegfileClear
  <2> QED
    BY <2>2, <2>3, <2>4 DEF IsaInv, CommitIsTrue
<1>3. CASE ReleaseReset
  BY <1>3 DEF ReleaseReset, IsaInv, UnitIsSource, CommitIsTrue, ResetHolds, iduVars, exuVars,
              regfileVars, commitVars
<1>4. CASE UNCHANGED vars
  BY <1>4 DEF vars, IsaInv, UnitIsSource, CommitIsTrue, ResetHolds, ifuVars, iduVars,
              exuVars, regfileVars, commitVars
<1> QED
  BY <1>1, <1>2, <1>3, <1>4 DEF Next

(* The result to come is the unit's, and the commit to come is true.       *)
LEMMA IsaInvHolds == Spec => []IsaInv
<1>1. Init => IsaInv
  BY InitIsa
<1>2. TypeOK /\ PhaseInv /\ IsaInv /\ [Next]_vars => IsaInv'
  BY StepIsaInv
<1> QED
  BY <1>1, <1>2, TypeCorrect, PhaseCorrect, PTL DEF Spec

-----------------------------------------------------------------------------
(* The refinement, step by step.                                           *)

(* The initial states are those of the instruction set.                    *)
LEMMA InitMaps == Init => Arch!Init
<1> SUFFICES ASSUME Init PROVE Arch!Init
  OBVIOUS
<1>1. /\ NoControls /\ ~dreq.valid /\ ~exu_valid /\ ~valid /\ ~valid_tem2
      /\ pc_reg = PCINIT /\ regarray = [r \in Reg |-> Zero] /\ mem \in [Loc -> Word]
  BY DEF Init, IfuInit, IduInit, ExuInit, RegfileInit, MemuInit, DeviceInit, NoControls
<1>2. regsBar = regarray /\ memBar = mem /\ ~Loading
  BY <1>1, NothingPending
<1>3. currentBar = NoneBar /\ commitBar = NoneBar
  BY <1>1, <1>2 DEF currentBar, commitBar
<1> QED
  BY <1>1, <1>2, <1>3 DEF Arch!Init, Arch!None, NoneBar

(* A clock edge out of reset, whatever the phase.                          *)
LEMMA PosedgeMaps ==
  ASSUME TypeOK, PhaseInv, IsaInv, RawLoads = FALSE, Posedge
  PROVE  Arch!Next
<1>1. NoBypass /\ UnitIsSource /\ CommitIsTrue
  BY DEF PhaseInv, IsaInv
<1>2. CASE Fetching
  BY <1>1, <1>2, FetchWaits, FetchExecutes DEF Arch!Next
<1>3. CASE Completing \/ Computed
  BY <1>1, <1>3, WriteBack, RequestMade DEF Arch!Next, Computed
<1>4. CASE Computing
  BY <1>1, <1>4, UnitIterates DEF Arch!Next
<1>5. CASE Accessing
  BY <1>1, <1>5, LoadStep, StoreStep DEF Arch!Next
<1> QED
  BY <1>2, <1>3, <1>4, <1>5 DEF PhaseInv, Phase

(* In reset the core does nothing that shows.                              *)
LEMMA ResetMaps ==
  ASSUME TypeOK, PhaseInv, IsaInv, PosedgeInReset
  PROVE  Arch!Quiet
<1> USE DEF PosedgeInReset, SyncPosedge
<1>1. Fetching /\ BusFree /\ Drained /\ ResetHolds /\ reset
  BY DEF PhaseInv, PowerUp, IsaInv
<1>2. /\ ~exu_data_ok /\ ~dresp_data_ok /\ ~iresp_data_ok /\ ~Ready
  BY <1>1 DEF Fetching, NoCompletion, BusFree, exu_data_ok, dresp_data_ok,
              iresp_data_ok, Granted, Ready
<1>3. UNCHANGED <<pc_reg, pc_delay, regarray, dreq>> /\ UNCHANGED iduVars /\ ~exu_valid'
  BY <1>1, <1>2 DEF ResetHolds, IfuReset, RegfilePosedge, RegfileClear, MemuPosedge,
     IduPosedge, Fetching, NoControls, ExuReset
<1>4. mem' = mem
  BY <1>1, <1>2 DEF DevicePosedge, Wait, Start, Finish, BusFree
<1>5. /\ NoControls /\ ~dreq.valid /\ NoControls' /\ ~dreq'.valid /\ ~exu_valid
  BY <1>1, <1>3 DEF Fetching, NoControls, iduVars
<1>6. /\ regsBar = regarray /\ memBar = mem /\ ~Loading
      /\ regsBar' = regarray' /\ memBar' = mem' /\ ~Loading'
  BY <1>5, NothingPending, NothingPendingNext
<1>7. ~valid_tem2 /\ ~valid_tem2' /\ ~valid'
  BY <1>1, <1>2 DEF CommitPosedge, Drained
<1>8. currentBar = NoneBar /\ currentBar' = NoneBar /\ commitBar' = NoneBar
  BY <1>3, <1>5, <1>6, <1>7 DEF currentBar, commitBar
<1> QED
  BY <1>3, <1>4, <1>6, <1>8, IsaSteps

(* A step that changes no register is none of the instruction set.         *)
LEMMA StutterMaps ==
  ASSUME UNCHANGED <<ifuVars, iduVars, exuVars, regfileVars, dreq, arbiterVars,
                     deviceVars, commitVars>>
  PROVE  UNCHANGED Arch!isaVars
<1>1. /\ UNCHANGED <<pc_reg, pc_delay, exu_valid, alu_out, divu, mulu>>
      /\ UNCHANGED <<DM_R, DM_W, RD_M_reg, RF_W_reg, rdc_reg, rs2c_reg, dreq_size>>
      /\ UNCHANGED <<regarray, isequal_rdrs1, temprs1, isequal_rdrs2, temprs2>>
      /\ UNCHANGED <<dreq, busy, index, mem, tx, enable, rdata>>
      /\ UNCHANGED <<valid, valid_tem2, RF_W_tem1, RF_W_tem2, rdc_tem1, rdc_tem2,
                     rd_tem1, rd_tem2>>
  BY DEF ifuVars, iduVars, exuVars, regfileVars, arbiterVars, deviceVars, commitVars
<1>2. rdmux_out' = rdmux_out /\ rs2_out' = rs2_out
  <2>1. dresp_data_ok' = dresp_data_ok /\ dresp_data' = dresp_data
    BY <1>1 DEF dresp_data_ok, dresp_data, Granted, Ready, Data
  <2>2. rdmux_out' = rdmux_out
    BY <1>1, <2>1 DEF rdmux_out, RD_M, dstall, dmem_out
  <2>3. instr' = instr
    BY <1>1 DEF instr, Granted, Ready, Data
  <2> QED
    BY <1>1, <2>2, <2>3 DEF rs2_out, rs2, rs2c
<1>3. Loading' = Loading /\ LoadAddr' = LoadAddr /\ Pending' = Pending
  BY <1>1 DEF Loading, LoadAddr, Pending
<1>4. PendingValue' = PendingValue
  BY <1>1, <1>2, <1>3 DEF PendingValue
<1>5. regsBar' = regsBar /\ memBar' = memBar
  BY <1>1, <1>2, <1>3, <1>4 DEF regsBar, memBar
<1>6. currentBar' = currentBar /\ commitBar' = commitBar
  BY <1>1, <1>3 DEF currentBar, commitBar
<1> QED
  BY <1>1, <1>5, <1>6 DEF Arch!isaVars

(* Whatever the instruction set, the datapath, the program and the pauses  *)
(* of the memory, the core executes one instruction at a time, in program  *)
(* order, and difftest is shown one commit for each, with the registers as *)
(* the instruction leaves them - in a build that keeps the driver of       *)
(* dmem_out that extends a load (mem.sv:24-35 against mem.sv:48).          *)
THEOREM CoreImplementsIsa ==
  ASSUME RawLoads = FALSE
  PROVE  Spec => ImplementsIsa
<1>1. Init => Arch!Init
  BY InitMaps
<1>2. TypeOK /\ PhaseInv /\ IsaInv /\ [Next]_vars => [Arch!Next]_(Arch!isaVars)
  <2> SUFFICES ASSUME TypeOK, PhaseInv, IsaInv, [Next]_vars
               PROVE  [Arch!Next]_(Arch!isaVars)
    OBVIOUS
  <2>1. CASE Posedge
    BY <2>1, PosedgeMaps
  <2>2. CASE PosedgeInReset
    BY <2>2, ResetMaps DEF Arch!Next
  <2>3. CASE ReleaseReset
    BY <2>3, StutterMaps DEF ReleaseReset
  <2>4. CASE UNCHANGED vars
    BY <2>4, StutterMaps DEF vars
  <2> QED
    BY <2>1, <2>2, <2>3, <2>4 DEF Next
<1> QED
  BY <1>1, <1>2, TypeCorrect, PhaseCorrect, IsaInvHolds, PTL DEF Spec, ImplementsIsa, Arch!Spec
=============================================================================
