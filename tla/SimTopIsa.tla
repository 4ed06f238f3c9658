------------------------------- MODULE SimTopIsa -----------------------------
(***************************************************************************)
(* The core implements Isa.  An instruction takes effect, in the abstract, *)
(* in the cycle its fetch completes; the mapping brings forward what the   *)
(* registers show the core is still to do: the write to its destination    *)
(* register and the write to memory.                                       *)
(***************************************************************************)
EXTENDS SimTop

(* The instruction in execution, in the cycles after its fetch.            *)
Loading == DM_R \/ (dreq.valid /\ ~dreq.is_write)
LoadAddr == IF DM_R THEN AddrOf(alu_out) ELSE dreq.addr

(* The store in flight: waiting for its request, or waiting for the bus.   *)
memBar ==
  CASE DM_W -> [mem EXCEPT ![LocOf(AddrOf(alu_out))] =
                  Merge(dreq_size.width, AddrOf(alu_out), @,
                        Place(AddrOf(alu_out), rs2_out))]
    [] ~DM_W /\ dreq.valid /\ dreq.is_write ->
         [mem EXCEPT ![LocOf(dreq.addr)] = Merge(dreq.size, dreq.addr, @, dreq.data)]
    [] OTHER -> mem

(* What the destination register will hold.  A unit shows its result only  *)
(* when it is done, and writes 0 to the register until then.               *)
Pending == Loading \/ RF_W_reg
PendingValue ==
  CASE Loading -> Extract(dreq_size, LoadAddr, mem[LocOf(LoadAddr)])
    [] ~Loading /\ divu.state = "EXECUTE" ->
         IF RD_M_reg = "div_data" THEN divu.div ELSE divu.rem
    [] ~Loading /\ mulu.state = "EXECUTE" -> mulu.product
    [] OTHER -> rdmux_out

regsBar == IF Pending /\ rdc_reg # X0
           THEN [regarray EXCEPT ![rdc_reg] = PendingValue] ELSE regarray

NoneBar == [kind |-> "none"]

(* Executed and not yet reported: in execution, loading, or one cycle from *)
(* its commit.  A store is reported while it is still on the bus.          *)
currentBar ==
  CASE exu_valid \/ Loading ->
         [kind |-> "issued", pc |-> pc_delay,
          wdest |-> IF Pending THEN rdc_reg ELSE X0]
    [] ~exu_valid /\ ~Loading /\ valid_tem2 ->
         [kind |-> "issued", pc |-> pc_delay,
          wdest |-> IF RF_W_tem1 THEN rdc_tem1 ELSE X0]
    [] OTHER -> NoneBar

(* What difftest is shown: core.sv:49-64 and 66-100.  A write to x0 is no  *)
(* write.                                                                  *)
commitBar ==
  LET wdest == IF RF_W_tem2 THEN rdc_tem2 ELSE X0
  IN  IF valid
      THEN [kind |-> "commit", pc |-> pc_delay, wdest |-> wdest,
            wdata |-> IF wdest = X0 THEN regarray[X0] ELSE rd_tem2,
            gpr |-> regarray]
      ELSE NoneBar

-----------------------------------------------------------------------------
(* What ties the registers to the abstract state, beyond the phases.       *)

(* The unit at work is the one the result will be taken from.              *)
UnitIsSource ==
  /\ divu.state = "EXECUTE" => RD_M_reg \in {"div_data", "rem_data"}
  /\ mulu.state = "EXECUTE" => RD_M_reg = "mul_data"

(* The commit about to be shown carries what the register file holds.      *)
CommitIsTrue ==
  valid_tem2 /\ RF_W_tem1 /\ rdc_tem1 # X0 => rd_tem1 = regarray[rdc_tem1]

(* Nothing has happened while the reset at power-up lasts.                 *)
ResetHolds == reset => pc_reg = PCINIT /\ regarray = [r \in Reg |-> Zero]

IsaInv == UnitIsSource /\ CommitIsTrue /\ ResetHolds
-----------------------------------------------------------------------------
Arch == INSTANCE Isa WITH pc <- pc_reg, regs <- regsBar, mem <- memBar,
                          current <- currentBar, commit <- commitBar

(* Difftest sees the program executed one instruction at a time: every     *)
(* commit reports the next instruction, with the registers as that         *)
(* instruction leaves them, however fetch, units, stores and bus overlap.  *)
ImplementsIsa == Arch!Spec
=============================================================================
