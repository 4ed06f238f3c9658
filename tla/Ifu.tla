--------------------------------- MODULE Ifu ---------------------------------
(* ifu/ifu.sv, ifu/pc.sv and ifu/pcnxt.sv: the program counter.            *)
EXTENDS Machine

VARIABLES pc_reg,    \* the address being fetched
          pc_delay   \* the address of the instruction fetched last

ifuVars == <<pc_reg, pc_delay>>

IfuTypeOK == pc_reg \in Addr /\ pc_delay \in Addr

(* Verilator starts every register at zero, and pc_delay has no reset.     *)
IfuInit == pc_reg = PCINIT /\ pc_delay = AddrOf(Zero)

(* pc.sv's asynchronous reset leaves pc_delay alone.                       *)
IfuReset == pc_reg' = PCINIT /\ UNCHANGED pc_delay

(* A clock edge out of reset.  stall is ~iresp.data_ok; skip is idu's and  *)
(* br_out the exu's.                                                       *)
IfuPosedge(stall, skip, br_out) ==
  \/ /\ stall
     /\ UNCHANGED ifuVars
  \/ /\ ~stall
     /\ pc_delay' = pc_reg
     /\ pc_reg' = IF skip THEN br_out ELSE NextAddr(pc_reg)
=============================================================================
