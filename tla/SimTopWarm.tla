------------------------------ MODULE SimTopWarm -----------------------------
(***************************************************************************)
(* SimTop with resets after the first: reset is asserted again while the   *)
(* core runs, as the test benches do between two tests (testbench.h:123),  *)
(* and the memory is reset with it.  The registers of idu.sv, mem.sv,      *)
(* cpu.sv and core.sv, and exu.sv's data_ok, have no reset.  Written on    *)
(* the small machine: it is there for a counterexample.                    *)
(***************************************************************************)
EXTENDS MCMachine

VARIABLES
  saved_mem,  \* BlockMemory's copy of the image it was made with
  fresh       \* history: a clock edge in reset since, and no fetch after it

warmVars == <<vars, saved_mem, fresh>>

WarmInit == Init /\ saved_mem = mem /\ fresh = FALSE

(* cbus_device.cpp:5-11.                                                   *)
DeviceReset ==
  /\ mem' = saved_mem
  /\ tx' = [tx EXCEPT !.busy = FALSE]
  /\ UNCHANGED <<enable, rdata>>

(* Between two clock edges: the asynchronous resets act at once.           *)
AssertReset ==
  /\ ~reset
  /\ reset' = TRUE
  /\ IfuReset
  /\ ExuReset(instr, rs1_out, rs2_out, pc_reg)
  /\ DeviceReset
  /\ UNCHANGED <<iduVars, regfileVars, dreq, arbiterVars, commitVars>>
  /\ fresh' = FALSE

WarmNext ==
  /\ \/ AssertReset
     \/ Posedge /\ fresh' = (fresh /\ ~iresp_data_ok)
     \/ PosedgeInReset /\ fresh' = TRUE
     \/ ReleaseReset /\ UNCHANGED fresh
  /\ UNCHANGED saved_mem

WarmSpec == WarmInit /\ [][WarmNext]_warmVars

(* "if reset ,set all regs 0" (regfile.sv:30): from a clock edge in reset  *)
(* to the first fetch that completes after it, every register is 0.        *)
ResetClearsRegs == fresh => \A r \in Reg : regarray[r] = Zero
=============================================================================
