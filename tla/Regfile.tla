------------------------------- MODULE Regfile -------------------------------
(***************************************************************************)
(* rrwu/rrwu.sv and rrwu/regfile.sv: the registers, and the two bypasses   *)
(* that, for the cycle after a write to a register on a read port, show    *)
(* on that port the value the register had before.                         *)
(***************************************************************************)
EXTENDS Machine

VARIABLES regarray,
          isequal_rdrs1, temprs1,
          isequal_rdrs2, temprs2

regfileVars == <<regarray, isequal_rdrs1, temprs1, isequal_rdrs2, temprs2>>

RegfileTypeOK ==
  /\ regarray \in [Reg -> Word]
  /\ isequal_rdrs1 \in BOOLEAN /\ isequal_rdrs2 \in BOOLEAN
  /\ temprs1 \in Word /\ temprs2 \in Word

RegfileInit ==
  /\ regarray = [r \in Reg |-> Zero]
  /\ isequal_rdrs1 = FALSE /\ isequal_rdrs2 = FALSE
  /\ temprs1 = Zero /\ temprs2 = Zero

rs1(c) == IF isequal_rdrs1 THEN temprs1 ELSE regarray[c]
rs2(c) == IF isequal_rdrs2 THEN temprs2 ELSE regarray[c]

RegfileClear ==
  /\ regarray' = [r \in Reg |-> Zero]
  /\ isequal_rdrs1' = FALSE /\ isequal_rdrs2' = FALSE
  /\ UNCHANGED <<temprs1, temprs2>>

RegfileWrite(rs1c, rs2c, rdc, rd) ==
  /\ regarray' = [regarray EXCEPT ![rdc] = rd]
  /\ isequal_rdrs1' = (rdc = rs1c)
  /\ temprs1' = IF rdc = rs1c THEN regarray[rdc] ELSE temprs1
  /\ isequal_rdrs2' = (rdc = rs2c)
  /\ temprs2' = IF rdc = rs2c THEN regarray[rdc] ELSE temprs2

RegfileKeep ==
  /\ isequal_rdrs1' = FALSE /\ isequal_rdrs2' = FALSE
  /\ UNCHANGED <<regarray, temprs1, temprs2>>

(* The reset is synchronous.  Register 0 is never written.                 *)
RegfilePosedge(rst, RF_W, rs1c, rs2c, rdc, rd) ==
  \/ rst /\ RegfileClear
  \/ ~rst /\ RF_W /\ rdc # X0 /\ RegfileWrite(rs1c, rs2c, rdc, rd)
  \/ ~rst /\ (~RF_W \/ rdc = X0) /\ RegfileKeep
=============================================================================
