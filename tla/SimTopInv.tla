------------------------------ MODULE SimTopInv ------------------------------
(***************************************************************************)
(* Why the core needs no interlocks: at every clock it is in one of five   *)
(* phases, and in each only one of its parts is at work.                   *)
(***************************************************************************)
EXTENDS SimTop

(* exu.sv:33-34 start a unit on what the fetch port shows, response or no  *)
(* response, so the data lines must not look like a multiplication or      *)
(* division between responses.  CBusDevice holds them at 0.                *)
ASSUME IdleStartsNoUnit == \A a \in Addr, w \in IdleData : 
  ~div(Half(a, w)) /\ ~mul(Half(a, w))

UnitsIdle == divu.state = "IDLE" /\ mulu.state = "IDLE"
NoCompletion == ~data_ok /\ ~divu.data_ok /\ ~mulu.data_ok
NoControls == ~DM_R /\ ~DM_W /\ ~RF_W_reg
BusFree == ~busy /\ ~tx.busy
Drained == ~valid_tem2 /\ ~valid

(* A transaction in the memory belongs to the owner of the bus, and is for *)
(* the request the owner still makes.                                      *)
TxMatches(req) ==
  tx.busy => /\ busy
             /\ tx.is_write = req.is_write
             /\ tx.addr = req.addr
             /\ tx.size = req.size

(* The previous commit is on its way out while the bus is being obtained.  *)
Draining == (valid_tem2 => ~busy) /\ (valid => ~tx.busy)

(* The next instruction is fetched.                                        *)
Fetching ==
  /\ ~exu_valid /\ UnitsIdle /\ NoCompletion /\ NoControls /\ ~dreq.valid
  /\ busy => index = IBUS
  /\ TxMatches(icreq)
  /\ Draining

(* An ordinary instruction writes its register or leaves its request.      *)
Completing ==
  /\ exu_valid /\ data_ok /\ ~divu.data_ok /\ ~mulu.data_ok /\ UnitsIdle
  /\ ~(DM_R /\ DM_W) /\ (RF_W_reg => ~DM_R /\ ~DM_W)
  /\ ~dreq.valid /\ BusFree /\ Drained

(* A unit iterates.                                                        *)
Computing ==
  /\ exu_valid /\ NoCompletion /\ ~DM_R /\ ~DM_W
  /\ (divu.state = "EXECUTE") # (mulu.state = "EXECUTE")
  /\ ~dreq.valid /\ BusFree /\ Drained

(* A unit shows its result.                                                *)
Computed ==
  /\ exu_valid /\ ~data_ok /\ ~DM_R /\ ~DM_W /\ UnitsIdle
  /\ divu.data_ok # mulu.data_ok
  /\ ~dreq.valid /\ BusFree /\ Drained

(* A load or store is on, or waits for, the bus.                           *)
Accessing ==
  /\ ~exu_valid /\ UnitsIdle /\ NoCompletion /\ NoControls /\ dreq.valid
  /\ busy => index = DBUS
  /\ TxMatches(dcreq)
  /\ Draining
  /\ valid_tem2 => dreq.is_write

Phase == Fetching \/ Completing \/ Computing \/ Computed \/ Accessing

(* During the reset at power-up nothing has begun.                         *)
PowerUp == reset => Fetching /\ BusFree /\ Drained

(* Register writes and read ports never meet.                              *)
NoBypass == ~isequal_rdrs1 /\ ~isequal_rdrs2

(* The inductive invariant: the phases, from which the safety properties   *)
(* of SimTop follow.                                                       *)
PhaseInv == Phase /\ PowerUp /\ NoBypass
=============================================================================
