------------------------------ MODULE CBusDevice -----------------------------
(***************************************************************************)
(* verilate/vsrc/cbus_device.cpp: the memory behind the cache bus, for the *)
(* single-beat transactions of MLEN1 that DBusToCBus.sv asks for, whose    *)
(* only word is the last one.  enable is drawn anew after every cycle: the *)
(* memory may sit out any of them.                                         *)
(***************************************************************************)
EXTENDS Machine

CONSTANT IdleData    \* what the data lines may carry without a response

ASSUME IdleDataWords == IdleData \subseteq Word /\ IdleData # {}

VARIABLES mem,       \* BlockMemory
          tx,        \* the transaction in progress
          enable,
          rdata      \* the data lines of a cycle without a response

deviceVars == <<mem, tx, enable, rdata>>

Transaction == [busy : BOOLEAN, is_write : BOOLEAN, addr : Addr, size : Width]

DeviceTypeOK ==
  /\ mem \in [Loc -> Word]
  /\ tx \in Transaction
  /\ enable \in BOOLEAN
  /\ rdata \in IdleData

DeviceInit ==
  /\ mem \in [Loc -> Word]
  /\ tx = [busy |-> FALSE, is_write |-> FALSE, addr |-> AddrOf(Zero), size |-> 1]
  /\ enable = TRUE
  /\ rdata \in IdleData

(* eval_resp.  ready and last are one: the first word is the last.         *)
Ready == enable /\ tx.busy
Data == IF ~Ready THEN rdata ELSE IF tx.is_write THEN Zero ELSE mem[LocOf(tx.addr)]

(* eval_req and sync, for the request on the bus in this cycle.            *)
Wait(req) ==
  /\ ~enable \/ (~tx.busy /\ ~req.valid)
  /\ UNCHANGED <<mem, tx>>

Start(req) ==
  /\ enable /\ ~tx.busy /\ req.valid
  /\ tx' = [busy |-> TRUE, is_write |-> req.is_write, addr |-> req.addr, size |-> req.size]
  /\ UNCHANGED mem

Finish(req) ==
  /\ enable /\ tx.busy
  /\ mem' = IF tx.is_write
            THEN [mem EXCEPT ![LocOf(tx.addr)] = Merge(req.size, tx.addr, @, req.data)]
            ELSE mem
  /\ tx' = [tx EXCEPT !.busy = FALSE]

DevicePosedge(req) ==
  /\ Wait(req) \/ Start(req) \/ Finish(req)
  /\ enable' \in BOOLEAN
  /\ rdata' \in IdleData

(* The sanity checks of eval_req (cbus_device.cpp:39-43).                  *)
SanityChecks(req) ==
  enable /\ tx.busy =>
    /\ req.valid
    /\ req.is_write = tx.is_write
    /\ req.size = tx.size
    /\ req.addr = tx.addr
=============================================================================
