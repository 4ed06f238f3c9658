------------------------------ MODULE BurstDevice ------------------------------
(***************************************************************************)
(* CBusDevice with bursts: cbus_device.cpp on axi.h, one clock cycle a     *)
(* step.  CBusDevice, which SimTop uses, is the case of one beat.          *)
(***************************************************************************)
EXTENDS CBusPort

VARIABLES tx,          \* the transaction in progress
          enable

vars == <<req, resp, store, tx, enable>>

(* AXITransaction, and the zeroes of its reset.                            *)
NoTx == [busy |-> FALSE, is_write |-> FALSE, aligned |-> FALSE, N |-> 0, addr |-> 0,
         Start_Address |-> 0, Burst_Length |-> 0, Aligned_Address |-> 0,
         Lower |-> 0, Upper |-> 0]

(* AXITransaction::init; Number_Bytes is BeatBytes.                        *)
TxInit(r) ==
  LET dtsize == BeatBytes * r.beats
      lower == (r.addr \div dtsize) * dtsize
  IN  [busy |-> TRUE, is_write |-> r.is_write, aligned |-> FALSE, N |-> 1,
       addr |-> r.addr, Start_Address |-> r.addr, Burst_Length |-> r.beats,
       Aligned_Address |-> (r.addr \div BeatBytes) * BeatBytes,
       Lower |-> lower, Upper |-> lower + dtsize]

(* Mutant: the wrap goes back to the start of the burst, not of the block. *)
TxSyncToStart(t) ==
  LET next == (IF t.aligned THEN t.addr ELSE t.Aligned_Address) + BeatBytes
  IN  [t EXCEPT !.N = @ + 1, !.aligned = TRUE,
                !.addr = IF next >= t.Upper THEN t.Aligned_Address ELSE next]

(* Mutant: the beats are not counted.                                      *)
TxSyncSameN(t) == [t EXCEPT !.aligned = TRUE, !.addr = t.Lower]

(* AXITransaction::sync and last.                                          *)
TxSync(t) ==
  LET next == (IF t.aligned THEN t.addr ELSE t.Aligned_Address) + BeatBytes
  IN  [t EXCEPT !.N = @ + 1, !.aligned = TRUE,
                !.addr = IF next >= t.Upper THEN t.Lower ELSE next]

(* Mutant: the last beat is not recognised, the one after it is.           *)
TxLastStrict(t) == t.N > t.Burst_Length
TxLast(t) == t.N = t.Burst_Length
-----------------------------------------------------------------------------
DeviceInit == PortInit /\ tx = NoTx /\ enable = TRUE

(* eval_resp, eval_req and sync of one cycle.                              *)
Quiet ==
  /\ ~enable \/ (~tx.busy /\ ~req.valid)
  /\ resp' = NoResponse
  /\ UNCHANGED <<tx, store>>

Start ==
  /\ enable /\ ~tx.busy /\ req.valid
  /\ resp' = NoResponse
  /\ tx' = TxInit(req)
  /\ UNCHANGED store

Transfer ==
  LET s == tx.addr \div BeatBytes IN
  /\ enable /\ tx.busy
  /\ resp' = [ready |-> TRUE, last |-> TxLast(tx),
              data |-> IF tx.is_write THEN NoData ELSE store[s]]
  /\ tx' = IF TxLast(tx) THEN NoTx ELSE TxSync(tx)
  /\ store' = IF tx.is_write THEN [store EXCEPT ![s] = req.data] ELSE store

(* The device decides at the clock edge whether it answers the next cycle. *)
Cycle == (Quiet \/ Start \/ Transfer) /\ enable' \in BOOLEAN /\ Hold

DeviceSpec == DeviceInit /\ [][Cycle]_vars /\ WF_vars(Cycle /\ enable')
-----------------------------------------------------------------------------
(* The assertions of eval_req (a request is its transaction's to the end,  *)
(* whatever bursts the master asks for), and that the address of a beat,   *)
(* which goes to the memory unchecked, stays in the block of its burst.    *)
SanityChecks ==
  tx.busy =>
    /\ req.valid /\ req.is_write = tx.is_write
    /\ req.addr = tx.Start_Address /\ req.beats = tx.Burst_Length
    /\ tx.addr >= tx.Lower /\ tx.addr < tx.Upper /\ tx.N <= tx.Burst_Length

(* A device is a cache bus: cbus_device.cpp answers a burst beat by beat   *)
(* with the words of its block, in wrapping order from an address that     *)
(* need not be aligned, whichever cycles it is disabled in.                *)
Bus == INSTANCE CBus WITH beat <- IF tx.busy THEN tx.N - 1 ELSE 0
ImplementsCBus == Bus!Spec

(* Every request comes to its last beat, since a disabled device is        *)
(* enabled again with positive probability at each clock edge; a request   *)
(* made in the cycle after a last beat is not taken for that beat's.       *)
Served ==
  /\ req.valid /\ ~resp.last ~> resp.last
  /\ req.valid /\ resp.last ~> ~resp.last
=============================================================================
