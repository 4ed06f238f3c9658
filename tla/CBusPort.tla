-------------------------------- MODULE CBusPort -------------------------------
(***************************************************************************)
(* A port of the cache bus and its master, one clock cycle a step.  A      *)
(* request stays up, unchanged but for the data of a write, until its last *)
(* beat; beat i of a burst is the i-th word of the block around the        *)
(* address, wrapping at its end (AXI_BURST_WRAP).                          *)
(***************************************************************************)
EXTENDS Naturals

CONSTANTS BeatBytes,   \* bytes of a beat
          Beats,       \* lengths of bursts, in beats
          AddrTop,     \* the memory ends below it
          Addrs,       \* addresses asked for
          Data, NoData

ASSUME BusAssumption ==
  /\ BeatBytes \in Nat \ {0} /\ Beats \subseteq Nat \ {0}
  /\ AddrTop \in Nat /\ \A n \in Beats : AddrTop % (n * BeatBytes) = 0
  /\ Addrs \subseteq 0 .. AddrTop - 1
  /\ NoData \notin Data

VARIABLES req,         \* the master's side
          resp,        \* the response of the cycle that has just ended
          store        \* [Slot -> Data]: the memory behind the port

Slot == 0 .. AddrTop \div BeatBytes - 1
Request == [valid : BOOLEAN, is_write : BOOLEAN, addr : Addrs, beats : Beats, data : Data]
NoResponse == [ready |-> FALSE, last |-> FALSE, data |-> NoData]

(* The slot of beat i, from 0.                                             *)
SlotOf(r, i) ==
  LET first == r.addr \div BeatBytes
      block == (first \div r.beats) * r.beats
  IN  block + ((first - block + i) % r.beats)

(* The master: after the last beat it may ask again at once.               *)
Ask == req' \in Request
Hold ==
  IF ~req.valid THEN UNCHANGED req \/ Ask
  ELSE IF resp'.last THEN Ask
  ELSE IF resp'.ready THEN \E d \in Data : req' = [req EXCEPT !.data = d]
  ELSE UNCHANGED req

PortInit ==
  /\ req \in Request /\ ~req.valid
  /\ resp = NoResponse
  /\ store \in [Slot -> Data]
=============================================================================
