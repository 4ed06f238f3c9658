------------------------------- MODULE AXIBridge -------------------------------
(***************************************************************************)
(* util/CBusToAXI.sv between a master and an AXI slave, one clock cycle a  *)
(* step.  The slave is external: it takes addresses and write data when it *)
(* likes, in any order, answers a read or acknowledges a write some cycle  *)
(* after it has them, and has a write in its memory, store, when it        *)
(* acknowledges it and no sooner.                                          *)
(***************************************************************************)
EXTENDS CBusPort, Sequences

VARIABLES in_issue,    \* the channels of the transaction still to end
          saved_req, count,
          sread,       \* slave: the read taken, and the beats returned
          swrite, sw   \* slave: the write taken, and its data, in order

slaveVars == <<sread, swrite, sw>>
bridgeVars == <<req, resp, store, in_issue, saved_req, count, slaveVars>>

Channel == {"AR", "R", "AW", "W", "B"}

(* The address and length of a request, all that saved_req is used for.    *)
Where(r) == [addr |-> r.addr, beats |-> r.beats]
Nowhere == [addr |-> 0, beats |-> 0]
NoRead == [at |-> Nowhere, beats |-> 0]

BridgeInit ==
  /\ PortInit
  /\ in_issue = {} /\ saved_req = Where(req) /\ count = 0
  /\ sread = NoRead /\ swrite = Nowhere /\ sw = <<>>
-----------------------------------------------------------------------------
(* The wires of the bridge; handshake is the set of channels that have one.*)
is_last == count = 0
ended(handshake, rlast) ==
  {c \in handshake : (c = "R" => rlast) /\ (c = "W" => is_last)}
ready(handshake) == handshake \cap {"W", "R"} # {}
(* Mutant: the last beat of a write is not one.                            *)
last_of_read(handshake, rlast) ==
  ready(handshake) /\ ("R" \in in_issue /\ rlast) /\ is_last
last(handshake, rlast) ==
  ready(handshake) /\ ("R" \notin in_issue \/ rlast) /\ is_last

(* Mutant: a transaction does not wait for the acknowledgement of a write. *)
next_issue_no_b == IF req.is_write THEN {"AW", "W"} ELSE {"AR", "R"}
next_issue == IF req.is_write THEN {"AW", "W", "B"} ELSE {"AR", "R"}

(* Mutant: the address wires follow the master.                            *)
axaddr_live == Where(req)
axaddr == saved_req

(* Mutant: the count runs one beat behind.                                 *)
count_next_late(handshake, rlast) ==
  IF ready(handshake) /\ count > 1 THEN count - 1 ELSE count
count_next(handshake, rlast) ==
  IF ready(handshake) /\ ~last(handshake, rlast) THEN count - 1 ELSE count

(* A cycle with no transaction: take the master's request, if it has one.  *)
Take ==
  /\ in_issue = {}
  /\ in_issue' = IF req.valid THEN next_issue ELSE {}
  /\ saved_req' = Where(req) /\ count' = req.beats - 1
  /\ resp' = NoResponse
  /\ UNCHANGED <<store, slaveVars>>
-----------------------------------------------------------------------------
(* The slave, in a cycle with these handshakes.                            *)
SlaveMay(handshake) ==
  /\ "R" \in handshake => sread.at # Nowhere
  /\ "B" \in handshake => swrite # Nowhere /\ Len(sw) = swrite.beats

RLast == sread.beats + 1 = sread.at.beats
RData == store[SlotOf(sread.at, sread.beats)]

(* The memory s with the data of a write to r in it.                       *)
Written(s, r, data) ==
  [x \in Slot |-> LET at == {i \in DOMAIN data : SlotOf(r, i - 1) = x}
                  IN  IF at = {} THEN s[x] ELSE data[CHOOSE i \in at : TRUE]]

SlaveRead(handshake) ==
  sread' = IF "AR" \in handshake THEN [NoRead EXCEPT !.at = axaddr]
           ELSE IF "R" \notin handshake THEN sread
           ELSE IF RLast THEN NoRead ELSE [sread EXCEPT !.beats = @ + 1]

SlaveWrite(handshake) ==
  IF "B" \in handshake
  THEN store' = Written(store, swrite, sw) /\ swrite' = Nowhere /\ sw' = <<>>
  ELSE /\ swrite' = IF "AW" \in handshake THEN axaddr ELSE swrite
       /\ sw' = IF "W" \in handshake THEN Append(sw, req.data) ELSE sw
       /\ UNCHANGED store

(* A cycle of a transaction.                                               *)
Exchange(handshake) ==
  LET rlast == RLast IN
  /\ in_issue # {} /\ SlaveMay(handshake)
  /\ in_issue' = in_issue \ ended(handshake, rlast)
  /\ count' = count_next(handshake, rlast)
  /\ resp' = [ready |-> ready(handshake), last |-> last(handshake, rlast),
              data |-> IF "R" \in handshake THEN RData ELSE NoData]
  /\ SlaveRead(handshake) /\ SlaveWrite(handshake)
  /\ UNCHANGED saved_req

Shake(c) == \E h \in SUBSET in_issue : c \in h /\ Exchange(h) /\ Hold

BridgeNext == (Take \/ \E h \in SUBSET in_issue : Exchange(h)) /\ Hold

(* The slave answers on every channel in the end, and the clock ticks.     *)
BridgeSpec ==
  /\ BridgeInit /\ [][BridgeNext]_bridgeVars
  /\ WF_bridgeVars(Take /\ req.valid /\ Hold)
  /\ \A c \in Channel : WF_bridgeVars(Shake(c))
-----------------------------------------------------------------------------
(* What AXI asks of the master of a bus (arlen, awlen, wlast): the bridge  *)
(* sends no more data than the length it announces, and marks the last of  *)
(* it; and it starts nothing while a channel of the transaction is open.   *)
BurstsWellFormed ==
  /\ "W" \in in_issue => /\ Len(sw) < saved_req.beats
                         /\ is_last <=> Len(sw) + 1 = saved_req.beats
  /\ "R" \in in_issue => /\ sread.beats < saved_req.beats
                         /\ is_last <=> sread.beats + 1 = saved_req.beats
  /\ in_issue = {} => sread = NoRead /\ swrite = Nowhere /\ sw = <<>>

(* The bridge is a cache bus, of the slave's memory with the beats on      *)
(* their way to it: what the master is told is done at W, before the       *)
(* acknowledgement and perhaps before the address has gone, every later    *)
(* read returns.                                                           *)
Moving == in_issue \cap {"R", "W"} # {}
Front == INSTANCE CBus WITH
           beat <- IF Moving THEN saved_req.beats - 1 - count ELSE 0,
           store <- Written(store, saved_req, sw)
BridgeImplementsCBus == Front!Spec

(* Every request comes to its last beat, through a slave that answers; one *)
(* made while a write still waits for its acknowledgement is taken up.     *)
BridgeServes ==
  /\ req.valid /\ ~resp.last ~> resp.last
  /\ req.valid /\ resp.last ~> ~resp.last
=============================================================================
