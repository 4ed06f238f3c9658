------------------------------ MODULE MCSharedBus ------------------------------
(***************************************************************************)
(* A memory of four beats of two bytes.  The single master asks for bursts *)
(* of one, two and all four, from aligned and unaligned addresses; of the  *)
(* three behind the arbiter one writes, one wraps round the memory and one *)
(* does both of a shorter burst.                                           *)
(***************************************************************************)
EXTENDS SharedBus

MCRead(a, n) == {r \in Request : r.valid /\ ~r.is_write /\ r.addr = a /\ r.beats = n
                                 /\ r.data = NoReq.data}
MCWrite(a, n) == {r \in Request : r.valid /\ r.is_write /\ r.addr = a /\ r.beats = n}
MCPortRequests ==
  [i \in Inputs |-> CASE i = 0 -> MCWrite(4, 2)
                      [] i = 1 -> MCRead(6, 4)
                      [] i = 2 -> MCRead(1, 2) \cup MCWrite(6, 1)]
=============================================================================
