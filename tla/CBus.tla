--------------------------------- MODULE CBus ---------------------------------
(***************************************************************************)
(* What the cache bus promises its master: in any cycle of a request the   *)
(* next beat or nothing, the beats in order, the last one marked.          *)
(* CBusToAXI.sv "serves as a spec for cache bus", and CBusDevice "should   *)
(* match" it (memory.h:87): both implement this module.                    *)
(***************************************************************************)
EXTENDS CBusPort

VARIABLE beat          \* beats of the request that are done

Init == PortInit /\ beat = 0

Pause == ~resp'.ready /\ ~resp'.last /\ UNCHANGED <<beat, store>>

Beat ==
  LET s == SlotOf(req, beat)
      last == beat + 1 = req.beats
  IN  /\ req.valid /\ resp'.ready /\ resp'.last = last
      /\ beat' = IF last THEN 0 ELSE beat + 1
      /\ IF req.is_write THEN store' = [store EXCEPT ![s] = req.data]
         ELSE resp'.data = store[s] /\ UNCHANGED store

Next == (Pause \/ Beat) /\ Hold

Spec == Init /\ [][Next]_<<req, resp, beat, store>>
=============================================================================
