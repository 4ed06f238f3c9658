--------------------------------- MODULE Memu --------------------------------
(***************************************************************************)
(* memu/mem.sv: the request register of the data bus.  A strobe of zero    *)
(* marks a read; the strobe of a write follows from the width and the      *)
(* address, so the model keeps is_write in its place.                      *)
(***************************************************************************)
EXTENDS Machine

CONSTANT RawLoads    \* which driver of dmem_out the build keeps

ASSUME RawLoadsType == RawLoads \in BOOLEAN

VARIABLE dreq

DataRequest == [valid : BOOLEAN, addr : Addr, size : Width,
                is_write : BOOLEAN, data : Word]

MemuTypeOK == dreq \in DataRequest

MemuInit == dreq = [valid |-> FALSE, addr |-> AddrOf(Zero), size |-> 1,
                    is_write |-> FALSE, data |-> Zero]

(* mem.sv drives dmem_out twice: from a case on the size that extends the  *)
(* lanes of dreq.addr (24-35), and from the raw word (48).  Nothing orders *)
(* the two; a build keeps one of them.                                     *)
dmem_out(size, word) == IF RawLoads THEN word ELSE Extract(size, dreq.addr, word)

(* Mutant: a request stays up after its response.                          *)
MemuPosedgeSticky(DM_R, DM_W, addr, data, dreq_size, dresp_ok) ==
  \/ /\ DM_R
     /\ dreq' = [dreq EXCEPT !.valid = TRUE, !.addr = addr,
                             !.size = dreq_size.width, !.is_write = FALSE]
  \/ /\ ~DM_R /\ DM_W
     /\ dreq' = [valid |-> TRUE, addr |-> addr, size |-> dreq_size.width,
                 is_write |-> TRUE, data |-> Place(addr, data)]
  \/ ~DM_R /\ ~DM_W /\ UNCHANGED dreq

(* There is no reset.  A new request wins over the end of the last one.    *)
MemuPosedge(DM_R, DM_W, addr, data, dreq_size, dresp_ok) ==
  \/ /\ DM_R
     /\ dreq' = [dreq EXCEPT !.valid = TRUE, !.addr = addr,
                             !.size = dreq_size.width, !.is_write = FALSE]
  \/ /\ ~DM_R /\ DM_W
     /\ dreq' = [valid |-> TRUE, addr |-> addr, size |-> dreq_size.width,
                 is_write |-> TRUE, data |-> Place(addr, data)]
  \/ /\ ~DM_R /\ ~DM_W /\ dresp_ok
     /\ dreq' = [dreq EXCEPT !.valid = FALSE]
  \/ /\ ~DM_R /\ ~DM_W /\ ~dresp_ok
     /\ UNCHANGED dreq
=============================================================================
