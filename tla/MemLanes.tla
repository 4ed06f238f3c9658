------------------------------- MODULE MemLanes -------------------------------
(***************************************************************************)
(* The core's loads and stores (mem.sv) and the test bench's (LoadOp) on   *)
(* one BlockMemory behind the bus device, an access to a step: what        *)
(* SimTop's Place, Merge and Extract stand for.                            *)
(***************************************************************************)
EXTENDS BlockMemory

CONSTANTS Image,        \* the memory images loaded before a run
          MaxStores

VARIABLES loaded,       \* the word the last load left in its register
          stores,       \* how many stores there were, at most MaxStores
          image         \* the image the memory was made from

lanesVars == <<memVars, loaded, stores, image>>

LanesInit == MemInit /\ loaded = ZeroWord /\ stores = 0 /\ image = <<>>

(* ProgramRunner: the memory is made from the file's bytes.                *)
InitFromImage ==
  /\ image \in Image /\ \E wide \in ShiftOfWidth : MemInitFrom(image, wide)
  /\ loaded = ZeroWord /\ stores = 0

CountStore == stores < MaxStores /\ stores' = stores + 1

CoreStore(n, a, v) ==
  /\ Aligned(n, a) /\ CountStore
  /\ store(a, data_t(a, v), device_mask(strobe(n, a)))
  /\ UNCHANGED <<loaded, image>>
CoreLoad(n, signed, a) ==
  /\ Aligned(n, a)
  /\ loaded' = dmem_out(n, signed, a, load(a))
  /\ UNCHANGED <<memVars, stores, image>>

BenchStore(n, a, v) ==
  /\ Aligned(n, a) /\ CountStore
  /\ store(a, place(parse(n, a), v), device_mask(OpStrobe(parse(n, a))))
  /\ UNCHANGED <<loaded, image>>
BenchLoad(n, a) ==
  /\ Aligned(n, a)
  /\ loaded' = applyTo(parse(n, a), load(a), ZeroWord)
  /\ UNCHANGED <<memVars, stores, image>>

LanesReset == reset /\ UNCHANGED <<loaded, stores, image>>

LanesNext ==
  \/ \E n \in Width, a \in Address :
       \/ \E v \in Value : CoreStore(n, a, v) \/ BenchStore(n, a, v)
       \/ \E signed \in BOOLEAN : CoreLoad(n, signed, a)
       \/ BenchLoad(n, a)
  \/ LanesReset

LanesSpec == LanesInit /\ [][LanesNext]_lanesVars
-----------------------------------------------------------------------------
(* The memory is a memory of bytes to both clients, each of which sees     *)
(* what the other wrote, for every width, address and sign; a reset gives  *)
(* back the bytes of the start.                                            *)
bytesBar == [b \in Address |-> mem[b \div 8][b % 8]]

Bytes == INSTANCE ByteMemory WITH bytes <- bytesBar

ImplementsByteMemory ==
  [][\/ \E n \in Width, a \in Address :
          /\ Aligned(n, a)
          /\ \/ \E v \in Value : Bytes!Store(n, a, v)
             \/ \E signed \in BOOLEAN : Bytes!Load(n, signed, a)
     \/ bytesBar' = [b \in Address |-> 0] /\ UNCHANGED loaded]_<<bytesBar, loaded>>

(* A memory made from an image holds it ("File path of memory              *)
(* initialization file.", runner.h:71) until the first store.              *)
ImageIsLoaded ==
  stores = 0 => \A i \in DOMAIN image : bytesBar[i - 1] = image[i]
=============================================================================
