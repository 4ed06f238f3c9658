------------------------------ MODULE BlockMemory ------------------------------
(***************************************************************************)
(* class BlockMemory, behind CBusDevice: an array of words, loaded whole   *)
(* and stored under a mask, with the copy that reset goes back to.         *)
(***************************************************************************)
EXTENDS Lanes, SequencesExt

CONSTANTS Words,       \* how many: size() is 8 * Words
          Value        \* the words its clients store

ASSUME WordsAssumption == Words \in Nat \ {0}

VARIABLES mem, saved_mem

memVars == <<mem, saved_mem>>

Size == 8 * Words
Address == 0 .. Size - 1
Blank == [i \in 0 .. Words - 1 |-> ZeroWord]

(* BlockMemory(size, offset), with an offset of 0.                         *)
MemInit == mem = Blank /\ saved_mem = Blank

load(a) == mem[a \div 8]

store(a, data, mask) ==
  /\ mem' = [mem EXCEPT ![a \div 8] =
               [k \in Lane |-> IF k \in mask THEN data[k] ELSE @[k]]]
  /\ UNCHANGED saved_mem

reset == mem' = saved_mem /\ UNCHANGED saved_mem
-----------------------------------------------------------------------------
(* map() clears a byte with a mask of 32 bits, 0xffu shifted left: as      *)
(* word_t it has no lane above 3.  A shift by 32 or more is undefined; the *)
(* build takes it modulo 32, or yields 0.                                  *)
ShiftOfWidth == {"wraps", "vanishes"}
map_mask(lane, wide) ==
  {k \in 0 .. 3 : k # IF lane < 4 \/ wide = "vanishes" THEN lane ELSE lane - 4}

MapByte(m, at, b, wide) ==
  [m EXCEPT ![at \div 8] =
     [k \in Lane |-> IF k = at % 8 THEN b
                     ELSE IF k \in map_mask(at % 8, wide) THEN @[k] ELSE 0]]

map(m, a, image, wide) ==
  FoldLeftDomain(LAMBDA acc, i : MapByte(acc, a + i - 1, image[i], wide), m, image)

(* BlockMemory(size, data, offset).                                        *)
MemInitFrom(image, wide) ==
  mem = map(Blank, 0, image, wide) /\ saved_mem = map(Blank, 0, image, wide)
=============================================================================
