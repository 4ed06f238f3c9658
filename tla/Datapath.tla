------------------------------- MODULE Datapath -------------------------------
(***************************************************************************)
(* The parts of the core that compute, side by side: of the divider, the   *)
(* multiplier and the memory lanes, one is at work in a behaviour and the  *)
(* others rest.                                                            *)
(***************************************************************************)
EXTENDS Divide, Multiply, MemLanes

VARIABLE part                        \* the one at work

unitVars == <<vars, multiplyVars>>
partsVars == <<part, unitVars, lanesVars>>

Part == {"divide", "multiply", "lanes"}

PartsInit == part \in Part /\ Init /\ MultiplyInit /\ LanesInit

PartsNext ==
  /\ UNCHANGED part
  /\ \/ part = "divide" /\ Next /\ UNCHANGED <<multiplyVars, lanesVars>>
     \/ part = "multiply" /\ MultiplyNext /\ UNCHANGED <<vars, lanesVars>>
     \/ part = "lanes" /\ LanesNext /\ UNCHANGED unitVars

PartsSpec == PartsInit /\ [][PartsNext]_partsVars

(* The lanes alone, on a memory made from an image.                        *)
ImageInit == part = "lanes" /\ Init /\ MultiplyInit /\ InitFromImage
ImageSpec == ImageInit /\ [][PartsNext]_partsVars
-----------------------------------------------------------------------------
(* No register of the two units (divide.sv, multiply.sv) takes a value of  *)
(* more bits than it has, or a step counter one it does not start from.    *)
UnitsTypeOK == TypeOK /\ MulTypeOK

(* What the partial results of divide.sv and multiply.sv mean after every  *)
(* step.                                                                   *)
LoopInvariants == LoopInvariant /\ MulLoopInvariant
-----------------------------------------------------------------------------
(* Values for TLC: two words to store whose bytes all differ and have both *)
(* signs, and images of half a word and of one.                            *)
MCValue == {[k \in Lane |-> IF k % 2 = 0 THEN 200 + k ELSE 10 + k],
            [k \in Lane |-> IF k % 2 = 0 THEN 20 + k ELSE 210 + k]}
MCImage == {[i \in 1 .. n |-> 100 + i] : n \in {4, 8}}
=============================================================================
