------------------------------ MODULE MCMachine ------------------------------
(***************************************************************************)
(* A machine small enough for TLC: ten values, two registers beside x0,    *)
(* two memory locations of two instructions each.  A value is also an      *)
(* instruction, so that stores rewrite the program.  The datapath          *)
(* functions are arbitrary ones that keep their arguments apart.           *)
(***************************************************************************)
EXTENDS SimTop

MCWord == 0 .. 9
MCAddr == 0 .. 3
MCLoc == 0 .. 1
MCReg == 0 .. 2
MCLocOf(a) == a \div 2
MCAddrOf(w) == w % 4
(* An odd address selects the upper half, another instruction but for 0.   *)
MCHalf(a, w) == IF a % 2 = 0 \/ w = 0 THEN w ELSE (w % 9) + 1

OpTable == <<"alu", "load", "store", "div", "mul", "none", "alu", "rem", "load">>
MCOp(i) == IF i = 0 THEN "none" ELSE OpTable[i]
MCRd(i) == CASE i \in {1, 4, 7, 9} -> 1 [] i \in {2, 5, 8} -> 2 [] OTHER -> 0
MCRs1(i) == IF i = 0 THEN 0 ELSE i % 3
MCRs2(i) == IF i = 0 THEN 0 ELSE (i + 1) % 3
MCSizeOf(i) == CASE i = 9 -> [width |-> 1, unsigned |-> TRUE]
                 [] i = 2 -> [width |-> 4, unsigned |-> FALSE]
                 [] OTHER -> [width |-> 8, unsigned |-> FALSE]
(* 6 is a branch on equality, 7 a jump and link.                           *)
MCRedirect(i, v, w) == i = 7 \/ (i = 6 /\ v = w)

MCNextAddr(a) == (a + 1) % 4
MCTarget(i, v, a) == IF i = 7 THEN (v + 2) % 4 ELSE (a + 3) % 4
MCAluFn(i, v, w, a) == IF i = 7 THEN a + 1 ELSE (v + i) % 10
MCDivFn(i, v, w) == IF w = 0 THEN 9 ELSE v \div w
MCRemFn(i, v, w) == IF w = 0 THEN v ELSE v % w
MCMulFn(i, v, w) == (v * w + 1) % 10
MCEarly(i, v, w) == w = 0 \/ v < w
MCPlace(a, v) == (v + a) % 10
MCMerge(n, a, old, v) == IF n = 8 THEN v ELSE (old + v) % 10
MCExtract(s, a, w) == CASE s.width = 8 -> w
                        [] s.unsigned  -> (w + a) % 5
                        [] OTHER       -> 9 - (w % 5)
=============================================================================
