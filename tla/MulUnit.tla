------------------------------- MODULE MulUnit -------------------------------
(* exu/multiply.sv as exu.sv sees it; there is no early way out.           *)
EXTENDS LongOps

VARIABLE mulu

Multiplier == [state : {"IDLE", "EXECUTE"}, Cn : 0 .. CN, product : Word,
               data_ok : BOOLEAN, data : Word]

MulInit == mulu = [state |-> "IDLE", Cn |-> 0, product |-> Zero,
                   data_ok |-> FALSE, data |-> Zero]

MulPosedge(i, x, y) ==
  \/ /\ mulu.state = "IDLE" /\ mul(i)
     /\ mulu' = [state |-> "EXECUTE", Cn |-> CN, product |-> MulFn(i, x, y),
                 data_ok |-> FALSE, data |-> Zero]
  \/ /\ mulu.state = "IDLE" /\ ~mul(i)
     /\ mulu' = [mulu EXCEPT !.data_ok = FALSE, !.data = Zero]
  \/ /\ mulu.state = "EXECUTE" /\ mulu.Cn = 0
     /\ mulu' = [mulu EXCEPT !.state = "IDLE", !.data_ok = TRUE, !.data = mulu.product]
  \/ /\ mulu.state = "EXECUTE" /\ mulu.Cn # 0
     /\ mulu' = [mulu EXCEPT !.Cn = @ - 1]

MulReset == mulu' = [mulu EXCEPT !.state = "IDLE"]
=============================================================================
