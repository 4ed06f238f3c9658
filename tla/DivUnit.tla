------------------------------- MODULE DivUnit -------------------------------
(***************************************************************************)
(* exu/divide.sv as exu.sv sees it: the iterations are abstracted, the     *)
(* unit holds the result its working registers lead to.                    *)
(***************************************************************************)
EXTENDS LongOps

VARIABLE divu

Divider == [state : {"IDLE", "EXECUTE"}, Cn : 0 .. CN, early : BOOLEAN,
            div : Word, rem : Word,                   \* result to come
            data_ok : BOOLEAN, div_data : Word, rem_data : Word]

(* At the end of the power-up reset.                                       *)
DivInit ==
  divu = [state |-> "IDLE", Cn |-> 0, early |-> FALSE, div |-> Zero, rem |-> Zero,
          data_ok |-> FALSE, div_data |-> Zero, rem_data |-> Zero]

(* The IDLE branch clears the outputs and the working registers, and       *)
(* starts when div_valid, whatever the fetch is doing.                     *)
DivStart(i, x, y) ==
  [divu EXCEPT !.state = "EXECUTE", !.Cn = CN, !.early = Early(i, x, y),
               !.div = DivFn(i, x, y), !.rem = RemFn(i, x, y),
               !.data_ok = FALSE, !.div_data = Zero, !.rem_data = Zero]
DivRest ==
  [divu EXCEPT !.early = FALSE, !.div = Zero, !.rem = Zero,
               !.data_ok = FALSE, !.div_data = Zero, !.rem_data = Zero]
DivFinish ==
  [divu EXCEPT !.state = "IDLE", !.data_ok = TRUE,
               !.div_data = divu.div, !.rem_data = divu.rem]

(* Mutant: the step counter counts up.                                     *)
DivIterateUp == [divu EXCEPT !.Cn = @ + 1]

DivIterate == [divu EXCEPT !.Cn = @ - 1]

DivPosedge(i, x, y) ==
  \/ divu.state = "IDLE" /\ div(i)  /\ divu' = DivStart(i, x, y)
  \/ divu.state = "IDLE" /\ ~div(i) /\ divu' = DivRest
  \/ divu.state = "EXECUTE" /\ (divu.Cn = 0 \/ divu.early) /\ divu' = DivFinish
  \/ divu.state = "EXECUTE" /\ divu.Cn # 0 /\ ~divu.early /\ divu' = DivIterate

(* The asynchronous reset: outputs and working registers keep their values.*)
DivReset == divu' = [divu EXCEPT !.state = "IDLE"]
=============================================================================
