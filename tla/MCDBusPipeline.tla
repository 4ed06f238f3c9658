---------------------------- MODULE MCDBusPipeline ----------------------------
(* Two words to store that differ in every byte; accesses that are equal,  *)
(* nested, adjacent or apart.                                              *)
EXTENDS DBusPipeline

MCAccess == {<<8, 0>>, <<4, 4>>, <<2, 6>>, <<1, 6>>}
MCCellAccess == {<<8, 0>>}
MCValue == {[k \in Lane |-> 10 + k], [k \in Lane |-> 200 + k]}
=============================================================================
