------------------------------ MODULE MCSimTop -------------------------------
(* The core on the small machine, with every program its memory can hold.  *)
EXTENDS SimTopIsa, SimTopInv, MCMachine
=============================================================================
