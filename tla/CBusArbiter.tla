----------------------------- MODULE CBusArbiter -----------------------------
(***************************************************************************)
(* util/CBusArbiter.sv: one cache bus for NUM_INPUTS masters.  ireqs is a  *)
(* function of the inputs, a record of the fields of cbus_req_t each.      *)
(***************************************************************************)
EXTENDS Naturals

CONSTANT NUM_INPUTS

ASSUME NumInputs == NUM_INPUTS \in Nat \ {0}

VARIABLES busy,    \* a transaction is on the bus
          index    \* of this input

arbiterVars == <<busy, index>>

Inputs == 0 .. NUM_INPUTS - 1

ArbiterTypeOK == busy \in BOOLEAN /\ index \in Inputs

ArbiterInit == busy = FALSE /\ index = 0

(* Mutant: the search does not stop at the first valid input.              *)
SelectLast(ireqs) ==
  IF \E i \in Inputs : ireqs[i].valid
  THEN CHOOSE i \in Inputs : /\ ireqs[i].valid
                             /\ \A j \in Inputs : ireqs[j].valid => j <= i
  ELSE 0

(* The lowest valid input, or 0 when there is none.                        *)
Select(ireqs) ==
  IF \E i \in Inputs : ireqs[i].valid
  THEN CHOOSE i \in Inputs : /\ ireqs[i].valid
                             /\ \A j \in Inputs : ireqs[j].valid => i <= j
  ELSE 0

(* oreq is the request of the owner, and nothing while there is no owner.  *)
Granted(i) == busy /\ index = i

ArbiterReset == busy' = FALSE /\ index' = 0

(* Mutant: the transaction is let go of before its last response.          *)
ArbiterPosedgeNoLast(rst, ireqs, last) ==
  \/ rst /\ ArbiterReset
  \/ ~rst /\ busy /\ busy' = FALSE /\ UNCHANGED index
  \/ /\ ~rst /\ ~busy
     /\ busy' = ireqs[Select(ireqs)].valid
     /\ index' = Select(ireqs)

(* The reset is synchronous.  A transaction ends with its last response;   *)
(* a request is taken up in the cycle after that at the earliest.          *)
ArbiterPosedge(rst, ireqs, last) ==
  \/ rst /\ ArbiterReset
  \/ ~rst /\ busy /\ last /\ busy' = FALSE /\ UNCHANGED index
  \/ ~rst /\ busy /\ ~last /\ UNCHANGED arbiterVars
  \/ /\ ~rst /\ ~busy
     /\ busy' = ireqs[Select(ireqs)].valid
     /\ index' = Select(ireqs)
=============================================================================
