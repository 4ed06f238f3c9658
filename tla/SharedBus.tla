------------------------------- MODULE SharedBus -------------------------------
(***************************************************************************)
(* A cache bus device and those who use it: one master on its port, or     *)
(* NUM_INPUTS of them behind a CBusArbiter.                                *)
(***************************************************************************)
EXTENDS BurstDevice, CBusArbiter

CONSTANT PortRequests                \* [Inputs -> sets of requests]

ASSUME PortsAssumption == \A i \in Inputs : PortRequests[i] \subseteq Request

VARIABLES direct,      \* there is no arbiter
          ireqs, iresps

sharedVars == <<vars, arbiterVars, direct, ireqs, iresps>>

(* '0 on the wires of a request.                                           *)
NoReq == CHOOSE r \in Request : ~r.valid

Port(i) == INSTANCE CBus WITH
  req <- ireqs[i], resp <- iresps[i],
  beat <- IF Granted(i) /\ tx.busy THEN tx.N - 1 ELSE 0

SharedInit ==
  /\ DeviceInit /\ ArbiterInit
  /\ direct \in BOOLEAN /\ (direct \/ req = NoReq)
  /\ ireqs = [i \in Inputs |-> NoReq] /\ iresps = [i \in Inputs |-> NoResponse]

(* Mutant: the response goes to the request with the highest priority.     *)
FeedbackToFirst == [i \in Inputs |-> IF busy /\ Select(ireqs) = i THEN resp' ELSE NoResponse]
Feedback == [i \in Inputs |-> IF Granted(i) THEN resp' ELSE NoResponse]

Wishes == {f \in [Inputs -> UNION {PortRequests[i] : i \in Inputs} \cup {NoReq}] :
             \A i \in Inputs : f[i] \in PortRequests[i] \cup {NoReq}}

(* Mutant: the request of the index, owned or not (CBusArbiter.sv:31).     *)
OreqEarly(rqs, b, x) == rqs[x]
Oreq(rqs, b, x) == IF b THEN rqs[x] ELSE NoReq

(* The arbiter and its masters, in the cycle in which the device answers   *)
(* with resp'.                                                             *)
Arbitrate ==
  /\ iresps' = Feedback
  /\ ireqs' \in Wishes /\ \A i \in Inputs : Port(i)!Hold
  /\ ArbiterPosedge(FALSE, ireqs, resp'.last)
  /\ req' = Oreq(ireqs', busy', index')

SharedCycle ==
  /\ Quiet \/ Start \/ Transfer
  /\ enable' \in BOOLEAN
  /\ \/ direct /\ Hold /\ UNCHANGED <<arbiterVars, ireqs, iresps>>
     \/ ~direct /\ Arbitrate
  /\ UNCHANGED direct

(* The clock ticks, and the device is enabled again and again (as it is,   *)
(* with positive probability, at each clock edge).                         *)
SharedSpec ==
  SharedInit /\ [][SharedCycle]_sharedVars /\ WF_sharedVars(SharedCycle) /\ []<>enable
-----------------------------------------------------------------------------
(* Behind an arbiter the device still meets a single well-behaved master:  *)
(* no request is cut short, changed or mixed with another's.               *)
BusHasOneMaster == DeviceInit /\ [][Cycle]_vars

(* To each master its arbitrated port is a cache bus: it gets the beats of *)
(* its own request, in order, of the block it asked for, and nothing for   *)
(* another's; nothing is stored for nobody.                                *)
EachPortIsABus ==
  [][~direct =>
       /\ \A i \in Inputs : Port(i)!Beat \/ iresps'[i] = NoResponse
       /\ (\A i \in Inputs : iresps'[i] = NoResponse) => UNCHANGED store]_sharedVars

(* Priorities are fixed, so a request may wait for ever, but only behind   *)
(* requests of a higher priority that never stop coming.                   *)
OnlyHigherStarves ==
  \A i \in Inputs :
    \/ []<>(\E j \in Inputs : j < i /\ iresps[j].last)
    \/ ireqs[i].valid /\ ~iresps[i].last ~> iresps[i].last
=============================================================================
