--------------------------- MODULE RunParallelProofs ---------------------------
(***************************************************************************)
(* For any number of workers and tests, whatever the tests do: each test   *)
(* is run once, commands go to workers that await them, and the count that *)
(* run_parallel returns is true.                                           *)
(***************************************************************************)
EXTENDS RunParallel, FiniteSetTheorems, TLAPS

Command == 0 .. Total + 1

TypeOK ==
  /\ pc \in {"spawn", "select", "scan", "reap", "returned", "dead"}
  /\ pids \in 0 .. N /\ dispatched \in 0 .. Total /\ passed \in Nat /\ reaped \in 0 .. N
  /\ failed \in BOOLEAN
  /\ ready \subseteq Workers /\ listening \subseteq Workers /\ first \subseteq Workers
  /\ wpc \in [Workers -> {"none", "ask", "wait", "run", "exit", "gone"}]
  /\ task \in [Workers -> Tests \cup {Empty}]
  /\ req \in [Workers -> BOOLEAN]
  /\ resp \in [Workers -> Command]
  /\ finished \subseteq Tests
  /\ \A j \in Workers : wpc[j] = "run" => task[j] \in Tests

Active == pc \in {"spawn", "select", "scan"}

(* While the master serves, a pipe holds a request or a command only for a *)
(* worker that waits.                                                      *)
Attended ==
  Active => \A j \in Workers : /\ resp[j] # Empty => wpc[j] = "wait" /\ ~req[j]
                               /\ req[j] => wpc[j] = "wait"

(* What the program counter of the master says of its loops.               *)
Loops ==
  /\ pc = "spawn" => pids < N
  /\ pc \notin {"spawn", "dead"} => pids = N
  /\ \A j \in Workers : wpc[j] = "none" <=> j >= pids
  /\ \A j \in listening : j < pids
  /\ \A j \in Workers : j >= pids => j \in first
  /\ listening # 0 .. pids - 1 => dispatched = Total
  /\ pc \in {"reap", "returned"} /\ ~failed => listening = {}
  /\ pc = "scan" => ready \subseteq listening

(* Only tests that have been dispatched are about.                         *)
BelowDispatched ==
  /\ finished \subseteq 0 .. dispatched - 1
  /\ \A j \in Workers : \A t \in Tests : t \in Held(j) => t < dispatched

(* A worker between two tests, or with the next one in its pipe, has       *)
(* finished the one before.                                                *)
Between ==
  \A j \in Workers :
    (wpc[j] \notin {"run", "gone"} \/ resp[j] # Empty) /\ task[j] \in Tests
      => task[j] \in finished

(* Workers that have been given a test and not been heard since.           *)
Owing == listening \ first

Counted == passed + Cardinality(Owing) = dispatched

(* No dispatched test is lost: it is finished, or with a worker that owes. *)
Covered ==
  \A t \in 0 .. dispatched - 1 :
    t \in finished \/ \E j \in Owing : t = resp[j] \/ t = task[j]

IInv ==
  /\ TypeOK /\ Attended /\ Loops /\ RunsOnce /\ BelowDispatched /\ Between
  /\ Counted /\ Covered
-----------------------------------------------------------------------------
(* The commands: tests, the exit, and none are different.                  *)
LEMMA Numbers ==
  /\ N \in Nat \ {0} /\ Total \in Nat
  /\ Exit \in Command /\ Empty \in Command /\ Tests \subseteq Command
  /\ Exit \notin Tests /\ Empty \notin Tests /\ Exit # Empty
BY PoolAssumption DEF Command, Exit, Empty, Tests

(* Tests that were below a number are below every later one.               *)
LEMMA BelowGrows ==
  ASSUME NEW a \in Nat, NEW b \in Nat, a <= b
  PROVE  0 .. a - 1 \subseteq 0 .. b - 1
OBVIOUS

(* The sets that are counted are finite.                                   *)
LEMMA FiniteSets ==
  ASSUME TypeOK
  PROVE  IsFiniteSet(Owing) /\ IsFiniteSet(finished) /\ IsFiniteSet(Tests)
<1>1. IsFiniteSet(Workers) /\ IsFiniteSet(Tests)
  BY FS_Interval, Numbers DEF Workers, Tests
<1> QED
  BY <1>1, FS_Subset DEF TypeOK, Owing

(* Before the first fork.                                                  *)
LEMMA InitInv == Init => IInv
<1> SUFFICES ASSUME Init PROVE IInv
  OBVIOUS
<1> USE Numbers DEF Init
<1>1. TypeOK
  <2>1. 0 \in 0 .. N /\ 0 \in 0 .. Total /\ Empty \in Tests \cup {Empty}
    OBVIOUS
  <2> QED
    BY <2>1 DEF TypeOK
<1>2. Attended
  BY DEF Attended
<1>3. Loops
  BY DEF Loops, Workers
<1>4. \A j \in Workers : Held(j) \cap Tests = {}
  BY DEF Held
<1>5. RunsOnce /\ BelowDispatched
  BY <1>4 DEF RunsOnce, BelowDispatched
<1>6. Between
  BY DEF Between
<1>7. Owing = {}
  BY DEF Owing
<1>8. Counted
  BY <1>7, FS_EmptySet DEF Counted
<1>9. Covered
  BY DEF Covered
<1> QED
  BY <1>1, <1>2, <1>3, <1>5, <1>6, <1>8, <1>9 DEF IInv

(* A fork: the child has the pipes made so far.                            *)
LEMMA SpawnKeeps ==
  ASSUME IInv, Spawn
  PROVE  IInv'
<1> USE Numbers DEF IInv, Spawn, pipes, masterVars, workerVars
<1>0. pids \in Workers /\ pids < N /\ pids \in 0 .. N /\ wpc[pids] = "none"
  BY DEF TypeOK, Loops, Workers
<1>1. TypeOK'
  <2>1. wpc' \in [Workers -> {"none", "ask", "wait", "run", "exit", "gone"}]
    BY <1>0 DEF TypeOK
  <2>2. \A j \in Workers : wpc'[j] = "run" => task'[j] \in Tests
    BY <1>0 DEF TypeOK
  <2>3. pids' \in 0 .. N /\ listening' \subseteq Workers
    BY <1>0 DEF TypeOK, Workers
  <2> QED
    BY <2>1, <2>2, <2>3 DEF TypeOK
<1>2. Attended'
  BY <1>0 DEF TypeOK, Attended, Active
<1>3. Loops'
  <2>1. \A j \in Workers : wpc'[j] = "none" <=> j >= pids'
    BY <1>0 DEF TypeOK, Loops, Workers
  <2>2. \A j \in listening' : j < pids'
    BY <1>0 DEF Loops, TypeOK, Workers
  <2>3. listening' # 0 .. pids' - 1 => dispatched' = Total
    <3>1. CASE listening = 0 .. pids - 1
      BY <3>1, <1>0
    <3>2. CASE listening # 0 .. pids - 1
      BY <3>2 DEF Loops
    <3> QED
      BY <3>1, <3>2
  <2>4. pc' = "spawn" => pids' < N
    BY <1>0
  <2>5. pc' \notin {"spawn", "dead"} => pids' = N
    BY <1>0
  <2>6. \A j \in Workers : j >= pids' => j \in first'
    BY <1>0 DEF Loops, Workers
  <2> QED
    BY <2>1, <2>2, <2>3, <2>4, <2>5, <2>6 DEF Loops
<1>4. \A j \in Workers : Held(j)' = Held(j)
  BY <1>0 DEF Held, TypeOK
<1>5. RunsOnce' /\ BelowDispatched'
  BY <1>0, <1>4 DEF RunsOnce, BelowDispatched, TypeOK
<1>6. Between'
  <2>1. task[pids] \in Tests => task[pids] \in finished
    BY <1>0 DEF Between
  <2> QED
    BY <2>1, <1>0 DEF Between, TypeOK
<1>7. Owing' = Owing
  BY <1>0 DEF Owing, Loops
<1>8. Counted' /\ Covered'
  BY <1>7 DEF Counted, Covered
<1> QED
  BY <1>1, <1>2, <1>3, <1>5, <1>6, <1>8

(* Steps of the master that touch no test.                                 *)
LEMMA ControlKeeps ==
  ASSUME IInv, SpawnFails \/ Select \/ Reap \/ Return
  PROVE  IInv'
<1> USE Numbers DEF IInv, pipes, masterVars, workerVars
<1>0. /\ UNCHANGED <<pids, listening, first, dispatched, passed, failed, task, pipes,
                      fate, finished>>
      /\ wpc' = wpc \/ (pc = "reap" /\ reaped < N /\ wpc' = [wpc EXCEPT ![reaped] = "gone"])
  BY DEF SpawnFails, Select, Reap, Return
<1>1. \A j \in Workers : wpc'[j] = wpc[j] \/ (pc = "reap" /\ pc' = "reap" /\ wpc'[j] = "gone")
  BY <1>0 DEF TypeOK, SpawnFails, Select, Reap, Return
<1>2. TypeOK'
  <2>1. wpc' \in [Workers -> {"none", "ask", "wait", "run", "exit", "gone"}]
    BY <1>0 DEF TypeOK
  <2>2. ready' \subseteq Workers
    BY DEF TypeOK, SpawnFails, Select, Reap, Return, Readable
  <2>3. reaped' \in 0 .. N
    BY DEF TypeOK, SpawnFails, Select, Reap, Return
  <2>4. pc' \in {"spawn", "select", "scan", "reap", "returned", "dead"}
    BY DEF TypeOK, SpawnFails, Select, Reap, Return
  <2>5. \A j \in Workers : wpc'[j] = "run" => wpc[j] = "run"
    BY <1>1
  <2> QED
    BY <1>0, <2>1, <2>2, <2>3, <2>4, <2>5 DEF TypeOK
<1>3. Attended'
  <2>1. Active' => Active
    BY DEF SpawnFails, Select, Reap, Return, Active
  <2> QED
    BY <1>0, <1>1, <2>1 DEF Attended, Active
<1>4. Loops'
  <2>1. \A j \in Workers : wpc'[j] = "none" <=> wpc[j] = "none"
    BY <1>1, <1>0 DEF Loops, TypeOK, Workers
  <2>2. pc' = "spawn" => pc = "spawn"
    BY DEF SpawnFails, Select, Reap, Return
  <2>3. pc' \notin {"spawn", "dead"} => pc \notin {"spawn", "dead"}
    BY DEF SpawnFails, Select, Reap, Return
  <2>4. pc' \in {"reap", "returned"} /\ ~failed => listening = {}
    BY DEF SpawnFails, Select, Reap, Return, Loops
  <2>5. pc' = "scan" => ready' \subseteq listening
    BY DEF SpawnFails, Select, Reap, Return, Readable
  <2> QED
    BY <1>0, <2>1, <2>2, <2>3, <2>4, <2>5 DEF Loops
<1>5. \A j \in Workers : Held(j)' \subseteq Held(j) /\ (wpc'[j] = "run" => wpc[j] = "run")
  BY <1>0, <1>1 DEF Held
<1>6. RunsOnce' /\ BelowDispatched'
  BY <1>0, <1>5 DEF RunsOnce, BelowDispatched
<1>7. Between'
  BY <1>0, <1>1 DEF Between
<1>8. Counted' /\ Covered'
  BY <1>0 DEF Counted, Covered, Owing
<1> QED
  BY <1>2, <1>3, <1>4, <1>6, <1>7, <1>8

(* What a worker that has asked has to do with tests.                      *)
LEMMA Asker ==
  ASSUME IInv, pc = "scan", NEW j \in Workers, req[j]
  PROVE  wpc[j] = "wait" /\ resp[j] = Empty /\ (task[j] \in Tests => task[j] \in finished)
BY DEF IInv, Attended, Active, Between

(* The count keeps up: the worker heard owes nothing any more, and owes    *)
(* again if it is given another test.                                      *)
LEMMA HearsCounts ==
  ASSUME IInv, pc = "scan", NEW j \in listening, req[j], Heard(j), Answer(j)
  PROVE  Counted'
<1> USE Numbers DEF IInv, Heard, Answer
<1>0. IsFiniteSet(Owing) /\ Cardinality(Owing) \in Nat
  BY FiniteSets, FS_CardinalityType
<1>1. passed \in Nat /\ dispatched \in Nat /\ passed + Cardinality(Owing) = dispatched
  BY DEF TypeOK, Counted
<1>2. CASE j \in first /\ dispatched < Total
  <2>1. Owing' = Owing \cup {j} /\ j \notin Owing
    BY <1>2 DEF Owing
  <2>2. Cardinality(Owing') = Cardinality(Owing) + 1
    BY <2>1, <1>0, FS_AddElement
  <2> QED
    BY <1>0, <1>1, <1>2, <2>2 DEF Counted
<1>3. CASE j \in first /\ dispatched = Total
  <2>1. Owing' = Owing
    BY <1>3 DEF Owing
  <2> QED
    BY <1>1, <1>3, <2>1 DEF Counted
<1>4. CASE j \notin first /\ dispatched < Total
  <2>1. Owing' = Owing
    BY <1>4 DEF Owing
  <2> QED
    BY <1>0, <1>1, <1>4, <2>1 DEF Counted
<1>5. CASE j \notin first /\ dispatched = Total
  <2>1. Owing' = Owing \ {j} /\ j \in Owing
    BY <1>5 DEF Owing
  <2>2. Cardinality(Owing') = Cardinality(Owing) - 1
    BY <2>1, <1>0, FS_RemoveElement
  <2> QED
    BY <1>0, <1>1, <1>5, <2>2 DEF Counted
<1>6. dispatched < Total \/ dispatched = Total
  BY DEF TypeOK
<1> QED
  BY <1>2, <1>3, <1>4, <1>5, <1>6

(* A request is read, and answered with a test or the exit.                *)
LEMMA HearsKeeps ==
  ASSUME IInv, pc = "scan", NEW j \in ready, Hears(j), ready' = ready \ {j},
         UNCHANGED <<pids, reaped, workerVars, fate, finished>>
  PROVE  IInv'
<1> USE Numbers DEF Hears, workerVars
<1>0. /\ j \in Workers /\ j \in listening
      /\ dispatched \in 0 .. Total
      /\ resp \in [Workers -> Command] /\ req \in [Workers -> BOOLEAN]
  BY DEF IInv, TypeOK, Loops
<1>1. wpc[j] = "wait" /\ resp[j] = Empty /\ (task[j] \in Tests => task[j] \in finished)
  BY <1>0, Asker
<1>2. \/ /\ dispatched \in Tests /\ dispatched' = dispatched + 1
         /\ resp' = [resp EXCEPT ![j] = dispatched] /\ listening' = listening
      \/ /\ dispatched = Total /\ dispatched' = dispatched
         /\ resp' = [resp EXCEPT ![j] = Exit] /\ listening' = listening \ {j}
  BY <1>0 DEF Answer, Tests
<1>3. /\ resp'[j] = IF dispatched \in Tests THEN dispatched ELSE Exit
      /\ \A i \in Workers \ {j} : resp'[i] = resp[i]
      /\ resp' \in [Workers -> Command]
  BY <1>0, <1>2 DEF Tests, Command
<1>4. ~req'[j] /\ req' \in [Workers -> BOOLEAN] /\ \A i \in Workers \ {j} : req'[i] = req[i]
  BY <1>0
<1>5. dispatched' \in 0 .. Total /\ dispatched' >= dispatched
  BY <1>0, <1>2 DEF Tests
<1>6. passed \in Nat /\ passed' \in Nat /\ first' = first \ {j}
  BY DEF IInv, TypeOK, Heard
<1>7. TypeOK'
  BY <1>2, <1>3, <1>4, <1>5, <1>6 DEF IInv, TypeOK
<1>8. Attended'
  BY <1>0, <1>1, <1>3, <1>4 DEF IInv, Attended, Active
<1>9. Loops'
  <2>1. listening' # 0 .. pids' - 1 => dispatched' = Total
    <3>1. dispatched \in Tests => dispatched # Total /\ listening = 0 .. pids - 1
      BY DEF IInv, Loops, Tests
    <3> QED
      BY <1>2, <3>1
  <2>2. listening' \subseteq listening
    BY <1>2
  <2>3. j < pids /\ \A i \in Workers : i >= pids => i \in first'
    BY <1>0, <1>6 DEF IInv, Loops, Workers, TypeOK
  <2>4. pc' = "scan" /\ ready' \subseteq listening'
    BY <1>2 DEF IInv, Loops
  <2> QED
    BY <2>1, <2>2, <2>3, <2>4 DEF IInv, Loops
<1>10. /\ \A i \in Workers : i # j => Held(i)' = Held(i)
       /\ Held(j)' \cap Tests \subseteq {dispatched}
  BY <1>1, <1>3 DEF Held
<1>11. \A i \in Workers : \A t \in Tests : t \in Held(i) => t # dispatched
  BY <1>0 DEF IInv, BelowDispatched, Tests
<1>12. dispatched \notin finished
  BY <1>0 DEF IInv, BelowDispatched
<1>13. RunsOnce'
  BY <1>1, <1>3, <1>10, <1>11, <1>12 DEF IInv, RunsOnce
<1>14. BelowDispatched'
  <2>1. finished' \subseteq 0 .. dispatched' - 1
    <3>1. 0 .. dispatched - 1 \subseteq 0 .. dispatched' - 1
      <4>1. dispatched \in Nat /\ dispatched' \in Nat /\ dispatched <= dispatched'
        BY <1>0, <1>5
      <4> QED
        BY <4>1, BelowGrows
    <3>2. finished \subseteq 0 .. dispatched - 1
      BY DEF IInv, BelowDispatched
    <3> QED
      BY <3>1, <3>2
  <2>2. ASSUME NEW i \in Workers, NEW t \in Tests, t \in Held(i)'
        PROVE  t < dispatched'
    <3>1. CASE i = j
      BY <2>2, <3>1, <1>2, <1>3, <1>0, <1>1 DEF Held, Tests
    <3>2. CASE i # j
      BY <2>2, <3>2, <1>10, <1>0, <1>5 DEF IInv, BelowDispatched, Tests
    <3> QED
      BY <3>1, <3>2
  <2> QED
    BY <2>1, <2>2 DEF BelowDispatched
<1>15. Between'
  BY <1>1, <1>3 DEF IInv, Between
<1>16. Counted'
  BY <1>0, HearsCounts
<1>17. Covered'
  <2> SUFFICES ASSUME NEW t \in 0 .. dispatched' - 1
               PROVE  t \in finished \/ \E i \in Owing' : t = resp'[i] \/ t = task[i]
    BY DEF Covered
  <2>1. CASE dispatched \in Tests /\ t = dispatched
    <3>1. j \in Owing'
      BY <1>0, <1>2, <1>6, <2>1 DEF Owing, Tests
    <3> QED
      BY <3>1, <2>1, <1>3
  <2>2. CASE t \in 0 .. dispatched - 1
    <3>1. t \in Tests
      BY <2>2, <1>0 DEF Tests
    <3>2. t \in finished \/ \E i \in Owing : t = resp[i] \/ t = task[i]
      BY <2>2 DEF IInv, Covered
    <3>3. \A i \in Owing : i # j => i \in Owing' /\ i \in Workers
      BY <1>2, <1>6 DEF Owing, IInv, TypeOK
    <3> QED
      BY <3>1, <3>2, <3>3, <1>1, <1>3
  <2> QED
    BY <2>1, <2>2, <1>0, <1>2 DEF Tests
<1> QED
  BY <1>7, <1>8, <1>9, <1>13, <1>14, <1>15, <1>16, <1>17 DEF IInv

(* A scan of the pipes that are ready.                                     *)
LEMMA ScanKeeps ==
  ASSUME IInv, Scan
  PROVE  IInv'
<1> USE DEF Scan
<1>1. CASE ready = {} /\ pc' = "select" /\ UNCHANGED <<ready, listening, first, dispatched,
                                                       passed, failed, pipes>>
  <2> USE <1>1 DEF workerVars, pipes
  <2>1. TypeOK' /\ Attended' /\ Loops'
    BY DEF IInv, TypeOK, Attended, Active, Loops
  <2>2. \A i \in Workers : Held(i)' = Held(i)
    BY DEF Held
  <2>3. RunsOnce' /\ BelowDispatched' /\ Between'
    BY <2>2 DEF IInv, RunsOnce, BelowDispatched, Between
  <2>4. Counted' /\ Covered'
    BY DEF IInv, Counted, Covered, Owing
  <2> QED
    BY <2>1, <2>3, <2>4 DEF IInv
<1>2. ASSUME NEW j \in ready, ready' = ready \ {j}, Hears(j)
      PROVE  IInv'
  BY <1>2, HearsKeeps
<1>3. ASSUME NEW j \in ready, ready' = ready \ {j}, HearsEnd(j)
      PROVE  IInv'
  <2> USE <1>3 DEF HearsEnd, workerVars, pipes
  <2>1. TypeOK' /\ Attended' /\ Loops'
    BY DEF IInv, TypeOK, Attended, Active, Loops
  <2>2. \A i \in Workers : Held(i)' = Held(i)
    BY DEF Held
  <2>3. RunsOnce' /\ BelowDispatched' /\ Between'
    BY <2>2 DEF IInv, RunsOnce, BelowDispatched, Between
  <2>4. Counted' /\ Covered'
    BY DEF IInv, Counted, Covered, Owing
  <2> QED
    BY <2>1, <2>3, <2>4 DEF IInv
<1> QED
  BY <1>1, <1>2, <1>3
-----------------------------------------------------------------------------
(* A worker's step changes its own state and pipes only.                   *)
LEMMA AskKeeps ==
  ASSUME IInv, NEW j \in Workers, Ask(j)
  PROVE  IInv'
<1> USE DEF Ask, masterVars
<1>1. /\ wpc \in [Workers -> {"none", "ask", "wait", "run", "exit", "gone"}]
      /\ req \in [Workers -> BOOLEAN]
  BY DEF IInv, TypeOK
<1>2. /\ wpc'[j] \in {"wait", "gone"} /\ (req'[j] => req[j] \/ wpc'[j] = "wait")
      /\ \A i \in Workers \ {j} : wpc'[i] = wpc[i] /\ req'[i] = req[i]
      /\ wpc' \in [Workers -> {"none", "ask", "wait", "run", "exit", "gone"}]
      /\ req' \in [Workers -> BOOLEAN]
  BY <1>1
<1>3. TypeOK'
  BY <1>2 DEF IInv, TypeOK
<1>4. Attended'
  BY <1>2 DEF IInv, Attended, Active
<1>5. Loops'
  BY <1>2 DEF IInv, Loops
<1>6. \A i \in Workers : Held(i)' = Held(i) /\ (wpc'[i] = "run" => wpc[i] = "run")
  BY <1>2 DEF Held
<1>7. RunsOnce' /\ BelowDispatched'
  BY <1>6 DEF IInv, RunsOnce, BelowDispatched
<1>8. Between'
  BY <1>2 DEF IInv, Between
<1>9. Counted' /\ Covered'
  BY DEF IInv, Counted, Covered, Owing
<1> QED
  BY <1>3, <1>4, <1>5, <1>7, <1>8, <1>9 DEF IInv

(* A worker takes its command.                                             *)
LEMMA ObeyKeeps ==
  ASSUME IInv, NEW j \in Workers, Obey(j)
  PROVE  IInv'
<1> USE Numbers DEF Obey, masterVars
<1>1. /\ wpc \in [Workers -> {"none", "ask", "wait", "run", "exit", "gone"}]
      /\ task \in [Workers -> Tests \cup {Empty}] /\ resp \in [Workers -> Command]
  BY DEF IInv, TypeOK
<1>2. /\ resp'[j] = Empty /\ resp' \in [Workers -> Command]
      /\ \A i \in Workers \ {j} : wpc'[i] = wpc[i] /\ resp'[i] = resp[i] /\ task'[i] = task[i]
  BY <1>1
<1>3. \/ resp[j] = Exit /\ wpc'[j] = "exit" /\ task'[j] = task[j]
      \/ resp[j] \in Tests /\ wpc'[j] = "run" /\ task'[j] = resp[j]
  BY <1>1 DEF Command, Exit, Empty, Tests
<1>4. TypeOK'
  BY <1>1, <1>2, <1>3 DEF IInv, TypeOK
<1>5. Attended'
  BY <1>2, <1>3 DEF IInv, Attended, Active
<1>6. Loops'
  BY <1>2, <1>3 DEF IInv, Loops
<1>7. /\ \A i \in Workers : i # j => Held(i)' = Held(i)
      /\ Held(j)' \cap Tests \subseteq Held(j)
  BY <1>2, <1>3 DEF Held
<1>8. RunsOnce'
  BY <1>2, <1>7 DEF IInv, RunsOnce
<1>9. BelowDispatched'
  BY <1>7 DEF IInv, BelowDispatched
<1>10. Between'
  BY <1>2, <1>3 DEF IInv, Between
<1>11. Counted'
  BY DEF IInv, Counted, Owing
<1>12. Covered'
  <2> SUFFICES ASSUME NEW t \in 0 .. dispatched - 1
               PROVE  t \in finished \/ \E i \in Owing : t = resp'[i] \/ t = task'[i]
    BY DEF Covered, Owing
  <2>1. t \in Tests
    BY DEF IInv, TypeOK, Tests
  <2>2. t \in finished \/ \E i \in Owing : t = resp[i] \/ t = task[i]
    BY DEF IInv, Covered
  <2>3. t = task[j] => t \in finished
    BY <2>1 DEF IInv, Between
  <2>4. t = resp[j] => t = task'[j]
    BY <2>1, <1>3
  <2>5. Owing \subseteq Workers
    BY DEF Owing, IInv, TypeOK
  <2> QED
    BY <2>2, <2>3, <2>4, <2>5, <1>2
<1> QED
  BY <1>4, <1>5, <1>6, <1>8, <1>9, <1>10, <1>11, <1>12 DEF IInv

(* A worker's test ends well, and it asks again.                           *)
LEMMA PassKeeps ==
  ASSUME IInv, NEW j \in Workers, Pass(j)
  PROVE  IInv'
<1> USE Numbers DEF Pass, masterVars, pipes
<1>1. /\ wpc \in [Workers -> {"none", "ask", "wait", "run", "exit", "gone"}]
      /\ wpc[j] = "run" /\ task[j] \in Tests
  BY DEF IInv, TypeOK
<1>2. /\ wpc'[j] = "ask" /\ \A i \in Workers \ {j} : wpc'[i] = wpc[i]
      /\ wpc' \in [Workers -> {"none", "ask", "wait", "run", "exit", "gone"}]
  BY <1>1
<1>3. TypeOK'
  BY <1>1, <1>2 DEF IInv, TypeOK
<1>4. Attended'
  BY <1>1, <1>2 DEF IInv, Attended, Active
<1>5. Loops'
  BY <1>1, <1>2 DEF IInv, Loops
<1>6. /\ \A i \in Workers : i # j => Held(i)' = Held(i)
      /\ Held(j)' = {resp[j]} /\ Held(j) = {resp[j], task[j]}
  BY <1>1, <1>2 DEF Held
<1>7. /\ resp[j] # task[j]
      /\ \A i \in Workers : i # j => task[j] \notin Held(i)
  BY <1>1, <1>6 DEF IInv, RunsOnce
<1>8. RunsOnce'
  <2>1. \A i, k \in Workers : \A t \in Tests : t \in Held(i)' /\ t \in Held(k)' => i = k
    BY <1>6 DEF IInv, RunsOnce
  <2>2. \A i \in Workers : \A t \in Tests : t \in Held(i)' => t \notin finished'
    BY <1>6, <1>7 DEF IInv, RunsOnce
  <2>3. \A i \in Workers : \A t \in Tests :
          t \in Held(i)' => ~(resp'[i] = t /\ wpc'[i] = "run")
    BY <1>2, <1>6 DEF IInv, RunsOnce
  <2> QED
    BY <2>1, <2>2, <2>3 DEF RunsOnce
<1>9. BelowDispatched'
  <2>1. task[j] \in 0 .. dispatched - 1
    BY <1>1, <1>6 DEF IInv, BelowDispatched, TypeOK, Tests
  <2> QED
    BY <2>1, <1>6 DEF IInv, BelowDispatched
<1>10. Between'
  BY <1>2 DEF IInv, Between
<1>11. Counted'
  BY DEF IInv, Counted, Owing
<1>12. Covered'
  BY DEF IInv, Covered, Owing
<1> QED
  BY <1>3, <1>4, <1>5, <1>8, <1>9, <1>10, <1>11, <1>12 DEF IInv

(* A worker ends, in whichever way.                                        *)
LEMMA LeaveKeeps ==
  ASSUME IInv, NEW j \in Workers, ObeyEnd(j) \/ Crash(j) \/ Leave(j)
  PROVE  IInv'
<1> USE DEF masterVars, pipes
<1>0. UNCHANGED <<masterVars, task, pipes, fate, finished>>
  BY DEF ObeyEnd, Crash, Leave
<1>1. /\ wpc' \in [Workers -> {"none", "ask", "wait", "run", "exit", "gone"}]
      /\ wpc'[j] \in {"exit", "gone"} /\ \A i \in Workers \ {j} : wpc'[i] = wpc[i]
  BY DEF IInv, TypeOK, ObeyEnd, Crash, Leave
<1>2. Active => wpc[j] # "wait"
  BY DEF ObeyEnd, Crash, Leave, Active, CommandEndOpen
<1>3. wpc[j] # "none"
  BY DEF ObeyEnd, Crash, Leave
<1>4. wpc[j] \in {"run", "gone"} => wpc'[j] = "gone"
  BY DEF ObeyEnd, Crash, Leave, IInv, TypeOK
<1>5. TypeOK'
  BY <1>0, <1>1 DEF IInv, TypeOK
<1>6. Attended'
  BY <1>0, <1>1, <1>2 DEF IInv, Attended, Active
<1>7. Loops'
  BY <1>0, <1>1, <1>3 DEF IInv, Loops
<1>8. \A i \in Workers : Held(i)' \subseteq Held(i) /\ (wpc'[i] = "run" => wpc[i] = "run")
  BY <1>0, <1>1 DEF Held
<1>9. RunsOnce' /\ BelowDispatched'
  BY <1>0, <1>8 DEF IInv, RunsOnce, BelowDispatched
<1>10. Between'
  BY <1>0, <1>1, <1>4 DEF IInv, Between
<1>11. Counted' /\ Covered'
  BY <1>0 DEF IInv, Counted, Covered, Owing
<1> QED
  BY <1>5, <1>6, <1>7, <1>9, <1>10, <1>11 DEF IInv
-----------------------------------------------------------------------------
(* No step of the master or of a worker disturbs the invariant.            *)
LEMMA StepKeeps == IInv /\ [Next]_vars => IInv'
<1> SUFFICES ASSUME IInv, [Next]_vars PROVE IInv'
  OBVIOUS
<1>1. CASE UNCHANGED vars
  <2> USE <1>1 DEF vars, masterVars, workerVars, pipes
  <2>1. \A i \in Workers : Held(i)' = Held(i)
    BY DEF Held
  <2>2. TypeOK' /\ Attended' /\ Loops'
    BY DEF IInv, TypeOK, Attended, Active, Loops
  <2>3. RunsOnce' /\ BelowDispatched' /\ Between'
    BY <2>1 DEF IInv, RunsOnce, BelowDispatched, Between
  <2>4. Counted' /\ Covered'
    BY DEF IInv, Counted, Covered, Owing
  <2> QED
    BY <2>2, <2>3, <2>4 DEF IInv
<1>2. CASE Master \/ SpawnFails
  BY <1>2, SpawnKeeps, ControlKeeps, ScanKeeps DEF Master
<1>3. ASSUME NEW j \in Workers, Worker(j)
      PROVE  IInv'
  BY <1>3, AskKeeps, ObeyKeeps, PassKeeps, LeaveKeeps DEF Worker
<1> QED
  BY <1>1, <1>2, <1>3 DEF Next

(* The tests that are covered are at most the finished ones and one for    *)
(* each worker that owes.                                                  *)
LEMMA InvCounts == IInv => CountIsTrue
<1> SUFFICES ASSUME IInv PROVE CountIsTrue
  OBVIOUS
<1> USE Numbers DEF IInv
<1> DEFINE current(j) == IF resp[j] \in Tests THEN resp[j] ELSE task[j]
           theirs == {current(j) : j \in Owing}
           old == (0 .. dispatched - 1) \ finished
<1>0. /\ IsFiniteSet(Owing) /\ IsFiniteSet(finished) /\ IsFiniteSet(Tests)
      /\ dispatched \in Nat /\ dispatched \in 0 .. Total /\ passed \in Nat
  BY FiniteSets DEF TypeOK
<1>1. old \subseteq theirs
  <2> SUFFICES ASSUME NEW t \in old PROVE t \in theirs
    OBVIOUS
  <2>1. t \in Tests
    BY <1>0 DEF Tests
  <2>2. PICK j \in Owing : t = resp[j] \/ t = task[j]
    BY DEF Covered
  <2>3. j \in Workers
    BY DEF Owing, TypeOK
  <2>4. CASE t = resp[j]
    BY <2>1, <2>4
  <2>5. CASE t = task[j] /\ resp[j] \notin Tests
    BY <2>5
  <2>6. t = task[j] /\ resp[j] \in Tests => t \in finished
    BY <2>1, <2>3 DEF Between
  <2> QED
    BY <2>2, <2>4, <2>5, <2>6
<1>2. IsFiniteSet(theirs) /\ Cardinality(theirs) <= Cardinality(Owing)
  <2> DEFINE f == [j \in Owing |-> current(j)]
  <2>1. f \in Surjection(Owing, theirs)
    BY DEF Surjection
  <2> HIDE DEF f, theirs
  <2> QED
    BY <1>0, <2>1, FS_Surjection
<1>3. IsFiniteSet(old) /\ Cardinality(old) <= Cardinality(theirs)
  BY <1>1, <1>2, FS_Subset
<1>4. finished \subseteq 0 .. dispatched - 1
  BY DEF BelowDispatched
<1>5. dispatched = Cardinality(0 .. dispatched - 1)
  BY <1>0, FS_Interval
<1>6. Cardinality(old) = Cardinality(0 .. dispatched - 1) - Cardinality(finished)
  <2>1. IsFiniteSet(0 .. dispatched - 1)
    BY <1>0, FS_Interval
  <2>2. (0 .. dispatched - 1) \cap finished = finished
    BY <1>4
  <2> QED
    BY <2>1, <2>2, FS_Difference
<1>7. /\ Cardinality(finished) \in Nat /\ Cardinality(Owing) \in Nat
      /\ Cardinality(old) \in Nat /\ Cardinality(theirs) \in Nat
  BY <1>0, <1>2, <1>3, FS_CardinalityType
<1>8. passed + Cardinality(Owing) = dispatched
  BY DEF Counted
<1>9. passed <= Cardinality(finished)
  <2> HIDE DEF theirs, old
  <2> QED
    BY <1>0, <1>2, <1>3, <1>5, <1>6, <1>7, <1>8
<1>10. ASSUME pc = "returned", ~failed
       PROVE  finished = Tests /\ passed = Total
  <2>1. listening = {} /\ pids = N
    BY <1>10 DEF Loops
  <2>2. Owing = {} /\ 0 \in 0 .. pids - 1
    BY <2>1 DEF Owing
  <2>3. dispatched = Total
    BY <2>1, <2>2 DEF Loops
  <2>4. finished = Tests
    BY <2>2, <2>3 DEF Covered, TypeOK, Tests
  <2>5. passed = Total
    BY <2>2, <2>3, <1>0, <1>8, FS_EmptySet
  <2> QED
    BY <2>4, <2>5
<1> QED
  BY <1>9, <1>10 DEF CountIsTrue

(* It holds in every reachable state.                                      *)
LEMMA Invariant == Spec => []IInv
BY InitInv, StepKeeps, PTL DEF Spec

(* Each test is run by one worker, and once.                               *)
THEOREM EachTestOnce == Spec => []RunsOnce
<1>1. IInv => RunsOnce
  BY DEF IInv
<1> QED
  BY <1>1, Invariant, PTL

(* A command is only ever written to a worker that waits for it.           *)
THEOREM NoCommandIsLost == Spec => []CommandsAreAwaited
<1>1. IInv => CommandsAreAwaited
  BY DEF IInv, Attended, Active, CommandsAreAwaited
<1> QED
  BY <1>1, Invariant, PTL

(* The count of passed tests that run_parallel returns is true.            *)
THEOREM ReportIsTrue == Spec => []CountIsTrue
BY Invariant, InvCounts, PTL
-----------------------------------------------------------------------------
(* How workers end.  While the master serves, a worker it still listens to *)
(* is gone only if its test has failed: no other reason to end has reached *)
(* it.  So the end of a pipe that the scan finds is a failed test.         *)
FailedAt(j) == wpc[j] = "gone" /\ task[j] \in Tests /\ fate[task[j]] = "fails"

Watched ==
  /\ pc = "scan" => \A j \in ready : req[j] \/ wpc[j] = "gone"
  /\ Active => \A j \in listening : /\ resp[j] # Exit /\ wpc[j] # "exit"
                                    /\ wpc[j] = "gone" => FailedAt(j)

Reaped ==
  /\ Active => reaped = 0 /\ ~failed
  /\ \A j \in Workers : j < reaped => wpc[j] = "gone"
  /\ pc = "returned" => reaped = N

Blamed ==
  /\ failed => \E j \in Workers : FailedAt(j)
  /\ \A t \in finished : fate[t] = "passes"

EndInv == Watched /\ Reaped /\ Blamed

(* Nothing has ended at the start.                                         *)
LEMMA InitEnd == Init => EndInv
<1> SUFFICES ASSUME Init PROVE EndInv
  OBVIOUS
<1>1. reaped = 0 /\ \A j \in Workers : ~(j < 0)
  BY Numbers DEF Init, Workers
<1> QED
  BY <1>1 DEF Init, EndInv, Watched, Reaped, Blamed, Active

(* A worker that is gone stays gone, with the test it was at.              *)
LEMMA BlameStays ==
  ASSUME EndInv, failed' => failed,
         \A j \in Workers : FailedAt(j) => FailedAt(j)',
         fate' = fate, \A t \in finished' : t \in finished \/ fate[t] = "passes"
  PROVE  Blamed'
BY DEF EndInv, Blamed

(* A fork: nobody can have ended who was not there.                        *)
LEMMA SpawnEnds ==
  ASSUME IInv, EndInv, Spawn
  PROVE  EndInv'
<1>1. /\ pids \in Workers /\ wpc[pids] = "none" /\ wpc' = [wpc EXCEPT ![pids] = "ask"]
      /\ listening \subseteq Workers
      /\ wpc \in [Workers -> {"none", "ask", "wait", "run", "exit", "gone"}]
  BY Numbers DEF IInv, TypeOK, Loops, Workers, Spawn
<1>2. /\ pc = "spawn" /\ pc' \in {"spawn", "select"} /\ listening' = listening \cup {pids}
      /\ UNCHANGED <<ready, failed, reaped, task, req, resp, fate, finished>>
  BY DEF Spawn, pipes
<1>3. resp[pids] # Exit
  BY <1>1, <1>2, Numbers DEF IInv, Attended, Active
<1>4. \A j \in Workers : j # pids => wpc'[j] = wpc[j]
  BY <1>1
<1>5. wpc'[pids] = "ask"
  BY <1>1
<1>6. \A j \in Workers : FailedAt(j) => FailedAt(j)'
  BY <1>1, <1>2, <1>4 DEF FailedAt
<1>7. Watched'
  BY <1>1, <1>2, <1>3, <1>4, <1>5, <1>6 DEF EndInv, Watched, Active
<1>8. Reaped'
  <2>1. \A j \in Workers : ~(j < 0)
    BY Numbers DEF Workers
  <2> QED
    BY <1>2, <2>1 DEF EndInv, Reaped, Active
<1>9. Blamed'
  BY <1>2, <1>6, BlameStays
<1> QED
  BY <1>7, <1>8, <1>9 DEF EndInv

(* Steps that wait for nobody.                                             *)
LEMMA ControlEnds ==
  ASSUME IInv, EndInv, SpawnFails \/ Select \/ Return
  PROVE  EndInv'
<1>1. UNCHANGED <<listening, failed, reaped, wpc, task, req, resp, fate, finished>>
  BY DEF SpawnFails, Select, Return, workerVars, pipes
<1>2. \A j \in Workers : FailedAt(j)' = FailedAt(j)
  BY <1>1 DEF FailedAt
<1>3. /\ Active' => Active
      /\ pc' = "returned" => reaped = N
      /\ pc' = "scan" => ready' = Readable
  BY DEF SpawnFails, Select, Return, Active
<1>4. \A j \in listening : j \in Workers /\ wpc[j] # "none"
  <2>1. \A j \in listening : j \in Workers /\ j < pids /\ pids \in Nat /\ j \in Nat
    BY Numbers DEF IInv, TypeOK, Loops, Workers
  <2>2. \A j \in Workers : wpc[j] = "none" => j >= pids
    BY DEF IInv, Loops
  <2> QED
    BY <2>1, <2>2
<1>5. Watched'
  <2>1. pc' = "scan" => \A j \in ready' : req'[j] \/ wpc'[j] = "gone"
    BY <1>1, <1>3, <1>4 DEF Readable, Alive
  <2>2. Active' => \A j \in listening' : /\ resp'[j] # Exit /\ wpc'[j] # "exit"
                                         /\ wpc'[j] = "gone" => FailedAt(j)'
    BY <1>1, <1>2, <1>3, <1>4 DEF EndInv, Watched
  <2> QED
    BY <2>1, <2>2 DEF Watched
<1>6. Reaped'
  BY <1>1, <1>3 DEF EndInv, Reaped
<1>7. Blamed'
  BY <1>1, <1>2, BlameStays
<1> QED
  BY <1>5, <1>6, <1>7 DEF EndInv

(* The master waits for a worker, or kills it.                             *)
LEMMA ReapEnds ==
  ASSUME IInv, EndInv, Reap
  PROVE  EndInv'
<1>1. /\ pc = "reap" /\ reaped \in Workers /\ reaped \in Nat /\ reaped' = reaped + 1
      /\ wpc' = [wpc EXCEPT ![reaped] = "gone"]
      /\ wpc \in [Workers -> {"none", "ask", "wait", "run", "exit", "gone"}]
      /\ UNCHANGED <<pc, failed, task, fate, finished>>
  BY Numbers DEF Reap, IInv, TypeOK, Workers
<1>2. \A j \in Workers : wpc'[j] = IF j = reaped THEN "gone" ELSE wpc[j]
  BY <1>1
<1>3. \A j \in Workers : FailedAt(j) => FailedAt(j)'
  BY <1>1, <1>2 DEF FailedAt
<1>4. Watched'
  BY <1>1 DEF Watched, Active
<1>5. \A j \in Workers : j < reaped' => wpc'[j] = "gone"
  <2>1. \A j \in Workers : j < reaped + 1 => j < reaped \/ j = reaped
    BY <1>1, Numbers DEF Workers
  <2> QED
    BY <1>1, <1>2, <2>1 DEF EndInv, Reaped
<1>6. Reaped'
  BY <1>1, <1>5 DEF Reaped, Active
<1>7. Blamed'
  BY <1>1, <1>3, BlameStays
<1> QED
  BY <1>4, <1>6, <1>7 DEF EndInv

(* A death seen in a scan is the death of a worker.                        *)
LEMMA ScanEnds ==
  ASSUME IInv, EndInv, Scan
  PROVE  EndInv'
<1>1. /\ pc = "scan" /\ ready' \subseteq ready /\ listening' \subseteq listening
      /\ UNCHANGED <<reaped, wpc, task, fate, finished>>
      /\ ready \subseteq listening /\ listening \subseteq Workers
  BY DEF Scan, Hears, HearsEnd, Answer, workerVars, IInv, TypeOK, Loops
<1>2. \A j \in Workers : FailedAt(j)' = FailedAt(j)
  BY <1>1 DEF FailedAt
<1>3. CASE ready = {} /\ pc' = "select" /\ UNCHANGED <<ready, listening, first, dispatched,
                                                       passed, failed, pipes>>
  <2>1. Watched'
    BY <1>1, <1>2, <1>3 DEF EndInv, Watched, Active, pipes
  <2>2. Reaped'
    BY <1>1, <1>3 DEF EndInv, Reaped, Active
  <2>3. Blamed'
    BY <1>1, <1>2, <1>3, BlameStays
  <2> QED
    BY <2>1, <2>2, <2>3 DEF EndInv
<1>4. ASSUME NEW j \in ready, ready' = ready \ {j}, Hears(j)
      PROVE  EndInv'
  <2>1. /\ pc' = pc /\ failed' = failed /\ req' = [req EXCEPT ![j] = FALSE]
        /\ req \in [Workers -> BOOLEAN] /\ resp \in [Workers -> Command]
        /\ \/ dispatched \in Tests /\ resp' = [resp EXCEPT ![j] = dispatched]
           \/ resp' = [resp EXCEPT ![j] = Exit] /\ listening' = listening \ {j}
    BY <1>4, Numbers DEF Hears, Answer, IInv, TypeOK, Tests
  <2>2. /\ \A i \in ready' : req'[i] = req[i]
        /\ \A i \in listening' : resp'[i] # Exit
    <3>1. \A i \in ready' : i \in Workers /\ i # j
      BY <1>1, <1>4
    <3>2. \A i \in ready' : req'[i] = req[i]
      BY <2>1, <3>1
    <3>3. \A i \in listening' : i \in Workers /\ resp[i] # Exit
      BY <1>1 DEF EndInv, Watched, Active
    <3>4. \A i \in listening' : resp'[i] # Exit
      BY <2>1, <3>3, Numbers
    <3> QED
      BY <3>2, <3>4
  <2>3. Watched'
    <3>1. \A i \in ready' : req'[i] \/ wpc'[i] = "gone"
      BY <1>1, <1>4, <2>2 DEF EndInv, Watched
    <3>2. \A i \in listening' : wpc'[i] # "exit" /\ (wpc'[i] = "gone" => FailedAt(i)')
      BY <1>1, <1>2 DEF EndInv, Watched, Active
    <3> QED
      BY <2>2, <3>1, <3>2 DEF Watched
  <2>4. Reaped'
    BY <1>1, <2>1 DEF EndInv, Reaped, Active
  <2>5. Blamed'
    BY <1>1, <1>2, <2>1, BlameStays
  <2> QED
    BY <2>3, <2>4, <2>5 DEF EndInv
<1>5. ASSUME NEW j \in ready, HearsEnd(j)
      PROVE  EndInv'
  <2>1. FailedAt(j) /\ j \in Workers
    <3>1. j \in listening /\ j \in Workers /\ Active
      BY <1>1 DEF Active
    <3>2. wpc[j] = "gone"
      BY <1>1, <1>5 DEF HearsEnd, EndInv, Watched
    <3> QED
      BY <3>1, <3>2 DEF EndInv, Watched
  <2>2. Watched'
    BY <1>5 DEF HearsEnd, Watched, Active
  <2>3. Reaped'
    BY <1>1, <1>5 DEF HearsEnd, EndInv, Reaped, Active
  <2>4. Blamed'
    BY <1>1, <1>2, <2>1 DEF EndInv, Blamed
  <2> QED
    BY <2>2, <2>3, <2>4 DEF EndInv
<1> QED
  BY <1>3, <1>4, <1>5 DEF Scan

(* A worker's steps.  While the master serves, its end of a pipe it        *)
(* listens to is open, and so is its end of the one it writes to.          *)
LEMMA WorkerEnds ==
  ASSUME IInv, EndInv, NEW j \in Workers, Worker(j)
  PROVE  EndInv'
<1>1. /\ UNCHANGED <<masterVars, fate>> /\ wpc[j] \notin {"none", "gone"}
      /\ \A i \in Workers : i # j => /\ wpc'[i] = wpc[i] /\ task'[i] = task[i]
                                     /\ req'[i] = req[i] /\ resp'[i] = resp[i]
  BY DEF Worker, Ask, Obey, ObeyEnd, Pass, Crash, Leave, pipes, IInv, TypeOK
<1>2. req[j] => req'[j]
  BY DEF Worker, Ask, Obey, ObeyEnd, Pass, Crash, Leave, pipes, IInv, TypeOK
<1>3. \A i \in Workers : FailedAt(i) => FailedAt(i)'
  BY <1>1 DEF FailedAt
<1>4. \A i \in Workers : wpc[i] = "gone" => wpc'[i] = "gone"
  BY <1>1
<1>5. ASSUME Active, j \in listening
      PROVE  resp'[j] # Exit /\ wpc'[j] # "exit" /\ (wpc'[j] = "gone" => FailedAt(j)')
  <2>1. resp[j] # Exit /\ wpc[j] # "exit" /\ RequestEndOpen(j) /\ CommandEndOpen(j)
    <3>1. resp[j] # Exit /\ wpc[j] # "exit"
      BY <1>5 DEF EndInv, Watched
    <3>2. RequestEndOpen(j)
      BY <1>5 DEF RequestEndOpen, Active, MasterGone
    <3>3. CommandEndOpen(j)
      BY <1>5 DEF CommandEndOpen, Active
    <3> QED
      BY <3>1, <3>2, <3>3
  <2>2. /\ wpc \in [Workers -> {"none", "ask", "wait", "run", "exit", "gone"}]
        /\ task \in [Workers -> Tests \cup {Empty}] /\ resp \in [Workers -> Command]
        /\ wpc[j] = "run" => task[j] \in Tests
    BY DEF IInv, TypeOK
  <2>3. CASE Ask(j)
    BY <2>1, <2>2, <2>3 DEF Ask
  <2>4. CASE Obey(j)
    BY <2>1, <2>2, <2>4, Numbers DEF Obey
  <2>5. CASE Pass(j)
    BY <2>1, <2>2, <2>5 DEF Pass, pipes
  <2>6. CASE Crash(j)
    BY <2>1, <2>2, <2>6 DEF Crash, pipes, FailedAt
  <2> QED
    BY <2>1, <2>3, <2>4, <2>5, <2>6 DEF Worker, ObeyEnd, Leave
<1>6. ready \subseteq Workers /\ listening \subseteq Workers
  BY DEF IInv, TypeOK
<1>7. Watched'
  BY <1>1, <1>2, <1>3, <1>4, <1>5, <1>6 DEF EndInv, Watched, Active, masterVars
<1>8. Reaped'
  BY <1>1, <1>4 DEF EndInv, Reaped, Active, masterVars
<1>9. \A t \in finished' : t \in finished \/ fate[t] = "passes"
  BY DEF Worker, Ask, Obey, ObeyEnd, Pass, Crash, Leave
<1>10. Blamed'
  BY <1>1, <1>3, <1>9, BlameStays DEF masterVars
<1> QED
  BY <1>7, <1>8, <1>10 DEF EndInv

(* No step disturbs what is known about the ends.                          *)
LEMMA StepEnds == IInv /\ EndInv /\ [Next]_vars => EndInv'
<1> SUFFICES ASSUME IInv, EndInv, [Next]_vars PROVE EndInv'
  OBVIOUS
<1>1. CASE UNCHANGED vars
  BY <1>1 DEF vars, masterVars, workerVars, pipes, EndInv, Watched, Reaped, Blamed, Active,
              FailedAt
<1>2. CASE Master \/ SpawnFails
  BY <1>2, SpawnEnds, ControlEnds, ReapEnds, ScanEnds DEF Master
<1>3. ASSUME NEW j \in Workers, Worker(j)
      PROVE  EndInv'
  BY <1>3, WorkerEnds
<1> QED
  BY <1>1, <1>2, <1>3 DEF Next

(* When run_parallel returns, every worker it forked has ended, however    *)
(* the tests end and whatever order the processes run in; and it reports a *)
(* failure exactly when a test that it handed out fails                    *)
(* (testbench.cpp:151-199).                                                *)
THEOREM NoWorkerOutlives == Spec => []NoOrphans
<1>1. IInv /\ EndInv => NoOrphans
  <2> SUFFICES ASSUME IInv, EndInv, pc = "returned"
               PROVE  /\ \A j \in Workers : ~Alive(j)
                      /\ failed <=> \E j \in Workers : task[j] \in Tests /\ fate[task[j]] = "fails"
    BY DEF NoOrphans
  <2>1. \A j \in Workers : wpc[j] = "gone"
    <3>1. reaped = N /\ \A j \in Workers : j < N
      BY Numbers DEF EndInv, Reaped, Workers
    <3> QED
      BY <3>1 DEF EndInv, Reaped
  <2>2. CASE failed
    BY <2>1, <2>2 DEF EndInv, Blamed, FailedAt, Alive
  <2>3. CASE ~failed
    <3>1. finished = Tests
      BY <2>3, InvCounts DEF CountIsTrue
    <3> QED
      BY <2>1, <2>3, <3>1 DEF EndInv, Blamed, Alive
  <2> QED
    BY <2>2, <2>3
<1> QED
  BY <1>1, Invariant, InitEnd, StepEnds, PTL DEF Spec
=============================================================================
