------------------------------ MODULE RunParallel ------------------------------
(***************************************************************************)
(* run_parallel of testbench.cpp: a master process hands the tests out to  *)
(* N workers that ask for them, over a pair of pipes each, and counts the  *)
(* ones that passed.  A test that fails aborts its worker; one that hangs  *)
(* keeps it.  Processes interleave freely; a step is a system call with    *)
(* what its process does up to the next one that matters.                  *)
(***************************************************************************)
EXTENDS Naturals, FiniteSets

CONSTANTS N,           \* n_workers
          Total        \* tests

(* One worker is run_serial's case; no worker at all runs no test.         *)
ASSUME PoolAssumption == N \in Nat \ {0} /\ Total \in Nat

Workers == 0 .. N - 1
Tests == 0 .. Total - 1
Exit == Total          \* the -1 sent to a worker that is to exit
Empty == Total + 1     \* nothing in the pipe

VARIABLES pc,          \* the master: spawn, select, scan, reap, returned or dead
          pids,        \* workers forked
          ready,       \* readable ends that select found and the scan has not seen
          listening,   \* workers whose pipe the master has not closed: worker[j] >= 0
          first,       \* workers that have not asked yet
          dispatched, passed, failed,
          reaped,      \* workers waited for
          wpc,         \* a worker: none, ask, wait, run, exit or gone
          task,        \* the test it is at, or was last
          req, resp,   \* what its two pipes hold
          fate,        \* what each test does: the program under test decides
          finished     \* tests that ran to their end

masterVars == <<pc, pids, ready, listening, first, dispatched, passed, failed, reaped>>
workerVars == <<wpc, task>>
pipes == <<req, resp>>
vars == <<masterVars, workerVars, pipes, fate, finished>>

Alive(i) == wpc[i] \notin {"none", "gone"}
MasterGone == pc = "dead"

(* The write end of the pipe to worker j is the master's, which closes all *)
(* of them before it reaps, and of the workers forked after j, which have  *)
(* inherited it; a worker closes the two ends of its own it does not use.  *)
(* Mutant: close(pm[1]) is left out.                                       *)
CommandEndOpenOwn(j) ==
  pc \in {"spawn", "select", "scan"} \/ \E i \in Workers : i >= j /\ Alive(i)

CommandEndOpen(j) ==
  pc \in {"spawn", "select", "scan"} \/ \E i \in Workers : i > j /\ Alive(i)

(* The read end of the pipe from j, likewise.                              *)
RequestEndOpen(j) ==
  (~MasterGone /\ j \in listening) \/ \E i \in Workers : i > j /\ Alive(i)

(* A worker is the only writer of its pipe, which ends when it is gone.    *)
Readable == {j \in listening : req[j] \/ ~Alive(j)}
-----------------------------------------------------------------------------
Init ==
  /\ pc = "spawn" /\ pids = 0 /\ ready = {} /\ listening = {} /\ first = Workers
  /\ dispatched = 0 /\ passed = 0 /\ failed = FALSE /\ reaped = 0
  /\ wpc = [j \in Workers |-> "none"] /\ task = [j \in Workers |-> Empty]
  /\ req = [j \in Workers |-> FALSE] /\ resp = [j \in Workers |-> Empty]
  /\ fate \in [Tests -> {"passes", "fails", "hangs"}] /\ finished = {}

(* Skipped tests pass too (testbench.cpp:263).                             *)
Spawn ==
  /\ pc = "spawn"
  /\ wpc' = [wpc EXCEPT ![pids] = "ask"]
  /\ pids' = pids + 1
  /\ listening' = listening \cup {pids}
  /\ pc' = IF pids + 1 = N THEN "select" ELSE pc
  /\ UNCHANGED <<ready, first, dispatched, passed, failed, reaped, task, pipes, fate, finished>>

(* pipe or fork fails: the master aborts, with workers running already.    *)
SpawnFails ==
  /\ pc = "spawn" /\ pc' = "dead"
  /\ UNCHANGED <<pids, ready, listening, first, dispatched, passed, failed, reaped,
                 workerVars, pipes, fate, finished>>

(* select blocks until there is something to read.  A worker whose pipe is *)
(* closed has been told to exit: none is left when all have been.          *)
Select ==
  /\ pc = "select"
  /\ \/ listening = {} /\ pc' = "reap" /\ UNCHANGED ready
     \/ Readable # {} /\ ready' = Readable /\ pc' = "scan"
  /\ UNCHANGED <<pids, listening, first, dispatched, passed, failed, reaped,
                 workerVars, pipes, fate, finished>>

(* Mutant: the first request of a worker counts as a passed test.          *)
HeardEager(j) == first' = first \ {j} /\ passed' = passed + 1

Heard(j) ==
  /\ first' = first \ {j}
  /\ passed' = IF j \in first THEN passed ELSE passed + 1

(* Mutant: the number of a test is taken but not moved on.                 *)
AnswerSame(j) ==
  \/ /\ dispatched < Total
     /\ resp' = [resp EXCEPT ![j] = dispatched]
     /\ UNCHANGED <<dispatched, listening>>
  \/ /\ dispatched = Total
     /\ resp' = [resp EXCEPT ![j] = Exit]
     /\ listening' = listening \ {j}
     /\ UNCHANGED dispatched

(* A test if there is one left, or -1 and the end of it.                   *)
Answer(j) ==
  \/ /\ dispatched < Total
     /\ resp' = [resp EXCEPT ![j] = dispatched]
     /\ dispatched' = dispatched + 1
     /\ UNCHANGED listening
  \/ /\ dispatched = Total
     /\ resp' = [resp EXCEPT ![j] = Exit]
     /\ listening' = listening \ {j}
     /\ UNCHANGED dispatched

(* One readable end, in the order of the workers.  The end of the pipe     *)
(* before a request is a worker that died: the loop is left at once.       *)
Hears(j) ==
  /\ req[j] /\ req' = [req EXCEPT ![j] = FALSE]
  /\ Heard(j) /\ Answer(j)
  /\ UNCHANGED <<pc, failed>>

(* Mutant: the end of the pipe is taken for a request.                     *)
HearsEndAsRequest(j) ==
  /\ ~req[j]
  /\ Heard(j) /\ Answer(j)
  /\ UNCHANGED <<pc, failed, req>>

HearsEnd(j) ==
  /\ ~req[j]
  /\ failed' = TRUE /\ pc' = "reap"
  /\ UNCHANGED <<listening, first, dispatched, passed, pipes>>

Scan ==
  /\ pc = "scan"
  /\ \/ \E j \in ready :
          /\ \A k \in ready : j <= k
          /\ ready' = ready \ {j}
          /\ Hears(j) \/ HearsEnd(j)
     \/ /\ ready = {} /\ pc' = "select"
        /\ UNCHANGED <<ready, listening, first, dispatched, passed, failed, pipes>>
  /\ UNCHANGED <<pids, reaped, workerVars, fate, finished>>

(* Mutant: a worker that is still alive is waited for, not killed.         *)
ReapPatient ==
  /\ pc = "reap" /\ reaped < N
  /\ wpc[reaped] = "gone"
  /\ reaped' = reaped + 1
  /\ UNCHANGED <<pc, pids, ready, listening, first, dispatched, passed, failed,
                 workerVars, pipes, fate, finished>>

(* Mutant: workers are killed after a failure, and not waited for without. *)
ReapHasty ==
  /\ pc = "reap" /\ reaped < N
  /\ wpc' = IF failed THEN [wpc EXCEPT ![reaped] = "gone"] ELSE wpc
  /\ reaped' = reaped + 1
  /\ UNCHANGED <<pc, pids, ready, listening, first, dispatched, passed, failed,
                 task, pipes, fate, finished>>

(* The master has closed its ends of the pipes.  After a failure it kills  *)
(* each worker that has not ended by itself; it waits for every one.       *)
Reap ==
  /\ pc = "reap" /\ reaped < N
  /\ failed \/ wpc[reaped] = "gone"
  /\ wpc' = [wpc EXCEPT ![reaped] = "gone"]
  /\ reaped' = reaped + 1
  /\ UNCHANGED <<pc, pids, ready, listening, first, dispatched, passed, failed,
                 task, pipes, fate, finished>>

Return ==
  /\ pc = "reap" /\ reaped = N /\ pc' = "returned"
  /\ UNCHANGED <<pids, ready, listening, first, dispatched, passed, failed, reaped,
                 workerVars, pipes, fate, finished>>

Master == Spawn \/ Select \/ Scan \/ Reap \/ Return
-----------------------------------------------------------------------------
(* run_worker.  A write that nobody can read any more kills the writer.    *)
Ask(j) ==
  /\ wpc[j] = "ask"
  /\ IF RequestEndOpen(j)
     THEN wpc' = [wpc EXCEPT ![j] = "wait"] /\ req' = [req EXCEPT ![j] = TRUE]
     ELSE wpc' = [wpc EXCEPT ![j] = "gone"] /\ UNCHANGED req
  /\ UNCHANGED <<masterVars, task, resp, fate, finished>>

Obey(j) ==
  /\ wpc[j] = "wait" /\ resp[j] # Empty
  /\ resp' = [resp EXCEPT ![j] = Empty]
  /\ IF resp[j] = Exit
     THEN wpc' = [wpc EXCEPT ![j] = "exit"] /\ UNCHANGED task
     ELSE wpc' = [wpc EXCEPT ![j] = "run"] /\ task' = [task EXCEPT ![j] = resp[j]]
  /\ UNCHANGED <<masterVars, req, fate, finished>>

(* Nothing was read: the master has closed the pipe, or is dead.           *)
ObeyEnd(j) ==
  /\ wpc[j] = "wait" /\ resp[j] = Empty /\ ~CommandEndOpen(j)
  /\ wpc' = [wpc EXCEPT ![j] = "exit"]
  /\ UNCHANGED <<masterVars, task, pipes, fate, finished>>

(* run_test.  A failed assertion aborts the process; a test that hangs     *)
(* never gets here.                                                        *)
Pass(j) ==
  /\ wpc[j] = "run" /\ fate[task[j]] = "passes"
  /\ wpc' = [wpc EXCEPT ![j] = "ask"]
  /\ finished' = finished \cup {task[j]}
  /\ UNCHANGED <<masterVars, task, pipes, fate>>

Crash(j) ==
  /\ wpc[j] = "run" /\ fate[task[j]] = "fails"
  /\ wpc' = [wpc EXCEPT ![j] = "gone"]
  /\ UNCHANGED <<masterVars, task, pipes, fate, finished>>

(* The global defers run, and the process exits.                           *)
Leave(j) ==
  /\ wpc[j] = "exit"
  /\ wpc' = [wpc EXCEPT ![j] = "gone"]
  /\ UNCHANGED <<masterVars, task, pipes, fate, finished>>

Worker(j) == Ask(j) \/ Obey(j) \/ ObeyEnd(j) \/ Pass(j) \/ Crash(j) \/ Leave(j)

Next == Master \/ SpawnFails \/ \E j \in Workers : Worker(j)

(* Every process that can run does in the end; forks need not fail.        *)
Spec == Init /\ [][Next]_vars /\ WF_vars(Master) /\ \A j \in Workers : WF_vars(Worker(j))
-----------------------------------------------------------------------------
Held(j) == {resp[j]} \cup IF wpc[j] = "run" THEN {task[j]} ELSE {}

(* A test is run by one worker and once: the number that run_parallel      *)
(* (testbench.cpp:162) sends is in no other pipe, with no other worker and *)
(* not among the tests that are over.                                      *)
RunsOnce ==
  \A i, j \in Workers : \A t \in Tests :
    /\ t \in Held(i) /\ t \in Held(j) => i = j
    /\ t \in Held(i) => t \notin finished /\ ~(resp[i] = t /\ wpc[i] = "run")

(* A command is written (testbench.cpp:162, :168) only to a worker that is *)
(* alive, waiting, and has not been sent one: no write breaks the pipe,    *)
(* which would kill the master, and none overtakes another.                *)
CommandsAreAwaited ==
  pc \in {"select", "scan"} =>
    \A j \in Workers : /\ resp[j] # Empty => wpc[j] = "wait" /\ ~req[j]
                       /\ req[j] => wpc[j] = "wait"

(* What run_parallel returns (testbench.cpp:199): without a failure, every *)
(* test has run to its end and is counted, once; after a failure no more   *)
(* are counted than have.  While it runs the count lags by the tests of    *)
(* workers that have not asked again.                                      *)
CountIsTrue ==
  /\ passed <= Cardinality(finished)
  /\ pc = "returned" /\ ~failed => finished = Tests /\ passed = Total

(* No worker outlives run_parallel (testbench.cpp:184-195), whatever the   *)
(* tests do; and it reports a failure exactly if a test it ran fails.      *)
NoOrphans ==
  pc = "returned" => /\ \A j \in Workers : ~Alive(j)
                     /\ failed <=> \E j \in Workers : /\ task[j] \in Tests
                                                      /\ fate[task[j]] = "fails"

(* A failed test ends the run (testbench.cpp:151-154), even while another  *)
(* test hangs, and so does the last test when none fails or hangs.         *)
FailureEndsRun ==
  /\ (\E j \in Workers : wpc[j] = "gone" /\ task[j] \in Tests /\ fate[task[j]] = "fails")
       ~> pc \in {"returned", "dead"}
  /\ (\A t \in Tests : fate[t] # "hangs") ~> pc \in {"returned", "dead"}

(* "Close all master->worker pipes, so all the workers will finally exit"  *)
(* (testbench.cpp:181): when the master is dead, too, and although workers *)
(* hold each other's ends.  No test hangs then: the master dies in a fork, *)
(* before it has handed one out.                                           *)
WorkersExit == \A j \in Workers : MasterGone ~> ~Alive(j)
=============================================================================
