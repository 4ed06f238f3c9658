----------------------------- MODULE ThreadWorker -----------------------------
(***************************************************************************)
(* ThreadWorker of common.cpp: a detached thread that repeats a function   *)
(* until a flag is set, and then frees the flag.  Whoever started it keeps *)
(* a pointer to the flag.                                                  *)
(***************************************************************************)
VARIABLES stopped,     \* the owner's side: stop has been called, or never started
          flag,        \* the bool on the heap: none, clear, set or freed
          at           \* the thread: none, test, fn, final or ended

workerVars == <<stopped, flag, at>>

(* The default constructor.                                                *)
WorkerInit == stopped = TRUE /\ flag = "none" /\ at = "none"

(* loop, moved into place.                                                 *)
Start ==
  /\ at = "none"
  /\ stopped' = FALSE /\ flag' = "clear" /\ at' = "test"

(* Mutant: stop only makes a note, and the flag stays clear.               *)
StopQuietly == stopped' = TRUE /\ UNCHANGED <<flag, at>>

(* stop does not wait for the thread, and does nothing the second time.    *)
Stop ==
  /\ stopped' = TRUE
  /\ flag' = IF stopped THEN flag ELSE "set"
  /\ UNCHANGED at

Test ==
  /\ at = "test"
  /\ at' = IF flag = "set" THEN "final" ELSE "fn"
  /\ UNCHANGED <<stopped, flag>>

(* The function returns; then the pause, whatever its length.              *)
FnReturns ==
  /\ at = "fn" /\ at' = "test"
  /\ UNCHANGED <<stopped, flag>>

Finish ==
  /\ at = "final" /\ at' = "ended" /\ flag' = "freed"
  /\ UNCHANGED stopped
===============================================================================
