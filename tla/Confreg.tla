-------------------------------- MODULE Confreg --------------------------------
(***************************************************************************)
(* The peripheral registers of confreg.cpp: a clock cycle of the           *)
(* simulation is an access or none, sync, and checkout_confreg of          *)
(* model.cpp; a background thread meanwhile pushes the characters it reads *)
(* from a terminal to the queue the simulation reads.  A word is a pair of *)
(* halves <<hi, lo>>: of NUM the number completed and its acknowledgement, *)
(* of the UARTs' registers nothing and the byte.                           *)
(***************************************************************************)
EXTENDS Naturals, Sequences, FiniteSetsExt, Functions, ThreadWorker

CONSTANTS Half,        \* values of a half, from 0
          Ascii,       \* the bytes up to 0x7f
          Stores,      \* what programs store: <<register, word>>
          MaxTyped, MaxStores, MaxResets     \* bounds on the environment

ASSUME ConfregAssumption ==
  /\ Half \in Nat \ {0, 1} /\ Ascii \subseteq 0 .. Half - 1
  /\ MaxTyped \in Nat /\ MaxStores \in Nat /\ MaxResets \in Nat
  /\ \A s \in Stores : s[2] \in (0 .. Half - 1) \X (0 .. Half - 1)

Byte == 0 .. Half - 1
Word == Byte \X Byte
Zero == <<0, 0>>
Chars == 1 .. MaxTyped   \* typed in this order

(* The registers with rules of their own, a plain one, and none at all.    *)
Registers == {"NUM", "LED", "IO_SIMU", "SIMU_FLAG", "NUM_MONITOR", "VIRTUAL_UART"}

VARIABLES phase,       \* of the cycle: access, pop, commit, checkout; gone
          ctx, ctx0,   \* as of this cycle, and of the last sync
          mem, changes,
          slots, start, finish,     \* ififo: a block of slots and its two ends
          lock,        \* uart.lock: free, or the thread's
          fn, c, end,  \* the thread's function, and its locals
          opty, ipty,  \* the two ends of the terminal are open
          current,     \* ModelBase's _current_num
          aborted,     \* an assertion has failed
          typed,       \* characters typed so far: the next one is typed + 1
          rxd,         \* the character loaded in this cycle, or 0
          received, dropped,        \* history: characters loaded, and lost to a reset
          put, shown,  \* history: bytes stored to, and shown by, the UARTs
          latest,      \* history: what each register should hold
          wrong,       \* history: the program, or a reset, has upset the numbering
          stores, resets

threadVars == <<fn, c, end>>
queueVars == <<slots, start, finish>>
simVars == <<phase, ctx, ctx0, mem, changes, current, aborted, rxd>>
history == <<received, dropped, put, shown, latest, wrong, stores, resets>>
vars == <<simVars, workerVars, threadVars, queueVars, lock, opty, ipty, typed, history>>

(* Context::reset, and the registers' values at reset.                     *)
NewContext == [avail |-> FALSE, written |-> FALSE, fetched |-> FALSE, data |-> 0,
               vwritten |-> FALSE, vdata |-> 0, monitor |-> TRUE, num |-> Zero]
NewMem == [r \in Registers |->
             CASE r = "SIMU_FLAG" -> <<Half - 1, Half - 1>>
               [] r = "NUM_MONITOR" -> <<0, 1>>
               [] r = "LED" -> <<0, Half - 1>>
               [] OTHER -> Zero]

Queued == [i \in 1 .. finish - start |-> slots[start + i]]
-----------------------------------------------------------------------------
Init ==
  /\ phase = "access" /\ ctx = NewContext /\ ctx0 = NewContext
  /\ mem = NewMem /\ changes = <<>>
  /\ slots = [i \in Chars |-> 0] /\ start = 0 /\ finish = 0
  /\ lock = "free" /\ fn = "fgetc" /\ c = 0 /\ end = 0
  /\ WorkerInit /\ opty = FALSE /\ ipty = FALSE
  /\ current = 0 /\ aborted = FALSE /\ typed = 0 /\ rxd = 0
  /\ received = <<>> /\ dropped = {} /\ put = <<>> /\ shown = <<>> /\ latest = NewMem
  /\ wrong = FALSE /\ stores = 0 /\ resets = 0
-----------------------------------------------------------------------------
(* The thread.  fgetc waits for a character, or for the end of the file,   *)
(* which it reports again and again.                                       *)
ThreadTest == Test /\ fn' = "fgetc" /\ UNCHANGED <<c, end, queueVars, lock, ipty, typed>>

Fgetc ==
  /\ at = "fn" /\ fn = "fgetc" /\ typed < MaxTyped
  /\ typed' = typed + 1 /\ c' = typed + 1 /\ fn' = "lock"
  /\ UNCHANGED <<workerVars, end, queueVars, lock, ipty>>

Eof ==
  /\ at = "fn" /\ fn = "fgetc" /\ FnReturns
  /\ UNCHANGED <<threadVars, queueVars, lock, ipty, typed>>

(* push_back looks up the end of the queue, then writes and moves it.      *)
Lock ==
  /\ at = "fn" /\ fn = "lock" /\ lock = "free"
  /\ lock' = "thread" /\ end' = finish /\ fn' = "push"
  /\ UNCHANGED <<workerVars, c, queueVars, ipty, typed>>

Push ==
  /\ at = "fn" /\ fn = "push" /\ FnReturns
  /\ slots' = [slots EXCEPT ![end + 1] = c] /\ finish' = end + 1
  /\ lock' = "free"
  /\ UNCHANGED <<threadVars, start, ipty, typed>>

(* final_fn, and the end.                                                  *)
CloseInput ==
  /\ Finish /\ ipty' = FALSE
  /\ UNCHANGED <<threadVars, queueVars, lock, typed>>

ThreadReads == (Fgetc \/ Eof) /\ UNCHANGED <<simVars, opty, history>>
ThreadRuns ==
  (ThreadTest \/ Lock \/ Push \/ CloseInput) /\ UNCHANGED <<simVars, opty, history>>
-----------------------------------------------------------------------------
(* The simulation.  Mutant: the availability of a character is looked up   *)
(* when it is asked for, not as of the last sync.                          *)
HasCharNow == start < finish

HasChar == ctx.avail
GetChar == IF HasChar THEN slots[start + 1] ELSE 0

load(r) ==
  CASE r = "UART_LSR" -> HasChar
    [] r = "UART_RXD" -> GetChar
    [] r \in Registers -> mem[r]
    [] OTHER -> 0

(* The only load with an effect.  It may be repeated in its cycle.         *)
LoadRxd ==
  /\ phase = "access" /\ HasChar
  /\ rxd' = load("UART_RXD") /\ ctx' = [ctx EXCEPT !.fetched = TRUE]
  /\ UNCHANGED <<phase, ctx0, mem, changes, current, aborted, queueVars, history>>

(* What becomes of the data of a store.                                    *)
Converted(r, w) ==
  CASE r = "VIRTUAL_UART" -> <<0, w[2]>>
    [] r = "SIMU_FLAG" -> NewMem["SIMU_FLAG"]
    [] r = "IO_SIMU" -> <<w[2], w[1]>>
    [] r = "NUM_MONITOR" -> <<0, w[2] % 2>>
    [] OTHER -> w

(* A store upsets the numbering unless it says the same again or completes *)
(* and acknowledges the next number, with the monitor on.                  *)
Upsets(r, w) ==
  r = "NUM" /\ w # latest["NUM"]
    /\ (w # <<latest["NUM"][1] + 1, latest["NUM"][1] + 1>> \/ latest["NUM_MONITOR"][2] = 0)

(* A store to UART_LSR is refused by an assertion, and not among Stores.   *)
Store(r, w) ==
  /\ phase = "access" /\ ~ctx.fetched /\ stores < MaxStores
  /\ phase' = "pop" /\ stores' = stores + 1
  /\ IF r = "UART_TXD"
     THEN /\ ctx' = [ctx EXCEPT !.written = TRUE, !.data = w[2]]
          /\ put' = IF opty THEN Append(put, w[2]) ELSE put
          /\ UNCHANGED <<changes, latest>>
     ELSE LET d == Converted(r, w) IN
          /\ ctx' = CASE r = "VIRTUAL_UART" -> [ctx EXCEPT !.vwritten = TRUE, !.vdata = d[2]]
                      [] r = "NUM" -> [ctx EXCEPT !.num = d]
                      [] r = "NUM_MONITOR" -> [ctx EXCEPT !.monitor = d[2] = 1]
                      [] OTHER -> ctx
          /\ changes' = Append(changes, <<r, d>>)
          /\ put' = IF r = "VIRTUAL_UART" /\ w[2] \in Ascii THEN Append(put, w[2]) ELSE put
          /\ latest' = IF r \in Registers THEN [latest EXCEPT ![r] = d] ELSE latest
  /\ wrong' = (wrong \/ Upsets(r, w))
  /\ UNCHANGED <<ctx0, mem, current, aborted, rxd, queueVars, received, dropped, shown, resets>>

EndAccess ==
  /\ phase = "access" /\ phase' = "pop"
  /\ UNCHANGED <<ctx, ctx0, mem, changes, current, aborted, rxd, queueVars, history>>

(* sync, its first part: the character loaded leaves the queue.            *)
PopRead ==
  /\ phase = "pop" /\ ctx.fetched /\ lock = "free"
  /\ IF start < finish
     THEN start' = start + 1 /\ received' = Append(received, rxd) /\ UNCHANGED aborted
     ELSE aborted' = TRUE /\ UNCHANGED <<start, received>>
  /\ phase' = "commit"
  /\ UNCHANGED <<ctx, ctx0, mem, changes, current, rxd, slots, finish,
                 dropped, put, shown, latest, wrong, stores, resets>>

NoPop ==
  /\ phase = "pop" /\ ~ctx.fetched /\ phase' = "commit"
  /\ UNCHANGED <<ctx, ctx0, mem, changes, current, aborted, rxd, queueVars, history>>

NextContext == [ctx EXCEPT !.avail = start < finish, !.written = FALSE, !.fetched = FALSE,
                           !.vwritten = FALSE]

(* The changes in order: the last one to a register stands, and one to no  *)
(* register is ignored.                                                    *)
ChangesTo(r) == {i \in DOMAIN changes : changes[i][1] = r}
Changed == [r \in Registers |-> IF ChangesTo(r) = {} THEN mem[r]
                                ELSE changes[Max(ChangesTo(r))][2]]

(* Mutant: changes are kept, and made again at the next sync.              *)
CommitChangesKept == mem' = Changed /\ UNCHANGED changes
CommitChanges == mem' = Changed /\ changes' = <<>>

(* The rest of sync, which reads the queue without its lock.               *)
Commit ==
  /\ phase = "commit" /\ phase' = "checkout"
  /\ shown' = IF ctx.written /\ opty THEN Append(shown, ctx.data) ELSE shown
  /\ ctx0' = ctx /\ ctx' = NextContext
  /\ CommitChanges
  /\ rxd' = 0
  /\ UNCHANGED <<current, aborted, queueVars, received, dropped, put, latest, wrong, stores, resets>>

(* Mutant: the number completed is not noted.                              *)
MonitorForgets ==
  LET num == ctx0.num[1] IN
  /\ aborted' = (ctx0.monitor /\ num # current /\ ~(num = current + 1 /\ ctx0.num[2] = num))
  /\ UNCHANGED current

(* checkout_confreg: the numbers a test program completes come in order,   *)
(* each acknowledged, or the simulation is aborted.                        *)
Monitor ==
  LET num == ctx0.num[1] IN
  IF ctx0.monitor /\ num # current
  THEN IF num = current + 1 /\ ctx0.num[2] = num
       THEN current' = num /\ UNCHANGED aborted
       ELSE aborted' = TRUE /\ UNCHANGED current
  ELSE UNCHANGED <<current, aborted>>

Checkout ==
  /\ phase = "checkout" /\ phase' = "access"
  /\ Monitor
  /\ shown' = IF ctx0.vwritten /\ ctx0.vdata \in Ascii THEN Append(shown, ctx0.vdata) ELSE shown
  /\ UNCHANGED <<ctx, ctx0, mem, changes, rxd, queueVars, received, dropped, put, latest,
                 wrong, stores, resets>>

(* Mutant: the queue is emptied without its lock.                          *)
ClearUnlocked == finish' = start
Clear == lock = "free" /\ finish' = start

(* Between two cycles.  The number completed last is ModelBase's, and is   *)
(* kept.                                                                   *)
Reset ==
  /\ phase = "access" /\ resets < MaxResets
  /\ ctx' = NewContext /\ ctx0' = NewContext /\ mem' = NewMem /\ rxd' = 0
  /\ Clear
  /\ resets' = resets + 1
  /\ dropped' = dropped \cup {slots[i] : i \in start + 1 .. finish}
  /\ latest' = NewMem
  /\ wrong' = (wrong \/ current # 0)
  /\ UNCHANGED <<phase, changes, current, aborted, slots, start, received, put, shown, stores>>

(* The runner opens a terminal, if it is given one, before anything runs.  *)
(* Either file may fail to open, and then no thread is started; a second   *)
(* call is refused by an assertion.                                        *)
OpenPty ==
  /\ phase = "access" /\ ctx = NewContext /\ stores = 0 /\ resets = 0
  /\ ~ipty /\ ~opty /\ at = "none"
  /\ ipty' = TRUE
  /\ \/ opty' = TRUE /\ Start
     \/ opty' = FALSE /\ UNCHANGED workerVars
  /\ UNCHANGED <<simVars, threadVars, queueVars, lock, typed, history>>

(* The destructor.  The thread is left to itself.                          *)
Destroy ==
  /\ phase = "access" /\ phase' = "gone"
  /\ Stop /\ opty' = FALSE
  /\ UNCHANGED <<ctx, ctx0, mem, changes, current, aborted, rxd, queueVars, history>>

Rest == UNCHANGED <<threadVars, lock, ipty, typed>>
Cycle ==
  /\ EndAccess \/ PopRead \/ NoPop \/ Commit \/ Checkout
  /\ Rest /\ UNCHANGED <<workerVars, opty>>
Program ==
  /\ LoadRxd \/ Reset \/ \E s \in Stores : Store(s[1], s[2])
  /\ Rest /\ UNCHANGED <<workerVars, opty>>

Next ==
  ~aborted /\ (Cycle \/ Program \/ OpenPty \/ (Destroy /\ Rest) \/ ThreadReads \/ ThreadRuns)

(* The clock runs, whatever the program does, and so does the thread,      *)
(* except that nobody need type.                                           *)
Spec == Init /\ [][Next]_vars /\ WF_vars(~aborted /\ Cycle) /\ WF_vars(~aborted /\ ThreadRuns)
-----------------------------------------------------------------------------
Held == IF at = "fn" /\ fn \in {"lock", "push"} THEN <<c>> ELSE <<>>

(* UART input (confreg.cpp:194, :107, :159): the program gets the          *)
(* characters typed, in order and once each, but for those a reset drops;  *)
(* the ones it has not got are in the queue or with the thread; and none   *)
(* is looked for in an empty queue (confreg.cpp:104).                      *)
InputInOrder ==
  /\ LET all == received \o Queued \o Held IN
       /\ \A i, j \in DOMAIN all : i < j => all[i] < all[j]
       /\ Range(all) = (1 .. typed) \ dropped
  /\ phase \in {"access", "pop"} /\ (ctx.avail \/ ctx.fetched) => start < finish

(* A load repeated in its cycle gives the same (cbus_device.cpp:23 loads   *)
(* in eval_resp, which a simulation may evaluate again), though the thread *)
(* may push a character in between.                                        *)
LoadsRepeat ==
  [][phase = "access" /\ phase' = "access" /\ resets' = resets
       => \A r \in Registers \cup {"UART_LSR", "UART_RXD"} : load(r)' = load(r)]_vars

(* Output: when a cycle begins, each byte stored to either UART has been   *)
(* shown, once, in order, and each register holds the last word stored     *)
(* since the reset.                                                        *)
OutputOnce == phase = "access" => shown = put /\ mem = latest

(* The monitor (model.cpp:147-151) aborts no program that completes its    *)
(* numbers in order.                                                       *)
MonitorIsFair == aborted => wrong

(* A character in the queue is noticed by a program that looks; and a      *)
(* thread that is stopped comes to its end, but for one that waits at      *)
(* fgetc for a character nobody types (confreg.cpp:178).                   *)
InputIsServed ==
  /\ start < finish ~> ctx.avail \/ start = finish \/ phase = "gone" \/ aborted
  /\ <>[]stopped => <>[](aborted \/ at \in {"none", "ended"} \/ (at = "fn" /\ fn = "fgetc"))
=============================================================================
