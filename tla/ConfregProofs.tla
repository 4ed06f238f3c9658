----------------------------- MODULE ConfregProofs -----------------------------
(***************************************************************************)
(* Confreg, for any number of characters, stores and resets, and whatever  *)
(* order the thread and the simulation run in: the characters come in      *)
(* order, what is stored is shown, and the monitor is fair.                *)
(***************************************************************************)
EXTENDS Confreg, SequenceTheorems, TLAPS

(* The thread carries the character typed last, from when it is read until *)
(* it is in the queue.                                                     *)
Carrying == at = "fn" /\ fn \in {"lock", "push"}
Slots == start + 1 .. finish
Read == 1 .. Len(received)

Counted ==
  /\ typed \in Nat /\ typed <= MaxTyped /\ start \in Nat /\ finish \in Nat
  /\ start <= finish /\ finish <= typed
  /\ DOMAIN slots = Chars /\ received \in Seq(Nat)
  /\ lock = IF at = "fn" /\ fn = "push" THEN "thread" ELSE "free"
  /\ lock = "thread" => end = finish
  /\ Carrying => c = typed /\ finish < typed

(* Each character typed is in one place, and the places are in order.      *)
Placed ==
  /\ \A i, j \in Read : i < j => received[i] < received[j]
  /\ \A i, j \in Slots : i < j => slots[i] < slots[j]
  /\ \A i \in Read, j \in Slots : received[i] < slots[j]
  /\ \A i \in Read : received[i] \in 1 .. typed /\ (Carrying => received[i] < typed)
  /\ \A j \in Slots : slots[j] \in 1 .. typed /\ (Carrying => slots[j] < typed)
  /\ \A x \in 1 .. typed : x \notin dropped <=>
       \/ \E i \in Read : received[i] = x
       \/ \E j \in Slots : slots[j] = x
       \/ Carrying /\ x = typed
  /\ dropped \subseteq 1 .. typed

(* What the simulation has seen of the queue is still there.               *)
Seen ==
  /\ {"avail", "fetched"} \subseteq DOMAIN ctx
  /\ phase \in {"access", "pop", "checkout"} /\ ctx.avail => start < finish
  /\ phase \in {"access", "pop"} /\ ctx.fetched => start < finish /\ rxd = slots[start + 1]
  /\ phase = "checkout" => ~ctx.fetched

InputInv == Counted /\ Placed /\ Seen

(* A step that leaves every character where it is.                         *)
LEMMA CharactersStay ==
  ASSUME InputInv, UNCHANGED <<typed, queueVars, received, dropped, lock, end, c>>,
         (at' = "fn" /\ fn' = "push") <=> (at = "fn" /\ fn = "push"),
         Carrying' <=> Carrying
  PROVE  Counted' /\ Placed'
<1>1. Counted'
  BY DEF InputInv, Counted, queueVars
<1>2. Placed'
  BY DEF InputInv, Placed, Slots, Read, queueVars
<1> QED
  BY <1>1, <1>2

(* The thread, at any point between two steps of the simulation.           *)
LEMMA ThreadKeepsInput ==
  ASSUME InputInv, ThreadReads \/ ThreadRuns
  PROVE  InputInv'
<1>1. UNCHANGED <<phase, ctx, rxd, received, dropped>>
  BY DEF ThreadReads, ThreadRuns, simVars, history
<1>2. ASSUME UNCHANGED <<typed, queueVars, lock, end, c>>,
             (at' = "fn" /\ fn' = "push") <=> (at = "fn" /\ fn = "push"),
             Carrying' <=> Carrying
      PROVE  InputInv'
  <2>1. Counted' /\ Placed'
    BY <1>1, <1>2, CharactersStay
  <2>2. Seen'
    BY <1>1, <1>2 DEF InputInv, Seen, queueVars
  <2> QED
    BY <2>1, <2>2 DEF InputInv
<1>3. CASE ThreadTest
  <2>1. UNCHANGED <<typed, queueVars, lock, end, c>> /\ at = "test" /\ fn' = "fgetc"
    BY <1>3 DEF ThreadTest, Test
  <2> QED
    BY <1>2, <2>1 DEF Carrying
<1>4. CASE Eof
  <2>1. UNCHANGED <<typed, queueVars, lock, end, c>> /\ at' = "test" /\ fn = "fgetc"
    BY <1>4 DEF Eof, FnReturns, threadVars
  <2> QED
    BY <1>2, <2>1 DEF Carrying
<1>5. CASE CloseInput
  <2>1. UNCHANGED <<typed, queueVars, lock, end, c>> /\ at' = "ended" /\ at = "final"
    BY <1>5 DEF CloseInput, Finish, threadVars
  <2> QED
    BY <1>2, <2>1 DEF Carrying
<1>6. CASE Fgetc
  <2>1. /\ at = "fn" /\ fn = "fgetc" /\ at' = "fn" /\ fn' = "lock"
        /\ typed < MaxTyped /\ typed' = typed + 1 /\ c' = typed + 1
        /\ UNCHANGED <<slots, start, finish, lock, end>>
    BY <1>6 DEF Fgetc, workerVars, queueVars
  <2>2. ~Carrying /\ Carrying' /\ Counted /\ Placed /\ Seen
    BY <2>1 DEF Carrying, InputInv
  <2>3. Counted'
    BY <1>1, <2>1, <2>2, ConfregAssumption DEF Counted
  <2>4. Placed'
    BY <1>1, <2>1, <2>2 DEF Placed, Counted, Slots, Read
  <2>5. Seen'
    BY <1>1, <2>1, <2>2 DEF Seen
  <2> QED
    BY <2>3, <2>4, <2>5 DEF InputInv
<1>7. CASE Lock
  <2>1. /\ at = "fn" /\ fn = "lock" /\ at' = "fn" /\ fn' = "push"
        /\ lock' = "thread" /\ end' = finish
        /\ UNCHANGED <<slots, start, finish, c, typed>>
    BY <1>7 DEF Lock, workerVars, queueVars
  <2>2. Carrying /\ Carrying' /\ Counted /\ Placed /\ Seen
    BY <2>1 DEF Carrying, InputInv
  <2>3. Counted'
    BY <1>1, <2>1, <2>2 DEF Counted
  <2>4. Placed'
    BY <1>1, <2>1, <2>2 DEF Placed, Slots, Read
  <2>5. Seen'
    BY <1>1, <2>1, <2>2 DEF Seen
  <2> QED
    BY <2>3, <2>4, <2>5 DEF InputInv
<1>8. CASE Push
  <2>1. /\ at = "fn" /\ fn = "push" /\ at' = "test"
        /\ slots' = [slots EXCEPT ![end + 1] = c] /\ finish' = end + 1 /\ lock' = "free"
        /\ UNCHANGED <<start, typed>>
    BY <1>8 DEF Push, FnReturns, threadVars
  <2>2. Carrying /\ ~Carrying' /\ Counted /\ Placed /\ Seen
    BY <2>1 DEF Carrying, InputInv
  <2>3. end = finish /\ c = typed /\ finish < typed /\ finish + 1 \in Chars
    BY <2>1, <2>2, ConfregAssumption DEF Counted, Chars
  <2>4. /\ finish' = finish + 1 /\ DOMAIN slots' = Chars
        /\ slots'[finish + 1] = typed
        /\ \A i : i # finish + 1 /\ i \in Chars => slots'[i] = slots[i]
    BY <2>1, <2>2, <2>3 DEF Counted
  <2>5. /\ \A i \in Slots : slots'[i] = slots[i]
        /\ \A i : i \in Slots' <=> i \in Slots \/ i = finish + 1
    BY <2>1, <2>2, <2>4, ConfregAssumption DEF Counted, Slots, Chars
  <2>6. Counted'
    BY <1>1, <2>1, <2>2, <2>3, <2>4 DEF Counted
  <2>7. Placed'
    <3>1. Read' = Read /\ received' = received
      BY <1>1 DEF Read
    <3>2. \A i, j \in Slots' : i < j => slots'[i] < slots'[j]
      BY <2>2, <2>4, <2>5 DEF Placed, Counted, Slots
    <3>3. \A i \in Read, j \in Slots' : received[i] < slots'[j]
      BY <2>2, <2>4, <2>5 DEF Placed
    <3>4. \A j \in Slots' : slots'[j] \in 1 .. typed
      BY <2>2, <2>3, <2>4, <2>5 DEF Placed, Counted
    <3>5. \A x \in 1 .. typed : x \notin dropped <=>
             \/ \E i \in Read : received[i] = x
             \/ \E j \in Slots' : slots'[j] = x
      BY <2>2, <2>4, <2>5 DEF Placed
    <3> QED
      BY <1>1, <2>1, <2>2, <3>1, <3>2, <3>3, <3>4, <3>5 DEF Placed
  <2>8. Seen'
    <3>1. start < finish => start + 1 \in Slots
      BY <2>2 DEF Counted, Slots
    <3> QED
      BY <1>1, <2>1, <2>2, <2>4, <2>5, <3>1 DEF Seen, Counted
  <2> QED
    BY <2>6, <2>7, <2>8 DEF InputInv
<1> QED
  BY <1>3, <1>4, <1>5, <1>6, <1>7, <1>8 DEF ThreadReads, ThreadRuns

(* sync pops the character the program has read.                           *)
LEMMA PopKeepsInput ==
  ASSUME InputInv, PopRead, Rest, UNCHANGED workerVars
  PROVE  aborted' = aborted /\ InputInv'
<1>1. Counted /\ Placed /\ Seen
  BY DEF InputInv
<1>2. start < finish /\ rxd = slots[start + 1] /\ start + 1 \in Slots
  BY <1>1 DEF PopRead, Seen, Counted, Slots
<1>3. /\ start' = start + 1 /\ received' = Append(received, rxd)
      /\ UNCHANGED <<ctx, slots, finish, typed, lock, fn, c, end, at, dropped, aborted>>
      /\ phase' = "commit"
  BY <1>2 DEF PopRead, Rest, workerVars, threadVars
<1>4. /\ Carrying' = Carrying
      /\ \A j : j \in Slots <=> j \in Slots' \/ j = start + 1
      /\ start + 1 \notin Slots' /\ \A j \in Slots' : start + 1 < j
  BY <1>1, <1>2, <1>3 DEF Counted, Slots, Carrying
<1>5. rxd \in 1 .. typed /\ rxd \in Nat /\ (Carrying => rxd < typed)
  BY <1>1, <1>2 DEF Placed, Counted
<1>6. /\ received' \in Seq(Nat) /\ Len(received') = Len(received) + 1
      /\ received'[Len(received) + 1] = rxd /\ Len(received) \in Nat
      /\ \A i \in Read : received'[i] = received[i]
  BY <1>1, <1>3, <1>5, AppendProperties, LenProperties DEF Counted, Read
<1>7. /\ \A i : i \in Read' <=> i \in Read \/ i = Len(received) + 1
      /\ \A i \in Read : i < Len(received) + 1 /\ i \in Nat
  BY <1>6 DEF Read
<1>8. Counted'
  BY <1>1, <1>2, <1>3, <1>4, <1>6 DEF Counted
<1>9. Placed'
  <2>1. \A i, j \in Read' : i < j => received'[i] < received'[j]
    BY <1>1, <1>2, <1>6, <1>7 DEF Placed
  <2>2. \A i \in Read', j \in Slots' : received'[i] < slots[j]
    BY <1>1, <1>2, <1>4, <1>6, <1>7 DEF Placed
  <2>3. \A i \in Read' : received'[i] \in 1 .. typed /\ (Carrying => received'[i] < typed)
    BY <1>1, <1>5, <1>6, <1>7 DEF Placed
  <2>4. \A x \in 1 .. typed : x \notin dropped <=>
           \/ \E i \in Read' : received'[i] = x
           \/ \E j \in Slots' : slots[j] = x
           \/ Carrying /\ x = typed
    BY <1>1, <1>2, <1>4, <1>6, <1>7 DEF Placed
  <2> QED
    BY <1>1, <1>3, <1>4, <2>1, <2>2, <2>3, <2>4 DEF Placed
<1>10. Seen'
  BY <1>1, <1>3 DEF Seen
<1> QED
  BY <1>3, <1>8, <1>9, <1>10 DEF InputInv

(* A reset empties the queue under the thread.                             *)
LEMMA ResetKeepsInput ==
  ASSUME InputInv, Reset, Rest, UNCHANGED workerVars
  PROVE  InputInv'
<1>1. Counted /\ Placed /\ Seen
  BY DEF InputInv
<1>2. /\ lock = "free" /\ finish' = start /\ ctx' = NewContext /\ phase' = "access"
      /\ dropped' = dropped \cup {slots[i] : i \in Slots}
      /\ UNCHANGED <<slots, start, typed, lock, fn, c, end, at, received>>
  BY DEF Reset, Clear, Rest, workerVars, threadVars, Slots
<1>3. Carrying' = Carrying /\ Slots' = {} /\ Read' = Read
  BY <1>1, <1>2 DEF Counted, Slots, Carrying, Read
<1>4. Counted'
  BY <1>1, <1>2, <1>3 DEF Counted
<1>5. Placed'
  <2>1. \A x \in 1 .. typed : x \notin dropped' <=>
           \/ \E i \in Read : received[i] = x
           \/ Carrying /\ x = typed
    BY <1>1, <1>2 DEF Placed, Counted
  <2>2. dropped' \subseteq 1 .. typed
    BY <1>1, <1>2 DEF Placed
  <2> QED
    BY <1>1, <1>2, <1>3, <2>1, <2>2 DEF Placed
<1>6. Seen'
  BY <1>2 DEF Seen, NewContext
<1> QED
  BY <1>4, <1>5, <1>6 DEF InputInv

(* The steps of the simulation that do not touch the queue.                *)
LEMMA CycleKeepsInput ==
  ASSUME InputInv, UNCHANGED <<typed, queueVars, received, dropped, lock, fn, c, end, at>>,
         \/ EndAccess \/ NoPop \/ Commit \/ Checkout \/ LoadRxd
         \/ phase' = "gone" /\ ctx' = ctx
         \/ UNCHANGED <<phase, ctx, rxd>>
         \/ \E r, w : Store(r, w)
  PROVE  InputInv'
<1>1. Counted' /\ Placed'
  BY CharactersStay DEF Carrying
<1>2. Seen /\ UNCHANGED <<start, finish, slots>>
  BY DEF InputInv, queueVars
<1>3. Seen'
  <2>1. CASE EndAccess
    BY <1>2, <2>1 DEF EndAccess, Seen
  <2>2. CASE NoPop
    BY <1>2, <2>2 DEF NoPop, Seen
  <2>3. CASE Commit
    BY <1>2, <2>3 DEF Commit, NextContext, Seen
  <2>4. CASE Checkout
    BY <1>2, <2>4 DEF Checkout, Seen
  <2>5. CASE LoadRxd
    BY <1>2, <2>5 DEF LoadRxd, load, HasChar, GetChar, Registers, Seen
  <2>6. CASE phase' = "gone" /\ ctx' = ctx
    BY <1>2, <2>6 DEF Seen
  <2>7. CASE UNCHANGED <<phase, ctx, rxd>>
    BY <1>2, <2>7 DEF Seen
  <2>8. ASSUME NEW r, NEW w, Store(r, w) PROVE Seen'
    <3>1. phase = "access" /\ phase' = "pop" /\ rxd' = rxd
      BY <2>8 DEF Store
    <3>2. /\ ctx'.avail = ctx.avail /\ ctx'.fetched = ctx.fetched
          /\ {"avail", "fetched"} \subseteq DOMAIN ctx'
      BY <1>2, <2>8 DEF Store, Seen
    <3> QED
      BY <1>2, <3>1, <3>2 DEF Seen
  <2> QED
    BY <2>1, <2>2, <2>3, <2>4, <2>5, <2>6, <2>7, <2>8
<1> QED
  BY <1>1, <1>3 DEF InputInv

(* No character at the start.                                              *)
LEMMA InputStarts == Init => InputInv
<1> SUFFICES ASSUME Init PROVE InputInv
  OBVIOUS
<1>1. /\ phase = "access" /\ ctx = NewContext /\ start = 0 /\ finish = 0 /\ lock = "free"
      /\ at = "none" /\ typed = 0 /\ received = <<>> /\ dropped = {}
      /\ slots = [i \in Chars |-> 0]
  BY DEF Init, WorkerInit
<1>2. received \in Seq(Nat) /\ Len(received) = 0
  BY <1>1, EmptySeq
<1>3. ~Carrying /\ Slots = {} /\ Read = {}
  BY <1>1, <1>2 DEF Carrying, Slots, Read
<1>4. Counted
  BY <1>1, <1>2, <1>3, ConfregAssumption DEF Counted
<1>5. Placed
  BY <1>1, <1>3 DEF Placed
<1>6. Seen
  BY <1>1 DEF Seen, NewContext
<1> QED
  BY <1>4, <1>5, <1>6 DEF InputInv

(* No step puts characters out of order.                                   *)
LEMMA InputSteps == InputInv /\ [Next]_vars => InputInv'
<1> SUFFICES ASSUME InputInv, [Next]_vars PROVE InputInv'
  OBVIOUS
<1>1. CASE ThreadReads \/ ThreadRuns
  BY <1>1, ThreadKeepsInput
<1>2. CASE Cycle
  <2>1. Rest /\ UNCHANGED workerVars
    BY <1>2 DEF Cycle
  <2>2. CASE PopRead
    BY <2>1, <2>2, PopKeepsInput
  <2>3. CASE EndAccess \/ NoPop \/ Commit \/ Checkout
    <3>1. UNCHANGED <<typed, queueVars, received, dropped, lock, fn, c, end, at>>
      BY <2>1, <2>3 DEF EndAccess, NoPop, Commit, Checkout, Rest, workerVars, threadVars, history
    <3> QED
      BY <2>3, <3>1, CycleKeepsInput
  <2> QED
    BY <1>2, <2>2, <2>3 DEF Cycle
<1>3. CASE Program
  <2>1. Rest /\ UNCHANGED workerVars
    BY <1>3 DEF Program
  <2>2. CASE Reset
    BY <2>1, <2>2, ResetKeepsInput
  <2>3. CASE LoadRxd
    <3>1. UNCHANGED <<typed, queueVars, received, dropped, lock, fn, c, end, at>>
      BY <2>1, <2>3 DEF LoadRxd, Rest, workerVars, threadVars, history
    <3> QED
      BY <2>3, <3>1, CycleKeepsInput
  <2>4. ASSUME NEW r, NEW w, Store(r, w) PROVE InputInv'
    <3>1. UNCHANGED <<typed, queueVars, received, dropped, lock, fn, c, end, at>>
      BY <2>1, <2>4 DEF Store, Rest, workerVars, threadVars
    <3> QED
      BY <2>4, <3>1, CycleKeepsInput
  <2> QED
    BY <1>3, <2>2, <2>3, <2>4 DEF Program
<1>4. CASE OpenPty
  <2>1. /\ UNCHANGED <<typed, queueVars, received, dropped, lock, fn, c, end, phase, ctx, rxd>>
        /\ at = "none" /\ (at' = "test" \/ at' = at)
    BY <1>4 DEF OpenPty, simVars, threadVars, history, workerVars, Start
  <2>2. Counted' /\ Placed'
    BY <2>1, CharactersStay DEF Carrying
  <2>3. Seen'
    BY <2>1 DEF InputInv, Seen, queueVars
  <2> QED
    BY <2>2, <2>3 DEF InputInv
<1>5. CASE Destroy /\ Rest
  <2>1. /\ UNCHANGED <<typed, queueVars, received, dropped, lock, fn, c, end, at>>
        /\ phase' = "gone" /\ ctx' = ctx
    BY <1>5 DEF Destroy, Stop, Rest, threadVars, history
  <2> QED
    BY <2>1, CycleKeepsInput
<1>6. CASE UNCHANGED vars
  <2>1. UNCHANGED <<typed, queueVars, received, dropped, lock, fn, c, end, at, phase, ctx, rxd>>
    BY <1>6 DEF vars, simVars, workerVars, threadVars, history
  <2> QED
    BY <2>1, CycleKeepsInput
<1> QED
  BY <1>1, <1>2, <1>3, <1>4, <1>5, <1>6 DEF Next

-----------------------------------------------------------------------------
(* Sequences in order, one after the other.                                *)
Ordered(s) == \A i, j \in DOMAIN s : i < j => s[i] < s[j]

(* Two ordered sequences in a row, the first below the second.             *)
LEMMA OrderedConcat ==
  ASSUME NEW s \in Seq(Nat), Ordered(s), NEW t \in Seq(Nat), Ordered(t),
         \A i \in DOMAIN s, j \in DOMAIN t : s[i] < t[j]
  PROVE  s \o t \in Seq(Nat) /\ Ordered(s \o t) /\ Range(s \o t) = Range(s) \cup Range(t)
<1> DEFINE m == Len(s)
           n == Len(t)
           u == s \o t
<1>1. m \in Nat /\ n \in Nat /\ DOMAIN s = 1 .. m /\ DOMAIN t = 1 .. n
  BY LenProperties
<1>2. /\ u \in Seq(Nat) /\ Len(u) = m + n
      /\ \A i \in 1 .. m + n : u[i] = IF i <= m THEN s[i] ELSE t[i - m]
  BY ConcatProperties
<1>3. DOMAIN u = 1 .. m + n
  BY <1>2, LenProperties
<1> HIDE DEF m, n, u
<1>4. \A i \in 1 .. m : i \in DOMAIN u /\ u[i] = s[i]
  BY <1>1, <1>2, <1>3
<1>5. \A j \in 1 .. n : m + j \in DOMAIN u /\ u[m + j] = t[j]
  BY <1>1, <1>2, <1>3
<1>6. \A i \in DOMAIN u : \/ i \in 1 .. m /\ u[i] = s[i]
                          \/ i > m /\ i - m \in 1 .. n /\ u[i] = t[i - m]
  <2> SUFFICES ASSUME NEW i \in 1 .. m + n
               PROVE  \/ i \in 1 .. m /\ u[i] = s[i]
                      \/ i > m /\ i - m \in 1 .. n /\ u[i] = t[i - m]
    BY <1>3
  <2>1. u[i] = IF i <= m THEN s[i] ELSE t[i - m]
    BY <1>2
  <2>2. i \in 1 .. m \/ (i > m /\ i - m \in 1 .. n)
    BY <1>1
  <2> QED
    BY <1>1, <2>1, <2>2
<1>7. Ordered(u)
  <2> SUFFICES ASSUME NEW i \in DOMAIN u, NEW j \in DOMAIN u, i < j PROVE u[i] < u[j]
    BY DEF Ordered
  <2>1. i \in Nat /\ j \in Nat
    BY <1>1, <1>3
  <2>2. CASE i \in 1 .. m /\ j \in 1 .. m
    BY <1>1, <1>4, <2>2 DEF Ordered
  <2>3. CASE i \in 1 .. m /\ j > m
    BY <1>1, <1>4, <1>6, <2>1, <2>3
  <2>4. CASE i > m /\ j > m
    <3>1. i - m \in 1 .. n /\ j - m \in 1 .. n /\ i - m < j - m
      BY <1>1, <1>6, <2>1, <2>4
    <3>2. u[i] = t[i - m] /\ u[j] = t[j - m]
      BY <1>1, <1>6, <2>1, <2>4
    <3> QED
      BY <1>1, <3>1, <3>2 DEF Ordered
  <2> QED
    BY <1>1, <1>3, <2>1, <2>2, <2>3, <2>4
<1>8. Range(u) = Range(s) \cup Range(t)
  <2>1. ASSUME NEW x \in Range(u) PROVE x \in Range(s) \cup Range(t)
    BY <1>1, <1>6, <2>1 DEF Range
  <2>2. Range(s) \subseteq Range(u)
    BY <1>1, <1>4 DEF Range
  <2>3. Range(t) \subseteq Range(u)
    BY <1>1, <1>5 DEF Range
  <2> QED
    BY <2>1, <2>2, <2>3
<1> QED
  BY <1>2, <1>7, <1>8 DEF u

(* The invariant says what the program may see.                            *)
LEMMA InputOrdered == InputInv => InputInOrder
<1> SUFFICES ASSUME InputInv PROVE InputInOrder
  OBVIOUS
<1> DEFINE n == finish - start
<1>1. Counted /\ Placed /\ Seen
  BY DEF InputInv
<1>2. n \in Nat /\ received \in Seq(Nat) /\ DOMAIN received = Read
  BY <1>1, LenProperties DEF Counted, Read
<1>3. /\ Queued \in Seq(Nat) /\ DOMAIN Queued = 1 .. n
      /\ \A j \in 1 .. n : Queued[j] = slots[start + j] /\ start + j \in Slots
      /\ \A j \in Slots : j - start \in 1 .. n /\ Queued[j - start] = slots[j]
  <2>1. \A j \in 1 .. n : start + j \in Slots
    BY <1>1 DEF Counted, Slots
  <2>2. \A j \in Slots : j - start \in 1 .. n /\ start + (j - start) = j
    BY <1>1 DEF Counted, Slots
  <2>3. Queued = [j \in 1 .. n |-> slots[start + j]]
    BY DEF Queued
  <2>4. ASSUME NEW j \in 1 .. n PROVE slots[start + j] \in Nat
    <3>1. slots[start + j] \in 1 .. typed
      BY <1>1, <2>1 DEF Placed
    <3> QED
      BY <3>1
  <2> HIDE DEF n
  <2>5. Queued \in Seq(Nat)
    BY <1>2, <2>3, <2>4
  <2> QED
    BY <2>1, <2>2, <2>3, <2>5
<1>4. Held = IF Carrying THEN <<typed>> ELSE <<>>
  BY <1>1 DEF Held, Carrying, Counted
<1>5. Held \in Seq(Nat) /\ Ordered(Held) /\ Range(Held) = IF Carrying THEN {typed} ELSE {}
  <2>1. CASE Carrying
    BY <1>1, <1>4, <2>1 DEF Ordered, Range, Counted
  <2>2. CASE ~Carrying
    BY <1>4, <2>2 DEF Ordered, Range
  <2> QED
    BY <2>1, <2>2
<1>6. Ordered(received)
  BY <1>1, <1>2 DEF Placed, Ordered
<1>7. Ordered(Queued)
  <2> SUFFICES ASSUME NEW i \in 1 .. n, NEW j \in 1 .. n, i < j PROVE Queued[i] < Queued[j]
    BY <1>3 DEF Ordered
  <2>1. start + i < start + j
    BY <1>1 DEF Counted
  <2> QED
    BY <1>1, <1>3, <2>1 DEF Placed
<1> HIDE DEF n
<1> DEFINE front == received \o Queued
           all == front \o Held
<1>8. /\ front \in Seq(Nat) /\ Ordered(front)
      /\ Range(front) = Range(received) \cup Range(Queued)
  <2>1. \A i \in DOMAIN received, j \in DOMAIN Queued : received[i] < Queued[j]
    BY <1>1, <1>2, <1>3 DEF Placed
  <2> QED
    BY <1>2, <1>3, <1>6, <1>7, <2>1, OrderedConcat
<1>9. Range(Queued) = {slots[j] : j \in Slots}
  BY <1>3 DEF Range
<1>10. Range(received) = {received[i] : i \in Read}
  BY <1>2 DEF Range
<1>11. \A x \in Range(front) : x \in (1 .. typed) \ dropped /\ (Carrying => x < typed)
  BY <1>1, <1>8, <1>9, <1>10 DEF Placed
<1> HIDE DEF front
<1>12. Ordered(all) /\ Range(all) = Range(front) \cup Range(Held)
  <2>1. \A i \in DOMAIN front, j \in DOMAIN Held : front[i] < Held[j]
    BY <1>5, <1>11 DEF Range
  <2> QED
    BY <1>5, <1>8, <2>1, OrderedConcat
<1>13. Range(all) = (1 .. typed) \ dropped
  <2>1. Carrying => typed \in (1 .. typed) \ dropped
    BY <1>1 DEF Placed, Counted
  <2>2. \A x \in (1 .. typed) \ dropped : x \in Range(front) \/ (Carrying /\ x = typed)
    BY <1>1, <1>8, <1>9, <1>10 DEF Placed
  <2> QED
    BY <1>5, <1>11, <1>12, <2>1, <2>2
<1>14. phase \in {"access", "pop"} /\ (ctx.avail \/ ctx.fetched) => start < finish
  BY <1>1 DEF Seen
<1> QED
  BY <1>12, <1>13, <1>14 DEF InputInOrder, Ordered, front, all

(* The program reads the characters typed at the terminal in order and     *)
(* once each, but for those a reset drops, however the thread that pushes  *)
(* them, the loads and the resets interleave; and sync never pops from an  *)
(* empty queue (confreg.cpp:102-108, 155-160, 194-201).                    *)
THEOREM CharactersInOrder == Spec => []InputInOrder
<1> QED
  BY InputStarts, InputSteps, InputOrdered, PTL DEF Spec

ResetCount == resets \in Nat

(* Resets are counted, and only go up.                                     *)
LEMMA ResetsCounted == ResetCount /\ [Next]_vars => ResetCount'
<1> SUFFICES ASSUME resets \in Nat, [Next]_vars PROVE resets' \in Nat
  BY DEF ResetCount
<1>1. CASE Cycle
  BY <1>1 DEF Cycle, EndAccess, PopRead, NoPop, Commit, Checkout, history
<1>2. CASE Program
  <2>1. ASSUME NEW r, NEW w, Store(r, w) PROVE resets' = resets
    BY <2>1 DEF Store
  <2> QED
    BY <1>2, <2>1 DEF Program, LoadRxd, Reset, history
<1>3. CASE OpenPty \/ Destroy \/ ThreadReads \/ ThreadRuns \/ UNCHANGED vars
  BY <1>3 DEF OpenPty, Destroy, ThreadReads, ThreadRuns, vars, history
<1> QED
  BY <1>1, <1>2, <1>3 DEF Next

(* A load gives the same when it is evaluated again in its cycle, whatever *)
(* the thread has done in between (cbus_device.cpp:23, confreg.cpp:34-51): *)
(* whether there is a character is as of the last sync, and a character    *)
(* that was there stays at the front of the queue until the next.          *)
THEOREM LoadsAreRepeatable == Spec => LoadsRepeat
<1> DEFINE Same == phase = "access" /\ phase' = "access" /\ resets' = resets
                     => \A r \in Registers \cup {"UART_LSR", "UART_RXD"} : load(r)' = load(r)
<1>1. InputInv /\ ResetCount /\ [Next]_vars => [Same]_vars
  <2> SUFFICES ASSUME InputInv, resets \in Nat, Next, phase = "access", phase' = "access",
                      resets' = resets,
                      NEW r \in Registers \cup {"UART_LSR", "UART_RXD"}
               PROVE  load(r)' = load(r)
    BY DEF ResetCount
  <2>1. ASSUME ctx'.avail = ctx.avail, mem' = mem,
               ctx.avail => start' = start /\ slots'[start + 1] = slots[start + 1]
        PROVE  load(r)' = load(r)
    BY <2>1 DEF load, HasChar, GetChar
  <2>2. Counted /\ Seen
    BY DEF InputInv
  <2>3. CASE Push /\ UNCHANGED <<simVars, opty, history>>
    <3>1. /\ slots' = [slots EXCEPT ![end + 1] = c] /\ start' = start
          /\ at = "fn" /\ fn = "push" /\ ctx' = ctx /\ mem' = mem
      BY <2>3 DEF Push, FnReturns, simVars
    <3>2. end = finish /\ (ctx.avail => start < finish)
      BY <2>2, <3>1 DEF Counted, Seen
    <3>3. ctx.avail => slots'[start + 1] = slots[start + 1]
      BY <2>2, <3>1, <3>2 DEF Counted
    <3> QED
      BY <2>1, <3>1, <3>3
  <2>4. CASE (Fgetc \/ Eof \/ ThreadTest \/ Lock \/ CloseInput)
               /\ UNCHANGED <<simVars, opty, history>>
    <3>1. UNCHANGED <<ctx, mem, start, slots>>
      BY <2>4 DEF Fgetc, Eof, ThreadTest, Lock, CloseInput, simVars, queueVars
    <3> QED
      BY <2>1, <3>1
  <2>5. CASE OpenPty
    BY <2>1, <2>5 DEF OpenPty, simVars, queueVars
  <2>6. CASE LoadRxd
    BY <2>1, <2>2, <2>6 DEF LoadRxd, Seen, queueVars
  <2>7. ~Reset
    BY DEF Reset
  <2>8. ~Cycle /\ ~Destroy /\ \A q, w : ~Store(q, w)
    BY DEF Cycle, EndAccess, PopRead, NoPop, Commit, Checkout, Destroy, Store
  <2> QED
    BY <2>3, <2>4, <2>5, <2>6, <2>7, <2>8 DEF Next, Program, ThreadReads, ThreadRuns
<1>2. Init => ResetCount
  BY DEF Init, ResetCount
<1>3. Spec => [](InputInv /\ ResetCount)
  BY <1>2, InputStarts, InputSteps, ResetsCounted, PTL DEF Spec
<1> QED
  BY <1>1, <1>3, PTL DEF Spec, LoadsRepeat
-----------------------------------------------------------------------------
(* Output: what has been stored is on its way to be shown, in one place.   *)
Unshown(x) == IF x.vwritten /\ x.vdata \in Ascii THEN Append(shown, x.vdata) ELSE shown

OutputInv ==
  /\ {"written", "data", "vwritten", "vdata"} \subseteq DOMAIN ctx
  /\ mem = [r \in Registers |-> mem[r]] /\ latest = [r \in Registers |-> latest[r]]
  /\ phase \in {"access", "checkout"} =>
       ~ctx.written /\ ~ctx.vwritten /\ changes = <<>> /\ mem = latest
  /\ phase = "access" => shown = put
  /\ phase \in {"pop", "commit"} =>
       /\ ~(ctx.written /\ ctx.vwritten) /\ latest = Changed
       /\ put = IF ctx.written
                THEN IF opty THEN Append(shown, ctx.data) ELSE shown
                ELSE Unshown(ctx)
  /\ phase = "checkout" => put = Unshown(ctx0)

(* Without pending changes the memory is what is committed.                *)
LEMMA NoChange == ASSUME changes = <<>>, mem = [r \in Registers |-> mem[r]] PROVE Changed = mem
<1>1. \A r : ChangesTo(r) = {}
  BY DEF ChangesTo
<1> QED
  BY <1>1 DEF Changed

(* One pending change is one register.                                     *)
LEMMA OneChange ==
  ASSUME changes = <<>>, NEW r, NEW d, changes' = Append(changes, <<r, d>>), mem' = mem
  PROVE  Changed' = [q \in Registers |-> IF q = r THEN d ELSE mem[q]]
<1>1. changes' = <<<<r, d>>>>
  OBVIOUS
<1>2. ASSUME NEW q PROVE ChangesTo(q)' = IF q = r THEN {1} ELSE {}
  BY <1>1 DEF ChangesTo
<1>3. Max({1}) = 1
  BY DEF Max
<1>4. ASSUME NEW q
      PROVE  (IF ChangesTo(q)' = {} THEN mem[q] ELSE changes'[Max(ChangesTo(q)')][2])
               = IF q = r THEN d ELSE mem[q]
  <2>1. CASE q = r
    <3>1. ChangesTo(q)' = {1} /\ {1} # {}
      BY <1>2, <2>1
    <3>2. changes'[1][2] = d
      BY <1>1
    <3> QED
      BY <1>3, <2>1, <3>1, <3>2
  <2>2. CASE q # r
    BY <1>2, <2>2
  <2> QED
    BY <2>1, <2>2
<1> QED
  BY <1>4 DEF Changed

(* A store to any of the registers.                                        *)
LEMMA StoreKeepsOutput ==
  ASSUME OutputInv, NEW r, NEW w, Store(r, w), opty' = opty
  PROVE  OutputInv'
<1>1. /\ phase = "access" /\ phase' = "pop" /\ mem' = mem /\ shown' = shown
      /\ changes = <<>> /\ mem = latest /\ shown = put /\ ~ctx.written /\ ~ctx.vwritten
      /\ mem = [q \in Registers |-> mem[q]]
  BY DEF Store, OutputInv
<1>2. CASE r = "UART_TXD"
  <2>1. /\ ctx' = [ctx EXCEPT !.written = TRUE, !.data = w[2]]
        /\ put' = IF opty THEN Append(put, w[2]) ELSE put
        /\ changes' = changes /\ latest' = latest
    BY <1>2 DEF Store
  <2>2. /\ ctx'.written /\ ~ctx'.vwritten /\ ctx'.data = w[2]
        /\ {"written", "data", "vwritten", "vdata"} \subseteq DOMAIN ctx'
    BY <1>1, <2>1 DEF OutputInv
  <2>3. Changed' = mem'
    <3>1. \A q : ChangesTo(q)' = {}
      BY <1>1, <2>1 DEF ChangesTo
    <3> QED
      BY <1>1, <3>1 DEF Changed
  <2> QED
    BY <1>1, <2>1, <2>2, <2>3 DEF OutputInv
<1>3. CASE r # "UART_TXD"
  <2> DEFINE d == Converted(r, w)
  <2>1. /\ ctx' = CASE r = "VIRTUAL_UART" -> [ctx EXCEPT !.vwritten = TRUE, !.vdata = d[2]]
                    [] r = "NUM" -> [ctx EXCEPT !.num = d]
                    [] r = "NUM_MONITOR" -> [ctx EXCEPT !.monitor = d[2] = 1]
                    [] OTHER -> ctx
        /\ changes' = Append(changes, <<r, d>>)
        /\ put' = IF r = "VIRTUAL_UART" /\ w[2] \in Ascii THEN Append(put, w[2]) ELSE put
        /\ latest' = IF r \in Registers THEN [latest EXCEPT ![r] = d] ELSE latest
    BY <1>3 DEF Store
  <2>2. r = "VIRTUAL_UART" => d[2] = w[2]
    BY DEF Converted
  <2> HIDE DEF d
  <2>3. Changed' = [q \in Registers |-> IF q = r THEN d ELSE mem[q]]
    BY <1>1, <2>1, OneChange
  <2>4. latest' = Changed'
    BY <1>1, <2>1, <2>3
  <2>5. /\ {"written", "data", "vwritten", "vdata"} \subseteq DOMAIN ctx' /\ ~ctx'.written
        /\ IF r = "VIRTUAL_UART" THEN ctx'.vwritten /\ ctx'.vdata = w[2] ELSE ~ctx'.vwritten
    BY <1>1, <2>1, <2>2 DEF OutputInv
  <2>6. put' = Unshown(ctx)'
    BY <1>1, <2>1, <2>5 DEF Unshown
  <2>7. latest' = [q \in Registers |-> latest'[q]]
    BY <2>3, <2>4
  <2> QED
    BY <1>1, <2>4, <2>5, <2>6, <2>7 DEF OutputInv
<1> QED
  BY <1>2, <1>3

(* No step shows a byte twice, or none.                                    *)
LEMMA OutputSteps == OutputInv /\ [Next]_vars => OutputInv'
<1> SUFFICES ASSUME OutputInv, [Next]_vars PROVE OutputInv'
  OBVIOUS
<1> USE DEF Unshown
<1>1. ASSUME UNCHANGED <<phase, ctx, ctx0, mem, changes, shown, put, latest>>,
             opty' = opty \/ phase = "access"
      PROVE  OutputInv'
  BY <1>1 DEF OutputInv, Changed, ChangesTo
<1>2. CASE ThreadReads \/ ThreadRuns \/ OpenPty \/ UNCHANGED vars
  <2>1. /\ UNCHANGED <<phase, ctx, ctx0, mem, changes, shown, put, latest>>
        /\ opty' = opty \/ phase = "access"
    BY <1>2 DEF ThreadReads, ThreadRuns, OpenPty, vars, simVars, history
  <2> QED
    BY <1>1, <2>1
<1>3. CASE Cycle
  <2>1. opty' = opty
    BY <1>3 DEF Cycle
  <2>2. CASE EndAccess
    <3>1. Changed' = Changed /\ Changed = mem
      BY <2>2, NoChange DEF EndAccess, OutputInv, Changed, ChangesTo
    <3> QED
      BY <2>1, <2>2, <3>1 DEF EndAccess, OutputInv, history
  <2>3. CASE PopRead \/ NoPop
    <3>1. Changed' = Changed
      BY <2>3 DEF PopRead, NoPop, Changed, ChangesTo
    <3>2. /\ phase = "pop" /\ phase' = "commit"
          /\ UNCHANGED <<ctx, ctx0, mem, changes, shown, put, latest>>
      BY <2>3 DEF PopRead, NoPop, history
    <3> QED
      BY <2>1, <3>1, <3>2 DEF OutputInv
  <2>4. CASE Commit
    <3>1. /\ phase = "commit" /\ phase' = "checkout" /\ ctx0' = ctx /\ ctx' = NextContext
          /\ shown' = IF ctx.written /\ opty THEN Append(shown, ctx.data) ELSE shown
          /\ mem' = Changed /\ changes' = <<>> /\ put' = put /\ latest' = latest
      BY <2>4 DEF Commit, CommitChanges
    <3>2. /\ {"written", "data", "vwritten", "vdata"} \subseteq DOMAIN ctx'
          /\ ~ctx'.written /\ ~ctx'.vwritten
      BY <3>1 DEF OutputInv, NextContext
    <3>3. mem' = [r \in Registers |-> mem'[r]]
      BY <3>1 DEF OutputInv
    <3>4. put = IF ctx.vwritten /\ ctx.vdata \in Ascii THEN Append(shown', ctx.vdata) ELSE shown'
      BY <3>1 DEF OutputInv
    <3> QED
      BY <3>1, <3>2, <3>3, <3>4 DEF OutputInv
  <2>5. CASE Checkout
    BY <2>5 DEF Checkout, OutputInv
  <2> QED
    BY <1>3, <2>2, <2>3, <2>4, <2>5 DEF Cycle
<1>4. CASE Program
  <2>1. opty' = opty
    BY <1>4 DEF Program
  <2>2. CASE LoadRxd
    BY <2>1, <2>2 DEF LoadRxd, OutputInv, history
  <2>3. CASE Reset
    <3>1. /\ phase = "access" /\ phase' = "access" /\ ctx' = NewContext
          /\ mem' = NewMem /\ latest' = NewMem /\ UNCHANGED <<changes, put, shown>>
      BY <2>3 DEF Reset
    <3>2. NewMem = [r \in Registers |-> NewMem[r]]
      BY DEF NewMem
    <3> QED
      BY <3>1, <3>2 DEF OutputInv, NewContext
  <2>4. ASSUME NEW r, NEW w, Store(r, w) PROVE OutputInv'
    BY <2>1, <2>4, StoreKeepsOutput
  <2> QED
    BY <1>4, <2>2, <2>3, <2>4 DEF Program
<1>5. CASE Destroy
  BY <1>5 DEF Destroy, OutputInv, history
<1> QED
  BY <1>2, <1>3, <1>4, <1>5 DEF Next

(* When a cycle begins each byte stored to a UART has been shown, once and *)
(* in order, and each register holds what was stored to it last: sync and  *)
(* the monitor between them commit every store (confreg.cpp:109-131,       *)
(* model.cpp:155-156).                                                     *)
THEOREM StoresAreShown == Spec => []OutputOnce
<1>1. Init => OutputInv
  BY DEF Init, OutputInv, NewContext, NewMem
<1>2. OutputInv => OutputOnce
  BY DEF OutputInv, OutputOnce
<1> QED
  BY <1>1, <1>2, OutputSteps, PTL DEF Spec
-----------------------------------------------------------------------------
(* The monitor.  Of a program that has not upset the numbering the context *)
(* shows the number completed, or the next one, acknowledged.              *)
Fair(x) ==
  \/ x.num[1] = current
  \/ x.monitor /\ x.num[1] = current + 1 /\ x.num[2] = x.num[1]

MonitorInv ==
  /\ {"num", "monitor"} \subseteq DOMAIN ctx
  /\ wrong \in BOOLEAN /\ (aborted => wrong)
  /\ DOMAIN latest = Registers
  /\ ctx.num = latest["NUM"] /\ latest["NUM_MONITOR"][2] \in {0, 1}
  /\ ctx.monitor = (latest["NUM_MONITOR"][2] = 1)
  /\ ~wrong => /\ phase = "access" => ctx.num[1] = current
               /\ phase \in {"pop", "commit"} => Fair(ctx)
               /\ phase = "checkout" => Fair(ctx0) /\ ctx.num = ctx0.num

(* The monitor of a fresh context agrees with its registers.               *)
LEMMA AtReset ==
  /\ {"num", "monitor"} \subseteq DOMAIN NewContext /\ DOMAIN NewMem = Registers
  /\ NewContext.num = NewMem["NUM"] /\ NewContext.num[1] = 0
  /\ NewMem["NUM_MONITOR"][2] = 1
  /\ NewContext.monitor = (NewMem["NUM_MONITOR"][2] = 1)
<1>1. /\ {"num", "monitor"} \subseteq DOMAIN NewContext /\ NewContext.num = Zero
      /\ NewContext.monitor = TRUE
  BY DEF NewContext
<1>2. DOMAIN NewMem = Registers /\ NewMem["NUM"] = Zero /\ NewMem["NUM_MONITOR"] = <<0, 1>>
  BY DEF NewMem, Registers
<1>3. Zero[1] = 0 /\ <<0, 1>>[2] = 1
  BY DEF Zero
<1>4. NewMem["NUM_MONITOR"][2] = 1
  BY <1>2, <1>3
<1>5. (NewMem["NUM_MONITOR"][2] = 1) = TRUE
  BY <1>4
<1> QED
  BY <1>1, <1>2, <1>3, <1>4, <1>5

(* A store, to the monitor's registers among them.                         *)
LEMMA StoreKeepsMonitor ==
  ASSUME MonitorInv, NEW r, NEW w, w[2] \in Nat, Store(r, w)
  PROVE  MonitorInv'
<1> DEFINE d == Converted(r, w)
<1>1. /\ phase = "access" /\ phase' = "pop" /\ UNCHANGED <<current, aborted>>
      /\ wrong' = (wrong \/ Upsets(r, w))
  BY DEF Store
<1>2. CASE r \notin {"NUM", "NUM_MONITOR"}
  <2>1. /\ {"num", "monitor"} \subseteq DOMAIN ctx' /\ ctx'.num = ctx.num
        /\ ctx'.monitor = ctx.monitor
    BY <1>2 DEF Store, MonitorInv
  <2>2. DOMAIN latest' = Registers
    BY <1>2 DEF Store, MonitorInv
  <2>3. latest'["NUM"] = latest["NUM"] /\ latest'["NUM_MONITOR"] = latest["NUM_MONITOR"]
    BY <1>2 DEF Store, MonitorInv, Registers
  <2>4. Upsets(r, w) = FALSE
    BY <1>2 DEF Upsets
  <2> QED
    BY <1>1, <2>1, <2>2, <2>3, <2>4 DEF MonitorInv, Fair
<1>3. CASE r = "NUM"
  <2>1. d = w
    BY <1>3 DEF Converted
  <2>2. /\ ctx' = [ctx EXCEPT !.num = w] /\ latest' = [latest EXCEPT !["NUM"] = w]
    BY <1>3, <2>1 DEF Store, Registers
  <2>3. /\ {"num", "monitor"} \subseteq DOMAIN ctx' /\ ctx'.num = w /\ ctx'.monitor = ctx.monitor
    BY <2>2 DEF MonitorInv
  <2>4. /\ DOMAIN latest' = Registers /\ latest'["NUM"] = w
        /\ latest'["NUM_MONITOR"] = latest["NUM_MONITOR"]
    BY <2>2 DEF MonitorInv, Registers
  <2>5. ASSUME ~wrong'
        PROVE  Fair(ctx)'
    <3>1. ~wrong /\ ~Upsets(r, w) /\ ctx.num[1] = current
      BY <1>1, <2>5 DEF MonitorInv
    <3>2. CASE w = latest["NUM"]
      BY <1>1, <2>3, <3>1, <3>2 DEF MonitorInv, Fair
    <3>3. CASE w # latest["NUM"]
      <4>1. w = <<latest["NUM"][1] + 1, latest["NUM"][1] + 1>> /\ latest["NUM_MONITOR"][2] # 0
        BY <1>3, <3>1, <3>3 DEF Upsets
      <4>2. w[1] = current + 1 /\ w[2] = current + 1 /\ ctx.monitor
        BY <3>1, <4>1 DEF MonitorInv
      <4> QED
        BY <1>1, <2>3, <4>2 DEF Fair
    <3> QED
      BY <3>2, <3>3
  <2>6. wrong' \in BOOLEAN /\ (wrong => wrong')
    BY <1>1 DEF MonitorInv, Upsets
  <2> QED
    BY <1>1, <2>3, <2>4, <2>5, <2>6 DEF MonitorInv
<1>4. CASE r = "NUM_MONITOR"
  <2>1. d = <<0, w[2] % 2>>
    BY <1>4 DEF Converted
  <2>2. /\ ctx' = [ctx EXCEPT !.monitor = d[2] = 1] /\ latest' = [latest EXCEPT !["NUM_MONITOR"] = d]
    BY <1>4 DEF Store, Registers
  <2>3. d[2] \in {0, 1}
    BY <2>1
  <2> HIDE DEF d
  <2>4. /\ {"num", "monitor"} \subseteq DOMAIN ctx' /\ ctx'.num = ctx.num
        /\ ctx'.monitor = (d[2] = 1)
    BY <2>2 DEF MonitorInv
  <2>5. /\ DOMAIN latest' = Registers /\ latest'["NUM"] = latest["NUM"]
        /\ latest'["NUM_MONITOR"] = d
    BY <2>2 DEF MonitorInv, Registers
  <2>6. Upsets(r, w) = FALSE
    BY <1>4 DEF Upsets
  <2> QED
    BY <1>1, <2>3, <2>4, <2>5, <2>6 DEF MonitorInv, Fair
<1> QED
  BY <1>2, <1>3, <1>4

(* No step makes the monitor see what the program did not do.              *)
LEMMA MonitorSteps == InputInv /\ MonitorInv /\ [Next]_vars => MonitorInv'
<1> SUFFICES ASSUME InputInv, MonitorInv, [Next]_vars PROVE MonitorInv'
  OBVIOUS
<1>1. ASSUME UNCHANGED <<phase, ctx, ctx0, latest, current, aborted, wrong>>
      PROVE  MonitorInv'
  BY <1>1 DEF MonitorInv, Fair
<1>2. CASE ThreadReads \/ ThreadRuns \/ OpenPty \/ UNCHANGED vars
  <2>1. UNCHANGED <<phase, ctx, ctx0, latest, current, aborted, wrong>>
    BY <1>2 DEF ThreadReads, ThreadRuns, OpenPty, vars, simVars, history
  <2> QED
    BY <1>1, <2>1
<1>3. CASE Cycle
  <2>1. CASE EndAccess
    BY <2>1 DEF EndAccess, MonitorInv, Fair, history
  <2>2. CASE NoPop
    BY <2>2 DEF NoPop, MonitorInv, Fair, history
  <2>3. CASE PopRead
    <3>1. aborted' = aborted
      BY <1>3, <2>3, PopKeepsInput DEF Cycle
    <3> QED
      BY <2>3, <3>1 DEF PopRead, MonitorInv, Fair
  <2>4. CASE Commit
    <3>1. /\ phase = "commit" /\ phase' = "checkout" /\ ctx0' = ctx /\ ctx' = NextContext
          /\ UNCHANGED <<current, aborted, latest, wrong>>
      BY <2>4 DEF Commit
    <3>2. /\ {"num", "monitor"} \subseteq DOMAIN ctx'
          /\ ctx'.num = ctx.num /\ ctx'.monitor = ctx.monitor
      BY <3>1 DEF MonitorInv, NextContext
    <3> QED
      BY <3>1, <3>2 DEF MonitorInv, Fair
  <2>5. CASE Checkout
    <3>1. /\ phase = "checkout" /\ phase' = "access" /\ Monitor
          /\ UNCHANGED <<ctx, ctx0, latest, wrong>>
      BY <2>5 DEF Checkout
    <3>2. ASSUME ~wrong PROVE current' = ctx.num[1] /\ aborted' = aborted
      BY <3>1, <3>2 DEF MonitorInv, Fair, Monitor
    <3> QED
      BY <3>1, <3>2 DEF MonitorInv
  <2> QED
    BY <1>3, <2>1, <2>2, <2>3, <2>4, <2>5 DEF Cycle
<1>4. CASE Program
  <2>1. CASE LoadRxd
    <3>1. UNCHANGED <<phase, ctx0, latest, current, aborted, wrong>> /\ phase = "access"
      BY <2>1 DEF LoadRxd, history
    <3>2. /\ {"num", "monitor"} \subseteq DOMAIN ctx'
          /\ ctx'.num = ctx.num /\ ctx'.monitor = ctx.monitor
      BY <2>1 DEF LoadRxd, MonitorInv
    <3> QED
      BY <3>1, <3>2 DEF MonitorInv
  <2>2. CASE Reset
    <3>1. /\ phase = "access" /\ phase' = "access" /\ ctx' = NewContext /\ latest' = NewMem
          /\ wrong' = (wrong \/ current # 0) /\ UNCHANGED <<current, aborted>>
      BY <2>2 DEF Reset
    <3>2. ~wrong' => current' = 0
      BY <3>1
    <3>3. wrong' \in BOOLEAN /\ (aborted' => wrong')
      BY <3>1 DEF MonitorInv
    <3> QED
      BY <3>1, <3>2, <3>3, AtReset DEF MonitorInv
  <2>3. ASSUME NEW s \in Stores, Store(s[1], s[2]) PROVE MonitorInv'
    <3>1. s[2][2] \in Nat
      BY ConfregAssumption
    <3> QED
      BY <2>3, <3>1, StoreKeepsMonitor
  <2> QED
    BY <1>4, <2>1, <2>2, <2>3 DEF Program
<1>5. CASE Destroy
  BY <1>5 DEF Destroy, MonitorInv, history
<1> QED
  BY <1>2, <1>3, <1>4, <1>5 DEF Next

(* A simulation is aborted only for a program that completed a number out  *)
(* of turn, did not acknowledge it, or went on after a reset               *)
(* (model.cpp:141-153): never because of the cycle between a store and the *)
(* monitor's look at it, nor by the assertion of sync (confreg.cpp:104).   *)
THEOREM MonitorAbortsFairly == Spec => []MonitorIsFair
<1>1. Init => MonitorInv
  <2> SUFFICES ASSUME Init PROVE MonitorInv
    OBVIOUS
  <2>1. /\ phase = "access" /\ ctx = NewContext /\ latest = NewMem /\ current = 0
        /\ aborted = FALSE /\ wrong = FALSE
    BY DEF Init
  <2> QED
    BY <2>1, AtReset DEF MonitorInv
<1>2. MonitorInv => MonitorIsFair
  BY DEF MonitorInv, MonitorIsFair
<1> QED
  BY <1>1, <1>2, InputStarts, InputSteps, MonitorSteps, PTL DEF Spec
=============================================================================
