----------------------------- MODULE MemoryProofs -----------------------------
(***************************************************************************)
(* The clients of the memory.  DBusPipeline: the bus and the queue agree,  *)
(* and each task sees the memory of its place in the program, whatever the *)
(* program and however long.  MemLanes: the lanes make it one of bytes.    *)
(***************************************************************************)
EXTENDS DBusPipeline, MemLanes, SequenceTheorems, TLAPS

IsQueue(q) == \E S : q \in Seq(S)
QueueInv == IsQueue(ongoing) /\ "valid" \in DOMAIN dreq /\ HeadOnBus

(* emplace_back keeps the head of a queue that has one.                    *)
LEMMA AppendQueue ==
  ASSUME NEW q, IsQueue(q), NEW t
  PROVE  /\ IsQueue(Append(q, t)) /\ Append(q, t) # <<>>
         /\ Head(Append(q, t)) = IF q = <<>> THEN t ELSE Head(q)
<1>1. PICK S : q \in Seq(S)
  BY DEF IsQueue
<1>2. q \in Seq(S \cup {t}) /\ t \in S \cup {t}
  BY <1>1
<1>3. /\ Append(q, t) \in Seq(S \cup {t})
      /\ Len(Append(q, t)) = Len(q) + 1
      /\ \A i \in 1 .. Len(q) : Append(q, t)[i] = q[i]
      /\ Append(q, t)[Len(q) + 1] = t
  BY <1>2, AppendProperties
<1>4. Len(q) \in Nat /\ (q = <<>> <=> Len(q) = 0)
  BY <1>2, EmptySeq, LenProperties
<1>5. Append(q, t) # <<>>
  BY <1>3, <1>4, EmptySeq
<1>6. Head(Append(q, t)) = Append(q, t)[1]
  BY <1>3, <1>5, HeadTailProperties
<1>7. q # <<>> => Head(q) = q[1]
  BY <1>2, HeadTailProperties
<1>8. IsQueue(Append(q, t))
  BY <1>3 DEF IsQueue
<1> QED
  BY <1>3, <1>4, <1>5, <1>6, <1>7, <1>8

(* pop_front leaves a queue.                                               *)
LEMMA TailQueue ==
  ASSUME NEW q, IsQueue(q), q # <<>>
  PROVE  IsQueue(Tail(q))
BY HeadTailProperties DEF IsQueue

(* submit issues the task when it is the only one.                         *)
LEMMA SubmitKeeps ==
  ASSUME QueueInv, NEW t, submit(t)
  PROVE  QueueInv'
<1> USE DEF QueueInv, HeadOnBus, busy, empty
<1>1. ongoing' = Append(ongoing, t) /\ dreq' = IF busy THEN dreq ELSE Request(t)
  BY DEF submit
<1>2. /\ IsQueue(ongoing') /\ ongoing' # <<>>
      /\ Head(ongoing') = IF ongoing = <<>> THEN t ELSE Head(ongoing)
  BY <1>1, AppendQueue
<1>3. dreq' = Request(Head(ongoing'))
  BY <1>1, <1>2
<1>4. dreq'.valid /\ "valid" \in DOMAIN dreq'
  BY <1>3 DEF Request
<1> QED
  BY <1>2, <1>3, <1>4 DEF Request

(* A tick leaves the request of the queue's head on the bus.               *)
LEMMA TickKeeps ==
  ASSUME QueueInv, NEW data_ok \in BOOLEAN, tick(data_ok)
  PROVE  QueueInv'
<1> USE DEF QueueInv, HeadOnBus, busy, empty
<1>1. IsQueue(ongoing')
  <2>1. CASE data_ok
    <3>1. ongoing # <<>> /\ ongoing' = Tail(ongoing)
      BY <2>1 DEF tick, Pop
    <3> QED
      BY <3>1, TailQueue
  <2>2. CASE ~data_ok
    BY <2>2 DEF tick
  <2> QED
    BY <2>1, <2>2
<1>2. dreq' = reissue(ongoing')
  BY DEF tick
<1>3. CASE ongoing' = <<>>
  <2>1. dreq' = [dreq EXCEPT !.valid = FALSE]
    BY <1>2, <1>3 DEF reissue
  <2>2. ~dreq'.valid /\ "valid" \in DOMAIN dreq'
    BY <2>1
  <2> QED
    BY <1>1, <1>3, <2>2
<1>4. CASE ongoing' # <<>>
  <2>1. /\ dreq' = Request(Head(ongoing'))
        /\ dreq'.valid /\ "valid" \in DOMAIN dreq'
    BY <1>2, <1>4 DEF reissue, Request
  <2> QED
    BY <1>1, <1>4, <2>1 DEF Request
<1> QED
  BY <1>3, <1>4

(* The queue starts empty, and nothing is on the bus.                      *)
LEMMA QueueHolds == Init => QueueInv
BY EmptySeq DEF Init, QueueInv, IsQueue, HeadOnBus, busy, empty

(* No step puts anything but the head's request on the bus.                *)
LEMMA QueueSteps == QueueInv /\ [Next]_vars => QueueInv'
<1> SUFFICES ASSUME QueueInv, [Next]_vars PROVE QueueInv'
  OBVIOUS
<1>1. CASE Submit
  <2>1. PICK t : submit(t)
    BY <1>1 DEF Submit, SubmitLoad, SubmitStore
  <2> QED
    BY <2>1, SubmitKeeps
<1>2. CASE \E data_ok \in BOOLEAN : tick(data_ok)
  BY <1>2, TickKeeps
<1>3. CASE UNCHANGED vars
  BY <1>3 DEF vars, QueueInv, IsQueue, HeadOnBus, busy, empty, Request
<1> QED
  BY <1>1, <1>2, <1>3 DEF Next

(* The request on the bus is always that of the oldest task not answered   *)
(* (bus.h:667, 683-686): an answer is never taken for another task's,      *)
(* whatever the accesses, the latency of the model and the number of tasks.*)
THEOREM HeadIsOnBus == Spec => []HeadOnBus
<1>1. QueueInv => HeadOnBus
  BY DEF QueueInv
<1> QED
  BY <1>1, QueueHolds, QueueSteps, PTL DEF Spec
-----------------------------------------------------------------------------
(* Where an aligned access lies: in one word, from the lane of its address.*)
LEMMA InOneWord ==
  ASSUME NEW n \in Width, NEW a \in Nat, Aligned(n, a)
  PROVE  /\ a % 8 \in Lane /\ a \div 8 \in Nat /\ a = 8 * (a \div 8) + (a % 8)
         /\ (a % 8) + n <= 8
         /\ parse(n, a) = [width |-> n, shift |-> a % 8]
<1>1. a % 8 \in Lane /\ a \div 8 \in Nat /\ a = 8 * (a \div 8) + (a % 8)
  BY DEF Lane
<1>2. CASE n = 1
  BY <1>1, <1>2 DEF Lane, parse, Offset
<1>3. CASE n = 2
  BY <1>1, <1>3 DEF Lane, parse, Offset, Aligned
<1>4. CASE n = 4
  BY <1>1, <1>4 DEF Lane, parse, Offset, Aligned
<1>5. CASE n = 8
  BY <1>1, <1>5 DEF Lane, parse, Offset, Aligned
<1> QED
  BY <1>2, <1>3, <1>4, <1>5 DEF Width

(* An aligned access stays in one word, in adjacent lanes.                 *)
LEMMA BytesOfAccess ==
  ASSUME NEW n \in Width, NEW a \in Nat, Aligned(n, a), NEW b \in Nat
  PROVE  /\ b \in a .. a + n - 1 <=> /\ b \div 8 = a \div 8
                                     /\ (b % 8) - (a % 8) \in 0 .. n - 1
         /\ b \in a .. a + n - 1 => (b % 8) - (a % 8) = b - a
<1>1. /\ a % 8 \in Lane /\ a \div 8 \in Nat /\ a = 8 * (a \div 8) + (a % 8)
      /\ (a % 8) + n <= 8 /\ n \in Nat
  BY InOneWord DEF Width
<1>2. b % 8 \in Lane /\ b \div 8 \in Nat /\ b = 8 * (b \div 8) + (b % 8)
  BY DEF Lane
<1> DEFINE p == a \div 8
           q == b \div 8
           i == a % 8
           j == b % 8
<1> HIDE DEF p, q, i, j
<1>3. /\ i \in 0 .. 7 /\ p \in Nat /\ a = 8 * p + i /\ i + n <= 8 /\ n \in Nat
      /\ j \in 0 .. 7 /\ q \in Nat /\ b = 8 * q + j
  BY <1>1, <1>2 DEF Lane, p, q, i, j
<1>4. /\ b \in a .. a + n - 1 <=> q = p /\ j - i \in 0 .. n - 1
      /\ b \in a .. a + n - 1 => j - i = b - a
  BY <1>3
<1> QED
  BY <1>4 DEF p, q, i, j

(* The mask of a strobe has the bytes of the strobe.                       *)
LEMMA DeviceMask == ASSUME NEW s \in SUBSET Lane PROVE device_mask(s) = s
<1>1. STROBE_TO_MASK(s \cap 0 .. 3) = s \cap 0 .. 3
  BY DEF STROBE_TO_MASK
<1>2. STROBE_TO_MASK({j - 4 : j \in s \cap 4 .. 7}) = {j - 4 : j \in s \cap 4 .. 7}
  BY DEF STROBE_TO_MASK
<1>3. ASSUME NEW x
      PROVE  x \in {k + 4 : k \in {j - 4 : j \in s \cap 4 .. 7}} <=> x \in s \cap 4 .. 7
  <2>1. ASSUME x \in s \cap 4 .. 7
        PROVE  x \in {k + 4 : k \in {j - 4 : j \in s \cap 4 .. 7}}
    <3>1. x - 4 \in {j - 4 : j \in s \cap 4 .. 7} /\ x = (x - 4) + 4
      BY <2>1
    <3> QED
      BY <3>1
  <2>2. ASSUME NEW j \in s \cap 4 .. 7 PROVE (j - 4) + 4 = j
    OBVIOUS
  <2> QED
    BY <2>1, <2>2
<1>4. ASSUME NEW x PROVE x \in s <=> x \in s \cap 0 .. 3 \/ x \in s \cap 4 .. 7
  <2>1. x \in s => x \in 0 .. 7
    BY DEF Lane
  <2> QED
    BY <2>1
<1> QED
  BY <1>1, <1>2, <1>3, <1>4 DEF device_mask
-----------------------------------------------------------------------------
(* What the queue stands for: from the memory of the model, task by task,  *)
(* to the memory the program has built.                                    *)
memBytes == [b \in Address |-> mem[b \div 8][b % 8]]

Effect(t, m) ==
  [b \in Address |-> IF b \div 8 = t.addr \div 8 /\ b % 8 \in t.strobe
                     THEN t.data[b % 8] ELSE m[b]]

(* A task that wants w, when it meets the memory m.                        *)
BytesAt(m, n, a) == [k \in 0 .. n - 1 |-> m[a + k]]
Wants(kind, n, a, m, holds) == [kind |-> kind, bytes |-> BytesAt(m, n, a), holds |-> holds]
SeesAt(t, m, w, n, a) ==
  \/ t = LoadTask(t.id, n, a) /\ w = Wants("load", n, a, m, TRUE)
  \/ n \in CellWidth /\ t = CellTask(t.id, n, a) /\ w = Wants("cell", n, a, m, TRUE)
  \/ \E v \in Value : /\ t = ExpectTask(t.id, n, a, v)
                      /\ w = Wants("expect", n, a, m, \A k \in 0 .. n - 1 : v[k] = m[a + k])
  \/ \E v \in Value : t = StoreTask(t.id, n, a, v) /\ w = Nothing
Sees(t, m, w) == \E na \in Access : SeesAt(t, m, w, na[1], na[2])

(* What Access says of its members.                                        *)
LEMMA Accesses ==
  ASSUME NEW na \in Access
  PROVE  na[1] \in Width /\ na[2] \in Address /\ na[2] \in Nat /\ Aligned(na[1], na[2])
<1>1. /\ na \in Width \X (0 .. 8 * Words - 1) /\ Aligned(na[1], na[2])
  BY PipelineAssumption
<1>2. 8 * Words - 1 \in Int
  BY WordsAssumption
<1> QED
  BY <1>1, <1>2 DEF Address, Size

Stored(n, a, v, m) ==
  [b \in Address |-> IF b \in a .. a + n - 1 THEN v[b - a] ELSE m[b]]

(* A queued store changes the bytes the program stored.                    *)
LEMMA StoreEffect ==
  ASSUME NEW na \in Access, NEW id, NEW v, NEW m
  PROVE  Effect(StoreTask(id, na[1], na[2], v), m) = Stored(na[1], na[2], v, m)
<1> DEFINE n == na[1]
           a == na[2]
           t == StoreTask(id, n, a, v)
<1>1. n \in Width /\ a \in Nat /\ Aligned(n, a)
  BY Accesses
<1>2. Address \subseteq Nat
  BY WordsAssumption DEF Address, Size
<1> HIDE DEF n, a
<1>3. parse(n, a) = [width |-> n, shift |-> a % 8] /\ a % 8 \in Lane /\ n \in Nat
  BY <1>1, InOneWord DEF Width
<1>4. /\ t.addr = a /\ t.data = ShiftUp(v, a % 8)
      /\ t.strobe = {k \in Lane : k - (a % 8) \in 0 .. n - 1}
  BY <1>3 DEF StoreTask, Task, place, OpStrobe
<1> HIDE DEF t
<1>5. ASSUME NEW b \in Address
      PROVE  (IF b \div 8 = t.addr \div 8 /\ b % 8 \in t.strobe THEN t.data[b % 8] ELSE m[b])
               = IF b \in a .. a + n - 1 THEN v[b - a] ELSE m[b]
  <2>1. /\ b \in a .. a + n - 1 <=> b \div 8 = a \div 8 /\ (b % 8) - (a % 8) \in 0 .. n - 1
        /\ b \in a .. a + n - 1 => (b % 8) - (a % 8) = b - a
    BY <1>1, <1>2, BytesOfAccess
  <2>2. b % 8 \in Lane
    BY <1>2 DEF Lane
  <2>3. b \in a .. a + n - 1 => t.data[b % 8] = v[b - a]
    <3>1. t.data[b % 8] = IF b % 8 >= a % 8 THEN v[(b % 8) - (a % 8)] ELSE 0
      BY <1>4, <2>2 DEF ShiftUp
    <3>2. ASSUME b \in a .. a + n - 1 PROVE b % 8 >= a % 8
      BY <1>3, <2>1, <2>2, <3>2 DEF Lane
    <3> QED
      BY <2>1, <3>1, <3>2
  <2> QED
    BY <1>4, <2>1, <2>2, <2>3
<1> QED
  BY <1>5 DEF Effect, Stored, t, n, a

(* A task without a strobe changes nothing.                                *)
LEMMA QuietEffect ==
  ASSUME NEW t, t.strobe = {}, NEW m, m = [b \in Address |-> m[b]]
  PROVE  Effect(t, m) = m
BY DEF Effect
-----------------------------------------------------------------------------
(* The invariant: there is a history of the memory, from what the model    *)
(* holds to what the program has built, whose steps are the tasks of the   *)
(* queue and in which each sees what it wants; and the tasks that have     *)
(* been answered have received it.                                         *)
History(h) ==
  /\ h[1] = memBytes /\ h[Len(ongoing) + 1] = shadow
  /\ \A i \in 1 .. Len(ongoing) : /\ h[i + 1] = Effect(ongoing[i], h[i])
                                  /\ Sees(ongoing[i], h[i], want[ongoing[i].id])

answered == submitted - Len(ongoing)

Numbered ==
  /\ submitted \in Nat /\ submitted <= MaxTasks /\ answered \in Nat
  /\ \A i \in 1 .. Len(ongoing) : ongoing[i].id = answered + i
  /\ \A t \in TaskId : t > submitted => want[t] = Nothing
  /\ DOMAIN want = TaskId /\ DOMAIN dest = TaskId /\ DOMAIN verdict = TaskId

(* The variable that receives a cell has the bytes of a uint32_t.         *)
CellsFit == \A n \in CellWidth : n <= 4

Right(t) ==
  /\ want[t].kind = "load" \/ (want[t].kind = "cell" /\ CellsFit) =>
       Received(t) = want[t].bytes
  /\ want[t].kind = "load" => \A k \in Lane \ DOMAIN want[t].bytes : dest[t][k] = Junk[k]
  /\ want[t].kind = "expect" => verdict[t] = IF want[t].holds THEN "pass" ELSE "fail"

IsMemory(m) == m = [b \in Address |-> m[b]]

OrderInv ==
  /\ DOMAIN mem = 0 .. Words - 1 /\ IsMemory(shadow)
  /\ Numbered
  /\ \E h : History(h)
  /\ \A t \in TaskId : t <= answered => Right(t)

(* Length and elements of a queue that grows or is popped.                 *)
LEMMA Lengths ==
  ASSUME NEW q, IsQueue(q)
  PROVE  /\ Len(q) \in Nat /\ DOMAIN q = 1 .. Len(q) /\ (q = <<>> <=> Len(q) = 0)
         /\ \A t : /\ Len(Append(q, t)) = Len(q) + 1
                   /\ \A i \in 1 .. Len(q) : Append(q, t)[i] = q[i]
                   /\ Append(q, t)[Len(q) + 1] = t
         /\ q # <<>> => /\ Len(Tail(q)) = Len(q) - 1 /\ Head(q) = q[1]
                        /\ \A i \in 1 .. Len(q) - 1 : Tail(q)[i] = q[i + 1]
<1>1. PICK S : q \in Seq(S)
  BY DEF IsQueue
<1>2. Len(q) \in Nat /\ DOMAIN q = 1 .. Len(q) /\ (q = <<>> <=> Len(q) = 0)
  BY <1>1, EmptySeq, LenProperties
<1>3. ASSUME NEW t
      PROVE  /\ Len(Append(q, t)) = Len(q) + 1
             /\ \A i \in 1 .. Len(q) : Append(q, t)[i] = q[i]
             /\ Append(q, t)[Len(q) + 1] = t
  <2>1. q \in Seq(S \cup {t}) /\ t \in S \cup {t}
    BY <1>1
  <2> QED
    BY <2>1, AppendProperties
<1>4. q # <<>> => /\ Len(Tail(q)) = Len(q) - 1 /\ Head(q) = q[1]
                  /\ \A i \in 1 .. Len(q) - 1 : Tail(q)[i] = q[i + 1]
  BY <1>1, HeadTailProperties
<1> QED
  BY <1>2, <1>3, <1>4

(* A submitted task sees the memory the program has built.                 *)
LEMMA SubmitSees ==
  ASSUME QueueInv, OrderInv, Submit
  PROVE  \E t : /\ submit(t) /\ t.id = submitted + 1
                /\ Sees(t, shadow, want'[t.id]) /\ shadow' = Effect(t, shadow)
                /\ \A i \in TaskId : i # t.id => want'[i] = want[i]
                /\ DOMAIN want' = TaskId
<1> DEFINE id == submitted + 1
<1>1. id \in TaskId /\ want[id] = Nothing /\ DOMAIN want = TaskId
  BY PipelineAssumption DEF Submit, OrderInv, Numbered, TaskId
<1>2. PICK na \in Access : \/ SubmitLoad(id, na[1], na[2])
                           \/ SubmitStore(id, na[1], na[2])
  BY DEF Submit
<1> DEFINE n == na[1]
           a == na[2]
<1>3. IsMemory(shadow)
  BY DEF OrderInv
<1> HIDE DEF id
<1>4. CASE SubmitLoad(id, n, a)
  <2> DEFINE Want(kind, holds) ==
               want' = [want EXCEPT ![id] = [kind |-> kind, bytes |-> BytesAt(shadow, n, a),
                                             holds |-> holds]]
  <2>1. /\ \/ submit(LoadTask(id, n, a)) /\ Want("load", TRUE)
           \/ n \in CellWidth /\ submit(CellTask(id, n, a)) /\ Want("cell", TRUE)
           \/ \E v \in Value :
                /\ submit(ExpectTask(id, n, a, v))
                /\ Want("expect", \A k \in 0 .. n - 1 : v[k] = BytesAt(shadow, n, a)[k])
        /\ shadow' = shadow
    BY <1>4 DEF SubmitLoad, BytesAt
  <2>2. ASSUME NEW t, t.id = id, t.strobe = {}, submit(t), NEW kind, NEW holds,
               Want(kind, holds), SeesAt(t, shadow, Wants(kind, n, a, shadow, holds), n, a)
        PROVE  /\ Sees(t, shadow, want'[t.id]) /\ shadow' = Effect(t, shadow)
               /\ \A i \in TaskId : i # t.id => want'[i] = want[i]
               /\ DOMAIN want' = TaskId
    <3>1. want'[id] = Wants(kind, n, a, shadow, holds)
      BY <1>1, <2>2 DEF Wants
    <3>2. Sees(t, shadow, want'[t.id])
      BY <2>2, <3>1 DEF Sees
    <3>3. shadow' = Effect(t, shadow)
      BY <1>3, <2>1, <2>2, QuietEffect DEF IsMemory
    <3> QED
      BY <1>1, <2>2, <3>2, <3>3
  <2>3. CASE submit(LoadTask(id, n, a)) /\ Want("load", TRUE)
    <3> DEFINE t == LoadTask(id, n, a)
    <3>1. t.id = id /\ t.strobe = {}
      BY DEF LoadTask, Task
    <3>2. SeesAt(t, shadow, Wants("load", n, a, shadow, TRUE), n, a)
      BY <3>1 DEF SeesAt
    <3> HIDE DEF t, Want, n, a
    <3>3. submit(t) /\ Want("load", TRUE)
      BY <2>3 DEF t
    <3> QED
      BY <2>2, <3>1, <3>2, <3>3 DEF id
  <2>4. CASE n \in CellWidth /\ submit(CellTask(id, n, a)) /\ Want("cell", TRUE)
    <3> DEFINE t == CellTask(id, n, a)
    <3>1. t.id = id /\ t.strobe = {}
      BY DEF CellTask, Task
    <3>2. SeesAt(t, shadow, Wants("cell", n, a, shadow, TRUE), n, a)
      BY <2>4, <3>1 DEF SeesAt
    <3> HIDE DEF t, Want, n, a
    <3>3. submit(t) /\ Want("cell", TRUE)
      BY <2>4 DEF t
    <3> QED
      BY <2>2, <3>1, <3>2, <3>3 DEF id
  <2>5. ASSUME NEW v \in Value, submit(ExpectTask(id, n, a, v)),
               Want("expect", \A k \in 0 .. n - 1 : v[k] = BytesAt(shadow, n, a)[k])
        PROVE  \E t : /\ submit(t) /\ t.id = id
                      /\ Sees(t, shadow, want'[t.id]) /\ shadow' = Effect(t, shadow)
                      /\ \A i \in TaskId : i # t.id => want'[i] = want[i]
                      /\ DOMAIN want' = TaskId
    <3> DEFINE t == ExpectTask(id, n, a, v)
               holds == \A k \in 0 .. n - 1 : v[k] = shadow[a + k]
    <3>1. t.id = id /\ t.strobe = {}
      BY DEF ExpectTask, Task
    <3>2. SeesAt(t, shadow, Wants("expect", n, a, shadow, holds), n, a)
      BY <3>1 DEF SeesAt
    <3>3. (\A k \in 0 .. n - 1 : v[k] = BytesAt(shadow, n, a)[k]) = holds
      BY DEF BytesAt
    <3>4. Want("expect", holds)
      BY <2>5, <3>3
    <3> HIDE DEF t, Want, n, a, holds
    <3>5. submit(t)
      BY <2>5 DEF t
    <3> QED
      BY <2>2, <3>1, <3>2, <3>4, <3>5
  <2> QED
    BY <2>1, <2>3, <2>4, <2>5 DEF id
<1>5. CASE SubmitStore(id, n, a)
  <2>1. PICK v \in Value :
          /\ submit(StoreTask(id, n, a, v)) /\ want' = want
          /\ shadow' = [b \in Address |-> IF b \in a .. a + n - 1 THEN v[b - a] ELSE shadow[b]]
    BY <1>5 DEF SubmitStore
  <2> DEFINE t == StoreTask(id, n, a, v)
  <2>2. t.id = id
    BY DEF StoreTask, Task
  <2>3. shadow' = Effect(t, shadow)
    <3>1. Effect(t, shadow) = Stored(n, a, v, shadow)
      BY StoreEffect
    <3>2. shadow' = Stored(n, a, v, shadow)
      BY <2>1 DEF Stored
    <3> QED
      BY <3>1, <3>2
  <2>4. SeesAt(t, shadow, want'[id], n, a)
    BY <1>1, <2>1, <2>2 DEF SeesAt
  <2>5. Sees(t, shadow, want'[id])
    BY <2>4 DEF Sees
  <2> HIDE DEF t
  <2>6. submit(t)
    BY <2>1 DEF t
  <2> QED
    BY <1>1, <2>1, <2>2, <2>3, <2>5, <2>6 DEF id
<1> QED
  BY <1>2, <1>4, <1>5

(* A new task comes last, and is promised the memory after all others.     *)
LEMMA SubmitOrders ==
  ASSUME QueueInv, OrderInv, Submit
  PROVE  OrderInv'
<1>1. PICK t : /\ submit(t) /\ t.id = submitted + 1
               /\ Sees(t, shadow, want'[t.id]) /\ shadow' = Effect(t, shadow)
               /\ \A i \in TaskId : i # t.id => want'[i] = want[i]
               /\ DOMAIN want' = TaskId
  BY SubmitSees
<1> DEFINE L == Len(ongoing)
<1>2. /\ ongoing' = Append(ongoing, t) /\ submitted' = submitted + 1 /\ submitted < MaxTasks
      /\ mem' = mem /\ dest' = dest /\ verdict' = verdict
  BY <1>1 DEF submit, Submit, memVars
<1>3. /\ L \in Nat /\ Len(ongoing') = L + 1 /\ ongoing'[L + 1] = t
      /\ \A i \in 1 .. L : ongoing'[i] = ongoing[i]
  BY <1>2, Lengths DEF QueueInv
<1>4. /\ submitted \in Nat /\ answered \in Nat /\ MaxTasks \in Nat /\ answered = submitted - L
      /\ answered' = answered /\ \A i \in 1 .. L : ongoing[i].id = answered + i
  BY <1>2, <1>3, PipelineAssumption DEF OrderInv, Numbered, answered
<1> HIDE DEF L
<1>5. \A i \in 1 .. L : ongoing[i].id \in TaskId /\ ongoing[i].id # t.id
  BY <1>1, <1>2, <1>3, <1>4 DEF TaskId
<1>6. Numbered'
  <2>1. \A i \in 1 .. L + 1 : ongoing'[i].id = answered' + i
    BY <1>1, <1>3, <1>4
  <2>2. \A i \in TaskId : i > submitted' => want'[i] = Nothing
    BY <1>1, <1>2, <1>4 DEF TaskId, OrderInv, Numbered
  <2> QED
    BY <1>1, <1>2, <1>3, <1>4, <2>1, <2>2 DEF OrderInv, Numbered
<1>7. \E h : History(h)'
  <2>1. PICK h : History(h)
    BY DEF OrderInv
  <2>2. PICK g : g[L + 2] = shadow' /\ \A i \in 1 .. L + 1 : g[i] = h[i]
    <3> DEFINE f == [i \in 1 .. L + 2 |-> IF i = L + 2 THEN shadow' ELSE h[i]]
    <3>1. f[L + 2] = shadow' /\ \A i \in 1 .. L + 1 : f[i] = h[i]
      BY <1>3
    <3> QED
      BY <3>1
  <2>3. h[L + 1] = shadow /\ h[1] = memBytes
    BY <2>1 DEF History, L
  <2>4. ASSUME NEW i \in 1 .. L + 1
        PROVE  /\ g[i + 1] = Effect(ongoing'[i], g[i])
               /\ Sees(ongoing'[i], g[i], want'[ongoing'[i].id])
    <3>1. CASE i = L + 1
      BY <1>1, <1>3, <2>2, <2>3, <3>1
    <3>2. CASE i \in 1 .. L
      <4>1. i + 1 \in 1 .. L + 1 /\ i \in 1 .. L + 1
        BY <1>3, <3>2
      <4>2. h[i + 1] = Effect(ongoing[i], h[i]) /\ Sees(ongoing[i], h[i], want[ongoing[i].id])
        BY <2>1, <3>2 DEF History, L
      <4>3. want'[ongoing[i].id] = want[ongoing[i].id]
        BY <1>1, <1>5, <3>2
      <4> QED
        BY <1>3, <2>2, <3>2, <4>1, <4>2, <4>3
    <3> QED
      BY <1>3, <3>1, <3>2
  <2>5. g[1] = memBytes'
    BY <1>2, <1>3, <2>2, <2>3 DEF memBytes
  <2>6. \A i \in 1 .. L + 1 : /\ g[i + 1] = Effect(ongoing'[i], g[i])
                              /\ Sees(ongoing'[i], g[i], want'[ongoing'[i].id])
    BY <2>4
  <2>7. History(g)'
    BY <1>3, <2>2, <2>5, <2>6 DEF History
  <2> QED
    BY <2>7
<1>8. \A i \in TaskId : i <= answered' => Right(i)'
  <2> SUFFICES ASSUME NEW i \in TaskId, i <= answered PROVE Right(i)'
    BY <1>4
  <2>1. i # t.id
    BY <1>1, <1>3, <1>4 DEF TaskId
  <2>2. want'[i] = want[i]
    BY <1>1, <2>1
  <2>3. Right(i)
    BY DEF OrderInv
  <2> QED
    BY <1>2, <2>2, <2>3 DEF Right, Received
<1>9. IsMemory(shadow')
  BY <1>1 DEF Effect, IsMemory
<1> QED
  BY <1>2, <1>6, <1>7, <1>8, <1>9 DEF OrderInv, IsMemory
-----------------------------------------------------------------------------
(* What an answer brings: the bytes of the access are in the lanes from    *)
(* that of its address.                                                    *)
LEMMA BytesInMemory ==
  ASSUME NEW na \in Access, NEW k \in 0 .. na[1] - 1
  PROVE  /\ (na[2] % 8) + k \in Lane
         /\ memBytes[na[2] + k] = mem[na[2] \div 8][(na[2] % 8) + k]
<1> DEFINE n == na[1]
           a == na[2]
           b == a + k
<1>1. n \in Width /\ a \in Address /\ a \in Nat /\ Aligned(n, a)
  BY Accesses
<1> HIDE DEF n, a
<1>2. /\ a % 8 \in Lane /\ a \div 8 \in Nat /\ a = 8 * (a \div 8) + (a % 8)
      /\ (a % 8) + n <= 8 /\ n \in Nat
  BY <1>1, InOneWord DEF Width
<1>3. k \in 0 .. n - 1 /\ k \in Nat /\ b \in Nat /\ b \in a .. a + n - 1
  BY <1>1, <1>2 DEF n
<1> DEFINE i == a % 8
           p == a \div 8
<1> HIDE DEF b, i, p
<1>4. (b % 8) - i = b - a /\ b \div 8 = p
  BY <1>1, <1>3, BytesOfAccess DEF i, p
<1>5. b % 8 \in 0 .. 7 /\ b - a = k
  BY <1>1, <1>3 DEF b
<1>6. i \in 0 .. 7 /\ p \in Nat /\ a = 8 * p + i /\ i + n <= 8
  BY <1>2 DEF Lane, i, p
<1>7. b % 8 = i + k /\ i + k \in Lane
  BY <1>3, <1>4, <1>5, <1>6 DEF Lane
<1>8. b \in Address
  <2>1. a < 8 * Words
    BY <1>1, WordsAssumption DEF Address, Size
  <2>2. p < Words
    BY <1>6, <2>1, WordsAssumption
  <2>3. b = 8 * p + (i + k) /\ i + k <= 7
    BY <1>3, <1>6, <1>7 DEF b, Lane
  <2>4. b <= 8 * Words - 1
    BY <1>3, <1>6, <2>2, <2>3, WordsAssumption
  <2> QED
    BY <1>3, <2>4, WordsAssumption DEF Address, Size
<1>9. memBytes[b] = mem[p][i + k]
  BY <1>4, <1>7, <1>8 DEF memBytes
<1> QED
  BY <1>7, <1>9 DEF i, p, b, a, n

(* A load that is answered takes its lanes and keeps the rest.             *)
LEMMA AppliedBytes ==
  ASSUME NEW na \in Access, NEW data, NEW old, NEW k \in Lane
  PROVE  applyTo(parse(na[1], na[2]), data, old)[k] =
           IF k < na[1] THEN data[(na[2] % 8) + k] ELSE old[k]
<1> DEFINE n == na[1]
           a == na[2]
           op == parse(n, a)
<1>1. n \in Width /\ a \in Nat /\ Aligned(n, a)
  BY Accesses
<1> HIDE DEF n, a
<1>2. a % 8 \in Lane /\ (a % 8) + n <= 8 /\ op = [width |-> n, shift |-> a % 8]
  BY <1>1, InOneWord
<1> HIDE DEF op
<1>3. op # DISCARD
  BY <1>1, <1>2 DEF DISCARD, Width
<1>4. CASE k < n
  <2>1. k + (a % 8) \in Lane /\ k + (a % 8) = (a % 8) + k
    BY <1>1, <1>2, <1>4 DEF Lane, Width
  <2>2. applyTo(op, data, old)[k] = ShiftDown(data, a % 8)[k]
    BY <1>2, <1>3, <1>4 DEF applyTo, apply
  <2>3. ShiftDown(data, a % 8)[k] = data[(a % 8) + k]
    BY <2>1 DEF ShiftDown
  <2> QED
    BY <1>4, <2>2, <2>3 DEF n, a, op
<1>5. CASE ~(k < n)
  <2>1. applyTo(op, data, old)[k] = old[k]
    BY <1>2, <1>5 DEF applyTo
  <2> QED
    BY <1>5, <2>1 DEF n, a, op
<1> QED
  BY <1>4, <1>5

(* An expectation compares the bytes of its width.                         *)
LEMMA MatchesBytes ==
  ASSUME NEW na \in Access, NEW id, NEW v, NEW data
  PROVE  matches(ExpectTask(id, na[1], na[2], v), data) <=>
           \A k \in 0 .. na[1] - 1 : v[k] = data[(na[2] % 8) + k]
<1> DEFINE n == na[1]
           a == na[2]
           t == ExpectTask(id, n, a, v)
           i == a % 8
<1>1. n \in Width /\ a \in Nat /\ Aligned(n, a)
  BY Accesses
<1> HIDE DEF n, a
<1>2. i \in 0 .. 7 /\ i + n <= 8 /\ n \in Nat /\ parse(n, a) = [width |-> n, shift |-> i]
  BY <1>1, InOneWord DEF Width, Lane
<1>3. t.data = ShiftUp(v, i) /\ OpMask(t.load_op) = {k \in Lane : k - i \in 0 .. n - 1}
  BY <1>2 DEF ExpectTask, Task, place, OpMask
<1> HIDE DEF t, i
<1>4. ASSUME NEW k \in Lane, k - i \in 0 .. n - 1
      PROVE  t.data[k] = v[k - i] /\ i + (k - i) = k
  <2>1. k >= i /\ i + (k - i) = k
    BY <1>2, <1>4 DEF Lane
  <2> QED
    BY <1>3, <2>1 DEF ShiftUp
<1>5. ASSUME NEW k \in 0 .. n - 1
      PROVE  i + k \in Lane /\ (i + k) - i = k
  BY <1>2 DEF Lane
<1>6. (\A k \in OpMask(t.load_op) : t.data[k] = data[k]) <=>
        \A k \in 0 .. n - 1 : v[k] = data[i + k]
  <2>1. ASSUME \A k \in OpMask(t.load_op) : t.data[k] = data[k], NEW k \in 0 .. n - 1
        PROVE  v[k] = data[i + k]
    <3>1. i + k \in OpMask(t.load_op)
      BY <1>3, <1>5
    <3>2. t.data[i + k] = v[(i + k) - i]
      BY <1>3, <1>4, <1>5
    <3> QED
      BY <1>5, <2>1, <3>1, <3>2
  <2>2. ASSUME \A k \in 0 .. n - 1 : v[k] = data[i + k], NEW k \in OpMask(t.load_op)
        PROVE  t.data[k] = data[k]
    <3>1. k \in Lane /\ k - i \in 0 .. n - 1
      BY <1>3
    <3> QED
      BY <1>4, <2>2, <3>1
  <2> QED
    BY <2>1, <2>2
<1> QED
  BY <1>6 DEF matches, t, i, n, a

(* A store takes effect in the memory with its answer, a read does not.    *)
LEMMA AnswerTakesEffect ==
  ASSUME NEW t, NEW w, Sees(t, memBytes, w), DOMAIN mem = 0 .. Words - 1,
         dreq = Request(t), Model(TRUE)
  PROVE  memBytes' = Effect(t, memBytes) /\ DOMAIN mem' = 0 .. Words - 1
<1>1. dreq.addr = t.addr /\ dreq.strobe = t.strobe /\ dreq.data = t.data
  BY DEF Request
<1>2. PICK na \in Access : SeesAt(t, memBytes, w, na[1], na[2])
  BY DEF Sees
<1>3. t.strobe \in SUBSET Lane /\ t.addr = na[2]
  <2>1. ASSUME t = LoadTask(t.id, na[1], na[2]) PROVE t.strobe = {} /\ t.addr = na[2]
    BY <2>1 DEF LoadTask, Task
  <2>2. ASSUME t = CellTask(t.id, na[1], na[2]) PROVE t.strobe = {} /\ t.addr = na[2]
    BY <2>2 DEF CellTask, Task
  <2>3. ASSUME NEW v, t = ExpectTask(t.id, na[1], na[2], v)
        PROVE  t.strobe = {} /\ t.addr = na[2]
    BY <2>3 DEF ExpectTask, Task
  <2>4. ASSUME NEW v, t = StoreTask(t.id, na[1], na[2], v)
        PROVE  t.strobe \in SUBSET Lane /\ t.addr = na[2]
    <3>1. t.strobe = OpStrobe(parse(na[1], na[2])) /\ t.addr = na[2]
      BY <2>4 DEF StoreTask, Task
    <3> QED
      BY <3>1 DEF OpStrobe
  <2> QED
    BY <1>2, <2>1, <2>2, <2>3, <2>4 DEF SeesAt
<1>4. CASE t.strobe = {}
  <2>1. mem' = mem
    BY <1>1, <1>4 DEF Model, memVars
  <2>2. memBytes = [b \in Address |-> memBytes[b]]
    BY DEF memBytes
  <2>3. Effect(t, memBytes) = memBytes
    BY <1>4, <2>2, QuietEffect
  <2> QED
    BY <2>1, <2>3 DEF memBytes
<1>5. CASE t.strobe # {}
  <2> DEFINE x == t.addr \div 8
  <2>1. store(t.addr, t.data, t.strobe)
    BY <1>1, <1>3, <1>5, DeviceMask DEF Model
  <2>2. mem' = [mem EXCEPT ![x] = [k \in Lane |-> IF k \in t.strobe THEN t.data[k]
                                                  ELSE mem[x][k]]]
    BY <2>1 DEF store
  <2>3. Address \subseteq Nat
    BY WordsAssumption DEF Address, Size
  <2>4. ASSUME NEW b \in Address
        PROVE  /\ b % 8 \in Lane /\ b \div 8 \in 0 .. Words - 1
    BY WordsAssumption DEF Address, Size, Lane
  <2>5. x \in 0 .. Words - 1
    BY <1>3, <2>4, Accesses
  <2>6. DOMAIN mem' = 0 .. Words - 1
    BY <2>2
  <2>7. ASSUME NEW b \in Address
        PROVE  mem'[b \div 8][b % 8] = IF b \div 8 = x /\ b % 8 \in t.strobe
                                        THEN t.data[b % 8] ELSE mem[b \div 8][b % 8]
    BY <2>2, <2>4, <2>5
  <2>8. ASSUME NEW b \in Address PROVE memBytes[b] = mem[b \div 8][b % 8]
    BY DEF memBytes
  <2>9. [b \in Address |-> mem'[b \div 8][b % 8]] = Effect(t, memBytes)
    BY <2>7, <2>8 DEF Effect
  <2> QED
    BY <2>6, <2>9 DEF memBytes
<1> QED
  BY <1>4, <1>5

(* What a load, a cell or an expectation is left with is what it wants.    *)
LEMMA AnswerIsRight ==
  ASSUME NEW t, t.id \in TaskId, Sees(t, memBytes, want[t.id]),
         DOMAIN dest = TaskId, DOMAIN verdict = TaskId,
         ongoing # <<>>, t = Head(ongoing), Pop(load(t.addr)), want' = want
  PROVE  Right(t.id)'
<1> DEFINE w == want[t.id]
           data == mem[t.addr \div 8]
<1>1. PICK na \in Access : SeesAt(t, memBytes, w, na[1], na[2])
  BY DEF Sees
<1> DEFINE n == na[1]
           a == na[2]
<1>2. n \in Width /\ n \in Nat
  BY Accesses DEF Width
<1>3. /\ dest' = IF t.kind \in {"load", "cell"}
                 THEN [dest EXCEPT ![t.id] = applied(t, data)] ELSE dest
      /\ verdict' = IF t.kind = "expect"
                    THEN [verdict EXCEPT ![t.id] = IF matches(t, data) THEN "pass" ELSE "fail"]
                    ELSE verdict
  BY DEF Pop, load
<1>4. BytesAt(memBytes, n, a) = [k \in 0 .. n - 1 |-> data[(a % 8) + k]] \/ t.addr # a
  BY BytesInMemory DEF BytesAt
<1>5. \A k \in 0 .. n - 1 : k \in Lane /\ k < n
  BY <1>2 DEF Lane, Width
<1>6. \A x, old : \A k \in Lane :
         applyTo(parse(n, a), x, old)[k] = IF k < n THEN x[(a % 8) + k] ELSE old[k]
  BY AppliedBytes
<1>7. \A v, x : matches(ExpectTask(t.id, n, a, v), x) <=>
                   \A k \in 0 .. n - 1 : v[k] = x[(a % 8) + k]
  BY MatchesBytes
<1> HIDE DEF n, a, w
<1>8. CASE t = LoadTask(t.id, n, a) /\ w = Wants("load", n, a, memBytes, TRUE)
  <2>1. t.addr = a /\ t.kind = "load" /\ t.room = n /\ t.load_op = parse(n, a)
    BY <1>8 DEF LoadTask, Task
  <2>2. w.kind = "load" /\ w.bytes = [k \in 0 .. n - 1 |-> data[(a % 8) + k]]
    BY <1>4, <1>8, <2>1 DEF Wants
  <2>3. dest'[t.id] = applied(t, data)
    BY <1>3, <2>1
  <2>4. ASSUME NEW k \in Lane
        PROVE  applied(t, data)[k] = IF k < n THEN data[(a % 8) + k] ELSE Junk[k]
    <3>1. applyTo(parse(n, a), data, Junk)[k] =
            IF k < n THEN data[(a % 8) + k] ELSE Junk[k]
      BY <1>6
    <3> QED
      BY <2>1, <3>1 DEF applied
  <2>5. [k \in DOMAIN w.bytes |-> dest'[t.id][k]] = w.bytes
    BY <1>5, <2>2, <2>3, <2>4
  <2>6. \A k \in Lane \ DOMAIN w.bytes : dest'[t.id][k] = Junk[k]
    BY <1>2, <2>2, <2>3, <2>4 DEF Lane
  <2> QED
    BY <2>2, <2>5, <2>6 DEF Right, Received, w
<1>9. CASE n \in CellWidth /\ t = CellTask(t.id, n, a) /\ w = Wants("cell", n, a, memBytes, TRUE)
  <2>1. t.addr = a /\ t.kind = "cell" /\ t.room = 4 /\ t.load_op = parse(n, a)
    BY <1>9 DEF CellTask, Task
  <2>2. w.kind = "cell" /\ w.bytes = [k \in 0 .. n - 1 |-> data[(a % 8) + k]]
    BY <1>4, <1>9, <2>1 DEF Wants
  <2>3. dest'[t.id] = applied(t, data)
    BY <1>3, <2>1
  <2>4. ASSUME CellsFit, NEW k \in 0 .. n - 1
        PROVE  applied(t, data)[k] = data[(a % 8) + k]
    <3>1. applyTo(parse(n, a), data, ZeroWord)[k] = data[(a % 8) + k]
      BY <1>5, <1>6
    <3>2. n <= 4
      BY <1>9, <2>4 DEF CellsFit
    <3>3. k < 4 /\ k \in Lane
      BY <1>2, <1>5, <3>2
    <3> QED
      BY <2>1, <3>1, <3>3 DEF applied
  <2>5. CellsFit => [k \in DOMAIN w.bytes |-> dest'[t.id][k]] = w.bytes
    BY <2>2, <2>3, <2>4
  <2> QED
    BY <2>2, <2>5 DEF Right, Received, w, CellsFit
<1>10. ASSUME NEW v \in Value, t = ExpectTask(t.id, n, a, v),
             w = Wants("expect", n, a, memBytes, \A k \in 0 .. n - 1 : v[k] = memBytes[a + k])
      PROVE  Right(t.id)'
  <2>1. t.addr = a /\ t.kind = "expect"
    BY <1>10 DEF ExpectTask, Task
  <2>2. /\ w.kind = "expect"
        /\ w.holds = \A k \in 0 .. n - 1 : v[k] = memBytes[a + k]
    BY <1>10 DEF Wants
  <2>3. matches(t, data) <=> \A k \in 0 .. n - 1 : v[k] = data[(a % 8) + k]
    BY <1>10, <1>7
  <2>4. \A k \in 0 .. n - 1 : memBytes[a + k] = data[(a % 8) + k]
    BY <2>1, BytesInMemory DEF n, a
  <2>5. matches(t, data) <=> w.holds
    BY <2>2, <2>3, <2>4
  <2>6. verdict'[t.id] = IF w.holds THEN "pass" ELSE "fail"
    BY <1>3, <2>1, <2>5
  <2> QED
    BY <2>2, <2>6 DEF Right, w
<1>11. CASE w = Nothing
  BY <1>11 DEF Right, Nothing, w
<1> QED
  BY <1>1, <1>8, <1>9, <1>10, <1>11 DEF SeesAt, n, a
-----------------------------------------------------------------------------
(* Steps that touch neither queue nor memory keep the order.               *)
LEMMA SameOrders ==
  ASSUME OrderInv, UNCHANGED <<mem, ongoing, dest, verdict, submitted, shadow, want>>
  PROVE  OrderInv'
<1>1. memBytes' = memBytes /\ answered' = answered
  BY DEF memBytes, answered
<1>2. \E h : History(h)'
  <2>1. PICK h : History(h)
    BY DEF OrderInv
  <2>2. History(h)'
    BY <1>1, <2>1 DEF History
  <2> QED
    BY <2>2
<1>3. Numbered'
  BY <1>1 DEF OrderInv, Numbered
<1>4. \A t \in TaskId : t <= answered' => Right(t)'
  BY <1>1 DEF OrderInv, Right, Received
<1> QED
  BY <1>2, <1>3, <1>4 DEF OrderInv

(* An answer takes the first step of the history, and no later one.        *)
LEMMA AnswerOrders ==
  ASSUME QueueInv, OrderInv, tick(TRUE)
  PROVE  OrderInv'
<1> DEFINE L == Len(ongoing)
<1>1. PICK t : t = Head(ongoing)
  OBVIOUS
<1>2. ongoing # <<>> /\ dreq = Request(t)
  BY <1>1 DEF tick, QueueInv, HeadOnBus, busy, empty
<1>3. /\ Model(TRUE) /\ Pop(load(t.addr)) /\ ongoing' = Tail(ongoing)
      /\ submitted' = submitted /\ shadow' = shadow /\ want' = want
  BY <1>2 DEF tick, Pop, Request
<1>4. /\ L \in Nat \ {0} /\ Len(ongoing') = L - 1 /\ t = ongoing[1]
      /\ \A i \in 1 .. L - 1 : ongoing'[i] = ongoing[i + 1]
  BY <1>1, <1>2, <1>3, Lengths DEF QueueInv
<1>5. /\ submitted \in Nat /\ submitted <= MaxTasks /\ MaxTasks \in Nat
      /\ answered \in Nat /\ answered = submitted - L
      /\ answered' = answered + 1 /\ \A i \in 1 .. L : ongoing[i].id = answered + i
  BY <1>3, <1>4, PipelineAssumption DEF OrderInv, Numbered, answered
<1>6. PICK h : History(h)
  BY DEF OrderInv
<1> HIDE DEF L
<1>7. /\ h[1] = memBytes /\ h[L + 1] = shadow
      /\ \A i \in 1 .. L : /\ h[i + 1] = Effect(ongoing[i], h[i])
                           /\ Sees(ongoing[i], h[i], want[ongoing[i].id])
  BY <1>6 DEF History, L
<1>8. t.id = answered + 1 /\ t.id \in TaskId
  BY <1>4, <1>5 DEF TaskId
<1>9. Sees(t, memBytes, want[t.id]) /\ h[2] = Effect(t, memBytes)
  BY <1>4, <1>7
<1>10. memBytes' = Effect(t, memBytes) /\ DOMAIN mem' = 0 .. Words - 1
  BY <1>2, <1>3, <1>9, AnswerTakesEffect DEF OrderInv
<1>11. DOMAIN dest = TaskId /\ DOMAIN verdict = TaskId /\ DOMAIN want = TaskId
  BY DEF OrderInv, Numbered
<1>12. Right(t.id)'
  BY <1>1, <1>2, <1>3, <1>8, <1>9, <1>11, AnswerIsRight
<1>13. /\ DOMAIN dest' = TaskId /\ DOMAIN verdict' = TaskId
       /\ \A i \in TaskId : i # t.id => dest'[i] = dest[i] /\ verdict'[i] = verdict[i]
  BY <1>1, <1>3, <1>11 DEF Pop
<1>14. Numbered'
  <2>1. \A i \in 1 .. L - 1 : ongoing'[i].id = answered' + i
    BY <1>4, <1>5
  <2> QED
    BY <1>3, <1>4, <1>5, <1>13, <2>1 DEF OrderInv, Numbered
<1>15. \E g : History(g)'
  <2>1. PICK g : \A i \in 1 .. L : g[i] = h[i + 1]
    <3>1. \A i \in 1 .. L : [j \in 1 .. L |-> h[j + 1]][i] = h[i + 1]
      OBVIOUS
    <3> QED
      BY <3>1
  <2>2. g[1] = memBytes' /\ g[L] = shadow'
    <3>1. g[1] = h[2] /\ g[L] = h[L + 1]
      BY <1>4, <2>1
    <3> QED
      BY <1>3, <1>7, <1>9, <1>10, <3>1
  <2>3. ASSUME NEW i \in 1 .. L - 1
        PROVE  /\ g[i + 1] = Effect(ongoing'[i], g[i])
               /\ Sees(ongoing'[i], g[i], want'[ongoing'[i].id])
    <3>1. i \in 1 .. L /\ i + 1 \in 1 .. L
      BY <1>4
    <3> QED
      BY <1>3, <1>4, <1>7, <2>1, <3>1
  <2>4. Len(ongoing') + 1 = L
    BY <1>4
  <2>5. History(g)'
    BY <1>4, <2>2, <2>3, <2>4 DEF History
  <2> QED
    BY <2>5
<1>16. \A i \in TaskId : i <= answered' => Right(i)'
  <2> SUFFICES ASSUME NEW i \in TaskId, i <= answered + 1, i # t.id PROVE Right(i)'
    BY <1>5, <1>12
  <2>1. Right(i)
    BY <1>5, <1>8 DEF OrderInv, TaskId
  <2> QED
    BY <1>3, <1>13, <2>1 DEF Right, Received
<1> QED
  BY <1>3, <1>10, <1>14, <1>15, <1>16 DEF OrderInv

(* Both invariants hold in every reachable state.                          *)
LEMMA OrderHolds == Spec => [](QueueInv /\ OrderInv)
<1>1. Init => OrderInv
  <2> SUFFICES ASSUME Init PROVE OrderInv
    OBVIOUS
  <2>1. /\ mem = Blank /\ ongoing = <<>> /\ submitted = 0 /\ shadow = [b \in Address |-> 0]
        /\ want = [t \in TaskId |-> Nothing]
        /\ DOMAIN dest = TaskId /\ DOMAIN verdict = TaskId
    BY DEF Init, MemInit
  <2>2. Len(ongoing) = 0 /\ answered = 0
    <3>1. IsQueue(ongoing)
      BY <2>1, EmptySeq DEF IsQueue
    <3>2. Len(ongoing) = 0
      BY <2>1, <3>1, Lengths
    <3>3. submitted = 0
      BY <2>1
    <3> QED
      BY <3>2, <3>3 DEF answered
  <2>3. memBytes = shadow
    <3>1. ASSUME NEW b \in Address PROVE mem[b \div 8][b % 8] = 0
      <4>1. b \div 8 \in 0 .. Words - 1 /\ b % 8 \in Lane
        BY WordsAssumption DEF Address, Size, Lane
      <4> QED
        BY <2>1, <4>1 DEF Blank, ZeroWord
    <3> QED
      BY <2>1, <3>1 DEF memBytes
  <2>4. \E h : h[1] = shadow
    <3>1. [i \in 1 .. 1 |-> shadow][1] = shadow
      OBVIOUS
    <3> QED
      BY <3>1
  <2>5. \E h : History(h)
    BY <2>2, <2>3, <2>4 DEF History
  <2>6. Numbered
    BY <2>1, <2>2, PipelineAssumption DEF Numbered
  <2>7. \A t \in TaskId : ~(t <= answered)
    BY <2>2 DEF TaskId
  <2> QED
    BY <2>1, <2>5, <2>6, <2>7 DEF OrderInv, IsMemory, Blank
<1>2. QueueInv /\ OrderInv /\ [Next]_vars => OrderInv'
  <2> SUFFICES ASSUME QueueInv, OrderInv, [Next]_vars PROVE OrderInv'
    OBVIOUS
  <2>1. CASE Submit
    BY <2>1, SubmitOrders
  <2>2. CASE tick(TRUE)
    BY <2>2, AnswerOrders
  <2>3. CASE tick(FALSE)
    <3>1. UNCHANGED <<mem, ongoing, dest, verdict, submitted, shadow, want>>
      BY <2>3 DEF tick, Model, memVars
    <3> QED
      BY <3>1, SameOrders
  <2>4. CASE UNCHANGED vars
    <3>1. UNCHANGED <<mem, ongoing, dest, verdict, submitted, shadow, want>>
      BY <2>4 DEF vars, memVars
    <3> QED
      BY <3>1, SameOrders
  <2> QED
    BY <2>1, <2>2, <2>3, <2>4 DEF Next
<1> QED
  BY <1>1, <1>2, QueueHolds, QueueSteps, PTL DEF Spec

(* What has been answered was answered as promised.                        *)
LEMMA AnsweredIsRight ==
  ASSUME QueueInv, OrderInv, NEW t \in TaskId, Answered(t)
  PROVE  Right(t)
<1>1. /\ submitted \in Nat /\ answered \in Nat /\ answered = submitted - Len(ongoing)
      /\ \A i \in 1 .. Len(ongoing) : ongoing[i].id = answered + i
  BY DEF OrderInv, Numbered, answered
<1>2. Len(ongoing) \in Nat /\ DOMAIN ongoing = 1 .. Len(ongoing)
  BY Lengths DEF QueueInv
<1>3. t <= submitted /\ \A i \in 1 .. Len(ongoing) : ongoing[i].id # t
  BY <1>2 DEF Answered
<1>4. ASSUME ~(t <= answered) PROVE FALSE
  <2>1. t - answered \in 1 .. Len(ongoing) /\ answered + (t - answered) = t
    BY <1>1, <1>2, <1>3, <1>4 DEF TaskId
  <2> QED
    BY <1>1, <1>3, <2>1
<1> QED
  BY <1>4 DEF OrderInv

(* Loads, stores and expectations are submitted without waiting, and wait  *)
(* in one queue (bus.h:646-712); yet each load finds what the program had  *)
(* stored when it was submitted and nothing stored after, for any accesses,*)
(* values, memory size, latency and number of tasks.  Cells of 8 bytes are *)
(* left out: what they are read into has 4 (cell.h:115).                   *)
THEOREM LoadsAreInOrder ==
  ASSUME \A n \in CellWidth : n <= 4
  PROVE  Spec => []LoadsInProgramOrder
<1>1. QueueInv /\ OrderInv => LoadsInProgramOrder
  BY AnsweredIsRight DEF LoadsInProgramOrder, Right, CellsFit
<1> QED
  BY <1>1, OrderHolds, PTL

(* An expectation is judged by the memory of its place in the program      *)
(* (bus.h:672-681): it fails exactly when the bytes of its width differ.   *)
THEOREM ExpectationsAreExact == Spec => []ExpectationsExact
<1>1. QueueInv /\ OrderInv => ExpectationsExact
  BY AnsweredIsRight DEF ExpectationsExact, Right
<1> QED
  BY <1>1, OrderHolds, PTL

(* No store is lost, repeated or overtaken: when fence() is through        *)
(* (bus.h:792) the memory is what the program's stores make of it.         *)
THEOREM QuietMemoryIsBuilt == Spec => []QuietMemory
<1>1. QueueInv /\ OrderInv => QuietMemory
  <2> SUFFICES ASSUME QueueInv, OrderInv, empty, NEW b \in Address
               PROVE  mem[b \div 8][b % 8] = shadow[b]
    BY DEF QuietMemory
  <2>1. Len(ongoing) = 0
    BY Lengths DEF QueueInv, empty
  <2>2. memBytes = shadow
    BY <2>1 DEF OrderInv, History
  <2> QED
    BY <2>2 DEF memBytes
<1> QED
  BY <1>1, OrderHolds, PTL
-----------------------------------------------------------------------------
(* MemLanes.  Every word is one of eight lanes, and reset goes back to     *)
(* zeros.                                                                  *)
WordsInv ==
  /\ mem = [i \in 0 .. Words - 1 |-> [k \in Lane |-> mem[i][k]]]
  /\ saved_mem = Blank

(* Each byte's address has a word and a lane.                              *)
LEMMA PlaceOf ==
  ASSUME NEW b \in Address
  PROVE  b \in Nat /\ b \div 8 \in 0 .. Words - 1 /\ b % 8 \in Lane
BY WordsAssumption DEF Address, Size, Lane

(* Both clients put the first n bytes of a word where they belong.         *)
LEMMA StoreBytes ==
  ASSUME WordsInv, NEW n \in Width, NEW a \in Address, Aligned(n, a), NEW v, NEW mask,
         mask = {k \in Lane : k - (a % 8) \in 0 .. n - 1},
         store(a, ShiftUp(v, a % 8), mask)
  PROVE  /\ WordsInv'
         /\ bytesBar' = [b \in Address |-> IF b \in a .. a + n - 1 THEN v[b - a]
                                           ELSE bytesBar[b]]
<1> DEFINE data == ShiftUp(v, a % 8)
           new == [k \in Lane |-> IF k \in mask THEN data[k] ELSE mem[a \div 8][k]]
<1>1. mem' = [mem EXCEPT ![a \div 8] = new] /\ saved_mem' = saved_mem
  BY DEF store
<1>2. a \in Nat /\ a \div 8 \in 0 .. Words - 1 /\ a % 8 \in Lane /\ n \in Nat
  BY PlaceOf DEF Width
<1>3. \A i \in 0 .. Words - 1 : mem'[i] = IF i = a \div 8 THEN new ELSE mem[i]
  BY <1>1 DEF WordsInv
<1>4. WordsInv'
  <2>1. \A i \in 0 .. Words - 1 : mem'[i] = [k \in Lane |-> mem'[i][k]]
    <3> SUFFICES ASSUME NEW i \in 0 .. Words - 1
                 PROVE  mem'[i] = [k \in Lane |-> mem'[i][k]]
      OBVIOUS
    <3>1. CASE i = a \div 8
      BY <1>3, <3>1
    <3>2. CASE i # a \div 8
      <4>1. mem[i] = [k \in Lane |-> mem[i][k]]
        BY DEF WordsInv
      <4> QED
        BY <1>3, <3>2, <4>1
    <3> QED
      BY <3>1, <3>2
  <2>2. mem' = [i \in 0 .. Words - 1 |-> mem'[i]]
    BY <1>1 DEF WordsInv
  <2> QED
    BY <1>1, <2>1, <2>2 DEF WordsInv, Blank
<1>5. ASSUME NEW b \in Address
      PROVE  mem'[b \div 8][b % 8] = IF b \in a .. a + n - 1 THEN v[b - a]
                                    ELSE mem[b \div 8][b % 8]
  <2>1. b \in Nat /\ b \div 8 \in 0 .. Words - 1 /\ b % 8 \in Lane
    BY PlaceOf
  <2>2. /\ b \in a .. a + n - 1 <=> b \div 8 = a \div 8 /\ (b % 8) - (a % 8) \in 0 .. n - 1
        /\ b \in a .. a + n - 1 => (b % 8) - (a % 8) = b - a
    BY <1>2, <2>1, BytesOfAccess
  <2>3. b % 8 \in mask <=> (b % 8) - (a % 8) \in 0 .. n - 1
    BY <2>1
  <2>4. CASE b \div 8 = a \div 8
    <3>1. mem'[b \div 8][b % 8] = IF b % 8 \in mask THEN data[b % 8] ELSE mem[b \div 8][b % 8]
      BY <1>3, <2>1, <2>4
    <3>2. data[b % 8] = IF b % 8 >= a % 8 THEN v[(b % 8) - (a % 8)] ELSE 0
      BY <2>1 DEF ShiftUp
    <3>3. ASSUME b \in a .. a + n - 1 PROVE b % 8 >= a % 8
      BY <1>2, <2>1, <2>2, <3>3 DEF Lane
    <3> QED
      BY <2>2, <2>3, <2>4, <3>1, <3>2, <3>3
  <2>5. CASE b \div 8 # a \div 8
    BY <1>3, <2>1, <2>2, <2>5
  <2> QED
    BY <2>4, <2>5
<1> QED
  BY <1>4, <1>5 DEF bytesBar

(* A store of mem.sv is one of bytes.                                      *)
LEMMA CoreStores ==
  ASSUME WordsInv, NEW n \in Width, NEW a \in Address, NEW v, CoreStore(n, a, v)
  PROVE  WordsInv' /\ Bytes!Store(n, a, v)
<1>1. Aligned(n, a) /\ a \in Nat /\ store(a, data_t(a, v), device_mask(strobe(n, a)))
  BY PlaceOf DEF CoreStore
<1>2. data_t(a, v) = ShiftUp(v, a % 8)
  BY DEF data_t, Offset
<1>3. strobe(n, a) = {k \in Lane : k - (a % 8) \in 0 .. n - 1}
  <2>1. CASE n = 8
    <3>1. a % 8 = 0
      BY <1>1, <2>1 DEF Aligned
    <3>2. \A k \in Lane : k - (a % 8) \in 0 .. n - 1
      BY <2>1, <3>1 DEF Lane
    <3> QED
      BY <2>1, <3>2 DEF strobe
  <2>2. CASE n # 8
    BY <2>2 DEF strobe, Offset
  <2> QED
    BY <2>1, <2>2
<1>4. device_mask(strobe(n, a)) = {k \in Lane : k - (a % 8) \in 0 .. n - 1}
  <2>1. strobe(n, a) \in SUBSET Lane
    BY <1>3
  <2>2. device_mask(strobe(n, a)) = strobe(n, a)
    BY <2>1, DeviceMask, Zenon
  <2> QED
    BY <1>3, <2>2, Zenon
<1>5. /\ WordsInv'
      /\ bytesBar' = [b \in Address |-> IF b \in a .. a + n - 1 THEN v[b - a] ELSE bytesBar[b]]
  BY <1>1, <1>2, <1>4, StoreBytes
<1> QED
  BY <1>5 DEF Bytes!Store, CoreStore, bytesBar

(* A store of the test bench is one of bytes.                              *)
LEMMA BenchStores ==
  ASSUME WordsInv, NEW n \in Width, NEW a \in Address, NEW v, BenchStore(n, a, v)
  PROVE  WordsInv' /\ Bytes!Store(n, a, v)
<1>1. /\ Aligned(n, a) /\ a \in Nat
      /\ store(a, place(parse(n, a), v), device_mask(OpStrobe(parse(n, a))))
  BY PlaceOf DEF BenchStore
<1>2. parse(n, a) = [width |-> n, shift |-> a % 8]
  BY <1>1, InOneWord
<1>3. /\ place(parse(n, a), v) = ShiftUp(v, a % 8)
      /\ OpStrobe(parse(n, a)) = {k \in Lane : k - (a % 8) \in 0 .. n - 1}
  BY <1>2 DEF place, OpStrobe
<1>4. device_mask(OpStrobe(parse(n, a))) = {k \in Lane : k - (a % 8) \in 0 .. n - 1}
  <2>1. OpStrobe(parse(n, a)) \in SUBSET Lane
    BY <1>3
  <2>2. device_mask(OpStrobe(parse(n, a))) = OpStrobe(parse(n, a))
    BY <2>1, DeviceMask, Zenon
  <2> QED
    BY <1>3, <2>2, Zenon
<1>5. /\ WordsInv'
      /\ bytesBar' = [b \in Address |-> IF b \in a .. a + n - 1 THEN v[b - a] ELSE bytesBar[b]]
  BY <1>1, <1>3, <1>4, StoreBytes
<1> QED
  BY <1>5 DEF Bytes!Store, BenchStore, bytesBar

(* The lanes a load takes are the bytes from its address on.               *)
LEMMA LanesAreBytes ==
  ASSUME WordsInv, NEW n \in Width, NEW a \in Address, Aligned(n, a), NEW k \in 0 .. n - 1
  PROVE  /\ (a % 8) + k \in Lane /\ a + k \in Address
         /\ bytesBar[a + k] = load(a)[(a % 8) + k]
<1>1. /\ a \in Nat /\ a % 8 \in Lane /\ a \div 8 \in Nat
      /\ a = 8 * (a \div 8) + (a % 8) /\ (a % 8) + n <= 8 /\ n \in Nat
  BY PlaceOf, InOneWord DEF Width
<1>2. a \div 8 \in 0 .. Words - 1
  BY PlaceOf
<1>3. (a % 8) + k \in Lane
  BY <1>1 DEF Lane
<1>4. a + k \in Address
  <2>1. 8 * (a \div 8) + 8 <= 8 * Words
    BY <1>2, WordsAssumption
  <2> QED
    BY <1>1, <2>1, WordsAssumption DEF Address, Size
<1>5. (a + k) \div 8 = a \div 8 /\ (a + k) % 8 = (a % 8) + k
  BY <1>1, BytesOfAccess
<1> QED
  BY <1>3, <1>4, <1>5 DEF bytesBar, load

(* A load of mem.sv returns the bytes, extended.                           *)
LEMMA CoreLoads ==
  ASSUME WordsInv, NEW n \in Width, NEW signed \in BOOLEAN, NEW a \in Address,
         CoreLoad(n, signed, a)
  PROVE  WordsInv' /\ Bytes!Load(n, signed, a)
<1>1. /\ Aligned(n, a) /\ loaded' = dmem_out(n, signed, a, load(a))
      /\ UNCHANGED <<mem, saved_mem>>
  BY DEF CoreLoad, memVars
<1>2. n \in Nat \ {0} /\ a \in Nat /\ a \div 8 \in 0 .. Words - 1
  BY PlaceOf DEF Width
<1>3. \A k \in 0 .. n - 1 : bytesBar[a + k] = load(a)[(a % 8) + k]
  BY <1>1, LanesAreBytes
<1>4. loaded' = [k \in Lane |-> IF k < n THEN bytesBar[a + k] ELSE Fill(signed, bytesBar[a + n - 1])]
  <2>1. CASE n = 8
    <3>1. a % 8 = 0
      BY <1>1, <1>2, <2>1 DEF Aligned
    <3>2. load(a) = [k \in Lane |-> load(a)[k]]
      BY <1>2 DEF WordsInv, load
    <3>3. \A k \in Lane : k < n /\ load(a)[k] = bytesBar[a + k]
      BY <1>3, <2>1, <3>1 DEF Lane
    <3> QED
      BY <1>1, <2>1, <3>2, <3>3 DEF dmem_out
  <2>2. CASE n # 8
    <3>1. n - 1 \in 0 .. n - 1 /\ a + (n - 1) = a + n - 1 /\ (a % 8) + (n - 1) = (a % 8) + n - 1
      BY <1>2
    <3>2. bytesBar[a + n - 1] = load(a)[(a % 8) + n - 1]
      BY <1>3, <3>1
    <3>3. \A k \in Lane : k < n => bytesBar[a + k] = load(a)[(a % 8) + k]
      BY <1>2, <1>3 DEF Lane
    <3> QED
      BY <1>1, <2>2, <3>2, <3>3 DEF dmem_out, Offset
  <2> QED
    BY <2>1, <2>2
<1>5. WordsInv' /\ bytesBar' = bytesBar
  BY <1>1 DEF WordsInv, bytesBar
<1> QED
  BY <1>4, <1>5 DEF Bytes!Load, Bytes!Lane, Lane, Bytes!Fill, Fill

(* A load of the test bench returns the bytes, and zeros.                  *)
LEMMA BenchLoads ==
  ASSUME WordsInv, NEW n \in Width, NEW a \in Address, BenchLoad(n, a)
  PROVE  WordsInv' /\ Bytes!Load(n, FALSE, a)
<1>1. /\ Aligned(n, a) /\ loaded' = applyTo(parse(n, a), load(a), ZeroWord)
      /\ UNCHANGED <<mem, saved_mem>>
  BY DEF BenchLoad, memVars
<1>2. n \in Nat \ {0} /\ a \in Nat /\ a % 8 \in Lane
  BY PlaceOf DEF Width
<1>3. parse(n, a) = [width |-> n, shift |-> a % 8]
  BY <1>1, <1>2, InOneWord
<1>4. apply(parse(n, a), load(a)) = ShiftDown(load(a), a % 8)
  BY <1>2, <1>3 DEF apply, DISCARD
<1>5. ASSUME NEW k \in Lane, k < n
      PROVE  ShiftDown(load(a), a % 8)[k] = bytesBar[a + k]
  <2>1. k \in 0 .. n - 1 /\ k + (a % 8) = (a % 8) + k
    BY <1>2, <1>5 DEF Lane
  <2>2. (a % 8) + k \in Lane /\ bytesBar[a + k] = load(a)[(a % 8) + k]
    BY <1>1, <2>1, LanesAreBytes
  <2> QED
    BY <2>1, <2>2 DEF ShiftDown
<1>6. loaded' = [k \in Lane |-> IF k < n THEN bytesBar[a + k] ELSE 0]
  BY <1>1, <1>3, <1>4, <1>5 DEF applyTo, ZeroWord
<1>7. WordsInv' /\ bytesBar' = bytesBar
  BY <1>1 DEF WordsInv, bytesBar
<1> QED
  BY <1>6, <1>7 DEF Bytes!Load, Bytes!Lane, Lane, Bytes!Fill

(* A blank memory is blank in every byte.                                  *)
LEMMA BlankBytes ==
  ASSUME mem = Blank
  PROVE  /\ mem = [i \in 0 .. Words - 1 |-> [k \in Lane |-> mem[i][k]]]
         /\ bytesBar = [b \in Address |-> 0]
BY PlaceOf DEF Blank, ZeroWord, bytesBar

ByteStep ==
  \/ \E n \in Width, a \in Address :
       /\ Aligned(n, a)
       /\ \/ \E v \in Value : Bytes!Store(n, a, v)
          \/ \E signed \in BOOLEAN : Bytes!Load(n, signed, a)
  \/ bytesBar' = [b \in Address |-> 0] /\ UNCHANGED loaded

(* Every access maps to one of the memory of bytes.                        *)
LEMMA LanesSteps ==
  ASSUME WordsInv, [LanesNext]_lanesVars
  PROVE  WordsInv' /\ [ByteStep]_<<bytesBar, loaded>>
<1>1. CASE LanesReset
  <2>1. mem' = Blank /\ saved_mem' = Blank /\ loaded' = loaded
    BY <1>1 DEF LanesReset, reset, WordsInv
  <2>2. WordsInv' /\ bytesBar' = [b \in Address |-> 0]
    BY <2>1, PlaceOf DEF WordsInv, Blank, ZeroWord, bytesBar
  <2> QED
    BY <2>1, <2>2 DEF ByteStep
<1>2. CASE \E n \in Width, a \in Address, v \in Value : CoreStore(n, a, v) \/ BenchStore(n, a, v)
  <2>1. PICK n \in Width, a \in Address, v \in Value : CoreStore(n, a, v) \/ BenchStore(n, a, v)
    BY <1>2
  <2>2. WordsInv' /\ Bytes!Store(n, a, v)
    BY <2>1, CoreStores, BenchStores
  <2>3. Aligned(n, a)
    BY <2>1 DEF CoreStore, BenchStore
  <2> QED
    BY <2>2, <2>3 DEF ByteStep
<1>3. CASE \E n \in Width, a \in Address, signed \in BOOLEAN : CoreLoad(n, signed, a)
  <2>1. PICK n \in Width, a \in Address, signed \in BOOLEAN : CoreLoad(n, signed, a)
    BY <1>3
  <2>2. WordsInv' /\ Bytes!Load(n, signed, a)
    BY <2>1, CoreLoads
  <2>3. Aligned(n, a)
    BY <2>1 DEF CoreLoad
  <2> QED
    BY <2>2, <2>3 DEF ByteStep
<1>4. CASE \E n \in Width, a \in Address : BenchLoad(n, a)
  <2>1. PICK n \in Width, a \in Address : BenchLoad(n, a)
    BY <1>4
  <2>2. WordsInv' /\ Bytes!Load(n, FALSE, a)
    BY <2>1, BenchLoads
  <2>3. Aligned(n, a)
    BY <2>1 DEF BenchLoad
  <2> QED
    BY <2>2, <2>3 DEF ByteStep
<1>5. CASE UNCHANGED lanesVars
  BY <1>5 DEF lanesVars, memVars, WordsInv, bytesBar
<1> QED
  BY <1>1, <1>2, <1>3, <1>4, <1>5 DEF LanesNext

(* Whatever the core (mem.sv:57-63) and the test bench (bus.h:722-777)     *)
(* store and load, in any widths, order and number, a memory of any size   *)
(* is one of bytes: no lane is lost, moved, or seen by one of them only.   *)
THEOREM MemoryIsOfBytes == LanesSpec => ImplementsByteMemory
<1>1. LanesInit => WordsInv
  BY BlankBytes DEF LanesInit, MemInit, WordsInv
<1>2. LanesSpec => [][ByteStep]_<<bytesBar, loaded>>
  BY <1>1, LanesSteps, PTL DEF LanesSpec
<1> QED
  BY <1>2 DEF ImplementsByteMemory, ByteStep
=============================================================================
